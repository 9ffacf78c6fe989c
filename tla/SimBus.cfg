CONSTANTS
  NoAddress = NoAddress
  NUM_INPUTS = 3
  Request <- MCRequest
  NoRequest = NoRequest
  Memory <- MCMemory
  Privs <- MCPrivs
SPECIFICATION BusSpec
INVARIANTS TypeOK SavedIsAsked BoundedOvertaking AtomicMemory
PROPERTY NoStarvation
