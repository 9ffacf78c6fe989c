CONSTANTS
  NoAddress = NoAddress
  NoRequest = NoRequest
  NoDest = NoDest
  NoChar = NoChar
  saved_mem <- MCMemory
  LOG_MAX_BUFFER_SIZE = 2
  Tests <- MCTests
  Dests = {"u"}
  MaxTests = 2
  MaxCalls = 3
SPECIFICATION Spec
INVARIANTS CharsOnce SaidOnce NumbersNoticed CleanHandover
PROPERTIES InProgramOrder WaitsEnd
