CONSTANTS
  PCINIT = 0
  PAGE_SIZE = 16
  NoInstr = NoInstr
  NoOp = NoOp
  LANES = 1
  BYTE = 4
  Page = {0}
  Index = {0}
  Offset = {0, 4}
  Data <- MCStored
  NoData = NoData
  NoRequest = NoRequest
  VERILATOR = TRUE
  PCs <- MCPCs
  Ops <- MCOps
  Ptes <- MCPtes
  Satps <- MCSatps
SPECIFICATION Safety
INVARIANTS Lockstep StillAsked OneSlot FreshFetch ExactlyOnce
