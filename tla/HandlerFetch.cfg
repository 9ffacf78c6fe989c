CONSTANTS
  PCINIT = 0
  PAGE_SIZE = 32
  XMOD = 16
  ROOT = 3
  NoInstr = NoInstr
  NoOp = NoOp
  LANES = 4
  BYTE = 2
  Page = {0, 1, 2, 3, 4, 5}
  Index = {0, 1, 2, 3}
  Offset = {0}
  Data = {}
  NoData = NoData
  NoRequest = NoRequest
  VERILATOR = TRUE
  DADDR = 64
  CODE <- MCFault
  PTE <- MCHole
  IRQ = {FALSE}
SPECIFICATION Safety
INVARIANT FetchPrivilege
