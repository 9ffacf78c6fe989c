CONSTANTS
  PCINIT = 0
  PAGE_SIZE = 16
  NoInstr = NoInstr
  NoOp = NoOp
  LANES = 1
  BYTE = 4
  Page = {0, 1}
  Index = {0, 1}
  Offset = {0, 4, 8}
  Data <- MCStored
  NoData = NoData
  NoRequest = NoRequest
  VERILATOR = FALSE
  Ops <- MCOps
  Ptes <- MCPtes
  PCs <- MCPCs
  Satps <- MCSatps
  RATIO = 4
  BRAM_DELAY = 2
  BIT_TMR_MAX = 3
  BIT_INDEX_MAX = 3
  LENGTH = 2
  TX_DATA <- MCTx
  FINISH_ADDR <- MCFinish
  DADDR <- MCData
SPECIFICATION BoardSpec
INVARIANTS FreshAnswer OneByteEach
PROPERTIES FetchAnswered MemAnswered
