CONSTANTS
  Page = {0, 1}
  Index = {0, 1}
  Offset = {0}
  Data = {}
  NoData = NoData
  NoRequest = NoRequest
  VERILATOR = FALSE
  Satps <- MCSatps
  PageTables <- MCPageTables
SPECIFICATION Spec
INVARIANTS TypeOK IssuesTranslation FaultsAreReal
PROPERTY EveryRequestAnswered
