SPECIFICATION FinanceSpec
CHECK_DEADLOCK FALSE
CONSTANTS
  q1 = q1
  q2 = q2
  Files <- TwoFiles
  Manual <- ByHand
  Patches <- OnePatch
  Types <- OneType
  Requests <- TwoRequests
  MaxNumber = 3
  MaxRead = 2
  Storages <- BothStorages
  Loads <- BothLoads
  Price <- Prices
  Kind <- Kinds
  Cash <- CashSymbols
  Rule <- Rules
  Spelling <- Spellings
  MonthOf <- Calendar
  Statements <- TwoStatements
  Entries <- OneEntry
  Profiles <- TwoProfiles
  Years = 1
  MaxEdits = 1
SYMMETRY Symmetry
INVARIANTS
  StoreOK
  NoDuplicates
  EngineAgrees
  AdvisorAgrees
  ReimportIsSeen
