SPECIFICATION FairSpec
CHECK_DEADLOCK FALSE
CONSTANTS
  c1 = c1
  c2 = c2
  x = x
  q1 = q1
  q2 = q2
  Conns <- TwoConns
  Keys <- OneKey
  Book <- Books
  PageSize = 2
  Linkable <- Linked
  Requests <- TwoRequests
  Loads <- BothLoads
INVARIANTS
  RowsOK
  SyncedIsCurrent
  DeletedStaysDeleted
PROPERTIES
  EditsKept
  SyncEnds
