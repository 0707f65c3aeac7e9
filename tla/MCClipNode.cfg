\* The composition: two peers, a user, a consumer and a signal.
CONSTANTS
  Empty = Empty
  NoSource = NoSource
  t1 = t1
  k1 = k1
  k2 = k2
  here = here
  there = there
  Nothing = Nothing
  Unreadable = Unreadable
  Text <- MCText
  Conn <- MCConn
  ItemType <- MCItemType
  Host <- MCHost
  LocalHostID = here
  MaxWrites = 2
  MaxMisreads = 0
  Capacity = 2
SYMMETRY MCSymmetry
SPECIFICATION Spec
INVARIANTS HistoryIsLatest TextsAsSent
CHECK_DEADLOCK FALSE
