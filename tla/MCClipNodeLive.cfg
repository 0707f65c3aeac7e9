\* What Monitor reports, and what must happen in the end, with one peer, a user and
\* a read that fails.
CONSTANTS
  Empty = Empty
  NoSource = NoSource
  t1 = t1
  k1 = k1
  k2 = k2
  here = here
  there = there
  Nothing = Nothing
  Unreadable = Unreadable
  Text <- MCText
  Conn <- MCOneConn
  ItemType <- MCItemType
  Host <- MCHost
  LocalHostID = here
  MaxWrites = 2
  MaxMisreads = 1
  Capacity = 2
SPECIFICATION Spec
INVARIANTS TypeOK StreamInOrder NothingLost
PROPERTIES HistoryCatchesUp ShutdownEnds
CHECK_DEADLOCK FALSE
