\* Which texts are sent to the peers.
CONSTANTS
  Empty = Empty
  NoSource = NoSource
  t1 = t1
  k1 = k1
  k2 = k2
  here = here
  there = there
  Nothing = Nothing
  Unreadable = Unreadable
  Text <- MCText
  Conn <- MCOneConn
  ItemType <- MCItemType
  Host <- MCHost
  LocalHostID = here
  MaxWrites = 3
  MaxMisreads = 0
  Capacity = 1
SPECIFICATION Spec
INVARIANTS NetworkTextStays
CHECK_DEADLOCK FALSE
