\* Two connections in every order of connecting, sending and stopping.
CONSTANTS
  k1 = k1
  k2 = k2
  t1 = t1
  here = here
  there = there
  Conn <- MCConn
  ItemType <- MCItemType
  Text <- MCText
  Host <- MCHost
  LocalHostID = here
  Nothing = Nothing
  Unreadable = Unreadable
SPECIFICATION ServerSpec
INVARIANTS ServerTypeOK AtMostOneLate QuietShutdown OnlyForeignTexts
PROPERTIES PeersAreServed
CHECK_DEADLOCK FALSE
