\* Entries of the node's own service, with the addresses and the name mDNS reports.
CONSTANTS
  far = far
  own = own
  here = here
  hereDot = hereDot
  thereDot = thereDot
  a4 = a4
  a6 = a6
  lo6 = lo6
  i1 = i1
  Service <- MCBoth
  HostOf <- MCHostOf
  OwnService = own
  LocalHost = here
  Addr4 <- MCAddr4
  Addr6 <- MCAddr6
  Own6 <- MCOwn6
  Unusable <- MCUnusable
  Item <- MCItem
SPECIFICATION Spec
INVARIANTS SkipsItself
CHECK_DEADLOCK FALSE
