\* Sightings, expiry, sends and the own announcement, at every moment and without end.
CONSTANTS
  far = far
  own = own
  here = here
  hereDot = hereDot
  thereDot = thereDot
  a4 = a4
  a6 = a6
  lo6 = lo6
  i1 = i1
  Service <- MCBoth
  HostOf <- MCHostOf
  OwnService = own
  LocalHost = here
  Addr4 <- MCAddr4
  Addr6 <- MCAddr6
  Own6 <- MCOwn6
  Unusable <- MCUnusable
  Item <- MCItem
SPECIFICATION Spec
INVARIANTS TypeOK ActivityFollowsAge
PROPERTIES FreshTargets
CHECK_DEADLOCK FALSE
