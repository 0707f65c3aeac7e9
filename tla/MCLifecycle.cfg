\* Every step of the start fails once or not, signals come at any time, and the
\* library reports three times while a node runs.
CONSTANTS
  s1 = s1
  s2 = s2
  i1 = i1
  i2 = i2
  global = global
  local = local
  Service <- MCService
  ChanSize = 1
  MaxReports = 3
  Interface <- MCInterface
  Addr <- MCAddr
  LinkLocal <- MCLinkLocal
  Link <- MCLink
  MaxChanges = 1
SPECIFICATION Spec
INVARIANTS TypeOK Ready CleanExit EntriesInOrder
PROPERTIES EntriesArrive
CHECK_DEADLOCK FALSE
