\* Two items are kept of three keys; list elements are recycled.
CONSTANTS
  k1 = k1
  k2 = k2
  k3 = k3
  v1 = v1
  v2 = v2
  c1 = c1
  c2 = c2
  e1 = e1
  e2 = e2
  e3 = e3
  Key <- MCKey
  Value <- MCValue
  Caller <- MCCaller
  Element <- MCElement
  NoValue = NoValue
  Size = 2
  MaxClears = 1
SYMMETRY MCSymmetry
SPECIFICATION HistorySpec
INVARIANTS TypeOK Consistent CacheHoldsItems ClearedIsGone AddedIsFound
PROPERTY IsRecentItems
