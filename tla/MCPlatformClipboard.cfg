\* Both builds, SetText against Monitor, three writes and one read that fails.
CONSTANTS
  Empty = Empty
  NoHash = NoHash
  NoFile = NoFile
  Unreadable = Unreadable
  a = a
  b = b
  c1 = c1
  Bytes <- MCBytes
  Clip <- MCClip
  Caller <- MCCaller
  MaxWrites = 3
  MaxFailures = 1
SPECIFICATION Spec
INVARIANTS TypeOK EchoSuppressed
PROPERTIES FaithfulSample CatchesUp MonitorEndsAlone
CHECK_DEADLOCK FALSE
