\* Two callers that log twice into a channel of two messages, and two closers.
CONSTANTS
  g1 = g1
  g2 = g2
  k1 = k1
  k2 = k2
  NoMessage = NoMessage
  Caller <- MCCaller
  Closer <- MCCloser
  Level <- MCLevel
  LogLevel = 1
  Capacity = 2
  MaxLogs = 2
SPECIFICATION Spec
INVARIANTS TypeOK NoPanic FlushedOnReturn
PROPERTIES CallsReturn
CHECK_DEADLOCK FALSE
