\* What Init says about a failed start.
CONSTANTS
  ann = ann
  cut = cut
  Cut = cut
  Blank = Blank
  NoFile = NoFile
  EmptyFile = EmptyFile
  NoConfig = NoConfig
  Garbled = Garbled
  Name <- MCName
  MaxFaults = 1
SPECIFICATION Spec
INVARIANTS InitTellsTheTruth
CHECK_DEADLOCK FALSE
