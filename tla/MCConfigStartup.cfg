\* Starts, crashes and failures at every step of the setup.
CONSTANTS
  ann = ann
  cut = cut
  Cut = cut
  Blank = Blank
  NoFile = NoFile
  EmptyFile = EmptyFile
  NoConfig = NoConfig
  Garbled = Garbled
  Name <- MCName
  MaxFaults = 5
SPECIFICATION Spec
INVARIANTS TypeOK FlagMeansSaved RunsAsAnswered
PROPERTIES SetupOnce StartsInTheEnd
CHECK_DEADLOCK FALSE
