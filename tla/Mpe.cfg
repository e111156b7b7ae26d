SPECIFICATION FairSpec
CONSTANTS
  NCPU = 4
  Halters = {0, 1, 2, 3}
INVARIANTS RunsInitialised BootStackExclusive StoppedStays
PROPERTIES AllRun HaltPowersOff
CHECK_DEADLOCK FALSE
