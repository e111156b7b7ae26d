CONSTANTS
  KThread = {1, 2}
  UThread = {3, 4}
  Boot = 1
  S = 32
  Seed = {1}
  MaxWords = 3
  Soft = {14, 129}
  Line = {32, 33}
SPECIFICATION Spec
INVARIANTS UserOnOwnStack EntryCalled IrqAcknowledged
PROPERTY ResumesExactly
