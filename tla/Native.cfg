CONSTANTS
  KThread = {1, 2}
  UThread = {3, 4}
  Boot = 1
  Space = {1, 2}
  UserPage = {p, q}
  Frame = {21}
  Write = {FALSE}
  Junk = {3}
  KeyQueueLen = 3
  MaxKeys = 4
SPECIFICATION Spec
INVARIANTS UserInOwnSpace EventIsCause KeysKept
PROPERTY ImplementsView
SYMMETRY Interchangeable
