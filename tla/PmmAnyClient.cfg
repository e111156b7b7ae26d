SPECIFICATION Spec
CONSTANTS
  CPU = {0, 1}
  PageSize = 8
  MinSize = 2
  MaxSmall = 2
  SizeClass = {2, 4, 8}
  MaxHuge = 4
  HeapStart = 8
  HeapEnd = 26
  Request = {1, 3, 5}
  SmallQuota = 3
  HugeQuota = 2
  CanFree = TRUE
  FreeBound = 2
  RemoteFree = TRUE
INVARIANTS TypeOK LockDiscipline
CHECK_DEADLOCK FALSE
