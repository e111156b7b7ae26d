SPECIFICATION Spec
CONSTANTS
  CPU = {0}
  PageSize = 16
  MinSize = 2
  MaxSmall = 4
  SizeClass = {2, 4, 8, 16}
  MaxHuge = 8
  HeapStart = 16
  HeapEnd = 80
  Request = {1, 3, 7, 9}
  SmallQuota = 2
  HugeQuota = 1
  CanFree = TRUE
  FreeBound = 0
  RemoteFree = FALSE
INVARIANTS SmallAligned
PROPERTIES ImplementsAlloc
