SPECIFICATION FairSpec
CONSTANTS
  CPU = {0, 1}
  PageSize = 8
  MinSize = 2
  MaxSmall = 2
  SizeClass = {2, 4}
  MaxHuge = 4
  HeapStart = 8
  HeapEnd = 24
  Request = {1, 3}
  SmallQuota = 2
  HugeQuota = 1
  CanFree = TRUE
  FreeBound = 0
  RemoteFree = FALSE
INVARIANTS LiveDataIntact SmallZeroed StaysInHeap
PROPERTIES NullMeansFull ImplementsAlloc OwnPagesWaitFree
