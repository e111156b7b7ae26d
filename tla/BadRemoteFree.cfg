SPECIFICATION Spec
CONSTANTS
  CPU = {0, 1}
  PageSize = 16
  MinSize = 2
  MaxSmall = 4
  SizeClass = {2, 4, 8}
  MaxHuge = 8
  HeapStart = 16
  HeapEnd = 64
  Request = {1}
  SmallQuota = 2
  HugeQuota = 0
  CanFree = TRUE
  FreeBound = 0
  RemoteFree = TRUE
INVARIANT LiveDataIntact
