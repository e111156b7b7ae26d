SPECIFICATION Spec
CONSTANTS
  CPU = {0}
  PageSize = 16
  MinSize = 2
  MaxSmall = 4
  SizeClass = {2, 4, 8}
  MaxHuge = 8
  HeapStart = 16
  HeapEnd = 40
  Request = {1}
  SmallQuota = 7
  HugeQuota = 0
  CanFree = TRUE
  FreeBound = 0
  RemoteFree = FALSE
INVARIANT LiveDataIntact
