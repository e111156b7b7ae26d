SPECIFICATION CarefulSpec
CONSTANTS
  CPU = {0}
  PageSize = 16
  MinSize = 2
  MaxSmall = 4
  SizeClass = {2, 4, 8, 16}
  MaxHuge = 8
  HeapStart = 16
  HeapEnd = 68
  Request = {1,3}
  SmallQuota = 5
  HugeQuota = 0
  CanFree = TRUE
  FreeBound = 5
  RemoteFree = FALSE
INVARIANTS LiveDataIntact ListsEnd SlotsApart
CHECK_DEADLOCK FALSE
