SPECIFICATION Spec
CONSTANTS
  CPU = {0, 1}
  Heap = {8, 9, 10, 11, 12, 13, 14, 15, 16, 17, 18, 19, 20, 21, 22, 23, 24, 25}
  PageSize = 8
  SmallClass = {2}
  HugeClass = {4}
INVARIANTS NoOverlap Accounted Separate
