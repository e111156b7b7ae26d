SPECIFICATION Spec
CONSTANTS
  Levels = 2
  NIndex = 4
  KernelEnd = 4
  UserStart = 4
  UserEnd = 12
  MmioStart = 12
  Pool = {1, 2, 3, 4, 5, 6, 7}
  Space = {0, 1}
  ClientPage = {3, 4, 5, 8}
  Frame = {31}
INVARIANTS KernelMapped TablesAccounted
PROPERTIES KernelTablesFixed ImplementsView
CHECK_DEADLOCK FALSE
