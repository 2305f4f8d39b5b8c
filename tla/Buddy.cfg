SPECIFICATION Spec
CONSTANTS
  number_of_levels = 3
  num_of_lowest_mem_size_in_allocator = 16
  WORD = 4
  BYTE = 2
  MAX_HOLDERS = 2
  Instances <- AllInstances
INVARIANTS
  TypeOK
  LiveBlocksDisjoint
  ReservedStaysFree
  FreePageIsFound
CHECK_DEADLOCK FALSE
