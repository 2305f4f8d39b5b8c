SPECIFICATION Spec
CONSTANTS
  BYTES_IN_WORD = 4
  MIN_BLOCK_SIZE = 2
  WORDS_IN_PAGE = 16
  MAX_KERNEL_HEAP_SIZE = 2
  ALLOCATED = 1000
  AnyShrink = FALSE
  Sizes <- HeapSizes
PROPERTIES
  FreeReturns
CHECK_DEADLOCK FALSE
