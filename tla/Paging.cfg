SPECIFICATION Spec
CONSTANTS
  ENTRIES = 18
  DIRS = 4
  KERNEL_DIR = 3
  FRAMES = 32
  PHYS_LEVELS = 4
  OSI_LEVELS = 3
  WORD = 4
  BYTE = 2
  END_KERNEL = 16
  HEAP_START = 4
  VGA = 12
  TEXT = 13
  MAX_KERNEL_HEAP_SIZE = 2
  MAX_ACPICA_SIZE = 16
  USER_STACK_PAGE = 53
  IdentityFrames = {12}
  AcpiFrames = {1}
  Files <- ProgramFiles
  MaxRegions = 1
  MaxProcesses = 2
INVARIANTS
  TypeOK
  PagingNeverFaults
  ProgramsIsolated
  ProgramLoaded
  CurrentSpaceLoaded
  FixedMappingsStay
PROPERTIES
  ImplementsAddressSpaces
CHECK_DEADLOCK FALSE
