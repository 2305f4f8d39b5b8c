SPECIFICATION FairSpec
CONSTANTS
  SPIN_LIMIT = 2
  SECTORS = 2
  Sectors = {0, 2, 16777218}
INVARIANTS
  TypeOK
  ReadGivesSectors
PROPERTIES
  BufferOnlyWhileReading
  CallsReturn
