SPECIFICATION Spec
CONSTANTS
  Keys = {0, 2}
  Data = {d1, d2}
  hash_function <- Hash
  HASHMAP_RESIZE_FACTOR = 2
  HASHMAP_LOAD_FACTOR = 2
  HASHMAP_STARTING_NUM_OF_BUCKETS = 1
  Addresses = {1, 2, 3, 4, 5}
  None = None
SYMMETRY Symmetric
INVARIANTS
  TypeOK
  ChainsSound
PROPERTIES
  ImplementsMultiMap
CHECK_DEADLOCK FALSE
