CONSTANTS
  Size = 5
  Byte = {0, 1}
  MaxBatch = 3
SPECIFICATION Spec
INVARIANTS TypeOK RingConsistent
PROPERTY ImplementsFifo
