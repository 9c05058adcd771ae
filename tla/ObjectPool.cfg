CONSTANTS
  N = 4
  MaxExhaustion = 2
SPECIFICATION Spec
INVARIANTS
  FreeListExact
PROPERTIES
  RefinesSlotPool
