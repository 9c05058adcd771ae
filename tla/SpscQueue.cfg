CONSTANTS
  N = 4
  Items = {a, b}
  Nothing = Nothing
  MaxPushes = 9
SPECIFICATION Spec
INVARIANTS
  SlotNotShared
PROPERTIES
  RefinesBoundedFifo
