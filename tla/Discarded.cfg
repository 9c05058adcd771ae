CONSTANTS
  OrderIds = {i1, i2, i3}
  Prices = {1, 2}
  Clients = {c1, c2}
  MaxQty = 2
  OrderSlots = {o1, o2}
  LevelSlots = {l1, l2}
  Null = Null
  Modes = {"PRICE_TIME"}
SYMMETRY Symmetry
SPECIFICATION Spec
INVARIANTS
  OnlyIocIsDiscarded
