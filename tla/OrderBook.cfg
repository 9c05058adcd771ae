CONSTANTS
  OrderIds = {i1, i2, i3, i4}
  Prices = {1, 2}
  Clients = {c1}
  MaxQty = 3
  OrderSlots = {o1, o2, o3}
  LevelSlots = {l1, l2}
  Null = Null
SYMMETRY Symmetry
SPECIFICATION MCSpec
INVARIANTS
  BookTypeOK
  IndexExact
  LevelsMapped
  ListsLinked
  LevelTotals
PROPERTIES
  RefinesLimitOrderBook
