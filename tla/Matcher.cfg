CONSTANTS
  OrderIds = {i1, i2, i3, i4}
  Prices = {1, 2}
  Clients = {c1, c2}
  MaxQty = 2
  OrderSlots = {o1, o2, o3}
  LevelSlots = {l1, l2}
  Null = Null
  Modes = {"PRICE_TIME", "PRO_RATA"}
SYMMETRY Symmetry
SPECIFICATION Spec
INVARIANTS
  PointersLive
  NeverCrossed
  FillsAddUp
  PriorityRespected
  FillOrKill
  NothingLeftToTrade
  RemainderAccountedFor
  ProRataFair
PROPERTIES
  SweepAdvances
