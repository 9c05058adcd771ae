CONSTANTS
  Word = 8
  MaxOrders = 3
  Lengths = {13, 14, 17, 18, 33, 34, 41, 42, 71, 72, 75, 76, 79, 80, 100}
  HeaderWords = {4, 5, 6}
  TotalLengths = {57, 58, 62, 66}
  UdpLengths = {7, 30, 37, 38, 42}
  Latencies = {0, 1, 2}
  Counts = {0, 1, 9, 10, 99, 100, 999, 1000}
  MaxRatio = 3
  Quantities = {0, 1, 2}
  Sizes = {4, 5}
  Buffer = 3
  Warmup = 2
  Measured = 3
SPECIFICATION Spec
INVARIANTS
  AllocationComplete
  AllocationFair
  NoOrderPassedBy
  OrderInsidePayload
  PercentilesExact
  VerdictMonotone
  TargetsNamed
  ReadWhole
  DispatchedAsMeant
