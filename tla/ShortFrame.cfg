CONSTANTS
  Word = 8
  MaxOrders = 1
  Lengths = {13, 14, 17, 18, 33, 34, 41, 42, 71, 72, 75, 76, 79, 80, 100}
  HeaderWords = {4, 5, 6}
  TotalLengths = {57, 58, 62, 66}
  UdpLengths = {7, 30, 37, 38, 42}
  Latencies = {0}
  Counts = {0, 1}
  MaxRatio = 0
  Quantities = {}
  Sizes = {}
  Buffer = 0
  Warmup = 1
  Measured = 1
CHECK_DEADLOCK FALSE
SPECIFICATION Spec
INVARIANTS
  NoShortFrameRedirected
