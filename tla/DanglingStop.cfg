CONSTANTS
  Events = {1}
  NoEvent = 0
  NoOrder = 0
  Null = Null
  MaxExhaustion = 0
  Capacity = 1
  Attempts = 2
  MaxOrders = 1
  NumFrames = 3
  FillSize = 2
  RxSize = 2
  BatchSize = 2
  MaxPackets = 1
  MaxSignals = 2
SPECIFICATION Spec
INVARIANTS
  NeverOutlivesStopSource
