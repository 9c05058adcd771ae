CONSTANTS
  Events = {0, 1, 2, 3, 4}
  NoEvent = NoEvent
  Null = Null
  MaxExhaustion = 1
  Capacity = 1
  Warmup = 2
  Measured = 3
  Trials = 2
SPECIFICATION Spec
INVARIANTS
  ResetLag
  SinkOutlivesUse
  VerdictSound
PROPERTIES
  BenchmarkEnds
