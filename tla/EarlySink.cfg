CONSTANTS
  Events = {0, 1, 2, 3, 4}
  NoEvent = NoEvent
  Null = Null
  MaxExhaustion = 2
  Capacity = 5
  Warmup = 2
  Measured = 3
  Trials = 3
SPECIFICATION Spec
INVARIANTS
  ResetAlone
