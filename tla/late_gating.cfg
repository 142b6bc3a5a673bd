\* The gating Sequences set after the first claims.
SPECIFICATION Spec

CONSTANTS
  BufferSize = 2
  LongMax = 100
  WaitOption = "kBusySpinStrategy"
  ClaimOption = "kSingleThreadClaimStrategy"
  NoThread = "none"
  Consumers <- Single
  Dependents <- UnicastDependents
  Barriers <- Single
  BarrierOf <- OwnBarrier
  Gating <- Single
  GatingFirst = FALSE
  BatchSizes = {1}
  Overloads = {"translator", "move"}
  MaxSequence = 5
  Stoppable <- None
  StopAfterStart = TRUE
  MaxRuns = 1

INVARIANT GatingRespected
