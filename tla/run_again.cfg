\* A processor that is run again after a Stop.
SPECIFICATION Spec

CONSTANTS
  BufferSize = 2
  LongMax = 100
  WaitOption = "kBusySpinStrategy"
  ClaimOption = "kSingleThreadClaimStrategy"
  NoThread = "none"
  Consumers <- Single
  Dependents <- UnicastDependents
  Barriers <- Single
  BarrierOf <- OwnBarrier
  Gating <- Single
  GatingFirst = TRUE
  BatchSizes = {1}
  Overloads = {"translator", "move"}
  MaxSequence = 1
  Stoppable <- Single
  StopAfterStart = TRUE
  MaxRuns = 2

INVARIANT HandlesPublished
