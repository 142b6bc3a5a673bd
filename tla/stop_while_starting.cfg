\* Stop between the store to _running and SetAlerted(false).
SPECIFICATION FairSpec

CONSTANTS
  BufferSize = 2
  LongMax = 100
  WaitOption = "kBusySpinStrategy"
  ClaimOption = "kSingleThreadClaimStrategy"
  NoThread = "none"
  Consumers <- Single
  Dependents <- UnicastDependents
  Barriers <- Single
  BarrierOf <- OwnBarrier
  Gating <- Single
  GatingFirst = TRUE
  BatchSizes = {1}
  Overloads = {"translator", "move"}
  MaxSequence = 1
  Stoppable <- Single
  StopAfterStart = FALSE
  MaxRuns = 1

PROPERTY StopJoins
