\* Liveness of a pipeline on the condition variable, stopped once started.
\* When the producer is done and both processors are stopped, nothing is left
\* to do.
SPECIFICATION FairSpec

CONSTANTS
  BufferSize = 1
  LongMax = 100
  WaitOption = "kBlockingStrategy"
  ClaimOption = "kSingleThreadClaimStrategy"
  NoThread = "none"
  Consumers <- Pair
  Dependents <- PipelineDependents
  Barriers <- Pair
  BarrierOf <- OwnBarrier
  Gating <- Second
  GatingFirst = TRUE
  BatchSizes = {1}
  Overloads = {"copy"}
  MaxSequence = 2
  Stoppable <- Pair
  StopAfterStart = TRUE
  MaxRuns = 1

PROPERTIES
  EverythingHandled
  PublishCompletes
  StopJoins

CHECK_DEADLOCK FALSE
