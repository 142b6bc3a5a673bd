\* Liveness of two producers and a spinning processor, stopped once started.
\* When the producers are done and the processor stopped, nothing is left to do.
SPECIFICATION FairSpec

CONSTANTS
  BufferSize = 2
  LongMax = 100
  Width = 6
  WaitOption = "kYieldingStrategy"
  ClaimOption = "kMultiThreadClaimStrategy"
  NoThread = "none"
  Consumers <- Single
  Dependents <- UnicastDependents
  Barriers <- Single
  BarrierOf <- OwnBarrier
  Gating <- Single
  GatingFirst = TRUE
  Producers = {"alice", "bob"}
  BatchSizes = {1, 2}
  Overloads = {"translator", "move"}
  MaxCalls = 1
  FlagsOrdered = TRUE
  Stoppable <- Single
  StopAfterStart = TRUE
  MaxRuns = 1

PROPERTIES
  EverythingHandled
  CallsReturn
  StopJoins

CHECK_DEADLOCK FALSE
