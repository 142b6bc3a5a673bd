\* Two producers, a pipeline on the condition variable, stopped once started.
\* When both producers are done and both processors stopped, nothing is left
\* to do.
SPECIFICATION Spec

CONSTANTS
  BufferSize = 2
  LongMax = 100
  Width = 6
  WaitOption = "kBlockingStrategy"
  ClaimOption = "kMultiThreadClaimStrategy"
  NoThread = "none"
  Consumers <- Pair
  Dependents <- PipelineDependents
  Barriers <- Pair
  BarrierOf <- OwnBarrier
  Gating <- Second
  GatingFirst = TRUE
  Producers = {"alice", "bob"}
  BatchSizes = {1, 2, 3}
  Overloads = {"translator"}
  MaxCalls = 1
  FlagsOrdered = TRUE
  Stoppable <- Pair
  StopAfterStart = TRUE
  MaxRuns = 1

INVARIANTS
  TypeOK
  UnhandledIntact
  HandlesWritten
  NoLostWakeup
  NoCircularWait
  DrainedHandled
  MultiInv

PROPERTIES
  ImplementsDisruptor

CHECK_DEADLOCK FALSE
