\* Two processors on one barrier, stopped at any moment, even before or while
\* they start.  A batch fills the ring, or is too large for it.
SPECIFICATION ProcessorFairSpec

CONSTANTS
  BufferSize = 2
  LongMax = 100
  WaitOption = "kBlockingStrategy"
  ClaimOption = "kSingleThreadClaimStrategy"
  NoThread = "none"
  Consumers <- Pair
  Dependents <- MulticastDependents
  Barriers <- SharedBarriers
  BarrierOf <- SharedBarrier
  Gating <- Pair
  GatingFirst = TRUE
  BatchSizes = {2, 3}
  Overloads = {"move"}
  MaxSequence = 3
  Stoppable <- Pair
  StopAfterStart = FALSE
  MaxRuns = 1

INVARIANTS
  IInv
  UnhandledIntact
  CapacityHonest
  NoLostWakeup

PROPERTIES
  ImplementsDisruptor
  StopEnds
