\* Two processors and a third that waits on both, on the condition variable;
\* only the third gates.  A batch of three never fits.
SPECIFICATION Spec

CONSTANTS
  BufferSize = 2
  LongMax = 100
  WaitOption = "kBlockingStrategy"
  ClaimOption = "kSingleThreadClaimStrategy"
  NoThread = "none"
  Consumers <- Triple
  Dependents <- DiamondDependents
  Barriers <- Triple
  BarrierOf <- OwnBarrier
  Gating <- Last
  GatingFirst = TRUE
  BatchSizes = {1, 2, 3}
  Overloads = {"translator", "move"}
  MaxSequence = 4
  Stoppable <- None
  StopAfterStart = TRUE
  MaxRuns = 1

INVARIANTS
  TypeOK
  RecordsConsumed
  DrainedHandled
  IInv
  CapacityHonest
  NoLostWakeup
  NoCircularWait

PROPERTIES
  ImplementsDisruptor
