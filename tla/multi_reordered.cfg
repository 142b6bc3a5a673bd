\* Two producers whose flags may become visible before the events.
SPECIFICATION Spec

CONSTANTS
  BufferSize = 2
  LongMax = 100
  Width = 6
  WaitOption = "kBusySpinStrategy"
  ClaimOption = "kMultiThreadClaimStrategy"
  NoThread = "none"
  Consumers <- Single
  Dependents <- UnicastDependents
  Barriers <- Single
  BarrierOf <- OwnBarrier
  Gating <- Single
  GatingFirst = TRUE
  Producers = {"alice", "bob"}
  BatchSizes = {1, 2}
  Overloads = {"translator", "move"}
  MaxCalls = 2
  FlagsOrdered = FALSE
  Stoppable <- None
  StopAfterStart = TRUE
  MaxRuns = 1

INVARIANTS
  OwnClaims
  ClaimedSlotsFree
  MultiInv
  AssertionNeeded
  FlagAndIndexExact

PROPERTY ImplementsDisruptor
