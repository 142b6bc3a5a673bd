\* A flag that becomes visible before its event.
SPECIFICATION Spec

CONSTANTS
  BufferSize = 2
  LongMax = 100
  Width = 6
  WaitOption = "kBusySpinStrategy"
  ClaimOption = "kMultiThreadClaimStrategy"
  NoThread = "none"
  Consumers <- Single
  Dependents <- UnicastDependents
  Barriers <- Single
  BarrierOf <- OwnBarrier
  Gating <- Single
  GatingFirst = TRUE
  Producers = {"alice", "bob"}
  BatchSizes = {1}
  Overloads = {"translator", "move"}
  MaxCalls = 1
  FlagsOrdered = FALSE
  Stoppable <- None
  StopAfterStart = TRUE
  MaxRuns = 1

INVARIANT HandlesWritten
