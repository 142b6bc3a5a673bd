\* Timed waits of every strategy, with and without dependents.
SPECIFICATION FairSpec

CONSTANTS
  BufferSize = 2
  LongMax = 100
  Processors = {"first", "second"}
  Dependencies = {{}, {"first", "second"}}
  Options = {"kBlockingStrategy", "kSleepingStrategy", "kYieldingStrategy", "kBusySpinStrategy"}
  ClaimOptions = {"kSingleThreadClaimStrategy", "kMultiThreadClaimStrategy"}
  Timeout = 1
  RetryLoop = 1
  MaxSequence = 1
  MaxSetBack = 1
  MaxAlarms = 2

INVARIANTS
  TypeOK
  NeverEarly
  AnswerReady
  NoMissedSignal
  TimedInv

PROPERTIES
  TimedReturns
