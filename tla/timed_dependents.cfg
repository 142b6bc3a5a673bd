\* A timed wait of BlockingStrategy for a processor that does not advance.
SPECIFICATION FairSpec

CONSTANTS
  BufferSize = 2
  LongMax = 100
  Processors = {"first"}
  Dependencies = {{}, {"first"}}
  Options = {"kBlockingStrategy"}
  ClaimOptions = {"kSingleThreadClaimStrategy"}
  Timeout = 2
  RetryLoop = 1
  MaxSequence = 1
  MaxSetBack = 1
  MaxAlarms = 1

PROPERTY TimeoutReached
