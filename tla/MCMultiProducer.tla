--------------------------- MODULE MCMultiProducer ---------------------------
(***************************************************************************)
(* Values for the constants of MultiProducer: the topology of               *)
(* sequencer_3P_1C.cc with two producers, and a pipeline behind them.       *)
(***************************************************************************)
EXTENDS MultiProducerInv, RingArithmetic

Single == {"first"}
Pair   == {"first", "second"}

UnicastDependents == [c \in Single |-> {}]

PipelineDependents ==
  [c \in Pair |-> IF c = "second" THEN {"first"} ELSE {}]

OwnBarrier == [c \in Consumers |-> c]

Second == {"second"}
None   == {}

-----------------------------------------------------------------------------
(* The ring arithmetic is looked at where the code has its assertion: while *)
(* the Sequencer is being built and its gating Sequences are not set.       *)

(* "RingBuffer's size must be a positive power of 2" (ring_buffer.h:46):    *)
(* the condition of the assertion is exactly the one under which sequences  *)
(* less than a ring apart have slots of their own; without the assertion,   *)
(* a ring of another size silently overwrites events.                       *)
AssertionNeeded ==
  gating = {} =>
    \A size \in Sizes : Asserted(size) <=> SlotsDistinct(size)

(* In a ring the assertion would let pass, slot and flag are remainder and  *)
(* quotient, so that a flag found in a slot says which sequence it is for   *)
(* (claim_strategy.h:257).                                                  *)
FlagAndIndexExact ==
  gating = {} =>
    \A size \in Sizes : Asserted(size) => FlagsExact(size)
=============================================================================
