---------------------------- MODULE SequenceDefs ----------------------------
(***************************************************************************)
(* The vocabulary every other module shares: the special cursor values,    *)
(* the step of the minimum over a vector of Sequences, and the slot index  *)
(* and wrap point of the ring buffer.                                      *)
(***************************************************************************)
EXTENDS Integers

CONSTANTS BufferSize,  (* number of slots, a power of two (ring_buffer.h:45) *)
          LongMax      (* LONG_MAX: the minimum over an empty vector         *)

ASSUME BufferSizeAssumption == BufferSize \in Nat \ {0}

(* sequence & (size - 1) is the remainder only for a power of two; the code *)
(* states the condition in a comment and checks nothing.                    *)
ASSUME PowerOfTwoAssumption == \E k \in 0 .. BufferSize : BufferSize = 2 ^ k

ASSUME LongMaxAssumption == LongMax \in Nat

kInitialCursorValue == -1
kAlertedSignal      == -2
kTimeoutSignal      == -3
kFirstSequenceValue == kInitialCursorValue + 1

(* One iteration of the loop of GetMinimumSequence.  The loop loads the     *)
(* atomics one after the other, so each iteration is a step of its caller;  *)
(* a caller starts from LONG_MAX.                                           *)
MinimumMutated(minimum, value) == value
MinimumDropped(minimum, value) == minimum
Minimum(minimum, value) == IF value < minimum THEN value ELSE minimum

(* RingBuffer::operator[]: the slot of a sequence.                          *)
CalculateIndex(s) == s % BufferSize

(* The point the sequence about to be claimed would overwrite.              *)
WrapPointMutated(claimed) == claimed - BufferSize - 1
WrapPoint(claimed) == claimed - BufferSize
=============================================================================
