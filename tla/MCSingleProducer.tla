-------------------------- MODULE MCSingleProducer --------------------------
(***************************************************************************)
(* The topologies of event_test.cc and benchmark/, as values for the        *)
(* constants of SingleProducer.                                             *)
(***************************************************************************)
EXTENDS SingleProducerInv

Single == {"first"}
Pair   == {"first", "second"}
Triple == {"first", "second", "third"}

(* Unicast: one processor on the cursor.                                    *)
UnicastDependents == [c \in Single |-> {}]

(* Pipeline: each processor waits on the one before it.                     *)
PipelineDependents ==
  [c \in Pair |-> IF c = "second" THEN {"first"} ELSE {}]

(* Diamond: the third processor waits on the other two.                     *)
DiamondDependents ==
  [c \in Triple |-> IF c = "third" THEN {"first", "second"} ELSE {}]

(* Multicast: independent processors, created on one and the same barrier   *)
(* as multicast_1P_3C.cc does.                                              *)
MulticastDependents == [c \in Pair |-> {}]

(* A barrier of its own for each processor, named after it; or one for all. *)
OwnBarrier    == [c \in Consumers |-> c]
SharedBarrier == [c \in Consumers |-> "shared"]

SharedBarriers == {"shared"}
Last   == {"third"}
Second == {"second"}
None   == {}
=============================================================================
