------------------------------ MODULE Disruptor ------------------------------
(***************************************************************************)
(* What the library promises, without threads, caches or atomics: a bounded *)
(* multicast log.  Sequences are claimed in order, each claimed sequence is *)
(* published once, and every consumer handles every published sequence,     *)
(* once and in order, after the consumers it depends on.  No sequence is    *)
(* claimed while the one that shares its slot is still to be handled.       *)
(***************************************************************************)
EXTENDS Integers

CONSTANTS Consumers,    (* the event processors                             *)
          Dependents,   (* for each, the processors its barrier waits on    *)
          BufferSize    (* slots in the ring                                *)

VARIABLES claimed,      (* the highest sequence a producer owns             *)
          published,    (* the sequences whose event consumers may handle   *)
          handled       (* for each consumer, the last sequence it handled  *)

vars == <<claimed, published, handled>>

Init ==
  /\ claimed = -1
  /\ published = {}
  /\ handled = [c \in Consumers |-> -1]

(* A producer takes the next n sequences once every consumer is done with   *)
(* the events they replace.                                                 *)
Claim(n) ==
  /\ \A c \in Consumers : claimed + n - BufferSize <= handled[c]
  /\ claimed' = claimed + n
  /\ UNCHANGED <<published, handled>>

(* A producer makes some of the sequences it owns visible.                  *)
Publish(S) ==
  /\ S # {}
  /\ S \cap published = {}
  /\ published' = published \cup S
  /\ UNCHANGED <<claimed, handled>>

Handle(c) ==
  LET s == handled[c] + 1 IN
    /\ s \in published
    /\ \A d \in Dependents[c] : s <= handled[d]
    /\ handled' = [handled EXCEPT ![c] = s]
    /\ UNCHANGED <<claimed, published>>

Next ==
  \/ \E n \in 1 .. BufferSize : Claim(n)
  \/ \E S \in SUBSET (0 .. claimed) : Publish(S)
  \/ \E c \in Consumers : Handle(c)

Spec == Init /\ [][Next]_vars

(* No consumer stops while it could go on.                                  *)
Fairness == \A c \in Consumers : WF_vars(Handle(c))

FairSpec == Spec /\ Fairness
=============================================================================
