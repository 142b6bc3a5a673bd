-------------------------- MODULE DisruptorProofs --------------------------
(***************************************************************************)
(* What the bounded multicast log guarantees, and with it, by refinement,   *)
(* a Sequencer of either claim strategy.                                    *)
(***************************************************************************)
EXTENDS Disruptor, TLAPS

Graph == Dependents \in [Consumers -> SUBSET Consumers]

TypeOK ==
  /\ claimed \in Int
  /\ published \in SUBSET (0 .. claimed)
  /\ handled \in [Consumers -> Int]

(* A consumer has handled without a gap what is published, up to where it   *)
(* is, and nothing its dependents have still to handle.                     *)
InOrder ==
  \A c \in Consumers :
    /\ -1 <= handled[c]
    /\ 0 .. handled[c] \subseteq published
    /\ \A d \in Dependents[c] : handled[c] <= handled[d]

(* Two sequences that are claimed and not yet handled by some consumer are  *)
(* less than a ring apart, so that no two of them share a slot.             *)
Bounded == \A c \in Consumers : claimed - handled[c] <= BufferSize

LogInv == TypeOK /\ InOrder /\ Bounded

LEMMA ClaimInv ==
  ASSUME Graph, BufferSize \in Nat, LogInv, NEW n \in 1 .. BufferSize, Claim(n)
  PROVE  LogInv'
<1> USE DEF LogInv, Claim
<1>1. /\ claimed' = claimed + n /\ claimed \in Int /\ n \in Nat
      /\ UNCHANGED <<published, handled>>
  BY DEF TypeOK
<1>2. TypeOK'
  <2>1. 0 .. claimed \subseteq 0 .. claimed'
    BY <1>1
  <2> QED
    BY <1>1, <2>1 DEF TypeOK
<1>3. InOrder'
  BY <1>1 DEF InOrder
<1>4. Bounded'
  <2>1. ASSUME NEW c \in Consumers
        PROVE  claimed' - handled'[c] <= BufferSize
    <3>1. handled[c] \in Int /\ claimed + n - BufferSize <= handled[c]
      BY DEF TypeOK
    <3>2. handled'[c] = handled[c] /\ claimed' = claimed + n
      BY <1>1
    <3> QED
      BY <1>1, <3>1, <3>2
  <2> QED
    BY <2>1 DEF Bounded
<1> QED
  BY <1>2, <1>3, <1>4

LEMMA PublishInv ==
  ASSUME Graph, LogInv, NEW S \in SUBSET (0 .. claimed), Publish(S)
  PROVE  LogInv'
BY DEF Publish, LogInv, TypeOK, InOrder, Bounded

LEMMA HandleInv ==
  ASSUME Graph, BufferSize \in Nat, LogInv, NEW c \in Consumers, Handle(c)
  PROVE  LogInv'
<1> DEFINE s == handled[c] + 1
<1>1. /\ handled \in [Consumers -> Int] /\ claimed \in Int
      /\ handled' = [handled EXCEPT ![c] = s]
      /\ UNCHANGED <<claimed, published>>
      /\ s \in published /\ s \in Int /\ -1 <= handled[c]
      /\ \A d \in Dependents[c] : s <= handled[d]
  BY DEF Handle, LogInv, TypeOK, InOrder
<1>2. TypeOK'
  BY <1>1 DEF LogInv, TypeOK
<1>3. ASSUME NEW e \in Consumers
      PROVE  /\ handled'[e] = IF e = c THEN s ELSE handled[e]
             /\ handled[e] \in Int /\ handled[e] <= handled'[e]
  BY <1>1
<1>4. InOrder'
  <2>1. ASSUME NEW e \in Consumers
        PROVE  -1 <= handled'[e] /\ 0 .. handled'[e] \subseteq published
    BY <1>1, <1>3 DEF LogInv, InOrder
  <2>2. ASSUME NEW e \in Consumers, NEW d \in Dependents[e]
        PROVE  handled'[e] <= handled'[d]
    <3>1. d \in Consumers /\ handled[e] <= handled[d]
      BY DEF Graph, LogInv, InOrder
    <3>2. CASE e = c
      BY <1>1, <1>3, <3>1, <3>2
    <3>3. CASE e # c
      BY <1>3, <3>1, <3>3
    <3> QED
      BY <3>2, <3>3
  <2> QED
    BY <1>1, <2>1, <2>2 DEF InOrder
<1>5. Bounded'
  BY <1>1, <1>3 DEF LogInv, Bounded
<1> QED
  BY <1>2, <1>4, <1>5 DEF LogInv

(* Every consumer handles what is published without a gap and after its     *)
(* dependents, and no claim ever reaches a slot that a consumer has still   *)
(* to handle (claim_strategy.h:86, :191, event_processor.h:58).             *)
THEOREM LogSafe ==
  ASSUME Graph, BufferSize \in Nat
  PROVE  Spec => [](InOrder /\ Bounded)
<1>1. Init => LogInv
  BY DEF Init, LogInv, TypeOK, InOrder, Bounded, Graph
<1>2. LogInv /\ [Next]_vars => LogInv'
  <2> SUFFICES ASSUME LogInv, [Next]_vars
               PROVE  LogInv'
    OBVIOUS
  <2>1. CASE UNCHANGED vars
    BY <2>1 DEF vars, LogInv, TypeOK, InOrder, Bounded
  <2> QED
    BY <2>1, ClaimInv, PublishInv, HandleInv DEF Next
<1>3. LogInv => InOrder /\ Bounded
  BY DEF LogInv
<1> QED
  BY <1>1, <1>2, <1>3, PTL DEF Spec
=============================================================================
