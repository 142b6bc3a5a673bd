-------------------------- MODULE MultiProducerInv --------------------------
(***************************************************************************)
(* The inductive invariant behind the safety of MultiProducer: the one of   *)
(* the processors, and the parts below about the producers and the flags.   *)
(* It holds as long as no processor is run a second time and the gating     *)
(* Sequences are set before the first claim.                                *)
(***************************************************************************)
EXTENDS MultiProducer, ProcessorInv

(* What a producer knows of the processors' progress is behind them: the    *)
(* minimum it is computing, and the wrap point it has decided to claim.     *)
BehindOK(p) ==
  /\ producerPc[p] # "idle" => gating = Gating
  /\ producerPc[p] = "scan" =>
       \A g \in Gating \ ungated[p] : minimum[p] < next[g]
  /\ producerPc[p] = "cas" =>
       purpose[p] = "claim" /\ \A c \in Consumers : WrapPoint(Last(p)) < next[c]

(* So is the cache they share; and less than a ring is claimed ahead of any *)
(* processor.                                                               *)
GatingInv ==
  /\ \A c \in Consumers : WrapPoint(cursor) < next[c] /\ gatingCache < next[c]
  /\ \A p \in Producers : BehindOK(p)

ClaimOK(p) ==
  Active(p) =>
    /\ kInitialCursorValue <= current[p]
    /\ current[p] < writing[p]
    /\ writing[p] <= Last(p)
    /\ Last(p) <= cursor
    /\ producerPc[p] = "signal" /\ overload[p] # "translator"
         => writing[p] = Last(p)
    /\ producerPc[p] = "late" => overload[p] = "translator" /\ ~FlagsOrdered

ClaimInv ==
  /\ \A p \in Producers : ClaimOK(p)
  /\ \A p, q \in Producers : p # q => Apart(p, q)

(* This much holds for every client: the cursor is not behind what a        *)
(* producer has loaded from it, nor behind a claim.                         *)
RaceInv ==
  /\ \A p \in Producers :
       /\ delta[p] >= 1 /\ current[p] <= cursor
       /\ Active(p) => Last(p) <= cursor
  /\ OwnClaims

(* The first sequence of its batch whose flag it has still to set.          *)
First(p) ==
  IF producerPc[p] \in {"late", "signal"} THEN writing[p] + 1
  ELSE IF producerPc[p] = "translate" /\ overload[p] # "translator"
       THEN current[p] + 1
  ELSE writing[p]

Owned(p) == IF Active(p) THEN First(p) .. Last(p) ELSE {}

(* The flag of s has been set, in this round of the ring or a later one.    *)
Raised(s) == flags[CalculateIndex(s)] >= CalculateAvailableFlag(s)

(* What a producer has still to publish is ahead of every processor, and    *)
(* its flag is that of an earlier round; every other claimed sequence has   *)
(* been published.                                                          *)
OwnedOK(p) ==
  \A s \in Owned(p) : ~Raised(s) /\ \A c \in Consumers : next[c] <= s

OwnedInv ==
  /\ \A p \in Producers : OwnedOK(p)
  /\ \A s \in 0 .. cursor : Raised(s) \/ \E p \in Producers : s \in Owned(p)

(* What a processor has probed, and what it handles, is published.          *)
ProbeOK(c) ==
  /\ pc[c] = "probe" =>
       /\ next[c] + probed[c] <= available[c]
       /\ \A s \in next[c] .. next[c] + probed[c] - 1 : Raised(s)
  /\ pc[c] # "probe" => probed[c] = 0
  /\ pc[c] = "handle" => \A s \in next[c] .. available[c] : Raised(s)

ProbeInv == \A c \in Consumers : ProbeOK(c)

(* What a producer has written of its batch and not yet published.          *)
Filled(p) ==
  IF producerPc[p] = "translate" /\ overload[p] # "translator"
  THEN current[p] + 1 .. writing[p] - 1
  ELSE IF producerPc[p] = "publish"
       THEN writing[p] .. IF overload[p] = "translator" THEN writing[p] ELSE Last(p)
  ELSE {}

(* An event is in its slot from the moment it is written until every        *)
(* processor has handled it, if it is written before its flag, and at all.  *)
FilledOK(p) == \A s \in Filled(p) : slots[CalculateIndex(s)] = s

IntactOK(c) ==
  \A s \in next[c] .. cursor : Raised(s) => slots[CalculateIndex(s)] = s

SlotsInv ==
  FlagsOrdered /\ "copy" \notin Overloads =>
    /\ \A p \in Producers : FilledOK(p)
    /\ \A c \in Consumers : IntactOK(c)

(* Together: what holds of every reachable state and is preserved by every  *)
(* step of every thread (claim_strategy.h:191, :233, :257,                  *)
(* event_processor.h:51).                                                   *)
MultiInv ==
  /\ TypeOK
  /\ ProcInv
  /\ GatingInv
  /\ ClaimInv
  /\ OwnedInv
  /\ ProbeInv
  /\ SlotsInv
=============================================================================
