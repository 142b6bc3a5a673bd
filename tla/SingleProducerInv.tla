------------------------- MODULE SingleProducerInv -------------------------
(***************************************************************************)
(* The inductive invariant behind the safety of SingleProducer: the one of  *)
(* the processors, and the parts below about the producer.  It holds as     *)
(* long as no processor is run a second time and the gating Sequences are   *)
(* set before the first claim.                                              *)
(***************************************************************************)
EXTENDS SingleProducer, ProcessorInv

(* The producer's cache, and the minimum it is computing, are behind the    *)
(* processors.                                                              *)
GatingInv ==
  /\ \A c \in Consumers : gatingCache < next[c]
  /\ producerPc \in {"claim", "capacity"} =>
       /\ gating = Gating
       /\ \A g \in Gating \ ungated : minimum < next[g]

(* Where the cursor, the loop variable and the claim stand to one another.  *)
ClaimInv ==
  /\ kInitialCursorValue <= cursor
  /\ producerPc \in {"idle", "capacity"} => cursor = cursorCache
  /\ producerPc \in {"claim", "translate", "publish"} =>
       cursor < writing /\ writing <= cursorCache
  /\ producerPc \in {"translate", "publish"} /\ overload = "translator"
       => writing = cursor + 1
  /\ producerPc \in {"publish", "signal"} /\ overload # "translator"
       => writing = cursorCache
  /\ producerPc = "claim" => writing = cursor + 1
  /\ producerPc = "signal" => cursor = writing /\ writing <= cursorCache
  /\ producerPc \in {"translate", "publish", "signal"} =>
       WrapPoint(cursorCache) <= gatingCache

(* The last sequence whose event is in the ring, if events are written.     *)
Written ==
  IF producerPc = "translate" THEN writing - 1
  ELSE IF producerPc = "publish" THEN writing
  ELSE cursor

(* An event that can only be copied is never written.                       *)
SlotsInv ==
  "copy" \notin Overloads =>
    \A c \in Consumers : \A s \in next[c] .. Written :
      slots[CalculateIndex(s)] = s

(* Together: what holds of every reachable state and is preserved by every  *)
(* step of every thread (claim_strategy.h:108, wait_strategy.h:159,         *)
(* event_processor.h:51).                                                   *)
IInv ==
  /\ TypeOK
  /\ ProcInv
  /\ GatingInv
  /\ ClaimInv
  /\ SlotsInv
=============================================================================
