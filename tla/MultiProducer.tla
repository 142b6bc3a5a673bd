---------------------------- MODULE MultiProducer ----------------------------
(***************************************************************************)
(* A Sequencer with MultiThreadStrategy: several threads publish through    *)
(* EventProducers on one Sequencer.  The cursor is what has been claimed;   *)
(* what has been published is in _available_buffer, one flag for each slot, *)
(* which a processor probes after its wait.                                 *)
(***************************************************************************)
EXTENDS Sequencer, FiniteSets

CONSTANTS Producers,
          MaxCalls,     (* bound: calls each producer makes                 *)
          FlagsOrdered  (* FALSE: a flag may become visible before its slot *)

ASSUME MultiThreadAssumption ==
  /\ ClaimOption = "kMultiThreadClaimStrategy"
  /\ MaxCalls \in Nat
  /\ FlagsOrdered \in BOOLEAN

VARIABLES flags,         (* _available_buffer                               *)
          gatingCache,   (* _gating_sequence_cache, shared by the producers *)
          producerPc,    (* where each producer's thread is                 *)
          purpose,       (* the call it is in, a claim or HasAvailableCapacity *)
          delta,         (* the batch it claims                             *)
          overload,      (* the PublishEvent it runs                        *)
          current,       (* its current_sequence: the cursor as it loaded it *)
          minimum,       (* the minimum GetMinimumSequence has so far       *)
          ungated,       (* the gating Sequences it has still to load       *)
          writing,       (* the sequence its loop has reached               *)
          calls,         (* the calls it has begun                          *)
          probed         (* the flags each processor has found set          *)

sharedVars == <<slots, gating, flags, gatingCache>>
localVars == <<producerPc, purpose, delta, overload, current, minimum, ungated,
               writing, calls>>
prodVars == <<sharedVars, localVars, probed>>
vars == <<waitVars, procVars, prodVars>>

(* A shift one bit short.                                                   *)
CalculateAvailableFlagMutated(s) == s \div (BufferSize \div 2)

(* How often the ring has wrapped at a sequence: the value of its flag.     *)
(* (The code shifts the sequence as an unsigned number, so that this is not *)
(* the flag it compares for a negative one; none is ever published, nor     *)
(* probed before a second Run.)                                             *)
CalculateAvailableFlag(s) == s \div BufferSize

InitialAvailableBuffer == flags = [i \in 0 .. BufferSize - 1 |-> -1]

Init ==
  /\ InitSequencer
  /\ InitialAvailableBuffer
  /\ gatingCache = kInitialCursorValue
  /\ producerPc = [p \in Producers |-> "idle"]
  /\ purpose = [p \in Producers |-> "claim"]
  /\ delta = [p \in Producers |-> 1]
  /\ overload = [p \in Producers |-> "translator"]
  /\ current = [p \in Producers |-> kInitialCursorValue]
  /\ minimum = [p \in Producers |-> LongMax]
  /\ ungated = [p \in Producers |-> {}]
  /\ writing = [p \in Producers |-> kInitialCursorValue]
  /\ calls = [p \in Producers |-> 0]
  /\ probed = [c \in Consumers |-> 0]

ProducerGoto(p, label) == producerPc' = [producerPc EXCEPT ![p] = label]

(* The last sequence of the batch p tries to claim or has claimed.          *)
Last(p) == current[p] + delta[p]

-----------------------------------------------------------------------------
(* IncrementAndGet and HasAvailableCapacity: the same loads, other answers. *)

BeginPublishEvent(p, n, kind) ==
  /\ producerPc[p] = "idle"
  /\ MayClaim
  /\ calls[p] < MaxCalls
  /\ calls' = [calls EXCEPT ![p] = @ + 1]
  /\ purpose' = [purpose EXCEPT ![p] = "claim"]
  /\ delta' = [delta EXCEPT ![p] = n]
  /\ overload' = [overload EXCEPT ![p] = kind]
  /\ ProducerGoto(p, "loadCursor")
  /\ UNCHANGED <<waitVars, procVars, sharedVars, current, minimum, ungated,
                 writing, probed>>

BeginHasAvailableCapacity(p) ==
  /\ producerPc[p] = "idle"
  /\ MayClaim
  /\ calls[p] < MaxCalls
  /\ calls' = [calls EXCEPT ![p] = @ + 1]
  /\ purpose' = [purpose EXCEPT ![p] = "capacity"]
  /\ delta' = [delta EXCEPT ![p] = 1]
  /\ ProducerGoto(p, "loadCursor")
  /\ UNCHANGED <<waitVars, procVars, sharedVars, overload, current, minimum,
                 ungated, writing, probed>>

LoadCursor(p) ==
  /\ producerPc[p] = "loadCursor"
  /\ current' = [current EXCEPT ![p] = cursor]
  /\ ProducerGoto(p, "loadCache")
  /\ UNCHANGED <<waitVars, procVars, sharedVars, purpose, delta, overload,
                 minimum, ungated, writing, calls, probed>>

(* The cached minimum decides, or the gating Sequences are scanned.         *)
LoadCache(p) ==
  /\ producerPc[p] = "loadCache"
  /\ \/ /\ WrapPoint(Last(p)) > gatingCache
        /\ ProducerGoto(p, "scan")
        /\ minimum' = [minimum EXCEPT ![p] = LongMax]
        /\ ungated' = [ungated EXCEPT ![p] = gating]
     \/ /\ WrapPoint(Last(p)) <= gatingCache
        /\ ProducerGoto(p, IF purpose[p] = "claim" THEN "cas" ELSE "idle")
        /\ UNCHANGED <<minimum, ungated>>
  /\ UNCHANGED <<waitVars, procVars, sharedVars, purpose, delta, overload,
                 current, writing, calls, probed>>

(* One load of GetMinimumSequence.                                          *)
ReadGating(p, g) ==
  /\ producerPc[p] = "scan"
  /\ g \in ungated[p]
  /\ ungated' = [ungated EXCEPT ![p] = @ \ {g}]
  /\ minimum' = [minimum EXCEPT ![p] = Minimum(minimum[p], sequence[g])]
  /\ UNCHANGED <<waitVars, procVars, sharedVars, producerPc, purpose, delta,
                 overload, current, writing, calls, probed>>

Overlaps(p) == purpose[p] = "claim" /\ WrapPoint(Last(p)) > minimum[p]

(* The cursor is cached instead of the minimum.                             *)
StoreCacheMutated(p) ==
  /\ producerPc[p] = "scan"
  /\ ungated[p] = {}
  /\ gatingCache' = IF Overlaps(p) THEN gatingCache ELSE current[p]
  /\ minimum' = [minimum EXCEPT ![p] = LongMax]
  /\ ProducerGoto(p, IF purpose[p] = "claim" THEN "loadCursor" ELSE "idle")
  /\ UNCHANGED <<waitVars, procVars, slots, gating, flags, purpose, delta, overload,
                 current, ungated, writing, calls, probed>>

(* The minimum scanned a while ago replaces whatever the cache holds now,   *)
(* unless it shows a claim that would still overlap, which yields.  A claim *)
(* starts again either way.                                                 *)
StoreCache(p) ==
  /\ producerPc[p] = "scan"
  /\ ungated[p] = {}
  /\ gatingCache' = IF Overlaps(p) THEN gatingCache ELSE minimum[p]
  /\ minimum' = [minimum EXCEPT ![p] = LongMax]
  /\ ProducerGoto(p, IF purpose[p] = "claim" THEN "loadCursor" ELSE "idle")
  /\ UNCHANGED <<waitVars, procVars, slots, gating, flags, purpose, delta, overload,
                 current, ungated, writing, calls, probed>>

(* The cursor overwritten although another producer moved it.               *)
CompareAndSetMutated(p) ==
  /\ producerPc[p] = "cas"
  /\ cursor' = Last(p)
  /\ writing' = [writing EXCEPT ![p] = current[p] + 1]
  /\ ProducerGoto(p, "translate")
  /\ UNCHANGED <<sequence, alerted, mutex, pc, next, available, unread, procVars,
                 sharedVars, purpose, delta, overload, current, minimum, ungated,
                 calls, probed>>

CompareAndSet(p) ==
  /\ producerPc[p] = "cas"
  /\ \/ /\ cursor = current[p]
        /\ cursor' = Last(p)
        /\ writing' = [writing EXCEPT ![p] = current[p] + 1]
        /\ ProducerGoto(p, "translate")
     \/ /\ cursor # current[p]
        /\ ProducerGoto(p, "loadCursor")
        /\ UNCHANGED <<cursor, writing>>
  /\ UNCHANGED <<sequence, alerted, mutex, pc, next, available, unread, procVars,
                 sharedVars, purpose, delta, overload, current, minimum, ungated,
                 calls, probed>>

-----------------------------------------------------------------------------
(* EventProducer and Sequencer::Publish                                     *)

Flagged(s) == flags[CalculateIndex(s)] = CalculateAvailableFlag(s)

SetAvailable(s) ==
  flags' = [flags EXCEPT ![CalculateIndex(s)] = CalculateAvailableFlag(s)]

(* One slot is filled.  The translator overload publishes it at once, the   *)
(* other ones start over with the flags when the whole batch is written.    *)
Translate(p) ==
  /\ producerPc[p] = "translate"
  /\ WriteSlot(overload[p], writing[p])
  /\ \/ /\ overload[p] = "translator"
        /\ ProducerGoto(p, "publish")
        /\ UNCHANGED writing
     \/ /\ overload[p] # "translator"
        /\ writing[p] < Last(p)
        /\ writing' = [writing EXCEPT ![p] = @ + 1]
        /\ UNCHANGED producerPc
     \/ /\ overload[p] # "translator"
        /\ writing[p] = Last(p)
        /\ writing' = [writing EXCEPT ![p] = current[p] + 1]
        /\ ProducerGoto(p, "publish")
  /\ UNCHANGED <<waitVars, procVars, gating, flags, gatingCache, purpose, delta,
                 overload, current, minimum, ungated, calls, probed>>

(* The bug noted at event_producer.h:54: only the last flag is set.         *)
PublishMutated(p) ==
  /\ producerPc[p] = "publish"
  /\ SetAvailable(Last(p))
  /\ ProducerGoto(p, "signal")
  /\ UNCHANGED <<waitVars, procVars, slots, gating, gatingCache, purpose, delta, overload,
                 current, minimum, ungated, writing, calls, probed>>

(* One flag is set; Publish(low_bound, high_bound) sets them in turn.       *)
Publish(p) ==
  /\ producerPc[p] = "publish"
  /\ SetAvailable(writing[p])
  /\ IF overload[p] # "translator" /\ writing[p] < Last(p)
     THEN writing' = [writing EXCEPT ![p] = @ + 1] /\ UNCHANGED producerPc
     ELSE ProducerGoto(p, "signal") /\ UNCHANGED writing
  /\ UNCHANGED <<waitVars, procVars, slots, gating, gatingCache, purpose, delta, overload,
                 current, minimum, ungated, calls, probed>>

(* The flag and the event are plain stores to different addresses, and the  *)
(* flag is a plain load: nothing orders them for another thread.  Either    *)
(* may become visible first.                                                *)
PublishReordered(p) ==
  /\ ~FlagsOrdered
  /\ producerPc[p] = "translate"
  /\ overload[p] = "translator"
  /\ SetAvailable(writing[p])
  /\ ProducerGoto(p, "late")
  /\ UNCHANGED <<waitVars, procVars, slots, gating, gatingCache, purpose, delta, overload,
                 current, minimum, ungated, writing, calls, probed>>

TranslateReordered(p) ==
  /\ producerPc[p] = "late"
  /\ WriteSlot(overload[p], writing[p])
  /\ ProducerGoto(p, "signal")
  /\ UNCHANGED <<waitVars, procVars, gating, flags, gatingCache, purpose, delta, overload,
                 current, minimum, ungated, writing, calls, probed>>

Signal(p) ==
  /\ producerPc[p] = "signal"
  /\ SignalAllWhenBlocking
  /\ IF writing[p] < Last(p)
     THEN ProducerGoto(p, "translate") /\ writing' = [writing EXCEPT ![p] = @ + 1]
     ELSE ProducerGoto(p, "idle") /\ UNCHANGED writing
  /\ UNCHANGED <<cursor, sequence, alerted, mutex, next, available, unread, procVars,
                 sharedVars, purpose, delta, overload, current, minimum, ungated,
                 calls, probed>>

-----------------------------------------------------------------------------
(* GetHighesetPublishedSequence, on the processor's thread.                 *)

(* The scan passes a missing flag and stops at the end of the range.        *)
ProbeMutated(c) ==
  /\ pc[c] = "probe"
  /\ Goto(c, "handle")
  /\ probed' = [probed EXCEPT ![c] = 0]
  /\ UNCHANGED <<cursor, sequence, alerted, mutex, next, available, unread,
                 procVars, sharedVars, localVars>>

(* One flag is loaded.  The sequence before the first missing one is the    *)
(* answer, or available_sequence when all of them are set.                  *)
Probe(c) ==
  LET s == next[c] + probed[c] IN
  /\ pc[c] = "probe"
  /\ \/ /\ ~Flagged(s)
        /\ available' = [available EXCEPT ![c] = s - 1]
        /\ probed' = [probed EXCEPT ![c] = 0]
        /\ Goto(c, "handle")
     \/ /\ Flagged(s)
        /\ s < available[c]
        /\ probed' = [probed EXCEPT ![c] = @ + 1]
        /\ UNCHANGED <<available, pc>>
     \/ /\ Flagged(s)
        /\ s = available[c]
        /\ probed' = [probed EXCEPT ![c] = 0]
        /\ Goto(c, "handle")
        /\ UNCHANGED available
  /\ UNCHANGED <<cursor, sequence, alerted, mutex, next, unread, procVars,
                 sharedVars, localVars>>

-----------------------------------------------------------------------------
(* The client sets the gating Sequences while no producer is in a call.     *)
GatingStep ==
  /\ \A p \in Producers : producerPc[p] = "idle"
  /\ SetGatingSequences
  /\ UNCHANGED <<waitVars, procVars, slots, flags, gatingCache, localVars, probed>>

(* The steps of a call already begun.                                       *)
ProducerStep(p) ==
  \/ LoadCursor(p)
  \/ LoadCache(p)
  \/ \E g \in Gating : ReadGating(p, g)
  \/ StoreCache(p)
  \/ CompareAndSet(p)
  \/ Translate(p)
  \/ Publish(p)
  \/ PublishReordered(p)
  \/ TranslateReordered(p)
  \/ Signal(p)

ConsumerStep(c) ==
  \/ RunStep(c) /\ UNCHANGED prodVars
  \/ Probe(c)

Next ==
  \/ \E p \in Producers :
       \/ \E n \in BatchSizes, kind \in Overloads :
            BeginPublishEvent(p, n, kind)
       \/ BeginHasAvailableCapacity(p)
       \/ ProducerStep(p)
  \/ GatingStep
  \/ \E c \in Consumers : Probe(c)
  \/ ProcessorNext /\ UNCHANGED prodVars

Spec == Init /\ [][Next]_vars

(* As for one producer: every thread goes on, and the mutex is not withheld *)
(* for ever from one that finds it free again and again.                    *)
Fairness ==
  /\ \A p \in Producers : SF_vars(ProducerStep(p))
  /\ SF_vars(StopStep /\ UNCHANGED prodVars)
  /\ \A c \in Consumers : SF_vars(ConsumerStep(c))

FairSpec == Spec /\ Fairness

-----------------------------------------------------------------------------
MaxBatch == CHOOSE n \in BatchSizes : \A m \in BatchSizes : m <= n

(* Every variable stays in the range the code gives it; in particular the   *)
(* LONG_MAX of an unfinished scan never reaches the shared cache, and no    *)
(* flag counts more wraps than the claims have made.                        *)
TypeOK ==
  LET Values == kAlertedSignal .. cursor
  IN
  /\ TypeOKProcessors
  /\ kInitialCursorValue <= cursor
  /\ \A c \in Consumers : available[c] \in Values \cup {LongMax}
  /\ slots \in [0 .. BufferSize - 1 -> Values]
  /\ flags \in [0 .. BufferSize - 1 -> Int]
  /\ \A i \in 0 .. BufferSize - 1 :
       flags[i] = -1 \/ BufferSize * flags[i] + i \in 0 .. cursor
  /\ gating \in {{}, Gating}
  /\ gatingCache \in Values
  /\ producerPc \in [Producers -> {"idle", "loadCursor", "loadCache", "scan",
                                   "cas", "translate", "publish", "late",
                                   "signal"}]
  /\ purpose \in [Producers -> {"claim", "capacity"}]
  /\ delta \in [Producers -> BatchSizes \cup {1}]
  /\ overload \in [Producers -> {"translator"} \cup Overloads]
  /\ current \in [Producers -> Values]
  /\ minimum \in [Producers -> Values \cup {LongMax}]
  /\ ungated \in [Producers -> SUBSET Gating]
  /\ writing \in [Producers -> Values]
  /\ calls \in [Producers -> 0 .. MaxCalls]
  /\ probed \in [Consumers -> 0 .. BufferSize]

(* The producer has moved the cursor and has not finished its batch.        *)
Active(p) == producerPc[p] \in {"translate", "publish", "late", "signal"}

(* The claimed ranges of two such producers are disjoint.                   *)
Apart(p, q) ==
  Active(p) /\ Active(q) => Last(p) <= current[q] \/ Last(q) <= current[p]

(* A published sequence keeps its event until every processor has returned  *)
(* from OnEvent for it, although the producers decide by a cache that any   *)
(* of them may set back to an older minimum (claim_strategy.h:215).         *)
UnhandledIntact ==
  \A c \in Consumers : \A s \in next[c] .. cursor :
    Flagged(s) => slots[CalculateIndex(s)] = s

(* What a processor is about to handle is in its slot: the flags it probed  *)
(* are those of this round of the ring and not of an earlier one            *)
(* (claim_strategy.h:257).                                                  *)
HandlesWritten ==
  \A c \in Consumers :
    pc[c] = "handle" =>
      \A s \in next[c] .. available[c] : slots[CalculateIndex(s)] = s

(* All that a producer has claimed, and what it is about to claim because   *)
(* the shared cache let it skip the scan, has been handled by every         *)
(* processor in its former slot, although another producer, delayed after   *)
(* its scan, may have overwritten the cache in between with an older        *)
(* minimum (claim_strategy.h:201, :215, :218).                              *)
ClaimedSlotsFree ==
  \A p \in Producers :
    producerPc[p] = "cas" \/ Active(p) =>
      \A c \in Consumers : WrapPoint(Last(p)) < next[c]

(* Producers and processors never wait in a circle: before the first Stop,  *)
(* a producer is between its claim and the end of its call, where it waits  *)
(* for nobody, or some processor handles or finds published what it waits   *)
(* for, or everything claimed is handled and a claim that waits, if the     *)
(* ring is large enough for it at all, finds room (claim_strategy.h:208,    *)
(* :247, event_processor.h:62).                                             *)
NoCircularWait ==
  stopCalled = {} =>
    \/ \E p \in Producers : Active(p)
    \/ \E c \in Consumers : pc[c] = "handle" \/ (Ready(c) /\ Flagged(next[c]))
    \/ /\ \A c \in Consumers : next[c] > cursor
       /\ \A p \in Producers :
            producerPc[p] = "scan" /\ purpose[p] = "claim" /\ delta[p] <= BufferSize
              => RoomFor(Last(p))

(* What a producer writes and publishes is of its own claim, and nobody     *)
(* else has claimed it, however the loads of the cursor and the compare-    *)
(* and-sets interleave (claim_strategy.h:218).                              *)
OwnClaims ==
  \A p \in Producers : Active(p) =>
    /\ current[p] < writing[p] /\ writing[p] <= Last(p)
    /\ \A q \in Producers \ {p} : Apart(p, q)

(* A processor asleep on the condition variable although its sequence is    *)
(* claimed is still to be notified by a producer that claimed it, and one   *)
(* asleep on an alerted barrier by Stop (wait_strategy.h:365, :382).        *)
NoLostWakeup ==
  \A c \in Consumers :
    /\ pc[c] \in {"lockedAlert", "sleeping"} /\ next[c] <= cursor
         => \E p \in Producers : Active(p)
    /\ pc[c] = "sleeping" /\ alerted[BarrierOf[c]] => stopPc = "signal"

-----------------------------------------------------------------------------
(* A sequence is claimed by the compare-and-set and published by its flag,  *)
(* which a later round of the ring can only raise.                          *)
Published ==
  {s \in 0 .. cursor : flags[CalculateIndex(s)] >= CalculateAvailableFlag(s)}

D == INSTANCE Disruptor WITH
       claimed   <- cursor,
       published <- Published,
       handled   <- [c \in Consumers |-> next[c] - 1]

(* Concurrent claims never overlap, each claimed sequence is published once *)
(* and in any order, and every processor still handles all of them in order *)
(* and before their slots are claimed again.                                *)
ImplementsDisruptor == D!Spec

-----------------------------------------------------------------------------
(* Once every processor runs, each handles every claimed event, whatever    *)
(* the order the producers publish in, unless the client stops one          *)
(* (claim_strategy.h:247).                                                  *)
EverythingHandled ==
  \A c \in Consumers, s \in 0 .. Cardinality(Producers) * MaxCalls * MaxBatch - 1 :
    AllRunning /\ s <= cursor ~> next[c] > s \/ stopCalled # {}

(* Once every processor runs, every call of a producer returns, unless the  *)
(* client stops a processor (claim_strategy.h:191).  The number of competing *)
(* calls is bounded here: a producer may lose the compare-and-set to an     *)
(* endless stream of others.                                                *)
CallsReturn ==
  \A p \in Producers :
    AllRunning /\ producerPc[p] # "idle"
      ~> producerPc[p] = "idle" \/ stopCalled # {}
=============================================================================
