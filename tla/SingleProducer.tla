--------------------------- MODULE SingleProducer ---------------------------
(***************************************************************************)
(* A Sequencer with SingleThreadStrategy: one thread publishes through an   *)
(* EventProducer while the event processors run.  The strategy's caches are *)
(* private to that thread; what it shares with the others is the cursor,    *)
(* the ring and the gating Sequences.                                       *)
(***************************************************************************)
EXTENDS Sequencer

CONSTANT MaxSequence  (* bound: the last sequence the client claims         *)

ASSUME SingleThreadAssumption ==
  /\ ClaimOption = "kSingleThreadClaimStrategy"
  /\ MaxSequence \in Nat

VARIABLES producerPc,    (* where the producer's thread is                  *)
          cursorCache,   (* _cursor_sequence_cache                          *)
          gatingCache,   (* _gating_sequence_cache                          *)
          minimum,       (* the minimum GetMinimumSequence has so far       *)
          ungated,       (* the gating Sequences it has still to load       *)
          overload,      (* the PublishEvent that runs                      *)
          writing,       (* its loop variable: the sequence being written   *)
          capacity       (* the last answer of HasAvailableCapacity         *)

prodVars == <<slots, gating, producerPc, cursorCache, gatingCache, minimum,
              ungated, overload, writing, capacity>>
vars == <<waitVars, procVars, prodVars>>

Init ==
  /\ InitSequencer
  /\ producerPc = "idle"
  /\ cursorCache = kInitialCursorValue
  /\ gatingCache = kInitialCursorValue
  /\ minimum = LongMax
  /\ ungated = {}
  /\ overload = "translator"
  /\ writing = kInitialCursorValue
  /\ capacity = "unknown"

-----------------------------------------------------------------------------
(* SingleThreadStrategy                                                     *)

(* GetMinimumSequence(_gating_sequences) begins.                            *)
ScanGating ==
  /\ minimum' = LongMax
  /\ ungated' = gating

(* One load of its loop; when none is left, the minimum is known.           *)
ReadGating(g) ==
  /\ g \in ungated
  /\ ungated' = ungated \ {g}
  /\ minimum' = Minimum(minimum, sequence[g])
  /\ UNCHANGED <<waitVars, procVars, slots, gating, producerPc, cursorCache,
                 gatingCache, overload, writing, capacity>>

(* PublishEvent enters IncrementAndGet.  The cache is advanced before the   *)
(* wait for the consumers, which the cached gating sequence may save.       *)
Claim(delta, kind) ==
  /\ producerPc = "idle"
  /\ MayClaim
  /\ cursorCache + delta <= MaxSequence
  /\ cursorCache' = cursorCache + delta
  /\ writing' = cursorCache + 1
  /\ overload' = kind
  /\ capacity' = "unknown"
  /\ \/ /\ WrapPoint(cursorCache') > gatingCache
        /\ producerPc' = "claim"
        /\ ScanGating
     \/ /\ WrapPoint(cursorCache') <= gatingCache
        /\ producerPc' = "translate"
        /\ UNCHANGED <<minimum, ungated>>
  /\ UNCHANGED <<waitVars, procVars, slots, gating, gatingCache>>

(* HasAvailableCapacity, asked by the client between two claims.            *)
HasAvailableCapacity ==
  /\ producerPc = "idle"
  /\ MayClaim
  /\ \/ /\ gatingCache < WrapPoint(cursorCache + 1)
        /\ producerPc' = "capacity"
        /\ ScanGating
        /\ UNCHANGED capacity
     \/ /\ gatingCache >= WrapPoint(cursorCache + 1)
        /\ capacity' = "yes"
        /\ UNCHANGED <<producerPc, minimum, ungated>>
  /\ UNCHANGED <<waitVars, procVars, slots, gating, cursorCache, gatingCache,
                 overload, writing>>

(* The minimum is known: the claim succeeds, or yields and scans again.     *)
FinishClaim ==
  /\ producerPc = "claim"
  /\ ungated = {}
  /\ \/ /\ WrapPoint(cursorCache) > minimum
        /\ ScanGating
        /\ UNCHANGED <<gatingCache, producerPc>>
     \/ /\ WrapPoint(cursorCache) <= minimum
        /\ gatingCache' = minimum
        /\ producerPc' = "translate"
        /\ minimum' = LongMax
        /\ UNCHANGED ungated
  /\ UNCHANGED <<waitVars, procVars, slots, gating, cursorCache, overload,
                 writing, capacity>>

FinishCapacityMutated ==
  /\ producerPc = "capacity"
  /\ ungated = {}
  /\ gatingCache' = minimum
  /\ capacity' = "yes"
  /\ producerPc' = "idle"
  /\ minimum' = LongMax
  /\ UNCHANGED <<waitVars, procVars, slots, gating, cursorCache, ungated,
                 overload, writing>>

(* The answer, and the cache refreshed even when the answer is no.          *)
FinishCapacity ==
  /\ producerPc = "capacity"
  /\ ungated = {}
  /\ gatingCache' = minimum
  /\ capacity' = IF minimum < WrapPoint(cursorCache + 1) THEN "no" ELSE "yes"
  /\ producerPc' = "idle"
  /\ minimum' = LongMax
  /\ UNCHANGED <<waitVars, procVars, slots, gating, cursorCache, ungated,
                 overload, writing>>
-----------------------------------------------------------------------------
(* EventProducer and Sequencer::Publish                                     *)

(* One slot is filled.  The translator overload publishes it at once, the   *)
(* other ones when the whole batch is written.                              *)
Translate ==
  /\ producerPc = "translate"
  /\ WriteSlot(overload, writing)
  /\ IF overload # "translator" /\ writing < cursorCache
     THEN writing' = writing + 1 /\ UNCHANGED producerPc
     ELSE producerPc' = "publish" /\ UNCHANGED writing
  /\ UNCHANGED <<waitVars, procVars, gating, cursorCache, gatingCache, minimum,
                 ungated, overload, capacity>>

(* Publishing a batch before its last slot is written.                      *)
PublishMutated ==
  /\ producerPc = "publish"
  /\ cursor' = cursorCache
  /\ producerPc' = "signal"
  /\ UNCHANGED <<sequence, alerted, mutex, pc, next, available, unread, procVars,
                 slots, gating, cursorCache, gatingCache, minimum, ungated,
                 overload, writing, capacity>>

(* _cursor.SetSequence(sequence), or (high_bound): in both overloads the    *)
(* last sequence written.                                                   *)
Publish ==
  /\ producerPc = "publish"
  /\ cursor' = writing
  /\ producerPc' = "signal"
  /\ UNCHANGED <<sequence, alerted, mutex, pc, next, available, unread, procVars,
                 slots, gating, cursorCache, gatingCache, minimum, ungated,
                 overload, writing, capacity>>

(* The rest of Sequencer::Publish, and the next round of the loop.          *)
Signal ==
  /\ producerPc = "signal"
  /\ SignalAllWhenBlocking
  /\ IF writing < cursorCache
     THEN producerPc' = "translate" /\ writing' = writing + 1
     ELSE producerPc' = "idle" /\ UNCHANGED writing
  /\ UNCHANGED <<cursor, sequence, alerted, mutex, next, available, unread, procVars,
                 slots, gating, cursorCache, gatingCache, minimum, ungated,
                 overload, capacity>>

(* The client sets the gating Sequences on the thread that publishes.       *)
GatingStep ==
  /\ producerPc = "idle"
  /\ SetGatingSequences
  /\ UNCHANGED <<waitVars, procVars, slots, producerPc, cursorCache, gatingCache,
                 minimum, ungated, overload, writing, capacity>>

(* The steps of a PublishEvent or HasAvailableCapacity already begun.       *)
ProducerStep ==
  \/ \E g \in Gating : ReadGating(g)
  \/ FinishClaim
  \/ FinishCapacity
  \/ Translate
  \/ Publish
  \/ Signal

Next ==
  \/ \E delta \in BatchSizes, kind \in Overloads : Claim(delta, kind)
  \/ HasAvailableCapacity
  \/ GatingStep
  \/ ProducerStep
  \/ ProcessorNext /\ UNCHANGED prodVars

Spec == Init /\ [][Next]_vars

(* The thread of a processor inside Run, and the controlling thread inside  *)
(* Stop, go on.  Only the mutex can hold up a step; a thread that finds it  *)
(* free again and again gets it in the end, though others may hold it in    *)
(* between: hence strong fairness, which is weak fairness for all other     *)
(* steps.  Nothing is assumed of the client: it need not publish, run a     *)
(* processor or stop one; and a condition variable need not wake by itself. *)
ProcessorFairness ==
  /\ SF_vars(StopStep /\ UNCHANGED prodVars)
  /\ \A c \in Consumers : SF_vars(RunStep(c) /\ UNCHANGED prodVars)

(* So does the producer once it is inside a call.                           *)
Fairness == SF_vars(ProducerStep) /\ ProcessorFairness

ProcessorFairSpec == Spec /\ ProcessorFairness

FairSpec == Spec /\ Fairness

-----------------------------------------------------------------------------
(* Every variable stays in the range the code gives it; in particular,  *)
(* as long as the client sets the gating Sequences first, the LONG_MAX of   *)
(* an unfinished scan, or of one of nothing, never reaches a cache.         *)
TypeOK ==
  /\ TypeOKProcessors
  /\ slots \in [0 .. BufferSize - 1 -> kInitialCursorValue .. MaxSequence]
  /\ producerPc \in {"idle", "claim", "capacity", "translate", "publish", "signal"}
  /\ cursorCache \in kInitialCursorValue .. MaxSequence
  /\ gatingCache \in kAlertedSignal .. MaxSequence
  /\ minimum \in kAlertedSignal .. MaxSequence \cup {LongMax}
  /\ gating \in {{}, Gating}
  /\ ungated \in SUBSET Gating
  /\ overload \in {"translator"} \cup Overloads
  /\ writing \in kInitialCursorValue .. MaxSequence
  /\ capacity \in {"unknown", "yes", "no"}

(* The ring is never overwritten under a reader: as long as some processor  *)
(* has not returned from OnEvent for a published sequence, the slot of that *)
(* sequence holds its event, whatever the caches of the producer said when  *)
(* it claimed (claim_strategy.h:108, event_processor.h:64).                 *)
UnhandledIntact ==
  \A c \in Consumers : \A s \in next[c] .. cursor :
    slots[CalculateIndex(s)] = s

(* A yes of HasAvailableCapacity stays true until the next claim, for every *)
(* processor of the topology and not the gating ones alone, so that a claim *)
(* of one sequence does not wait (claim_strategy.h:131).                    *)
CapacityHonest ==
  capacity = "yes" =>
    /\ WrapPoint(cursorCache + 1) <= gatingCache
    /\ \A c \in Consumers : WrapPoint(cursorCache + 1) < next[c]

(* The producer waits for processors that wait for each other and for the   *)
(* producer, but never in a circle: before the first Stop, some processor   *)
(* handles or finds what it waits for, or everything published is handled   *)
(* and a claim that waits, if the ring is large enough for it at all, finds *)
(* room (claim_strategy.h:121, wait_strategy.h:159, event_processor.h:62).  *)
NoCircularWait ==
  stopCalled = {} =>
    \/ \E c \in Consumers : pc[c] = "handle" \/ Ready(c)
    \/ /\ \A c \in Consumers : next[c] > cursor
       /\ producerPc = "claim" /\ cursorCache - cursor <= BufferSize
            => RoomFor(cursorCache)

(* BlockingStrategy loses no wakeup: a thread that is going to sleep, or    *)
(* sleeps, although its sequence is published or its barrier alerted, is    *)
(* still to be notified (wait_strategy.h:365, :382).                        *)
NoLostWakeup ==
  \A c \in Consumers :
    /\ pc[c] \in {"lockedAlert", "sleeping"} /\ next[c] <= cursor
         => producerPc = "signal"
    /\ pc[c] = "sleeping" /\ alerted[BarrierOf[c]] => stopPc = "signal"

(* OnEvent is "called when a publisher has published an event"              *)
(* (event_interface.h:37): the sequence it is given has been published.  A  *)
(* processor that is run again after a Stop starts from the alert in its    *)
(* Sequence and breaks it.                                                  *)
HandlesPublished ==
  \A c \in Consumers :
    pc[c] = "handle" /\ next[c] <= available[c] => next[c] \in 0 .. cursor

(* "Set the sequences(consumers) that will gate producers to prevent the    *)
(* ring buffer wrapping" (sequencer.h:55): once they are set, what is about *)
(* to be written has been handled, in its former slot, by every processor.  *)
(* The minimum over no Sequences stays in the cache and breaks it.          *)
GatingRespected ==
  gating = Gating /\ producerPc = "translate" =>
    \A c \in Consumers : WrapPoint(cursorCache) < next[c]

-----------------------------------------------------------------------------
(* The threads, caches and scans implement the bounded multicast log.  A    *)
(* sequence counts as claimed when IncrementAndGet returns, as handled when *)
(* OnEvent returns.                                                         *)
D == INSTANCE Disruptor WITH
       claimed   <- IF producerPc = "claim" THEN writing - 1 ELSE cursorCache,
       published <- 0 .. cursor,
       handled   <- [c \in Consumers |-> next[c] - 1]

(* Every claim, publication and handled event of the implementation is one  *)
(* the log allows: in order, once, after the dependents, and never while    *)
(* the slot is in use.                                                      *)
ImplementsDisruptor == D!Spec

-----------------------------------------------------------------------------
(* Once every processor runs, each handles every published event, unless    *)
(* the client stops one: no wait sleeps or spins on for ever                *)
(* (wait_strategy.h:371, event_processor.h:62).                             *)
EverythingHandled ==
  \A c \in Consumers, s \in 0 .. MaxSequence :
    AllRunning /\ s <= cursor ~> next[c] > s \/ stopCalled # {}

(* Once every processor runs, a PublishEvent returns, however far the       *)
(* processors were behind, unless the client stops one                      *)
(* (claim_strategy.h:121).                                                  *)
PublishCompletes ==
  AllRunning /\ producerPc # "idle" ~> producerPc = "idle" \/ stopCalled # {}
=============================================================================
