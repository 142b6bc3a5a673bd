---------------------------- MODULE WaitStrategy ----------------------------
(***************************************************************************)
(* How an event processor waits for a sequence: SequenceBarrier::WaitFor    *)
(* on top of the four wait strategies.  Each load of an atomic, and each    *)
(* acquisition of the mutex, is a step of the waiting thread.               *)
(*                                                                         *)
(* BusySpin, Yielding and Sleeping read and write the same shared state;    *)
(* they differ in what the thread does between two rounds (nothing, yield,  *)
(* sleep), which is a stutter here.  Blocking waits on the cursor under a   *)
(* mutex and a condition variable, then spins on the dependents.            *)
(***************************************************************************)
EXTENDS SequenceDefs

CONSTANTS Consumers,    (* the event processors, each with its own thread   *)
          Dependents,   (* [Consumers -> SUBSET Consumers]: _dependents     *)
          Barriers,     (* the SequenceBarriers                             *)
          BarrierOf,    (* [Consumers -> Barriers]: processors may share one *)
          WaitOption,   (* the WaitStrategyOption of the Sequencer          *)
          ClaimOption,  (* the ClaimStrategyOption of the Sequencer         *)
          NoThread

WaitStrategyOptions ==
  {"kBlockingStrategy", "kSleepingStrategy", "kYieldingStrategy",
   "kBusySpinStrategy"}

ClaimStrategyOptions ==
  {"kSingleThreadClaimStrategy", "kMultiThreadClaimStrategy"}

ASSUME TopologyAssumption ==
  /\ Dependents \in [Consumers -> SUBSET Consumers]
  /\ BarrierOf \in [Consumers -> Barriers]
  /\ NoThread \notin Consumers
  /\ Consumers # {}

(* A processor is built on a barrier, and a barrier on the Sequences of     *)
(* processors that exist (event_processor.h:39, sequencer.h:68): of any of  *)
(* them, the one built first waits on none of the others.                   *)
ASSUME DependencyAssumption ==
  \A S \in SUBSET Consumers :
    S # {} => \E c \in S : Dependents[c] \cap S = {}

ASSUME OptionAssumption ==
  /\ WaitOption \in WaitStrategyOptions
  /\ ClaimOption \in ClaimStrategyOptions

VARIABLES cursor,       (* the Sequencer's _cursor                          *)
          sequence,     (* each processor's _sequence                       *)
          alerted,      (* each barrier's _alerted                          *)
          mutex,        (* BlockingStrategy::_mutex: its owner, or NoThread *)
          pc,           (* where each processor's thread is                 *)
          next,         (* its next_sequence, the one it waits for          *)
          available,    (* its available_sequence                           *)
          unread        (* the dependents GetMinimumSequence has still to load *)

waitVars == <<cursor, sequence, alerted, mutex, pc, next, available, unread>>

Blocking == WaitOption = "kBlockingStrategy"

WaitPcs == {"readCursor", "readDependents", "checkAlert",
            "lock", "lockedCursor", "lockedAlert", "sleeping"}

Goto(c, label) == pc' = [pc EXCEPT ![c] = label]

-----------------------------------------------------------------------------
(* Leaving and restarting the wait.                                         *)

(* SequenceBarrier::WaitFor: a signal, and any value of a strategy whose    *)
(* claims are published in order, goes to the processor as it is; with      *)
(* several producers the flags of the range are probed first.               *)
AfterWaitFor(value) ==
  IF value < kFirstSequenceValue \/ ClaimOption = "kSingleThreadClaimStrategy"
  THEN "handle"
  ELSE "probe"

Return(c, value) ==
  /\ available' = [available EXCEPT ![c] = value]
  /\ Goto(c, AfterWaitFor(value))
  /\ UNCHANGED unread

(* The minimum of an earlier round not reset to LONG_MAX.                   *)
ScanDependentsMutated(c) ==
  /\ unread' = [unread EXCEPT ![c] = Dependents[c]]
  /\ Goto(c, "readDependents")
  /\ UNCHANGED available

(* GetMinimumSequence(dependents) begins.  Its loads go in the order of the *)
(* vector, which is the order the client built it in: any order here.       *)
ScanDependents(c) ==
  /\ unread' = [unread EXCEPT ![c] = Dependents[c]]
  /\ available' = [available EXCEPT ![c] = LongMax]
  /\ Goto(c, "readDependents")

(* The first load of WaitFor: buildMinSequenceFunction picks the cursor or  *)
(* the dependents; BlockingStrategy always starts with the cursor.          *)
BeginWaitFor(c) ==
  IF Blocking \/ Dependents[c] = {}
  THEN /\ available' = [available EXCEPT ![c] = kInitialCursorValue]
       /\ Goto(c, "readCursor")
       /\ UNCHANGED unread
  ELSE ScanDependents(c)

(* BlockingStrategy, once the cursor has reached the sequence.              *)
WaitOnDependentsMutated(c) == Return(c, cursor)
WaitOnDependents(c) ==
  IF Dependents[c] = {} THEN Return(c, cursor) ELSE ScanDependents(c)

-----------------------------------------------------------------------------
(* The spinning part: all strategies.                                       *)

ReadCursor(c) ==
  /\ pc[c] = "readCursor"
  /\ \/ /\ cursor >= next[c]
        /\ WaitOnDependents(c)
     \/ /\ cursor < next[c]
        /\ Goto(c, IF Blocking THEN "lock" ELSE "checkAlert")
        /\ UNCHANGED <<available, unread>>
  /\ UNCHANGED <<cursor, sequence, alerted, mutex, next>>

ReadDependent(c, d) ==
  LET minimum == Minimum(available[c], sequence[d])
      last    == unread[c] = {d}
  IN
  /\ pc[c] = "readDependents"
  /\ d \in unread[c]
  /\ unread' = [unread EXCEPT ![c] = @ \ {d}]
  /\ available' = [available EXCEPT ![c] = minimum]
  /\ Goto(c, IF ~last THEN "readDependents"
             ELSE IF minimum < next[c] THEN "checkAlert"
             ELSE AfterWaitFor(minimum))
  /\ UNCHANGED <<cursor, sequence, alerted, mutex, next>>

CheckAlert(c) ==
  /\ pc[c] = "checkAlert"
  /\ \/ /\ alerted[BarrierOf[c]]
        /\ Return(c, kAlertedSignal)
     \/ /\ ~alerted[BarrierOf[c]]
        /\ IF Dependents[c] = {}
           THEN Goto(c, "readCursor") /\ UNCHANGED <<available, unread>>
           ELSE ScanDependents(c)
  /\ UNCHANGED <<cursor, sequence, alerted, mutex, next>>

-----------------------------------------------------------------------------
(* The blocking part.  The mutex is recursive but never taken twice.        *)

Lock(c) ==
  /\ pc[c] = "lock"
  /\ mutex = NoThread
  /\ mutex' = c
  /\ Goto(c, "lockedCursor")
  /\ UNCHANGED <<cursor, sequence, alerted, next, available, unread>>

LockedCursor(c) ==
  /\ pc[c] = "lockedCursor"
  /\ \/ /\ cursor >= next[c]
        /\ mutex' = NoThread
        /\ WaitOnDependents(c)
     \/ /\ cursor < next[c]
        /\ Goto(c, "lockedAlert")
        /\ UNCHANGED <<mutex, available, unread>>
  /\ UNCHANGED <<cursor, sequence, alerted, next>>

(* wait() releases the mutex and enters the condition variable in one step. *)
LockedAlertMutated(c) ==
  /\ pc[c] = "lockedAlert"
  /\ mutex' = NoThread
  /\ Goto(c, "sleeping")
  /\ UNCHANGED <<cursor, sequence, alerted, next, available, unread>>

LockedAlert(c) ==
  /\ pc[c] = "lockedAlert"
  /\ mutex' = NoThread
  /\ \/ /\ alerted[BarrierOf[c]]
        /\ Return(c, kAlertedSignal)
     \/ /\ ~alerted[BarrierOf[c]]
        /\ Goto(c, "sleeping")
        /\ UNCHANGED <<available, unread>>
  /\ UNCHANGED <<cursor, sequence, alerted, next>>

(* A condition variable may wake without a notification.                    *)
SpuriousWake(c) ==
  /\ pc[c] = "sleeping"
  /\ Goto(c, "lock")
  /\ UNCHANGED <<cursor, sequence, alerted, mutex, next, available, unread>>

(* lock, notify_all, unlock: one step, as nothing is read under the lock    *)
(* and the woken threads go back to acquiring it.  A no-op when spinning.   *)
SignalMutated == UNCHANGED pc

SignalAllWhenBlocking ==
  IF Blocking
  THEN /\ mutex = NoThread
       /\ pc' = [c \in Consumers |->
                   IF pc[c] = "sleeping" THEN "lock" ELSE pc[c]]
  ELSE UNCHANGED pc

-----------------------------------------------------------------------------
(* The steps of WaitFor that run on the waiting thread.  SpuriousWake is    *)
(* the environment's.                                                       *)
WaitForStep(c) ==
  \/ ReadCursor(c)
  \/ \E d \in Dependents[c] : ReadDependent(c, d)
  \/ CheckAlert(c)
  \/ Lock(c)
  \/ LockedCursor(c)
  \/ LockedAlert(c)
=============================================================================
