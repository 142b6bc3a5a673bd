----------------------------- MODULE TimedWait -----------------------------
(***************************************************************************)
(* SequenceBarrier::WaitFor with a timeout: one thread waits, again and     *)
(* again, while one or several producers publish, the processors it depends *)
(* on handle, record what they have handled or that they were alerted,      *)
(* alerts come and go, time passes and the clock is set.  The event         *)
(* processor does not use it; a client calls it.                            *)
(***************************************************************************)
EXTENDS SequenceDefs

CONSTANTS Processors,   (* those the barrier may depend on, each run once   *)
          Dependencies, (* the sets of dependents looked at                 *)
          Options,      (* the WaitStrategyOptions looked at                *)
          ClaimOptions, (* the ClaimStrategyOptions looked at               *)
          Timeout,      (* the timeout of each call, in ticks               *)
          RetryLoop,    (* _retry_loop                                      *)
          MaxSequence,  (* bound: the last sequence published               *)
          MaxAlarms,    (* bound: alerts set or cleared or recorded by a    *)
                        (* dependent, spurious wakeups, clock changes       *)
          MaxSetBack    (* bound: the ticks a clock is set back beyond the  *)
                        (* moment of the call                               *)

ASSUME TimedAssumption ==
  /\ Options \subseteq {"kBlockingStrategy", "kSleepingStrategy",
                        "kYieldingStrategy", "kBusySpinStrategy"}
  /\ ClaimOptions \subseteq {"kSingleThreadClaimStrategy",
                             "kMultiThreadClaimStrategy"}
  /\ Dependencies \subseteq SUBSET Processors
  /\ Timeout \in Nat /\ RetryLoop \in Nat
  /\ MaxSequence \in Nat /\ MaxAlarms \in Nat /\ MaxSetBack \in Nat

VARIABLES option,      (* the wait strategy of the Sequencer                *)
          claimOption, (* and its claim strategy                            *)
          dependents,  (* the processors the barrier depends on             *)
          cursor,
          published,   (* the sequences published                           *)
          sequence,    (* the Sequence of each processor                    *)
          handled,     (* the last event each processor has handled         *)
          alerted,
          owed,        (* SignalAllWhenBlocking is still to be called       *)
          alarms,      (* those of MaxAlarms so far                         *)
          pc,          (* where the waiting thread is                       *)
          requested,   (* the sequence it waits for                         *)
          probing,     (* the sequence whose flag it probes next            *)
          forward,     (* the clock was set forward since the call          *)
          available,   (* its available_sequence, the answer when idle      *)
          unread,      (* dependents GetMinimumSequence has still to load   *)
          counter,     (* the loops left before it yields or sleeps         *)
          left,        (* ticks until the deadline it is waiting for        *)
          elapsed      (* ticks since the call, up to Timeout               *)

configVars == <<option, claimOption, dependents>>
sharedVars == <<configVars, cursor, published, sequence, handled, alerted, owed,
                alarms>>
requestVars == <<requested, probing, forward>>
callVars == <<pc, requestVars, available, unread, counter, left, elapsed>>
vars == <<sharedVars, callVars>>

Blocking == option = "kBlockingStrategy"
Several == claimOption = "kMultiThreadClaimStrategy"

Init ==
  /\ option \in Options
  /\ claimOption \in ClaimOptions
  /\ dependents \in Dependencies
  /\ cursor = kInitialCursorValue
  /\ published = {}
  /\ sequence = [d \in Processors |-> kInitialCursorValue]
  /\ handled = [d \in Processors |-> kInitialCursorValue]
  /\ alerted = FALSE
  /\ owed = FALSE
  /\ alarms = 0
  /\ pc = "idle"
  /\ requested = kFirstSequenceValue
  /\ probing = kFirstSequenceValue
  /\ forward = FALSE
  /\ available = kAlertedSignal  (* no answer yet *)
  /\ unread = {}
  /\ counter = RetryLoop
  /\ left = 0
  /\ elapsed = 0

(* With several producers the flags are probed before a value is returned.  *)
AfterWaitFor(value) ==
  IF value < kFirstSequenceValue \/ ~Several THEN "idle" ELSE "probe"

Return(value) ==
  /\ available' = value
  /\ pc' = AfterWaitFor(value)
  /\ UNCHANGED unread

ScanDependents ==
  /\ unread' = dependents
  /\ available' = LongMax
  /\ pc' = "readDependents"

(* One evaluation of min_sequence().                                        *)
MinSequence ==
  IF dependents = {}
  THEN pc' = "readCursor" /\ UNCHANGED <<available, unread>>
  ELSE ScanDependents

(* BlockingStrategy, once the cursor has reached the sequence.              *)
WaitOnDependentsMutated == Return(cursor)
WaitOnDependents == IF dependents = {} THEN Return(cursor) ELSE ScanDependents

-----------------------------------------------------------------------------
(* The waiting thread.                                                      *)

Call(s) ==
  /\ pc = "idle"
  /\ requested' = s
  /\ probing' = s
  /\ forward' = FALSE
  /\ counter' = RetryLoop
  /\ left' = Timeout
  /\ elapsed' = 0
  /\ IF Blocking
     THEN pc' = "readCursor" /\ UNCHANGED <<available, unread>>
     ELSE MinSequence
  /\ UNCHANGED sharedVars

(* The cursor is there, or BlockingStrategy takes the lock and the others   *)
(* look at the alert.  The lock is free: whoever signals holds it for one   *)
(* step.                                                                    *)
ReadCursor ==
  /\ pc = "readCursor"
  /\ \/ /\ cursor >= requested
        /\ WaitOnDependents
     \/ /\ cursor < requested
        /\ pc' = IF Blocking THEN "lockedCursor" ELSE "checkAlert"
        /\ UNCHANGED <<available, unread>>
  /\ UNCHANGED <<sharedVars, requestVars, counter, left, elapsed>>

ReadDependent(d) ==
  LET minimum == Minimum(available, sequence[d]) IN
  /\ pc = "readDependents"
  /\ d \in unread
  /\ unread' = unread \ {d}
  /\ available' = minimum
  /\ pc' = IF unread # {d} THEN "readDependents"
           ELSE IF minimum < requested THEN "checkAlert" ELSE AfterWaitFor(minimum)
  /\ UNCHANGED <<sharedVars, requestVars, counter, left, elapsed>>

(* BusySpin goes on to the deadline, Yielding and Sleeping back off first,  *)
(* and BlockingStrategy, which has no deadline here, scans again.           *)
CheckAlert ==
  /\ pc = "checkAlert"
  /\ \/ /\ alerted
        /\ Return(kAlertedSignal)
     \/ /\ ~alerted
        /\ Blocking
        /\ ScanDependents
     \/ /\ ~alerted
        /\ ~Blocking
        /\ pc' = IF option = "kBusySpinStrategy" THEN "checkTime" ELSE "backOff"
        /\ UNCHANGED <<available, unread>>
  /\ UNCHANGED <<sharedVars, requestVars, counter, left, elapsed>>

(* ApplyWaitMethod of YieldingStrategy: loops are counted down, then each   *)
(* round yields.                                                            *)
YieldingWait ==
  /\ pc = "backOff" /\ option = "kYieldingStrategy"
  /\ counter' = IF counter # 0 THEN counter - 1 ELSE counter
  /\ pc' = "checkTime"
  /\ UNCHANGED <<sharedVars, requestVars, available, unread, left, elapsed>>

(* Counting on below zero.                                                  *)
SleepingWaitMutated ==
  /\ pc = "backOff" /\ option = "kSleepingStrategy"
  /\ counter' = counter - 1
  /\ pc' = "checkTime"
  /\ UNCHANGED <<sharedVars, requestVars, available, unread, left, elapsed>>

(* That of SleepingStrategy: they are counted down, yielding or not; then   *)
(* each round sleeps, for at least a tick.                                  *)
SleepingWait ==
  /\ pc = "backOff" /\ option = "kSleepingStrategy"
  /\ \/ /\ counter > 0
        /\ counter' = counter - 1
        /\ pc' = "checkTime"
     \/ /\ counter <= 0
        /\ pc' = "napping"
        /\ UNCHANGED counter
  /\ UNCHANGED <<sharedVars, requestVars, available, unread, left, elapsed>>

(* The deadline is reached a tick early.                                    *)
CheckTimeEarly ==
  /\ pc = "checkTime"
  /\ IF left <= 1 THEN Return(kTimeoutSignal) ELSE MinSequence
  /\ UNCHANGED <<sharedVars, requestVars, counter, left, elapsed>>

CheckTime ==
  /\ pc = "checkTime"
  /\ \/ left = 0 /\ Return(kTimeoutSignal)
     \/ left > 0 /\ MinSequence
  /\ UNCHANGED <<sharedVars, requestVars, counter, left, elapsed>>

-----------------------------------------------------------------------------
(* The waiting thread in BlockingStrategy, holding the lock.                *)

(* Not looking at the cursor again under the lock.                          *)
LockedCursorMutated ==
  /\ pc = "lockedCursor"
  /\ pc' = "lockedAlert"
  /\ UNCHANGED <<sharedVars, requestVars, available, unread, counter, left, elapsed>>

LockedCursor ==
  /\ pc = "lockedCursor"
  /\ \/ /\ cursor >= requested
        /\ WaitOnDependents
     \/ /\ cursor < requested
        /\ pc' = "lockedAlert"
        /\ UNCHANGED <<available, unread>>
  /\ UNCHANGED <<sharedVars, requestVars, counter, left, elapsed>>

(* Each wait_for gets the whole timeout, however long the call has lasted.  *)
LockedAlert ==
  /\ pc = "lockedAlert"
  /\ \/ /\ alerted
        /\ Return(kAlertedSignal)
        /\ UNCHANGED left
     \/ /\ ~alerted
        /\ pc' = "sleeping"
        /\ left' = Timeout
        /\ UNCHANGED <<available, unread>>
  /\ UNCHANGED <<sharedVars, requestVars, counter, elapsed>>

(* A timeout of wait_for taken for a wakeup.                                *)
WaitTimesOutMutated ==
  /\ pc = "sleeping"
  /\ left = 0
  /\ pc' = "lockedCursor"
  /\ UNCHANGED <<sharedVars, requestVars, available, unread, counter, left, elapsed>>

(* wait_for returns cv_status::timeout; the cursor is not looked at again.  *)
WaitTimesOut ==
  /\ pc = "sleeping"
  /\ left = 0
  /\ Return(kTimeoutSignal)
  /\ UNCHANGED <<sharedVars, requestVars, counter, left, elapsed>>

(* GetHighesetPublishedSequence: up to the first missing flag.              *)
Probe ==
  /\ pc = "probe"
  /\ \/ /\ probing \in published
        /\ probing < available
        /\ probing' = probing + 1
        /\ UNCHANGED <<pc, available>>
     \/ /\ probing \in published
        /\ probing = available
        /\ pc' = "idle"
        /\ UNCHANGED <<probing, available>>
     \/ /\ probing \notin published
        /\ available' = probing - 1
        /\ pc' = "idle"
        /\ UNCHANGED probing
  /\ UNCHANGED <<sharedVars, requested, forward, unread, counter, left, elapsed>>

WaiterStep ==
  \/ ReadCursor
  \/ \E d \in dependents : ReadDependent(d)
  \/ CheckAlert
  \/ YieldingWait
  \/ SleepingWait
  \/ CheckTime
  \/ LockedCursor
  \/ LockedAlert
  \/ WaitTimesOut
  \/ Probe

-----------------------------------------------------------------------------
(* The other threads, and time.                                             *)

(* A wakeup takes the lock back and goes to the test of the loop.           *)
WakeSleeper == pc' = IF pc = "sleeping" THEN "lockedCursor" ELSE pc

(* With several producers the cursor is what is claimed, and who claimed    *)
(* later may publish first.                                                 *)
Claim ==
  /\ Several
  /\ cursor < MaxSequence
  /\ cursor' = cursor + 1
  /\ UNCHANGED <<configVars, published, sequence, handled, alerted, owed, alarms,
                 callVars>>

Publish(s) ==
  /\ s \notin published
  /\ IF Several THEN s <= cursor /\ UNCHANGED cursor
                ELSE s = cursor + 1 /\ cursor' = s
  /\ published' = published \cup {s}
  /\ owed' = TRUE
  /\ UNCHANGED <<configVars, sequence, handled, alerted, alarms, callVars>>

(* A dependent runs on a barrier of its own, and handles what is published. *)
Handle(d) ==
  /\ handled[d] + 1 \in published
  /\ handled' = [handled EXCEPT ![d] = @ + 1]
  /\ UNCHANGED <<configVars, cursor, published, sequence, alerted, owed, alarms, callVars>>

(* The Sequence changed before the event is processed: the bug noted at     *)
(* event_processor.h:60.                                                    *)
RecordEarly(d) ==
  /\ sequence[d] + 1 \in published
  /\ sequence' = [sequence EXCEPT ![d] = @ + 1]
  /\ UNCHANGED <<configVars, cursor, published, handled, alerted, owed, alarms, callVars>>

(* SetSequence(available_sequence), all of which it has handled.            *)
Record(d) ==
  /\ sequence' = [sequence EXCEPT ![d] = handled[d]]
  /\ UNCHANGED <<configVars, cursor, published, handled, alerted, owed, alarms, callVars>>

(* The same when its own barrier is alerted, by its Stop, after which it    *)
(* moves no more, or by that of another one on that barrier.                *)
RecordAlerted(d) ==
  /\ alarms < MaxAlarms
  /\ alarms' = alarms + 1
  /\ sequence' = [sequence EXCEPT ![d] = kAlertedSignal]
  /\ UNCHANGED <<configVars, cursor, published, handled, alerted, owed, callVars>>

(* Stop sets the alert and will signal; Run of a processor on the barrier   *)
(* clears it.                                                               *)
SetAlerted ==
  /\ alarms < MaxAlarms
  /\ alarms' = alarms + 1
  /\ alerted' = ~alerted
  /\ owed' = (owed \/ ~alerted)
  /\ UNCHANGED <<configVars, cursor, published, sequence, handled, callVars>>

(* Needs the lock, which the waiting thread has while it tests.             *)
SignalAllWhenBlocking ==
  /\ owed
  /\ pc \notin {"lockedCursor", "lockedAlert"}
  /\ owed' = FALSE
  /\ WakeSleeper
  /\ UNCHANGED <<configVars, cursor, published, sequence, handled, alerted, alarms,
                 requestVars, available, unread, counter, left, elapsed>>

SpuriousWake ==
  /\ pc = "sleeping"
  /\ alarms < MaxAlarms
  /\ alarms' = alarms + 1
  /\ WakeSleeper
  /\ UNCHANGED <<configVars, cursor, published, sequence, handled, alerted, owed,
                 requestVars, available, unread, counter, left, elapsed>>

(* The deadline of the polling strategies is a time of system_clock, which  *)
(* is set, forward or back, also to before the call.                        *)
SetClock ==
  /\ pc # "idle" /\ ~Blocking
  /\ alarms < MaxAlarms
  /\ alarms' = alarms + 1
  /\ left' \in 0 .. Timeout + MaxSetBack
  /\ forward' = (forward \/ left' < left)
  /\ UNCHANGED <<configVars, cursor, published, sequence, handled, alerted, owed, pc,
                 requested, probing, available, unread, counter, elapsed>>

Tick ==
  /\ pc # "idle"
  /\ left' = IF left > 0 THEN left - 1 ELSE 0
  /\ elapsed' = IF elapsed < Timeout THEN elapsed + 1 ELSE Timeout
  /\ pc' = IF pc = "napping" THEN "checkTime" ELSE pc
  /\ UNCHANGED <<sharedVars, requestVars, available, unread, counter>>

Next ==
  \/ \E s \in 0 .. MaxSequence : Call(s)
  \/ WaiterStep
  \/ Claim
  \/ \E s \in 0 .. MaxSequence : Publish(s)
  \/ \E d \in dependents : Handle(d) \/ Record(d) \/ RecordAlerted(d)
  \/ SetAlerted
  \/ SignalAllWhenBlocking
  \/ SpuriousWake
  \/ SetClock
  \/ Tick

Spec == Init /\ [][Next]_vars

(* The waiting thread is scheduled, time passes, and who has published or   *)
(* alerted gets to signal.  Nobody need publish, handle or alert.           *)
Fairness ==
  /\ WF_vars(WaiterStep)
  /\ WF_vars(Tick)
  /\ SF_vars(SignalAllWhenBlocking)

FairSpec == Spec /\ Fairness

-----------------------------------------------------------------------------
(* Every variable stays in the range the code gives it: the counter of      *)
(* ApplyWaitMethod stops at zero, a Sequence may be kAlertedSignal.         *)
TypeOK ==
  /\ option \in Options
  /\ claimOption \in ClaimOptions
  /\ dependents \in SUBSET Processors
  /\ cursor \in kInitialCursorValue .. MaxSequence
  /\ published \in SUBSET (0 .. cursor)
  /\ sequence \in [Processors -> kAlertedSignal .. MaxSequence]
  /\ handled \in [Processors -> kInitialCursorValue .. MaxSequence]
  /\ alerted \in BOOLEAN
  /\ owed \in BOOLEAN
  /\ alarms \in 0 .. MaxAlarms
  /\ pc \in {"idle", "readCursor", "readDependents", "checkAlert", "backOff",
             "napping", "checkTime", "lockedCursor", "lockedAlert", "sleeping",
             "probe"}
  /\ requested \in 0 .. MaxSequence
  /\ probing \in requested .. MaxSequence
  /\ forward \in BOOLEAN
  /\ available \in kTimeoutSignal .. MaxSequence \cup {LongMax}
  /\ unread \in SUBSET Processors
  /\ counter \in 0 .. RetryLoop
  /\ left \in 0 .. Timeout + MaxSetBack
  /\ elapsed \in 0 .. Timeout

(* No strategy reports a timeout before the timeout has passed, counted     *)
(* from the call, whatever woke it in between (wait_strategy.h:86), unless  *)
(* the system clock was set forward under a polling one (:182).             *)
NeverEarly ==
  pc = "idle" /\ available = kTimeoutSignal => elapsed = Timeout \/ forward

(* All that is answered is published, and every dependent has returned from *)
(* OnEvent for it, although cursor, flags and dependents are loaded at      *)
(* different times and a dependent loaded may be stopped before the answer, *)
(* its Sequence set back; and it reaches the sequence requested, or stops   *)
(* one short only when that is claimed and not published                    *)
(* (wait_strategy.h:87, sequence_barrier.h:74, event_processor.h:70).       *)
AnswerReady ==
  pc = "idle" /\ available > kAlertedSignal =>
    /\ requested .. available \subseteq published
    /\ \A d \in dependents : available <= handled[d]
    /\ \/ requested <= available
       \/ Several /\ dependents = {} /\ available = requested - 1

(* The timed wait of BlockingStrategy misses no signal: if it sleeps        *)
(* although the sequence is claimed or the barrier alerted, a signal is     *)
(* still to come before the timeout answers (wait_strategy.h:384).          *)
NoMissedSignal ==
  pc = "sleeping" /\ (cursor >= requested \/ alerted)
    => owed \/ ~(0 .. cursor \subseteq published)

(* BlockingStrategy in its second phase, which has no deadline.             *)
SpinsOnDependents == Blocking /\ dependents # {} /\ cursor >= requested

(* Every timed call returns, even if nobody publishes or alerts; one of     *)
(* BlockingStrategy as long as the cursor is behind, and if it is woken     *)
(* without need a finite number of times only (wait_strategy.h:186, :391).  *)
TimedReturns == pc # "idle" ~> pc = "idle" \/ SpinsOnDependents

(* "kTimeoutSignal if the the requested timeout was reached while waiting,  *)
(* otherwise return the greatest available sequence"                        *)
(* (wait_strategy.h:86): a timed call returns.  BlockingStrategy spins on   *)
(* its dependents without a deadline and breaks it.                         *)
TimeoutReached == pc # "idle" ~> pc = "idle"
=============================================================================
