-------------------------- MODULE TimedWaitProofs --------------------------
(***************************************************************************)
(* The safety of WaitFor with a timeout, for every wait and claim strategy, *)
(* any processors, timeout and retry count, and any alerts, wakeups and     *)
(* settings of the clock.                                                   *)
(***************************************************************************)
EXTENDS TimedWaitInv, TLAPS

LEMMA Types ==
  ASSUME TypeOK
  PROVE  /\ cursor \in Int /\ -1 <= cursor /\ cursor <= MaxSequence
         /\ requested \in Int /\ 0 <= requested /\ requested <= MaxSequence
         /\ probing \in Int /\ requested <= probing /\ probing <= MaxSequence
         /\ available \in Int /\ -3 <= available
         /\ left \in Int /\ 0 <= left /\ left <= Timeout + MaxSetBack
         /\ elapsed \in Int /\ 0 <= elapsed /\ elapsed <= Timeout
         /\ counter \in Int /\ 0 <= counter /\ counter <= RetryLoop
         /\ alarms \in Int
         /\ \A d \in Processors :
              /\ sequence[d] \in Int /\ -2 <= sequence[d] /\ sequence[d] <= MaxSequence
              /\ handled[d] \in Int /\ -1 <= handled[d] /\ handled[d] <= MaxSequence
         /\ Timeout \in Nat /\ RetryLoop \in Nat /\ MaxSequence \in Nat
         /\ MaxAlarms \in Nat /\ MaxSetBack \in Nat /\ LongMax \in Nat
<1>1. /\ Timeout \in Nat /\ RetryLoop \in Nat /\ MaxSequence \in Nat
      /\ MaxAlarms \in Nat /\ MaxSetBack \in Nat /\ LongMax \in Nat
  BY TimedAssumption, LongMaxAssumption
<1>2. /\ cursor \in Int /\ -1 <= cursor /\ cursor <= MaxSequence
      /\ requested \in Int /\ 0 <= requested /\ requested <= MaxSequence
      /\ left \in Int /\ 0 <= left /\ left <= Timeout + MaxSetBack
      /\ elapsed \in Int /\ 0 <= elapsed /\ elapsed <= Timeout
      /\ counter \in Int /\ 0 <= counter /\ counter <= RetryLoop
      /\ alarms \in Int
  BY <1>1 DEF TypeOK, kInitialCursorValue
<1>3. probing \in Int /\ requested <= probing /\ probing <= MaxSequence
  BY <1>1, <1>2 DEF TypeOK
<1>4. available \in Int /\ -3 <= available
  BY <1>1 DEF TypeOK, kTimeoutSignal
<1>5. \A d \in Processors :
        /\ sequence[d] \in Int /\ -2 <= sequence[d] /\ sequence[d] <= MaxSequence
        /\ handled[d] \in Int /\ -1 <= handled[d] /\ handled[d] <= MaxSequence
  BY <1>1 DEF TypeOK, kInitialCursorValue, kAlertedSignal
<1> QED
  BY <1>1, <1>2, <1>3, <1>4, <1>5

(* Everything published is claimed.                                         *)
LEMMA PublishedBound ==
  ASSUME TypeOK, NEW s \in published
  PROVE  s \in 0 .. cursor
BY DEF TypeOK

-----------------------------------------------------------------------------
(* The ways the waiting thread moves on.                                    *)

(* A step of the waiting thread that only moves it and its answer.          *)
Quiet == UNCHANGED <<sharedVars, requestVars, counter, left, elapsed>>

(* To a place where nothing is promised but the deadline.                   *)
LEMMA MoveInv ==
  ASSUME TimedInv, pc # "idle", pc # "probe",
         UNCHANGED <<sharedVars, requestVars, available, unread, elapsed>>,
         pc' \in {"readCursor", "checkAlert", "backOff", "napping", "checkTime",
                  "lockedCursor"},
         pc' = "checkAlert" => ~Blocking,
         counter' \in 0 .. RetryLoop,
         left' \in 0 .. Timeout + MaxSetBack, left <= left'
  PROVE  TimedInv'
<1> USE DEF TimedInv, sharedVars, configVars, requestVars
<1>1. TypeOK'
  BY DEF TypeOK
<1>2. ProgressInv'
  BY DEF ProgressInv, Several
<1>3. DeadlineInv'
  BY <1>1, Types DEF DeadlineInv, NeverEarly
<1>4. ScanInv' /\ ProbeInv' /\ AnswerReady'
  BY DEF ScanInv, ProbeInv, AnswerReady, Blocking
<1>5. SignalInv'
  BY DEF SignalInv, NoMissedSignal
<1> QED
  BY <1>1, <1>2, <1>3, <1>4, <1>5

LEMMA SignalReturned ==
  ASSUME TimedInv, pc # "idle", Quiet,
         NEW v \in {kTimeoutSignal, kAlertedSignal}, Return(v),
         v = kTimeoutSignal => left = 0
  PROVE  TimedInv'
<1> USE DEF TimedInv, Quiet, sharedVars, configVars, requestVars
<1>1. pc' = "idle" /\ available' = v /\ unread' = unread /\ v < 0
  BY DEF Return, AfterWaitFor, kTimeoutSignal, kAlertedSignal, kFirstSequenceValue,
     kInitialCursorValue
<1>2. TypeOK'
  <2>1. v \in kTimeoutSignal .. MaxSequence
    BY TimedAssumption DEF kTimeoutSignal, kAlertedSignal
  <2> QED
    BY <1>1, <2>1 DEF TypeOK
<1>3. ProgressInv'
  BY DEF ProgressInv, Several
<1>4. DeadlineInv'
  BY <1>1, Types DEF DeadlineInv, NeverEarly, kTimeoutSignal, kAlertedSignal
<1>5. ScanInv' /\ ProbeInv'
  BY <1>1 DEF ScanInv, ProbeInv
<1>6. AnswerReady'
  BY <1>1 DEF AnswerReady, kTimeoutSignal, kAlertedSignal
<1>7. SignalInv'
  BY <1>1 DEF SignalInv, NoMissedSignal
<1> QED
  BY <1>2, <1>3, <1>4, <1>5, <1>6, <1>7

LEMMA ScanBegins ==
  ASSUME TimedInv, pc \notin {"idle", "probe"}, Quiet, dependents # {}, ScanDependents
  PROVE  TimedInv'
<1> USE DEF TimedInv, Quiet, sharedVars, configVars, requestVars
<1>1. pc' = "readDependents" /\ available' = LongMax /\ unread' = dependents
  BY DEF ScanDependents
<1>2. TypeOK'
  BY <1>1 DEF TypeOK
<1>3. ProgressInv'
  BY DEF ProgressInv, Several
<1>4. DeadlineInv'
  BY <1>1 DEF DeadlineInv, NeverEarly
<1>5. ScanInv'
  BY <1>1, LongMaxAssumption DEF ScanInv, kAlertedSignal
<1>6. ProbeInv' /\ AnswerReady'
  BY <1>1 DEF ProbeInv, AnswerReady
<1>7. SignalInv'
  BY <1>1 DEF SignalInv, NoMissedSignal
<1> QED
  BY <1>2, <1>3, <1>4, <1>5, <1>6, <1>7

(* A value at least that requested, which no dependent is behind, and which *)
(* is claimed.                                                              *)
LEMMA ValueReturned ==
  ASSUME TimedInv, pc \notin {"idle", "probe"}, Quiet,
         NEW v \in Int, requested <= v, v <= cursor,
         \A d \in dependents : v <= handled[d],
         dependents # {} \/ ~Several => requested .. v \subseteq published,
         available' = v, pc' = AfterWaitFor(v), unread' \in SUBSET Processors
  PROVE  TimedInv'
<1> USE DEF TimedInv, Quiet, sharedVars, configVars, requestVars
<1>1. pc' = IF Several THEN "probe" ELSE "idle"
  BY Types DEF AfterWaitFor, kFirstSequenceValue, kInitialCursorValue
<1>2. TypeOK'
  <2>1. v \in kTimeoutSignal .. MaxSequence
    BY Types DEF kTimeoutSignal
  <2> QED
    BY <1>1, <2>1 DEF TypeOK
<1>3. ProgressInv'
  BY DEF ProgressInv, Several
<1>4. DeadlineInv'
  <2>1. v # kTimeoutSignal
    BY Types DEF kTimeoutSignal
  <2> QED
    BY <1>1, <2>1 DEF DeadlineInv, NeverEarly
<1>5. ScanInv'
  BY <1>1 DEF ScanInv
<1>6. ProbeInv'
  <2>1. probing = requested
    BY DEF ProbeInv
  <2>2. requested .. probing - 1 = {}
    BY <2>1, Types
  <2> QED
    BY <1>1, <2>1, <2>2 DEF ProbeInv, Several
<1>7. AnswerReady'
  BY <1>1 DEF AnswerReady, Several
<1>8. SignalInv'
  BY <1>1 DEF SignalInv, NoMissedSignal
<1> QED
  BY <1>2, <1>3, <1>4, <1>5, <1>6, <1>7, <1>8

-----------------------------------------------------------------------------
(* The steps of the waiting thread.                                         *)

LEMMA WaitOnDependentsInv ==
  ASSUME TimedInv, pc \notin {"idle", "probe"}, Quiet, cursor >= requested,
         WaitOnDependents
  PROVE  TimedInv'
<1>1. CASE dependents = {}
  <2>1. ~Several => requested .. cursor \subseteq published
    BY Types DEF TimedInv, ProgressInv
  <2> QED
    BY <1>1, <2>1, Types, ValueReturned
       DEF WaitOnDependents, Return, TimedInv, TypeOK
<1>2. CASE dependents # {}
  BY <1>2, ScanBegins DEF WaitOnDependents
<1> QED
  BY <1>1, <1>2

LEMMA ReadCursorInv ==
  ASSUME TimedInv, ReadCursor
  PROVE  TimedInv'
<1>1. CASE cursor >= requested /\ WaitOnDependents
  BY <1>1, WaitOnDependentsInv DEF ReadCursor, Quiet
<1>2. CASE /\ pc' = IF Blocking THEN "lockedCursor" ELSE "checkAlert"
           /\ UNCHANGED <<available, unread>>
  BY <1>2, MoveInv, Types DEF ReadCursor, TimedInv, TypeOK, requestVars
<1> QED
  BY <1>1, <1>2 DEF ReadCursor

LEMMA LockedCursorInv ==
  ASSUME TimedInv, LockedCursor
  PROVE  TimedInv'
<1>1. CASE cursor >= requested /\ WaitOnDependents
  BY <1>1, WaitOnDependentsInv DEF LockedCursor, Quiet
<1>2. CASE /\ cursor < requested
           /\ pc' = "lockedAlert"
           /\ UNCHANGED <<available, unread>>
  <2> USE DEF LockedCursor, TimedInv, sharedVars, configVars, requestVars
  <2>1. TypeOK'
    BY <1>2 DEF TypeOK
  <2>2. ProgressInv'
    BY DEF ProgressInv, Several
  <2>3. DeadlineInv' /\ ScanInv' /\ ProbeInv' /\ AnswerReady'
    BY <1>2 DEF DeadlineInv, NeverEarly, ScanInv, ProbeInv, AnswerReady
  <2>4. SignalInv'
    BY <1>2, Types DEF SignalInv, NoMissedSignal
  <2> QED
    BY <2>1, <2>2, <2>3, <2>4
<1> QED
  BY <1>1, <1>2 DEF LockedCursor

(* The last load decides with the minimum over all dependents: what it      *)
(* returns is handled by each, and so published.                            *)
LEMMA ReadDependentInv ==
  ASSUME TimedInv, NEW d \in dependents, ReadDependent(d)
  PROVE  TimedInv'
<1> DEFINE m == Minimum(available, sequence[d])
<1>1. d \in Processors /\ d \in unread /\ pc = "readDependents"
  BY DEF ReadDependent, TimedInv, TypeOK
<1>2. /\ sequence[d] \in Int /\ -2 <= sequence[d] /\ sequence[d] <= MaxSequence
      /\ handled[d] \in Int /\ sequence[d] <= handled[d]
  BY <1>1, Types DEF TimedInv, ProgressInv
<1>3. available \in Int /\ -2 <= available
  BY <1>1, Types DEF TimedInv, ScanInv, kAlertedSignal
<1>4. /\ m \in Int /\ -2 <= m /\ m <= available /\ m <= handled[d]
      /\ m \in kTimeoutSignal .. MaxSequence \cup {LongMax}
  BY <1>2, <1>3 DEF Minimum, TimedInv, TypeOK, kTimeoutSignal
<1>5. /\ available' = m /\ unread' = unread \ {d}
      /\ pc' = IF unread # {d} THEN "readDependents"
               ELSE IF m < requested THEN "checkAlert" ELSE AfterWaitFor(m)
      /\ Quiet
  BY DEF ReadDependent, Quiet
<1>6. \A e \in dependents \ (unread \ {d}) : m <= handled[e]
  <2>1. ASSUME NEW e \in dependents \ unread
        PROVE  m <= handled[e]
    <3>1. available <= handled[e] /\ handled[e] \in Int
      BY <1>1, Types DEF TimedInv, TypeOK, ScanInv
    <3> QED
      BY <1>3, <1>4, <3>1
  <2> QED
    BY <1>4, <2>1
<1> HIDE DEF m
<1>7. CASE unread # {d}
  <2> USE DEF TimedInv, Quiet, sharedVars, configVars, requestVars
  <2>1. TypeOK' /\ pc' = "readDependents"
    BY <1>4, <1>5, <1>7 DEF TypeOK
  <2>2. ProgressInv'
    BY <1>5 DEF ProgressInv, Several
  <2>3. DeadlineInv'
    BY <1>1, <1>5, <2>1 DEF DeadlineInv, NeverEarly
  <2>4. ScanInv'
    <3>1. unread' # {} /\ unread' \subseteq dependents
      BY <1>1, <1>5, <1>7 DEF ScanInv
    <3> QED
      BY <1>4, <1>5, <1>6, <2>1, <3>1 DEF ScanInv, kAlertedSignal
  <2>5. ProbeInv' /\ AnswerReady'
    BY <1>1, <1>5, <2>1 DEF ProbeInv, AnswerReady
  <2>6. SignalInv'
    BY <1>5, <2>1 DEF SignalInv, NoMissedSignal
  <2> QED
    BY <2>1, <2>2, <2>3, <2>4, <2>5, <2>6
<1>8. CASE unread = {d} /\ m < requested
  <2> USE DEF TimedInv, Quiet, sharedVars, configVars, requestVars
  <2>1. TypeOK' /\ pc' = "checkAlert"
    BY <1>4, <1>5, <1>8 DEF TypeOK
  <2>2. ProgressInv'
    BY <1>5 DEF ProgressInv, Several
  <2>3. DeadlineInv' /\ ScanInv' /\ ProbeInv' /\ AnswerReady'
    BY <1>1, <1>5, <2>1 DEF DeadlineInv, NeverEarly, ScanInv, ProbeInv, AnswerReady
  <2>4. SignalInv'
    BY <1>5, <2>1 DEF SignalInv, NoMissedSignal
  <2> QED
    BY <2>1, <2>2, <2>3, <2>4
<1>9. CASE unread = {d} /\ requested <= m
  <2>1. \A e \in dependents : m <= handled[e]
    BY <1>6, <1>9
  <2>2. requested .. m \subseteq published
    <3>1. 0 .. handled[d] \subseteq published
      BY <1>1 DEF TimedInv, ProgressInv
    <3> QED
      BY <1>2, <1>4, <3>1, Types DEF TimedInv
  <2>3. m <= cursor
    <3>1. m \in published
      BY <1>4, <1>9, <2>2, Types DEF TimedInv
    <3> QED
      BY <1>4, <3>1, PublishedBound, Types DEF TimedInv
  <2>4. pc' = AfterWaitFor(m)
    BY <1>4, <1>5, <1>9, Types DEF TimedInv
  <2>5. unread' \in SUBSET Processors
    BY <1>5 DEF TimedInv, TypeOK
  <2> QED
    BY <1>1, <1>4, <1>5, <1>9, <2>1, <2>2, <2>3, <2>4, <2>5, ValueReturned
<1> QED
  BY <1>4, <1>7, <1>8, <1>9, Types DEF TimedInv

LEMMA CheckAlertInv ==
  ASSUME TimedInv, CheckAlert
  PROVE  TimedInv'
<1>1. CASE Return(kAlertedSignal)
  BY <1>1, SignalReturned DEF CheckAlert, Quiet, kAlertedSignal, kTimeoutSignal
<1>2. CASE Blocking /\ ScanDependents
  BY <1>2, ScanBegins DEF CheckAlert, Quiet, TimedInv, ScanInv
<1>3. CASE /\ pc' = IF option = "kBusySpinStrategy" THEN "checkTime" ELSE "backOff"
           /\ UNCHANGED <<available, unread>>
  BY <1>3, MoveInv, Types DEF CheckAlert, TimedInv, TypeOK, requestVars
<1> QED
  BY <1>1, <1>2, <1>3 DEF CheckAlert

LEMMA BackOffInv ==
  ASSUME TimedInv, YieldingWait \/ SleepingWait
  PROVE  TimedInv'
<1>1. counter \in Int /\ 0 <= counter /\ counter <= RetryLoop /\ left <= left
      /\ RetryLoop \in Int /\ left \in 0 .. Timeout + MaxSetBack
  BY Types DEF TimedInv, TypeOK
<1>2. /\ counter' \in 0 .. RetryLoop
      /\ pc = "backOff" /\ pc' \in {"checkTime", "napping"}
      /\ UNCHANGED <<sharedVars, requestVars, available, unread, left, elapsed>>
  BY <1>1 DEF YieldingWait, SleepingWait
<1> QED
  BY <1>1, <1>2, MoveInv

LEMMA MinSequenceInv ==
  ASSUME TimedInv, pc = "checkTime", Quiet, MinSequence
  PROVE  TimedInv'
<1>1. CASE dependents = {}
  BY <1>1, MoveInv, Types DEF MinSequence, Quiet, requestVars, TimedInv, TypeOK
<1>2. CASE dependents # {}
  BY <1>2, ScanBegins DEF MinSequence
<1> QED
  BY <1>1, <1>2

LEMMA CheckTimeInv ==
  ASSUME TimedInv, CheckTime
  PROVE  TimedInv'
<1>1. CASE left = 0 /\ Return(kTimeoutSignal)
  BY <1>1, SignalReturned DEF CheckTime, Quiet
<1>2. CASE MinSequence
  BY <1>2, MinSequenceInv DEF CheckTime, Quiet
<1> QED
  BY <1>1, <1>2 DEF CheckTime

LEMMA WaitTimesOutInv ==
  ASSUME TimedInv, WaitTimesOut
  PROVE  TimedInv'
BY SignalReturned DEF WaitTimesOut, Quiet

(* The thread goes to sleep with the lock, after its last look at both the  *)
(* cursor and the alert.                                                    *)
LEMMA LockedAlertInv ==
  ASSUME TimedInv, LockedAlert
  PROVE  TimedInv'
<1>1. CASE Return(kAlertedSignal) /\ UNCHANGED left
  BY <1>1, SignalReturned DEF LockedAlert, Quiet, kAlertedSignal, kTimeoutSignal
<1>2. CASE /\ ~alerted
           /\ pc' = "sleeping"
           /\ left' = Timeout
           /\ UNCHANGED <<available, unread>>
  <2> USE DEF LockedAlert, TimedInv, sharedVars, configVars, requestVars
  <2>1. TypeOK'
    BY <1>2, TimedAssumption DEF TypeOK
  <2>2. ProgressInv'
    BY DEF ProgressInv, Several
  <2>3. DeadlineInv'
    BY <1>2, Types DEF DeadlineInv, NeverEarly
  <2>4. ScanInv' /\ ProbeInv' /\ AnswerReady'
    BY <1>2 DEF ScanInv, ProbeInv, AnswerReady
  <2>5. SignalInv'
    BY <1>2 DEF SignalInv, NoMissedSignal
  <2> QED
    BY <2>1, <2>2, <2>3, <2>4, <2>5
<1> QED
  BY <1>1, <1>2 DEF LockedAlert

(* A dependent has handled the whole range that is probed, so that only a   *)
(* wait on the cursor can meet a missing flag.                              *)
LEMMA ProbeStepInv ==
  ASSUME TimedInv, Probe
  PROVE  TimedInv'
<1> USE DEF TimedInv, Probe, sharedVars, configVars
<1>1. /\ Several /\ requested <= probing /\ probing <= available /\ available <= cursor
      /\ \A d \in dependents : available <= handled[d]
      /\ requested .. probing - 1 \subseteq published
      /\ requested \in Int /\ 0 <= requested
      /\ probing \in Int /\ available \in Int /\ cursor \in Int /\ cursor <= MaxSequence
      /\ MaxSequence \in Nat
  BY Types DEF ProbeInv
<1>2. TypeOK'
  <2>1. probing < available => probing + 1 \in requested .. MaxSequence
    BY <1>1
  <2>2. probing - 1 \in kTimeoutSignal .. MaxSequence
    BY <1>1 DEF kTimeoutSignal
  <2> QED
    BY <2>1, <2>2 DEF TypeOK
<1>3. ProgressInv'
  BY DEF ProgressInv, Several
<1>4. DeadlineInv'
  <2>1. available # kTimeoutSignal /\ probing - 1 # kTimeoutSignal
    BY <1>1 DEF kTimeoutSignal
  <2> QED
    BY <2>1 DEF DeadlineInv, NeverEarly
<1>5. ScanInv' /\ SignalInv'
  BY DEF ScanInv, SignalInv, NoMissedSignal
<1>6. ProbeInv' /\ AnswerReady'
  <2>1. CASE probing \in published /\ probing < available
    <3>1. pc' = "probe" /\ probing' = probing + 1 /\ available' = available
      BY <1>1, <2>1
    <3>2. requested .. probing' - 1 \subseteq published
      BY <1>1, <2>1, <3>1
    <3> QED
      BY <1>1, <2>1, <3>1, <3>2 DEF ProbeInv, AnswerReady, Several
  <2>2. CASE probing \in published /\ probing = available
    <3>1. pc' = "idle" /\ available' = available
      BY <1>1, <2>2
    <3>2. requested .. available \subseteq published
      BY <1>1, <2>2
    <3> QED
      BY <1>1, <2>2, <3>1, <3>2 DEF ProbeInv, AnswerReady
  <2>3. CASE probing \notin published
    <3>1. pc' = "idle" /\ available' = probing - 1
      BY <2>3
    <3>2. ASSUME NEW d \in dependents
          PROVE  FALSE
      <4>1. /\ d \in Processors /\ handled[d] \in Int /\ available <= handled[d]
            /\ 0 .. handled[d] \subseteq published
        BY <1>1, Types DEF TypeOK, ProgressInv
      <4> QED
        BY <1>1, <2>3, <4>1
    <3>3. dependents = {}
      BY <3>2
    <3>4. requested <= probing - 1 \/ probing - 1 = requested - 1
      BY <1>1
    <3> QED
      BY <1>1, <3>1, <3>3, <3>4 DEF ProbeInv, AnswerReady, Several
  <2> QED
    BY <1>1, <2>1, <2>2, <2>3
<1> QED
  BY <1>2, <1>3, <1>4, <1>5, <1>6

LEMMA CallInv ==
  ASSUME TimedInv, NEW s \in 0 .. MaxSequence, Call(s)
  PROVE  TimedInv'
<1> USE DEF TimedInv, Call, sharedVars, configVars
<1>1. /\ pc' \in {"readCursor", "readDependents"}
      /\ pc' = "readCursor" => UNCHANGED <<available, unread>>
      /\ pc' = "readDependents" =>
           dependents # {} /\ available' = LongMax /\ unread' = dependents
  BY DEF MinSequence, ScanDependents
<1>2. TypeOK'
  <2>1. /\ s \in s .. MaxSequence /\ RetryLoop \in 0 .. RetryLoop
        /\ Timeout \in 0 .. Timeout + MaxSetBack /\ 0 \in 0 .. Timeout
    BY Types
  <2> QED
    BY <1>1, <2>1 DEF TypeOK
<1>3. ProgressInv'
  BY DEF ProgressInv, Several
<1>4. DeadlineInv'
  BY <1>1, Types DEF DeadlineInv, NeverEarly
<1>5. ScanInv'
  BY <1>1, LongMaxAssumption DEF ScanInv, kAlertedSignal
<1>6. ProbeInv' /\ AnswerReady' /\ SignalInv'
  BY <1>1 DEF ProbeInv, AnswerReady, SignalInv, NoMissedSignal
<1> QED
  BY <1>2, <1>3, <1>4, <1>5, <1>6

-----------------------------------------------------------------------------
(* The other threads.                                                       *)

(* Claims, publications and progress, which an answer already given or a    *)
(* range being probed can only gain from.                                   *)
LEMMA ProducerInv ==
  ASSUME TimedInv,
         \/ Claim
         \/ \E s \in 0 .. MaxSequence : Publish(s)
         \/ \E d \in dependents : Handle(d)
  PROVE  TimedInv'
<1> USE DEF TimedInv, configVars, callVars, requestVars
<1> DEFINE Grown ==
      /\ UNCHANGED <<configVars, sequence, alerted, alarms, callVars>>
      /\ owed => owed'
      /\ cursor' \in kInitialCursorValue .. MaxSequence /\ cursor <= cursor'
      /\ published \subseteq published' /\ published' \subseteq 0 .. cursor'
      /\ handled' \in [Processors -> kInitialCursorValue .. MaxSequence]
      /\ owed' \in BOOLEAN
      /\ \A d \in Processors : handled[d] <= handled'[d]
      /\ ProgressInv'
<1>1. Grown
  <2>1. CASE Claim
    <3>1. cursor' = cursor + 1 /\ cursor < MaxSequence /\ Several
      BY <2>1 DEF Claim
    <3>2. cursor' \in kInitialCursorValue .. MaxSequence /\ cursor <= cursor'
      BY <3>1, Types DEF kInitialCursorValue
    <3>3. 0 .. cursor \subseteq 0 .. cursor'
      BY <3>1, Types
    <3> QED
      BY <2>1, <3>1, <3>2, <3>3, Types DEF Claim, TypeOK, ProgressInv, Several
  <2>2. ASSUME NEW s \in 0 .. MaxSequence, Publish(s)
        PROVE  Grown
    <3>1. /\ published' = published \cup {s} /\ owed' = TRUE
          /\ Several => s <= cursor /\ cursor' = cursor
          /\ ~Several => s = cursor + 1 /\ cursor' = s
          /\ UNCHANGED <<sequence, handled, alerted, alarms, configVars, callVars>>
      BY <2>2 DEF Publish
    <3>2. /\ cursor' \in kInitialCursorValue .. MaxSequence /\ cursor <= cursor'
          /\ s <= cursor'
      BY <3>1, Types DEF kInitialCursorValue
    <3>3. 0 .. cursor \subseteq 0 .. cursor' /\ s \in 0 .. cursor'
      BY <3>2, Types
    <3>4. ~Several => published' = 0 .. cursor'
      <4> SUFFICES ASSUME ~Several
                   PROVE  0 .. cursor' = 0 .. cursor \cup {s}
        BY <3>1 DEF ProgressInv
      <4> QED
        BY <3>1, Types
    <3>5. published \subseteq published' /\ published' \subseteq 0 .. cursor'
      BY <3>1, <3>3 DEF TypeOK
    <3>6. ProgressInv'
      <4>1. \A d \in Processors :
              sequence[d] <= handled[d] /\ 0 .. handled[d] \subseteq published
        BY DEF ProgressInv
      <4> QED
        BY <3>1, <3>4, <3>5, <4>1 DEF ProgressInv, Several
    <3>7. \A d \in Processors : handled[d] <= handled[d]
      BY Types
    <3> QED
      BY <3>1, <3>2, <3>5, <3>6, <3>7 DEF TypeOK
  <2>3. ASSUME NEW d \in dependents, Handle(d)
        PROVE  Grown
    <3>1. /\ d \in Processors
          /\ handled' = [handled EXCEPT ![d] = handled[d] + 1]
          /\ handled[d] + 1 \in published
          /\ UNCHANGED <<configVars, cursor, published, sequence, alerted, owed, alarms, callVars>>
      BY <2>3 DEF Handle, TypeOK
    <3>2. /\ handled[d] + 1 \in kInitialCursorValue .. MaxSequence
      BY <3>1, Types DEF TypeOK, kInitialCursorValue
    <3>3. /\ handled' \in [Processors -> kInitialCursorValue .. MaxSequence]
          /\ \A e \in Processors : handled'[e] = IF e = d THEN handled[d] + 1 ELSE handled[e]
      BY <3>1, <3>2 DEF TypeOK
    <3>4. ASSUME NEW e \in Processors
          PROVE  /\ handled[e] <= handled'[e] /\ sequence[e] <= handled'[e]
                 /\ 0 .. handled'[e] \subseteq published
      <4>1. /\ handled[e] \in Int /\ handled[d] \in Int /\ sequence[e] \in Int
            /\ sequence[e] <= handled[e] /\ 0 .. handled[e] \subseteq published
        BY <3>1, Types DEF ProgressInv
      <4>2. CASE e = d
        <5>1. 0 .. handled[d] + 1 = 0 .. handled[d] \cup
                (IF 0 <= handled[d] + 1 THEN {handled[d] + 1} ELSE {})
          BY <4>1
        <5> QED
          BY <3>1, <3>3, <4>1, <4>2, <5>1
      <4>3. CASE e # d
        BY <3>3, <4>1, <4>3
      <4> QED
        BY <4>2, <4>3
    <3>5. ProgressInv'
      BY <3>1, <3>4 DEF ProgressInv, Several
    <3>6. cursor \in kInitialCursorValue .. MaxSequence /\ cursor <= cursor
      BY Types DEF kInitialCursorValue
    <3> QED
      BY <3>1, <3>3, <3>4, <3>5, <3>6 DEF TypeOK
  <2> QED
    BY <2>1, <2>2, <2>3
<1>2. TypeOK'
  BY <1>1 DEF TypeOK
<1>3. DeadlineInv'
  BY <1>1 DEF DeadlineInv, NeverEarly
<1>4. ASSUME NEW v \in Int, NEW d \in dependents, v <= handled[d]
      PROVE  v <= handled'[d]
  <2>1. d \in Processors /\ handled[d] \in Int /\ handled'[d] \in Int
    BY <1>2, Types DEF TypeOK, kInitialCursorValue
  <2> QED
    BY <1>1, <1>4, <2>1
<1>5. ScanInv' /\ AnswerReady'
  BY <1>1, <1>4, Types DEF ScanInv, AnswerReady, Several, Blocking
<1>6. ProbeInv'
  <2>1. available <= cursor => available <= cursor'
    BY <1>1, Types DEF kInitialCursorValue
  <2> QED
    BY <1>1, <1>4, <2>1, Types DEF ProbeInv, Several
<1>7. SignalInv'
  <2>1. ASSUME owed \/ ~(0 .. cursor \subseteq published)
        PROVE  owed' \/ ~(0 .. cursor' \subseteq published')
    <3>1. ASSUME NEW s \in 0 .. MaxSequence, Publish(s)
          PROVE  owed'
      BY <3>1 DEF Publish
    <3>2. 0 .. cursor \subseteq 0 .. cursor'
      BY <1>1, Types DEF kInitialCursorValue
    <3> QED
      BY <1>1, <2>1, <3>1, <3>2 DEF Claim, Handle
  <2>2. cursor' = cursor \/ owed' \/ ~(0 .. cursor' \subseteq published')
    <3>1. CASE Claim
      <4>1. cursor' = cursor + 1 /\ published' = published
        BY <3>1 DEF Claim
      <4>2. cursor' \in 0 .. cursor' /\ cursor' \notin published
        BY <4>1, PublishedBound, Types
      <4> QED
        BY <4>1, <4>2
    <3>2. ASSUME NEW s \in 0 .. MaxSequence, Publish(s)
          PROVE  owed'
      BY <3>2 DEF Publish
    <3> QED
      BY <3>1, <3>2 DEF Handle
  <2> QED
    BY <1>1, <2>1, <2>2 DEF SignalInv, NoMissedSignal
<1> QED
  BY <1>1, <1>2, <1>3, <1>5, <1>6, <1>7

(* What a dependent records, kAlertedSignal included, is not ahead of what  *)
(* it has handled; and only that is relied on.                              *)
LEMMA RecordInv ==
  ASSUME TimedInv, NEW d \in dependents, Record(d) \/ RecordAlerted(d)
  PROVE  TimedInv'
<1> USE DEF TimedInv, configVars, callVars, requestVars
<1>1. d \in Processors /\ handled[d] \in Int /\ -1 <= handled[d] /\ handled[d] <= MaxSequence
  BY Types DEF TypeOK
<1>2. PICK v \in {handled[d], kAlertedSignal} : sequence' = [sequence EXCEPT ![d] = v]
  BY DEF Record, RecordAlerted
<1>3. /\ v \in kAlertedSignal .. MaxSequence /\ v <= handled[d]
  BY <1>1, <1>2, TimedAssumption DEF kAlertedSignal
<1>4. UNCHANGED <<configVars, cursor, published, handled, alerted, owed, callVars>>
  BY DEF Record, RecordAlerted
<1>5. alarms' \in 0 .. MaxAlarms
  <2>1. alarms \in 0 .. MaxAlarms
    BY DEF TypeOK
  <2>2. alarms' = alarms \/ (alarms < MaxAlarms /\ alarms' = alarms + 1)
    BY DEF Record, RecordAlerted
  <2> QED
    BY <2>1, <2>2, Types
<1>6. TypeOK'
  BY <1>2, <1>3, <1>4, <1>5 DEF TypeOK
<1>7. ProgressInv'
  BY <1>2, <1>3, <1>4 DEF ProgressInv, Several, TypeOK
<1>8. DeadlineInv' /\ ScanInv' /\ ProbeInv' /\ AnswerReady' /\ SignalInv'
  BY <1>4 DEF DeadlineInv, NeverEarly, ScanInv, ProbeInv, AnswerReady, SignalInv,
     NoMissedSignal, Several, Blocking
<1> QED
  BY <1>6, <1>7, <1>8

LEMMA SetAlertedInv ==
  ASSUME TimedInv, SetAlerted
  PROVE  TimedInv'
<1> USE DEF TimedInv, SetAlerted, configVars, callVars, requestVars
<1>1. TypeOK'
  <2>1. alarms' \in 0 .. MaxAlarms
    BY Types DEF TypeOK
  <2>2. alerted' \in BOOLEAN /\ owed' \in BOOLEAN
    BY DEF TypeOK
  <2> QED
    BY <2>1, <2>2 DEF TypeOK
<1>2. ProgressInv' /\ DeadlineInv' /\ ScanInv' /\ ProbeInv' /\ AnswerReady'
  BY DEF ProgressInv, DeadlineInv, NeverEarly, ScanInv, ProbeInv, AnswerReady, Several,
     Blocking
<1>3. SignalInv'
  <2>1. alerted' => owed'
    BY DEF TypeOK
  <2>2. owed => owed'
    BY DEF TypeOK
  <2> QED
    BY <2>1, <2>2 DEF SignalInv, NoMissedSignal
<1> QED
  BY <1>1, <1>2, <1>3

LEMMA WakeInv ==
  ASSUME TimedInv, SignalAllWhenBlocking \/ SpuriousWake
  PROVE  TimedInv'
<1> USE DEF TimedInv, SignalAllWhenBlocking, SpuriousWake, WakeSleeper, configVars,
        requestVars
<1>1. /\ \/ pc' = pc /\ pc \notin {"sleeping", "lockedAlert"}
         \/ pc = "sleeping" /\ pc' = "lockedCursor"
      /\ UNCHANGED <<configVars, cursor, published, sequence, handled, alerted, requestVars,
                     available, unread, counter, left, elapsed>>
  OBVIOUS
<1>2. TypeOK'
  <2>1. alarms \in 0 .. MaxAlarms /\ owed \in BOOLEAN
    BY DEF TypeOK
  <2>2. alarms' = alarms \/ (alarms < MaxAlarms /\ alarms' = alarms + 1)
    OBVIOUS
  <2>3. alarms' \in 0 .. MaxAlarms
    BY <2>1, <2>2, Types
  <2>4. owed' \in BOOLEAN
    BY <2>1
  <2> QED
    BY <1>1, <2>3, <2>4 DEF TypeOK
<1>3. ProgressInv' /\ DeadlineInv' /\ ScanInv' /\ ProbeInv' /\ AnswerReady' /\ SignalInv'
  BY <1>1 DEF ProgressInv, DeadlineInv, NeverEarly, ScanInv, ProbeInv, AnswerReady,
     SignalInv, NoMissedSignal, Several, Blocking
<1> QED
  BY <1>2, <1>3

(* Time and the clock: the deadline comes no nearer than the call gets old. *)
LEMMA ClockInv ==
  ASSUME TimedInv, SetClock \/ Tick
  PROVE  TimedInv'
<1> USE DEF TimedInv, sharedVars, configVars, requestVars
<1>1. /\ pc # "idle"
      /\ pc' = pc \/ (pc = "napping" /\ pc' = "checkTime")
      /\ UNCHANGED <<configVars, cursor, published, sequence, handled, alerted, owed,
                     requested, probing, available, unread, counter>>
  BY DEF SetClock, Tick
<1>2. /\ left' \in 0 .. Timeout + MaxSetBack /\ elapsed' \in 0 .. Timeout
      /\ forward' \in BOOLEAN /\ alarms' \in 0 .. MaxAlarms
      /\ forward' \/ Timeout <= left' + elapsed'
  <2>1. forward \/ Timeout <= left + elapsed
    BY <1>1 DEF DeadlineInv
  <2>2. CASE SetClock
    <3>1. /\ left' \in 0 .. Timeout + MaxSetBack /\ alarms' = alarms + 1 /\ alarms < MaxAlarms
          /\ forward' = (forward \/ left' < left) /\ elapsed' = elapsed
      BY <2>2 DEF SetClock
    <3>2. forward' \in BOOLEAN
      BY <3>1 DEF TypeOK
    <3>3. alarms' \in 0 .. MaxAlarms
      BY <3>1, Types DEF TypeOK
    <3>4. left' \in Int /\ (left' < left \/ left <= left')
      BY <3>1, Types
    <3>5. forward' \/ Timeout <= left' + elapsed'
      <4>1. CASE forward \/ left' < left
        BY <3>1, <4>1
      <4>2. CASE ~forward /\ left <= left'
        <5>1. Timeout <= left + elapsed
          BY <2>1, <4>2
        <5> QED
          BY <3>1, <3>4, <4>2, <5>1, Types
      <4> QED
        BY <3>4, <4>1, <4>2
    <3> QED
      BY <3>1, <3>2, <3>3, <3>5 DEF TypeOK
  <2>3. CASE Tick
    BY <2>1, <2>3, Types DEF Tick, TypeOK
  <2> QED
    BY <2>2, <2>3
<1>3. TypeOK'
  BY <1>1, <1>2 DEF TypeOK
<1>4. DeadlineInv'
  BY <1>1, <1>2 DEF DeadlineInv, NeverEarly
<1>5. ProgressInv' /\ ScanInv' /\ ProbeInv' /\ AnswerReady' /\ SignalInv'
  BY <1>1 DEF ProgressInv, ScanInv, ProbeInv, AnswerReady, SignalInv, NoMissedSignal,
     Several, Blocking
<1> QED
  BY <1>3, <1>4, <1>5

-----------------------------------------------------------------------------
LEMMA InitTimedInv == Init => TimedInv
<1> SUFFICES ASSUME Init
             PROVE  TimedInv
  OBVIOUS
<1> USE DEF Init, kInitialCursorValue, kFirstSequenceValue, kAlertedSignal, kTimeoutSignal
<1>1. /\ Timeout \in Nat /\ RetryLoop \in Nat /\ MaxSequence \in Nat /\ MaxAlarms \in Nat
      /\ MaxSetBack \in Nat
  BY TimedAssumption
<1>2. TypeOK
  <2>1. /\ cursor \in -1 .. MaxSequence /\ alarms \in 0 .. MaxAlarms
        /\ requested \in 0 .. MaxSequence /\ probing \in requested .. MaxSequence
        /\ available \in -3 .. MaxSequence
        /\ counter \in 0 .. RetryLoop /\ left \in 0 .. Timeout + MaxSetBack /\ elapsed \in 0 .. Timeout
    BY <1>1
  <2>2. /\ sequence \in [Processors -> -2 .. MaxSequence]
        /\ handled \in [Processors -> -1 .. MaxSequence]
        /\ dependents \in SUBSET Processors
    BY <1>1, TimedAssumption
  <2> QED
    BY <2>1, <2>2 DEF TypeOK
<1>3. ProgressInv
  BY DEF ProgressInv
<1>4. DeadlineInv /\ ScanInv /\ ProbeInv /\ AnswerReady /\ SignalInv
  BY DEF DeadlineInv, NeverEarly, ScanInv, ProbeInv, AnswerReady, SignalInv, NoMissedSignal
<1> QED
  BY <1>2, <1>3, <1>4 DEF TimedInv

LEMMA StutterInv ==
  ASSUME TimedInv, UNCHANGED vars
  PROVE  TimedInv'
<1> USE DEF TimedInv, vars, sharedVars, configVars, callVars, requestVars
<1>1. TypeOK'
  BY DEF TypeOK
<1>2. ProgressInv' /\ DeadlineInv' /\ ScanInv' /\ ProbeInv' /\ AnswerReady' /\ SignalInv'
  BY DEF ProgressInv, DeadlineInv, NeverEarly, ScanInv, ProbeInv, AnswerReady, SignalInv,
     NoMissedSignal, Several, Blocking
<1> QED
  BY <1>1, <1>2

LEMMA NextInv ==
  ASSUME TimedInv, [Next]_vars
  PROVE  TimedInv'
<1>1. CASE WaiterStep
  BY <1>1, ReadCursorInv, ReadDependentInv, CheckAlertInv, BackOffInv, CheckTimeInv,
     LockedCursorInv, LockedAlertInv, WaitTimesOutInv, ProbeStepInv DEF WaiterStep
<1> QED
  BY <1>1, CallInv, ProducerInv, RecordInv, SetAlertedInv, WakeInv, ClockInv, StutterInv DEF Next

(* The inductive invariant: TimedInv holds in every reachable state, for    *)
(* every timeout, retry count, set of dependents and wait and claim         *)
(* strategy (wait_strategy.h:182, :384, sequence_barrier.h:74).             *)
THEOREM TimedInductive == Spec => []TimedInv
<1>1. TimedInv /\ [Next]_vars => TimedInv'
  BY NextInv
<1> QED
  BY <1>1, InitTimedInv, PTL DEF Spec

(* Every variable stays in its range: the counter of ApplyWaitMethod stops  *)
(* at zero, and what a dependent's Sequence may be is kAlertedSignal or     *)
(* what it has handled (wait_strategy.h:252, :318, event_processor.h:70).   *)
THEOREM TimedTypeCorrect == Spec => []TypeOK
<1>1. TimedInv => TypeOK
  BY DEF TimedInv
<1> QED
  BY <1>1, TimedInductive, PTL

(* No strategy reports a timeout before the timeout has passed since the    *)
(* call, unless the clock was set forward (wait_strategy.h:86, :182).       *)
THEOREM TimeoutNeverEarly == Spec => []NeverEarly
<1>1. TimedInv => NeverEarly
  BY DEF TimedInv, DeadlineInv
<1> QED
  BY <1>1, TimedInductive, PTL

(* All that WaitFor answers is published, and every dependent has returned  *)
(* from OnEvent for it, although the cursor, the flags and the dependents'  *)
(* Sequences are loaded at different times and may have been set back to    *)
(* kAlertedSignal since (wait_strategy.h:87, sequence_barrier.h:74,         *)
(* event_processor.h:70).                                                   *)
THEOREM AnswersReady == Spec => []AnswerReady
<1>1. TimedInv => AnswerReady
  BY DEF TimedInv
<1> QED
  BY <1>1, TimedInductive, PTL

(* The timed wait of BlockingStrategy misses no signal                      *)
(* (wait_strategy.h:384).                                                   *)
THEOREM SignalNeverMissed == Spec => []NoMissedSignal
<1>1. TimedInv => NoMissedSignal
  BY DEF TimedInv, SignalInv
<1> QED
  BY <1>1, TimedInductive, PTL
=============================================================================
