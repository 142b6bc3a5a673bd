-------------------------- MODULE ProcessorProofs --------------------------
(***************************************************************************)
(* The ring's arithmetic, and what the steps of the event processors keep,  *)
(* for every topology, wait strategy and claim strategy, with processors    *)
(* stopped at any moment.  The proofs for one and for several producers     *)
(* both rest on these lemmas.                                               *)
(***************************************************************************)
EXTENDS ProcessorInv, TLAPS

(* After an alert a second Run starts from the signal in its Sequence.      *)
RunOnce == MaxRuns \in {0, 1}

-----------------------------------------------------------------------------
(* Arithmetic of the ring.                                                  *)

LEMMA NoMultipleBelow ==
  ASSUME NEW q \in Int, 0 < BufferSize * q, BufferSize * q < BufferSize
  PROVE  FALSE
<1>1. CASE q <= 0
  BY <1>1, BufferSizeAssumption
<1>2. CASE q >= 1
  BY <1>2, BufferSizeAssumption
<1> QED
  BY <1>1, <1>2

LEMMA QuotientRemainder ==
  ASSUME NEW s \in Int
  PROVE  /\ s = BufferSize * (s \div BufferSize) + CalculateIndex(s)
         /\ s \div BufferSize \in Int
         /\ CalculateIndex(s) \in 0 .. BufferSize - 1
BY BufferSizeAssumption DEF CalculateIndex

(* Two sequences less than a ring apart never share a slot.                 *)
LEMMA IndexDistinct ==
  ASSUME NEW s \in Int, NEW t \in Int, s < t, t - s < BufferSize
  PROVE  CalculateIndex(s) # CalculateIndex(t)
<1> SUFFICES ASSUME CalculateIndex(s) = CalculateIndex(t)
             PROVE  FALSE
  OBVIOUS
<1> DEFINE q == (t \div BufferSize) - (s \div BufferSize)
<1>1. /\ s = BufferSize * (s \div BufferSize) + CalculateIndex(s)
      /\ s \div BufferSize \in Int
      /\ CalculateIndex(s) \in 0 .. BufferSize - 1
  BY QuotientRemainder, Zenon
<1>2. /\ t = BufferSize * (t \div BufferSize) + CalculateIndex(t)
      /\ t \div BufferSize \in Int
  BY QuotientRemainder, Zenon
<1>3. t - s = BufferSize * q
  BY <1>1, <1>2, BufferSizeAssumption
<1>4. q \in Int
  BY <1>1, <1>2
<1> HIDE DEF q
<1> QED
  BY <1>3, <1>4, NoMultipleBelow

-----------------------------------------------------------------------------
LEMMA InitProcInv == InitProcessors => ProcInv
<1> SUFFICES ASSUME InitProcessors
             PROVE  ProcInv
  OBVIOUS
<1> USE DEF InitProcessors, kInitialCursorValue, kFirstSequenceValue, kAlertedSignal
<1>1. TypeOKProcessors
  BY TopologyAssumption, ClientAssumption DEF TypeOKProcessors, ProcessorPcs, WaitPcs
<1>2. ProgressInv
  BY TopologyAssumption DEF ProgressInv
<1>3. StartInv
  BY DEF StartInv
<1>4. ScanInv /\ WaitedInv
  BY DEF ScanInv, ScanOK, WaitedInv, WaitedOK
<1> QED
  BY <1>1, <1>2, <1>3, <1>4 DEF ProcInv

-----------------------------------------------------------------------------
(* A bound below the progress of the gating processors is below the         *)
(* progress of all: each of the others is ahead of one that waits on it.    *)
LEMMA GatingCoversAll ==
  ASSUME ProcInv,
         NEW m \in Int, \A g \in Gating : m < next[g]
  PROVE  \A c \in Consumers : m < next[c]
<1> DEFINE S == {c \in Consumers : m < next[c]}
<1>1. S \in SUBSET Consumers
  OBVIOUS
<1>2. Gating \subseteq S
  BY GatingAssumption
<1>3. \A c \in S : Dependents[c] \subseteq S
  <2> SUFFICES ASSUME NEW c \in S, NEW d \in Dependents[c]
               PROVE  d \in S
    OBVIOUS
  <2>1. d \in Consumers
    BY TopologyAssumption
  <2>2. next[c] \in Int /\ next[d] \in Int /\ next[c] <= next[d]
    BY <2>1 DEF ProcInv, ProgressInv, TypeOKProcessors
  <2> QED
    BY <2>1, <2>2
<1>4. S = Consumers
  BY <1>1, <1>2, <1>3, GatingAssumption
<1> QED
  BY <1>4

-----------------------------------------------------------------------------
(* A notification moves sleeping threads, and no others, back to the mutex. *)
LEMMA NotifyMoves ==
  ASSUME TypeOKProcessors, SignalAllWhenBlocking
  PROVE  /\ pc' \in [Consumers -> ProcessorPcs]
         /\ \A c \in Consumers :
              pc'[c] = pc[c] \/ (pc[c] = "sleeping" /\ pc'[c] = "lock")
<1> USE DEF TypeOKProcessors, SignalAllWhenBlocking, Blocking
<1>1. CASE Blocking
  <2>1. pc' = [c \in Consumers |-> IF pc[c] = "sleeping" THEN "lock" ELSE pc[c]]
    BY <1>1
  <2>2. pc \in [Consumers -> ProcessorPcs]
    OBVIOUS
  <2>3. "lock" \in ProcessorPcs
    BY DEF ProcessorPcs, WaitPcs
  <2> QED
    BY <2>1, <2>2, <2>3
<1>2. CASE ~Blocking
  BY <1>2
<1> QED
  BY <1>1, <1>2

(* Which keeps every part of the invariant that is about the processors.    *)
LEMMA NotifyProcInv ==
  ASSUME ProcInv, SignalAllWhenBlocking,
         UNCHANGED <<cursor, sequence, alerted, mutex, next, available, unread,
                     running, runs>>,
         stopPc' \in {"idle", "alert", "signal"},
         stopTarget' \in Consumers \cup {NoThread},
         stopCalled' \in SUBSET Stoppable
  PROVE  ProcInv'
<1>1. \A c \in Consumers :
        pc'[c] = pc[c] \/ (pc[c] = "sleeping" /\ pc'[c] = "lock")
  BY NotifyMoves DEF ProcInv
<1>2. TypeOKProcessors'
  <2>1. pc' \in [Consumers -> ProcessorPcs]
    BY NotifyMoves DEF ProcInv
  <2> QED
    BY <2>1 DEF ProcInv, TypeOKProcessors
<1>3. ProgressInv'
  BY DEF ProcInv, ProgressInv
<1>4. StartInv'
  BY <1>1 DEF ProcInv, StartInv
<1>5. ScanInv' /\ WaitedInv'
  BY <1>1 DEF ProcInv, ScanInv, ScanOK, WaitedInv, WaitedOK
<1> QED
  BY <1>2, <1>3, <1>4, <1>5 DEF ProcInv

(* A publication, or a claim of several producers, moves only the cursor.   *)
LEMMA CursorProcInv ==
  ASSUME ProcInv, cursor' \in Int, cursor <= cursor',
         UNCHANGED <<sequence, alerted, mutex, pc, next, available, unread, procVars>>
  PROVE  ProcInv'
<1> USE DEF ProcInv
<1>1. TypeOKProcessors'
  BY DEF TypeOKProcessors, procVars
<1>2. ProgressInv'
  <2> SUFFICES ASSUME NEW c \in Consumers
               PROVE  next[c] <= cursor' + 1
    BY DEF ProgressInv
  <2> QED
    BY DEF ProgressInv, TypeOKProcessors
<1>3. StartInv' /\ ScanInv'
  BY DEF StartInv, ScanInv, ScanOK, procVars
<1>4. WaitedInv'
  <2> SUFFICES ASSUME NEW c \in Consumers, pc[c] \in {"probe", "handle"}
               PROVE  available[c] <= cursor'
    BY DEF WaitedInv, WaitedOK
  <2> QED
    BY DEF WaitedInv, WaitedOK, TypeOKProcessors
<1> QED
  BY <1>1, <1>2, <1>3, <1>4

(* All other steps of a producer touch nothing of the processors.           *)
LEMMA UnchangedProcInv ==
  ASSUME ProcInv, UNCHANGED <<waitVars, procVars>>
  PROVE  ProcInv'
BY DEF ProcInv, TypeOKProcessors, ProgressInv, StartInv, ScanInv, ScanOK, WaitedInv,
       WaitedOK, waitVars, procVars

(* Events are numbered from 0 on.                                           *)
LEMMA CursorBound ==
  ASSUME ProcInv
  PROVE  cursor \in Int /\ kInitialCursorValue <= cursor
<1>1. PICK c \in Consumers : TRUE
  BY TopologyAssumption
<1>2. next[c] \in Int /\ 0 <= next[c] /\ next[c] <= cursor + 1 /\ cursor \in Int
  BY DEF ProcInv, TypeOKProcessors, ProgressInv
<1> QED
  BY <1>2 DEF kInitialCursorValue

-----------------------------------------------------------------------------
(* The waiting processor.  A step of its wait moves its own thread, and     *)
(* leaves alone the Sequences.                                              *)

WaitFrame ==
  /\ UNCHANGED <<cursor, sequence, next, procVars>>
  /\ mutex' \in Consumers \cup {NoThread}
  /\ alerted' \in [Barriers -> BOOLEAN]

LEMMA FrameProcInv ==
  ASSUME ProcInv, WaitFrame, NEW c \in Consumers, pc[c] # "idle",
         NEW l \in WaitPcs \cup {"probe", "handle"}, Goto(c, l),
         NEW a \in Int, available' = [available EXCEPT ![c] = a],
         NEW u \in SUBSET Consumers, unread' = [unread EXCEPT ![c] = u],
         ScanOK(c)', WaitedOK(c)'
  PROVE  ProcInv'
<1> USE DEF ProcInv, WaitFrame, Goto
<1>1. /\ pc' \in [Consumers -> ProcessorPcs]
      /\ \A e \in Consumers \ {c} : pc'[e] = pc[e]
      /\ pc'[c] = l
  BY DEF TypeOKProcessors, ProcessorPcs
<1>2. /\ available' \in [Consumers -> Int]
      /\ unread' \in [Consumers -> SUBSET Consumers]
      /\ \A e \in Consumers \ {c} : available'[e] = available[e] /\ unread'[e] = unread[e]
  BY DEF TypeOKProcessors
<1>3. TypeOKProcessors'
  BY <1>1, <1>2 DEF TypeOKProcessors, procVars
<1>4. ProgressInv'
  BY DEF ProgressInv
<1>5. StartInv'
  BY <1>1 DEF StartInv, procVars, WaitPcs
<1>6. ScanInv'
  <2>1. ASSUME NEW e \in Consumers \ {c}
        PROVE  ScanOK(e)'
    BY <1>1, <1>2 DEF ScanInv, ScanOK
  <2> QED
    BY <2>1 DEF ScanInv
<1>7. WaitedInv'
  <2>1. ASSUME NEW e \in Consumers \ {c}
        PROVE  WaitedOK(e)'
    BY <1>1, <1>2 DEF WaitedInv, WaitedOK
  <2> QED
    BY <2>1 DEF WaitedInv
<1> QED
  BY <1>3, <1>4, <1>5, <1>6, <1>7

(* To another place of the wait.                                            *)
LEMMA GotoProcInv ==
  ASSUME ProcInv, WaitFrame, NEW c \in Consumers, pc[c] # "idle",
         NEW l \in WaitPcs \ {"readDependents"}, Goto(c, l),
         NEW a \in Int, available' = [available EXCEPT ![c] = a],
         UNCHANGED unread
  PROVE  ProcInv'
<1>1. pc'[c] = l
  BY DEF ProcInv, TypeOKProcessors, Goto
<1>2. ScanOK(c)' /\ WaitedOK(c)'
  BY <1>1 DEF ScanOK, WaitedOK, WaitPcs
<1>3. unread' = [unread EXCEPT ![c] = unread[c]] /\ unread[c] \in SUBSET Consumers
  BY DEF ProcInv, TypeOKProcessors
<1> QED
  BY <1>2, <1>3, FrameProcInv

(* Into the scan of the dependents, which starts from LONG_MAX.             *)
LEMMA ScanDependentsProcInv ==
  ASSUME ProcInv, WaitFrame, NEW c \in Consumers, pc[c] # "idle", ScanDependents(c)
  PROVE  ProcInv'
<1> USE DEF ScanDependents
<1>1. /\ pc'[c] = "readDependents"
      /\ available'[c] = LongMax
      /\ unread'[c] = Dependents[c]
  BY DEF ProcInv, TypeOKProcessors, Goto
<1>2. ScanOK(c)' /\ WaitedOK(c)'
  BY <1>1, LongMaxAssumption DEF ScanOK, WaitedOK, kAlertedSignal
<1>3. /\ Dependents[c] \in SUBSET Consumers
      /\ "readDependents" \in WaitPcs \cup {"probe", "handle"}
      /\ LongMax \in Int
  BY TopologyAssumption, LongMaxAssumption DEF WaitPcs
<1>4. /\ Goto(c, "readDependents")
      /\ available' = [available EXCEPT ![c] = LongMax]
      /\ unread' = [unread EXCEPT ![c] = Dependents[c]]
  OBVIOUS
<1> HIDE DEF ScanDependents
<1> QED
  BY <1>2, <1>3, <1>4, FrameProcInv

(* Out of the wait with a value that every dependent has passed.            *)
LEMMA ReturnProcInv ==
  ASSUME ProcInv, WaitFrame, NEW c \in Consumers, pc[c] # "idle",
         NEW value \in Int, Return(c, value),
         kAlertedSignal <= value, value <= cursor,
         value < kFirstSequenceValue \/ next[c] <= value,
         \A d \in Dependents[c] : value < next[d]
  PROVE  ProcInv'
<1> USE DEF Return
<1> DEFINE l == AfterWaitFor(value)
<1>1. l \in {"probe", "handle"} /\ (l = "probe" => next[c] <= value)
  BY DEF AfterWaitFor, kFirstSequenceValue, kInitialCursorValue
<1>2. pc'[c] = l /\ available'[c] = value
  BY DEF ProcInv, TypeOKProcessors, Goto
<1>3. ScanOK(c)' /\ WaitedOK(c)'
  BY <1>1, <1>2 DEF ScanOK, WaitedOK, WaitFrame
<1>4. unread' = [unread EXCEPT ![c] = unread[c]] /\ unread[c] \in SUBSET Consumers
  BY DEF ProcInv, TypeOKProcessors
<1>5. Goto(c, l) /\ available' = [available EXCEPT ![c] = value]
  OBVIOUS
<1> HIDE DEF l, Return
<1> QED
  BY <1>1, <1>3, <1>4, <1>5, FrameProcInv

(* Out of the wait with an alert.                                           *)
LEMMA ReturnAlertedProcInv ==
  ASSUME ProcInv, WaitFrame, NEW c \in Consumers, pc[c] # "idle",
         Return(c, kAlertedSignal)
  PROVE  ProcInv'
<1>1. kAlertedSignal \in Int /\ kAlertedSignal <= cursor
  BY CursorBound DEF kAlertedSignal, kInitialCursorValue
<1>2. \A d \in Dependents[c] : kAlertedSignal < next[d]
  BY TopologyAssumption DEF ProcInv, ProgressInv, TypeOKProcessors, kAlertedSignal
<1> QED
  BY <1>1, <1>2, ReturnProcInv DEF kAlertedSignal, kFirstSequenceValue, kInitialCursorValue

(* To another place of the wait, with nothing read.                         *)
LEMMA MoveProcInv ==
  ASSUME ProcInv, WaitFrame, NEW c \in Consumers, pc[c] # "idle",
         NEW l \in WaitPcs \ {"readDependents"}, Goto(c, l),
         UNCHANGED <<available, unread>>
  PROVE  ProcInv'
<1>1. /\ available' = [available EXCEPT ![c] = available[c]]
      /\ available[c] \in Int
  BY DEF ProcInv, TypeOKProcessors
<1> QED
  BY <1>1, GotoProcInv

(* WaitFor begins, or begins another round.                                 *)
LEMMA BeginWaitForProcInv ==
  ASSUME ProcInv, WaitFrame, NEW c \in Consumers, pc[c] # "idle", BeginWaitFor(c)
  PROVE  ProcInv'
<1>1. CASE Blocking \/ Dependents[c] = {}
  <2>1. /\ available' = [available EXCEPT ![c] = kInitialCursorValue]
        /\ kInitialCursorValue \in Int
        /\ Goto(c, "readCursor")
        /\ "readCursor" \in WaitPcs \ {"readDependents"}
        /\ UNCHANGED unread
    BY <1>1 DEF BeginWaitFor, kInitialCursorValue, WaitPcs
  <2> QED
    BY <2>1, GotoProcInv
<1>2. CASE ~(Blocking \/ Dependents[c] = {})
  BY <1>2, ScanDependentsProcInv DEF BeginWaitFor
<1> QED
  BY <1>1, <1>2

LEMMA WaitOnDependentsProcInv ==
  ASSUME ProcInv, WaitFrame, NEW c \in Consumers, pc[c] # "idle", WaitOnDependents(c),
         next[c] <= cursor
  PROVE  ProcInv'
<1>1. CASE Dependents[c] = {}
  <2>1. cursor \in Int /\ kAlertedSignal <= cursor
    BY CursorBound DEF kAlertedSignal, kInitialCursorValue
  <2>2. Return(c, cursor)
    BY <1>1 DEF WaitOnDependents
  <2>3. \A d \in Dependents[c] : cursor < next[d]
    BY <1>1
  <2>4. cursor <= cursor
    BY <2>1
  <2> QED
    BY <2>1, <2>2, <2>3, <2>4, ReturnProcInv
<1>2. CASE Dependents[c] # {}
  BY <1>2, ScanDependentsProcInv DEF WaitOnDependents
<1> QED
  BY <1>1, <1>2

LEMMA ReadCursorProcInv ==
  ASSUME ProcInv, NEW c \in Consumers, ReadCursor(c), UNCHANGED procVars
  PROVE  ProcInv'
<1>1. WaitFrame /\ pc[c] # "idle"
  BY DEF WaitFrame, ReadCursor, ProcInv, TypeOKProcessors
<1>2. CASE cursor >= next[c] /\ WaitOnDependents(c)
  <2>1. next[c] <= cursor
    BY <1>2 DEF ProcInv, TypeOKProcessors
  <2> QED
    BY <1>1, <1>2, <2>1, WaitOnDependentsProcInv
<1>3. CASE /\ Goto(c, IF Blocking THEN "lock" ELSE "checkAlert")
           /\ UNCHANGED <<available, unread>>
  <2>1. (IF Blocking THEN "lock" ELSE "checkAlert") \in WaitPcs \ {"readDependents"}
    BY DEF WaitPcs
  <2> QED
    BY <1>1, <1>3, <2>1, MoveProcInv
<1> QED
  BY <1>2, <1>3 DEF ReadCursor

LEMMA ReadDependentProcInv ==
  ASSUME ProcInv, NEW c \in Consumers, NEW d \in Dependents[c], ReadDependent(c, d),
         UNCHANGED procVars
  PROVE  ProcInv'
<1> DEFINE m == Minimum(available[c], sequence[d])
           l == IF unread[c] # {d} THEN "readDependents"
                ELSE IF m < next[c] THEN "checkAlert" ELSE AfterWaitFor(m)
<1>1. WaitFrame /\ pc[c] = "readDependents"
  BY DEF WaitFrame, ReadDependent, ProcInv, TypeOKProcessors
<1>2. d \in Consumers
  BY TopologyAssumption
<1>3. /\ available[c] \in Int /\ kAlertedSignal <= available[c]
      /\ sequence[d] \in Int /\ kAlertedSignal <= sequence[d]
      /\ sequence[d] < next[d]
      /\ next[d] \in Int /\ next[d] <= cursor + 1 /\ cursor \in Int
      /\ next[c] \in Int
  BY <1>1, <1>2
     DEF ProcInv, TypeOKProcessors, ProgressInv, ScanInv, ScanOK
<1>4. /\ m \in Int /\ kAlertedSignal <= m
      /\ m <= available[c] /\ m <= sequence[d]
      /\ m < next[d] /\ m <= cursor
  BY <1>3 DEF Minimum, kAlertedSignal
<1>5. /\ Goto(c, l)
      /\ available' = [available EXCEPT ![c] = m]
      /\ unread' = [unread EXCEPT ![c] = unread[c] \ {d}]
      /\ unread[c] \ {d} \in SUBSET Consumers
  BY DEF ReadDependent, ProcInv, TypeOKProcessors
<1>6. l \in WaitPcs \cup {"probe", "handle"}
  BY DEF AfterWaitFor, WaitPcs
<1> HIDE DEF m
<1>7. /\ pc'[c] = l
      /\ available'[c] = m
      /\ unread'[c] = unread[c] \ {d}
  BY <1>5, <1>6 DEF ProcInv, TypeOKProcessors, Goto
<1>8. \A e \in Dependents[c] \ unread'[c] : m < next[e]
  <2> SUFFICES ASSUME NEW e \in Dependents[c], e \notin unread[c] \/ e = d
               PROVE  m < next[e]
    BY <1>7
  <2>1. e \in Consumers /\ next[e] \in Int
    BY TopologyAssumption DEF ProcInv, TypeOKProcessors
  <2>2. CASE e = d
    BY <2>2, <1>4
  <2>3. CASE e \notin unread[c]
    <3>1. available[c] < next[e]
      BY <2>3, <1>1 DEF ProcInv, ScanInv, ScanOK
    <3> QED
      BY <3>1, <2>1, <1>3, <1>4
  <2> QED
    BY <2>2, <2>3
<1>9. ScanOK(c)'
  BY <1>1, <1>4, <1>7, <1>8 DEF ScanOK, WaitFrame
<1>10. WaitedOK(c)'
  <2>1. l \in {"probe", "handle"} => unread[c] = {d} /\ next[c] <= m
    BY <1>3, <1>4
  <2>2. l \in {"probe", "handle"} => \A e \in Dependents[c] : m < next[e]
    BY <2>1, <1>7, <1>8
  <2> QED
    BY <1>1, <1>4, <1>7, <2>1, <2>2 DEF WaitedOK, WaitFrame
<1> HIDE DEF l
<1> QED
  BY <1>1, <1>4, <1>5, <1>6, <1>9, <1>10, FrameProcInv

LEMMA CheckAlertProcInv ==
  ASSUME ProcInv, NEW c \in Consumers, CheckAlert(c), UNCHANGED procVars
  PROVE  ProcInv'
<1>1. WaitFrame /\ pc[c] # "idle"
  BY DEF WaitFrame, CheckAlert, ProcInv, TypeOKProcessors
<1>2. CASE Return(c, kAlertedSignal)
  BY <1>1, <1>2, ReturnAlertedProcInv
<1>3. CASE Goto(c, "readCursor") /\ UNCHANGED <<available, unread>>
  <2>1. "readCursor" \in WaitPcs \ {"readDependents"}
    BY DEF WaitPcs
  <2> QED
    BY <1>1, <1>3, <2>1, MoveProcInv
<1>4. CASE ScanDependents(c)
  BY <1>1, <1>4, ScanDependentsProcInv
<1> QED
  BY <1>2, <1>3, <1>4 DEF CheckAlert

(* Acquiring the mutex, and waking for no reason.                           *)
LEMMA LockProcInv ==
  ASSUME ProcInv, NEW c \in Consumers, Lock(c) \/ SpuriousWake(c),
         UNCHANGED procVars
  PROVE  ProcInv'
<1>1. WaitFrame /\ pc[c] # "idle"
  BY DEF WaitFrame, Lock, SpuriousWake, ProcInv, TypeOKProcessors
<1>2. {"lockedCursor", "lock"} \subseteq WaitPcs \ {"readDependents"}
  BY DEF WaitPcs
<1>3. CASE Lock(c)
  <2>1. Goto(c, "lockedCursor") /\ UNCHANGED <<available, unread>>
    BY <1>3 DEF Lock
  <2> QED
    BY <1>1, <1>2, <2>1, MoveProcInv
<1>4. CASE SpuriousWake(c)
  <2>1. Goto(c, "lock") /\ UNCHANGED <<available, unread>>
    BY <1>4 DEF SpuriousWake
  <2> QED
    BY <1>1, <1>2, <2>1, MoveProcInv
<1> QED
  BY <1>3, <1>4

LEMMA LockedCursorProcInv ==
  ASSUME ProcInv, NEW c \in Consumers, LockedCursor(c), UNCHANGED procVars
  PROVE  ProcInv'
<1>1. WaitFrame /\ pc[c] # "idle"
  BY DEF WaitFrame, LockedCursor, ProcInv, TypeOKProcessors
<1>2. CASE cursor >= next[c] /\ WaitOnDependents(c)
  <2>1. next[c] <= cursor
    BY <1>2 DEF ProcInv, TypeOKProcessors
  <2> QED
    BY <1>1, <1>2, <2>1, WaitOnDependentsProcInv
<1>3. CASE Goto(c, "lockedAlert") /\ UNCHANGED <<available, unread>>
  <2>1. "lockedAlert" \in WaitPcs \ {"readDependents"}
    BY DEF WaitPcs
  <2> QED
    BY <1>1, <1>3, <2>1, MoveProcInv
<1> QED
  BY <1>2, <1>3 DEF LockedCursor

LEMMA LockedAlertProcInv ==
  ASSUME ProcInv, NEW c \in Consumers, LockedAlert(c), UNCHANGED procVars
  PROVE  ProcInv'
<1>1. WaitFrame /\ pc[c] # "idle"
  BY DEF WaitFrame, LockedAlert, ProcInv, TypeOKProcessors
<1>2. CASE Return(c, kAlertedSignal)
  BY <1>1, <1>2, ReturnAlertedProcInv
<1>3. CASE Goto(c, "sleeping") /\ UNCHANGED <<available, unread>>
  <2>1. "sleeping" \in WaitPcs \ {"readDependents"}
    BY DEF WaitPcs
  <2> QED
    BY <1>1, <1>3, <2>1, MoveProcInv
<1> QED
  BY <1>2, <1>3 DEF LockedAlert

LEMMA WaitForStepProcInv ==
  ASSUME ProcInv, NEW c \in Consumers, WaitForStep(c), UNCHANGED procVars
  PROVE  ProcInv'
BY ReadCursorProcInv, ReadDependentProcInv, CheckAlertProcInv, LockProcInv, LockedCursorProcInv,
   LockedAlertProcInv DEF WaitForStep

-----------------------------------------------------------------------------
(* The rest of Run.                                                         *)

LEMMA RunEnterProcInv ==
  ASSUME RunOnce, ProcInv, NEW c \in Consumers, RunEnter(c)
  PROVE  ProcInv'
<1> USE DEF ProcInv, RunEnter, Goto
<1>1. runs[c] = 0
  <2>1. runs[c] \in Nat /\ runs[c] < MaxRuns
    BY DEF TypeOKProcessors
  <2>2. MaxRuns = 0 \/ MaxRuns = 1
    BY DEF RunOnce
  <2> QED
    BY <2>1, <2>2
<1>2. /\ pc' = [pc EXCEPT ![c] = "clearAlert"]
      /\ runs' = [runs EXCEPT ![c] = runs[c] + 1]
      /\ pc \in [Consumers -> ProcessorPcs]
      /\ runs \in [Consumers -> Nat]
      /\ "clearAlert" \in ProcessorPcs
  BY DEF TypeOKProcessors, ProcessorPcs
<1>3. TypeOKProcessors'
  BY <1>2 DEF TypeOKProcessors, stopVars
<1>4. ProgressInv'
  BY DEF ProgressInv
<1>5. StartInv'
  BY <1>1, <1>2 DEF StartInv
<1>6. ScanInv' /\ WaitedInv'
  BY <1>2 DEF ScanInv, ScanOK, WaitedInv, WaitedOK
<1> QED
  BY <1>3, <1>4, <1>5, <1>6

(* The first Run starts from kFirstSequenceValue, where next stands.        *)
LEMMA RunStartProcInv ==
  ASSUME ProcInv, NEW c \in Consumers, RunStart(c)
  PROVE  ProcInv'
<1>1. sequence[c] + 1 = next[c]
  BY DEF ProcInv, StartInv, RunStart, kInitialCursorValue, kFirstSequenceValue
<1>2. next' = next
  BY <1>1 DEF RunStart, ProcInv, TypeOKProcessors
<1>3. WaitFrame /\ pc[c] # "idle"
  BY <1>2 DEF WaitFrame, RunStart, ProcInv, TypeOKProcessors
<1> QED
  BY <1>3, BeginWaitForProcInv DEF RunStart

(* The event handled is published, and handled by the dependents.           *)
LEMMA HandledNext ==
  ASSUME ProcInv, NEW c \in Consumers, pc[c] = "handle", next[c] <= available[c]
  PROVE  /\ next[c] \in Nat
         /\ next[c] <= cursor
         /\ \A d \in Dependents[c] : next[c] < next[d]
<1>1. /\ next[c] \in Int /\ 0 <= next[c]
      /\ available[c] \in Int /\ available[c] <= cursor /\ cursor \in Int
  BY DEF ProcInv, TypeOKProcessors, ProgressInv, WaitedInv, WaitedOK
<1>2. ASSUME NEW d \in Dependents[c]
      PROVE  next[c] < next[d]
  <2>1. next[d] \in Int /\ available[c] < next[d]
    BY TopologyAssumption DEF ProcInv, TypeOKProcessors, WaitedInv, WaitedOK
  <2> QED
    BY <1>1, <2>1
<1> QED
  BY <1>1, <1>2

LEMMA OnEventProcInv ==
  ASSUME ProcInv, NEW c \in Consumers, OnEvent(c)
  PROVE  ProcInv'
<1>1. /\ next' = [next EXCEPT ![c] = next[c] + 1]
      /\ next \in [Consumers -> Int]
      /\ sequence \in [Consumers -> Int]
      /\ available \in [Consumers -> Int]
      /\ cursor \in Int
      /\ UNCHANGED <<cursor, sequence, alerted, mutex, pc, available, unread, procVars>>
      /\ pc[c] = "handle" /\ next[c] <= available[c]
  BY DEF OnEvent, ProcInv, TypeOKProcessors
<1>2. \A e \in Consumers : /\ next'[e] \in Int
                          /\ next[e] <= next'[e]
                          /\ e # c => next'[e] = next[e]
  BY <1>1
<1>3. TypeOKProcessors'
  BY <1>1, <1>2 DEF ProcInv, TypeOKProcessors, procVars
<1>4. ProgressInv'
  <2> SUFFICES ASSUME NEW e \in Consumers
               PROVE  /\ kAlertedSignal <= sequence[e]
                      /\ sequence[e] < next'[e]
                      /\ 0 <= next'[e]
                      /\ next'[e] <= cursor + 1
                      /\ \A d \in Dependents[e] : next'[e] <= next'[d]
    BY <1>1 DEF ProgressInv
  <2>1. /\ kAlertedSignal <= sequence[e] /\ sequence[e] < next[e]
        /\ 0 <= next[e] /\ next[e] <= cursor + 1
        /\ \A d \in Dependents[e] : d \in Consumers /\ next[e] <= next[d]
    BY TopologyAssumption DEF ProcInv, ProgressInv
  <2>2. CASE e = c
    <3>1. next[c] <= cursor /\ \A d \in Dependents[c] : next[c] < next[d]
      BY <1>1, HandledNext
    <3> QED
      BY <1>1, <1>2, <2>1, <2>2, <3>1
  <2>3. CASE e # c
    BY <1>1, <1>2, <2>1, <2>3
  <2> QED
    BY <2>2, <2>3
<1>5. StartInv'
  BY <1>1, <1>2 DEF ProcInv, StartInv, procVars
<1>6. ASSUME NEW e \in Consumers
      PROVE  ScanOK(e)' /\ WaitedOK(e)'
  <2>1. ScanOK(e) /\ WaitedOK(e)
    BY DEF ProcInv, ScanInv, WaitedInv
  <2>2. \A d \in Dependents[e] : available[e] < next[d] => available[e] < next'[d]
    BY <1>1, <1>2, TopologyAssumption
  <2> QED
    BY <1>1, <2>1, <2>2 DEF ScanOK, WaitedOK
<1> QED
  BY <1>3, <1>4, <1>5, <1>6 DEF ProcInv, ScanInv, WaitedInv

LEMMA RecordProcInv ==
  ASSUME ProcInv, NEW c \in Consumers, Record(c)
  PROVE  ProcInv'
<1>1. /\ sequence' = [sequence EXCEPT ![c] = available[c]]
      /\ pc' = [pc EXCEPT ![c] = "recorded"]
      /\ UNCHANGED <<cursor, alerted, mutex, next, available, unread, procVars>>
      /\ pc[c] = "handle" /\ next[c] > available[c]
      /\ kAlertedSignal <= available[c]
      /\ pc \in [Consumers -> ProcessorPcs]
      /\ sequence \in [Consumers -> Int]
      /\ available \in [Consumers -> Int]
      /\ next \in [Consumers -> Int]
  BY DEF Record, Goto, ProcInv, TypeOKProcessors, WaitedInv, WaitedOK
<1>2. TypeOKProcessors'
  BY <1>1 DEF ProcInv, TypeOKProcessors, ProcessorPcs, procVars
<1>3. ProgressInv'
  BY <1>1 DEF ProcInv, ProgressInv
<1>4. StartInv'
  BY <1>1 DEF ProcInv, StartInv, procVars
<1>5. ScanInv' /\ WaitedInv'
  BY <1>1 DEF ProcInv, ScanInv, ScanOK, WaitedInv, WaitedOK
<1> QED
  BY <1>2, <1>3, <1>4, <1>5 DEF ProcInv

LEMMA CheckRunningProcInv ==
  ASSUME ProcInv, NEW c \in Consumers, CheckRunning(c)
  PROVE  ProcInv'
<1>1. CASE BeginWaitFor(c)
  <2>1. WaitFrame /\ pc[c] # "idle"
    BY DEF WaitFrame, CheckRunning, ProcInv, TypeOKProcessors
  <2> QED
    BY <1>1, <2>1, BeginWaitForProcInv
<1>2. CASE Goto(c, "idle") /\ UNCHANGED <<available, unread>>
  <2>1. /\ pc' = [pc EXCEPT ![c] = "idle"]
        /\ pc \in [Consumers -> ProcessorPcs]
        /\ UNCHANGED <<cursor, sequence, alerted, mutex, next, available, unread, procVars>>
        /\ pc[c] = "recorded"
    BY <1>2 DEF CheckRunning, Goto, ProcInv, TypeOKProcessors
  <2>2. TypeOKProcessors'
    BY <2>1 DEF ProcInv, TypeOKProcessors, ProcessorPcs, procVars
  <2>3. ProgressInv' /\ StartInv'
    BY <2>1 DEF ProcInv, ProgressInv, StartInv, procVars
  <2>4. ScanInv' /\ WaitedInv'
    BY <2>1 DEF ProcInv, ScanInv, ScanOK, WaitedInv, WaitedOK
  <2> QED
    BY <2>2, <2>3, <2>4 DEF ProcInv
<1> QED
  BY <1>1, <1>2 DEF CheckRunning

-----------------------------------------------------------------------------
(* Stop, on the controlling thread.                                         *)

LEMMA StopEnterProcInv ==
  ASSUME ProcInv, NEW c \in Consumers, StopEnter(c)
  PROVE  ProcInv'
<1>1. /\ UNCHANGED <<waitVars, runs>>
      /\ running' = running \/ running' = [running EXCEPT ![c] = FALSE]
      /\ stopPc' = stopPc \/ stopPc' = "alert"
      /\ stopTarget' = stopTarget \/ stopTarget' = c
      /\ stopCalled' = stopCalled \cup {c} /\ c \in Stoppable
  BY DEF StopEnter, MayStop
<1>2. TypeOKProcessors'
  <2>1. running' \in [Consumers -> BOOLEAN]
    BY <1>1 DEF ProcInv, TypeOKProcessors
  <2>2. /\ stopPc' \in {"idle", "alert", "signal"}
        /\ stopTarget' \in Consumers \cup {NoThread}
        /\ stopCalled' \in SUBSET Stoppable
    BY <1>1 DEF ProcInv, TypeOKProcessors
  <2> QED
    BY <1>1, <2>1, <2>2 DEF ProcInv, TypeOKProcessors, waitVars
<1>3. ProgressInv' /\ StartInv' /\ ScanInv' /\ WaitedInv'
  BY <1>1 DEF ProcInv, ProgressInv, StartInv, ScanInv, ScanOK, WaitedInv, WaitedOK, waitVars
<1> QED
  BY <1>2, <1>3 DEF ProcInv

LEMMA StopStepProcInv ==
  ASSUME ProcInv, StopStep
  PROVE  ProcInv'
<1>1. CASE StopAlert
  <2>1. /\ UNCHANGED <<cursor, sequence, mutex, pc, next, available, unread, running,
                       runs, stopTarget, stopCalled>>
        /\ stopPc' = "signal"
        /\ alerted' \in [Barriers -> BOOLEAN]
    BY <1>1 DEF StopAlert, ProcInv, TypeOKProcessors
  <2>2. TypeOKProcessors'
    BY <2>1 DEF ProcInv, TypeOKProcessors
  <2> QED
    BY <2>1, <2>2 DEF ProcInv, ProgressInv, StartInv, ScanInv, ScanOK, WaitedInv, WaitedOK
<1>2. CASE StopSignal
  <2>1. /\ SignalAllWhenBlocking
        /\ UNCHANGED <<cursor, sequence, alerted, mutex, next, available, unread,
                       running, runs>>
        /\ stopPc' \in {"idle", "alert", "signal"}
        /\ stopTarget' \in Consumers \cup {NoThread}
        /\ stopCalled' \in SUBSET Stoppable
    BY <1>2 DEF StopSignal, ProcInv, TypeOKProcessors
  <2> QED
    BY <2>1, NotifyProcInv
<1> QED
  BY <1>1, <1>2 DEF StopStep

(* Every step of a processor, and of a Stop, keeps the invariant.           *)
LEMMA ProcessorNextProcInv ==
  ASSUME RunOnce, ProcInv, ProcessorNext
  PROVE  ProcInv'
<1>1. CASE \E c \in Consumers : RunEnter(c)
  BY <1>1, RunEnterProcInv
<1>2. CASE \E c \in Consumers : RunStep(c)
  BY <1>2, RunStartProcInv, WaitForStepProcInv, OnEventProcInv, RecordProcInv,
     CheckRunningProcInv DEF RunStep
<1>3. CASE \E c \in Consumers : SpuriousWake(c) /\ UNCHANGED procVars
  BY <1>3, LockProcInv
<1>4. CASE \E c \in Consumers : StopEnter(c)
  BY <1>4, StopEnterProcInv
<1>5. CASE StopStep
  BY <1>5, StopStepProcInv
<1> QED
  BY <1>1, <1>2, <1>3, <1>4, <1>5 DEF ProcessorNext

(* No step of theirs moves the cursor, and one that moves next is a         *)
(* completed OnEvent.                                                       *)
LEMMA ProcessorMoves ==
  ASSUME ProcInv, ProcessorNext
  PROVE  /\ cursor' = cursor
         /\ next' = next \/ \E c \in Consumers : OnEvent(c)
         /\ \A c \in Consumers : next[c] <= next'[c]
<1>1. cursor' = cursor
  BY DEF ProcessorNext, RunEnter, RunStep, RunStart, WaitForStep, ReadCursor, ReadDependent,
         CheckAlert, Lock, LockedCursor, LockedAlert, SpuriousWake, OnEvent, Record,
         CheckRunning, StopEnter, StopStep, StopAlert, StopSignal, waitVars
<1>2. next' = next \/ \E c \in Consumers : OnEvent(c)
  <2>1. ASSUME NEW c \in Consumers, RunStart(c)
        PROVE  next' = next
    BY <2>1 DEF RunStart, ProcInv, StartInv, TypeOKProcessors, kInitialCursorValue,
                kFirstSequenceValue
  <2> QED
    BY <2>1 DEF ProcessorNext, RunEnter, RunStep, WaitForStep, ReadCursor, ReadDependent,
                CheckAlert, Lock, LockedCursor, LockedAlert, SpuriousWake, Record,
                CheckRunning, StopEnter, StopStep, StopAlert, StopSignal, waitVars
<1>3. ASSUME NEW c \in Consumers
      PROVE  next[c] <= next'[c]
  BY <1>2 DEF OnEvent, ProcInv, TypeOKProcessors
<1> QED
  BY <1>1, <1>2, <1>3

(* Another thread's step leaves processor c where it is, or wakes it.       *)
LEMMA OthersLeaveAlone ==
  ASSUME ProcInv, NEW c \in Consumers,
         \/ \E e \in Consumers \ {c} : \/ RunEnter(e) \/ RunStep(e)
                                       \/ SpuriousWake(e)
         \/ \E e \in Consumers : StopEnter(e)
         \/ StopStep
  PROVE  /\ pc'[c] = pc[c] \/ (pc[c] = "sleeping" /\ pc'[c] = "lock")
         /\ next'[c] = next[c] /\ available'[c] = available[c] /\ sequence'[c] = sequence[c]
<1> USE DEF ProcInv, TypeOKProcessors, Goto
<1>1. ASSUME NEW e \in Consumers \ {c},
             \/ BeginWaitFor(e) \/ WaitOnDependents(e) \/ ScanDependents(e)
             \/ \E value \in Int : Return(e, value)
      PROVE  pc'[c] = pc[c] /\ available'[c] = available[c]
  BY <1>1 DEF BeginWaitFor, WaitOnDependents, ScanDependents, Return
<1>2. ASSUME NEW e \in Consumers \ {c}, RunEnter(e) \/ RunStart(e) \/ OnEvent(e)
               \/ Record(e) \/ CheckRunning(e)
      PROVE  /\ pc'[c] = pc[c]
             /\ next'[c] = next[c] /\ available'[c] = available[c] /\ sequence'[c] = sequence[c]
  BY <1>1, <1>2 DEF RunEnter, RunStart, OnEvent, Record, CheckRunning
<1>3. ASSUME NEW e \in Consumers \ {c}, WaitForStep(e) \/ SpuriousWake(e)
      PROVE  /\ pc'[c] = pc[c]
             /\ next'[c] = next[c] /\ available'[c] = available[c] /\ sequence'[c] = sequence[c]
  BY <1>1, <1>3 DEF WaitForStep, ReadCursor, ReadDependent, CheckAlert, Lock, LockedCursor,
                    LockedAlert, SpuriousWake, kAlertedSignal
<1>4. ASSUME (\E e \in Consumers : StopEnter(e)) \/ StopAlert
      PROVE  UNCHANGED <<pc, next, available, sequence>>
  BY <1>4 DEF StopEnter, StopAlert, waitVars
<1>5. CASE StopSignal
  BY <1>5, NotifyMoves DEF StopSignal
<1> QED
  BY <1>2, <1>3, <1>4, <1>5 DEF RunStep, StopStep

(* What any step may do to a processor: it enters the handling loop with    *)
(* what its wait has answered, and leaves it through Record.                *)
LEMMA ProcessorEffect ==
  ASSUME ProcInv, ProcessorNext, NEW c \in Consumers
  PROVE  /\ pc[c] \in {"probe", "handle"} =>
              \/ pc[c] = "handle" /\ Record(c)
              \/ pc[c] = "handle" /\ OnEvent(c)
              \/ /\ pc'[c] = pc[c] /\ next'[c] = next[c]
                 /\ available'[c] = available[c] /\ sequence'[c] = sequence[c]
         /\ pc[c] \notin {"probe", "handle"} =>
              /\ next'[c] = next[c] /\ sequence'[c] = sequence[c]
              /\ pc'[c] \in {"probe", "handle"} =>
                   /\ pc'[c] = AfterWaitFor(available'[c])
                   /\ \/ next[c] <= available'[c]
                      \/ available'[c] = kAlertedSignal /\ alerted[BarrierOf[c]]
<1> USE DEF ProcInv, TypeOKProcessors, Goto
<1>1. CASE \/ \E e \in Consumers \ {c} : \/ RunEnter(e) \/ RunStep(e)
                                         \/ SpuriousWake(e)
           \/ \E e \in Consumers : StopEnter(e)
           \/ StopStep
  BY <1>1, OthersLeaveAlone
<1>2. CASE RunEnter(c) \/ SpuriousWake(c)
  BY <1>2 DEF RunEnter, SpuriousWake
<1>3. CASE OnEvent(c) \/ Record(c)
  BY <1>3 DEF OnEvent, Record
<1>4. ASSUME NEW value \in Int, Return(c, value)
      PROVE  available'[c] = value /\ pc'[c] = AfterWaitFor(value)
  BY <1>4 DEF Return
<1>5. ASSUME ScanDependents(c)
      PROVE  pc'[c] = "readDependents"
  BY <1>5 DEF ScanDependents
<1>6. ASSUME BeginWaitFor(c)
      PROVE  pc'[c] \in {"readCursor", "readDependents"}
  BY <1>5, <1>6 DEF BeginWaitFor
<1>7. CASE RunStart(c)
  <2>1. sequence[c] + 1 = next[c]
    BY <1>7 DEF StartInv, RunStart, kInitialCursorValue, kFirstSequenceValue
  <2> QED
    BY <1>6, <1>7, <2>1 DEF RunStart
<1>8. CASE CheckRunning(c)
  BY <1>6, <1>8 DEF CheckRunning
<1>9. ASSUME cursor >= next[c], WaitOnDependents(c)
      PROVE  \/ pc'[c] = "readDependents"
             \/ pc'[c] = AfterWaitFor(available'[c]) /\ next[c] <= available'[c]
  BY <1>4, <1>5, <1>9 DEF WaitOnDependents
<1>10. CASE ReadCursor(c) \/ LockedCursor(c)
  BY <1>9, <1>10 DEF ReadCursor, LockedCursor
<1>11. ASSUME NEW d \in Dependents[c], ReadDependent(c, d)
       PROVE  /\ pc[c] \notin {"probe", "handle"}
              /\ next'[c] = next[c] /\ sequence'[c] = sequence[c]
              /\ pc'[c] \in {"probe", "handle"} =>
                   pc'[c] = AfterWaitFor(available'[c]) /\ next[c] <= available'[c]
  <2> DEFINE m == Minimum(available[c], sequence[d])
  <2>1. d \in Consumers /\ m \in Int
    BY TopologyAssumption DEF Minimum
  <2>2. /\ available'[c] = m
        /\ \/ pc'[c] \in {"readDependents", "checkAlert"}
           \/ ~(m < next[c]) /\ pc'[c] = AfterWaitFor(m)
        /\ pc[c] = "readDependents" /\ UNCHANGED <<next, sequence>>
    BY <1>11 DEF ReadDependent
  <2> HIDE DEF m
  <2> QED
    BY <2>1, <2>2
<1>12. CASE CheckAlert(c) \/ LockedAlert(c)
  BY <1>4, <1>5, <1>12 DEF CheckAlert, LockedAlert, kAlertedSignal
<1>13. CASE Lock(c)
  BY <1>13 DEF Lock
<1> QED
  BY <1>1, <1>2, <1>3, <1>7, <1>8, <1>10, <1>11, <1>12, <1>13
     DEF ProcessorNext, RunStep, WaitForStep

-----------------------------------------------------------------------------
(* The types of the processors' variables hold for every client.            *)

LEMMA BeginWaitForTyped ==
  ASSUME TypeOKProcessors, NEW c \in Consumers,
         BeginWaitFor(c) \/ WaitOnDependents(c) \/ ScanDependents(c)
           \/ Return(c, kAlertedSignal)
  PROVE  /\ pc' \in [Consumers -> ProcessorPcs]
         /\ available' \in [Consumers -> Int]
         /\ unread' \in [Consumers -> SUBSET Consumers]
<1> USE DEF TypeOKProcessors, ProcessorPcs, WaitPcs, Goto
<1>1. Dependents[c] \subseteq Consumers /\ LongMax \in Int
  BY TopologyAssumption, LongMaxAssumption
<1>2. CASE ScanDependents(c)
  BY <1>1, <1>2 DEF ScanDependents
<1>3. ASSUME NEW value \in Int, Return(c, value)
      PROVE  /\ pc' \in [Consumers -> ProcessorPcs]
             /\ available' \in [Consumers -> Int]
             /\ unread' \in [Consumers -> SUBSET Consumers]
  BY <1>3 DEF Return, AfterWaitFor
<1>4. CASE BeginWaitFor(c)
  BY <1>2, <1>4 DEF BeginWaitFor, kInitialCursorValue
<1>5. CASE WaitOnDependents(c)
  BY <1>2, <1>3, <1>5 DEF WaitOnDependents
<1>6. CASE Return(c, kAlertedSignal)
  BY <1>3, <1>6 DEF kAlertedSignal
<1> QED
  BY <1>2, <1>4, <1>5, <1>6

LEMMA WaitForStepTyped ==
  ASSUME TypeOKProcessors, NEW c \in Consumers, WaitForStep(c) \/ SpuriousWake(c),
         UNCHANGED procVars
  PROVE  TypeOKProcessors'
<1> SUFFICES /\ pc' \in [Consumers -> ProcessorPcs]
             /\ available' \in [Consumers -> Int]
             /\ unread' \in [Consumers -> SUBSET Consumers]
             /\ mutex' \in Consumers \cup {NoThread}
             /\ UNCHANGED <<cursor, sequence, alerted, next>>
  BY DEF TypeOKProcessors, procVars
<1>1. mutex' \in Consumers \cup {NoThread} /\ UNCHANGED <<cursor, sequence, alerted, next>>
  BY DEF TypeOKProcessors, WaitForStep, ReadCursor, ReadDependent, CheckAlert, Lock,
         LockedCursor, LockedAlert, SpuriousWake
<1>2. CASE BeginWaitFor(c) \/ WaitOnDependents(c) \/ ScanDependents(c)
             \/ Return(c, kAlertedSignal)
  BY <1>1, <1>2, BeginWaitForTyped
<1>3. ASSUME NEW d \in Dependents[c], ReadDependent(c, d)
      PROVE  /\ pc' \in [Consumers -> ProcessorPcs]
             /\ available' \in [Consumers -> Int]
             /\ unread' \in [Consumers -> SUBSET Consumers]
  <2>1. d \in Consumers
    BY TopologyAssumption
  <2> QED
    BY <1>3, <2>1 DEF TypeOKProcessors, ProcessorPcs, WaitPcs, Goto, ReadDependent,
                      AfterWaitFor, Minimum
<1>4. ASSUME NEW l \in WaitPcs, Goto(c, l), UNCHANGED <<available, unread>>
      PROVE  /\ pc' \in [Consumers -> ProcessorPcs]
             /\ available' \in [Consumers -> Int]
             /\ unread' \in [Consumers -> SUBSET Consumers]
  BY <1>4 DEF TypeOKProcessors, ProcessorPcs, Goto
<1>5. /\ {"lock", "checkAlert", "readCursor", "lockedCursor", "lockedAlert", "sleeping"}
           \subseteq WaitPcs
      /\ (IF Blocking THEN "lock" ELSE "checkAlert") \in WaitPcs
  BY DEF WaitPcs
<1>6. CASE ReadCursor(c) \/ CheckAlert(c) \/ Lock(c) \/ LockedCursor(c) \/ LockedAlert(c)
             \/ SpuriousWake(c)
  BY <1>1, <1>2, <1>4, <1>5, <1>6 DEF ReadCursor, CheckAlert, Lock, LockedCursor,
     LockedAlert, SpuriousWake
<1> QED
  BY <1>1, <1>3, <1>6 DEF WaitForStep

LEMMA ProcessorTyped ==
  ASSUME TypeOKProcessors, ProcessorNext
  PROVE  TypeOKProcessors'
<1>1. ASSUME NEW c \in Consumers, RunEnter(c)
      PROVE  TypeOKProcessors'
  BY <1>1 DEF RunEnter, TypeOKProcessors, ProcessorPcs, Goto, stopVars
<1>2. ASSUME NEW c \in Consumers, RunStart(c)
      PROVE  TypeOKProcessors'
  <2>1. /\ pc' \in [Consumers -> ProcessorPcs]
        /\ available' \in [Consumers -> Int]
        /\ unread' \in [Consumers -> SUBSET Consumers]
    BY <1>2, BeginWaitForTyped DEF RunStart
  <2>2. /\ alerted' \in [Barriers -> BOOLEAN]
        /\ next' = [next EXCEPT ![c] = sequence[c] + 1]
    BY <1>2 DEF RunStart, TypeOKProcessors
  <2>3. UNCHANGED <<cursor, sequence, mutex, running, runs, stopPc, stopTarget, stopCalled>>
    BY <1>2 DEF RunStart, procVars
  <2> QED
    BY <2>1, <2>2, <2>3 DEF TypeOKProcessors
<1>3. ASSUME NEW c \in Consumers, WaitForStep(c) \/ SpuriousWake(c), UNCHANGED procVars
      PROVE  TypeOKProcessors'
  BY <1>3, WaitForStepTyped
<1>4. ASSUME NEW c \in Consumers, OnEvent(c) \/ Record(c)
      PROVE  TypeOKProcessors'
  BY <1>4 DEF OnEvent, Record, TypeOKProcessors, ProcessorPcs, Goto, procVars
<1>5. ASSUME NEW c \in Consumers, CheckRunning(c)
      PROVE  TypeOKProcessors'
  <2>1. CASE BeginWaitFor(c)
    BY <1>5, <2>1, BeginWaitForTyped DEF CheckRunning, TypeOKProcessors, procVars
  <2>2. CASE Goto(c, "idle") /\ UNCHANGED <<available, unread>>
    BY <1>5, <2>2 DEF CheckRunning, TypeOKProcessors, ProcessorPcs, Goto, procVars
  <2> QED
    BY <1>5, <2>1, <2>2 DEF CheckRunning
<1>6. ASSUME NEW c \in Consumers, StopEnter(c)
      PROVE  TypeOKProcessors'
  BY <1>6 DEF StopEnter, MayStop, TypeOKProcessors, waitVars
<1>7. CASE StopAlert
  BY <1>7 DEF StopAlert, TypeOKProcessors
<1>8. CASE StopSignal
  BY <1>8, NotifyMoves DEF StopSignal, TypeOKProcessors
<1> QED
  BY <1>1, <1>2, <1>3, <1>4, <1>5, <1>6, <1>7, <1>8 DEF ProcessorNext, RunStep, StopStep

-----------------------------------------------------------------------------
(* BlockingStrategy: who holds the mutex, who sleeps.                       *)

LEMMA InitMutexInv == InitProcessors => MutexInv
BY TopologyAssumption DEF InitProcessors, MutexInv, MutexOK, Locked

(* A step that puts nobody to sleep over a sequence that is there.          *)
NobodyOversleeps == \A c \in Consumers : Overslept(c)' => Overslept(c)

(* A step of a thread that neither takes the mutex nor goes to sleep.       *)
LEMMA AwakeStep ==
  ASSUME TypeOKProcessors, MutexInv, NEW c \in Consumers,
         NEW l, l \notin Locked \cup {"sleeping"}, l = "lock" => Blocking,
         Goto(c, l),
         \/ pc[c] \in Locked /\ mutex' = NoThread
         \/ pc[c] \notin Locked /\ mutex' = mutex,
         \A e \in Consumers \ {c} : next'[e] = next[e],
         \A b \in Barriers : alerted'[b] => alerted[b],
         UNCHANGED <<cursor, stopPc>>
  PROVE  MutexInv' /\ NobodyOversleeps
<1> SUFFICES ASSUME NEW e \in Consumers
             PROVE  MutexOK(e)' /\ (Overslept(e)' => Overslept(e))
  BY DEF MutexInv, NobodyOversleeps
<1>1. MutexOK(e) /\ MutexOK(c)
  BY DEF MutexInv
<1>2. NoThread \notin Consumers /\ BarrierOf[e] \in Barriers
  BY TopologyAssumption
<1>3. CASE e = c
  <2>1. pc'[c] = l
    BY DEF Goto, TypeOKProcessors
  <2> QED
    BY <1>1, <1>2, <1>3, <2>1 DEF MutexOK, Overslept, Locked, Blocking
<1>4. CASE e # c
  <2>1. pc'[e] = pc[e]
    BY <1>4 DEF Goto, TypeOKProcessors
  <2>2. next'[e] = next[e] /\ (alerted'[BarrierOf[e]] => alerted[BarrierOf[e]])
    BY <1>2, <1>4
  <2>3. mutex' = e <=> mutex = e
    BY <1>1, <1>2, <1>4 DEF MutexOK
  <2> QED
    BY <1>1, <2>1, <2>2, <2>3 DEF MutexOK, Overslept, Blocking
<1> QED
  BY <1>3, <1>4

(* The places a wait begins at, or returns to.                              *)
LEMMA AwakePlaces ==
  ASSUME NEW c \in Consumers, NEW value,
         BeginWaitFor(c) \/ WaitOnDependents(c) \/ ScanDependents(c) \/ Return(c, value)
  PROVE  \E l \in {"readCursor", "readDependents", "handle", "probe"} : Goto(c, l)
<1>1. \A v : AfterWaitFor(v) \in {"handle", "probe"}
  BY DEF AfterWaitFor
<1> QED
  BY <1>1 DEF BeginWaitFor, WaitOnDependents, ScanDependents, Return

LEMMA MutexWaitForStep ==
  ASSUME TypeOKProcessors, MutexInv, NEW c \in Consumers, WaitForStep(c) \/ SpuriousWake(c),
         UNCHANGED procVars
  PROVE  MutexInv' /\ NobodyOversleeps
<1> USE DEF procVars, Locked
<1>1. CASE ReadCursor(c)
  <2>1. \E l \in {"readCursor", "readDependents", "handle", "probe", "lock", "checkAlert"} :
          Goto(c, l) /\ (l = "lock" => Blocking)
    <3>1. CASE WaitOnDependents(c)
      BY <3>1, AwakePlaces
    <3>2. CASE Goto(c, IF Blocking THEN "lock" ELSE "checkAlert")
      BY <3>2 DEF Blocking
    <3> QED
      BY <1>1, <3>1, <3>2 DEF ReadCursor
  <2> QED
    BY <1>1, <2>1, AwakeStep DEF ReadCursor
<1>2. ASSUME NEW d \in Dependents[c], ReadDependent(c, d)
      PROVE  MutexInv' /\ NobodyOversleeps
  <2>1. \E l \in {"readDependents", "handle", "probe", "checkAlert"} : Goto(c, l)
    BY <1>2 DEF ReadDependent, AfterWaitFor
  <2> QED
    BY <1>2, <2>1, AwakeStep DEF ReadDependent
<1>3. CASE CheckAlert(c)
  <2>1. \E l \in {"readCursor", "readDependents", "handle", "probe"} : Goto(c, l)
    BY <1>3, AwakePlaces DEF CheckAlert
  <2> QED
    BY <1>3, <2>1, AwakeStep DEF CheckAlert
<1>4. CASE SpuriousWake(c)
  <2>1. Blocking
    BY <1>4 DEF SpuriousWake, MutexInv, MutexOK
  <2> QED
    BY <1>4, <2>1, AwakeStep DEF SpuriousWake
<1>5. CASE Lock(c)
  <2> SUFFICES ASSUME NEW e \in Consumers
               PROVE  MutexOK(e)' /\ (Overslept(e)' => Overslept(e))
    BY DEF MutexInv, NobodyOversleeps
  <2>1. MutexOK(e) /\ MutexOK(c) /\ NoThread \notin Consumers
    BY TopologyAssumption DEF MutexInv
  <2>2. pc'[e] = IF e = c THEN "lockedCursor" ELSE pc[e]
    BY <1>5 DEF Lock, Goto, TypeOKProcessors
  <2> QED
    BY <1>5, <2>1, <2>2 DEF Lock, MutexOK, Overslept, Blocking
<1>6. CASE LockedCursor(c)
  <2>1. CASE WaitOnDependents(c) /\ mutex' = NoThread
    BY <1>6, <2>1, AwakePlaces, AwakeStep DEF LockedCursor
  <2>2. CASE cursor < next[c] /\ Goto(c, "lockedAlert") /\ UNCHANGED mutex
    <3> SUFFICES ASSUME NEW e \in Consumers
                 PROVE  MutexOK(e)' /\ (Overslept(e)' => Overslept(e))
      BY DEF MutexInv, NobodyOversleeps
    <3>1. MutexOK(e) /\ MutexOK(c)
      BY DEF MutexInv
    <3>2. pc'[e] = IF e = c THEN "lockedAlert" ELSE pc[e]
      BY <2>2 DEF Goto, TypeOKProcessors
    <3>3. next[c] \in Int /\ cursor \in Int
      BY DEF TypeOKProcessors
    <3> QED
      BY <1>6, <2>2, <3>1, <3>2, <3>3 DEF LockedCursor, MutexOK, Overslept, Blocking
  <2> QED
    BY <1>6, <2>1, <2>2 DEF LockedCursor
<1>7. CASE LockedAlert(c)
  <2>1. CASE Return(c, kAlertedSignal)
    BY <1>7, <2>1, AwakePlaces, AwakeStep DEF LockedAlert
  <2>2. CASE ~alerted[BarrierOf[c]] /\ Goto(c, "sleeping")
    <3> SUFFICES ASSUME NEW e \in Consumers
                 PROVE  MutexOK(e)' /\ (Overslept(e)' => Overslept(e))
      BY DEF MutexInv, NobodyOversleeps
    <3>1. MutexOK(e) /\ MutexOK(c) /\ NoThread \notin Consumers
      BY TopologyAssumption DEF MutexInv
    <3>2. pc'[e] = IF e = c THEN "sleeping" ELSE pc[e]
      BY <2>2 DEF Goto, TypeOKProcessors
    <3> QED
      BY <1>7, <2>2, <3>1, <3>2 DEF LockedAlert, MutexOK, Overslept, Blocking
  <2> QED
    BY <1>7, <2>1, <2>2 DEF LockedAlert
<1> QED
  BY <1>1, <1>2, <1>3, <1>4, <1>5, <1>6, <1>7 DEF WaitForStep

(* A notification finds the mutex free, so nobody between the test and the  *)
(* sleep, and leaves nobody asleep.                                         *)
LEMMA MutexSignal ==
  ASSUME TypeOKProcessors, MutexInv, SignalAllWhenBlocking,
         UNCHANGED <<cursor, alerted, mutex, next>>
  PROVE  /\ MutexInv'
         /\ \A c \in Consumers : pc'[c] \notin {"lockedAlert", "sleeping"}
<1> USE DEF SignalAllWhenBlocking, Blocking, Locked
<1>1. CASE WaitOption = "kBlockingStrategy"
  <2> SUFFICES ASSUME NEW c \in Consumers
               PROVE  MutexOK(c)' /\ pc'[c] \notin {"lockedAlert", "sleeping"}
    BY DEF MutexInv
  <2>1. pc'[c] = IF pc[c] = "sleeping" THEN "lock" ELSE pc[c]
    BY <1>1
  <2>2. MutexOK(c) /\ mutex = NoThread /\ NoThread \notin Consumers
    BY <1>1, TopologyAssumption DEF MutexInv
  <2> QED
    BY <1>1, <2>1, <2>2 DEF MutexOK
<1>2. CASE WaitOption # "kBlockingStrategy"
  <2> SUFFICES ASSUME NEW c \in Consumers
               PROVE  MutexOK(c)' /\ pc'[c] \notin {"lockedAlert", "sleeping"}
    BY DEF MutexInv
  <2>1. MutexOK(c) /\ pc' = pc
    BY <1>2 DEF MutexInv
  <2> QED
    BY <1>2, <2>1 DEF MutexOK
<1> QED
  BY <1>1, <1>2

LEMMA MutexProcessorNext ==
  ASSUME TypeOKProcessors, MutexInv, ProcessorNext
  PROVE  MutexInv' /\ NobodyOversleeps
<1> USE DEF procVars, stopVars, waitVars
<1>1. ASSUME NEW c \in Consumers, RunEnter(c)
      PROVE  MutexInv' /\ NobodyOversleeps
  <2>1. Goto(c, "clearAlert") /\ UNCHANGED <<cursor, alerted, mutex, next, stopPc>>
    BY <1>1 DEF RunEnter
  <2>2. pc[c] \notin Locked
    BY <1>1 DEF RunEnter, Locked
  <2> QED
    BY <2>1, <2>2, AwakeStep DEF Locked
<1>2. ASSUME NEW c \in Consumers, RunStart(c)
      PROVE  MutexInv' /\ NobodyOversleeps
  <2>1. /\ UNCHANGED <<cursor, mutex, stopPc>>
        /\ pc[c] \notin Locked
        /\ \A b \in Barriers : alerted'[b] => alerted[b]
        /\ \A e \in Consumers \ {c} : next'[e] = next[e]
    BY <1>2 DEF RunStart, Locked, TypeOKProcessors
  <2>2. \E l \in {"readCursor", "readDependents", "handle", "probe"} : Goto(c, l)
    BY <1>2, AwakePlaces DEF RunStart
  <2> QED
    BY <2>1, <2>2, AwakeStep DEF Locked
<1>3. ASSUME NEW c \in Consumers, WaitForStep(c) \/ SpuriousWake(c), UNCHANGED procVars
      PROVE  MutexInv' /\ NobodyOversleeps
  BY <1>3, MutexWaitForStep
<1>4. ASSUME NEW c \in Consumers, OnEvent(c) \/ Record(c)
      PROVE  MutexInv' /\ NobodyOversleeps
  <2>1. \E l \in {"handle", "recorded"} : Goto(c, l)
    BY <1>4 DEF OnEvent, Record, Goto, TypeOKProcessors
  <2>2. /\ UNCHANGED <<cursor, alerted, mutex, stopPc>>
        /\ pc[c] \notin Locked
        /\ \A e \in Consumers \ {c} : next'[e] = next[e]
    BY <1>4 DEF OnEvent, Record, Locked, TypeOKProcessors
  <2> QED
    BY <2>1, <2>2, AwakeStep DEF Locked
<1>5. ASSUME NEW c \in Consumers, CheckRunning(c)
      PROVE  MutexInv' /\ NobodyOversleeps
  <2>1. \E l \in {"readCursor", "readDependents", "handle", "probe", "idle"} : Goto(c, l)
    BY <1>5, AwakePlaces DEF CheckRunning
  <2>2. pc[c] \notin Locked /\ UNCHANGED <<cursor, alerted, mutex, next, stopPc>>
    BY <1>5 DEF CheckRunning, Locked
  <2> QED
    BY <2>1, <2>2, AwakeStep DEF Locked
<1>6. ASSUME NEW c \in Consumers, StopEnter(c)
      PROVE  MutexInv' /\ NobodyOversleeps
  BY <1>6 DEF StopEnter, MayStop, MutexInv, MutexOK, NobodyOversleeps, Overslept, Blocking
<1>7. CASE StopAlert
  BY <1>7 DEF StopAlert, MutexInv, MutexOK, NobodyOversleeps, Overslept, Blocking
<1>8. CASE StopSignal
  <2>1. MutexInv' /\ \A c \in Consumers : pc'[c] \notin {"lockedAlert", "sleeping"}
    BY <1>8, MutexSignal DEF StopSignal
  <2> QED
    BY <2>1 DEF NobodyOversleeps, Overslept
<1> QED
  BY <1>1, <1>2, <1>3, <1>4, <1>5, <1>6, <1>7, <1>8 DEF ProcessorNext, RunStep, StopStep

(* All other steps that leave the processors alone.                         *)
LEMMA MutexUnchanged ==
  ASSUME MutexInv, UNCHANGED <<alerted, mutex, pc, stopPc>>
  PROVE  MutexInv'
BY DEF MutexInv, MutexOK, Blocking

-----------------------------------------------------------------------------
(* Before the first Stop.                                                   *)

LEMMA InitConsumedInv == InitProcessors => ConsumedInv
BY DEF InitProcessors, ConsumedInv, ConsumedOK, kInitialCursorValue, kFirstSequenceValue

(* A step that no processor takes, and that wakes some of them at most.     *)
LEMMA ConsumedUnchanged ==
  ASSUME ConsumedInv, UNCHANGED <<sequence, alerted, next, available, stopPc, stopCalled>>,
         \A c \in Consumers :
           pc'[c] = pc[c] \/ (pc[c] = "sleeping" /\ pc'[c] = "lock")
  PROVE  ConsumedInv'
BY DEF ConsumedInv, ConsumedOK

LEMMA ConsumedProcessorNext ==
  ASSUME ProcInv, ConsumedInv, ProcessorNext
  PROVE  ConsumedInv'
<1> USE DEF ProcInv
<1>0. SUFFICES ASSUME stopCalled' = {}
               PROVE  /\ stopPc' = "idle"
                      /\ \A b \in Barriers : ~alerted'[b]
                      /\ \A c \in Consumers : ConsumedOK(c)'
  BY DEF ConsumedInv
<1>1. ~StopStep /\ \A c \in Consumers : ~StopEnter(c)
  <2>1. \A c \in Consumers : ~StopEnter(c)
    BY <1>0 DEF StopEnter
  <2>2. StopStep => stopCalled = {} /\ stopPc # "idle"
    BY <1>0 DEF StopStep, StopAlert, StopSignal
  <2> QED
    BY <2>1, <2>2 DEF ConsumedInv
<1>2. stopCalled = {} /\ stopPc' = stopPc
  BY <1>0, <1>1 DEF ProcessorNext, RunEnter, RunStep, RunStart, OnEvent, Record, CheckRunning,
                    stopVars, procVars
<1>3. /\ stopPc = "idle"
      /\ \A b \in Barriers : ~alerted[b]
      /\ \A c \in Consumers : ConsumedOK(c)
  BY <1>2 DEF ConsumedInv
<1>4. ASSUME NEW b \in Barriers
      PROVE  ~alerted'[b]
  <2>1. ASSUME NEW c \in Consumers, RunStart(c)
        PROVE  ~alerted'[b]
    BY <1>3, <2>1 DEF RunStart, TypeOKProcessors
  <2>2. ASSUME NEW c \in Consumers,
               RunEnter(c) \/ WaitForStep(c) \/ SpuriousWake(c) \/ OnEvent(c) \/ Record(c)
                 \/ CheckRunning(c)
        PROVE  alerted' = alerted
    BY <2>2 DEF RunEnter, WaitForStep, ReadCursor, ReadDependent, CheckAlert, Lock,
                LockedCursor, LockedAlert, SpuriousWake, OnEvent, Record, CheckRunning
  <2> QED
    BY <1>1, <1>3, <2>1, <2>2 DEF ProcessorNext, RunStep
<1>5. ASSUME NEW c \in Consumers
      PROVE  ConsumedOK(c)'
  <2>1. /\ next[c] \in Int /\ available[c] \in Int /\ sequence[c] \in Int
        /\ pc[c] = "handle" => sequence[c] < next[c] /\ next[c] <= available[c] + 1
        /\ pc[c] # "handle" => sequence[c] = next[c] - 1
        /\ ~alerted[BarrierOf[c]]
    BY <1>3, TopologyAssumption DEF TypeOKProcessors, ConsumedOK
  <2>2. CASE pc[c] = "handle" /\ Record(c)
    <3>1. /\ pc'[c] = "recorded" /\ next'[c] = next[c]
          /\ sequence'[c] = available[c] /\ next[c] > available[c]
      BY <2>2 DEF Record, Goto, TypeOKProcessors
    <3> QED
      BY <2>1, <2>2, <3>1 DEF ConsumedOK
  <2>3. CASE pc[c] = "handle" /\ OnEvent(c)
    <3>1. /\ pc'[c] = "handle" /\ next'[c] = next[c] + 1 /\ next[c] <= available[c]
          /\ sequence'[c] = sequence[c] /\ available'[c] = available[c]
      BY <2>3 DEF OnEvent, TypeOKProcessors
    <3> QED
      BY <2>1, <2>3, <3>1 DEF ConsumedOK
  <2>4. CASE /\ pc[c] \in {"probe", "handle"}
             /\ pc'[c] = pc[c] /\ next'[c] = next[c]
             /\ available'[c] = available[c] /\ sequence'[c] = sequence[c]
    BY <2>1, <2>4 DEF ConsumedOK
  <2>5. CASE /\ pc[c] \notin {"probe", "handle"}
             /\ next'[c] = next[c] /\ sequence'[c] = sequence[c]
             /\ pc'[c] \in {"probe", "handle"} =>
                  \/ next[c] <= available'[c]
                  \/ available'[c] = kAlertedSignal /\ alerted[BarrierOf[c]]
    <3>1. available'[c] \in Int
      BY <1>5, ProcessorTyped DEF TypeOKProcessors
    <3>2. CASE pc'[c] = "handle"
      BY <2>1, <2>5, <3>1, <3>2 DEF ConsumedOK
    <3>3. CASE pc'[c] # "handle"
      BY <2>1, <2>5, <3>3 DEF ConsumedOK
    <3> QED
      BY <3>2, <3>3
  <2> QED
    BY <2>2, <2>3, <2>4, <2>5, ProcessorEffect
<1> QED
  BY <1>2, <1>3, <1>4, <1>5

(* While no processor handles, each Sequence is all that is handled; then   *)
(* of those that lag behind the cursor, one has only dependents that do     *)
(* not.                                                                     *)
LEMMA SomeReady ==
  ASSUME ProcInv, ConsumedInv, stopCalled = {}, \A c \in Consumers : pc[c] # "handle",
         NEW e \in Consumers, next[e] <= cursor
  PROVE  \E c \in Consumers : next[c] <= cursor /\ Ready(c)
<1> DEFINE S == {c \in Consumers : next[c] <= cursor}
<1>1. S \in SUBSET Consumers /\ e \in S
  OBVIOUS
<1>2. \A c : c \in S <=> c \in Consumers /\ next[c] <= cursor
  OBVIOUS
<1> HIDE DEF S
<1>3. PICK c \in S : Dependents[c] \cap S = {}
  BY <1>1, DependencyAssumption
<1>4. c \in Consumers /\ next[c] <= cursor
  BY <1>2, <1>3
<1>5. ASSUME NEW d \in Dependents[c]
      PROVE  next[c] <= sequence[d]
  <2>1. d \in Consumers /\ d \notin S
    BY <1>3, <1>4, TopologyAssumption
  <2>2. /\ ~(next[d] <= cursor) /\ sequence[d] = next[d] - 1
        /\ next[d] \in Int /\ next[c] \in Int /\ cursor \in Int
    BY <1>2, <1>4, <2>1 DEF ProcInv, TypeOKProcessors, ConsumedInv, ConsumedOK
  <2> QED
    BY <1>4, <2>2
<1> QED
  BY <1>4, <1>5 DEF Ready

(* When none lags behind, the ring has room for as many again.              *)
LEMMA RoomWhenHandled ==
  ASSUME ProcInv, ConsumedInv, stopCalled = {}, \A c \in Consumers : pc[c] # "handle",
         \A c \in Consumers : next[c] > cursor,
         NEW last \in Int, last - cursor <= BufferSize
  PROVE  RoomFor(last)
<1>1. ASSUME NEW g \in Gating
      PROVE  WrapPoint(last) <= sequence[g]
  <2>1. g \in Consumers
    BY GatingAssumption
  <2>2. /\ next[g] > cursor /\ sequence[g] = next[g] - 1
        /\ next[g] \in Int /\ cursor \in Int
    BY <2>1 DEF ProcInv, TypeOKProcessors, ConsumedInv, ConsumedOK
  <2> QED
    BY <2>2, BufferSizeAssumption DEF WrapPoint
<1> QED
  BY <1>1 DEF RoomFor
=============================================================================
