--------------------------- MODULE EventProcessor ---------------------------
(***************************************************************************)
(* EventProcessor::Run on its own thread, and Stop called from the client's *)
(* controlling thread.                                                      *)
(*                                                                         *)
(* While pc[c] = "handle" and next[c] <= available[c], processor c is in    *)
(* OnEvent(next[c]) with a pointer into the ring.                           *)
(***************************************************************************)
EXTENDS WaitStrategy

CONSTANTS Stoppable,       (* processors the client stops, once each        *)
          StopAfterStart,  (* TRUE: it first waits for all of them to run   *)
          MaxRuns          (* bound: calls of Run on each processor         *)

ASSUME ClientAssumption ==
  /\ Stoppable \subseteq Consumers
  /\ StopAfterStart \in BOOLEAN
  /\ MaxRuns \in Nat

VARIABLES running,    (* each processor's _running                          *)
          runs,       (* how often Run was called on it                     *)
          stopPc,     (* where the controlling thread is in Stop            *)
          stopTarget, (* the processor it is stopping                       *)
          stopCalled  (* the processors whose Stop it has called            *)

stopVars == <<stopPc, stopTarget, stopCalled>>
procVars == <<running, runs, stopPc, stopTarget, stopCalled>>

ProcessorPcs == WaitPcs \cup {"idle", "clearAlert", "probe", "handle", "recorded"}

InitProcessors ==
  /\ cursor = kInitialCursorValue
  /\ sequence = [c \in Consumers |-> kInitialCursorValue]
  /\ alerted = [b \in Barriers |-> FALSE]
  /\ mutex = NoThread
  /\ pc = [c \in Consumers |-> "idle"]
  /\ next = [c \in Consumers |-> kFirstSequenceValue]
  /\ available = [c \in Consumers |-> kInitialCursorValue]
  /\ unread = [c \in Consumers |-> {}]
  /\ running = [c \in Consumers |-> FALSE]
  /\ runs = [c \in Consumers |-> 0]
  /\ stopPc = "idle"
  /\ stopTarget = NoThread
  /\ stopCalled = {}

-----------------------------------------------------------------------------
(* Run                                                                      *)

(* The test of _running and the store are one step: the processor's thread  *)
(* is the only one to set it, and Stop in between finds FALSE as it would   *)
(* before.                                                                  *)
RunEnter(c) ==
  /\ pc[c] = "idle"
  /\ runs[c] < MaxRuns
  /\ ~running[c]
  /\ running' = [running EXCEPT ![c] = TRUE]
  /\ runs' = [runs EXCEPT ![c] = @ + 1]
  /\ Goto(c, "clearAlert")
  /\ UNCHANGED <<cursor, sequence, alerted, mutex, next, available, unread, stopVars>>

(* SetAlerted(false), OnStart, and next_sequence from the thread's own      *)
(* Sequence; then the first WaitFor begins.                                 *)
RunStart(c) ==
  /\ pc[c] = "clearAlert"
  /\ alerted' = [alerted EXCEPT ![BarrierOf[c]] = FALSE]
  /\ next' = [next EXCEPT ![c] = sequence[c] + 1]
  /\ BeginWaitFor(c)
  /\ UNCHANGED <<cursor, sequence, mutex, procVars>>

(* OnEvent(next_sequence, event) returns.                                   *)
OnEvent(c) ==
  /\ pc[c] = "handle"
  /\ next[c] <= available[c]
  /\ next' = [next EXCEPT ![c] = @ + 1]
  /\ UNCHANGED <<cursor, sequence, alerted, mutex, pc, available, unread, procVars>>

(* _sequence.SetSequence(available_sequence), whatever that value is.       *)
RecordEarly(c) ==
  /\ pc[c] = "handle"
  /\ sequence' = [sequence EXCEPT ![c] = available[c]]
  /\ Goto(c, IF next[c] > available[c] THEN "recorded" ELSE "handle")
  /\ UNCHANGED <<cursor, alerted, mutex, next, available, unread, procVars>>

RecordSkipped(c) ==
  /\ pc[c] = "handle"
  /\ next[c] > available[c]
  /\ Goto(c, "recorded")
  /\ UNCHANGED <<cursor, sequence, alerted, mutex, next, available, unread, procVars>>

Record(c) ==
  /\ pc[c] = "handle"
  /\ next[c] > available[c]
  /\ sequence' = [sequence EXCEPT ![c] = available[c]]
  /\ Goto(c, "recorded")
  /\ UNCHANGED <<cursor, alerted, mutex, next, available, unread, procVars>>

(* The alert cleared when a thread leaves Run.                              *)
CheckRunningClears(c) ==
  /\ pc[c] = "recorded"
  /\ \/ /\ running[c]
        /\ BeginWaitFor(c)
        /\ UNCHANGED alerted
     \/ /\ ~running[c]
        /\ Goto(c, "idle")
        /\ alerted' = [alerted EXCEPT ![BarrierOf[c]] = FALSE]
        /\ UNCHANGED <<available, unread>>
  /\ UNCHANGED <<cursor, sequence, mutex, next, procVars>>

(* Still running: wait again.  Otherwise OnShutdown, and Run returns.       *)
CheckRunning(c) ==
  /\ pc[c] = "recorded"
  /\ \/ /\ running[c]
        /\ BeginWaitFor(c)
     \/ /\ ~running[c]
        /\ Goto(c, "idle")
        /\ UNCHANGED <<available, unread>>
  /\ UNCHANGED <<cursor, sequence, alerted, mutex, next, procVars>>

-----------------------------------------------------------------------------
(* Stop                                                                     *)

Started(c) == pc[c] \notin {"idle", "clearAlert"}

MayStop(c) ==
  /\ stopPc = "idle"
  /\ c \in Stoppable \ stopCalled
  /\ StopAfterStart => \A d \in Consumers : Started(d) \/ d \in stopCalled

(* _running is loaded; FALSE returns at once, TRUE is overwritten.  One     *)
(* step: between the two nothing else can set it to FALSE.                  *)
StopEnter(c) ==
  /\ MayStop(c)
  /\ stopCalled' = stopCalled \cup {c}
  /\ \/ /\ running[c]
        /\ running' = [running EXCEPT ![c] = FALSE]
        /\ stopPc' = "alert"
        /\ stopTarget' = c
     \/ /\ ~running[c]
        /\ UNCHANGED <<running, stopPc, stopTarget>>
  /\ UNCHANGED <<waitVars, runs>>

StopAlertMutated ==
  /\ stopPc = "alert"
  /\ stopPc' = "signal"
  /\ UNCHANGED <<waitVars, running, runs, stopTarget, stopCalled>>

StopAlert ==
  /\ stopPc = "alert"
  /\ alerted' = [alerted EXCEPT ![BarrierOf[stopTarget]] = TRUE]
  /\ stopPc' = "signal"
  /\ UNCHANGED <<cursor, sequence, mutex, pc, next, available, unread,
                 running, runs, stopTarget, stopCalled>>

StopSignal ==
  /\ stopPc = "signal"
  /\ SignalAllWhenBlocking
  /\ stopPc' = "idle"
  /\ stopTarget' = NoThread
  /\ UNCHANGED <<cursor, sequence, alerted, mutex, next, available, unread,
                 running, runs, stopCalled>>

-----------------------------------------------------------------------------
(* The steps of a processor's own thread, and of the controlling thread     *)
(* once it is inside Stop.                                                  *)
RunStep(c) ==
  \/ RunStart(c)
  \/ WaitForStep(c) /\ UNCHANGED procVars
  \/ OnEvent(c)
  \/ Record(c)
  \/ CheckRunning(c)

StopStep == StopAlert \/ StopSignal

ProcessorNext ==
  \/ \E c \in Consumers : \/ RunEnter(c)
                          \/ RunStep(c)
                          \/ SpuriousWake(c) /\ UNCHANGED procVars
                          \/ StopEnter(c)
  \/ StopStep

-----------------------------------------------------------------------------
TypeOKProcessors ==
  /\ cursor \in Int
  /\ sequence \in [Consumers -> Int]
  /\ alerted \in [Barriers -> BOOLEAN]
  /\ mutex \in Consumers \cup {NoThread}
  /\ pc \in [Consumers -> ProcessorPcs]
  /\ next \in [Consumers -> Int]
  /\ available \in [Consumers -> Int]
  /\ unread \in [Consumers -> SUBSET Consumers]
  /\ running \in [Consumers -> BOOLEAN]
  /\ runs \in [Consumers -> Nat]
  /\ stopPc \in {"idle", "alert", "signal"}
  /\ stopTarget \in Consumers \cup {NoThread}
  /\ stopCalled \in SUBSET Stoppable

(* Some processor on the barrier of c is about to clear its alert.          *)
Starting(c) ==
  \E d \in Consumers : BarrierOf[d] = BarrierOf[c] /\ pc[d] = "clearAlert"
=============================================================================
