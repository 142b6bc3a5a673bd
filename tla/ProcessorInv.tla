---------------------------- MODULE ProcessorInv ----------------------------
(***************************************************************************)
(* The invariants of the event processors, whichever claim strategy is in   *)
(* front of them.  They hold as long as no processor is run a second time:  *)
(* an alert leaves kAlertedSignal in the Sequence a second Run starts from. *)
(***************************************************************************)
EXTENDS Sequencer

(* A Sequence never runs ahead of its processor, nor a processor ahead of   *)
(* the cursor or of a processor it depends on.                              *)
ProgressInv ==
  \A c \in Consumers :
    /\ kAlertedSignal <= sequence[c]
    /\ sequence[c] < next[c]
    /\ 0 <= next[c]
    /\ next[c] <= cursor + 1
    /\ \A d \in Dependents[c] : next[c] <= next[d]

(* A processor that is still to start has never moved.                      *)
StartInv ==
  \A c \in Consumers :
    /\ runs[c] = 0 => pc[c] = "idle"
    /\ runs[c] = 0 \/ pc[c] = "clearAlert"
         => sequence[c] = kInitialCursorValue /\ next[c] = kFirstSequenceValue

(* The minimum found so far is below the progress of every dependent whose  *)
(* Sequence has been loaded.                                                *)
ScanOK(c) ==
  pc[c] = "readDependents" =>
    /\ kAlertedSignal <= available[c]
    /\ \A d \in Dependents[c] \ unread[c] : available[c] < next[d]

ScanInv == \A c \in Consumers : ScanOK(c)

(* What WaitFor returns, or probes before it does, is not ahead of the      *)
(* cursor nor of a dependent; and it has something to probe.                *)
WaitedOK(c) ==
  /\ pc[c] \in {"probe", "handle"} =>
       /\ kAlertedSignal <= available[c]
       /\ available[c] <= cursor
       /\ \A d \in Dependents[c] : available[c] < next[d]
  /\ pc[c] = "probe" => next[c] <= available[c]

WaitedInv == \A c \in Consumers : WaitedOK(c)

ProcInv ==
  /\ TypeOKProcessors
  /\ ProgressInv
  /\ StartInv
  /\ ScanInv
  /\ WaitedInv

-----------------------------------------------------------------------------
(* BlockingStrategy.  These hold for every client.                          *)

Locked == {"lockedCursor", "lockedAlert"}

(* The mutex is held exactly between Lock and the next release, so that a   *)
(* notification finds nobody between the test and the sleep; and a sleeper  *)
(* on an alerted barrier is still to be notified by Stop.                   *)
MutexOK(c) ==
  /\ pc[c] \in Locked <=> mutex = c
  /\ pc[c] \in Locked \cup {"lock", "sleeping"} => Blocking
  /\ pc[c] = "sleeping" /\ alerted[BarrierOf[c]] => stopPc = "signal"

MutexInv == \A c \in Consumers : MutexOK(c)

(* It sleeps, or is about to, although its sequence is there.               *)
Overslept(c) == pc[c] \in {"lockedAlert", "sleeping"} /\ next[c] <= cursor

-----------------------------------------------------------------------------
(* Before the first Stop no barrier is alerted; so every wait ends with     *)
(* something to handle, and what is recorded has been handled.              *)
ConsumedOK(c) ==
  IF pc[c] = "handle" THEN sequence[c] < next[c] /\ next[c] <= available[c] + 1
                      ELSE sequence[c] = next[c] - 1

ConsumedInv ==
  stopCalled = {} =>
    /\ stopPc = "idle"
    /\ \A b \in Barriers : ~alerted[b]
    /\ \A c \in Consumers : ConsumedOK(c)
=============================================================================
