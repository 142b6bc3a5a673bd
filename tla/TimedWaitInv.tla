---------------------------- MODULE TimedWaitInv ----------------------------
(***************************************************************************)
(* The inductive invariant behind the safety of the timed wait.             *)
(***************************************************************************)
EXTENDS TimedWait

(* One producer publishes in order; a processor passes only what is         *)
(* published, and its Sequence, kAlertedSignal included, is not ahead of it. *)
ProgressInv ==
  /\ ~Several => published = 0 .. cursor
  /\ \A d \in Processors :
       sequence[d] <= handled[d] /\ 0 .. handled[d] \subseteq published

(* The deadline waited for is not before that of the call, unless the clock *)
(* was set forward.                                                         *)
DeadlineInv ==
  /\ pc # "idle" => forward \/ Timeout <= left + elapsed
  /\ NeverEarly

(* The minimum found so far is not ahead of what any dependent loaded has   *)
(* handled, even if its Sequence has been set back since.                   *)
(* BlockingStrategy looks at the alert between two such scans only.         *)
ScanInv ==
  /\ pc = "readDependents" =>
       /\ unread # {} /\ unread \subseteq dependents
       /\ kAlertedSignal <= available
       /\ \A d \in dependents \ unread : available <= handled[d]
  /\ pc = "checkAlert" /\ Blocking => dependents # {}

(* The range whose flags are probed is claimed, and handled by every        *)
(* dependent; the flags before the next one were set.                       *)
ProbeInv ==
  /\ pc = "probe" =>
       /\ Several
       /\ probing <= available /\ available <= cursor
       /\ \A d \in dependents : available <= handled[d]
       /\ requested .. probing - 1 \subseteq published
  /\ pc \notin {"probe", "idle"} => probing = requested

(* Between its test of the cursor and its sleep the thread has the lock, so *)
(* that whoever moves the cursor meanwhile is still to signal.              *)
SignalInv ==
  /\ pc = "lockedAlert" /\ cursor >= requested
       => owed \/ ~(0 .. cursor \subseteq published)
  /\ NoMissedSignal

(* Together: what holds between any two steps of the waiting thread and of  *)
(* the others, and is preserved by each (wait_strategy.h:182, :384,         *)
(* sequence_barrier.h:74).                                                  *)
TimedInv ==
  /\ TypeOK
  /\ ProgressInv
  /\ DeadlineInv
  /\ ScanInv
  /\ ProbeInv
  /\ AnswerReady
  /\ SignalInv
=============================================================================
