------------------------------ MODULE Sequencer ------------------------------
(***************************************************************************)
(* What a Sequencer has around its claim strategy, whichever it is: the     *)
(* ring, the Sequences that gate the producers, and the client that builds  *)
(* it, starts the processors and stops them.                                *)
(***************************************************************************)
EXTENDS EventProcessor

CONSTANTS Gating,      (* the Sequences the client gives SetGatingSequences *)
          GatingFirst, (* TRUE: it does so before the first claim           *)
          BatchSizes,  (* the batch sizes it publishes                      *)
          Overloads    (* the PublishEvents it calls; see WriteSlot         *)

(* Nothing keeps a client from asking for a batch larger than the ring.     *)
ASSUME SequencerAssumption ==
  /\ GatingFirst \in BOOLEAN
  /\ BatchSizes \subseteq Nat \ {0}
  /\ Overloads \subseteq {"translator", "move", "copy"}

(* "sequences are the last level consumers in the processing" (sequencer.h  *)
(* :57): walking dependencies back from them reaches every processor.       *)
ASSUME GatingAssumption ==
  /\ Gating \subseteq Consumers
  /\ \A S \in SUBSET Consumers :
       Gating \subseteq S /\ (\A c \in S : Dependents[c] \subseteq S)
         => S = Consumers

VARIABLES slots,   (* the ring: the sequence each slot's event is for       *)
          gating   (* _gating_sequences                                     *)

(* No event has been written to a slot yet.                                 *)
NoEvent == kInitialCursorValue

InitSequencer ==
  /\ InitProcessors
  /\ slots = [i \in 0 .. BufferSize - 1 |-> NoEvent]
  /\ gating = {}

(* The vector is replaced without synchronisation: the client may call this *)
(* only while no producer is inside the Sequencer.                          *)
SetGatingSequences ==
  /\ gating = {}
  /\ gating' = Gating

(* A client that minds GatingFirst claims only when the vector is set.      *)
MayClaim == GatingFirst => gating = Gating

(* The event of a sequence is written by the translator, or moved into the  *)
(* slot; for an event that cannot be moved, the bytes are copied over the   *)
(* local pointer to the slot, which is not written.  (Such an event is      *)
(* taken to be no larger than a pointer: a larger one would be copied over  *)
(* the rest of the stack as well.)                                          *)
WriteSlot(kind, s) ==
  slots' = IF kind = "copy" THEN slots
           ELSE [slots EXCEPT ![CalculateIndex(s)] = s]

-----------------------------------------------------------------------------
(* What the client's main thread waits for before it calls Stop: the        *)
(* Sequence of each last processor has reached GetCursor.                   *)
Drained == \A g \in Gating : sequence[g] >= cursor

(* When the last processors' Sequences have reached the cursor, every       *)
(* processor, not only those, has returned from OnEvent for everything      *)
(* published, and for everything claimed when there are several producers:  *)
(* a client that stops the processors then leaves no event unhandled        *)
(* (sequencer.h:63, benchmark/diamond_1P_3C.cc:68).                         *)
DrainedHandled == Drained => \A c \in Consumers : next[c] > cursor

(* A processor's Sequence is the last event it has handled whenever it      *)
(* waits, and lags behind it only inside the handling loop: "record the     *)
(* sequence positions they have already consumed" (sequencer.h:107).  A     *)
(* Stop breaks it: the alert is recorded instead.                           *)
RecordsConsumed ==
  stopCalled = {} =>
    \A c \in Consumers :
      IF pc[c] = "handle" THEN sequence[c] < next[c]
                          ELSE sequence[c] = next[c] - 1

(* What a processor waits for is there: the cursor and all its dependents   *)
(* have reached its sequence.                                               *)
Ready(c) ==
  /\ next[c] <= cursor
  /\ \A d \in Dependents[c] : next[c] <= sequence[d]

(* The gating Sequences leave room for claims up to a sequence.             *)
RoomFor(last) == \A g \in Gating : WrapPoint(last) <= sequence[g]

AllRunning == \A c \in Consumers : running[c]

(* A Stop that finds the processor running ends its Run, so that the client *)
(* can join the thread (event_test.cc:106), also when it waits on another   *)
(* processor that has been stopped before, or spins on a sequence claimed   *)
(* and not yet published (event_test.cc:411).                               *)
StopJoins ==
  \A c \in Consumers : stopPc = "alert" /\ stopTarget = c ~> pc[c] = "idle"

(* A Stop at any moment ends the Run it finds, also of a processor that     *)
(* shares its alert with others, stopped in whatever order, and without     *)
(* another event being published, unless a processor on the same barrier is *)
(* starting then or starts later: only a start loses a Stop                 *)
(* (event_processor.h:56, :85, sequence_barrier.h:85).                      *)
StopEnds ==
  \A c \in Consumers :
    stopPc = "alert" /\ stopTarget = c ~> pc[c] = "idle" \/ Starting(c)
=============================================================================
