------------------------ MODULE SingleProducerProofs ------------------------
(***************************************************************************)
(* The safety of SingleProducer for every ring size, topology, wait         *)
(* strategy and number of sequences, with processors stopped at any moment. *)
(***************************************************************************)
EXTENDS SingleProducerInv, ProcessorProofs

(* What the client has to keep to: after an alert a second Run starts from  *)
(* the signal in its Sequence, and the minimum over no gating Sequences     *)
(* stays in the cache.                                                      *)
Client == RunOnce /\ GatingFirst

-----------------------------------------------------------------------------
LEMMA InitIInv == Init => IInv
<1> SUFFICES ASSUME Init
             PROVE  IInv
  OBVIOUS
<1> USE DEF Init, InitSequencer, InitProcessors, kInitialCursorValue, kFirstSequenceValue,
            kAlertedSignal, NoEvent
<1>1. TypeOK
  BY BufferSizeAssumption, LongMaxAssumption, TopologyAssumption, SingleThreadAssumption,
     ClientAssumption
     DEF TypeOK, TypeOKProcessors, ProcessorPcs, WaitPcs
<1>2. ProcInv
  BY InitProcInv
<1>5. GatingInv /\ ClaimInv
  BY BufferSizeAssumption DEF GatingInv, ClaimInv
<1>6. SlotsInv
  BY DEF SlotsInv, Written
<1> QED
  BY <1>1, <1>2, <1>5, <1>6 DEF IInv

-----------------------------------------------------------------------------
(* The producer's steps.                                                    *)

LEMMA ClaimIInv ==
  ASSUME Client, IInv, NEW delta \in BatchSizes, NEW kind \in Overloads,
         Claim(delta, kind)
  PROVE  IInv'
<1> USE DEF IInv, Claim, kInitialCursorValue, kFirstSequenceValue, kAlertedSignal
<1>1. delta \in Nat \ {0}
  BY SequencerAssumption
<1>2. TypeOK'
  <2>1. /\ cursorCache' \in kInitialCursorValue .. MaxSequence
        /\ writing' \in kInitialCursorValue .. MaxSequence
    BY <1>1, SingleThreadAssumption, BufferSizeAssumption DEF TypeOK
  <2>2. minimum' = minimum \/ minimum' = LongMax
    BY DEF ScanGating
  <2>3. ungated' \in SUBSET Gating
    BY DEF TypeOK, ScanGating
  <2>4. producerPc' = "claim" \/ producerPc' = "translate"
    OBVIOUS
  <2>5. TypeOKProcessors'
    BY DEF TypeOK, TypeOKProcessors, waitVars, procVars
  <2> QED
    BY <2>1, <2>2, <2>3, <2>4, <2>5 DEF TypeOK
<1>3. ProcInv'
  BY UnchangedProcInv
<1>4. GatingInv'
  BY DEF GatingInv, ScanGating, waitVars, procVars, Client, MayClaim
<1>5. ClaimInv'
  <2>1. /\ cursor \in Int /\ cursorCache \in Int /\ gatingCache \in Int
        /\ kInitialCursorValue <= cursor /\ cursor = cursorCache
    BY DEF ClaimInv, TypeOK, TypeOKProcessors
  <2>2. /\ cursor' = cursor /\ gatingCache' = gatingCache
        /\ writing' = cursor + 1 /\ cursorCache' = cursor + delta
    BY <2>1 DEF waitVars
  <2>3. /\ producerPc' \in {"claim", "translate"}
        /\ producerPc' = "translate" => WrapPoint(cursorCache') <= gatingCache
    OBVIOUS
  <2>4. cursor < cursor + 1 /\ cursor + 1 <= cursor + delta
    BY <1>1, <2>1
  <2> QED
    BY <2>1, <2>2, <2>3, <2>4 DEF ClaimInv, WrapPoint
<1>6. SlotsInv'
  BY DEF SlotsInv, Written, ClaimInv, TypeOK, TypeOKProcessors, waitVars
<1> QED
  BY <1>2, <1>3, <1>4, <1>5, <1>6

LEMMA HasAvailableCapacityIInv ==
  ASSUME Client, IInv, HasAvailableCapacity
  PROVE  IInv'
<1> USE DEF IInv, HasAvailableCapacity
<1>1. TypeOK'
  BY DEF TypeOK, TypeOKProcessors, ScanGating, waitVars, procVars, Client, MayClaim
<1>2. ProcInv'
  BY UnchangedProcInv
<1>3. GatingInv'
  BY DEF GatingInv, ScanGating, waitVars, procVars, Client, MayClaim
<1>4. ClaimInv'
  BY DEF ClaimInv, waitVars, procVars
<1>5. SlotsInv'
  BY DEF SlotsInv, Written, waitVars
<1> QED
  BY <1>1, <1>2, <1>3, <1>4, <1>5

LEMMA SequenceBounds ==
  ASSUME IInv
  PROVE  /\ cursor \in kInitialCursorValue .. MaxSequence
         /\ \A c \in Consumers : sequence[c] \in kAlertedSignal .. MaxSequence
<1>1. cursor \in kInitialCursorValue .. MaxSequence
  BY SingleThreadAssumption DEF IInv, ClaimInv, TypeOK, TypeOKProcessors, kInitialCursorValue
<1>2. ASSUME NEW c \in Consumers
      PROVE  sequence[c] \in kAlertedSignal .. MaxSequence
  BY <1>1, SingleThreadAssumption
     DEF IInv, ProcInv, ProgressInv, TypeOK, TypeOKProcessors, kAlertedSignal, kInitialCursorValue
<1> QED
  BY <1>1, <1>2

LEMMA ReadGatingIInv ==
  ASSUME IInv, NEW g \in Gating, ReadGating(g)
  PROVE  IInv'
<1>1. /\ minimum' \in kAlertedSignal .. MaxSequence \cup {LongMax}
      /\ minimum' <= minimum
      /\ minimum' <= sequence[g]
  <2>1. sequence[g] \in kAlertedSignal .. MaxSequence
    BY SequenceBounds, GatingAssumption
  <2>2. minimum \in kAlertedSignal .. MaxSequence \cup {LongMax}
    BY DEF IInv, TypeOK
  <2> QED
    BY <2>1, <2>2, LongMaxAssumption, SingleThreadAssumption
       DEF ReadGating, Minimum, kAlertedSignal
<1> USE DEF IInv, ReadGating
<1>2. ASSUME producerPc \in {"claim", "capacity"}, NEW h \in Gating \ ungated'
      PROVE  minimum' < next[h]
  <2>1. h \in Consumers /\ g \in Consumers
    BY GatingAssumption
  <2>2. /\ next[h] \in Int
        /\ sequence[h] \in Int
        /\ sequence[h] < next[h]
        /\ minimum \in Int
        /\ minimum' \in Int
        /\ sequence[g] \in Int
    BY <1>1, <2>1, LongMaxAssumption, SingleThreadAssumption
       DEF TypeOK, TypeOKProcessors, ProcInv, ProgressInv, kAlertedSignal
  <2>3. CASE h = g
    BY <2>2, <2>3, <1>1
  <2>4. CASE h # g
    <3>1. minimum < next[h]
      BY <1>2, <2>4 DEF GatingInv
    <3> QED
      BY <3>1, <2>2, <1>1
  <2> QED
    BY <2>3, <2>4
<1>3. TypeOK'
  BY <1>1 DEF TypeOK, TypeOKProcessors, waitVars, procVars
<1>4. ProcInv'
  BY UnchangedProcInv
<1>5. GatingInv'
  BY <1>2 DEF GatingInv, waitVars
<1>6. ClaimInv'
  BY DEF ClaimInv, waitVars
<1>7. SlotsInv'
  BY DEF SlotsInv, Written, waitVars
<1> QED
  BY <1>3, <1>4, <1>5, <1>6, <1>7

(* The minimum of a finished scan is the Sequence of some processor.        *)
LEMMA ScannedMinimum ==
  ASSUME IInv, producerPc \in {"claim", "capacity"}, ungated = {}
  PROVE  /\ minimum \in kAlertedSignal .. MaxSequence
         /\ \A c \in Consumers : minimum < next[c]
<1>1. minimum \in Int
  BY LongMaxAssumption, SingleThreadAssumption DEF IInv, TypeOK, kAlertedSignal
<1>2. \A c \in Consumers : minimum < next[c]
  BY <1>1, GatingCoversAll DEF IInv, GatingInv
<1>3. PICK c \in Consumers : TRUE
  BY TopologyAssumption
<1>4. /\ next[c] \in Int
      /\ next[c] <= cursor + 1
      /\ cursor \in kInitialCursorValue .. MaxSequence
  BY SequenceBounds DEF IInv, ProcInv, ProgressInv, TypeOK, TypeOKProcessors
<1>5. minimum <= MaxSequence
  BY <1>1, <1>2, <1>4, SingleThreadAssumption DEF kInitialCursorValue
<1>6. minimum \in kAlertedSignal .. MaxSequence \cup {LongMax}
  BY DEF IInv, TypeOK
<1> QED
  BY <1>1, <1>2, <1>5, <1>6, LongMaxAssumption, SingleThreadAssumption
     DEF kAlertedSignal

LEMMA FinishClaimIInv ==
  ASSUME IInv, FinishClaim
  PROVE  IInv'
<1>1. /\ minimum \in kAlertedSignal .. MaxSequence
      /\ \A c \in Consumers : minimum < next[c]
  BY ScannedMinimum DEF FinishClaim
<1> USE DEF IInv, FinishClaim, ScanGating
<1>2. TypeOK'
  BY <1>1 DEF TypeOK, TypeOKProcessors, GatingInv, waitVars, procVars
<1>3. ProcInv'
  BY UnchangedProcInv
<1>4. GatingInv'
  BY <1>1 DEF GatingInv, waitVars
<1>5. ClaimInv'
  BY DEF ClaimInv, TypeOK, TypeOKProcessors, waitVars
<1>6. SlotsInv'
  BY DEF SlotsInv, Written, ClaimInv, TypeOK, TypeOKProcessors, waitVars
<1> QED
  BY <1>2, <1>3, <1>4, <1>5, <1>6

LEMMA FinishCapacityIInv ==
  ASSUME IInv, FinishCapacity
  PROVE  IInv'
<1>1. /\ minimum \in kAlertedSignal .. MaxSequence
      /\ \A c \in Consumers : minimum < next[c]
  BY ScannedMinimum DEF FinishCapacity
<1> USE DEF IInv, FinishCapacity
<1>2. TypeOK'
  BY <1>1 DEF TypeOK, TypeOKProcessors, waitVars, procVars
<1>3. ProcInv'
  BY UnchangedProcInv
<1>4. GatingInv'
  BY <1>1 DEF GatingInv, waitVars
<1>5. ClaimInv'
  BY DEF ClaimInv, waitVars
<1>6. SlotsInv'
  BY DEF SlotsInv, Written, waitVars
<1> QED
  BY <1>2, <1>3, <1>4, <1>5, <1>6

(* Setting the gating Sequences moves nothing.                              *)
LEMMA GatingStepIInv ==
  ASSUME IInv, GatingStep
  PROVE  IInv'
<1> USE DEF IInv, GatingStep, SetGatingSequences
<1>1. TypeOK'
  BY DEF TypeOK, TypeOKProcessors, waitVars, procVars
<1>2. ProcInv'
  BY UnchangedProcInv
<1>3. GatingInv' /\ ClaimInv' /\ SlotsInv'
  BY DEF GatingInv, ClaimInv, SlotsInv, Written, waitVars
<1> QED
  BY <1>1, <1>2, <1>3

LEMMA TranslateIInv ==
  ASSUME IInv, Translate
  PROVE  IInv'
<1> USE DEF IInv, Translate
<1>0. /\ \/ slots' = slots
         \/ slots' = [slots EXCEPT ![CalculateIndex(writing)] = writing]
      /\ "copy" \notin Overloads =>
           slots' = [slots EXCEPT ![CalculateIndex(writing)] = writing]
  BY DEF TypeOK, WriteSlot
<1>1. /\ writing \in Int /\ cursorCache \in Int /\ gatingCache \in Int /\ cursor \in Int
      /\ writing \in kInitialCursorValue .. MaxSequence
      /\ cursorCache <= MaxSequence
      /\ CalculateIndex(writing) \in 0 .. BufferSize - 1
      /\ producerPc' = producerPc \/ producerPc' = "publish"
  <2>1. /\ writing \in Int /\ cursorCache \in Int /\ gatingCache \in Int /\ cursor \in Int
        /\ writing \in kInitialCursorValue .. MaxSequence
        /\ cursorCache <= MaxSequence
    BY SingleThreadAssumption DEF TypeOK, TypeOKProcessors, kInitialCursorValue, kAlertedSignal
  <2>2. CalculateIndex(writing) \in 0 .. BufferSize - 1
    BY <2>1, QuotientRemainder
  <2>3. producerPc' = producerPc \/ producerPc' = "publish"
    OBVIOUS
  <2> QED
    BY <2>1, <2>2, <2>3
<1>2. TypeOK'
  <2>1. slots' \in [0 .. BufferSize - 1 -> kInitialCursorValue .. MaxSequence]
    BY <1>0, <1>1 DEF TypeOK
  <2>2. writing' \in kInitialCursorValue .. MaxSequence
    BY <1>1, SingleThreadAssumption DEF TypeOK, kInitialCursorValue
  <2> QED
    BY <2>1, <2>2, <1>1 DEF TypeOK, TypeOKProcessors, waitVars, procVars
<1>3. ProcInv'
  BY UnchangedProcInv
<1>4. GatingInv'
  BY DEF GatingInv, waitVars
<1>5. ClaimInv'
  BY <1>1 DEF ClaimInv, TypeOK, waitVars
<1>6. SlotsInv'
  <2> SUFFICES ASSUME "copy" \notin Overloads,
                      NEW c \in Consumers, NEW s \in next[c] .. writing
               PROVE  slots'[CalculateIndex(s)] = s
    <3>1. Written' = writing /\ next' = next
      BY <1>1 DEF Written, ClaimInv, TypeOK, waitVars
    <3> QED
      BY <3>1 DEF SlotsInv
  <2>1. next[c] \in Int /\ s \in Int
    BY DEF TypeOK, TypeOKProcessors
  <2>2. CalculateIndex(s) \in 0 .. BufferSize - 1
    BY <2>1, QuotientRemainder
  <2>3. CASE s = writing
    BY <2>3, <1>0, <1>1 DEF TypeOK
  <2>4. CASE s < writing
    <3>1. slots[CalculateIndex(s)] = s
      BY <2>1, <2>4, <1>1 DEF SlotsInv, Written
    <3>2. writing - s < BufferSize
      BY <2>1, <1>1, BufferSizeAssumption DEF ClaimInv, GatingInv, WrapPoint
    <3>3. CalculateIndex(s) # CalculateIndex(writing)
      BY <2>1, <2>4, <1>1, <3>2, IndexDistinct
    <3> QED
      BY <3>1, <3>3, <2>2, <1>0, <1>1 DEF TypeOK
  <2> QED
    BY <2>1, <2>3, <2>4, <1>1
<1> QED
  BY <1>2, <1>3, <1>4, <1>5, <1>6

LEMMA PublishIInv ==
  ASSUME IInv, Publish
  PROVE  IInv'
<1> USE DEF IInv, Publish
<1>1. cursor' \in Int /\ cursor \in Int /\ cursor <= cursor'
  BY SingleThreadAssumption DEF TypeOK, TypeOKProcessors, ClaimInv, kInitialCursorValue
<1>2. TypeOK'
  BY <1>1 DEF TypeOK, TypeOKProcessors, procVars
<1>3. ProcInv'
  BY <1>1, CursorProcInv
<1>6. GatingInv'
  BY DEF GatingInv
<1>7. ClaimInv'
  BY <1>1, SingleThreadAssumption DEF ClaimInv, TypeOK, kInitialCursorValue
<1>8. SlotsInv'
  BY DEF SlotsInv, Written
<1> QED
  BY <1>2, <1>3, <1>6, <1>7, <1>8

LEMMA SignalIInv ==
  ASSUME IInv, Signal
  PROVE  IInv'
<1> USE DEF IInv, Signal
<1>1. producerPc' = "translate" \/ producerPc' = "idle"
  OBVIOUS
<1>2. TypeOK'
  <2>1. pc' \in [Consumers -> ProcessorPcs]
    BY NotifyMoves DEF TypeOK
  <2>2. writing' \in kInitialCursorValue .. MaxSequence
    BY SingleThreadAssumption DEF TypeOK, kInitialCursorValue
  <2> QED
    BY <2>1, <2>2, <1>1 DEF TypeOK, TypeOKProcessors, procVars
<1>3. ProcInv'
  <2>1. /\ stopPc' \in {"idle", "alert", "signal"}
        /\ stopTarget' \in Consumers \cup {NoThread}
        /\ stopCalled' \in SUBSET Stoppable
    BY DEF TypeOK, TypeOKProcessors, procVars
  <2> QED
    BY <2>1, NotifyProcInv DEF procVars
<1>4. GatingInv'
  BY <1>1 DEF GatingInv
<1>5. ClaimInv'
  <2>1. writing = cursor /\ writing \in Int /\ cursorCache \in Int
    BY SingleThreadAssumption DEF ClaimInv, TypeOK, kInitialCursorValue
  <2>2. CASE writing < cursorCache
    BY <2>1, <2>2 DEF ClaimInv, TypeOK
  <2>3. CASE ~(writing < cursorCache)
    BY <2>1, <2>3 DEF ClaimInv, TypeOK
  <2> QED
    BY <2>2, <2>3
<1>6. SlotsInv'
  <2>1. writing = cursor /\ writing \in Int
    BY SingleThreadAssumption DEF ClaimInv, TypeOK, kInitialCursorValue
  <2> QED
    BY <2>1 DEF SlotsInv, Written
<1> QED
  BY <1>2, <1>3, <1>4, <1>5, <1>6

-----------------------------------------------------------------------------
(* The processors' steps.                                                   *)

(* The parts about the producer alone, and the slots: every other step      *)
(* leaves them as they are, or moves a processor forward.                   *)
LEMMA ProducerKept ==
  ASSUME IInv, TypeOK', UNCHANGED <<cursor, prodVars>>,
         \A c \in Consumers : next[c] <= next'[c]
  PROVE  GatingInv' /\ ClaimInv' /\ SlotsInv'
<1>1. \A c \in Consumers : next[c] \in Int /\ next'[c] \in Int
  BY DEF IInv, TypeOK, TypeOKProcessors
<1>2. /\ gatingCache \in Int
      /\ minimum \in Int
      /\ cursor \in Int
      /\ writing \in Int
  BY SingleThreadAssumption, LongMaxAssumption
     DEF IInv, TypeOK, TypeOKProcessors, kAlertedSignal, kInitialCursorValue
<1>3. GatingInv'
  <2>1. ASSUME NEW c \in Consumers
        PROVE  gatingCache < next'[c]
    BY <1>1, <1>2 DEF IInv, GatingInv
  <2>2. ASSUME producerPc \in {"claim", "capacity"}, NEW g \in Gating \ ungated
        PROVE  minimum < next'[g]
    <3>1. minimum < next[g] /\ g \in Consumers
      BY <2>2, GatingAssumption DEF IInv, GatingInv
    <3> QED
      BY <3>1, <1>1, <1>2
  <2> QED
    BY <2>1, <2>2 DEF IInv, GatingInv, prodVars
<1>4. ClaimInv'
  BY DEF IInv, ClaimInv, prodVars
<1>5. SlotsInv'
  <2> SUFFICES ASSUME "copy" \notin Overloads,
                      NEW c \in Consumers, NEW s \in next'[c] .. Written
               PROVE  slots[CalculateIndex(s)] = s
    BY DEF SlotsInv, Written, prodVars
  <2>1. Written \in Int
    BY <1>2 DEF Written
  <2>2. s \in next[c] .. Written
    BY <1>1, <2>1
  <2> QED
    BY <2>2 DEF IInv, SlotsInv
<1> QED
  BY <1>3, <1>4, <1>5

LEMMA StutterIInv ==
  ASSUME IInv, UNCHANGED vars
  PROVE  IInv'
<1>1. UNCHANGED <<waitVars, procVars, prodVars>>
  BY DEF vars
<1>2. ProcInv'
  BY <1>1, UnchangedProcInv DEF IInv
<1> QED
  BY <1>1, <1>2
     DEF IInv, TypeOK, TypeOKProcessors, GatingInv, ClaimInv, SlotsInv, Written, waitVars,
         procVars, prodVars

LEMMA ProcessorNextIInv ==
  ASSUME Client, IInv, ProcessorNext, UNCHANGED prodVars
  PROVE  IInv'
<1>1. ProcInv'
  BY ProcessorNextProcInv DEF Client, IInv
<1>2. cursor' = cursor /\ \A c \in Consumers : next[c] <= next'[c]
  BY ProcessorMoves DEF IInv
<1>3. TypeOK'
  BY <1>1 DEF IInv, TypeOK, ProcInv, prodVars
<1> QED
  BY <1>1, <1>2, <1>3, ProducerKept DEF IInv

LEMMA NextIInv ==
  ASSUME Client, IInv, [Next]_vars
  PROVE  IInv'
<1>1. ASSUME NEW delta \in BatchSizes, NEW kind \in Overloads,
             Claim(delta, kind)
      PROVE  IInv'
  BY <1>1, ClaimIInv
<1>2. CASE HasAvailableCapacity
  BY <1>2, HasAvailableCapacityIInv
<1>3. CASE ProducerStep
  BY <1>3, ReadGatingIInv, FinishClaimIInv, FinishCapacityIInv, TranslateIInv,
     PublishIInv, SignalIInv DEF ProducerStep
<1>4. CASE ProcessorNext /\ UNCHANGED prodVars
  BY <1>4, ProcessorNextIInv
<1>5. CASE UNCHANGED vars
  BY <1>5, StutterIInv
<1>6. CASE GatingStep
  BY <1>6, GatingStepIInv
<1> QED
  BY <1>1, <1>2, <1>3, <1>4, <1>5, <1>6 DEF Next

(* The invariant holds throughout, for such a client.                       *)
THEOREM InductiveInvariant ==
  ASSUME Client
  PROVE  Spec => []IInv
<1>1. Init => IInv
  BY InitIInv
<1>2. IInv /\ [Next]_vars => IInv'
  BY NextIInv
<1> QED
  BY <1>1, <1>2, PTL DEF Spec

(* No value leaves its range; in particular the LONG_MAX of an unfinished   *)
(* scan never reaches a cache or a Sequence.                                *)
THEOREM TypeCorrect ==
  ASSUME Client
  PROVE  Spec => []TypeOK
<1>1. IInv => TypeOK
  BY DEF IInv
<1> QED
  BY <1>1, InductiveInvariant, PTL

(* No slot is overwritten while a processor has still to handle its event,  *)
(* for every ring size, topology, batch and moment of Stop.  An event that  *)
(* cannot be moved is never in its slot.                                    *)
THEOREM NeverOverwritten ==
  ASSUME Client, "copy" \notin Overloads
  PROVE  Spec => []UnhandledIntact
<1>1. IInv => UnhandledIntact
  <2> SUFFICES ASSUME IInv, NEW c \in Consumers, NEW s \in next[c] .. cursor
               PROVE  slots[CalculateIndex(s)] = s
    BY DEF UnhandledIntact
  <2>1. /\ next[c] \in Int /\ cursor \in Int /\ writing \in Int
        /\ cursor <= Written /\ Written \in Int
    BY SingleThreadAssumption
       DEF IInv, TypeOK, TypeOKProcessors, ClaimInv, Written, kInitialCursorValue
  <2>2. s \in next[c] .. Written
    BY <2>1
  <2> QED
    BY <2>2 DEF IInv, SlotsInv
<1> QED
  BY <1>1, InductiveInvariant, PTL

(* Once the last processors' Sequences are at the cursor, every processor   *)
(* has handled all that is published: a client may stop them then.          *)
THEOREM DrainedTheorem ==
  ASSUME Client
  PROVE  Spec => []DrainedHandled
<1>1. IInv => DrainedHandled
  <2> SUFFICES ASSUME IInv, Drained
               PROVE  \A c \in Consumers : cursor < next[c]
    BY DEF DrainedHandled, IInv, TypeOK, TypeOKProcessors
  <2>1. cursor \in Int
    BY DEF IInv, TypeOK, TypeOKProcessors
  <2>2. \A g \in Gating : cursor < next[g]
    BY GatingAssumption DEF IInv, ProcInv, ProgressInv, TypeOK, TypeOKProcessors, Drained
  <2> QED
    BY <2>1, <2>2, GatingCoversAll DEF IInv
<1> QED
  BY <1>1, InductiveInvariant, PTL

-----------------------------------------------------------------------------
(* HasAvailableCapacity.                                                    *)

(* The answer is the state of the cache, which no claim changes before it   *)
(* forgets the answer.                                                      *)
CapacityInv ==
  /\ capacity = "yes" => WrapPoint(cursorCache + 1) <= gatingCache
  /\ producerPc = "claim" => capacity # "yes"

LEMMA CapacityInvNext ==
  ASSUME IInv, CapacityInv, [Next]_vars
  PROVE  CapacityInv'
<1> USE DEF CapacityInv
<1>1. ASSUME NEW delta \in BatchSizes, NEW kind \in Overloads,
             Claim(delta, kind)
      PROVE  CapacityInv'
  BY <1>1 DEF Claim
<1>2. CASE HasAvailableCapacity
  BY <1>2 DEF HasAvailableCapacity, IInv, TypeOK, kAlertedSignal
<1>3. ASSUME NEW g \in Gating, ReadGating(g)
      PROVE  CapacityInv'
  BY <1>3 DEF ReadGating
<1>4. CASE FinishClaim
  BY <1>4 DEF FinishClaim
<1>5. CASE FinishCapacity
  <2>1. minimum \in Int /\ WrapPoint(cursorCache + 1) \in Int
    BY BufferSizeAssumption, LongMaxAssumption, SingleThreadAssumption
       DEF IInv, TypeOK, WrapPoint, kInitialCursorValue, kAlertedSignal
  <2> QED
    BY <1>5, <2>1 DEF FinishCapacity
<1>6. CASE GatingStep \/ Translate \/ Publish \/ Signal
  BY <1>6 DEF GatingStep, Translate, Publish, Signal
<1>7. CASE UNCHANGED prodVars
  BY <1>7 DEF prodVars
<1> QED
  BY <1>1, <1>2, <1>3, <1>4, <1>5, <1>6, <1>7 DEF Next, ProducerStep, vars

(* A yes stays true of every processor until the producer claims.           *)
THEOREM CapacityTheorem ==
  ASSUME Client
  PROVE  Spec => []CapacityHonest
<1>1. Init => CapacityInv
  BY DEF Init, CapacityInv
<1>2. IInv /\ CapacityInv /\ [Next]_vars => CapacityInv'
  BY CapacityInvNext
<1>3. IInv /\ CapacityInv => CapacityHonest
  <2> SUFFICES ASSUME IInv, CapacityInv, capacity = "yes", NEW c \in Consumers
               PROVE  WrapPoint(cursorCache + 1) <= gatingCache
                      /\ WrapPoint(cursorCache + 1) < next[c]
    BY TopologyAssumption DEF CapacityHonest
  <2>1. /\ WrapPoint(cursorCache + 1) \in Int
        /\ gatingCache \in Int /\ next[c] \in Int /\ gatingCache < next[c]
    BY BufferSizeAssumption, SingleThreadAssumption
       DEF IInv, TypeOK, TypeOKProcessors, GatingInv, WrapPoint, kInitialCursorValue,
           kAlertedSignal
  <2> QED
    BY <2>1 DEF CapacityInv
<1> QED
  BY <1>1, <1>2, <1>3, InductiveInvariant, PTL DEF Spec

-----------------------------------------------------------------------------
(* BlockingStrategy.                                                        *)

(* These theorems ask nothing of the client, and so little of the types.    *)
Typed ==
  /\ TypeOKProcessors
  /\ writing \in Int
  /\ cursorCache \in Int

LEMMA TypedNext ==
  ASSUME Typed, [Next]_vars
  PROVE  Typed'
<1> USE DEF Typed
<1>1. ASSUME UNCHANGED <<waitVars, procVars>>
      PROVE  TypeOKProcessors'
  BY <1>1 DEF TypeOKProcessors, waitVars, procVars
<1>2. ASSUME NEW delta \in BatchSizes, NEW kind \in Overloads, Claim(delta, kind)
      PROVE  Typed'
  <2>1. delta \in Int
    BY SequencerAssumption
  <2> QED
    BY <1>1, <1>2, <2>1 DEF Claim
<1>3. ASSUME NEW g \in Gating, ReadGating(g)
      PROVE  Typed'
  BY <1>1, <1>3 DEF ReadGating
<1>4. CASE HasAvailableCapacity \/ FinishClaim \/ FinishCapacity \/ Translate \/ GatingStep
  BY <1>1, <1>4 DEF HasAvailableCapacity, FinishClaim, FinishCapacity, Translate, GatingStep
<1>5. CASE Publish
  BY <1>5 DEF Publish, TypeOKProcessors, procVars
<1>6. CASE Signal
  <2>1. pc' \in [Consumers -> ProcessorPcs]
    BY <1>6, NotifyMoves DEF Signal
  <2> QED
    BY <1>6, <2>1 DEF Signal, TypeOKProcessors, procVars
<1>7. CASE ProcessorNext /\ UNCHANGED prodVars
  BY <1>7, ProcessorTyped DEF prodVars
<1>8. CASE UNCHANGED vars
  BY <1>1, <1>8 DEF vars, prodVars
<1> QED
  BY <1>2, <1>3, <1>4, <1>5, <1>6, <1>7, <1>8 DEF Next, ProducerStep

(* A sleeper over a published sequence is still to be notified.             *)
WakeInv ==
  /\ MutexInv
  /\ \A c \in Consumers : Overslept(c) => producerPc = "signal"

LEMMA WakeInvNext ==
  ASSUME Typed, WakeInv, [Next]_vars
  PROVE  WakeInv'
<1> USE DEF WakeInv
<1>1. ASSUME UNCHANGED <<cursor, alerted, mutex, pc, next, stopPc>>,
             producerPc # "signal" \/ UNCHANGED producerPc
      PROVE  WakeInv'
  BY <1>1, MutexUnchanged DEF Overslept
<1>2. ASSUME NEW delta \in BatchSizes, NEW kind \in Overloads,
             Claim(delta, kind)
      PROVE  WakeInv'
  BY <1>1, <1>2 DEF Claim, waitVars, procVars
<1>3. CASE HasAvailableCapacity \/ FinishClaim \/ FinishCapacity \/ Translate \/ GatingStep
  BY <1>1, <1>3 DEF HasAvailableCapacity, FinishClaim, FinishCapacity, Translate, GatingStep,
                    waitVars, procVars
<1>4. ASSUME NEW g \in Gating, ReadGating(g)
      PROVE  WakeInv'
  BY <1>1, <1>4 DEF ReadGating, waitVars, procVars
<1>5. CASE Publish
  BY <1>5, MutexUnchanged DEF Publish, procVars
<1>6. CASE Signal
  <2>1. MutexInv' /\ \A c \in Consumers : pc'[c] \notin {"lockedAlert", "sleeping"}
    BY <1>6, MutexSignal DEF Signal, Typed
  <2> QED
    BY <2>1 DEF Overslept
<1>7. CASE ProcessorNext /\ UNCHANGED prodVars
  BY <1>7, MutexProcessorNext DEF NobodyOversleeps, prodVars, Typed
<1>8. CASE UNCHANGED vars
  BY <1>1, <1>8 DEF vars, waitVars, procVars, prodVars
<1> QED
  BY <1>2, <1>3, <1>4, <1>5, <1>6, <1>7, <1>8 DEF Next, ProducerStep

(* BlockingStrategy loses no wakeup, for any number of processors and any   *)
(* interleaving of publications, stops and spurious wakeups, however often  *)
(* the processors are run and whenever the gating Sequences are set.        *)
THEOREM NoWakeupLost == Spec => []NoLostWakeup
<1>1. Init => Typed
  BY InitProcInv DEF Init, InitSequencer, Typed, ProcInv, kInitialCursorValue
<1>2. Typed /\ [Next]_vars => Typed'
  BY TypedNext
<1>3. Init => WakeInv
  BY InitMutexInv DEF Init, InitSequencer, InitProcessors, WakeInv, Overslept
<1>4. Typed /\ WakeInv /\ [Next]_vars => WakeInv'
  BY WakeInvNext
<1>5. WakeInv => NoLostWakeup
  BY DEF WakeInv, MutexInv, MutexOK, Overslept, NoLostWakeup
<1> QED
  BY <1>1, <1>2, <1>3, <1>4, <1>5, PTL DEF Spec

-----------------------------------------------------------------------------
(* What a processor handles, and records.                                   *)

(* OnEvent is only called for what is published, by a processor that runs   *)
(* once.                                                                    *)
THEOREM PublishedHandled ==
  ASSUME Client
  PROVE  Spec => []HandlesPublished
<1>1. IInv => HandlesPublished
  <2> SUFFICES ASSUME IInv, NEW c \in Consumers, pc[c] = "handle", next[c] <= available[c]
               PROVE  next[c] \in 0 .. cursor
    BY DEF HandlesPublished
  <2>1. ProcInv
    BY DEF IInv
  <2>2. next[c] \in Nat /\ next[c] <= cursor
    BY <2>1, HandledNext
  <2>3. cursor \in Int
    BY <2>1, CursorBound
  <2> QED
    BY <2>2, <2>3
<1> QED
  BY <1>1, InductiveInvariant, PTL

(* What is about to be written has been handled, in its former slot, by     *)
(* every processor, when the gating Sequences are set first.                *)
THEOREM GatingTheorem ==
  ASSUME Client
  PROVE  Spec => []GatingRespected
<1>1. IInv => GatingRespected
  <2> SUFFICES ASSUME IInv, producerPc = "translate", NEW c \in Consumers
               PROVE  WrapPoint(cursorCache) < next[c]
    BY DEF GatingRespected
  <2>1. /\ WrapPoint(cursorCache) \in Int /\ gatingCache \in Int /\ next[c] \in Int
        /\ WrapPoint(cursorCache) <= gatingCache /\ gatingCache < next[c]
    BY BufferSizeAssumption, SingleThreadAssumption
       DEF IInv, TypeOK, TypeOKProcessors, GatingInv, ClaimInv, WrapPoint,
           kInitialCursorValue, kAlertedSignal
  <2> QED
    BY <2>1
<1> QED
  BY <1>1, InductiveInvariant, PTL

LEMMA ConsumedInvNext ==
  ASSUME IInv, ConsumedInv, [Next]_vars
  PROVE  ConsumedInv'
<1>0. ProcInv
  BY DEF IInv
<1>1. CASE ProcessorNext
  BY <1>0, <1>1, ConsumedProcessorNext
<1>2. CASE UNCHANGED <<waitVars, procVars>>
  BY <1>2, ConsumedUnchanged DEF waitVars, procVars
<1>3. CASE Publish
  BY <1>3, ConsumedUnchanged DEF Publish, procVars
<1>4. CASE Signal
  BY <1>0, <1>4, ConsumedUnchanged, NotifyMoves DEF Signal, procVars, ProcInv
<1> QED
  BY <1>1, <1>2, <1>3, <1>4
     DEF Next, ProducerStep, Claim, HasAvailableCapacity, GatingStep, ReadGating, FinishClaim,
         FinishCapacity, Translate, vars

(* A processor's Sequence is what it has consumed, until the first Stop     *)
(* (event_processor.h:61, :70).                                             *)
THEOREM ConsumedRecorded ==
  ASSUME Client
  PROVE  Spec => []RecordsConsumed
<1>1. Init => ConsumedInv
  BY InitConsumedInv DEF Init, InitSequencer
<1>2. IInv /\ ConsumedInv /\ [Next]_vars => ConsumedInv'
  BY ConsumedInvNext
<1>3. ConsumedInv => RecordsConsumed
  BY DEF ConsumedInv, ConsumedOK, RecordsConsumed
<1> QED
  BY <1>1, <1>2, <1>3, InductiveInvariant, PTL DEF Spec

(* The producer and the processors never wait in a circle, in any topology  *)
(* the client can build and with any ring: a processor has something to do  *)
(* or everything published is handled and a claim that fits finds room      *)
(* (claim_strategy.h:121, wait_strategy.h:159).                             *)
THEOREM NoCircle ==
  ASSUME Client
  PROVE  Spec => []NoCircularWait
<1>1. Init => ConsumedInv
  BY InitConsumedInv DEF Init, InitSequencer
<1>2. IInv /\ ConsumedInv /\ [Next]_vars => ConsumedInv'
  BY ConsumedInvNext
<1>3. IInv /\ ConsumedInv => NoCircularWait
  <2> SUFFICES ASSUME IInv, ConsumedInv, stopCalled = {},
                      \A c \in Consumers : pc[c] # "handle" /\ ~Ready(c)
               PROVE  /\ \A c \in Consumers : next[c] > cursor
                      /\ producerPc = "claim" /\ cursorCache - cursor <= BufferSize
                           => RoomFor(cursorCache)
    BY DEF NoCircularWait
  <2>1. ProcInv /\ cursorCache \in Int
    BY SingleThreadAssumption DEF IInv, TypeOK, kInitialCursorValue
  <2>2. ASSUME NEW c \in Consumers
        PROVE  next[c] > cursor
    <3>1. ~(next[c] <= cursor)
      BY <2>1, SomeReady
    <3> QED
      BY <2>1, <3>1 DEF ProcInv, TypeOKProcessors
  <2> QED
    BY <2>1, <2>2, RoomWhenHandled
<1> QED
  BY <1>1, <1>2, <1>3, InductiveInvariant, PTL DEF Spec

-----------------------------------------------------------------------------
(* The refinement of the bounded multicast log.                             *)

Claimed == IF producerPc = "claim" THEN writing - 1 ELSE cursorCache
Handled == [c \in Consumers |-> next[c] - 1]

(* A step that changes none of the three mapped variables.                  *)
LEMMA StutterRefines ==
  ASSUME cursor' = cursor, next' = next, Claimed' = Claimed
  PROVE  UNCHANGED D!vars
BY DEF D!vars, Claimed

(* A claim of n sequences that the minimum has made room for.               *)
LEMMA ClaimRefines ==
  ASSUME IInv, NEW n \in 1 .. BufferSize, cursor' = cursor, next' = next,
         Claimed' = Claimed + n,
         NEW m \in Int, WrapPoint(Claimed + n) <= m,
         \A c \in Consumers : m < next[c]
  PROVE  D!Claim(n)
<1>1. Claimed \in Int
  BY SingleThreadAssumption DEF IInv, TypeOK, Claimed, kInitialCursorValue
<1>2. ASSUME NEW c \in Consumers
      PROVE  Claimed + n - BufferSize <= next[c] - 1
  <2>1. next[c] \in Int /\ m < next[c] /\ BufferSize \in Int
    BY BufferSizeAssumption DEF IInv, TypeOK, TypeOKProcessors
  <2> QED
    BY <1>1, <2>1 DEF WrapPoint
<1> QED
  BY <1>2 DEF D!Claim, Claimed

(* A claim whose wrap point is behind m is no larger than the ring.         *)
LEMMA ClaimFits ==
  ASSUME IInv, NEW s \in Int, NEW m \in Int, WrapPoint(s) <= m,
         \A c \in Consumers : m < next[c]
  PROVE  s - cursor <= BufferSize
<1>1. PICK c \in Consumers : TRUE
  BY TopologyAssumption
<1>2. /\ next[c] \in Int /\ m < next[c]
      /\ next[c] <= cursor + 1 /\ cursor \in Int
  BY DEF IInv, ProcInv, ProgressInv, TypeOK, TypeOKProcessors
<1> QED
  BY <1>2, BufferSizeAssumption DEF WrapPoint

LEMMA FinishClaimRefines ==
  ASSUME IInv, FinishClaim
  PROVE  D!Next \/ UNCHANGED D!vars
<1> DEFINE n == cursorCache - cursor
<1>1. /\ cursor' = cursor /\ next' = next
      /\ UNCHANGED <<cursorCache, writing>>
  BY DEF FinishClaim, waitVars
<1>2. CASE UNCHANGED producerPc
  BY <1>1, <1>2, StutterRefines DEF Claimed
<1>3. CASE WrapPoint(cursorCache) <= minimum /\ producerPc' = "translate"
  <2>1. /\ minimum \in Int
        /\ \A c \in Consumers : minimum < next[c]
    BY ScannedMinimum, SingleThreadAssumption DEF FinishClaim, kAlertedSignal
  <2>2. /\ writing = cursor + 1 /\ cursor \in Int /\ cursorCache \in Int
        /\ writing <= cursorCache
    BY SingleThreadAssumption
       DEF FinishClaim, IInv, TypeOK, TypeOKProcessors, ClaimInv, kInitialCursorValue
  <2>3. n \in 1 .. BufferSize
    BY <1>3, <2>1, <2>2, ClaimFits, BufferSizeAssumption
  <2>4. Claimed = cursor /\ Claimed' = cursorCache /\ Claimed' = Claimed + n
    BY <1>1, <1>3, <2>2 DEF FinishClaim, Claimed
  <2>5. WrapPoint(Claimed + n) <= minimum
    BY <1>3, <2>4
  <2> HIDE DEF n
  <2> QED
    BY <1>1, <2>1, <2>3, <2>4, <2>5, ClaimRefines DEF D!Next
<1> QED
  BY <1>2, <1>3 DEF FinishClaim

LEMMA ProducerRefines ==
  ASSUME IInv,
         \/ \E delta \in BatchSizes, kind \in Overloads : Claim(delta, kind)
         \/ HasAvailableCapacity
         \/ GatingStep
         \/ ProducerStep
  PROVE  D!Next \/ UNCHANGED D!vars
<1>1. ASSUME NEW delta \in BatchSizes, NEW kind \in Overloads,
             Claim(delta, kind)
      PROVE  D!Next \/ UNCHANGED D!vars
  <2>1. /\ cursor' = cursor /\ next' = next
        /\ Claimed = cursorCache
        /\ cursorCache' = cursorCache + delta
        /\ writing' = cursorCache + 1
        /\ cursorCache \in Int /\ cursorCache = cursor
        /\ delta \in Nat \ {0}
    BY <1>1, SequencerAssumption, SingleThreadAssumption
       DEF Claim, waitVars, Claimed, IInv, TypeOK, ClaimInv, kInitialCursorValue
  <2>2. CASE producerPc' = "claim"
    BY <2>1, <2>2, StutterRefines DEF Claimed
  <2>3. CASE producerPc' = "translate" /\ WrapPoint(cursorCache') <= gatingCache
    <3>1. Claimed' = Claimed + delta
      BY <2>1, <2>3 DEF Claimed
    <3>2. WrapPoint(Claimed + delta) <= gatingCache
      BY <2>1, <2>3
    <3>3. gatingCache \in Int /\ \A c \in Consumers : gatingCache < next[c]
      BY SingleThreadAssumption DEF IInv, TypeOK, GatingInv, kAlertedSignal
    <3>4. delta \in 1 .. BufferSize
      BY <2>1, <2>3, <3>3, ClaimFits, BufferSizeAssumption
    <3> QED
      BY <2>1, <3>1, <3>2, <3>3, <3>4, ClaimRefines DEF D!Next
  <2> QED
    BY <1>1, <2>2, <2>3 DEF Claim
<1>2. CASE HasAvailableCapacity
  BY <1>2, StutterRefines DEF HasAvailableCapacity, waitVars, Claimed
<1>3. ASSUME NEW g \in Gating, ReadGating(g)
      PROVE  D!Next \/ UNCHANGED D!vars
  BY <1>3, StutterRefines DEF ReadGating, waitVars, Claimed
<1>4. CASE GatingStep \/ FinishCapacity \/ Translate \/ Signal
  BY <1>4, StutterRefines DEF GatingStep, FinishCapacity, Translate, Signal, waitVars, Claimed
<1>5. CASE Publish
  <2> DEFINE S == cursor + 1 .. writing
  <2>1. /\ cursor \in Int /\ kInitialCursorValue <= cursor
        /\ writing \in Int /\ cursorCache \in Int
        /\ cursor < writing /\ writing <= cursorCache
        /\ cursor' = writing /\ next' = next
        /\ Claimed = cursorCache /\ Claimed' = cursorCache
    BY <1>5, SingleThreadAssumption
       DEF Publish, IInv, TypeOK, TypeOKProcessors, ClaimInv, Claimed, kInitialCursorValue
  <2>2. /\ S # {} /\ S \cap (0 .. cursor) = {}
        /\ (0 .. cursor') = (0 .. cursor) \cup S
        /\ S \in SUBSET (0 .. Claimed)
    <3>1. writing \in S
      BY <2>1
    <3>2. \A s : s \in S <=> s \in Int /\ cursor < s /\ s <= writing
      BY <2>1
    <3>3. \A s : s \in S => s \in 0 .. Claimed /\ s \notin 0 .. cursor
      BY <2>1, <3>2 DEF kInitialCursorValue
    <3>4. \A s : s \in 0 .. cursor' <=> s \in 0 .. cursor \/ s \in S
      BY <2>1, <3>2 DEF kInitialCursorValue
    <3> HIDE DEF S
    <3> QED
      BY <3>1, <3>3, <3>4
  <2> HIDE DEF S
  <2>3. D!Publish(S)
    BY <2>1, <2>2 DEF D!Publish, Claimed
  <2> QED
    BY <2>2, <2>3 DEF D!Next, Claimed
<1> QED
  BY <1>1, <1>2, <1>3, <1>4, <1>5, FinishClaimRefines DEF ProducerStep

LEMMA ProcessorRefines ==
  ASSUME IInv, ProcessorNext, UNCHANGED prodVars
  PROVE  D!Next \/ UNCHANGED D!vars
<1>0. ProcInv
  BY DEF IInv
<1>1. cursor' = cursor /\ Claimed' = Claimed
  BY <1>0, ProcessorMoves DEF Claimed, prodVars
<1>2. CASE next' = next
  BY <1>1, <1>2, StutterRefines
<1>3. ASSUME NEW c \in Consumers, OnEvent(c)
      PROVE  D!Next
  <2>1. /\ next[c] \in Nat /\ next[c] <= cursor /\ cursor \in Int
        /\ \A d \in Dependents[c] : next[c] < next[d]
    BY <1>0, <1>3, HandledNext DEF OnEvent, IInv, TypeOK, TypeOKProcessors
  <2>2. next' = [next EXCEPT ![c] = next[c] + 1] /\ next \in [Consumers -> Int]
    BY <1>3 DEF OnEvent, IInv, TypeOK, TypeOKProcessors
  <2>3. Handled[c] + 1 = next[c]
    BY <2>2 DEF Handled
  <2>4. next[c] \in 0 .. cursor
    BY <2>1
  <2>5. ASSUME NEW d \in Dependents[c]
        PROVE  next[c] <= Handled[d]
    <3>1. d \in Consumers /\ next[d] \in Int /\ next[c] < next[d]
      BY <2>1, <2>2, TopologyAssumption
    <3>2. Handled[d] = next[d] - 1
      BY <3>1 DEF Handled
    <3> QED
      BY <2>1, <3>1, <3>2
  <2>6. Handled' = [Handled EXCEPT ![c] = next[c]]
    <3>1. \A e \in Consumers : next'[e] - 1 = IF e = c THEN next[c] ELSE next[e] - 1
      BY <2>1, <2>2
    <3> QED
      BY <3>1 DEF Handled
  <2> QED
    BY <1>1, <2>3, <2>4, <2>5, <2>6 DEF D!Next, D!Handle, Handled, Claimed
<1> QED
  BY <1>0, <1>2, <1>3, ProcessorMoves

(* Every step of every thread is a claim, a publication or a handled event  *)
(* of the bounded multicast log, or is invisible in it.                     *)
THEOREM Refinement ==
  ASSUME Client
  PROVE  Spec => ImplementsDisruptor
<1>1. Init => D!Init
  BY DEF Init, InitSequencer, InitProcessors, D!Init, kInitialCursorValue, kFirstSequenceValue
<1>2. IInv /\ [Next]_vars => [D!Next]_(D!vars)
  <2> SUFFICES ASSUME IInv, [Next]_vars
               PROVE  D!Next \/ UNCHANGED D!vars
    OBVIOUS
  <2>1. CASE UNCHANGED vars
    BY <2>1, StutterRefines DEF vars, waitVars, prodVars, Claimed
  <2> QED
    BY <2>1, ProducerRefines, ProcessorRefines DEF Next
<1> QED
  BY <1>1, <1>2, InductiveInvariant, PTL DEF Spec, ImplementsDisruptor, D!Spec

(* The log again, with what DisruptorProofs proves of it.                   *)
L == INSTANCE DisruptorProofs WITH
       claimed   <- Claimed,
       published <- 0 .. cursor,
       handled   <- Handled

LEMMA SameLog == ImplementsDisruptor => L!Spec
<1>1. D!Init => L!Init
  BY DEF D!Init, L!Init, Claimed, Handled
<1>2. D!vars = L!vars
  BY DEF D!vars, L!vars, Claimed, Handled
<1>3. ASSUME NEW n \in 1 .. BufferSize, D!Claim(n)
      PROVE  L!Claim(n)
  BY <1>3 DEF D!Claim, L!Claim, Claimed, Handled
<1>4. ASSUME NEW S \in SUBSET (0 .. Claimed), D!Publish(S)
      PROVE  L!Publish(S)
  BY <1>4 DEF D!Publish, L!Publish, Claimed, Handled
<1>5. ASSUME NEW c \in Consumers, D!Handle(c)
      PROVE  L!Handle(c)
  BY <1>5 DEF D!Handle, L!Handle, Claimed, Handled
<1>6. D!Next => L!Next
  BY <1>3, <1>4, <1>5 DEF D!Next, L!Next, Claimed
<1>7. [D!Next]_(D!vars) => [L!Next]_(L!vars)
  <2>1. UNCHANGED D!vars => UNCHANGED L!vars
    BY DEF D!vars, L!vars, Claimed, Handled
  <2> QED
    BY <1>6, <2>1
<1> QED
  BY <1>1, <1>7, PTL DEF ImplementsDisruptor, D!Spec, L!Spec

(* What the log guarantees, the Sequencer guarantees: each processor        *)
(* handles without a gap what is published, after its dependents, and no    *)
(* claim runs more than a ring ahead of any of them (claim_strategy.h:114,  *)
(* wait_strategy.h:159, event_processor.h:62).                              *)
THEOREM LogKept ==
  ASSUME Client
  PROVE  Spec => [](L!InOrder /\ L!Bounded)
<1>1. L!Graph /\ BufferSize \in Nat
  BY TopologyAssumption, BufferSizeAssumption DEF L!Graph
<1>2. L!Spec => [](L!InOrder /\ L!Bounded)
  BY <1>1, L!LogSafe
<1> QED
  BY <1>2, Refinement, SameLog, PTL
=============================================================================
