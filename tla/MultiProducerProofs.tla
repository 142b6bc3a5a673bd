------------------------- MODULE MultiProducerProofs -------------------------
(***************************************************************************)
(* The safety of MultiProducer for every number of producers and of their   *)
(* calls, every ring size, topology and wait strategy, with processors      *)
(* stopped at any moment.                                                   *)
(***************************************************************************)
EXTENDS MultiProducerInv, ProcessorProofs

(* What the client has to keep to: after an alert a second Run starts from  *)
(* the signal in its Sequence, and the minimum over no gating Sequences     *)
(* stays in the shared cache.                                               *)
Client == RunOnce /\ GatingFirst

-----------------------------------------------------------------------------
(* Arithmetic of the flags.                                                 *)

LEMMA MultipleOrder ==
  ASSUME NEW a \in Int, NEW b \in Int, BufferSize * a < BufferSize * b
  PROVE  a < b
<1> DEFINE k == a - b
<1>1. k \in Int /\ BufferSize * k < 0
  <2>1. BufferSize * k = BufferSize * a - BufferSize * b
    BY BufferSizeAssumption
  <2> QED
    BY <2>1, BufferSizeAssumption
<1>2. k < 0
  <2> HIDE DEF k
  <2> QED
    BY <1>1, BufferSizeAssumption
<1> QED
  BY <1>2

(* A flag for a sequence of that slot before s is smaller than that of s.   *)
LEMMA EarlierFlag ==
  ASSUME NEW s \in Int, NEW f \in Int, BufferSize * f + CalculateIndex(s) < s
  PROVE  f < CalculateAvailableFlag(s)
<1>1. /\ s = BufferSize * (s \div BufferSize) + CalculateIndex(s)
      /\ s \div BufferSize \in Int
      /\ CalculateIndex(s) \in 0 .. BufferSize - 1
  BY QuotientRemainder, Zenon
<1>2. BufferSize * f < BufferSize * (s \div BufferSize)
  BY <1>1, BufferSizeAssumption
<1> QED
  BY <1>1, <1>2, MultipleOrder DEF CalculateAvailableFlag

LEMMA FlagType ==
  ASSUME NEW s \in Int
  PROVE  /\ CalculateAvailableFlag(s) \in Int
         /\ CalculateIndex(s) \in 0 .. BufferSize - 1
         /\ BufferSize * CalculateAvailableFlag(s) + CalculateIndex(s) = s
BY QuotientRemainder DEF CalculateAvailableFlag

-----------------------------------------------------------------------------
(* The types, one variable at a time.                                       *)

LEMMA Types ==
  ASSUME TypeOK
  PROVE  /\ cursor \in Int /\ kInitialCursorValue <= cursor
         /\ gatingCache \in Int
         /\ \A c \in Consumers : /\ next[c] \in Int /\ available[c] \in Int
                                 /\ sequence[c] \in Int /\ probed[c] \in Int
         /\ \A p \in Producers :
              /\ current[p] \in Int /\ writing[p] \in Int /\ minimum[p] \in Int
              /\ delta[p] \in Nat \ {0} /\ Last(p) \in Int
              /\ current[p] < Last(p)
              /\ WrapPoint(Last(p)) \in Int
         /\ WrapPoint(cursor) \in Int
<1>1. cursor \in Int /\ kInitialCursorValue <= cursor
  BY DEF TypeOK, TypeOKProcessors
<1>2. ASSUME NEW p \in Producers
      PROVE  /\ current[p] \in Int /\ writing[p] \in Int /\ minimum[p] \in Int
             /\ delta[p] \in Nat \ {0}
  <2>1. current[p] \in Int /\ writing[p] \in Int
    BY <1>1 DEF TypeOK, kAlertedSignal
  <2>2. minimum[p] \in Int
    BY <1>1, LongMaxAssumption DEF TypeOK, kAlertedSignal
  <2>3. delta[p] \in Nat \ {0}
    <3>1. delta[p] \in BatchSizes \cup {1}
      BY DEF TypeOK
    <3>2. CASE delta[p] \in BatchSizes
      BY <3>2, SequencerAssumption
    <3>3. CASE delta[p] = 1
      BY <3>3
    <3> QED
      BY <3>1, <3>2, <3>3
  <2> QED
    BY <2>1, <2>2, <2>3
<1>3. gatingCache \in Int
  BY <1>1 DEF TypeOK, kAlertedSignal
<1>4. ASSUME NEW c \in Consumers
      PROVE  /\ next[c] \in Int /\ available[c] \in Int /\ sequence[c] \in Int
             /\ probed[c] \in Int
  BY BufferSizeAssumption DEF TypeOK, TypeOKProcessors
<1> QED
  BY <1>1, <1>2, <1>3, <1>4, BufferSizeAssumption DEF Last, WrapPoint

(* No flag is ahead of the claims.                                          *)
LEMMA NotRaisedAhead ==
  ASSUME TypeOK, NEW s \in Int, cursor < s
  PROVE  ~Raised(s)
<1> DEFINE i == CalculateIndex(s)
<1>1. /\ i \in 0 .. BufferSize - 1 /\ CalculateAvailableFlag(s) \in Int
      /\ cursor \in Int /\ -1 <= cursor
  BY FlagType, Types DEF kInitialCursorValue
<1>2. flags[i] \in Int /\ (flags[i] = -1 \/ BufferSize * flags[i] + i \in 0 .. cursor)
  BY <1>1 DEF TypeOK
<1>3. BufferSize * flags[i] + i < s
  <2>1. CASE flags[i] = -1
    BY <1>1, <2>1, BufferSizeAssumption
  <2>2. CASE flags[i] # -1
    <3>1. BufferSize * flags[i] + i <= cursor
      BY <1>1, <1>2, <2>2
    <3>2. BufferSize * flags[i] + i \in Int
      BY <1>2, <2>2
    <3> QED
      BY <1>1, <3>1, <3>2
  <2> QED
    BY <2>1, <2>2
<1>4. flags[i] < CalculateAvailableFlag(s)
  BY <1>2, <1>3, EarlierFlag
<1> QED
  BY <1>1, <1>2, <1>4 DEF Raised

-----------------------------------------------------------------------------
(* The claimed sequences some processor may have still to handle are less   *)
(* than a ring.                                                             *)
Window == {s \in Int : WrapPoint(cursor) < s /\ s <= cursor}

LEMMA WindowDistinct ==
  ASSUME TypeOK, NEW s \in Window, NEW t \in Window, s # t
  PROVE  CalculateIndex(s) # CalculateIndex(t)
<1>1. /\ s \in Int /\ t \in Int /\ cursor \in Int
      /\ t - s < BufferSize /\ s - t < BufferSize
  BY Types, BufferSizeAssumption DEF Window, WrapPoint
<1>2. CASE s < t
  BY <1>1, <1>2, IndexDistinct
<1>3. CASE t < s
  BY <1>1, <1>3, IndexDistinct
<1> QED
  BY <1>1, <1>2, <1>3

LEMMA OwnedInWindow ==
  ASSUME TypeOK, GatingInv, ClaimInv, OwnedInv, NEW p \in Producers
  PROVE  /\ \A s \in Owned(p) :
              /\ s \in Window /\ s \in Int /\ 0 <= s
              /\ current[p] < s /\ s <= Last(p) /\ s <= cursor
         /\ \A s \in Filled(p) : s \in Owned(p)
<1>1. /\ current[p] \in Int /\ writing[p] \in Int /\ Last(p) \in Int /\ cursor \in Int
      /\ WrapPoint(cursor) \in Int
  BY Types
<1>2. ASSUME NEW s \in Owned(p)
      PROVE  /\ s \in Window /\ s \in Int /\ 0 <= s
             /\ current[p] < s /\ s <= Last(p) /\ s <= cursor
  <2>1. Active(p) /\ s \in First(p) .. Last(p)
    BY <1>2 DEF Owned
  <2>2. /\ kInitialCursorValue <= current[p] /\ current[p] < writing[p]
        /\ Last(p) <= cursor
    BY <2>1 DEF ClaimInv, ClaimOK
  <2>3. First(p) \in Int /\ current[p] < First(p)
    BY <1>1, <2>2 DEF First
  <2>4. PICK c \in Consumers : TRUE
    BY TopologyAssumption
  <2>5. next[c] \in Int /\ next[c] <= s /\ WrapPoint(cursor) < next[c]
    BY <1>2, Types DEF OwnedInv, OwnedOK, GatingInv
  <2> QED
    BY <1>1, <2>1, <2>2, <2>3, <2>5 DEF Window, kInitialCursorValue
<1>3. ASSUME NEW s \in Filled(p)
      PROVE  s \in Owned(p)
  <2>1. Active(p)
    BY <1>3 DEF Filled, Active
  <2>2. writing[p] <= Last(p) /\ current[p] < writing[p]
    BY <2>1 DEF ClaimInv, ClaimOK
  <2> QED
    BY <1>1, <1>3, <2>1, <2>2 DEF Filled, Owned, First
<1> QED
  BY <1>2, <1>3

LEMMA UnhandledInWindow ==
  ASSUME TypeOK, GatingInv, NEW c \in Consumers, NEW s \in next[c] .. cursor
  PROVE  s \in Window /\ s \in Int
<1>1. /\ next[c] \in Int /\ cursor \in Int /\ WrapPoint(cursor) \in Int
      /\ WrapPoint(cursor) < next[c]
  BY Types DEF GatingInv
<1> QED
  BY <1>1 DEF Window
-----------------------------------------------------------------------------
(* Frames: a step of producer p leaves the other producers' locals alone.   *)

OthersKept(p) ==
  \A q \in Producers \ {p} :
    /\ producerPc'[q] = producerPc[q] /\ purpose'[q] = purpose[q]
    /\ overload'[q] = overload[q] /\ writing'[q] = writing[q]
    /\ minimum'[q] = minimum[q] /\ ungated'[q] = ungated[q]
    /\ current'[q] = current[q] /\ Last(q)' = Last(q)

LEMMA GatingFrame ==
  ASSUME GatingInv, NEW p \in Producers, OthersKept(p),
         UNCHANGED <<next, gating>>,
         \A c \in Consumers : WrapPoint(cursor') < next[c] /\ gatingCache' < next[c],
         BehindOK(p)'
  PROVE  GatingInv'
<1>1. ASSUME NEW q \in Producers \ {p}
      PROVE  BehindOK(q)'
  BY DEF GatingInv, BehindOK, OthersKept, WrapPoint
<1> QED
  BY <1>1 DEF GatingInv, WrapPoint

(* The steps of a call before its claim, and of HasAvailableCapacity.       *)
LEMMA InactiveStep ==
  ASSUME MultiInv, NEW p \in Producers, OthersKept(p), ~Active(p), ~Active(p)',
         UNCHANGED <<cursor, next, pc, available, slots, flags, probed>>
  PROVE  ClaimInv' /\ OwnedInv' /\ ProbeInv' /\ SlotsInv'
<1> USE DEF MultiInv, OthersKept
<1>1. ASSUME NEW q \in Producers
      PROVE  /\ Active(q)' = Active(q)
             /\ Owned(q)' = Owned(q) /\ Filled(q)' = Filled(q)
             /\ Active(q) => /\ producerPc'[q] = producerPc[q] /\ overload'[q] = overload[q]
                             /\ writing'[q] = writing[q] /\ current'[q] = current[q]
                             /\ Last(q)' = Last(q)
  <2>1. CASE q = p
    BY <2>1 DEF Active, Owned, Filled
  <2>2. CASE q # p
    BY <2>2 DEF Active, Owned, First, Filled
  <2> QED
    BY <2>1, <2>2
<1>2. ClaimInv'
  BY <1>1 DEF ClaimInv, ClaimOK, Apart
<1>3. \A s : Raised(s)' <=> Raised(s)
  BY DEF Raised
<1>4. OwnedInv'
  BY <1>1, <1>3 DEF OwnedInv, OwnedOK
<1>5. ProbeInv'
  BY <1>3 DEF ProbeInv, ProbeOK
<1>6. SlotsInv'
  BY <1>1, <1>3 DEF SlotsInv, FilledOK, IntactOK
<1> QED
  BY <1>2, <1>4, <1>5, <1>6

-----------------------------------------------------------------------------
(* A call up to its claim.                                                  *)

LEMMA BeginInv ==
  ASSUME Client, MultiInv, NEW p \in Producers, NEW n \in BatchSizes \cup {1},
         NEW kind \in {overload[p]} \cup Overloads,
         NEW use \in {"claim", "capacity"},
         producerPc[p] = "idle", MayClaim, calls[p] < MaxCalls,
         calls' = [calls EXCEPT ![p] = @ + 1],
         purpose' = [purpose EXCEPT ![p] = use],
         delta' = [delta EXCEPT ![p] = n],
         overload' = [overload EXCEPT ![p] = kind],
         ProducerGoto(p, "loadCursor"),
         UNCHANGED <<waitVars, procVars, sharedVars, current, minimum, ungated, writing, probed>>
  PROVE  MultiInv'
<1> USE DEF MultiInv, ProducerGoto, sharedVars
<1>1. TypeOK'
  <2>1. TypeOKProcessors'
    BY DEF TypeOK, TypeOKProcessors, waitVars, procVars
  <2>2. overload' \in [Producers -> {"translator"} \cup Overloads]
    BY DEF TypeOK
  <2>3. calls' \in [Producers -> 0 .. MaxCalls]
    BY MultiThreadAssumption DEF TypeOK
  <2> QED
    BY <2>1, <2>2, <2>3 DEF TypeOK, waitVars
<1>2. /\ OthersKept(p)
      /\ producerPc'[p] = "loadCursor"
  BY DEF TypeOK, OthersKept, Last
<1>3. GatingInv'
  BY <1>2, GatingFrame DEF GatingInv, BehindOK, waitVars, Client, MayClaim
<1>4. ClaimInv' /\ OwnedInv' /\ ProbeInv' /\ SlotsInv'
  <2>1. ~Active(p) /\ ~Active(p)'
    BY <1>2 DEF Active
  <2> QED
    BY <1>2, <2>1, InactiveStep DEF waitVars
<1>5. ProcInv'
  BY UnchangedProcInv
<1> QED
  BY <1>1, <1>3, <1>4, <1>5

LEMMA LoadCursorInv ==
  ASSUME MultiInv, NEW p \in Producers, LoadCursor(p)
  PROVE  MultiInv'
<1> USE DEF MultiInv, LoadCursor, ProducerGoto, sharedVars
<1>1. TypeOK'
  <2>1. TypeOKProcessors'
    BY DEF TypeOK, TypeOKProcessors, waitVars, procVars
  <2>2. current' \in [Producers -> kAlertedSignal .. cursor]
    BY Types DEF TypeOK, kAlertedSignal, kInitialCursorValue
  <2> QED
    BY <2>1, <2>2 DEF TypeOK, waitVars
<1>2. /\ OthersKept(p)
      /\ producerPc'[p] = "loadCache"
  BY DEF TypeOK, OthersKept, Last
<1>3. GatingInv'
  BY <1>2, GatingFrame DEF GatingInv, BehindOK, waitVars
<1>4. ClaimInv' /\ OwnedInv' /\ ProbeInv' /\ SlotsInv'
  <2>1. ~Active(p) /\ ~Active(p)'
    BY <1>2 DEF Active
  <2> QED
    BY <1>2, <2>1, InactiveStep DEF waitVars
<1>5. ProcInv'
  BY UnchangedProcInv
<1> QED
  BY <1>1, <1>3, <1>4, <1>5

LEMMA LoadCacheInv ==
  ASSUME MultiInv, NEW p \in Producers, LoadCache(p)
  PROVE  MultiInv'
<1> USE DEF MultiInv, LoadCache, ProducerGoto, sharedVars
<1>1. TypeOK'
  <2>1. TypeOKProcessors'
    BY DEF TypeOK, TypeOKProcessors, waitVars, procVars
  <2>2. /\ minimum' \in [Producers -> kAlertedSignal .. cursor \cup {LongMax}]
        /\ ungated' \in [Producers -> SUBSET Gating]
    <3>1. /\ minimum \in [Producers -> kAlertedSignal .. cursor \cup {LongMax}]
          /\ ungated \in [Producers -> SUBSET Gating]
          /\ gating \in SUBSET Gating
      BY DEF TypeOK
    <3> QED
      BY <3>1
  <2> QED
    BY <2>1, <2>2 DEF TypeOK, waitVars
<1>2. /\ OthersKept(p)
      /\ producerPc'[p] \in {"scan", "cas", "idle"}
      /\ Last(p)' = Last(p)
  BY DEF TypeOK, OthersKept, Last
<1>3. BehindOK(p)'
  <2>1. gating = Gating
    BY DEF GatingInv, BehindOK
  <2>2. CASE producerPc'[p] = "scan"
    BY <2>1, <2>2 DEF TypeOK, BehindOK
  <2>3. CASE producerPc'[p] = "cas"
    <3>1. WrapPoint(Last(p)) <= gatingCache /\ purpose[p] = "claim"
      BY <2>3 DEF TypeOK
    <3>2. \A c \in Consumers : WrapPoint(Last(p)) < next[c]
      BY <3>1, Types DEF GatingInv
    <3> QED
      BY <1>2, <2>1, <2>3, <3>1, <3>2 DEF BehindOK, WrapPoint, waitVars
  <2>4. CASE producerPc'[p] = "idle"
    BY <2>4 DEF BehindOK
  <2> QED
    BY <1>2, <2>2, <2>3, <2>4
<1>4. GatingInv'
  BY <1>2, <1>3, GatingFrame DEF GatingInv, waitVars
<1>5. ClaimInv' /\ OwnedInv' /\ ProbeInv' /\ SlotsInv'
  <2>1. ~Active(p) /\ ~Active(p)'
    BY <1>2 DEF Active
  <2> QED
    BY <1>2, <2>1, InactiveStep DEF waitVars
<1>6. ProcInv'
  BY UnchangedProcInv
<1> QED
  BY <1>1, <1>4, <1>5, <1>6

LEMMA ReadGatingInv ==
  ASSUME MultiInv, NEW p \in Producers, NEW g \in Gating, ReadGating(p, g)
  PROVE  MultiInv'
<1> USE DEF MultiInv, ReadGating, sharedVars
<1>1. /\ minimum[p] \in Int /\ sequence[g] \in Int
      /\ sequence[g] \in kAlertedSignal .. cursor
      /\ sequence[g] < next[g]
  BY Types, GatingAssumption DEF ProcInv, ProgressInv, kAlertedSignal
<1> DEFINE m == Minimum(minimum[p], sequence[g])
<1>2. /\ m \in Int /\ m <= minimum[p] /\ m <= sequence[g]
      /\ m \in kAlertedSignal .. cursor \cup {LongMax}
  BY <1>1 DEF Minimum, TypeOK
<1>3. /\ minimum' = [minimum EXCEPT ![p] = m]
      /\ ungated' = [ungated EXCEPT ![p] = ungated[p] \ {g}]
  OBVIOUS
<1> HIDE DEF m
<1>4. TypeOK'
  <2>1. TypeOKProcessors'
    BY DEF TypeOK, TypeOKProcessors, waitVars, procVars
  <2>2. /\ minimum' \in [Producers -> kAlertedSignal .. cursor \cup {LongMax}]
        /\ ungated' \in [Producers -> SUBSET Gating]
    BY <1>2, <1>3 DEF TypeOK
  <2> QED
    BY <2>1, <2>2 DEF TypeOK, waitVars
<1>5. /\ OthersKept(p)
      /\ producerPc'[p] = "scan"
      /\ minimum'[p] = m
      /\ ungated'[p] = ungated[p] \ {g}
  BY <1>3 DEF TypeOK, OthersKept, Last
<1>6. BehindOK(p)'
  <2>1. gating = Gating
    BY DEF GatingInv, BehindOK
  <2>2. ASSUME NEW h \in Gating \ ungated'[p]
        PROVE  m < next[h]
    <3>1. h \in Consumers /\ next[h] \in Int
      BY GatingAssumption, Types
    <3>2. CASE h = g
      BY <1>1, <1>2, <3>1, <3>2
    <3>3. CASE h # g
      <4>1. minimum[p] < next[h]
        BY <1>5, <2>2, <3>3 DEF GatingInv, BehindOK
      <4> QED
        BY <1>1, <1>2, <3>1, <4>1
    <3> QED
      BY <3>2, <3>3
  <2> QED
    BY <1>5, <2>1, <2>2 DEF BehindOK, waitVars
<1>7. GatingInv'
  BY <1>5, <1>6, GatingFrame DEF GatingInv, waitVars
<1>8. ClaimInv' /\ OwnedInv' /\ ProbeInv' /\ SlotsInv'
  <2>1. ~Active(p) /\ ~Active(p)'
    BY <1>5 DEF Active
  <2> QED
    BY <1>5, <2>1, InactiveStep DEF waitVars
<1>9. ProcInv'
  BY UnchangedProcInv
<1> QED
  BY <1>4, <1>7, <1>8, <1>9

LEMMA StoreCacheInv ==
  ASSUME MultiInv, NEW p \in Producers, StoreCache(p)
  PROVE  MultiInv'
<1> USE DEF MultiInv, StoreCache, ProducerGoto, sharedVars
<1>1. \A c \in Consumers : minimum[p] < next[c]
  <2>1. \A g \in Gating : minimum[p] < next[g]
    BY DEF GatingInv, BehindOK
  <2> QED
    BY <2>1, Types, GatingCoversAll
<1>2. minimum[p] \in kAlertedSignal .. cursor
  <2>1. PICK c \in Consumers : TRUE
    BY TopologyAssumption
  <2>2. minimum[p] \in Int /\ minimum[p] < next[c] /\ next[c] <= cursor + 1
    BY <1>1, Types DEF ProcInv, ProgressInv
  <2>3. minimum[p] = LongMax \/ minimum[p] \in kAlertedSignal .. cursor
    BY DEF TypeOK
  <2> QED
    BY <2>2, <2>3, Types, LongMaxAssumption DEF kAlertedSignal
<1>3. gatingCache' = gatingCache \/ gatingCache' = minimum[p]
  OBVIOUS
<1>4. TypeOK'
  <2>1. TypeOKProcessors'
    BY DEF TypeOK, TypeOKProcessors, waitVars, procVars
  <2>2. /\ gatingCache' \in kAlertedSignal .. cursor
        /\ minimum' \in [Producers -> kAlertedSignal .. cursor \cup {LongMax}]
    BY <1>2, <1>3 DEF TypeOK
  <2> QED
    BY <2>1, <2>2 DEF TypeOK, waitVars
<1>5. /\ OthersKept(p)
      /\ producerPc'[p] \in {"loadCursor", "idle"}
  BY DEF TypeOK, OthersKept, Last
<1>6. BehindOK(p)'
  BY <1>5 DEF GatingInv, BehindOK
<1>7. GatingInv'
  <2>1. \A c \in Consumers : gatingCache' < next[c]
    BY <1>1, <1>3 DEF GatingInv
  <2> QED
    BY <1>5, <1>6, <2>1, GatingFrame DEF GatingInv, waitVars
<1>8. ClaimInv' /\ OwnedInv' /\ ProbeInv' /\ SlotsInv'
  <2>1. ~Active(p) /\ ~Active(p)'
    BY <1>5 DEF Active
  <2> QED
    BY <1>5, <2>1, InactiveStep DEF waitVars
<1>9. ProcInv'
  BY UnchangedProcInv
<1> QED
  BY <1>4, <1>7, <1>8, <1>9

-----------------------------------------------------------------------------
(* The claim.                                                               *)

(* The compare-and-set finds the cursor where the producer loaded it, moves *)
(* it, and claims sequences no flag stands for.                             *)
LEMMA ClaimSucceeds ==
  ASSUME MultiInv, NEW p \in Producers, CompareAndSet(p), cursor = current[p]
  PROVE  /\ cursor' = Last(p) /\ Last(p)' = Last(p) /\ cursor < Last(p)
         /\ producerPc'[p] = "translate"
         /\ current'[p] = cursor /\ writing'[p] = cursor + 1
         /\ OthersKept(p) /\ overload' = overload
         /\ Owned(p)' = cursor + 1 .. Last(p) /\ Filled(p)' = {}
         /\ \A c \in Consumers : WrapPoint(Last(p)) < next[c]
<1>1. /\ cursor' = Last(p) /\ cursor < Last(p)
      /\ producerPc' = [producerPc EXCEPT ![p] = "translate"]
      /\ writing' = [writing EXCEPT ![p] = cursor + 1]
      /\ UNCHANGED <<purpose, delta, overload, current, minimum, ungated>>
      /\ producerPc[p] = "cas"
  BY Types DEF MultiInv, CompareAndSet, ProducerGoto
<1>2. /\ producerPc'[p] = "translate" /\ writing'[p] = cursor + 1
      /\ OthersKept(p) /\ Last(p)' = Last(p)
  BY <1>1 DEF MultiInv, TypeOK, OthersKept, Last
<1>3. cursor \in Int /\ Last(p) \in Int
  BY Types DEF MultiInv
<1>4. Owned(p)' = cursor + 1 .. Last(p) /\ Filled(p)' = {}
  BY <1>1, <1>2, <1>3 DEF Owned, Active, First, Filled
<1> QED
  BY <1>1, <1>2, <1>4 DEF MultiInv, GatingInv, BehindOK

LEMMA CompareAndSetInv ==
  ASSUME MultiInv, NEW p \in Producers, CompareAndSet(p)
  PROVE  MultiInv'
<1>1. CASE cursor # current[p]
  <2> USE <1>1 DEF MultiInv, CompareAndSet, ProducerGoto, sharedVars
  <2>1. TypeOK'
    BY DEF TypeOK, TypeOKProcessors, procVars
  <2>2. /\ OthersKept(p)
        /\ producerPc'[p] = "loadCursor"
    BY DEF TypeOK, OthersKept, Last
  <2>3. GatingInv'
    BY <2>2, GatingFrame DEF GatingInv, BehindOK
  <2>4. ClaimInv' /\ OwnedInv' /\ ProbeInv' /\ SlotsInv'
    <3>1. ~Active(p) /\ ~Active(p)'
      BY <2>2 DEF Active
    <3> QED
      BY <2>2, <3>1, InactiveStep
  <2>5. ProcInv'
    BY UnchangedProcInv DEF waitVars
  <2> QED
    BY <2>1, <2>3, <2>4, <2>5
<1>2. CASE cursor = current[p]
  <2> DEFINE top == Last(p)
  <2>1. /\ cursor' = top /\ Last(p)' = top /\ cursor < top
        /\ producerPc'[p] = "translate"
        /\ current'[p] = cursor /\ writing'[p] = cursor + 1
        /\ OthersKept(p) /\ overload' = overload
        /\ Owned(p)' = cursor + 1 .. top /\ Filled(p)' = {}
        /\ \A c \in Consumers : WrapPoint(top) < next[c]
    BY <1>2, ClaimSucceeds
  <2>2. /\ cursor \in Int /\ top \in Int /\ kInitialCursorValue <= cursor
    BY Types DEF MultiInv
  <2>3. /\ UNCHANGED <<sequence, alerted, mutex, pc, next, available, unread, procVars,
                      slots, gating, flags, gatingCache, purpose, delta, current, minimum,
                      ungated, calls, probed>>
        /\ producerPc' = [producerPc EXCEPT ![p] = "translate"]
        /\ writing' = [writing EXCEPT ![p] = cursor + 1]
        /\ producerPc[p] = "cas"
    BY <1>2 DEF CompareAndSet, ProducerGoto, sharedVars
  <2> HIDE DEF top
  <2> USE DEF MultiInv
  <2>4. ProcInv'
    BY <2>1, <2>2, <2>3, CursorProcInv
  <2>5. TypeOK'
    <3>1. kAlertedSignal .. cursor \subseteq kAlertedSignal .. cursor'
      BY <2>1, <2>2 DEF kAlertedSignal
    <3>2. writing' \in [Producers -> kAlertedSignal .. cursor']
      BY <2>1, <2>2, <2>3, <3>1 DEF TypeOK, kAlertedSignal, kInitialCursorValue
    <3>3. /\ kInitialCursorValue <= cursor'
          /\ 0 .. cursor \subseteq 0 .. cursor'
      BY <2>1, <2>2 DEF kInitialCursorValue
    <3>4. /\ slots \in [0 .. BufferSize - 1 -> kAlertedSignal .. cursor']
          /\ current \in [Producers -> kAlertedSignal .. cursor']
          /\ minimum \in [Producers -> kAlertedSignal .. cursor' \cup {LongMax}]
          /\ gatingCache \in kAlertedSignal .. cursor'
          /\ \A c \in Consumers : available[c] \in kAlertedSignal .. cursor' \cup {LongMax}
      BY <3>1 DEF TypeOK
    <3>5. \A i \in 0 .. BufferSize - 1 :
            flags[i] = -1 \/ BufferSize * flags[i] + i \in 0 .. cursor'
      BY <3>3 DEF TypeOK
    <3>6. producerPc' \in [Producers -> {"idle", "loadCursor", "loadCache", "scan", "cas",
                                         "translate", "publish", "late", "signal"}]
      BY <2>3 DEF TypeOK
    <3>7. TypeOKProcessors'
      BY <2>4 DEF ProcInv
    <3> QED
      BY <2>1, <2>3, <3>2, <3>3, <3>4, <3>5, <3>6, <3>7 DEF TypeOK
  <2>6. GatingInv'
    <3>1. BehindOK(p)'
      BY <2>1, <2>3 DEF GatingInv, BehindOK
    <3> QED
      BY <2>1, <2>3, <3>1, GatingFrame DEF GatingInv
  <2>7. ClaimInv'
    <3>1. ClaimOK(p)'
      BY <2>1, <2>2 DEF ClaimOK
    <3>2. ASSUME NEW q \in Producers \ {p}
          PROVE  /\ ClaimOK(q)' /\ (Active(q)' => Active(q))
                 /\ Active(q) => Last(q) <= cursor
                 /\ Last(q)' = Last(q) /\ current'[q] = current[q]
      <4>1. ClaimOK(q) /\ Last(q) \in Int
        BY Types DEF ClaimInv
      <4> QED
        BY <2>1, <2>2, <4>1 DEF ClaimOK, Active, OthersKept
    <3>3. ASSUME NEW q \in Producers, NEW r \in Producers, q # r
          PROVE  Apart(q, r)'
      <4>1. CASE q = p
        BY <2>1, <3>2, <3>3, <4>1 DEF Apart
      <4>2. CASE r = p
        BY <2>1, <3>2, <3>3, <4>2 DEF Apart
      <4>3. CASE q # p /\ r # p
        BY <3>2, <3>3, <4>3 DEF Apart, ClaimInv
      <4> QED
        BY <4>1, <4>2, <4>3
    <3> QED
      BY <3>1, <3>2, <3>3 DEF ClaimInv
  <2>8. \A s : Raised(s)' <=> Raised(s)
    BY <2>3 DEF Raised
  <2>9. \A s \in cursor + 1 .. top : ~Raised(s)
    BY <2>2, NotRaisedAhead
  <2>10. \A q \in Producers \ {p} : Owned(q)' = Owned(q) /\ Filled(q)' = Filled(q)
    BY <2>1 DEF Owned, Active, First, Filled, OthersKept
  <2>11. OwnedInv'
    <3>1. ASSUME NEW q \in Producers \ {p}
          PROVE  OwnedOK(q)'
      BY <2>3, <2>8, <2>10 DEF OwnedInv, OwnedOK
    <3>2. OwnedOK(p)'
      <4>1. ASSUME NEW s \in cursor + 1 .. top, NEW c \in Consumers
            PROVE  next[c] <= s
        <5>1. next[c] <= cursor + 1 /\ next[c] \in Int
          BY Types DEF ProcInv, ProgressInv
        <5> QED
          BY <2>2, <5>1
      <4> QED
        BY <2>1, <2>3, <2>8, <2>9, <4>1 DEF OwnedOK
    <3>3. ASSUME NEW s \in 0 .. cursor'
          PROVE  Raised(s)' \/ \E q \in Producers : s \in Owned(q)'
      <4>1. CASE s \in 0 .. cursor
        <5>1. Raised(s) \/ \E q \in Producers : s \in Owned(q)
          BY <4>1 DEF OwnedInv
        <5>2. Owned(p) = {}
          BY <2>3 DEF Owned, Active
        <5> QED
          BY <2>8, <2>10, <5>1, <5>2
      <4>2. CASE s \notin 0 .. cursor
        BY <2>1, <2>2, <4>2
      <4> QED
        BY <4>1, <4>2
    <3> QED
      BY <3>1, <3>2, <3>3 DEF OwnedInv
  <2>12. ProbeInv'
    BY <2>3, <2>8 DEF ProbeInv, ProbeOK
  <2>13. SlotsInv'
    <3> SUFFICES ASSUME FlagsOrdered, "copy" \notin Overloads
                 PROVE  /\ \A q \in Producers : FilledOK(q)'
                        /\ \A c \in Consumers : IntactOK(c)'
      BY DEF SlotsInv
    <3>1. ASSUME NEW q \in Producers
          PROVE  FilledOK(q)'
      BY <2>1, <2>3, <2>10 DEF SlotsInv, FilledOK
    <3>2. ASSUME NEW c \in Consumers
          PROVE  IntactOK(c)'
      <4> SUFFICES ASSUME NEW s \in next[c] .. cursor', Raised(s)
                   PROVE  slots[CalculateIndex(s)] = s
        BY <2>3, <2>8 DEF IntactOK
      <4>1. next[c] \in Int
        BY Types
      <4>2. s \in next[c] .. cursor
        BY <2>1, <2>2, <2>9, <4>1
      <4> QED
        BY <4>2 DEF SlotsInv, IntactOK
    <3> QED
      BY <3>1, <3>2
  <2> QED
    BY <2>4, <2>5, <2>6, <2>7, <2>11, <2>12, <2>13
<1> QED
  BY <1>1, <1>2

-----------------------------------------------------------------------------
(* What the steps of a claimed batch have in common.                        *)

LEMMA BatchFrame ==
  ASSUME MultiInv, NEW p \in Producers, OthersKept(p),
         UNCHANGED <<cursor, next, gating, gatingCache>>,
         producerPc'[p] \notin {"scan", "cas"}, Active(p),
         current'[p] = current[p], Last(p)' = Last(p), ClaimOK(p)'
  PROVE  GatingInv' /\ ClaimInv'
<1> USE DEF MultiInv
<1>1. GatingInv'
  <2>1. BehindOK(p)'
    BY DEF GatingInv, BehindOK, Active
  <2> QED
    BY <2>1, GatingFrame DEF GatingInv
<1>2. ASSUME NEW q \in Producers
      PROVE  /\ ClaimOK(q)' /\ (Active(q)' => Active(q))
             /\ Last(q)' = Last(q) /\ current'[q] = current[q]
  <2>1. CASE q = p
    BY <2>1
  <2>2. CASE q # p
    BY <2>2 DEF ClaimInv, ClaimOK, Active, OthersKept
  <2> QED
    BY <2>1, <2>2
<1>3. ClaimInv'
  BY <1>2 DEF ClaimInv, Apart
<1> QED
  BY <1>1, <1>3

LEMMA OwnedFrame ==
  ASSUME MultiInv, NEW p \in Producers, OthersKept(p),
         UNCHANGED <<cursor, next, flags>>, Owned(p)' = Owned(p)
  PROVE  OwnedInv'
<1>1. ASSUME NEW q \in Producers
      PROVE  Owned(q)' = Owned(q)
  BY DEF Owned, Active, First, OthersKept
<1>2. \A s : Raised(s)' <=> Raised(s)
  BY DEF Raised
<1> QED
  BY <1>1, <1>2 DEF MultiInv, OwnedInv, OwnedOK

LEMMA FilledFrame ==
  ASSUME NEW p \in Producers, OthersKept(p), NEW q \in Producers \ {p}
  PROVE  Filled(q)' = Filled(q)
BY DEF Filled, OthersKept

LEMMA ProbeFrame ==
  ASSUME MultiInv, UNCHANGED <<next, available, probed>>,
         \A c \in Consumers :
           pc'[c] = pc[c] \/ (pc[c] = "sleeping" /\ pc'[c] = "lock"),
         \A s \in Int : Raised(s) => Raised(s)'
  PROVE  ProbeInv'
<1> SUFFICES ASSUME NEW c \in Consumers
             PROVE  ProbeOK(c)'
  BY DEF ProbeInv
<1>1. next[c] \in Int /\ available[c] \in Int /\ probed[c] \in Int
  BY Types DEF MultiInv
<1>2. ProbeOK(c)
  BY DEF MultiInv, ProbeInv
<1>3. CASE pc'[c] = pc[c]
  BY <1>1, <1>2, <1>3 DEF ProbeOK
<1>4. CASE pc[c] = "sleeping" /\ pc'[c] = "lock"
  BY <1>2, <1>4 DEF ProbeOK
<1> QED
  BY <1>3, <1>4

-----------------------------------------------------------------------------
(* Writing the events.                                                      *)

(* Where the loop of a batch is, is claimed; it is still to be published    *)
(* while the event, or its flag, is.                                        *)
LEMMA WritingOwned ==
  ASSUME MultiInv, NEW p \in Producers, producerPc[p] \in {"translate", "publish"}
  PROVE  /\ writing[p] \in Owned(p) /\ writing[p] \in Window
         /\ writing[p] \in Int /\ current[p] \in Int /\ Last(p) \in Int
         /\ writing[p] \in 0 .. cursor
         /\ current[p] < writing[p] /\ writing[p] <= Last(p)
<1> USE DEF MultiInv
<1>1. writing[p] \in Int /\ current[p] \in Int /\ Last(p) \in Int
  BY Types
<1>2. Active(p) /\ current[p] < writing[p] /\ writing[p] <= Last(p)
  BY DEF ClaimInv, ClaimOK, Active
<1>3. writing[p] \in First(p) .. Last(p)
  BY <1>1, <1>2 DEF First
<1>4. writing[p] \in Owned(p)
  BY <1>2, <1>3 DEF Owned
<1>5. writing[p] \in Window /\ 0 <= writing[p] /\ writing[p] <= cursor
  BY <1>4, OwnedInWindow
<1> QED
  BY <1>1, <1>2, <1>4, <1>5, Types

(* What TypeOK says of the variables that a batch does not touch.           *)
LEMMA BatchTypes ==
  ASSUME MultiInv, TypeOKProcessors', NEW p \in Producers,
         UNCHANGED <<cursor, available, gating, gatingCache, purpose, delta, overload,
                     current, minimum, ungated, calls, probed>>,
         slots' \in [0 .. BufferSize - 1 -> kAlertedSignal .. cursor],
         flags' \in [0 .. BufferSize - 1 -> Int],
         \A i \in 0 .. BufferSize - 1 :
           flags'[i] = -1 \/ BufferSize * flags'[i] + i \in 0 .. cursor,
         NEW l \in {"idle", "translate", "publish", "late", "signal"},
         producerPc' = [producerPc EXCEPT ![p] = l],
         NEW w \in kAlertedSignal .. cursor,
         writing' = [writing EXCEPT ![p] = w]
  PROVE  /\ TypeOK'
         /\ OthersKept(p)
         /\ producerPc'[p] = l /\ writing'[p] = w
         /\ current'[p] = current[p] /\ overload'[p] = overload[p]
         /\ Last(p)' = Last(p)
<1>1. /\ producerPc' \in [Producers -> {"idle", "loadCursor", "loadCache", "scan", "cas",
                                        "translate", "publish", "late", "signal"}]
      /\ writing' \in [Producers -> kAlertedSignal .. cursor]
  BY DEF MultiInv, TypeOK
<1>2. TypeOK'
  BY <1>1 DEF MultiInv, TypeOK
<1>3. /\ OthersKept(p)
      /\ producerPc'[p] = l /\ writing'[p] = w
      /\ current'[p] = current[p] /\ overload'[p] = overload[p]
      /\ Last(p)' = Last(p)
  BY DEF MultiInv, TypeOK, OthersKept, Last
<1> QED
  BY <1>2, <1>3

LEMMA TranslateInv ==
  ASSUME MultiInv, NEW p \in Producers, Translate(p)
  PROVE  MultiInv'
<1> DEFINE w == writing[p]
           l == IF overload[p] # "translator" /\ w < Last(p) THEN "translate"
                ELSE "publish"
           v == IF overload[p] = "translator" THEN w
                ELSE IF w < Last(p) THEN w + 1 ELSE current[p] + 1
<1>1. /\ w \in Owned(p) /\ w \in Window
      /\ w \in Int /\ current[p] \in Int /\ Last(p) \in Int
      /\ w \in 0 .. cursor
      /\ current[p] < w /\ w <= Last(p)
  BY WritingOwned DEF Translate
<1>2. /\ producerPc[p] = "translate" /\ Active(p)
      /\ kInitialCursorValue <= current[p] /\ Last(p) <= cursor
      /\ cursor \in Int
  BY Types DEF Translate, Active, MultiInv, ClaimInv, ClaimOK
<1>3. /\ UNCHANGED <<waitVars, procVars, gating, flags, gatingCache, purpose, delta,
                     overload, current, minimum, ungated, calls, probed>>
      /\ WriteSlot(overload[p], w)
  BY DEF Translate
<1>4. /\ producerPc' = [producerPc EXCEPT ![p] = l]
      /\ writing' = [writing EXCEPT ![p] = v]
  <2>1. /\ producerPc \in [Producers -> {"idle", "loadCursor", "loadCache", "scan", "cas",
                                         "translate", "publish", "late", "signal"}]
        /\ writing \in [Producers -> kAlertedSignal .. cursor]
    BY DEF MultiInv, TypeOK
  <2>2. CASE overload[p] = "translator"
    BY <2>1, <2>2 DEF Translate, ProducerGoto
  <2>3. CASE overload[p] # "translator" /\ w < Last(p)
    BY <1>2, <2>1, <2>3 DEF Translate, ProducerGoto
  <2>4. CASE overload[p] # "translator" /\ w = Last(p)
    BY <1>1, <2>4 DEF Translate, ProducerGoto
  <2> QED
    BY <1>1, <2>2, <2>3, <2>4
<1>5. /\ l \in {"idle", "translate", "publish", "late", "signal"}
      /\ v \in kAlertedSignal .. cursor
      /\ v \in Int /\ current[p] < v /\ v <= Last(p)
  BY <1>1, <1>2 DEF kInitialCursorValue, kAlertedSignal
<1>6. slots' \in [0 .. BufferSize - 1 -> kAlertedSignal .. cursor]
  <2>1. slots \in [0 .. BufferSize - 1 -> kAlertedSignal .. cursor]
    BY DEF MultiInv, TypeOK
  <2>2. w \in kAlertedSignal .. cursor
    BY <1>1, <1>2 DEF kAlertedSignal
  <2> QED
    BY <1>3, <2>1, <2>2 DEF WriteSlot
<1>7. ProcInv'
  BY <1>3, UnchangedProcInv DEF MultiInv
<1>8. /\ TypeOK'
      /\ OthersKept(p)
      /\ producerPc'[p] = l /\ writing'[p] = v
      /\ current'[p] = current[p] /\ overload'[p] = overload[p]
      /\ Last(p)' = Last(p)
  <2>1. /\ flags' \in [0 .. BufferSize - 1 -> Int]
        /\ \A i \in 0 .. BufferSize - 1 :
             flags'[i] = -1 \/ BufferSize * flags'[i] + i \in 0 .. cursor
    BY <1>3 DEF MultiInv, TypeOK
  <2>2. TypeOKProcessors'
    BY <1>7 DEF ProcInv
  <2> HIDE DEF l, v
  <2> QED
    BY <1>3, <1>4, <1>5, <1>6, <2>1, <2>2, BatchTypes DEF waitVars
<1>9. GatingInv' /\ ClaimInv'
  <2>1. ClaimOK(p)'
    BY <1>1, <1>2, <1>3, <1>5, <1>8 DEF ClaimOK, Active, waitVars
  <2> QED
    BY <1>2, <1>3, <1>8, <2>1, BatchFrame DEF waitVars
<1>10. OwnedInv'
  <2>1. Owned(p)' = Owned(p)
    BY <1>1, <1>2, <1>8 DEF Owned, Active, First
  <2> QED
    BY <1>3, <1>8, <2>1, OwnedFrame DEF waitVars
<1>11. ProbeInv'
  BY <1>3, ProbeFrame DEF Raised, waitVars
<1>12. SlotsInv'
  <2> SUFFICES ASSUME FlagsOrdered, "copy" \notin Overloads
               PROVE  /\ \A q \in Producers : FilledOK(q)'
                      /\ \A c \in Consumers : IntactOK(c)'
    BY DEF SlotsInv
  <2> USE DEF MultiInv
  <2>1. ASSUME NEW s \in Window, s # w => slots[CalculateIndex(s)] = s
        PROVE  slots'[CalculateIndex(s)] = s
    <3>1. overload[p] # "copy"
      BY DEF TypeOK
    <3>2. s \in Int
      BY DEF Window
    <3>3. CASE s = w
      BY <1>3, <3>1, <3>2, <3>3, FlagType DEF WriteSlot, TypeOK
    <3>4. CASE s # w
      <4>1. CalculateIndex(s) # CalculateIndex(w)
        BY <1>1, <3>4, WindowDistinct
      <4> QED
        BY <1>3, <2>1, <3>1, <3>2, <3>4, <4>1, FlagType DEF WriteSlot, TypeOK
    <3> QED
      BY <3>3, <3>4
  <2>2. ASSUME NEW q \in Producers, NEW s \in Filled(q)'
        PROVE  s \in Window /\ (s # w => slots[CalculateIndex(s)] = s)
    <3>1. CASE q # p
      <4>1. s \in Filled(q)
        BY <1>8, <2>2, <3>1, FilledFrame
      <4> QED
        BY <4>1, OwnedInWindow DEF SlotsInv, FilledOK
    <3>2. CASE q = p
      <4>1. s \in Filled(p) \cup {w}
        BY <1>1, <1>2, <1>8, <2>2, <3>2 DEF Filled
      <4> QED
        BY <1>1, <4>1, OwnedInWindow DEF SlotsInv, FilledOK
    <3> QED
      BY <3>1, <3>2
  <2>3. \A q \in Producers : FilledOK(q)'
    BY <2>1, <2>2 DEF FilledOK
  <2>4. ASSUME NEW c \in Consumers, NEW s \in next[c] .. cursor, Raised(s)
        PROVE  slots'[CalculateIndex(s)] = s
    <3>1. s \in Window
      BY UnhandledInWindow
    <3>2. slots[CalculateIndex(s)] = s
      BY <2>4 DEF SlotsInv, IntactOK
    <3> QED
      BY <2>1, <3>1, <3>2
  <2> QED
    BY <1>3, <2>3, <2>4 DEF IntactOK, Raised, waitVars
<1> QED
  BY <1>7, <1>8, <1>9, <1>10, <1>11, <1>12 DEF MultiInv

-----------------------------------------------------------------------------
(* Setting the flags.                                                       *)

LEMMA RaiseFlag ==
  ASSUME MultiInv, NEW p \in Producers, NEW w \in Owned(p), SetAvailable(w),
         UNCHANGED cursor
  PROVE  /\ Raised(w)'
         /\ \A s \in Int : Raised(s) => Raised(s)'
         /\ \A s \in Window : Raised(s)' => Raised(s) \/ s = w
         /\ flags' \in [0 .. BufferSize - 1 -> Int]
         /\ \A i \in 0 .. BufferSize - 1 :
              flags'[i] = -1 \/ BufferSize * flags'[i] + i \in 0 .. cursor
<1> USE DEF MultiInv
<1> DEFINE j == CalculateIndex(w)
           f == CalculateAvailableFlag(w)
<1>1. /\ w \in Window /\ w \in Int /\ w \in 0 .. cursor /\ ~Raised(w)
  BY OwnedInWindow, Types DEF OwnedInv, OwnedOK
<1>2. /\ f \in Int /\ j \in 0 .. BufferSize - 1 /\ BufferSize * f + j = w
  BY <1>1, FlagType
<1>3. /\ flags \in [0 .. BufferSize - 1 -> Int]
      /\ \A i \in 0 .. BufferSize - 1 :
           flags[i] = -1 \/ BufferSize * flags[i] + i \in 0 .. cursor
  BY DEF TypeOK
<1>4. flags' = [flags EXCEPT ![j] = f]
  BY DEF SetAvailable
<1>5. flags[j] < f
  BY <1>1, <1>2, <1>3 DEF Raised
<1>6. ASSUME NEW s \in Int
      PROVE  /\ CalculateAvailableFlag(s) \in Int
             /\ CalculateIndex(s) \in 0 .. BufferSize - 1
  BY FlagType
<1> HIDE DEF j, f
<1>7. Raised(w)'
  BY <1>2, <1>3, <1>4 DEF Raised, j, f
<1>8. ASSUME NEW s \in Int, Raised(s)
      PROVE  Raised(s)'
  <2>1. CASE CalculateIndex(s) = j
    BY <1>2, <1>3, <1>4, <1>5, <1>6, <1>8, <2>1 DEF Raised
  <2>2. CASE CalculateIndex(s) # j
    BY <1>3, <1>4, <1>6, <1>8, <2>2 DEF Raised
  <2> QED
    BY <2>1, <2>2
<1>9. ASSUME NEW s \in Window, Raised(s)', s # w
      PROVE  Raised(s)
  <2>1. CalculateIndex(s) # j /\ s \in Int
    BY <1>1, <1>9, WindowDistinct DEF j, Window
  <2> QED
    BY <1>3, <1>4, <1>6, <1>9, <2>1 DEF Raised
<1>10. /\ flags' \in [0 .. BufferSize - 1 -> Int]
       /\ \A i \in 0 .. BufferSize - 1 :
            flags'[i] = -1 \/ BufferSize * flags'[i] + i \in 0 .. cursor
  <2>1. ASSUME NEW i \in 0 .. BufferSize - 1
        PROVE  flags'[i] = -1 \/ BufferSize * flags'[i] + i \in 0 .. cursor
    <3>1. CASE i = j
      <4>1. flags'[i] = f
        BY <1>2, <1>3, <1>4, <3>1
      <4> QED
        BY <1>1, <1>2, <3>1, <4>1
    <3>2. CASE i # j
      <4>1. flags'[i] = flags[i]
        BY <1>3, <1>4, <3>2
      <4> QED
        BY <1>3, <4>1
    <3> QED
      BY <3>1, <3>2
  <2> QED
    BY <1>2, <1>3, <1>4, <2>1
<1> QED
  BY <1>7, <1>8, <1>9, <1>10

(* Two producers do not own the same sequence.                              *)
LEMMA OwnedApart ==
  ASSUME MultiInv, NEW p \in Producers, NEW q \in Producers, p # q,
         NEW s \in Owned(p)
  PROVE  s \notin Owned(q)
<1> SUFFICES ASSUME s \in Owned(q)
             PROVE  FALSE
  OBVIOUS
<1>1. /\ s \in Int /\ current[p] < s /\ s <= Last(p) /\ current[q] < s /\ s <= Last(q)
  BY OwnedInWindow DEF MultiInv
<1>2. Last(p) <= current[q] \/ Last(q) <= current[p]
  BY DEF MultiInv, ClaimInv, Apart, Owned
<1>3. current[p] \in Int /\ Last(p) \in Int /\ current[q] \in Int /\ Last(q) \in Int
  BY Types DEF MultiInv
<1> QED
  BY <1>1, <1>2, <1>3

(* The sequence whose flag is set is no longer its producer's.              *)
LEMMA RaisedOwned ==
  ASSUME MultiInv, NEW p \in Producers, OthersKept(p), NEW w \in Owned(p),
         SetAvailable(w), Owned(p)' = Owned(p) \ {w},
         UNCHANGED <<cursor, next, pc, available, probed>>
  PROVE  OwnedInv' /\ ProbeInv'
<1>1. /\ Raised(w)'
      /\ \A s \in Int : Raised(s) => Raised(s)'
      /\ \A s \in Window : Raised(s)' => Raised(s) \/ s = w
  BY RaiseFlag
<1>2. ASSUME NEW q \in Producers
      PROVE  Owned(q)' = Owned(q) \ {w}
  <2>1. CASE q = p
    BY <2>1
  <2>2. CASE q # p
    <3>1. Owned(q)' = Owned(q)
      BY <2>2 DEF Owned, Active, First, OthersKept
    <3> QED
      BY <2>2, <3>1, OwnedApart
  <2> QED
    BY <2>1, <2>2
<1>3. ASSUME NEW q \in Producers
      PROVE  OwnedOK(q)'
  <2> SUFFICES ASSUME NEW s \in Owned(q) \ {w}
               PROVE  ~Raised(s)' /\ \A c \in Consumers : next[c] <= s
    BY <1>2 DEF OwnedOK
  <2>1. ~Raised(s) /\ s \in Window
    BY OwnedInWindow DEF MultiInv, OwnedInv, OwnedOK
  <2> QED
    BY <1>1, <2>1 DEF MultiInv, OwnedInv, OwnedOK
<1>4. ASSUME NEW s \in 0 .. cursor
      PROVE  Raised(s)' \/ \E q \in Producers : s \in Owned(q)'
  BY <1>1, <1>2 DEF MultiInv, OwnedInv
<1>5. OwnedInv'
  BY <1>3, <1>4 DEF OwnedInv
<1>6. ProbeInv'
  BY <1>1, ProbeFrame
<1> QED
  BY <1>5, <1>6

LEMMA PublishInv ==
  ASSUME MultiInv, NEW p \in Producers, Publish(p)
  PROVE  MultiInv'
<1>0. PICK w \in Owned(p) : w = writing[p]
  BY WritingOwned DEF Publish
<1> DEFINE more == overload[p] # "translator" /\ w < Last(p)
           l == IF more THEN "publish" ELSE "signal"
           v == IF more THEN w + 1 ELSE w
<1>1. /\ w \in Owned(p) /\ w \in Window
      /\ w \in Int /\ current[p] \in Int /\ Last(p) \in Int
      /\ w \in 0 .. cursor
      /\ current[p] < w /\ w <= Last(p)
  BY <1>0, WritingOwned DEF Publish
<1>2. /\ producerPc[p] = "publish" /\ Active(p)
      /\ kInitialCursorValue <= current[p] /\ Last(p) <= cursor
      /\ cursor \in Int
  BY Types DEF Publish, Active, MultiInv, ClaimInv, ClaimOK
<1>3. /\ UNCHANGED <<waitVars, procVars, slots, gating, gatingCache, purpose, delta,
                     overload, current, minimum, ungated, calls, probed>>
      /\ SetAvailable(w)
  BY <1>0 DEF Publish
<1>4. /\ producerPc' = [producerPc EXCEPT ![p] = l]
      /\ writing' = [writing EXCEPT ![p] = v]
  <2>1. /\ producerPc \in [Producers -> {"idle", "loadCursor", "loadCache", "scan", "cas",
                                         "translate", "publish", "late", "signal"}]
        /\ writing \in [Producers -> kAlertedSignal .. cursor]
    BY DEF MultiInv, TypeOK
  <2>2. CASE more
    BY <1>0, <1>2, <2>1, <2>2 DEF Publish, ProducerGoto
  <2>3. CASE ~more
    BY <1>0, <1>2, <2>1, <2>3 DEF Publish, ProducerGoto
  <2> QED
    BY <2>2, <2>3
<1>5. /\ l \in {"idle", "translate", "publish", "late", "signal"}
      /\ v \in kAlertedSignal .. cursor
      /\ v \in Int /\ current[p] < v /\ v <= Last(p)
  BY <1>1, <1>2 DEF kInitialCursorValue, kAlertedSignal
<1>6. /\ Raised(w)'
      /\ \A s \in Int : Raised(s) => Raised(s)'
      /\ \A s \in Window : Raised(s)' => Raised(s) \/ s = w
      /\ flags' \in [0 .. BufferSize - 1 -> Int]
      /\ \A i \in 0 .. BufferSize - 1 :
           flags'[i] = -1 \/ BufferSize * flags'[i] + i \in 0 .. cursor
  BY <1>1, <1>3, RaiseFlag DEF waitVars
<1>7. ProcInv'
  BY <1>3, UnchangedProcInv DEF MultiInv
<1>8. /\ TypeOK'
      /\ OthersKept(p)
      /\ producerPc'[p] = l /\ writing'[p] = v
      /\ current'[p] = current[p] /\ overload'[p] = overload[p]
      /\ Last(p)' = Last(p)
  <2>1. slots' \in [0 .. BufferSize - 1 -> kAlertedSignal .. cursor]
    BY <1>3 DEF MultiInv, TypeOK
  <2>2. TypeOKProcessors'
    BY <1>7 DEF ProcInv
  <2> HIDE DEF l, v
  <2> QED
    BY <1>3, <1>4, <1>5, <1>6, <2>1, <2>2, BatchTypes DEF waitVars
<1>9. GatingInv' /\ ClaimInv'
  <2>1. ClaimOK(p)'
    BY <1>1, <1>2, <1>3, <1>5, <1>8 DEF ClaimOK, Active, waitVars
  <2> QED
    BY <1>2, <1>3, <1>8, <2>1, BatchFrame DEF waitVars
<1>10. OwnedInv' /\ ProbeInv'
  <2>1. Owned(p) = w .. Last(p)
    BY <1>0, <1>2 DEF Owned, First
  <2>2. Owned(p)' = w + 1 .. Last(p)
    BY <1>1, <1>8 DEF Owned, Active, First
  <2>3. Owned(p)' = Owned(p) \ {w}
    BY <1>1, <2>1, <2>2
  <2> QED
    BY <1>1, <1>3, <1>8, <2>3, RaisedOwned DEF waitVars
<1>11. SlotsInv'
  <2> SUFFICES ASSUME FlagsOrdered, "copy" \notin Overloads
               PROVE  /\ \A q \in Producers : FilledOK(q)'
                      /\ \A c \in Consumers : IntactOK(c)'
    BY DEF SlotsInv
  <2> USE DEF MultiInv
  <2>1. ASSUME NEW q \in Producers, NEW s \in Filled(q)'
        PROVE  s \in Filled(q)
    <3>1. CASE q # p
      BY <1>8, <2>1, <3>1, FilledFrame
    <3>2. CASE q = p
      BY <1>0, <1>1, <1>2, <1>8, <2>1, <3>2 DEF Filled
    <3> QED
      BY <3>1, <3>2
  <2>2. \A q \in Producers : FilledOK(q)'
    BY <1>3, <2>1 DEF SlotsInv, FilledOK
  <2>3. w \in Filled(p)
    BY <1>0, <1>1, <1>2 DEF Filled
  <2>4. ASSUME NEW c \in Consumers, NEW s \in next[c] .. cursor, Raised(s)'
        PROVE  slots[CalculateIndex(s)] = s
    <3>1. s \in Window
      BY UnhandledInWindow
    <3>2. CASE s = w
      BY <2>3, <3>2 DEF SlotsInv, FilledOK
    <3>3. CASE Raised(s)
      BY <3>3 DEF SlotsInv, IntactOK
    <3> QED
      BY <1>6, <2>4, <3>1, <3>2, <3>3
  <2> QED
    BY <1>3, <2>2, <2>4 DEF IntactOK, waitVars
<1> QED
  BY <1>7, <1>8, <1>9, <1>10, <1>11 DEF MultiInv

LEMMA PublishReorderedInv ==
  ASSUME MultiInv, NEW p \in Producers, PublishReordered(p)
  PROVE  MultiInv'
<1>0. PICK w \in Owned(p) : w = writing[p]
  BY WritingOwned DEF PublishReordered
<1>1. /\ w \in Int /\ current[p] \in Int /\ Last(p) \in Int
      /\ w \in kAlertedSignal .. cursor
      /\ current[p] < w /\ w <= Last(p)
  BY <1>0, WritingOwned, Types DEF PublishReordered, MultiInv, kAlertedSignal
<1>2. /\ ~FlagsOrdered
      /\ producerPc[p] = "translate" /\ overload[p] = "translator" /\ Active(p)
      /\ kInitialCursorValue <= current[p] /\ Last(p) <= cursor
  BY DEF PublishReordered, Active, MultiInv, ClaimInv, ClaimOK
<1>3. /\ UNCHANGED <<waitVars, procVars, slots, gating, gatingCache, purpose, delta,
                     overload, current, minimum, ungated, writing, calls, probed>>
      /\ SetAvailable(w)
      /\ producerPc' = [producerPc EXCEPT ![p] = "late"]
  BY <1>0 DEF PublishReordered, ProducerGoto
<1>4. writing' = [writing EXCEPT ![p] = w]
  BY <1>0, <1>3 DEF MultiInv, TypeOK
<1>5. /\ flags' \in [0 .. BufferSize - 1 -> Int]
      /\ \A i \in 0 .. BufferSize - 1 :
           flags'[i] = -1 \/ BufferSize * flags'[i] + i \in 0 .. cursor
  BY <1>3, RaiseFlag DEF waitVars
<1>6. ProcInv'
  BY <1>3, UnchangedProcInv DEF MultiInv
<1>7. /\ TypeOK'
      /\ OthersKept(p)
      /\ producerPc'[p] = "late" /\ writing'[p] = w
      /\ current'[p] = current[p] /\ overload'[p] = overload[p]
      /\ Last(p)' = Last(p)
  <2>1. slots' \in [0 .. BufferSize - 1 -> kAlertedSignal .. cursor]
    BY <1>3 DEF MultiInv, TypeOK
  <2>2. TypeOKProcessors'
    BY <1>6 DEF ProcInv
  <2> QED
    BY <1>1, <1>3, <1>4, <1>5, <2>1, <2>2, BatchTypes DEF waitVars
<1>8. GatingInv' /\ ClaimInv'
  <2>1. ClaimOK(p)'
    BY <1>1, <1>2, <1>3, <1>7 DEF ClaimOK, waitVars
  <2> QED
    BY <1>2, <1>3, <1>7, <2>1, BatchFrame DEF waitVars
<1>9. OwnedInv' /\ ProbeInv'
  <2>1. Owned(p) = w .. Last(p)
    BY <1>0, <1>2 DEF Owned, First
  <2>2. Owned(p)' = w + 1 .. Last(p)
    BY <1>7 DEF Owned, Active, First
  <2>3. Owned(p)' = Owned(p) \ {w}
    BY <1>1, <2>1, <2>2
  <2> QED
    BY <1>3, <1>7, <2>3, RaisedOwned DEF waitVars
<1>10. SlotsInv'
  BY <1>2 DEF SlotsInv
<1> QED
  BY <1>6, <1>7, <1>8, <1>9, <1>10 DEF MultiInv

LEMMA TranslateReorderedInv ==
  ASSUME MultiInv, NEW p \in Producers, TranslateReordered(p)
  PROVE  MultiInv'
<1>1. /\ ~FlagsOrdered
      /\ producerPc[p] = "late" /\ overload[p] = "translator" /\ Active(p)
      /\ kInitialCursorValue <= current[p] /\ Last(p) <= cursor
      /\ current[p] < writing[p] /\ writing[p] <= Last(p)
  BY DEF TranslateReordered, Active, MultiInv, ClaimInv, ClaimOK
<1>2. /\ UNCHANGED <<waitVars, procVars, gating, flags, gatingCache, purpose, delta,
                     overload, current, minimum, ungated, writing, calls, probed>>
      /\ WriteSlot(overload[p], writing[p])
      /\ producerPc' = [producerPc EXCEPT ![p] = "signal"]
  BY DEF TranslateReordered, ProducerGoto
<1>3. /\ writing' = [writing EXCEPT ![p] = writing[p]]
      /\ writing[p] \in kAlertedSignal .. cursor
  BY <1>2 DEF MultiInv, TypeOK
<1>4. slots' \in [0 .. BufferSize - 1 -> kAlertedSignal .. cursor]
  BY <1>2, <1>3 DEF MultiInv, TypeOK, WriteSlot
<1>5. ProcInv'
  BY <1>2, UnchangedProcInv DEF MultiInv
<1>6. /\ TypeOK'
      /\ OthersKept(p)
      /\ producerPc'[p] = "signal" /\ writing'[p] = writing[p]
      /\ current'[p] = current[p] /\ overload'[p] = overload[p]
      /\ Last(p)' = Last(p)
  <2>1. /\ flags' \in [0 .. BufferSize - 1 -> Int]
        /\ \A i \in 0 .. BufferSize - 1 :
             flags'[i] = -1 \/ BufferSize * flags'[i] + i \in 0 .. cursor
    BY <1>2 DEF MultiInv, TypeOK
  <2>2. TypeOKProcessors'
    BY <1>5 DEF ProcInv
  <2> QED
    BY <1>2, <1>3, <1>4, <2>1, <2>2, BatchTypes DEF waitVars
<1>7. GatingInv' /\ ClaimInv'
  <2>1. ClaimOK(p)'
    BY <1>1, <1>2, <1>6 DEF ClaimOK, waitVars
  <2> QED
    BY <1>1, <1>2, <1>6, <2>1, BatchFrame DEF waitVars
<1>8. OwnedInv'
  <2>1. Owned(p)' = Owned(p)
    BY <1>1, <1>6 DEF Owned, Active, First
  <2> QED
    BY <1>2, <1>6, <2>1, OwnedFrame DEF waitVars
<1>9. ProbeInv'
  BY <1>2, ProbeFrame DEF Raised, waitVars
<1>10. SlotsInv'
  BY <1>1 DEF SlotsInv
<1> QED
  BY <1>5, <1>6, <1>7, <1>8, <1>9, <1>10 DEF MultiInv

-----------------------------------------------------------------------------
(* The notification, after which the translator overload goes on with its   *)
(* next slot.                                                               *)
LEMMA SignalInv ==
  ASSUME MultiInv, NEW p \in Producers, Signal(p)
  PROVE  MultiInv'
<1> DEFINE w == writing[p]
           more == w < Last(p)
           l == IF more THEN "translate" ELSE "idle"
           v == IF more THEN w + 1 ELSE w
<1>1. /\ producerPc[p] = "signal" /\ Active(p)
      /\ kInitialCursorValue <= current[p] /\ Last(p) <= cursor
      /\ current[p] < w /\ w <= Last(p)
      /\ more => overload[p] = "translator"
  <2>1. writing[p] \in Int /\ Last(p) \in Int
    BY Types DEF MultiInv
  <2> QED
    BY <2>1 DEF Signal, Active, MultiInv, ClaimInv, ClaimOK
<1>2. /\ w \in Int /\ current[p] \in Int /\ Last(p) \in Int /\ cursor \in Int
      /\ w \in kAlertedSignal .. cursor
  BY Types DEF MultiInv, TypeOK
<1>3. /\ UNCHANGED <<cursor, sequence, alerted, mutex, next, available, unread, procVars,
                     sharedVars, purpose, delta, overload, current, minimum, ungated,
                     calls, probed>>
      /\ SignalAllWhenBlocking
  BY DEF Signal
<1>4. /\ producerPc' = [producerPc EXCEPT ![p] = l]
      /\ writing' = [writing EXCEPT ![p] = v]
  <2>1. writing \in [Producers -> kAlertedSignal .. cursor]
    BY DEF MultiInv, TypeOK
  <2>2. CASE more
    BY <1>1, <2>1, <2>2 DEF Signal, ProducerGoto
  <2>3. CASE ~more
    BY <1>1, <2>1, <2>3 DEF Signal, ProducerGoto
  <2> QED
    BY <2>2, <2>3
<1>5. /\ l \in {"idle", "translate", "publish", "late", "signal"}
      /\ v \in kAlertedSignal .. cursor
      /\ v \in Int /\ current[p] < v /\ v <= Last(p)
  BY <1>1, <1>2 DEF kInitialCursorValue, kAlertedSignal
<1>6. ProcInv'
  <2>1. TypeOKProcessors
    BY DEF MultiInv, ProcInv
  <2> QED
    BY <1>3, <2>1, NotifyProcInv DEF MultiInv, procVars, TypeOKProcessors
<1>7. /\ TypeOK'
      /\ OthersKept(p)
      /\ producerPc'[p] = l /\ writing'[p] = v
      /\ current'[p] = current[p] /\ overload'[p] = overload[p]
      /\ Last(p)' = Last(p)
  <2>1. /\ slots' \in [0 .. BufferSize - 1 -> kAlertedSignal .. cursor]
        /\ flags' \in [0 .. BufferSize - 1 -> Int]
        /\ \A i \in 0 .. BufferSize - 1 :
             flags'[i] = -1 \/ BufferSize * flags'[i] + i \in 0 .. cursor
    BY <1>3 DEF MultiInv, TypeOK, sharedVars
  <2>2. TypeOKProcessors'
    BY <1>6 DEF ProcInv
  <2> HIDE DEF l, v
  <2> QED
    BY <1>3, <1>4, <1>5, <2>1, <2>2, BatchTypes DEF sharedVars
<1>8. GatingInv' /\ ClaimInv'
  <2>1. ClaimOK(p)'
    BY <1>1, <1>2, <1>3, <1>5, <1>7 DEF ClaimOK, Active
  <2> QED
    BY <1>1, <1>3, <1>7, <2>1, BatchFrame DEF sharedVars
<1>9. OwnedInv'
  <2>1. Owned(p) = w + 1 .. Last(p)
    BY <1>1 DEF Owned, First
  <2>2. Owned(p)' = w + 1 .. Last(p)
    <3>1. CASE more
      BY <1>1, <1>7, <3>1 DEF Owned, Active, First
    <3>2. CASE ~more
      BY <1>1, <1>2, <1>7, <3>2 DEF Owned, Active
    <3> QED
      BY <3>1, <3>2
  <2> QED
    BY <1>3, <1>7, <2>1, <2>2, OwnedFrame DEF sharedVars
<1>10. ProbeInv'
  <2>1. \A c \in Consumers :
          pc'[c] = pc[c] \/ (pc[c] = "sleeping" /\ pc'[c] = "lock")
    BY <1>3, NotifyMoves DEF MultiInv, ProcInv
  <2> QED
    BY <1>3, <2>1, ProbeFrame DEF Raised, sharedVars
<1>11. SlotsInv'
  <2>1. ASSUME NEW q \in Producers, NEW s \in Filled(q)'
        PROVE  s \in Filled(q)
    <3>1. CASE q # p
      BY <1>7, <2>1, <3>1, FilledFrame
    <3>2. CASE q = p
      BY <1>1, <1>7, <2>1, <3>2 DEF Filled
    <3> QED
      BY <3>1, <3>2
  <2> QED
    BY <1>3, <2>1 DEF MultiInv, SlotsInv, FilledOK, IntactOK, Raised, sharedVars
<1> QED
  BY <1>6, <1>7, <1>8, <1>9, <1>10, <1>11 DEF MultiInv

-----------------------------------------------------------------------------
(* The processors.                                                          *)

(* A flag within a ring of the cursor that is found set is that of this     *)
(* sequence and not of a later round.                                       *)
LEMMA FlaggedRaised ==
  ASSUME TypeOK, NEW s \in Int
  PROVE  /\ Flagged(s) => Raised(s)
         /\ s \in Window /\ Raised(s) => Flagged(s)
<1>1. /\ CalculateAvailableFlag(s) \in Int
      /\ CalculateIndex(s) \in 0 .. BufferSize - 1
      /\ BufferSize * CalculateAvailableFlag(s) + CalculateIndex(s) = s
  BY FlagType
<1> DEFINE i == CalculateIndex(s)
           f == CalculateAvailableFlag(s)
<1> HIDE DEF i, f
<1>2. /\ f \in Int /\ i \in 0 .. BufferSize - 1 /\ BufferSize * f + i = s
  BY <1>1 DEF i, f
<1>3. /\ flags[i] \in Int
      /\ flags[i] = -1 \/ BufferSize * flags[i] + i \in 0 .. cursor
  BY <1>2 DEF TypeOK
<1>4. Flagged(s) => Raised(s)
  BY <1>2, <1>3 DEF Flagged, Raised, f, i
<1>5. ASSUME s \in Window, f < flags[i]
      PROVE  FALSE
  <2>1. cursor \in Int /\ cursor - BufferSize < s /\ -1 <= cursor /\ s <= cursor
    BY <1>5, Types DEF Window, WrapPoint, kInitialCursorValue
  <2>2. BufferSize * flags[i] >= BufferSize * f + BufferSize
    <3> DEFINE k == flags[i] - f - 1
    <3>1. k \in Nat /\ flags[i] = f + 1 + k
      BY <1>2, <1>3, <1>5
    <3> HIDE DEF k
    <3>2. BufferSize * k >= 0
      BY <3>1, BufferSizeAssumption
    <3>3. BufferSize * flags[i] = BufferSize * f + BufferSize + BufferSize * k
      BY <1>2, <3>1, BufferSizeAssumption
    <3> QED
      BY <1>2, <3>1, <3>2, <3>3, BufferSizeAssumption
  <2>3. CASE BufferSize * flags[i] + i \in 0 .. cursor
    BY <1>2, <1>3, <2>1, <2>2, <2>3, BufferSizeAssumption
  <2>4. CASE flags[i] = -1
    <3>1. f <= -2
      BY <1>2, <1>5, <2>4
    <3>2. BufferSize * f <= -2 * BufferSize
      BY <1>2, <2>2, <2>4, <3>1, BufferSizeAssumption
    <3> QED
      BY <1>2, <2>1, <3>2, BufferSizeAssumption
  <2> QED
    BY <1>3, <2>3, <2>4
<1>6. s \in Window /\ Raised(s) => Flagged(s)
  BY <1>2, <1>3, <1>5 DEF Flagged, Raised, f, i
<1> QED
  BY <1>4, <1>6

(* What a processor waits for, or has probed, is claimed.                   *)
LEMMA ProbeBounds ==
  ASSUME MultiInv, NEW c \in Consumers, pc[c] = "probe"
  PROVE  /\ next[c] \in Nat /\ available[c] \in Int /\ probed[c] \in Nat
         /\ next[c] + probed[c] <= available[c]
         /\ available[c] <= cursor /\ cursor \in Int
         /\ available[c] - next[c] < BufferSize
<1>1. /\ next[c] \in Int /\ available[c] \in Int /\ probed[c] \in 0 .. BufferSize
      /\ cursor \in Int
  BY Types DEF MultiInv, TypeOK
<1>2. 0 <= next[c] /\ available[c] <= cursor /\ next[c] + probed[c] <= available[c]
  BY DEF MultiInv, ProcInv, ProgressInv, WaitedInv, WaitedOK, ProbeInv, ProbeOK
<1>3. cursor - BufferSize < next[c]
  BY DEF MultiInv, GatingInv, WrapPoint
<1> QED
  BY <1>1, <1>2, <1>3, BufferSizeAssumption

LEMMA ProbeStepInv ==
  ASSUME MultiInv, NEW c \in Consumers, Probe(c)
  PROVE  MultiInv'
<1> DEFINE s == next[c] + probed[c]
<1>1. /\ pc[c] = "probe"
      /\ next[c] \in Nat /\ available[c] \in Int /\ probed[c] \in Nat
      /\ s <= available[c] /\ available[c] <= cursor /\ cursor \in Int
      /\ available[c] - next[c] < BufferSize
      /\ s \in Int
  BY ProbeBounds DEF Probe
<1>2. UNCHANGED <<cursor, sequence, alerted, mutex, next, unread, procVars,
                  sharedVars, localVars>>
  BY DEF Probe
<1>3. PICK a \in kAlertedSignal .. available[c], n \in 0 .. BufferSize,
           l \in {"probe", "handle"} :
        /\ available' = [available EXCEPT ![c] = a]
        /\ probed' = [probed EXCEPT ![c] = n]
        /\ Goto(c, l)
        /\ l = "probe" => a = available[c] /\ n = probed[c] + 1 /\ s < a
        /\ l = "handle" => n = 0 /\ (a = s - 1 \/ (a = s /\ Raised(s)))
        /\ l = "probe" => Raised(s)
  <2>1. /\ available \in [Consumers -> Int] /\ pc \in [Consumers -> ProcessorPcs]
        /\ probed \in [Consumers -> 0 .. BufferSize]
    BY DEF MultiInv, TypeOK, TypeOKProcessors
  <2>2. /\ Flagged(s) => Raised(s)
        /\ available[c] \in kAlertedSignal .. available[c]
        /\ s - 1 \in kAlertedSignal .. available[c]
        /\ s < available[c] => probed[c] + 1 \in 0 .. BufferSize
        /\ 0 \in 0 .. BufferSize
    BY <1>1, FlaggedRaised, BufferSizeAssumption DEF MultiInv, kAlertedSignal
  <2>3. CASE ~Flagged(s)
    <3>1. /\ available' = [available EXCEPT ![c] = s - 1]
          /\ probed' = [probed EXCEPT ![c] = 0]
          /\ Goto(c, "handle")
      BY <2>3 DEF Probe
    <3> QED
      BY <2>2, <3>1
  <2>4. CASE Flagged(s) /\ s < available[c]
    <3>1. /\ available' = [available EXCEPT ![c] = available[c]]
          /\ probed' = [probed EXCEPT ![c] = probed[c] + 1]
          /\ Goto(c, "probe")
      BY <1>1, <2>1, <2>4 DEF Probe, Goto
    <3> QED
      BY <2>2, <2>4, <3>1
  <2>5. CASE Flagged(s) /\ s = available[c]
    <3>1. /\ available' = [available EXCEPT ![c] = available[c]]
          /\ probed' = [probed EXCEPT ![c] = 0]
          /\ Goto(c, "handle")
      BY <1>1, <2>1, <2>5 DEF Probe, Goto
    <3> QED
      BY <2>2, <2>5, <3>1
  <2> QED
    BY <1>1, <2>3, <2>4, <2>5
<1>4. /\ available'[c] = a /\ probed'[c] = n /\ pc'[c] = l
      /\ \A d \in Consumers \ {c} :
           available'[d] = available[d] /\ probed'[d] = probed[d] /\ pc'[d] = pc[d]
      /\ a \in Int
  BY <1>3 DEF MultiInv, TypeOK, TypeOKProcessors, Goto
<1>5. ProcInv'
  <2>1. WaitFrame
    BY <1>2 DEF WaitFrame, MultiInv, ProcInv, TypeOKProcessors
  <2>2. unread' = [unread EXCEPT ![c] = unread[c]] /\ unread[c] \in SUBSET Consumers
    BY <1>2 DEF MultiInv, TypeOK, TypeOKProcessors
  <2>3. ScanOK(c)'
    BY <1>4 DEF ScanOK
  <2>4. WaitedOK(c)'
    <3>1. /\ kAlertedSignal <= a /\ a <= available[c]
      BY <1>1, <1>3
    <3>2. \A d \in Dependents[c] : available[c] < next[d] /\ next[d] \in Int
      BY <1>1, Types, TopologyAssumption DEF MultiInv, ProcInv, WaitedInv, WaitedOK
    <3> QED
      BY <1>1, <1>2, <1>3, <1>4, <3>1, <3>2 DEF WaitedOK
  <2>5. pc[c] # "idle"
    BY <1>1
  <2> QED
    BY <1>3, <1>4, <2>1, <2>2, <2>3, <2>4, <2>5, FrameProcInv DEF MultiInv
<1>6. TypeOK'
  <2>1. /\ probed' \in [Consumers -> 0 .. BufferSize]
        /\ \A d \in Consumers : available'[d] \in kAlertedSignal .. cursor \cup {LongMax}
    BY <1>1, <1>3, <1>4 DEF MultiInv, TypeOK
  <2> QED
    BY <1>2, <1>5, <2>1 DEF MultiInv, TypeOK, ProcInv, sharedVars, localVars
<1>7. GatingInv' /\ ClaimInv'
  BY <1>2 DEF MultiInv, GatingInv, BehindOK, ClaimInv, ClaimOK, Apart, Active,
     WrapPoint, Last, sharedVars, localVars
<1>8. OwnedInv' /\ SlotsInv'
  BY <1>2 DEF MultiInv, OwnedInv, OwnedOK, Owned, First, Active, Raised, SlotsInv,
     FilledOK, Filled, IntactOK, Last, sharedVars, localVars
<1>9. ProbeInv'
  <2>1. \A t : Raised(t)' <=> Raised(t)
    BY <1>2 DEF Raised, sharedVars
  <2>2. ASSUME NEW d \in Consumers, d # c
        PROVE  ProbeOK(d)'
    BY <1>2, <1>4, <2>1, <2>2 DEF MultiInv, ProbeInv, ProbeOK
  <2>3. ProbeOK(c)'
    <3>1. \A t \in next[c] .. s - 1 : Raised(t)
      BY <1>1 DEF MultiInv, ProbeInv, ProbeOK
    <3>2. CASE l = "probe"
      BY <1>1, <1>2, <1>3, <1>4, <2>1, <3>1, <3>2 DEF ProbeOK
    <3>3. CASE l = "handle"
      BY <1>1, <1>2, <1>3, <1>4, <2>1, <3>1, <3>3 DEF ProbeOK
    <3> QED
      BY <3>2, <3>3
  <2> QED
    BY <2>2, <2>3 DEF ProbeInv
<1> QED
  BY <1>5, <1>6, <1>7, <1>8, <1>9 DEF MultiInv

(* The values a processor can have in available_sequence.                   *)
Answers == {kInitialCursorValue, kAlertedSignal, LongMax, cursor}
             \cup {sequence[d] : d \in Consumers}

LEMMA AnswerPlaces ==
  ASSUME NEW c \in Consumers,
         BeginWaitFor(c) \/ WaitOnDependents(c) \/ ScanDependents(c)
           \/ Return(c, kAlertedSignal)
  PROVE  \E v \in Answers : available' = [available EXCEPT ![c] = v]
BY DEF Answers, BeginWaitFor, WaitOnDependents, ScanDependents, Return

LEMMA ProcessorAnswers ==
  ASSUME TypeOKProcessors, ProcessorNext
  PROVE  \/ available' = available
         \/ \E c \in Consumers :
              \E v \in Answers \cup {available[c]} :
                available' = [available EXCEPT ![c] = v]
<1>1. ASSUME NEW c \in Consumers,
             \/ RunEnter(c) \/ OnEvent(c) \/ Record(c) \/ StopEnter(c)
             \/ SpuriousWake(c) \/ Lock(c)
      PROVE  available' = available
  BY <1>1 DEF RunEnter, OnEvent, Record, StopEnter, SpuriousWake, Lock, waitVars
<1>2. CASE StopStep
  BY <1>2 DEF StopStep, StopAlert, StopSignal
<1>3. ASSUME NEW c \in Consumers, RunStart(c) \/ CheckRunning(c)
      PROVE  \/ available' = available
             \/ \E v \in Answers : available' = [available EXCEPT ![c] = v]
  BY <1>3, AnswerPlaces DEF RunStart, CheckRunning
<1>4. ASSUME NEW c \in Consumers,
             ReadCursor(c) \/ CheckAlert(c) \/ LockedCursor(c) \/ LockedAlert(c)
      PROVE  \/ available' = available
             \/ \E v \in Answers : available' = [available EXCEPT ![c] = v]
  BY <1>4, AnswerPlaces DEF ReadCursor, CheckAlert, LockedCursor, LockedAlert
<1>5. ASSUME NEW c \in Consumers, NEW d \in Dependents[c], ReadDependent(c, d)
      PROVE  \E v \in Answers \cup {available[c]} :
               available' = [available EXCEPT ![c] = v]
  <2>1. d \in Consumers
    BY TopologyAssumption
  <2> QED
    BY <1>5, <2>1 DEF ReadDependent, Minimum, Answers
<1> QED
  BY <1>1, <1>2, <1>3, <1>4, <1>5 DEF ProcessorNext, RunStep, WaitForStep

LEMMA ProcessorNextInv ==
  ASSUME Client, MultiInv, ProcessorNext, UNCHANGED prodVars
  PROVE  MultiInv'
<1> USE DEF MultiInv
<1>1. ProcInv'
  BY ProcessorNextProcInv DEF Client
<1>2. /\ cursor' = cursor
      /\ next' = next \/ \E c \in Consumers : OnEvent(c)
      /\ \A c \in Consumers : next[c] <= next'[c]
  BY ProcessorMoves
<1>3. \A c \in Consumers : next[c] \in Int /\ next'[c] \in Int
  BY <1>1, Types DEF ProcInv, TypeOKProcessors
<1>4. UNCHANGED <<slots, gating, flags, gatingCache, producerPc, purpose, delta, overload,
                  current, minimum, ungated, writing, calls, probed>>
  BY DEF prodVars, sharedVars, localVars
<1>5. TypeOK'
  <2>1. Answers \subseteq kAlertedSignal .. cursor \cup {LongMax}
    <3>1. ASSUME NEW d \in Consumers
          PROVE  sequence[d] \in kAlertedSignal .. cursor
      BY <1>3, Types DEF ProcInv, ProgressInv, kAlertedSignal
    <3> QED
      BY <3>1, Types DEF Answers, kAlertedSignal, kInitialCursorValue
  <2>2. \A c \in Consumers : available'[c] \in kAlertedSignal .. cursor \cup {LongMax}
    <3>1. /\ available \in [Consumers -> Int]
          /\ \A c \in Consumers : available[c] \in kAlertedSignal .. cursor \cup {LongMax}
      BY DEF TypeOK, TypeOKProcessors
    <3>2. \/ available' = available
          \/ \E c \in Consumers :
               \E v \in Answers \cup {available[c]} :
                 available' = [available EXCEPT ![c] = v]
      BY ProcessorAnswers DEF TypeOK
    <3> QED
      BY <2>1, <3>1, <3>2
  <2> QED
    BY <1>1, <1>2, <1>4, <2>2 DEF TypeOK, ProcInv
<1>6. GatingInv' /\ ClaimInv'
  <2>1. GatingInv'
    <3>1. ASSUME NEW c \in Consumers
          PROVE  WrapPoint(cursor) < next'[c] /\ gatingCache < next'[c]
      BY <1>2, <1>3, Types DEF GatingInv
    <3>2. ASSUME NEW p \in Producers
          PROVE  BehindOK(p)'
      <4>1. BehindOK(p) /\ minimum[p] \in Int /\ WrapPoint(Last(p)) \in Int
        BY Types DEF GatingInv
      <4>2. Last(p)' = Last(p) /\ WrapPoint(Last(p))' = WrapPoint(Last(p))
        BY <1>4 DEF Last, WrapPoint
      <4> QED
        BY <1>2, <1>3, <1>4, <4>1, <4>2, GatingAssumption DEF BehindOK
    <3> QED
      BY <1>2, <1>4, <3>1, <3>2 DEF GatingInv, WrapPoint
  <2>2. ClaimInv'
    BY <1>2, <1>4 DEF ClaimInv, ClaimOK, Apart, Active, Last
  <2> QED
    BY <2>1, <2>2
<1>7. /\ \A s : Raised(s)' <=> Raised(s)
      /\ \A p \in Producers : Owned(p)' = Owned(p) /\ Filled(p)' = Filled(p)
  BY <1>4 DEF Raised, Owned, First, Active, Filled, Last
<1>8. OwnedInv'
  <2>1. ASSUME NEW p \in Producers, NEW s \in Owned(p), NEW c \in Consumers
        PROVE  next'[c] <= s
    <3>1. s \in Int /\ ~Raised(s) /\ next[c] <= s
      BY OwnedInWindow DEF OwnedInv, OwnedOK
    <3>2. CASE next'[c] = next[c]
      BY <3>1, <3>2
    <3>3. ASSUME NEW e \in Consumers, OnEvent(e), next'[c] # next[c]
          PROVE  next'[c] <= s
      <4>1. /\ e = c /\ next'[c] = next[c] + 1
            /\ pc[c] = "handle" /\ next[c] <= available[c]
        BY <3>3 DEF OnEvent, TypeOK, TypeOKProcessors
      <4>2. next[c] \in next[c] .. available[c]
        BY <1>3, <4>1, Types
      <4>3. Raised(next[c])
        BY <4>1, <4>2 DEF ProbeInv, ProbeOK
      <4> QED
        BY <1>3, <3>1, <4>1, <4>3
    <3> QED
      BY <1>2, <3>2, <3>3
  <2> QED
    BY <1>2, <1>7, <2>1 DEF OwnedInv, OwnedOK
<1>9. ProbeInv'
  <2> SUFFICES ASSUME NEW c \in Consumers
               PROVE  ProbeOK(c)'
    BY DEF ProbeInv
  <2>1. /\ ProbeOK(c) /\ next[c] \in Int /\ 0 <= next[c] /\ available[c] \in Int
        /\ available'[c] \in Int
    BY <1>1, <1>3, Types DEF ProbeInv, ProcInv, ProgressInv, TypeOKProcessors
  <2>2. CASE pc[c] \in {"probe", "handle"}
    <3>1. CASE pc[c] = "handle" /\ Record(c)
      <4>1. pc'[c] = "recorded"
        BY <3>1 DEF Record, Goto, TypeOK, TypeOKProcessors
      <4> QED
        BY <1>4, <2>1, <3>1, <4>1 DEF ProbeOK
    <3>2. CASE pc[c] = "handle" /\ OnEvent(c)
      <4>1. pc'[c] = "handle" /\ next'[c] = next[c] + 1 /\ available'[c] = available[c]
        BY <3>2 DEF OnEvent, TypeOK, TypeOKProcessors
      <4> QED
        BY <1>4, <1>7, <2>1, <3>2, <4>1 DEF ProbeOK
    <3>3. CASE pc'[c] = pc[c] /\ next'[c] = next[c] /\ available'[c] = available[c]
      BY <1>4, <1>7, <2>1, <2>2, <3>3 DEF ProbeOK
    <3> QED
      BY <2>2, <3>1, <3>2, <3>3, ProcessorEffect
  <2>3. CASE pc[c] \notin {"probe", "handle"}
    <3>1. probed'[c] = 0
      BY <1>4, <2>1, <2>3 DEF ProbeOK
    <3>2. next'[c] = next[c]
      BY <2>3, ProcessorEffect
    <3>3. CASE pc'[c] \notin {"probe", "handle"}
      BY <3>1, <3>3 DEF ProbeOK
    <3>4. CASE pc'[c] \in {"probe", "handle"}
      <4>1. /\ pc'[c] = AfterWaitFor(available'[c])
            /\ next[c] <= available'[c] \/ available'[c] = kAlertedSignal
        BY <2>3, <3>4, ProcessorEffect
      <4>2. CASE pc'[c] = "probe"
        <5>1. next[c] <= available'[c]
          BY <4>1, <4>2 DEF AfterWaitFor, kFirstSequenceValue, kInitialCursorValue,
             kAlertedSignal
        <5> QED
          BY <2>1, <3>1, <3>2, <4>2, <5>1 DEF ProbeOK
      <4>3. CASE pc'[c] = "handle"
        <5>1. available'[c] < 0
          BY <4>1, <4>3, MultiThreadAssumption DEF AfterWaitFor, kFirstSequenceValue,
             kInitialCursorValue
        <5> QED
          BY <2>1, <3>1, <3>2, <4>3, <5>1 DEF ProbeOK
      <4> QED
        BY <3>4, <4>2, <4>3
    <3> QED
      BY <3>3, <3>4
  <2> QED
    BY <2>2, <2>3
<1>10. SlotsInv'
  <2>1. ASSUME NEW c \in Consumers, NEW s \in next'[c] .. cursor
        PROVE  s \in next[c] .. cursor
    BY <1>2, <1>3, Types
  <2> QED
    BY <1>2, <1>4, <1>7, <2>1 DEF SlotsInv, FilledOK, IntactOK
<1> QED
  BY <1>1, <1>5, <1>6, <1>8, <1>9, <1>10

-----------------------------------------------------------------------------
(* The client's own steps, the initial states, and every step together.     *)

LEMMA QuietInv ==
  ASSUME MultiInv, UNCHANGED <<waitVars, procVars, slots, flags, gatingCache, localVars,
                               probed>>,
         gating' \in {{}, Gating}, gating = Gating => gating' = Gating
  PROVE  MultiInv'
<1> USE DEF MultiInv, waitVars, localVars
<1>1. ProcInv'
  BY UnchangedProcInv
<1>2. TypeOK'
  BY <1>1 DEF TypeOK, ProcInv
<1>3. GatingInv' /\ ClaimInv'
  BY DEF GatingInv, BehindOK, ClaimInv, ClaimOK, Apart, Active, WrapPoint, Last
<1>4. OwnedInv' /\ SlotsInv'
  BY DEF OwnedInv, OwnedOK, Owned, First, Active, Raised, SlotsInv, FilledOK, Filled,
     IntactOK, Last
<1>5. ProbeInv'
  BY DEF ProbeInv, ProbeOK, Raised
<1> QED
  BY <1>1, <1>2, <1>3, <1>4, <1>5

LEMMA GatingStepInv ==
  ASSUME MultiInv, GatingStep
  PROVE  MultiInv'
BY QuietInv DEF GatingStep, SetGatingSequences, MultiInv, TypeOK

LEMMA StutterInv ==
  ASSUME MultiInv, UNCHANGED vars
  PROVE  MultiInv'
BY QuietInv DEF vars, prodVars, sharedVars, MultiInv, TypeOK

LEMMA InitMultiInv == Init => MultiInv
<1> SUFFICES ASSUME Init
             PROVE  MultiInv
  OBVIOUS
<1> USE DEF Init
<1>1. ProcInv
  BY InitProcInv DEF InitSequencer
<1>2. /\ cursor = -1 /\ next = [c \in Consumers |-> 0]
      /\ pc = [c \in Consumers |-> "idle"]
      /\ available = [c \in Consumers |-> -1]
  BY DEF InitSequencer, InitProcessors, kInitialCursorValue, kFirstSequenceValue
<1>3. TypeOK
  <2>1. kAlertedSignal .. cursor = {-2, -1}
    BY <1>2 DEF kAlertedSignal
  <2>2. /\ slots \in [0 .. BufferSize - 1 -> {-2, -1}]
        /\ gating = {}
    BY DEF InitSequencer, NoEvent, kInitialCursorValue
  <2>3. /\ flags \in [0 .. BufferSize - 1 -> Int]
        /\ \A i \in 0 .. BufferSize - 1 : flags[i] = -1
    BY DEF InitialAvailableBuffer
  <2>4. /\ calls \in [Producers -> 0 .. MaxCalls]
        /\ probed \in [Consumers -> 0 .. BufferSize]
    BY MultiThreadAssumption, BufferSizeAssumption
  <2>5. /\ current \in [Producers -> {-2, -1}]
        /\ writing \in [Producers -> {-2, -1}]
        /\ gatingCache \in {-2, -1}
    BY DEF kInitialCursorValue
  <2> QED
    BY <1>1, <1>2, <2>1, <2>2, <2>3, <2>4, <2>5 DEF TypeOK, ProcInv, kInitialCursorValue
<1>4. GatingInv
  BY <1>2, BufferSizeAssumption DEF GatingInv, BehindOK, WrapPoint, kInitialCursorValue
<1>5. ASSUME NEW p \in Producers
      PROVE  ~Active(p) /\ Owned(p) = {} /\ Filled(p) = {}
  BY DEF Active, Owned, Filled
<1>6. ClaimInv
  BY <1>5 DEF ClaimInv, ClaimOK, Apart
<1>7. OwnedInv
  BY <1>2, <1>5 DEF OwnedInv, OwnedOK
<1>8. ProbeInv
  BY <1>2 DEF ProbeInv, ProbeOK
<1>9. SlotsInv
  BY <1>2, <1>5 DEF SlotsInv, FilledOK, IntactOK
<1> QED
  BY <1>1, <1>3, <1>4, <1>6, <1>7, <1>8, <1>9 DEF MultiInv

LEMMA BeginStepInv ==
  ASSUME Client, MultiInv, NEW p \in Producers,
         \/ \E n \in BatchSizes, kind \in Overloads : BeginPublishEvent(p, n, kind)
         \/ BeginHasAvailableCapacity(p)
  PROVE  MultiInv'
<1>1. ASSUME NEW n \in BatchSizes, NEW kind \in Overloads, BeginPublishEvent(p, n, kind)
      PROVE  MultiInv'
  BY <1>1, BeginInv DEF BeginPublishEvent
<1>2. CASE BeginHasAvailableCapacity(p)
  <2>1. overload' = [overload EXCEPT ![p] = overload[p]]
    BY <1>2 DEF BeginHasAvailableCapacity, MultiInv, TypeOK
  <2> QED
    BY <1>2, <2>1, BeginInv DEF BeginHasAvailableCapacity
<1> QED
  BY <1>1, <1>2

LEMMA NextInv ==
  ASSUME Client, MultiInv, [Next]_vars
  PROVE  MultiInv'
<1>1. ASSUME NEW p \in Producers, ProducerStep(p)
      PROVE  MultiInv'
  BY <1>1, LoadCursorInv, LoadCacheInv, ReadGatingInv, StoreCacheInv, CompareAndSetInv,
     TranslateInv, PublishInv, PublishReorderedInv, TranslateReorderedInv, SignalInv
     DEF ProducerStep
<1> QED
  BY <1>1, BeginStepInv, GatingStepInv, ProbeStepInv, ProcessorNextInv, StutterInv DEF Next

-----------------------------------------------------------------------------
(* The inductive invariant: MultiInv holds in every reachable state, for    *)
(* every number of producers, whose batches, overloads and loads interleave *)
(* at will (claim_strategy.h:191, :233, :257, event_processor.h:51).        *)
THEOREM MultiInductive ==
  ASSUME Client
  PROVE  Spec => []MultiInv
<1>1. MultiInv /\ [Next]_vars => MultiInv'
  BY NextInv
<1> QED
  BY <1>1, InitMultiInv, PTL DEF Spec

(* Every variable stays in its range: LONG_MAX never reaches the cache the  *)
(* producers share (claim_strategy.h:215), and no flag is ahead of the      *)
(* claims (claim_strategy.h:233).                                           *)
THEOREM MultiTypeCorrect ==
  ASSUME Client
  PROVE  Spec => []TypeOK
<1>1. MultiInv => TypeOK
  BY DEF MultiInv
<1> QED
  BY <1>1, MultiInductive, PTL

(* What a producer claims, or has decided to claim, is free for every       *)
(* processor, however the producers' stores to the shared cache interleave  *)
(* (claim_strategy.h:201, :215, :218).                                      *)
THEOREM MultiClaimedSlotsFree ==
  ASSUME Client
  PROVE  Spec => []ClaimedSlotsFree
<1>1. ASSUME MultiInv, NEW p \in Producers, NEW c \in Consumers,
             producerPc[p] = "cas" \/ Active(p)
      PROVE  WrapPoint(Last(p)) < next[c]
  <2>1. CASE producerPc[p] = "cas"
    BY <1>1, <2>1 DEF MultiInv, GatingInv, BehindOK
  <2>2. CASE Active(p)
    <3>1. Last(p) <= cursor /\ WrapPoint(cursor) < next[c]
      BY <1>1, <2>2 DEF MultiInv, ClaimInv, ClaimOK, GatingInv
    <3>2. Last(p) \in Int /\ cursor \in Int /\ next[c] \in Int
      BY <1>1, Types DEF MultiInv
    <3> QED
      BY <3>1, <3>2, BufferSizeAssumption DEF WrapPoint
  <2> QED
    BY <1>1, <2>1, <2>2
<1>2. MultiInv => ClaimedSlotsFree
  BY <1>1 DEF ClaimedSlotsFree
<1> QED
  BY <1>2, MultiInductive, PTL

(* When the last processors' Sequences have reached the cursor, every       *)
(* processor has handled everything claimed (sequencer.h:63).               *)
THEOREM MultiDrained ==
  ASSUME Client
  PROVE  Spec => []DrainedHandled
<1>1. ASSUME MultiInv, Drained
      PROVE  \A c \in Consumers : next[c] > cursor
  <2>1. \A g \in Gating : cursor < next[g]
    <3>1. ASSUME NEW g \in Gating
          PROVE  cursor < next[g]
      <4>1. g \in Consumers
        BY GatingAssumption
      <4>2. sequence[g] >= cursor /\ sequence[g] < next[g]
        BY <1>1, <4>1 DEF Drained, MultiInv, ProcInv, ProgressInv
      <4> QED
        BY <1>1, <4>1, <4>2, Types DEF MultiInv
    <3> QED
      BY <3>1
  <2>2. cursor \in Int /\ \A c \in Consumers : next[c] \in Int
    BY <1>1, Types DEF MultiInv
  <2>3. \A c \in Consumers : cursor < next[c]
    BY <1>1, <2>1, <2>2, GatingCoversAll DEF MultiInv
  <2> QED
    BY <2>2, <2>3
<1>2. MultiInv => DrainedHandled
  BY <1>1 DEF DrainedHandled
<1> QED
  BY <1>2, MultiInductive, PTL

(* A published event stays in its slot until every processor has returned   *)
(* from OnEvent for it, when flags become visible after their events and    *)
(* every PublishEvent writes its slot (claim_strategy.h:193, :215).         *)
THEOREM MultiNeverOverwritten ==
  ASSUME Client, FlagsOrdered, "copy" \notin Overloads
  PROVE  Spec => []UnhandledIntact
<1>1. ASSUME MultiInv
      PROVE  UnhandledIntact
  <2> SUFFICES ASSUME NEW c \in Consumers, NEW s \in next[c] .. cursor, Flagged(s)
               PROVE  slots[CalculateIndex(s)] = s
    BY DEF UnhandledIntact
  <2>1. s \in Int
    BY <1>1, UnhandledInWindow DEF MultiInv
  <2>2. Raised(s)
    BY <1>1, <2>1, FlaggedRaised DEF MultiInv
  <2> QED
    BY <1>1, <2>2 DEF MultiInv, SlotsInv, IntactOK
<1> QED
  BY <1>1, MultiInductive, PTL

(* What a processor is about to handle is in its slot: the flags it probed  *)
(* are those of this round of the ring (claim_strategy.h:247, :257).        *)
THEOREM MultiHandlesWritten ==
  ASSUME Client, FlagsOrdered, "copy" \notin Overloads
  PROVE  Spec => []HandlesWritten
<1>1. ASSUME MultiInv
      PROVE  HandlesWritten
  <2> SUFFICES ASSUME NEW c \in Consumers, pc[c] = "handle",
                      NEW s \in next[c] .. available[c]
               PROVE  slots[CalculateIndex(s)] = s
    BY DEF HandlesWritten
  <2>1. Raised(s)
    BY <1>1 DEF MultiInv, ProbeInv, ProbeOK
  <2>2. s \in next[c] .. cursor
    <3>1. available[c] <= cursor
      BY <1>1 DEF MultiInv, ProcInv, WaitedInv, WaitedOK
    <3> QED
      BY <1>1, <3>1, Types DEF MultiInv
  <2> QED
    BY <1>1, <2>1, <2>2 DEF MultiInv, SlotsInv, IntactOK
<1> QED
  BY <1>1, MultiInductive, PTL

-----------------------------------------------------------------------------
(* The refinement of the bounded multicast log.                             *)

Handled == [c \in Consumers |-> next[c] - 1]

LEMMA PublishedRaised == Published = {s \in 0 .. cursor : Raised(s)}
BY DEF Published, Raised

(* A step that changes none of the mapped variables.                        *)
LEMMA StutterRefines ==
  ASSUME UNCHANGED <<cursor, next, flags>>
  PROVE  UNCHANGED D!vars
BY DEF D!vars, Published

LEMMA CompareAndSetRefines ==
  ASSUME MultiInv, NEW p \in Producers, CompareAndSet(p)
  PROVE  D!Next \/ UNCHANGED D!vars
<1>1. next' = next /\ flags' = flags
  BY DEF CompareAndSet, sharedVars
<1>2. CASE cursor # current[p]
  BY <1>1, <1>2, StutterRefines DEF CompareAndSet
<1>3. CASE cursor = current[p]
  <2> DEFINE n == delta[p]
  <2>1. /\ cursor' = Last(p) /\ cursor < Last(p)
        /\ \A c \in Consumers : WrapPoint(Last(p)) < next[c]
    BY <1>3, ClaimSucceeds
  <2>2. /\ cursor \in Int /\ kInitialCursorValue <= cursor
        /\ n \in Nat \ {0} /\ Last(p) = cursor + n
        /\ \A c \in Consumers : next[c] \in Int
    BY <1>3, Types DEF MultiInv, Last
  <2> HIDE DEF n
  <2>3. ASSUME NEW c \in Consumers
        PROVE  cursor + n - BufferSize <= next[c] - 1 /\ n <= BufferSize
    <3>1. next[c] <= cursor + 1
      BY DEF MultiInv, ProcInv, ProgressInv
    <3> QED
      BY <2>1, <2>2, <3>1, BufferSizeAssumption DEF WrapPoint
  <2>4. n \in 1 .. BufferSize
    BY <2>2, <2>3, TopologyAssumption, BufferSizeAssumption
  <2>5. Published' = Published
    <3>1. \A s \in cursor + 1 .. cursor' : ~Raised(s)
      BY <2>1, <2>2, NotRaisedAhead DEF MultiInv
    <3>2. \A s : Raised(s)' <=> Raised(s)
      BY <1>1 DEF Raised
    <3>3. \A s : s \in 0 .. cursor' <=> s \in 0 .. cursor \/ s \in cursor + 1 .. cursor'
      BY <2>1, <2>2 DEF kInitialCursorValue
    <3>4. Published' = {s \in 0 .. cursor' : Raised(s)}
      BY <3>2, PublishedRaised DEF Published, Raised
    <3> QED
      BY <3>1, <3>3, <3>4, PublishedRaised
  <2>6. D!Claim(n)
    BY <1>1, <2>1, <2>2, <2>3, <2>5 DEF D!Claim
  <2> QED
    BY <2>4, <2>6 DEF D!Next
<1> QED
  BY <1>2, <1>3

(* Setting the flag of a sequence the producer still has to publish.        *)
LEMMA FlagRefines ==
  ASSUME MultiInv, NEW p \in Producers, NEW w \in Owned(p), SetAvailable(w),
         UNCHANGED <<cursor, next>>
  PROVE  D!Next
<1> USE DEF MultiInv
<1>1. /\ Raised(w)'
      /\ \A s \in Int : Raised(s) => Raised(s)'
      /\ \A s \in Window : Raised(s)' => Raised(s) \/ s = w
  BY RaiseFlag
<1>2. w \in 0 .. cursor /\ ~Raised(w)
  BY OwnedInWindow, Types DEF OwnedInv, OwnedOK
<1>3. ASSUME NEW s \in 0 .. cursor
      PROVE  Raised(s)' <=> Raised(s) \/ s = w
  <2>1. Raised(s) \/ s \in Window
    BY OwnedInWindow DEF OwnedInv
  <2> QED
    BY <1>1, <2>1
<1>4. Published' = Published \cup {w} /\ w \notin Published
  <2>1. Published' = {s \in 0 .. cursor : Raised(s)'}
    BY DEF Published, Raised
  <2> QED
    BY <1>2, <1>3, <2>1, PublishedRaised
<1>5. D!Publish({w})
  BY <1>4 DEF D!Publish
<1> QED
  BY <1>2, <1>5 DEF D!Next

LEMMA ProducerRefines ==
  ASSUME MultiInv, NEW p \in Producers, ProducerStep(p)
  PROVE  D!Next \/ UNCHANGED D!vars
<1>1. ASSUME NEW g \in Gating, ReadGating(p, g)
      PROVE  D!Next \/ UNCHANGED D!vars
  BY <1>1, StutterRefines DEF ReadGating, waitVars, sharedVars
<1>2. CASE LoadCursor(p) \/ LoadCache(p) \/ StoreCache(p)
  BY <1>2, StutterRefines DEF LoadCursor, LoadCache, StoreCache, waitVars, sharedVars
<1>3. CASE Translate(p) \/ TranslateReordered(p) \/ Signal(p)
  BY <1>3, StutterRefines DEF Translate, TranslateReordered, Signal, waitVars, sharedVars
<1>4. CASE Publish(p)
  BY <1>4, WritingOwned, FlagRefines DEF Publish, waitVars
<1>5. CASE PublishReordered(p)
  BY <1>5, WritingOwned, FlagRefines DEF PublishReordered, waitVars
<1> QED
  BY <1>1, <1>2, <1>3, <1>4, <1>5, CompareAndSetRefines DEF ProducerStep

LEMMA ProcessorRefines ==
  ASSUME MultiInv, ProcessorNext, UNCHANGED prodVars
  PROVE  D!Next \/ UNCHANGED D!vars
<1>0. ProcInv
  BY DEF MultiInv
<1>1. cursor' = cursor /\ flags' = flags
  BY <1>0, ProcessorMoves DEF prodVars, sharedVars
<1>2. CASE next' = next
  BY <1>1, <1>2, StutterRefines
<1>3. ASSUME NEW c \in Consumers, OnEvent(c)
      PROVE  D!Next
  <2>1. /\ next[c] \in Nat /\ next[c] <= cursor /\ cursor \in Int
        /\ \A d \in Dependents[c] : next[c] < next[d]
        /\ available[c] \in Int /\ next[c] <= available[c] /\ pc[c] = "handle"
    BY <1>0, <1>3, HandledNext DEF OnEvent, MultiInv, TypeOK, TypeOKProcessors
  <2>2. next' = [next EXCEPT ![c] = next[c] + 1] /\ next \in [Consumers -> Int]
    BY <1>3 DEF OnEvent, MultiInv, TypeOK, TypeOKProcessors
  <2>3. Handled[c] + 1 = next[c]
    BY <2>2 DEF Handled
  <2>4. next[c] \in Published
    <3>1. next[c] \in next[c] .. available[c]
      BY <2>1
    <3>2. Raised(next[c])
      BY <2>1, <3>1 DEF MultiInv, ProbeInv, ProbeOK
    <3> QED
      BY <2>1, <3>2, PublishedRaised
  <2>5. ASSUME NEW d \in Dependents[c]
        PROVE  next[c] <= Handled[d]
    <3>1. d \in Consumers /\ next[d] \in Int /\ next[c] < next[d]
      BY <2>1, <2>2, TopologyAssumption
    <3>2. Handled[d] = next[d] - 1
      BY <3>1 DEF Handled
    <3> QED
      BY <2>1, <3>1, <3>2
  <2>6. Handled' = [Handled EXCEPT ![c] = next[c]]
    <3>1. \A e \in Consumers : next'[e] - 1 = IF e = c THEN next[c] ELSE next[e] - 1
      BY <2>1, <2>2
    <3> QED
      BY <3>1 DEF Handled
  <2>7. Published' = Published
    BY <1>1 DEF Published
  <2> QED
    BY <1>1, <2>3, <2>4, <2>5, <2>6, <2>7 DEF D!Next, D!Handle, Handled
<1> QED
  BY <1>0, <1>2, <1>3, ProcessorMoves

(* Every step of every thread is a claim, a publication or a handled event  *)
(* of the bounded multicast log, or is invisible in it: concurrent claims   *)
(* never overlap, and each claimed sequence is published once               *)
(* (claim_strategy.h:191, :233).                                            *)
THEOREM MultiRefinement ==
  ASSUME Client
  PROVE  Spec => ImplementsDisruptor
<1>1. Init => D!Init
  <2> SUFFICES ASSUME Init
               PROVE  D!Init
    OBVIOUS
  <2>1. cursor = -1 /\ next = [c \in Consumers |-> 0]
    BY DEF Init, InitSequencer, InitProcessors, kInitialCursorValue, kFirstSequenceValue
  <2>2. Published = {}
    BY <2>1 DEF Published
  <2> QED
    BY <2>1, <2>2 DEF D!Init
<1>2. MultiInv /\ [Next]_vars => [D!Next]_(D!vars)
  <2> SUFFICES ASSUME MultiInv, [Next]_vars
               PROVE  D!Next \/ UNCHANGED D!vars
    OBVIOUS
  <2>1. CASE UNCHANGED vars
    BY <2>1, StutterRefines DEF vars, waitVars, prodVars, sharedVars
  <2>2. ASSUME NEW p \in Producers,
               \/ \E n \in BatchSizes, kind \in Overloads : BeginPublishEvent(p, n, kind)
               \/ BeginHasAvailableCapacity(p)
        PROVE  UNCHANGED D!vars
    BY <2>2, StutterRefines
       DEF BeginPublishEvent, BeginHasAvailableCapacity, waitVars, sharedVars
  <2>3. CASE GatingStep
    BY <2>3, StutterRefines DEF GatingStep, waitVars
  <2>4. ASSUME NEW c \in Consumers, Probe(c)
        PROVE  UNCHANGED D!vars
    BY <2>4, StutterRefines DEF Probe, sharedVars
  <2> QED
    BY <2>1, <2>2, <2>3, <2>4, ProducerRefines, ProcessorRefines DEF Next
<1> QED
  BY <1>1, <1>2, MultiInductive, PTL DEF Spec, ImplementsDisruptor, D!Spec

-----------------------------------------------------------------------------
(* BlockingStrategy.  The theorem asks nothing of the client, and so little *)
(* of the types.                                                            *)

ProducerPcs == {"idle", "loadCursor", "loadCache", "scan", "cas",
                "translate", "publish", "late", "signal"}

Typed ==
  /\ TypeOKProcessors
  /\ producerPc \in [Producers -> ProducerPcs]
  /\ current \in [Producers -> Int]
  /\ delta \in [Producers -> Int]
  /\ writing \in [Producers -> Int]
  /\ probed \in [Consumers -> Int]

LEMMA InitTyped == Init => Typed
<1> SUFFICES ASSUME Init
             PROVE  Typed
  OBVIOUS
<1>1. TypeOKProcessors
  BY InitProcInv DEF Init, InitSequencer, ProcInv
<1> QED
  BY <1>1 DEF Init, Typed, ProducerPcs, kInitialCursorValue

LEMMA TypedNext ==
  ASSUME Typed, [Next]_vars
  PROVE  Typed'
<1> USE DEF Typed, ProducerPcs, ProducerGoto, sharedVars, localVars
<1>1. ASSUME UNCHANGED <<waitVars, procVars>>
      PROVE  TypeOKProcessors'
  BY <1>1 DEF TypeOKProcessors, waitVars, procVars
<1>2. ASSUME NEW p \in Producers, NEW n \in BatchSizes, NEW kind \in Overloads,
             BeginPublishEvent(p, n, kind)
      PROVE  Typed'
  <2>1. n \in Int
    BY SequencerAssumption
  <2> QED
    BY <1>1, <1>2, <2>1 DEF BeginPublishEvent
<1>3. ASSUME NEW p \in Producers, NEW g \in Gating, ReadGating(p, g)
      PROVE  Typed'
  BY <1>1, <1>3 DEF ReadGating
<1>4. ASSUME NEW p \in Producers,
             BeginHasAvailableCapacity(p) \/ LoadCursor(p) \/ LoadCache(p) \/ StoreCache(p)
      PROVE  Typed'
  <2>1. cursor \in Int
    BY DEF TypeOKProcessors
  <2> QED
    BY <1>1, <1>4, <2>1 DEF BeginHasAvailableCapacity, LoadCursor, LoadCache, StoreCache
<1>5. ASSUME NEW p \in Producers, CompareAndSet(p)
      PROVE  Typed'
  <2>1. Last(p) \in Int /\ current[p] + 1 \in Int
    BY DEF Last
  <2> QED
    BY <1>5, <2>1 DEF CompareAndSet, TypeOKProcessors, procVars
<1>6. ASSUME NEW p \in Producers,
             Translate(p) \/ Publish(p) \/ PublishReordered(p) \/ TranslateReordered(p)
      PROVE  Typed'
  <2>1. /\ UNCHANGED <<waitVars, procVars, current, delta, probed>>
        /\ producerPc' \in [Producers -> ProducerPcs]
        /\ writing' \in [Producers -> Int]
    BY <1>6 DEF Translate, Publish, PublishReordered, TranslateReordered
  <2> QED
    BY <1>1, <2>1
<1>7. ASSUME NEW p \in Producers, Signal(p)
      PROVE  Typed'
  <2>1. pc' \in [Consumers -> ProcessorPcs]
    BY <1>7, NotifyMoves DEF Signal
  <2>2. TypeOKProcessors'
    BY <1>7, <2>1 DEF Signal, TypeOKProcessors, procVars
  <2> QED
    BY <1>7, <2>2 DEF Signal
<1>8. ASSUME NEW c \in Consumers, Probe(c)
      PROVE  Typed'
  <2>1. /\ next[c] \in Int /\ probed[c] \in Int
        /\ available \in [Consumers -> Int] /\ pc \in [Consumers -> ProcessorPcs]
    BY DEF TypeOKProcessors
  <2> DEFINE s == next[c] + probed[c]
             P == /\ available' \in [Consumers -> Int] /\ probed' \in [Consumers -> Int]
                  /\ pc' \in [Consumers -> ProcessorPcs]
  <2>2. ASSUME ~Flagged(s) PROVE P
    <3>1. /\ available' = [available EXCEPT ![c] = s - 1]
          /\ probed' = [probed EXCEPT ![c] = 0]
          /\ pc' = [pc EXCEPT ![c] = "handle"]
      BY <1>8, <2>2 DEF Probe, Goto
    <3>2. s - 1 \in Int
      BY <2>1
    <3> HIDE DEF s
    <3> QED
      BY <2>1, <3>1, <3>2 DEF ProcessorPcs
  <2>3. ASSUME Flagged(s), s < available[c] PROVE P
    <3>1. /\ available' = available /\ pc' = pc
          /\ probed' = [probed EXCEPT ![c] = probed[c] + 1]
      BY <1>8, <2>1, <2>3 DEF Probe
    <3> QED
      BY <2>1, <3>1
  <2>4. ASSUME Flagged(s), s = available[c] PROVE P
    <3>1. /\ available' = available
          /\ probed' = [probed EXCEPT ![c] = 0]
          /\ pc' = [pc EXCEPT ![c] = "handle"]
      BY <1>8, <2>1, <2>4 DEF Probe, Goto
    <3> QED
      BY <2>1, <3>1 DEF ProcessorPcs
  <2>5. P
    BY <1>8, <2>2, <2>3, <2>4 DEF Probe
  <2> QED
    BY <1>8, <2>5 DEF Probe, TypeOKProcessors, procVars, localVars
<1>9. CASE GatingStep
  BY <1>1, <1>9 DEF GatingStep
<1>10. CASE ProcessorNext /\ UNCHANGED prodVars
  BY <1>10, ProcessorTyped DEF prodVars
<1>11. CASE UNCHANGED vars
  BY <1>1, <1>11 DEF vars, prodVars
<1> QED
  BY <1>2, <1>3, <1>4, <1>5, <1>6, <1>7, <1>8, <1>9, <1>10, <1>11 DEF Next, ProducerStep

(* A sleeper over a claimed sequence is still to be notified by a producer  *)
(* that has moved the cursor.                                               *)
WakeInv ==
  /\ MutexInv
  /\ \A c \in Consumers : Overslept(c) => \E p \in Producers : Active(p)

LEMMA WakeInvNext ==
  ASSUME Typed, WakeInv, [Next]_vars
  PROVE  WakeInv'
<1> USE DEF WakeInv
<1>1. ASSUME UNCHANGED <<cursor, alerted, mutex, pc, next, stopPc>>,
             \A p \in Producers : Active(p) => Active(p)'
      PROVE  WakeInv'
  BY <1>1, MutexUnchanged DEF Overslept
<1>2. ASSUME UNCHANGED <<alerted, mutex, pc, stopPc>>,
             NEW p \in Producers, Active(p)'
      PROVE  WakeInv'
  BY <1>2, MutexUnchanged
<1>3. ASSUME NEW p \in Producers,
             NEW l \in ProducerPcs, producerPc' = [producerPc EXCEPT ![p] = l], ~Active(p)
      PROVE  \A q \in Producers : Active(q) => Active(q)'
  BY <1>3 DEF Typed, Active
<1>4. ASSUME NEW p \in Producers,
             \/ \E n \in BatchSizes, kind \in Overloads : BeginPublishEvent(p, n, kind)
             \/ BeginHasAvailableCapacity(p)
             \/ LoadCursor(p) \/ LoadCache(p) \/ StoreCache(p)
      PROVE  WakeInv'
  <2>1. /\ UNCHANGED <<cursor, alerted, mutex, pc, next, stopPc>>
        /\ ~Active(p)
        /\ \E l \in ProducerPcs : producerPc' = [producerPc EXCEPT ![p] = l]
    BY <1>4 DEF BeginPublishEvent, BeginHasAvailableCapacity, LoadCursor, LoadCache,
       StoreCache, waitVars, procVars, Active, ProducerPcs, ProducerGoto
  <2> QED
    BY <1>1, <1>3, <2>1
<1>5. ASSUME NEW p \in Producers, NEW g \in Gating, ReadGating(p, g)
      PROVE  WakeInv'
  BY <1>1, <1>5 DEF ReadGating, waitVars, procVars, Active
<1>6. ASSUME NEW p \in Producers, CompareAndSet(p)
      PROVE  WakeInv'
  <2>1. UNCHANGED <<alerted, mutex, pc, next, stopPc>> /\ ~Active(p)
    BY <1>6 DEF CompareAndSet, procVars, Active
  <2>2. CASE producerPc' = [producerPc EXCEPT ![p] = "translate"]
    BY <1>2, <2>1, <2>2 DEF Typed, Active
  <2>3. CASE cursor' = cursor /\ producerPc' = [producerPc EXCEPT ![p] = "loadCursor"]
    BY <1>1, <1>3, <2>1, <2>3 DEF ProducerPcs
  <2> QED
    BY <1>6, <2>2, <2>3 DEF CompareAndSet, ProducerGoto
<1>7. ASSUME NEW p \in Producers,
             Translate(p) \/ Publish(p) \/ PublishReordered(p) \/ TranslateReordered(p)
      PROVE  WakeInv'
  <2>1. UNCHANGED <<alerted, mutex, pc, stopPc>> /\ Active(p)'
    BY <1>7 DEF Translate, Publish, PublishReordered, TranslateReordered, ProducerGoto,
       waitVars, procVars, Typed, Active
  <2> QED
    BY <1>2, <2>1
<1>8. ASSUME NEW p \in Producers, Signal(p)
      PROVE  WakeInv'
  <2>1. MutexInv' /\ \A c \in Consumers : pc'[c] \notin {"lockedAlert", "sleeping"}
    BY <1>8, MutexSignal DEF Signal, Typed
  <2> QED
    BY <2>1 DEF Overslept
<1>9. ASSUME NobodyOversleeps, UNCHANGED producerPc
      PROVE  \A c \in Consumers : Overslept(c)' => \E p \in Producers : Active(p)'
  BY <1>9 DEF NobodyOversleeps, Active
<1>10. ASSUME NEW c \in Consumers, Probe(c)
       PROVE  WakeInv'
  <2>1. /\ UNCHANGED <<cursor, alerted, mutex, next, stopPc, producerPc>>
        /\ pc[c] = "probe"
    BY <1>10 DEF Probe, procVars, localVars
  <2>2. Goto(c, "probe") \/ Goto(c, "handle")
    BY <1>10 DEF Probe, Goto, Typed, TypeOKProcessors
  <2>3. MutexInv' /\ NobodyOversleeps
    BY <2>1, <2>2, AwakeStep DEF Typed, Locked
  <2> QED
    BY <1>9, <2>1, <2>3
<1>11. CASE GatingStep
  BY <1>1, <1>11 DEF GatingStep, waitVars, procVars, localVars, Active
<1>12. CASE ProcessorNext /\ UNCHANGED prodVars
  BY <1>9, <1>12, MutexProcessorNext DEF prodVars, localVars, Typed
<1>13. CASE UNCHANGED vars
  BY <1>1, <1>13 DEF vars, waitVars, procVars, prodVars, localVars, Active
<1> QED
  BY <1>4, <1>5, <1>6, <1>7, <1>8, <1>10, <1>11, <1>12, <1>13 DEF Next, ProducerStep

(* BlockingStrategy loses no wakeup, although the cursor moves at the claim *)
(* and the notification follows the last flag: for any number of producers  *)
(* and processors and every interleaving of their steps with stops and      *)
(* spurious wakeups (wait_strategy.h:365, :382).                            *)
THEOREM MultiNoWakeupLost == Spec => []NoLostWakeup
<1>1. Init => Typed
  BY InitTyped
<1>2. Typed /\ [Next]_vars => Typed'
  BY TypedNext
<1>3. Init => WakeInv
  BY InitMutexInv DEF Init, InitSequencer, InitProcessors, WakeInv, Overslept
<1>4. Typed /\ WakeInv /\ [Next]_vars => WakeInv'
  BY WakeInvNext
<1>5. WakeInv => NoLostWakeup
  BY DEF WakeInv, MutexInv, MutexOK, Overslept, NoLostWakeup, Active
<1> QED
  BY <1>1, <1>2, <1>3, <1>4, <1>5, PTL DEF Spec

-----------------------------------------------------------------------------
(* Before the first Stop.                                                   *)

(* Of the producers' steps only a compare-and-set and a notification touch  *)
(* anything of the processors'.                                             *)
LEMMA QuietSteps ==
  ASSUME NEW p \in Producers,
         \/ \E n \in BatchSizes, kind \in Overloads : BeginPublishEvent(p, n, kind)
         \/ BeginHasAvailableCapacity(p)
         \/ LoadCursor(p) \/ LoadCache(p) \/ StoreCache(p)
         \/ \E g \in Gating : ReadGating(p, g)
         \/ Translate(p) \/ Publish(p) \/ PublishReordered(p) \/ TranslateReordered(p)
  PROVE  UNCHANGED <<waitVars, procVars>>
<1>1. CASE \/ \E n \in BatchSizes, kind \in Overloads : BeginPublishEvent(p, n, kind)
           \/ BeginHasAvailableCapacity(p)
           \/ LoadCursor(p) \/ LoadCache(p) \/ StoreCache(p)
           \/ \E g \in Gating : ReadGating(p, g)
  BY <1>1 DEF BeginPublishEvent, BeginHasAvailableCapacity, LoadCursor, LoadCache,
              StoreCache, ReadGating
<1>2. CASE Translate(p) \/ Publish(p) \/ PublishReordered(p) \/ TranslateReordered(p)
  BY <1>2 DEF Translate, Publish, PublishReordered, TranslateReordered
<1> QED
  BY <1>1, <1>2

(* A probe of the flags answers at least what has been handled.             *)
LEMMA ProbeConsumed ==
  ASSUME MultiInv, ConsumedInv, NEW c \in Consumers, Probe(c)
  PROVE  ConsumedInv'
<1>1. /\ UNCHANGED <<sequence, alerted, next, stopPc, stopCalled>>
      /\ pc[c] = "probe"
  BY DEF Probe, procVars
<1>2. /\ available \in [Consumers -> Int] /\ pc \in [Consumers -> ProcessorPcs]
      /\ sequence[c] \in Int
  BY DEF MultiInv, TypeOK, TypeOKProcessors
<1>3. /\ next[c] \in Nat /\ available[c] \in Int /\ probed[c] \in Nat
      /\ next[c] + probed[c] <= available[c]
  BY <1>1, ProbeBounds
<1>4. /\ \A e \in Consumers \ {c} : available'[e] = available[e] /\ pc'[e] = pc[e]
      /\ \/ pc'[c] = "handle" /\ available'[c] = next[c] + probed[c] - 1
         \/ pc'[c] \in {"probe", "handle"} /\ available'[c] = available[c]
  BY <1>2, <1>3 DEF Probe, Goto
<1>5. ASSUME NEW e \in Consumers, ConsumedOK(e)
      PROVE  ConsumedOK(e)'
  <2>1. CASE e # c
    BY <1>1, <1>4, <1>5, <2>1 DEF ConsumedOK
  <2>2. CASE e = c
    <3>1. sequence[c] = next[c] - 1
      BY <1>1, <1>5, <2>2 DEF ConsumedOK
    <3>2. next[c] <= available'[c] + 1
      BY <1>3, <1>4
    <3> QED
      BY <1>1, <1>2, <1>3, <2>2, <3>1, <3>2 DEF ConsumedOK
  <2> QED
    BY <2>1, <2>2
<1> QED
  BY <1>1, <1>5 DEF ConsumedInv

LEMMA ConsumedInvNext ==
  ASSUME MultiInv, ConsumedInv, [Next]_vars
  PROVE  ConsumedInv'
<1>0. ProcInv
  BY DEF MultiInv
<1>1. CASE ProcessorNext
  BY <1>0, <1>1, ConsumedProcessorNext
<1>2. CASE UNCHANGED <<waitVars, procVars>>
  BY <1>2, ConsumedUnchanged DEF waitVars, procVars
<1>3. ASSUME NEW c \in Consumers, Probe(c)
      PROVE  ConsumedInv'
  BY <1>3, ProbeConsumed
<1>4. ASSUME NEW p \in Producers, CompareAndSet(p)
      PROVE  ConsumedInv'
  BY <1>4, ConsumedUnchanged DEF CompareAndSet, procVars
<1>5. ASSUME NEW p \in Producers, Signal(p)
      PROVE  ConsumedInv'
  BY <1>0, <1>5, ConsumedUnchanged, NotifyMoves DEF Signal, procVars, ProcInv
<1>6. CASE GatingStep \/ UNCHANGED vars
  BY <1>2, <1>6 DEF GatingStep, vars
<1> QED
  BY <1>1, <1>2, <1>3, <1>4, <1>5, <1>6, QuietSteps DEF Next, ProducerStep

(* A processor's Sequence is what it has handled, until the first Stop,     *)
(* although a probe may answer that nothing of what it waited for is        *)
(* published yet (event_processor.h:70, claim_strategy.h:81, :247).          *)
THEOREM MultiConsumedRecorded ==
  ASSUME Client
  PROVE  Spec => []RecordsConsumed
<1>1. Init => ConsumedInv
  BY InitConsumedInv DEF Init, InitSequencer
<1>2. MultiInv /\ ConsumedInv /\ [Next]_vars => ConsumedInv'
  BY ConsumedInvNext
<1>3. ConsumedInv => RecordsConsumed
  BY DEF ConsumedInv, ConsumedOK, RecordsConsumed
<1> QED
  BY <1>1, <1>2, <1>3, MultiInductive, PTL DEF Spec

(* Producers and processors never wait in a circle, however many they are   *)
(* and whatever the topology: when no producer has a batch to finish and no *)
(* processor has anything to do, everything claimed is handled and a claim  *)
(* that fits finds room (claim_strategy.h:208, :247).                       *)
THEOREM MultiNoCircle ==
  ASSUME Client
  PROVE  Spec => []NoCircularWait
<1>1. Init => ConsumedInv
  BY InitConsumedInv DEF Init, InitSequencer
<1>2. MultiInv /\ ConsumedInv /\ [Next]_vars => ConsumedInv'
  BY ConsumedInvNext
<1>3. MultiInv /\ ConsumedInv => NoCircularWait
  <2> SUFFICES ASSUME MultiInv, ConsumedInv, stopCalled = {},
                      \A p \in Producers : ~Active(p),
                      \A c \in Consumers :
                        pc[c] # "handle" /\ ~(Ready(c) /\ Flagged(next[c]))
               PROVE  /\ \A c \in Consumers : next[c] > cursor
                      /\ \A p \in Producers :
                           producerPc[p] = "scan" /\ purpose[p] = "claim"
                             /\ delta[p] <= BufferSize => RoomFor(Last(p))
    BY DEF NoCircularWait, Active
  <2>1. TypeOK /\ ProcInv
    BY DEF MultiInv
  <2>2. ASSUME NEW s \in 0 .. cursor
        PROVE  Raised(s)
    BY DEF MultiInv, OwnedInv, Owned
  <2>3. ASSUME NEW c \in Consumers, next[c] <= cursor
        PROVE  Flagged(next[c])
    <3>1. next[c] \in Nat /\ cursor \in Int
      BY <2>1, Types DEF ProcInv, ProgressInv
    <3>2. next[c] \in Window
      BY <2>1, <2>3, <3>1 DEF MultiInv, GatingInv, Window
    <3>3. Raised(next[c])
      BY <2>2, <2>3, <3>1
    <3> QED
      BY <2>1, <3>1, <3>2, <3>3, FlaggedRaised
  <2>4. ASSUME NEW c \in Consumers
        PROVE  next[c] > cursor
    <3>1. ~(next[c] <= cursor)
      BY <2>1, <2>3, SomeReady
    <3> QED
      BY <2>1, <3>1 DEF ProcInv, TypeOKProcessors
  <2>5. ASSUME NEW p \in Producers, delta[p] <= BufferSize
        PROVE  RoomFor(Last(p))
    <3>1. /\ current[p] \in Int /\ current[p] <= cursor /\ cursor \in Int
          /\ delta[p] \in Int
      BY <2>1, Types, SequencerAssumption DEF TypeOK
    <3>2. Last(p) \in Int /\ Last(p) - cursor <= BufferSize
      BY <2>5, <3>1, BufferSizeAssumption DEF Last
    <3> QED
      BY <2>1, <2>4, <3>2, RoomWhenHandled
  <2> QED
    BY <2>4, <2>5
<1> QED
  BY <1>1, <1>2, <1>3, MultiInductive, PTL DEF Spec

-----------------------------------------------------------------------------
(* The log again, with what DisruptorProofs proves of it.                   *)
L == INSTANCE DisruptorProofs WITH
       claimed   <- cursor,
       published <- Published,
       handled   <- Handled

LEMMA SameLog == ImplementsDisruptor => L!Spec
<1>1. D!Init => L!Init
  BY DEF D!Init, L!Init, Handled
<1>2. D!vars = L!vars
  BY DEF D!vars, L!vars, Handled
<1>3. ASSUME NEW n \in 1 .. BufferSize, D!Claim(n)
      PROVE  L!Claim(n)
  BY <1>3 DEF D!Claim, L!Claim, Handled
<1>4. ASSUME NEW S \in SUBSET (0 .. cursor), D!Publish(S)
      PROVE  L!Publish(S)
  BY <1>4 DEF D!Publish, L!Publish, Handled
<1>5. ASSUME NEW c \in Consumers, D!Handle(c)
      PROVE  L!Handle(c)
  BY <1>5 DEF D!Handle, L!Handle, Handled
<1>6. D!Next => L!Next
  BY <1>3, <1>4, <1>5 DEF D!Next, L!Next
<1>7. [D!Next]_(D!vars) => [L!Next]_(L!vars)
  <2>1. UNCHANGED D!vars => UNCHANGED L!vars
    BY DEF D!vars, L!vars, Handled
  <2> QED
    BY <1>6, <2>1
<1> QED
  BY <1>1, <1>7, PTL DEF ImplementsDisruptor, D!Spec, L!Spec

(* What the log guarantees, the Sequencer with several producers            *)
(* guarantees: each processor handles without a gap what is published,      *)
(* after its dependents, and no claim runs more than a ring ahead of any of *)
(* them (claim_strategy.h:191, :247, event_processor.h:62).                 *)
THEOREM MultiLogKept ==
  ASSUME Client
  PROVE  Spec => [](L!InOrder /\ L!Bounded)
<1>1. L!Graph /\ BufferSize \in Nat
  BY TopologyAssumption, BufferSizeAssumption DEF L!Graph
<1>2. L!Spec => [](L!InOrder /\ L!Bounded)
  BY <1>1, L!LogSafe
<1> QED
  BY <1>2, MultiRefinement, SameLog, PTL

-----------------------------------------------------------------------------
(* The race of the producers on the cursor, for every client.               *)

(* A step of producer p that leaves the others where they are.              *)
LEMMA RaceFrame ==
  ASSUME Typed, RaceInv, NEW p \in Producers,
         \A q \in Producers \ {p} :
           /\ producerPc'[q] = producerPc[q] /\ current'[q] = current[q]
           /\ delta'[q] = delta[q] /\ writing'[q] = writing[q],
         cursor' \in Int, cursor <= cursor',
         delta'[p] \in Int, delta'[p] >= 1, current'[p] \in Int, current'[p] <= cursor',
         Active(p)' =>
           /\ Last(p)' <= cursor'
           /\ current'[p] < writing'[p] /\ writing'[p] <= Last(p)'
           /\ \/ Active(p) /\ current'[p] = current[p] /\ delta'[p] = delta[p]
              \/ current'[p] = cursor
  PROVE  RaceInv'
<1> USE DEF Typed, RaceInv, Last
<1>1. cursor \in Int
  BY DEF TypeOKProcessors
<1>2. ASSUME NEW q \in Producers \ {p}
      PROVE  /\ Active(q)' <=> Active(q)
             /\ Last(q)' = Last(q) /\ Last(q) \in Int /\ current[q] \in Int
  BY DEF Active
<1>3. ASSUME NEW q \in Producers
      PROVE  /\ delta'[q] >= 1 /\ current'[q] <= cursor'
             /\ Active(q)' => Last(q)' <= cursor'
  BY <1>1, <1>2
<1>4. ASSUME NEW q \in Producers, Active(q)'
      PROVE  current'[q] < writing'[q] /\ writing'[q] <= Last(q)'
  BY <1>2, <1>4 DEF OwnClaims
<1>5. ASSUME NEW q \in Producers \ {p}
      PROVE  Apart(p, q)'
  <2> SUFFICES ASSUME Active(p)', Active(q)'
               PROVE  Last(p)' <= current'[q] \/ Last(q)' <= current'[p]
    BY DEF Apart
  <2>1. Active(q) /\ Last(q) <= cursor
    BY <1>2
  <2>2. CASE Active(p) /\ current'[p] = current[p] /\ delta'[p] = delta[p]
    BY <1>2, <2>1, <2>2 DEF OwnClaims, Apart
  <2>3. CASE current'[p] = cursor
    BY <1>1, <1>2, <2>1, <2>3
  <2> QED
    BY <2>2, <2>3
<1>6. ASSUME NEW q \in Producers, NEW r \in Producers \ {q}
      PROVE  Apart(q, r)'
  <2>1. CASE q = p
    BY <1>5, <2>1
  <2>2. CASE r = p
    <3>1. Apart(p, q)'
      BY <1>5, <2>2
    <3> QED
      BY <2>2, <3>1 DEF Apart
  <2>3. CASE q # p /\ r # p
    <3>1. Apart(q, r)
      BY DEF OwnClaims, Apart
    <3> QED
      BY <1>2, <2>3, <3>1 DEF Apart
  <2> QED
    BY <2>1, <2>2, <2>3
<1>7. OwnClaims'
  BY <1>4, <1>6 DEF OwnClaims
<1> QED
  BY <1>3, <1>7

(* A step that moves none of them.                                          *)
LEMMA RaceUnchanged ==
  ASSUME RaceInv, UNCHANGED <<cursor, producerPc, current, delta, writing>>
  PROVE  RaceInv'
BY DEF RaceInv, OwnClaims, Active, Apart, Last

LEMMA RaceBegin ==
  ASSUME Typed, RaceInv, NEW p \in Producers,
         \/ \E n \in BatchSizes, kind \in Overloads : BeginPublishEvent(p, n, kind)
         \/ BeginHasAvailableCapacity(p)
         \/ LoadCursor(p) \/ LoadCache(p) \/ StoreCache(p)
  PROVE  RaceInv'
<1> USE DEF Typed, RaceInv
<1>1. /\ cursor' = cursor /\ cursor \in Int /\ writing' = writing
      /\ \E l \in ProducerPcs \ {"translate", "publish", "late", "signal"} :
           producerPc' = [producerPc EXCEPT ![p] = l]
      /\ \/ current' = current
         \/ current' = [current EXCEPT ![p] = cursor]
      /\ \/ delta' = delta
         \/ \E n \in Nat \ {0} : delta' = [delta EXCEPT ![p] = n]
  <2>1. cursor \in Int
    BY DEF TypeOKProcessors
  <2>2. CASE \/ \E n \in BatchSizes, kind \in Overloads : BeginPublishEvent(p, n, kind)
             \/ BeginHasAvailableCapacity(p)
    <3>1. \E n \in Nat \ {0} : delta' = [delta EXCEPT ![p] = n]
      BY <2>2, SequencerAssumption DEF BeginPublishEvent, BeginHasAvailableCapacity
    <3> QED
      BY <2>1, <2>2, <3>1 DEF BeginPublishEvent, BeginHasAvailableCapacity, ProducerGoto,
         ProducerPcs, waitVars
  <2>3. CASE LoadCursor(p) \/ LoadCache(p) \/ StoreCache(p)
    BY <2>1, <2>3 DEF LoadCursor, LoadCache, StoreCache, ProducerGoto, ProducerPcs, waitVars
  <2> QED
    BY <2>2, <2>3
<1>2. ~Active(p)'
  BY <1>1 DEF Active
<1>3. ASSUME NEW q \in Producers \ {p}
      PROVE  /\ producerPc'[q] = producerPc[q] /\ current'[q] = current[q]
             /\ delta'[q] = delta[q] /\ writing'[q] = writing[q]
  BY <1>1
<1>4. /\ delta'[p] \in Int /\ delta'[p] >= 1
      /\ current'[p] \in Int /\ current'[p] <= cursor'
  BY <1>1
<1> QED
  BY <1>1, <1>2, <1>3, <1>4, RaceFrame

LEMMA RaceCompareAndSet ==
  ASSUME Typed, RaceInv, NEW p \in Producers, CompareAndSet(p)
  PROVE  RaceInv'
<1> USE DEF Typed, RaceInv
<1>1. /\ current' = current /\ delta' = delta /\ cursor \in Int
      /\ current[p] \in Int /\ delta[p] \in Int /\ delta[p] >= 1 /\ current[p] <= cursor
      /\ \A q \in Producers \ {p} :
           producerPc'[q] = producerPc[q] /\ writing'[q] = writing[q]
  BY DEF CompareAndSet, ProducerGoto, TypeOKProcessors
<1>2. CASE cursor # current[p]
  <2>1. cursor' = cursor /\ producerPc'[p] = "loadCursor"
    BY <1>2 DEF CompareAndSet, ProducerGoto
  <2> QED
    BY <1>1, <2>1, RaceFrame DEF Active
<1>3. CASE cursor = current[p]
  <2>1. cursor' = current[p] + delta[p] /\ writing'[p] = current[p] + 1
    BY <1>3 DEF CompareAndSet, Last
  <2> QED
    BY <1>1, <1>3, <2>1, RaceFrame DEF Last
<1> QED
  BY <1>2, <1>3

LEMMA RaceBatch ==
  ASSUME Typed, RaceInv, NEW p \in Producers,
         \/ Translate(p) \/ Publish(p) \/ PublishReordered(p) \/ TranslateReordered(p)
         \/ Signal(p)
  PROVE  RaceInv'
<1> USE DEF Typed, RaceInv
<1>1. /\ cursor' = cursor /\ current' = current /\ delta' = delta /\ cursor \in Int
      /\ current[p] \in Int /\ delta[p] \in Int /\ delta[p] >= 1 /\ current[p] <= cursor
      /\ \A q \in Producers \ {p} :
           producerPc'[q] = producerPc[q] /\ writing'[q] = writing[q]
      /\ Active(p)
  BY DEF Translate, Publish, PublishReordered, TranslateReordered, Signal, ProducerGoto,
     TypeOKProcessors, waitVars, Active
<1>2. /\ Last(p) <= cursor /\ Last(p) = current[p] + delta[p]
      /\ writing[p] \in Int /\ current[p] < writing[p] /\ writing[p] <= Last(p)
  BY <1>1 DEF OwnClaims, Last
<1>3. \/ writing'[p] = writing[p]
      \/ writing[p] < Last(p) /\ writing'[p] = writing[p] + 1
      \/ writing'[p] = current[p] + 1
  BY DEF Translate, Publish, PublishReordered, TranslateReordered, Signal
<1>4. /\ Last(p)' = Last(p)
      /\ current[p] < writing'[p] /\ writing'[p] <= Last(p)
  BY <1>1, <1>2, <1>3 DEF Last
<1> QED
  BY <1>1, <1>2, <1>4, RaceFrame

LEMMA RaceInvNext ==
  ASSUME Typed, RaceInv, [Next]_vars
  PROVE  RaceInv'
<1>1. ASSUME NEW p \in Producers, NEW g \in Gating, ReadGating(p, g)
      PROVE  RaceInv'
  BY <1>1, RaceUnchanged DEF ReadGating, waitVars
<1>2. ASSUME NEW c \in Consumers, Probe(c)
      PROVE  RaceInv'
  BY <1>2, RaceUnchanged DEF Probe, localVars
<1>3. CASE GatingStep \/ UNCHANGED vars
  BY <1>3, RaceUnchanged DEF GatingStep, vars, waitVars, prodVars, localVars
<1>4. CASE ProcessorNext /\ UNCHANGED prodVars
  <2>1. cursor' = cursor
    BY <1>4 DEF ProcessorNext, RunEnter, RunStep, RunStart, WaitForStep, ReadCursor,
       ReadDependent, CheckAlert, Lock, LockedCursor, LockedAlert, SpuriousWake, OnEvent,
       Record, CheckRunning, StopEnter, StopStep, StopAlert, StopSignal, waitVars
  <2> QED
    BY <1>4, <2>1, RaceUnchanged DEF prodVars, localVars
<1> QED
  BY <1>1, <1>2, <1>3, <1>4, RaceBegin, RaceCompareAndSet, RaceBatch DEF Next, ProducerStep

(* Whatever the client does, what a producer writes and publishes is of its *)
(* own claim and of nobody else's, for any number of producers and however  *)
(* their loads of the cursor and compare-and-sets interleave                *)
(* (claim_strategy.h:193, :218).                                            *)
THEOREM MultiOwnClaims == Spec => []OwnClaims
<1>1. Init => Typed
  BY InitTyped
<1>2. Init => RaceInv
  BY DEF Init, InitSequencer, InitProcessors, RaceInv, OwnClaims, Active,
     kInitialCursorValue
<1>3. Typed /\ [Next]_vars => Typed'
  BY TypedNext
<1>4. Typed /\ RaceInv /\ [Next]_vars => RaceInv'
  BY RaceInvNext
<1>5. RaceInv => OwnClaims
  BY DEF RaceInv
<1> QED
  BY <1>1, <1>2, <1>3, <1>4, <1>5, PTL DEF Spec
=============================================================================
