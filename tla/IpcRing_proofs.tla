--------------------------- MODULE IpcRing_proofs ---------------------------
(***************************************************************************)
(* Proofs about IpcRing, for every capacity N, every index span that N     *)
(* divides, every number of words and every word contents: the inductive   *)
(* invariant, the safety properties that follow from it, and the           *)
(* refinement of BoundedFifo.                                              *)
(***************************************************************************)
EXTENDS IpcRing, SequenceTheorems, TLAPS

(* What the words copied so far are: the producer's prefix of its slot     *)
(* equals its PDU, the consumer's prefix equals the slot at the tail.      *)
CopiedIn ==
  ppc = "copy" => \A w \in 0 .. pword - 1 : buffer[Slot(head)][w] = ppdu[w]

CopiedOut ==
  cpc = "copy" => \A w \in 0 .. cword - 1 : cpdu[w] = buffer[Slot(tail)][w]

(* The inductive invariant. *)
IInv == RingTypeOK /\ CheckStaysValid /\ CopiedIn /\ CopiedOut

-----------------------------------------------------------------------------
(* Arithmetic of slots and wrapping indices.                               *)

(* Two positions closer than N apart never share a slot. *)
LEMMA SlotsDiffer ==
  ASSUME NEW i \in Nat, NEW d \in 1 .. N - 1
  PROVE  Slot(i) # Slot(i + d)
<1> DEFINE a == i \div N
           b == (i + d) \div N
<1> USE CapacityAssumption
<1>1. a \in Int /\ b \in Int /\ i = N * a + Slot(i) /\ i + d = N * b + Slot(i + d)
  BY DEF Slot
<1> HIDE DEF a, b
<1>2. ASSUME Slot(i) = Slot(i + d) PROVE FALSE
  <2>0. Slot(i) \in Int BY DEF Slot
  <2>1. d = N * (b - a) BY <1>1, <1>2, <2>0
  <2>2. b - a >= 1 \/ b - a <= 0 BY <1>1
  <2>3. CASE b - a >= 1
    <3>1. N * (b - a) >= N BY <2>3, <1>1
    <3> QED BY <2>1, <3>1
  <2>4. CASE b - a <= 0
    <3>1. N * (b - a) <= 0 BY <2>4, <1>1
    <3> QED BY <2>1, <3>1
  <2> QED BY <2>2, <2>3, <2>4
<1> QED BY <1>2

(* A lap does not change the slot: N divides the span of the indices. *)
LEMMA SlotWraps ==
  ASSUME NEW i \in Nat
  PROVE  Slot(i + IndexSpan) = Slot(i)
<1> USE CapacityAssumption
<1>1. PICK k \in 2 .. IndexSpan : IndexSpan = k * N BY SpanAssumption
<1> DEFINE a == i \div N
<1>2. a \in Int /\ i = N * a + Slot(i) /\ Slot(i) \in 0 .. N - 1
  BY DEF Slot
<1> HIDE DEF a
<1>3. i + IndexSpan = N * (a + k) + Slot(i)
  BY <1>1, <1>2, SpanAssumption
<1>4. ASSUME NEW m \in Int, NEW r \in 0 .. N - 1 PROVE (N * m + r) % N = r
  OBVIOUS
<1> QED BY <1>1, <1>2, <1>3, <1>4 DEF Slot

LEMMA SlotType ==
  ASSUME NEW i \in Nat
  PROVE  Slot(i) \in Slots
BY CapacityAssumption DEF Slot, Slots

(* The occupancy locates the head relative to the tail. *)
LEMMA HeadSlot ==
  ASSUME head \in Index, tail \in Index
  PROVE  Slot(head) = Slot(tail + wrapping_sub(head, tail))
<1>1. CASE head >= tail
  BY <1>1, SpanAssumption DEF wrapping_sub, Index
<1>2. CASE head < tail
  <2>1. tail + wrapping_sub(head, tail) = head + IndexSpan
    BY <1>2, SpanAssumption DEF wrapping_sub, Index
  <2> QED BY <2>1, SlotWraps DEF Index
<1> QED BY <1>1, <1>2, SpanAssumption DEF Index

(* One increment changes the occupancy by one. *)
LEMMA IncDistance ==
  ASSUME NEW h \in Index, NEW t \in Index
  PROVE  /\ wrapping_inc(h) \in Index
         /\ wrapping_sub(h, t) \in 0 .. IndexSpan - 1
         /\ wrapping_sub(h, t) = 0 <=> h = t
         /\ wrapping_sub(h, t) < IndexSpan - 1 =>
              wrapping_sub(wrapping_inc(h), t) = wrapping_sub(h, t) + 1
         /\ h # t => wrapping_sub(h, wrapping_inc(t)) = wrapping_sub(h, t) - 1
BY SpanAssumption DEF Index, wrapping_inc, wrapping_sub

LEMMA SpanExceedsCapacity == IndexSpan \in Nat /\ IndexSpan >= 2 * N /\ N < IndexSpan
<1> USE CapacityAssumption
<1>1. PICK k \in 2 .. IndexSpan : IndexSpan = k * N BY SpanAssumption
<1>2. k * N >= 2 * N BY SpanAssumption
<1> QED BY <1>1, <1>2, SpanAssumption

(* The slot of the index after t, wrapped or not. *)
LEMMA IncSlot ==
  ASSUME NEW t \in Index, NEW d \in Nat
  PROVE  Slot(wrapping_inc(t) + d) = Slot(t + 1 + d)
<1>1. CASE t = IndexSpan - 1
  <2>1. t + 1 + d = d + IndexSpan BY <1>1, SpanAssumption
  <2>2. wrapping_inc(t) + d = d BY <1>1 DEF wrapping_inc
  <2> QED BY <2>1, <2>2, SlotWraps
<1>2. CASE t # IndexSpan - 1
  BY <1>2, SpanAssumption DEF wrapping_inc, Index
<1> QED BY <1>1, <1>2

-----------------------------------------------------------------------------
(* While both sides copy, the occupancy is strictly between 0 and N, so    *)
(* the slots at the two ends differ.                                       *)
LEMMA RaceFree == RingTypeOK /\ CheckStaysValid => NoSlotRace
<1> SUFFICES ASSUME RingTypeOK, CheckStaysValid, ppc = "copy", cpc = "copy"
             PROVE  Slot(head) # Slot(tail)
  BY DEF NoSlotRace
<1> DEFINE d == wrapping_sub(head, tail)
<1>1. d \in 1 .. N - 1
  BY IncDistance, CapacityAssumption DEF RingTypeOK, CheckStaysValid, is_full, is_empty
<1>2. Slot(tail) # Slot(tail + d)
  BY <1>1, SlotsDiffer, SpanAssumption DEF RingTypeOK, Index
<1> QED BY <1>2, HeadSlot DEF RingTypeOK

LEMMA InitInv == RingInit => IInv
<1> SUFFICES ASSUME RingInit PROVE IInv OBVIOUS
<1> USE CapacityAssumption, WordsAssumption, ZeroAssumption, SpanExceedsCapacity
<1>1. RingTypeOK
  BY DEF RingInit, RingTypeOK, Index, Slots, PDU, ZeroPdu
<1>2. CheckStaysValid
  BY DEF RingInit, CheckStaysValid, wrapping_sub, is_full, is_empty
<1> QED BY <1>1, <1>2 DEF RingInit, IInv, CopiedIn, CopiedOut

LEMMA NextInv == IInv /\ [RingNext]_ringVars => IInv'
<1> SUFFICES ASSUME IInv, [RingNext]_ringVars PROVE IInv'
  OBVIOUS
<1> USE DEF IInv
<1> USE CapacityAssumption, WordsAssumption, SpanExceedsCapacity
<1>1. ASSUME NEW v \in PDU, PushBegin(v) PROVE IInv'
  <2>1. RingTypeOK' BY <1>1 DEF RingTypeOK, PushBegin, consumerVars
  <2>2. CheckStaysValid'
    BY <1>1 DEF CheckStaysValid, PushBegin, consumerVars, is_full, is_empty
  <2>3. CopiedIn' BY <1>1 DEF CopiedIn, PushBegin
  <2>4. CopiedOut' BY <1>1 DEF CopiedOut, PushBegin, consumerVars
  <2> QED BY <2>1, <2>2, <2>3, <2>4
<1>2. CASE PushFull
  BY <1>2 DEF PushFull, RingTypeOK, CheckStaysValid, CopiedIn, CopiedOut, consumerVars,
              is_full, is_empty
<1>3. CASE PushCopyWord
  <2>1. Slot(head) \in Slots /\ Slot(tail) \in Slots
    BY SlotType DEF RingTypeOK, Index
  <2>2. RingTypeOK'
    BY <1>3, <2>1 DEF RingTypeOK, PushCopyWord, consumerVars, PDU
  <2>3. CheckStaysValid'
    BY <1>3 DEF CheckStaysValid, PushCopyWord, consumerVars, is_full, is_empty
  <2>4. CopiedIn'
    BY <1>3, <2>1 DEF CopiedIn, PushCopyWord, RingTypeOK, PDU
  <2>5. CopiedOut'
    <3>1. cpc = "copy" => Slot(head) # Slot(tail)
      BY <1>3, RaceFree DEF PushCopyWord, NoSlotRace
    <3> QED BY <1>3, <2>1, <3>1 DEF CopiedOut, PushCopyWord, RingTypeOK, consumerVars
  <2> QED BY <2>2, <2>3, <2>4, <2>5
<1>4. CASE PushCommit
  <2>1. RingTypeOK' BY <1>4, IncDistance DEF RingTypeOK, PushCommit, consumerVars
  <2>2. CheckStaysValid'
    BY <1>4, IncDistance
    DEF RingTypeOK, CheckStaysValid, PushCommit, consumerVars, is_full, is_empty
  <2>3. CopiedIn' BY <1>4 DEF CopiedIn, PushCommit
  <2>4. CopiedOut' BY <1>4 DEF CopiedOut, PushCommit, consumerVars
  <2> QED BY <2>1, <2>2, <2>3, <2>4
<1>5. CASE PopBegin
  <2>1. RingTypeOK' BY <1>5 DEF RingTypeOK, PopBegin, producerVars
  <2>2. CheckStaysValid'
    BY <1>5 DEF CheckStaysValid, PopBegin, producerVars, is_full, is_empty
  <2>3. CopiedIn' BY <1>5 DEF CopiedIn, PopBegin, producerVars
  <2>4. CopiedOut' BY <1>5 DEF CopiedOut, PopBegin
  <2> QED BY <2>1, <2>2, <2>3, <2>4
<1>6. CASE PopEmpty
  BY <1>6 DEF PopEmpty, RingTypeOK, CheckStaysValid, CopiedIn, CopiedOut, producerVars,
              is_full, is_empty
<1>7. CASE PopCopyWord
  <2>1. Slot(tail) \in Slots BY SlotType DEF RingTypeOK, Index
  <2>2. RingTypeOK' BY <1>7, <2>1 DEF RingTypeOK, PopCopyWord, producerVars, PDU
  <2>3. CheckStaysValid'
    BY <1>7 DEF CheckStaysValid, PopCopyWord, producerVars, is_full, is_empty
  <2>4. CopiedIn' BY <1>7 DEF CopiedIn, PopCopyWord, producerVars
  <2>5. CopiedOut' BY <1>7 DEF CopiedOut, PopCopyWord, RingTypeOK, PDU
  <2> QED BY <2>2, <2>3, <2>4, <2>5
<1>8. CASE PopCommit
  <2>1. RingTypeOK' BY <1>8, IncDistance DEF RingTypeOK, PopCommit, producerVars
  <2>2. CheckStaysValid'
    BY <1>8, IncDistance
    DEF RingTypeOK, CheckStaysValid, PopCommit, producerVars, is_full, is_empty
  <2>3. CopiedIn' BY <1>8 DEF CopiedIn, PopCommit, producerVars
  <2>4. CopiedOut' BY <1>8 DEF CopiedOut, PopCommit
  <2> QED BY <2>1, <2>2, <2>3, <2>4
<1>9. CASE UNCHANGED ringVars
  BY <1>9 DEF ringVars, producerVars, consumerVars, RingTypeOK, CheckStaysValid, CopiedIn,
              CopiedOut, is_full, is_empty
<1> QED
  BY <1>1, <1>2, <1>3, <1>4, <1>5, <1>6, <1>7, <1>8, <1>9 DEF RingNext, Produce, Consume

LEMMA Inductive == RingSpec => []IInv
BY InitInv, NextInv, PTL DEF RingSpec

(* Every index, slot and local copy keeps its type; in particular no index *)
(* leaves the range of its u32.                                            *)
THEOREM TypeCorrect == RingSpec => []RingTypeOK
<1>1. IInv => RingTypeOK BY DEF IInv
<1> QED BY <1>1, Inductive, PTL

(* The occupancy never exceeds N, and the room or the PDU an operation     *)
(* found is still there when it commits.                                   *)
THEOREM ChecksValid == RingSpec => []CheckStaysValid
<1>1. IInv => CheckStaysValid BY DEF IInv
<1> QED BY <1>1, Inductive, PTL

(* push and pop never copy to and from the same slot at the same time.     *)
THEOREM SlotSafety == RingSpec => []NoSlotRace
<1>1. IInv => NoSlotRace BY RaceFree DEF IInv
<1> QED BY <1>1, Inductive, PTL

-----------------------------------------------------------------------------
(* PDUs that agree on every word are equal. *)
LEMMA SameWords ==
  ASSUME NEW a \in PDU, NEW b \in PDU, \A w \in 0 .. Words - 1 : a[w] = b[w]
  PROVE  a = b
<1>1. a = [w \in 0 .. Words - 1 |-> a[w]] BY DEF PDU
<1>2. b = [w \in 0 .. Words - 1 |-> b[w]] BY DEF PDU
<1>3. [w \in 0 .. Words - 1 |-> a[w]] = [w \in 0 .. Words - 1 |-> b[w]] OBVIOUS
<1> QED BY <1>1, <1>2, <1>3, Zenon

LEMMA SeqOfFunction ==
  ASSUME NEW S, NEW n \in Nat, NEW f \in [1 .. n -> S]
  PROVE  f \in Seq(S) /\ Len(f) = n
OBVIOUS

(* The refinement.  Contents is a sequence of as many PDUs as the          *)
(* occupancy says.                                                         *)
LEMMA ContentsSeq ==
  ASSUME IInv
  PROVE  /\ wrapping_sub(head, tail) \in 0 .. N
         /\ Contents \in Seq(PDU)
         /\ Len(Contents) = wrapping_sub(head, tail)
<1> USE CapacityAssumption
<1>1. wrapping_sub(head, tail) \in 0 .. N BY DEF IInv, CheckStaysValid
<1>2. \A i \in 1 .. wrapping_sub(head, tail) : buffer[Slot(tail + i - 1)] \in PDU
  <2> TAKE i \in 1 .. wrapping_sub(head, tail)
  <2>1. tail + i - 1 \in Nat BY <1>1, SpanAssumption DEF IInv, RingTypeOK, Index
  <2> QED BY <2>1, SlotType DEF IInv, RingTypeOK
<1>3. Contents \in [1 .. wrapping_sub(head, tail) -> PDU] BY <1>2 DEF Contents
<1> QED BY <1>1, <1>3, SeqOfFunction

(* Copying words into the slot at the head leaves the queued PDUs alone. *)
LEMMA CopyInKeepsContents ==
  ASSUME IInv, PushCopyWord
  PROVE  Contents' = Contents
<1> USE CapacityAssumption
<1> DEFINE d == wrapping_sub(head, tail)
<1>1. d \in 0 .. N - 1 /\ tail \in Nat
  BY SpanAssumption DEF IInv, RingTypeOK, Index, CheckStaysValid, PushCopyWord, is_full
<1>2. wrapping_sub(head, tail)' = d BY DEF PushCopyWord, wrapping_sub
<1>3. ASSUME NEW i \in 1 .. d
      PROVE  buffer'[Slot(tail' + i - 1)] = buffer[Slot(tail + i - 1)]
  <2> DEFINE p == tail + i - 1
             e == d - i + 1
  <2>1. p \in Nat /\ e \in 1 .. N - 1 /\ p + e = tail + d BY <1>1, <1>3
  <2> HIDE DEF p, e, d
  <2>2. Slot(p) # Slot(tail + d) BY <2>1, SlotsDiffer
  <2>3. Slot(head) = Slot(tail + d) BY HeadSlot DEF IInv, RingTypeOK, d
  <2>4. Slot(p) \in Slots BY <2>1, SlotType
  <2> QED BY <2>2, <2>3, <2>4 DEF p, IInv, RingTypeOK, PushCopyWord
<1> HIDE DEF d
<1> QED BY <1>2, <1>3 DEF Contents, d

(* The head store appends the PDU that was copied in. *)
LEMMA CommitAppends ==
  ASSUME IInv, PushCommit
  PROVE  Len(Contents) < N /\ Contents' = Append(Contents, ppdu)
<1> USE CapacityAssumption
<1> DEFINE d == wrapping_sub(head, tail)
<1>1. d \in 0 .. N - 1 /\ tail \in Nat
  BY SpanAssumption DEF IInv, RingTypeOK, Index, CheckStaysValid, PushCommit, is_full
<1>2. wrapping_sub(head, tail)' = d + 1
  BY <1>1, IncDistance, SpanExceedsCapacity DEF IInv, RingTypeOK, PushCommit, wrapping_sub
<1>3. buffer[Slot(tail + d)] = ppdu
  <2>1. Slot(head) \in Slots /\ Slot(head) = Slot(tail + d)
    BY SlotType, HeadSlot DEF IInv, RingTypeOK, Index
  <2>2. buffer[Slot(head)] \in PDU /\ ppdu \in PDU BY <2>1 DEF IInv, RingTypeOK
  <2>3. \A w \in 0 .. Words - 1 : buffer[Slot(head)][w] = ppdu[w]
    BY DEF IInv, CopiedIn, PushCommit
  <2> QED BY <2>1, <2>2, <2>3, SameWords
<1> HIDE DEF d
<1>4. Contents' = [i \in 1 .. d + 1 |-> buffer[Slot(tail + i - 1)]]
  BY <1>2 DEF Contents, PushCommit
<1>5. Contents = [i \in 1 .. d |-> buffer[Slot(tail + i - 1)]]
  BY DEF Contents, d
<1>6. Contents \in Seq(PDU) /\ Len(Contents) = d BY ContentsSeq DEF d
<1>7. ppdu \in PDU BY DEF IInv, RingTypeOK
<1>8. ASSUME NEW i \in 1 .. d + 1
      PROVE  Contents'[i] = Append(Contents, ppdu)[i] /\ Contents'[i] \in PDU
  <2>1. CASE i = d + 1
    <3>1. tail + i - 1 = tail + d BY <1>1, <2>1
    <3> QED BY <2>1, <3>1, <1>3, <1>4, <1>6, <1>7, AppendProperties
  <2>2. CASE i # d + 1
    <3>1. i \in 1 .. d BY <1>1, <2>2
    <3>2. Contents'[i] = Contents[i] BY <3>1, <1>4, <1>5
    <3> QED BY <3>1, <3>2, <1>6, <1>7, AppendProperties
  <2> QED BY <2>1, <2>2
<1>9. Contents' \in Seq(PDU) /\ Len(Contents') = d + 1
  <2>1. Contents' \in [1 .. d + 1 -> PDU] BY <1>4, <1>8
  <2> QED BY <1>1, <2>1, SeqOfFunction
<1>10. Append(Contents, ppdu) \in Seq(PDU) /\ Len(Append(Contents, ppdu)) = d + 1
  BY <1>6, <1>7, AppendProperties
<1>11. Contents' = Append(Contents, ppdu) BY <1>8, <1>9, <1>10, SeqEqual
<1> QED BY <1>1, <1>6, <1>11

(* The tail store removes the oldest PDU, which is the consumer's copy. *)
LEMMA CommitRemoves ==
  ASSUME IInv, PopCommit
  PROVE  Contents # <<>> /\ cpdu = Head(Contents) /\ Contents' = Tail(Contents)
<1> USE CapacityAssumption
<1> DEFINE d == wrapping_sub(head, tail)
<1>1. d \in 1 .. N /\ tail \in Nat
  BY IncDistance, SpanAssumption
  DEF IInv, RingTypeOK, Index, CheckStaysValid, PopCommit, is_empty
<1>2. wrapping_sub(head, tail)' = d - 1
  BY IncDistance DEF IInv, RingTypeOK, CheckStaysValid, PopCommit, is_empty, wrapping_sub
<1>3. buffer[Slot(tail)] = cpdu
  <2>1. Slot(tail) \in Slots BY SlotType DEF IInv, RingTypeOK, Index
  <2>2. buffer[Slot(tail)] \in PDU /\ cpdu \in PDU BY <2>1 DEF IInv, RingTypeOK
  <2>3. \A w \in 0 .. Words - 1 : cpdu[w] = buffer[Slot(tail)][w]
    BY DEF IInv, CopiedOut, PopCommit
  <2> QED BY <2>2, <2>3, SameWords
<1> HIDE DEF d
<1>4. Contents = [i \in 1 .. d |-> buffer[Slot(tail + i - 1)]]
  BY DEF Contents, d
<1>5. Contents \in Seq(PDU) /\ Len(Contents) = d BY ContentsSeq DEF d
<1>6. cpdu = Head(Contents)
  <2>1. Head(Contents) = Contents[1] BY <1>1, <1>5
  <2>2. Contents[1] = buffer[Slot(tail)] BY <1>1, <1>4
  <2> QED BY <2>1, <2>2, <1>3
<1>7. Contents' = [i \in 1 .. d - 1 |-> buffer[Slot(tail' + i - 1)]]
  BY <1>2 DEF Contents, PopCommit
<1>8. Contents # <<>> BY <1>1, <1>5
<1>9. ASSUME NEW i \in 1 .. d - 1
      PROVE  Contents'[i] = Tail(Contents)[i] /\ Contents'[i] \in PDU
  <2>1. tail' + i - 1 = wrapping_inc(tail) + (i - 1)
    BY <1>1, IncDistance, SpanAssumption DEF IInv, RingTypeOK, Index, PopCommit
  <2>2. tail + (i + 1) - 1 = tail + 1 + (i - 1) BY <1>1
  <2>3. Slot(wrapping_inc(tail) + (i - 1)) = Slot(tail + 1 + (i - 1))
    BY <1>1, IncSlot DEF IInv, RingTypeOK
  <2>4. i + 1 \in 1 .. d BY <1>1
  <2>5. Contents'[i] = Contents[i + 1] BY <2>1, <2>2, <2>3, <2>4, <1>4, <1>7
  <2> QED BY <2>4, <2>5, <1>1, <1>5, <1>8, HeadTailProperties
<1>10. Contents' \in Seq(PDU) /\ Len(Contents') = d - 1
  <2>1. Contents' \in [1 .. d - 1 -> PDU] BY <1>7, <1>9
  <2> QED BY <1>1, <2>1, SeqOfFunction
<1>11. Tail(Contents) \in Seq(PDU) /\ Len(Tail(Contents)) = d - 1
  BY <1>1, <1>5, <1>8, HeadTailProperties
<1>12. Contents' = Tail(Contents) BY <1>9, <1>10, <1>11, SeqEqual
<1> QED BY <1>6, <1>8, <1>12

LEMMA StepRefines == IInv /\ [RingNext]_ringVars => [Fifo!Next]_(Fifo!vars)
<1> SUFFICES ASSUME IInv, [RingNext]_ringVars PROVE [Fifo!Next]_(Fifo!vars)
  OBVIOUS
<1> USE DEF Fifo!Next, Fifo!vars
<1>1. ASSUME UNCHANGED <<head, tail, buffer>> PROVE Contents' = Contents
  BY <1>1 DEF Contents, wrapping_sub
<1>2. ASSUME NEW v \in PDU, PushBegin(v) PROVE Fifo!Next
  <2>1. Len(Contents) < N
    BY <1>2, ContentsSeq, CapacityAssumption DEF PushBegin, is_full
  <2>2. Fifo!Offer(v) BY <1>1, <1>2, <2>1 DEF PushBegin, consumerVars, Fifo!Offer
  <2> QED BY <2>2
<1>3. CASE PushFull
  <2>1. Len(Contents) = N
    BY <1>3, ContentsSeq, CapacityAssumption DEF PushFull, is_full
  <2> QED BY <1>1, <1>3, <2>1 DEF PushFull, consumerVars, Fifo!Refuse
<1>4. CASE PushCopyWord
  BY <1>4, CopyInKeepsContents DEF PushCopyWord, consumerVars
<1>5. CASE PushCommit
  <2>1. ppdu \in PDU BY DEF IInv, RingTypeOK
  <2> QED BY <1>5, <2>1, CommitAppends DEF PushCommit, consumerVars, Fifo!Enqueue
<1>6. CASE PopBegin
  BY <1>1, <1>6 DEF PopBegin, producerVars
<1>7. CASE PopEmpty
  <2>1. Len(Contents) = 0 /\ Contents \in Seq(PDU)
    BY <1>7, ContentsSeq, IncDistance DEF PopEmpty, is_empty, IInv, RingTypeOK
  <2>2. Contents = <<>> BY <2>1
  <2> QED BY <1>1, <1>7, <2>2 DEF PopEmpty, producerVars, Fifo!FindNothing
<1>8. CASE PopCopyWord
  BY <1>1, <1>8 DEF PopCopyWord, producerVars
<1>9. CASE PopCommit
  BY <1>9, CommitRemoves DEF PopCommit, producerVars, Fifo!Dequeue
<1>10. CASE UNCHANGED ringVars
  BY <1>1, <1>10 DEF ringVars, producerVars, consumerVars
<1> QED
  BY <1>2, <1>3, <1>4, <1>5, <1>6, <1>7, <1>8, <1>9, <1>10 DEF RingNext, Produce, Consume

(* The ring implements the bounded queue: no PDU is lost, duplicated, torn *)
(* or reordered, a push is refused only by a full ring and a pop finds     *)
(* nothing only in an empty one, for every capacity and index span.        *)
THEOREM RingIsFifo == RingSpec => IsFifo
<1>1. RingInit => Fifo!Init
  <2> SUFFICES ASSUME RingInit PROVE Fifo!Init OBVIOUS
  <2>1. wrapping_sub(head, tail) = 0 BY DEF RingInit, wrapping_sub
  <2>2. Contents = <<>> BY <2>1 DEF Contents
  <2> QED BY <2>2 DEF RingInit, Fifo!Init
<1> QED BY <1>1, Inductive, StepRefines, PTL DEF RingSpec, IsFifo, Fifo!Spec
=============================================================================
