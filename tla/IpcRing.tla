------------------------------- MODULE IpcRing -------------------------------
(***************************************************************************)
(* The lock-free ring both cores use to exchange BACnet PDUs, under the    *)
(* contract its authors document: one producer, one consumer.              *)
(*                                                                         *)
(*   Rust side: RingBuffer<N>::{push,pop}     bridge-core/src/ipc.rs       *)
(*   C side:    ipc_ring_push / ipc_ring_pop  csrc/ipc_c.c                 *)
(*                                                                         *)
(* The two sides follow the same protocol, so either may be the producer.  *)
(* head and tail are u32 counters that wrap; IndexSpan stands for 2^32.    *)
(* A PDU is copied word by word, so that a reader that overlaps a writer   *)
(* would observe a torn PDU.  A side's own index has no other writer: it   *)
(* is read together with the remote one, whose read is the racy step.      *)
(* The fences order the copy before the index store: each step below is    *)
(* visible to the other core before the next one.                          *)
(***************************************************************************)
EXTENDS Integers, Sequences

CONSTANTS
  N,          \* capacity (IPC_RING_SIZE, RING_SIZE)
  IndexSpan,  \* number of values of an index: 2^32 in the code
  Words,      \* number of words of a PDU
  Val,        \* contents of a word
  Zero,       \* the word of a zeroed PDU (BacnetPdu::new)
  NoPdu       \* result of a pop that finds nothing

ASSUME CapacityAssumption == N \in Nat \ {0}

(* N is a power of two (checked at compile time), so it divides 2^32; the  *)
(* span has room for more than one lap.                                    *)
ASSUME SpanAssumption ==
  IndexSpan \in Nat /\ \E laps \in 2 .. IndexSpan : IndexSpan = laps * N

ASSUME WordsAssumption == Words \in Nat \ {0}

ASSUME ZeroAssumption == Zero \in Val

Index == 0 .. IndexSpan - 1
Slots == 0 .. N - 1
PDU   == [0 .. Words - 1 -> Val]
ZeroPdu == [w \in 0 .. Words - 1 |-> Zero]

ASSUME NoPduAssumption == NoPdu \notin PDU

VARIABLES
  head, tail,   \* the two published indices
  buffer,       \* the slots
  ppc,          \* producer: "idle" or "copy"
  ppdu,         \* the PDU being pushed
  pword,        \* next word to copy in
  accepted,     \* result of the last completed push
  cpc,          \* consumer: "idle" or "copy"
  cpdu,         \* the consumer's copy
  cword,        \* next word to copy out
  popped        \* result of the last completed pop

producerVars == <<ppc, ppdu, pword, accepted>>
consumerVars == <<cpc, cpdu, cword, popped>>
ringVars == <<head, tail, buffer, producerVars, consumerVars>>

-----------------------------------------------------------------------------
(* u32 arithmetic on the indices.                                          *)

wrapping_inc(i) == IF i = IndexSpan - 1 THEN 0 ELSE i + 1

wrapping_sub(h, t) == IF h >= t THEN h - t ELSE h - t + IndexSpan

Slot(i) == i % N

(* Mutant: the comparison forgets that head may have wrapped. *)
is_empty_unwrapped == head <= tail

is_empty == head = tail

(* Mutant: "more than N" for "N or more". *)
is_full_late == wrapping_sub(head, tail) > N

is_full == wrapping_sub(head, tail) >= N

-----------------------------------------------------------------------------
RingInit ==
  /\ head = 0 /\ tail = 0
  /\ buffer = [s \in Slots |-> ZeroPdu]
  /\ ppc = "idle" /\ ppdu = ZeroPdu /\ pword = 0 /\ accepted = TRUE
  /\ cpc = "idle" /\ cpdu = ZeroPdu /\ cword = 0 /\ popped = NoPdu

(* push: the test that the remote tail leaves room. *)
PushBegin(v) ==
  /\ ppc = "idle"
  /\ ~is_full
  /\ ppc' = "copy" /\ ppdu' = v /\ pword' = 0
  /\ UNCHANGED <<head, tail, buffer, accepted, consumerVars>>

(* push on a full ring: the PDU is dropped and the caller told so. *)
PushFull ==
  /\ ppc = "idle"
  /\ is_full
  /\ accepted' = FALSE
  /\ UNCHANGED <<head, tail, buffer, ppc, ppdu, pword, consumerVars>>

PushCopyWord ==
  /\ ppc = "copy" /\ pword < Words
  /\ buffer' = [buffer EXCEPT ![Slot(head)] = [@ EXCEPT ![pword] = ppdu[pword]]]
  /\ pword' = pword + 1
  /\ UNCHANGED <<head, tail, ppc, ppdu, accepted, consumerVars>>

(* Mutant: the last word may still be missing when the head is published. *)
PushCommit_short_copy ==
  /\ ppc = "copy" /\ pword >= Words - 1
  /\ head' = wrapping_inc(head)
  /\ ppc' = "idle" /\ accepted' = TRUE
  /\ UNCHANGED <<tail, buffer, ppdu, pword, consumerVars>>

(* The head store that publishes the slot, after the release fence. *)
PushCommit ==
  /\ ppc = "copy" /\ pword = Words
  /\ head' = wrapping_inc(head)
  /\ ppc' = "idle" /\ accepted' = TRUE
  /\ UNCHANGED <<tail, buffer, ppdu, pword, consumerVars>>

(* pop: the test that the remote head has moved past our tail. *)
PopBegin ==
  /\ cpc = "idle"
  /\ ~is_empty
  /\ cpc' = "copy" /\ cword' = 0
  /\ UNCHANGED <<head, tail, buffer, producerVars, cpdu, popped>>

PopEmpty ==
  /\ cpc = "idle"
  /\ is_empty
  /\ popped' = NoPdu
  /\ UNCHANGED <<head, tail, buffer, producerVars, cpc, cpdu, cword>>

PopCopyWord ==
  /\ cpc = "copy" /\ cword < Words
  /\ cpdu' = [cpdu EXCEPT ![cword] = buffer[Slot(tail)][cword]]
  /\ cword' = cword + 1
  /\ UNCHANGED <<head, tail, buffer, producerVars, cpc, popped>>

(* The tail store that frees the slot, after the fence. *)
PopCommit ==
  /\ cpc = "copy" /\ cword = Words
  /\ tail' = wrapping_inc(tail)
  /\ cpc' = "idle" /\ popped' = cpdu
  /\ UNCHANGED <<head, buffer, producerVars, cpdu, cword>>

Produce == (\E v \in PDU : PushBegin(v)) \/ PushFull \/ PushCopyWord \/ PushCommit
Consume == PopBegin \/ PopEmpty \/ PopCopyWord \/ PopCommit
RingNext == Produce \/ Consume

RingSpec == RingInit /\ [][RingNext]_ringVars

(* The consumer's core polls the ring from an endless loop; nothing is     *)
(* assumed of the producer.                                                *)
FairRingSpec == RingSpec /\ WF_ringVars(Consume)

-----------------------------------------------------------------------------
RingTypeOK ==
  /\ head \in Index /\ tail \in Index
  /\ buffer \in [Slots -> PDU]
  /\ ppc \in {"idle", "copy"} /\ ppdu \in PDU /\ pword \in 0 .. Words /\ accepted \in BOOLEAN
  /\ cpc \in {"idle", "copy"} /\ cpdu \in PDU /\ cword \in 0 .. Words
  /\ popped \in PDU \cup {NoPdu}

(* No slot is written by push while pop is still copying it out, whatever  *)
(* the interleaving and however often the indices have wrapped: the two    *)
(* copies of ipc.rs:201 and ipc.rs:225 never overlap on one slot.          *)
NoSlotRace ==
  ppc = "copy" /\ cpc = "copy" => Slot(head) # Slot(tail)

(* head is never more than N ahead of tail, and an in-flight push or pop   *)
(* still has the room or the PDU that it tested for before it began to     *)
(* copy: the check of the remote index cannot go stale in a harmful way.   *)
CheckStaysValid ==
  /\ wrapping_sub(head, tail) \in 0 .. N
  /\ ppc = "copy" => ~is_full
  /\ cpc = "copy" => ~is_empty

(* The queue the ring represents. *)
Contents ==
  [i \in 1 .. wrapping_sub(head, tail) |-> buffer[Slot(tail + i - 1)]]

Fifo == INSTANCE BoundedFifo WITH
          q <- Contents, pending <- (ppc = "copy"), sending <- ppdu

(* The ring is a FIFO of capacity exactly N: every accepted PDU is handed  *)
(* over once, whole and in order; a push is refused only when N PDUs are   *)
(* queued and a pop finds nothing only when none is (ipc.rs:121-133).      *)
IsFifo == Fifo!Spec

(* A PDU at the tail is eventually taken: the consumer's core polls the    *)
(* ring forever, and neither a wrapped index nor a producer that pushes    *)
(* without pause makes the poll overlook it.  The ring is empty again and  *)
(* again or the tail moves on again and again (ipc.rs:211-229).            *)
Drains == []<>(head = tail) \/ []<><<tail' # tail>>_ringVars
=============================================================================
