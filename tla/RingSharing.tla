----------------------------- MODULE RingSharing -----------------------------
(***************************************************************************)
(* The two rings with the users they really have.  The single-producer     *)
(* single-consumer contract names one core at each end; the router task    *)
(* on Core 0 also pushes onto mstp_to_ip (send_i_am, send_who_is_broadcast,*)
(* send_reply) and pops from ip_to_mstp (process_ip_pdus):                 *)
(*                                                                         *)
(*   mstp_to_ip   pushed by Core 1 (C) and Core 0 (Rust), popped by Core 0 *)
(*   ip_to_mstp   pushed by Core 0, popped by Core 1 (C) and Core 0 (Rust) *)
(*                                                                         *)
(* The Core 0 tasks do not preempt each other, so each core runs one ring  *)
(* operation at a time; operations of the two cores interleave at every    *)
(* access to head and tail, in the order each implementation makes them.   *)
(* PDUs are numbered in the order they are pushed; the copy of a PDU is    *)
(* one step (IpcRing models it word by word).                              *)
(***************************************************************************)
EXTENDS Integers, Sequences, FiniteSets

CONSTANTS
  RingSize,   \* capacity (8 in the code)
  IndexSpan,  \* number of values of an index (2^32 in the code)
  MaxOps      \* bound: operations begun

(* The capacity is a power of two, so it divides 2^32. *)
ASSUME SharingAssumption ==
  /\ RingSize \in Nat \ {0} /\ IndexSpan \in Nat /\ MaxOps \in Nat
  /\ \E laps \in 2 .. IndexSpan : IndexSpan = laps * RingSize

Core == {"core0", "core1"}
Ring == {"mstp_to_ip", "ip_to_mstp"}

(* Which core begins which operation on which ring. *)
Users ==
  {<<"core1", "push", "mstp_to_ip">>, <<"core1", "pop", "ip_to_mstp">>,
   <<"core0", "push", "mstp_to_ip">>, <<"core0", "pop", "mstp_to_ip">>,
   <<"core0", "push", "ip_to_mstp">>, <<"core0", "pop", "ip_to_mstp">>}

NoPdu == 0

VARIABLES
  head, tail,  \* published indices of each ring
  slot,        \* slot contents of each ring
  op,          \* the operation each core is in
  queued,      \* history: PDUs published on each ring and not yet taken
  misdelivered,\* history: PDUs a pop returned that were not the oldest queued
  overlapped,  \* history: the cores were at the same end of one ring at once
  ops,         \* operations begun
  next         \* number of the next PDU

vars == <<head, tail, slot, op, queued, misdelivered, overlapped, ops, next>>

Idle == [kind |-> "none", ring |-> "mstp_to_ip", pc |-> "idle", h |-> 0, t |-> 0, pdu |-> NoPdu]

wrapping_sub(a, b) == (a - b) % IndexSpan
wrapping_inc(a) == (a + 1) % IndexSpan

Init ==
  /\ head = [r \in Ring |-> 0] /\ tail = [r \in Ring |-> 0]
  /\ slot = [r \in Ring |-> [i \in 0 .. RingSize - 1 |-> NoPdu]]
  /\ op = [c \in Core |-> Idle]
  /\ queued = [r \in Ring |-> <<>>]
  /\ misdelivered = {} /\ overlapped = FALSE /\ ops = 0 /\ next = 1

-----------------------------------------------------------------------------
(* Both implementations read head, then tail, for the full or empty test.  *)
Begin(c, k, r) ==
  /\ op[c].pc = "idle" /\ ops < MaxOps
  /\ <<c, k, r>> \in Users
  /\ op' = [op EXCEPT ![c] = [kind |-> k, ring |-> r, pc |-> "test", h |-> head[r], t |-> 0,
                              pdu |-> IF k = "push" THEN next ELSE NoPdu]]
  /\ next' = IF k = "push" THEN next + 1 ELSE next
  /\ ops' = ops + 1
  /\ overlapped' = (overlapped \/ \E d \in Core \ {c} : op[d].kind = k /\ op[d].ring = r)
  /\ UNCHANGED <<head, tail, slot, queued, misdelivered>>

(* Mutant: a push that finds the ring full goes on. *)
Blocked_late(o, t) ==
  IF o.kind = "push" THEN wrapping_sub(o.h, t) > RingSize ELSE o.h = t

Blocked(o, t) ==
  IF o.kind = "push" THEN wrapping_sub(o.h, t) >= RingSize ELSE o.h = t

(* The read of tail and the test.  Rust goes on with the values it has     *)
(* read; C reads its own index again (ipc_c.c:143, ipc_c.c:183).           *)
Test(c) ==
  LET o == op[c] IN
  /\ o.pc = "test"
  /\ \/ /\ Blocked(o, tail[o.ring])
        /\ op' = [op EXCEPT ![c] = Idle]
     \/ /\ ~Blocked(o, tail[o.ring])
        /\ op' = [op EXCEPT ![c].t = tail[o.ring],
                            ![c].pc = IF c = "core1" THEN "reread" ELSE "copy"]
  /\ UNCHANGED <<head, tail, slot, queued, misdelivered, overlapped, ops, next>>

Reread(c) ==
  LET o == op[c] IN
  /\ o.pc = "reread"
  /\ op' = [op EXCEPT ![c].pc = "copy",
                      ![c].h = IF o.kind = "push" THEN head[o.ring] ELSE o.h,
                      ![c].t = IF o.kind = "pop" THEN tail[o.ring] ELSE o.t]
  /\ UNCHANGED <<head, tail, slot, queued, misdelivered, overlapped, ops, next>>

Copy(c) ==
  LET o == op[c] IN
  /\ o.pc = "copy"
  /\ IF o.kind = "push"
     THEN /\ slot' = [slot EXCEPT ![o.ring][o.h % RingSize] = o.pdu]
          /\ op' = [op EXCEPT ![c].pc = "store"]
     ELSE /\ op' = [op EXCEPT ![c].pc = "store", ![c].pdu = slot[o.ring][o.t % RingSize]]
          /\ UNCHANGED slot
  /\ UNCHANGED <<head, tail, queued, misdelivered, overlapped, ops, next>>

StorePush(c) ==
  LET o == op[c] IN
  /\ o.pc = "store" /\ o.kind = "push"
  /\ head' = [head EXCEPT ![o.ring] = wrapping_inc(o.h)]
  /\ op' = [op EXCEPT ![c] = Idle]
  /\ queued' = [queued EXCEPT ![o.ring] = Append(@, o.pdu)]
  /\ UNCHANGED <<tail, slot, misdelivered, overlapped, ops, next>>

StorePop(c) ==
  LET o == op[c] IN
  /\ o.pc = "store" /\ o.kind = "pop"
  /\ tail' = [tail EXCEPT ![o.ring] = wrapping_inc(o.t)]
  /\ op' = [op EXCEPT ![c] = Idle]
  /\ LET q == queued[o.ring] IN
       IF q # <<>> /\ Head(q) = o.pdu
       THEN queued' = [queued EXCEPT ![o.ring] = Tail(q)] /\ UNCHANGED misdelivered
       ELSE misdelivered' = misdelivered \cup {o.pdu} /\ UNCHANGED queued
  /\ UNCHANGED <<head, slot, overlapped, ops, next>>

Step(c) ==
  \/ \E k \in {"push", "pop"}, r \in Ring : Begin(c, k, r)
  \/ Test(c) \/ Reread(c) \/ Copy(c) \/ StorePush(c) \/ StorePop(c)

Next == \E c \in Core : Step(c)

Spec == Init /\ [][Next]_vars

-----------------------------------------------------------------------------
TypeOK ==
  /\ head \in [Ring -> 0 .. IndexSpan - 1] /\ tail \in [Ring -> 0 .. IndexSpan - 1]
  /\ slot \in [Ring -> [0 .. RingSize - 1 -> 0 .. MaxOps]]
  /\ op \in [Core -> [kind : {"none", "push", "pop"}, ring : Ring,
                      pc : {"idle", "test", "reread", "copy", "store"},
                      h : 0 .. IndexSpan - 1, t : 0 .. IndexSpan - 1, pdu : 0 .. MaxOps]]
  /\ misdelivered \subseteq 0 .. MaxOps /\ overlapped \in BOOLEAN
  /\ ops \in 0 .. MaxOps /\ next \in 1 .. MaxOps + 1

(* A ring never holds more than its capacity and the tail never overtakes  *)
(* the head (bridge-core/src/ipc.rs:127-133).                              *)
OccupancyWithinCapacity ==
  \A r \in Ring : wrapping_sub(head[r], tail[r]) <= RingSize

(* Every pop returns the oldest PDU that was published and not yet taken:  *)
(* nothing twice, nothing stale, nothing skipped (bacnet_bridge.h:219-221, *)
(* ipc_c.c:12-17: the scheme needs no lock).                               *)
DeliveredOnceInOrder == misdelivered = {}

(* What is true of the code: several users of one end are harmless as long *)
(* as their calls do not overlap, even though the two implementations read *)
(* the indices in different orders and each may be at either end.          *)
SafeUnlessOverlapped ==
  ~overlapped => OccupancyWithinCapacity /\ DeliveredOnceInOrder
=============================================================================
