--------------------------- MODULE Services_proofs ---------------------------
(***************************************************************************)
(* Proofs about systems that stand side by side in MCServices: the order   *)
(* of the mutexes (Locks), the time client (TimeSync), the sessions of the *)
(* REST API (RestApi), the rings with their real users (RingSharing), the  *)
(* broker session (MqttSession) and the firmware update (FirmwareUpdate).  *)
(***************************************************************************)
EXTENDS Locks, TimeSync, RestApi, RingSharing, MqttSession, FirmwareUpdate,
        FiniteSetTheorems, WellFoundedInduction, TLAPS

LEMMA LeastNat ==
  ASSUME NEW S \in SUBSET Nat, S # {}
  PROVE  \E x \in S : \A y \in S : x <= y
<1>1. PICK x \in S : \A y \in S : ~(<<y, x>> \in OpToRel(<, Nat))
  BY WFMin, NatLessThanWellFounded, Zenon
<1>2. \A y \in S : ~(y < x)
  BY <1>1 DEF OpToRel
<1> QED
  BY <1>2

-----------------------------------------------------------------------------
(* Locks.  The mutexes have an order; a program that takes one while it    *)
(* holds another takes the later one.  That is a fact about each program,  *)
(* put together from its parts; the invariant is only that threads run     *)
(* such programs.                                                          *)
Mutex == {"BULK_CONFIG_BUF", "CONFIG", "BRIDGE_STATE", "SESSION_STORE", "FLASH", "SYSLOG_TARGET"}

Rank(m) == IF m = "BULK_CONFIG_BUF" THEN 1 ELSE IF m = "CONFIG" THEN 2 ELSE 3

Op == ({"lock", "unlock"} \X Mutex) \cup {Wait_}

(* The lock at k is held after n steps of p. *)
Holds(p, n, k) ==
  k \in 1 .. n /\ p[k][1] = "lock" /\ \A j \in k + 1 .. n : p[j] # Drop_(p[k][2])

(* What a program takes is later than what it holds, it does not wait with *)
(* the flash, and it ends with nothing held.                               *)
Orderly(p) ==
  /\ p \in Seq(Op)
  /\ \A n \in 0 .. Len(p), k \in 1 .. Len(p) : Holds(p, n, k) =>
       /\ n < Len(p)
       /\ p[n + 1][1] = "lock" => Rank(p[k][2]) < Rank(p[n + 1][2])
       /\ p[k][2] = "FLASH" => p[n + 1][1] # "wait"

LEMMA Sequenced ==
  ASSUME NEW p, NEW q, Orderly(p), Orderly(q)
  PROVE  Orderly(p \o q)
<1> DEFINE r == p \o q
           a == Len(p)
           b == Len(q)
<1>1. /\ p \in Seq(Op) /\ q \in Seq(Op) /\ a \in Nat /\ b \in Nat
      /\ r \in Seq(Op) /\ Len(r) = a + b
  BY DEF Orderly
<1>2. /\ \A k \in 1 .. a : r[k] = p[k]
      /\ \A k \in 1 .. b : r[a + k] = q[k]
  BY <1>1
<1> HIDE DEF r, a, b
<1> SUFFICES ASSUME NEW n \in 0 .. a + b, NEW k \in 1 .. a + b, Holds(r, n, k)
             PROVE  /\ n < a + b
                    /\ r[n + 1][1] = "lock" => Rank(r[k][2]) < Rank(r[n + 1][2])
                    /\ r[k][2] = "FLASH" => r[n + 1][1] # "wait"
  BY <1>1 DEF Orderly, r
<1>3. CASE k <= a
  <2>1. r[k] = p[k] /\ k \in 1 .. a
    BY <1>1, <1>2, <1>3
  <2>2. CASE n <= a
    <3>1. Holds(p, n, k)
      BY <1>1, <1>2, <2>1, <2>2 DEF Holds
    <3>2. /\ n < a
          /\ p[n + 1][1] = "lock" => Rank(p[k][2]) < Rank(p[n + 1][2])
          /\ p[k][2] = "FLASH" => p[n + 1][1] # "wait"
      <4>1. n \in 0 .. a
        BY <1>1, <2>2
      <4> QED
        BY <4>1, <2>1, <3>1 DEF Orderly, a
    <3>3. r[n + 1] = p[n + 1]
      <4>1. n + 1 \in 1 .. a
        BY <1>1, <3>2
      <4> QED
        BY <4>1, <1>2
    <3> QED
      BY <1>1, <2>1, <3>2, <3>3
  <2>3. CASE n > a
    <3>1. Holds(p, a, k)
      BY <1>1, <1>2, <2>1, <2>3 DEF Holds
    <3>2. a < a
      BY <1>1, <2>1, <3>1 DEF Orderly, a
    <3> QED
      BY <1>1, <3>2
  <2> QED
    BY <1>1, <2>2, <2>3
<1>4. CASE k > a
  <2> DEFINE l == k - a
             m == n - a
  <2>0. k <= n
    BY DEF Holds
  <2>1. l \in 1 .. b /\ m \in 0 .. b /\ k = a + l /\ n = a + m
    BY <1>1, <1>4, <2>0
  <2> HIDE DEF l, m
  <2>5. r[k] = q[l]
    BY <1>2, <2>1
  <2>2. Holds(q, m, l)
    <3>1. l \in 1 .. m /\ q[l][1] = "lock"
      BY <1>1, <2>1, <2>5 DEF Holds
    <3>2. ASSUME NEW j \in l + 1 .. m PROVE q[j] # Drop_(q[l][2])
      <4>1. a + j \in k + 1 .. n /\ j \in 1 .. b
        BY <1>1, <2>1
      <4> QED
        BY <4>1, <1>2, <2>5 DEF Holds
    <3> QED
      BY <3>1, <3>2 DEF Holds
  <2>3. /\ m < b
        /\ q[m + 1][1] = "lock" => Rank(q[l][2]) < Rank(q[m + 1][2])
        /\ q[l][2] = "FLASH" => q[m + 1][1] # "wait"
    BY <1>1, <2>1, <2>2 DEF Orderly, b
  <2>4. r[n + 1] = q[m + 1]
    <3>1. m + 1 \in 1 .. b /\ n + 1 = a + (m + 1)
      BY <1>1, <2>1, <2>3
    <3> QED
      BY <3>1, <1>2
  <2> QED
    BY <1>1, <2>1, <2>3, <2>4, <2>5
<1> QED
  BY <1>1, <1>3, <1>4

LEMMA Parts ==
  /\ Orderly(<<>>) /\ Orderly(<<Wait_>>)
  /\ \A m \in Mutex : Orderly(Use(m))
  /\ Orderly(<<Take_("BULK_CONFIG_BUF"), Take_("CONFIG"), Drop_("CONFIG"), Drop_("BULK_CONFIG_BUF")>>)
  /\ Orderly(<<Take_("CONFIG"), Take_("BRIDGE_STATE"), Drop_("BRIDGE_STATE"), Drop_("CONFIG")>>)
  /\ Orderly(<<Take_("BRIDGE_STATE"), Wait_, Drop_("BRIDGE_STATE")>>)
<1>1. Orderly(<<>>)
  BY DEF Orderly
<1>2. Orderly(<<Wait_>>)
  <2> DEFINE p == <<Wait_>>
  <2>1. p \in Seq(Op) /\ Len(p) = 1 /\ p[1][1] # "lock"
    BY DEF Wait_, Op
  <2> QED
    BY <2>1 DEF Orderly, Holds
<1>3. ASSUME NEW m \in Mutex PROVE Orderly(Use(m))
  <2> DEFINE p == <<Take_(m), Drop_(m)>>
  <2>1. p \in Seq(Op) /\ Len(p) = 2
    BY DEF Take_, Drop_, Op
  <2>2. p[2] = Drop_(p[1][2]) /\ p[2][1] = "unlock"
    BY DEF Take_, Drop_
  <2> HIDE DEF p
  <2>3. ASSUME NEW n \in 0 .. 2, NEW k \in 1 .. 2, Holds(p, n, k)
        PROVE  k = 1 /\ n = 1
    BY <2>2, <2>3 DEF Holds
  <2>4. Orderly(p)
    BY <2>1, <2>2, <2>3 DEF Orderly
  <2> QED
    BY <2>4 DEF Use, p
<1>4. Orderly(<<Take_("BULK_CONFIG_BUF"), Take_("CONFIG"), Drop_("CONFIG"), Drop_("BULK_CONFIG_BUF")>>)
  <2> DEFINE p == <<Take_("BULK_CONFIG_BUF"), Take_("CONFIG"), Drop_("CONFIG"), Drop_("BULK_CONFIG_BUF")>>
  <2>1. p \in Seq(Op) /\ Len(p) = 4
    BY DEF Take_, Drop_, Op, Mutex
  <2>2. /\ p[4] = Drop_(p[1][2]) /\ p[3] = Drop_(p[2][2])
        /\ p[2][1] = "lock" /\ p[3][1] = "unlock" /\ p[4][1] = "unlock"
        /\ Rank(p[1][2]) < Rank(p[2][2]) /\ p[1][2] # "FLASH" /\ p[2][2] # "FLASH"
    BY DEF Take_, Drop_, Rank
  <2> HIDE DEF p
  <2>3. ASSUME NEW n \in 0 .. 4, NEW k \in 1 .. 4, Holds(p, n, k)
        PROVE  (k = 1 /\ n \in 1 .. 3) \/ (k = 2 /\ n = 2)
    BY <2>2, <2>3 DEF Holds
  <2>4. Orderly(p)
    BY <2>1, <2>2, <2>3 DEF Orderly
  <2> QED
    BY <2>4 DEF p
<1>5. Orderly(<<Take_("CONFIG"), Take_("BRIDGE_STATE"), Drop_("BRIDGE_STATE"), Drop_("CONFIG")>>)
  <2> DEFINE p == <<Take_("CONFIG"), Take_("BRIDGE_STATE"), Drop_("BRIDGE_STATE"), Drop_("CONFIG")>>
  <2>1. p \in Seq(Op) /\ Len(p) = 4
    BY DEF Take_, Drop_, Op, Mutex
  <2>2. /\ p[4] = Drop_(p[1][2]) /\ p[3] = Drop_(p[2][2])
        /\ p[2][1] = "lock" /\ p[3][1] = "unlock" /\ p[4][1] = "unlock"
        /\ Rank(p[1][2]) < Rank(p[2][2]) /\ p[1][2] # "FLASH" /\ p[2][2] # "FLASH"
    BY DEF Take_, Drop_, Rank
  <2> HIDE DEF p
  <2>3. ASSUME NEW n \in 0 .. 4, NEW k \in 1 .. 4, Holds(p, n, k)
        PROVE  (k = 1 /\ n \in 1 .. 3) \/ (k = 2 /\ n = 2)
    BY <2>2, <2>3 DEF Holds
  <2>4. Orderly(p)
    BY <2>1, <2>2, <2>3 DEF Orderly
  <2> QED
    BY <2>4 DEF p
<1>6. Orderly(<<Take_("BRIDGE_STATE"), Wait_, Drop_("BRIDGE_STATE")>>)
  <2> DEFINE p == <<Take_("BRIDGE_STATE"), Wait_, Drop_("BRIDGE_STATE")>>
  <2>1. p \in Seq(Op) /\ Len(p) = 3
    BY DEF Take_, Drop_, Op, Mutex
  <2>2. /\ p[3] = Drop_(p[1][2]) /\ p[2][1] = "wait" /\ p[3][1] = "unlock"
        /\ p[1][2] # "FLASH"
    BY DEF Take_, Drop_, Wait_
  <2> HIDE DEF p
  <2>3. ASSUME NEW n \in 0 .. 3, NEW k \in 1 .. 3, Holds(p, n, k)
        PROVE  k = 1 /\ n \in 1 .. 2
    BY <2>2, <2>3 DEF Holds
  <2>4. Orderly(p)
    BY <2>1, <2>2, <2>3 DEF Orderly
  <2> QED
    BY <2>4 DEF p
<1> QED
  BY <1>1, <1>2, <1>3, <1>4, <1>5, <1>6

LEMMA ProgramsOrderly == \A p \in Handlers \cup UNION Tasks : Orderly(p)
<1> DEFINE W == <<Wait_>>
           Bulk == <<Take_("BULK_CONFIG_BUF"), Take_("CONFIG"), Drop_("CONFIG"),
                     Drop_("BULK_CONFIG_BUF")>>
           Both == <<Take_("CONFIG"), Take_("BRIDGE_STATE"), Drop_("BRIDGE_STATE"),
                     Drop_("CONFIG")>>
           Long == <<Take_("BRIDGE_STATE"), Wait_, Drop_("BRIDGE_STATE")>>
<1>1. /\ Orderly(W) /\ Orderly(Bulk) /\ Orderly(Both) /\ Orderly(Long)
      /\ Orderly(Use("CONFIG")) /\ Orderly(Use("BRIDGE_STATE"))
      /\ Orderly(Use("SESSION_STORE")) /\ Orderly(Use("FLASH")) /\ Orderly(Use("SYSLOG_TARGET"))
  BY Parts DEF Mutex
<1>2. \A p, q : Orderly(p) /\ Orderly(q) => Orderly(p \o q)
  BY Sequenced
<1>w. <<Wait_, Wait_>> = W \o W
  OBVIOUS
<1>b. GetBulkConfig = Bulk \o W
  BY DEF GetBulkConfig, Use
<1>r. RouterValue = W \o Both
  BY DEF RouterValue
<1> HIDE DEF W, Bulk, Both
<1>3. Orderly(BearerCheck) /\ Orderly(GetBulkConfig) /\ Orderly(RouterValue)
      /\ Orderly(W \o W)
  BY <1>1, <1>2, <1>b, <1>r DEF BearerCheck
<1>4. Orderly(GetStatus) /\ Orderly(GetDevices) /\ Orderly(GetSettings) /\ Orderly(GetUserList)
      /\ Orderly(Logout) /\ Orderly(RouterState) /\ Orderly(ResetToFactory) /\ Orderly(SavePass)
      /\ Orderly(SyslogLine) /\ Orderly(Refresh) /\ Orderly(Delete)
  BY <1>1, <1>2, <1>3, <1>w
  DEF GetStatus, GetDevices, GetSettings, GetUserList, Logout, RouterState, ResetToFactory,
      SavePass, SyslogLine, Refresh, Delete, W
<1>5. Orderly(PutOrPost) /\ Orderly(Login) /\ Orderly(SnmpAnswer) /\ Orderly(MdnsAnswer)
  BY <1>1, <1>2, <1>3 DEF PutOrPost, Login, SnmpAnswer, MdnsAnswer, W
<1>6. Orderly(EventStream) /\ Orderly(Upload) /\ Orderly(MqttPass)
  BY <1>1, <1>2 DEF EventStream, Upload, MqttPass, W
<1> QED
  BY <1>3, <1>4, <1>5, <1>6 DEF Handlers, Tasks

(* Threads run orderly programs and are somewhere in them. *)
LocksInv ==
  /\ program \in [Threads -> {p \in Seq(Op) : Orderly(p)}]
  /\ done \in [Threads -> Nat]
  /\ \A t \in Threads : done[t] <= Len(program[t])

LEMMA LocksStep == LocksInv /\ [LocksNext]_lockVars => LocksInv'
<1> SUFFICES ASSUME LocksInv, [LocksNext]_lockVars PROVE LocksInv'
  OBVIOUS
<1> DEFINE G == {p \in Seq(Op) : Orderly(p)}
<1>0. /\ program \in [Threads -> G] /\ done \in [Threads -> Nat]
      /\ \A t \in Threads : done[t] <= Len(program[t]) /\ Len(program[t]) \in Nat
  BY DEF LocksInv
<1>1. ASSUME NEW t \in Threads, BeginPass(t) PROVE LocksInv'
  <2>1. PICK p \in Handlers \cup UNION Tasks : program' = [program EXCEPT ![t] = p]
    BY <1>1 DEF BeginPass
  <2>2. p \in G /\ Len(p) \in Nat
    BY ProgramsOrderly DEF Orderly
  <2> HIDE DEF G
  <2>3. program' \in [Threads -> G] /\ done' \in [Threads -> Nat]
        /\ \A u \in Threads : done'[u] <= Len(program'[u])
    BY <1>0, <1>1, <2>1, <2>2 DEF BeginPass
  <2> QED
    BY <2>3 DEF LocksInv, G
<1>2. ASSUME NEW t \in Threads, Proceed(t) PROVE LocksInv'
  BY <1>0, <1>2 DEF Proceed, Running, LocksInv
<1>3. ASSUME NEW t \in Threads, Return(t) PROVE LocksInv'
  <2>1. <<>> \in G /\ Len(<<>>) = 0
    BY Parts
  <2> HIDE DEF G
  <2>2. program' \in [Threads -> G] /\ done' \in [Threads -> Nat]
        /\ \A u \in Threads : done'[u] <= Len(program'[u])
    BY <1>0, <1>3, <2>1 DEF Return
  <2> QED
    BY <2>2 DEF LocksInv, G
<1>4. CASE UNCHANGED lockVars
  BY <1>0, <1>4 DEF lockVars, LocksInv
<1> QED
  BY <1>1, <1>2, <1>3, <1>4 DEF LocksNext

(* Of the threads of a set the one that wants the last mutex waits for     *)
(* none of them: who holds it wants a later one, or nothing.               *)
LEMMA NoCircle == LocksInv => NoCircularWait
<1> SUFFICES ASSUME LocksInv PROVE NoCircularWait
  OBVIOUS
<1>0. \A t \in Threads : /\ Orderly(program[t]) /\ program[t] \in Seq(Op)
                         /\ Len(program[t]) \in Nat /\ done[t] \in 0 .. Len(program[t])
  BY DEF LocksInv
<1>1. ASSUME NEW t \in Threads, NEW m \in Held(t)
      PROVE  /\ Running(t)
             /\ NextStep(t)[1] = "lock" => Rank(m) < Rank(NextStep(t)[2])
             /\ m = "FLASH" => NextStep(t)[1] # "wait"
  <2>1. PICK k \in 1 .. done[t] : m = program[t][k][2] /\ Holds(program[t], done[t], k)
    BY <1>1 DEF Held, Holds
  <2>2. k \in 1 .. Len(program[t])
    BY <1>0
  <2> QED
    BY <1>0, <2>1, <2>2 DEF Orderly, Running, NextStep
<1>2. ASSUME NEW S \in SUBSET Threads, S # {}
      PROVE  \E t \in S : \A u \in S : ~WaitsFor(t, u)
  <2> SUFFICES ASSUME \A t \in S : \E u \in S : WaitsFor(t, u) PROVE FALSE
    OBVIOUS
  <2> DEFINE R(t) == 3 - Rank(NextStep(t)[2])
  <2>1. {R(t) : t \in S} \in SUBSET Nat /\ {R(t) : t \in S} # {}
    BY <1>2 DEF Rank
  <2>2. PICK t \in S : \A u \in S : R(t) <= R(u)
    <3> HIDE DEF R
    <3> DEFINE X == {R(t) : t \in S}
    <3>1. PICK x \in X : \A y \in X : x <= y
      BY <2>1, LeastNat
    <3> QED
      BY <3>1
  <2>3. PICK u \in S : WaitsFor(t, u)
    OBVIOUS
  <2>4. NextStep(u)[1] = "lock"
    BY DEF WaitsFor
  <2>5. Rank(NextStep(t)[2]) < Rank(NextStep(u)[2])
    BY <1>1, <2>3, <2>4 DEF WaitsFor
  <2> QED
    BY <2>2, <2>5 DEF Rank
<1> QED
  BY <1>1, <1>2 DEF NoCircularWait

(* For any number of handlers and tasks at once, no group of them waits in *)
(* a circle, and the flash is never held across a wait for the network     *)
(* (http.rs, bacnet_router.rs:212, 318, config.rs:282, ota.rs:114-238).    *)
THEOREM LocksHaveOrder == LocksSpec => []NoCircularWait
<1>1. LocksInit => LocksInv
  BY Parts DEF LocksInit, LocksInv
<1> QED
  BY <1>1, LocksStep, NoCircle, PTL DEF LocksSpec

-----------------------------------------------------------------------------
(* TimeSync.  An answer to this cycle's port is no older than the attempts *)
(* of the cycle have taken; before the first of them nothing was sent from *)
(* the port, so no answer to it exists.                                    *)
Packet == [port : Nat, time : Nat, stratum : {0, 1}]

TimeTypeOK ==
  /\ now \in StartTime .. MaxTime /\ phase \in {"resolve", "send", "wait", "sleep"}
  /\ attempt \in Nat /\ waited \in Nat /\ cycle \in Nat
  /\ asked \in SUBSET Nat /\ replies \in SUBSET Packet /\ rx \in SUBSET Packet
  /\ UNIX_EPOCH_SECS \in Nat /\ storedAt \in Nat

(* The place in the attempts. *)
AttemptsInBounds ==
  /\ phase = "send" => attempt <= MaxAttempts /\ waited = 0
  /\ phase = "wait" => attempt < MaxAttempts /\ waited <= AttemptTimeout

PortsOfCycles ==
  /\ \A n \in asked : n <= cycle /\ (phase = "resolve" => n < cycle)
  /\ \A p \in replies : p.port \in asked
  /\ \A p \in rx : p.port = cycle
  /\ phase \in {"resolve", "sleep"} => rx = {}

Spent == attempt * AttemptTimeout + waited

(* The server's time in p is at most what was spent on attempts ago. *)
Recent(p) == \E s \in 0 .. now : p.time = NtpTime(s) /\ now - s <= Spent

RepliesRecent ==
  phase \in {"send", "wait"} => \A p \in replies \cup rx : p.port = cycle => Recent(p)

TimeInv == TimeTypeOK /\ AttemptsInBounds /\ PortsOfCycles /\ RepliesRecent /\ TimeIsFresh

LEMMA Times ==
  /\ DnsAttempts \in Nat \ {0} /\ DnsTimeout \in Nat \ {0} /\ MaxAttempts \in Nat \ {0}
  /\ AttemptTimeout \in Nat \ {0} /\ Interval \in Nat \ {0} /\ Offset \in Nat /\ Era \in Nat
  /\ StartTime \in Nat /\ MaxTime \in Nat /\ Offset < Era /\ 0 < StartTime
  /\ StartTime <= MaxTime
  BY TimesAssumption

(* Later attempts have taken no less. *)
LEMMA SpentGrows ==
  ASSUME NEW a \in Nat, NEW b \in Nat, a <= b, NEW d \in Nat
  PROVE  a * d \in Nat /\ b * d \in Nat /\ a * d <= b * d
<1>1. PICK k \in Nat : b = a + k
  BY SMT
<1>2. a * d \in Nat /\ k * d \in Nat /\ b * d = a * d + k * d
  BY <1>1, SMT
<1> QED
  BY <1>2

LEMMA TimeInitInv == TimeInit => TimeInv
  BY Times DEF TimeInit, TimeInv, TimeTypeOK, AttemptsInBounds, PortsOfCycles, RepliesRecent,
               TimeIsFresh

(* What is stored is a time of the server's. *)
LEMMA ServersTime ==
  ASSUME MaxTime < Era, NEW s \in 0 .. MaxTime, NEW x \in ntp_to_unix_epoch(NtpTime(s))
  PROVE  x = s
<1>1. s + Offset \in Nat /\ s < Era /\ s + Offset < 2 * Era
  BY Times
<1>2. CASE s + Offset < Era
  <2>1. (s + Offset) % Era = s + Offset
    BY <1>1, <1>2, Times
  <2> QED
    BY <2>1, <1>1, Times DEF ntp_to_unix_epoch, NtpTime
<1>3. CASE s + Offset >= Era
  <2>1. (s + Offset) % Era = s + Offset - Era
    BY <1>1, <1>3, Times
  <2>2. s + Offset - Era < Offset
    BY <1>1, Times
  <2> QED
    BY <2>1, <2>2, <1>1, Times DEF ntp_to_unix_epoch, NtpTime
<1> QED
  BY <1>1, <1>2, <1>3, Times

LEMMA TimeStep ==
  ASSUME MaxTime < Era, TimeInv, [TimeNext]_timeVars
  PROVE  TimeInv'
<1> USE Times
<1>0. TimeTypeOK /\ AttemptsInBounds /\ PortsOfCycles /\ RepliesRecent /\ TimeIsFresh
  BY DEF TimeInv
<1>n. now \in Nat /\ attempt \in Nat /\ waited \in Nat /\ attempt * AttemptTimeout \in Nat
      /\ (attempt + 1) * AttemptTimeout = attempt * AttemptTimeout + AttemptTimeout
  BY <1>0 DEF TimeTypeOK
(* A step that leaves the packets, the stored time and the clock alone.    *)
<1>1. ASSUME UNCHANGED <<now, cycle, asked, replies, UNIX_EPOCH_SECS, storedAt>>,
             rx' \in {rx, {}},
             phase' \in {"resolve", "send", "wait", "sleep"}, attempt' \in Nat, waited' \in Nat,
             AttemptsInBounds',
             phase' \in {"resolve", "sleep"} => rx' = {},
             phase' = "resolve" => phase = "resolve",
             phase' \in {"send", "wait"} =>
               phase = "resolve" \/ (phase \in {"send", "wait"} /\ Spent <= Spent')
      PROVE  TimeInv'
  <2>1. TimeTypeOK'
    BY <1>0, <1>1 DEF TimeTypeOK
  <2>2. PortsOfCycles'
    BY <1>0, <1>1 DEF PortsOfCycles
  <2>3. RepliesRecent'
    <3> SUFFICES ASSUME phase' \in {"send", "wait"}, NEW p \in replies \cup rx, p.port = cycle
                 PROVE  Recent(p)'
      BY <1>1 DEF RepliesRecent
    <3>1. phase # "resolve"
      BY <1>0 DEF PortsOfCycles, TimeTypeOK
    <3>2. PICK s \in 0 .. now : p.time = NtpTime(s) /\ now - s <= Spent
      BY <3>1, <1>0, <1>1 DEF RepliesRecent, Recent
    <3>3. Spent \in Nat /\ Spent' \in Int /\ now - s \in Int /\ Spent <= Spent'
      <4>0. attempt' \in Nat
        BY <1>1
      <4>1. attempt' * AttemptTimeout \in Nat
        <5> HIDE Times
        <5>1. \A a, d \in Nat : a * d \in Nat
          BY SMT
        <5> QED
          BY <4>0, <5>1, Times
      <4>2. Spent \in Nat /\ Spent' \in Int /\ now - s \in Int
        BY <4>1, <1>1, <1>n DEF Spent
      <4> QED
        BY <4>2, <3>1, <1>1
    <3>4. now - s <= Spent'
      BY <3>2, <3>3
    <3> QED
      BY <3>2, <3>4, <1>1 DEF Recent, NtpTime
  <2>4. TimeIsFresh'
    BY <1>0, <1>1 DEF TimeIsFresh
  <2> QED
    BY <2>1, <2>2, <2>3, <2>4, <1>1 DEF TimeInv
<1>2. CASE Tick
  <2>1. /\ phase \in {"resolve", "wait", "sleep"} /\ now' = now + 1 /\ waited' = waited + 1
        /\ phase = "wait" => waited < AttemptTimeout
        /\ now' \in StartTime .. MaxTime
        /\ UNCHANGED <<phase, attempt, cycle, rx, asked, replies, UNIX_EPOCH_SECS, storedAt>>
    BY <1>0, <1>2 DEF Tick, Deadline, TimeTypeOK, AttemptsInBounds
  <2>2. TimeTypeOK' /\ AttemptsInBounds' /\ PortsOfCycles' /\ TimeIsFresh'
    BY <1>0, <2>1 DEF TimeTypeOK, AttemptsInBounds, PortsOfCycles, TimeIsFresh
  <2>3. RepliesRecent'
    <3> SUFFICES ASSUME phase = "wait", NEW p \in replies \cup rx, p.port = cycle
                 PROVE  Recent(p)'
      BY <2>1 DEF RepliesRecent
    <3>1. PICK s \in 0 .. now : p.time = NtpTime(s) /\ now - s <= Spent
      BY <1>0 DEF RepliesRecent, Recent
    <3>2. s \in 0 .. now' /\ now' - s <= Spent'
      BY <1>n, <2>1, <3>1 DEF Spent
    <3> QED
      BY <3>1, <3>2 DEF Recent, NtpTime
  <2> QED
    BY <2>2, <2>3 DEF TimeInv
<1>3. CASE Resolved \/ ResolveFails
  <2>1. /\ phase = "resolve" /\ phase' \in {"resolve", "send"} /\ rx = {} /\ rx' = rx
        /\ attempt' \in Nat /\ waited' = 0
        /\ phase' = "send" => attempt' = 0
        /\ UNCHANGED <<now, cycle, asked, replies, UNIX_EPOCH_SECS, storedAt>>
    BY <1>0, <1>3 DEF Resolved, ResolveFails, Enter, PortsOfCycles, TimeTypeOK
  <2>2. AttemptsInBounds'
    BY <2>1 DEF AttemptsInBounds
  <2> QED
    BY <1>1, <2>1, <2>2
<1>4. CASE BindFails \/ GiveUp
  <2>1. /\ phase' = "sleep" /\ rx' = {} /\ attempt' = 0 /\ waited' = 0
        /\ UNCHANGED <<now, cycle, asked, replies, UNIX_EPOCH_SECS, storedAt>>
    BY <1>4 DEF BindFails, GiveUp, Sleep, Enter
  <2>2. AttemptsInBounds'
    BY <2>1 DEF AttemptsInBounds
  <2> QED
    BY <1>1, <2>1, <2>2
<1>5. CASE Send
  <2>1. /\ phase = "send" /\ phase' = "wait" /\ attempt < MaxAttempts /\ waited = 0 /\ waited' = 0
        /\ asked' = asked \cup {cycle}
        /\ UNCHANGED <<now, attempt, cycle, rx, replies, UNIX_EPOCH_SECS, storedAt>>
    BY <1>0, <1>5 DEF Send, LocalPort, AttemptsInBounds
  <2>2. TimeTypeOK' /\ AttemptsInBounds' /\ PortsOfCycles' /\ TimeIsFresh'
    BY <1>0, <2>1 DEF TimeTypeOK, AttemptsInBounds, PortsOfCycles, TimeIsFresh
  <2>3. RepliesRecent'
    BY <1>0, <2>1 DEF RepliesRecent, Recent, Spent, NtpTime
  <2> QED
    BY <2>2, <2>3 DEF TimeInv
<1>6. ASSUME NextAttempt, phase \in {"send", "wait"}, attempt < MaxAttempts, rx' \in {rx, {}},
             UNCHANGED <<now, cycle, asked, replies, UNIX_EPOCH_SECS, storedAt>>
      PROVE  TimeInv'
  <2>1. phase' = "send" /\ attempt' = attempt + 1 /\ waited' = 0
    BY <1>6 DEF NextAttempt
  <2>2. AttemptsInBounds'
    BY <1>6, <1>n, <2>1 DEF AttemptsInBounds
  <2>3. waited <= AttemptTimeout
    BY <1>0, <1>6 DEF AttemptsInBounds
  <2>4. Spent <= Spent'
    BY <1>n, <2>1, <2>3 DEF Spent
  <2> QED
    BY <1>1, <1>6, <1>n, <2>1, <2>2, <2>4
<1>7. CASE SendFails \/ Timeout
  BY <1>0, <1>6, <1>7 DEF SendFails, Timeout, AttemptsInBounds
<1>8. CASE Receive
  <2>1. PICK p \in rx :
          \/ Usable(p) = {} /\ NextAttempt /\ rx' = {} /\ UNCHANGED <<UNIX_EPOCH_SECS, storedAt>>
          \/ /\ Usable(p) # {} /\ UNIX_EPOCH_SECS' \in Usable(p) /\ storedAt' = now /\ Sleep
    BY <1>8 DEF Receive
  <2>2. phase = "wait" /\ UNCHANGED <<now, cycle, asked, replies>> /\ attempt < MaxAttempts
        /\ waited <= AttemptTimeout
    BY <1>0, <1>8 DEF Receive, AttemptsInBounds
  <2>3. CASE NextAttempt /\ rx' = {} /\ UNCHANGED <<UNIX_EPOCH_SECS, storedAt>>
    BY <2>2, <2>3, <1>6
  <2>4. CASE UNIX_EPOCH_SECS' \in Usable(p) /\ storedAt' = now /\ Sleep
    <3>1. p.port = cycle
      BY <1>0 DEF PortsOfCycles
    <3>2. PICK s \in 0 .. now : p.time = NtpTime(s) /\ now - s <= Spent
      BY <1>0, <2>2, <3>1 DEF RepliesRecent, Recent
    <3>3. UNIX_EPOCH_SECS' \in ntp_to_unix_epoch(NtpTime(s)) /\ s \in 0 .. MaxTime
      BY <1>0, <2>4, <3>2 DEF Usable, TimeTypeOK
    <3>4. UNIX_EPOCH_SECS' = s
      BY <3>3, ServersTime
    <3>5. MaxAttempts * AttemptTimeout \in Nat
          /\ (attempt + 1) * AttemptTimeout <= MaxAttempts * AttemptTimeout
      BY <1>n, <2>2, SpentGrows
    <3>6. now - s \in 0 .. MaxAttempts * AttemptTimeout
      BY <1>n, <2>2, <3>2, <3>5 DEF Spent
    <3>7. phase' = "sleep" /\ attempt' = 0 /\ waited' = 0 /\ rx' = {}
      BY <2>4 DEF Sleep, Enter
    <3>8. TimeIsFresh'
      BY <2>4, <3>4, <3>6 DEF TimeIsFresh
    <3>9. TimeTypeOK' /\ AttemptsInBounds' /\ PortsOfCycles' /\ RepliesRecent'
      BY <1>0, <1>n, <2>2, <2>4, <3>4, <3>7
      DEF TimeTypeOK, AttemptsInBounds, PortsOfCycles, RepliesRecent
    <3> QED
      BY <3>8, <3>9 DEF TimeInv
  <2> QED
    BY <2>1, <2>3, <2>4
<1>9. CASE NextCycle
  <2>1. /\ phase = "sleep" /\ phase' = "resolve" /\ attempt' = 0 /\ waited' = 0
        /\ cycle' = cycle + 1 /\ rx' = {}
        /\ UNCHANGED <<now, asked, replies, UNIX_EPOCH_SECS, storedAt>>
    BY <1>0, <1>9 DEF NextCycle, Enter, PortsOfCycles
  <2> QED
    BY <1>0, <2>1 DEF TimeInv, TimeTypeOK, AttemptsInBounds, PortsOfCycles, RepliesRecent,
                      TimeIsFresh
<1>10. CASE ServerAnswers
  <2>1. PICK port \in asked, stratum \in {0, 1} :
          /\ replies' = replies \cup {[port |-> port, time |-> NtpTime(now), stratum |-> stratum]}
          /\ UNCHANGED <<now, phase, attempt, waited, cycle, rx, asked, UNIX_EPOCH_SECS, storedAt>>
    BY <1>10 DEF ServerAnswers
  <2> DEFINE a == [port |-> port, time |-> NtpTime(now), stratum |-> stratum]
  <2>2. NtpTime(now) \in Nat
    BY <1>n DEF NtpTime
  <2>3. a \in Packet /\ a.port = port /\ a.time = NtpTime(now)
    BY <1>0, <2>2 DEF TimeTypeOK, Packet
  <2> HIDE DEF a
  <2>4. replies' = replies \cup {a}
    BY <2>1 DEF a
  <2>5. TimeTypeOK' /\ AttemptsInBounds' /\ PortsOfCycles' /\ TimeIsFresh'
    BY <1>0, <2>1, <2>3, <2>4 DEF TimeTypeOK, AttemptsInBounds, PortsOfCycles, TimeIsFresh
  <2>6. Recent(a)
    <3>1. now \in 0 .. now /\ now - now <= Spent
      BY <1>n DEF Spent
    <3> QED
      BY <2>3, <3>1 DEF Recent
  <2>7. RepliesRecent'
    BY <1>0, <2>1, <2>4, <2>6 DEF RepliesRecent, Recent, Spent, NtpTime
  <2> QED
    BY <2>5, <2>7 DEF TimeInv
<1>11. CASE Arrive
  <2>1. PICK p \in replies :
          /\ replies' = replies \ {p}
          /\ rx' = IF phase \in {"send", "wait"} /\ p.port = cycle /\ rx = {} THEN {p} ELSE rx
          /\ UNCHANGED <<now, phase, attempt, waited, cycle, asked, UNIX_EPOCH_SECS, storedAt>>
    BY <1>11 DEF Arrive, LocalPort
  <2>2. TimeTypeOK' /\ AttemptsInBounds' /\ PortsOfCycles' /\ TimeIsFresh'
    BY <1>0, <2>1 DEF TimeTypeOK, AttemptsInBounds, PortsOfCycles, TimeIsFresh
  <2>3. RepliesRecent'
    BY <1>0, <2>1 DEF RepliesRecent, Recent, Spent, NtpTime
  <2> QED
    BY <2>2, <2>3 DEF TimeInv
<1>12. CASE UNCHANGED timeVars
  BY <1>0, <1>12 DEF timeVars, TimeInv, TimeTypeOK, AttemptsInBounds, PortsOfCycles,
                     RepliesRecent, Recent, Spent, NtpTime, TimeIsFresh
<1> QED
  BY <1>2, <1>3, <1>4, <1>5, <1>7, <1>8, <1>9, <1>10, <1>11, <1>12 DEF TimeNext

(* With any timeouts, number of attempts and interval, until Unix time no  *)
(* longer fits 32 bits: a stored time is the server's, at most one cycle's *)
(* attempts old (ntp.rs:127-198, core ntp.rs:107-180).                     *)
THEOREM TimeFresh ==
  ASSUME MaxTime < Era
  PROVE  TimeSpec => []TimeIsFresh
<1>1. TimeInv /\ [TimeNext]_timeVars => TimeInv'
  BY TimeStep
<1>2. TimeInv => TimeIsFresh
  BY DEF TimeInv
<1> QED
  BY <1>1, <1>2, TimeInitInv, PTL DEF TimeSpec

-----------------------------------------------------------------------------
(* RestApi.  A place of the table holds a login of this boot that is not   *)
(* closed, with the time of the login, and no login has two places; one    *)
(* that has lost its place has as many followers as there are places.      *)
(* Expiry needs no invariant: it is a matter of the stored time.           *)
LoginOf(i) == [token |-> sessions[i].token, at |-> sessions[i].created_at]

RestTypeOK ==
  /\ sessions \in [1 .. MAX_SESSIONS -> [token : Nat, created_at : Nat]]
  /\ uptime \in Nat /\ issued \in Nat
  /\ logins \in SUBSET [token : 1 .. issued, at : 0 .. uptime] /\ IsFiniteSet(logins)
  /\ closed \in SUBSET (1 .. issued)

SessionsOpen ==
  \A i \in 1 .. MAX_SESSIONS :
    sessions[i].token # 0 => LoginOf(i) \in logins /\ sessions[i].token \notin closed

OneEach ==
  /\ \A l, m \in logins : l.token = m.token => l = m
  /\ \A i, j \in 1 .. MAX_SESSIONS :
       sessions[i].token # 0 /\ sessions[i].token = sessions[j].token => i = j

HasPlace(l) == \E i \in 1 .. MAX_SESSIONS : sessions[i].token = l.token

GaveWay ==
  \A l \in logins :
    l.token \notin closed => HasPlace(l) \/ Cardinality(Followers(l)) >= MAX_SESSIONS

RestInv == RestTypeOK /\ SessionsOpen /\ OneEach /\ GaveWay

LEMMA MinIn ==
  ASSUME NEW S \in SUBSET Nat, S # {}
  PROVE  Min(S) \in S
  BY LeastNat DEF Min

LEMMA RestInitInv == RestInit => RestInv
<1> SUFFICES ASSUME RestInit PROVE RestInv
  OBVIOUS
<1>1. RestTypeOK
  BY FS_EmptySet, RestAssumption DEF RestInit, RestTypeOK, EMPTY
<1>2. SessionsOpen /\ OneEach /\ GaveWay
  BY DEF RestInit, SessionsOpen, OneEach, GaveWay, EMPTY
<1> QED
  BY <1>1, <1>2 DEF RestInv

(* A login takes an empty place or the oldest session's. *)
LEMMA PlaceTaken ==
  ASSUME RestTypeOK
  PROVE  LET k == Min(IF Empty # {} THEN Empty ELSE Oldest) IN
         /\ k \in 1 .. MAX_SESSIONS
         /\ sessions[k].token # 0 =>
              \A j \in 1 .. MAX_SESSIONS : /\ sessions[j].token # 0
                                           /\ sessions[j].created_at >= sessions[k].created_at
<1> DEFINE N == 1 .. MAX_SESSIONS
           C == {sessions[j].created_at : j \in N}
<1>0. MAX_SESSIONS \in Nat \ {0} /\ \A j \in N : sessions[j].created_at \in Nat
  BY RestAssumption DEF RestTypeOK
<1>1. CASE Empty # {}
  BY <1>0, <1>1, MinIn DEF Empty
<1>2. CASE Empty = {}
  <2>1. C \in SUBSET Nat /\ C # {}
    <3>1. 1 \in N
      BY <1>0
    <3> QED
      BY <3>1, <1>0
  <2>2. PICK x \in C : \A y \in C : x <= y
    BY <2>1, LeastNat
  <2>3. PICK i \in N : sessions[i].created_at = x
    OBVIOUS
  <2>4. i \in Oldest
    BY <2>2, <2>3 DEF Oldest
  <2>5. Oldest \in SUBSET Nat /\ Oldest # {}
    BY <1>0, <2>4 DEF Oldest
  <2>6. Min(Oldest) \in Oldest
    BY <2>5, MinIn
  <2> QED
    BY <1>0, <1>2, <2>6 DEF Oldest, Empty
<1> QED
  BY <1>1, <1>2

LEMMA LoginStep ==
  ASSUME RestInv, NEW w \in Workers, AuthLogin(w)
  PROVE  RestInv'
<1> DEFINE k == Min(IF Empty # {} THEN Empty ELSE Oldest)
           t == issued + 1
           new == [token |-> t, at |-> uptime]
           N == 1 .. MAX_SESSIONS
<1>0. RestTypeOK /\ SessionsOpen /\ OneEach /\ GaveWay
  BY DEF RestInv
<1>t. /\ sessions \in [N -> [token : Nat, created_at : Nat]]
      /\ uptime \in Nat /\ issued \in Nat /\ t \in Nat /\ MAX_SESSIONS \in Nat
      /\ \A l \in logins : l.token \in 1 .. issued /\ l.at \in Nat /\ l.at <= uptime
      /\ IsFiniteSet(logins)
  BY <1>0, RestAssumption DEF RestTypeOK
<1>1. /\ k \in N
      /\ sessions[k].token # 0 =>
           \A j \in N : /\ sessions[j].token # 0
                        /\ sessions[j].created_at >= sessions[k].created_at
  BY <1>0, PlaceTaken
<1>2. /\ issued' = t /\ logins' = logins \cup {new}
      /\ sessions' = [sessions EXCEPT ![k] = [token |-> t, created_at |-> uptime]]
      /\ uptime' = uptime /\ closed' = closed
  BY <1>t DEF AuthLogin, session_insert
<1> HIDE DEF k, t
<1>3. /\ sessions'[k] = [token |-> t, created_at |-> uptime]
      /\ \A j \in N : j # k => sessions'[j] = sessions[j]
  BY <1>t, <1>1, <1>2
<1>4. new.token = t /\ new.at = uptime /\ t \notin 1 .. issued /\ new \notin logins
  BY <1>t DEF t
<1>5. IsFiniteSet(logins')
  BY <1>t, <1>2, FS_AddElement
<1>6. RestTypeOK'
  <2>1. sessions' \in [N -> [token : Nat, created_at : Nat]]
    BY <1>t, <1>1, <1>2
  <2>2. logins' \in SUBSET [token : 1 .. issued', at : 0 .. uptime']
    BY <1>0, <1>t, <1>2 DEF RestTypeOK, t
  <2>3. closed' \in SUBSET (1 .. issued')
    BY <1>0, <1>t, <1>2 DEF RestTypeOK, t
  <2> QED
    BY <2>1, <2>2, <2>3, <1>5, <1>2, <1>t DEF RestTypeOK
<1>7. SessionsOpen'
  <2> SUFFICES ASSUME NEW i \in N, sessions'[i].token # 0
               PROVE  LoginOf(i)' \in logins' /\ sessions'[i].token \notin closed'
    BY DEF SessionsOpen
  <2>1. CASE i = k
    BY <2>1, <1>0, <1>2, <1>3, <1>4 DEF LoginOf, RestTypeOK
  <2>2. CASE i # k
    BY <2>2, <1>0, <1>2, <1>3 DEF LoginOf, SessionsOpen
  <2> QED
    BY <2>1, <2>2
<1>8. \A i \in N : sessions[i].token # 0 => sessions[i].token # t
  BY <1>0, <1>t, <1>4 DEF SessionsOpen, LoginOf
<1>9. OneEach'
  <2>1. \A l, m \in logins' : l.token = m.token => l = m
    BY <1>0, <1>t, <1>2, <1>4 DEF OneEach
  <2>2. \A i, j \in N : sessions'[i].token # 0 /\ sessions'[i].token = sessions'[j].token => i = j
    BY <1>0, <1>3, <1>8 DEF OneEach
  <2> QED
    BY <2>1, <2>2 DEF OneEach
<1>10. GaveWay'
  <2> SUFFICES ASSUME NEW l \in logins', l.token \notin closed, ~HasPlace(l)'
               PROVE  Cardinality(Followers(l)') >= MAX_SESSIONS
    BY <1>2 DEF GaveWay
  <2> DEFINE A == Followers(l)
             B == Followers(l)'
  <2>1. l \in logins /\ l # new
    BY <1>1, <1>2, <1>3, <1>4 DEF HasPlace
  <2>2. A \in SUBSET B /\ B \in SUBSET logins'
    BY <1>2 DEF Followers
  <2>3. IsFiniteSet(B) /\ IsFiniteSet(A) /\ Cardinality(A) <= Cardinality(B)
        /\ Cardinality(A) \in Nat /\ Cardinality(B) \in Nat
    BY <2>2, <1>5, FS_Subset, FS_CardinalityType
  <2>4. CASE ~HasPlace(l)
    BY <2>1, <2>3, <2>4, <1>0, <1>t DEF GaveWay
  <2>5. CASE HasPlace(l)
    <3>1. sessions[k].token = l.token
      BY <2>5, <1>3 DEF HasPlace
    <3>2. l.token # 0
      BY <2>1, <1>t
    <3>3. \A j \in N : /\ sessions[j].token # 0 /\ LoginOf(j) \in logins
                       /\ sessions[j].created_at >= sessions[k].created_at
      BY <3>1, <3>2, <1>0, <1>1 DEF SessionsOpen
    <3>4. LoginOf(k) = l
      BY <3>1, <3>3, <2>1, <1>0, <1>1 DEF OneEach, LoginOf
    <3>5. l.at = sessions[k].created_at
      BY <3>4 DEF LoginOf
    <3> DEFINE f == [j \in N |-> IF j = k THEN new ELSE LoginOf(j)]
    <3>6. new \in B
      BY <2>1, <1>2, <1>4, <1>t DEF Followers
    <3>7. ASSUME NEW j \in N, j # k PROVE LoginOf(j) \in B
      <4>1. LoginOf(j) # l
        BY <3>1, <3>3, <3>7, <1>0, <1>1 DEF LoginOf, OneEach
      <4>2. LoginOf(j).at >= l.at
        BY <3>3, <3>5 DEF LoginOf
      <4> QED
        BY <4>1, <4>2, <3>3, <1>2 DEF Followers
    <3>8. \A i, j \in N : f[i] = f[j] => i = j
      <4> SUFFICES ASSUME NEW i \in N, NEW j \in N, f[i] = f[j] PROVE i = j
        OBVIOUS
      <4>1. CASE i = k \/ j = k
        BY <4>1, <3>3, <1>4
      <4>2. CASE i # k /\ j # k
        <5>1. LoginOf(i) = LoginOf(j)
          BY <4>2
        <5> QED
          BY <5>1, <3>3, <1>0 DEF LoginOf, OneEach
      <4> QED
        BY <4>1, <4>2
    <3>9. f \in [N -> B]
      BY <3>6, <3>7
    <3>10. f \in Injection(N, B)
      BY <3>8, <3>9 DEF Injection, IsInjective
    <3>11. Cardinality(N) <= Cardinality(B)
      BY <3>10, <2>3, FS_Injection
    <3>12. Cardinality(N) = MAX_SESSIONS
      BY <1>t, FS_Interval
    <3> QED
      BY <3>11, <3>12, <2>3, <1>t
  <2> QED
    BY <2>4, <2>5
<1> QED
  BY <1>6, <1>7, <1>9, <1>10 DEF RestInv

LEMMA LogoutStep ==
  ASSUME RestInv, NEW w \in Workers, AuthLogout(w)
  PROVE  RestInv'
<1> DEFINE N == 1 .. MAX_SESSIONS
<1>0. RestTypeOK /\ SessionsOpen /\ OneEach /\ GaveWay
  BY DEF RestInv
<1>1. PICK t \in Opened : /\ session_remove(t) /\ closed' = closed \cup {t}
                          /\ UNCHANGED <<uptime, issued, logins>>
  BY DEF AuthLogout
<1>2. t \in 1 .. issued
  BY <1>0 DEF Opened, RestTypeOK
<1>3. /\ DOMAIN sessions' = N
      /\ \A i \in N : \/ sessions[i].token = t /\ sessions'[i] = EMPTY
                      \/ sessions[i].token # t /\ sessions'[i] = sessions[i]
  BY <1>1 DEF session_remove
<1>4. EMPTY.token = 0 /\ EMPTY \in [token : Nat, created_at : Nat]
  BY DEF EMPTY
<1>5. RestTypeOK'
  <2>1. sessions' \in [N -> [token : Nat, created_at : Nat]]
    BY <1>0, <1>1, <1>4 DEF session_remove, RestTypeOK
  <2> QED
    BY <2>1, <1>0, <1>1, <1>2 DEF RestTypeOK
<1>6. SessionsOpen'
  BY <1>0, <1>1, <1>3, <1>4 DEF SessionsOpen, LoginOf
<1>7. OneEach'
  BY <1>0, <1>1, <1>3, <1>4 DEF OneEach
<1>8. GaveWay'
  <2> SUFFICES ASSUME NEW l \in logins, l.token \notin closed, l.token # t
               PROVE  HasPlace(l)' \/ Cardinality(Followers(l)') >= MAX_SESSIONS
    BY <1>1 DEF GaveWay
  <2>1. Followers(l)' = Followers(l)
    BY <1>1 DEF Followers
  <2>2. HasPlace(l) => HasPlace(l)'
    BY <1>3 DEF HasPlace
  <2> QED
    BY <2>1, <2>2, <1>0 DEF GaveWay
<1> QED
  BY <1>5, <1>6, <1>7, <1>8 DEF RestInv

LEMMA RestStep == RestInv /\ [RestNext]_restVars => RestInv'
<1> SUFFICES ASSUME RestInv, [RestNext]_restVars PROVE RestInv'
  OBVIOUS
<1>0. RestTypeOK /\ SessionsOpen /\ OneEach /\ GaveWay
  BY DEF RestInv
<1>1. ASSUME UNCHANGED <<sessions, issued, logins, closed>>,
             uptime' = uptime \/ uptime' = uptime + 1
      PROVE  RestInv'
  <2>1. RestTypeOK'
    BY <1>0, <1>1 DEF RestTypeOK
  <2>2. SessionsOpen' /\ OneEach'
    BY <1>0, <1>1 DEF SessionsOpen, OneEach, LoginOf
  <2>3. GaveWay'
    BY <1>0, <1>1 DEF GaveWay, HasPlace, Followers
  <2> QED
    BY <2>1, <2>2, <2>3 DEF RestInv
<1>2. ASSUME NEW w \in Workers, NEW a, ChangeAccess(w, a) PROVE RestInv'
  BY <1>1, <1>2 DEF ChangeAccess
<1>3. ASSUME NEW w \in Workers,
             \/ PostUsers(w) \/ PostTokens(w) \/ DeleteUser(w) \/ DeleteToken(w)
             \/ PutBulkConfig(w) \/ PutSection(w)
      PROVE  RestInv'
  BY <1>2, <1>3 DEF PostUsers, PostTokens, DeleteUser, DeleteToken, PutBulkConfig, PutSection
<1>4. ASSUME NEW w \in Workers,
             Accept(w) \/ Refused(w) \/ FactoryReset(w) \/ PostReboot(w)
      PROVE  RestInv'
  BY <1>1, <1>4 DEF Accept, Refused, FactoryReset, PostReboot
<1>5. ASSUME NEW w \in Workers, system_reset(w) PROVE RestInv'
  <2>1. /\ sessions' = [i \in 1 .. MAX_SESSIONS |-> EMPTY] /\ uptime' = 0
        /\ issued' = 0 /\ logins' = {} /\ closed' = {}
    BY <1>5 DEF system_reset
  <2>2. RestTypeOK'
    BY <2>1, FS_EmptySet DEF RestTypeOK, EMPTY
  <2>3. SessionsOpen' /\ OneEach' /\ GaveWay'
    BY <2>1 DEF SessionsOpen, OneEach, GaveWay, EMPTY
  <2> QED
    BY <2>2, <2>3 DEF RestInv
<1>6. CASE Save \/ Advance \/ UNCHANGED restVars
  BY <1>1, <1>6 DEF Save, Advance, restVars
<1> QED
  BY <1>3, <1>4, <1>5, <1>6, LoginStep, LogoutStep DEF RestNext

LEMMA TokensFollow == RestInv => TokensLast
<1> SUFFICES ASSUME RestInv PROVE TokensLast
  OBVIOUS
<1>0. RestTypeOK /\ SessionsOpen /\ OneEach /\ GaveWay
  BY DEF RestInv
<1>1. ASSUME NEW t \in closed PROVE ~session_find(t)
  BY <1>0 DEF session_find, SessionsOpen, RestTypeOK
<1>2. ASSUME NEW l \in logins, NEW i \in 1 .. MAX_SESSIONS, sessions[i].token = l.token
      PROVE  sessions[i].created_at = l.at
  <2>1. sessions[i].token # 0
    BY <1>0, <1>2 DEF RestTypeOK
  <2>2. LoginOf(i) = l
    BY <2>1, <1>0, <1>2 DEF SessionsOpen, OneEach, LoginOf
  <2> QED
    BY <2>2 DEF LoginOf
<1>3. \A t : Session(t)[1] = "session" /\ Session(t)[2] = t
  BY DEF Session
<1>4. ASSUME NEW l \in logins, l.token \in closed \/ uptime - l.at >= SESSION_EXPIRY
      PROVE  ~session_find(l.token)
  <2>1. CASE l.token \in closed
    BY <2>1, <1>1
  <2>2. CASE uptime - l.at >= SESSION_EXPIRY
    <3>1. uptime - l.at \in Int /\ SESSION_EXPIRY \in Nat
      BY <1>0, RestAssumption DEF RestTypeOK
    <3> QED
      BY <2>2, <3>1, <1>2 DEF session_find
  <2> QED
    BY <1>4, <2>1, <2>2
<1>5. ASSUME NEW l \in logins, l.token \notin closed, ~(uptime - l.at >= SESSION_EXPIRY)
      PROVE  bearer_token_ok(Session(l.token)) \/ Cardinality(Followers(l)) >= MAX_SESSIONS
  <2>1. uptime - l.at \in Int /\ SESSION_EXPIRY \in Nat
    BY <1>0, RestAssumption DEF RestTypeOK
  <2>2. CASE HasPlace(l)
    <3>1. session_find(l.token)
      BY <2>1, <2>2, <1>2, <1>5 DEF HasPlace, session_find
    <3> QED
      BY <3>1, <1>3 DEF bearer_token_ok
  <2> QED
    BY <2>2, <1>0, <1>5 DEF GaveWay
<1>6. ASSUME NEW t \in closed, access.provisioned PROVE ~bearer_token_ok(Session(t))
  BY <1>1, <1>3, <1>6 DEF bearer_token_ok
<1> QED
  BY <1>4, <1>5, <1>6 DEF TokensLast

(* For any number of places, web tasks, users and logins: a token works    *)
(* until its logout or its expiry or until as many later logins as there   *)
(* are places, and never after (http.rs:129-190, 1889-1938).               *)
THEOREM SessionsLast == RestSpec => []TokensLast
<1> QED
  BY RestInitInv, RestStep, TokensFollow, PTL DEF RestSpec

-----------------------------------------------------------------------------
(* RingSharing.  Let no two calls at one end of a ring overlap.  Then a    *)
(* push has the head it has read and there is room from its test on; a pop *)
(* has the tail and there is a PDU; the slots from the tail on hold what   *)
(* is queued.  Which core and which of the two implementations it is makes *)
(* no difference.                                                          *)
Cell(i) == i % RingSize

RingTypes ==
  /\ TypeOK
  /\ queued \in [Ring -> Seq(Nat)] /\ next <= ops + 1
  /\ \A c \in Core : op[c].kind = "none" <=> op[c].pc = "idle"

Apart ==
  \A c, d \in Core : c # d /\ op[c].kind # "none" =>
    op[c].kind # op[d].kind \/ op[c].ring # op[d].ring

Contents ==
  \A r \in Ring :
    /\ Len(queued[r]) = wrapping_sub(head[r], tail[r]) /\ Len(queued[r]) <= RingSize
    /\ \A i \in 1 .. Len(queued[r]) : slot[r][Cell(tail[r] + (i - 1))] = queued[r][i]

PastTest == {"reread", "copy", "store"}

Pushing(o) ==
  o.kind = "push" =>
    /\ o.h = head[o.ring]
    /\ o.pc \in PastTest => Len(queued[o.ring]) < RingSize
    /\ o.pc = "store" => slot[o.ring][Cell(o.h)] = o.pdu

Popping(o) ==
  o.kind = "pop" =>
    /\ o.pc = "test" => wrapping_sub(o.h, tail[o.ring]) <= Len(queued[o.ring])
    /\ o.pc \in PastTest => o.t = tail[o.ring] /\ Len(queued[o.ring]) >= 1
    /\ o.pc = "store" => o.pdu = queued[o.ring][1]

InStep ==
  /\ Apart /\ Contents /\ misdelivered = {}
  /\ \A c \in Core : Pushing(op[c]) /\ Popping(op[c])

RingInv == RingTypes /\ (~overlapped => InStep)

LEMMA Span ==
  /\ RingSize \in Nat \ {0} /\ IndexSpan \in Nat /\ IndexSpan >= 2 * RingSize /\ MaxOps \in Nat
  /\ RingSize < IndexSpan
<1>1. PICK k \in 2 .. IndexSpan : IndexSpan = k * RingSize
  BY SharingAssumption
<1>2. k * RingSize >= 2 * RingSize
  BY SharingAssumption
<1> QED
  BY <1>1, <1>2, SharingAssumption

LEMMA CellWraps ==
  ASSUME NEW i \in Nat
  PROVE  Cell(i) \in 0 .. RingSize - 1 /\ Cell(i + IndexSpan) = Cell(i)
<1>1. PICK k \in 2 .. IndexSpan : IndexSpan = k * RingSize
  BY SharingAssumption
<1> DEFINE a == i \div RingSize
<1>2. a \in Int /\ i = RingSize * a + Cell(i) /\ Cell(i) \in 0 .. RingSize - 1
  BY Span DEF Cell
<1> HIDE DEF a
<1>3. i + IndexSpan = RingSize * (a + k) + Cell(i)
  BY <1>1, <1>2, Span
<1>4. ASSUME NEW m \in Int, NEW x \in 0 .. RingSize - 1 PROVE (RingSize * m + x) % RingSize = x
  BY Span
<1> QED
  BY <1>1, <1>2, <1>3, <1>4 DEF Cell

LEMMA CellsDiffer ==
  ASSUME NEW i \in Nat, NEW d \in 1 .. RingSize - 1
  PROVE  Cell(i) # Cell(i + d)
<1> DEFINE a == i \div RingSize
           b == (i + d) \div RingSize
<1>1. /\ a \in Int /\ b \in Int /\ Cell(i) \in Int
      /\ i = RingSize * a + Cell(i) /\ i + d = RingSize * b + Cell(i + d)
  BY Span DEF Cell
<1> HIDE DEF a, b
<1> SUFFICES ASSUME Cell(i) = Cell(i + d) PROVE FALSE
  OBVIOUS
<1>2. d = RingSize * (b - a)
  BY <1>1, Span
<1>3. CASE b - a >= 1
  <2>1. RingSize * (b - a) >= RingSize
    BY <1>1, <1>3, Span
  <2> QED
    BY <1>2, <2>1, Span
<1>4. CASE b - a <= 0
  <2>1. RingSize * (b - a) <= 0
    BY <1>1, <1>4, Span
  <2> QED
    BY <1>2, <2>1
<1> QED
  BY <1>1, <1>3, <1>4

(* One step of an index, seen from the other one. *)
LEMMA Distance ==
  ASSUME NEW h \in 0 .. IndexSpan - 1, NEW t \in 0 .. IndexSpan - 1
  PROVE  /\ wrapping_inc(h) \in 0 .. IndexSpan - 1
         /\ wrapping_sub(h, t) \in 0 .. IndexSpan - 1
         /\ wrapping_sub(h, t) = 0 <=> h = t
         /\ wrapping_sub(h, t) < IndexSpan - 1 =>
              wrapping_sub(wrapping_inc(h), t) = wrapping_sub(h, t) + 1
         /\ h # t => wrapping_sub(h, wrapping_inc(t)) = wrapping_sub(h, t) - 1
  BY Span DEF wrapping_inc, wrapping_sub

LEMMA HeadCell ==
  ASSUME NEW h \in 0 .. IndexSpan - 1, NEW t \in 0 .. IndexSpan - 1
  PROVE  Cell(h) = Cell(t + wrapping_sub(h, t))
<1>1. CASE h >= t
  BY <1>1, Span DEF wrapping_sub
<1>2. CASE h < t
  <2>1. t + wrapping_sub(h, t) = h + IndexSpan
    BY <1>2, Span DEF wrapping_sub
  <2> QED
    BY <2>1, CellWraps
<1> QED
  BY <1>1, <1>2

LEMMA TailCell ==
  ASSUME NEW t \in 0 .. IndexSpan - 1, NEW d \in Nat
  PROVE  Cell(wrapping_inc(t) + d) = Cell(t + 1 + d)
<1>1. CASE t = IndexSpan - 1
  <2>1. t + 1 + d = d + IndexSpan
    BY <1>1, Span
  <2>2. wrapping_inc(t) + d = d
    BY <1>1, Span DEF wrapping_inc
  <2> QED
    BY <2>1, <2>2, CellWraps
<1>2. CASE t # IndexSpan - 1
  BY <1>2, Span DEF wrapping_inc
<1> QED
  BY <1>1, <1>2

OpState ==
  [kind : {"none", "push", "pop"}, ring : Ring,
   pc : {"idle", "test", "reread", "copy", "store"},
   h : 0 .. IndexSpan - 1, t : 0 .. IndexSpan - 1, pdu : 0 .. MaxOps]

LEMMA IdleType == Idle \in OpState
<1>1. 0 \in 0 .. IndexSpan - 1 /\ 0 \in 0 .. MaxOps
  BY Span
<1> QED
  BY <1>1 DEF Idle, OpState, Ring, NoPdu

LEMMA RingInitInv == Init => RingInv
<1> SUFFICES ASSUME Init PROVE RingInv
  OBVIOUS
<1>0. Idle.kind = "none" /\ Idle.pc = "idle"
  BY DEF Idle
<1>1. RingTypes
  <2>1. op \in [Core -> OpState] /\ \A c \in Core : op[c] = Idle
    BY IdleType DEF Init
  <2>2. slot \in [Ring -> [0 .. RingSize - 1 -> 0 .. MaxOps]]
    BY Span DEF Init, NoPdu
  <2>3. /\ head \in [Ring -> 0 .. IndexSpan - 1] /\ tail \in [Ring -> 0 .. IndexSpan - 1]
        /\ misdelivered = {} /\ overlapped = FALSE /\ ops = 0 /\ next = 1
        /\ queued \in [Ring -> Seq(Nat)]
    BY Span DEF Init
  <2>4. ops \in 0 .. MaxOps /\ next \in 1 .. MaxOps + 1 /\ misdelivered \subseteq 0 .. MaxOps
    BY <2>3, Span
  <2>5. overlapped \in BOOLEAN
    BY <2>3
  <2>6. TypeOK
    BY <2>1, <2>2, <2>3, <2>4, <2>5 DEF TypeOK, OpState
  <2> QED
    BY <1>0, <2>1, <2>3, <2>6 DEF RingTypes
<1>2. InStep
  <2>1. \A r \in Ring : queued[r] = <<>> /\ head[r] = 0 /\ tail[r] = 0
    BY DEF Init
  <2>2. Contents
    BY <2>1, Span DEF Contents, wrapping_sub
  <2>3. \A c \in Core : op[c].kind = "none"
    BY <1>0 DEF Init
  <2> QED
    BY <2>2, <2>3 DEF Init, InStep, Apart, Pushing, Popping
<1> QED
  BY <1>1, <1>2 DEF RingInv

(* A step of core c leaves the other core's operation alone. *)
LEMMA RingTypesStep ==
  ASSUME RingTypes, NEW c \in Core, Step(c)
  PROVE  RingTypes' /\ (overlapped => overlapped')
<1> DEFINE o == op[c]
<1>0. /\ op \in [Core -> OpState] /\ o \in OpState /\ TypeOK
      /\ head \in [Ring -> 0 .. IndexSpan - 1] /\ tail \in [Ring -> 0 .. IndexSpan - 1]
      /\ slot \in [Ring -> [0 .. RingSize - 1 -> 0 .. MaxOps]]
      /\ queued \in [Ring -> Seq(Nat)] /\ next <= ops + 1
      /\ misdelivered \subseteq 0 .. MaxOps /\ overlapped \in BOOLEAN
      /\ ops \in 0 .. MaxOps /\ next \in 1 .. MaxOps + 1
      /\ \A d \in Core : op[d].kind = "none" <=> op[d].pc = "idle"
  BY DEF RingTypes, TypeOK, OpState
<1>o. /\ o.ring \in Ring /\ o.h \in 0 .. IndexSpan - 1 /\ o.t \in 0 .. IndexSpan - 1
      /\ o.pdu \in 0 .. MaxOps /\ o.kind \in {"none", "push", "pop"}
  BY <1>0 DEF OpState
<1>1. ASSUME NEW n \in OpState, op' = [op EXCEPT ![c] = n], n.kind = "none" <=> n.pc = "idle",
             head' \in [Ring -> 0 .. IndexSpan - 1], tail' \in [Ring -> 0 .. IndexSpan - 1],
             slot' \in [Ring -> [0 .. RingSize - 1 -> 0 .. MaxOps]],
             queued' \in [Ring -> Seq(Nat)], next' <= ops' + 1,
             misdelivered' \subseteq 0 .. MaxOps, overlapped' \in BOOLEAN,
             overlapped => overlapped',
             ops' \in 0 .. MaxOps, next' \in 1 .. MaxOps + 1
      PROVE  RingTypes' /\ (overlapped => overlapped')
  <2>1. op' \in [Core -> OpState] /\ \A d \in Core : op'[d].kind = "none" <=> op'[d].pc = "idle"
    BY <1>0, <1>1
  <2> QED
    BY <1>1, <2>1 DEF RingTypes, TypeOK, OpState
<1>2. ASSUME NEW k \in {"push", "pop"}, NEW r \in Ring, Begin(c, k, r)
      PROVE  RingTypes' /\ (overlapped => overlapped')
  <2> DEFINE n == [kind |-> k, ring |-> r, pc |-> "test", h |-> head[r], t |-> 0,
                   pdu |-> IF k = "push" THEN next ELSE NoPdu]
  <2>0. op' = [op EXCEPT ![c] = n]
    BY <1>2 DEF Begin
  <2>1. /\ ops < MaxOps /\ ops' = ops + 1 /\ next' = IF k = "push" THEN next + 1 ELSE next
        /\ overlapped' \in BOOLEAN
        /\ overlapped => overlapped'
        /\ UNCHANGED <<head, tail, slot, queued, misdelivered>>
    BY <1>2 DEF Begin
  <2>2. next \in 0 .. MaxOps /\ ops' \in 0 .. MaxOps /\ next' \in 1 .. MaxOps + 1 /\ next' <= ops' + 1
    BY <1>0, <2>1, Span
  <2>3. head[r] \in 0 .. IndexSpan - 1 /\ 0 \in 0 .. IndexSpan - 1 /\ NoPdu \in 0 .. MaxOps
    BY <1>0, Span DEF NoPdu
  <2>4. n \in OpState /\ n.kind # "none" /\ n.pc # "idle"
    BY <2>2, <2>3 DEF OpState
  <2> HIDE DEF n
  <2>5. /\ head' \in [Ring -> 0 .. IndexSpan - 1] /\ tail' \in [Ring -> 0 .. IndexSpan - 1]
        /\ slot' \in [Ring -> [0 .. RingSize - 1 -> 0 .. MaxOps]]
        /\ queued' \in [Ring -> Seq(Nat)] /\ misdelivered' \subseteq 0 .. MaxOps
    BY <1>0, <2>1
  <2> QED
    BY <1>1, <2>0, <2>1, <2>2, <2>4, <2>5
<1>3. CASE Test(c)
  <2>1. \/ op' = [op EXCEPT ![c] = Idle]
        \/ op' = [op EXCEPT ![c] = [o EXCEPT !.t = tail[o.ring],
                                             !.pc = IF c = "core1" THEN "reread" ELSE "copy"]]
    BY <1>0, <1>3 DEF Test
  <2>2. o.pc = "test" /\ UNCHANGED <<head, tail, slot, queued, misdelivered, overlapped, ops, next>>
    BY <1>3 DEF Test
  <2> DEFINE n == [o EXCEPT !.t = tail[o.ring], !.pc = IF c = "core1" THEN "reread" ELSE "copy"]
  <2>3. tail[o.ring] \in 0 .. IndexSpan - 1
    BY <1>0, <1>o
  <2>4. n \in OpState /\ n.kind # "none" /\ n.pc # "idle"
    BY <1>0, <2>2, <2>3 DEF OpState
  <2> HIDE DEF n
  <2>5. Idle.kind = "none" /\ Idle.pc = "idle"
    BY DEF Idle
  <2>6. CASE op' = [op EXCEPT ![c] = Idle]
    BY <1>0, <1>1, <2>2, <2>5, <2>6, IdleType
  <2>7. CASE op' = [op EXCEPT ![c] = n]
    BY <1>0, <1>1, <2>2, <2>4, <2>7
  <2> QED
    BY <2>1, <2>6, <2>7 DEF n
<1>4. CASE Reread(c)
  <2> DEFINE x == IF o.kind = "push" THEN head[o.ring] ELSE o.h
             y == IF o.kind = "pop" THEN tail[o.ring] ELSE o.t
             n == [o EXCEPT !.pc = "copy", !.h = x, !.t = y]
  <2>1. o.pc = "reread" /\ op' = [op EXCEPT ![c] = n]
        /\ UNCHANGED <<head, tail, slot, queued, misdelivered, overlapped, ops, next>>
    BY <1>0, <1>4 DEF Reread
  <2>2. x \in 0 .. IndexSpan - 1 /\ y \in 0 .. IndexSpan - 1
    BY <1>0, <1>o
  <2> HIDE DEF x, y
  <2>3. n \in OpState /\ n.kind # "none" /\ n.pc # "idle"
    BY <1>0, <2>1, <2>2 DEF OpState
  <2> HIDE DEF n
  <2> QED
    BY <1>0, <1>1, <2>1, <2>3
<1>5. CASE Copy(c)
  <2> DEFINE x == IF o.kind = "push" THEN o.pdu ELSE slot[o.ring][o.t % RingSize]
             n == [o EXCEPT !.pc = "store", !.pdu = x]
  <2>0. o.pc = "copy" /\ UNCHANGED <<head, tail, queued, misdelivered, overlapped, ops, next>>
    BY <1>5 DEF Copy
  <2>1. op' = [op EXCEPT ![c] = n]
    <3>1. CASE o.kind = "push"
      <4>1. op' = [op EXCEPT ![c].pc = "store"]
        BY <1>5, <3>1 DEF Copy
      <4>2. n = [o EXCEPT !.pc = "store"]
        BY <1>0, <3>1 DEF OpState
      <4> QED
        BY <4>1, <4>2, <1>0
    <3>2. CASE o.kind # "push"
      BY <1>0, <1>5, <3>2 DEF Copy
    <3> QED
      BY <3>1, <3>2
  <2>2. o.t % RingSize \in 0 .. RingSize - 1 /\ o.h % RingSize \in 0 .. RingSize - 1
    BY <1>o, Span
  <2>3. x \in 0 .. MaxOps
    BY <1>0, <1>o, <2>2
  <2> HIDE DEF x
  <2>4. slot' \in [Ring -> [0 .. RingSize - 1 -> 0 .. MaxOps]]
    <3>1. \/ slot' = slot
          \/ slot' = [slot EXCEPT ![o.ring] = [slot[o.ring] EXCEPT ![o.h % RingSize] = o.pdu]]
      BY <1>5 DEF Copy
    <3>2. slot[o.ring] \in [0 .. RingSize - 1 -> 0 .. MaxOps]
      BY <1>0, <1>o
    <3>3. [slot[o.ring] EXCEPT ![o.h % RingSize] = o.pdu] \in [0 .. RingSize - 1 -> 0 .. MaxOps]
      BY <3>2, <1>o
    <3> QED
      BY <1>0, <3>1, <3>3
  <2>5. n \in OpState /\ n.kind # "none" /\ n.pc # "idle"
    BY <1>0, <2>0, <2>3 DEF OpState
  <2> HIDE DEF n
  <2> QED
    BY <1>0, <1>1, <2>0, <2>1, <2>4, <2>5
<1>6. CASE StorePush(c) \/ StorePop(c)
  <2>1. op' = [op EXCEPT ![c] = Idle] /\ UNCHANGED <<slot, overlapped, ops, next>>
    BY <1>6 DEF StorePush, StorePop
  <2>2. wrapping_inc(o.h) \in 0 .. IndexSpan - 1 /\ wrapping_inc(o.t) \in 0 .. IndexSpan - 1
    BY <1>o, Distance
  <2>3. head' \in [Ring -> 0 .. IndexSpan - 1] /\ tail' \in [Ring -> 0 .. IndexSpan - 1]
    BY <1>0, <1>6, <2>2 DEF StorePush, StorePop
  <2>4. queued[o.ring] \in Seq(Nat)
    BY <1>0, <1>o
  <2>5. queued' \in [Ring -> Seq(Nat)]
    <3>1. \/ queued' = queued
          \/ queued' = [queued EXCEPT ![o.ring] = Append(queued[o.ring], o.pdu)]
          \/ /\ queued[o.ring] # <<>>
             /\ queued' = [queued EXCEPT ![o.ring] = Tail(queued[o.ring])]
      BY <1>6 DEF StorePush, StorePop
    <3>2. Append(queued[o.ring], o.pdu) \in Seq(Nat)
      BY <2>4, <1>o
    <3>3. queued[o.ring] # <<>> => Tail(queued[o.ring]) \in Seq(Nat)
      BY <2>4
    <3> QED
      BY <3>1, <3>2, <3>3, <1>0
  <2>6. misdelivered' \subseteq 0 .. MaxOps
    BY <1>0, <1>o, <1>6 DEF StorePush, StorePop
  <2>7. Idle.kind = "none" /\ Idle.pc = "idle"
    BY DEF Idle
  <2> QED
    BY <1>0, <1>1, <2>1, <2>3, <2>5, <2>6, <2>7, IdleType
<1> QED
  BY <1>2, <1>3, <1>4, <1>5, <1>6 DEF Step

LEMMA RingFacts ==
  ASSUME RingTypes, NEW c \in Core
  PROVE  /\ op \in [Core -> OpState] /\ op[c] \in OpState /\ op[c].ring \in Ring
         /\ op[c].h \in 0 .. IndexSpan - 1 /\ op[c].t \in 0 .. IndexSpan - 1
         /\ op[c].kind \in {"none", "push", "pop"}
         /\ op[c].kind = "none" <=> op[c].pc = "idle"
         /\ \A r \in Ring : /\ head[r] \in 0 .. IndexSpan - 1 /\ tail[r] \in 0 .. IndexSpan - 1
                            /\ queued[r] \in Seq(Nat) /\ Len(queued[r]) \in Nat
<1>1. op \in [Core -> OpState] /\ op[c] \in OpState
  BY DEF RingTypes, TypeOK, OpState
<1>2. /\ op[c].ring \in Ring /\ op[c].h \in 0 .. IndexSpan - 1 /\ op[c].t \in 0 .. IndexSpan - 1
      /\ op[c].kind \in {"none", "push", "pop"}
  BY <1>1 DEF OpState
<1>3. op[c].kind = "none" <=> op[c].pc = "idle"
  BY DEF RingTypes
<1>4. \A r \in Ring : /\ head[r] \in 0 .. IndexSpan - 1 /\ tail[r] \in 0 .. IndexSpan - 1
                      /\ queued[r] \in Seq(Nat) /\ Len(queued[r]) \in Nat
  BY DEF RingTypes, TypeOK
<1> QED
  BY <1>1, <1>2, <1>3, <1>4

(* A call that stays at its end of its ring, or returns, meets nobody. *)
LEMMA StaysApart ==
  ASSUME RingTypes, Apart, NEW c \in Core, NEW n, op' = [op EXCEPT ![c] = n],
         n.kind = "none" \/ (n.kind = op[c].kind /\ n.ring = op[c].ring)
  PROVE  Apart' /\ op'[c] = n /\ \A d \in Core \ {c} : op'[d] = op[d]
<1>1. op'[c] = n /\ \A d \in Core \ {c} : op'[d] = op[d]
  BY RingFacts
<1>2. Apart'
  BY <1>1 DEF Apart
<1> QED
  BY <1>1, <1>2

(* A step of a call that changes neither the indices nor the slots. *)
LEMMA OwnStep ==
  ASSUME InStep, NEW c \in Core, NEW n, Apart',
         op'[c] = n, \A d \in Core \ {c} : op'[d] = op[d],
         UNCHANGED <<head, tail, slot, queued, misdelivered>>,
         Pushing(n), Popping(n)
  PROVE  InStep'
<1>1. Contents' /\ misdelivered' = {}
  BY DEF InStep, Contents
<1>2. ASSUME NEW d \in Core PROVE Pushing(op[d])' /\ Popping(op[d])'
  <2>1. CASE d = c
    BY <2>1 DEF Pushing, Popping
  <2>2. CASE d # c
    <3>1. op'[d] = op[d] /\ Pushing(op[d]) /\ Popping(op[d])
      BY <2>2 DEF InStep
    <3> QED
      BY <3>1 DEF Pushing, Popping
  <2> QED
    BY <2>1, <2>2
<1> QED
  BY <1>1, <1>2 DEF InStep

LEMMA BeginInStep ==
  ASSUME RingTypes, InStep, NEW c \in Core, NEW k \in {"push", "pop"}, NEW r \in Ring,
         Begin(c, k, r), ~overlapped'
  PROVE  InStep'
<1> DEFINE n == [kind |-> k, ring |-> r, pc |-> "test", h |-> head[r], t |-> 0,
                 pdu |-> IF k = "push" THEN next ELSE NoPdu]
<1>1. op' = [op EXCEPT ![c] = n] /\ UNCHANGED <<head, tail, slot, queued, misdelivered>>
  BY DEF Begin
<1>2. ~ \E d \in Core \ {c} : op[d].kind = k /\ op[d].ring = r
  BY DEF Begin
<1>3. n.kind = k /\ n.ring = r /\ n.pc = "test" /\ n.h = head[r]
  OBVIOUS
<1> HIDE DEF n
<1>4. op'[c] = n /\ \A d \in Core \ {c} : op'[d] = op[d]
  BY <1>1, RingFacts
<1>5. Apart'
  BY <1>2, <1>3, <1>4 DEF Apart, InStep
<1>6. Pushing(n) /\ Popping(n)
  <2>1. Len(queued[r]) = wrapping_sub(head[r], tail[r]) /\ Len(queued[r]) \in Nat
    BY RingFacts DEF InStep, Contents
  <2> QED
    BY <1>3, <2>1 DEF Pushing, Popping, PastTest
<1> QED
  BY <1>1, <1>4, <1>5, <1>6, OwnStep

(* The test leaves a push with room and a pop with a PDU. *)
LEMMA TestInStep ==
  ASSUME RingTypes, InStep, NEW c \in Core, Test(c)
  PROVE  InStep'
<1> DEFINE o == op[c]
           p == IF c = "core1" THEN "reread" ELSE "copy"
           n == [o EXCEPT !.t = tail[o.ring], !.pc = p]
<1>1. o.pc = "test" /\ UNCHANGED <<head, tail, slot, queued, misdelivered>>
  BY DEF Test
<1>2. p \in {"reread", "copy"}
  OBVIOUS
<1>3. CASE op' = [op EXCEPT ![c] = Idle]
  <2>1. Idle.kind = "none"
    BY DEF Idle
  <2>2. Pushing(Idle) /\ Popping(Idle)
    BY <2>1 DEF Pushing, Popping
  <2>3. Apart' /\ op'[c] = Idle /\ \A d \in Core \ {c} : op'[d] = op[d]
    BY <1>3, <2>1, StaysApart DEF InStep
  <2> QED
    BY <1>1, <2>2, <2>3, OwnStep
<1>4. CASE ~Blocked(o, tail[o.ring]) /\ op' = [op EXCEPT ![c] = n]
  <2>1. n.kind = o.kind /\ n.ring = o.ring /\ n.h = o.h /\ n.t = tail[o.ring] /\ n.pc = p
    BY RingFacts DEF OpState
  <2> HIDE DEF n
  <2>2. Apart' /\ op'[c] = n /\ \A d \in Core \ {c} : op'[d] = op[d]
    BY <1>4, <2>1, StaysApart DEF InStep
  <2> DEFINE q == queued[o.ring]
  <2>3. /\ Len(q) = wrapping_sub(head[o.ring], tail[o.ring]) /\ Len(q) \in Nat
        /\ Pushing(o) /\ Popping(o)
    BY RingFacts DEF InStep, Contents
  <2>4. o.kind = "push" => o.h = head[o.ring] /\ Len(q) < RingSize
    BY <1>4, <2>3, Span DEF Blocked, Pushing
  <2>5. o.kind = "pop" => Len(q) >= 1
    <3> SUFFICES ASSUME o.kind = "pop" PROVE Len(q) >= 1
      OBVIOUS
    <3>1. o.h # tail[o.ring] /\ wrapping_sub(o.h, tail[o.ring]) <= Len(q)
      BY <1>1, <1>4, <2>3 DEF Blocked, Popping
    <3>2. wrapping_sub(o.h, tail[o.ring]) \in Nat /\ wrapping_sub(o.h, tail[o.ring]) # 0
      <4>1. o.h \in 0 .. IndexSpan - 1 /\ tail[o.ring] \in 0 .. IndexSpan - 1
        BY RingFacts
      <4>2. /\ wrapping_sub(o.h, tail[o.ring]) \in 0 .. IndexSpan - 1
            /\ wrapping_sub(o.h, tail[o.ring]) = 0 <=> o.h = tail[o.ring]
        BY <4>1, Distance
      <4> QED
        BY <3>1, <4>2, Span
    <3> QED
      BY <2>3, <3>1, <3>2
  <2>6. Pushing(n) /\ Popping(n)
    BY <1>2, <2>1, <2>4, <2>5 DEF Pushing, Popping
  <2> QED
    BY <1>1, <2>2, <2>6, OwnStep
<1> QED
  <2>1. op[c] \in OpState /\ op \in [Core -> OpState]
    BY RingFacts
  <2> QED
    BY <1>3, <1>4, <2>1 DEF Test

LEMMA RereadInStep ==
  ASSUME RingTypes, InStep, NEW c \in Core, Reread(c)
  PROVE  InStep'
<1> DEFINE o == op[c]
           x == IF o.kind = "push" THEN head[o.ring] ELSE o.h
           y == IF o.kind = "pop" THEN tail[o.ring] ELSE o.t
           n == [o EXCEPT !.pc = "copy", !.h = x, !.t = y]
<1>1. /\ o.pc = "reread" /\ op' = [op EXCEPT ![c] = n]
      /\ UNCHANGED <<head, tail, slot, queued, misdelivered>>
  BY RingFacts DEF Reread
<1>2. n.kind = o.kind /\ n.ring = o.ring /\ n.h = x /\ n.t = y /\ n.pc = "copy"
  BY RingFacts DEF OpState
<1> HIDE DEF n
<1>3. Apart' /\ op'[c] = n /\ \A d \in Core \ {c} : op'[d] = op[d]
  BY <1>1, <1>2, StaysApart DEF InStep
<1>4. Pushing(o) /\ Popping(o)
  BY DEF InStep
<1>5. Pushing(n) /\ Popping(n)
  BY <1>1, <1>2, <1>4 DEF Pushing, Popping, PastTest
<1> QED
  BY <1>1, <1>3, <1>5, OwnStep

(* The slot a push writes is the one at the head, which holds nothing. *)
LEMMA CopyInStep ==
  ASSUME RingTypes, InStep, NEW c \in Core, Copy(c)
  PROVE  InStep'
<1> DEFINE o == op[c]
           r == o.ring
           q == queued[r]
<1>0. /\ o.pc = "copy" /\ UNCHANGED <<head, tail, queued, misdelivered>>
      /\ r \in Ring /\ op \in [Core -> OpState] /\ o \in OpState
      /\ o.kind \in {"push", "pop"}
  BY RingFacts DEF Copy
<1>1. /\ Pushing(o) /\ Popping(o) /\ Len(q) = wrapping_sub(head[r], tail[r]) /\ Len(q) \in Nat
      /\ head[r] \in 0 .. IndexSpan - 1 /\ tail[r] \in 0 .. IndexSpan - 1
  BY <1>0, RingFacts DEF InStep, Contents
<1>2. CASE o.kind = "pop"
  <2> DEFINE n == [o EXCEPT !.pc = "store", !.pdu = slot[r][Cell(o.t)]]
  <2>1. op' = [op EXCEPT ![c] = n] /\ UNCHANGED slot
    BY <1>0, <1>2 DEF Copy, Cell
  <2>2. /\ n.kind = o.kind /\ n.ring = r /\ n.h = o.h /\ n.t = o.t /\ n.pc = "store"
        /\ n.pdu = slot[r][Cell(o.t)]
    BY <1>0 DEF OpState
  <2> HIDE DEF n
  <2>3. Apart' /\ op'[c] = n /\ \A d \in Core \ {c} : op'[d] = op[d]
    BY <2>1, <2>2, StaysApart DEF InStep
  <2>4. o.t = tail[r] /\ Len(q) >= 1
    BY <1>0, <1>1, <1>2 DEF Popping, PastTest
  <2>5. slot[r][Cell(tail[r] + (1 - 1))] = q[1]
    <3>1. 1 \in 1 .. Len(q)
      BY <1>1, <2>4
    <3> QED
      BY <1>0, <3>1 DEF InStep, Contents
  <2>6. tail[r] + (1 - 1) = o.t
    BY <1>1, <2>4
  <2>7. Pushing(n) /\ Popping(n)
    BY <1>2, <2>2, <2>4, <2>5, <2>6 DEF Pushing, Popping
  <2> QED
    BY <1>0, <2>1, <2>3, <2>7, OwnStep
<1>3. CASE o.kind = "push"
  <2> DEFINE n == [o EXCEPT !.pc = "store"]
  <2>1. /\ op' = [op EXCEPT ![c] = n]
        /\ slot' = [slot EXCEPT ![r] = [slot[r] EXCEPT ![Cell(o.h)] = o.pdu]]
    BY <1>0, <1>3 DEF Copy, Cell
  <2>2. n.kind = o.kind /\ n.ring = r /\ n.h = o.h /\ n.pc = "store" /\ n.pdu = o.pdu
    BY <1>0 DEF OpState
  <2> HIDE DEF n
  <2>3. Apart' /\ op'[c] = n /\ \A d \in Core \ {c} : op'[d] = op[d]
    BY <2>1, <2>2, StaysApart DEF InStep
  <2>4. o.h = head[r] /\ Len(q) < RingSize
    BY <1>0, <1>1, <1>3 DEF Pushing, PastTest
  <2>5. Cell(o.h) \in 0 .. RingSize - 1
    <3>1. o.h \in Nat
      BY <1>1, <2>4
    <3> QED
      BY <3>1, CellWraps
  <2>6. slot \in [Ring -> [0 .. RingSize - 1 -> 0 .. MaxOps]]
    BY DEF RingTypes, TypeOK
  <2>7. /\ slot'[r][Cell(o.h)] = o.pdu
        /\ \A j \in (0 .. RingSize - 1) \ {Cell(o.h)} : slot'[r][j] = slot[r][j]
        /\ \A s \in Ring \ {r} : slot'[s] = slot[s]
    BY <1>0, <2>1, <2>5, <2>6
  <2>8. ASSUME NEW i \in 1 .. Len(q)
        PROVE  Cell(tail[r] + (i - 1)) \in (0 .. RingSize - 1) \ {Cell(o.h)}
    <3>1. tail[r] + (i - 1) \in Nat /\ Len(q) - (i - 1) \in 1 .. RingSize - 1
      BY <1>1, <2>4, Span
    <3>2. Cell(tail[r] + (i - 1)) # Cell((tail[r] + (i - 1)) + (Len(q) - (i - 1)))
      BY <3>1, CellsDiffer
    <3>3. (tail[r] + (i - 1)) + (Len(q) - (i - 1)) = tail[r] + Len(q)
      BY <1>1
    <3>4. Cell(o.h) = Cell(tail[r] + Len(q))
      BY <1>1, <2>4, HeadCell
    <3>5. Cell(tail[r] + (i - 1)) \in 0 .. RingSize - 1
      BY <3>1, CellWraps
    <3> QED
      BY <3>2, <3>3, <3>4, <3>5
  <2>9. Contents'
    <3>1. ASSUME NEW s \in Ring, NEW i \in 1 .. Len(queued[s])
          PROVE  slot'[s][Cell(tail[s] + (i - 1))] = queued[s][i]
      <4>1. slot[s][Cell(tail[s] + (i - 1))] = queued[s][i]
        BY DEF InStep, Contents
      <4>2. CASE s = r
        BY <4>1, <4>2, <2>7, <2>8
      <4>3. CASE s # r
        BY <4>1, <4>3, <2>7
      <4> QED
        BY <4>2, <4>3
    <3> QED
      BY <1>0, <3>1 DEF InStep, Contents
  <2>10. ASSUME NEW d \in Core PROVE Pushing(op[d])' /\ Popping(op[d])'
    <3>1. CASE d = c
      BY <1>0, <1>3, <2>2, <2>3, <2>4, <2>7, <3>1 DEF Pushing, Popping
    <3>2. CASE d # c
      <4>1. op'[d] = op[d] /\ Pushing(op[d]) /\ Popping(op[d]) /\ op[d].ring \in Ring
        BY <3>2, <2>3, RingFacts DEF InStep
      <4>2. op[d].kind = "push" => op[d].ring # r
        BY <1>3, <3>2 DEF InStep, Apart
      <4>3. op[d].kind = "push" => slot'[op[d].ring] = slot[op[d].ring]
        BY <4>1, <4>2, <2>7
      <4> QED
        BY <1>0, <4>1, <4>3 DEF Pushing, Popping
    <3> QED
      BY <3>1, <3>2
  <2> QED
    BY <1>0, <2>3, <2>9, <2>10 DEF InStep
<1> QED
  BY <1>0, <1>2, <1>3

LEMMA StorePushInStep ==
  ASSUME RingTypes, InStep, NEW c \in Core, StorePush(c)
  PROVE  InStep'
<1> DEFINE o == op[c]
           r == o.ring
           q == queued[r]
           q1 == Append(q, o.pdu)
<1>0. /\ o.pc = "store" /\ o.kind = "push" /\ UNCHANGED <<tail, slot, misdelivered>>
      /\ op' = [op EXCEPT ![c] = Idle]
      /\ head' = [head EXCEPT ![r] = wrapping_inc(o.h)]
      /\ queued' = [queued EXCEPT ![r] = q1]
  BY DEF StorePush
<1>1. /\ r \in Ring /\ q \in Seq(Nat) /\ Len(q) \in Nat
      /\ head[r] \in 0 .. IndexSpan - 1 /\ tail[r] \in 0 .. IndexSpan - 1
      /\ Pushing(o) /\ Len(q) = wrapping_sub(head[r], tail[r])
      /\ Idle.kind = "none"
  BY RingFacts DEF InStep, Contents, Idle
<1>2. /\ o.h = head[r] /\ Len(q) < RingSize /\ slot[r][Cell(head[r])] = o.pdu
  BY <1>0, <1>1 DEF Pushing, PastTest
<1>3. Apart' /\ op'[c] = Idle /\ \A d \in Core \ {c} : op'[d] = op[d]
  BY <1>0, <1>1, StaysApart DEF InStep
<1>4. /\ head'[r] = wrapping_inc(head[r]) /\ queued'[r] = q1
      /\ \A s \in Ring \ {r} : head'[s] = head[s] /\ queued'[s] = queued[s]
  BY <1>0, <1>1, <1>2 DEF RingTypes, TypeOK
<1>5. /\ Len(q1) = Len(q) + 1 /\ q1[Len(q) + 1] = o.pdu
      /\ \A i \in 1 .. Len(q) : q1[i] = q[i]
  BY <1>1
<1> HIDE DEF q1
<1>6. wrapping_sub(wrapping_inc(head[r]), tail[r]) = Len(q) + 1
  <2>1. wrapping_sub(head[r], tail[r]) < IndexSpan - 1
    BY <1>1, <1>2, Span
  <2>2. head[r] \in 0 .. IndexSpan - 1 /\ tail[r] \in 0 .. IndexSpan - 1
    BY <1>1
  <2>3. wrapping_sub(wrapping_inc(head[r]), tail[r]) = wrapping_sub(head[r], tail[r]) + 1
    BY <2>1, <2>2, Distance
  <2> QED
    BY <1>1, <2>3
<1>7. Contents'
  <2>1. ASSUME NEW s \in Ring, s # r
        PROVE  /\ Len(queued'[s]) = wrapping_sub(head'[s], tail[s]) /\ Len(queued'[s]) <= RingSize
               /\ \A i \in 1 .. Len(queued'[s]) : slot[s][Cell(tail[s] + (i - 1))] = queued'[s][i]
    BY <1>4, <2>1 DEF InStep, Contents
  <2>2. /\ Len(queued'[r]) = wrapping_sub(head'[r], tail[r]) /\ Len(queued'[r]) <= RingSize
    BY <1>1, <1>2, <1>4, <1>5, <1>6, Span
  <2>3. ASSUME NEW i \in 1 .. Len(queued'[r])
        PROVE  slot[r][Cell(tail[r] + (i - 1))] = queued'[r][i]
    <3>1. CASE i \in 1 .. Len(q)
      <4>1. slot[r][Cell(tail[r] + (i - 1))] = q[i]
        BY <1>1, <3>1 DEF InStep, Contents
      <4> QED
        BY <4>1, <3>1, <1>4, <1>5
    <3>2. CASE i = Len(q) + 1
      <4>1. tail[r] + (i - 1) = tail[r] + wrapping_sub(head[r], tail[r])
        BY <1>1, <3>2
      <4>2. Cell(tail[r] + (i - 1)) = Cell(head[r])
        BY <4>1, <1>1, HeadCell
      <4> QED
        BY <4>2, <3>2, <1>2, <1>4, <1>5
    <3> QED
      BY <3>1, <3>2, <1>1, <1>4, <1>5
  <2> QED
    BY <1>0, <2>1, <2>2, <2>3 DEF Contents
<1>8. ASSUME NEW d \in Core PROVE Pushing(op[d])' /\ Popping(op[d])'
  <2>1. CASE d = c
    BY <1>1, <1>3, <2>1 DEF Pushing, Popping
  <2>2. CASE d # c
    <3>1. op'[d] = op[d] /\ Pushing(op[d]) /\ Popping(op[d]) /\ op[d].ring \in Ring
      BY <2>2, <1>3, RingFacts DEF InStep
    <3>2. op[d].kind = "push" => op[d].ring # r
      BY <1>0, <2>2 DEF InStep, Apart
    <3>3. CASE op[d].ring # r
      <4>1. head'[op[d].ring] = head[op[d].ring] /\ queued'[op[d].ring] = queued[op[d].ring]
        BY <1>4, <3>1, <3>3
      <4> QED
        BY <1>0, <3>1, <4>1 DEF Pushing, Popping
    <3>4. CASE op[d].ring = r
      <4>1. op[d].kind # "push"
        BY <3>2, <3>4
      <4>2. op[d].h \in 0 .. IndexSpan - 1
        BY RingFacts
      <4>3. wrapping_sub(op[d].h, tail[r]) \in Int
        <5>1. tail[r] \in 0 .. IndexSpan - 1
          BY <1>1
        <5>2. wrapping_sub(op[d].h, tail[r]) \in 0 .. IndexSpan - 1
          BY <4>2, <5>1, Distance
        <5> QED
          BY <5>2
      <4>4. /\ wrapping_sub(op[d].h, tail[r]) <= Len(q) => wrapping_sub(op[d].h, tail[r]) <= Len(q1)
            /\ Len(q) >= 1 => Len(q1) >= 1 /\ q1[1] = q[1]
        BY <1>1, <1>5, <4>3
      <4>5. Popping(op[d])'
        BY <1>0, <1>4, <3>1, <3>4, <4>4 DEF Popping, PastTest
      <4> QED
        BY <3>1, <4>1, <4>5 DEF Pushing
    <3> QED
      BY <3>3, <3>4
  <2> QED
    BY <2>1, <2>2
<1> QED
  BY <1>0, <1>3, <1>7, <1>8 DEF InStep

(* A pop takes the PDU at the tail, which is the oldest one. *)
LEMMA StorePopInStep ==
  ASSUME RingTypes, InStep, NEW c \in Core, StorePop(c)
  PROVE  InStep'
<1> DEFINE o == op[c]
           r == o.ring
           q == queued[r]
           q1 == Tail(q)
<1>0. /\ o.pc = "store" /\ o.kind = "pop" /\ UNCHANGED <<head, slot>>
      /\ op' = [op EXCEPT ![c] = Idle]
      /\ tail' = [tail EXCEPT ![r] = wrapping_inc(o.t)]
  BY DEF StorePop
<1>1. /\ r \in Ring /\ q \in Seq(Nat) /\ Len(q) \in Nat
      /\ head[r] \in 0 .. IndexSpan - 1 /\ tail[r] \in 0 .. IndexSpan - 1
      /\ Popping(o) /\ Len(q) = wrapping_sub(head[r], tail[r]) /\ Len(q) <= RingSize
      /\ Idle.kind = "none"
  BY RingFacts DEF InStep, Contents, Idle
<1>2. o.t = tail[r] /\ Len(q) >= 1 /\ o.pdu = q[1]
  BY <1>0, <1>1 DEF Popping, PastTest
<1>3. q # <<>> /\ Head(q) = o.pdu
  BY <1>1, <1>2
<1>4. queued' = [queued EXCEPT ![r] = q1] /\ misdelivered' = misdelivered
  BY <1>3 DEF StorePop
<1>5. Apart' /\ op'[c] = Idle /\ \A d \in Core \ {c} : op'[d] = op[d]
  BY <1>0, <1>1, StaysApart DEF InStep
<1>6. /\ tail'[r] = wrapping_inc(tail[r]) /\ queued'[r] = q1
      /\ \A s \in Ring \ {r} : tail'[s] = tail[s] /\ queued'[s] = queued[s]
  BY <1>0, <1>1, <1>2, <1>4 DEF RingTypes, TypeOK
<1>7. Len(q1) = Len(q) - 1 /\ \A i \in 1 .. Len(q) - 1 : q1[i] = q[i + 1]
  BY <1>1, <1>3
<1> HIDE DEF q1
<1>8. wrapping_sub(head[r], wrapping_inc(tail[r])) = Len(q) - 1
  <2>1. head[r] \in 0 .. IndexSpan - 1 /\ tail[r] \in 0 .. IndexSpan - 1
    BY <1>1
  <2>2. wrapping_sub(head[r], tail[r]) = 0 <=> head[r] = tail[r]
    BY <2>1, Distance
  <2>3. head[r] # tail[r]
    BY <1>1, <1>2, <2>2
  <2>4. wrapping_sub(head[r], wrapping_inc(tail[r])) = wrapping_sub(head[r], tail[r]) - 1
    BY <2>1, <2>3, Distance
  <2> QED
    BY <1>1, <2>4
<1>9. Contents'
  <2>1. ASSUME NEW s \in Ring, s # r
        PROVE  /\ Len(queued'[s]) = wrapping_sub(head[s], tail'[s]) /\ Len(queued'[s]) <= RingSize
               /\ \A i \in 1 .. Len(queued'[s]) : slot[s][Cell(tail'[s] + (i - 1))] = queued'[s][i]
    BY <1>6, <2>1 DEF InStep, Contents
  <2>2. Len(queued'[r]) = wrapping_sub(head[r], tail'[r]) /\ Len(queued'[r]) <= RingSize
    BY <1>1, <1>2, <1>6, <1>7, <1>8, Span
  <2>3. ASSUME NEW i \in 1 .. Len(queued'[r])
        PROVE  slot[r][Cell(tail'[r] + (i - 1))] = queued'[r][i]
    <3>1. i - 1 \in Nat /\ i \in 1 .. Len(q) - 1 /\ i + 1 \in 1 .. Len(q)
      BY <1>1, <1>6, <1>7
    <3>2. tail[r] \in 0 .. IndexSpan - 1
      BY <1>1
    <3>3. Cell(wrapping_inc(tail[r]) + (i - 1)) = Cell(tail[r] + 1 + (i - 1))
      BY <3>1, <3>2, TailCell
    <3>4. tail[r] + 1 + (i - 1) = tail[r] + ((i + 1) - 1)
      BY <3>1, <3>2
    <3>5. slot[r][Cell(tail[r] + ((i + 1) - 1))] = q[i + 1]
      BY <1>1, <3>1 DEF InStep, Contents
    <3> QED
      BY <1>6, <1>7, <3>1, <3>3, <3>4, <3>5
  <2> QED
    BY <1>0, <2>1, <2>2, <2>3 DEF Contents
<1>10. ASSUME NEW d \in Core PROVE Pushing(op[d])' /\ Popping(op[d])'
  <2>1. CASE d = c
    BY <1>1, <1>5, <2>1 DEF Pushing, Popping
  <2>2. CASE d # c
    <3>1. op'[d] = op[d] /\ Pushing(op[d]) /\ Popping(op[d]) /\ op[d].ring \in Ring
      BY <2>2, <1>5, RingFacts DEF InStep
    <3>2. op[d].kind = "pop" => op[d].ring # r
      BY <1>0, <2>2 DEF InStep, Apart
    <3>3. CASE op[d].ring # r
      <4>1. tail'[op[d].ring] = tail[op[d].ring] /\ queued'[op[d].ring] = queued[op[d].ring]
        BY <1>6, <3>1, <3>3
      <4> QED
        BY <1>0, <3>1, <4>1 DEF Pushing, Popping
    <3>4. CASE op[d].ring = r
      <4>1. op[d].kind # "pop"
        BY <3>2, <3>4
      <4>2. Len(q) < RingSize => Len(q1) < RingSize
        BY <1>1, <1>7, Span
      <4>3. Pushing(op[d])'
        BY <1>0, <1>6, <3>1, <3>4, <4>2 DEF Pushing
      <4> QED
        BY <3>1, <4>1, <4>3 DEF Popping
    <3> QED
      BY <3>3, <3>4
  <2> QED
    BY <2>1, <2>2
<1> QED
  BY <1>4, <1>5, <1>9, <1>10 DEF InStep

LEMMA RingStep == RingInv /\ [Next]_vars => RingInv'
<1> SUFFICES ASSUME RingInv, [Next]_vars PROVE RingInv'
  OBVIOUS
<1>1. RingTypes /\ (~overlapped => InStep)
  BY DEF RingInv
<1>2. ASSUME NEW c \in Core, Step(c) PROVE RingInv'
  <2>1. RingTypes' /\ (overlapped => overlapped')
    BY <1>1, <1>2, RingTypesStep
  <2>2. ASSUME ~overlapped' PROVE InStep'
    <3>1. InStep
      BY <1>1, <2>1, <2>2
    <3>2. ASSUME NEW k \in {"push", "pop"}, NEW r \in Ring, Begin(c, k, r) PROVE InStep'
      BY <1>1, <2>2, <3>1, <3>2, BeginInStep
    <3> QED
      BY <1>1, <1>2, <3>1, <3>2, TestInStep, RereadInStep, CopyInStep, StorePushInStep,
         StorePopInStep DEF Step
  <2> QED
    BY <2>1, <2>2 DEF RingInv
<1>3. CASE UNCHANGED vars
  <2>1. RingTypes'
    BY <1>1, <1>3 DEF vars, RingTypes, TypeOK
  <2>2. InStep => InStep'
    BY <1>3 DEF vars, InStep, Apart, Contents, Pushing, Popping
  <2>3. overlapped' = overlapped
    BY <1>3 DEF vars
  <2> QED
    BY <1>1, <2>1, <2>2, <2>3 DEF RingInv
<1> QED
  BY <1>2, <1>3 DEF Next

(* For any capacity that divides the range of the indices: every index,    *)
(* slot and PDU number keeps its type, whoever calls at either end.        *)
THEOREM RingTypeCorrect == Spec => []TypeOK
<1>1. RingInv => TypeOK
  BY DEF RingInv, RingTypes
<1> QED
  BY <1>1, RingInitInv, RingStep, PTL DEF Spec

(* For any capacity and any number of calls: unless two calls at one end   *)
(* of a ring overlap, no ring ever holds more than its capacity and every  *)
(* pop returns the oldest queued PDU, although both cores use both ends    *)
(* and the C side reads its own index a second time (ipc.rs:194-241,       *)
(* ipc_c.c:134-200).                                                       *)
THEOREM SharingSafe == Spec => []SafeUnlessOverlapped
<1>1. RingInv => SafeUnlessOverlapped
  <2> SUFFICES ASSUME RingInv, ~overlapped
               PROVE  OccupancyWithinCapacity /\ DeliveredOnceInOrder
    BY DEF SafeUnlessOverlapped
  <2>1. InStep
    BY DEF RingInv
  <2> QED
    BY <2>1 DEF InStep, Contents, OccupancyWithinCapacity, DeliveredOnceInOrder
<1> QED
  BY <1>1, RingInitInv, RingStep, PTL DEF Spec

-----------------------------------------------------------------------------
(* MqttSession.  Time only passes in the waits, each of which is bounded;  *)
(* the passes without a packet are counted by ticks_since_ping, and what a *)
(* dead broker leaves unanswered is counted by the socket.                 *)
MqttSteps ==
  Writing \cup {"resolve", "open", "connack", "poll", "backoff", "idle"}

MqttTypeOK ==
  /\ step \in MqttSteps /\ spent \in Nat /\ writes \in Nat
  /\ ticks_since_ping \in 0 .. ping_interval_ticks - 1
  /\ alive \in BOOLEAN /\ aborted \in BOOLEAN /\ unacked \in -1 .. SocketTimeout
  /\ waiting \in BOOLEAN /\ {sinceSent, deadFor, heldSinceSent, heldSinceLost} \subseteq Nat

(* How long a wait has lasted. *)
WaitsInBounds ==
  /\ step \in Writing => spent <= SocketTimeout
  /\ NothingToWrite => spent = 0
  /\ step = "poll" => spent <= 1
  /\ ~aborted => unacked < SocketTimeout
  /\ waiting => step \in {"discovery", "publish"} /\ spent = 0

(* The passes without a packet so far: each has counted one tick. *)
Passes ==
  CASE step = "poll" -> ticks_since_ping + spent
    [] step = "publish" -> ticks_since_ping + 1
    [] step = "ping" -> ping_interval_ticks
    [] OTHER -> 0

PingInTime ==
  /\ step = "connack" => sinceSent = 0
  /\ ~aborted /\ step \in InSession =>
       sinceSent - heldSinceSent <= Passes + (IF step = "poll" THEN 0 ELSE spent)

(* A broker that is gone: nothing was sent yet; what was sent waits for an *)
(* acknowledgement; the socket has given up and the next write notices.    *)
GoneInTime ==
  step \in InSession /\ ~alive =>
    \/ ~aborted /\ unacked = -1 /\ deadFor - heldSinceLost <= Passes
       /\ (step # "poll" => spent = 0)
    \/ ~aborted /\ unacked >= 0 /\ deadFor - heldSinceLost <= ping_interval_ticks + unacked
    \/ aborted /\ deadFor - heldSinceLost <= ping_interval_ticks + SocketTimeout + Passes

MqttInv == MqttTypeOK /\ WaitsInBounds /\ PingInTime /\ GoneInTime

LEMMA MqttBounds ==
  /\ KeepAlive \in Nat /\ SocketTimeout \in Nat /\ SocketTimeout >= 1 /\ MaxWrites \in Nat
  /\ ping_interval_ticks = KeepAlive \div 2 /\ ping_interval_ticks \in Nat
  /\ ping_interval_ticks >= 1 /\ SocketTimeout <= ping_interval_ticks
  /\ 2 * ping_interval_ticks <= KeepAlive
  BY MqttAssumption DEF ping_interval_ticks

LEMMA MqttInitInv == MqttInit => MqttInv
<1> SUFFICES ASSUME MqttInit PROVE MqttInv
  OBVIOUS
<1>1. aborted \in BOOLEAN /\ alive \in BOOLEAN /\ waiting \in BOOLEAN
  BY DEF MqttInit
<1>2. /\ step \in {"resolve", "idle"} /\ spent = 0 /\ writes = 0 /\ ticks_since_ping = 0
      /\ unacked = -1 /\ sinceSent = 0 /\ deadFor = 0 /\ ~waiting
      /\ heldSinceSent = 0 /\ heldSinceLost = 0
  BY DEF MqttInit
<1>3. MqttTypeOK
  BY <1>1, <1>2, MqttBounds DEF MqttTypeOK, MqttSteps
<1>4. WaitsInBounds /\ PingInTime /\ GoneInTime
  BY <1>2, MqttBounds
     DEF WaitsInBounds, PingInTime, GoneInTime, Writing, InSession, NothingToWrite
<1> QED
  BY <1>3, <1>4 DEF MqttInv

LEMMA PauseInv == ASSUME MqttInv, Pause PROVE MqttInv'
<1>0. MqttTypeOK
  BY DEF MqttInv
<1>4. waiting' = ("backoff" \in {"discovery", "publish"})
  BY DEF Pause, Goto
<1>5. waiting' \in BOOLEAN
  BY SMT DEF Pause, Goto
<1>6. ~waiting'
  BY <1>4
<1>1. /\ step' = "backoff" /\ spent' = 0 /\ unacked' = -1 /\ aborted' \in BOOLEAN
      /\ UNCHANGED <<writes, ticks_since_ping, alive, sinceSent, deadFor, heldSinceSent,
                     heldSinceLost>>
  BY DEF Pause, Goto, NoHistory
<1>2. MqttTypeOK'
  BY <1>0, <1>1, <1>5, MqttBounds DEF MqttTypeOK, MqttSteps
<1>3. WaitsInBounds' /\ PingInTime' /\ GoneInTime'
  BY <1>1, <1>6, MqttBounds
     DEF WaitsInBounds, PingInTime, GoneInTime, Writing, InSession, NothingToWrite
<1> QED
  BY <1>2, <1>3 DEF MqttInv

(* A second is counted by whichever wait the client is in. *)
LEMMA SecondInv == ASSUME MqttInv, Second PROVE MqttInv'
<1>0. MqttTypeOK /\ WaitsInBounds /\ PingInTime /\ GoneInTime
  BY DEF MqttInv
<1>1. /\ ~waiting /\ spent < Limit /\ spent' = spent + 1
      /\ unacked' = IF ~Unacked \/ unacked = SocketTimeout THEN unacked
                    ELSE IF unacked = -1 THEN 1 ELSE unacked + 1
      /\ UNCHANGED <<step, writes, ticks_since_ping, alive, waiting, heldSinceSent, heldSinceLost>>
      /\ sinceSent' = IF step \in InSession THEN sinceSent + 1 ELSE sinceSent
      /\ deadFor' = IF step \in InSession /\ ~alive THEN deadFor + 1 ELSE deadFor
  BY DEF Second, Elapse
<1>2. /\ aborted' \in BOOLEAN
      /\ aborted' <=> (aborted \/ unacked' = SocketTimeout)
  BY DEF Second, Elapse
<1>3. /\ step \in Writing => spent < SocketTimeout /\ ~aborted /\ ~NothingToWrite
      /\ step = "poll" => spent < 1
  BY <1>0, <1>1, MqttBounds DEF Limit, Writing, MqttTypeOK, MqttSteps
<1>4. MqttTypeOK'
  BY <1>0, <1>1, <1>2, MqttBounds DEF MqttTypeOK
<1>5. WaitsInBounds'
  BY <1>0, <1>1, <1>2, <1>3, <1>4, MqttBounds
     DEF WaitsInBounds, MqttTypeOK, NothingToWrite, Writing
<1>6. PingInTime'
  BY <1>0, <1>1, <1>2, <1>3, MqttBounds DEF PingInTime, Passes, MqttTypeOK, InSession, Writing
<1>7. GoneInTime'
  BY <1>0, <1>1, <1>2, <1>3, <1>4, <1>5, MqttBounds
     DEF GoneInTime, Passes, MqttTypeOK, WaitsInBounds, InSession, Writing, Unacked
<1> QED
  BY <1>4, <1>5, <1>6, <1>7 DEF MqttInv

(* A second of waiting for the table is counted by the histories. *)
LEMMA LockWaitInv == ASSUME MqttInv, LockWait PROVE MqttInv'
<1>0. MqttTypeOK /\ WaitsInBounds /\ PingInTime /\ GoneInTime
  BY DEF MqttInv
<1>1. /\ waiting /\ step \in {"discovery", "publish"} /\ spent = 0
      /\ unacked' = IF unacked = -1 \/ unacked = SocketTimeout THEN unacked ELSE unacked + 1
      /\ sinceSent' = sinceSent + 1 /\ heldSinceSent' = heldSinceSent + 1
      /\ deadFor' = IF alive THEN deadFor ELSE deadFor + 1
      /\ heldSinceLost' = IF alive THEN heldSinceLost ELSE heldSinceLost + 1
      /\ UNCHANGED <<step, writes, ticks_since_ping, alive, waiting, spent>>
  BY <1>0 DEF LockWait, Elapse, WaitsInBounds, InSession
<1>2. /\ aborted' \in BOOLEAN
      /\ aborted' <=> (aborted \/ unacked' = SocketTimeout)
  BY DEF LockWait, Elapse
<1>3. MqttTypeOK'
  BY <1>0, <1>1, <1>2, MqttBounds DEF MqttTypeOK
<1>4. WaitsInBounds'
  BY <1>0, <1>1, <1>2, <1>3, MqttBounds
     DEF WaitsInBounds, MqttTypeOK, NothingToWrite, Writing
<1>5. PingInTime'
  BY <1>0, <1>1, <1>2, MqttBounds DEF PingInTime, Passes, MqttTypeOK, InSession
<1>6. GoneInTime'
  BY <1>0, <1>1, <1>2, <1>3, MqttBounds
     DEF GoneInTime, Passes, MqttTypeOK, WaitsInBounds, InSession
<1> QED
  BY <1>3, <1>4, <1>5, <1>6 DEF MqttInv

LEMMA BrokerLostInv == ASSUME MqttInv, BrokerLost PROVE MqttInv'
<1>0. MqttTypeOK /\ WaitsInBounds /\ PingInTime
  BY DEF MqttInv
<1>1. /\ alive' \in BOOLEAN /\ deadFor' = 0 /\ heldSinceLost' = 0
      /\ unacked' = IF step \in Writing /\ ~waiting THEN 0 ELSE -1
      /\ UNCHANGED <<step, spent, writes, ticks_since_ping, aborted, waiting, sinceSent,
                     heldSinceSent>>
  BY DEF BrokerLost
<1>2. MqttTypeOK'
  BY <1>0, <1>1, MqttBounds DEF MqttTypeOK
<1>3. WaitsInBounds' /\ PingInTime'
  BY <1>0, <1>1, MqttBounds DEF WaitsInBounds, PingInTime, NothingToWrite, Passes
<1>4. GoneInTime'
  BY <1>0, <1>1, MqttBounds
     DEF GoneInTime, Passes, InSession, Writing, MqttTypeOK, WaitsInBounds
<1> QED
  BY <1>2, <1>3, <1>4 DEF MqttInv

LEMMA MqttStep == MqttInv /\ [MqttNext]_mqttVars => MqttInv'
<1> SUFFICES ASSUME MqttInv, [MqttNext]_mqttVars PROVE MqttInv'
  OBVIOUS
<1> USE MqttBounds
<1> HIDE DEF ping_interval_ticks
<1> USE DEF MqttInv, MqttTypeOK, MqttSteps, Writing, InSession, WaitsInBounds, NothingToWrite,
            PingInTime, GoneInTime, Passes
<1>1. CASE Second
  BY <1>1, SecondInv
<1>2. CASE BrokerLost
  BY <1>2, BrokerLostInv
<1>16. CASE LockWait
  BY <1>16, LockWaitInv
<1>17. CASE Locked
  BY <1>17 DEF Locked, NoHistory
<1>3. CASE BrokerBack
  BY <1>3 DEF BrokerBack, NoHistory
<1>4. CASE BrokerCloses
  BY <1>4 DEF BrokerCloses, NoHistory
<1>5. CASE Resolve
  <2>1. CASE step = "resolve" /\ Goto("open")
              /\ UNCHANGED <<writes, ticks_since_ping, alive, unacked, aborted>> /\ NoHistory
    BY <2>1 DEF Goto, Sent_, NoHistory
  <2> QED
    BY <1>5, <2>1, PauseInv DEF Resolve
<1>6. CASE Open
  <2>1. CASE step = "open" /\ alive /\ Goto("connect") /\ deadFor' = 0
              /\ heldSinceLost' = 0
              /\ UNCHANGED <<writes, ticks_since_ping, alive, unacked, aborted, sinceSent,
                             heldSinceSent>>
    BY <2>1 DEF Goto, Sent_, NoHistory
  <2> QED
    BY <1>6, <2>1, PauseInv DEF Open
<1>7. CASE SendConnect
  <2>1. CASE step = "connect" /\ Sent_ /\ Goto("connack")
              /\ UNCHANGED <<writes, ticks_since_ping, alive>>
    BY <2>1 DEF Goto, Sent_, NoHistory
  <2> QED
    BY <1>7, <2>1, PauseInv DEF SendConnect
<1>8. CASE Connack
  <2>1. CASE step = "connack" /\ alive /\ ~aborted /\ Goto("discovery")
              /\ writes' \in 0 .. MaxWrites /\ ticks_since_ping' = 0
              /\ UNCHANGED <<alive, unacked, aborted>> /\ NoHistory
    BY <2>1 DEF Goto, Sent_, NoHistory
  <2> QED
    BY <1>8, <2>1, PauseInv DEF Connack
<1>9. CASE Discovery
  <2>1. CASE /\ step = "discovery" /\ ~waiting /\ writes > 0 /\ Sent_
             /\ writes' = writes - 1 /\ Goto(step) /\ UNCHANGED <<ticks_since_ping, alive>>
    BY <2>1 DEF Sent_, Goto
  <2>2. CASE /\ step = "discovery" /\ ~waiting /\ (writes = 0 \/ aborted) /\ Goto("publish")
             /\ writes' \in 0 .. MaxWrites
             /\ UNCHANGED <<ticks_since_ping, alive, unacked, aborted>> /\ NoHistory
    BY <2>2 DEF Goto, NoHistory
  <2> QED
    BY <1>9, <2>1, <2>2 DEF Discovery
<1>10. CASE Publish
  <2>1. CASE /\ step = "publish" /\ ~waiting /\ writes > 0 /\ Sent_
             /\ writes' = writes - 1 /\ Goto(step) /\ UNCHANGED <<ticks_since_ping, alive>>
    BY <2>1 DEF Sent_, Goto
  <2>2. CASE /\ step = "publish" /\ ~waiting /\ writes > 0 /\ aborted /\ Goto("disconnect")
             /\ UNCHANGED <<writes, ticks_since_ping, alive, unacked, aborted>> /\ NoHistory
    BY <2>2 DEF Goto, NoHistory
  <2>3. CASE /\ step = "publish" /\ ~waiting /\ writes = 0
             /\ IF ticks_since_ping + 1 >= ping_interval_ticks
                THEN Goto("ping") /\ ticks_since_ping' = 0
                ELSE Goto("poll") /\ ticks_since_ping' = ticks_since_ping + 1
             /\ UNCHANGED <<writes, alive, unacked, aborted>> /\ NoHistory
    BY <2>3 DEF Goto, NoHistory
  <2> QED
    BY <1>10, <2>1, <2>2, <2>3 DEF Publish
<1>11. CASE Ping
  BY <1>11 DEF Ping, Sent_, Goto, NoHistory
<1>12. CASE Poll
  BY <1>12 DEF Poll, Goto, NoHistory
<1>13. CASE Disconnect
  BY <1>13, PauseInv DEF Disconnect
<1>14. CASE Retry
  BY <1>14 DEF Retry, Goto, NoHistory
<1>15. CASE UNCHANGED mqttVars
  BY <1>15 DEF mqttVars
<1> QED
  BY <1>1, <1>2, <1>3, <1>4, <1>5, <1>6, <1>7, <1>8, <1>9, <1>10, <1>11, <1>12, <1>13, <1>14,
     <1>15, <1>16, <1>17 DEF MqttNext

LEMMA MqttKept == MqttInv => KeptAlive
  BY MqttBounds DEF MqttInv, MqttTypeOK, WaitsInBounds, PingInTime, GoneInTime, Passes, KeptAlive,
    InSession, Writing, MqttSteps

(* For any keep-alive of at least two socket timeouts, however long each   *)
(* write and read takes: a broker that is there sees a packet in every     *)
(* keep-alive interval, and a session whose broker is gone ends after the  *)
(* next two pings and the socket's timeout, each late by no more than the  *)
(* time the client waited for the table (mqtt.rs:148-152, 252-283,         *)
(* 293-314, 401-448).                                                      *)
THEOREM SessionKeptAlive == MqttSpec => []KeptAlive
  BY MqttInitInv, MqttStep, MqttKept, PTL DEF MqttSpec

-----------------------------------------------------------------------------
(* FirmwareUpdate.  Both slots begin and end at sectors, so what an upload *)
(* erases lies in the slot the program counter is not in; a sector that an *)
(* upload has erased holds nothing but its data until another touches it,  *)
(* and a page once written is not erased again.                            *)
(* The pages that are erased before a file's first page comes. *)
Area(i) == num_sectors(i) * SECTOR

Fits(i) == i \in Images /\ content_length(i) \in 1 .. max_size

UploadState ==
  [at : {"none", "erase", "stream", "answer"}, image : Images \cup {NoUpload.image},
   next : Nat, highest : Int, erased : SUBSET Int]

FwTypeOK ==
  /\ running \in {0, SLOT_B} /\ remapped \in BOOLEAN /\ overran \in BOOLEAN
  /\ flash = [p \in Pages |-> flash[p]]
  /\ upload \in [Uploaders -> UploadState]
  /\ \A w \in Uploaders : upload[w].at # "none" =>
       /\ Fits(upload[w].image) /\ upload[w].next <= Len(upload[w].image.pages)
       /\ upload[w].at = "erase" => upload[w].next = 0

(* What an upload that has its slot to itself has of its file there. *)
Streamed(w) ==
  /\ \A p \in Pages : p \div SECTOR \in upload[w].erased =>
       flash[p] \in {ERASED, Data(w, p - ota_target_slot)}
  /\ upload[w].image.format # "uf2" =>
       \A q \in 0 .. Area(upload[w].image) - 1 :
         (ota_target_slot + q) \div SECTOR \in upload[w].erased
  /\ \A k \in 1 .. upload[w].next :
       /\ ota_target_slot + Place(upload[w].image, k) \in Pages
       /\ flash[ota_target_slot + Place(upload[w].image, k)] = Data(w, Place(upload[w].image, k))
       /\ upload[w].image.format = "uf2" =>
            (ota_target_slot + upload[w].image.pages[k]) \div SECTOR <= upload[w].highest
  /\ upload[w].at = "answer" => w \in short \/ Complete(w)

FwInv ==
  /\ FwTypeOK
  /\ \A w \in Active : w \notin mixed \cup strayed => Streamed(w)
  /\ BootsWhole

LEMMA SectorsCover ==
  ASSUME NEW c \in Nat, NEW S \in Nat \ {0}, NEW n \in Nat, c <= n * S
  PROVE  LET k == (c + S - 1) \div S IN k \in Nat /\ c <= k * S /\ k * S <= n * S
<1> DEFINE k == (c + S - 1) \div S
<1>1. k \in Nat /\ k * S <= c + S - 1 /\ c + S - 1 < k * S + S
  OBVIOUS
<1> HIDE DEF k
<1>2. k * S < n * S + S
  BY <1>1
<1>3. ASSUME k >= n + 1 PROVE FALSE
  <2>1. k * S >= (n + 1) * S
    BY <1>1, <1>3
  <2> QED
    BY <2>1, <1>2, <1>1
<1>4. k <= n
  BY <1>1, <1>3
<1>5. k * S <= n * S
  BY <1>1, <1>4
<1> QED
  BY <1>1, <1>5 DEF k

LEMMA SectorOf ==
  ASSUME NEW a \in Nat, NEW S \in Nat \ {0}
  PROVE  LET s == a \div S IN
         /\ s \in Nat /\ s * S <= a /\ a < (s + 1) * S
         /\ \A m \in Nat : m * S <= a => m * S <= s * S
         /\ \A m \in Nat : a < m * S => (s + 1) * S <= m * S
         /\ \A p \in s * S .. (s + 1) * S - 1 : p \div S = s
<1> DEFINE s == a \div S
<1>1. s \in Nat /\ s * S <= a /\ a < s * S + S
  OBVIOUS
<1> HIDE DEF s
<1>2. (s + 1) * S = s * S + S
  BY <1>1
<1>3. ASSUME NEW m \in Nat, m * S <= a PROVE m * S <= s * S
  <2>1. m * S < (s + 1) * S
    BY <1>1, <1>2, <1>3
  <2>2. ASSUME m >= s + 1 PROVE FALSE
    <3>1. m * S >= (s + 1) * S
      BY <2>2, <1>1
    <3> QED
      BY <3>1, <2>1, <1>1, <1>3
  <2>3. m <= s
    BY <2>2, <1>1
  <2> QED
    BY <2>3, <1>1
<1>4. ASSUME NEW m \in Nat, a < m * S PROVE (s + 1) * S <= m * S
  <2>1. s * S < m * S
    BY <1>1, <1>4
  <2>2. ASSUME m <= s PROVE FALSE
    <3>1. m * S <= s * S
      BY <2>2, <1>1
    <3> QED
      BY <3>1, <2>1, <1>1, <1>4
  <2>3. s + 1 <= m
    BY <2>2, <1>1
  <2> QED
    BY <2>3, <1>1
<1>5. ASSUME NEW p \in s * S .. (s + 1) * S - 1 PROVE p \div S = s
  <2>1. p \in Nat /\ s * S <= p /\ p < s * S + S
    BY <1>1, <1>2, <1>5
  <2> DEFINE t == p \div S
  <2>2. t \in Nat /\ t * S <= p /\ p < t * S + S
    BY <2>1
  <2> HIDE DEF t
  <2>3. ~(t < s)
    <3> SUFFICES ASSUME t < s PROVE FALSE
      OBVIOUS
    <3>1. t + 1 <= s
      BY <2>2, <1>1
    <3>2. (t + 1) * S <= s * S
      BY <3>1, <2>2, <1>1
    <3> QED
      BY <3>2, <2>1, <2>2, <1>1
  <2>4. ~(s < t)
    <3> SUFFICES ASSUME s < t PROVE FALSE
      OBVIOUS
    <3>1. s + 1 <= t
      BY <2>2, <1>1
    <3>2. (s + 1) * S <= t * S
      BY <3>1, <2>2, <1>1
    <3> QED
      BY <3>2, <2>1, <2>2, <1>1
  <2> QED
    BY <2>2, <2>3, <2>4, <1>1 DEF t
<1> QED
  BY <1>1, <1>2, <1>3, <1>4, <1>5 DEF s

(* The slots begin and end at sectors. *)
LEMMA SlotSectors ==
  ASSUME running \in {0, SLOT_B}, remapped \in BOOLEAN
  PROVE  /\ ota_target_slot \in Nat /\ max_size \in Nat /\ ota_target_slot \in {0, SLOT_B}
         /\ \E m \in Nat : ota_target_slot = m * SECTOR
         /\ \E n \in Nat : max_size = n * SECTOR
         /\ \A q \in 0 .. max_size - 1 :
              /\ ota_target_slot + q \in Pages
              /\ ~remapped => ota_target_slot + q \notin SlotPages(running)
<1>1. /\ SECTOR \in Nat \ {0} /\ SLOT_B \in Nat \ {0} /\ PROTECTED \in Nat \ {0}
      /\ SLOT_B % SECTOR = 0 /\ PROTECTED % SECTOR = 0 /\ SLOT_B < PROTECTED
  BY FlashAssumption
<1>2. PICK b \in Nat : SLOT_B = b * SECTOR
  <2>1. SLOT_B = (SLOT_B \div SECTOR) * SECTOR /\ SLOT_B \div SECTOR \in Nat
    BY <1>1
  <2> QED
    BY <2>1
<1>3. PICK p \in Nat : PROTECTED = p * SECTOR
  <2>1. PROTECTED = (PROTECTED \div SECTOR) * SECTOR /\ PROTECTED \div SECTOR \in Nat
    BY <1>1
  <2> QED
    BY <2>1
<1>4. b <= p
  <2> SUFFICES ASSUME p < b PROVE FALSE
    OBVIOUS
  <2>1. p * SECTOR <= b * SECTOR
    BY <1>1
  <2> QED
    BY <2>1, <1>1, <1>2, <1>3
<1>5. p - b \in Nat /\ PROTECTED - SLOT_B = (p - b) * SECTOR
  BY <1>1, <1>2, <1>3, <1>4
<1>6. 0 = 0 * SECTOR
  BY <1>1
<1>7. \/ /\ ota_target_slot = SLOT_B /\ max_size = PROTECTED - SLOT_B
         /\ ~remapped => running = 0
      \/ ~remapped /\ running = SLOT_B /\ ota_target_slot = 0 /\ max_size = SLOT_B
  BY <1>1 DEF ota_target_slot, max_size, pc
<1>8. \E m \in Nat : ota_target_slot = m * SECTOR
  BY <1>2, <1>6, <1>7
<1>9. \E n \in Nat : max_size = n * SECTOR
  BY <1>2, <1>5, <1>7
<1>10. \A q \in 0 .. max_size - 1 :
         /\ ota_target_slot + q \in Pages
         /\ ~remapped => ota_target_slot + q \notin SlotPages(running)
  BY <1>1, <1>7 DEF Pages, SlotPages
<1>11. ota_target_slot \in Nat /\ max_size \in Nat /\ ota_target_slot \in {0, SLOT_B}
  BY <1>1, <1>7
<1> QED
  BY <1>8, <1>9, <1>10, <1>11

(* What is erased for a file holds the file, and lies in the slot. *)
LEMMA AreaFits ==
  ASSUME running \in {0, SLOT_B}, remapped \in BOOLEAN, NEW i, Fits(i)
  PROVE  /\ Area(i) \in Nat /\ content_length(i) <= Area(i) /\ Area(i) <= max_size
         /\ \E n \in Nat : Area(i) = n * SECTOR
         /\ i.pages \in Seq(Nat) /\ Len(i.pages) \in Nat /\ Len(i.pages) <= Area(i)
<1>1. i.pages \in Seq(Nat) /\ content_length(i) \in 1 .. max_size
  BY ImagesAssumption DEF Fits
<1>2. PICK n \in Nat : max_size = n * SECTOR
  BY SlotSectors
<1>3. SECTOR \in Nat \ {0} /\ content_length(i) \in Nat /\ max_size \in Nat
  BY <1>1, FlashAssumption, SlotSectors
<1>4. content_length(i) <= n * SECTOR
  BY <1>1, <1>2
<1>5. /\ num_sectors(i) \in Nat /\ content_length(i) <= num_sectors(i) * SECTOR
      /\ num_sectors(i) * SECTOR <= n * SECTOR
  BY <1>3, <1>4, SectorsCover DEF num_sectors
<1>6. Len(i.pages) \in Nat /\ Len(i.pages) <= content_length(i)
  BY <1>1 DEF content_length
<1>7. Area(i) \in Nat /\ content_length(i) <= Area(i) /\ Area(i) <= max_size
  BY <1>2, <1>3, <1>5 DEF Area
<1>8. \E m \in Nat : Area(i) = m * SECTOR
  BY <1>5 DEF Area
<1>9. Len(i.pages) <= Area(i)
  BY <1>3, <1>6, <1>7
<1> QED
  BY <1>1, <1>6, <1>7, <1>8, <1>9

(* A page whose sector is among those of a file's pages is one of them. *)
LEMMA AreaSectors ==
  ASSUME running \in {0, SLOT_B}, remapped \in BOOLEAN, NEW i, Fits(i), NEW p \in Nat,
         NEW r \in ota_target_slot .. ota_target_slot + Area(i) - 1,
         p \div SECTOR = r \div SECTOR
  PROVE  p \in ota_target_slot .. ota_target_slot + Area(i) - 1
<1> DEFINE base == ota_target_slot
           s == r \div SECTOR
<1>1. PICK b \in Nat : base = b * SECTOR
  BY SlotSectors
<1>2. PICK c \in Nat : Area(i) = c * SECTOR
  BY AreaFits
<1>3. SECTOR \in Nat \ {0} /\ base \in Nat /\ Area(i) \in Nat
  BY FlashAssumption, SlotSectors, AreaFits
<1> HIDE DEF base
<1>4. base + Area(i) = (b + c) * SECTOR /\ b + c \in Nat
  BY <1>1, <1>2, <1>3
<1>5. r \in Nat /\ b * SECTOR <= r /\ r < (b + c) * SECTOR
  BY <1>1, <1>3, <1>4 DEF base
<1>6. s \in Nat /\ b * SECTOR <= s * SECTOR /\ (s + 1) * SECTOR <= (b + c) * SECTOR
  BY <1>3, <1>4, <1>5, SectorOf
<1>7. s * SECTOR <= p /\ p < (s + 1) * SECTOR
  BY <1>3, SectorOf
<1> HIDE DEF s
<1>8. s * SECTOR \in Int /\ (s + 1) * SECTOR \in Int
  BY <1>3, <1>6
<1>9. base <= p /\ p < base + Area(i)
  BY <1>1, <1>3, <1>4, <1>6, <1>7, <1>8
<1> QED
  BY <1>3, <1>9 DEF base

LEMMA NoUploadType == NoUpload \in UploadState /\ NoUpload.at = "none" /\ NoUpload.next = 0
BY DEF NoUpload, UploadState

(* An upload's record changes; the slots do not. *)
LEMMA SetTypes ==
  ASSUME FwTypeOK, NEW w \in Uploaders, NEW u \in UploadState, Set(w, u), running' = running,
         remapped' = remapped, overran' \in BOOLEAN,
         u.at # "none" => Fits(u.image) /\ u.next <= Len(u.image.pages), u.at = "erase" => u.next = 0,
         flash' = [p \in Pages |-> flash'[p]]
  PROVE  /\ FwTypeOK'
         /\ upload'[w] = u /\ \A v \in Uploaders : v # w => upload'[v] = upload[v]
         /\ ota_target_slot' = ota_target_slot
<1>1. /\ upload' \in [Uploaders -> UploadState]
      /\ upload'[w] = u /\ \A v \in Uploaders : v # w => upload'[v] = upload[v]
  BY DEF FwTypeOK, Set
<1>2. max_size' = max_size /\ ota_target_slot' = ota_target_slot
  BY DEF max_size, ota_target_slot, pc
<1>3. ASSUME NEW v \in Uploaders, upload'[v].at # "none"
      PROVE  /\ Fits(upload[v].image)' /\ upload'[v].next <= Len(upload'[v].image.pages)
             /\ upload'[v].at = "erase" => upload'[v].next = 0
  <2>1. CASE v = w
    BY <2>1, <1>1, <1>2, <1>3 DEF Fits, content_length
  <2>2. CASE v # w
    BY <2>2, <1>1, <1>2, <1>3 DEF FwTypeOK, Fits, content_length
  <2> QED
    BY <2>1, <2>2
<1> QED
  BY <1>1, <1>2, <1>3 DEF FwTypeOK

(* What a step that leaves the flash and v alone leaves of v. *)
LEMMA StreamKept ==
  ASSUME NEW v \in Uploaders, Streamed(v), flash' = flash, running' = running,
         remapped' = remapped, upload'[v].erased = upload[v].erased,
         upload'[v].image = upload[v].image, upload'[v].next = upload[v].next,
         upload'[v].highest = upload[v].highest,
         upload'[v].at = "answer" => v \in short' \/ Complete(v)
  PROVE  Streamed(v)'
BY DEF Streamed, Complete, Data, ota_target_slot, pc, Area, num_sectors, content_length, Place

(* A step that leaves the flash alone and changes w's record. *)
LEMMA QuietStep ==
  ASSUME FwInv, NEW w \in Uploaders, FwTypeOK',
         flash' = flash, running' = running, remapped' = remapped, overran' = overran,
         booted' = booted,
         \A v \in Uploaders : v # w =>
           /\ upload'[v] = upload[v] /\ (v \in mixed' <=> v \in mixed)
           /\ (v \in short' <=> v \in short) /\ (v \in strayed' <=> v \in strayed),
         w \in Active' /\ w \notin mixed' \cup strayed' => Streamed(w)'
  PROVE  FwInv'
<1>1. BootsWhole'
  BY DEF FwInv, BootsWhole, RunningSlotKept, SlotPages
<1>2. ASSUME NEW v \in Active', v \notin mixed' \cup strayed' PROVE Streamed(v)'
  <2>1. CASE v = w
    BY <2>1, <1>2
  <2>2. CASE v # w
    <3>1. v \in Uploaders /\ v \in Active /\ v \notin mixed \cup strayed /\ upload'[v] = upload[v]
      BY <2>2, <1>2 DEF Active
    <3>2. Streamed(v)
      BY <3>1 DEF FwInv
    <3>3. upload'[v].at = "answer" => v \in short' \/ Complete(v)
      BY <3>1, <3>2, <2>2 DEF Streamed
    <3> QED
      BY <3>1, <3>2, <3>3, StreamKept
  <2> QED
    BY <2>1, <2>2
<1> QED
  BY <1>1, <1>2 DEF FwInv

(* A step of w that writes to the flash. *)
LEMMA FlashStep ==
  ASSUME FwInv, NEW w \in Uploaders, Touch(w), FwTypeOK', running' = running,
         remapped' = remapped, booted' = booted, overran => overran',
         \A v \in Uploaders : v # w => upload'[v] = upload[v],
         ~remapped /\ ~overran' => \A p \in SlotPages(running) : flash'[p] = flash[p],
         w \notin mixed' \cup strayed' => Streamed(w)'
  PROVE  FwInv'
<1>1. SlotPages(running)' = SlotPages(running)
  BY DEF SlotPages
<1>2. BootsWhole'
  BY <1>1 DEF FwInv, BootsWhole, RunningSlotKept
<1>3. ASSUME NEW v \in Active', v \notin mixed' \cup strayed' PROVE Streamed(v)'
  <2>1. v = w
    BY <1>3 DEF Active, Touch
  <2> QED
    BY <2>1, <1>3
<1> QED
  BY <1>2, <1>3 DEF FwInv

(* What lies in the slot an upload is for is not in the one that runs. *)
LEMMA RunningSlotSpared ==
  ASSUME running \in {0, SLOT_B}, remapped \in BOOLEAN, ~remapped, NEW p \in SlotPages(running),
         NEW n \in Nat, n <= max_size
  PROVE  p \notin ota_target_slot .. ota_target_slot + n - 1
<1> SUFFICES ASSUME p \in ota_target_slot .. ota_target_slot + n - 1 PROVE FALSE
  OBVIOUS
<1> DEFINE q == p - ota_target_slot
<1>1. ota_target_slot \in Nat /\ max_size \in Nat
  BY SlotSectors
<1>2. q \in 0 .. max_size - 1 /\ ota_target_slot + q = p
  BY <1>1
<1> HIDE DEF q
<1> QED
  BY <1>2, SlotSectors

LEMMA FwInitInv == FirmwareInit => FwInv
<1> SUFFICES ASSUME FirmwareInit PROVE FwInv
  OBVIOUS
<1>1. NoUpload \in UploadState /\ NoUpload.at = "none"
  BY NoUploadType
<1>2. FwTypeOK
  BY <1>1 DEF FirmwareInit, FwTypeOK, AfterBoot
<1>3. Active = {}
  BY <1>1 DEF FirmwareInit, Active
<1>4. \A p \in SlotPages(running) : p \in Pages
  BY FlashAssumption DEF SlotPages, Pages, FirmwareInit
<1>5. BootsWhole
  BY <1>4 DEF FirmwareInit, BootsWhole, RunningSlotKept, AfterBoot
<1> QED
  BY <1>2, <1>3, <1>5 DEF FwInv

LEMMA StartFw ==
  ASSUME FwInv, NEW w \in Uploaders, StartUpload(w)
  PROVE  FwInv'
<1>1. PICK i \in Images : /\ content_length(i) # 0 /\ content_length(i) <= max_size
                          /\ Set(w, [NoUpload EXCEPT !.at = "erase", !.image = i])
  BY DEF StartUpload, HandlerAccepts
<1> DEFINE u == [NoUpload EXCEPT !.at = "erase", !.image = i]
<1>2. u \in UploadState /\ u.at = "erase" /\ u.image = i /\ u.next = 0
  BY NoUploadType DEF UploadState
<1>3. Fits(u.image) /\ u.next <= Len(u.image.pages)
  <2>1. i.pages \in Seq(Nat) /\ max_size \in Nat
    BY ImagesAssumption, SlotSectors DEF FwInv, FwTypeOK
  <2>2. content_length(i) \in Nat
    BY <2>1 DEF content_length
  <2> QED
    BY <1>1, <1>2, <2>1, <2>2 DEF Fits
<1>4. Set(w, u)
  BY <1>1
<1> HIDE DEF u
<1>5. /\ FwTypeOK /\ flash' = flash /\ running' = running /\ booted' = booted
      /\ remapped' = remapped /\ overran' = overran /\ overran' \in BOOLEAN
  BY DEF StartUpload, FwInv, FwTypeOK
<1>6. flash' = [p \in Pages |-> flash'[p]]
  BY <1>5 DEF FwTypeOK
<1>7. FwTypeOK' /\ upload'[w] = u /\ \A v \in Uploaders : v # w => upload'[v] = upload[v]
  BY <1>2, <1>3, <1>4, <1>5, <1>6, SetTypes
<1>8. w \notin Active'
  BY <1>2, <1>7 DEF Active
<1>9. \A v \in Uploaders : v # w => /\ (v \in mixed' <=> v \in mixed)
                                    /\ (v \in short' <=> v \in short)
                                    /\ (v \in strayed' <=> v \in strayed)
  BY DEF StartUpload
<1> QED
  BY <1>5, <1>7, <1>8, <1>9, QuietStep

(* An upload ends. *)
LEMMA EndedFw ==
  ASSUME FwInv, NEW w \in Uploaders, Set(w, NoUpload),
         flash' = flash, running' = running, remapped' = remapped, overran' = overran,
         booted' = booted, mixed' = mixed, short' = short, strayed' = strayed
  PROVE  FwInv'
<1>1. NoUpload \in UploadState /\ NoUpload.at = "none"
  BY NoUploadType
<1>2. FwTypeOK /\ flash' = [p \in Pages |-> flash'[p]] /\ overran' \in BOOLEAN
  BY DEF FwInv, FwTypeOK
<1>3. FwTypeOK' /\ upload'[w] = NoUpload /\ \A v \in Uploaders : v # w => upload'[v] = upload[v]
  BY <1>1, <1>2, SetTypes
<1>4. w \notin Active'
  BY <1>1, <1>3 DEF Active
<1> QED
  BY <1>3, <1>4, QuietStep

(* A stream ends, its file having come or, for short, not. *)
LEMMA AnsweredFw ==
  ASSUME FwInv, NEW w \in Uploaders, upload[w].at = "stream",
         Set(w, [upload[w] EXCEPT !.at = "answer"]),
         flash' = flash, running' = running, remapped' = remapped, overran' = overran,
         booted' = booted, mixed' = mixed, strayed' = strayed,
         w \in short' \/ Complete(w),
         \A v \in Uploaders : v # w => (v \in short' <=> v \in short)
  PROVE  FwInv'
<1> DEFINE u == [upload[w] EXCEPT !.at = "answer"]
<1>1. upload[w] \in UploadState /\ Fits(upload[w].image) /\ upload[w].next <= Len(upload[w].image.pages)
  BY DEF FwInv, FwTypeOK
<1>2. /\ u \in UploadState /\ u.at = "answer" /\ u.image = upload[w].image /\ u.next = upload[w].next
      /\ u.highest = upload[w].highest /\ u.erased = upload[w].erased
  BY <1>1 DEF UploadState
<1>3. Set(w, u)
  OBVIOUS
<1> HIDE DEF u
<1>4. FwTypeOK /\ flash' = [p \in Pages |-> flash'[p]] /\ overran' \in BOOLEAN
  BY DEF FwInv, FwTypeOK
<1>5. FwTypeOK' /\ upload'[w] = u /\ \A v \in Uploaders : v # w => upload'[v] = upload[v]
  BY <1>1, <1>2, <1>3, <1>4, SetTypes
<1>6. ASSUME w \notin mixed' \cup strayed' PROVE Streamed(w)'
  <2>1. Streamed(w)
    BY <1>6 DEF FwInv, Active
  <2> QED
    BY <2>1, <1>2, <1>5, StreamKept
<1> QED
  BY <1>5, <1>6, QuietStep

LEMMA RebootFw ==
  ASSUME FwInv, NEW w \in Uploaders, RebootIntoNewSlot(w)
  PROVE  FwInv'
<1>1. /\ running \in {0, SLOT_B} /\ remapped \in BOOLEAN /\ upload[w].at = "answer"
      /\ Fits(upload[w].image)
  BY DEF FwInv, FwTypeOK, RebootIntoNewSlot
<1>2. running' \in {0, SLOT_B} /\ running' = ota_target_slot
  BY <1>1, SlotSectors DEF RebootIntoNewSlot
<1>3. NoUpload \in UploadState /\ NoUpload.at = "none"
  BY NoUploadType
<1>11. remapped' \in BOOLEAN /\ overran' \in BOOLEAN
  BY <1>1 DEF RebootIntoNewSlot
<1>4. FwTypeOK'
  BY <1>2, <1>3, <1>11 DEF RebootIntoNewSlot, FwTypeOK, AfterBoot
<1>5. Active' = {}
  BY <1>3 DEF RebootIntoNewSlot, Active
<1>6. \A p \in SlotPages(ota_target_slot) : p \in Pages
  BY <1>2, FlashAssumption DEF SlotPages, Pages
<1>7. \A p \in SlotPages(running') : flash'[p] = RUNNING
  BY <1>2, <1>6 DEF RebootIntoNewSlot, AfterBoot
<1>8. ASSUME w \notin mixed \cup short \cup strayed PROVE WholeIn(w)
  <2>1. Streamed(w) /\ Complete(w)
    BY <1>1, <1>8 DEF FwInv, Active, Streamed
  <2>2. upload[w].image.pages \in Seq(Nat)
    BY <1>1, ImagesAssumption DEF Fits
  <2> QED
    BY <2>1, <2>2 DEF WholeIn, Streamed, Complete
<1>9. booted'.whole = WholeIn(w) /\ booted'.excused = (w \in mixed \cup short \cup strayed)
  BY DEF RebootIntoNewSlot
<1>10. booted'.whole \/ booted'.excused
  BY <1>8, <1>9
<1> QED
  BY <1>4, <1>5, <1>7, <1>10 DEF FwInv, BootsWhole, RunningSlotKept

LEMMA EraseFw ==
  ASSUME FwInv, NEW w \in Uploaders, PreErase(w)
  PROVE  FwInv'
<1> DEFINE i == upload[w].image
           area == ota_target_slot .. ota_target_slot + Area(i) - 1
           u == [upload[w] EXCEPT !.at = "stream", !.erased = {p \div SECTOR : p \in area}]
<1>1. /\ FwTypeOK /\ running \in {0, SLOT_B} /\ running' = running /\ booted' = booted
      /\ remapped \in BOOLEAN /\ remapped' = remapped /\ overran' = overran /\ overran' \in BOOLEAN
      /\ upload[w] \in UploadState /\ upload[w].at = "erase" /\ Touch(w)
      /\ Fits(i) /\ upload[w].next <= Len(i.pages) /\ upload[w].next = 0
  BY DEF FwInv, FwTypeOK, PreErase
<1>2. /\ Area(i) \in Nat /\ Area(i) <= max_size /\ ota_target_slot \in Nat /\ max_size \in Nat
      /\ SECTOR \in Nat \ {0} /\ PROTECTED \in Nat
  BY <1>1, AreaFits, SlotSectors, FlashAssumption
<1>3. Set(w, u) /\ flash' = Erased(flash, area)
  BY DEF PreErase, Area
<1>4. u \in UploadState /\ u.at = "stream" /\ u.image = i /\ u.next = upload[w].next
      /\ u.erased = {p \div SECTOR : p \in area}
  <2>1. \A p \in area : p \div SECTOR \in Int
    BY <1>2
  <2> HIDE DEF area
  <2>2. {p \div SECTOR : p \in area} \in SUBSET Int
    BY <2>1
  <2> QED
    BY <1>1, <2>2 DEF UploadState
<1> HIDE DEF u
<1>5. flash' = [p \in Pages |-> flash'[p]]
  BY <1>3 DEF Erased
<1>6. /\ FwTypeOK' /\ upload'[w] = u /\ \A v \in Uploaders : v # w => upload'[v] = upload[v]
      /\ ota_target_slot' = ota_target_slot
  BY <1>1, <1>3, <1>4, <1>5, SetTypes
<1>7. \A p \in Pages : p \in area => flash'[p] = ERASED
  BY <1>3 DEF Erased
<1>8. \A p \in Pages : p \notin area => flash'[p] = flash[p]
  BY <1>3 DEF Erased
<1>9. ~remapped => \A p \in SlotPages(running) : flash'[p] = flash[p]
  <2> SUFFICES ASSUME ~remapped, NEW p \in SlotPages(running) PROVE flash'[p] = flash[p]
    OBVIOUS
  <2>1. p \in Pages
    BY <1>1, FlashAssumption DEF SlotPages, Pages
  <2>2. p \notin area
    BY <1>1, <1>2, RunningSlotSpared
  <2> HIDE DEF area
  <2> QED
    BY <2>1, <2>2, <1>8
<1>10. Streamed(w)'
  <2>1. Area(upload[w].image)' = Area(i)
    BY <1>4, <1>6 DEF Area, num_sectors, content_length
  <2>2. ASSUME NEW p \in Pages, p \div SECTOR \in u.erased PROVE flash'[p] = ERASED
    <3>1. PICK r \in area : p \div SECTOR = r \div SECTOR
      BY <1>4, <2>2
    <3>2. p \in Nat
      BY DEF Pages
    <3>3. p \in area
      BY <1>1, <3>1, <3>2, AreaSectors
    <3> HIDE DEF area
    <3> QED
      BY <3>3, <1>7
  <2>3. ASSUME NEW q \in 0 .. Area(i) - 1 PROVE (ota_target_slot + q) \div SECTOR \in u.erased
    <3>1. ota_target_slot + q \in area
      BY <1>2
    <3> HIDE DEF area
    <3> QED
      BY <3>1, <1>4
  <2>4. upload'[w] = u /\ u.next = 0 /\ u.at = "stream" /\ u.image = i
    BY <1>1, <1>4, <1>6
  <2>5. Pages' = Pages
    BY DEF Pages
  <2> HIDE DEF i, area
  <2> QED
    BY <2>1, <2>2, <2>3, <2>4, <2>5, <1>6 DEF Streamed
<1> QED
  BY <1>1, <1>6, <1>9, <1>10, FlashStep

LEMMA SectorFw ==
  ASSUME FwInv, NEW w \in Uploaders, WriteSector(w)
  PROVE  FwInv'
<1> DEFINE i == upload[w].image
           from == upload[w].next
           to == IF from + SECTOR < Len(i.pages) THEN from + SECTOR ELSE Len(i.pages)
           u == [upload[w] EXCEPT !.next = to]
           base == ota_target_slot
<1>1. /\ FwTypeOK /\ running \in {0, SLOT_B} /\ running' = running /\ booted' = booted
      /\ remapped \in BOOLEAN /\ remapped' = remapped /\ overran' = overran /\ overran' \in BOOLEAN
      /\ upload[w] \in UploadState /\ upload[w].at = "stream" /\ Touch(w)
      /\ Fits(i) /\ from <= Len(i.pages) /\ i.format = "raw" /\ from < to
      /\ strayed' = strayed
  BY DEF FwInv, FwTypeOK, WriteSector
<1>2. /\ Set(w, u)
      /\ flash' = [p \in Pages |-> IF p \in base + from .. base + to - 1
                                  THEN Programmed(flash[p], Data(w, p - base)) ELSE flash[p]]
  BY DEF WriteSector
<1>3. /\ Area(i) \in Nat /\ Area(i) <= max_size /\ base \in Nat /\ max_size \in Nat
      /\ Len(i.pages) \in Nat /\ Len(i.pages) <= Area(i)
      /\ \A q \in 0 .. max_size - 1 : base + q \in Pages
  BY <1>1, AreaFits, SlotSectors
<1>4. from \in Nat /\ to \in Nat /\ to <= Len(i.pages)
  BY <1>1, <1>3, FlashAssumption, SMTT(40) DEF UploadState
<1>5. /\ u \in UploadState /\ u.at = "stream" /\ u.image = i /\ u.next = to
      /\ u.highest = upload[w].highest /\ u.erased = upload[w].erased
  BY <1>1, <1>4 DEF UploadState
<1> HIDE DEF u, to
<1>6. flash' = [p \in Pages |-> flash'[p]]
  BY <1>2
<1>7. /\ FwTypeOK' /\ upload'[w] = u /\ \A v \in Uploaders : v # w => upload'[v] = upload[v]
      /\ ota_target_slot' = base
  BY <1>1, <1>2, <1>4, <1>5, <1>6, SetTypes
<1> HIDE DEF i, from
<1>8. ~remapped => \A p \in SlotPages(running) : flash'[p] = flash[p]
  <2> SUFFICES ASSUME ~remapped, NEW p \in SlotPages(running) PROVE flash'[p] = flash[p]
    OBVIOUS
  <2>1. p \in Pages /\ p \in Int
    BY <1>1, FlashAssumption DEF SlotPages, Pages
  <2>2. p \notin base .. base + Area(i) - 1
    BY <1>1, <1>3, RunningSlotSpared
  <2> HIDE DEF base
  <2>3. p \notin base + from .. base + to - 1
    BY <2>1, <2>2, <1>3, <1>4
  <2> QED
    BY <2>1, <2>3, <1>2
<1>9. ASSUME w \notin mixed' \cup strayed' PROVE Streamed(w)'
  <2>1. Streamed(w)
    <3>1. w \in Active /\ w \notin mixed \cup strayed
      BY <1>1, <1>9 DEF Active, Touch
    <3> QED
      BY <3>1 DEF FwInv
  <2>2. /\ \A p \in Pages : p \div SECTOR \in upload[w].erased =>
             flash[p] \in {ERASED, Data(w, p - base)}
        /\ \A q \in 0 .. Area(i) - 1 : (base + q) \div SECTOR \in upload[w].erased
        /\ \A k \in 1 .. from : flash[base + (k - 1)] = Data(w, k - 1)
    BY <2>1, <1>1 DEF Streamed, Place, i, from
  <2> HIDE DEF base
  <2>3. ASSUME NEW p \in Pages, p \div SECTOR \in upload[w].erased
        PROVE  flash'[p] \in {ERASED, Data(w, p - base)}
    BY <2>2, <2>3, <1>2 DEF Programmed
  <2>4. ASSUME NEW k \in 1 .. to
        PROVE  base + (k - 1) \in Pages /\ flash'[base + (k - 1)] = Data(w, k - 1)
    <3> DEFINE q == k - 1
    <3>1. q \in 0 .. to - 1 /\ q \in 0 .. Area(i) - 1 /\ q \in 0 .. max_size - 1
          /\ (base + q) - base = q
      BY <1>3, <1>4
    <3> HIDE DEF q
    <3>2. base + q \in Pages
      BY <3>1, <1>3
    <3>3. flash[base + q] \in {ERASED, Data(w, q)}
      <4>1. (base + q) \div SECTOR \in upload[w].erased
        BY <3>1, <2>2
      <4>2. flash[base + q] \in {ERASED, Data(w, (base + q) - base)}
        BY <4>1, <3>2, <2>2
      <4> QED
        BY <4>2, <3>1
    <3>4. CASE q \in from .. to - 1
      <4>1. flash'[base + q] = Programmed(flash[base + q], Data(w, (base + q) - base))
        BY <3>1, <3>2, <3>4, <1>2, <1>3, <1>4
      <4> QED
        BY <4>1, <3>1, <3>2, <3>3 DEF Programmed, q
    <3>5. CASE q \notin from .. to - 1
      <4>1. flash'[base + q] = flash[base + q]
        BY <3>1, <3>2, <3>5, <1>2, <1>3, <1>4
      <4>2. k \in 1 .. from
        BY <3>1, <3>5, <1>4 DEF q
      <4> QED
        BY <4>1, <4>2, <2>2, <3>2 DEF q
    <3> QED
      BY <3>4, <3>5
  <2>5. /\ upload'[w].image = i /\ upload'[w].next = to /\ upload'[w].at = "stream"
        /\ upload'[w].erased = upload[w].erased
        /\ \A q : Data(w, q)' = Data(w, q)
    BY <1>5, <1>7 DEF Data, i
  <2>6. Area(upload[w].image)' = Area(i)
    BY <2>5 DEF Area, num_sectors, content_length
  <2>7. Pages' = Pages /\ ota_target_slot' = base
    BY <1>7 DEF Pages
  <2> QED
    BY <2>2, <2>3, <2>4, <2>5, <2>6, <2>7, <1>1 DEF Streamed, Place
<1> QED
  BY <1>1, <1>7, <1>8, <1>9, FlashStep DEF base, i

LEMMA BlockFw ==
  ASSUME FwInv, NEW w \in Uploaders, WriteBlock(w)
  PROVE  FwInv'
<1> DEFINE i == upload[w].image
           n == upload[w].next
           h == upload[w].highest
           E == upload[w].erased
           base == ota_target_slot
           q == i.pages[n + 1]
           a == base + q
           s == a \div SECTOR
           sector == s * SECTOR .. (s + 1) * SECTOR - 1
           erases == sector_num_erases(s, h)
           u == [upload[w] EXCEPT !.next = @ + 1, !.highest = IF erases THEN s ELSE @,
                                  !.erased = IF erases THEN @ \cup {s} ELSE @]
           Old(p) == IF erases /\ p \in sector THEN ERASED ELSE flash[p]
<1>1. /\ FwTypeOK /\ running \in {0, SLOT_B} /\ running' = running /\ booted' = booted
      /\ remapped \in BOOLEAN /\ remapped' = remapped
      /\ upload[w] \in UploadState /\ upload[w].at = "stream" /\ Touch(w)
      /\ Fits(i) /\ n < Len(i.pages) /\ i.format = "uf2" /\ n \in Nat /\ h \in Int
      /\ E \in SUBSET Int /\ flash = [p \in Pages |-> flash[p]]
  BY SMTT(40) DEF FwInv, FwTypeOK, WriteBlock, UploadState
<1>2. /\ Set(w, u) /\ a + 1 <= PROTECTED
      /\ flash' = Written(IF erases THEN Erased(flash, sector) ELSE flash, a, Data(w, q))
      /\ strayed' = IF erases \/ s \in E THEN strayed ELSE strayed \cup {w}
  BY Zenon DEF WriteBlock, NextPlace
<1>3. overran' \in BOOLEAN /\ (overran' <=> overran \/ q >= max_size)
  BY DEF WriteBlock, NextPlace
<1>4. /\ i.pages \in Seq(Nat) /\ Len(i.pages) \in Nat /\ base \in Nat /\ max_size \in Nat
      /\ SECTOR \in Nat \ {0} /\ PROTECTED \in Nat
  BY <1>1, AreaFits, SlotSectors, FlashAssumption
<1>5. q \in Nat /\ a \in Nat /\ a \in Pages /\ a - base = q
  <2>1. n + 1 \in 1 .. Len(i.pages)
    BY <1>1, <1>4
  <2>2. q \in Nat
    BY <2>1, <1>4
  <2> HIDE DEF q
  <2> QED
    BY <2>2, <1>2, <1>4 DEF Pages
<1>6. s \in Nat /\ \A p \in Nat : p \div SECTOR = s <=> p \in sector
  <2>1. s \in Nat /\ \A p \in sector : p \div SECTOR = s
    BY <1>4, <1>5, SectorOf
  <2>2. ASSUME NEW p \in Nat, p \div SECTOR = s PROVE p \in sector
    <3>1. (p \div SECTOR) * SECTOR <= p /\ p < ((p \div SECTOR) + 1) * SECTOR
      BY <1>4, SectorOf
    <3> HIDE DEF s
    <3>2. s * SECTOR <= p /\ p < (s + 1) * SECTOR
      BY <3>1, <2>2
    <3>3. s * SECTOR \in Int /\ (s + 1) * SECTOR \in Int
      BY <2>1, <1>4
    <3> QED
      BY <3>2, <3>3
  <2> QED
    BY <2>1, <2>2
<1>7. erases \in BOOLEAN /\ (erases <=> s > h)
  BY DEF sector_num_erases
<1>8. /\ u \in UploadState /\ u.at = "stream" /\ u.image = i /\ u.next = n + 1
      /\ u.highest = (IF erases THEN s ELSE h) /\ u.erased = (IF erases THEN E \cup {s} ELSE E)
  <2> HIDE DEF erases, s
  <2>1. /\ (IF erases THEN s ELSE h) \in Int /\ n + 1 \in Nat
        /\ (IF erases THEN E \cup {s} ELSE E) \in SUBSET Int
    BY <1>1, <1>6
  <2>2. u = [upload[w] EXCEPT !.next = n + 1, !.highest = IF erases THEN s ELSE h,
                              !.erased = IF erases THEN E \cup {s} ELSE E]
    BY <1>1 DEF UploadState
  <2> HIDE DEF u
  <2> QED
    BY <2>1, <2>2, <1>1 DEF UploadState
<1> HIDE DEF u
<1>9. /\ flash' = [p \in Pages |-> flash'[p]]
      /\ \A p \in Pages : flash'[p] = IF p = a THEN Programmed(Old(p), Data(w, q)) ELSE Old(p)
  <2> DEFINE f == IF erases THEN Erased(flash, sector) ELSE flash
  <2>1. f = [p \in Pages |-> Old(p)]
    <3> HIDE DEF erases, sector
    <3> QED
      BY <1>1, SMTT(40) DEF Erased
  <2>2. flash' = [f EXCEPT ![a] = Programmed(f[a], Data(w, q))]
    BY <1>2, Zenon DEF Written
  <2> HIDE DEF f, a, q, Old
  <2> QED
    BY <2>1, <2>2
<1>10. /\ FwTypeOK' /\ upload'[w] = u /\ \A v \in Uploaders : v # w => upload'[v] = upload[v]
       /\ ota_target_slot' = base
  <2>1. u.next <= Len(u.image.pages)
    <3> HIDE DEF i, n, erases, s
    <3> QED
      BY <1>8, <1>1, <1>4
  <2> QED
    BY <2>1, <1>1, <1>2, <1>3, <1>8, <1>9, SetTypes, Zenon
<1> HIDE DEF i, n, h, E, q, s, erases
<1>11. ASSUME ~remapped, ~overran', NEW p \in SlotPages(running) PROVE flash'[p] = flash[p]
  <2>1. p \in Pages /\ p \in Nat
    BY <1>1, FlashAssumption DEF SlotPages, Pages
  <2>2. p \notin base .. base + max_size - 1
    BY <1>1, <1>4, <1>11, RunningSlotSpared
  <2>3. a < base + max_size /\ base <= a
    BY <1>3, <1>4, <1>5, <1>11
  <2>4. base <= s * SECTOR /\ (s + 1) * SECTOR <= base + max_size
    <3>1. PICK b \in Nat : base = b * SECTOR
      BY <1>1, SlotSectors
    <3>2. PICK c \in Nat : max_size = c * SECTOR
      BY <1>1, SlotSectors
    <3>3. base + max_size = (b + c) * SECTOR /\ b + c \in Nat
      BY <3>1, <3>2, <1>4
    <3> HIDE DEF a, base
    <3>4. b * SECTOR <= a /\ a < (b + c) * SECTOR
      BY <2>3, <3>1, <3>3
    <3>5. /\ \A m \in Nat : m * SECTOR <= a => m * SECTOR <= s * SECTOR
          /\ \A m \in Nat : a < m * SECTOR => (s + 1) * SECTOR <= m * SECTOR
      BY <1>4, <1>5, SectorOf DEF s
    <3>6. b * SECTOR <= s * SECTOR
      BY <3>1, <3>4, <3>5
    <3>7. (s + 1) * SECTOR <= (b + c) * SECTOR
      BY <3>3, <3>4, <3>5
    <3> QED
      BY <3>1, <3>3, <3>6, <3>7
  <2> HIDE DEF a, base
  <2>5. s * SECTOR \in Int /\ (s + 1) * SECTOR \in Int
    BY <1>4, <1>6
  <2>6. p # a /\ p \notin sector
    BY <2>1, <2>2, <2>3, <2>4, <2>5, <1>4, <1>5
  <2> HIDE DEF sector
  <2> QED
    BY <2>1, <2>6, <1>9
<1> HIDE DEF sector, base, a
<1>12. ASSUME w \notin mixed' \cup strayed' PROVE Streamed(w)'
  <2>1. erases \/ s \in E
    BY <1>2, <1>12
  <2>2. Streamed(w)
    <3>1. w \in Active /\ w \notin mixed \cup strayed
      BY <1>1, <1>2, <1>12 DEF Active, Touch
    <3> QED
      BY <3>1 DEF FwInv
  <2>3. /\ \A p \in Pages : p \div SECTOR \in E => flash[p] \in {ERASED, Data(w, p - base)}
        /\ \A k \in 1 .. n : /\ base + i.pages[k] \in Pages
                            /\ flash[base + i.pages[k]] = Data(w, i.pages[k])
                            /\ (base + i.pages[k]) \div SECTOR <= h
    BY <2>2, <1>1 DEF Streamed, Place, base, i, n, h, E
  <2>4. ASSUME NEW p \in Pages, p \div SECTOR \in u.erased
        PROVE  Old(p) \in {ERASED, Data(w, p - base)}
    <3>1. p \in Nat
      BY DEF Pages
    <3>2. CASE p \div SECTOR \in E
      BY <3>2, <2>3
    <3>3. CASE p \div SECTOR \notin E
      <4>1. erases /\ p \div SECTOR = s
        BY <3>3, <2>4, <1>8
      <4> QED
        BY <4>1, <3>1, <1>6
    <3> QED
      BY <3>2, <3>3
  <2>5. flash'[a] = Data(w, q)
    <3>1. a \div SECTOR \in u.erased
      BY <2>1, <1>8 DEF s
    <3>2. Old(a) \in {ERASED, Data(w, q)}
      BY <3>1, <2>4, <1>5
    <3> HIDE DEF Old
    <3> QED
      BY <3>2, <1>5, <1>9 DEF Programmed
  <2>6. ASSUME NEW p \in Pages, p \div SECTOR \in u.erased
        PROVE  flash'[p] \in {ERASED, Data(w, p - base)}
    <3>1. CASE p = a
      BY <3>1, <2>5, <1>5
    <3>2. CASE p # a
      <4> HIDE DEF Old
      <4> QED
        BY <3>2, <2>4, <2>6, <1>9
    <3> QED
      BY <3>1, <3>2
  <2>7. ASSUME NEW k \in 1 .. n + 1
        PROVE  /\ base + i.pages[k] \in Pages
               /\ flash'[base + i.pages[k]] = Data(w, i.pages[k])
               /\ (base + i.pages[k]) \div SECTOR <= u.highest
    <3>1. k \in 1 .. Len(i.pages) /\ i.pages[k] \in Nat
      <4>1. k \in 1 .. Len(i.pages)
        BY <1>1, <1>4
      <4> QED
        BY <4>1, <1>4
    <3> DEFINE r == base + i.pages[k]
    <3>2. r \in Nat /\ r \div SECTOR \in Int
      BY <3>1, <1>4
    <3>3. CASE r = a
      <4>1. i.pages[k] = q
        BY <3>3, <3>1, <1>4, <1>5 DEF a
      <4>2. s <= u.highest
        BY <1>1, <1>6, <1>7, <1>8
      <4>3. a \div SECTOR = s
        BY DEF s
      <4> HIDE DEF r
      <4> QED
        BY <4>1, <4>2, <4>3, <3>3, <2>5, <1>5 DEF r
    <3>4. CASE r # a
      <4>1. k \in 1 .. n
        <5>1. k # n + 1
          BY <3>4 DEF a, q
        <5> QED
          BY <5>1, <1>1
      <4>2. r \in Pages /\ flash[r] = Data(w, i.pages[k]) /\ r \div SECTOR <= h
        BY <4>1, <2>3
      <4> HIDE DEF r
      <4>3. r \div SECTOR <= u.highest
        BY <4>2, <3>2, <1>1, <1>6, <1>7, <1>8
      <4>4. ~(erases /\ r \in sector)
        BY <4>2, <3>2, <1>1, <1>6, <1>7
      <4>5. flash'[r] = flash[r]
        BY <4>2, <4>4, <3>4, <1>9
      <4> QED
        BY <4>2, <4>3, <4>5 DEF r
    <3> QED
      BY <3>3, <3>4
  <2>8. /\ upload'[w].image = i /\ upload'[w].next = n + 1 /\ upload'[w].at = "stream"
        /\ upload'[w].highest = u.highest /\ upload'[w].erased = u.erased
        /\ Pages' = Pages /\ ota_target_slot' = base
        /\ \A x : Data(w, x)' = Data(w, x)
    BY <1>8, <1>10 DEF Data, Pages, i
  <2> HIDE DEF Old
  <2> QED
    BY <2>6, <2>7, <2>8, <1>1 DEF Streamed, Place
<1>13. overran => overran'
  BY <1>3
<1> QED
  BY <1>1, <1>10, <1>11, <1>12, <1>13, FlashStep

LEMMA FwStep == FwInv /\ [FirmwareNext]_firmwareVars => FwInv'
<1> SUFFICES ASSUME FwInv, [FirmwareNext]_firmwareVars PROVE FwInv'
  OBVIOUS
<1>1. CASE UNCHANGED firmwareVars
  <2>1. /\ flash' = flash /\ running' = running /\ upload' = upload /\ mixed' = mixed
        /\ short' = short /\ booted' = booted /\ remapped' = remapped /\ strayed' = strayed
        /\ overran' = overran
    BY <1>1 DEF firmwareVars
  <2>2. FwTypeOK'
    BY <2>1 DEF FwInv, FwTypeOK, Fits, max_size, ota_target_slot, pc
  <2>3. BootsWhole'
    BY <2>1 DEF FwInv, BootsWhole, RunningSlotKept
  <2>4. ASSUME NEW v \in Active', v \notin mixed' \cup strayed' PROVE Streamed(v)'
    <3>1. v \in Uploaders /\ Streamed(v)
      BY <2>1, <2>4 DEF FwInv, Active
    <3> QED
      BY <2>1, <3>1, StreamKept DEF Streamed
  <2> QED
    BY <2>2, <2>3, <2>4 DEF FwInv
<1>2. ASSUME NEW w \in Uploaders, StartUpload(w) PROVE FwInv'
  BY <1>2, StartFw
<1>3. ASSUME NEW w \in Uploaders, PreErase(w) PROVE FwInv'
  BY <1>3, EraseFw
<1>4. ASSUME NEW w \in Uploaders, WriteSector(w) PROVE FwInv'
  BY <1>4, SectorFw
<1>5. ASSUME NEW w \in Uploaders, WriteBlock(w) PROVE FwInv'
  BY <1>5, BlockFw
<1>6. ASSUME NEW w \in Uploaders, Finish(w) PROVE FwInv'
  BY <1>6, AnsweredFw DEF Finish
<1>7. ASSUME NEW w \in Uploaders, Close(w) PROVE FwInv'
  <2>1. CASE short' = short \cup {w} /\ Set(w, [upload[w] EXCEPT !.at = "answer"])
    BY <1>7, <2>1, AnsweredFw DEF Close
  <2>2. CASE Set(w, NoUpload) /\ UNCHANGED short
    BY <1>7, <2>2, EndedFw DEF Close
  <2> QED
    BY <1>7, <2>1, <2>2 DEF Close
<1>8. ASSUME NEW w \in Uploaders, Fail(w) PROVE FwInv'
  BY <1>8, EndedFw DEF Fail
<1>9. ASSUME NEW w \in Uploaders, RebootIntoNewSlot(w) PROVE FwInv'
  BY <1>9, RebootFw
<1> QED
  BY <1>1, <1>2, <1>3, <1>4, <1>5, <1>6, <1>7, <1>8, <1>9 DEF FirmwareNext

(* However uploads overlap, fail and end early, wherever the blocks of a   *)
(* UF2 file belong and in whatever order they come, the device restarts    *)
(* only into a slot that holds one whole image, unless uploads overlapped, *)
(* a UF2 file was cut, or a block fell back into a sector nobody had       *)
(* erased; and the slot it runs from is never touched if the boot ROM      *)
(* starts it in place and no block lies beyond its slot (ota.rs:84-298,    *)
(* main.rs:326, platform.rs:53-64).                                        *)
THEOREM UpdateBootsWhole == FirmwareSpec => []BootsWhole
<1>1. FwInv => BootsWhole
  BY DEF FwInv
<1> QED
  BY <1>1, FwInitInv, FwStep, PTL DEF FirmwareSpec
=============================================================================
