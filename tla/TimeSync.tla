------------------------------ MODULE TimeSync ------------------------------
(***************************************************************************)
(* The time client: each cycle resolves the server's name, opens a socket  *)
(* and asks up to three times; the answer's time is stored, and the next   *)
(* cycle begins an hour later.  Answers may be lost, repeated or late.     *)
(*                                                                         *)
(*   ntp_task, sync_once    firmware/src/ntp.rs                            *)
(*   resolve                firmware/src/dns.rs                            *)
(*   ntp_to_unix_epoch      bridge-core/src/ntp.rs                         *)
(*                                                                         *)
(* Seconds are counted on the server's clock, from a day within Unix time; *)
(* an NTP time is the count since 1900, Era seconds long.  A packet is     *)
(* [port, time, stratum]; Ntp models its bytes.                            *)
(***************************************************************************)
EXTENDS Integers, FiniteSets

CONSTANTS
  DnsAttempts, DnsTimeout,     \* 3 of 3 s
  MaxAttempts, AttemptTimeout, \* 3 of 2 s
  Interval,                    \* SYNC_INTERVAL_SECS
  Offset, Era,                 \* NTP_UNIX_OFFSET, 2^32
  StartTime, MaxTime,          \* bound: the time the model looks at
  MaxFlight                    \* bound: answers on their way

ASSUME TimesAssumption ==
  /\ {DnsAttempts, DnsTimeout, MaxAttempts, AttemptTimeout, Interval} \subseteq Nat \ {0}
  /\ {Offset, Era, StartTime, MaxTime, MaxFlight} \subseteq Nat
  /\ Offset < Era /\ 0 < StartTime /\ StartTime <= MaxTime

VARIABLES
  now,      \* the true Unix time
  phase,    \* "resolve", "send", "wait" or "sleep"
  attempt,  \* tries of the loop the client is in
  waited,   \* seconds since this wait began
  cycle,    \* cycles begun
  rx,       \* the socket's buffer, which holds one packet
  asked,    \* ports with a request on its way or at the server
  replies,  \* answers on their way
  UNIX_EPOCH_SECS,
  storedAt  \* history: when it was stored

timeVars == <<now, phase, attempt, waited, cycle, rx, asked, replies, UNIX_EPOCH_SECS, storedAt>>

TimeInit ==
  /\ now = StartTime /\ phase = "resolve" /\ attempt = 0 /\ waited = 0 /\ cycle = 1
  /\ rx = {} /\ asked = {} /\ replies = {}
  /\ UNIX_EPOCH_SECS = 0 /\ storedAt = 0

(* Mutant: every cycle uses the same port. *)
LocalPort_same == 1

(* Each cycle's socket gets a port of its own. *)
LocalPort == cycle

NtpTime(t) == (t + Offset) % Era

(* checked_sub: a time before 1970, or after the end of the era, is none.  *)
ntp_to_unix_epoch(n) == IF n >= Offset THEN {n - Offset} ELSE {}

Enter(p) == phase' = p /\ attempt' = 0 /\ waited' = 0

Sleep == Enter("sleep") /\ rx' = {}

-----------------------------------------------------------------------------
Deadline ==
  CASE phase = "resolve" -> DnsTimeout [] phase = "wait" -> AttemptTimeout
    [] phase = "sleep" -> Interval [] phase = "send" -> 0

(* Timers fire when they are due. *)
Tick ==
  /\ now < MaxTime /\ waited < Deadline
  /\ now' = now + 1 /\ waited' = waited + 1
  /\ UNCHANGED <<phase, attempt, cycle, rx, asked, replies, UNIX_EPOCH_SECS, storedAt>>

(* resolve: an address, or after the last failure or timeout the fallback. *)
Resolved ==
  /\ phase = "resolve"
  /\ Enter("send")
  /\ UNCHANGED <<now, cycle, rx, asked, replies, UNIX_EPOCH_SECS, storedAt>>

ResolveFails ==
  /\ phase = "resolve"
  /\ \/ attempt + 1 < DnsAttempts /\ attempt' = attempt + 1 /\ waited' = 0 /\ UNCHANGED phase
     \/ attempt + 1 = DnsAttempts /\ Enter("send")
  /\ UNCHANGED <<now, cycle, rx, asked, replies, UNIX_EPOCH_SECS, storedAt>>

(* No socket: the cycle ends. *)
BindFails ==
  /\ phase = "send" /\ attempt = 0
  /\ Sleep
  /\ UNCHANGED <<now, cycle, asked, replies, UNIX_EPOCH_SECS, storedAt>>

Send ==
  /\ phase = "send" /\ attempt < MaxAttempts
  /\ asked' = asked \cup {LocalPort}
  /\ phase' = "wait" /\ waited' = 0
  /\ UNCHANGED <<now, attempt, cycle, rx, replies, UNIX_EPOCH_SECS, storedAt>>

NextAttempt ==
  /\ phase' = "send" /\ attempt' = attempt + 1 /\ waited' = 0

SendFails ==
  /\ phase = "send" /\ attempt < MaxAttempts
  /\ NextAttempt
  /\ UNCHANGED <<now, cycle, rx, asked, replies, UNIX_EPOCH_SECS, storedAt>>

GiveUp ==
  /\ phase = "send" /\ attempt = MaxAttempts
  /\ Sleep
  /\ UNCHANGED <<now, cycle, asked, replies, UNIX_EPOCH_SECS, storedAt>>

Usable(p) == IF p.stratum = 0 THEN {} ELSE ntp_to_unix_epoch(p.time)

(* recv_from: any packet to this port is taken for the answer. *)
Receive ==
  /\ phase = "wait"
  /\ \E p \in rx :
       \/ /\ Usable(p) = {}
          /\ NextAttempt /\ rx' = {}
          /\ UNCHANGED <<UNIX_EPOCH_SECS, storedAt>>
       \/ /\ Usable(p) # {}
          /\ UNIX_EPOCH_SECS' \in Usable(p) /\ storedAt' = now
          /\ Sleep
  /\ UNCHANGED <<now, cycle, asked, replies>>

Timeout ==
  /\ phase = "wait" /\ waited = AttemptTimeout /\ rx = {}
  /\ NextAttempt
  /\ UNCHANGED <<now, cycle, rx, asked, replies, UNIX_EPOCH_SECS, storedAt>>

NextCycle ==
  /\ phase = "sleep" /\ waited = Interval
  /\ Enter("resolve") /\ cycle' = cycle + 1
  /\ UNCHANGED <<now, rx, asked, replies, UNIX_EPOCH_SECS, storedAt>>

-----------------------------------------------------------------------------
(* External: the server replies, perhaps more than once, perhaps refusing; *)
(* an answer arrives while the port is open and there is room, or is lost. *)
ServerAnswers ==
  \E port \in asked, stratum \in {0, 1} :
    /\ Cardinality(replies) < MaxFlight
    /\ replies' = replies \cup {[port |-> port, time |-> NtpTime(now), stratum |-> stratum]}
    /\ UNCHANGED <<now, phase, attempt, waited, cycle, rx, asked, UNIX_EPOCH_SECS, storedAt>>

Arrive ==
  \E p \in replies :
    /\ replies' = replies \ {p}
    /\ rx' = IF phase \in {"send", "wait"} /\ p.port = LocalPort /\ rx = {} THEN {p} ELSE rx
    /\ UNCHANGED <<now, phase, attempt, waited, cycle, asked, UNIX_EPOCH_SECS, storedAt>>

TimeNext ==
  \/ Tick \/ Resolved \/ ResolveFails \/ BindFails \/ Send \/ SendFails \/ GiveUp
  \/ Receive \/ Timeout \/ NextCycle \/ ServerAnswers \/ Arrive

TimeSpec == TimeInit /\ [][TimeNext]_timeVars

-----------------------------------------------------------------------------
(* Whatever was lost, repeated or late, a time that is stored was the      *)
(* server's at most one cycle's attempts before, never that of an earlier  *)
(* cycle, of a refused request or of another era (ntp.rs:127-198,          *)
(* core ntp.rs:107-180).                                                   *)
TimeIsFresh ==
  storedAt # 0 => storedAt - UNIX_EPOCH_SECS \in 0 .. MaxAttempts * AttemptTimeout
=============================================================================
