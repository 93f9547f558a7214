-------------------------------- MODULE Locks --------------------------------
(***************************************************************************)
(* The firmware's asynchronous mutexes, and the order in which tasks and   *)
(* request handlers take them.  One that waits for a mutex, the network or *)
(* a timer lets the others run and keeps what it holds.                    *)
(*                                                                         *)
(* A program is one pass of a task or a handler: it takes and drops        *)
(* mutexes and, at "wait", waits for the network or a timer.  What it does *)
(* in between is the other modules' subject.                               *)
(***************************************************************************)
EXTENDS Naturals, Sequences, FiniteSets

CONSTANT Threads   \* bound: programs running at once

VARIABLES
  program,   \* thread -> what it runs
  done       \* thread -> steps of it that are done

lockVars == <<program, done>>

Take_(m) == <<"lock", m>>
Drop_(m) == <<"unlock", m>>
Wait_ == <<"wait", "">>

(* Taken and dropped with nothing to wait for in between. *)
Use(m) == <<Take_(m), Drop_(m)>>

-----------------------------------------------------------------------------
(* bearer_token_ok: CONFIG is dropped before the sessions are looked at. *)
BearerCheck == Use("CONFIG") \o Use("SESSION_STORE")

GetStatus == Use("BRIDGE_STATE") \o <<Wait_>>

GetDevices == Use("BRIDGE_STATE") \o <<Wait_>>

GetSettings == Use("CONFIG") \o <<Wait_>>

GetUserList == Use("CONFIG") \o <<Wait_>>

GetBulkConfig ==
  <<Take_("BULK_CONFIG_BUF")>> \o Use("CONFIG") \o <<Drop_("BULK_CONFIG_BUF"), Wait_>>

(* The check, the body, the change, the answer. *)
PutOrPost == BearerCheck \o <<Wait_>> \o Use("CONFIG") \o <<Wait_>>

Login == <<Wait_>> \o Use("CONFIG") \o Use("SESSION_STORE") \o <<Wait_>>

Logout == Use("SESSION_STORE") \o <<Wait_>>

Delete == BearerCheck \o Use("CONFIG") \o <<Wait_>>

ResetToFactory == Use("CONFIG") \o <<Wait_, Wait_>>

(* Mutant: the token is checked once the state is held. *)
Refresh_checks_late == <<Take_("BRIDGE_STATE")>> \o BearerCheck \o <<Wait_, Drop_("BRIDGE_STATE")>>

(* The state is held until the answer is sent. *)
Refresh == BearerCheck \o <<Take_("BRIDGE_STATE"), Wait_, Drop_("BRIDGE_STATE")>>

(* Two points: the state is dropped for each write. *)
EventStream == <<Wait_>> \o Use("BRIDGE_STATE") \o <<Wait_>> \o Use("BRIDGE_STATE") \o <<Wait_>>

Upload == Use("FLASH") \o <<Wait_>> \o Use("FLASH") \o <<Wait_>> \o Use("FLASH") \o <<Wait_>>

-----------------------------------------------------------------------------
(* The router: a value or a COV takes both, units and an I-Am the state.   *)
RouterValue == <<Wait_, Take_("CONFIG"), Take_("BRIDGE_STATE"), Drop_("BRIDGE_STATE"), Drop_("CONFIG")>>

RouterState == <<Wait_>> \o Use("BRIDGE_STATE")

(* A pass over one device and one point. *)
MqttPass ==
  Use("CONFIG") \o <<Wait_>> \o Use("BRIDGE_STATE") \o Use("BRIDGE_STATE") \o Use("BRIDGE_STATE")
    \o Use("BRIDGE_STATE") \o <<Wait_>>

SnmpAnswer == <<Wait_>> \o Use("CONFIG") \o Use("BRIDGE_STATE") \o <<Wait_>>

MdnsAnswer == <<Wait_>> \o Use("CONFIG") \o Use("CONFIG") \o <<Wait_>>

(* Core 1 is stopped before the flash is taken. *)
SavePass == <<Wait_>> \o Use("CONFIG") \o Use("FLASH")

SyslogLine == Use("SYSLOG_TARGET") \o Use("CONFIG") \o <<Wait_>>

-----------------------------------------------------------------------------
Handlers ==
  {GetStatus, GetSettings, GetBulkConfig, PutOrPost, Login, Logout, Delete, ResetToFactory,
   Refresh, EventStream, Upload, GetDevices, GetUserList}

(* One task each; the router runs one of its two. *)
Tasks == {{RouterValue, RouterState}, {MqttPass}, {SnmpAnswer}, {MdnsAnswer}, {SavePass}, {SyslogLine}}

LocksInit == program = [t \in Threads |-> <<>>] /\ done = [t \in Threads |-> 0]

NextStep(t) == program[t][done[t] + 1]
Running(t) == done[t] < Len(program[t])

BeginPass(t) ==
  /\ ~Running(t)
  /\ \E p \in Handlers \cup {q \in UNION Tasks :
                               \A own \in Tasks : q \in own => \A u \in Threads : program[u] \notin own} :
       program' = [program EXCEPT ![t] = p]
  /\ done' = [done EXCEPT ![t] = 0]

(* What a thread holds: taken in the part that is done, and not dropped. *)
Held(t) ==
  {program[t][k][2] : k \in {k \in 1 .. done[t] :
     /\ program[t][k][1] = "lock"
     /\ \A j \in k + 1 .. done[t] : program[t][j] # Drop_(program[t][k][2])}}

WaitsFor(t, u) == Running(t) /\ NextStep(t)[1] = "lock" /\ NextStep(t)[2] \in Held(u)

Proceed(t) ==
  /\ Running(t) /\ \A u \in Threads : ~WaitsFor(t, u)
  /\ done' = [done EXCEPT ![t] = @ + 1]
  /\ UNCHANGED program

(* An early return drops everything. *)
Return(t) ==
  /\ Running(t) /\ NextStep(t)[1] # "lock"
  /\ program' = [program EXCEPT ![t] = <<>>] /\ done' = [done EXCEPT ![t] = 0]

LocksNext == \E t \in Threads : BeginPass(t) \/ Proceed(t) \/ Return(t)

LocksSpec == LocksInit /\ [][LocksNext]_lockVars

-----------------------------------------------------------------------------
(* No tasks wait for each other in a circle, though the router holds       *)
(* CONFIG while it waits for the state and a refresh holds the state while *)
(* it waits for its client; and the flash, for which a save waits with     *)
(* Core 1 stopped, is never held by one that waits for the network         *)
(* (bacnet_router.rs:212, 318, http.rs:1701, 1912, 1408, config.rs:282,    *)
(* ota.rs:114-238).                                                        *)
NoCircularWait ==
  /\ \A S \in (SUBSET Threads) \ {{}} : \E t \in S : \A u \in S : ~WaitsFor(t, u)
  /\ \A t \in Threads : "FLASH" \in Held(t) => NextStep(t)[1] # "wait"
=============================================================================
