----------------------------- MODULE MqttSession -----------------------------
(***************************************************************************)
(* The MQTT client over time: resolve, connect, CONNECT and its answer,    *)
(* the discovery messages, then a loop that polls once a second, publishes *)
(* what has changed and pings; after an error a pause and all over again.  *)
(*                                                                         *)
(*   mqtt_task, run_session, mqtt_session     firmware/src/mqtt.rs         *)
(*                                                                         *)
(* A step takes no time but the waits do.  A write ends when the socket    *)
(* has room, at the latest after the socket's timeout, which also ends a   *)
(* connection whose peer has not acknowledged anything for that long.      *)
(* Before every point the client locks the bridge's table and waits until  *)
(* whoever holds it lets go; nothing bounds that wait.                     *)
(* What a pass publishes is PointFeed's subject; here it is a number of    *)
(* writes.                                                                 *)
(***************************************************************************)
EXTENDS Integers

CONSTANTS
  KeepAlive,     \* KEEP_ALIVE_SECS
  SocketTimeout, \* set_timeout (30 s)
  DnsTime,       \* all tries of a lookup
  ConnackTimeout,
  RECONNECT_DELAY,
  MaxWrites,     \* bound: writes in one pass
  MaxHeld        \* bound: seconds the table is held between two packets

ASSUME MqttAssumption ==
  /\ {KeepAlive, SocketTimeout, DnsTime, ConnackTimeout, RECONNECT_DELAY} \subseteq Nat \ {0}
  /\ 2 * SocketTimeout <= KeepAlive /\ {MaxWrites, MaxHeld} \subseteq Nat

VARIABLES
  step,      \* where the client is
  spent,     \* seconds of the wait it is in
  writes,    \* writes left in this pass
  ticks_since_ping,
  alive,     \* the broker can be reached
  unacked,   \* seconds that sent data has waited for a dead broker, or -1
  aborted,   \* the connection is gone: reads and writes fail
  waiting,   \* for the lock of BRIDGE_STATE
  sinceSent, \* history: seconds since a packet was last written
  deadFor,   \* history: seconds since the broker of this session was lost
  heldSinceSent, heldSinceLost   \* history: those of them spent waiting

mqttVars ==
  <<step, spent, writes, ticks_since_ping, alive, unacked, aborted, waiting, sinceSent, deadFor,
    heldSinceSent, heldSinceLost>>

Writing == {"connect", "discovery", "publish", "ping", "disconnect"}
InSession == {"discovery", "publish", "ping", "poll"}

MqttInit ==
  /\ step \in {"resolve", "idle"}   \* idle: not enabled when the task starts
  /\ spent = 0 /\ writes = 0 /\ ticks_since_ping = 0
  /\ alive \in BOOLEAN /\ unacked = -1 /\ aborted = FALSE /\ waiting = FALSE
  /\ sinceSent = 0 /\ deadFor = 0 /\ heldSinceSent = 0 /\ heldSinceLost = 0

(* Discovery and a pass take the lock first, and again after every write. *)
Goto(s) == step' = s /\ spent' = 0 /\ waiting' = (s \in {"discovery", "publish"})

NoHistory == UNCHANGED <<sinceSent, deadFor, heldSinceSent, heldSinceLost>>

-----------------------------------------------------------------------------
NothingToWrite == step \in {"discovery", "publish"} /\ writes = 0

Limit ==
  CASE step = "resolve" -> DnsTime [] step = "open" -> SocketTimeout
    [] step = "connack" -> ConnackTimeout
    [] step \in Writing -> IF aborted \/ NothingToWrite THEN 0 ELSE SocketTimeout
    [] step = "poll" -> 1 [] step = "backoff" -> RECONNECT_DELAY [] step = "idle" -> 0

(* A second passes; a connection without acknowledgements runs out.  A     *)
(* write waits for a dead broker because earlier data is unacknowledged.   *)
Unacked == unacked # -1 \/ (step \in Writing /\ ~alive)

Elapse(pending) ==
  /\ unacked' = IF ~pending \/ unacked = SocketTimeout THEN unacked
                ELSE IF unacked = -1 THEN 1 ELSE unacked + 1
  /\ aborted' = (aborted \/ unacked' = SocketTimeout)
  /\ sinceSent' = IF step \in InSession THEN sinceSent + 1 ELSE sinceSent
  /\ deadFor' = IF step \in InSession /\ ~alive THEN deadFor + 1 ELSE deadFor
  /\ UNCHANGED <<step, writes, ticks_since_ping, alive, waiting>>

Second ==
  /\ ~waiting /\ spent < Limit
  /\ spent' = spent + 1
  /\ Elapse(Unacked) /\ UNCHANGED <<heldSinceSent, heldSinceLost>>

(* Another task holds the table, across a send if it is a refresh. *)
LockWait ==
  /\ waiting /\ heldSinceSent < MaxHeld /\ heldSinceLost < MaxHeld
  /\ Elapse(unacked # -1)
  /\ heldSinceSent' = heldSinceSent + 1
  /\ heldSinceLost' = IF alive THEN heldSinceLost ELSE heldSinceLost + 1
  /\ UNCHANGED spent

(* The lock is taken, and given back before the next write. *)
Locked ==
  /\ waiting /\ waiting' = FALSE
  /\ UNCHANGED <<step, spent, writes, ticks_since_ping, alive, unacked, aborted>> /\ NoHistory

(* External: the broker or the way to it goes and comes back; the broker   *)
(* closes the connection.                                                  *)
BrokerLost ==
  /\ alive /\ alive' = FALSE /\ deadFor' = 0 /\ heldSinceLost' = 0
  /\ unacked' = IF step \in Writing /\ ~waiting THEN 0 ELSE -1
  /\ UNCHANGED <<step, spent, writes, ticks_since_ping, aborted, waiting, sinceSent,
                 heldSinceSent>>

(* A broker that comes back knows nothing of the connection. *)
BrokerBack ==
  /\ ~alive /\ step \in {"resolve", "open", "backoff"}
  /\ alive' = TRUE
  /\ UNCHANGED <<step, spent, writes, ticks_since_ping, unacked, aborted, waiting>>
  /\ NoHistory

BrokerCloses ==
  /\ alive /\ step \in InSession /\ ~aborted
  /\ aborted' = TRUE
  /\ UNCHANGED <<step, spent, writes, ticks_since_ping, alive, unacked, waiting>> /\ NoHistory

-----------------------------------------------------------------------------
(* run_session returned, or the name was not resolved: the pause. *)
Pause ==
  /\ Goto("backoff") /\ aborted' = FALSE /\ unacked' = -1
  /\ UNCHANGED <<writes, ticks_since_ping, alive>> /\ NoHistory

Resolve ==
  \/ step = "resolve" /\ Goto("open")
       /\ UNCHANGED <<writes, ticks_since_ping, alive, unacked, aborted>> /\ NoHistory
  \/ step = "resolve" /\ Pause

(* The TCP connection and, if enabled, the TLS handshake. *)
Open ==
  \/ step = "open" /\ alive /\ Goto("connect") /\ deadFor' = 0 /\ heldSinceLost' = 0
       /\ UNCHANGED <<writes, ticks_since_ping, alive, unacked, aborted, sinceSent, heldSinceSent>>
  \/ step = "open" /\ Pause

(* A packet is in the socket's buffer; a dead broker leaves it there. *)
Sent_ ==
  /\ ~aborted
  /\ unacked' = IF ~alive /\ unacked = -1 THEN 0 ELSE unacked
  /\ sinceSent' = 0 /\ heldSinceSent' = 0
  /\ UNCHANGED <<aborted, deadFor, heldSinceLost>>

SendConnect ==
  /\ step = "connect"
  /\ \/ Sent_ /\ Goto("connack")
          /\ UNCHANGED <<writes, ticks_since_ping, alive>>
     \/ aborted /\ Pause

(* Accepted: discovery of the points known by then, and a new loop. *)
Connack ==
  /\ step = "connack"
  /\ \/ alive /\ ~aborted /\ Goto("discovery")
          /\ writes' \in 0 .. MaxWrites /\ ticks_since_ping' = 0
          /\ UNCHANGED <<alive, unacked, aborted>> /\ NoHistory
     \/ Pause    \* refused, malformed, or too late

(* A write error ends discovery, not the session. *)
Discovery ==
  /\ step = "discovery" /\ ~waiting
  /\ \/ /\ writes > 0 /\ Sent_
        /\ writes' = writes - 1 /\ Goto(step)
        /\ UNCHANGED <<ticks_since_ping, alive>>
     \/ /\ writes = 0 \/ aborted
        /\ Goto("publish") /\ writes' \in 0 .. MaxWrites
        /\ UNCHANGED <<ticks_since_ping, alive, unacked, aborted>> /\ NoHistory

(* Mutant: a ping for every keep-alive interval, not for every half. *)
ping_interval_ticks_whole == KeepAlive

(* A tick a second. *)
ping_interval_ticks == IF KeepAlive \div 2 >= 1 THEN KeepAlive \div 2 ELSE 1

Publish ==
  /\ step = "publish" /\ ~waiting
  /\ \/ /\ writes > 0 /\ Sent_
        /\ writes' = writes - 1 /\ Goto(step)
        /\ UNCHANGED <<ticks_since_ping, alive>>
     \/ /\ writes > 0 /\ aborted
        /\ Goto("disconnect")
        /\ UNCHANGED <<writes, ticks_since_ping, alive, unacked, aborted>> /\ NoHistory
     \/ /\ writes = 0
        /\ IF ticks_since_ping + 1 >= ping_interval_ticks
           THEN Goto("ping") /\ ticks_since_ping' = 0
           ELSE Goto("poll") /\ ticks_since_ping' = ticks_since_ping + 1
        /\ UNCHANGED <<writes, alive, unacked, aborted>> /\ NoHistory

Ping ==
  /\ step = "ping"
  /\ \/ Sent_ /\ Goto("poll")
          /\ UNCHANGED <<writes, ticks_since_ping, alive>>
     \/ aborted /\ Goto("disconnect")
          /\ UNCHANGED <<writes, ticks_since_ping, alive, unacked, aborted>> /\ NoHistory

Poll ==
  /\ step = "poll" /\ spent = 1
  /\ Goto("publish") /\ writes' \in 0 .. MaxWrites
  /\ UNCHANGED <<ticks_since_ping, alive, unacked, aborted>> /\ NoHistory

Disconnect == step = "disconnect" /\ Pause

Retry ==
  /\ step = "backoff" /\ spent = RECONNECT_DELAY
  /\ Goto("resolve")
  /\ UNCHANGED <<writes, ticks_since_ping, alive, unacked, aborted>> /\ NoHistory

MqttNext ==
  \/ Second \/ LockWait \/ Locked \/ BrokerLost \/ BrokerBack \/ BrokerCloses
  \/ Resolve \/ Open \/ SendConnect \/ Connack \/ Discovery \/ Publish \/ Ping \/ Poll
  \/ Disconnect \/ Retry

MqttSpec == MqttInit /\ [][MqttNext]_mqttVars

-----------------------------------------------------------------------------
(* However the writes stall, a broker that is there sees a packet in every *)
(* keep-alive interval, and a session whose broker is gone ends after the  *)
(* next two pings and the socket's timeout at the latest: both may be late *)
(* by the time others held the table while the client waited for it, and   *)
(* by no more (mqtt.rs:148-152, 252-283, 293-314, 401-448; http.rs:        *)
(* 1701-1710).  The pings are counted in polls, not in seconds.            *)
KeptAlive ==
  step \in InSession =>
    /\ alive /\ ~aborted => sinceSent <= KeepAlive + heldSinceSent
    /\ ~alive => deadFor <= 2 * (KeepAlive \div 2) + SocketTimeout + heldSinceLost
=============================================================================
