------------------------------- MODULE RestApi -------------------------------
(***************************************************************************)
(* Access to the REST API: users, API tokens and browser sessions, and the *)
(* requests that use and change them.                                      *)
(*                                                                         *)
(*   firmware/src/http.rs    session store, bearer_token_ok, the handlers  *)
(*   bridge-core/src/auth.rs verify_password, hash_token                   *)
(*                                                                         *)
(* A handler checks the token, waits for the rest of the request, and      *)
(* makes its change: other requests run in between.  SESSION_STORE's       *)
(* holders never wait, so looking for a place in it and taking it is one   *)
(* step.  A hash stands for what was hashed; a session's token is a        *)
(* number, an API token is known by its name.  Roles are stored but never  *)
(* asked for, and left out.  ConfigStore models how a save may fail; here  *)
(* it writes the settings some time after the request.                     *)
(***************************************************************************)
EXTENDS Naturals, Sequences, FiniteSets, FiniteSetsExt, SequencesExt

CONSTANTS
  Workers,       \* the web tasks
  UserNames,     \* also used for passwords and for the names of API tokens
  MaxUsers, MaxApiTokens,        \* capacities of the lists: 8 and 16
  MAX_SESSIONS, SESSION_EXPIRY,  \* 4, 24 h
  MaxIssued,     \* bound: sessions of a boot
  MaxUptime      \* bound: time since the boot

ASSUME RestAssumption ==
  /\ {MaxUsers, MaxApiTokens, MAX_SESSIONS, SESSION_EXPIRY} \subseteq Nat \ {0}
  /\ {MaxIssued, MaxUptime} \subseteq Nat

VARIABLES
  access,    \* of CONFIG: [users, tokens, provisioned], tokens by name
  saved,     \* what the flash holds of it
  saving,    \* a save was requested and has not been made
  sessions,  \* SESSION_STORE: [token, created_at] in each place
  uptime,
  request,   \* of each worker: "idle", "allowed" (a change whose check has passed) or "reset"
  issued,    \* sessions opened since the boot
  logins,    \* history: the sessions of this boot, [token, at]
  closed     \* history: the sessions of this boot logged out

restVars == <<access, saved, saving, sessions, uptime, request, issued, logins, closed>>

NoToken == <<"none", 0>>
Api(n) == <<"api", n>>
Session(i) == <<"session", i>>
EMPTY == [token |-> 0, created_at |-> 0]
AccessDefault == [users |-> <<>>, tokens |-> <<>>, provisioned |-> FALSE]

RestInit ==
  /\ access = AccessDefault /\ saved = AccessDefault /\ saving = FALSE
  /\ sessions = [i \in 1 .. MAX_SESSIONS |-> EMPTY] /\ uptime = 0
  /\ request = [w \in Workers |-> "idle"]
  /\ issued = 0 /\ logins = {} /\ closed = {}

-----------------------------------------------------------------------------
Empty == {i \in 1 .. MAX_SESSIONS : sessions[i].token = 0}

(* Mutant: the newest session makes room. *)
Oldest_newest ==
  {i \in 1 .. MAX_SESSIONS :
     \A j \in 1 .. MAX_SESSIONS : sessions[i].created_at >= sessions[j].created_at}

(* min_by_key takes the first of several. *)
Oldest ==
  {i \in 1 .. MAX_SESSIONS :
     \A j \in 1 .. MAX_SESSIONS : sessions[i].created_at <= sessions[j].created_at}

session_insert(t) ==
  sessions' = [sessions EXCEPT ![Min(IF Empty # {} THEN Empty ELSE Oldest)] =
                                 [token |-> t, created_at |-> uptime]]

session_remove(t) ==
  sessions' = [i \in 1 .. MAX_SESSIONS |-> IF sessions[i].token = t THEN EMPTY ELSE sessions[i]]

(* An expired session keeps its place until a login takes it. *)
session_find(t) ==
  \E i \in 1 .. MAX_SESSIONS :
    sessions[i].token = t /\ uptime - sessions[i].created_at < SESSION_EXPIRY

(* NoToken: none, or one this device never made, as the setup token is. *)
bearer_token_ok(t) ==
  \/ ~access.provisioned
  \/ t[1] = "api" /\ t[2] \in ToSet(access.tokens)
  \/ t[1] = "session" /\ session_find(t[2])

(* The first user of the name decides. *)
verify_password(name, password) ==
  LET named == {i \in DOMAIN access.users : access.users[i].name = name} IN
  named # {} /\ access.users[Min(named)].password = password

-----------------------------------------------------------------------------
(* Settings that an import may bring: others of this device's, or a copy   *)
(* that was exported earlier.                                              *)
Imports ==
  {AccessDefault, saved}
    \cup {[users |-> <<[name |-> n, password |-> n]>>, tokens |-> <<>>, provisioned |-> TRUE] :
            n \in UserNames}

(* A request for a change arrives and its token is checked; one that is    *)
(* not allowed is answered and gone.  Which change it is, its body says.   *)
Accept(w) ==
  /\ request[w] = "idle"
  /\ \E t \in {NoToken} \cup {Session(i) : i \in 1 .. issued} \cup {Api(n) : n \in UserNames} :
       bearer_token_ok(t)
  /\ request' = [request EXCEPT ![w] = "allowed"]
  /\ UNCHANGED <<access, saved, saving, sessions, uptime, issued, logins, closed>>

Answered(w) == request' = [request EXCEPT ![w] = "idle"]

(* The body does not come, makes no sense or does not fit in. *)
Refused(w) ==
  /\ request[w] = "allowed" /\ Answered(w)
  /\ UNCHANGED <<access, saved, saving, sessions, uptime, issued, logins, closed>>

(* Nothing is checked before the body is there.  Without users the answer  *)
(* is the setup token, and there is no session.                            *)
AuthLogin(w) ==
  /\ request[w] = "idle"
  /\ \E name, password \in UserNames : access.users # <<>> /\ verify_password(name, password)
  /\ issued < MaxIssued /\ issued' = issued + 1
  /\ session_insert(issued')
  /\ logins' = logins \cup {[token |-> issued', at |-> uptime]}
  /\ UNCHANGED <<access, saved, saving, uptime, request, closed>>

Opened == {l.token : l \in logins}

AuthLogout(w) ==
  \E t \in Opened :
    /\ request[w] = "idle"
    /\ session_remove(t) /\ closed' = closed \cup {t}
    /\ UNCHANGED <<access, saved, saving, uptime, request, issued, logins>>

(* A change is made and its save requested. *)
ChangeAccess(w, a) ==
  /\ request[w] = "allowed" /\ Answered(w)
  /\ access' = a /\ saving' = TRUE
  /\ UNCHANGED <<saved, sessions, uptime, issued, logins, closed>>

(* A full list refuses; the first user makes the device provisioned. *)
PostUsers(w) ==
  \E n, p \in UserNames :
    /\ Len(access.users) < MaxUsers
    /\ ChangeAccess(w, [access EXCEPT !.users = Append(@, [name |-> n, password |-> p]),
                                      !.provisioned = TRUE])

PostTokens(w) ==
  \E n \in UserNames :
    /\ Len(access.tokens) < MaxApiTokens
    /\ ChangeAccess(w, [access EXCEPT !.tokens = Append(@, n)])

(* retain: the last user may go; the device stays provisioned. *)
DeleteUser(w) ==
  \E n \in UserNames : LET keeps(u) == u.name # n IN
    ChangeAccess(w, [access EXCEPT !.users = SelectSeq(@, keeps)])

DeleteToken(w) ==
  \E n \in UserNames : ChangeAccess(w, [access EXCEPT !.tokens = Remove(@, n)])

PutBulkConfig(w) == \E a \in Imports : ChangeAccess(w, a)

(* A section of the settings that holds neither users nor tokens. *)
PutSection(w) == ChangeAccess(w, access)

(* The settings go at once, the reset follows 1.5 s later. *)
FactoryReset(w) ==
  /\ request[w] = "idle" /\ request' = [request EXCEPT ![w] = "reset"]
  /\ access' = AccessDefault /\ saving' = TRUE
  /\ UNCHANGED <<saved, sessions, uptime, issued, logins, closed>>

PostReboot(w) ==
  /\ request[w] = "idle" /\ request' = [request EXCEPT ![w] = "reset"]
  /\ UNCHANGED <<access, saved, saving, sessions, uptime, issued, logins, closed>>

(* The settings that were saved, and no session. *)
system_reset(w) ==
  /\ request[w] = "reset"
  /\ access' = saved /\ saving' = FALSE
  /\ sessions' = [i \in 1 .. MAX_SESSIONS |-> EMPTY] /\ uptime' = 0
  /\ request' = [v \in Workers |-> "idle"]
  /\ issued' = 0 /\ logins' = {} /\ closed' = {}
  /\ UNCHANGED saved

Save ==
  /\ saving /\ saved' = access /\ saving' = FALSE
  /\ UNCHANGED <<access, sessions, uptime, request, issued, logins, closed>>

Advance ==
  /\ uptime < MaxUptime /\ uptime' = uptime + 1
  /\ UNCHANGED <<access, saved, saving, sessions, request, issued, logins, closed>>

RestNext ==
  \/ \E w \in Workers :
       \/ Accept(w) \/ Refused(w) \/ AuthLogin(w) \/ AuthLogout(w) \/ PostUsers(w)
       \/ PostTokens(w) \/ DeleteUser(w) \/ DeleteToken(w) \/ PutBulkConfig(w)
       \/ PutSection(w) \/ FactoryReset(w) \/ PostReboot(w) \/ system_reset(w)
  \/ Save \/ Advance

RestSpec == RestInit /\ [][RestNext]_restVars

-----------------------------------------------------------------------------
Followers(l) == {m \in logins : m # l /\ m.at >= l.at}

(* Whatever other requests do meanwhile, a login's token is accepted until *)
(* its logout or its expiry, and gives way only to as many logins of its   *)
(* own millisecond or later as there are places; and after its logout or   *)
(* its expiry it never works again while the device asks for tokens        *)
(* (http.rs:129-190, 1889-1938).                                           *)
TokensLast ==
  /\ \A l \in logins :
       IF l.token \in closed \/ uptime - l.at >= SESSION_EXPIRY THEN ~session_find(l.token)
       ELSE bearer_token_ok(Session(l.token)) \/ Cardinality(Followers(l)) >= MAX_SESSIONS
  /\ \A t \in closed : access.provisioned => ~bearer_token_ok(Session(t))
=============================================================================
