------------------------------ MODULE SnmpWalk ------------------------------
(***************************************************************************)
(* A manager walks the agent's tree over UDP: it asks for the OID behind   *)
(* the last one it has, asks again when no answer comes, and stops at an   *)
(* error.  Datagrams stay in the network: one may be lost (never taken),   *)
(* taken twice, or taken late.  The manager is external; the agent's state *)
(* changes under the walk.                                                 *)
(***************************************************************************)
EXTENDS Snmp

CONSTANTS
  WalkStarts,  \* OIDs a walk begins behind
  Names        \* host names the configuration may get

VARIABLES
  agent,    \* what resolve_oid sees: [uptime, hostname, devices]
  net,      \* datagrams: <<"request" or "answer", bytes>>
  first,    \* where the walk began
  visited,  \* the bindings it got
  ended,    \* the agent has reported the end
  shown     \* history: the values each OID has had

walkVars == <<agent, net, first, visited, ended, shown>>

Cursor == IF visited = <<>> THEN first ELSE visited[Len(visited)].oid

(* The request id counts the steps of the walk. *)
Asked == Request([kind |-> "GetNext", id |-> Len(visited), community |-> Public,
                  oids |-> <<Cursor>>])

(* One by a manager that does not know the community. *)
Foreign == Request([kind |-> "GetNext", id |-> 0, community |-> <<1>>, oids |-> <<first>>])

Served == {System \o <<n, 0>> : n \in {1, 3, 4, 5}} \cup {Enterprise \o <<n>> : n \in 1 .. 5}

WalkInit ==
  /\ agent = [uptime |-> 127, hostname |-> CHOOSE n \in Names : TRUE, devices |-> 0]
  /\ first \in WalkStarts
  /\ net = {} /\ visited = <<>> /\ ended = FALSE
  /\ shown = [o \in Served |-> {value_of(o, agent)}]

(* Also the repetition after a timeout. *)
Ask ==
  /\ ~ended
  /\ net' = net \cup {<<"request", Asked>>, <<"request", Foreign>>}
  /\ UNCHANGED <<agent, first, visited, ended, shown>>

Answer ==
  \E d \in net :
    /\ d[1] = "request"
    /\ \E a \in ToSet(snmp_task(d[2], agent)) : net' = net \cup {<<"answer", a>>}
    /\ UNCHANGED <<agent, first, visited, ended, shown>>

(* External: the manager's reading of a value and of an answer. *)
ReadValue(e) ==
  CASE e.tag = OCTETS -> <<"OctetString", e.content>>
    [] e.tag = INT -> <<"Integer", decode_integer(e.content)[1]>>
    [] e.tag = NULL -> <<"Null">>
    [] OTHER -> <<CHOOSE k \in DOMAIN TagOf : TagOf[k] = e.tag, decode_u32(e.content)[1]>>

ReadAnswer(s) ==
  IfSome(Elements(Expect(s, {SEQ}).v.content, << {INT}, {OCTETS}, {162} >>), LAMBDA msg :
    IfSome(Elements(msg[3].content, << {INT}, {INT}, {INT}, {SEQ} >>), LAMBDA pdu :
      Some([id |-> decode_integer(pdu[1].content)[1],
            status |-> decode_integer(pdu[2].content)[1],
            bindings |-> IF pdu[4].content = <<>> THEN <<>>
                         ELSE IfSome(Elements(Expect(pdu[4].content, {SEQ}).v.content,
                                              << {OID}, 0 .. 255 >>), LAMBDA vb :
                                Some([oid |-> decode_oid(vb[1].content)[1],
                                      value |-> ReadValue(vb[2])]))])))

(* An answer to another question is ignored. *)
Take ==
  \E d \in net :
    /\ d[1] = "answer" /\ ~ended
    /\ \E a \in ToSet(ReadAnswer(d[2])) :
         /\ a.id = Len(visited)
         /\ IF a.status = 0 THEN visited' = visited \o a.bindings /\ UNCHANGED ended
            ELSE ended' = TRUE /\ UNCHANGED visited
    /\ UNCHANGED <<agent, net, first, shown>>

(* Time passes, a device is found, the host name is changed. *)
AgentChanges ==
  /\ agent.uptime = 127
  /\ \E n \in Names :
       agent' = [agent EXCEPT !.uptime = 128, !.hostname = n, !.devices = 1]
  /\ shown' = [o \in Served |-> shown[o] \cup {value_of(o, agent')}]
  /\ UNCHANGED <<net, first, visited, ended>>

WalkNext == Ask \/ Answer \/ Take \/ AgentChanges

-----------------------------------------------------------------------------
Before(a, b) ==
  \E i \in 1 .. Len(b) :
    /\ i > Len(a) \/ (i <= Len(a) /\ a[i] < b[i])
    /\ \A j \in 1 .. i - 1 : j <= Len(a) /\ a[j] = b[j]

(* Whatever is lost, repeated or late, a walk visits the OIDs behind its   *)
(* start in order, leaves none out, goes to its end, and shows of each a   *)
(* value it had (firmware snmp.rs:83-329, core snmp.rs).                   *)
WalkInOrder ==
  LET oids == {visited[i].oid : i \in 1 .. Len(visited)} IN
  /\ \A i \in 1 .. Len(visited) :
       /\ Before(IF i = 1 THEN first ELSE visited[i - 1].oid, visited[i].oid)
       /\ visited[i].oid \in Served /\ visited[i].value \in shown[visited[i].oid]
  /\ \A o \in Served :
       (Before(first, o) /\ (ended \/ \E p \in oids : Before(o, p))) => o \in oids
=============================================================================
