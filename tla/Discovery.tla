------------------------------ MODULE Discovery ------------------------------
(***************************************************************************)
(* A browser finds the bridge: it lists the service types, picks one, asks *)
(* for its instance, for that instance's host and port, for the host's     *)
(* address and for the text.  Datagrams may be lost, repeated or late, and *)
(* the settings may change under the browse, also between the responder's  *)
(* two looks at them.  The browser is external.                            *)
(***************************************************************************)
EXTENDS Mdns

CONSTANTS
  Setups,     \* settings: [host, provisioned, tls, port]
  OurIp,      \* the address from DHCP
  MaxChanges  \* bound: changes of the settings

VARIABLES
  settings, changes,
  air,       \* datagrams on the multicast group: <<"query" or "answer", bytes>>
  held,      \* the responder between its two looks: a query and the settings, or nothing
  stage,     \* what the browser asks for next
  found,     \* what it has found
  inEffect   \* history: the settings since the browse began

discoveryVars == <<settings, changes, air, held, stage, found, inEffect>>

Unfound == [service |-> <<>>, instance |-> <<>>, host |-> <<>>, port |-> 0, ip |-> <<>>,
            provisioned |-> 0]

DiscoveryInit ==
  /\ settings \in Setups /\ changes = 0
  /\ air = {} /\ held = None /\ stage = "types" /\ found = Unfound
  /\ inEffect = {settings}

Change ==
  /\ changes < MaxChanges
  /\ settings' \in Setups \ {settings} /\ changes' = changes + 1
  /\ inEffect' = inEffect \cup {settings'}
  /\ UNCHANGED <<air, held, stage, found>>

(* The responder reads the settings, and answers.  In between it may have  *)
(* to wait for them a second time.                                         *)
Hear ==
  \E d \in air :
    /\ held = None /\ d[1] = "query"
    /\ held' = Some(<<d[2], settings>>)
    /\ UNCHANGED <<settings, changes, air, stage, found, inEffect>>

Respond ==
  /\ held # None
  /\ air' = air \cup {<<"answer", a>> : a \in ToSet(mdns_task(held[1][1], held[1][2], settings, OurIp))}
  /\ held' = None
  /\ UNCHANGED <<settings, changes, stage, found, inEffect>>

-----------------------------------------------------------------------------
(* External: the browser. *)
Question ==
  CASE stage = "types" -> <<SERVICES, TYPE_PTR>>
    [] stage = "instance" -> <<found.service, TYPE_PTR>>
    [] stage = "service" -> <<found.instance, TYPE_SRV>>
    [] stage = "address" -> <<found.host, TYPE_A>>
    [] stage = "text" -> <<found.instance, TYPE_TXT>>

BrowserAsks ==
  /\ stage # "done"
  /\ air' = air \cup {<<"query", Query(Question[1], Question[2])>>}
  /\ UNCHANGED <<settings, changes, held, stage, found, inEffect>>

(* An answer's name and type, and its data with the packet around it. *)
ReadRecord(s) ==
  LET n == read_name(s, 12) IN
  [name |-> n.v, type |-> Number(SubSeq(s, n.n + 1, n.n + 2)), packet |-> s, at |-> n.n + 10]

NameAt(r, offset) == read_name(r.packet, r.at + offset).v

(* The text's pairs: the value behind the key p. *)
RECURSIVE ProvisionedIn(_)
ProvisionedIn(s) ==
  CASE s = <<>> -> 2
    [] s # <<>> /\ s[2] = 112 -> s[4]
    [] OTHER -> ProvisionedIn(Drop(s, 1 + s[1]))

Learn(r) ==
  CASE stage = "types" -> stage' = "instance" /\ found' = [found EXCEPT !.service = NameAt(r, 0)]
    [] stage = "instance" -> stage' = "service" /\ found' = [found EXCEPT !.instance = NameAt(r, 0)]
    [] stage = "service" ->
         /\ stage' = "address"
         /\ found' = [found EXCEPT !.host = NameAt(r, 6),
                                   !.port = Number(SubSeq(r.packet, r.at + 5, r.at + 6))]
    [] stage = "address" -> stage' = "text" /\ found' = [found EXCEPT !.ip = Drop(r.packet, r.at)]
    [] stage = "text" ->
         stage' = "done" /\ found' = [found EXCEPT !.provisioned = ProvisionedIn(Drop(r.packet, r.at))]

BrowserTakes ==
  \E d \in air :
    /\ stage # "done" /\ d[1] = "answer"
    /\ ReadRecord(d[2]).name = Question[1] /\ ReadRecord(d[2]).type = Question[2]
    /\ Learn(ReadRecord(d[2]))
    /\ UNCHANGED <<settings, changes, air, held, inEffect>>

DiscoveryNext == Change \/ Hear \/ Respond \/ BrowserAsks \/ BrowserTakes

-----------------------------------------------------------------------------
(* By the services' definition. *)
PortIn(c) ==
  CASE found.service = HTTP -> 80 [] found.service = SETUP -> 80
    [] found.service = BACNET -> 47808 [] found.service = HTTPS -> c.port

(* What a browse that comes to its end has put together from five answers  *)
(* is one service of this bridge: a type it offered, an instance and a     *)
(* host of the same name, the port and the state of settings in effect     *)
(* since the browse began (firmware mdns.rs:96-335, core mdns.rs).         *)
ResolvesRight ==
  stage = "done" =>
    /\ \E c \in inEffect : found.instance = <<c.host>> \o found.service
    /\ found.host = <<found.instance[1]>> \o LOCAL_
    /\ \E c \in inEffect : found.port = PortIn(c)
    /\ found.ip = OurIp
    /\ found.service = SETUP => \E c \in inEffect : ~c.provisioned
    /\ found.service = HTTPS => \E c \in inEffect : c.tls
    /\ found.service = HTTP => \E c \in inEffect : found.provisioned = IF c.provisioned THEN 1 ELSE 0
=============================================================================
