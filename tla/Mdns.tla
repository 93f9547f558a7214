-------------------------------- MODULE Mdns --------------------------------
(***************************************************************************)
(* The mDNS responder: DNS names and records, and what it answers.         *)
(*                                                                         *)
(*   write_name, read_name, encode_*_response, decode_query                *)
(*                                   bridge-core/src/mdns.rs               *)
(*   mdns_task                       firmware/src/mdns.rs                  *)
(*                                                                         *)
(* A name is a sequence of labels, a label a sequence of bytes; the text   *)
(* "a.b" of the code is <<a, b>>.  The fixed labels are single bytes here. *)
(* The decoded name is a text of at most 128 bytes with its dots.          *)
(***************************************************************************)
EXTENDS Octets

CONSTANT MaxName   \* bytes of a decoded name (128)

TYPE_A == 1
TYPE_PTR == 12
TYPE_TXT == 16
TYPE_SRV == 33

-----------------------------------------------------------------------------
(* Names. *)
write_label(l) == <<Len(l)>> \o l

EncodedLength(name) == 1 + FoldLeft(LAMBDA n, l : n + (IF l = <<>> THEN 0 ELSE 1 + Len(l)), 0, name)

write_name(name) ==
  IF EncodedLength(name) > 255 \/ \E i \in 1 .. Len(name) : Len(name[i]) > 63 THEN None
  ELSE Some(FlattenSeq([i \in 1 .. Len(name) |-> write_label(name[i])]) \o <<0>>)

TextLength(name) == FoldLeft(LAMBDA n, l : n + Len(l), 0, name) + Len(name) - 1

MaxHops == 8

(* A pointer leads back, into the packet, and not for the ninth time. *)
Pointer(s, pos, target, hops) == target < pos /\ target < Len(s) /\ hops < MaxHops

(* pos counts from 0, as in the code; end is the position behind the name  *)
(* where it was first read.                                                *)
RECURSIVE FollowName(_, _, _, _, _)
FollowName(s, pos, labels, end, hops) ==
  IF pos >= Len(s) THEN Failed
  ELSE LET b == s[pos + 1]
           target == (b % 64) * 256 + s[pos + 2]
       IN CASE b = 0 -> Read(labels, IF end = None THEN pos + 1 ELSE end[1])
            [] b >= 192 ->
                 IF pos + 1 >= Len(s) THEN Failed
                 ELSE IF ~Pointer(s, pos, target, hops) THEN Failed
                 ELSE FollowName(s, target, labels, IF end = None THEN Some(pos + 2) ELSE end,
                                 hops + 1)
            [] OTHER ->
                 IF pos + 1 + b > Len(s) THEN Failed
                 ELSE LET name == Append(labels, SubSeq(s, pos + 2, pos + 1 + b)) IN
                      IF TextLength(name) > MaxName THEN Failed
                      ELSE FollowName(s, pos + 1 + b, name, end, hops)

read_name(s, start) == FollowName(s, start, <<>>, None, 0)

-----------------------------------------------------------------------------
(* Packets: the header counts questions and answers. *)
Header(flags, questions, answers) ==
  BE(0, 2) \o BE(flags, 2) \o BE(questions, 2) \o BE(answers, 2) \o BE(0, 4)

IN_FLUSH == 32769
TTL == 4500

Response(name, type, class, rdata) ==
  Some(Header(33792, 0, 1) \o name \o BE(type, 2) \o BE(class, 2) \o BE(TTL, 4)
         \o BE(Len(rdata), 2) \o rdata)

encode_a_response(host, ip) ==
  LET n == write_name(host) IN IF n = None THEN None ELSE Response(n[1], TYPE_A, IN_FLUSH, ip)

encode_ptr_response(service, instance) ==
  LET n == write_name(service)  i == write_name(instance) IN
  IF n = None \/ i = None THEN None ELSE Response(n[1], TYPE_PTR, 1, i[1])

encode_srv_response(instance, host, port) ==
  LET n == write_name(instance)  h == write_name(host) IN
  IF n = None \/ h = None THEN None
  ELSE Response(n[1], TYPE_SRV, IN_FLUSH, BE(0, 4) \o BE(port, 2) \o h[1])

(* Pairs of key and value; an empty value leaves the sign out. *)
encode_txt_response(instance, txt) ==
  LET n == write_name(instance)
      Text(p) == IF p[2] = <<>> THEN p[1] ELSE p[1] \o <<61>> \o p[2]
  IN IF n = None \/ \E i \in 1 .. Len(txt) : Len(Text(txt[i])) > 255 THEN None
     ELSE Response(n[1], TYPE_TXT, IN_FLUSH,
                   FlattenSeq([i \in 1 .. Len(txt) |-> write_label(Text(txt[i]))]))

(* External: a query with one question. *)
Query(name, type) == Header(0, 1, 0) \o write_name(name)[1] \o BE(type, 2) \o BE(1, 2)

(* The first question; others are not looked at. *)
decode_query(s) ==
  LET n == read_name(s, 12) IN
  IF Len(s) < 12 THEN None
  ELSE IF Number(SubSeq(s, 5, 6)) = 0 \/ ~n.ok THEN None
  ELSE IF Len(s) < n.n + 4 THEN None
  ELSE Some([name |-> n.v, qtype |-> Number(SubSeq(s, n.n + 1, n.n + 2)),
             qclass |-> Number(SubSeq(s, n.n + 3, n.n + 4))])

-----------------------------------------------------------------------------
(* The responder.  Its settings are [host, provisioned, tls, port].        *)
LOCAL_ == << <<108>> >>                         \* local
HTTP == << <<104>>, <<116>> >> \o LOCAL_        \* _http._tcp.local
BACNET == << <<98>>, <<117>> >> \o LOCAL_       \* _bacnet._udp.local
SETUP == << <<115>>, <<116>> >> \o LOCAL_       \* _icomb-setup._tcp.local
HTTPS == << <<104, 115>>, <<116>> >> \o LOCAL_  \* _https._tcp.local
SERVICES == << <<100>>, <<117>> >> \o LOCAL_    \* _services._dns-sd._udp.local

Fqdn(c) == <<c.host>> \o LOCAL_
Instance(c, service) == <<c.host>> \o service

Offered(c) ==
  <<HTTP, BACNET>> \o (IF c.provisioned THEN <<>> ELSE <<SETUP>>)
    \o (IF c.tls THEN <<HTTPS>> ELSE <<>>)

(* Mutant: setup is announced on the port of HTTPS. *)
Port_setup(c, service) ==
  CASE service = BACNET -> 47808 [] service \in {HTTPS, SETUP} -> c.port [] OTHER -> 80

Port(c, service) ==
  CASE service = BACNET -> 47808 [] service = HTTPS -> c.port [] OTHER -> 80

(* Abstracted to the keys: device id, vendor, version, provisioned, mac. *)
Txt(c, service) ==
  LET common == << << <<118>>, <<1>> >>, << <<114>>, <<1>> >> >>
      id == << << <<105>>, <<1>> >> >>
      state == << << <<112>>, <<IF c.provisioned THEN 1 ELSE 0>> >> >>
      mac == << << <<109>>, <<1>> >> >>
  IN CASE service = HTTP -> id \o common \o state \o mac
       [] service = SETUP -> state \o common \o mac
       [] OTHER -> id \o common

Sent(r) == IF r = None THEN <<>> ELSE <<r[1]>>

(* The datagrams sent in answer to a query q under the settings c.  For    *)
(* the secure service the port is read again, from the settings later.     *)
answers(q, c, later, ip) ==
  LET ours == SelectSeq(Offered(c), LAMBDA v : Instance(c, v) = q.name)
      named == SelectSeq(Offered(c), LAMBDA v : v = q.name)
  IN CASE q.qtype = TYPE_PTR /\ q.name = SERVICES ->
            FlattenSeq([i \in 1 .. Len(Offered(c)) |->
                          Sent(encode_ptr_response(SERVICES, Offered(c)[i]))])
       [] q.qtype = TYPE_A /\ q.name = Fqdn(c) -> Sent(encode_a_response(Fqdn(c), ip))
       [] q.qtype = TYPE_PTR /\ q.name # SERVICES /\ named # <<>> ->
            Sent(encode_ptr_response(q.name, Instance(c, named[1])))
       [] q.qtype = TYPE_SRV /\ ours # <<>> ->
            Sent(encode_srv_response(q.name, Fqdn(c), Port(later, ours[1])))
       [] q.qtype = TYPE_TXT /\ ours # <<>> -> Sent(encode_txt_response(q.name, Txt(c, ours[1])))
       [] OTHER -> <<>>

mdns_task(s, c, later, ip) ==
  LET q == decode_query(s) IN IF q = None THEN <<>> ELSE answers(q[1], c, later, ip)
=============================================================================
