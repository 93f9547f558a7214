-------------------------------- MODULE Snmp --------------------------------
(***************************************************************************)
(* The SNMP v2c agent: BER encoding, and what it answers to a request.     *)
(*                                                                         *)
(*   decode_get_request, encode_get_response   bridge-core/src/snmp.rs     *)
(*   snmp_task, build_bindings, next_oid       firmware/src/snmp.rs        *)
(*                                                                         *)
(* A request is [kind, id, community, oids]; a binding is [oid, value], a  *)
(* value <<type, content>>.  Requests are built by the manager (external)  *)
(* with the encoders the agent uses for its answers.                       *)
(***************************************************************************)
EXTENDS Octets

CONSTANTS
  MaxOids,      \* requested OIDs a request may hold (8)
  MaxSubIds,    \* sub-identifiers of an OID (16)
  MaxCommunity, \* bytes of a community (32)
  Scratch       \* bytes an answer is built in (512)

-----------------------------------------------------------------------------
(* Tags and lengths. *)
SEQ == 48
INT == 2
OCTETS == 4
NULL == 5
OID == 6
TagOf == [Counter32 |-> 65, Gauge32 |-> 66, TimeTicks |-> 67]
KindTag == [Get |-> 160, GetNext |-> 161, Response |-> 162]

encode_tlv_header(tag, n) ==
  <<tag>> \o (CASE n <= 127 -> <<n>> [] n <= 255 -> <<129, n>> [] OTHER -> <<130>> \o BE(n, 2))

Tlv(tag, content) == encode_tlv_header(tag, Len(content)) \o content

(* The least width from 1 to 4 whose two's complement holds n. *)
SignedWidth(n) ==
  CHOOSE w \in 1 .. 4 :
    /\ w = 4 \/ n \in -(2 ^ (8 * w - 1)) .. 2 ^ (8 * w - 1) - 1
    /\ \A v \in 1 .. w - 1 : n \notin -(2 ^ (8 * v - 1)) .. 2 ^ (8 * v - 1) - 1

encode_integer(n) ==
  LET w == SignedWidth(n) IN
  Tlv(INT, IF n >= 0 THEN BE(n, w) ELSE [i \in 1 .. w |-> 255 - BE(-1 - n, w)[i]])

encode_u32_app(tag, n) ==
  Tlv(tag, BE(n, CASE n <= 255 -> 1 [] n <= 65535 -> 2 [] n <= 16777215 -> 3 [] OTHER -> 4))

encode_base128(n) ==
  LET w == CASE n < 128 -> 1 [] n < 16384 -> 2 [] n < 2097152 -> 3 [] OTHER -> 4
  IN [i \in 1 .. w |-> ((n \div 128 ^ (w - i)) % 128) + (IF i < w THEN 128 ELSE 0)]

(* The first two sub-identifiers share one byte. *)
encode_oid(oid) ==
  Tlv(OID, encode_base128(40 * oid[1] + oid[2])
             \o FlattenSeq([i \in 1 .. Len(oid) - 2 |-> encode_base128(oid[i + 2])]))

encode_snmp_value(v) ==
  CASE v[1] = "Null" -> <<NULL, 0>>
    [] v[1] = "Integer" -> encode_integer(v[2])
    [] v[1] = "OctetString" -> Tlv(OCTETS, v[2])
    [] OTHER -> encode_u32_app(TagOf[v[1]], v[2])

encode_varbind(b) == Tlv(SEQ, encode_oid(b.oid) \o encode_snmp_value(b.value))

Varbinds(bindings) == FlattenSeq([i \in 1 .. Len(bindings) |-> encode_varbind(bindings[i])])

(* A message of version 2c around a PDU of the given kind. *)
Message(kind, community, id, status, index, bindings) ==
  Tlv(SEQ, encode_integer(1) \o Tlv(OCTETS, community)
             \o Tlv(KindTag[kind],
                    encode_integer(id) \o encode_integer(status) \o encode_integer(index)
                      \o Tlv(SEQ, Varbinds(bindings))))

(* The list, the PDU and the message are each built in a buffer of that    *)
(* size, as is the datagram, which is the longest.                         *)
encode_get_response(community, id, status, index, bindings) ==
  LET m == Message("Response", community, id, status, index, bindings) IN
  IF Len(m) > Scratch THEN None ELSE Some(m)

(* External: the manager's request. *)
Request(r) ==
  Message(r.kind, r.community, r.id, 0, 0,
          [i \in 1 .. Len(r.oids) |-> [oid |-> r.oids[i], value |-> <<"Null">>]])

-----------------------------------------------------------------------------
decode_tlv(s) ==
  IF Len(s) < 2 THEN Failed
  ELSE LET octets == IF s[2] >= 128 THEN s[2] % 128 ELSE 0
           Element(start, length) ==
             IF Len(s) < start + length THEN Failed
             ELSE Read([tag |-> s[1], content |-> SubSeq(s, start + 1, start + length)],
                       start + length)
       IN IF s[2] < 128 THEN Element(2, s[2])
          ELSE IF octets \notin 1 .. 4 \/ Len(s) < 2 + octets THEN Failed
          ELSE Element(2 + octets, Number(SubSeq(s, 3, 2 + octets)))

decode_integer(c) ==
  IF Len(c) \notin 1 .. 4 THEN None
  ELSE Some(IF c[1] < 128 THEN Number(c) ELSE -1 - Number([i \in 1 .. Len(c) |-> 255 - c[i]]))

(* A fifth byte may only be a leading zero. *)
decode_u32(c) ==
  CASE Len(c) \in 1 .. 4 -> Some(Number(c))
    [] Len(c) = 5 /\ c[1] = 0 -> Some(Number(Tail(c)))
    [] OTHER -> None

(* Base 128 from the left: <<sub-identifiers, the one under way>>.  One    *)
(* above 2^24 before a shift is refused, as is a last byte that goes on.   *)
decode_oid(c) ==
  LET first == CASE c[1] < 40 -> <<0, c[1]>> [] c[1] < 80 -> <<1, c[1] - 40>>
                 [] OTHER -> <<2, c[1] - 80>>
      Step(st, b) ==
        IF ~st.ok \/ st.sub > 16777215 THEN [st EXCEPT !.ok = FALSE]
        ELSE IF b >= 128 THEN [st EXCEPT !.sub = @ * 128 + (b % 128), !.open = TRUE]
        ELSE [st EXCEPT !.oid = Append(@, st.sub * 128 + b), !.sub = 0, !.open = FALSE]
      end == FoldLeft(Step, [ok |-> TRUE, oid |-> first, sub |-> 0, open |-> FALSE], Tail(c))
  IN IF c = <<>> THEN None
     ELSE IF ~end.ok \/ end.open \/ Len(end.oid) > MaxSubIds THEN None
     ELSE Some(end.oid)

(* One element of the expected tags. *)
Expect(s, tags) ==
  Then(decode_tlv(s), LAMBDA e : IF e.v.tag \in tags THEN e ELSE Failed)

(* What an element holds, and the bytes it takes. *)
Inside(e) == IF e.ok THEN Some([content |-> e.v.content, n |-> e.n]) ELSE None

RECURSIVE Requested(_, _)
Requested(s, oids) ==
  IF s = <<>> THEN Some(oids)
  ELSE IfSome(Inside(Expect(s, {SEQ})), LAMBDA vb :
         IfSome(Inside(Expect(vb.content, {OID})), LAMBDA o :
           IfSome(decode_oid(o.content), LAMBDA oid :
             IF Len(oids) = MaxOids THEN None ELSE Requested(Drop(s, vb.n), Append(oids, oid)))))

(* The elements of an element, which has to have them all. *)
Elements(s, tags) == LET st == ParseFields(s, tags, Expect) IN IF st.ok THEN Some(st.got) ELSE None

decode_get_request(s) ==
  IfSome(Inside(Expect(s, {SEQ})), LAMBDA outer :
    IfSome(Elements(outer.content, << {INT}, {OCTETS}, {160, 161} >>), LAMBDA msg :
      IF decode_integer(msg[1].content) # Some(1) \/ Len(msg[2].content) > MaxCommunity THEN None
      ELSE IfSome(Elements(msg[3].content, << {INT}, {INT}, {INT}, {SEQ} >>), LAMBDA pdu :
             IfSome(decode_integer(pdu[1].content), LAMBDA id :
               IfSome(Requested(pdu[4].content, <<>>), LAMBDA oids :
                 Some([kind |-> IF msg[3].tag = 161 THEN "GetNext" ELSE "Get",
                       id |-> id, community |-> msg[2].content, oids |-> oids]))))))

-----------------------------------------------------------------------------
(* The agent. *)
System == <<1, 3, 6, 1, 2, 1, 1>>
Enterprise == <<1, 3, 6, 1, 4, 1, 99999, 1>>

(* Mutant: the table is in the order of the documentation. *)
OID_TABLE_unsorted ==
  << Enterprise \o <<1>>, Enterprise \o <<2>>, Enterprise \o <<3>>, Enterprise \o <<4>>,
     Enterprise \o <<5>>, System \o <<1, 0>>, System \o <<3, 0>>, System \o <<4, 0>>,
     System \o <<5, 0>> >>

OID_TABLE ==
  << System \o <<1, 0>>, System \o <<3, 0>>, System \o <<4, 0>>, System \o <<5, 0>>,
     Enterprise \o <<1>>, Enterprise \o <<2>>, Enterprise \o <<3>>, Enterprise \o <<4>>,
     Enterprise \o <<5>> >>

(* a is after b: at the first difference, or by being longer. *)
oid_greater(a, b) ==
  \E i \in 1 .. Len(a) :
    /\ i <= Len(b) => a[i] > b[i]
    /\ \A j \in 1 .. i - 1 : j <= Len(b) /\ a[j] = b[j]

next_oid(oid) ==
  LET after == {i \in 1 .. Len(OID_TABLE) : oid_greater(OID_TABLE[i], oid)} IN
  IF after = {} THEN None ELSE Some(OID_TABLE[CHOOSE i \in after : \A j \in after : i <= j])

(* The value an OID stands for.  The agent sees [uptime, hostname,         *)
(* devices]; the counters of frames, token losses and drops are never      *)
(* written.                                                                *)
value_of(oid, a) ==
  CASE oid = System \o <<1, 0>> -> <<"OctetString", <<66, 118>>>>
    [] oid = System \o <<3, 0>> -> <<"TimeTicks", a.uptime>>
    [] oid = System \o <<4, 0>> -> <<"OctetString", <<73>>>>
    [] oid = System \o <<5, 0>> -> <<"OctetString", a.hostname>>
    [] oid = Enterprise \o <<5>> -> <<"Gauge32", a.devices>>
    [] OTHER -> <<"Counter32", 0>>

resolve_oid(oid, a) ==
  IF \E i \in 1 .. Len(OID_TABLE) : OID_TABLE[i] = oid
  THEN Some([oid |-> oid, value |-> value_of(oid, a)]) ELSE None

Lookup(r, i) == IF r.kind = "GetNext" THEN next_oid(r.oids[i]) ELSE Some(r.oids[i])

(* An OID that is not found leaves no binding. *)
build_bindings(r, a) ==
  FlattenSeq([i \in 1 .. Len(r.oids) |->
    IF Lookup(r, i) = None THEN <<>> ELSE resolve_oid(Lookup(r, i)[1], a)])

(* Status and index of an answer: the first request whose OID is not that  *)
(* of the binding in its place.                                            *)
error_of(r, bindings) ==
  LET differs == {i \in 1 .. Len(r.oids) :
                    i > Len(bindings) \/ (i <= Len(bindings) /\ bindings[i].oid # r.oids[i])}
  IN IF Len(bindings) >= Len(r.oids) THEN <<0, 0>>
     ELSE <<2, CHOOSE i \in differs : \A j \in differs : i <= j>>

Public == <<112, 117, 98, 108, 105, 99>>

(* What the task sends back, if anything. *)
snmp_task(s, a) ==
  IfSome(decode_get_request(s), LAMBDA req :
    IF req.community # Public THEN None
    ELSE LET bindings == build_bindings(req, a)
             error == error_of(req, bindings)
         IN encode_get_response(Public, req.id, error[1], error[2], bindings))
=============================================================================
