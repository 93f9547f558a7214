-------------------------------- MODULE Apdu --------------------------------
(***************************************************************************)
(* The BACnet services the bridge encodes and decodes.                     *)
(*                                                                         *)
(*   encode_*, decode_*, decode_apdu    bridge-core/src/apdu.rs            *)
(*   ObjectId, PropertyId               bridge-core/src/bacnet.rs          *)
(*                                                                         *)
(* A message is its service, its invoke id (0 where it has none) and its   *)
(* fields in the order of the code.  A decoder is the list of the helpers  *)
(* it calls; a field's description says which helper and which tag.  A     *)
(* Real is its four bytes; a string is its bytes, of which those below 128 *)
(* are UTF-8.  A position past the end is an empty rest.                   *)
(***************************************************************************)
EXTENDS Octets

CONSTANT MaxString   \* the capacity of a CharString

-----------------------------------------------------------------------------
(* Identifiers: 10 bits of type, 22 of instance. *)
ObjectTypes == {0, 1, 2, 3, 4, 5, 6, 8, 13, 14, 15, 17, 19, 20}

InstanceSpan == 2 ^ 22

to_raw(o) == o.type * InstanceSpan + (o.instance % InstanceSpan)

from_raw(raw) ==
  LET type == (raw \div InstanceSpan) % 1024 IN
  IF type \in ObjectTypes THEN Some([type |-> type, instance |-> raw % InstanceSpan])
  ELSE None

PropertyCode ==
  [Description |-> 28, DeviceType |-> 31, ObjectIdentifier |-> 75, ObjectName |-> 77,
   ObjectType |-> 79, OutOfService |-> 81, PresentValue |-> 85, StatusFlags |-> 111,
   Units |-> 117]

property_code(p) == IF p[1] = "Raw" THEN p[2] ELSE PropertyCode[p[1]]

from_property_code(c) ==
  IF \E p \in DOMAIN PropertyCode : PropertyCode[p] = c
  THEN <<CHOOSE p \in DOMAIN PropertyCode : PropertyCode[p] = c>>
  ELSE <<"Raw", c>>

-----------------------------------------------------------------------------
(* Tags. *)
Width(n) == CASE n <= 255 -> 1 [] n <= 65535 -> 2 [] n <= 16777215 -> 3 [] OTHER -> 4

Minimal(n) == BE(n, Width(n))

Tagged(number, class, content) == <<number * 16 + class * 8 + Len(content)>> \o content

encode_app_unsigned(n) == Tagged(2, 0, Minimal(n))
encode_context_unsigned(tag, n) == Tagged(tag % 16, 1, Minimal(n))
encode_app_object_id(o) == Tagged(12, 0, BE(to_raw(o), 4))
encode_context_object_id(tag, o) == Tagged(tag % 16, 1, BE(to_raw(o), 4))
encode_app_enumerated(n) == Tagged(9, 0, Minimal(n))
encode_opening_tag(tag) == <<(tag % 16) * 16 + 14>>
encode_closing_tag(tag) == <<(tag % 16) * 16 + 15>>

(* Two's complement in the least of 1, 2 and 4 bytes. *)
SignedBytes(n) ==
  LET w == CASE n \in -128 .. 127 -> 1 [] n \in -32768 .. 32767 -> 2 [] OTHER -> 4
  IN IF n >= 0 THEN BE(n, w) ELSE [i \in 1 .. w |-> 255 - BE(-1 - n, w)[i]]

(* The length of a string counts its character-set byte; lengths above 4   *)
(* follow the tag.                                                         *)
StringHeader(n) ==
  CASE n <= 4 -> <<112 + n>> [] n <= 253 -> <<117, n>> [] OTHER -> <<117, 254>> \o BE(n, 2)

encode_app_value(v) ==
  CASE v[1] = "Null" -> <<0>>
    [] v[1] = "Boolean" -> <<IF v[2] THEN 17 ELSE 16>>
    [] v[1] = "UnsignedInt" -> encode_app_unsigned(v[2])
    [] v[1] = "SignedInt" -> Tagged(3, 0, SignedBytes(v[2]))
    [] v[1] = "Real" -> Tagged(4, 0, v[2])
    [] v[1] = "CharString" -> StringHeader(Len(v[2]) + 1) \o <<0>> \o v[2]
    [] v[1] = "Enumerated" -> encode_app_enumerated(v[2])
    [] v[1] = "ObjectIdentifier" -> encode_app_object_id(v[2])

(* A tag is [number, context, lvt]. *)
Tag(number, context, lvt) == [number |-> number, context |-> context, lvt |-> lvt]

(* The length of an extended length field and the bytes it takes. *)
ExtendedLength(s) ==
  CASE s = <<>> -> Failed
    [] s # <<>> /\ s[1] < 254 -> Read(s[1], 1)
    [] s # <<>> /\ s[1] = 254 -> IF Len(s) < 3 THEN Failed ELSE Read(Number(SubSeq(s, 2, 3)), 3)
    [] s # <<>> /\ s[1] = 255 -> IF Len(s) < 5 THEN Failed ELSE Read(Number(SubSeq(s, 2, 5)), 5)

decode_tag(s) ==
  IF s = <<>> \/ (s[1] \div 16 = 15 /\ Len(s) < 2) THEN Failed
  ELSE LET h == IF s[1] \div 16 = 15 THEN 2 ELSE 1
           number == IF s[1] \div 16 = 15 THEN s[2] ELSE s[1] \div 16
           Long(lvt) == Read(Tag(number, (s[1] \div 8) % 2 = 1, lvt.v), h + lvt.n)
       IN IF s[1] % 8 = 5 THEN Then(ExtendedLength(Drop(s, h)), Long)
          ELSE Long(Read(s[1] % 8, 0))

decode_unsigned(s, n) == IF Len(s) < n THEN Failed ELSE Read(Number(SubSeq(s, 1, n)), n)

(* Sign-extended from the first byte. *)
decode_signed(s, n) ==
  IF Len(s) < n THEN Failed
  ELSE Read(IF s[1] < 128 THEN Number(SubSeq(s, 1, n))
            ELSE -1 - Number([i \in 1 .. n |-> 255 - s[i]]), n)

(* Mutant: the character-set byte is taken for the first of the string. *)
decode_string_with_charset(s, n) ==
  IF n < 1 \/ Len(s) < n THEN Failed
  ELSE Read(SubSeq(s, 1, IF n > MaxString THEN MaxString ELSE n), n)

(* Longer strings are cut to the capacity. *)
decode_string(s, n) ==
  IF n < 1 \/ Len(s) < n \/ (\E i \in 2 .. n : s[i] > 127) THEN Failed
  ELSE Read(SubSeq(s, 2, IF n > MaxString + 1 THEN MaxString + 1 ELSE n), n)

(* A value of kind k from a reading of its contents. *)
As(k, r) == Then(r, LAMBDA c : Read(<<k, c.v>>, c.n))

decode_object_id(s) ==
  Then(decode_unsigned(s, 4), LAMBDA raw :
    IF from_raw(raw.v) = None THEN Failed ELSE Read(from_raw(raw.v)[1], 4))

ContentsOf(tag, s) ==
  LET n == tag.lvt IN
  CASE tag.number = 0 -> Read(<<"Null">>, n)
    [] tag.number = 1 -> Read(<<"Boolean", n # 0>>, 0)
    [] tag.number = 2 -> As("UnsignedInt", decode_unsigned(s, n))
    [] tag.number = 3 -> As("SignedInt", decode_signed(s, n))
    [] tag.number = 4 -> IF n # 4 \/ Len(s) < 4 THEN Failed ELSE Read(<<"Real", SubSeq(s, 1, 4)>>, 4)
    [] tag.number = 7 -> As("CharString", decode_string(s, n))
    [] tag.number = 9 -> As("Enumerated", decode_unsigned(s, n))
    [] tag.number = 12 ->
         IF n # 4 THEN Failed ELSE As("ObjectIdentifier", decode_object_id(s))
    [] OTHER -> Read(<<"Null">>, n)   \* unknown tags are skipped

decode_app_value(s) ==
  Then(decode_tag(s), LAMBDA t :
    IF t.v.context THEN Failed
    ELSE Then(ContentsOf(t.v, Drop(s, t.n)), LAMBDA c : Read(c.v, t.n + c.n)))

(* A context tag that is not the expected one, or the end, is no field:    *)
(* nothing is taken.                                                       *)
decode_context_unsigned(s, tag) ==
  IF s = <<>> THEN Read(None, 0)
  ELSE Then(decode_tag(s), LAMBDA t :
         IF ~t.v.context \/ t.v.number # tag THEN Read(None, 0)
         ELSE Then(decode_unsigned(Drop(s, t.n), t.v.lvt), LAMBDA n : Read(Some(n.v), t.n + n.n)))

decode_context_object_id(s, tag) ==
  IF s = <<>> THEN Read(None, 0)
  ELSE Then(decode_tag(s), LAMBDA t :
         IF ~t.v.context \/ t.v.number # tag \/ t.v.lvt # 4 THEN Read(None, 0)
         ELSE Then(decode_object_id(Drop(s, t.n)), LAMBDA o : Read(Some(o.v), t.n + 4)))

(* Opening (6) and closing (7) tags. *)
expect_tag(s, tag, lvt) ==
  Then(decode_tag(s), LAMBDA t :
    IF t.v = Tag(tag, TRUE, lvt) THEN Read(None, t.n) ELSE Failed)

is_closing_tag(s, tag) == s # <<>> /\ s[1] = tag * 16 + 15

-----------------------------------------------------------------------------
(* Services: the PDU type, the service code, whether there is an invoke id *)
(* and the fields.                                                         *)
Msg(service, invoke, fields) == [service |-> service, invoke |-> invoke, fields |-> fields]

Opt(f, Encode(_)) == IF f = None THEN <<>> ELSE Encode(f[1])

Confirmed(invoke, service) == <<0, 5, invoke, service>>

encode_who_is(m) ==
  LET f == m.fields IN
  <<16, 8>> \o (IF f[1] = None \/ f[2] = None THEN <<>>
                ELSE encode_context_unsigned(0, f[1][1]) \o encode_context_unsigned(1, f[2][1]))

encode_i_am(m) ==
  <<16, 0>> \o encode_app_object_id(m.fields[1][2]) \o encode_app_unsigned(m.fields[2][2])
    \o encode_app_enumerated(m.fields[3][2]) \o encode_app_unsigned(m.fields[4][2])

(* Object, property and array index, which three services begin with.      *)
Reference(f) ==
  encode_context_object_id(0, f[1][1]) \o encode_context_unsigned(1, property_code(f[2][1]))
    \o Opt(f[3], LAMBDA n : encode_context_unsigned(2, n))

Enclosed(tag, v) == encode_opening_tag(tag) \o encode_app_value(v) \o encode_closing_tag(tag)

encode_read_property(m) == Confirmed(m.invoke, 12) \o Reference(m.fields)

encode_read_property_ack(m) ==
  <<48, m.invoke, 12>> \o Reference(m.fields) \o Enclosed(3, m.fields[5])

encode_write_property(m) ==
  Confirmed(m.invoke, 15) \o Reference(m.fields) \o Enclosed(3, m.fields[5])
    \o Opt(m.fields[7], LAMBDA n : encode_context_unsigned(4, n))

encode_simple_ack(m) == <<32, m.invoke, m.fields[1][1]>>

encode_error(m) ==
  <<80, m.invoke, m.fields[1][1]>> \o encode_app_enumerated(m.fields[2][1])
    \o encode_app_enumerated(m.fields[3][1])

encode_subscribe_cov(m) ==
  LET f == m.fields IN
  Confirmed(m.invoke, 5) \o encode_context_unsigned(0, f[1][1])
    \o encode_context_object_id(1, f[2][1]) \o encode_context_unsigned(2, f[3][1])
    \o Opt(f[4], LAMBDA n : encode_context_unsigned(3, n))

(* Entries are pairs of property and value. *)
Entry(e) == encode_context_unsigned(0, property_code(e[1])) \o Enclosed(2, e[2])

encode_ucov_notification(m) ==
  LET f == m.fields IN
  <<16, 2>> \o encode_context_unsigned(0, f[1][1]) \o encode_context_object_id(1, f[2][1])
    \o encode_context_object_id(2, f[3][1]) \o encode_context_unsigned(3, f[4][1])
    \o encode_opening_tag(4) \o FlattenSeq([i \in 1 .. Len(f[5]) |-> Entry(f[5][i])])
    \o encode_closing_tag(4)

encode_apdu(m) ==
  CASE m.service = "WhoIs" -> encode_who_is(m)
    [] m.service = "IAm" -> encode_i_am(m)
    [] m.service = "ReadProperty" -> encode_read_property(m)
    [] m.service = "ReadPropertyAck" -> encode_read_property_ack(m)
    [] m.service = "WriteProperty" -> encode_write_property(m)
    [] m.service = "SimpleAck" -> encode_simple_ack(m)
    [] m.service = "Error" -> encode_error(m)
    [] m.service = "SubscribeCov" -> encode_subscribe_cov(m)
    [] m.service = "UnconfirmedCovNotification" -> encode_ucov_notification(m)

-----------------------------------------------------------------------------
(* Field descriptions: <<helper, tag>>; "need" fields must be present. *)
Required(r) == Then(r, LAMBDA f : IF f.v = None THEN Failed ELSE f)

(* A property by its code; a code of no name keeps its number. *)
AsProperty(r) == Then(r, LAMBDA f : Read(Some(from_property_code(f.v[1])), f.n))

(* A value of kind k, cut to the field it is stored in (u32 here has 30    *)
(* bits, as far as TLC's numbers reach).                                   *)
OfKind(k, span, r) ==
  IF ~r.ok THEN Failed
  ELSE IF r.v[1] # k THEN Failed
  ELSE IF k = "ObjectIdentifier" THEN r ELSE Read(<<k, r.v[2] % span>>, r.n)

(* A flag that is absent is false; a number is cut to a byte. *)
AsFlag(r) ==
  IF r.ok THEN Read(Some(IF r.v = None THEN 0 ELSE IF r.v[1] = 0 THEN 0 ELSE 1), r.n) ELSE Failed

AsByte(r) == IF r.ok /\ r.v # None THEN Read(Some(r.v[1] % 256), r.n) ELSE r

NumberField(kind, r) ==
  CASE kind = "unsigned" -> r
    [] kind = "flag" -> AsFlag(r)
    [] kind = "byte" -> AsByte(r)
    [] kind = "need_unsigned" -> Required(r)
    [] kind = "property" -> AsProperty(Required(r))

ReadField(s, f) ==
  CASE f[1] = "need_object" -> Required(decode_context_object_id(s, f[2]))
    [] f[1] = "open" -> expect_tag(s, f[2], 6)
    [] f[1] = "close" -> expect_tag(s, f[2], 7)
    [] f[1] = "value" -> decode_app_value(s)
    [] f[1] = "value_of" -> OfKind(f[2], f[3], decode_app_value(s))
    [] OTHER -> NumberField(f[1], decode_context_unsigned(s, f[2]))

Fields(s, fields) == ParseFields(s, fields, ReadField)

decode_who_is == << <<"unsigned", 0>>, <<"unsigned", 1>> >>

decode_i_am ==
  << <<"value_of", "ObjectIdentifier", 0>>, <<"value_of", "UnsignedInt", 2 ^ 30>>,
     <<"value_of", "Enumerated", 256>>, <<"value_of", "UnsignedInt", 65536>> >>

decode_read_property == << <<"need_object", 0>>, <<"property", 1>>, <<"unsigned", 2>> >>

decode_read_property_ack ==
  decode_read_property \o << <<"open", 3>>, <<"value", 3>>, <<"close", 3>> >>

decode_write_property == decode_read_property_ack \o << <<"byte", 4>> >>

decode_subscribe_cov ==
  << <<"need_unsigned", 0>>, <<"need_object", 1>>, <<"flag", 2>>, <<"unsigned", 3>> >>

CovHead ==
  << <<"need_unsigned", 0>>, <<"need_object", 1>>, <<"need_object", 2>>, <<"need_unsigned", 3>> >>

CovEntry ==
  << <<"property", 0>>, <<"unsigned", 1>>, <<"open", 2>>, <<"value", 2>>, <<"close", 2>> >>

MaxEntries == 8

(* Entries up to the closing tag; those beyond the vector's capacity are   *)
(* read and dropped.                                                       *)
RECURSIVE ReadEntries(_, _)
ReadEntries(s, entries) ==
  IF is_closing_tag(s, 4) THEN [ok |-> TRUE, rest |-> s, got |-> entries]
  ELSE Then(Fields(s, CovEntry), LAMBDA e :
         ReadEntries(e.rest, IF Len(entries) = MaxEntries THEN entries
                             ELSE Append(entries, <<e.got[1][1], e.got[4]>>)))

decode_ucov_notification(s) ==
  Then(Fields(s, CovHead), LAMBDA h :
    IF h.rest = <<>> THEN [h EXCEPT !.got = Append(@, <<>>)]
    ELSE Then(expect_tag(h.rest, 4, 6), LAMBDA o :
           Then(ReadEntries(Drop(h.rest, o.n), <<>>), LAMBDA e :
             [h EXCEPT !.got = Append(@, e.got)])))

(* A number of any tag, or 0 at the end. *)
ErrorNumber(s) ==
  IF s = <<>> THEN Read(Some(0), 0)
  ELSE Then(decode_tag(s), LAMBDA t :
         Then(decode_unsigned(Drop(s, t.n), t.v.lvt), LAMBDA n :
           Read(Some(n.v % 65536), t.n + n.n)))

decode_error(s) == ParseFields(s, <<1, 2>>, LAMBDA rest, f : ErrorNumber(rest))

Decoded(service, invoke, st) == IF st.ok THEN Some(Msg(service, invoke, st.got)) ELSE None

Unknown == Some(Msg("Unknown", 0, <<>>))

Unconfirmed(s) ==
  CASE Len(s) < 2 -> None
    [] Len(s) >= 2 /\ s[2] = 8 -> Decoded("WhoIs", 0, Fields(Drop(s, 2), decode_who_is))
    [] Len(s) >= 2 /\ s[2] = 0 -> Decoded("IAm", 0, Fields(Drop(s, 2), decode_i_am))
    [] Len(s) >= 2 /\ s[2] = 2 ->
         Decoded("UnconfirmedCovNotification", 0, decode_ucov_notification(Drop(s, 2)))
    [] OTHER -> Unknown

ConfirmedRequest(s) ==
  CASE Len(s) < 4 -> None
    [] Len(s) >= 4 /\ s[4] = 12 ->
         Decoded("ReadProperty", s[3], Fields(Drop(s, 4), decode_read_property))
    [] Len(s) >= 4 /\ s[4] = 15 ->
         Decoded("WriteProperty", s[3], Fields(Drop(s, 4), decode_write_property))
    [] Len(s) >= 4 /\ s[4] = 5 ->
         Decoded("SubscribeCov", s[3], Fields(Drop(s, 4), decode_subscribe_cov))
    [] OTHER -> Unknown

Acknowledgement(s) ==
  CASE Len(s) < 3 -> None
    [] Len(s) >= 3 /\ s[1] \div 16 = 2 -> Some(Msg("SimpleAck", s[2], <<Some(s[3])>>))
    [] Len(s) >= 3 /\ s[1] \div 16 = 5 ->
         LET e == decode_error(Drop(s, 3))
         IN IF e.ok THEN Some(Msg("Error", s[2], <<Some(s[3])>> \o e.got)) ELSE None
    [] Len(s) >= 3 /\ s[1] \div 16 = 3 /\ s[3] = 12 ->
         Decoded("ReadPropertyAck", s[2], Fields(Drop(s, 3), decode_read_property_ack))
    [] OTHER -> Unknown

decode_apdu(s) ==
  CASE s = <<>> -> None
    [] s # <<>> /\ s[1] \div 16 = 1 -> Unconfirmed(s)
    [] s # <<>> /\ s[1] \div 16 = 0 -> ConfirmedRequest(s)
    [] s # <<>> /\ s[1] \div 16 \in {2, 3, 5} -> Acknowledgement(s)
    [] OTHER -> Unknown
=============================================================================
