-------------------------------- MODULE Mqtt --------------------------------
(***************************************************************************)
(* MQTT packets, and what the client publishes about a point.              *)
(*                                                                         *)
(*   encode_*, decode_*, ha_discovery_topic, format_ha_discovery           *)
(*                                     bridge-core/src/mqtt.rs             *)
(*   publish_ha_discovery_generic, build_state_topic, format_value         *)
(*                                     firmware/src/mqtt.rs                *)
(*                                                                         *)
(* Strings are byte sequences.  A topic is the tuple of its parts, since   *)
(* the separators cannot occur in them; its length matters only against    *)
(* the capacities.  A Real is its value in hundredths.                     *)
(***************************************************************************)
EXTENDS Octets

CONSTANTS
  UniqueCap,   \* bytes of a unique id (64)
  ValueCap     \* bytes of a published string (31)

CONNECT == 1
CONNACK == 2
PUBLISH == 3

-----------------------------------------------------------------------------
write_mqtt_str(s) == BE(Len(s), 2) \o s

(* Seven bits a byte, least significant first, all but the last marked. *)
write_remaining_length(n) ==
  LET w == CASE n < 128 -> 1 [] n < 16384 -> 2 [] n < 2097152 -> 3 [] OTHER -> 4
  IN [i \in 1 .. w |-> ((n \div 128 ^ (i - 1)) % 128) + (IF i < w THEN 128 ELSE 0)]

Packet(first, body) == <<first>> \o write_remaining_length(Len(body)) \o body

Present(f) == IF f = None THEN <<>> ELSE write_mqtt_str(f[1])

encode_connect(client, keepAlive, username, password) ==
  Packet(CONNECT * 16,
         write_mqtt_str(<<77, 81, 84, 84>>)
           \o <<4, 2 + (IF username = None THEN 0 ELSE 128) + (IF password = None THEN 0 ELSE 64)>>
           \o BE(keepAlive, 2) \o write_mqtt_str(client) \o Present(username) \o Present(password))

encode_publish(topic, payload, retain) ==
  Packet(PUBLISH * 16 + (IF retain THEN 1 ELSE 0), write_mqtt_str(topic) \o payload)

encode_pingreq == <<192, 0>>
encode_disconnect == <<224, 0>>

(* At most four bytes. *)
decode_remaining_length(s) ==
  LET ends == {i \in 1 .. Len(s) : s[i] < 128}
      n == CHOOSE i \in ends : \A j \in ends : i <= j
  IN IF ends = {} THEN Failed
     ELSE IF n > 4 THEN Failed
     ELSE Read(FoldLeft(LAMBDA acc, b : acc * 128 + (b % 128), 0, Reverse(SubSeq(s, 1, n))), n)

decode_packet_type(s) ==
  IF s = <<>> THEN Failed
  ELSE LET r == decode_remaining_length(Tail(s)) IN
       IF r.ok THEN Read(<<s[1] \div 16, r.v>>, 1 + r.n) ELSE Failed

(* Whether the broker accepts, if this is an answer to CONNECT at all. *)
decode_connack(s) ==
  IF Len(s) < 4 THEN None
  ELSE IF s[1] \div 16 # CONNACK \/ s[2] # 2 THEN None
  ELSE Some(s[4] = 0)

-----------------------------------------------------------------------------
(* A point is [device, type, instance] with the device's name. *)
BinaryTypes == {3, 4, 5}

build_state_topic(p) == <<"state", p.type, p.instance>>

ClientName == <<98, 98>>

DeviceName(p) == IF p.device = <<>> THEN ClientName ELSE p.device

ha_discovery_topic(p) ==
  <<IF p.type \in BinaryTypes THEN "binary_sensor" ELSE "sensor", DeviceName(p), p.type,
    p.instance>>

(* The fixed parts of a unique id take 10 bytes and more; a name that      *)
(* leaves no room for them makes no payload.                               *)
format_ha_discovery(p) ==
  IF Len(DeviceName(p)) + 10 > UniqueCap THEN None
  ELSE Some([unique_id |-> <<DeviceName(p), p.type, p.instance>>,
             state_topic |-> build_state_topic(p),
             unit |-> p.type \notin BinaryTypes, identifiers |-> DeviceName(p)])

(* The retained message for a point: nothing if a text does not fit. *)
publish_ha_discovery(p) ==
  IF format_ha_discovery(p) = None THEN None
  ELSE Some(<<ha_discovery_topic(p), format_ha_discovery(p)[1], TRUE>>)

Abs(n) == IF n < 0 THEN -n ELSE n

(* Integer part, truncated towards zero, and two digits. *)
format_real(h) == <<(IF h < 0 THEN -1 ELSE 1) * (Abs(h) \div 100), Abs(h) % 100>>

(* What the text of a value says. *)
format_value(v) ==
  CASE v[1] = "Real" -> <<"fixed", format_real(v[2])>>
    [] v[1] = "CharString" -> <<"text", SubSeq(v[2], 1, IF Len(v[2]) > ValueCap THEN ValueCap ELSE Len(v[2]))>>
    [] v[1] = "Boolean" -> <<"bool", v[2]>>
    [] v[1] = "Null" -> <<"null">>
    [] v[1] = "ObjectIdentifier" -> <<"pair", v[2]>>
    [] OTHER -> <<"integer", v[2]>>
=============================================================================
