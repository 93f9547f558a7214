------------------------------ MODULE Exchange ------------------------------
(***************************************************************************)
(* Messages on their way between the bridge and its peers: one side        *)
(* encodes a message, the network delivers it whole or cut short, the      *)
(* other side decodes it.  The formats are those of the modules extended;  *)
(* what a broker or a collector makes of the bridge's packets, and a time  *)
(* server's and a manager's packets, are external.                         *)
(***************************************************************************)
EXTENDS Apdu, Npdu, Snmp, Mdns, Mqtt, Ntp

CONSTANT Messages   \* <<format, message>> pairs to exchange

VARIABLES
  sent,   \* the message
  wire,   \* its bytes
  got     \* what the receiver read: not yet, nothing, or something

exchangeVars == <<sent, wire, got>>

Waiting == "waiting"

-----------------------------------------------------------------------------
(* BACnet: [header, apdu], over IP in a BVLC header of function 10.        *)
Pdu(m) == encode_npdu(m.header, encode_apdu(m.apdu))[1]

ReadPdu(s) ==
  IfSome(decode_npdu(s), LAMBDA n :
    IfSome(decode_apdu(n.apdu), LAMBDA a : Some([header |-> n.header, apdu |-> a])))

ReadDatagram(s) ==
  IfSome(decode_bvlc(s), LAMBDA b : ReadPdu(b.npdu))

(* External: the broker's reading of a string, and of a whole packet.      *)
ReadString(s, present) ==
  IF ~present THEN Read(None, 0)
  ELSE IF Len(s) < 2 \/ Len(s) < 2 + Number(SubSeq(s, 1, 2)) THEN Failed
  ELSE LET n == Number(SubSeq(s, 1, 2)) IN Read(Some(SubSeq(s, 3, 2 + n)), 2 + n)

ReadConnect(body) ==
  LET f == ParseFields(Drop(body, 10), <<TRUE, IsSet(body[8], 128), IsSet(body[8], 64)>>,
                       ReadString)
  IN [client |-> f.got[1], keepAlive |-> Number(SubSeq(body, 9, 10)),
      username |-> f.got[2], password |-> f.got[3]]

ReadPublish(body, retain) ==
  LET t == ReadString(body, TRUE)
  IN [topic |-> t.v[1], payload |-> Drop(body, t.n), retain |-> retain]

BrokerReads(s) ==
  LET p == decode_packet_type(s)
      body == Drop(s, p.n)
  IN IF ~p.ok THEN None
     ELSE IF Len(body) < p.v[2] THEN None
     ELSE Some(CASE p.v[1] = CONNECT -> ReadConnect(body)
                 [] p.v[1] = PUBLISH -> ReadPublish(body, IsSet(s[1], 1))
                 [] OTHER -> p.v[1])

(* External: Home Assistant looks for a point's value under the topic its  *)
(* configuration names.                                                    *)
HomeReads(config, topic, text) ==
  IF config = None THEN None
  ELSE Some([id |-> config[1][2].unique_id, component |-> config[1][1][1],
             value |-> IF config[1][2].state_topic = topic THEN text ELSE <<"unknown">>])

(* The parts of a syslog line and of a point's texts are kept apart; these *)
(* are not cut.                                                            *)
Texts == {"syslog", "point"}

EncodedAs(format, m) ==
  CASE format = "ip" -> encode_bvlc(10, Pdu(m))[1]
    [] format = "forwarded" -> encode_bvlc(Forwarded, <<10, 0, 0, 9, 186, 192>> \o Pdu(m))[1]
    [] format = "mstp" -> Pdu(m)
    [] format = "snmp" -> Request(m)
    [] format = "mdns" -> Query(m.name, m.qtype)
    [] format = "connect" -> encode_connect(m.client[1], m.keepAlive, m.username, m.password)
    [] format = "publish" -> encode_publish(m.topic, m.payload, m.retain)
    [] format = "control" -> IF m = 12 THEN encode_pingreq ELSE encode_disconnect
    [] format = "connack" -> <<CONNACK * 16, 2, 0, IF m THEN 0 ELSE 5>>
    [] format = "ntp" -> Packed(m)
    [] format = "ask" -> encode_request
    [] format = "point" -> <<publish_ha_discovery(m), build_state_topic(m), format_value(m.value)>>
    [] format = "syslog" -> format_syslog(m.facility, m.severity, m.host, m.msg)

DecodedAs(format, s) ==
  CASE format \in {"ip", "forwarded"} -> ReadDatagram(s)
    [] format = "mstp" -> ReadPdu(s)
    [] format = "snmp" -> decode_get_request(s)
    [] format = "mdns" -> decode_query(s)
    [] format \in {"connect", "publish", "control"} -> BrokerReads(s)
    [] format = "connack" -> decode_connack(s)
    [] format \in {"ntp", "ask"} -> decode_packet(s)
    [] format = "point" -> HomeReads(s[1], s[2], s[3])
    [] format = "syslog" -> s

ExchangeInit ==
  /\ sent \in Messages
  /\ wire = EncodedAs(sent[1], sent[2])
  /\ got = Waiting

(* The last n bytes are lost on the way. *)
Delivered(n) ==
  /\ got = Waiting
  /\ wire' = SubSeq(wire, 1, Len(wire) - n)
  /\ got' = DecodedAs(sent[1], wire')
  /\ UNCHANGED sent

ExchangeNext ==
  \/ Delivered(0)
  \/ sent[1] \notin Texts /\ \E n \in 1 .. Len(wire) : Delivered(n)

-----------------------------------------------------------------------------
Whole == wire = EncodedAs(sent[1], sent[2])

(* What a reader of the line makes of its first part. *)
Decimal(digits) == FoldLeft(LAMBDA acc, d : acc * 10 + d, 0, digits)

(* The number shown is the point's, short of the hundredths' fraction; the *)
(* sign of one between -1 and 0 is lost.                                   *)
ShownRight(v, text) ==
  CASE v[1] = "Real" -> v[2] \in -99 .. -1
                          \/ text[2][1] * 100 + (IF v[2] < 0 THEN -1 ELSE 1) * text[2][2] = v[2]
    [] v[1] = "CharString" -> IsPrefix(text[2], v[2])
    [] v[1] = "Null" -> text = <<"null">>
    [] OTHER -> text[2] = v[2]

(* As sent; of a time packet the answer is the time it was transmitted,    *)
(* and a packet of stratum 0 is refused; a syslog line may lose the end of *)
(* its message.                                                            *)
ReadAsSent(m) ==
  CASE sent[1] = "ntp" ->
         got = Some(m) /\ decode_response(wire) = IF m.stratum = 0 THEN None
                                                  ELSE Some(m.transmit_ts)
    [] sent[1] = "syslog" ->
         IF got = None THEN Len(m.host) + 30 > LineCap
         ELSE /\ Decimal(got[1].pri) = 8 * m.facility + m.severity
              /\ got[1].host = m.host /\ IsPrefix(got[1].msg, m.msg)
              /\ (Len(m.host) + Len(m.msg) + 30 <= LineCap) => got[1].msg = m.msg
    [] sent[1] = "ask" -> got[1].li_vn_mode = m.version * 8 + m.mode
    [] sent[1] = "point" ->
         IF got = None THEN Len(DeviceName(m)) + 10 > UniqueCap
         ELSE /\ got[1].id = <<DeviceName(m), m.type, m.instance>>
              /\ got[1].component = "binary_sensor" <=> m.type \in BinaryTypes
              /\ got[1].value[1] # "unknown" /\ ShownRight(m.value, got[1].value)
    [] sent[1] = "mdns" -> got = Some([name |-> m.name, qtype |-> m.qtype, qclass |-> 1])
    [] OTHER -> got = Some(m)

(* What one side encodes the other reads back, whichever fields are        *)
(* present and however wide they are: an encoder and a decoder of the same *)
(* format disagree nowhere (apdu.rs, npdu.rs, bvlc.rs, snmp.rs, mdns.rs,   *)
(* mqtt.rs, ntp.rs, syslog.rs).                                            *)
RoundTrip == (got # Waiting /\ Whole) => ReadAsSent(sent[2])

(* The fields of a message whose end is missing: those there agree, behind *)
(* one that is absent all are.  A number of an error and the flag of a     *)
(* subscription are 0 when absent.                                         *)
Missing(b, i) ==
  \/ b.service \in {"Error", "SubscribeCov"} /\ b.fields[i] = Some(0)
  \/ b.fields[i] = None

Agrees(a, b) ==
  /\ a.service = b.service /\ a.invoke = b.invoke
  /\ \A i \in 1 .. Len(b.fields) :
       \/ a.fields[i] = b.fields[i]
       \/ \A j \in i .. Len(b.fields) : Missing(b, j)

(* A message cut short is refused; on the serial side, where no length     *)
(* precedes the PDU, what is left may pass for the message without its     *)
(* optional last fields, never for another one (bvlc.rs:69-101,            *)
(* apdu.rs:866-1142, snmp.rs, mdns.rs, mqtt.rs, ntp.rs).                   *)
CutNotMisread ==
  (got # Waiting /\ ~Whole /\ got # None) =>
    sent[1] = "mstp" /\ got[1].header = sent[2].header /\ Agrees(sent[2].apdu, got[1].apdu)
=============================================================================
