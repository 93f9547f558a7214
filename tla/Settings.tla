------------------------------ MODULE Settings ------------------------------
(***************************************************************************)
(* The configuration the parts of the bridge share: its defaults, what     *)
(* makes it acceptable, and the rule that applies to a point.              *)
(*                                                                         *)
(*   BridgeConfig, validate, find_point_rule_for_device   config.rs        *)
(*                                                                         *)
(* Texts are strings, "" the empty one; address bytes are left out.        *)
(***************************************************************************)
EXTENDS Integers, Sequences, TLC

MAGIC == "BAC0CA1E"
CONFIG_VERSION == 5

NetworkDefault == [dhcp |-> TRUE, ip |-> "192.168.1.100", subnet |-> "255.255.255.0",
                   gateway |-> "192.168.1.1", dns |-> "8.8.8.8"]

BacnetDefault == [device_id |-> 389999, device_name |-> "bacnet-bridge", mstp_mac |-> 1,
                  mstp_baud |-> 19200, max_master |-> 127]

(* A baud rate that the JSON leaves out is another than the default. *)
BacnetMissing == [BacnetDefault EXCEPT !.mstp_baud = 9600]

NtpDefault == [enabled |-> TRUE, use_dhcp_servers |-> TRUE, servers |-> <<"pool.ntp.org">>,
               sync_interval_secs |-> 3600]

SyslogDefault == [enabled |-> FALSE, server |-> "", port |-> 514]

MqttDefault == [enabled |-> FALSE, broker |-> "", port |-> 1883, client_id |-> "bacnet-bridge",
                username |-> "", password |-> "", topic_prefix |-> "bacnet-bridge",
                ha_discovery_enabled |-> FALSE, ha_discovery_prefix |-> "homeassistant",
                publish_points |-> <<>>, tls_enabled |-> FALSE]

SnmpDefault == [enabled |-> TRUE, community |-> "public"]

TlsDefault == [server_enabled |-> FALSE, https_port |-> 443]

OtaDefault == [auto_update |-> FALSE, manifest_url |-> "", channel |-> "release",
               check_interval_secs |-> 3600]

BridgeConfigDefault ==
  [magic |-> MAGIC, version |-> CONFIG_VERSION, provisioned |-> FALSE,
   network |-> NetworkDefault, hostname |-> "bacnet-bridge", bacnet |-> BacnetDefault,
   ntp |-> NtpDefault, syslog |-> SyslogDefault, mqtt |-> MqttDefault, snmp |-> SnmpDefault,
   tls |-> TlsDefault, ota |-> OtaDefault, users |-> <<>>, tokens |-> <<>>,
   convertors |-> <<>>, points |-> <<>>]

(* A section read from JSON: what it gives, and for the rest what stands   *)
(* for a missing field.                                                    *)
Deserialised(given, missing) == given @@ missing

VALID_BAUD_RATES == {0, 9600, 19200, 38400, 76800}
DEVICE_ID_MAX == 2 ^ 22 - 2

validate(c) ==
  /\ c.magic = MAGIC /\ c.version = CONFIG_VERSION
  /\ c.bacnet.mstp_mac <= 127
  /\ c.bacnet.mstp_baud \in VALID_BAUD_RATES
  /\ c.bacnet.device_id <= DEVICE_ID_MAX
  /\ c.bacnet.max_master \in 1 .. 127
  /\ c.hostname # ""
  /\ c.ntp.sync_interval_secs >= 60
  /\ c.syslog.enabled => c.syslog.port # 0 /\ c.syslog.server # ""
  /\ c.mqtt.enabled => c.mqtt.port # 0 /\ c.mqtt.broker # ""
  /\ c.snmp.enabled => c.snmp.community # ""

-----------------------------------------------------------------------------
(* Point rules: [device_id, object_type, object_instance, mode,            *)
(* convertor_id].                                                          *)
First(s, P(_)) == CHOOSE i \in 1 .. Len(s) : P(s[i]) /\ \A j \in 1 .. i - 1 : ~P(s[j])

Some1(s, P(_)) == \E i \in 1 .. Len(s) : P(s[i])

(* A rule whose convertor is gone keeps its mode and processes nothing. *)
resolve_rule(c, rule) ==
  LET Is(v) == rule.convertor_id # "" /\ v.id = rule.convertor_id IN
  [mode |-> rule.mode,
   processors |-> IF Some1(c.convertors, Is)
                  THEN c.convertors[First(c.convertors, Is)].processors ELSE <<>>]

Unruled == [mode |-> "Passthrough", processors |-> <<>>]

(* The first rule that matches. *)
RuleOf(c, Matches(_)) ==
  IF Some1(c.points, Matches) THEN resolve_rule(c, c.points[First(c.points, Matches)]) ELSE Unruled

find_point_rule_for_device(c, device, type, instance) ==
  RuleOf(c, LAMBDA r : r.device_id = device /\ r.object_type = type
                       /\ r.object_instance = instance)
=============================================================================
