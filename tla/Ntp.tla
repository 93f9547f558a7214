-------------------------------- MODULE Ntp --------------------------------
(***************************************************************************)
(* SNTP packets and syslog lines, the two formats of the time and log      *)
(* clients.                                                                *)
(*                                                                         *)
(*   encode_request, decode_response, decode_packet  bridge-core/src/ntp.rs *)
(*   format_syslog                                bridge-core/src/syslog.rs *)
(*                                                                         *)
(* A timestamp is [seconds, fraction], each the four bytes of a u32.  A    *)
(* line's header is the tuple of its texts; only its length matters        *)
(* besides.                                                                *)
(***************************************************************************)
EXTENDS Octets

CONSTANT LineCap   \* bytes of a syslog datagram (512)

SNTP_PACKET_LEN == 48

Zeros(n) == [i \in 1 .. n |-> 0]

(* Version 4, mode 3, everything else 0. *)
encode_request == <<35>> \o Zeros(SNTP_PACKET_LEN - 1)

read_u32(s, offset) == SubSeq(s, offset + 1, offset + 4)

read_ntp_timestamp(s, offset) ==
  [seconds |-> read_u32(s, offset), fraction |-> read_u32(s, offset + 4)]

(* The transmit time; stratum 0 refuses the request. *)
decode_response(s) ==
  IF Len(s) < SNTP_PACKET_LEN THEN None
  ELSE IF (s[1] \div 8) % 8 \notin {3, 4} \/ s[2] = 0 THEN None
  ELSE Some(read_ntp_timestamp(s, 40))

decode_packet(s) ==
  IF Len(s) < SNTP_PACKET_LEN THEN None
  ELSE Some([li_vn_mode |-> s[1], stratum |-> s[2], poll |-> s[3], precision |-> s[4],
             root_delay |-> read_u32(s, 4), root_dispersion |-> read_u32(s, 8),
             ref_id |-> read_u32(s, 12), ref_ts |-> read_ntp_timestamp(s, 16),
             origin_ts |-> read_ntp_timestamp(s, 24), recv_ts |-> read_ntp_timestamp(s, 32),
             transmit_ts |-> read_ntp_timestamp(s, 40)])

(* External: a server's packet, field by field. *)
Packed(p) ==
  <<p.li_vn_mode, p.stratum, p.poll, p.precision>> \o p.root_delay \o p.root_dispersion
    \o p.ref_id \o p.ref_ts.seconds \o p.ref_ts.fraction
    \o p.origin_ts.seconds \o p.origin_ts.fraction \o p.recv_ts.seconds \o p.recv_ts.fraction
    \o p.transmit_ts.seconds \o p.transmit_ts.fraction

-----------------------------------------------------------------------------
syslog_pri(facility, severity) == facility * 8 + severity

(* Decimal digits, without leading zeros. *)
write_decimal_u8(n) ==
  CASE n >= 100 -> <<n \div 100, (n \div 10) % 10, n % 10>>
    [] n \in 10 .. 99 -> <<n \div 10, n % 10>>
    [] OTHER -> <<n>>

(* "<PRI>1 - HOST bacnet-bridge - - - ": brackets, version, nil values and *)
(* the name of the application take 27 bytes.                              *)
HeaderLength(pri, host) == Len(write_decimal_u8(pri)) + Len(host) + 27

(* As much of the message as fits; a header that does not is an error. *)
format_syslog(facility, severity, host, msg) ==
  LET pri == syslog_pri(facility, severity)
      room == LineCap - HeaderLength(pri, host)
  IN IF room < 0 THEN None
     ELSE Some([pri |-> write_decimal_u8(pri), host |-> host,
                msg |-> SubSeq(msg, 1, IF Len(msg) < room THEN Len(msg) ELSE room)])
=============================================================================
