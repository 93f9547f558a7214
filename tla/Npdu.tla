-------------------------------- MODULE Npdu --------------------------------
(***************************************************************************)
(* The network layer's header and the BACnet/IP header around it.          *)
(*                                                                         *)
(*   encode_npdu, decode_npdu    bridge-core/src/npdu.rs                   *)
(*   encode_bvlc, decode_bvlc    bridge-core/src/bvlc.rs                   *)
(*                                                                         *)
(* A header's destination and source are absent or [net, mac]; the hop     *)
(* count is sent with a destination only.                                  *)
(***************************************************************************)
EXTENDS Octets

MaxMac == 7

NpduHeader(netmsg, dest, src, hop, reply, priority) ==
  [netmsg |-> netmsg, dest |-> dest, src |-> src, hop |-> hop,
   reply |-> reply, priority |-> priority]

Bit(b, weight) == IF b THEN weight ELSE 0
IsSet(byte, weight) == (byte \div weight) % 2 = 1

Control(h) ==
  Bit(h.netmsg, 128) + Bit(h.dest # None, 32) + Bit(h.src # None, 8) + Bit(h.reply, 4)
    + (h.priority % 4)

Address(a) == IF a = None THEN <<>> ELSE BE(a[1].net, 2) \o <<Len(a[1].mac)>> \o a[1].mac

MacTooLong(a) == a # None /\ Len(a[1].mac) > MaxMac

encode_npdu(h, apdu) ==
  IF MacTooLong(h.dest) \/ MacTooLong(h.src) THEN None
  ELSE Some(<<1, Control(h)>> \o Address(h.dest) \o Address(h.src)
              \o (IF h.dest = None THEN <<>> ELSE <<h.hop>>) \o apdu)

read_address(s) ==
  IF Len(s) < 3 THEN Failed
  ELSE IF s[3] > MaxMac \/ Len(s) < 3 + s[3] THEN Failed
  ELSE Read(Some([net |-> Number(SubSeq(s, 1, 2)), mac |-> SubSeq(s, 4, 3 + s[3])]), 3 + s[3])

(* The fields that the control byte announces; one that is not announced   *)
(* takes no byte.                                                          *)
ReadAnnounced(s, field) ==
  CASE field = "address" -> read_address(s)
    [] field = "hop" -> IF s = <<>> THEN Failed ELSE Read(s[1], 1)
    [] field = "absent" -> Read(None, 0)
    [] field = "no hop" -> Read(0, 0)

Announced(ctrl) ==
  << IF IsSet(ctrl, 32) THEN "address" ELSE "absent",
     IF IsSet(ctrl, 8) THEN "address" ELSE "absent",
     IF IsSet(ctrl, 32) THEN "hop" ELSE "no hop" >>

(* The header and the APDU behind it. *)
decode_npdu(s) ==
  IF Len(s) < 2 THEN None
  ELSE IF s[1] # 1 THEN None
  ELSE LET ctrl == s[2]
           f == ParseFields(Drop(s, 2), Announced(ctrl), ReadAnnounced)
       IN IF ~f.ok THEN None
          ELSE Some([header |-> NpduHeader(IsSet(ctrl, 128), f.got[1], f.got[2], f.got[3],
                                           IsSet(ctrl, 4), ctrl % 4),
                     apdu |-> f.rest])

-----------------------------------------------------------------------------
(* BVLC: the type, the function, the length of the whole datagram. *)
Forwarded == 4

encode_bvlc(function, npdu) ==
  IF Len(npdu) + 4 > 65535 THEN None
  ELSE Some(<<129, function>> \o BE(Len(npdu) + 4, 2) \o npdu)

(* Mutant: the datagram's length is trusted over the header's. *)
decode_bvlc_unchecked(s) ==
  IF Len(s) < 4 THEN None
  ELSE IF s[1] # 129 THEN None
  ELSE Some([function |-> s[2], npdu |-> Drop(s, IF s[2] = Forwarded THEN 10 ELSE 4)])

(* A forwarded NPDU has its sender's address in front of it.  A length     *)
(* below 4 in another function has no outcome here.                        *)
decode_bvlc(s) ==
  IF Len(s) < 4 THEN None
  ELSE LET length == Number(SubSeq(s, 3, 4))
           start == IF s[2] = Forwarded THEN 10 ELSE 4
       IN IF s[1] # 129 \/ length > Len(s) \/ (s[2] = Forwarded /\ length < 10) THEN None
          ELSE Some([function |-> s[2], npdu |-> SubSeq(s, start + 1, length)])
=============================================================================
