------------------------------ MODULE BridgePath ------------------------------
(***************************************************************************)
(* The path of a PDU through the bridge: Core 1 (MS/TP), the two rings and *)
(* the two Core 0 tasks that use them.                                     *)
(*                                                                         *)
(*   Core 1          csrc/core1_entry.c, csrc/mstp_port.c                  *)
(*   bacnet_ip_task  firmware/src/bacnet_ip.rs                             *)
(*   router task     firmware/src/bacnet_router.rs                         *)
(*                                                                         *)
(* A ring call is one step here (IpcRing models the inside of a call,      *)
(* RingSharing what happens when calls of the two cores overlap).  The     *)
(* Core 0 tasks are cooperative: a step runs from one await point to the   *)
(* next.  A PDU is the network it came from, what it is, and the network   *)
(* an answer is for.                                                       *)
(***************************************************************************)
EXTENDS Integers, Sequences, FiniteSets

CONSTANTS
  RingSize,    \* capacity of each ring
  MaxFrames,   \* bound: MS/TP data frames received
  MaxPackets,  \* bound: UDP packets received
  MaxWhoIs     \* bound: Who-Is broadcasts the router issues

ASSUME TrafficAssumption ==
  /\ RingSize \in Nat \ {0}
  /\ MaxFrames \in Nat /\ MaxPackets \in Nat /\ MaxWhoIs \in Nat

(* What the router distinguishes: a Who-Is for us, a ReadProperty of our   *)
(* device object, our own answers, an empty APDU, and everything else      *)
(* (I-Am, ACK, COV: they update BridgeState and put nothing on a ring).    *)
Kind == {"whois", "readprop", "iam", "ack", "empty", "other"}
Network == {"mstp", "ip"}

BacnetPdu == [from : Network \cup {"bridge"}, kind : Kind,
        to : Network \cup {"any"}]

VARIABLES
  mstp_to_ip, ip_to_mstp,  \* the rings
  router,     \* where the router task is: "boot", "mstp", "ip", "sleep"
  ipTask,     \* where bacnet_ip_task is: "drain", "send", "recv"
  outgoing,   \* the PDU bacnet_ip_task is sending, if any
  udpOut,     \* the last datagram put on the IP network, if any
  busOut,     \* the last PDU put on the MS/TP bus, if any
  consumed,   \* the last PDU the router popped, if any
  frames, packets, whois   \* how often each bounded event has happened

core0Vars == <<router, ipTask, outgoing>>
countVars == <<frames, packets, whois>>
pathVars == <<mstp_to_ip, ip_to_mstp, core0Vars, udpOut, busOut, consumed, countVars>>

-----------------------------------------------------------------------------
(* A push that a full ring refuses; every caller drops the PDU then.       *)
Pushed(ring, pdu) == IF Len(ring) < RingSize THEN Append(ring, pdu) ELSE ring

(* PDUs the router makes start with the APDU; their source is zeroed.      *)
OwnPdu(kind, to) ==
  [from |-> "bridge", kind |-> kind, to |-> to]

(* send_reply goes back by the length of the requester's MAC: one byte is  *)
(* MS/TP, anything else (six bytes, or the zeroed source of an own PDU)    *)
(* is BACnet/IP.                                                           *)
ReplyTo(pdu) == IF pdu.from = "mstp" THEN "mstp" ELSE "ip"

(* Mutant: the test of the MAC length the wrong way round. *)
ReplyRing_swapped(pdu) == IF pdu.from = "mstp" THEN "mstp_to_ip" ELSE "ip_to_mstp"

ReplyRing(pdu) == IF pdu.from = "mstp" THEN "ip_to_mstp" ELSE "mstp_to_ip"

(* Mutant: an I-Am, our own included, is answered with a Who-Is. *)
Answer_whois_storm(pdu) ==
  CASE pdu.kind = "whois" -> {OwnPdu("iam", "any")}
    [] pdu.kind = "iam" -> {OwnPdu("whois", "any")}
    [] pdu.kind = "readprop" -> {OwnPdu("ack", ReplyTo(pdu))}
    [] OTHER -> {}

(* Mutant: what the router has no handler for goes on to UDP. *)
Answer_forward(pdu) ==
  CASE pdu.kind = "whois" -> {OwnPdu("iam", "any")}
    [] pdu.kind = "readprop" -> {OwnPdu("ack", ReplyTo(pdu))}
    [] OTHER -> {pdu}

(* handle_decoded_apdu: what goes onto a ring in answer to a popped PDU.   *)
Answer(pdu) ==
  CASE pdu.kind = "whois" -> {OwnPdu("iam", "any")}
    [] pdu.kind = "readprop" -> {OwnPdu("ack", ReplyTo(pdu))}
    [] OTHER -> {}

AnswerRing(pdu) == IF pdu.kind = "readprop" THEN ReplyRing(pdu) ELSE "mstp_to_ip"

(* The router handles pdu, the rings being m and i after the pop.          *)
Handle(pdu, m, i) ==
  /\ consumed' = {pdu}
  /\ \/ /\ Answer(pdu) = {}
        /\ mstp_to_ip' = m /\ ip_to_mstp' = i
     \/ \E a \in Answer(pdu) :
          /\ mstp_to_ip' = IF AnswerRing(pdu) = "mstp_to_ip" THEN Pushed(m, a) ELSE m
          /\ ip_to_mstp' = IF AnswerRing(pdu) = "ip_to_mstp" THEN Pushed(i, a) ELSE i
  /\ UNCHANGED <<ipTask, outgoing, udpOut, busOut, countVars>>

-----------------------------------------------------------------------------
PathInit ==
  /\ mstp_to_ip = <<>> /\ ip_to_mstp = <<>>
  /\ router = "boot" /\ ipTask = "drain" /\ outgoing = <<>>
  /\ udpOut = {} /\ busOut = {} /\ consumed = {}
  /\ frames = 0 /\ packets = 0 /\ whois = 0

(* Core 1: a valid BACnet data frame ends mstp_receive_check; the result   *)
(* of the push is ignored.  The payload is the whole NPDU.                 *)
mstp_receive_check(k) ==
  /\ frames < MaxFrames
  /\ mstp_to_ip' = Pushed(mstp_to_ip, [from |-> "mstp", kind |-> k, to |-> "any"])
  /\ frames' = frames + 1
  /\ UNCHANGED <<ip_to_mstp, core0Vars, udpOut, busOut, consumed, packets, whois>>

(* Core 1: pop one PDU and put its payload on the bus; an empty payload is *)
(* discarded.                                                              *)
mstp_transmit_outbound ==
  /\ ip_to_mstp # <<>>
  /\ ip_to_mstp' = Tail(ip_to_mstp)
  /\ busOut' = IF Head(ip_to_mstp).kind = "empty" THEN busOut
               ELSE {Head(ip_to_mstp)}
  /\ UNCHANGED <<mstp_to_ip, core0Vars, udpOut, consumed, countVars>>

-----------------------------------------------------------------------------
(* bacnet_ip_task: drain mstp_to_ip into UDP, then wait for a packet.      *)
IpPop ==
  /\ ipTask = "drain" /\ mstp_to_ip # <<>>
  /\ outgoing' = <<Head(mstp_to_ip)>>
  /\ mstp_to_ip' = Tail(mstp_to_ip)
  /\ ipTask' = "send"
  /\ UNCHANGED <<ip_to_mstp, router, udpOut, busOut, consumed, countVars>>

IpSend ==
  /\ ipTask = "send"
  /\ udpOut' = {outgoing[1]}
  /\ outgoing' = <<>> /\ ipTask' = "drain"
  /\ UNCHANGED <<mstp_to_ip, ip_to_mstp, router, busOut, consumed, countVars>>

(* send_to fails: the PDU is gone. *)
IpSendFails ==
  /\ ipTask = "send"
  /\ outgoing' = <<>> /\ ipTask' = "drain"
  /\ UNCHANGED <<mstp_to_ip, ip_to_mstp, router, udpOut, busOut, consumed, countVars>>

IpDrained ==
  /\ ipTask = "drain" /\ mstp_to_ip = <<>>
  /\ ipTask' = "recv"
  /\ UNCHANGED <<mstp_to_ip, ip_to_mstp, router, outgoing, udpOut, busOut, consumed,
                 countVars>>

(* recv_from returns a packet that handle_incoming accepts: the NPDU       *)
(* header is stripped and the APDU, possibly empty, pushed.                *)
IpReceive(k) ==
  /\ ipTask = "recv" /\ packets < MaxPackets
  /\ ip_to_mstp' = Pushed(ip_to_mstp, [from |-> "ip", kind |-> k, to |-> "any"])
  /\ packets' = packets + 1
  /\ ipTask' = "drain"
  /\ UNCHANGED <<mstp_to_ip, router, outgoing, udpOut, busOut, consumed, frames, whois>>

(* recv_from fails, or handle_incoming rejects the packet. *)
IpReceiveNothing ==
  /\ ipTask = "recv" /\ packets < MaxPackets
  /\ packets' = packets + 1
  /\ ipTask' = "drain"
  /\ UNCHANGED <<mstp_to_ip, ip_to_mstp, router, outgoing, udpOut, busOut, consumed,
                 frames, whois>>

-----------------------------------------------------------------------------
(* Router: a Who-Is goes out on the ring that leads to UDP.                *)
send_who_is_broadcast ==
  /\ mstp_to_ip' = Pushed(mstp_to_ip, OwnPdu("whois", "any"))
  /\ whois' = whois + 1

RouterBoot ==
  /\ router = "boot" /\ whois < MaxWhoIs
  /\ send_who_is_broadcast
  /\ router' = "mstp"
  /\ UNCHANGED <<ip_to_mstp, ipTask, outgoing, udpOut, busOut, consumed, frames, packets>>

(* process_mstp_pdus: one turn of its loop, and its end. *)
RouterMstp ==
  /\ router = "mstp" /\ mstp_to_ip # <<>>
  /\ Handle(Head(mstp_to_ip), Tail(mstp_to_ip), ip_to_mstp)
  /\ UNCHANGED router

RouterMstpDone ==
  /\ router = "mstp" /\ mstp_to_ip = <<>>
  /\ router' = "ip"
  /\ UNCHANGED <<mstp_to_ip, ip_to_mstp, ipTask, outgoing, udpOut, busOut, consumed,
                 countVars>>

(* process_ip_pdus: one turn of its loop. *)
RouterIp ==
  /\ router = "ip" /\ ip_to_mstp # <<>>
  /\ Handle(Head(ip_to_mstp), mstp_to_ip, Tail(ip_to_mstp))
  /\ UNCHANGED router

(* The end of the iteration; poll_device_points sends nothing, since no    *)
(* code sets the online flag it tests (see BridgeState).                   *)
RouterIpDone ==
  /\ router = "ip" /\ ip_to_mstp = <<>>
  /\ router' = "sleep"
  /\ UNCHANGED <<mstp_to_ip, ip_to_mstp, ipTask, outgoing, udpOut, busOut, consumed,
                 countVars>>

(* Every 300th iteration ends with a Who-Is: at some iteration ends. *)
RouterIpDoneWhoIs ==
  /\ router = "ip" /\ ip_to_mstp = <<>> /\ whois < MaxWhoIs
  /\ send_who_is_broadcast
  /\ router' = "sleep"
  /\ UNCHANGED <<ip_to_mstp, ipTask, outgoing, udpOut, busOut, consumed, frames, packets>>

RouterWake ==
  /\ router = "sleep"
  /\ router' = "mstp"
  /\ UNCHANGED <<mstp_to_ip, ip_to_mstp, ipTask, outgoing, udpOut, busOut, consumed,
                 countVars>>

-----------------------------------------------------------------------------
Receivable == {"whois", "readprop", "other"}

RouterStep == RouterBoot \/ RouterMstp \/ RouterMstpDone \/ RouterIp \/ RouterIpDone
              \/ RouterIpDoneWhoIs \/ RouterWake
IpStep == IpPop \/ IpSend \/ IpSendFails \/ IpDrained
PathNext ==
  \/ \E k \in Receivable : mstp_receive_check(k)
  \/ mstp_transmit_outbound
  \/ IpStep
  \/ \E k \in Receivable \cup {"empty"} : IpReceive(k)
  \/ IpReceiveNothing
  \/ RouterStep

(* The executor polls every ready task and Core 1 loops forever; nothing   *)
(* is assumed of the two networks, nor that a send succeeds.               *)
PathSpec ==
  /\ PathInit /\ [][PathNext]_pathVars
  /\ WF_pathVars(RouterStep) /\ WF_pathVars(IpStep) /\ WF_pathVars(mstp_transmit_outbound)

-----------------------------------------------------------------------------
PathTypeOK ==
  /\ mstp_to_ip \in Seq(BacnetPdu) /\ Len(mstp_to_ip) <= RingSize
  /\ ip_to_mstp \in Seq(BacnetPdu) /\ Len(ip_to_mstp) <= RingSize
  /\ router \in {"boot", "mstp", "ip", "sleep"} /\ ipTask \in {"drain", "send", "recv"}
  /\ outgoing \in Seq(BacnetPdu) /\ Len(outgoing) <= 1
  /\ udpOut \subseteq BacnetPdu /\ busOut \subseteq BacnetPdu /\ consumed \subseteq BacnetPdu
  /\ frames \in 0 .. MaxFrames /\ packets \in 0 .. MaxPackets
  /\ whois \in 0 .. MaxWhoIs

(* Nothing returns to the network it came from, directly or as something   *)
(* the router answered to itself: the bridge starts no forwarding loop     *)
(* (bacnet_ip.rs:70-95, bacnet_router.rs:92-134, core1_entry.c:203-240).   *)
NoEcho ==
  /\ \A p \in udpOut : p.from # "ip"
  /\ \A p \in busOut : p.from # "mstp"

(* An answer to a ReadProperty leaves, if it leaves, by the network of the *)
(* request, however the two consumers of each ring interleave              *)
(* (bacnet_router.rs:359-374).                                             *)
RepliesLeaveBySource ==
  /\ \A p \in udpOut : p.kind = "ack" => p.to = "ip"
  /\ \A p \in busOut : p.kind = "ack" => p.to = "mstp"

(* The router always gets back to its timer: although its drain loops pop  *)
(* what its own handlers push, they end (bacnet_router.rs:66-88).          *)
RouterTurns == []<>(router = "sleep")

-----------------------------------------------------------------------------
(* What comments in the repository say and the code does not do.           *)

(* mstp_port.c:713 and 828-832: every MS/TP data frame goes on to the IP   *)
(* side; Core 0 only looks at it.                                          *)
Transparent == \A p \in consumed : p.from # "mstp"
=============================================================================
