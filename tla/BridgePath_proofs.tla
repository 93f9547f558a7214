--------------------------- MODULE BridgePath_proofs ---------------------------
(* Proofs about BridgePath, for every ring capacity and every number of    *)
(* frames, packets and Who-Is broadcasts.                                  *)
EXTENDS BridgePath, SequenceTheorems, TLAPS

(* What may be on the way to UDP, and what on the way to the bus: nothing  *)
(* that came from there, and no answer to a request of the other network.  *)
ToIp == {p \in BacnetPdu : p.from # "ip" /\ (p.kind = "ack" => p.to = "ip")}
ToMstp == {p \in BacnetPdu : p.from # "mstp" /\ (p.kind = "ack" => p.to = "mstp")}

(* Each ring leads one way, whoever pushed onto it: Core 1, bacnet_ip_task *)
(* or the router answering what it popped from either ring.                *)
OneWay ==
  /\ mstp_to_ip \in Seq(ToIp) /\ ip_to_mstp \in Seq(ToMstp)
  /\ outgoing \in Seq(ToIp) /\ (ipTask = "send" => Len(outgoing) = 1)
  /\ udpOut \subseteq ToIp /\ busOut \subseteq ToMstp

IInv == PathTypeOK /\ OneWay

-----------------------------------------------------------------------------
(* A push and a pop keep what a ring carries, and its bound. *)
LEMMA PushedKeeps ==
  ASSUME NEW S, NEW ring \in Seq(S), Len(ring) <= RingSize, NEW p \in S
  PROVE  Pushed(ring, p) \in Seq(S) /\ Len(Pushed(ring, p)) <= RingSize
BY TrafficAssumption DEF Pushed

LEMMA PopKeeps ==
  ASSUME NEW S, NEW ring \in Seq(S), Len(ring) <= RingSize, ring # <<>>
  PROVE  Head(ring) \in S /\ Tail(ring) \in Seq(S) /\ Len(Tail(ring)) <= RingSize
<1>1. Len(ring) \in Nat /\ Len(ring) # 0
  BY EmptySeq
<1>2. Tail(ring) \in Seq(S) /\ Len(Tail(ring)) = Len(ring) - 1 /\ Head(ring) \in S
  BY HeadTailProperties
<1> QED
  BY <1>1, <1>2, TrafficAssumption

(* The router's own PDUs, answers apart, may go out either way. *)
LEMMA OwnPdus ==
  /\ OwnPdu("whois", "any") \in ToIp
  /\ OwnPdu("iam", "any") \in ToIp
  /\ OwnPdu("ack", "ip") \in ToIp
  /\ OwnPdu("ack", "mstp") \in ToMstp
BY DEF OwnPdu, ToIp, ToMstp, BacnetPdu, Network, Kind

(* What the router does with a popped PDU keeps both rings one-way. *)
LEMMA HandleKeeps ==
  ASSUME IInv, NEW pdu \in BacnetPdu, NEW m \in Seq(ToIp), NEW i \in Seq(ToMstp),
         Len(m) <= RingSize, Len(i) <= RingSize,
         m \in Seq(BacnetPdu), i \in Seq(BacnetPdu),
         Handle(pdu, m, i), UNCHANGED router
  PROVE  IInv'
<1>1. \/ mstp_to_ip' = m /\ ip_to_mstp' = i
      \/ \E a \in ToIp : mstp_to_ip' = Pushed(m, a) /\ ip_to_mstp' = i
      \/ \E a \in ToMstp : mstp_to_ip' = m /\ ip_to_mstp' = Pushed(i, a)
  <2>1. CASE pdu.kind = "whois"
    <3>1. Answer(pdu) = {OwnPdu("iam", "any")} /\ AnswerRing(pdu) = "mstp_to_ip"
      BY <2>1 DEF Answer, AnswerRing
    <3> QED
      BY <3>1, OwnPdus DEF Handle
  <2>2. CASE pdu.kind = "readprop" /\ pdu.from = "mstp"
    <3>1. Answer(pdu) = {OwnPdu("ack", "mstp")} /\ AnswerRing(pdu) = "ip_to_mstp"
      BY <2>2 DEF Answer, AnswerRing, ReplyTo, ReplyRing
    <3> QED
      BY <3>1, OwnPdus DEF Handle
  <2>3. CASE pdu.kind = "readprop" /\ pdu.from # "mstp"
    <3>1. Answer(pdu) = {OwnPdu("ack", "ip")} /\ AnswerRing(pdu) = "mstp_to_ip"
      BY <2>3 DEF Answer, AnswerRing, ReplyTo, ReplyRing
    <3> QED
      BY <3>1, OwnPdus DEF Handle
  <2>4. CASE pdu.kind \notin {"whois", "readprop"}
    <3>1. Answer(pdu) = {}
      BY <2>4 DEF Answer
    <3> QED
      BY <3>1 DEF Handle
  <2> QED
    BY <2>1, <2>2, <2>3, <2>4
<1>2. /\ mstp_to_ip' \in Seq(ToIp) /\ Len(mstp_to_ip') <= RingSize
      /\ ip_to_mstp' \in Seq(ToMstp) /\ Len(ip_to_mstp') <= RingSize
  BY <1>1, PushedKeeps
<1>3. mstp_to_ip' \in Seq(BacnetPdu) /\ ip_to_mstp' \in Seq(BacnetPdu)
  BY <1>1, PushedKeeps DEF ToIp, ToMstp
<1> QED
  BY <1>2, <1>3 DEF Handle, countVars, IInv, PathTypeOK, OneWay

LEMMA InitIInv == PathInit => IInv
BY TrafficAssumption DEF PathInit, IInv, PathTypeOK, OneWay

LEMMA NextIInv == IInv /\ [PathNext]_pathVars => IInv'
<1> SUFFICES ASSUME IInv, [PathNext]_pathVars PROVE IInv'
  OBVIOUS
<1>0. /\ mstp_to_ip \in Seq(ToIp) /\ mstp_to_ip \in Seq(BacnetPdu) /\ Len(mstp_to_ip) <= RingSize
      /\ ip_to_mstp \in Seq(ToMstp) /\ ip_to_mstp \in Seq(BacnetPdu) /\ Len(ip_to_mstp) <= RingSize
      /\ outgoing \in Seq(ToIp) /\ outgoing \in Seq(BacnetPdu)
  BY DEF IInv, PathTypeOK, OneWay
<1> USE DEF core0Vars, countVars
<1>1. ASSUME NEW k \in Receivable, mstp_receive_check(k) PROVE IInv'
  <2> DEFINE p == [from |-> "mstp", kind |-> k, to |-> "any"]
  <2>1. p \in ToIp /\ p \in BacnetPdu
    BY DEF ToIp, BacnetPdu, Network, Kind, Receivable
  <2>2. /\ Pushed(mstp_to_ip, p) \in Seq(ToIp) /\ Pushed(mstp_to_ip, p) \in Seq(BacnetPdu)
        /\ Len(Pushed(mstp_to_ip, p)) <= RingSize
    BY <2>1, <1>0, PushedKeeps
  <2> QED
    BY <1>1, <2>2, TrafficAssumption DEF mstp_receive_check, IInv, PathTypeOK, OneWay
<1>2. CASE mstp_transmit_outbound
  <2>1. /\ Head(ip_to_mstp) \in ToMstp /\ Head(ip_to_mstp) \in BacnetPdu
        /\ Tail(ip_to_mstp) \in Seq(ToMstp) /\ Tail(ip_to_mstp) \in Seq(BacnetPdu)
        /\ Len(Tail(ip_to_mstp)) <= RingSize
    BY <1>0, <1>2, PopKeeps DEF mstp_transmit_outbound
  <2> QED
    BY <1>2, <2>1 DEF mstp_transmit_outbound, IInv, PathTypeOK, OneWay
<1>3. CASE IpPop
  <2>1. /\ Head(mstp_to_ip) \in ToIp /\ Head(mstp_to_ip) \in BacnetPdu
        /\ Tail(mstp_to_ip) \in Seq(ToIp) /\ Tail(mstp_to_ip) \in Seq(BacnetPdu)
        /\ Len(Tail(mstp_to_ip)) <= RingSize
    BY <1>0, <1>3, PopKeeps DEF IpPop
  <2> QED
    BY <1>3, <2>1 DEF IpPop, IInv, PathTypeOK, OneWay
<1>4. CASE IpSend
  <2>1. outgoing[1] \in ToIp /\ outgoing[1] \in BacnetPdu
    <3>1. Len(outgoing) = 1
      BY <1>4 DEF IpSend, IInv, OneWay
    <3>2. 1 \in 1 .. Len(outgoing)
      BY <3>1
    <3> QED
      BY <3>2, <1>0, ElementOfSeq
  <2> QED
    BY <1>4, <2>1 DEF IpSend, IInv, PathTypeOK, OneWay
<1>5. CASE IpSendFails
  BY <1>5 DEF IpSendFails, IInv, PathTypeOK, OneWay
<1>13. CASE IpDrained
  BY <1>13 DEF IpDrained, IInv, PathTypeOK, OneWay
<1>6. ASSUME NEW k \in Receivable \cup {"empty"}, IpReceive(k) PROVE IInv'
  <2> DEFINE p == [from |-> "ip", kind |-> k, to |-> "any"]
  <2>1. p \in ToMstp /\ p \in BacnetPdu
    BY DEF ToMstp, BacnetPdu, Network, Kind, Receivable
  <2>2. /\ Pushed(ip_to_mstp, p) \in Seq(ToMstp) /\ Pushed(ip_to_mstp, p) \in Seq(BacnetPdu)
        /\ Len(Pushed(ip_to_mstp, p)) <= RingSize
    BY <2>1, <1>0, PushedKeeps
  <2> QED
    BY <1>6, <2>2, TrafficAssumption DEF IpReceive, IInv, PathTypeOK, OneWay
<1>7. CASE IpReceiveNothing
  BY <1>7, TrafficAssumption DEF IpReceiveNothing, IInv, PathTypeOK, OneWay
<1>8. CASE RouterBoot \/ RouterIpDoneWhoIs
  <2> DEFINE p == OwnPdu("whois", "any")
  <2>1. p \in ToIp /\ p \in BacnetPdu
    BY OwnPdus DEF ToIp
  <2>2. /\ Pushed(mstp_to_ip, p) \in Seq(ToIp) /\ Pushed(mstp_to_ip, p) \in Seq(BacnetPdu)
        /\ Len(Pushed(mstp_to_ip, p)) <= RingSize
    BY <2>1, <1>0, PushedKeeps
  <2> QED
    BY <1>8, <2>2, TrafficAssumption
       DEF RouterBoot, RouterIpDoneWhoIs, send_who_is_broadcast, IInv, PathTypeOK, OneWay
<1>9. CASE RouterMstp
  <2>1. /\ Head(mstp_to_ip) \in BacnetPdu
        /\ Tail(mstp_to_ip) \in Seq(ToIp) /\ Tail(mstp_to_ip) \in Seq(BacnetPdu)
        /\ Len(Tail(mstp_to_ip)) <= RingSize
    BY <1>0, <1>9, PopKeeps DEF RouterMstp
  <2> QED
    BY <1>0, <1>9, <2>1, HandleKeeps DEF RouterMstp
<1>10. CASE RouterIp
  <2>1. /\ Head(ip_to_mstp) \in BacnetPdu
        /\ Tail(ip_to_mstp) \in Seq(ToMstp) /\ Tail(ip_to_mstp) \in Seq(BacnetPdu)
        /\ Len(Tail(ip_to_mstp)) <= RingSize
    BY <1>0, <1>10, PopKeeps DEF RouterIp
  <2> QED
    BY <1>0, <1>10, <2>1, HandleKeeps DEF RouterIp
<1>11. CASE RouterMstpDone \/ RouterIpDone \/ RouterWake
  BY <1>11 DEF RouterMstpDone, RouterIpDone, RouterWake, IInv, PathTypeOK, OneWay
<1>12. CASE UNCHANGED pathVars
  BY <1>12 DEF pathVars, IInv, PathTypeOK, OneWay
<1> QED
  BY <1>1, <1>2, <1>3, <1>4, <1>5, <1>6, <1>7, <1>8, <1>9, <1>10, <1>11, <1>12, <1>13
     DEF PathNext, IpStep, RouterStep

-----------------------------------------------------------------------------
(* The inductive invariant holds in every reachable state. *)
THEOREM Invariance == PathSpec => []IInv
BY InitIInv, NextIInv, PTL DEF PathSpec

(* Rings stay within their capacity and hold well-formed PDUs              *)
(* (bacnet_ip.rs:70-140, bacnet_router.rs:66-134, 359-374).                *)
THEOREM TypeCorrect == PathSpec => []PathTypeOK
<1>1. IInv => PathTypeOK
  BY DEF IInv
<1> QED
  BY <1>1, Invariance, PTL

(* No PDU leaves by the network it came from, however Core 1,              *)
(* bacnet_ip_task and the router take turns at the rings                   *)
(* (bacnet_ip.rs:70-95, bacnet_router.rs:92-134, core1_entry.c:203-240).   *)
THEOREM NoForwardingLoop == PathSpec => []NoEcho
<1>1. IInv => NoEcho
  BY DEF IInv, OneWay, ToIp, ToMstp, NoEcho
<1> QED
  BY <1>1, Invariance, PTL

(* An answer to a ReadProperty leaves by the network of its request,       *)
(* although the router pops it from a ring that the other consumer shares  *)
(* (bacnet_router.rs:359-374).                                             *)
THEOREM AnswersLeaveBySource == PathSpec => []RepliesLeaveBySource
<1>1. IInv => RepliesLeaveBySource
  BY DEF IInv, OneWay, ToIp, ToMstp, RepliesLeaveBySource
<1> QED
  BY <1>1, Invariance, PTL
=============================================================================
