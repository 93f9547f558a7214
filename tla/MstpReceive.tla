----------------------------- MODULE MstpReceive -----------------------------
(***************************************************************************)
(* Reception of MS/TP frames: stations put frames on the bus, the line     *)
(* loses, damages or adds bytes, and Core 1 takes one byte after another   *)
(* through its receive state machine.                                      *)
(*                                                                         *)
(*   mstp_receive_check, mstp_send_frame    csrc/mstp_port.c               *)
(*                                                                         *)
(* The machine has no silence timer: what ends a frame that was cut short  *)
(* is the bytes of the next ones.  The five header bytes are two here:     *)
(* type (which stands for the addresses, too) and length.  A CRC differs   *)
(* for different contents and no payload byte is a CRC; what a real CRC    *)
(* misses and a whole frame inside a payload are left out.  g_mstp_status  *)
(* is left to Core1Loop.  Buffers whose contents nothing reads any more    *)
(* are shown empty.                                                        *)
(***************************************************************************)
EXTENDS Integers, Sequences

CONSTANTS
  MaxData,    \* BACNET_PDU_MAX_DATA
  FrameType,  \* frame types stations use
  DataByte,   \* payload bytes stations use
  MaxLost,    \* bound: bytes the line loses
  MaxNoise    \* bound: bytes the line damages or adds

ASSUME FaultsAssumption ==
  /\ MaxData \in Nat \ {0} /\ MaxLost \in Nat /\ MaxNoise \in Nat
  /\ FrameType \subseteq 0 .. 84 /\ DataByte \subseteq 0 .. 255

(* Bytes, with the CRC bytes kept apart. *)
B(n) == <<"byte", n>>
P55 == B(85)
PFF == B(255)
HeaderCrc(h) == <<"header_crc", h>>
DataCrc1(d) == <<"data_crc_low", d>>
DataCrc2(d) == <<"data_crc_high", d>>
HeaderLen == 2

Payload == UNION {[1 .. n -> DataByte] : n \in 0 .. MaxData + 1}
Frame == [type : FrameType, data : Payload]

(* The frames that carry a BACnet PDU. *)
IsData(f) == f.type \in {5, 6} /\ Len(f.data) \in 1 .. MaxData

(* What Core 0 is to get of a frame: addresses and payload. *)
Pdu(f) == [type |-> B(f.type), data |-> [i \in 1 .. Len(f.data) |-> B(f.data[i])]]

(* mstp_send_frame: the bytes of a frame. *)
Bytes(f) ==
  LET header == <<B(f.type), B(Len(f.data))>>
      data == Pdu(f).data
  IN <<P55, PFF>> \o header \o <<HeaderCrc(header)>>
       \o (IF data = <<>> THEN <<>> ELSE data \o <<DataCrc1(data), DataCrc2(data)>>)

VARIABLES
  wire,       \* bytes on their way, of one frame at a time
  frame,      \* the frame sent last
  rx_state, rx_header, rx_data, rx_data_len,
  pushed,     \* what went onto mstp_to_ip since the last frame was sent
  clean,      \* history: the frame met a receiver at rest and no fault
  gap,        \* history: bytes lost since the header of the payload being received
  lost, noise

(* Between a header and the end of its payload. *)
InData == {"DATA", "DATA_CRC1", "DATA_CRC2"}

rxVars == <<rx_state, rx_header, rx_data, rx_data_len, pushed>>
faultVars == <<lost, noise>>
mstpVars == <<wire, frame, rxVars, clean, gap, faultVars>>

RxInit ==
  /\ wire = <<>> /\ frame \in {f \in Frame : f.data = <<>>}
  /\ rx_state = "IDLE" /\ rx_header = <<>> /\ rx_data = <<>> /\ rx_data_len = 0
  /\ pushed = {}
  /\ clean = FALSE /\ gap = 0 /\ lost = 0 /\ noise = 0

-----------------------------------------------------------------------------
(* A station sends a frame. *)
Send(f) ==
  /\ wire = <<>>
  /\ wire' = Bytes(f) /\ frame' = f
  /\ pushed' = {} /\ clean' = (rx_state \in {"IDLE", "PREAMBLE2"})
  /\ UNCHANGED <<rx_state, rx_header, rx_data, rx_data_len, gap, faultVars>>

(* A byte is lost: on the line, or in the UART's FIFO while Core 1 is      *)
(* paused or sends.                                                        *)
Lose ==
  /\ wire # <<>> /\ lost < MaxLost
  /\ wire' = Tail(wire) /\ lost' = lost + 1 /\ clean' = FALSE
  /\ gap' = IF rx_state \in InData THEN gap + 1 ELSE 0
  /\ UNCHANGED <<frame, rxVars, noise>>

(* A byte is damaged, or one comes from nowhere. *)
Disturb(b) ==
  /\ noise < MaxNoise
  /\ \/ wire # <<>> /\ b # Head(wire) /\ wire' = <<b>> \o Tail(wire)
     \/ wire' = <<b>> \o wire
  /\ noise' = noise + 1 /\ clean' = FALSE
  /\ UNCHANGED <<frame, rxVars, gap, lost>>

-----------------------------------------------------------------------------
(* mstp_receive_check takes a byte off the wire in state s. *)
Take(s) ==
  /\ rx_state = s /\ wire # <<>>
  /\ wire' = Tail(wire)
  /\ gap' = IF s \in InData \ {"DATA_CRC2"} THEN gap ELSE 0
  /\ UNCHANGED <<frame, clean, faultVars>>

RxIdle ==
  /\ Take("IDLE")
  /\ rx_state' = IF Head(wire) = P55 THEN "PREAMBLE2" ELSE "IDLE"
  /\ UNCHANGED <<rx_header, rx_data, rx_data_len, pushed>>

(* Mutant: a repeated 0x55 ends the preamble. *)
AfterPreamble_strict(b) == IF b = PFF THEN "HEADER" ELSE "IDLE"

(* A repeated 0x55 may be the first byte of the preamble. *)
AfterPreamble(b) ==
  CASE b = PFF -> "HEADER" [] b = P55 -> "PREAMBLE2" [] OTHER -> "IDLE"

RxPreamble2 ==
  /\ Take("PREAMBLE2")
  /\ rx_state' = AfterPreamble(Head(wire))
  /\ rx_header' = IF rx_state' = "HEADER" THEN <<>> ELSE rx_header
  /\ UNCHANGED <<rx_data, rx_data_len, pushed>>

RxHeader ==
  /\ Take("HEADER")
  /\ rx_header' = Append(rx_header, Head(wire))
  /\ rx_state' = IF Len(rx_header') >= HeaderLen THEN "HEADER_CRC" ELSE "HEADER"
  /\ UNCHANGED <<rx_data, rx_data_len, pushed>>

(* Back to hunting for a preamble. *)
ToIdle == rx_state' = "IDLE" /\ rx_header' = <<>> /\ rx_data' = <<>> /\ rx_data_len' = 0

(* Mutant: the machine waits for a better CRC byte. *)
RxHeaderBad_waiting ==
  /\ Take("HEADER_CRC") /\ Head(wire) # HeaderCrc(rx_header)
  /\ UNCHANGED <<rx_state, rx_header, rx_data, rx_data_len, pushed>>

RxHeaderBad ==
  /\ Take("HEADER_CRC") /\ Head(wire) # HeaderCrc(rx_header)
  /\ ToIdle
  /\ UNCHANGED pushed

(* Mutant: room for one byte too many. *)
TooLarge_late(n) == n > MaxData + 1

TooLarge(n) == n > MaxData

(* A frame without data ends here; one that is too large is left.          *)
RxHeaderGood ==
  /\ Take("HEADER_CRC") /\ Head(wire) = HeaderCrc(rx_header)
  /\ LET n == rx_header[2][2] IN
       \/ n = 0 /\ ToIdle
       \/ TooLarge(n) /\ ToIdle
       \/ /\ n # 0 /\ ~TooLarge(n)
          /\ rx_state' = "DATA" /\ rx_data' = <<>> /\ rx_data_len' = n
          /\ UNCHANGED rx_header
  /\ UNCHANGED pushed

Filled(d) == Len(d) >= rx_data_len

RxData ==
  /\ Take("DATA")
  /\ rx_data' = Append(rx_data, Head(wire))
  /\ rx_state' = IF Filled(rx_data') THEN "DATA_CRC1" ELSE "DATA"
  /\ UNCHANGED <<rx_header, rx_data_len, pushed>>

(* The low byte of the CRC is staged behind the payload. *)
RxDataCrc1 ==
  /\ Take("DATA_CRC1")
  /\ rx_data' = Append(rx_data, Head(wire))
  /\ rx_state' = "DATA_CRC2"
  /\ UNCHANGED <<rx_header, rx_data_len, pushed>>

Received == SubSeq(rx_data, 1, rx_data_len)

(* Mutant: the remainder is not compared. *)
DataOk_unchecked(b) == TRUE

DataOk(b) == rx_data[rx_data_len + 1] = DataCrc1(Received) /\ b = DataCrc2(Received)

RxDataBad ==
  /\ Take("DATA_CRC2") /\ ~DataOk(Head(wire))
  /\ ToIdle
  /\ UNCHANGED pushed

(* The frames of types 5 and 6 go to Core 0. *)
RxDataGood ==
  /\ Take("DATA_CRC2") /\ DataOk(Head(wire))
  /\ ToIdle
  /\ pushed' = IF rx_header[1][2] \notin {5, 6} THEN pushed
               ELSE pushed \cup {[type |-> rx_header[1], data |-> Received]}

Receive == RxIdle \/ RxPreamble2 \/ RxHeader \/ RxHeaderBad \/ RxHeaderGood
           \/ RxData \/ RxDataCrc1 \/ RxDataBad \/ RxDataGood

RxNext ==
  \/ \E f \in Frame : Send(f)
  \/ Lose \/ \E n \in {1, 85, 255} : Disturb(B(n))
  \/ Receive

(* Core 1 polls the UART in every turn of its loop; no fairness is assumed *)
(* of the stations.                                                        *)
RxSpec == RxInit /\ [][RxNext]_mstpVars /\ WF_mstpVars(Receive)

-----------------------------------------------------------------------------
(* The payload with the staged CRC byte fits rx_data                       *)
(* (mstp_port.c:701-706, 772-793).                                         *)
RxTypeOK ==
  /\ frame \in Frame /\ \A p \in pushed : Len(p.data) \in 1 .. MaxData
  /\ Len(wire) <= MaxData + 10 + MaxNoise
  /\ rx_state \in {"IDLE", "PREAMBLE2", "HEADER", "HEADER_CRC", "DATA", "DATA_CRC1",
                   "DATA_CRC2"}
  /\ Len(rx_header) <= HeaderLen /\ Len(rx_data) <= MaxData + 1
  /\ rx_data_len \in 0 .. MaxData /\ clean \in BOOLEAN /\ gap \in Nat
  /\ lost \in 0 .. MaxLost /\ noise \in 0 .. MaxNoise

(* What is pushed is the frame on the wire, addresses and payload, unless  *)
(* the line lost as much as a whole frame of that size since the header of *)
(* the frame being received: then, for want of a silence timer, the header *)
(* of one frame is put to the payload of another.  What was lost before    *)
(* that header excuses nothing (mstp_port.c:718-858).                      *)
PushedAsSent ==
  [][\A p \in pushed' \ pushed : p = Pdu(frame) \/ gap >= HeaderLen + 5 + Len(p.data)]_mstpVars

(* An undamaged frame that finds the receiver at rest is received whatever *)
(* its payload holds, a preamble included, and whatever the frames before  *)
(* it left in the buffers; tokens and other types are never pushed         *)
(* (mstp_port.c:718-858).                                                  *)
IntactFramesArrive ==
  clean /\ wire = <<>> =>
    /\ pushed = (IF IsData(frame) THEN {Pdu(frame)} ELSE {})
    /\ Len(frame.data) <= MaxData => rx_state = "IDLE"

Plain == \A i \in 1 .. Len(frame.data) : frame.data[i] # 85

(* After the last fault the receiver is back in step with the frames       *)
(* although nothing but later bytes ends a truncated one, provided the     *)
(* stations go on sending and their payloads hold no 0x55                  *)
(* (mstp_port.c:723-736, 745-779).                                         *)
Resynchronises ==
  ([]<>(wire # <<>>) /\ <>[]Plain) => []<>(wire = <<>> /\ rx_state = "IDLE")
=============================================================================
