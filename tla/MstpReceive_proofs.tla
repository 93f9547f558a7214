-------------------------- MODULE MstpReceive_proofs --------------------------
(***************************************************************************)
(* Proofs about MstpReceive, for payloads of any length and content and    *)
(* any number of faults.                                                   *)
(*                                                                         *)
(* Faults only touch the next byte, so that what is on the wire is the end *)
(* of the frame sent last, with noise before it (OfFrame).  A frame that   *)
(* met no fault is followed byte by byte (Followed).  A header that was    *)
(* taken over from an earlier frame is paid for with bytes lost since: the *)
(* receiver wants as many bytes after the header as that frame had, so     *)
(* what came since beyond those must have been lost (Paid).                *)
(***************************************************************************)
EXTENDS MstpReceive, TLAPS

PlainByte == {B(n) : n \in Nat}
WireByte == PlainByte \cup {HeaderCrc(h) : h \in Seq(PlainByte)}
              \cup {DataCrc1(d) : d \in Seq(PlainByte)} \cup {DataCrc2(d) : d \in Seq(PlainByte)}

Header(f) == <<B(f.type), B(Len(f.data))>>

(* The bytes of a frame, by their place. *)
FrameLen(f) == IF Len(f.data) = 0 THEN 5 ELSE Len(f.data) + 7

ByteAt(f, m) ==
  IF m = 1 THEN P55 ELSE IF m = 2 THEN PFF ELSE IF m = 3 THEN B(f.type)
  ELSE IF m = 4 THEN B(Len(f.data)) ELSE IF m = 5 THEN HeaderCrc(Header(f))
  ELSE IF m <= Len(f.data) + 5 THEN B(f.data[m - 5])
  ELSE IF m = Len(f.data) + 6 THEN DataCrc1(Pdu(f).data) ELSE DataCrc2(Pdu(f).data)

RxTypes ==
  /\ frame \in Frame /\ wire \in Seq(WireByte)
  /\ rx_header \in Seq(WireByte) /\ rx_data \in Seq(WireByte) /\ rx_data_len \in 0 .. MaxData
  /\ rx_state \in {"IDLE", "PREAMBLE2", "HEADER", "HEADER_CRC"} \cup InData
  /\ clean \in BOOLEAN /\ gap \in Nat /\ lost \in 0 .. MaxLost /\ noise \in 0 .. MaxNoise

(* How full the buffers are. *)
RxFill ==
  /\ rx_state = "HEADER" => Len(rx_header) < HeaderLen
  /\ rx_state \in {"HEADER_CRC"} \cup InData => Len(rx_header) = HeaderLen
  /\ Len(rx_header) <= HeaderLen /\ Len(rx_data) <= MaxData + 1
  /\ rx_state \in InData => rx_data_len >= 1
  /\ rx_state = "DATA" => Len(rx_data) < rx_data_len
  /\ rx_state = "DATA_CRC1" => Len(rx_data) = rx_data_len
  /\ rx_state = "DATA_CRC2" => Len(rx_data) = rx_data_len + 1
  /\ \A p \in pushed : Len(p.data) \in 1 .. MaxData

(* The m-th byte on the wire is noise or still that of the frame. *)
OfFrame(m) ==
  \/ wire[m] \in {B(1), B(85), B(255)}
  \/ /\ Len(wire) - m < FrameLen(frame)
     /\ wire[m] = ByteAt(frame, FrameLen(frame) - (Len(wire) - m))

WireOfFrame ==
  /\ \A m \in 1 .. Len(wire) : OfFrame(m)
  /\ Len(wire) <= FrameLen(frame) + noise

Paid ==
  rx_state \in InData =>
    \/ /\ rx_header = Header(frame)
       /\ gap + Len(rx_data) + Len(wire) >= rx_data_len + 2
    \/ gap + Len(rx_data) + Len(wire) >= rx_data_len + 2 + FrameLen(frame)

(* The receiver has had the first n bytes of the frame. *)
Data == Pdu(frame).data
Had(n) ==
  LET L == Len(frame.data) IN
  /\ n = 0 => rx_state \in {"IDLE", "PREAMBLE2"}
  /\ n = 1 => rx_state = "PREAMBLE2"
  /\ n = 2 => rx_state = "HEADER" /\ rx_header = <<>>
  /\ n = 3 => rx_state = "HEADER" /\ rx_header = <<B(frame.type)>>
  /\ n = 4 => rx_state = "HEADER_CRC" /\ rx_header = Header(frame)
  /\ n >= 5 /\ L = 0 => rx_state = "IDLE"
  /\ n >= 5 /\ L > MaxData => rx_state \in {"IDLE", "PREAMBLE2", "HEADER", "HEADER_CRC"}
  /\ n >= 5 /\ n <= L + 6 /\ L \in 1 .. MaxData => rx_header = Header(frame) /\ rx_data_len = L
  /\ n >= 5 /\ n <= L + 5 /\ L \in 1 .. MaxData =>
       /\ rx_state = IF n = L + 5 THEN "DATA_CRC1" ELSE "DATA"
       /\ Len(rx_data) = n - 5 /\ \A k \in 1 .. n - 5 : rx_data[k] = Data[k]
  /\ n = L + 6 /\ L \in 1 .. MaxData =>
       rx_state = "DATA_CRC2" /\ rx_data = Append(Data, DataCrc1(Data))
  /\ n = L + 7 /\ L \in 1 .. MaxData => rx_state = "IDLE"
  /\ pushed = IF n = FrameLen(frame) /\ IsData(frame) THEN {Pdu(frame)} ELSE {}

Followed ==
  clean => /\ Len(wire) <= FrameLen(frame)
           /\ \A m \in 1 .. Len(wire) : wire[m] = ByteAt(frame, FrameLen(frame) - (Len(wire) - m))
           /\ Had(FrameLen(frame) - Len(wire))

RxInv == RxTypes /\ RxFill /\ WireOfFrame /\ Paid /\ Followed

-----------------------------------------------------------------------------
(* The kinds of bytes differ, and each says what it is of. *)
LEMMA Codes ==
  /\ \A n : B(n)[2] = n
  /\ \A x, y : (B(x) = B(y) => x = y) /\ (HeaderCrc(x) = HeaderCrc(y) => x = y)
              /\ (DataCrc1(x) = DataCrc1(y) => x = y) /\ (DataCrc2(x) = DataCrc2(y) => x = y)
  /\ \A x, y : /\ B(x) # HeaderCrc(y) /\ B(x) # DataCrc1(y) /\ B(x) # DataCrc2(y)
               /\ HeaderCrc(x) # DataCrc1(y) /\ HeaderCrc(x) # DataCrc2(y)
               /\ DataCrc1(x) # DataCrc2(y)
BY DEF B, HeaderCrc, DataCrc1, DataCrc2

LEMMA Pair ==
  ASSUME NEW S, NEW x \in S, NEW y \in S
  PROVE  <<x, y>> \in Seq(S) /\ Len(<<x, y>>) = 2 /\ <<x, y>>[1] = x /\ <<x, y>>[2] = y
OBVIOUS

LEMMA Appends ==
  ASSUME NEW S, NEW s \in Seq(S), NEW y \in S, NEW t, t = Append(s, y)
  PROVE  /\ t \in Seq(S) /\ Len(s) \in Nat /\ Len(t) = Len(s) + 1
         /\ \A k \in 1 .. Len(s) : t[k] = s[k]
         /\ t[Len(s) + 1] = y
OBVIOUS

LEMMA SameSeq ==
  ASSUME NEW S, NEW s \in Seq(S), NEW t \in Seq(S), Len(s) = Len(t),
         \A k \in 1 .. Len(s) : s[k] = t[k]
  PROVE  s = t
OBVIOUS

LEMMA SecondAppended ==
  ASSUME NEW S, NEW x \in S, NEW y \in S
  PROVE  Append(<<x>>, y) = <<x, y>>
<1> DEFINE s == <<x>>
<1>1. s \in Seq(S) /\ Len(s) = 1 /\ s[1] = x
  OBVIOUS
<1>2. <<x, y>> \in Seq(S) /\ Len(<<x, y>>) = 2 /\ <<x, y>>[1] = x /\ <<x, y>>[2] = y
  OBVIOUS
<1>3. PICK t : t = Append(s, y)
  OBVIOUS
<1>4. PICK u : u = <<x, y>>
  OBVIOUS
<1> HIDE DEF s
<1>5. /\ t \in Seq(S) /\ Len(t) = Len(s) + 1 /\ t[Len(s) + 1] = y
      /\ \A k \in 1 .. Len(s) : t[k] = s[k]
  <2>1. s \in Seq(S)
    BY <1>1
  <2> QED
    BY <1>3, <2>1
<1>6. t \in Seq(S) /\ u \in Seq(S) /\ Len(t) = Len(u) /\ Len(t) = 2
  BY <1>1, <1>2, <1>4, <1>5
<1>7. t[1] = x /\ t[2] = y
  BY <1>1, <1>5
<1>8. u[1] = x /\ u[2] = y
  BY <1>2, <1>4
<1>9. \A k \in 1 .. 2 : t[k] = u[k]
  BY <1>7, <1>8
<1>10. t = u
  <2>1. t \in Seq(S) /\ u \in Seq(S) /\ Len(t) = Len(u)
    BY <1>6
  <2>2. \A k \in 1 .. Len(t) : t[k] = u[k]
    BY <1>6, <1>9
  <2> QED
    BY <2>1, <2>2
<1> QED
  BY <1>3, <1>4, <1>10 DEF s

LEMMA FrameFacts ==
  ASSUME NEW f \in Frame
  PROVE  /\ f.data \in Seq(DataByte) /\ Len(f.data) \in 0 .. MaxData + 1 /\ f.type \in 0 .. 84
         /\ f.data \in Seq(Nat) /\ \A k \in 1 .. Len(f.data) : f.data[k] \in Nat
         /\ (f.data = <<>> <=> Len(f.data) = 0)
         /\ Pdu(f).data \in Seq(PlainByte) /\ Len(Pdu(f).data) = Len(f.data)
         /\ \A k \in 1 .. Len(f.data) : Pdu(f).data[k] = B(f.data[k])
         /\ (Pdu(f).data = <<>> <=> Len(f.data) = 0)
         /\ Pdu(f).type = B(f.type)
         /\ Header(f) \in Seq(PlainByte) /\ Len(Header(f)) = 2
         /\ Header(f)[1] = B(f.type) /\ Header(f)[2] = B(Len(f.data))
         /\ FrameLen(f) \in Nat /\ FrameLen(f) >= 5 /\ FrameLen(f) <= MaxData + 8
<1>1. PICK n \in 0 .. MaxData + 1 : f.data \in [1 .. n -> DataByte]
  BY DEF Frame, Payload
<1>2. MaxData \in Nat /\ n \in Nat /\ FrameType \subseteq 0 .. 84 /\ DataByte \subseteq 0 .. 255
  BY <1>1, FaultsAssumption
<1>3. f.data \in Seq(DataByte) /\ Len(f.data) = n
  BY <1>1, <1>2
<1>4. f.data \in Seq(Nat) /\ \A k \in 1 .. Len(f.data) : f.data[k] \in Nat
  <2>0. DataByte \subseteq Nat
    BY <1>2
  <2>1. \A k \in 1 .. n : f.data[k] \in Nat
    BY <1>1, <2>0, Zenon
  <2>2. f.data = [k \in 1 .. n |-> f.data[k]]
    BY <1>1
  <2> QED
    BY <2>1, <2>2, <1>2, <1>3
<1>5. f.type \in 0 .. 84
  BY <1>2 DEF Frame
<1> DEFINE d == [i \in 1 .. Len(f.data) |-> B(f.data[i])]
<1>6. Pdu(f).data = d /\ Pdu(f).type = B(f.type)
  BY DEF Pdu
<1>7. d \in Seq(PlainByte) /\ Len(d) = Len(f.data) /\ \A k \in 1 .. Len(f.data) : d[k] = B(f.data[k])
  BY <1>2, <1>3, <1>4 DEF PlainByte
<1> HIDE DEF d
<1>8. Header(f) \in Seq(PlainByte) /\ Len(Header(f)) = 2
      /\ Header(f)[1] = B(f.type) /\ Header(f)[2] = B(Len(f.data))
  <2>1. B(f.type) \in PlainByte /\ B(Len(f.data)) \in PlainByte
    <3>1. f.type \in Nat /\ Len(f.data) \in Nat
      <4>1. f.type \in Nat
        BY <1>5
      <4> QED
        BY <4>1, <1>1, <1>3
    <3> QED
      BY <3>1, Zenon DEF PlainByte
  <2> QED
    BY <2>1, Pair DEF Header
<1>9. FrameLen(f) \in Nat /\ FrameLen(f) >= 5 /\ FrameLen(f) <= MaxData + 8
  BY <1>2, <1>3, <1>1 DEF FrameLen
<1>10. (f.data = <<>> <=> Len(f.data) = 0) /\ (d = <<>> <=> Len(d) = 0)
  BY <1>3, <1>7
<1> QED
  BY <1>1, <1>2, <1>3, <1>4, <1>5, <1>6, <1>7, <1>8, <1>9, <1>10

LEMMA BytesAt ==
  ASSUME NEW f \in Frame
  PROVE  /\ Bytes(f) \in Seq(WireByte) /\ Len(Bytes(f)) = FrameLen(f)
         /\ \A m \in 1 .. FrameLen(f) : Bytes(f)[m] = ByteAt(f, m)
<1> DEFINE L == Len(f.data)
           d == Pdu(f).data
           h == Header(f)
           a == <<P55, PFF>> \o h \o <<HeaderCrc(h)>>
           b == IF d = <<>> THEN <<>> ELSE d \o <<DataCrc1(d), DataCrc2(d)>>
<1>1. /\ L \in Nat /\ d \in Seq(PlainByte) /\ Len(d) = L /\ (d = <<>> <=> L = 0)
      /\ h \in Seq(PlainByte) /\ Len(h) = 2 /\ h[1] = B(f.type) /\ h[2] = B(L)
      /\ \A k \in 1 .. L : d[k] = B(f.data[k])
  BY FrameFacts, FaultsAssumption
<1>2. Bytes(f) = a \o b
  BY DEF Bytes, Header
<1> HIDE DEF L, d, h
<1>3. /\ P55 \in WireByte /\ PFF \in WireByte /\ HeaderCrc(h) \in WireByte
      /\ DataCrc1(d) \in WireByte /\ DataCrc2(d) \in WireByte
      /\ h \in Seq(WireByte) /\ d \in Seq(WireByte)
  <2>1. PlainByte \subseteq WireByte /\ P55 \in PlainByte /\ PFF \in PlainByte
    BY DEF PlainByte, WireByte, P55, PFF
  <2>2. HeaderCrc(h) \in WireByte /\ DataCrc1(d) \in WireByte /\ DataCrc2(d) \in WireByte
    BY <1>1 DEF WireByte
  <2> QED
    BY <2>1, <2>2, <1>1
<1>4. /\ a \in Seq(WireByte) /\ Len(a) = 5 /\ a[1] = P55 /\ a[2] = PFF
      /\ a[3] = h[1] /\ a[4] = h[2] /\ a[5] = HeaderCrc(h)
  <2> DEFINE x == <<P55, PFF>>
             y == <<HeaderCrc(h)>>
  <2>1. x \in Seq(WireByte) /\ Len(x) = 2 /\ x[1] = P55 /\ x[2] = PFF
    BY <1>3, Pair
  <2>2. y \in Seq(WireByte) /\ Len(y) = 1 /\ y[1] = HeaderCrc(h)
    BY <1>3
  <2> DEFINE z == x \o h
  <2> HIDE DEF x, y
  <2>3. /\ z \in Seq(WireByte) /\ Len(z) = 4 /\ z[1] = P55 /\ z[2] = PFF /\ z[3] = h[1] /\ z[4] = h[2]
    <3>0. z = x \o h
      OBVIOUS
    <3> HIDE DEF z
    <3>1. /\ z \in Seq(WireByte) /\ Len(z) = Len(x) + Len(h)
          /\ \A k \in 1 .. Len(x) : z[k] = x[k]
          /\ \A k \in 1 .. Len(h) : z[Len(x) + k] = h[k]
        <4>1. x \in Seq(WireByte) /\ h \in Seq(WireByte)
          BY <2>1, <1>3
        <4> QED
          BY <3>0, <4>1
    <3>2. z[2 + 1] = h[1] /\ z[2 + 2] = h[2]
      BY <3>1, <2>1, <1>1
    <3> QED
      BY <3>1, <3>2, <2>1, <1>1
  <2> HIDE DEF z
  <2>4. a = z \o y
    BY DEF z, x, y
  <2> HIDE DEF a
  <2>5. /\ a \in Seq(WireByte) /\ Len(a) = Len(z) + Len(y)
        /\ \A k \in 1 .. Len(z) : a[k] = z[k]
        /\ \A k \in 1 .. Len(y) : a[Len(z) + k] = y[k]
      <3>1. z \in Seq(WireByte) /\ y \in Seq(WireByte)
        BY <2>2, <2>3
      <3> QED
        BY <2>4, <3>1
  <2>6. a[4 + 1] = y[1]
    BY <2>2, <2>3, <2>5
  <2> QED
    BY <2>2, <2>3, <2>5, <2>6
<1>5. CASE L = 0
  <2>1. b = <<>>
    BY <1>1, <1>5
  <2> HIDE DEF a, b
  <2>2. Bytes(f) = a
    BY <1>2, <1>4, <2>1
  <2>3. FrameLen(f) = 5
    BY <1>5 DEF FrameLen, L
  <2> QED
    BY <2>2, <2>3, <1>1, <1>4 DEF ByteAt, h, L
<1>6. CASE L # 0
  <2>1. b = d \o <<DataCrc1(d), DataCrc2(d)>>
    BY <1>1, <1>6
  <2>2. /\ b \in Seq(WireByte) /\ Len(b) = L + 2 /\ b[L + 1] = DataCrc1(d) /\ b[L + 2] = DataCrc2(d)
        /\ \A k \in 1 .. L : b[k] = d[k]
    <3> DEFINE y == <<DataCrc1(d), DataCrc2(d)>>
    <3>1. y \in Seq(WireByte) /\ Len(y) = 2 /\ y[1] = DataCrc1(d) /\ y[2] = DataCrc2(d)
      BY <1>3, Pair
    <3>2. b = d \o y
      BY <2>1
    <3> HIDE DEF b, y
    <3>3. /\ b \in Seq(WireByte) /\ Len(b) = Len(d) + Len(y)
          /\ \A k \in 1 .. Len(d) : b[k] = d[k]
          /\ \A k \in 1 .. Len(y) : b[Len(d) + k] = y[k]
        <4>1. d \in Seq(WireByte) /\ y \in Seq(WireByte)
          BY <3>1, <1>3
        <4> QED
          BY <3>2, <4>1
    <3> QED
      BY <3>1, <3>3, <1>1
  <2>3. FrameLen(f) = L + 7
    BY <1>6 DEF FrameLen, L
  <2> HIDE DEF a, b
  <2>4. /\ Bytes(f) \in Seq(WireByte) /\ Len(Bytes(f)) = L + 7
        /\ \A m \in 1 .. 5 : Bytes(f)[m] = a[m]
        /\ \A m \in 6 .. L + 7 : Bytes(f)[m] = b[m - 5]
    <3>1. /\ Bytes(f) \in Seq(WireByte) /\ Len(Bytes(f)) = Len(a) + Len(b)
          /\ \A k \in 1 .. Len(a) : Bytes(f)[k] = a[k]
          /\ \A k \in 1 .. Len(b) : Bytes(f)[Len(a) + k] = b[k]
        <4>1. a \in Seq(WireByte) /\ b \in Seq(WireByte)
          BY <1>4, <2>2
        <4> QED
          BY <1>2, <4>1
    <3>2. ASSUME NEW m \in 6 .. L + 7 PROVE Bytes(f)[m] = b[m - 5]
      <4>1. m - 5 \in 1 .. Len(b) /\ Len(a) + (m - 5) = m
        BY <1>1, <1>4, <2>2
      <4> QED
        BY <4>1, <3>1
    <3> QED
      BY <3>1, <3>2, <1>1, <1>4, <2>2
  <2>5. ASSUME NEW m \in 1 .. L + 7 PROVE Bytes(f)[m] = ByteAt(f, m)
    <3>1. CASE m \in 1 .. 5
      BY <3>1, <2>4, <1>1, <1>4 DEF ByteAt, h, L
    <3>2. CASE m \in 6 .. L + 5
      <4>1. m - 5 \in 1 .. L
        BY <3>2, <1>1
      <4>2. Bytes(f)[m] = B(f.data[m - 5])
        BY <4>1, <3>2, <2>2, <2>4, <1>1
      <4> QED
        BY <4>2, <3>2, <1>1 DEF ByteAt, L
    <3>3. CASE m = L + 6
      <4>1. m \in 6 .. L + 7 /\ m - 5 = L + 1
        BY <3>3, <1>1, <1>6
      <4>2. Bytes(f)[m] = DataCrc1(d)
        BY <4>1, <2>2, <2>4
      <4> QED
        BY <4>2, <3>3, <1>1, <1>6 DEF ByteAt, L, d
    <3>4. CASE m = L + 7
      <4>1. m \in 6 .. L + 7 /\ m - 5 = L + 2
        BY <3>4, <1>1, <1>6
      <4>2. Bytes(f)[m] = DataCrc2(d)
        BY <4>1, <2>2, <2>4
      <4> QED
        BY <4>2, <3>4, <1>1, <1>6 DEF ByteAt, L, d
    <3> QED
      BY <3>1, <3>2, <3>3, <3>4, <1>1
  <2> QED
    BY <2>3, <2>4, <2>5
<1> QED
  BY <1>5, <1>6

(* What a byte of a frame can be. *)
LEMMA ByteKinds ==
  ASSUME NEW f \in Frame, NEW m \in 1 .. FrameLen(f)
  PROVE  /\ \A h : ByteAt(f, m) = HeaderCrc(h) => m = 5 /\ h = Header(f)
         /\ \A d : ByteAt(f, m) = DataCrc2(d) =>
              Len(f.data) # 0 /\ m = FrameLen(f) /\ d = Pdu(f).data
<1>1. Len(f.data) \in Nat
  BY FrameFacts, FaultsAssumption
<1>2. CASE m \in 1 .. 4
  BY <1>2, Codes DEF ByteAt, P55, PFF
<1>3. CASE m = 5
  BY <1>3, Codes DEF ByteAt
<1>4. CASE m \in 6 .. Len(f.data) + 5
  BY <1>1, <1>4, Codes DEF ByteAt
<1>5. CASE m = Len(f.data) + 6 /\ Len(f.data) # 0
  BY <1>1, <1>5, Codes DEF ByteAt
<1>6. CASE m = Len(f.data) + 7 /\ Len(f.data) # 0
  <2>1. FrameLen(f) = m
    BY <1>6 DEF FrameLen
  <2>2. ByteAt(f, m) = DataCrc2(Pdu(f).data)
    BY <1>1, <1>6 DEF ByteAt
  <2> QED
    BY <2>1, <2>2, <1>6, Codes
<1> QED
  BY <1>1, <1>2, <1>3, <1>4, <1>5, <1>6 DEF FrameLen

-----------------------------------------------------------------------------
(* The next byte leaves the wire. *)
LEMMA Taken ==
  ASSUME RxTypes, WireOfFrame, wire # <<>>, wire' = Tail(wire), frame' = frame, noise' = noise
  PROVE  /\ Len(wire) \in Nat /\ Len(wire) >= 1 /\ Head(wire) = wire[1] /\ wire[1] \in WireByte
         /\ wire' \in Seq(WireByte) /\ Len(wire') = Len(wire) - 1
         /\ \A m \in 1 .. Len(wire') : wire'[m] = wire[m + 1]
         /\ WireOfFrame'
<1>1. wire \in Seq(WireByte) /\ frame \in Frame /\ noise \in Nat
  BY FaultsAssumption DEF RxTypes
<1>2. /\ Len(wire) \in Nat /\ Len(wire) >= 1 /\ Head(wire) = wire[1] /\ wire[1] \in WireByte
      /\ wire' \in Seq(WireByte) /\ Len(wire') = Len(wire) - 1
      /\ \A m \in 1 .. Len(wire') : wire'[m] = wire[m + 1]
  BY <1>1
<1>3. FrameLen(frame) \in Nat /\ FrameLen(frame)' = FrameLen(frame)
  BY <1>1, FrameFacts DEF FrameLen
<1>4. ASSUME NEW m \in 1 .. Len(wire') PROVE OfFrame(m)'
  <2>1. m + 1 \in 1 .. Len(wire) /\ Len(wire') - m = Len(wire) - (m + 1) /\ wire'[m] = wire[m + 1]
    BY <1>2
  <2>2. OfFrame(m + 1)
    BY <2>1 DEF WireOfFrame
  <2>3. CASE wire[m + 1] \in {B(1), B(85), B(255)}
    BY <2>1, <2>3 DEF OfFrame
  <2>4. CASE /\ Len(wire) - (m + 1) < FrameLen(frame)
             /\ wire[m + 1] = ByteAt(frame, FrameLen(frame) - (Len(wire) - (m + 1)))
    <3>1. /\ Len(wire') - m < FrameLen(frame')
          /\ wire'[m] = ByteAt(frame', FrameLen(frame') - (Len(wire') - m))
      BY <2>1, <2>4
    <3> QED
      BY <3>1 DEF OfFrame
  <2> QED
    BY <2>2, <2>3, <2>4 DEF OfFrame
<1>5. Len(wire') <= FrameLen(frame') + noise'
  BY <1>1, <1>2, <1>3 DEF WireOfFrame
<1> QED
  BY <1>2, <1>4, <1>5 DEF WireOfFrame

(* Where the receiver is in a frame that met no fault, and what comes next. *)
LEMMA ReceiverAt ==
  ASSUME RxTypes, Followed, clean, wire # <<>>
  PROVE  LET F == FrameLen(frame)
             L == Len(frame.data)
             n == F - Len(wire)
             b == wire[1]
         IN
         /\ F \in Nat /\ L \in Nat /\ n \in 0 .. F - 1 /\ pushed = {}
         /\ F = IF L = 0 THEN 5 ELSE L + 7
         /\ \/ n = 0 /\ rx_state \in {"IDLE", "PREAMBLE2"} /\ b = P55
            \/ n = 1 /\ rx_state = "PREAMBLE2" /\ b = PFF
            \/ n = 2 /\ rx_state = "HEADER" /\ rx_header = <<>> /\ b = B(frame.type)
            \/ n = 3 /\ rx_state = "HEADER" /\ rx_header = <<B(frame.type)>> /\ b = B(L)
            \/ n = 4 /\ rx_state = "HEADER_CRC" /\ rx_header = Header(frame)
                 /\ b = HeaderCrc(Header(frame))
            \/ /\ n >= 5 /\ L > MaxData /\ rx_state \in {"IDLE", "PREAMBLE2", "HEADER", "HEADER_CRC"}
               /\ \A h : b # HeaderCrc(h)
            \/ /\ L \in 1 .. MaxData /\ n >= 5 /\ n <= L + 6
               /\ rx_header = Header(frame) /\ rx_data_len = L
               /\ \/ /\ n <= L + 5 /\ Len(rx_data) = n - 5 /\ \A k \in 1 .. n - 5 : rx_data[k] = Data[k]
                     /\ \/ n <= L + 4 /\ rx_state = "DATA" /\ b = Data[n - 4]
                        \/ n = L + 5 /\ rx_state = "DATA_CRC1" /\ b = DataCrc1(Data)
                  \/ /\ n = L + 6 /\ rx_state = "DATA_CRC2" /\ rx_data = Append(Data, DataCrc1(Data))
                     /\ b = DataCrc2(Data)
<1> DEFINE F == FrameLen(frame)
           L == Len(frame.data)
           n == F - Len(wire)
           b == wire[1]
<1>1. /\ frame \in Frame /\ wire \in Seq(WireByte) /\ MaxData \in Nat
  BY FaultsAssumption DEF RxTypes
<1>2. Len(wire) \in Nat /\ Len(wire) >= 1
  BY <1>1
<1>3. F \in Nat /\ L \in Nat /\ F = IF L = 0 THEN 5 ELSE L + 7
  <2>1. F \in Nat /\ L \in 0 .. MaxData + 1
    BY <1>1, FrameFacts
  <2> QED
    BY <2>1, <1>1 DEF FrameLen
<1>4. Len(wire) <= F /\ b = ByteAt(frame, F - (Len(wire) - 1)) /\ Had(n)
  BY <1>2 DEF Followed
<1> HIDE DEF b, F, L
<1>5. n \in 0 .. F - 1 /\ F - (Len(wire) - 1) = n + 1
  BY <1>2, <1>3, <1>4
<1>6. b = ByteAt(frame, n + 1)
  BY <1>4, <1>5
<1> HIDE DEF n
<1>7. pushed = {}
  BY <1>3, <1>4, <1>5 DEF Had, F
<1>8. CASE n = 0
  BY <1>8, <1>3, <1>4, <1>5, <1>6, <1>7, SMTT(30) DEF Had, ByteAt, F, L, n, b
<1>9. CASE n = 1
  BY <1>9, <1>3, <1>4, <1>5, <1>6, <1>7 DEF Had, ByteAt, F, L, n, b
<1>10. CASE n = 2
  BY <1>10, <1>3, <1>4, <1>5, <1>6, <1>7 DEF Had, ByteAt, F, L, n, b
<1>11. CASE n = 3
  BY <1>11, <1>3, <1>4, <1>5, <1>6, <1>7 DEF Had, ByteAt, F, L, n, b
<1>12. CASE n = 4
  BY <1>12, <1>3, <1>4, <1>5, <1>6, <1>7 DEF Had, ByteAt, F, L, n, b
<1>13. CASE n >= 5 /\ L > MaxData
  <2>1. rx_state \in {"IDLE", "PREAMBLE2", "HEADER", "HEADER_CRC"}
    BY <1>4, <1>13 DEF Had, L
  <2>2. n + 1 \in 1 .. FrameLen(frame) /\ n + 1 # 5
    BY <1>3, <1>5, <1>13 DEF F
  <2>3. \A h : b # HeaderCrc(h)
    BY <2>2, <1>1, <1>6, ByteKinds
  <2> QED
    BY <2>1, <2>3, <1>3, <1>5, <1>7, <1>13 DEF F, L, n, b
<1>14. CASE n >= 5 /\ L \in 1 .. MaxData
  <2>1. n <= L + 6 /\ n \in Nat
    BY <1>3, <1>5, <1>14
  <2>2. rx_header = Header(frame) /\ rx_data_len = L
    BY <2>1, <1>4, <1>14 DEF Had, L
  <2>3. CASE n <= L + 4
    <3>1. rx_state = "DATA" /\ Len(rx_data) = n - 5 /\ \A k \in 1 .. n - 5 : rx_data[k] = Data[k]
      BY <2>1, <2>3, <1>3, <1>4, <1>14 DEF Had, L
    <3>2. b = B(frame.data[n - 4])
      <4>1. (n + 1) - 5 = n - 4 /\ n + 1 > 5 /\ n + 1 <= L + 5
        BY <2>1, <2>3, <1>3, <1>14
      <4> QED
        BY <4>1, <2>1, <1>6 DEF ByteAt, L
    <3>3. n - 4 \in 1 .. Len(frame.data)
      BY <2>1, <2>3, <1>3, <1>14 DEF L
    <3>4. b = Data[n - 4]
      BY <3>2, <3>3, <1>1, FrameFacts DEF Data
    <3> QED
      BY <3>1, <3>4, <2>1, <2>2, <2>3, <1>3, <1>5, <1>7, <1>14 DEF F, L, n, b
  <2>4. CASE n = L + 5
    <3>1. /\ rx_state = "DATA_CRC1" /\ Len(rx_data) = n - 5
          /\ \A k \in 1 .. n - 5 : rx_data[k] = Data[k]
      BY <2>1, <2>4, <1>3, <1>4, <1>14 DEF Had, L
    <3>2. b = DataCrc1(Data)
      BY <2>1, <2>4, <1>3, <1>6, <1>14 DEF ByteAt, L, Data
    <3> QED
      BY <3>1, <3>2, <2>1, <2>2, <2>4, <1>3, <1>5, <1>7, <1>14 DEF F, L, n, b
  <2>5. CASE n = L + 6
    <3>1. rx_state = "DATA_CRC2" /\ rx_data = Append(Data, DataCrc1(Data))
      BY <2>1, <2>5, <1>3, <1>4, <1>14 DEF Had, L
    <3>2. b = DataCrc2(Data)
      BY <2>1, <2>5, <1>3, <1>6, <1>14 DEF ByteAt, L, Data
    <3> QED
      BY <3>1, <3>2, <2>1, <2>2, <2>5, <1>3, <1>5, <1>7, <1>14 DEF F, L, n, b
  <2> QED
    BY <2>1, <2>3, <2>4, <2>5, <1>3
<1> QED
  <2>1. n \in {0, 1, 2, 3, 4} \/ (n >= 5 /\ L > MaxData) \/ (n >= 5 /\ L \in 1 .. MaxData)
    <3>1. n \in Nat /\ (L = 0 => n <= 4)
      BY <1>3, <1>5
    <3>2. n \in {0, 1, 2, 3, 4} \/ (n >= 5 /\ L # 0)
      BY <3>1
    <3>3. L = 0 \/ L > MaxData \/ L \in 1 .. MaxData
      BY <1>1, <1>3
    <3> QED
      BY <3>2, <3>3
  <2> QED
    BY <2>1, <1>8, <1>9, <1>10, <1>11, <1>12, <1>13, <1>14

(* A step of the receiver: what is common to all of them. *)
LEMMA TakeStep ==
  ASSUME RxInv, NEW s, Take(s)
  PROVE  /\ rx_state = s /\ frame' = frame /\ clean' = clean /\ lost' = lost /\ noise' = noise
         /\ gap' \in Nat /\ gap' = (IF s \in InData \ {"DATA_CRC2"} THEN gap ELSE 0)
         /\ frame \in Frame /\ MaxData \in Nat
         /\ Len(wire) \in Nat /\ Len(wire) >= 1 /\ Head(wire) = wire[1] /\ wire[1] \in WireByte
         /\ wire' \in Seq(WireByte) /\ Len(wire') = Len(wire) - 1 /\ WireOfFrame'
         /\ FrameLen(frame)' = FrameLen(frame) /\ FrameLen(frame) \in Nat
         /\ clean => /\ Len(wire') <= FrameLen(frame')
                     /\ \A m \in 1 .. Len(wire') :
                          wire'[m] = ByteAt(frame', FrameLen(frame') - (Len(wire') - m))
<1>1. /\ RxTypes /\ WireOfFrame /\ Followed /\ wire # <<>> /\ wire' = Tail(wire)
      /\ rx_state = s /\ frame' = frame /\ clean' = clean /\ lost' = lost /\ noise' = noise
      /\ gap' = (IF s \in InData \ {"DATA_CRC2"} THEN gap ELSE 0)
  BY DEF RxInv, Take, faultVars
<1>6. gap' \in Nat
  BY <1>1 DEF RxTypes
<1>2. frame \in Frame /\ MaxData \in Nat
  BY <1>1, FaultsAssumption DEF RxTypes
<1>3. /\ Len(wire) \in Nat /\ Len(wire) >= 1 /\ Head(wire) = wire[1] /\ wire[1] \in WireByte
      /\ wire' \in Seq(WireByte) /\ Len(wire') = Len(wire) - 1 /\ WireOfFrame'
      /\ \A m \in 1 .. Len(wire') : wire'[m] = wire[m + 1]
  BY <1>1, Taken
<1>4. FrameLen(frame)' = FrameLen(frame) /\ FrameLen(frame) \in Nat
  BY <1>1, <1>2, FrameFacts DEF FrameLen
<1>5. ASSUME clean
      PROVE  /\ Len(wire') <= FrameLen(frame')
             /\ \A m \in 1 .. Len(wire') :
                  wire'[m] = ByteAt(frame', FrameLen(frame') - (Len(wire') - m))
  <2>1. Len(wire) <= FrameLen(frame)
    BY <1>1, <1>5 DEF Followed
  <2>2. ASSUME NEW m \in 1 .. Len(wire')
        PROVE  wire'[m] = ByteAt(frame', FrameLen(frame') - (Len(wire') - m))
    <3>1. m + 1 \in 1 .. Len(wire) /\ Len(wire') - m = Len(wire) - (m + 1) /\ wire'[m] = wire[m + 1]
      BY <1>3
    <3>2. wire[m + 1] = ByteAt(frame, FrameLen(frame) - (Len(wire) - (m + 1)))
      BY <3>1, <1>1, <1>5 DEF Followed
    <3> QED
      BY <3>1, <3>2, <1>1
  <2> QED
    BY <2>1, <2>2, <1>1, <1>3, <1>4
<1> QED
  BY <1>1, <1>2, <1>3, <1>4, <1>5, <1>6

(* Followed', from what the receiver has had after the byte. *)
LEMMA FollowOn ==
  ASSUME RxInv, NEW s, Take(s), NEW n, n = FrameLen(frame) - Len(wire),
         clean => Had(n + 1)'
  PROVE  Followed'
<1> SUFFICES ASSUME clean' PROVE Followed'
  BY DEF Followed
<1>1. /\ clean /\ frame' = frame /\ Len(wire) \in Nat /\ Len(wire') = Len(wire) - 1
      /\ FrameLen(frame') = FrameLen(frame) /\ FrameLen(frame) \in Nat
      /\ Len(wire') <= FrameLen(frame')
      /\ \A m \in 1 .. Len(wire') : wire'[m] = ByteAt(frame', FrameLen(frame') - (Len(wire') - m))
  BY TakeStep
<1>2. n + 1 = FrameLen(frame') - Len(wire')
  BY <1>1
<1>3. Had(FrameLen(frame) - Len(wire))'
  BY <1>1, <1>2
<1> QED
  BY <1>1, <1>3 DEF Followed

LEMMA IdleStep ==
  ASSUME RxInv, RxIdle
  PROVE  RxInv'
<1>0. Take("IDLE")
  BY DEF RxIdle
<1>1. /\ RxTypes /\ RxFill /\ Followed /\ wire # <<>>
      /\ rx_state' = IF wire[1] = P55 THEN "PREAMBLE2" ELSE "IDLE"
      /\ rx_header' = rx_header /\ rx_data' = rx_data /\ rx_data_len' = rx_data_len /\ pushed' = pushed
      /\ rx_state = "IDLE" /\ frame' = frame /\ clean' = clean
      /\ lost' = lost /\ noise' = noise /\ gap' \in Nat
      /\ wire' \in Seq(WireByte) /\ WireOfFrame'
  BY <1>0, TakeStep DEF RxIdle, RxInv, Take
<1>2. RxTypes'
  BY <1>1 DEF RxTypes
<1>3. RxFill' /\ Paid'
  BY <1>1 DEF RxFill, Paid, InData
<1>5. PICK n : n = FrameLen(frame) - Len(wire)
  OBVIOUS
<1>6. ASSUME clean PROVE Had(n + 1)'
  <2> DEFINE L == Len(frame.data)
             F == FrameLen(frame)
  <2>1. /\ n \in 0 .. F - 1 /\ pushed = {} /\ L \in Nat /\ F = IF L = 0 THEN 5 ELSE L + 7
        /\ \/ n = 0 /\ wire[1] = P55
           \/ n >= 5 /\ L > MaxData
    BY <1>1, <1>5, <1>6, ReceiverAt
  <2>2. CASE n = 0
    BY <2>1, <2>2, <1>1 DEF Had, FrameLen
  <2>3. CASE n >= 5 /\ L > MaxData
    BY <2>1, <2>3, <1>1, TakeStep, <1>0 DEF Had, IsData
  <2> QED
    BY <2>1, <2>2, <2>3
<1>7. Followed'
  BY <1>0, <1>5, <1>6, FollowOn
<1> QED
  BY <1>1, <1>2, <1>3, <1>7 DEF RxInv

LEMMA PreambleStep ==
  ASSUME RxInv, RxPreamble2
  PROVE  RxInv'
<1>0. Take("PREAMBLE2")
  BY DEF RxPreamble2
<1>1. /\ RxTypes /\ RxFill /\ Followed /\ wire # <<>>
      /\ rx_state' = AfterPreamble(wire[1])
      /\ rx_header' = (IF rx_state' = "HEADER" THEN <<>> ELSE rx_header)
      /\ rx_data' = rx_data /\ rx_data_len' = rx_data_len /\ pushed' = pushed
      /\ rx_state = "PREAMBLE2" /\ frame' = frame /\ clean' = clean
      /\ lost' = lost /\ noise' = noise /\ gap' \in Nat
      /\ wire' \in Seq(WireByte) /\ WireOfFrame' /\ frame \in Frame /\ MaxData \in Nat
  BY <1>0, TakeStep DEF RxPreamble2, RxInv, Take
<1>s. /\ wire[1] = PFF => rx_state' = "HEADER" /\ rx_header' = <<>>
      /\ wire[1] = P55 => rx_state' = "PREAMBLE2"
      /\ rx_state' \in {"IDLE", "PREAMBLE2", "HEADER"}
      /\ rx_header' \in {rx_header, <<>>} /\ (rx_state' = "HEADER" => rx_header' = <<>>)
  <2>1. PFF # P55
    BY Codes DEF PFF, P55
  <2> QED
    BY <2>1, <1>1 DEF AfterPreamble
<1>2. RxTypes'
  <2>1. rx_header' \in Seq(WireByte)
    BY <1>1, <1>s DEF RxTypes
  <2> QED
    BY <2>1, <1>1, <1>s DEF RxTypes
<1>3. RxFill' /\ Paid'
  BY <1>1, <1>s DEF RxFill, Paid, InData, HeaderLen
<1>5. PICK n : n = FrameLen(frame) - Len(wire)
  OBVIOUS
<1>6. ASSUME clean PROVE Had(n + 1)'
  <2> DEFINE L == Len(frame.data)
             F == FrameLen(frame)
  <2>1. /\ n \in 0 .. F - 1 /\ pushed = {} /\ L \in Nat /\ F = IF L = 0 THEN 5 ELSE L + 7
        /\ \/ n = 0 /\ wire[1] = P55
           \/ n = 1 /\ wire[1] = PFF
           \/ n >= 5 /\ L > MaxData
    BY <1>1, <1>5, <1>6, ReceiverAt
  <2>2. CASE n = 0
    BY <2>1, <2>2, <1>1, <1>s DEF Had, FrameLen
  <2>3. CASE n = 1
    BY <2>1, <2>3, <1>1, <1>s DEF Had, FrameLen
  <2>4. CASE n >= 5 /\ L > MaxData
    BY <2>1, <2>4, <1>1, <1>s DEF Had, IsData
  <2> QED
    BY <2>1, <2>2, <2>3, <2>4
<1>7. Followed'
  BY <1>0, <1>5, <1>6, FollowOn
<1> QED
  BY <1>1, <1>2, <1>3, <1>7 DEF RxInv

LEMMA HeaderStep ==
  ASSUME RxInv, RxHeader
  PROVE  RxInv'
<1>0. Take("HEADER")
  BY DEF RxHeader
<1>1. /\ RxTypes /\ RxFill /\ Followed /\ wire # <<>>
      /\ rx_header' = Append(rx_header, wire[1]) /\ wire[1] \in WireByte
      /\ rx_state' = (IF Len(rx_header') >= HeaderLen THEN "HEADER_CRC" ELSE "HEADER")
      /\ rx_data' = rx_data /\ rx_data_len' = rx_data_len /\ pushed' = pushed
      /\ rx_state = "HEADER" /\ frame' = frame /\ clean' = clean
      /\ lost' = lost /\ noise' = noise /\ gap' \in Nat
      /\ wire' \in Seq(WireByte) /\ WireOfFrame' /\ frame \in Frame /\ MaxData \in Nat
  BY <1>0, TakeStep DEF RxHeader, RxInv, Take
<1>s. /\ rx_header \in Seq(WireByte) /\ Len(rx_header) \in Nat /\ Len(rx_header) < 2
      /\ rx_header' \in Seq(WireByte) /\ Len(rx_header') = Len(rx_header) + 1
      /\ rx_state' = IF Len(rx_header) = 1 THEN "HEADER_CRC" ELSE "HEADER"
  <2>1. rx_header \in Seq(WireByte) /\ Len(rx_header) < 2
    BY <1>1 DEF RxTypes, RxFill, HeaderLen
  <2>2. Len(rx_header) \in Nat /\ rx_header' \in Seq(WireByte) /\ Len(rx_header') = Len(rx_header) + 1
    BY <2>1, <1>1
  <2>3. rx_state' = (IF Len(rx_header') >= 2 THEN "HEADER_CRC" ELSE "HEADER")
    BY <1>1 DEF HeaderLen
  <2>4. CASE Len(rx_header) = 1
    BY <2>1, <2>2, <2>3, <2>4
  <2>5. CASE Len(rx_header) = 0
    BY <2>1, <2>2, <2>3, <2>5
  <2>6. Len(rx_header) \in {0, 1}
    <3>1. \A l \in Nat : l < 2 => l \in {0, 1}
      OBVIOUS
    <3> QED
      BY <2>1, <2>2, <3>1, Zenon
  <2> QED
    BY <2>4, <2>5, <2>6
<1>2. RxTypes'
  BY <1>1, <1>s DEF RxTypes
<1>3. RxFill' /\ Paid'
  BY <1>1, <1>s DEF RxFill, Paid, InData, HeaderLen
<1>5. PICK n : n = FrameLen(frame) - Len(wire)
  OBVIOUS
<1>6. ASSUME clean PROVE Had(n + 1)'
  <2> DEFINE L == Len(frame.data)
             F == FrameLen(frame)
  <2>1. /\ n \in 0 .. F - 1 /\ pushed = {} /\ L \in Nat /\ F = IF L = 0 THEN 5 ELSE L + 7
        /\ \/ n = 2 /\ rx_header = <<>> /\ wire[1] = B(frame.type)
           \/ n = 3 /\ rx_header = <<B(frame.type)>> /\ wire[1] = B(L)
           \/ n >= 5 /\ L > MaxData
    BY <1>1, <1>5, <1>6, ReceiverAt
  <2>2. CASE n = 2 /\ rx_header = <<>> /\ wire[1] = B(frame.type)
    <3>1. rx_header' = <<B(frame.type)>> /\ rx_state' = "HEADER"
      BY <2>2, <1>1, <1>s
    <3> QED
      BY <3>1, <2>1, <2>2, <1>1 DEF Had, FrameLen
  <2>3. CASE n = 3 /\ rx_header = <<B(frame.type)>> /\ wire[1] = B(L)
    <3>1. Append(rx_header, wire[1]) = <<B(frame.type), B(L)>> /\ Len(rx_header) = 1
      <4>1. B(frame.type) \in WireByte /\ B(L) \in WireByte
        <5>0. frame.type \in 0 .. 84
          BY <1>1, FrameFacts
        <5>1. frame.type \in Nat
          BY <5>0
        <5>2. L \in Nat
          BY <2>1
        <5> QED
          BY <5>1, <5>2, Zenon DEF WireByte, PlainByte
      <4>2. Append(<<B(frame.type)>>, B(L)) = <<B(frame.type), B(L)>>
        BY <4>1, SecondAppended
      <4> QED
        BY <4>2, <2>3
    <3>2. rx_header' = Header(frame) /\ rx_state' = "HEADER_CRC"
      BY <3>1, <1>1, <1>s DEF Header
    <3>3. rx_header' = Header(frame') /\ FrameLen(frame') # 4 /\ pushed' = {} /\ n + 1 = 4
      <4>1. FrameLen(frame) \in Nat /\ FrameLen(frame) >= 5
        BY <1>1, FrameFacts
      <4> QED
        <5>1. rx_header' = Header(frame') /\ pushed' = {} /\ FrameLen(frame') = FrameLen(frame)
          BY <3>2, <2>1, <1>1
        <5> QED
          BY <5>1, <4>1, <2>3
    <3> QED
      BY <3>2, <3>3 DEF Had
  <2>4. CASE n >= 5 /\ L > MaxData
    BY <2>1, <2>4, <1>1, <1>s DEF Had, IsData
  <2> QED
    BY <2>1, <2>2, <2>3, <2>4
<1>7. Followed'
  BY <1>0, <1>5, <1>6, FollowOn
<1> QED
  BY <1>1, <1>2, <1>3, <1>7 DEF RxInv

LEMMA HeaderBadStep ==
  ASSUME RxInv, RxHeaderBad
  PROVE  RxInv'
<1>0. Take("HEADER_CRC")
  BY DEF RxHeaderBad
<1>1. /\ RxTypes /\ RxFill /\ Followed /\ wire # <<>>
      /\ wire[1] # HeaderCrc(rx_header)
      /\ rx_state' = "IDLE" /\ rx_header' = <<>> /\ rx_data' = <<>> /\ rx_data_len' = 0
      /\ pushed' = pushed
      /\ rx_state = "HEADER_CRC" /\ frame' = frame /\ clean' = clean
      /\ lost' = lost /\ noise' = noise /\ gap' \in Nat
      /\ wire' \in Seq(WireByte) /\ WireOfFrame' /\ frame \in Frame /\ MaxData \in Nat
  BY <1>0, TakeStep DEF RxHeaderBad, RxInv, Take, ToIdle
<1>2. RxTypes'
  BY <1>1 DEF RxTypes
<1>3. RxFill' /\ Paid'
  BY <1>1 DEF RxFill, Paid, InData, HeaderLen
<1>5. PICK n : n = FrameLen(frame) - Len(wire)
  OBVIOUS
<1>6. ASSUME clean PROVE Had(n + 1)'
  <2> DEFINE L == Len(frame.data)
             F == FrameLen(frame)
  <2>1. /\ n \in 0 .. F - 1 /\ pushed = {} /\ L \in Nat /\ F = IF L = 0 THEN 5 ELSE L + 7
        /\ n >= 5 /\ L > MaxData
    BY <1>1, <1>5, <1>6, ReceiverAt
  <2> QED
    BY <2>1, <1>1 DEF Had, IsData
<1>7. Followed'
  BY <1>0, <1>5, <1>6, FollowOn
<1> QED
  BY <1>1, <1>2, <1>3, <1>7 DEF RxInv

(* A CRC byte is that of the frame on the wire, at its place. *)
LEMMA CrcOfFrame ==
  ASSUME RxTypes, WireOfFrame, wire # <<>>
  PROVE  /\ \A h : wire[1] = HeaderCrc(h) => h = Header(frame) /\ Len(wire) = FrameLen(frame) - 4
         /\ \A d : wire[1] = DataCrc2(d) =>
              Len(frame.data) # 0 /\ d = Pdu(frame).data /\ Len(wire) = 1
<1>1. frame \in Frame /\ wire \in Seq(WireByte)
  BY DEF RxTypes
<1>2. Len(wire) \in Nat /\ Len(wire) >= 1
  BY <1>1
<1>3. FrameLen(frame) \in Nat
  BY <1>1, FrameFacts
<1>4. OfFrame(1)
  BY <1>2 DEF WireOfFrame
<1> DEFINE m == FrameLen(frame) - (Len(wire) - 1)
<1>5. CASE wire[1] \in {B(1), B(85), B(255)}
  BY <1>5, Codes
<1>6. CASE Len(wire) - 1 < FrameLen(frame) /\ wire[1] = ByteAt(frame, m)
  <2>1. m \in 1 .. FrameLen(frame)
    BY <1>2, <1>3, <1>6
  <2>2. PICK w \in Nat, f \in Nat : w = Len(wire) /\ f = FrameLen(frame)
    BY <1>2, <1>3
  <2>m. m = f - (w - 1)
    BY <2>2
  <2> HIDE DEF m
  <2>3. (m = 5 => Len(wire) = FrameLen(frame) - 4) /\ (m = FrameLen(frame) => Len(wire) = 1)
    <3>1. (m = 5 => w = f - 4) /\ (m = f => w = 1)
      BY <2>m
    <3> QED
      BY <3>1, <2>2, Zenon
  <2> HIDE DEF m
  <2> QED
    BY <2>1, <2>3, <1>1, <1>6, ByteKinds
<1> QED
  BY <1>4, <1>5, <1>6 DEF OfFrame

LEMMA HeaderGoodStep ==
  ASSUME RxInv, RxHeaderGood
  PROVE  RxInv'
<1>0. Take("HEADER_CRC")
  BY DEF RxHeaderGood
<1> DEFINE L == Len(frame.data)
           F == FrameLen(frame)
<1>1. /\ RxTypes /\ RxFill /\ Followed /\ WireOfFrame /\ wire # <<>>
      /\ wire[1] = HeaderCrc(rx_header) /\ pushed' = pushed
      /\ rx_state = "HEADER_CRC" /\ frame' = frame /\ clean' = clean
      /\ lost' = lost /\ noise' = noise /\ gap' = 0
      /\ wire' \in Seq(WireByte) /\ WireOfFrame' /\ frame \in Frame /\ MaxData \in Nat
      /\ Len(wire) \in Nat /\ Len(wire') = Len(wire) - 1
  BY <1>0, TakeStep DEF RxHeaderGood, RxInv, Take, InData
<1>2. rx_header = Header(frame) /\ Len(wire) = F - 4
  BY <1>1, CrcOfFrame
<1>3. /\ rx_header[2][2] = L /\ L \in Nat /\ F \in Nat /\ F >= 5 /\ F = (IF L = 0 THEN 5 ELSE L + 7)
      /\ Len(Header(frame)) = 2
  <2>1. Header(frame)[2] = B(L) /\ L \in 0 .. MaxData + 1 /\ Len(Header(frame)) = 2 /\ F \in Nat /\ F >= 5
    BY <1>1, FrameFacts
  <2>2. rx_header[2][2] = L
    BY <2>1, <1>2, Codes
  <2>3. L \in Nat
    BY <2>1, <1>1
  <2> QED
    BY <2>1, <2>2, <2>3 DEF FrameLen
<1>4. \/ /\ L = 0 \/ L > MaxData
         /\ rx_state' = "IDLE" /\ rx_header' = <<>> /\ rx_data' = <<>> /\ rx_data_len' = 0
      \/ /\ L \in 1 .. MaxData /\ rx_state' = "DATA" /\ rx_data' = <<>> /\ rx_data_len' = L
         /\ rx_header' = rx_header
  BY <1>1, <1>3 DEF RxHeaderGood, ToIdle, TooLarge
<1> HIDE DEF L, F
<1>5. RxTypes'
  <2>1. rx_header' \in Seq(WireByte) /\ rx_data' \in Seq(WireByte) /\ rx_data_len' \in 0 .. MaxData
    <3>1. rx_header \in Seq(WireByte)
      BY <1>1 DEF RxTypes
    <3>2. <<>> \in Seq(WireByte) /\ 0 \in 0 .. MaxData
      BY <1>1
    <3>3. L \in 1 .. MaxData => L \in 0 .. MaxData
      BY <1>1, <1>3
    <3> QED
      BY <3>1, <3>2, <3>3, <1>4
  <2>2. rx_state' \in {"IDLE", "DATA"}
    BY <1>4
  <2> QED
    BY <2>1, <2>2, <1>1 DEF RxTypes, InData
<1>6. RxFill'
  <2>1. CASE rx_state' = "IDLE" /\ rx_header' = <<>> /\ rx_data' = <<>>
    BY <2>1, <1>1 DEF RxFill, InData, HeaderLen
  <2>2. CASE /\ L \in 1 .. MaxData /\ rx_state' = "DATA" /\ rx_data' = <<>> /\ rx_data_len' = L
             /\ rx_header' = rx_header
    BY <2>2, <1>1, <1>2, <1>3 DEF RxFill, InData, HeaderLen
  <2> QED
    BY <2>1, <2>2, <1>4
<1>7. Paid'
  <2>1. CASE rx_state' = "IDLE"
    BY <2>1 DEF Paid, InData
  <2>2. CASE /\ L \in 1 .. MaxData /\ rx_data' = <<>> /\ rx_data_len' = L /\ rx_header' = rx_header
    <3>1. gap' + Len(rx_data') + Len(wire') >= rx_data_len' + 2
      <4>1. \A l, w \in Nat : w = l + 3 => 0 + 0 + (w - 1) >= l + 2
        OBVIOUS
      <4>2. Len(wire) = L + 3
        BY <2>2, <1>2, <1>3
      <4>3. Len(rx_data') = 0 /\ gap' = 0 /\ Len(wire') = Len(wire) - 1 /\ rx_data_len' = L
        BY <2>2, <1>1
      <4> QED
        BY <4>1, <4>2, <4>3, <1>1, <1>3, Zenon
    <3>2. rx_header' = Header(frame')
      BY <2>2, <1>1, <1>2
    <3> QED
      BY <3>1, <3>2 DEF Paid
  <2> QED
    BY <2>1, <2>2, <1>4
<1>9. ASSUME clean PROVE Had(4 + 1)'
  <2>1. pushed = {}
    BY <1>1, <1>9, ReceiverAt
  <2>2. CASE L = 0 /\ rx_state' = "IDLE"
    BY <2>1, <2>2, <1>1, <1>3 DEF Had, IsData, L, F
  <2>3. CASE L > MaxData /\ rx_state' = "IDLE"
    BY <2>1, <2>3, <1>1, <1>3 DEF Had, IsData, L, F
  <2>4. CASE /\ L \in 1 .. MaxData /\ rx_state' = "DATA" /\ rx_data' = <<>> /\ rx_data_len' = L
             /\ rx_header' = rx_header
    <3>1. rx_header' = Header(frame') /\ Len(rx_data') = 0 /\ FrameLen(frame') # 5 /\ L = Len(frame'.data)
      BY <2>4, <1>1, <1>2, <1>3 DEF F, L
    <3> QED
      BY <3>1, <2>1, <2>4, <1>1 DEF Had
  <2> QED
    BY <2>2, <2>3, <2>4, <1>4
<1>10. 4 = FrameLen(frame) - Len(wire)
  BY <1>1, <1>2, <1>3 DEF F
<1>11. Followed'
  BY <1>0, <1>9, <1>10, FollowOn
<1> QED
  BY <1>1, <1>5, <1>6, <1>7, <1>11 DEF RxInv

(* A byte went from the wire into the buffer. *)
LEMMA PaidOn ==
  ASSUME RxTypes, Paid, rx_state \in InData, frame' = frame, gap' = gap,
         rx_header' = rx_header, rx_data_len' = rx_data_len,
         Len(rx_data') = Len(rx_data) + 1, Len(wire') = Len(wire) - 1
  PROVE  Paid'
<1>1. rx_data \in Seq(WireByte) /\ wire \in Seq(WireByte) /\ gap \in Nat
  BY DEF RxTypes
<1>2. PICK d \in Nat, w \in Nat, k \in Nat : d = Len(rx_data) /\ w = Len(wire) /\ k = gap
  BY <1>1
<1>3. k + (d + 1) + (w - 1) = k + d + w
  BY <1>2
<1>4. gap' + Len(rx_data') + Len(wire') = gap + Len(rx_data) + Len(wire)
  BY <1>2, <1>3, Zenon
<1>5. FrameLen(frame') = FrameLen(frame)
  OBVIOUS
<1>6. \/ rx_header' = Header(frame') /\ gap' + Len(rx_data') + Len(wire') >= rx_data_len' + 2
      \/ gap' + Len(rx_data') + Len(wire') >= rx_data_len' + 2 + FrameLen(frame')
  BY <1>4, <1>5 DEF Paid
<1> QED
  BY <1>6 DEF Paid

LEMMA DataStep ==
  ASSUME RxInv, RxData
  PROVE  RxInv'
<1>0. Take("DATA")
  BY DEF RxData
<1>1. /\ RxTypes /\ RxFill /\ Paid /\ Followed /\ wire # <<>>
      /\ rx_data' = Append(rx_data, wire[1]) /\ wire[1] \in WireByte
      /\ rx_state' = (IF Len(rx_data') >= rx_data_len THEN "DATA_CRC1" ELSE "DATA")
      /\ rx_header' = rx_header /\ rx_data_len' = rx_data_len /\ pushed' = pushed
      /\ rx_state = "DATA" /\ frame' = frame /\ clean' = clean
      /\ lost' = lost /\ noise' = noise /\ gap' = gap /\ gap \in Nat
      /\ wire' \in Seq(WireByte) /\ WireOfFrame' /\ frame \in Frame /\ MaxData \in Nat
      /\ Len(wire) \in Nat /\ Len(wire') = Len(wire) - 1
  BY <1>0, TakeStep DEF RxData, RxInv, Take, Filled, InData
<1>2. rx_data \in Seq(WireByte) /\ rx_data_len \in 0 .. MaxData
  BY <1>1 DEF RxTypes
<1>3. /\ rx_data' \in Seq(WireByte) /\ Len(rx_data) \in Nat /\ Len(rx_data') = Len(rx_data) + 1
      /\ \A k \in 1 .. Len(rx_data) : rx_data'[k] = rx_data[k]
      /\ rx_data'[Len(rx_data) + 1] = wire[1]
  BY <1>1, <1>2, Appends
<1>4. RxTypes'
  BY <1>1, <1>2, <1>3 DEF RxTypes, InData
<1>5. PICK d \in Nat, l \in Nat : d = Len(rx_data) /\ l = rx_data_len
  BY <1>2, <1>3
<1>6. /\ d < l /\ Len(rx_data') = d + 1 /\ l <= MaxData
      /\ rx_state' = (IF d + 1 = l THEN "DATA_CRC1" ELSE "DATA")
  <2>1. d < l /\ l <= MaxData /\ Len(rx_data') = d + 1
    BY <1>1, <1>2, <1>3, <1>5 DEF RxFill
  <2>2. d + 1 >= l <=> d + 1 = l
    BY <2>1
  <2>3. rx_state' = (IF d + 1 >= l THEN "DATA_CRC1" ELSE "DATA")
    BY <1>1, <1>5, <2>1
  <2> QED
    BY <2>1, <2>2, <2>3
<1>7. RxFill'
  <2>1. d + 1 <= MaxData + 1 /\ l >= 1 /\ (d + 1 # l => d + 1 < l)
    BY <1>1, <1>6
  <2>2. rx_data_len' = l /\ Len(rx_header) = HeaderLen /\ \A p \in pushed : Len(p.data) \in 1 .. MaxData
    BY <1>1, <1>5 DEF RxFill, InData
  <2> QED
    BY <2>1, <2>2, <1>1, <1>6 DEF RxFill, InData, HeaderLen
<1>8. Paid'
  BY <1>1, <1>3, PaidOn DEF InData
<1>10. PICK n : n = FrameLen(frame) - Len(wire)
  OBVIOUS
<1>11. ASSUME clean PROVE Had(n + 1)'
  <2> DEFINE L == Len(frame.data)
             F == FrameLen(frame)
  <2>1. /\ n \in 0 .. F - 1 /\ pushed = {} /\ L \in Nat /\ F \in Nat
        /\ F = (IF L = 0 THEN 5 ELSE L + 7)
        /\ L \in 1 .. MaxData /\ n >= 5 /\ n <= L + 4
        /\ rx_header = Header(frame) /\ rx_data_len = L
        /\ Len(rx_data) = n - 5 /\ \A k \in 1 .. n - 5 : rx_data[k] = Data[k]
        /\ wire[1] = Data[n - 4]
    BY <1>1, <1>10, <1>11, ReceiverAt
  <2>2. n \in Nat /\ d = n - 5 /\ l = L /\ F = L + 7
    BY <2>1, <1>5
  <2>3. Data' = Data /\ Len(frame'.data) = L /\ FrameLen(frame') = F /\ Header(frame') = Header(frame)
    BY <1>1 DEF Data
  <2> HIDE DEF L, F
  <2>4. Len(rx_data') = (n + 1) - 5 /\ n + 1 <= L + 5 /\ n + 1 >= 5 /\ n + 1 # F
    BY <2>1, <2>2, <1>6
  <2>5. \A k \in 1 .. (n + 1) - 5 : rx_data'[k] = Data'[k]
    <3> SUFFICES ASSUME NEW k \in 1 .. (n + 1) - 5 PROVE rx_data'[k] = Data[k]
      BY <2>3
    <3>1. CASE k \in 1 .. n - 5
      BY <3>1, <2>1, <2>2, <1>3, <1>5
    <3>2. CASE k = n - 4
      <4>1. Len(rx_data) + 1 = n - 4
        BY <2>1, <2>2
      <4> QED
        BY <4>1, <3>2, <2>1, <1>3
    <3> QED
      BY <3>1, <3>2, <2>2
  <2>6. rx_state' = (IF n + 1 = L + 5 THEN "DATA_CRC1" ELSE "DATA")
    <3>1. d + 1 = l <=> n + 1 = L + 5
      BY <2>1, <2>2
    <3> QED
      BY <3>1, <1>6
  <2>7. /\ n + 1 > 4 /\ n + 1 # L + 6 /\ n + 1 # L + 7 /\ L # 0 /\ ~(L > MaxData)
    BY <2>1, <2>2, <1>1
  <2>8. pushed' = {} /\ rx_header' = Header(frame') /\ rx_data_len' = L
    BY <2>1, <2>3, <1>1
  <2> QED
    BY <2>3, <2>4, <2>5, <2>6, <2>7, <2>8, <2>2 DEF Had
<1>12. Followed'
  BY <1>0, <1>10, <1>11, FollowOn
<1> QED
  BY <1>1, <1>4, <1>7, <1>8, <1>12 DEF RxInv

LEMMA DataCrc1Step ==
  ASSUME RxInv, RxDataCrc1
  PROVE  RxInv'
<1>0. Take("DATA_CRC1")
  BY DEF RxDataCrc1
<1>1. /\ RxTypes /\ RxFill /\ Paid /\ Followed /\ wire # <<>>
      /\ rx_data' = Append(rx_data, wire[1]) /\ wire[1] \in WireByte /\ rx_state' = "DATA_CRC2"
      /\ rx_header' = rx_header /\ rx_data_len' = rx_data_len /\ pushed' = pushed
      /\ rx_state = "DATA_CRC1" /\ frame' = frame /\ clean' = clean
      /\ lost' = lost /\ noise' = noise /\ gap' = gap /\ gap \in Nat
      /\ wire' \in Seq(WireByte) /\ WireOfFrame' /\ frame \in Frame /\ MaxData \in Nat
      /\ Len(wire) \in Nat /\ Len(wire') = Len(wire) - 1
  BY <1>0, TakeStep DEF RxDataCrc1, RxInv, Take, InData
<1>2. rx_data \in Seq(WireByte) /\ rx_data_len \in 0 .. MaxData
  BY <1>1 DEF RxTypes
<1>3. /\ rx_data' \in Seq(WireByte) /\ Len(rx_data) \in Nat /\ Len(rx_data') = Len(rx_data) + 1
  BY <1>1, <1>2, Appends
<1>4. RxTypes'
  BY <1>1, <1>2, <1>3 DEF RxTypes, InData
<1>5. RxFill'
  <2>1. /\ Len(rx_data) = rx_data_len /\ rx_data_len >= 1 /\ Len(rx_header) = HeaderLen
        /\ \A p \in pushed : Len(p.data) \in 1 .. MaxData
    BY <1>1 DEF RxFill, InData
  <2>2. Len(rx_data') = rx_data_len' + 1 /\ Len(rx_data') <= MaxData + 1
    BY <2>1, <1>1, <1>2, <1>3
  <2> QED
    BY <2>1, <2>2, <1>1 DEF RxFill, InData, HeaderLen
<1>6. Paid'
  BY <1>1, <1>3, PaidOn DEF InData
<1>8. PICK n : n = FrameLen(frame) - Len(wire)
  OBVIOUS
<1>9. ASSUME clean PROVE Had(n + 1)'
  <2> DEFINE L == Len(frame.data)
             F == FrameLen(frame)
  <2>1. /\ n \in 0 .. F - 1 /\ pushed = {} /\ L \in Nat /\ F \in Nat
        /\ F = (IF L = 0 THEN 5 ELSE L + 7)
        /\ L \in 1 .. MaxData /\ n = L + 5
        /\ rx_header = Header(frame) /\ rx_data_len = L
        /\ Len(rx_data) = n - 5 /\ \A k \in 1 .. n - 5 : rx_data[k] = Data[k]
        /\ wire[1] = DataCrc1(Data)
    BY <1>1, <1>8, <1>9, ReceiverAt
  <2>2. Data' = Data /\ Len(frame'.data) = L /\ FrameLen(frame') = F /\ Header(frame') = Header(frame)
    BY <1>1 DEF Data
  <2>3. Data \in Seq(WireByte) /\ Len(Data) = L
    <3>1. Data \in Seq(PlainByte) /\ Len(Data) = L
      BY <1>1, FrameFacts DEF Data
    <3>2. PlainByte \subseteq WireByte
      BY DEF WireByte
    <3> QED
      BY <3>1, <3>2
  <2> HIDE DEF L, F
  <2>4. rx_data = Data
    <3>1. Len(rx_data) = Len(Data) /\ n - 5 = L
      BY <2>1, <2>3
    <3>2. \A k \in 1 .. Len(rx_data) : rx_data[k] = Data[k]
      BY <3>1, <2>1
    <3> QED
      BY <3>1, <3>2, <2>3, <1>2, SameSeq
  <2>5. rx_data' = Append(Data', DataCrc1(Data'))
    BY <2>1, <2>2, <2>4, <1>1
  <2>6. n + 1 = L + 6 /\ n + 1 > 4 /\ n + 1 # F /\ L # 0 /\ ~(L > MaxData) /\ ~(n + 1 <= L + 5) /\ n + 1 # L + 7
    BY <2>1, <1>1
  <2>7. pushed' = {} /\ rx_header' = Header(frame') /\ rx_data_len' = L
    BY <2>1, <2>2, <1>1
  <2> QED
    BY <2>1, <2>2, <2>5, <2>6, <2>7, <1>1 DEF Had
<1>10. Followed'
  BY <1>0, <1>8, <1>9, FollowOn
<1> QED
  BY <1>1, <1>4, <1>5, <1>6, <1>10 DEF RxInv

LEMMA AllButLast ==
  ASSUME NEW S, NEW s \in Seq(S), NEW y \in S
  PROVE  SubSeq(Append(s, y), 1, Len(s)) = s /\ Append(s, y)[Len(s) + 1] = y
OBVIOUS

(* The data of a frame that met no fault passes the test. *)
LEMMA CleanData ==
  ASSUME RxInv, Take("DATA_CRC2"), clean
  PROVE  /\ DataOk(Head(wire)) /\ Received = Data /\ rx_header = Header(frame) /\ pushed = {}
         /\ FrameLen(frame) - Len(wire) = Len(frame.data) + 6 /\ Len(frame.data) \in 1 .. MaxData
<1> DEFINE L == Len(frame.data)
<1>1. /\ RxTypes /\ Followed /\ wire # <<>> /\ rx_state = "DATA_CRC2" /\ Head(wire) = wire[1]
      /\ frame \in Frame
  BY TakeStep DEF RxInv, Take
<1>2. /\ L \in 1 .. MaxData /\ FrameLen(frame) - Len(wire) = L + 6 /\ pushed = {}
      /\ rx_header = Header(frame) /\ rx_data_len = L
      /\ rx_data = Append(Data, DataCrc1(Data)) /\ wire[1] = DataCrc2(Data)
  BY <1>1, ReceiverAt
<1>3. /\ Data \in Seq(PlainByte) /\ Len(Data) = L
  BY <1>1, FrameFacts DEF Data
<1>4. Data \in Seq(WireByte) /\ DataCrc1(Data) \in WireByte
  <2>1. PlainByte \subseteq WireByte /\ DataCrc1(Data) \in WireByte
    BY <1>3 DEF WireByte
  <2> QED
    BY <2>1, <1>3
<1>5. SubSeq(rx_data, 1, rx_data_len) = Data /\ rx_data[rx_data_len + 1] = DataCrc1(Data)
  <2>1. /\ SubSeq(Append(Data, DataCrc1(Data)), 1, Len(Data)) = Data
        /\ Append(Data, DataCrc1(Data))[Len(Data) + 1] = DataCrc1(Data)
    BY <1>4, AllButLast
  <2> QED
    BY <2>1, <1>2, <1>3
<1> QED
  BY <1>1, <1>2, <1>5 DEF DataOk, Received

LEMMA DataBadStep ==
  ASSUME RxInv, RxDataBad
  PROVE  RxInv'
<1>0. Take("DATA_CRC2") /\ ~clean
  BY CleanData DEF RxDataBad
<1>1. /\ RxTypes /\ RxFill
      /\ rx_state' = "IDLE" /\ rx_header' = <<>> /\ rx_data' = <<>> /\ rx_data_len' = 0
      /\ pushed' = pushed /\ frame' = frame /\ clean' = clean
      /\ lost' = lost /\ noise' = noise /\ gap' \in Nat
      /\ wire' \in Seq(WireByte) /\ WireOfFrame' /\ frame \in Frame /\ MaxData \in Nat
  BY <1>0, TakeStep DEF RxDataBad, RxInv, ToIdle
<1>2. RxTypes'
  BY <1>1 DEF RxTypes
<1>3. RxFill' /\ Paid'
  BY <1>1 DEF RxFill, Paid, InData, HeaderLen
<1>5. Followed'
  BY <1>0, <1>1 DEF Followed
<1> QED
  BY <1>1, <1>2, <1>3, <1>5 DEF RxInv

LEMMA DataGoodStep ==
  ASSUME RxInv, RxDataGood
  PROVE  /\ RxInv'
         /\ \A p \in pushed' \ pushed :
              p = Pdu(frame) \/ gap >= HeaderLen + 5 + Len(p.data)
<1>0. Take("DATA_CRC2")
  BY DEF RxDataGood
<1> DEFINE L == Len(frame.data)
           p == [type |-> rx_header[1], data |-> Received]
<1>1. /\ RxTypes /\ RxFill /\ Paid /\ WireOfFrame /\ wire # <<>>
      /\ rx_state = "DATA_CRC2" /\ wire[1] = DataCrc2(Received)
      /\ rx_state' = "IDLE" /\ rx_header' = <<>> /\ rx_data' = <<>> /\ rx_data_len' = 0
      /\ pushed' = (IF rx_header[1][2] \notin {5, 6} THEN pushed ELSE pushed \cup {p})
      /\ frame' = frame /\ clean' = clean /\ lost' = lost /\ noise' = noise /\ gap' \in Nat
      /\ wire' \in Seq(WireByte) /\ WireOfFrame' /\ frame \in Frame /\ MaxData \in Nat
  BY <1>0, TakeStep DEF RxDataGood, RxInv, Take, ToIdle, DataOk
<1>2. L # 0 /\ Received = Pdu(frame).data /\ Len(wire) = 1
  BY <1>1, CrcOfFrame
<1>3. /\ L \in Nat /\ Len(Pdu(frame).data) = L /\ FrameLen(frame) = L + 7
      /\ Header(frame)[1] = B(frame.type) /\ Pdu(frame).type = B(frame.type)
  <2>1. /\ L \in 0 .. MaxData + 1 /\ Len(Pdu(frame).data) = L
        /\ Header(frame)[1] = B(frame.type) /\ Pdu(frame).type = B(frame.type)
    BY <1>1, FrameFacts
  <2>2. L \in Nat
    BY <2>1
  <2> QED
    BY <2>1, <2>2, <1>2 DEF FrameLen
<1>4. /\ rx_data \in Seq(WireByte) /\ rx_data_len \in 1 .. MaxData /\ Len(rx_data) = rx_data_len + 1
  BY <1>1 DEF RxTypes, RxFill, InData
<1>5. Len(Received) = rx_data_len
  BY <1>1, <1>4 DEF Received
<1>6. rx_data_len = L /\ Len(p.data) = L /\ p.data = Received
  BY <1>2, <1>3, <1>5
<1>7. rx_header = Header(frame) => p = Pdu(frame)
  BY <1>2, <1>3 DEF Pdu
<1>8. rx_header # Header(frame) => gap >= HeaderLen + 5 + L
  <2> SUFFICES ASSUME rx_header # Header(frame) PROVE gap >= 2 + 5 + L
    BY DEF HeaderLen
  <2>1. gap + Len(rx_data) + Len(wire) >= rx_data_len + 2 + FrameLen(frame)
    BY <1>1 DEF Paid, InData
  <2>2. gap + (L + 1) + 1 >= L + 2 + (L + 7)
    BY <2>1, <1>2, <1>3, <1>4, <1>6
  <2>3. gap \in Nat
    BY <1>1 DEF RxTypes
  <2> HIDE DEF L
  <2> QED
    BY <2>2, <2>3, <1>3
<1> HIDE DEF p, L
<1>9. RxTypes'
  BY <1>1 DEF RxTypes
<1>10. RxFill' /\ Paid'
  <2>1. \A q \in pushed' : Len(q.data) \in 1 .. MaxData
    BY <1>1, <1>4, <1>6 DEF RxFill
  <2> QED
    BY <2>1, <1>1 DEF RxFill, Paid, InData, HeaderLen
<1>11. \A q \in pushed' \ pushed : q = Pdu(frame) \/ gap >= HeaderLen + 5 + Len(q.data)
  <2> SUFFICES ASSUME NEW q \in pushed' \ pushed
               PROVE  q = Pdu(frame) \/ gap >= HeaderLen + 5 + Len(q.data)
    OBVIOUS
  <2>1. q = p
    BY <1>1
  <2> QED
    BY <2>1, <1>6, <1>7, <1>8
<1>12. PICK n : n = FrameLen(frame) - Len(wire)
  OBVIOUS
<1>13. ASSUME clean PROVE Had(n + 1)'
  <2>1. pushed = {} /\ rx_header = Header(frame) /\ n = L + 6 /\ L \in 1 .. MaxData
    BY <1>0, <1>12, <1>13, CleanData DEF L
  <2>2. rx_header[1][2] = frame.type
    BY <2>1, <1>3, Codes
  <2>3. pushed' = IF IsData(frame) THEN {Pdu(frame)} ELSE {}
    BY <2>1, <2>2, <1>1, <1>7 DEF IsData, L
  <2>4. Len(frame'.data) = L /\ FrameLen(frame') = n + 1 /\ frame' = frame
    BY <2>1, <1>1, <1>3 DEF L
  <2>5. n + 1 = L + 7 /\ n + 1 > 4 /\ L # 0 /\ ~(L > MaxData) /\ ~(n + 1 <= L + 6) /\ ~(n + 1 <= L + 5)
    BY <2>1, <1>1, <1>3
  <2> QED
    BY <2>3, <2>4, <2>5, <1>1 DEF Had
<1>14. Followed'
  BY <1>0, <1>12, <1>13, FollowOn
<1> QED
  BY <1>1, <1>9, <1>10, <1>11, <1>14 DEF RxInv

-----------------------------------------------------------------------------
LEMMA RxInitInv == RxInit => RxInv
<1> SUFFICES ASSUME RxInit PROVE RxInv
  OBVIOUS
<1>1. /\ wire = <<>> /\ frame \in Frame /\ rx_state = "IDLE" /\ rx_header = <<>> /\ rx_data = <<>>
      /\ rx_data_len = 0 /\ pushed = {} /\ clean = FALSE /\ gap = 0 /\ lost = 0 /\ noise = 0
  BY DEF RxInit
<1>2. RxTypes
  <2>1. clean \in BOOLEAN
    BY <1>1
  <2>2. /\ wire \in Seq(WireByte) /\ rx_header \in Seq(WireByte) /\ rx_data \in Seq(WireByte)
        /\ rx_data_len \in 0 .. MaxData /\ gap \in Nat /\ lost \in 0 .. MaxLost /\ noise \in 0 .. MaxNoise
    BY <1>1, FaultsAssumption
  <2> QED
    BY <2>1, <2>2, <1>1, Zenon DEF RxTypes
<1>3. RxFill /\ Paid /\ Followed
  BY <1>1, FaultsAssumption DEF RxFill, Paid, Followed, InData, HeaderLen
<1>4. FrameLen(frame) \in Nat /\ Len(wire) = 0
  BY <1>1, FrameFacts
<1>5. WireOfFrame
  BY <1>1, <1>4 DEF WireOfFrame
<1> QED
  BY <1>2, <1>3, <1>5 DEF RxInv

LEMMA SendStep ==
  ASSUME RxInv, NEW f \in Frame, Send(f)
  PROVE  RxInv'
<1>1. /\ RxTypes /\ RxFill /\ Paid /\ wire = <<>> /\ wire' = Bytes(f) /\ frame' = f /\ pushed' = {}
      /\ clean' = (rx_state \in {"IDLE", "PREAMBLE2"})
      /\ rx_state' = rx_state /\ rx_header' = rx_header /\ rx_data' = rx_data
      /\ rx_data_len' = rx_data_len /\ lost' = lost /\ noise' = noise /\ gap' = gap
  BY DEF Send, RxInv, faultVars
<1>2. /\ wire' \in Seq(WireByte) /\ Len(wire') = FrameLen(frame')
      /\ \A m \in 1 .. Len(wire') : wire'[m] = ByteAt(frame', m)
      /\ FrameLen(f) \in Nat /\ FrameLen(f) >= 5 /\ FrameLen(frame') = FrameLen(f)
  BY <1>1, BytesAt, FrameFacts
<1>3. clean' \in BOOLEAN
  BY <1>1
<1>4. RxTypes'
  <2>1. frame' \in Frame
    BY <1>1
  <2> QED
    BY <2>1, <1>1, <1>2, <1>3 DEF RxTypes
<1>5. RxFill'
  BY <1>1 DEF RxFill
<1>6. ASSUME NEW m \in 1 .. Len(wire')
      PROVE  /\ Len(wire') - m < FrameLen(frame')
             /\ wire'[m] = ByteAt(frame', FrameLen(frame') - (Len(wire') - m))
  <2>1. m \in 1 .. FrameLen(f)
    BY <1>2
  <2>2. FrameLen(f) - m < FrameLen(f) /\ FrameLen(f) - (FrameLen(f) - m) = m
    BY <2>1, <1>2
  <2> QED
    BY <2>2, <1>2
<1>7. WireOfFrame'
  <2>1. noise' \in Nat
    BY <1>1, FaultsAssumption DEF RxTypes
  <2>2. Len(wire') <= FrameLen(frame') + noise'
    BY <2>1, <1>2
  <2> QED
    BY <2>2, <1>6 DEF WireOfFrame, OfFrame
<1>8. Paid'
  <2> SUFFICES ASSUME rx_state' \in InData
               PROVE  gap' + Len(rx_data') + Len(wire') >= rx_data_len' + 2 + FrameLen(frame')
    BY DEF Paid
  <2>1. PICK d \in Nat, k \in Nat, l \in Nat : d = Len(rx_data) /\ k = gap /\ l = rx_data_len
    BY <1>1, FaultsAssumption DEF RxTypes
  <2>2. FrameLen(frame) \in Nat /\ Len(wire) = 0
    BY <1>1, FrameFacts DEF RxTypes
  <2>3. k + d + 0 >= l + 2
    BY <2>1, <2>2, <1>1 DEF Paid
  <2>4. PICK g \in Nat : g = FrameLen(f)
    BY <1>2
  <2>5. k + d + g >= l + 2 + g
    BY <2>1, <2>3, <2>4
  <2> QED
    BY <2>1, <2>4, <2>5, <1>1, <1>2
<1>9. Followed'
  <2> SUFFICES ASSUME rx_state \in {"IDLE", "PREAMBLE2"}, clean' PROVE Followed'
    BY <1>1 DEF Followed
  <2>1. Had(0)'
    <3>1. FrameLen(frame') # 0 /\ rx_state' \in {"IDLE", "PREAMBLE2"} /\ pushed' = {}
      BY <1>1, <1>2
    <3>2. Len(frame'.data) \in Nat
      BY <1>1, FrameFacts
    <3> QED
      BY <3>1, <3>2 DEF Had
  <2>2. FrameLen(frame') - Len(wire') = 0 /\ Len(wire') <= FrameLen(frame')
    BY <1>2
  <2>3. Had(FrameLen(frame) - Len(wire))'
    BY <2>1, <2>2
  <2> QED
    BY <2>2, <2>3, <1>6 DEF Followed
<1> QED
  BY <1>4, <1>5, <1>7, <1>8, <1>9 DEF RxInv

(* The receiver does not move, and gap and wire together do not shrink. *)
LEMMA FaultStep ==
  ASSUME RxInv, UNCHANGED <<frame, rxVars>>, clean' = FALSE, wire' \in Seq(WireByte), WireOfFrame',
         lost' \in 0 .. MaxLost, noise' \in 0 .. MaxNoise,
         gap' \in Nat, rx_state \in InData => gap' + Len(wire') >= gap + Len(wire)
  PROVE  RxInv'
<1>1. /\ RxTypes /\ RxFill /\ Paid /\ frame' = frame
      /\ rx_state' = rx_state /\ rx_header' = rx_header /\ rx_data' = rx_data
      /\ rx_data_len' = rx_data_len /\ pushed' = pushed
  BY DEF RxInv, rxVars
<1>2. RxTypes' /\ Followed'
  BY <1>1 DEF RxTypes, Followed
<1>3. RxFill'
  BY <1>1 DEF RxFill
<1>4. PICK d \in Nat, k \in Nat, l \in Nat, w \in Nat, k1 \in Nat, w1 \in Nat, g \in Nat :
        /\ d = Len(rx_data) /\ k = gap /\ l = rx_data_len /\ w = Len(wire)
        /\ k1 = gap' /\ w1 = Len(wire') /\ g = FrameLen(frame)
  <2>1. rx_data \in Seq(WireByte) /\ wire \in Seq(WireByte) /\ frame \in Frame
    BY <1>1 DEF RxTypes
  <2>2. gap \in Nat /\ rx_data_len \in Nat
    BY <1>1, FaultsAssumption DEF RxTypes
  <2>3. Len(rx_data) \in Nat /\ Len(wire) \in Nat /\ Len(wire') \in Nat
    BY <2>1
  <2>4. FrameLen(frame) \in Nat
    BY <2>1, FrameFacts
  <2> QED
    BY <2>2, <2>3, <2>4
<1>7. Paid'
  <2> SUFFICES ASSUME rx_state \in InData PROVE Paid'
    BY <1>1 DEF Paid
  <2>1. k1 + w1 >= k + w
    BY <1>4
  <2>2. /\ k + d + w >= l + 2 => k1 + d + w1 >= l + 2
        /\ k + d + w >= l + 2 + g => k1 + d + w1 >= l + 2 + g
    BY <1>4, <2>1
  <2> QED
    BY <1>1, <1>4, <2>2 DEF Paid
<1> QED
  BY <1>2, <1>3, <1>7 DEF RxInv

LEMMA LoseStep ==
  ASSUME RxInv, Lose
  PROVE  RxInv'
<1>1. /\ RxTypes /\ WireOfFrame /\ wire # <<>> /\ wire' = Tail(wire) /\ lost < MaxLost
      /\ lost' = lost + 1 /\ gap' = (IF rx_state \in InData THEN gap + 1 ELSE 0) /\ clean' = FALSE
      /\ UNCHANGED <<frame, rxVars>> /\ noise' = noise
      /\ frame' = frame
  BY DEF RxInv, Lose
<1>2. Len(wire) \in Nat /\ wire' \in Seq(WireByte) /\ Len(wire') = Len(wire) - 1 /\ WireOfFrame'
  BY <1>1, Taken
<1>3. gap \in Nat /\ lost \in Nat /\ MaxLost \in Nat /\ noise \in 0 .. MaxNoise
  BY <1>1, FaultsAssumption DEF RxTypes
<1>4. lost' \in 0 .. MaxLost /\ gap' \in Nat /\ noise' \in 0 .. MaxNoise
  BY <1>1, <1>3
<1>5. rx_state \in InData => gap' + Len(wire') >= gap + Len(wire)
  BY <1>1, <1>2, <1>3
<1> QED
  BY <1>1, <1>2, <1>4, <1>5, FaultStep

LEMMA DisturbStep ==
  ASSUME RxInv, NEW n \in {1, 85, 255}, Disturb(B(n))
  PROVE  RxInv'
<1> DEFINE b == B(n)
<1>1. /\ RxTypes /\ WireOfFrame /\ noise < MaxNoise
      /\ (wire # <<>> /\ wire' = <<b>> \o Tail(wire)) \/ wire' = <<b>> \o wire
      /\ noise' = noise + 1 /\ clean' = FALSE /\ UNCHANGED <<frame, rxVars>> /\ lost' = lost
      /\ gap' = gap
      /\ frame' = frame
  BY DEF RxInv, Disturb
<1>2. b \in {B(1), B(85), B(255)} /\ b \in WireByte
  BY DEF WireByte, PlainByte
<1> HIDE DEF b
<1>3. /\ wire \in Seq(WireByte) /\ frame \in Frame /\ noise \in Nat /\ MaxNoise \in Nat
      /\ gap \in Nat /\ lost \in 0 .. MaxLost
  BY <1>1, FaultsAssumption DEF RxTypes
<1>4. <<b>> \in Seq(WireByte) /\ Len(<<b>>) = 1 /\ <<b>>[1] = b /\ Len(wire) \in Nat
  BY <1>2, <1>3
<1>5. FrameLen(frame) \in Nat /\ FrameLen(frame') = FrameLen(frame)
  BY <1>1, <1>3, FrameFacts
(* The m-th byte was the k-th, as far from the end. *)
<1>6. /\ wire' \in Seq(WireByte) /\ Len(wire') \in Nat
      /\ Len(wire') >= Len(wire) /\ Len(wire') <= Len(wire) + 1
      /\ Len(wire') >= 1 /\ wire'[1] = b
      /\ \A m \in 2 .. Len(wire') : \E k \in 1 .. Len(wire) :
           wire'[m] = wire[k] /\ Len(wire') - m = Len(wire) - k
  <2>1. CASE wire # <<>> /\ wire' = <<b>> \o Tail(wire)
    <3>1. PICK t : t = Tail(wire)
      OBVIOUS
    <3>2. /\ t \in Seq(WireByte) /\ Len(t) = Len(wire) - 1 /\ Len(wire) >= 1
          /\ \A k \in 1 .. Len(t) : t[k] = wire[k + 1]
      BY <3>1, <2>1, <1>3
    <3>3. /\ wire' \in Seq(WireByte) /\ Len(wire') = 1 + Len(t) /\ wire'[1] = b
          /\ \A k \in 1 .. Len(t) : wire'[1 + k] = t[k]
      <4>1. t \in Seq(WireByte)
        BY <3>2
      <4> QED
        BY <4>1, <3>1, <2>1, <1>2
    <3>4. Len(wire') = Len(wire)
      BY <3>2, <3>3, <1>4
    <3>5. ASSUME NEW m \in 2 .. Len(wire') PROVE wire'[m] = wire[m] /\ m \in 1 .. Len(wire)
      <4>1. m - 1 \in 1 .. Len(t) /\ 1 + (m - 1) = m /\ (m - 1) + 1 = m
        BY <3>2, <3>4, <1>4
      <4>2. wire'[1 + (m - 1)] = t[m - 1] /\ t[m - 1] = wire[(m - 1) + 1]
        BY <4>1, <3>2, <3>3
      <4> QED
        BY <4>1, <4>2, <3>4, <1>4
    <3> QED
      BY <3>2, <3>3, <3>4, <3>5, <1>4
  <2>2. CASE wire' = <<b>> \o wire
    <3>1. /\ wire' \in Seq(WireByte) /\ Len(wire') = 1 + Len(wire) /\ wire'[1] = b
          /\ \A k \in 1 .. Len(wire) : wire'[1 + k] = wire[k]
      BY <2>2, <1>2, <1>3
    <3>2. ASSUME NEW m \in 2 .. Len(wire')
          PROVE  m - 1 \in 1 .. Len(wire) /\ wire'[m] = wire[m - 1] /\ Len(wire') - m = Len(wire) - (m - 1)
      <4>1. m - 1 \in 1 .. Len(wire) /\ 1 + (m - 1) = m /\ Len(wire') - m = Len(wire) - (m - 1)
        BY <3>1, <1>4
      <4>2. wire'[1 + (m - 1)] = wire[m - 1]
        BY <4>1, <3>1
      <4> QED
        BY <4>1, <4>2
    <3> QED
      BY <3>1, <3>2, <1>4
  <2> QED
    BY <2>1, <2>2, <1>1
<1>7. ASSUME NEW m \in 1 .. Len(wire') PROVE OfFrame(m)'
  <2>1. CASE m = 1
    BY <2>1, <1>2, <1>6 DEF OfFrame
  <2>2. CASE m # 1
    <3>1. m \in 2 .. Len(wire')
      BY <2>2, <1>6
    <3>2. PICK k \in 1 .. Len(wire) : wire'[m] = wire[k] /\ Len(wire') - m = Len(wire) - k
      BY <3>1, <1>6
    <3>3. OfFrame(k)
      BY <1>1 DEF WireOfFrame
    <3>4. CASE wire[k] \in {B(1), B(85), B(255)}
      BY <3>2, <3>4 DEF OfFrame
    <3>5. CASE /\ Len(wire) - k < FrameLen(frame)
               /\ wire[k] = ByteAt(frame, FrameLen(frame) - (Len(wire) - k))
      <4>1. /\ Len(wire') - m < FrameLen(frame')
            /\ wire'[m] = ByteAt(frame', FrameLen(frame') - (Len(wire') - m))
        BY <3>2, <3>5, <1>1
      <4> QED
        BY <4>1 DEF OfFrame
    <3> QED
      BY <3>3, <3>4, <3>5 DEF OfFrame
  <2> QED
    BY <2>1, <2>2
<1>8. Len(wire') <= FrameLen(frame') + noise'
  <2>1. Len(wire) <= FrameLen(frame) + noise
    BY <1>1 DEF WireOfFrame
  <2>2. \A a, c, w, z \in Nat : w <= a + c /\ z <= w + 1 => z <= a + (c + 1)
    OBVIOUS
  <2> QED
    BY <2>1, <2>2, <1>1, <1>3, <1>4, <1>5, <1>6
<1>9. WireOfFrame'
  BY <1>7, <1>8 DEF WireOfFrame
<1>10. noise' \in 0 .. MaxNoise /\ lost' \in 0 .. MaxLost /\ gap' \in Nat
  BY <1>1, <1>3
<1>11. gap' + Len(wire') >= gap + Len(wire)
  BY <1>1, <1>3, <1>4, <1>6
<1> QED
  BY <1>1, <1>6, <1>9, <1>10, <1>11, FaultStep

LEMMA RxStep == RxInv /\ [RxNext]_mstpVars => RxInv'
<1> SUFFICES ASSUME RxInv, [RxNext]_mstpVars PROVE RxInv'
  OBVIOUS
<1>1. CASE UNCHANGED mstpVars
  <2>1. /\ wire' = wire /\ frame' = frame /\ rx_state' = rx_state /\ rx_header' = rx_header
        /\ rx_data' = rx_data /\ rx_data_len' = rx_data_len /\ pushed' = pushed /\ clean' = clean
        /\ lost' = lost /\ noise' = noise /\ gap' = gap
    BY <1>1 DEF mstpVars, rxVars, faultVars
  <2>2. RxTypes' /\ RxFill' /\ Paid'
    BY <2>1 DEF RxInv, RxTypes, RxFill, Paid
  <2>3. WireOfFrame'
    BY <2>1 DEF RxInv, WireOfFrame, OfFrame
  <2>4. Followed'
    BY <2>1 DEF RxInv, Followed, Had, Data
  <2> QED
    BY <2>2, <2>3, <2>4 DEF RxInv
<1>2. ASSUME NEW f \in Frame, Send(f) PROVE RxInv'
  BY <1>2, SendStep
<1>3. CASE Lose
  BY <1>3, LoseStep
<1>4. ASSUME NEW n \in {1, 85, 255}, Disturb(B(n)) PROVE RxInv'
  BY <1>4, DisturbStep
<1>5. CASE Receive
  BY <1>5, IdleStep, PreambleStep, HeaderStep, HeaderBadStep, HeaderGoodStep, DataStep, DataCrc1Step,
     DataBadStep, DataGoodStep DEF Receive
<1> QED
  BY <1>1, <1>2, <1>3, <1>4, <1>5 DEF RxNext

(* For any size of payload: neither the payload with the staged CRC byte   *)
(* nor the header outgrows its buffer, and what is pushed fits a slot of   *)
(* the ring, whatever comes over the line (mstp_port.c:701-706, 772-793).  *)
THEOREM ReceiverTypeCorrect == RxSpec => []RxTypeOK
<1>1. RxInv => RxTypeOK
  <2> SUFFICES ASSUME RxInv PROVE RxTypeOK
    OBVIOUS
  <2>1. RxTypes /\ RxFill /\ WireOfFrame
    BY DEF RxInv
  <2>2. Len(wire) <= MaxData + 10 + MaxNoise
    <3>1. /\ FrameLen(frame) \in Nat /\ FrameLen(frame) <= MaxData + 8
          /\ Len(wire) <= FrameLen(frame) + noise
      BY <2>1, FrameFacts DEF RxTypes, WireOfFrame
    <3>2. noise \in Nat /\ noise <= MaxNoise /\ MaxNoise \in Nat /\ MaxData \in Nat /\ Len(wire) \in Nat
      BY <2>1, FaultsAssumption DEF RxTypes
    <3>3. \A w, g, n, d, x \in Nat : g <= d + 8 /\ w <= g + n /\ n <= x => w <= d + 10 + x
      OBVIOUS
    <3> QED
      BY <3>1, <3>2, <3>3
  <2> QED
    BY <2>1, <2>2 DEF RxTypes, RxFill, InData, RxTypeOK
<1> QED
  BY <1>1, RxInitInv, RxStep, PTL DEF RxSpec

(* For payloads of any length and any number of faults: what Core 0 gets   *)
(* is the frame on the wire, addresses and payload, unless as many bytes   *)
(* as a frame of that size has were lost after the header that was taken:  *)
(* no damage, no smaller loss and none before that header puts the header  *)
(* of one frame to the data of another (mstp_port.c:718-858).              *)
THEOREM FramesPushedAsSent == RxSpec => PushedAsSent
<1> DEFINE AsSent == \A p \in pushed' \ pushed : p = Pdu(frame) \/ gap >= HeaderLen + 5 + Len(p.data)
<1>1. RxInv /\ [RxNext]_mstpVars => [AsSent]_mstpVars
  <2> SUFFICES ASSUME RxInv, [RxNext]_mstpVars PROVE [AsSent]_mstpVars
    OBVIOUS
  <2>1. CASE RxDataGood
    BY <2>1, DataGoodStep
  <2>2. CASE pushed' \subseteq pushed
    BY <2>2
  <2>3. CASE UNCHANGED mstpVars
    BY <2>3
  <2>4. CASE \E f \in Frame : Send(f)
    BY <2>4, <2>2 DEF Send
  <2>5. CASE Lose \/ \E n \in {1, 85, 255} : Disturb(B(n))
    BY <2>5, <2>2 DEF Lose, Disturb, rxVars
  <2>6. CASE RxIdle \/ RxPreamble2 \/ RxHeader \/ RxHeaderBad \/ RxHeaderGood
             \/ RxData \/ RxDataCrc1 \/ RxDataBad
    BY <2>6, <2>2 DEF RxIdle, RxPreamble2, RxHeader, RxHeaderBad, RxHeaderGood, RxData, RxDataCrc1,
                      RxDataBad
  <2> QED
    BY <2>1, <2>3, <2>4, <2>5, <2>6 DEF RxNext, Receive
<1> QED
  BY <1>1, RxInitInv, RxStep, PTL DEF RxSpec, PushedAsSent

(* For payloads of any length and content: a frame that meets a receiver   *)
(* at rest and no fault is pushed once, if it carries a PDU, and leaves    *)
(* the receiver at rest, whatever earlier frames left in the buffers       *)
(* (mstp_port.c:718-858).                                                  *)
THEOREM CleanFramesArrive == RxSpec => []IntactFramesArrive
<1>1. RxInv => IntactFramesArrive
  <2> SUFFICES ASSUME RxInv, clean, wire = <<>>
               PROVE  /\ pushed = (IF IsData(frame) THEN {Pdu(frame)} ELSE {})
                      /\ Len(frame.data) <= MaxData => rx_state = "IDLE"
    BY DEF IntactFramesArrive
  <2> DEFINE L == Len(frame.data)
             F == FrameLen(frame)
  <2>1. frame \in Frame /\ Had(F - Len(wire)) /\ Len(wire) = 0
    BY DEF RxInv, RxTypes, Followed
  <2>2. F \in Nat /\ F >= 5 /\ L \in Nat /\ MaxData \in Nat
    BY <2>1, FrameFacts, FaultsAssumption
  <2>3. F = (IF L = 0 THEN 5 ELSE L + 7)
    BY DEF FrameLen
  <2>4. Had(F)
    BY <2>1, <2>2
  <2>5. pushed = (IF IsData(frame) THEN {Pdu(frame)} ELSE {})
    BY <2>4 DEF Had
  <2>6. CASE L = 0
    BY <2>2, <2>3, <2>4, <2>5, <2>6 DEF Had
  <2>7. CASE L \in 1 .. MaxData
    BY <2>2, <2>3, <2>4, <2>5, <2>7 DEF Had
  <2>8. CASE L > MaxData
    BY <2>2, <2>5, <2>8
  <2> QED
    BY <2>2, <2>6, <2>7, <2>8
<1> QED
  BY <1>1, RxInitInv, RxStep, PTL DEF RxSpec
=============================================================================
