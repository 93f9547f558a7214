-------------------------- MODULE Core1Loop_proofs --------------------------
(* Proofs about Core1Loop, for every list of rates, every configuration    *)
(* and every address of the bridge.                                        *)
EXTENDS Core1Loop, TLAPS

(* A scan listens at the rate its index says. *)
ScanTunes == pc = "scan" => uart = Rates[r]

(* The loop is entered after the scan at boot, if there is one, and from   *)
(* then on a rate is reported.                                             *)
BootScans == ~booted => pc = "scan"

IInv == LoopTypeOK /\ ScanTunes /\ BootScans /\ RateAsReported

-----------------------------------------------------------------------------
LEMMA RatesIn ==
  /\ Len(Rates) \in Nat /\ Len(Rates) >= 1 /\ SafeRate \in RateSet /\ SafeRate = Rates[1]
  /\ \A i \in 1 .. Len(Rates) : Rates[i] \in RateSet
  /\ MaxMac \in Nat
BY RatesAssumption DEF RateSet

(* The address arithmetic of the token stays within the addresses. *)
LEMMA MacIn ==
  ASSUME LoopTypeOK
  PROVE  NextMac(poll_next_mac) \in 0 .. MaxMac /\ Target \in 0 .. MaxMac
<1>1. poll_next_mac \in 0 .. MaxMac /\ MaxMac \in Nat
  BY RatesIn DEF LoopTypeOK
<1>2. NextMac(poll_next_mac) \in 0 .. MaxMac
  BY <1>1 DEF NextMac
<1> QED
  BY <1>1, <1>2 DEF Target

LEMMA InitIInv == LoopInit => IInv
<1> SUFFICES ASSUME LoopInit PROVE IInv
  OBVIOUS
<1>1. baud_rate \in ConfigRates /\ mac_address \in OwnMacs /\ bus \in Bus
  BY DEF LoopInit
<1>2. baud_rate \in RateSet \cup {0} /\ mac_address \in 0 .. MaxMac /\ MaxChanges \in Nat
  BY <1>1, RatesAssumption
<1>3. uart \in RateSet
  BY <1>2, RatesIn DEF LoopInit
<1>4. pc \in {"scan", "loop", "poll", "token", "wait"}
  BY DEF LoopInit
<1>b. booted \in BOOLEAN /\ detecting \in BOOLEAN
  BY Zenon DEF LoopInit
<1>c. /\ changes = 0 /\ r = 1 /\ active_baud = baud_rate /\ bus_active = FALSE
      /\ silent = FALSE /\ poll_due = FALSE /\ poll_next_mac = 0
      /\ granted = mac_address /\ kept = FALSE
  BY DEF LoopInit
<1>d. /\ changes \in 0 .. MaxChanges /\ r \in 1 .. Len(Rates)
      /\ poll_next_mac \in 0 .. MaxMac /\ granted \in 0 .. MaxMac
      /\ active_baud \in RateSet \cup {0}
  BY <1>2, <1>c, RatesIn
<1>e. /\ bus_active \in BOOLEAN /\ silent \in BOOLEAN /\ poll_due \in BOOLEAN
      /\ kept \in BOOLEAN
  BY <1>c
<1>5. LoopTypeOK
  BY <1>1, <1>3, <1>4, <1>b, <1>d, <1>e DEF LoopTypeOK
<1>6. ScanTunes /\ BootScans /\ RateAsReported
  BY DEF LoopInit, ScanTunes, BootScans, RateAsReported
<1> QED
  BY <1>5, <1>6 DEF IInv

(* A scan ends with the rate that is reported in the UART, or with the     *)
(* last one it tried, if it failed and the safe rate was in use.           *)
LEMMA EndOfScan ==
  ASSUME IInv, pc = "scan", NEW baud \in RateSet, NEW found \in BOOLEAN,
         ScanOver(baud, found),
         \/ found /\ baud = Rates[r]
         \/ ~found /\ baud = SafeRate /\ r = Len(Rates)
  PROVE  IInv'
<1>0. LoopTypeOK /\ uart = Rates[r]
  BY DEF IInv, ScanTunes
<1>1. /\ active_baud' = baud /\ booted' = TRUE /\ pc' # "scan"
      /\ kept' = (~found /\ booted /\ active_baud = SafeRate)
      /\ uart' = IF booted /\ baud = active_baud THEN uart ELSE baud
  BY DEF ScanOver, Adopt
<1>2. uart' \in RateSet
  BY <1>0, <1>1 DEF LoopTypeOK
<1>3. pc' \in {"scan", "loop", "poll", "token", "wait"}
  BY DEF ScanOver
<1>4. kept' \in BOOLEAN
  BY <1>1
<1>5. LoopTypeOK'
  BY <1>0, <1>1, <1>2, <1>3, <1>4 DEF ScanOver, LoopTypeOK, configVars, busVars, tokenVars
<1>6. ScanTunes' /\ BootScans'
  BY <1>1 DEF ScanTunes, BootScans
<1>7. RateAsReported'
  BY <1>0, <1>1 DEF RateAsReported
<1> QED
  BY <1>5, <1>6, <1>7 DEF IInv

(* Every step of the loop, of time and of the bus preserves IInv. *)
LEMMA NextIInv == IInv /\ [LoopNext]_loopVars => IInv'
<1> SUFFICES ASSUME IInv, [LoopNext]_loopVars PROVE IInv'
  OBVIOUS
<1>0. LoopTypeOK /\ ScanTunes /\ BootScans /\ RateAsReported
  BY DEF IInv
<1> USE DEF configVars, busVars, statusVars, timerVars, scanVars, tokenVars
<1>1. CASE BusChanges
  <2>1. LoopTypeOK'
    BY <1>0, <1>1, RatesAssumption DEF BusChanges, LoopTypeOK
  <2> QED
    BY <2>1, <1>0, <1>1 DEF BusChanges, IInv, ScanTunes, BootScans, RateAsReported
<1>2. CASE Silence \/ PollDue
  <2>1. LoopTypeOK'
    BY <1>0, <1>2 DEF Silence, PollDue, LoopTypeOK
  <2> QED
    BY <2>1, <1>0, <1>2 DEF Silence, PollDue, IInv, ScanTunes, BootScans, RateAsReported
<1>3. CASE ScanHit
  <2>1. Rates[r] \in RateSet
    BY <1>0, RatesIn DEF LoopTypeOK
  <2> QED
    BY <1>3, <2>1, EndOfScan DEF ScanHit
<1>4. CASE ScanMiss
  <2>1. r + 1 \in 1 .. Len(Rates)
    BY <1>0, <1>4, RatesIn DEF ScanMiss, LastTry, LoopTypeOK
  <2>2. uart' = Rates[r'] /\ uart' \in RateSet /\ r' \in 1 .. Len(Rates)
    BY <2>1, <1>4, RatesIn DEF ScanMiss
  <2>3. LoopTypeOK'
    BY <1>0, <1>4, <2>2 DEF ScanMiss, LoopTypeOK
  <2> QED
    BY <2>2, <2>3, <1>0, <1>4 DEF ScanMiss, IInv, ScanTunes, BootScans, RateAsReported
<1>5. CASE ScanFails
  BY <1>5, RatesIn, EndOfScan DEF ScanFails, LastTry
<1>6. CASE ScanAgain
  <2>1. uart' = Rates[r'] /\ uart' \in RateSet /\ r' \in 1 .. Len(Rates) /\ pc' = "scan"
    BY <1>6, RatesIn DEF ScanAgain
  <2>2. LoopTypeOK'
    BY <1>0, <1>6, <2>1 DEF ScanAgain, LoopTypeOK
  <2> QED
    BY <2>1, <2>2 DEF IInv, ScanTunes, BootScans, RateAsReported
<1>7. CASE NoRescan \/ PollFrame \/ PollNothing \/ NoToken
  <2>1. LoopTypeOK'
    BY <1>0, <1>7 DEF NoRescan, PollFrame, PollNothing, NoToken, LoopTypeOK
  <2> QED
    BY <2>1, <1>0, <1>7
    DEF NoRescan, PollFrame, PollNothing, NoToken, IInv, ScanTunes, BootScans, RateAsReported
<1>8. CASE GrantToken
  <2>1. LoopTypeOK'
    BY <1>0, <1>8, MacIn DEF GrantToken, LoopTypeOK
  <2> QED
    BY <2>1, <1>0, <1>8 DEF GrantToken, IInv, ScanTunes, BootScans, RateAsReported
<1>9. CASE Reply \/ NoReply
  <2>1. LoopTypeOK'
    BY <1>0, <1>9, MacIn DEF Reply, NoReply, Advance, LoopTypeOK
  <2> QED
    BY <2>1, <1>0, <1>9
    DEF Reply, NoReply, Advance, IInv, ScanTunes, BootScans, RateAsReported
<1>10. CASE UNCHANGED loopVars
  BY <1>0, <1>10 DEF loopVars, IInv, LoopTypeOK, ScanTunes, BootScans, RateAsReported
<1> QED
  BY <1>1, <1>2, <1>3, <1>4, <1>5, <1>6, <1>7, <1>8, <1>9, <1>10 DEF LoopNext, LoopStep

LEMMA Inductive == LoopSpec => []IInv
BY InitIInv, NextIInv, PTL DEF LoopSpec

(* Rates, scan index, reported rate and token address stay in range for    *)
(* every list of rates and every MAX_POLL_MAC (core1_entry.c:294-420).     *)
THEOREM TypeCorrect == LoopSpec => []LoopTypeOK
<1>1. IInv => LoopTypeOK
  BY DEF IInv
<1> QED
  BY <1>1, Inductive, PTL

(* The reported rate is the UART's, but for the one exception, for every   *)
(* list of rates and however the bus changes (core1_entry.c:359-373).      *)
THEOREM RateReported == LoopSpec => []RateAsReported
<1>1. IInv => RateAsReported
  BY DEF IInv
<1> QED
  BY <1>1, Inductive, PTL
=============================================================================
