------------------------------ MODULE Core1Loop ------------------------------
(***************************************************************************)
(* The main loop of Core 1: the search for the bus's baud rate, reception, *)
(* and the token that goes round the stations.                             *)
(*                                                                         *)
(*   core1_entry                   csrc/core1_entry.c                      *)
(*   mstp_port_auto_detect_baud,                                           *)
(*   mstp_receive_frame_wait       csrc/mstp_port.c                        *)
(*                                                                         *)
(* The bus has no station, one that talks by itself (a master) or one that *)
(* talks only when it holds the token (a slave), at some rate; it changes  *)
(* at any time.  A station is heard only at its own rate.  Frames are      *)
(* MstpReceive's subject, PDUs BridgePath's, the flash pause FlashPause's. *)
(* A timer is whether it has expired.  The Who-Is every 10 s changes       *)
(* nothing here and is left out.                                           *)
(***************************************************************************)
EXTENDS Integers, Sequences

CONSTANTS
  Rates,       \* the rates a scan tries, in order
  SafeRate,    \* the result of a scan that hears nothing (19200)
  ConfigRates, \* the rates that may be configured; 0 is auto-detect
  MaxMac,      \* MAX_POLL_MAC
  OwnMacs,     \* the MACs the bridge may have
  MaxChanges   \* bound: changes of the bus

RateSet == {Rates[i] : i \in 1 .. Len(Rates)}

ASSUME RatesAssumption ==
  /\ Rates \in Seq(Nat \ {0}) /\ Len(Rates) > 0 /\ SafeRate = Rates[1]
  /\ ConfigRates \subseteq RateSet \cup {0}
  /\ MaxMac \in Nat \ {0} /\ OwnMacs \subseteq 0 .. MaxMac
  /\ MaxChanges \in Nat

(* Rate 0: no station. *)
Bus == [rate : RateSet \cup {0}, talks : BOOLEAN]

VARIABLES
  baud_rate, mac_address,  \* g_mstp_config
  bus, changes,            \* the stations
  pc,        \* "scan", "loop", "poll", "token", "wait"
  booted,    \* the loop has been entered
  r,         \* index of the rate the scan tries
  uart,      \* the rate of the UART
  active_baud, detecting, bus_active,    \* g_mstp_status
  silent, poll_due,                      \* expired timers
  poll_next_mac,
  granted,   \* history: the MAC that got the token last
  kept       \* history: the last scan heard nothing and found the safe rate in use

configVars == <<baud_rate, mac_address>>
busVars == <<bus, changes>>
statusVars == <<active_baud, detecting, bus_active>>
timerVars == <<silent, poll_due>>
scanVars == <<booted, r, uart, kept>>
tokenVars == <<poll_next_mac, granted>>
loopVars == <<configVars, busVars, pc, scanVars, statusVars, timerVars, tokenVars>>

(* Core 1 starts with the configured rate or with a scan. *)
LoopInit ==
  /\ baud_rate \in ConfigRates /\ mac_address \in OwnMacs
  /\ bus \in Bus /\ changes = 0
  /\ pc = IF baud_rate = 0 THEN "scan" ELSE "loop"
  /\ booted = (baud_rate # 0) /\ r = 1
  /\ uart = IF baud_rate = 0 THEN Rates[1] ELSE baud_rate
  /\ active_baud = baud_rate /\ detecting = (baud_rate = 0) /\ bus_active = FALSE
  /\ silent = FALSE /\ poll_due = FALSE
  /\ poll_next_mac = 0 /\ granted = mac_address /\ kept = FALSE

-----------------------------------------------------------------------------
(* Stations come, go and change. *)
BusChanges ==
  /\ changes < MaxChanges
  /\ bus' \in Bus \ {bus} /\ changes' = changes + 1
  /\ UNCHANGED <<configVars, pc, scanVars, statusVars, timerVars, tokenVars>>

(* Time passes: the 60 s of silence, the 200 ms between tokens.            *)
Silence ==
  /\ booted /\ ~silent /\ silent' = TRUE
  /\ UNCHANGED <<configVars, busVars, pc, scanVars, statusVars, poll_due, tokenVars>>

PollDue ==
  /\ booted /\ ~poll_due /\ poll_due' = TRUE
  /\ UNCHANGED <<configVars, busVars, pc, scanVars, statusVars, silent, tokenVars>>

-----------------------------------------------------------------------------
Audible == bus.rate = uart

(* The scan is over with the given rate: at boot the UART is set to it,    *)
(* later only if it is not the one in use.                                 *)

(* Mutant: the new rate is reported and not set. *)
Adopt_unset(baud) ==
  /\ active_baud' = baud
  /\ uart' = uart

Adopt(baud) ==
  /\ active_baud' = baud
  /\ uart' = IF booted /\ baud = active_baud THEN uart ELSE baud

ScanOver(baud, found) ==
  /\ Adopt(baud)
  /\ detecting' = FALSE /\ kept' = (~found /\ booted /\ active_baud = SafeRate)
  /\ silent' = FALSE
  /\ booted' = TRUE /\ pc' = IF booted THEN "poll" ELSE "loop"
  /\ UNCHANGED <<configVars, busVars, r, bus_active, poll_due, tokenVars>>

(* A preamble arrives at the rate that is being tried. *)
ScanHit ==
  /\ pc = "scan" /\ Audible /\ bus.talks
  /\ ScanOver(Rates[r], TRUE)

LastTry == r = Len(Rates)

(* Two seconds without one: the next rate. *)
ScanMiss ==
  /\ pc = "scan" /\ ~(Audible /\ bus.talks) /\ ~LastTry
  /\ r' = r + 1 /\ uart' = Rates[r + 1]
  /\ UNCHANGED <<configVars, busVars, pc, booted, kept, statusVars, timerVars, tokenVars>>

ScanFails ==
  /\ pc = "scan" /\ ~(Audible /\ bus.talks) /\ LastTry
  /\ ScanOver(SafeRate, FALSE)

-----------------------------------------------------------------------------
(* Mutant: a rate that was determined once is not questioned. *)
MustRescan_determined == active_baud = 0 /\ ~bus_active /\ silent

MustRescan == baud_rate = 0 /\ ~bus_active /\ silent

ScanAgain ==
  /\ pc = "loop" /\ MustRescan
  /\ pc' = "scan" /\ r' = 1 /\ uart' = Rates[1] /\ detecting' = TRUE
  /\ UNCHANGED <<configVars, busVars, booted, kept, active_baud, bus_active, timerVars,
                 tokenVars>>

NoRescan ==
  /\ pc = "loop" /\ ~MustRescan
  /\ pc' = "poll"
  /\ UNCHANGED <<configVars, busVars, scanVars, statusVars, timerVars, tokenVars>>

(* mstp_poll and mstp_transmit_outbound, with or without a valid frame.    *)
PollFrame ==
  /\ pc = "poll" /\ Audible /\ bus.talks
  /\ bus_active' = TRUE /\ pc' = "token"
  /\ UNCHANGED <<configVars, busVars, scanVars, active_baud, detecting, timerVars, tokenVars>>

PollNothing ==
  /\ pc = "poll"
  /\ pc' = "token"
  /\ UNCHANGED <<configVars, busVars, scanVars, statusVars, timerVars, tokenVars>>

NextMac(m) == IF m + 1 > MaxMac THEN 0 ELSE m + 1

(* Mutant: the bridge gives the token to itself. *)
Target_self == poll_next_mac

Target == IF poll_next_mac = mac_address THEN NextMac(poll_next_mac) ELSE poll_next_mac

GrantToken ==
  /\ pc = "token" /\ poll_due
  /\ poll_next_mac' = Target /\ granted' = Target
  /\ poll_due' = FALSE /\ pc' = "wait"
  /\ UNCHANGED <<configVars, busVars, scanVars, statusVars, silent>>

NoToken ==
  /\ pc = "token" /\ ~poll_due
  /\ pc' = "loop"
  /\ UNCHANGED <<configVars, busVars, scanVars, statusVars, timerVars, tokenVars>>

(* mstp_receive_frame_wait: a frame, or 100 ms without one.                *)
Advance ==
  /\ poll_next_mac' = NextMac(poll_next_mac) /\ pc' = "loop"
  /\ UNCHANGED <<configVars, busVars, scanVars, active_baud, detecting, timerVars, granted>>

Reply ==
  /\ pc = "wait" /\ Audible
  /\ bus_active' = TRUE
  /\ Advance

NoReply ==
  /\ pc = "wait"
  /\ UNCHANGED bus_active
  /\ Advance

LoopStep == ScanHit \/ ScanMiss \/ ScanFails \/ ScanAgain \/ NoRescan \/ PollFrame \/ PollNothing
         \/ GrantToken \/ NoToken \/ Reply \/ NoReply

LoopNext == BusChanges \/ Silence \/ PollDue \/ LoopStep

(* Core 1 never stops, time passes, and a station that talks for ever is   *)
(* heard when the loop listens at its rate.                                *)
LoopSpec ==
  /\ LoopInit /\ [][LoopNext]_loopVars
  /\ WF_loopVars(LoopStep) /\ WF_loopVars(Silence) /\ WF_loopVars(PollDue) /\ SF_loopVars(PollFrame)

-----------------------------------------------------------------------------
(* Rates, scan index and token address stay within their tables            *)
(* (core1_entry.c:294-302, 353-420, mstp_port.c:349-353).                  *)
LoopTypeOK ==
  /\ baud_rate \in ConfigRates /\ mac_address \in OwnMacs /\ bus \in Bus
  /\ changes \in 0 .. MaxChanges
  /\ pc \in {"scan", "loop", "poll", "token", "wait"}
  /\ booted \in BOOLEAN /\ r \in 1 .. Len(Rates) /\ uart \in RateSet
  /\ active_baud \in RateSet \cup {0} /\ detecting \in BOOLEAN /\ bus_active \in BOOLEAN
  /\ silent \in BOOLEAN /\ poll_due \in BOOLEAN
  /\ poll_next_mac \in 0 .. MaxMac /\ granted \in 0 .. MaxMac /\ kept \in BOOLEAN

(* The UART runs at the rate that is reported, in the loop, except after a *)
(* scan that heard nothing while the safe rate was already in use: that    *)
(* scan leaves the UART at the last rate it tried (core1_entry.c:359-373,  *)
(* mstp_port.c:347-384).                                                   *)
RateAsReported ==
  pc # "scan" =>
    \/ uart = active_baud
    \/ kept /\ active_baud = SafeRate /\ uart = Rates[Len(Rates)]

(* With auto-detection the first station that stays and talks is found, at *)
(* whatever rate and however long after boot it appears: the scans at boot *)
(* and every minute, and the rate the UART is left at in between, do not   *)
(* miss it.  Nothing is said of later stations: bus_active is never        *)
(* cleared, and once it is set no scan follows (core1_entry.c:359-373).    *)
TalkersFound == (baud_rate = 0 /\ <>[](bus.rate # 0 /\ bus.talks)) => <>bus_active

(* The token goes to every other address again and again and never to the  *)
(* bridge itself, through scans, timeouts and the wrap of the address      *)
(* (core1_entry.c:399-420).                                                *)
TokenGoesRound ==
  /\ [](pc = "wait" => granted # mac_address)
  /\ \A m \in 0 .. MaxMac : m # mac_address => []<>(granted = m /\ pc = "wait")
=============================================================================
