------------------------------- MODULE MCCores -------------------------------
(***************************************************************************)
(* Model-checking instance of what the two cores share: the flash (scenes  *)
(* 1 and 2, MCFlash), the ring (scene 3), and the bus that Core 1 serves   *)
(* (scene 4).  The ring has two slots and PDUs of two words, its indices   *)
(* wrap after three laps.  Of the rates the safe one, the last one and one *)
(* in between differ; the bridge is at either end of the addresses or      *)
(* among them.                                                             *)
(***************************************************************************)
EXTENDS MCFlash, IpcRing, Core1Loop

MCRates == <<19200, 9600, 76800>>

NoBus == LoopInit /\ baud_rate = 0 /\ mac_address = 0 /\ bus = [rate |-> 0, talks |-> FALSE]

RingScene == scene = 3 /\ Init /\ PauseInit /\ at = "busy" /\ RingInit /\ NoBus
LoopScene == scene = 4 /\ Init /\ PauseInit /\ at = "busy" /\ RingInit /\ LoopInit

RingStep == scene = 3 /\ RingNext /\ UNCHANGED <<scene, vars, pauseVars, loopVars>>
BusStep == scene = 4 /\ LoopNext /\ UNCHANGED <<scene, vars, pauseVars, ringVars>>

(* The fairness each assumes, in its own scene. *)
CoresSpec ==
  /\ (FlashInit /\ RingInit /\ NoBus) \/ RingScene \/ LoopScene
  /\ [][\/ FlashNext /\ UNCHANGED <<ringVars, loopVars>>
        \/ RingStep \/ BusStep]_<<scene, vars, pauseVars, ringVars, loopVars>>
  /\ FlashFairness
  /\ WF_ringVars(scene = 3 /\ Consume)
  /\ WF_loopVars(scene = 4 /\ LoopStep) /\ WF_loopVars(scene = 4 /\ Silence)
  /\ WF_loopVars(scene = 4 /\ PollDue) /\ SF_loopVars(scene = 4 /\ PollFrame)

(* TokenGoesRound (Core1Loop): the token goes to every other address again *)
(* and again and never to the bridge itself, through scans, timeouts and   *)
(* the wrap of the address (core1_entry.c:399-420).                        *)
TokenComesRound == scene = 4 => TokenGoesRound
=============================================================================
