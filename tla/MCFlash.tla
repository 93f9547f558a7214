------------------------------- MODULE MCFlash -------------------------------
(* Model-checking instance of the two users' side of flash: a behaviour is *)
(* one of ConfigStore (scene 1) or of FlashPause (scene 2).  ConfigStore   *)
(* has JSONs of exactly one page, of part of the last page, of the whole   *)
(* buffer, and of more than the buffer, and one that a section handler     *)
(* accepts and validate() does not.                                        *)
EXTENDS ConfigStore, FlashPause, Settings

CONSTANTS factory, short, long, huge, deaf

MCSize == [c \in Cfg |-> CASE c \in {factory, deaf} -> 2 [] c = short -> 3 [] c = long -> 4
                            [] c = huge -> 5]

(* The settings behind each. *)
SettingsOf(c) ==
  IF c = deaf THEN [BridgeConfigDefault EXCEPT !.bacnet.max_master = 0]
  ELSE IF c = long THEN
    [BridgeConfigDefault EXCEPT !.bacnet = Deserialised([max_master |-> 10], BacnetMissing)]
  ELSE [BridgeConfigDefault EXCEPT !.provisioned = (c # factory)]

MCValid == {c \in Cfg : validate(SettingsOf(c))}

VARIABLE scene

StoreScene == scene = 1 /\ Init /\ PauseInit /\ at = "busy"
PauseScene == scene = 2 /\ Init /\ PauseInit

StoreNext == scene = 1 /\ Next /\ UNCHANGED <<scene, pauseVars>>
PauseStep == scene = 2 /\ PauseNext /\ UNCHANGED <<scene, vars>>

FlashInit == StoreScene \/ PauseScene
FlashNext == StoreNext \/ PauseStep

(* The fairness each assumes, in its own scene. *)
FlashFairness ==
  /\ WF_vars(scene = 1 /\ Tick) /\ WF_vars(scene = 1 /\ Release) /\ SF_vars(scene = 1 /\ SaveStep)
  /\ WF_pauseVars(scene = 2 /\ Core0) /\ WF_pauseVars(scene = 2 /\ Core1)
  /\ WF_pauseVars(scene = 2 /\ Isr) /\ SF_pauseVars(scene = 2 /\ Done)

(* ConfigStore by itself, with no task that keeps the executor: what is    *)
(* left to keep a save waiting is CONFIG.                                  *)
StoreSpec == StoreScene /\ [][StoreNext /\ holder' # "executor"]_<<scene, vars, pauseVars>>
=============================================================================
