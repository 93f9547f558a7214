----------------------------- MODULE ConfigStore -----------------------------
(***************************************************************************)
(* Persistence of the configuration: the HTTP handlers that change it, the *)
(* task that saves it to flash, the resets, power loss, and the load at    *)
(* the next boot.                                                          *)
(*                                                                         *)
(*   load, request_save, config_save_task    firmware/src/config.rs        *)
(*   config and reboot handlers              firmware/src/http.rs          *)
(*                                                                         *)
(* All of it runs on Core 0.  From serialising to the last flash page the  *)
(* save task does not yield, so only power loss comes in between           *)
(* (FlashPause models the pause of Core 1 that surrounds the flash         *)
(* access).  Before it serialises, the save sits out its delay and waits   *)
(* for CONFIG, which another task may hold across an await; an announced   *)
(* reset waits for its own delay only.  A configuration is a model value   *)
(* with a size; its JSON is the bytes <<c, 0>> .. <<c, Size[c] - 1>>.      *)
(***************************************************************************)
EXTENDS Integers, FiniteSets

CONSTANTS
  Cfg, DefaultCfg, \* configurations; BridgeConfig::default()
  Valid,           \* those that validate() accepts
  Size,            \* length of each configuration's JSON
  BufSize,         \* JSON_BUF_SIZE
  Page,            \* flash page (256)
  SaveDelay,       \* ticks a save waits for more changes (500 ms)
  RebootDelay,     \* ticks from the answer to the reset (500 ms), ...
  FactoryDelay,    \* ... after a factory reset (1500 ms), ...
  OtaDelay,        \* ... and after a firmware upload (100 ms)
  MaxEdits,        \* bound: configuration changes
  MaxBoots         \* bound: boots

ASSUME SizesAssumption ==
  /\ DefaultCfg \in Valid /\ Valid \subseteq Cfg
  /\ Size \in [Cfg -> Nat \ {0, 1}]
  /\ Page \in Nat \ {0} /\ BufSize \in Nat \ {0} /\ BufSize % Page = 0
  /\ Cfg \cap {"zero", "erased", "junk"} = {}   \* names of other bytes
  /\ MaxEdits \in Nat /\ MaxBoots \in Nat \ {0}

ASSUME DelaysAssumption ==
  /\ SaveDelay \in Nat /\ RebootDelay \in Nat /\ FactoryDelay \in Nat /\ OtaDelay \in Nat

Byte == (Cfg \X Nat) \cup ({"zero", "erased", "junk"} \X {0})
Zeroed == <<"zero", 0>>
Erased == <<"erased", 0>>
Junk == <<"junk", 0>>
Address == 0 .. BufSize - 1

VARIABLES
  config,  \* CONFIG, the configuration in memory
  signal,  \* SAVE_SIGNAL
  task,    \* config_save_task: "wait", "delay", "erase", "write"; or "off"
  buf,     \* CONFIG_SAVE_BUF
  len,     \* json_len of the save in progress
  pos,     \* next flash address the save writes
  flash,   \* the config region
  saveIn,  \* ticks until the delay of the save is over
  reset,   \* the handler that is about to reset: "none", "reboot", "factory", "ota"
  resetIn, \* ticks until that reset
  holder,  \* what keeps the save waiting: "none", "config" (a task with CONFIG),
           \* "executor" (a task that does not yield)
  edits, boots,
  saving,  \* history: the configuration in flash or being written to it
  since,   \* history: acknowledged configurations the reset may leave in flash
  failed,  \* history: a save was abandoned
  slack    \* history: ticks the save had to spare when the reset was announced,
           \* less those for which it was kept waiting since

timeVars == <<saveIn, reset, resetIn, slack>>
vars == <<config, signal, task, buf, len, pos, flash, timeVars, holder, edits, boots,
          saving, since, failed>>

-----------------------------------------------------------------------------
(* The first byte that ends the JSON. *)
json_end(f) ==
  LET ends == {a \in Address : f[a] \in {Zeroed, Erased}} IN
    IF ends = {} THEN BufSize ELSE CHOOSE a \in ends : \A b \in ends : a <= b

(* External: the parser accepts exactly one JSON value; anything after it  *)
(* is an error, as is a truncated or damaged one.                          *)
from_slice(f, end) ==
  {c \in Cfg : Size[c] = end /\ \A a \in 0 .. end - 1 : f[a] = <<c, a>>}

(* What is read must also be acceptable. *)
load(f) ==
  LET found == from_slice(f, json_end(f)) \cap Valid IN
  IF json_end(f) < 2 \/ found = {} THEN DefaultCfg ELSE CHOOSE c \in Cfg : c \in found

(* The JSON of configuration c is in flash. *)
InFlash(c) ==
  Size[c] <= BufSize /\ \A a \in 0 .. Size[c] - 1 : flash[a] = <<c, a>>

Init ==
  /\ config = DefaultCfg /\ signal = FALSE /\ task = "wait"
  /\ buf = [a \in Address |-> Zeroed] /\ len = 0 /\ pos = 0
  /\ flash = [a \in Address |-> Erased]
  /\ saveIn = 0 /\ reset = "none" /\ resetIn = 0 /\ slack = 0 /\ holder = "none"
  /\ edits = 0 /\ boots = 1
  /\ saving = DefaultCfg /\ since = {} /\ failed = FALSE

-----------------------------------------------------------------------------
(* Mutant: the save yields to other tasks between two pages. *)
OthersRun_always == task # "off" /\ holder # "executor"

(* Other tasks run only while the save task waits and none occupies the    *)
(* executor.                                                               *)
OthersRun == task \in {"wait", "delay"} /\ holder # "executor"

(* Another task takes CONFIG and waits for something else with it held:    *)
(* the router for BRIDGE_STATE, which a refresh keeps while its answer is  *)
(* sent.                                                                   *)
HoldConfig ==
  /\ OthersRun /\ holder = "none"
  /\ holder' = "config"
  /\ UNCHANGED <<config, signal, task, buf, len, pos, flash, timeVars, edits, boots, saving,
                 since, failed>>

(* A task runs for long without an await: an upload erases a slot.         *)
Occupy ==
  /\ OthersRun /\ holder = "none"
  /\ holder' = "executor"
  /\ UNCHANGED <<config, signal, task, buf, len, pos, flash, timeVars, edits, boots, saving,
                 since, failed>>

Release ==
  /\ task # "off" /\ holder # "none"
  /\ holder' = "none"
  /\ UNCHANGED <<config, signal, task, buf, len, pos, flash, timeVars, edits, boots, saving,
                 since, failed>>

(* Mutant: a handler that does not request a save. *)
request_save_forgotten == UNCHANGED <<signal, saveIn>>

(* Mutant: a request during the delay starts it again. *)
request_save_restarting ==
  signal' = TRUE /\ saveIn' = IF task = "delay" THEN SaveDelay ELSE saveIn

(* A delay that has begun goes on. *)
request_save == signal' = TRUE /\ saveIn' = saveIn

(* A handler changes the configuration under the lock, requests a save,    *)
(* and answers.  The handlers of single sections accept what validate()    *)
(* would not.                                                              *)
Edit(c) ==
  /\ OthersRun /\ holder = "none" /\ edits < MaxEdits
  /\ config' = c
  /\ request_save
  /\ edits' = edits + 1
  /\ since' = IF reset = "none" THEN {c} ELSE IF since = {} THEN {} ELSE since \cup {c}
  /\ UNCHANGED <<task, buf, len, pos, flash, reset, resetIn, slack, holder, boots, saving, failed>>

(* PUT config/bulk replaces the whole configuration by an acceptable one. *)
Import(c) == c \in Valid /\ Edit(c)

(* Ticks until the save that is due is through with its delay. *)
Remaining == IF task = "delay" THEN saveIn ELSE SaveDelay

(* A handler's reset comes after a delay of its own, and for nothing else. *)
Announce(handler, delay) ==
  /\ reset = "none"
  /\ reset' = handler /\ resetIn' = delay
  /\ slack' = delay - Remaining

(* POST reboot. *)
Reboot ==
  /\ OthersRun /\ Announce("reboot", RebootDelay)
  /\ UNCHANGED <<config, signal, task, buf, len, pos, flash, saveIn, holder, edits, boots,
                 saving, since, failed>>

(* POST factory-reset: defaults under the lock, and a save. *)
FactoryReset ==
  /\ OthersRun /\ holder = "none"
  /\ config' = DefaultCfg
  /\ request_save
  /\ since' = {DefaultCfg}
  /\ Announce("factory", FactoryDelay)
  /\ UNCHANGED <<task, buf, len, pos, flash, holder, edits, boots, saving, failed>>

(* A firmware upload has been staged. *)
OtaDone ==
  /\ OthersRun /\ Announce("ota", OtaDelay)
  /\ UNCHANGED <<config, signal, task, buf, len, pos, flash, saveIn, holder, edits, boots,
                 saving, since, failed>>

-----------------------------------------------------------------------------
(* The save could go on but for what keeps it waiting. *)
SaveDue == (task = "wait" /\ signal) \/ (task = "delay" /\ saveIn = 0)

SaveReady ==
  \/ SaveDue /\ holder = "none"
  \/ SaveDue /\ task = "wait" /\ holder = "config"

(* The factory reset's delay begins only once the answer has been sent. *)
Answering == reset = "factory" /\ resetIn = FactoryDelay

(* A tick of the clock.  The executor runs a task that is ready before the *)
(* next tick; a reset may be late.                                         *)
Tick ==
  /\ task \in {"wait", "delay"} /\ ~SaveReady /\ (saveIn > 0 \/ resetIn > 0)
  /\ saveIn' = IF saveIn > 0 THEN saveIn - 1 ELSE 0
  /\ \/ resetIn > 0 /\ resetIn' = resetIn - 1 /\ slack' = IF SaveDue THEN slack - 1 ELSE slack
     \/ (resetIn = 0 \/ Answering) /\ UNCHANGED <<resetIn, slack>>
  /\ UNCHANGED <<config, signal, task, buf, len, pos, flash, reset, holder, edits, boots,
                 saving, since, failed>>

(* config_save_task.  The wait takes the signal. *)
SaveWake ==
  /\ task = "wait" /\ signal /\ holder # "executor"
  /\ signal' = FALSE /\ task' = "delay" /\ saveIn' = SaveDelay
  /\ UNCHANGED <<config, buf, len, pos, flash, reset, resetIn, slack, holder, edits, boots,
                 saving, since, failed>>

(* to_slice writes the JSON over what the buffer held. *)
Serialised(c) == [a \in Address |-> IF a < Size[c] THEN <<c, a>> ELSE buf[a]]

(* After the delay the save takes CONFIG, when it gets it. *)
Serialise ==
  /\ task = "delay" /\ saveIn = 0 /\ holder = "none" /\ Size[config] <= BufSize
  /\ buf' = Serialised(config) /\ len' = Size[config]
  /\ task' = "erase"
  /\ UNCHANGED <<config, signal, pos, flash, timeVars, holder, edits, boots, saving, since,
                 failed>>

(* The JSON does not fit: nothing is saved. *)
SerialiseFails ==
  /\ task = "delay" /\ saveIn = 0 /\ holder = "none" /\ Size[config] > BufSize
  /\ buf' = Serialised(config)
  /\ task' = "wait" /\ failed' = TRUE
  /\ UNCHANGED <<config, signal, len, pos, flash, timeVars, holder, edits, boots, saving, since>>

(* Mutant: the region is written without being erased. *)
Erase_missing ==
  /\ task = "erase"
  /\ task' = "write" /\ pos' = 0
  /\ saving' = config
  /\ UNCHANGED <<config, signal, buf, len, flash, timeVars, holder, edits, boots, since, failed>>

Erase ==
  /\ task = "erase"
  /\ flash' = [a \in Address |-> Erased]
  /\ task' = "write" /\ pos' = 0
  /\ saving' = config
  /\ UNCHANGED <<config, signal, buf, len, timeVars, holder, edits, boots, since, failed>>

(* aligned_len: the JSON and the rest of its last page. *)
aligned_len == ((len + Page - 1) \div Page) * Page

WritePage ==
  /\ task = "write" /\ pos < aligned_len
  /\ flash' = [a \in Address |-> IF a \in pos .. pos + Page - 1 THEN buf[a] ELSE flash[a]]
  /\ pos' = pos + Page
  /\ UNCHANGED <<config, signal, task, buf, len, timeVars, holder, edits, boots, saving, since,
                 failed>>

Saved ==
  /\ task = "write" /\ pos >= aligned_len
  /\ task' = "wait" /\ failed' = FALSE
  /\ UNCHANGED <<config, signal, buf, len, pos, flash, timeVars, holder, edits, boots, saving,
                 since>>

(* The flash driver reports an error: the save is given up. *)
FlashFails ==
  /\ task = "erase" \/ (task = "write" /\ pos = 0)
  /\ task' = "wait" /\ failed' = TRUE
  /\ UNCHANGED <<config, signal, buf, len, pos, flash, timeVars, holder, edits, boots, saving,
                 since>>

-----------------------------------------------------------------------------
Down ==
  /\ task' = "off" /\ signal' = FALSE /\ holder' = "none"
  /\ saveIn' = 0 /\ reset' = "none" /\ resetIn' = 0 /\ slack' = 0

(* The reset a handler announced. *)
Reset ==
  /\ OthersRun /\ reset # "none" /\ resetIn = 0
  /\ Down
  /\ UNCHANGED <<config, buf, len, pos, flash, edits, boots, saving, since, failed>>

(* A sector whose erasure is cut short holds junk. *)
PowerLoss ==
  /\ task # "off"
  /\ Down
  /\ \/ UNCHANGED flash
     \/ task = "erase" /\ flash' = [a \in Address |-> Junk]
  /\ UNCHANGED <<config, buf, len, pos, edits, boots, saving, since, failed>>

Boot ==
  /\ task = "off" /\ boots < MaxBoots
  /\ config' = load(flash)
  /\ task' = "wait" /\ buf' = [a \in Address |-> Zeroed] /\ len' = 0 /\ pos' = 0
  /\ boots' = boots + 1
  /\ since' = {} /\ failed' = FALSE
  /\ UNCHANGED <<signal, flash, timeVars, holder, edits, saving>>

SaveStep == SaveWake \/ Serialise \/ SerialiseFails \/ Erase \/ WritePage \/ Saved

Next ==
  \/ \E c \in Cfg : Edit(c) \/ Import(c)
  \/ Reboot \/ FactoryReset \/ OtaDone
  \/ HoldConfig \/ Occupy \/ Release \/ Tick
  \/ SaveStep \/ FlashFails
  \/ Reset \/ PowerLoss \/ Boot

(* Time passes, no task keeps CONFIG or the executor for ever, and the     *)
(* save, woken by the signal, its timer and the mutex, gets CONFIG in the  *)
(* end.                                                                    *)
Fairness == WF_vars(Tick) /\ WF_vars(Release) /\ SF_vars(SaveStep)

Spec == Init /\ [][Next]_vars /\ Fairness

-----------------------------------------------------------------------------
TypeOK ==
  /\ config \in Cfg /\ saving \in Cfg /\ since \subseteq Cfg
  /\ signal \in BOOLEAN /\ failed \in BOOLEAN
  /\ task \in {"off", "wait", "delay", "erase", "write"}
  /\ reset \in {"none", "reboot", "factory", "ota"} /\ holder \in {"none", "config", "executor"}
  /\ saveIn \in Nat /\ resetIn \in Nat /\ slack \in Int
  /\ buf \in [Address -> Byte] /\ flash \in [Address -> Byte]
  /\ len \in 0 .. BufSize /\ pos \in 0 .. BufSize
  /\ edits \in 0 .. MaxEdits /\ boots \in 1 .. MaxBoots

(* Wherever power is lost, the next boot finds the configuration that was  *)
(* last written or the defaults: no older one comes back and no mixture is *)
(* accepted (config.rs:101-143, 252-302).                                  *)
BootsLastOrDefault == load(flash) \in {saving, DefaultCfg}

(* Seen from outside, flash is a register of configurations: a boot reads  *)
(* the one last made permanent or the defaults, never an older one, also   *)
(* when changes arrive around a save (config.rs:101-143, 246-302).         *)
Register == INSTANCE ConfigRegister WITH
  up <- task # "off", mem <- config, store <- load(flash)
IsRegister == Register!Spec

(* A reset overtakes the save of a change that was acknowledged before it  *)
(* was announced only if the save was kept waiting for CONFIG or for the   *)
(* executor as long as it had to spare: otherwise the change, or a later   *)
(* one, is in flash, unless the save itself failed (http.rs:577-590, 1517- *)
(* 1537, 559, config.rs:252-302).                                          *)
ResetKeepsEdits ==
  [][(Reset /\ since # {} /\ ~failed /\ slack > 0) => \E c \in since : InFlash(c)]_vars

(* Every change reaches flash unless a newer one replaces it, the save     *)
(* fails or the device goes down: coalesced signals lose nothing           *)
(* (config.rs:252-258).                                                    *)
EditsReachFlash ==
  \A c \in Cfg :
    (since # {} /\ config = c) ~> (InFlash(c) \/ config # c \/ failed \/ task = "off")

-----------------------------------------------------------------------------
(* What comments in the repository say and the code does not do.           *)

(* config.rs:230-231: the save task persists the configuration: once a     *)
(* save has completed, a boot loads what was saved.                        *)
SavedConfigLoads ==
  (task = "wait" /\ len # 0 /\ ~failed) => load(flash) = saving

(* http.rs:1511-1513 and 1533: the factory reset waits for the save to     *)
(* complete before it reboots, and the device comes up unprovisioned.      *)
FactoryResetSaves ==
  [][(Reset /\ reset = "factory" /\ ~failed) => load(flash) \in since]_vars
=============================================================================
