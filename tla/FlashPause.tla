------------------------------ MODULE FlashPause ------------------------------
(***************************************************************************)
(* The handshake that keeps Core 1 away from flash while Core 0 saves the  *)
(* configuration.                                                          *)
(*                                                                         *)
(*   pause_core1_for_flash, FlashPauseGuard   firmware/src/core1.rs        *)
(*   core1_check_flash_pause                  csrc/bacnet_bridge.h         *)
(*   the save that uses it                    firmware/src/config.rs       *)
(*                                                                         *)
(* Core 0 raises a flag and waits for an acknowledgement, but not for      *)
(* ever; the flash driver then stops Core 1 a second time with a token     *)
(* through the inter-core FIFO, which the interrupt handler on Core 1 or   *)
(* the pause loop (in SRAM) returns.  A firmware upload uses the driver    *)
(* alone.  Where the handler resides is disputed: bacnet_bridge.h:105-107  *)
(* and core1.rs:85-86 say in flash, where it would fault while flash is    *)
(* busy; core1_entry.c:260-261 relies on it.  Here it runs.                *)
(***************************************************************************)
EXTENDS Integers, Sequences

VARIABLES
  request,  \* g_flash_pause_request
  paused,   \* g_core1_paused
  irq,      \* SIO_IRQ_FIFO is enabled on Core 1
  at,       \* the loop of Core 1 that runs: "loop", "scan", "wait"; "busy" between
  core1,    \* "run", "masked", "spin", "left", "cleared"; "isr" in the handler
  resume,   \* where the handler returns to
  core0,    \* "idle", "wait", "locked", "token", "flash", "untoken"
  user,     \* who is using flash: "none", "save", "ota"
  acked,    \* the save saw the acknowledgement
  to1, to0  \* the FIFO in each direction: at most one token

pauseVars == <<request, paused, irq, at, core1, resume, core0, user, acked, to1, to0>>
core1Vars == <<paused, irq, at, core1, resume>>

Tokens == {<<>>, <<"PAUSE">>, <<"RESUME">>}

PauseInit ==
  /\ request = FALSE /\ paused = FALSE /\ irq = TRUE
  /\ at \in {"busy", "scan"} /\ core1 = "run" /\ resume = "run"
  /\ core0 = "idle" /\ user = "none" /\ acked = FALSE
  /\ to1 = <<>> /\ to0 = <<>>

-----------------------------------------------------------------------------
(* Mutant: no 500 ms delay before a save. *)
Settled_always == TRUE

(* A save begins 500 ms after it was signalled, and so at least as long    *)
(* after the last one: Core 1 is through with leaving the pause loop.      *)
Settled == core1 \notin {"spin", "left", "cleared"}

SaveBegin ==
  /\ core0 = "idle" /\ Settled
  /\ request' = TRUE
  /\ core0' = "wait" /\ user' = "save" /\ acked' = FALSE
  /\ UNCHANGED <<core1Vars, to1, to0>>

SaveAcked ==
  /\ core0 = "wait" /\ paused
  /\ core0' = "locked" /\ acked' = TRUE
  /\ UNCHANGED <<request, core1Vars, user, to1, to0>>

(* The wait is bounded; the save goes on without the acknowledgement.      *)
SaveTimeout ==
  /\ core0 = "wait" /\ ~paused
  /\ core0' = "locked"
  /\ UNCHANGED <<request, core1Vars, user, acked, to1, to0>>

OtaBegin ==
  /\ core0 = "idle"
  /\ core0' = "locked" /\ user' = "ota" /\ acked' = FALSE
  /\ UNCHANGED <<request, core1Vars, to1, to0>>

(* External: the flash driver's multicore::pause_core1 and resume_core1    *)
(* around the erase or write.                                              *)
DriverPause ==
  /\ core0 = "locked" /\ to1 = <<>>
  /\ to1' = <<"PAUSE">> /\ core0' = "token"
  /\ UNCHANGED <<request, core1Vars, user, acked, to0>>

DriverPaused ==
  /\ core0 = "token" /\ to0 = <<"PAUSE">>
  /\ to0' = <<>> /\ core0' = "flash"
  /\ UNCHANGED <<request, core1Vars, user, acked, to1>>

DriverResume ==
  /\ core0 = "flash" /\ to1 = <<>>
  /\ to1' = <<"RESUME">> /\ core0' = "untoken"
  /\ UNCHANGED <<request, core1Vars, user, acked, to0>>

(* Back in the caller: it erases or writes some more, ...                  *)
DriverAgain ==
  /\ core0 = "untoken" /\ to0 = <<"RESUME">>
  /\ to0' = <<>> /\ core0' = "locked"
  /\ UNCHANGED <<request, core1Vars, user, acked, to1>>

(* Mutant: the guard does not lower the flag. *)
Done_raised ==
  /\ core0 = "untoken" /\ to0 = <<"RESUME">>
  /\ to0' = <<>> /\ core0' = "idle" /\ user' = "none" /\ acked' = FALSE
  /\ UNCHANGED <<request, core1Vars, to1>>

(* ... or it is done, and the guard, if any, lowers the flag.              *)
Done ==
  /\ core0 = "untoken" /\ to0 = <<"RESUME">>
  /\ to0' = <<>> /\ core0' = "idle" /\ user' = "none" /\ acked' = FALSE
  /\ request' = FALSE
  /\ UNCHANGED <<core1Vars, to1>>

-----------------------------------------------------------------------------
(* The program of Core 1: the main loop, the baud-rate scan and the wait   *)
(* for a reply to the token look at the flag in every turn; the sending    *)
(* and receiving of frames between them ("busy") does not.                 *)
Core1Steps(from, to) ==
  /\ core1 = "run" /\ at = from /\ (from # "busy" => ~request)
  /\ at' = to
  /\ UNCHANGED <<request, paused, irq, core1, resume, core0, user, acked, to1, to0>>

Rescan == Core1Steps("loop", "scan")
EndScan == Core1Steps("scan", "busy")
PollBus == Core1Steps("loop", "busy")
GrantTurn == Core1Steps("busy", "wait")
LoopAgain == Core1Steps("busy", "loop")
EndWait == Core1Steps("wait", "loop")

(* core1_check_flash_pause, called from every loop of Core 1.              *)

Mask ==
  /\ core1 = "run" /\ at # "busy" /\ request
  /\ irq' = FALSE /\ core1' = "masked"
  /\ UNCHANGED <<request, paused, at, resume, core0, user, acked, to1, to0>>

Acknowledge ==
  /\ core1 = "masked"
  /\ paused' = TRUE /\ core1' = "spin" /\ irq' = FALSE
  /\ UNCHANGED <<request, at, resume, core0, user, acked, to1, to0>>

(* Mutant: the pause loop does not return tokens. *)
Echo_none ==
  /\ core1 = "spin" /\ request /\ to1 # <<>> /\ to0 = <<>>
  /\ to1' = <<>>
  /\ UNCHANGED <<request, core1Vars, core0, user, acked, to0>>

Echo ==
  /\ core1 = "spin" /\ request /\ to1 # <<>> /\ to0 = <<>>
  /\ to1' = <<>> /\ to0' = to1
  /\ UNCHANGED <<request, core1Vars, core0, user, acked>>

(* Mutant: the pause loop is left after one turn. *)
Leave_early ==
  /\ core1 = "spin"
  /\ core1' = "left"
  /\ UNCHANGED <<request, paused, irq, at, resume, core0, user, acked, to1, to0>>

Leave ==
  /\ core1 = "spin" /\ ~request
  /\ core1' = "left"
  /\ UNCHANGED <<request, paused, irq, at, resume, core0, user, acked, to1, to0>>

Clear ==
  /\ core1 = "left"
  /\ paused' = FALSE /\ core1' = "cleared"
  /\ UNCHANGED <<request, irq, at, resume, core0, user, acked, to1, to0>>

Unmask ==
  /\ core1 = "cleared"
  /\ irq' = TRUE /\ core1' = "run"
  /\ UNCHANGED <<request, paused, at, resume, core0, user, acked, to1, to0>>

(* External: the driver's interrupt handler takes a PAUSE token, returns   *)
(* it, and stays until it has returned the RESUME token.                   *)
IsrEnter ==
  /\ irq /\ core1 # "isr" /\ to1 = <<"PAUSE">> /\ to0 = <<>>
  /\ to1' = <<>> /\ to0' = <<"PAUSE">>
  /\ resume' = core1 /\ core1' = "isr"
  /\ UNCHANGED <<request, paused, irq, at, core0, user, acked>>

IsrLeave ==
  /\ core1 = "isr" /\ to1 = <<"RESUME">> /\ to0 = <<>>
  /\ to1' = <<>> /\ to0' = <<"RESUME">>
  /\ core1' = resume /\ resume' = "run"
  /\ UNCHANGED <<request, paused, irq, at, core0, user, acked>>

Core0 == SaveAcked \/ SaveTimeout \/ DriverPause \/ DriverPaused \/ DriverResume \/ Done
Pausing == Mask \/ Acknowledge \/ Echo \/ Leave \/ Clear \/ Unmask
Isr == IsrEnter \/ IsrLeave
Core1 == Rescan \/ EndScan \/ PollBus \/ GrantTurn \/ LoopAgain \/ EndWait \/ Pausing

PauseNext == SaveBegin \/ OtaBegin \/ Core0 \/ DriverAgain \/ Core1 \/ Isr

(* Neither core stops, an enabled interrupt is taken, and an operation is  *)
(* a finite number of erasures and writes.                                 *)
PauseSpec ==
  /\ PauseInit /\ [][PauseNext]_pauseVars
  /\ WF_pauseVars(Core0) /\ WF_pauseVars(Core1) /\ WF_pauseVars(Isr) /\ SF_pauseVars(Done)

-----------------------------------------------------------------------------
(* Types; the handler only ever interrupts Core 1 outside the pause code.  *)
PauseTypeOK ==
  /\ request \in BOOLEAN /\ paused \in BOOLEAN /\ irq \in BOOLEAN /\ acked \in BOOLEAN
  /\ at \in {"loop", "scan", "wait", "busy"}
  /\ core1 \in {"run", "masked", "spin", "left", "cleared", "isr"}
  /\ resume \in {"run"}
  /\ core0 \in {"idle", "wait", "locked", "token", "flash", "untoken"}
  /\ user \in {"none", "save", "ota"}
  /\ to1 \in Tokens /\ to0 \in Tokens

(* While a save erases or writes flash after an acknowledgement, Core 1    *)
(* spins in SRAM with the flash-resident handler masked, whatever was left *)
(* over from the save before (bacnet_bridge.h:98-105, core1.rs:93-105).    *)
SpinsDuringSave ==
  core0 = "flash" /\ user = "save" /\ acked => core1 = "spin" /\ ~irq

(* Core 1's own program stands still while flash is busy, with or without  *)
(* the pause: it is in the pause loop, which no one leaves before the flag *)
(* is lowered, or held where the driver's handler interrupted it.  It is   *)
(* held there only by an upload, or by a save that was not acknowledged    *)
(* (core1_entry.c:257-261).  Whether the handler itself can run then is    *)
(* another question, see HandlerStaysOut.                                  *)
HaltedDuringFlash ==
  core0 = "flash" => \/ core1 = "spin" /\ request
                     \/ core1 = "isr" /\ resume = "run" /\ ~acked

(* No flash operation hangs on the two handshakes, in whatever state the   *)
(* request or the timeout finds Core 1 (core1.rs:93-105,                   *)
(* bacnet_bridge.h:119-145).                                               *)
OperationsEnd == user # "none" ~> user = "none"

(* Core 1 always gets back to the bus: no pause outlives its operation     *)
(* (core1.rs:108-118, bacnet_bridge.h:140-144).                            *)
Core1Returns == (core1 # "run") ~> (core1 = "run")

-----------------------------------------------------------------------------
(* What comments in the repository say and the code does not do.           *)

(* bacnet_bridge.h:100-107: before flash operations Core 1 is made to spin *)
(* in SRAM, so that it never enters the handler, which resides in flash,   *)
(* while flash is erased or written.                                       *)
HandlerStaysOut == core0 = "flash" => core1 # "isr"
=============================================================================
