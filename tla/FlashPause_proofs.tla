--------------------------- MODULE FlashPause_proofs ---------------------------
(* Proofs about FlashPause: the program of Core 1 stands still while flash *)
(* is busy, in every interleaving of saves, uploads, time-outs, the pause  *)
(* loop and the interrupt handler.                                         *)
EXTENDS FlashPause, TLAPS

(* The flag is up exactly while a save runs, and an operation runs exactly *)
(* while Core 0 is not idle; only a save waits for an acknowledgement.     *)
FlagOfSave ==
  /\ request <=> user = "save"
  /\ user = "none" <=> core0 = "idle"
  /\ core0 = "wait" => user = "save"

(* Core 1 masks the handler for the whole of the pause code, and the       *)
(* acknowledgement is up in the pause loop and just behind it.             *)
MaskedInPause ==
  /\ irq <=> core1 \in {"run", "isr"}
  /\ paused <=> core1 \in {"spin", "left"}

(* The one token: on its way to Core 1, on its way back, or taken.         *)
OneToken ==
  /\ core0 = "token" => \/ to1 = <<"PAUSE">> /\ to0 = <<>>
                        \/ to1 = <<>> /\ to0 = <<"PAUSE">>
  /\ core0 = "untoken" => \/ to1 = <<"RESUME">> /\ to0 = <<>>
                          \/ to1 = <<>> /\ to0 = <<"RESUME">>
  /\ core0 \notin {"token", "untoken"} => to1 = <<>> /\ to0 = <<>>

(* Core 1 has returned PAUSE and not yet RESUME. *)
Stopped ==
  \/ core0 = "token" /\ to0 = <<"PAUSE">>
  \/ core0 = "flash"
  \/ core0 = "untoken" /\ to1 = <<"RESUME">>

(* What returned PAUSE is still there to return RESUME: the handler, or    *)
(* the pause loop, which no one leaves while the flag is up.               *)
WhoStopped ==
  /\ Stopped => core1 = "isr" \/ (core1 = "spin" /\ request)
  /\ core1 = "isr" => Stopped

(* No save meets a Core 1 that is still leaving the pause before it, so    *)
(* the acknowledgement a save sees is its own.                             *)
FreshAck ==
  /\ request => core1 \notin {"left", "cleared"}
  /\ acked => request /\ core1 = "spin"

IInv == PauseTypeOK /\ FlagOfSave /\ MaskedInPause /\ OneToken /\ WhoStopped /\ FreshAck

-----------------------------------------------------------------------------
LEMMA TokensDiffer ==
  <<"PAUSE">> # <<"RESUME">> /\ <<"PAUSE">> # <<>> /\ <<"RESUME">> # <<>>
OBVIOUS

LEMMA InitIInv == PauseInit => IInv
BY DEF PauseInit, IInv, PauseTypeOK, Tokens, FlagOfSave, MaskedInPause, OneToken, Stopped, WhoStopped,
       FreshAck

LEMMA NextIInv == IInv /\ [PauseNext]_pauseVars => IInv'
<1> SUFFICES ASSUME IInv, [PauseNext]_pauseVars PROVE IInv'
  OBVIOUS
<1> USE DEF IInv, PauseTypeOK, Tokens, FlagOfSave, MaskedInPause, OneToken, Stopped, WhoStopped,
            FreshAck, core1Vars
<1>1. CASE SaveBegin
  BY <1>1 DEF SaveBegin, Settled
<1>2. CASE SaveAcked
  BY <1>2 DEF SaveAcked
<1>3. CASE SaveTimeout
  BY <1>3 DEF SaveTimeout
<1>4. CASE OtaBegin
  BY <1>4 DEF OtaBegin
<1>5. CASE DriverPause
  BY <1>5, TokensDiffer DEF DriverPause
<1>6. CASE DriverPaused
  BY <1>6, TokensDiffer DEF DriverPaused
<1>7. CASE DriverResume
  BY <1>7, TokensDiffer DEF DriverResume
<1>8. CASE DriverAgain
  BY <1>8, TokensDiffer DEF DriverAgain
<1>9. CASE Done
  BY <1>9, TokensDiffer DEF Done
<1>10. CASE Rescan \/ EndScan \/ PollBus \/ GrantTurn \/ LoopAgain \/ EndWait
  BY <1>10 DEF Rescan, EndScan, PollBus, GrantTurn, LoopAgain, EndWait, Core1Steps
<1>11. CASE Mask
  BY <1>11 DEF Mask
<1>12. CASE Acknowledge
  BY <1>12 DEF Acknowledge
<1>13. CASE Echo
  BY <1>13 DEF Echo
<1>14. CASE Leave
  BY <1>14 DEF Leave
<1>18. CASE Clear
  BY <1>18 DEF Clear
<1>19. CASE Unmask
  BY <1>19 DEF Unmask
<1>15. CASE IsrEnter
  BY <1>15 DEF IsrEnter
<1>16. CASE IsrLeave
  BY <1>16 DEF IsrLeave
<1>17. CASE UNCHANGED pauseVars
  BY <1>17 DEF pauseVars
<1> QED
  BY <1>1, <1>2, <1>3, <1>4, <1>5, <1>6, <1>7, <1>8, <1>9, <1>10, <1>11, <1>12, <1>13, <1>14,
     <1>15, <1>16, <1>17, <1>18, <1>19 DEF PauseNext, Core0, Core1, Pausing, Isr

-----------------------------------------------------------------------------
(* The inductive invariant holds in every reachable state. *)
THEOREM Invariance == PauseSpec => []IInv
BY InitIInv, NextIInv, PTL DEF PauseSpec

(* The handler only ever interrupts Core 1 outside the pause code, and the *)
(* FIFO holds at most one token each way (core1.rs:93-118,                 *)
(* bacnet_bridge.h:119-145).                                               *)
THEOREM TypeCorrect == PauseSpec => []PauseTypeOK
<1>1. IInv => PauseTypeOK
  BY DEF IInv
<1> QED
  BY <1>1, Invariance, PTL

(* Whenever flash is erased or written Core 1 is in the pause loop for as  *)
(* long as the flag is up, or its program is held by the driver's handler; *)
(* the latter only by an upload or by a save that was not acknowledged     *)
(* (core1_entry.c:257-261).                                                *)
THEOREM ProgramHalted == PauseSpec => []HaltedDuringFlash
<1>1. IInv => HaltedDuringFlash
  BY DEF IInv, PauseTypeOK, WhoStopped, Stopped, FreshAck, HaltedDuringFlash
<1> QED
  BY <1>1, Invariance, PTL

(* A save that saw the acknowledgement finds Core 1 spinning in SRAM with  *)
(* the flash-resident handler masked (bacnet_bridge.h:98-105,              *)
(* core1.rs:93-105).                                                       *)
THEOREM SaveFindsSpin == PauseSpec => []SpinsDuringSave
<1>1. IInv => SpinsDuringSave
  BY DEF IInv, FreshAck, MaskedInPause, SpinsDuringSave
<1> QED
  BY <1>1, Invariance, PTL

(* Nothing happens between Core 0's first access to flash and its RESUME:  *)
(* neither the program of Core 1 nor the loop or the handler that holds it *)
(* returns a token or leaves (bacnet_bridge.h:119-139, core1_entry.c:257-  *)
(* 261).                                                                   *)
StillDuringFlash ==
  [][core0 = "flash" => /\ core0' = "untoken" /\ UNCHANGED <<core1Vars, to0>>
                        /\ HaltedDuringFlash]_pauseVars

(* The program of Core 1 is halted where HaltedDuringFlash says, and the   *)
(* next step of either core is Core 0's RESUME (bacnet_bridge.h:119-139).  *)
THEOREM ProgramStill == PauseSpec => StillDuringFlash
<1>1. IInv /\ [PauseNext]_pauseVars =>
        [core0 = "flash" => /\ core0' = "untoken" /\ UNCHANGED <<core1Vars, to0>>
                            /\ HaltedDuringFlash]_pauseVars
  <2> SUFFICES ASSUME IInv, PauseNext, core0 = "flash"
               PROVE  /\ core0' = "untoken" /\ UNCHANGED <<core1Vars, to0>>
                      /\ HaltedDuringFlash
    OBVIOUS
  <2>3. HaltedDuringFlash
    BY DEF IInv, PauseTypeOK, WhoStopped, Stopped, FreshAck, HaltedDuringFlash
  <2>1. to1 = <<>> /\ to0 = <<>> /\ core1 \in {"spin", "isr"} /\ (core1 = "spin" => request)
    BY DEF IInv, OneToken, WhoStopped, Stopped
  <2>2. ~Core1 /\ ~Isr
    BY <2>1, TokensDiffer
       DEF Core1, Isr, Rescan, EndScan, PollBus, GrantTurn, LoopAgain, EndWait, Core1Steps,
           Pausing, Mask, Acknowledge, Echo, Leave, Clear, Unmask, IsrEnter, IsrLeave
  <2> QED
    BY <2>2, <2>3 DEF PauseNext, Core0, SaveBegin, OtaBegin, SaveAcked, SaveTimeout, DriverPause,
                DriverPaused, DriverResume, DriverAgain, Done, core1Vars
<1> QED
  BY <1>1, Invariance, PTL DEF PauseSpec, StillDuringFlash
=============================================================================
