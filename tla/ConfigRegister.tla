---------------------------- MODULE ConfigRegister ----------------------------
(***************************************************************************)
(* What persistence promises: the configuration in memory changes freely;  *)
(* what a boot will read is the one that was last made permanent, at the   *)
(* moment it was, or nothing, and then a boot has the defaults.  There is  *)
(* no way back to an older one.                                            *)
(***************************************************************************)
CONSTANTS Cfg, DefaultCfg

VARIABLES
  up,     \* the device runs
  mem,    \* the configuration in memory
  store   \* what the next boot will read

Init == up = TRUE /\ mem = DefaultCfg /\ store = DefaultCfg

Change == up /\ mem' \in Cfg /\ UNCHANGED <<up, store>>

Commit == up /\ store' = mem /\ UNCHANGED <<up, mem>>

Lose == up /\ store' = DefaultCfg /\ UNCHANGED <<up, mem>>

Crash == up /\ up' = FALSE /\ store' \in {store, DefaultCfg} /\ UNCHANGED mem

Restart == ~up /\ up' = TRUE /\ mem' = store /\ UNCHANGED store

Next == Change \/ Commit \/ Lose \/ Crash \/ Restart

Spec == Init /\ [][Next]_<<up, mem, store>>
=============================================================================
