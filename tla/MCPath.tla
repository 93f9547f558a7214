-------------------------------- MODULE MCPath --------------------------------
(***************************************************************************)
(* Model-checking instance of what a PDU meets on its way from the MS/TP   *)
(* bus to the IP network and back: a behaviour is one of MstpReceive       *)
(* (scene 1) or of BridgePath (scene 2).  Payloads have up to one byte or  *)
(* are too long, their bytes look like a preamble, and losses swallow a    *)
(* whole frame; rings have two slots, so that both can be full, and enough *)
(* arrives that requests and own Who-Is overlap.                           *)
(***************************************************************************)
EXTENDS MstpReceive, BridgePath

VARIABLE scene

MCInit == scene \in {1, 2} /\ RxInit /\ PathInit /\ (scene = 2 => frame.type = 5)

MCNext ==
  /\ UNCHANGED scene
  /\ \/ scene = 1 /\ RxNext /\ UNCHANGED pathVars
     \/ scene = 2 /\ PathNext /\ UNCHANGED mstpVars

(* The fairness each assumes, in its own scene. *)
MCSpec ==
  /\ MCInit /\ [][MCNext]_<<scene, mstpVars, pathVars>>
  /\ WF_mstpVars(scene = 1 /\ Receive)
  /\ WF_pathVars(scene = 2 /\ RouterStep) /\ WF_pathVars(scene = 2 /\ IpStep)
  /\ WF_pathVars(scene = 2 /\ mstp_transmit_outbound)

(* RouterTurns (BridgePath): the router always gets back to its timer,     *)
(* although its drain loops pop what its own handlers push                 *)
(* (bacnet_router.rs:66-88).                                               *)
RouterComesBack == scene = 2 => RouterTurns
=============================================================================
