----------------------------- MODULE MCPointFeed -----------------------------
(***************************************************************************)
(* Model-checking instance of the table with its feeds (scene 1) and by    *)
(* itself (scene 2): two slots and three devices, so that slot 1 is        *)
(* evicted.  In scene 1 the first device has two objects and the second    *)
(* one; in scene 2 the first has three, one more than there is room for,   *)
(* the others one, and units are answered.                                 *)
(***************************************************************************)
EXTENDS PointFeed, TLC

CONSTANTS d1, d2, d3, bridge, o1, o2, o3, v1

MCFirstByte == (d1 :> 1) @@ (d2 :> 2) @@ (d3 :> 192) @@ (bridge :> 10)

MCProcess == [v \in Val |-> v]

VARIABLE scene

Objects ==
  IF scene = 1 THEN {<<d1, o1>>, <<d1, o2>>, <<d2, o1>>}
  ELSE {<<d1, o1>>, <<d1, o2>>, <<d1, o3>>, <<d2, o1>>, <<d3, o1>>}

OwnObjects ==
  /\ \A i \in 1 .. Len(devices) : \A k \in 1 .. Len(points[i]) :
       <<devices[i].device_id, points[i][k].oid>> \in Objects
  /\ \A d \in Device, o \in Oid : unitOf[d][o] # 0 => <<d, o>> \in Objects
  /\ \A i \in 1 .. Len(devices) : devices[i].points_loaded => scene = 2

MCInit == FeedInit /\ scene \in 1 .. 2

MCNext ==
  /\ UNCHANGED scene
  /\ \/ scene = 1 /\ FeedNext /\ OwnObjects'
     \/ scene = 2 /\ TableNext /\ OwnObjects' /\ UNCHANGED feedVars

(* The table by itself. *)
TableScene == MCInit /\ scene = 2

MCSpec ==
  /\ MCInit /\ [][MCNext]_<<scene, vars>>
  /\ \A s \in Subscriber : WF_vars(scene = 1 /\ Sending(s))
=============================================================================
