----------------------------- MODULE BridgeState -----------------------------
(***************************************************************************)
(* The table of discovered devices and their points, and the router's      *)
(* handlers that fill it.                                                  *)
(*                                                                         *)
(*   BridgeStateInner            bridge-core/src/bridge.rs                 *)
(*   handlers                    firmware/src/bacnet_router.rs             *)
(*   POST /devices/{id}/refresh  firmware/src/http.rs                      *)
(*                                                                         *)
(* One mutex guards the table and no handler awaits while it holds it, so  *)
(* a handler is one step.  The occupied slots are a prefix of the device   *)
(* array: devices is that prefix, device_count its length; likewise the    *)
(* points of a slot.  A point rule may be edited at any time: its mode is  *)
(* an input of each update.  Polling changes nothing in the table.         *)
(***************************************************************************)
EXTENDS Integers, Sequences

CONSTANTS
  MaxDevices,   \* MAX_DEVICES
  MaxPoints,    \* MAX_POINTS_PER_DEVICE
  Device,       \* device instance numbers
  BridgeDevice, \* the bridge's own instance number
  FirstByte,    \* first byte of each device's source address
  Oid,          \* object identifiers
  Val,          \* property values
  Process,      \* what the processor chain makes of a value
  UnitCode      \* engineering-unit codes other than 0 (no-units)

ASSUME SizeAssumption == MaxDevices \in Nat \ {0} /\ MaxPoints \in Nat \ {0}
ASSUME ProcessAssumption == Process \in [Val -> Val]
ASSUME UnitAssumption == UnitCode \subseteq Nat \ {0}
ASSUME AddressAssumption == FirstByte \in [Device -> 0 .. 255]

Mode == {"Ignore", "Passthrough", "Processed"}
Unit == UnitCode \cup {0}

DeviceEntry == [device_id : Device, mac : 0 .. 255, online : BOOLEAN, points_loaded : BOOLEAN]

(* owner is history: the device that reported the value. *)
PointEntry == [oid : Oid, value : Val, unit : Unit, dirty : BOOLEAN, owner : Device]

VARIABLES
  devices,    \* the occupied device slots
  points,     \* the occupied point slots of every device slot
  unitOf,     \* history: last unit reported for an object of a device since
              \* the device was registered; 0 for a device that is not
  forgotten   \* history: devices and objects whose reported unit came before
              \* the point did, or was followed by a COV notification

unitVars == <<unitOf, forgotten>>
stateVars == <<devices, points, unitVars>>

-----------------------------------------------------------------------------
Lowest(S) == CHOOSE i \in S : \A j \in S : i <= j

(* Mutant: the search stops one slot early. *)
find_device_short(d) == {i \in 1 .. Len(devices) - 1 : devices[i].device_id = d}

find_device(d) == {i \in 1 .. Len(devices) : devices[i].device_id = d}

DevicesAt(mac) == {i \in 1 .. Len(devices) : devices[i].mac = mac}

(* Mutant: the search for an existing entry stops one short. *)
PointsAt_short(i, o) == {k \in 1 .. Len(points[i]) - 1 : points[i][k].oid = o}

PointsAt(i, o) == {k \in 1 .. Len(points[i]) : points[i][k].oid = o}

NewDevice(d, m) == [device_id |-> d, mac |-> m, online |-> FALSE, points_loaded |-> FALSE]

(* Mutant: the evicted device's points stay in the slot. *)
evict_keeping_points == points

evict == [points EXCEPT ![1] = <<>>]

has_free_slot == Len(devices) < MaxDevices

upsert_device(d, m) ==
  \/ /\ find_device(d) # {}
     /\ devices' = [devices EXCEPT ![Lowest(find_device(d))].mac = m]
     /\ UNCHANGED <<points, unitVars>>
  \/ /\ find_device(d) = {} /\ has_free_slot
     /\ devices' = Append(devices, NewDevice(d, m))
     /\ UNCHANGED <<points, unitVars>>
  \/ /\ find_device(d) = {} /\ ~has_free_slot
     /\ devices' = [devices EXCEPT ![1] = NewDevice(d, m)]
     /\ points' = evict
     /\ unitOf' = [unitOf EXCEPT ![devices[1].device_id] = [o \in Oid |-> 0]]
     /\ forgotten' = {f \in forgotten : f[1] # devices[1].device_id}

(* Mutant: a full point table overwrites its first entry. *)
update_point_overwriting(i, o, v, u, owner) ==
  LET p == [oid |-> o, value |-> v, unit |-> u, dirty |-> TRUE, owner |-> owner] IN
    points' = [points EXCEPT ![i] =
                 IF PointsAt(i, o) # {} THEN [@ EXCEPT ![Lowest(PointsAt(i, o))] = p]
                 ELSE IF Len(@) < MaxPoints THEN Append(@, p)
                 ELSE [@ EXCEPT ![1] = p]]

(* A full point table drops the update. *)
update_point(i, o, v, u, owner) ==
  LET p == [oid |-> o, value |-> v, unit |-> u, dirty |-> TRUE, owner |-> owner] IN
  \/ /\ PointsAt(i, o) # {}
     /\ points' = [points EXCEPT ![i] = [@ EXCEPT ![Lowest(PointsAt(i, o))] = p]]
  \/ /\ PointsAt(i, o) = {} /\ Len(points[i]) < MaxPoints
     /\ points' = [points EXCEPT ![i] = Append(@, p)]
  \/ /\ PointsAt(i, o) = {} /\ Len(points[i]) >= MaxPoints
     /\ UNCHANGED points

update_point_with_pipeline(i, o, v, u, owner, mode) ==
  \/ mode = "Ignore" /\ UNCHANGED points
  \/ mode = "Passthrough" /\ update_point(i, o, v, u, owner)
  \/ mode = "Processed" /\ update_point(i, o, Process[v], u, owner)

(* Mutant: the unit of any point of the device is carried over. *)
get_point_unit_any(i, o) == IF points[i] = <<>> THEN 0 ELSE points[i][1].unit

get_point_unit(i, o) ==
  IF PointsAt(i, o) = {} THEN 0 ELSE points[i][Lowest(PointsAt(i, o))].unit

(* A point that does not exist yet is left alone. *)
update_point_unit(i, o, u) ==
  \/ PointsAt(i, o) = {} /\ UNCHANGED points
  \/ /\ PointsAt(i, o) # {}
     /\ points' = [points EXCEPT ![i] = [@ EXCEPT ![Lowest(PointsAt(i, o))].unit = u]]

-----------------------------------------------------------------------------
TableInit ==
  /\ devices = <<>>
  /\ points = [i \in 1 .. MaxDevices |-> <<>>]
  /\ unitOf = [d \in Device |-> [o \in Oid |-> 0]] /\ forgotten = {}

(* The bridge's own I-Am is ignored; the MAC is the first source byte.     *)
handle_i_am(d) ==
  /\ d # BridgeDevice
  /\ upsert_device(d, FirstByte[d])

(* A value answer of device d is filed under the first device that has     *)
(* d's MAC; the point keeps its unit.                                      *)
PresentValueAck(d, o, v, mode) ==
  /\ DevicesAt(FirstByte[d]) # {}
  /\ LET i == Lowest(DevicesAt(FirstByte[d])) IN
       update_point_with_pipeline(i, o, v, get_point_unit(i, o), d, mode)
  /\ UNCHANGED <<devices, unitVars>>

UnitsAck(d, o, u) ==
  /\ DevicesAt(FirstByte[d]) # {}
  /\ LET i == Lowest(DevicesAt(FirstByte[d]))
         e == devices[i].device_id
     IN /\ update_point_unit(i, o, u)
        /\ devices' = [devices EXCEPT ![i].points_loaded = TRUE]
        /\ unitOf' = [unitOf EXCEPT ![e][o] = u]
        /\ forgotten' = IF PointsAt(i, o) = {} /\ u # 0 THEN forgotten \cup {<<e, o>>}
                        ELSE forgotten \ {<<e, o>>}

(* A notification names its device; the unit passed on is 0. *)
handle_cov_notification(d, o, v, mode) ==
  /\ find_device(d) # {}
  /\ update_point_with_pipeline(Lowest(find_device(d)), o, v, 0, d, mode)
  /\ forgotten' = IF mode # "Ignore" /\ unitOf[d][o] # 0 THEN forgotten \cup {<<d, o>>}
                  ELSE forgotten
  /\ UNCHANGED <<devices, unitOf>>

refresh(d) ==
  /\ find_device(d) # {}
  /\ devices' = [devices EXCEPT ![Lowest(find_device(d))].points_loaded = FALSE]
  /\ UNCHANGED <<points, unitVars>>

TableNext ==
  \E d \in Device :
    \/ handle_i_am(d)
    \/ \E o \in Oid, v \in Val, m \in Mode : PresentValueAck(d, o, v, m)
    \/ \E o \in Oid, u \in Unit : UnitsAck(d, o, u)
    \/ \E o \in Oid, v \in Val, m \in Mode : handle_cov_notification(d, o, v, m)
    \/ refresh(d)

TableSpec == TableInit /\ [][TableNext]_stateVars

-----------------------------------------------------------------------------
TableTypeOK ==
  /\ devices \in Seq(DeviceEntry) /\ Len(devices) <= MaxDevices
  /\ points \in [1 .. MaxDevices -> Seq(PointEntry)]
  /\ \A i \in 1 .. MaxDevices : Len(points[i]) <= MaxPoints
  /\ unitOf \in [Device -> [Oid -> Unit]] /\ forgotten \subseteq Device \X Oid

(* A device occupies one slot and an object one entry of it, through any   *)
(* sequence of registrations, evictions, answers and notifications         *)
(* (bridge.rs:151-201, 212-249).                                           *)
NoDuplicates ==
  /\ \A i, j \in 1 .. Len(devices) :
       devices[i].device_id = devices[j].device_id => i = j
  /\ \A i \in 1 .. MaxDevices : \A k, l \in 1 .. Len(points[i]) :
       points[i][k].oid = points[i][l].oid => k = l

(* Every stored value was reported by the device it is filed under         *)
(* (bridge.rs:121).  It fails when two devices share the first byte of     *)
(* their address, as those of one IP network do.                           *)
PointsBelongToDevice ==
  \A i \in 1 .. Len(devices) : \A k \in 1 .. Len(points[i]) :
    points[i][k].owner = devices[i].device_id

(* The values of a device are filed under it as long as no two devices     *)
(* share the first byte of their address, evictions and re-registrations   *)
(* included (bacnet_router.rs:206-261, 315-343).                           *)
FiledUnderSender ==
  (\A d, e \in Device : FirstByte[d] = FirstByte[e] => d = e) => PointsBelongToDevice

KeepsIndex ==
  \A i \in 1 .. Len(devices) : \A k \in 1 .. Len(points[i]) :
    devices'[i].device_id = devices[i].device_id =>
      Len(points'[i]) >= k /\ points'[i][k].oid = points[i][k].oid

(* A point keeps its index until its device is evicted, whatever arrives   *)
(* when the table is full: the scans of SSE and MQTT, which address points *)
(* by index and release the lock in between, neither skip a known point    *)
(* nor report it as another one (bridge.rs:212-249, http.rs:408-437).      *)
PointsKeepIndex == [][KeepsIndex]_stateVars

ReportedUnit(d, o) == IF <<d, o>> \in forgotten THEN 0 ELSE unitOf[d][o]

(* The unit of a point is the one last reported for that object of that    *)
(* device, no other object's and no evicted device's; it is 0 only if none *)
(* was reported, if the report came before the first value did, or if a    *)
(* COV notification came after it (bridge.rs:165-201, 292-322,             *)
(* bacnet_router.rs:210-258, 331-338).                                     *)
UnitIsReported ==
  \A i \in 1 .. Len(devices) : \A k \in 1 .. Len(points[i]) :
    points[i][k].unit = ReportedUnit(devices[i].device_id, points[i][k].oid)

-----------------------------------------------------------------------------
(* What comments in the repository say and the code does not do.           *)

(* bridge.rs:288-290: a unit that is reported before its point exists is   *)
(* written when the point is created; bacnet_router.rs:217-219: a later    *)
(* value does not reset it to 0.                                           *)
UnitSurvives ==
  \A i \in 1 .. Len(devices) : \A k \in 1 .. Len(points[i]) :
    points[i][k].unit = unitOf[devices[i].device_id][points[i][k].oid]
=============================================================================
