--------------------------- MODULE PointFeed_proofs ---------------------------
(***************************************************************************)
(* Proofs about BridgeState and PointFeed, for every table size, every set *)
(* of devices, objects and subscribers and every assignment of addresses.  *)
(*                                                                         *)
(* That values are filed under their sender is not inductive: it needs     *)
(* that a slot not in use holds no points (its next owner would inherit    *)
(* them) and that a tracked device's MAC is the first byte of its address  *)
(* (the search by MAC finds nobody else).  That a point has the unit       *)
(* reported for it needs that an object without a point, and a device      *)
(* without a slot, has no unit to carry over.  All are conjuncts of IInv.  *)
(* The feeds only clear dirty flags in the table, so that what the first   *)
(* part shows of BridgeState is used in the second, about PointFeed.       *)
(***************************************************************************)
EXTENDS PointFeed, WellFoundedInduction, TLAPS

-----------------------------------------------------------------------------
(* BridgeState. *)
FreeSlotsEmpty == \A i \in 1 .. MaxDevices : i > Len(devices) => points[i] = <<>>

MacKnown ==
  \A i \in 1 .. Len(devices) : devices[i].mac = FirstByte[devices[i].device_id]

UnitsPending ==
  /\ \A i \in 1 .. Len(devices), o \in Oid :
       (\A k \in 1 .. Len(points[i]) : points[i][k].oid # o) =>
         ReportedUnit(devices[i].device_id, o) = 0
  /\ \A d \in Device :
       (\A i \in 1 .. Len(devices) : devices[i].device_id # d) =>
         \A o \in Oid : ReportedUnit(d, o) = 0

UnitsInv == UnitIsReported /\ UnitsPending

IInv ==
  /\ TableTypeOK /\ NoDuplicates /\ FreeSlotsEmpty /\ MacKnown
  /\ FiledUnderSender /\ UnitsInv

-----------------------------------------------------------------------------
(* The searches of the table return a slot that matches: the first index   *)
(* of a nonempty set of naturals is one of its elements.                   *)
LEMMA FirstIn == ASSUME NEW S \in SUBSET Nat, S # {} PROVE Lowest(S) \in S
<1>1. PICK x \in S : \A y \in S : ~(<<y, x>> \in OpToRel(<, Nat))
  BY WFMin, NatLessThanWellFounded, Zenon
<1>2. \A y \in S : ~(y < x)
  BY <1>1 DEF OpToRel
<1>3. \A y \in S : x <= y
  BY <1>2
<1> QED
  BY <1>3 DEF Lowest

(* What a value update may do to the table: it touches one slot, keeps it  *)
(* within bounds and without duplicates, moves no entry, and brings in no  *)
(* value but that of the reporting device, with the given unit.            *)
PointsStep(i, owner, o, u) ==
  /\ points' \in [1 .. MaxDevices -> Seq(PointEntry)]
  /\ \A j \in 1 .. MaxDevices : Len(points'[j]) <= MaxPoints
  /\ \A j \in 1 .. MaxDevices : j # i => points'[j] = points[j]
  /\ \A k, l \in 1 .. Len(points'[i]) : points'[i][k].oid = points'[i][l].oid => k = l
  /\ \A k \in 1 .. Len(points'[i]) :
       \/ /\ k \in 1 .. Len(points[i]) /\ points'[i][k] = points[i][k]
          /\ points[i][k].oid # o
       \/ /\ points'[i][k].owner = owner /\ points'[i][k].oid = o
          /\ points'[i][k].unit = u
  /\ \A k \in 1 .. Len(points[i]) :
       Len(points'[i]) >= k /\ points'[i][k].oid = points[i][k].oid

(* update_point, in each of its three cases, makes such a step.            *)
LEMMA UpdatePoint ==
  ASSUME TableTypeOK, NoDuplicates, NEW i \in 1 .. MaxDevices,
         NEW o \in Oid, NEW v \in Val, NEW u \in Unit, NEW owner \in Device,
         update_point(i, o, v, u, owner)
  PROVE  PointsStep(i, owner, o, u)
<1> DEFINE p == [oid |-> o, value |-> v, unit |-> u, dirty |-> TRUE, owner |-> owner]
<1>p. p \in PointEntry
  BY DEF PointEntry
<1>t. /\ points \in [1 .. MaxDevices -> Seq(PointEntry)]
      /\ \A j \in 1 .. MaxDevices : Len(points[j]) <= MaxPoints
      /\ points[i] \in Seq(PointEntry)
      /\ Len(points[i]) \in Nat
      /\ MaxPoints \in Nat
  BY SizeAssumption DEF TableTypeOK
<1>d. \A k, l \in 1 .. Len(points[i]) : points[i][k].oid = points[i][l].oid => k = l
  BY DEF NoDuplicates
<1>1. CASE /\ PointsAt(i, o) # {}
           /\ points' = [points EXCEPT ![i] = [@ EXCEPT ![Lowest(PointsAt(i, o))] = p]]
  <2> DEFINE k0 == Lowest(PointsAt(i, o))
             s == [points[i] EXCEPT ![k0] = p]
  <2>1. k0 \in 1 .. Len(points[i]) /\ points[i][k0].oid = o
    <3>1. PointsAt(i, o) \in SUBSET Nat
      BY <1>t DEF PointsAt
    <3>2. k0 \in PointsAt(i, o)
      BY <3>1, <1>1, FirstIn
    <3> QED BY <3>2 DEF PointsAt
  <2> HIDE DEF k0, p
  <2>2. s \in Seq(PointEntry) /\ Len(s) = Len(points[i])
    BY <1>t, <1>p, <2>1
  <2>3. \A k \in 1 .. Len(points[i]) : s[k] = IF k = k0 THEN p ELSE points[i][k]
    BY <1>t, <2>1
  <2>4. points' = [points EXCEPT ![i] = s]
    BY <1>1, <1>t DEF k0, p
  <2> HIDE DEF s
  <2>5. p.oid = o /\ p.owner = owner /\ p.unit = u
    BY DEF p
  <2>6. points'[i] = s /\ \A j \in 1 .. MaxDevices : j # i => points'[j] = points[j]
    BY <2>4, <1>t
  <2>7. points' \in [1 .. MaxDevices -> Seq(PointEntry)]
    BY <2>4, <2>2, <1>t
  <2>8. \A k, l \in 1 .. Len(s) : s[k].oid = s[l].oid => k = l
    BY <2>1, <2>2, <2>3, <2>5, <1>d
  <2>9. \A k \in 1 .. Len(s) :
          \/ k \in 1 .. Len(points[i]) /\ s[k] = points[i][k] /\ points[i][k].oid # o
          \/ s[k].owner = owner /\ s[k].oid = o /\ s[k].unit = u
    BY <2>1, <2>2, <2>3, <2>5, <1>d
  <2>10. \A k \in 1 .. Len(points[i]) : Len(s) >= k /\ s[k].oid = points[i][k].oid
    BY <2>1, <2>2, <2>3, <2>5, <1>t
  <2> QED
    BY <2>2, <2>6, <2>7, <2>8, <2>9, <2>10, <1>t DEF PointsStep
<1>2. CASE /\ PointsAt(i, o) = {} /\ Len(points[i]) < MaxPoints
           /\ points' = [points EXCEPT ![i] = Append(@, p)]
  <2> DEFINE s == Append(points[i], p)
  <2> HIDE DEF p
  <2>1. s \in Seq(PointEntry) /\ Len(s) = Len(points[i]) + 1
    BY <1>t, <1>p
  <2>2. \A k \in 1 .. Len(s) : s[k] = IF k = Len(s) THEN p ELSE points[i][k]
    BY <1>t
  <2>3. points' = [points EXCEPT ![i] = s]
    BY <1>2, <1>t DEF p
  <2> HIDE DEF s
  <2>4. \A k \in 1 .. Len(points[i]) : points[i][k].oid # o
    BY <1>2 DEF PointsAt
  <2>5. p.oid = o /\ p.owner = owner /\ p.unit = u
    BY DEF p
  <2>6. points'[i] = s /\ \A j \in 1 .. MaxDevices : j # i => points'[j] = points[j]
    BY <2>3, <1>t
  <2>7. points' \in [1 .. MaxDevices -> Seq(PointEntry)]
    BY <2>3, <2>1, <1>t
  <2>8. \A k, l \in 1 .. Len(s) : s[k].oid = s[l].oid => k = l
    BY <2>1, <2>2, <2>4, <2>5, <1>d, <1>t
  <2>9. \A k \in 1 .. Len(s) :
          \/ k \in 1 .. Len(points[i]) /\ s[k] = points[i][k] /\ points[i][k].oid # o
          \/ s[k].owner = owner /\ s[k].oid = o /\ s[k].unit = u
    BY <2>1, <2>2, <2>4, <2>5, <1>t
  <2>10. Len(s) <= MaxPoints
    BY <2>1, <1>2, <1>t
  <2>11. \A k \in 1 .. Len(points[i]) : Len(s) >= k /\ s[k].oid = points[i][k].oid
    BY <2>1, <2>2, <1>t
  <2> QED
    BY <2>6, <2>7, <2>8, <2>9, <2>10, <2>11, <1>t DEF PointsStep
<1>3. CASE PointsAt(i, o) = {} /\ UNCHANGED points
  BY <1>3, <1>t, <1>d DEF PointsStep, PointsAt
<1> QED
  BY <1>1, <1>2, <1>3 DEF update_point

(* So does an update through the processor chain, unless the rule says to  *)
(* ignore the point.                                                       *)
LEMMA UpdatePipeline ==
  ASSUME TableTypeOK, NoDuplicates, NEW i \in 1 .. MaxDevices,
         NEW o \in Oid, NEW v \in Val, NEW u \in Unit, NEW owner \in Device,
         NEW mode, mode # "Ignore",
         update_point_with_pipeline(i, o, v, u, owner, mode)
  PROVE  PointsStep(i, owner, o, u)
<1>2. CASE update_point(i, o, v, u, owner)
  BY <1>2, UpdatePoint
<1>3. CASE update_point(i, o, Process[v], u, owner)
  <2>1. Process[v] \in Val
    BY ProcessAssumption
  <2> QED BY <1>3, <2>1, UpdatePoint
<1> QED
  BY <1>2, <1>3 DEF update_point_with_pipeline

-----------------------------------------------------------------------------
(* A search by MAC finds an occupied slot whose device has that MAC.       *)
LEMMA SlotByMac ==
  ASSUME TableTypeOK, NEW m, DevicesAt(m) # {}
  PROVE  /\ Lowest(DevicesAt(m)) \in 1 .. Len(devices)
         /\ Lowest(DevicesAt(m)) \in 1 .. MaxDevices
         /\ devices[Lowest(DevicesAt(m))].mac = m
<1>1. Len(devices) \in Nat /\ Len(devices) <= MaxDevices /\ MaxDevices \in Nat
  BY SizeAssumption DEF TableTypeOK
<1>2. DevicesAt(m) \in SUBSET Nat
  BY <1>1 DEF DevicesAt
<1>3. Lowest(DevicesAt(m)) \in DevicesAt(m)
  BY <1>2, FirstIn
<1> QED
  BY <1>1, <1>3 DEF DevicesAt

(* A search by instance number finds the slot of that device.              *)
LEMMA SlotById ==
  ASSUME TableTypeOK, NEW d, find_device(d) # {}
  PROVE  /\ Lowest(find_device(d)) \in 1 .. Len(devices)
         /\ Lowest(find_device(d)) \in 1 .. MaxDevices
         /\ devices[Lowest(find_device(d))].device_id = d
<1>1. Len(devices) \in Nat /\ Len(devices) <= MaxDevices /\ MaxDevices \in Nat
  BY SizeAssumption DEF TableTypeOK
<1>2. find_device(d) \in SUBSET Nat
  BY <1>1 DEF find_device
<1>3. Lowest(find_device(d)) \in find_device(d)
  BY <1>2, FirstIn
<1> QED
  BY <1>1, <1>3 DEF find_device

(* The unit a value update carries over is a unit.                         *)
LEMMA StoredUnit ==
  ASSUME TableTypeOK, NEW i \in 1 .. MaxDevices, NEW o
  PROVE  get_point_unit(i, o) \in Unit
<1>1. CASE PointsAt(i, o) = {}
  BY <1>1 DEF get_point_unit, Unit
<1>2. CASE PointsAt(i, o) # {}
  <2>1. points[i] \in Seq(PointEntry) /\ Len(points[i]) \in Nat
    BY DEF TableTypeOK
  <2>2. PointsAt(i, o) \in SUBSET Nat
    BY <2>1 DEF PointsAt
  <2>3. Lowest(PointsAt(i, o)) \in 1 .. Len(points[i])
    BY <1>2, <2>2, FirstIn DEF PointsAt
  <2>4. points[i][Lowest(PointsAt(i, o))] \in PointEntry
    BY <2>1, <2>3
  <2> QED
    BY <1>2, <2>4 DEF get_point_unit, PointEntry
<1> QED
  BY <1>1, <1>2

(* A unit carried over is the one known of the object: that of its point,  *)
(* or 0 if there is none.                                                  *)
LEMMA CarriedUnit ==
  ASSUME IInv, NEW i \in 1 .. Len(devices), NEW o \in Oid
  PROVE  /\ get_point_unit(i, o) = ReportedUnit(devices[i].device_id, o)
         /\ (\A k \in 1 .. Len(points[i]) : points[i][k].oid # o) =>
              get_point_unit(i, o) = 0
<1>1. CASE PointsAt(i, o) = {}
  BY <1>1 DEF get_point_unit, PointsAt, IInv, UnitsInv, UnitsPending
<1>2. CASE PointsAt(i, o) # {}
  <2>1. i \in 1 .. MaxDevices
    BY SizeAssumption DEF IInv, TableTypeOK
  <2>2. PointsAt(i, o) \in SUBSET Nat
    BY <2>1 DEF PointsAt, IInv, TableTypeOK
  <2>3. Lowest(PointsAt(i, o)) \in PointsAt(i, o)
    BY <1>2, <2>2, FirstIn
  <2> QED
    BY <1>2, <2>3 DEF get_point_unit, PointsAt, IInv, UnitsInv, UnitIsReported
<1> QED
  BY <1>1, <1>2

(* A value filed under an occupied slot whose device reported it preserves *)
(* the invariant, if the unit it is filed with is the one then known.      *)
LEMMA FiledStep ==
  ASSUME IInv, NEW i \in 1 .. MaxDevices, NEW owner \in Device,
         NEW o \in Oid, NEW u \in Unit, i <= Len(devices),
         (\A d, e \in Device : FirstByte[d] = FirstByte[e] => d = e)
            => devices[i].device_id = owner,
         PointsStep(i, owner, o, u), UNCHANGED <<devices, unitOf>>,
         forgotten' \subseteq Device \X Oid,
         ReportedUnit(devices[i].device_id, o)' = u,
         (\A k \in 1 .. Len(points[i]) : points[i][k].oid # o) => u = 0,
         \A d \in Device, x \in Oid :
           d # devices[i].device_id \/ x # o => ReportedUnit(d, x)' = ReportedUnit(d, x)
  PROVE  IInv'
<1>0. TableTypeOK /\ NoDuplicates /\ FreeSlotsEmpty /\ MacKnown /\ FiledUnderSender
      /\ UnitIsReported /\ UnitsPending
  BY DEF IInv, UnitsInv
<1>t. /\ \A j \in 1 .. Len(devices) : j \in 1 .. MaxDevices /\ devices[j].device_id \in Device
      /\ i \in 1 .. Len(devices)
  <2>1. \A j \in 1 .. Len(devices) : devices[j] \in DeviceEntry
    BY <1>0 DEF TableTypeOK
  <2> QED
    BY <2>1, <1>0, SizeAssumption DEF TableTypeOK, DeviceEntry
<1>1. TableTypeOK'
  BY <1>0 DEF TableTypeOK, PointsStep
<1>2. NoDuplicates'
  BY <1>0 DEF NoDuplicates, PointsStep, TableTypeOK
<1>3. FreeSlotsEmpty'
  <2> SUFFICES ASSUME NEW j \in 1 .. MaxDevices, j > Len(devices)
               PROVE  points'[j] = <<>>
    BY DEF FreeSlotsEmpty
  <2>1. j # i
    BY <1>0, SizeAssumption DEF TableTypeOK
  <2> QED
    BY <1>0, <2>1 DEF FreeSlotsEmpty, PointsStep
<1>4. MacKnown'
  BY <1>0 DEF MacKnown
<1>5. FiledUnderSender'
  <2> SUFFICES ASSUME \A d, e \in Device : FirstByte[d] = FirstByte[e] => d = e,
                      NEW j \in 1 .. Len(devices), NEW k \in 1 .. Len(points'[j])
               PROVE  points'[j][k].owner = devices[j].device_id
    BY DEF FiledUnderSender, PointsBelongToDevice
  <2>2. \A l \in 1 .. Len(points[j]) : points[j][l].owner = devices[j].device_id
    BY <1>0 DEF FiledUnderSender, PointsBelongToDevice
  <2>3. CASE j = i
    BY <2>2, <2>3 DEF PointsStep
  <2>4. CASE j # i
    BY <1>t, <2>2, <2>4 DEF PointsStep
  <2> QED
    BY <2>3, <2>4
<1>u. \A j \in 1 .. Len(devices) : j # i => devices[j].device_id # devices[i].device_id
  BY <1>0, <1>t DEF NoDuplicates
<1>6. UnitIsReported'
  <2> SUFFICES ASSUME NEW j \in 1 .. Len(devices), NEW k \in 1 .. Len(points'[j])
               PROVE  points'[j][k].unit
                        = ReportedUnit(devices[j].device_id, points[j][k].oid)'
    BY DEF UnitIsReported
  <2>1. \A l \in 1 .. Len(points[j]) :
          /\ points[j][l].unit = ReportedUnit(devices[j].device_id, points[j][l].oid)
          /\ points[j][l].oid \in Oid
    <3>1. points[j] \in Seq(PointEntry)
      BY <1>0, <1>t DEF TableTypeOK
    <3>2. \A l \in 1 .. Len(points[j]) : points[j][l] \in PointEntry
      BY <3>1
    <3> QED
      BY <3>2, <1>0 DEF UnitIsReported, PointEntry
  <2>2. CASE j = i
    <3>1. CASE /\ points'[i][k].oid = o
               /\ points'[i][k].unit = u
      BY <2>2, <3>1 DEF ReportedUnit
    <3>2. CASE /\ k \in 1 .. Len(points[i]) /\ points'[i][k] = points[i][k]
               /\ points[i][k].oid # o
      <4>1. /\ points[i][k].unit = ReportedUnit(devices[i].device_id, points[i][k].oid)
            /\ points[i][k].oid \in Oid /\ devices[i].device_id \in Device
        BY <2>1, <2>2, <3>2, <1>t
      <4>2. PICK a \in Device, x \in Oid : a = devices[i].device_id /\ x = points[i][k].oid
        BY <4>1
      <4>3. ReportedUnit(a, x)' = ReportedUnit(a, x)
        BY <4>2, <3>2
      <4> QED
        BY <4>1, <4>2, <4>3, <2>2, <3>2 DEF ReportedUnit
    <3> QED
      BY <2>2, <3>1, <3>2 DEF PointsStep
  <2>3. CASE j # i
    <3>1. points'[j] = points[j]
      BY <1>t, <2>3 DEF PointsStep
    <3>2. PICK a \in Device, x \in Oid : a = devices[j].device_id /\ x = points[j][k].oid
      BY <2>1, <3>1, <1>t
    <3>3. ReportedUnit(a, x)' = ReportedUnit(a, x)
      BY <3>2, <2>3, <1>u
    <3> QED
      BY <2>1, <3>1, <3>2, <3>3 DEF ReportedUnit
  <2> QED
    BY <2>2, <2>3
<1>7. UnitsPending'
  <2>1. ASSUME NEW j \in 1 .. Len(devices), NEW x \in Oid,
               \A k \in 1 .. Len(points'[j]) : points'[j][k].oid # x
        PROVE  ReportedUnit(devices[j].device_id, x)' = 0
    <3>1. \A k \in 1 .. Len(points[j]) : points[j][k].oid # x
      <4>1. CASE j # i
        BY <4>1, <2>1, <1>t DEF PointsStep
      <4>2. CASE j = i
        <5> SUFFICES ASSUME NEW k \in 1 .. Len(points[i]) PROVE points[i][k].oid # x
          BY <4>2
        <5>1. Len(points'[i]) >= k /\ points'[i][k].oid = points[i][k].oid
          BY DEF PointsStep
        <5>2. k \in 1 .. Len(points'[i])
          BY <5>1, <1>1 DEF TableTypeOK
        <5> QED
          BY <5>1, <5>2, <4>2, <2>1
      <4> QED
        BY <4>1, <4>2
    <3>2. ReportedUnit(devices[j].device_id, x) = 0
      BY <3>1, <1>0 DEF UnitsPending
    <3>3. CASE j = i /\ x = o
      BY <3>1, <3>3
    <3>4. CASE j # i \/ x # o
      <4>1. PICK a \in Device : a = devices[j].device_id
        BY <1>t
      <4>2. ReportedUnit(a, x)' = ReportedUnit(a, x)
        BY <4>1, <3>4, <1>u
      <4> QED
        BY <3>2, <4>1, <4>2 DEF ReportedUnit
    <3> QED
      BY <3>3, <3>4
  <2>2. ASSUME NEW d \in Device, \A j \in 1 .. Len(devices) : devices[j].device_id # d,
               NEW x \in Oid
        PROVE  ReportedUnit(d, x)' = 0
    BY <2>2, <1>0, <1>t DEF UnitsPending
  <2> QED
    BY <2>1, <2>2 DEF UnitsPending
<1> QED
  BY <1>1, <1>2, <1>3, <1>4, <1>5, <1>6, <1>7 DEF IInv, UnitsInv

(* A step that changes only the flags of device entries, and no points,    *)
(* preserves the invariant if the units known stay.                        *)
LEMMA FlagStep ==
  ASSUME IInv, UNCHANGED points,
         devices' \in Seq(DeviceEntry), Len(devices') = Len(devices),
         \A i \in 1 .. Len(devices) : /\ devices'[i].device_id = devices[i].device_id
                                      /\ devices'[i].mac = devices[i].mac,
         unitOf' \in [Device -> [Oid -> Unit]], forgotten' \subseteq Device \X Oid,
         \A d \in Device, x \in Oid : ReportedUnit(d, x)' = ReportedUnit(d, x)
  PROVE  IInv'
<1>1. TableTypeOK'
  BY DEF IInv, TableTypeOK
<1>2. NoDuplicates'
  BY DEF IInv, NoDuplicates
<1>3. FreeSlotsEmpty'
  BY DEF IInv, FreeSlotsEmpty
<1>4. MacKnown'
  BY DEF IInv, MacKnown
<1>5. FiledUnderSender'
  BY DEF IInv, FiledUnderSender, PointsBelongToDevice
<1>t. \A j \in 1 .. Len(devices) :
        /\ j \in 1 .. MaxDevices /\ devices[j].device_id \in Device
        /\ \A l \in 1 .. Len(points[j]) : points[j][l].oid \in Oid
  <2> SUFFICES ASSUME NEW j \in 1 .. Len(devices)
               PROVE  /\ j \in 1 .. MaxDevices /\ devices[j].device_id \in Device
                      /\ \A l \in 1 .. Len(points[j]) : points[j][l].oid \in Oid
    OBVIOUS
  <2>1. j \in 1 .. MaxDevices /\ devices[j] \in DeviceEntry
    BY SizeAssumption DEF IInv, TableTypeOK
  <2>2. points[j] \in Seq(PointEntry)
    BY <2>1 DEF IInv, TableTypeOK
  <2>3. \A l \in 1 .. Len(points[j]) : points[j][l] \in PointEntry
    BY <2>2
  <2> QED
    BY <2>1, <2>3 DEF DeviceEntry, PointEntry
<1>6. UnitIsReported'
  BY <1>t DEF IInv, UnitsInv, UnitIsReported
<1>7. UnitsPending'
  BY <1>t DEF IInv, UnitsInv, UnitsPending
<1> QED
  BY <1>1, <1>2, <1>3, <1>4, <1>5, <1>6, <1>7 DEF IInv, UnitsInv

(* Histories that do not change keep the units known.                      *)
LEMMA SameUnits ==
  ASSUME UNCHANGED unitVars
  PROVE  \A d, x : ReportedUnit(d, x)' = ReportedUnit(d, x)
  BY DEF unitVars, ReportedUnit

-----------------------------------------------------------------------------
(* Registration: the three cases of upsert_device.                         *)
LEMMA RegisterStep ==
  ASSUME IInv, NEW d \in Device, handle_i_am(d)
  PROVE  IInv'
<1> DEFINE m == FirstByte[d]
           n == Len(devices)
<1>0. TableTypeOK /\ NoDuplicates /\ FreeSlotsEmpty /\ MacKnown /\ FiledUnderSender
      /\ UnitIsReported /\ UnitsPending
  BY DEF IInv, UnitsInv
<1>t. /\ devices \in Seq(DeviceEntry) /\ n \in Nat /\ n <= MaxDevices
      /\ MaxDevices \in Nat /\ MaxDevices >= 1 /\ MaxPoints \in Nat
      /\ points \in [1 .. MaxDevices -> Seq(PointEntry)]
      /\ \A i \in 1 .. n : devices[i] \in DeviceEntry
  BY <1>0, SizeAssumption DEF TableTypeOK
<1>m. m \in 0 .. 255 /\ NewDevice(d, m) \in DeviceEntry
  BY AddressAssumption DEF NewDevice, DeviceEntry
<1>n. NewDevice(d, m).device_id = d /\ NewDevice(d, m).mac = m
  BY DEF NewDevice
<1>h. /\ unitOf \in [Device -> [Oid -> Unit]] /\ forgotten \subseteq Device \X Oid
      /\ \A i \in 1 .. n : devices[i].device_id \in Device
  BY <1>0, <1>t DEF TableTypeOK, DeviceEntry
<1>u. \A e : [unitOf EXCEPT ![e] = [o \in Oid |-> 0]] \in [Device -> [Oid -> Unit]]
  BY <1>0 DEF TableTypeOK, Unit
<1>1. CASE /\ find_device(d) # {}
           /\ devices' = [devices EXCEPT ![Lowest(find_device(d))].mac = m]
           /\ UNCHANGED <<points, unitVars>>
  <2> DEFINE i0 == Lowest(find_device(d))
  <2>1. i0 \in 1 .. n /\ devices[i0].device_id = d
    BY <1>0, <1>1, SlotById
  <2>2. devices[i0].mac = m
    BY <1>0, <2>1 DEF MacKnown
  <2> HIDE DEF i0, m
  <2>3. devices[i0] \in DeviceEntry
    BY <1>t, <2>1
  <2>4. [devices[i0] EXCEPT !.mac = m] = devices[i0]
    BY <2>2, <2>3 DEF DeviceEntry
  <2>5. devices' = [devices EXCEPT ![i0] = [devices[i0] EXCEPT !.mac = m]]
    BY <1>1, <1>t DEF i0
  <2>6. devices' = devices
    BY <2>4, <2>5, <1>t, <2>1
  <2>7. unitOf' = unitOf /\ forgotten' = forgotten
    BY <1>1 DEF unitVars
  <2> QED
    BY <2>6, <2>7, <1>0, <1>1, <1>t, <1>h, SameUnits, FlagStep
<1>2. CASE /\ find_device(d) = {} /\ has_free_slot
           /\ devices' = Append(devices, NewDevice(d, m))
           /\ UNCHANGED <<points, unitVars>>
  <2> DEFINE new == NewDevice(d, m)
  <2> HIDE DEF m, new
  <2>1. /\ devices' \in Seq(DeviceEntry) /\ Len(devices') = n + 1
        /\ \A i \in 1 .. n + 1 : devices'[i] = IF i = n + 1 THEN new ELSE devices[i]
    BY <1>2, <1>t, <1>m, SMTT(30) DEF new
  <2>2. n + 1 \in 1 .. MaxDevices
    BY <1>2, <1>t DEF has_free_slot
  <2>3. \A i \in 1 .. n : devices[i].device_id # d
    BY <1>2 DEF find_device
  <2>4. new.device_id = d /\ new.mac = m
    BY <1>n DEF new
  <2>a. n + 1 \in 1 .. n + 1
    BY <1>t
  <2>b. devices'[n + 1] = new
    BY <2>1, <2>a
  <2>c. devices'[n + 1].device_id = d /\ devices'[n + 1].mac = m
    BY <2>b, <2>4
  <2>d. \A i \in 1 .. n + 1 : i # n + 1 => i \in 1 .. n /\ devices'[i] = devices[i]
    BY <2>1, <1>t
  <2>5. TableTypeOK'
    BY <2>1, <2>2, <1>0, <1>2, <1>t DEF TableTypeOK, unitVars
  <2>6. NoDuplicates'
    <3>0. \A i, j \in 1 .. n : devices[i].device_id = devices[j].device_id => i = j
      BY <1>0 DEF NoDuplicates
    <3>1. \A i, j \in 1 .. n + 1 : devices'[i].device_id = devices'[j].device_id => i = j
      <4> SUFFICES ASSUME NEW i \in 1 .. n + 1, NEW j \in 1 .. n + 1,
                          devices'[i].device_id = devices'[j].device_id
                   PROVE  i = j
        OBVIOUS
      <4>1. CASE i = n + 1 /\ j = n + 1
        BY <4>1
      <4>2. CASE i = n + 1 /\ j # n + 1
        BY <4>2, <2>c, <2>d, <2>3
      <4>3. CASE i # n + 1 /\ j = n + 1
        BY <4>3, <2>c, <2>d, <2>3
      <4>4. CASE i # n + 1 /\ j # n + 1
        BY <4>4, <2>d, <3>0
      <4> QED
        BY <4>1, <4>2, <4>3, <4>4
    <3> QED
      BY <3>1, <2>1, <1>0, <1>2 DEF NoDuplicates
  <2>7. FreeSlotsEmpty'
    BY <2>1, <1>0, <1>2, <1>t DEF FreeSlotsEmpty
  <2>8. MacKnown'
    <3>0. m = FirstByte[d]
      BY DEF m
    <3>1. \A i \in 1 .. n + 1 : devices'[i].mac = FirstByte[devices'[i].device_id]
      <4> SUFFICES ASSUME NEW i \in 1 .. n + 1
                   PROVE  devices'[i].mac = FirstByte[devices'[i].device_id]
        OBVIOUS
      <4>1. CASE i = n + 1
        BY <4>1, <2>c, <3>0
      <4>2. CASE i # n + 1
        BY <4>2, <2>d, <1>0 DEF MacKnown
      <4> QED
        BY <4>1, <4>2
    <3> QED
      BY <3>1, <2>1 DEF MacKnown
  <2>9. FiledUnderSender'
    <3>1. points[n + 1] = <<>>
      BY <1>0, <2>2, <1>t DEF FreeSlotsEmpty
    <3>2. ASSUME NEW i \in 1 .. n + 1, NEW k \in 1 .. Len(points[i]), PointsBelongToDevice
          PROVE  points[i][k].owner = devices'[i].device_id
      <4>1. i # n + 1
        BY <3>1
      <4>2. i \in 1 .. n /\ devices'[i] = devices[i]
        BY <4>1, <2>d
      <4>3. points[i][k].owner = devices[i].device_id
        BY <4>2, <3>2 DEF PointsBelongToDevice
      <4> QED
        BY <4>2, <4>3
    <3> QED
      BY <3>2, <2>1, <1>0, <1>2 DEF FiledUnderSender, PointsBelongToDevice
  <2>r. \A e, x : ReportedUnit(e, x)' = ReportedUnit(e, x)
    BY <1>2, SameUnits
  <2>e. points[n + 1] = <<>>
    BY <1>0, <2>2, <1>t DEF FreeSlotsEmpty
  <2>10. UnitIsReported'
    <3>2. ASSUME NEW i \in 1 .. n + 1, NEW k \in 1 .. Len(points[i])
          PROVE  points[i][k].unit = ReportedUnit(devices'[i].device_id, points[i][k].oid)
      <4>1. i # n + 1
        BY <2>e
      <4>2. i \in 1 .. n /\ devices'[i] = devices[i]
        BY <4>1, <2>d
      <4> QED
        BY <4>2, <1>0 DEF UnitIsReported
    <3>3. points' = points
      BY <1>2
    <3> QED
      BY <3>2, <3>3, <2>1, <2>r DEF UnitIsReported, ReportedUnit
  <2>11. UnitsPending'
    <3>1. \A x \in Oid : ReportedUnit(d, x) = 0
      BY <2>3, <1>0 DEF UnitsPending
    <3>2. ASSUME NEW i \in 1 .. n + 1, NEW x \in Oid,
                 \A k \in 1 .. Len(points[i]) : points[i][k].oid # x
          PROVE  ReportedUnit(devices'[i].device_id, x) = 0
      <4>1. CASE i = n + 1
        BY <4>1, <2>c, <3>1
      <4>2. CASE i # n + 1
        <5>1. i \in 1 .. n /\ devices'[i] = devices[i]
          BY <4>2, <2>d
        <5> QED
          BY <5>1, <3>2, <1>0 DEF UnitsPending
      <4> QED
        BY <4>1, <4>2
    <3>3. ASSUME NEW e \in Device, \A i \in 1 .. n + 1 : devices'[i].device_id # e, NEW x \in Oid
          PROVE  ReportedUnit(e, x) = 0
      <4>1. \A i \in 1 .. n : i \in 1 .. n + 1 /\ i # n + 1
        BY <1>t
      <4>2. \A i \in 1 .. n : devices[i].device_id # e
        BY <4>1, <3>3, <2>d
      <4> QED
        BY <4>2, <1>0 DEF UnitsPending
    <3>4. points' = points
      BY <1>2
    <3> QED
      BY <3>2, <3>3, <3>4, <2>1, <1>2 DEF UnitsPending, ReportedUnit, unitVars
  <2> QED
    BY <2>5, <2>6, <2>7, <2>8, <2>9, <2>10, <2>11 DEF IInv, UnitsInv
<1>3. CASE /\ find_device(d) = {} /\ ~has_free_slot
           /\ devices' = [devices EXCEPT ![1] = NewDevice(d, m)]
           /\ points' = evict
           /\ unitOf' = [unitOf EXCEPT ![devices[1].device_id] = [o \in Oid |-> 0]]
           /\ forgotten' = {f \in forgotten : f[1] # devices[1].device_id}
  <2> DEFINE new == NewDevice(d, m)
  <2> HIDE DEF m, new
  <2>0. n = MaxDevices
    BY <1>3, <1>t DEF has_free_slot
  <2>1. /\ devices' \in Seq(DeviceEntry) /\ Len(devices') = n
        /\ \A i \in 1 .. n : devices'[i] = IF i = 1 THEN new ELSE devices[i]
    BY <1>3, <1>t, <1>m, <2>0 DEF new
  <2>2. /\ points' \in [1 .. MaxDevices -> Seq(PointEntry)]
        /\ \A i \in 1 .. MaxDevices : points'[i] = IF i = 1 THEN <<>> ELSE points[i]
    BY <1>3, <1>t DEF evict
  <2>3. \A i \in 1 .. n : devices[i].device_id # d
    BY <1>3 DEF find_device
  <2>4. new.device_id = d /\ new.mac = m
    BY <1>n DEF new
  <2>5. TableTypeOK'
    <3>1. \A i \in 1 .. MaxDevices : Len(points[i]) <= MaxPoints
      BY <1>0 DEF TableTypeOK
    <3>2. \A i \in 1 .. MaxDevices : Len(points'[i]) <= MaxPoints
      BY <3>1, <2>2, <1>t
    <3>3. unitOf' \in [Device -> [Oid -> Unit]]
      BY <1>0, <1>3, <1>u DEF TableTypeOK
    <3>4. forgotten' \subseteq Device \X Oid
      BY <1>0, <1>3 DEF TableTypeOK
    <3> QED
      BY <3>2, <3>3, <3>4, <2>1, <2>2, <1>t DEF TableTypeOK
  <2>6. NoDuplicates'
    <3>1. \A i, j \in 1 .. n : devices'[i].device_id = devices'[j].device_id => i = j
      BY <2>1, <2>3, <2>4, <1>0 DEF NoDuplicates
    <3>2. \A i \in 1 .. MaxDevices : \A k, l \in 1 .. Len(points'[i]) :
            points'[i][k].oid = points'[i][l].oid => k = l
      BY <2>2, <1>0 DEF NoDuplicates
    <3> QED
      BY <3>1, <3>2, <2>1 DEF NoDuplicates
  <2>7. FreeSlotsEmpty'
    BY <2>0, <2>1, <1>t DEF FreeSlotsEmpty
  <2>8. MacKnown'
    <3>1. \A i \in 1 .. n : devices'[i].mac = FirstByte[devices'[i].device_id]
      BY <2>1, <2>4, <1>0 DEF MacKnown, m
    <3> QED
      BY <3>1, <2>1 DEF MacKnown
  <2>9. FiledUnderSender'
    <3>2. ASSUME NEW i \in 1 .. n, NEW k \in 1 .. Len(points'[i]), PointsBelongToDevice
          PROVE  points'[i][k].owner = devices'[i].device_id
      <4>1. i # 1
        BY <2>0, <2>2
      <4> QED
        BY <4>1, <2>0, <2>1, <2>2, <3>2 DEF PointsBelongToDevice
    <3> QED
      BY <3>2, <2>1, <1>0 DEF FiledUnderSender, PointsBelongToDevice
  <2> DEFINE old == devices[1].device_id
  <2>o. 1 \in 1 .. n /\ old \in Device /\ old # d
    BY <2>0, <2>3, <1>t, <1>h
  <2>r. \A e \in Device, x \in Oid :
          ReportedUnit(e, x)' = IF e = old THEN 0 ELSE ReportedUnit(e, x)
    <3> SUFFICES ASSUME NEW e \in Device, NEW x \in Oid
                 PROVE  ReportedUnit(e, x)' = IF e = old THEN 0 ELSE ReportedUnit(e, x)
      OBVIOUS
    <3> HIDE DEF old
    <3>1. unitOf' = [unitOf EXCEPT ![old] = [o \in Oid |-> 0]]
          /\ forgotten' = {f \in forgotten : f[1] # old}
      BY <1>3 DEF old
    <3>2. CASE e = old
      BY <3>1, <3>2, <1>h, <2>o DEF ReportedUnit
    <3>3. CASE e # old
      <4>1. unitOf'[e] = unitOf[e]
        BY <3>1, <3>3, <1>h
      <4>2. <<e, x>> \in forgotten' <=> <<e, x>> \in forgotten
        BY <3>1, <3>3
      <4> QED
        BY <4>1, <4>2, <3>3 DEF ReportedUnit
    <3> QED
      BY <3>2, <3>3
  <2>i. \A i \in 1 .. n : i # 1 =>
          /\ i \in 1 .. MaxDevices
          /\ devices'[i] = devices[i] /\ points'[i] = points[i]
          /\ devices[i].device_id # old
    BY <2>0, <2>1, <2>2, <2>o, <1>0 DEF NoDuplicates
  <2> HIDE DEF old
  <2>10. UnitIsReported'
    <3>1. ASSUME NEW i \in 1 .. n, NEW k \in 1 .. Len(points'[i])
          PROVE  points'[i][k].unit = ReportedUnit(devices[i].device_id, points[i][k].oid)'
      <4>1. i # 1
        BY <2>0, <2>2
      <4>2. /\ i \in 1 .. MaxDevices /\ devices[i].device_id # old
            /\ devices'[i] = devices[i] /\ points'[i] = points[i]
        BY <4>1, <2>i
      <4>3. points[i] \in Seq(PointEntry)
        BY <4>2, <1>t
      <4>4. points[i][k] \in PointEntry
        BY <4>2, <4>3
      <4>5. points[i][k].oid \in Oid
        BY <4>4 DEF PointEntry
      <4>6. points[i][k].unit = ReportedUnit(devices[i].device_id, points[i][k].oid)
        BY <4>2, <1>0 DEF UnitIsReported
      <4>7. PICK a \in Device, x \in Oid : a = devices[i].device_id /\ x = points[i][k].oid
        BY <4>5, <1>h
      <4>8. ReportedUnit(a, x)' = ReportedUnit(a, x)
        BY <4>2, <4>7, <2>r
      <4> QED
        BY <4>2, <4>6, <4>7, <4>8 DEF ReportedUnit
    <3> QED
      BY <3>1, <2>1 DEF UnitIsReported
  <2>11. UnitsPending'
    <3>1. \A x \in Oid : ReportedUnit(d, x) = 0
      BY <2>3, <1>0 DEF UnitsPending
    <3>2. ASSUME NEW i \in 1 .. n, NEW x \in Oid,
                 \A k \in 1 .. Len(points'[i]) : points'[i][k].oid # x
          PROVE  ReportedUnit(devices[i].device_id, x)' = 0
      <4>1. CASE i = 1
        <5>1. devices'[1].device_id = d
          BY <2>1, <2>4, <2>o
        <5>2. ReportedUnit(d, x)' = 0
          BY <2>o, <2>r, <3>1
        <5> QED
          BY <4>1, <5>1, <5>2 DEF ReportedUnit
      <4>2. CASE i # 1
        <5>1. devices'[i] = devices[i] /\ points'[i] = points[i] /\ devices[i].device_id # old
          BY <4>2, <2>i
        <5>2. ReportedUnit(devices[i].device_id, x) = 0
          BY <5>1, <3>2, <1>0 DEF UnitsPending
        <5>3. PICK a \in Device : a = devices[i].device_id
          BY <1>h
        <5>4. ReportedUnit(a, x)' = ReportedUnit(a, x)
          BY <5>1, <5>3, <2>r
        <5> QED
          BY <5>1, <5>2, <5>3, <5>4 DEF ReportedUnit
      <4> QED
        BY <4>1, <4>2
    <3>3. ASSUME NEW e \in Device, \A i \in 1 .. n : devices'[i].device_id # e, NEW x \in Oid
          PROVE  ReportedUnit(e, x)' = 0
      <4>1. CASE e = old
        BY <4>1, <2>r
      <4>2. CASE e # old
        <5>1. \A i \in 1 .. n : devices[i].device_id # e
          BY <4>2, <3>3, <2>i DEF old
        <5>2. ReportedUnit(e, x) = 0
          BY <5>1, <1>0 DEF UnitsPending
        <5> QED
          BY <5>2, <2>r
      <4> QED
        BY <4>1, <4>2
    <3> QED
      BY <3>2, <3>3, <2>1 DEF UnitsPending
  <2> QED
    BY <2>5, <2>6, <2>7, <2>8, <2>9, <2>10, <2>11 DEF IInv, UnitsInv
<1> QED
  BY <1>1, <1>2, <1>3 DEF handle_i_am, upsert_device

-----------------------------------------------------------------------------
(* IInv is inductive: it holds initially and every action preserves it.    *)
LEMMA InitIInv == TableInit => IInv
<1> SUFFICES ASSUME TableInit PROVE IInv
  OBVIOUS
<1>1. TableTypeOK
  BY SizeAssumption DEF TableInit, TableTypeOK, Unit
<1>2. NoDuplicates /\ FreeSlotsEmpty /\ MacKnown /\ FiledUnderSender
      /\ UnitIsReported
  BY DEF TableInit, UnitIsReported, NoDuplicates, FreeSlotsEmpty, MacKnown, FiledUnderSender,
         PointsBelongToDevice
<1>3. UnitsPending
  BY DEF TableInit, UnitsPending, ReportedUnit
<1> QED
  BY <1>1, <1>2, <1>3 DEF IInv, UnitsInv

(* Each action of the router and of the refresh handler preserves IInv.    *)
LEMMA NextIInv == IInv /\ [TableNext]_stateVars => IInv'
<1> SUFFICES ASSUME IInv, [TableNext]_stateVars PROVE IInv'
  OBVIOUS
<1>0. TableTypeOK /\ NoDuplicates /\ MacKnown
  BY DEF IInv
<1>t. /\ devices \in Seq(DeviceEntry) /\ Len(devices) \in Nat
      /\ unitOf \in [Device -> [Oid -> Unit]] /\ forgotten \subseteq Device \X Oid
      /\ \A i \in 1 .. Len(devices) : devices[i] \in DeviceEntry
  BY <1>0 DEF TableTypeOK
<1>s. ASSUME UNCHANGED stateVars PROVE IInv'
  <2>1. UNCHANGED <<devices, points, unitOf, forgotten, unitVars>>
    BY <1>s DEF stateVars, unitVars
  <2> QED
    BY <2>1, <1>t, SameUnits, FlagStep
<1>1. ASSUME NEW d \in Device, handle_i_am(d) PROVE IInv'
  BY <1>1, RegisterStep
<1>2. ASSUME NEW d \in Device, NEW o \in Oid, NEW v \in Val, NEW mode \in Mode,
             PresentValueAck(d, o, v, mode)
      PROVE  IInv'
  <2>1. PICK i \in 1 .. Len(devices) :
          /\ i \in 1 .. MaxDevices /\ devices[i].mac = FirstByte[d]
          /\ update_point_with_pipeline(i, o, v, get_point_unit(i, o), d, mode)
    BY <1>0, <1>2, SlotByMac DEF PresentValueAck
  <2>2. update_point_with_pipeline(i, o, v, get_point_unit(i, o), d, mode)
    BY <2>1
  <2>3. get_point_unit(i, o) \in Unit
    BY <1>0, <2>1, StoredUnit
  <2>u. UNCHANGED <<devices, unitVars, unitOf, forgotten>>
    BY <1>2 DEF PresentValueAck, unitVars
  <2>i. CASE mode = "Ignore"
    <3>1. UNCHANGED points
      BY <2>2, <2>i DEF update_point_with_pipeline
    <3> QED
      BY <3>1, <2>u, <1>s DEF stateVars
  <2>n. CASE mode # "Ignore"
    <3>1. PointsStep(i, d, o, get_point_unit(i, o))
      BY <1>0, <2>1, <2>2, <2>3, <2>n, UpdatePipeline
    <3>2. FirstByte[devices[i].device_id] = FirstByte[d] /\ devices[i].device_id \in Device
      BY <1>0, <1>t, <2>1 DEF MacKnown, DeviceEntry
    <3>3. (\A a, b \in Device : FirstByte[a] = FirstByte[b] => a = b)
             => devices[i].device_id = d
      BY <3>2
    <3>4. \A e, x : ReportedUnit(e, x)' = ReportedUnit(e, x)
      BY <2>u, SameUnits
    <3>5. ReportedUnit(devices[i].device_id, o)' = get_point_unit(i, o)
      BY <2>1, <2>u, <3>4, CarriedUnit DEF ReportedUnit
    <3>6. (\A k \in 1 .. Len(points[i]) : points[i][k].oid # o) => get_point_unit(i, o) = 0
      BY <2>1, CarriedUnit
    <3> DEFINE u == get_point_unit(i, o)
    <3> HIDE DEF u
    <3>7. PointsStep(i, d, o, u) /\ u \in Unit
      BY <3>1, <2>3 DEF u
    <3>8. ReportedUnit(devices[i].device_id, o)' = u
      BY <3>5 DEF u
    <3>9. (\A k \in 1 .. Len(points[i]) : points[i][k].oid # o) => u = 0
      BY <3>6 DEF u
    <3> QED
      BY <2>1, <2>u, <3>3, <3>4, <3>7, <3>8, <3>9, <1>t, FiledStep
  <2> QED
    BY <2>i, <2>n
<1>3. ASSUME NEW d \in Device, NEW o \in Oid, NEW u \in Unit, UnitsAck(d, o, u)
      PROVE  IInv'
  <2>1. PICK i \in 1 .. Len(devices) :
          /\ i \in 1 .. MaxDevices
          /\ update_point_unit(i, o, u)
          /\ devices' = [devices EXCEPT ![i].points_loaded = TRUE]
          /\ unitOf' = [unitOf EXCEPT ![devices[i].device_id][o] = u]
          /\ forgotten' = IF PointsAt(i, o) = {} /\ u # 0
                          THEN forgotten \cup {<<devices[i].device_id, o>>}
                          ELSE forgotten \ {<<devices[i].device_id, o>>}
    BY <1>0, <1>3, SlotByMac DEF UnitsAck
  <2>p. PICK e \in Device : e = devices[i].device_id
    BY <1>t, <2>1 DEF DeviceEntry
  <2> DEFINE k == Lowest(PointsAt(i, o))
             q == [points[i][k] EXCEPT !.unit = u]
  <2>2. /\ update_point_unit(i, o, u)
        /\ devices' = [devices EXCEPT ![i].points_loaded = TRUE]
        /\ unitOf' = [unitOf EXCEPT ![e] = [unitOf[e] EXCEPT ![o] = u]]
        /\ forgotten' = IF PointsAt(i, o) = {} /\ u # 0 THEN forgotten \cup {<<e, o>>}
                        ELSE forgotten \ {<<e, o>>}
    BY <2>1, <2>p, <1>t
  <2>3. /\ devices' \in Seq(DeviceEntry) /\ Len(devices') = Len(devices)
        /\ \A j \in 1 .. Len(devices) : /\ devices'[j].device_id = devices[j].device_id
                                        /\ devices'[j].mac = devices[j].mac
    <3>1. devices[i] \in DeviceEntry
      BY <1>t, <2>1
    <3>2. /\ [devices[i] EXCEPT !.points_loaded = TRUE] \in DeviceEntry
          /\ [devices[i] EXCEPT !.points_loaded = TRUE].device_id = devices[i].device_id
          /\ [devices[i] EXCEPT !.points_loaded = TRUE].mac = devices[i].mac
      BY <3>1 DEF DeviceEntry
    <3>3. devices' = [devices EXCEPT ![i] = [devices[i] EXCEPT !.points_loaded = TRUE]]
      BY <2>2, <1>t
    <3> QED
      BY <3>2, <3>3, <1>t, <2>1
  <2>4. /\ unitOf' \in [Device -> [Oid -> Unit]] /\ forgotten' \subseteq Device \X Oid
        /\ unitOf'[e][o] = u
        /\ \A d2 \in Device, x \in Oid : d2 # e \/ x # o => unitOf'[d2][x] = unitOf[d2][x]
    <3>1. [unitOf[e] EXCEPT ![o] = u] \in [Oid -> Unit]
      BY <1>t, <1>3
    <3> QED
      BY <3>1, <2>2, <1>t
  <2>u. /\ \A d2 \in Device, x \in Oid :
             d2 # e \/ x # o => ReportedUnit(d2, x)' = ReportedUnit(d2, x)
        /\ ReportedUnit(e, o)' = IF PointsAt(i, o) = {} THEN 0 ELSE u
    <3>1. ASSUME NEW d2 \in Device, NEW x \in Oid, d2 # e \/ x # o
          PROVE  ReportedUnit(d2, x)' = ReportedUnit(d2, x)
      <4>1. <<d2, x>> # <<e, o>>
        BY <3>1
      <4>2. <<d2, x>> \in forgotten' <=> <<d2, x>> \in forgotten
        BY <4>1, <2>2
      <4> QED
        BY <4>2, <3>1, <2>4 DEF ReportedUnit
    <3>2. ReportedUnit(e, o)' = IF PointsAt(i, o) = {} THEN 0 ELSE u
      BY <2>2, <2>4 DEF ReportedUnit
    <3> QED
      BY <3>1, <3>2
  <2>w. \A j \in 1 .. Len(devices) : j \in 1 .. MaxDevices
    BY <1>0, SizeAssumption DEF TableTypeOK
  <2>x. \A j \in 1 .. Len(devices) : \A l \in 1 .. Len(points[j]) : points[j][l].oid \in Oid
    <3> SUFFICES ASSUME NEW j \in 1 .. Len(devices), NEW l \in 1 .. Len(points[j])
                 PROVE  points[j][l].oid \in Oid
      OBVIOUS
    <3>1. points[j] \in Seq(PointEntry)
      BY <1>0, <2>w DEF TableTypeOK
    <3>2. points[j][l] \in PointEntry
      BY <3>1
    <3> QED
      BY <3>2 DEF PointEntry
  <2>5. CASE PointsAt(i, o) = {} /\ UNCHANGED points
    <3>1. ReportedUnit(e, o) = 0
      BY <2>5, <2>p DEF PointsAt, IInv, UnitsInv, UnitsPending
    <3>2. \A d2 \in Device, x \in Oid : ReportedUnit(d2, x)' = ReportedUnit(d2, x)
      BY <3>1, <2>5, <2>u
    <3> QED
      BY <2>3, <2>4, <2>5, <3>2, FlagStep
  <2>6. CASE /\ PointsAt(i, o) # {}
             /\ points' = [points EXCEPT ![i] = [@ EXCEPT ![k].unit = u]]
    <3>1. points \in [1 .. MaxDevices -> Seq(PointEntry)] /\ points[i] \in Seq(PointEntry)
          /\ Len(points[i]) \in Nat
      BY <1>0, <2>1 DEF TableTypeOK
    <3>2. k \in 1 .. Len(points[i]) /\ points[i][k].oid = o
      <4>1. PointsAt(i, o) \in SUBSET Nat
        BY <3>1 DEF PointsAt
      <4> QED
        BY <4>1, <2>6, FirstIn DEF PointsAt
    <3> HIDE DEF k
    <3>3. points[i][k] \in PointEntry
      BY <3>1, <3>2
    <3>4. /\ q \in PointEntry /\ q.oid = points[i][k].oid /\ q.unit = u
          /\ q.owner = points[i][k].owner
      BY <3>3, <1>3 DEF PointEntry
    <3>5. points' = [points EXCEPT ![i] = [points[i] EXCEPT ![k] = q]]
      BY <2>6, <3>1, <2>1
    <3> HIDE DEF q
    <3>6. /\ points' \in [1 .. MaxDevices -> Seq(PointEntry)]
          /\ \A j \in 1 .. MaxDevices : Len(points'[j]) = Len(points[j])
          /\ \A j \in 1 .. MaxDevices : \A l \in 1 .. Len(points[j]) :
               points'[j][l] = IF j = i /\ l = k THEN q ELSE points[j][l]
      BY <3>1, <3>2, <3>4, <3>5, <2>1
    <3>7. \A j \in 1 .. MaxDevices : \A l \in 1 .. Len(points[j]) :
            /\ points'[j][l].oid = points[j][l].oid
            /\ points'[j][l].owner = points[j][l].owner
      BY <3>4, <3>6
    <3>8. TableTypeOK'
      BY <3>6, <2>2, <2>3, <2>4, <1>0, <1>t DEF TableTypeOK
    <3>9. NoDuplicates'
      BY <3>6, <3>7, <2>3, <1>0 DEF NoDuplicates
    <3>10. FreeSlotsEmpty'
      <4>1. \A j \in 1 .. MaxDevices : j > Len(devices) => j # i
        BY <2>1, <1>t
      <4>2. \A j \in 1 .. MaxDevices : j # i => points'[j] = points[j]
        BY <3>5, <3>1
      <4> QED
        BY <4>1, <4>2, <2>3 DEF IInv, FreeSlotsEmpty
    <3>11. MacKnown'
      BY <2>3, <1>0 DEF MacKnown
    <3>12. FiledUnderSender'
      <4>1. \A j \in 1 .. Len(devices) : j \in 1 .. MaxDevices
        BY <1>0, SizeAssumption DEF TableTypeOK
      <4> QED
        BY <4>1, <3>6, <3>7, <2>3 DEF IInv, FiledUnderSender, PointsBelongToDevice
    <3>u. ReportedUnit(e, o)' = u
      BY <2>6, <2>u
    <3>v. \A j \in 1 .. Len(devices) :
            /\ devices'[j].device_id = devices[j].device_id /\ devices[j].device_id \in Device
            /\ j # i => devices[j].device_id # e
      BY <2>3, <2>p, <1>0, <1>t DEF NoDuplicates, DeviceEntry
    <3>13. UnitIsReported'
      <4> SUFFICES ASSUME NEW j \in 1 .. Len(devices'), NEW l \in 1 .. Len(points'[j])
                   PROVE  points'[j][l].unit
                            = ReportedUnit(devices[j].device_id, points[j][l].oid)'
        BY DEF UnitIsReported
      <4>j. /\ j \in 1 .. Len(devices) /\ j \in 1 .. MaxDevices /\ l \in 1 .. Len(points[j])
            /\ devices'[j].device_id = devices[j].device_id
            /\ points'[j][l].oid = points[j][l].oid /\ points[j][l].oid \in Oid
        BY <2>3, <2>w, <2>x, <3>6, <3>7
      <4>1. CASE j = i /\ l = k
        <5>1. points'[j][l].unit = u
          BY <4>1, <3>2, <3>4, <3>6, <2>1
        <5>2. devices'[j].device_id = e /\ points'[j][l].oid = o
          BY <4>1, <4>j, <2>p, <3>2
        <5> QED
          BY <5>1, <5>2, <3>u DEF ReportedUnit
      <4>2. CASE j # i \/ l # k
        <5>1. devices[j].device_id # e \/ points[j][l].oid # o
          BY <4>2, <4>j, <3>2, <3>v, <2>1, <1>0 DEF NoDuplicates
        <5>2. points'[j][l] = points[j][l]
          BY <4>2, <4>j, <3>6
        <5>3. points[j][l].unit = ReportedUnit(devices[j].device_id, points[j][l].oid)
          BY <4>j DEF IInv, UnitsInv, UnitIsReported
        <5> DEFINE a == devices[j].device_id
                   x == points[j][l].oid
        <5>4. PICK a1 \in Device, x1 \in Oid : a1 = a /\ x1 = x
          BY <4>j, <3>v
        <5>5. ReportedUnit(a1, x1)' = ReportedUnit(a1, x1)
          BY <5>1, <5>4, <2>u
        <5>6. devices'[j].device_id = a1 /\ points'[j][l].oid = x1
          BY <5>4, <4>j
        <5> QED
          BY <5>2, <5>3, <5>4, <5>5, <5>6 DEF ReportedUnit
      <4> QED
        BY <4>1, <4>2
    <3>14. UnitsPending'
      <4>1. ASSUME NEW j \in 1 .. Len(devices'), NEW x \in Oid,
                   \A l \in 1 .. Len(points'[j]) : points'[j][l].oid # x
            PROVE  ReportedUnit(devices[j].device_id, x)' = 0
        <5>1. j \in 1 .. Len(devices) /\ j \in 1 .. MaxDevices
          BY <2>3, <2>w
        <5>2. \A l \in 1 .. Len(points[j]) : points[j][l].oid # x
          BY <4>1, <5>1, <3>6, <3>7
        <5>3. ReportedUnit(devices[j].device_id, x) = 0
          BY <5>1, <5>2 DEF IInv, UnitsInv, UnitsPending
        <5>4. j # i \/ x # o
          BY <5>2, <3>2
        <5>5. PICK a \in Device : a = devices[j].device_id /\ a = devices'[j].device_id
          BY <5>1, <3>v
        <5>6. ReportedUnit(a, x)' = ReportedUnit(a, x)
          BY <5>1, <5>4, <5>5, <3>v, <2>u
        <5> QED
          BY <5>3, <5>5, <5>6 DEF ReportedUnit
      <4>2. ASSUME NEW a \in Device, \A j \in 1 .. Len(devices') : devices'[j].device_id # a,
                   NEW x \in Oid
            PROVE  ReportedUnit(a, x)' = 0
        <5>1. \A j \in 1 .. Len(devices) : devices[j].device_id # a
          BY <4>2, <2>3
        <5>2. ReportedUnit(a, x) = 0
          BY <5>1 DEF IInv, UnitsInv, UnitsPending
        <5> QED
          BY <5>1, <5>2, <2>u, <2>p, <2>1
      <4> QED
        BY <4>1, <4>2 DEF UnitsPending
    <3> QED
      BY <3>8, <3>9, <3>10, <3>11, <3>12, <3>13, <3>14 DEF IInv, UnitsInv
  <2> QED
    BY <2>2, <2>5, <2>6 DEF update_point_unit
<1>4. ASSUME NEW d \in Device, NEW o \in Oid, NEW v \in Val, NEW mode \in Mode,
             handle_cov_notification(d, o, v, mode)
      PROVE  IInv'
  <2>1. PICK i \in 1 .. Len(devices) :
          /\ i \in 1 .. MaxDevices /\ devices[i].device_id = d
          /\ update_point_with_pipeline(i, o, v, 0, d, mode)
    BY <1>0, <1>4, SlotById DEF handle_cov_notification
  <2>2. /\ UNCHANGED <<devices, unitOf>>
        /\ forgotten' = IF mode # "Ignore" /\ unitOf[d][o] # 0
                        THEN forgotten \cup {<<d, o>>} ELSE forgotten
    BY <1>4 DEF handle_cov_notification
  <2>3. CASE mode = "Ignore"
    <3>1. UNCHANGED <<points, unitVars>>
      BY <2>1, <2>2, <2>3 DEF update_point_with_pipeline, unitVars
    <3> QED
      BY <3>1, <2>2, <1>s DEF stateVars
  <2>4. CASE mode # "Ignore"
    <3>1. 0 \in Unit
      BY DEF Unit
    <3>2. PointsStep(i, d, o, 0)
      BY <1>0, <2>1, <2>4, <3>1, UpdatePipeline
    <3>3. ReportedUnit(d, o)' = 0
      BY <2>2, <2>4 DEF ReportedUnit
    <3>4. ReportedUnit(devices[i].device_id, o)' = 0
      BY <3>3, <2>1, <2>2 DEF ReportedUnit
    <3>5. ASSUME NEW e \in Device, NEW x \in Oid, e # d \/ x # o
          PROVE  ReportedUnit(e, x)' = ReportedUnit(e, x)
      <4>1. <<e, x>> # <<d, o>>
        BY <3>5
      <4> QED
        BY <4>1, <2>2 DEF ReportedUnit
    <3>6. forgotten' \subseteq Device \X Oid
      BY <2>2, <1>t
    <3> QED
      BY <2>1, <2>2, <3>1, <3>2, <3>4, <3>5, <3>6, FiledStep
  <2> QED
    BY <2>3, <2>4
<1>5. ASSUME NEW d \in Device, refresh(d) PROVE IInv'
  <2> DEFINE i == Lowest(find_device(d))
             n == [devices[i] EXCEPT !.points_loaded = FALSE]
  <2>1. i \in 1 .. Len(devices)
    BY <1>0, <1>5, SlotById DEF refresh
  <2> HIDE DEF i
  <2>2. devices[i] \in DeviceEntry
    BY <1>t, <2>1
  <2>3. n \in DeviceEntry /\ n.device_id = devices[i].device_id /\ n.mac = devices[i].mac
    BY <2>2 DEF DeviceEntry
  <2>4. devices' = [devices EXCEPT ![i] = n] /\ UNCHANGED <<points, unitVars, unitOf, forgotten>>
    BY <1>5, <1>t DEF refresh, i, unitVars
  <2> HIDE DEF n
  <2>5. /\ devices' \in Seq(DeviceEntry) /\ Len(devices') = Len(devices)
        /\ \A j \in 1 .. Len(devices) : /\ devices'[j].device_id = devices[j].device_id
                                        /\ devices'[j].mac = devices[j].mac
    BY <2>1, <2>3, <2>4, <1>t
  <2> QED
    BY <2>4, <2>5, <1>t, SameUnits, FlagStep
<1> QED
  BY <1>s, <1>1, <1>2, <1>3, <1>4, <1>5 DEF TableNext

-----------------------------------------------------------------------------
(* The table keeps its bounds and types through every sequence of          *)
(* messages: device_count and point_counts never exceed the arrays         *)
(* (bridge.rs:165-249).                                                    *)
THEOREM TypeCorrect == TableSpec => []TableTypeOK
<1>1. IInv => TableTypeOK
  BY DEF IInv
<1> QED
  BY <1>1, InitIInv, NextIInv, PTL DEF TableSpec

(* No device and no object of a device is ever stored twice, however       *)
(* registrations, evictions, answers and notifications follow one another  *)
(* (bridge.rs:151-249).                                                    *)
THEOREM TableUnique == TableSpec => []NoDuplicates
<1>1. IInv => NoDuplicates
  BY DEF IInv
<1> QED
  BY <1>1, InitIInv, NextIInv, PTL DEF TableSpec

(* If no two devices share the first byte of their address, every value in *)
(* the table was reported by the device it is filed under                  *)
(* (bacnet_router.rs:206-261, 315-343).                                    *)
THEOREM ValuesFiledUnderSender == TableSpec => []FiledUnderSender
<1>1. IInv => FiledUnderSender
  BY DEF IInv
<1> QED
  BY <1>1, InitIInv, NextIInv, PTL DEF TableSpec

(* A unit in the table is the last one reported for that object of that    *)
(* device, except that it is 0 if the report came before the first value   *)
(* or a COV notification after it (bridge.rs:292-322,                      *)
(* bacnet_router.rs:210-258, 331-338).                                     *)
THEOREM UnitsReported == TableSpec => []UnitIsReported
<1>1. IInv => UnitIsReported
  BY DEF IInv, UnitsInv
<1> QED
  BY <1>1, InitIInv, NextIInv, PTL DEF TableSpec

-----------------------------------------------------------------------------
(* No step moves an entry of a device that stays.                          *)
LEMMA StepKeepsIndex == IInv /\ [TableNext]_stateVars => KeepsIndex
<1> SUFFICES ASSUME IInv, [TableNext]_stateVars PROVE KeepsIndex
  OBVIOUS
<1>0. TableTypeOK /\ NoDuplicates
  BY DEF IInv
<1>t. /\ points \in [1 .. MaxDevices -> Seq(PointEntry)]
      /\ \A i \in 1 .. Len(devices) : i \in 1 .. MaxDevices
      /\ \A i \in 1 .. MaxDevices : Len(points[i]) \in Nat
  BY <1>0, SizeAssumption DEF TableTypeOK
<1>1. ASSUME NEW i \in 1 .. MaxDevices, NEW owner, NEW o, NEW u, PointsStep(i, owner, o, u)
      PROVE  KeepsIndex
  BY <1>1, <1>t DEF PointsStep, KeepsIndex
<1>2. CASE UNCHANGED points
  BY <1>2, <1>t DEF KeepsIndex
<1>3. ASSUME NEW d \in Device, handle_i_am(d) PROVE KeepsIndex
  <2>1. CASE UNCHANGED points
    BY <2>1, <1>2
  <2>2. CASE /\ find_device(d) = {} /\ ~has_free_slot
             /\ devices' = [devices EXCEPT ![1] = NewDevice(d, FirstByte[d])]
             /\ points' = evict
    <3>1. \A i \in 1 .. Len(devices) : devices[i].device_id # d
      BY <2>2 DEF find_device
    <3>2. Len(devices) \in Nat /\ devices \in Seq(DeviceEntry)
      BY <1>0 DEF TableTypeOK
    <3>3. 1 \in 1 .. Len(devices) => devices'[1].device_id = d
      BY <2>2, <3>2 DEF NewDevice
    <3>4. \A i \in 1 .. MaxDevices : i # 1 => points'[i] = points[i]
      BY <2>2, <1>t DEF evict
    <3> SUFFICES ASSUME NEW i \in 1 .. Len(devices), NEW k \in 1 .. Len(points[i]),
                        devices'[i].device_id = devices[i].device_id
                 PROVE  Len(points'[i]) >= k /\ points'[i][k].oid = points[i][k].oid
      BY DEF KeepsIndex
    <3>5. i # 1
      BY <3>1, <3>3
    <3> QED
      BY <3>4, <3>5, <1>t
  <2> QED
    BY <1>3, <2>1, <2>2 DEF handle_i_am, upsert_device
<1>4. ASSUME NEW d \in Device, NEW o \in Oid, NEW v \in Val, NEW mode \in Mode,
             PresentValueAck(d, o, v, mode)
      PROVE  KeepsIndex
  <2> DEFINE i == Lowest(DevicesAt(FirstByte[d]))
  <2>1. i \in 1 .. MaxDevices
    BY <1>0, <1>4, SlotByMac DEF PresentValueAck
  <2>2. update_point_with_pipeline(i, o, v, get_point_unit(i, o), d, mode)
    BY <1>4 DEF PresentValueAck
  <2> HIDE DEF i
  <2>3. get_point_unit(i, o) \in Unit
    BY <1>0, <2>1, StoredUnit
  <2>4. mode # "Ignore" => PointsStep(i, d, o, get_point_unit(i, o))
    BY <1>0, <2>1, <2>2, <2>3, UpdatePipeline
  <2>5. mode = "Ignore" => UNCHANGED points
    BY <2>2 DEF update_point_with_pipeline
  <2> QED
    BY <1>1, <1>2, <2>1, <2>4, <2>5
<1>5. ASSUME NEW d \in Device, NEW o \in Oid, NEW v \in Val, NEW mode \in Mode,
             handle_cov_notification(d, o, v, mode)
      PROVE  KeepsIndex
  <2> DEFINE i == Lowest(find_device(d))
  <2>1. i \in 1 .. MaxDevices
    BY <1>0, <1>5, SlotById DEF handle_cov_notification
  <2>2. update_point_with_pipeline(i, o, v, 0, d, mode)
    BY <1>5 DEF handle_cov_notification
  <2> HIDE DEF i
  <2>3. 0 \in Unit
    BY DEF Unit
  <2>4. mode # "Ignore" => PointsStep(i, d, o, 0)
    BY <1>0, <2>1, <2>2, <2>3, UpdatePipeline
  <2>5. mode = "Ignore" => UNCHANGED points
    BY <2>2 DEF update_point_with_pipeline
  <2> QED
    BY <1>1, <1>2, <2>1, <2>4, <2>5
<1>6. ASSUME NEW d \in Device, NEW o \in Oid, NEW u \in Unit, UnitsAck(d, o, u)
      PROVE  KeepsIndex
  <2> DEFINE i == Lowest(DevicesAt(FirstByte[d]))
             k == Lowest(PointsAt(i, o))
             q == [points[i][k] EXCEPT !.unit = u]
  <2>1. i \in 1 .. MaxDevices
    BY <1>0, <1>6, SlotByMac DEF UnitsAck
  <2>2. update_point_unit(i, o, u)
    BY <1>6 DEF UnitsAck
  <2> HIDE DEF i
  <2>3. CASE /\ PointsAt(i, o) # {}
             /\ points' = [points EXCEPT ![i] = [@ EXCEPT ![k].unit = u]]
    <3>1. points[i] \in Seq(PointEntry) /\ Len(points[i]) \in Nat
      BY <1>t, <2>1
    <3>2. k \in 1 .. Len(points[i])
      <4>1. PointsAt(i, o) \in SUBSET Nat
        BY <3>1 DEF PointsAt
      <4> QED
        BY <4>1, <2>3, FirstIn DEF PointsAt
    <3> HIDE DEF k
    <3>3. points[i][k] \in PointEntry
      BY <3>1, <3>2
    <3>4. q.oid = points[i][k].oid
      BY <3>3 DEF PointEntry
    <3>5. points' = [points EXCEPT ![i] = [points[i] EXCEPT ![k] = q]]
      BY <2>3, <1>t, <2>1
    <3> HIDE DEF q
    <3>6. \A j \in 1 .. MaxDevices : \A l \in 1 .. Len(points[j]) :
            /\ Len(points'[j]) = Len(points[j])
            /\ points'[j][l] = IF j = i /\ l = k THEN q ELSE points[j][l]
      BY <3>1, <3>2, <3>5, <1>t, <2>1
    <3> QED
      BY <3>4, <3>6, <1>t DEF KeepsIndex
  <2> QED
    BY <1>2, <2>2, <2>3 DEF update_point_unit
<1>7. ASSUME NEW d \in Device, refresh(d) PROVE KeepsIndex
  BY <1>2, <1>7 DEF refresh
<1>8. CASE UNCHANGED stateVars
  BY <1>2, <1>8 DEF stateVars
<1> QED
  BY <1>3, <1>4, <1>5, <1>6, <1>7, <1>8 DEF TableNext

(* While a device stays registered its points keep their indices, which    *)
(* the SSE and MQTT scans use across a released lock (bridge.rs:212-249,   *)
(* http.rs:408-437).                                                       *)
THEOREM IndicesKept == TableSpec => PointsKeepIndex
<1> QED
  BY InitIInv, NextIInv, StepKeepsIndex, PTL DEF TableSpec, PointsKeepIndex

-----------------------------------------------------------------------------
(* PointFeed. *)
FirstBytesDiffer == \A d, e \in Device : FirstByte[d] = FirstByte[e] => d = e

(* A scan goes no further than the devices there are. *)
ScanInTable ==
  \A s \in Subscriber : scan[s].devs <= Len(devices) /\ scan[s].dev <= scan[s].devs

(* Unless a device was evicted meanwhile, the id a scan has read is still  *)
(* that of the slot it is in.                                              *)
IdStillRight ==
  \A s \in Subscriber :
    scan[s].pc \in {"scan", "write"} /\ s \notin evicted /\ scan[s].dev # 0 =>
      scan[s].id = devices[scan[s].dev].device_id

FeedInv ==
  /\ IInv /\ FeedTypeOK /\ ScanInTable /\ IdStillRight
  /\ FirstBytesDiffer => LabelledRight

-----------------------------------------------------------------------------
LEMMA LeastIn ==
  ASSUME NEW S \in SUBSET Nat, S # {}
  PROVE  \E x \in S : \A y \in S : x <= y
<1>1. PICK x \in S : \A y \in S : ~(<<y, x>> \in OpToRel(<, Nat))
  BY WFMin, NatLessThanWellFounded, Zenon
<1>2. \A y \in S : ~(y < x)
  BY <1>1 DEF OpToRel
<1> QED
  BY <1>2

(* The next dirty point of a scan is one that is ahead of it. *)
LEMMA NextAhead ==
  ASSUME NEW s \in Subscriber, Ahead(s) # {}
  PROVE  (CHOOSE x \in Ahead(s) : \A y \in Ahead(s) : y = x \/ Before(x, y)) \in Ahead(s)
<1> DEFINE A == Ahead(s)
           I == {q[1] : q \in A}
<1>1. A \subseteq (1 .. MaxDevices) \X (1 .. MaxPoints)
  BY DEF Ahead, Place
<1> HIDE DEF A
<1>2. I \in SUBSET Nat /\ I # {}
  BY <1>1, SizeAssumption DEF A
<1>3. PICK i \in I : \A j \in I : i <= j
  BY <1>2, LeastIn
<1> DEFINE K == {q[2] : q \in {r \in A : r[1] = i}}
<1>4. K \in SUBSET Nat /\ K # {}
  BY <1>1, <1>3, SizeAssumption
<1>5. PICK k \in K : \A l \in K : k <= l
  BY <1>4, LeastIn
<1>6. PICK x \in A : x[1] = i /\ x[2] = k
  BY <1>5
<1>7. \A y \in A : y = x \/ Before(x, y)
  <2> SUFFICES ASSUME NEW y \in A, y # x PROVE Before(x, y)
    OBVIOUS
  <2>0. y[1] \in Nat /\ y[2] \in Nat /\ x[1] \in Nat /\ x[2] \in Nat
        /\ y = <<y[1], y[2]>> /\ x = <<x[1], x[2]>>
    BY <1>1, SizeAssumption
  <2>1. i <= y[1]
    BY <1>3
  <2>2. CASE y[1] = i
    <3>1. y[2] \in K
      BY <2>2
    <3>2. k <= y[2]
      BY <3>1, <1>5
    <3>3. k # y[2]
      BY <2>0, <2>2, <1>6
    <3> QED
      BY <2>0, <2>2, <3>2, <3>3, <1>6 DEF Before
  <2>3. CASE y[1] # i
    BY <2>0, <2>1, <2>3, <1>6 DEF Before
  <2> QED
    BY <2>2, <2>3
<1> QED
  BY <1>6, <1>7 DEF A

(* Clearing a dirty flag disturbs nothing that is known of the table. *)
LEMMA ClearFlag ==
  ASSUME IInv, NEW i \in 1 .. MaxDevices, NEW k \in 1 .. Len(points[i]),
         points' = [points EXCEPT ![i] = [@ EXCEPT ![k].dirty = FALSE]],
         UNCHANGED <<devices, unitVars>>
  PROVE  IInv'
<1> DEFINE p == [points[i][k] EXCEPT !.dirty = FALSE]
           t == [points[i] EXCEPT ![k] = p]
<1>0. /\ TableTypeOK /\ NoDuplicates /\ FreeSlotsEmpty /\ MacKnown /\ FiledUnderSender
      /\ UnitIsReported /\ UnitsPending
  BY DEF IInv, UnitsInv
<1>t. /\ points \in [1 .. MaxDevices -> Seq(PointEntry)]
      /\ points[i] \in Seq(PointEntry) /\ Len(points[i]) \in Nat
      /\ points[i][k] \in PointEntry
      /\ Len(devices) \in Nat /\ Len(devices) <= MaxDevices /\ MaxDevices \in Nat
  BY <1>0, SizeAssumption DEF TableTypeOK
<1>1. /\ p \in PointEntry /\ p.oid = points[i][k].oid
      /\ p.unit = points[i][k].unit /\ p.owner = points[i][k].owner
  BY <1>t DEF PointEntry
<1> HIDE DEF p
<1>2. t \in Seq(PointEntry) /\ Len(t) = Len(points[i])
  BY <1>t, <1>1
<1>3. \A l \in 1 .. Len(points[i]) :
        /\ t[l].oid = points[i][l].oid /\ t[l].unit = points[i][l].unit
        /\ t[l].owner = points[i][l].owner
  BY <1>t, <1>1
<1>4. points' = [points EXCEPT ![i] = t]
  BY <1>t DEF p
<1> HIDE DEF t
<1>5. \A j \in 1 .. MaxDevices :
        /\ Len(points'[j]) = Len(points[j])
        /\ \A l \in 1 .. Len(points[j]) :
             /\ points'[j][l].oid = points[j][l].oid
             /\ points'[j][l].unit = points[j][l].unit
             /\ points'[j][l].owner = points[j][l].owner
  BY <1>t, <1>2, <1>3, <1>4
<1>6. points' \in [1 .. MaxDevices -> Seq(PointEntry)]
  BY <1>t, <1>2, <1>4
<1>7. \A j \in 1 .. Len(devices) : j \in 1 .. MaxDevices
  BY <1>t
<1>8. TableTypeOK'
  BY <1>0, <1>5, <1>6 DEF TableTypeOK, unitVars
<1>9. NoDuplicates'
  BY <1>0, <1>5 DEF NoDuplicates
<1>10. FreeSlotsEmpty'
  <2> SUFFICES ASSUME NEW j \in 1 .. MaxDevices, j > Len(devices) PROVE points'[j] = <<>>
    BY DEF FreeSlotsEmpty
  <2>1. points[j] = <<>>
    BY <1>0 DEF FreeSlotsEmpty
  <2>2. j # i
    BY <2>1
  <2> QED
    BY <2>1, <2>2, <1>t, <1>4
<1>11. MacKnown'
  BY <1>0 DEF MacKnown
<1>12. FiledUnderSender'
  BY <1>0, <1>5, <1>7 DEF FiledUnderSender, PointsBelongToDevice
<1>13. UnitIsReported'
  BY <1>0, <1>5, <1>7 DEF UnitIsReported, ReportedUnit, unitVars
<1>14. UnitsPending'
  BY <1>0, <1>5, <1>7 DEF UnitsPending, ReportedUnit, unitVars
<1> QED
  BY <1>8, <1>9, <1>10, <1>11, <1>12, <1>13, <1>14 DEF IInv, UnitsInv

(* The router never shortens the list of devices. *)
LEMMA DevicesStay ==
  ASSUME TableTypeOK, TableNext
  PROVE  Len(devices') >= Len(devices)
<1>1. devices \in Seq(DeviceEntry) /\ Len(devices) \in Nat
  BY DEF TableTypeOK
<1>2. CASE UNCHANGED devices
  BY <1>1, <1>2
<1>3. ASSUME NEW d \in Device, handle_i_am(d)
      PROVE  Len(devices') >= Len(devices)
  <2>1. \/ \E i, e : devices' = [devices EXCEPT ![i] = e]
        \/ \E e : devices' = Append(devices, e)
    BY <1>3 DEF handle_i_am, upsert_device
  <2> QED
    BY <1>1, <2>1
<1>4. ASSUME NEW i, NEW f, devices' = [devices EXCEPT ![i].points_loaded = f]
      PROVE  Len(devices') >= Len(devices)
  BY <1>1, <1>4
<1> QED
  BY <1>2, <1>3, <1>4
  DEF TableNext, PresentValueAck, UnitsAck, handle_cov_notification, refresh

-----------------------------------------------------------------------------
(* What a step of one subscriber has to show: r is its new place.          *)
MovesTo(s, r) ==
  /\ r \in ScanState /\ scan' = [scan EXCEPT ![s] = r]
  /\ devices' = devices
  /\ evicted' = evicted \/ evicted' = evicted \ {s}
  /\ r.devs <= Len(devices) /\ r.dev <= r.devs
  /\ r.pc \in {"scan", "write"} /\ s \notin evicted' /\ r.dev # 0 =>
       r.id = devices[r.dev].device_id
  /\ FirstBytesDiffer /\ r.pc = "write" /\ s \notin evicted' =>
       r.event.id = r.event.owner

LEMMA OneScan ==
  ASSUME FeedInv, IInv', NEW s \in Subscriber, NEW r, MovesTo(s, r)
  PROVE  FeedInv'
<1>0. /\ FeedTypeOK /\ ScanInTable /\ IdStillRight
      /\ FirstBytesDiffer => LabelledRight
  BY DEF FeedInv
<1>1. scan \in [Subscriber -> ScanState] /\ evicted \subseteq Subscriber
  BY <1>0 DEF FeedTypeOK
<1>2. /\ scan' \in [Subscriber -> ScanState] /\ scan'[s] = r
      /\ \A x \in Subscriber : x # s => scan'[x] = scan[x]
      /\ evicted' \subseteq Subscriber /\ devices' = devices
  BY <1>1 DEF MovesTo
<1>3. \A x \in Subscriber : x # s /\ x \notin evicted' => x \notin evicted
  BY DEF MovesTo
<1>4. FeedTypeOK'
  BY <1>1, <1>2 DEF FeedTypeOK, IInv
<1>5. ScanInTable'
  BY <1>0, <1>2 DEF ScanInTable, MovesTo
<1>6. IdStillRight'
  BY <1>0, <1>2, <1>3 DEF IdStillRight, MovesTo
<1>7. FirstBytesDiffer => LabelledRight'
  BY <1>0, <1>2, <1>3 DEF LabelledRight, MovesTo
<1> QED
  BY <1>4, <1>5, <1>6, <1>7 DEF FeedInv, FirstBytesDiffer

LEMMA Places == Timer \in ScanState /\ Off \in ScanState
<1>1. <<1, 1>> \in Place
  BY SizeAssumption DEF Place
<1>2. 0 \in 0 .. MaxDevices /\ 0 \in 0 .. MaxPoints
  BY SizeAssumption
<1> QED
  BY <1>1, <1>2 DEF Timer, Off, NoEvent, ScanState

LEMMA FeedInitInv == FeedInit => FeedInv
<1> SUFFICES ASSUME FeedInit PROVE FeedInv
  OBVIOUS
<1>1. IInv /\ TableTypeOK
  BY InitIInv DEF FeedInit, IInv
<1>2. FeedTypeOK
  BY <1>1, Places DEF FeedInit, FeedTypeOK
<1>3. \A s \in Subscriber : scan[s].pc = "off" /\ scan[s].devs = 0 /\ scan[s].dev = 0
  BY DEF FeedInit, Off, Timer
<1>4. Len(devices) = 0
  BY DEF FeedInit, TableInit
<1> QED
  BY <1>1, <1>2, <1>3, <1>4
  DEF FeedInv, ScanInTable, IdStillRight, LabelledRight

(* The table: a subscriber that is scanning and is not in evicted saw no  *)
(* slot change its device.                                                 *)
LEMMA TableStep ==
  ASSUME FeedInv, Table
  PROVE  FeedInv'
<1>0. /\ IInv /\ TableTypeOK /\ FeedTypeOK /\ ScanInTable /\ IdStillRight
      /\ FirstBytesDiffer => LabelledRight
  BY DEF FeedInv, FeedTypeOK
<1>1. TableNext
  BY DEF Table
<1>2. IInv'
  BY <1>0, <1>1, NextIInv
<1>3. Len(devices') >= Len(devices) /\ Len(devices) \in Nat /\ Len(devices') \in Nat
  BY <1>0, <1>1, <1>2, DevicesStay DEF TableTypeOK, IInv
<1>4. evicted \subseteq evicted' /\ evicted' \subseteq Subscriber /\ scan' = scan
  BY <1>0 DEF Table, FeedTypeOK
<1>5. ASSUME NEW s \in Subscriber, scan[s].pc \in {"scan", "write"}, s \notin evicted'
      PROVE  \A i \in 1 .. Len(devices) : devices'[i].device_id = devices[i].device_id
  BY <1>5 DEF Table
<1>6. \A s \in Subscriber :
        /\ scan[s].devs \in Nat /\ scan[s].dev \in Nat
        /\ scan[s].devs <= Len(devices) /\ scan[s].dev <= scan[s].devs
  BY <1>0, SizeAssumption DEF FeedTypeOK, ScanState, ScanInTable
<1>7. FeedTypeOK'
  BY <1>0, <1>2, <1>4 DEF FeedTypeOK, IInv
<1>8. ScanInTable'
  BY <1>3, <1>4, <1>6 DEF ScanInTable
<1>9. IdStillRight'
  <2> SUFFICES ASSUME NEW s \in Subscriber, scan[s].pc \in {"scan", "write"},
                      s \notin evicted', scan[s].dev # 0
               PROVE  scan[s].id = devices'[scan[s].dev].device_id
    BY <1>4 DEF IdStillRight
  <2>1. scan[s].dev \in 1 .. Len(devices)
    BY <1>3, <1>6
  <2>2. scan[s].id = devices[scan[s].dev].device_id
    BY <1>0, <1>4 DEF IdStillRight
  <2> QED
    BY <2>1, <2>2, <1>5
<1>10. FirstBytesDiffer => LabelledRight'
  BY <1>0, <1>4 DEF LabelledRight
<1> QED
  BY <1>2, <1>7, <1>8, <1>9, <1>10 DEF FeedInv, FirstBytesDiffer

(* Taking a point: the id in the event is that of the slot, and so is the  *)
(* owner of the value in it.                                               *)
LEMMA TakePointInv ==
  ASSUME FeedInv, NEW s \in Subscriber, TakePoint(s)
  PROVE  FeedInv'
<1> DEFINE q == CHOOSE x \in Ahead(s) : \A y \in Ahead(s) : y = x \/ Before(x, y)
           i == q[1]
           k == q[2]
           r == [scan[s] EXCEPT !.pc = "write", !.dev = i, !.pt = k,
                                !.id = LabelFor(s, i), !.count = PointLimit(s, i),
                                !.event = [at |-> q, id |-> LabelFor(s, i),
                                           owner |-> points[i][k].owner]]
<1>0. /\ IInv /\ TableTypeOK /\ FeedTypeOK /\ ScanInTable /\ IdStillRight
      /\ FiledUnderSender
  BY DEF FeedInv, FeedTypeOK, IInv
<1>1. q \in Ahead(s)
  BY NextAhead DEF TakePoint
<1>2. /\ points' = [points EXCEPT ![i] = [@ EXCEPT ![k].dirty = FALSE]]
      /\ scan' = [scan EXCEPT ![s] = r]
      /\ devices' = devices /\ unitVars' = unitVars /\ evicted' = evicted
      /\ scan[s].pc = "scan"
  BY <1>0 DEF TakePoint, FeedTypeOK
<1> HIDE DEF q
<1>t. /\ scan[s] \in ScanState /\ Len(devices) \in Nat /\ Len(devices) <= MaxDevices
      /\ scan[s].devs \in Nat /\ scan[s].devs <= Len(devices)
      /\ MaxDevices \in Nat /\ MaxPoints \in Nat
  BY <1>0, SizeAssumption DEF FeedTypeOK, TableTypeOK, ScanInTable, ScanState
<1>3. /\ q \in Place /\ i \in 1 .. MaxDevices /\ k \in 1 .. MaxPoints
      /\ i <= scan[s].devs /\ k <= Len(points[i])
  BY <1>1 DEF Ahead, Place
<1> DEFINE id == LabelFor(s, i)
           c == PointLimit(s, i)
           own == points[i][k].owner
           e == [at |-> q, id |-> id, owner |-> own]
<1> HIDE DEF i, k
<1>4. i \in 1 .. Len(devices) /\ k \in 1 .. Len(points[i])
  BY <1>3, <1>t
<1>5. IInv'
  BY <1>0, <1>2, <1>3, <1>4, ClearFlag DEF r
<1>6. devices[i].device_id \in Device
  <2>1. devices[i] \in DeviceEntry
    BY <1>0, <1>4 DEF TableTypeOK
  <2> QED
    BY <2>1 DEF DeviceEntry
<1>p. points[i] \in Seq(PointEntry) /\ Len(points[i]) \in 0 .. MaxPoints
  <2>1. points[i] \in Seq(PointEntry) /\ Len(points[i]) <= MaxPoints
    BY <1>0, <1>3 DEF TableTypeOK
  <2> HIDE DEF r
  <2> QED
    BY <2>1, <1>t
<1>o. own \in Device
  <2>1. points[i][k] \in PointEntry
    BY <1>p, <1>4
  <2> QED
    BY <2>1 DEF PointEntry
<1>7. /\ id \in Device \cup {BridgeDevice}
      /\ s \notin evicted => id = devices[i].device_id
  BY <1>0, <1>t, <1>2, <1>3, <1>6 DEF LabelFor, ScanState, IdStillRight
<1>8. c \in 0 .. MaxPoints
  BY <1>t, <1>p DEF PointLimit, ScanState
<1>9. FirstBytesDiffer => own = devices[i].device_id
  BY <1>0, <1>4 DEF FirstBytesDiffer, FiledUnderSender, PointsBelongToDevice
<1> HIDE DEF id, c, own
<1>e. /\ e \in [at : Place, id : Device \cup {BridgeDevice}, owner : Device \cup {BridgeDevice}]
      /\ e.id = id /\ e.owner = own
  BY <1>3, <1>7, <1>o
<1>f. r = [scan[s] EXCEPT !.pc = "write", !.dev = i, !.pt = k,
                          !.id = id, !.count = c, !.event = e]
  BY DEF id, c, own, i, k
<1> HIDE DEF e, r
<1>g. i \in 0 .. MaxDevices /\ k \in 0 .. MaxPoints
  BY <1>3
<1>10. /\ r \in ScanState /\ r.devs = scan[s].devs /\ r.dev = i
       /\ r.id = id /\ r.event = e
  BY <1>t, <1>g, <1>7, <1>8, <1>e, <1>f DEF ScanState
<1>11. MovesTo(s, r)
  BY <1>2, <1>3, <1>t, <1>7, <1>9, <1>10, <1>e DEF MovesTo
<1> QED
  BY <1>5, <1>11, OneScan

LEMMA FeedNextInv == FeedInv /\ [FeedNext]_vars => FeedInv'
<1> SUFFICES ASSUME FeedInv, [FeedNext]_vars PROVE FeedInv'
  OBVIOUS
<1>0. /\ IInv /\ FeedTypeOK /\ ScanInTable /\ IdStillRight
      /\ FirstBytesDiffer => LabelledRight
  BY DEF FeedInv
<1>1. CASE Table
  BY <1>1, TableStep
<1>2. ASSUME NEW s \in Subscriber, UNCHANGED stateVars,
             scan' = [scan EXCEPT ![s] = Timer] \/ scan' = [scan EXCEPT ![s] = Off],
             evicted' = evicted \/ evicted' = evicted \ {s}
      PROVE  FeedInv'
  <2>1. IInv' /\ devices' = devices /\ Len(devices) >= 0
    BY <1>0, <1>2, NextIInv DEF stateVars, IInv, TableTypeOK
  <2>2. /\ Timer.devs = 0 /\ Timer.dev = 0 /\ Timer.pc = "timer"
        /\ Off.devs = 0 /\ Off.dev = 0 /\ Off.pc = "off"
    BY DEF Timer, Off
  <2>3. MovesTo(s, Timer) \/ MovesTo(s, Off)
    BY <2>1, <2>2, <1>2, Places DEF MovesTo
  <2> QED
    BY <2>1, <2>3, OneScan
<1>3. ASSUME NEW s \in Subscriber, Connect(s) \/ End(s) \/ WriteFails(s)
      PROVE  FeedInv'
  BY <1>2, <1>3 DEF Connect, End, WriteFails, stateVars
<1>4. ASSUME NEW s \in Subscriber, Begin(s)
      PROVE  FeedInv'
  <2> DEFINE r == [Timer EXCEPT !.pc = "scan", !.devs = Len(devices)]
  <2>1. /\ IInv' /\ devices' = devices /\ Len(devices) \in 0 .. MaxDevices
    BY <1>0, <1>4, NextIInv, SizeAssumption DEF stateVars, IInv, TableTypeOK, Begin
  <2>2. r \in ScanState /\ r.devs = Len(devices) /\ r.dev = 0 /\ r.pc = "scan"
    BY <2>1, Places DEF Timer, ScanState
  <2>3. scan' = [scan EXCEPT ![s] = r] /\ evicted' = evicted \ {s}
    BY <1>4 DEF Begin
  <2> HIDE DEF r
  <2>4. MovesTo(s, r)
    BY <2>1, <2>2, <2>3 DEF MovesTo
  <2> QED
    BY <2>1, <2>4, OneScan
<1>5. ASSUME NEW s \in Subscriber, Written(s)
      PROVE  FeedInv'
  <2> DEFINE r == [scan[s] EXCEPT !.pc = "scan", !.event = NoEvent]
  <2>1. IInv' /\ devices' = devices /\ evicted' = evicted
    BY <1>0, <1>5, NextIInv DEF stateVars, Written
  <2>2. scan[s] \in ScanState /\ NoEvent \in [at : Place, id : Device \cup {BridgeDevice},
                                              owner : Device \cup {BridgeDevice}]
    BY <1>0, Places DEF FeedTypeOK, ScanState, Timer
  <2>3. r \in ScanState /\ r.devs = scan[s].devs /\ r.dev = scan[s].dev
        /\ r.id = scan[s].id /\ r.pc = "scan"
    BY <2>2 DEF ScanState
  <2>4. scan' = [scan EXCEPT ![s] = r]
    BY <1>0, <1>5 DEF Written, FeedTypeOK
  <2>5. /\ r.devs <= Len(devices) /\ r.dev <= r.devs
        /\ s \notin evicted /\ r.dev # 0 => r.id = devices[r.dev].device_id
    BY <2>3, <1>0, <1>5 DEF ScanInTable, IdStillRight, Written
  <2> HIDE DEF r
  <2>6. MovesTo(s, r)
    BY <2>1, <2>3, <2>4, <2>5 DEF MovesTo
  <2> QED
    BY <2>1, <2>6, OneScan
<1>6. CASE UNCHANGED vars
  <2>1. IInv'
    BY <1>0, <1>6, NextIInv DEF vars
  <2>2. UNCHANGED <<devices, points, scan, evicted>>
    BY <1>6 DEF vars, stateVars, feedVars
  <2>3. FeedTypeOK' /\ ScanInTable' /\ IdStillRight' /\ (FirstBytesDiffer => LabelledRight')
    BY <1>0, <2>1, <2>2 DEF FeedTypeOK, IInv, ScanInTable, IdStillRight, LabelledRight
  <2> QED
    BY <2>1, <2>3 DEF FeedInv, FirstBytesDiffer
<1> QED
  BY <1>1, <1>3, <1>4, <1>5, <1>6, TakePointInv DEF FeedNext, Sending

(* The inductive invariant of the table with its feeds holds in every      *)
(* reachable state (http.rs:403-447, mqtt.rs:397-448).                     *)
THEOREM FeedInvariance == FeedSpec => []FeedInv
<1> QED
  BY FeedInitInv, FeedNextInv, PTL DEF FeedSpec

(* The places of the scans and the table stay well formed whatever the     *)
(* router does between two writes: a scan never looks outside the table    *)
(* (http.rs:403-447, mqtt.rs:397-448).                                     *)
THEOREM FeedTypeCorrect == FeedSpec => [](FeedTypeOK /\ ScanInTable)
<1>1. FeedInv => FeedTypeOK /\ ScanInTable
  BY DEF FeedInv
<1> QED
  BY <1>1, FeedInvariance, PTL

(* With the feeds clearing dirty flags between registrations, values,      *)
(* units and refreshes the table keeps what is shown of it above: one slot *)
(* per device, values filed under their sender, units as reported          *)
(* (bridge.rs:151-322).                                                    *)
THEOREM FeedsKeepTable ==
  FeedSpec => [](NoDuplicates /\ FiledUnderSender /\ UnitIsReported)
<1>1. FeedInv => NoDuplicates /\ FiledUnderSender /\ UnitIsReported
  BY DEF FeedInv, IInv, UnitsInv
<1> QED
  BY <1>1, FeedInvariance, PTL

(* An SSE event names the device that reported its value, unless a device  *)
(* was evicted during the scan, for any number of devices, points and      *)
(* connections whose addresses differ in the first byte (http.rs:408-432). *)
THEOREM EventsLabelled ==
  ASSUME FirstBytesDiffer
  PROVE  FeedSpec => []LabelledRight
<1>1. FeedInv => LabelledRight
  BY DEF FeedInv
<1> QED
  BY <1>1, FeedInvariance, PTL
=============================================================================
