------------------------------ MODULE PointFeed ------------------------------
(***************************************************************************)
(* How changed values leave the bridge: the SSE connections and the MQTT   *)
(* session, each scanning the table of BridgeState for dirty points.       *)
(*                                                                         *)
(*   BridgeSseSource               firmware/src/http.rs                    *)
(*   publish_dirty_points_generic  firmware/src/mqtt.rs                    *)
(*                                                                         *)
(* A scan remembers the device count it started with and, for the device   *)
(* it is at, the id and the point count it read when it got there.  It     *)
(* clears a dirty flag, gives up the lock, writes, and goes on; the router *)
(* changes the table during the write.  A step runs from one write to the  *)
(* next: a refresh, which keeps the lock while it answers, only makes the  *)
(* others wait.                                                            *)
(* Both kinds of subscriber scan alike; the MQTT topic has no device id.   *)
(***************************************************************************)
EXTENDS BridgeState, FiniteSets

CONSTANT Subscriber   \* the SSE connections and the MQTT session

VARIABLES
  scan,     \* each subscriber's place in its scan and the event it writes
  evicted   \* history: subscribers whose scan has seen an eviction

feedVars == <<scan, evicted>>
vars == <<stateVars, feedVars>>

Place == (1 .. MaxDevices) \X (1 .. MaxPoints)

NoEvent == [at |-> <<1, 1>>, id |-> BridgeDevice, owner |-> BridgeDevice]

(* pc: off (not connected), timer, scan, write *)
Timer == [pc |-> "timer", devs |-> 0, dev |-> 0, pt |-> 0, id |-> BridgeDevice,
          count |-> 0, event |-> NoEvent]
Off == [Timer EXCEPT !.pc = "off"]

FeedInit ==
  /\ TableInit
  /\ scan = [s \in Subscriber |-> Off]
  /\ evicted = {}

-----------------------------------------------------------------------------
(* The router registers a device or stores a value or a unit, a refresh    *)
(* asks for the units again (BridgeState).  That a scan has seen an        *)
(* eviction only the history variable records.                             *)
Table ==
  /\ TableNext
  /\ evicted' =
       IF \E i \in 1 .. Len(devices) : devices'[i].device_id # devices[i].device_id
       THEN evicted \cup {s \in Subscriber : scan[s].pc \in {"scan", "write"}}
       ELSE evicted
  /\ UNCHANGED scan

-----------------------------------------------------------------------------
Connect(s) ==
  /\ scan[s].pc = "off"
  /\ scan' = [scan EXCEPT ![s] = Timer]
  /\ UNCHANGED <<stateVars, evicted>>

(* The timer fires: the scan reads the device count. *)
Begin(s) ==
  /\ scan[s].pc = "timer"
  /\ scan' = [scan EXCEPT ![s] = [Timer EXCEPT !.pc = "scan", !.devs = Len(devices)]]
  /\ evicted' = evicted \ {s}
  /\ UNCHANGED stateVars

Before(q, r) == q[1] < r[1] \/ (q[1] = r[1] /\ q[2] < r[2])

(* Mutant: the last point of a device is never looked at. *)
PointLimit_short(s, i) == (IF i = scan[s].dev THEN scan[s].count ELSE Len(points[i])) - 1

(* The point count read at the device the scan is at; a later device's     *)
(* count is read when the scan gets there.                                 *)
PointLimit(s, i) == IF i = scan[s].dev THEN scan[s].count ELSE Len(points[i])

(* Mutant: with the lock regained the scan starts over. *)
Ahead_restarting(s) ==
  {q \in Place : q[1] <= scan[s].devs /\ q[2] <= Len(points[q[1]]) /\ points[q[1]][q[2]].dirty}

(* Dirty points the scan has yet to look at; an entry cleared by an        *)
(* eviction is skipped.                                                    *)
Ahead(s) ==
  {q \in Place : /\ Before(<<scan[s].dev, scan[s].pt>>, q)
                 /\ q[1] <= scan[s].devs
                 /\ q[2] <= PointLimit(s, q[1]) /\ q[2] <= Len(points[q[1]])
                 /\ points[q[1]][q[2]].dirty}

(* Mutant: the id is read once, at the first device of the scan. *)
LabelFor_first(s, i) == IF scan[s].dev # 0 THEN scan[s].id ELSE devices[i].device_id

LabelFor(s, i) == IF i = scan[s].dev THEN scan[s].id ELSE devices[i].device_id

(* The next dirty point: its flag is cleared and its value is formatted    *)
(* before the lock is given up for the write.                              *)
TakePoint(s) ==
  /\ scan[s].pc = "scan" /\ Ahead(s) # {}
  /\ LET q == CHOOSE x \in Ahead(s) : \A y \in Ahead(s) : y = x \/ Before(x, y)
         i == q[1]
     IN /\ points' = [points EXCEPT ![i] = [@ EXCEPT ![q[2]].dirty = FALSE]]
        /\ scan' = [scan EXCEPT ![s] =
             [@ EXCEPT !.pc = "write", !.dev = i, !.pt = q[2],
                       !.id = LabelFor(s, i), !.count = PointLimit(s, i),
                       !.event = [at |-> q, id |-> LabelFor(s, i),
                                  owner |-> points[i][q[2]].owner]]]
  /\ UNCHANGED <<devices, unitVars, evicted>>

(* No dirty point is left: back to the timer.  If the keepalive or ping    *)
(* cannot be written the connection ends, which is WriteFails.             *)
End(s) ==
  /\ scan[s].pc = "scan" /\ Ahead(s) = {}
  /\ scan' = [scan EXCEPT ![s] = Timer]
  /\ UNCHANGED <<stateVars, evicted>>

Written(s) ==
  /\ scan[s].pc = "write"
  /\ scan' = [scan EXCEPT ![s].pc = "scan", ![s].event = NoEvent]
  /\ UNCHANGED <<stateVars, evicted>>

(* A write fails or the peer is gone: the task leaves the scan; what it    *)
(* had taken is not put back.                                              *)
WriteFails(s) ==
  /\ scan[s].pc \in {"timer", "write"}
  /\ scan' = [scan EXCEPT ![s] = Off]
  /\ evicted' = evicted \ {s}
  /\ UNCHANGED stateVars

Sending(s) == Begin(s) \/ TakePoint(s) \/ End(s) \/ Written(s)

FeedNext ==
  \/ Table
  \/ \E s \in Subscriber : Connect(s) \/ Sending(s) \/ WriteFails(s)

(* The executor runs a subscriber's task again after every write and every *)
(* timer; no fairness is assumed of the devices or of clients connecting.  *)
FeedSpec ==
  /\ FeedInit /\ [][FeedNext]_vars
  /\ \A s \in Subscriber : WF_vars(Sending(s))

-----------------------------------------------------------------------------
ScanState ==
  [pc : {"off", "timer", "scan", "write"}, devs : 0 .. MaxDevices,
   dev : 0 .. MaxDevices, pt : 0 .. MaxPoints, id : Device \cup {BridgeDevice},
   count : 0 .. MaxPoints,
   event : [at : Place, id : Device \cup {BridgeDevice},
            owner : Device \cup {BridgeDevice}]]

FeedTypeOK ==
  /\ TableTypeOK
  /\ scan \in [Subscriber -> ScanState]
  /\ evicted \subseteq Subscriber

(* An SSE event names the device that reported the value, although the id  *)
(* was read before other writes of the same scan: it can be wrong only if  *)
(* a device was evicted during the scan (http.rs:408-432).                 *)
LabelledRight ==
  \A s \in Subscriber :
    scan[s].pc = "write" /\ s \notin evicted => scan[s].event.id = scan[s].event.owner

(* Every change is taken: if some subscriber stays connected no point      *)
(* remains dirty for ever, wherever the scans were when the value was      *)
(* stored (http.rs:403-447, mqtt.rs:397-448).                              *)
ChangesTaken ==
  \A s \in Subscriber :
    <>[](scan[s].pc # "off") =>
      \A q \in Place : []<>~(q[2] <= Len(points[q[1]]) /\ points[q[1]][q[2]].dirty)

(* A scan ends however fast values keep changing behind it, so the         *)
(* keepalive and the ping get their turn (http.rs:403-447).                *)
ScansEnd == \A s \in Subscriber : []<>(scan[s].pc \in {"timer", "off"})

=============================================================================
