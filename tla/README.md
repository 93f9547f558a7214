# micro-bacnet-bridge: TLA+ models, model checks and proofs

The firmware bridges a BACnet MS/TP bus (RS-485) and BACnet/IP on a two-core
RP2350. Core 0 runs Rust tasks on the Embassy executor (`firmware/`, with the
platform-independent logic in `bridge-core/`); Core 1 runs C (`csrc/`) and owns
the UART. This directory models the parts in which the two cores, the tasks of
Core 0, flash and power loss meet, the services Core 0 offers on the network, and
the formats they speak.

Line numbers in the modules and below refer to files under `src/`.

## 1. Inventory

| Component | State | Operations | Talks to | What is hard |
|---|---|---|---|---|
| Inter-core ring (`bridge-core/src/ipc.rs`, `csrc/ipc_c.c`) | `head`, `tail` (u32), 8 slots | `push`, `pop` in Rust and in C | both cores, shared memory | no lock; wrap at 2^32; two implementations |
| PDU path (`bacnet_ip.rs`, `bacnet_router.rs`, `core1_entry.c`, `mstp_port.c`) | two rings, task positions | drain, send, receive, router loops, Who-Is | UDP, MS/TP, ring | two consumers of each ring; handlers push what the loop pops |
| Bridge state (`bridge-core/src/bridge.rs`, router handlers) | 8 devices × 32 points | I-Am, ReadProperty ACK (value, units), COV, refresh | router, HTTP, SSE, MQTT under one mutex | full tables, eviction of slot 0, look-up by one address byte |
| Point feeds (`http.rs`, `mqtt.rs`) | place in a scan, one dirty flag per point | scan, clear, write | bridge state | lock given up for each write; several readers of one flag |
| Configuration (`firmware/src/config.rs`, `http.rs`) | `CONFIG`, `SAVE_SIGNAL`, save buffer, flash region | edit, coalesced save, load, reboot, factory reset | flash, HTTP | power loss, reset against save, reused buffer |
| Flash pause (`core1.rs`, `bacnet_bridge.h`, `core1_entry.c`) | two flags, FIFO tokens, interrupt mask | pause, acknowledge, echo, resume | both cores, flash driver | two handshakes nested, time-out, stale acknowledgement |
| Core 1 loop (`core1_entry.c`, scan in `mstp_port.c`) | UART rate, reported rate, timers, next address | scan, rescan, poll, token, wait for a reply | UART, ring | stations that appear late or at another rate; what a failed scan leaves behind |
| MS/TP reception (`mstp_port.c`) | state, header, payload received so far | one byte per step, two CRC checks, push | UART, ring | lost and damaged bytes; no silence timer; payloads that look like a preamble |
| Firmware update (`ota.rs`, `platform.rs`) | two slots, an upload's place, highest erased sector | stream, erase, write, check, reset into the other slot | flash, HTTP | concurrent uploads, early end, blocks out of order |
| Access (`http.rs`, `auth.rs`) | users, API tokens, 4 sessions | login, logout, check, expire, evict, edit, import, reset | HTTP, configuration | requests that run between a check and its change |
| MQTT session (`mqtt.rs`) | socket, polls since the last ping | resolve, connect, discovery, publish, ping, retry | broker | stalled writes against the keep-alive |
| NTP client (`ntp.rs`, `dns.rs`) | stored time, attempt, socket | resolve, ask, wait, sleep | server | late, repeated and refused answers; the era |
| SNMP agent (`snmp.rs`) | none of its own | Get, GetNext | manager, bridge state | order of the object table; lost and late datagrams |
| mDNS responder (`mdns.rs`) | none of its own | answer to PTR, SRV, TXT, A | browser, configuration | settings read twice, settings that change under a browse |
| Value pipeline (`pipeline.rs`, `bacnet.rs`, `config.rs`) | rules, convertors | forward, back, units | router, displays | the inverse of several steps; two tables for one unit |
| Codecs (`apdu.rs`, `npdu.rs`, `bvlc.rs`, `snmp.rs`, `mdns.rs`, `mqtt.rs`, `ntp.rs`, `syslog.rs`) | none | encode, decode | every network task | widths, optional fields, messages cut short |
| Mutexes (`CONFIG`, `BRIDGE_STATE`, `FLASH`, `SESSION_STORE`, `BULK_CONFIG_BUF`, `SYSLOG_TARGET`) | holder | lock, unlock, waits in between | all tasks of Core 0 | nested locks, a lock held across a network wait |
| Web frontend, tools | browser, build | - | REST API | - |

What makes the components correct: a ring hands over every accepted PDU once,
whole and in order; the path starts no loop and answers leave by the network
they are for; the table has no duplicates, files values under their device and
keeps indices stable; a change is reported, under the right label; flash holds
the last configuration or none, and a save is not overtaken; Core 1 never
executes while flash is busy, and no side waits for ever; an intact MS/TP frame is
received and a damaged one never taken for another; a talking station is found and
the token reaches every address; what one side encodes the other reads back, and a
message cut short is not taken for another; a value written back is the value that
was shown, in the unit that was shown; a walk, a browse and a time query over UDP
put together what the bridge had to say, whatever was lost or late; a session lasts
as long as it should and no longer; the device restarts only into a whole image; no
tasks wait for each other.

`PROJECT.json` lists every component, and under `hazards` each place where a
test would hardly reach what can go wrong.

## 2. Modules and the code they model

| Module | Models | State ↔ code | Actions ↔ code |
|---|---|---|---|
| `BoundedFifo` | abstract promise of a ring (`ipc.rs:121-133`) | queue, push in progress, last results | `Offer`, `Enqueue`, `Refuse`, `Dequeue`, `FindNothing` |
| `IpcRing` | one ring under its documented contract (one producer, one consumer) | `head`, `tail`, `buffer`, each side's call in progress | test of the remote index, copy of one word, store of the own index: `push` and `pop` in either language |
| `RingSharing` | the two rings with the users they really have | as above, for two rings and the two cores | each read and store of an index; Core 1 (C) reads its own index again after the test, Rust does not |
| `BridgePath` | the way of a PDU | both rings, position of the router and of `bacnet_ip_task`, last PDU on each network | Core 1 receive and transmit; drain, send, receive; the router's loops, its timer and Who-Is |
| `BridgeState` | tables and router handlers | `devices`, `points` as the occupied prefixes of the arrays | `handle_i_am`, the value and unit branches of `handle_read_property_ack`, `handle_cov_notification`, refresh |
| `PointFeed` | SSE and MQTT scans, over `BridgeState` | place in the scan, cached id and counts, event being written | begin, take, write, end, failure; between them every step of `BridgeState`, units and refresh included |
| `ConfigStore` | configuration in memory, in the save buffer, in flash | `CONFIG`, `SAVE_SIGNAL`, `CONFIG_SAVE_BUF`, pages; what is left of the save's and the reset's delays; who holds `CONFIG` or the executor | edit, reboot, factory reset, firmware staged, save step by step, a tick, a task that holds and releases `CONFIG`, power loss, boot |
| `ConfigRegister` | abstract promise of the configuration in flash (`config.rs:101-143, 246-302`) | configuration in memory, what the next boot will read | change, commit, lose, crash, restart |
| `MstpReceive` | reception of MS/TP frames | `rx_state`, `rx_header`, `rx_data`, `rx_data_len`; the bytes under way | a station sends (`mstp_send_frame`), the line loses, damages or adds a byte; one action per state of `mstp_receive_check` and outcome of its CRC |
| `Core1Loop` | Core 1's main loop | UART rate, `g_mstp_status`, expired timers, `poll_next_mac`, the bus | scan hit, miss, failure; rescan; poll; token, reply, time-out; the bus changes |
| `FlashPause` | both handshakes that stop Core 1 | the two flags, interrupt mask, FIFO tokens, check site | `pause_core1_for_flash`, guard, `core1_check_flash_pause`, driver and its handler (external) |
| `Octets` | what the codecs share | - | big-endian integers; a parser that takes a message apart from the left |
| `Apdu`, `Npdu` | `apdu.rs`, `npdu.rs`, `bvlc.rs` | - | one operator per encoder and per decoder, byte by byte |
| `Snmp`, `Mdns`, `Mqtt`, `Ntp` | the other formats, and what agent, responder and client answer or publish (`Ntp` holds the syslog line too) | - | encoders, decoders, `OID_TABLE`, `next_oid`, the answers of `mdns_task`, Home Assistant discovery |
| `Points`, `Settings` | `pipeline.rs`, units and conversion in `bacnet.rs`, defaults, `validate` and rules in `config.rs` | - | processors and their inverse, unit tables, rule look-up |
| `Exchange` | one message of any format on its way | message sent, bytes under way, message read | send; deliver whole or cut anywhere |
| `Conversion` | one value from its device to a display and back | report, rules, what is shown, what is written | display, write |
| `SnmpWalk` | the agent and a manager (external) that walks its tree | requests and answers in the network, what the manager has | ask, answer, take; the agent's values change |
| `Discovery` | the responder and a browser (external) | settings, the responder's two looks at them, what the browser has | ask, hear, respond, take; settings change |
| `TimeSync` | `ntp_task`, `sync_once`, `resolve` | phase, attempt, seconds waited, socket buffer, stored time | one action per outcome of each await |
| `MqttSession` | `mqtt_task`, `run_session`, `mqtt_session` | step, polls since the last ping, waiting for the table's lock, what the broker has seen | resolve, open, CONNECT, CONNACK, discovery, publish, ping, poll, disconnect, retry; the lock is held by others, and taken; broker goes and comes |
| `RestApi` | access to the REST API | users, tokens, sessions, uptime, each worker's request | check, then the change: login, logout, users, tokens, import, section, factory reset, reboot, save |
| `FirmwareUpdate` | `ota.rs`, slot choice, reset into the new slot | pages of flash, the slot that runs and whether it is remapped, each worker's upload | start, erase, write a sector or a UF2 block, finish, close, fail, restart |
| `Locks` | every mutex of Core 0 | program and position of each thread | take, release, wait, return early |

`PointFeed` extends `BridgeState`; `IpcRing` is shown to implement
`BoundedFifo`; `BridgePath` takes a ring call as one step because of that
result, and `RingSharing` says when this is not justified. `ConfigStore` is shown
to implement `ConfigRegister`; it takes the erase and each page as steps that `FlashPause` surrounds.

`Core1Loop` leaves frames to `MstpReceive`, PDUs to `BridgePath` and pauses to
`FlashPause`. `Exchange` extends the codecs, `Conversion` extends `Points` and
`Settings`, `SnmpWalk` and `Discovery` extend `Snmp` and `Mdns` and send their
real bytes. `MqttSession` leaves to `PointFeed` what a pass publishes, `RestApi`
leaves to `ConfigStore` how a save can fail.

The `MC*` modules give constants and put systems side by side: a behaviour is a
scene of one of them, in which the others stay as they begin, so one run checks all
of them without multiplying their states. `MCPath` has `MstpReceive` and
`BridgePath`; `MCFlash` has `ConfigStore` and `FlashPause`, and `MCCores` adds
`IpcRing` and `Core1Loop`; `MCPointFeed` has `PointFeed` and `BridgeState` by itself;
`MCServices` has ten more. `IpcRing`, `BridgePath`, `BridgeState`, `MstpReceive`,
`FlashPause` and `Core1Loop` name their `Init`, `Next` and `Spec` after themselves
(`RingInit`, `PathNext`) so that they can be put side by side.

The `*_proofs` modules hold the theorems: one for each of `IpcRing`, `BridgePath`,
`ConfigStore`, `FlashPause`, `Core1Loop` and `MstpReceive`, `PointFeed_proofs` for
`BridgeState` and, over it, `PointFeed`, and `Services_proofs` for `Locks`, `TimeSync`,
`RestApi`, `RingSharing`, `MqttSession` and `FirmwareUpdate`. A definition whose name
is that of another one followed by a suffix (`is_full_late`) is a plausible mistake in
that code; it is used only to see that a property notices it.

### Abstractions

* A PDU is a tuple of words (`IpcRing`), a serial number (`RingSharing`), or its
  origin, kind and the network its answer is for (`BridgePath`).
* A configuration is a model value with a size; its JSON is that many
  distinguishable bytes, so a mixture of two JSONs is visible. `serde_json`
  (external) accepts exactly one complete value.
* The processors of a point rule are an arbitrary function on values in
  `BridgeState`; `Points` has them over whole numbers, and factors of units as
  fractions. Rounding of `f32` is left out.
* Device and point names are left out: nothing sets them after registration.
* Tasks of Core 0 are cooperative: a step runs from one await point to the next.
* C leaves the order of the two volatile reads in `head - tail` open; `head` is
  read first, as in Rust.
* Memory order: every step of one core is visible to the other before its next
  step. The fences of `ipc.rs` and `ipc_c.c` order the copy and the index store.
* `FlashPause` takes the pause loop's test of the flag and its FIFO read as one
  step; the flag is lowered only after the last token has been returned.
* MS/TP: a CRC is ideal (different contents, different CRC; no payload byte is
  one), and the five header bytes are two, type and length. A payload that
  contains a whole frame is left out. Buffers nothing reads any more are shown
  empty. The line adds or damages a bounded number of bytes.
* Core 1: the bus has no station, one that talks by itself or one that talks only
  with the token, at one rate, and changes at any time; a station is heard only
  at its own rate. Timers are expired or not. The Who-Is every 10 s, the loopback
  test and the frame counters change nothing the loop reads.
* `ConfigStore` counts ticks of 500 ms. A save sits out its delay and then waits for
  `CONFIG`, which another task may hold while it waits itself (`HoldConfig`), or for a
  task that does not yield (`Occupy`); a reset waits for nothing but its own delay. The
  executor runs what is ready before the next tick. The 100 ms after a firmware upload
  are no tick. `slack` is a history: by how much a reset's delay was longer than what
  the save had left, less the ticks for which the save was kept waiting since.
* `FlashPause`: a save follows another by at least 500 ms, in which Core 1 leaves its
  pause loop (`Settled`). The driver's interrupt handler runs where it is called;
  whether it resides in flash, and would fault, is open (see `pause_HandlerStaysOut`).
* Codecs: a message is its fields in the order of the code, an optional field the
  empty tuple or a tuple of one value, a Real its four bytes (in MQTT its
  hundredths), a text its bytes. JSON is the record of its members, a topic the
  tuple of its parts: their lengths are kept where a buffer limits them. Integers
  stay below 2^31. `decode_bvlc` of a datagram that announces less than its own
  header has no outcome in the model.
* `Settings`: address bytes are left out.
* `TimeSync`: seconds on the server's clock, which is right and does not jump; a
  cycle's socket has a port of its own (port 0 is bound, the stack chooses).
* `MqttSession`: whole seconds; steps take no time, waits do, and so does the wait for
  `BRIDGE_STATE` before each point and each pass, which nothing in the code bounds
  (a refresh holds it while its answer is sent). The socket ends a
  connection when its peer acknowledges nothing for the timeout. The broker reads
  what it is sent; its PINGRESPs, which the client never reads, are left out.
* `RestApi`: a hash stands for what was hashed, tokens are numbered from the boot,
  an API token is known by its name. Roles are stored and never asked for, so they
  are left out. Holders of `SESSION_STORE` never wait, so a use of it is one step.
* `FirmwareUpdate`: flash in pages, two of them to a UF2 block on the wire; what a
  slot held before is only told apart as the code that runs and as data that
  cannot be written over; blocks for one place carry the same data. A block may name
  any place. The boot ROM (external) may start a slot where it is or map it to the XIP
  base; both are in the run, since the comments say the second and `ota_target_slot`
  needs the first. An empty file is refused by the web handler (`http.rs:521-528`), the
  only caller. Power loss, a plain reset and the choice of a slot after one are not
  modelled, nor what a device runs whose own slot was changed under it.
* `Locks`: a program is one pass of a handler or task. The run has two threads; the
  proof has any number.

## 3. Runs

All bounds are constants named in the modules. The four passing runs find no error.
Where deadlock is off, scenes may come to their end.

`path`, deadlock checked:

| Scene | Bounds | What it shows |
|---|---|---|
| 1 `MstpReceive` | payloads of 0 to 1 byte and one too long, bytes 0x55 and 0xFF, 8 lost bytes, 1 damaged or added | `IntactFramesArrive`: an intact frame that finds the receiver at rest is received, preambles in the payload included. `PushedAsSent`: what is pushed is the frame that was sent, unless a whole frame's worth of bytes was lost since the header it began with; losses before that header excuse nothing. `Resynchronises`: the receiver gets back in step. Eight lost bytes are one whole data frame of the largest size. |
| 2 `BridgePath` | rings of 2, 2 frames, 2 packets, 2 Who-Is | `NoEcho`: nothing returns to the network it came from. `RepliesLeaveBySource`: an answer leaves only by its requester's network. `RouterComesBack`: the router's loops, which pop what their handlers push, always end. Two of each event fill a ring and let requests and own Who-Is mix. |

`cores`, deadlock off (the last boot may end without another):

| Scene | Bounds | What it shows |
|---|---|---|
| 1 `ConfigStore` | 5 configurations of 2 to 5 bytes, one of them not valid, buffer 4, page 2, delays of 1 (save, reboot), 2 (factory reset) and 0 ticks (upload), 2 edits, 2 boots | `BootsLastOrDefault`: power loss at any point yields the configuration last written or the defaults. `ResetKeepsEdits`: a reset overtakes a save only if the save was kept waiting for as long as it had to spare. `EditsReachFlash`: every edit reaches flash, is replaced, or its save fails. `IsRegister`: the store implements `ConfigRegister`. The sizes are: one page, part of a page, whole buffer, too long. |
| 2 `FlashPause` | none (finite state) | `SpinsDuringSave`: after an acknowledgement Core 1 spins in SRAM, masked, during a save. `HaltedDuringFlash`: its program stands still whenever flash is busy, also after a time-out and for uploads. `OperationsEnd`, `Core1Returns`: no side waits for ever. |
| 3 `IpcRing` | capacity 2, indices modulo 6, two words | `NoSlotRace`: no slot is read and written at once. `CheckStaysValid`: a test of the remote index never goes stale in a harmful way. `IsFifo`: the ring implements `BoundedFifo`. `Drains`: the PDU at the tail is taken. Three laps before the wrap and a wrap that is not a power of two cover every position of the wrap in the ring. |
| 4 `Core1Loop` | 3 rates, 3 addresses, 2 changes of the bus, fixed and automatic rate | `TalkersFound`: the first station that stays and talks is found, however late and at any rate. `RateAsReported`: the reported rate is the UART's except after a failed scan with the safe rate in use. `TokenComesRound`: the token reaches every address but the own one, again and again. Three rates are the safe one, the last one and one between. |

`point_feed`, deadlock checked: 2 device slots, 2 points each, 3 devices and the
bridge itself.

| Scene | Bounds | What it shows |
|---|---|---|
| 1 `PointFeed` | two objects on the first device, one on the second, 2 subscribers | `LabelledRight`: an event has the right label, over several points of one device, unless a device was evicted during the scan. `ChangesTaken`: no point stays dirty for ever. `ScansEnd`: every scan ends. |
| 2 `BridgeState` | three objects on the first device, one on the others, 2 unit codes | `NoDuplicates`. `FiledUnderSender`: values are under the device that sent them if first address bytes differ. `UnitIsReported`: the unit is the one last reported for that object, or 0 if a comment's promise was not kept (see `feed_UnitSurvives`). `PointsKeepIndex`: no point moves. One device and one object more than fit. |

Units are not answered in scene 1, for size; `FeedsKeepTable` proves that scans leave
what scene 2 shows as it is.

`services`, deadlock off:

| Scene | Bounds | What it shows |
|---|---|---|
| 1 `Exchange` | every service and packet; values at each change of width; 0, 3, 4, 6 letters; MAC of 0 and 7 bytes; payloads at 127/128 bytes; cut at every byte | `RoundTrip`: what is encoded is read back. `CutNotMisread`: a message cut short is refused, or on MS/TP, where no length precedes it, read as the same message without its last optional fields. |
| 2 `Conversion` | up to two processors of seven in each order, a rule whose convertor is gone, older conversions, every unit | `WriteBack`: the text shown, written back, gives the device's value, of the kind the text has, unless the text stands for several values or more than the last processor would have to be undone (see `services_ProcessorsReversed`). `UnitsAgree`: label and factor, from two tables, belong together, except for the four units of `OffUnits`. |
| 3 `SnmpWalk` | six starts, two values of the name, one change, requests and answers lost, doubled, late | `WalkInOrder`: the walk visits every object behind its start in order and ends at the end. |
| 4 `Discovery` | five settings, one change at any moment, also between the two looks | `ResolvesRight`: instance, host, port, address and state are those of settings in effect during the browse. |
| 5 `TimeSync` | 2 attempts of 2 s, cycle 5 s, 10 s in all, across the end of the era | `TimeIsFresh`: a time is never older than one cycle's attempts at the moment it is stored (nothing advances it afterwards). |
| 6 `MqttSession` | keep-alive 6 s, time-out 3 s, one write per pass, the table held for up to 2 s between two packets, broker that goes and comes | `KeptAlive`: a broker that is there gets a packet in every keep-alive interval, and a session whose broker is gone ends in time; both may be late by the time spent waiting for the table, and by no more. |
| 7 `RestApi` | 2 workers, 2 places, 3 logins, expiry after 2, 1 user name | `TokensLast`: a token works until its logout, its expiry or as many later logins as there are places, and never afterwards. |
| 8 `FirmwareUpdate` | 2 uploads, in place and remapped, sectors of 2 pages, slots of 8 and 6, raw files of 3 and 7 pages, UF2 blocks in and out of order, sharing a sector, with gaps, beyond a slot, good and bad | `BootsWhole`: a restart finds every page of one upload; excused are uploads that overlapped, UF2 files that ended early, and blocks in a sector not erased. Nothing touches the running slot if it runs in place and no block lies beyond its slot. |
| 9 `Locks` | 2 threads, every handler and task | `NoCircularWait`: no circle, and no holder of the flash waits for the network. |
| 10 `RingSharing` | rings of 2, indices modulo 4, 6 operations | `SafeUnlessOverlapped`: with the real users of the rings, occupancy and order are kept as long as no two calls on one end overlap. Six operations suffice for a full ring, a wrapped index, and two calls on top. |

Eight runs have `expect: violation`: a comment in the repository says one thing,
the code does another, and TLC shows a shortest trace.

| Run | Comment | What happens |
|---|---|---|
| `path_Transparent` | `mstp_port.c:831`: Core 0 does not consume I-Am, "they are still forwarded" | the router's pop (`bacnet_router.rs:94`) removes the frame; it is not forwarded |
| `sharing_DeliveredOnceInOrder` | `bacnet_bridge.h:219`: sole producer, sole consumer, no lock required | the router pushes to `mstp_to_ip` next to Core 1 and pops `ip_to_mstp` next to Core 1; a PDU is overwritten or returned twice |
| `config_SavedConfigLoads` | `config.rs:230`: the task persists the configuration | the rest of the last page holds bytes of an older, longer JSON; the next load rejects it and takes the defaults |
| `config_FactoryResetSaves` | `http.rs:1511`: the reset waits "for the save to complete", the device comes up unprovisioned | the save waits for `CONFIG` (`config.rs:266`), held by the router, which waits for `BRIDGE_STATE`, held by a refresh whose client does not read; the 1500 ms are over first and the old settings come back. No task keeps the executor in this run |
| `pause_HandlerStaysOut` | `bacnet_bridge.h:100`: Core 1 never enters the flash-resident handler while flash is busy | an upload raises no flag, and a save whose wait timed out goes on: Core 1 is in the handler while flash is erased. `core1_entry.c:260` says this is meant and safe; the two comments cannot both be right, and the code of the handler is not in the repository |
| `feed_UnitSurvives` | `bridge.rs:288`: a unit "will be written when the point is eventually created"; `bacnet_router.rs:217`: a value does not reset it | a unit that comes before its point is dropped; a COV notification stores 0 |
| `services_ProcessorsReversed` | `pipeline.rs:10, 142`: processors are undone right-to-left | of two scales only the last is undone |
| `services_InactiveSlotOnly` | `ota.rs:8`: always the inactive slot; `ota.rs:12`: the boot ROM remaps the slot to the XIP base | the program counter is then that of slot A in either slot (`memory.x:2` links every image there), and an upload while slot B runs erases slot B |

Met while reading and not stated as runs: the router pops its own Who-Is and
PDUs that IP meant for MS/TP; PDUs from MS/TP get a second NPDU header; IP
devices are stored with an address byte although the field's comment reserves
0xFF for them; slot 0, which is evicted, need not be the oldest; nothing sets
`online`, so `poll_device_points` never sends; a flag is
cleared before a write that may fail; the reset 100 ms after a firmware upload
overtakes a pending 500 ms save, and a reboot one that waits for `CONFIG` for longer
than it had been requested before; devices of one IP network share the first byte
of their address, so an answer is filed under the first of them
(`bacnet_router.rs:215`; `FiledUnderSender` excludes the case); all subscribers
share one dirty flag, so a change reaches only the first to scan
(`http.rs:423`, `mqtt.rs:427`); a failed rescan with 19200 in use leaves the UART
at 76800 while `active_baud` says 19200 (`core1_entry.c:367`, the exception in
`RateAsReported`), and a bus with slaves only is then missed; `bus_active` is
never cleared, although `bacnet_bridge.h:84` says "within last 5s", so a station that
appears later at another rate is not searched for (`TalkersFound` is about the first); PDUs from IP are sent to the bus without MS/TP framing (a TODO at
`core1_entry.c:216`).

Formats and values: the error index of a failed GetNext is always 1; the MS/TP and
IPC counters SNMP serves are never written, and a device with id 0 is not counted;
`format_value` truncates where its comment says round, and loses the sign between
-1 and 0; a state topic holds no device, so two devices with the same object share
it; the factors of short tons, CFM, therms and ton-hours are not those of the units
shown (`OffUnits`); code 95 is Percent in the table and "no units" in a comment;
the texts 0 and 1 are written back as Booleans, where `bacnet.rs:1027-1032` puts the
number first, and a label such as ON before a scale becomes a Boolean too (the second
half of `OnlyLastUndone`); strings are cut to 64 bytes and entries of a
COV notification beyond 8 dropped; a Who-Is with one limit is encoded without; a
SubscribeCOV cut on MS/TP reads its flag as false; `serde` gives a missing baud rate
9600, `Default` gives 19200. `convert_for_ha`, `convert_from_bacnet`,
`convert_to_bacnet`, `reverse_value`, `find_point_rule`, `send_log`, the manifest
parser and `has_permission` have no caller in the firmware.

Services: nothing advances the stored Unix time between two syncs; from 2036 on no
answer is accepted; an answer to an earlier attempt of the same cycle is taken for
the current one. The MQTT client reads nothing after CONNACK, so PINGRESPs fill its
1024 bytes after about four hours; it looks at `enabled` only when it starts; a
write error during discovery does not end the session. GET of the sections ntp,
syslog, mqtt, snmp, points, ota and convertors answers fixed text; a PUT of an
unknown section is accepted; a PUT of a section is not validated, so the next boot
may reject everything that was saved; the bulk import's comment says it reboots, and
it does not. A refresh holds `BRIDGE_STATE` until its answer is sent
(`http.rs:1701`): a client that does not read blocks the router for that long. After
the last user is deleted a login answers "setup-token", which a provisioned device
does not accept. There are four web tasks where a comment counts five.

Firmware update: two uploads at once mix their files in one slot, and both are
answered as good; a UF2 file that ends early counts as complete. A UF2 address is only
held against the settings' place (`ota.rs:231`): a block may lie beyond its slot, where
it meets the running code if the slot is A, and one that falls behind the sectors
erased so far, in a sector that was not, is written over what is there. An empty file
would count as complete in `ota.rs`, but the handler refuses it before.

### Fairness

* `MstpReceive`: weak fairness of reception, since Core 1 polls the UART in every
  turn. None of the stations: `Resynchronises` assumes that they go on sending.
* `Core1Loop`: weak fairness of Core 1 and of its two timers; strong fairness of
  hearing a frame when the loop polls, because a station that talks for ever is
  heard in one of the polls at its rate. None of the bus.
* `IpcRing`: weak fairness of the consumer, which polls from an endless loop.
  None of the producer.
* `BridgePath`: weak fairness of the router, of `bacnet_ip_task` outside
  `recv_from`, and of Core 1's transmission: the executor runs every ready task
  and Core 1 loops for ever. None of the networks.
* `PointFeed`: weak fairness of each connected subscriber; none of devices and
  none of connecting.
* `ConfigStore`: time passes, and no task keeps `CONFIG` or the executor for ever
  (weak fairness of `Tick` and `Release`); strong fairness of the save task, because
  the mutex serves those who wait in turn.
* The scenes of `services` are checked for safety only, and assume none.
* `FlashPause`: weak fairness of each core and of the interrupt; strong
  fairness of `Done`, because an operation is a finite number of erasures and
  writes (the code's loops run over a fixed length).

## 4. Proofs

`IpcRing_proofs`, for every capacity `N > 0`, every span that is a multiple of
`N` with room for two laps or more (2^32 and a power of two in the code), every
PDU length and contents:

* `TypeCorrect`, `ChecksValid`, `SlotSafety`: the invariants of the run.
* `RingIsFifo`: the ring implements `BoundedFifo`.

The inductive invariant is `TypeOK /\ CheckStaysValid /\ CopiedIn /\ CopiedOut`.
`CheckStaysValid` is needed because the test and the use of an index are
different steps; `CopiedIn` (the words copied so far are those of the PDU being
pushed) and `CopiedOut` (the words read so far are those of the slot at the
tail) carry a PDU whole through the copy. Race freedom follows from
`SlotsDiffer`: positions less than `N` apart differ modulo `N`. `IncSlot` and
`SlotWraps` take the arithmetic across the wrap, which is where `N` has to
divide the span. The refinement has one lemma per step that changes the queue:
`CopyInKeepsContents`, `CommitAppends`, `CommitRemoves`.

`PointFeed_proofs`, first part: `BridgeState`, for every table size, device set,
address assignment, object set, processor function and unit set:

* `TypeCorrect`: tables stay within their capacity.
* `TableUnique`: no device has two slots, no object two entries.
* `ValuesFiledUnderSender`: values are filed under their sender if first address
  bytes differ.
* `UnitsReported`: a unit is the one last reported for that object of that device, or
  0 if that report came before the point or a notification after it.
* `IndicesKept`: no step moves a point of a device that stays registered.

The inductive invariant adds `FreeSlotsEmpty` (a slot beyond the device count
has no points: a newly registered device inherits none) and `MacKnown` (the
stored byte is the device's own: a look-up by byte finds the device that
answered), and `UnitsPending` (a unit reported for an object that has no point, or for a
device that has no slot, is dropped: a point added later has none to inherit).

`Core1Loop_proofs`, for every list of rates that begins with the safe one, every
configuration, address and MAX_POLL_MAC:

* `TypeCorrect`: scan index, rates and token address stay in their tables.
* `RateReported`: the reported rate is the UART's, but for the one exception.

The inductive invariant adds `ScanTunes` (during a scan the UART is at the rate of
the index: a hit reports a rate the UART has) and `BootScans` (before the first
result Core 1 is in a scan: only a scan's end enters the loop).

`PointFeed_proofs`, second part: any number of feeds over the same tables:

* `FeedTypeCorrect`: the place of a scan stays in the table.
* `FeedsKeepTable`: what is proved of `BridgeState`, units included, holds with feeds
  that clear flags between the router's steps.
* `EventsLabelled`: an event names the device its value came from, unless a device
  was evicted during the scan. It assumes `FirstBytesDiffer`: without it a value
  may already be filed under another device, which is no fault of the feeds.

The inductive invariant is that of `BridgeState` with `ScanInTable` (the cached
counts are at most the present ones: tables only grow or replace) and `IdStillRight`
(without an eviction the cached id is still that of the slot: this is what a feed
relies on when it gives up the lock for a write).

`BridgePath_proofs`, for every capacity of the rings and number of events:

* `TypeCorrect`, `NoForwardingLoop`, `AnswersLeaveBySource`.

The inductive invariant adds `OneWay`: wherever a PDU is, in a ring or in a task's
hands, its origin and the network its answer is for fit the ring. It is needed
because two tasks take from each ring and the router puts back into them.

`ConfigStore_proofs`, for every set of configurations and their sizes, every buffer
and page size, any number of edits and boots:

* `TypeCorrect`: no write leaves the buffer or the region.
* `NoOldConfiguration`: a boot loads the configuration last written or the defaults.
* `ResetAfterSave`: for all delays, an announced reset overtakes an acknowledged change
  only if others held `CONFIG` or the executor for as long as the save had to spare.
* `StoreIsRegister`: the store implements `ConfigRegister`.

The inductive invariant adds `FirstByte` (the first byte of flash is erased, unusable
or that of the configuration saved last, so nothing older can load), `SaveInProgress`
(the buffer holds the configuration in memory, and so do the pages written so far) and
`SaveComesFirst` (a save that is due before a reset stays ahead of it by `slack`, which
only a tick in which it is kept waiting diminishes).

`FlashPause_proofs`, which has no constants:

* `TypeCorrect`, `ProgramHalted`, `SaveFindsSpin`: the invariants of the run.
* `ProgramStill`: while flash is busy neither Core 1's program nor its interrupt takes a
  step. That Core 1 then is not in the handler is neither proved nor true, see
  `pause_HandlerStaysOut`.

The inductive invariant adds `OneToken` (one token at most is under way, and on
which side), `WhoStopped` (which of the two handshakes holds Core 1, according to
the positions of both cores), `FlagOfSave`, `MaskedInPause` and `FreshAck` (an
acknowledgement seen belongs to this pause). The model is finite and TLC visits all
of it; the proof says why it holds.

`Services_proofs`:

* `LocksHaveOrder`: no circular wait, for any number of threads. Every program is
  `Orderly`: it takes mutexes in the order of `Rank`. The programs are sequences of
  short parts, so `Orderly` is shown for the parts and for putting two together
  (`Sequenced`); in any set of waiting threads, one that waits for the highest
  mutex waits for a thread outside the set.
* `TimeFresh`: for every time-out, number of attempts and interval, while Unix time
  fits 32 bits (`MaxTime < Era`; the end of the NTP era in 2036 is included, where
  answers are refused). `RepliesRecent` says that an answer on its way to the
  present port is of this cycle; it needs `PortsOfCycles`.
* `SessionsLast`: for any number of places, web tasks, users and logins.
  `GaveWay` says that an open session without a place has as many followers as
  there are places. A login that evicts keeps it because the places then hold
  sessions younger than the evicted one, which an injection from places to
  followers counts.
* `RingTypeCorrect`, `SharingSafe`: for every capacity of which the span is a
  multiple of two laps or more, and any number of calls. `InStep` says what holds
  as long as no two calls at one end overlap: a push has the present head and room
  from its test on, a pop the present tail and a PDU, and the slots from the tail
  on hold what is queued. `CellsDiffer`, `HeadCell` and `TailCell` take the
  arithmetic across the wrap.
* `SessionKeptAlive`: for every keep-alive of at least two socket time-outs (60 s and
  30 s in the code, so there is nothing to spare), however long each write stalls, however
  many there are, and however long the table is held. `heldSinceSent` and `heldSinceLost`
  count the time spent waiting for it, and by no more is a packet or the end late.
  `PingInTime` holds because every pass without a packet counts one tick and lasts
  one second at most, and a write that stalls lasts one socket time-out at most before
  it goes out or ends the session. `GoneInTime` follows a broker that is gone through three phases: nothing
  was sent yet, what was sent waits for its acknowledgement, the socket has given up
  and the next write notices.
* `UpdateBootsWhole`: for every layout of two slots of whole sectors, every set of
  images, any number of web tasks, and blocks in any order. `Streamed` says what an
  upload that has the slot to itself has there: erased pages or its own, its own up to
  the place it has reached, and for UF2 no page above the highest sector erased.
  A sector that is erased late must not take with it pages written before: that is why
  `highest` is part of it. The files are arbitrary: a block may name any place, and
  `strayed` and `overran` record those that fall outside what was erased and outside
  the slot. `RunningSlotSpared` shows that, in place, no other step reaches the running
  slot: `SlotSectors` and `AreaFits` say that no sector belongs to both.

`MstpReceive_proofs`, for payloads of every size and content and any number of lost,
damaged and added bytes:

* `ReceiverTypeCorrect`: no buffer is outgrown.
* `FramesPushedAsSent`: what is pushed is the frame on the wire, unless since the header
  it began with as much as a whole frame of that size was lost (`gap`).
* `CleanFramesArrive`: an undamaged frame that meets a receiver at rest arrives.

The inductive invariant adds `RxFill` (how full each buffer is in each state),
`WireOfFrame` (faults only touch the next byte, so what is under way is the end of the
frame sent last, with noise), `Paid` and `Followed`. `Paid` is the argument for the
exception: a receiver that has taken a header wants as many bytes as that frame had
left; if the header is of an earlier frame, what has come and is still to come beyond
them must have been lost since, so the loss since that header is at least a frame. `Followed` gives the state
of the receiver for every number of bytes of a clean frame. An ideal CRC is assumed, as
in the model: two different sequences never have the same one.

Assumptions on constants are the named `ASSUME`s of the modules; TLC evaluates them
for every instance it checks. Each inductive invariant also holds, by
TLC, on the instance of its run.

Only model-checked: `Exchange`, `Conversion`, `SnmpWalk` and `Discovery`, and all
liveness (`Drains`, `RouterComesBack`, `ChangesTaken`, `ScansEnd`, `EditsReachFlash`,
`OperationsEnd`, `Core1Returns`, `Resynchronises`, `TalkersFound`, `TokenComesRound`).
TLAPS does not handle fairness and `ENABLED` here, nor induction over recursive data,
which the codecs, the value pipeline, the object table of SNMP and the names of mDNS
are made of; the unit tables of `Conversion` are finite and TLC goes through all of
them. Type invariants that are proved are not part of a run.

## 5. Not modelled

JSON as text, static files and the fixed answers of the REST API; TLS (settings and
handshake); hashing; rounding of floating-point numbers; the network stack, the
executor and the flash driver (external, modelled by how the code uses them);
initialisation; the identity sector of flash; the fields of a UF2 block and of a
vector table (good or bad); power loss during a firmware update; `poll_device_points`,
which finds no device online; the web frontend and the build tools.
`firmware/src/sse.rs` is not compiled: no module declares it.

## 6. Plan

What is left, in this order:

1. Liveness of the services: an NTP client whose server answers gets the time, an
   MQTT client whose broker is there has a session.
2. Power loss during an update, once it is clear what the boot ROM does with the
   second slot.

An abstract specification worth stating: mutual exclusion between flash and Core 1,
implemented by `FlashPause`.
