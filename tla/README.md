# Verification of the StandRemoteUI control software

TLA+ models, TLC runs and TLAPS proofs kept beside the code of the electric
motor test stand: a C++ server that commands the inverter over CAN and a Python
panel that talks to the server over a WebSocket. Paths below are relative to
the repository; `server/.../src` stands for `src/server/Stand_Marathon/src`.

## The system

| Component | Source | State | Operations |
|---|---|---|---|
| State machine | `server/.../src/StateMachine.cpp` | `currentState`, `isOverSpeed`, the transmit periods | `setState`, `update` and one handler per state, `periodicTx` |
| Command sender | `CommandSender.cpp` | message counters, resolver sequence | `sendControlCommand` (0x046), `sendLimitCommand` (0x047), `sendTorqueCommand` (0x300), `sendResolverCalibrationCommand` (0x301), `sendSafeDisable` |
| CAN channel | `CANInterface.cpp` | `initialized`, `transmitEnabled`, last frame | `init`, `stop`, `send`, `receive`, `setTransmitEnabled` |
| Data model | `DataModel.h` | requests of the operator, telemetry of the inverter | plain fields, read and written by everything above |
| Telemetry decoding | `MarathonLogic.cpp` | none of its own | one branch per CAN id into the data model |
| Configuration | `ConfigManager.cpp` | `Config.ini` | `load` at start, `save` in `Save_Cfg` |
| WebSocket sessions | `src/server/ws_server.cpp` | three threads per connection, `g_model_mutex`, `running` | `handleCommand`, `can_updater`, `updater`, the teardown of `do_session` |
| DBC signal cache | `DbcSignalCache.cpp` | catalog, selection, latest values | load, select, serialise; decode and pack have no reader |
| Signal logger | `SignalLogger.cpp` | an open text file | start, row, stop |
| WebSocket client | `src/client/network.py` | asyncio loop in a thread, `ws`, `_connected_evt`, queue | start, stop, reconnect, send |
| Operator panel | `src/client/controllers.py`, `state.py` | edited values, mode, catalog and selection | `send_*`, `apply_mode`, `connect_ws`, selection |
| Client telemetry | `src/client/telemetry.py` | plot buffers, recordings, resolver capture | process a message, capture, compute |
| CAN_DBC_MODULE | `.../Include/CAN_DBC_MODULE` | ring queues | linked, never initialised by the server |
| Oscilloscope driver | `YokogawaDL850E.cpp` | API reference count | compiled, used by nothing |

How they interact. The panel sends JSON commands; the reader thread of a session
hands each to `handleCommand` under `g_model_mutex`. Mode commands (`Init`,
`ResolverRx`, `Stop`, `Read2`, `SaveCfg`) call `StateMachine::setState`; request
commands (`SendControl`, `SendTorque`, `SendLimits`, `SetResolverCorrection`) are
refused while the transmit gate is closed, otherwise they store their fields in
the data model and send the frame at once. Meanwhile `can_updater` calls
`update()` every 5 ms under the same mutex: it runs the handler of the current
state, drains the receive queue, applies the speed limit and sends whatever
frames are due. `updater` serialises the model under the mutex and writes it to
the socket without it. When a session ends, its reader joins the two threads
and runs `setState(Stop)` and `update()` **without** the mutex. All sessions
share one model, channel and state machine.

What is hard about it:

* the gate is closed by `setState`, by three handlers and by the teardown, each
  of which must send the disabling frames first, because `CANInterface::send`
  silently drops everything behind a closed gate;
* a request survives in the data model until something clears it, and
  `periodicTx` keeps sending it: every way out of the transmitting state, every
  overspeed trip, every restart has to wipe it;
* several threads of several sessions share the drive, and the teardown relies
  on joins instead of the lock;
* the operator's fields, the inverter's telemetry and the file share variables
  of the data model;
* the driver may refuse a frame, the process may be killed, the file may have
  been edited, a message may be malformed half way through.

What makes the parts correct: the gate is open in `Read2` only, nothing live is
left on the bus behind a closed gate, nothing the client did not ask for is held
or sent, resolver mode is silent, the speed limit acts on the telemetry of the
same update, a broken session always leaves the drive stopped, and no two threads
drive it at once.

## The modules

`CommandGate` is the abstract specification: one gate and one abstracted bus.
Commands reach the bus only through an open gate, opening it commands nothing,
and the step that closes it leaves the inverter released. Both detailed modules
are checked against it (`ImplementsGate`), and both are proved to implement
it, `Sessions` for one connection at a time.

`StateMachine` is the control core as one session drives it. `g_model_mutex` makes
each handler and each `update()` atomic, so each is one action: `CmdInit` ...
`CmdSaveCfg` (setState), `SendControl`, `SendTorque`, `SendLimits`,
`SetResolverCorrection`, `DisableResolverCorrection`, `MalformedControl` and
`MalformedTorque` (a field of the wrong type throws after the fields before it
were stored), one `Update...` per state, `Connect`, `ReaderError`, `EndSession`
(the teardown) and `Restart` (killed and started again). Variables carry the names
of the code. Three of them are abstractions:

* `MotorCtrl` stands for the pair (`MotorCtrl`, `GearCtrl`) and `Idq` for
  (`Isd`, `Isq`), since both members are always set and cleared together;
* `wireControl`, `wireCurrent`, `wireResolver` are the last frame of 0x046, 0x300
  and 0x301 the driver accepted, that is what the inverter was last told;
  `dropped` are the ids whose latest frame never got out, because `CAN_Write`
  refused it or the process was killed first;
* `asked` is a history variable: what the client asked for since it was last
  wiped. It restricts no action.

The transmit periods are abstracted to "any set of ids may be due", which
includes every schedule. `Read_Cfg` is in the enum but nothing sets it.

`Sessions` takes the threads apart. Every access to the gate, the channel, the
state and the requests which another thread could come between is a step of
its own; each session has its reader, `can_updater` and `updater` thread, and a
slot reconnects after its session. The data is reduced to "cleared or live": `request` stands for
all the requests together, so that `handleStop` behind a closed gate, which leaves `MotorCtrl` and
`M_desired` alone, may or may not clear it (`StopWipe`).

`SignalCodec` has the two bit loops (`PackSignalToBytes`, `UnpackSignalFromBytes`) as
operators on sets of bit numbers, and beside them what the DBC means by a start bit
and a length. `Payload` fills a frame with them, one signal at a time in any order,
for any layout of disjoint signals; `MCParts` gives it the layouts of the code.

`DriveFrames` builds the payloads of 0x046, 0x047 and 0x300 from the data model as
`CommandSender` does (offsets, divisions, truncations, masks), and reads them as
the DBC does. Torques are in Nm, speeds in rpm, currents in tenths of an ampere.

`OperatorPath` composes it with the panel: a button (`SendAll`, `SendControlNow`,
`SendLimitsNow`, `SendTorqueNow`, `ApplyMode`, `SetGear`) turns whatever the entries
hold into commands, the commands wait in `uplink`, `handleCommand` sets fields
of `model` and sends a frame, `periodicTx` sends one from the same fields, and
`DeratingStatus` (0x2C5) writes into them from the other side. `asked` is a history
variable, what the buttons pressed so far ask for, and so is `reported`, the limit the inverter
reported last unless limits from the panel have come in since. It begins as `handleInit`
leaves the data model.

`TxSchedule` is the timing of a session in the normal mode: the three timers of
`periodicTx`, `can_updater`'s sleep, both mutexes, and WebSocket writes that take any
time. `Telemetry` follows every field of `updateFromCAN` from the frame into the data
model and on to the JSON key `serializeData` sends it under: the table of the code's
cases and the table of the DBC are written down separately, and one value is
watched while frames of all messages arrive. The keys are those whose fields only
`updateFromCAN` writes: `M_max` and `M_min` are decoded here too, but `SendLimits` and
`ConfigManager::load` write the same fields, so what their keys show is whoever wrote
last; `OperatorPath` follows them.

`WsClient` is the panel's end of the connection (`network.py`): the task
`_connect_forever`, the socket and the flag the other threads look at. `SignalSelection`
EXTENDS it with the selection of signals on both sides: the server's cache, the commands
`GetSignalCatalog` and `SetSignalSelection`, and the copy the panel keeps, which it
changes before it asks. The link loses what is in flight when it breaks; the server may
be restarted with or without its DBC file. A message is a set of signals and a name in
either file a model value, two of which `KeyOf` maps to the same key when they agree but
for case and punctuation, as the code does.

`ClientThread` is one client from `start` to `stop`, the two threads taken apart: `tk` says
where the Tk thread is inside `stop`, `ready` holds the callbacks the worker's event loop
has to run (a send, a close, the function `_stop`, the next step of `_connect_forever`), and
`main` is where that task is. What the worker reports goes through `root.after`, and Tk
makes a call from another thread wait for its own thread: a report is taken
(`Reported`) only while the Tk thread is in the main loop. So each of the two threads may
be waiting for the other until a timeout of `stop` ends it.

`ConfigFile` reads and writes `Config.ini` one field at a time: the key the code asks
for, the key the file has, the notation `save` writes and the one `load` reads, the
defaults of the source, absent and garbled entries.

`LossyFifo` is the abstract specification of a packet queue: packets leave in the order
they came, and one is lost only when the queue is full. `PacketRing` has the rings of
CAN_DBC_MODULE as operators, and `DbcModule` the calls of `dbc_process` and
`dbc_transmitNextPacket` one loop turn at a time, with a driver that may refuse a
packet. It is checked and proved to implement two `LossyFifo`s (`RingsAreFifos`).

`Oscilloscope` is `YokogawaDL850E`: several objects share the count of the library's
users; connecting, capturing and disconnecting may fail at each call, and the
samples come as little-endian bytes.

`MCStateMachine`, `MCSessions`, `MCSelection`, `MCTelemetry` and `MCParts` hold constants of the runs.
The modules that share no state are run together, by `MCParts` and, for `SignalSelection` and
`ClientThread`, by `MCSelection`: in each behaviour one of them moves and the others rest, so
the state space is the sum of theirs. The modules
whose names end in `Proofs` hold the theorems. Names that end in `_bug` are mutants:
plausible bugs each property is known to catch.

## The runs

| Run | Expected | What it shows |
|---|---|---|
| `core` | pass | through every command, malformed command, disconnection and restart, with limits of zero, below and above the firmware's 3000 rpm and an overflowed one: `TypeOK`, `TxOnlyInNormal`, `RxOnlySilent`, `FreshLimit`; under fairness `SessionEnds` |
| `faults` | pass | with any `CAN_Write` refused, and with setpoints: `QuietWhenBlocked`, `EnableWasAsked`, `NothingUnasked`, `SavedConfigSafe`, `FreshLimit`, `ImplementsGate` |
| `one_session` | pass | the three threads of one connection keep `OneDriver`, `ConsistentAtRest`, `DisconnectStops`, `ImplementsGate` and, under fairness, `TeardownEnds` |
| `two_sessions` | pass | with two connections the mutex keeps everything but the teardowns apart: `LockedExclusive` |
| `selection` | pass | two copies of the selection over a connection that breaks and a server that restarts: at rest they agree (`PanelAgrees`), nothing selected is hidden (`NothingHidden`), an answer confirms the click (`Confirmed`); under fairness `Settles`; and one client's two threads: disconnecting comes back (`StopReturns`), and a client told to stop is over in the end (`Over`) |
| `parts` | pass | filling the frames in any order: `SignalsSayTheirValue` (no signal disturbs a neighbour, each has the bits of the DBC), `RoundTrip`; every field that only the inverter's frames fill reaches its key with the value the DBC gives it, up to 77 degrees: `ShownIsSaid`; once the commands of any presses in the currents and speed modes are handled, the inverter reads what was last asked: `CurrentAsAsked`, `ControlAsAsked`, and the torque limits it reported last, or the panel's once they have come in since: `LimitsAsSet`; a written file is read back: `FileIsRead`; `RingsAreFifos` and, while the driver takes its packets, `NoneLost`; the recorder's library is there while a connection uses it and is left when nobody does: `LibraryReady`, and `SamplesAsTaken`; 0x300 within the inverter's 100 ms, however long the WebSocket blocks: `KeepAlive` |
| `edited_config` | violation | `EnableWasAsked` fails from an INI file with `En_Is=TRUE` |
| `all_gone` | violation | with two sessions a failed handshake can leave the drive open with nobody connected |
| `operator_torque` | violation | the torque mode's setpoint never arrives: `TorqueAsAsked` |
| `telemetry_hot` | violation | temperatures above 77 degrees are shown 256 too low: `ShownIsSaid` |
| `config_names` | violation | four keys of the shipped file are never read: `FileIsRead` |
| `link_lost` | violation | after a receive error the client neither forgets the socket nor waits: `LossBacksOff` |

The six violations are disagreements between the code and what its comments,
documentation or DBC say; PROJECT.json quotes both sides of each.

1. `DataModel.h:27` says current control is always disabled at startup.
   `ConfigManager::load` takes `En_Is` and the currents from the file, and of the
   two ways into `Read2` only the one over `Init` clears them:
   ResolverRx, then Read2, sends 0x300 with the enable set.
2. The teardown drives the state machine without the mutex. Within one session the
   joins make that safe (`one_session`), across sessions nothing does.
3. The client sends the torque as `Ms`; the server looks for `ns` only, and
   `M_desired` keeps what it was, to be read as a torque.
4. Temperatures go through `int8_t` before the offset is subtracted.
5. `ConfigManager.cpp` (lines 85 to 88 and 122 to 125) spells `M_min`, `M_grad_max`, `M_max`
   and `dM_damp_Ctrl` with a Cyrillic letter; the shipped `Config.ini` (18 to 21) has the
   Latin one. Those entries are never read and the defaults stand; the first save writes
   the Cyrillic keys beside them.
6. `src/README.md:56` and 57 say that any error in receiving is caught, `ws` is nulled, the status says
   that the WebSocket is off, and 1, 2, 4 ... 10 s are waited. `_connect_forever` does so when an
   attempt to connect fails. When `recv` fails (`network.py:138`) it breaks out of the inner loop and
   connects again at once; `ws`, the flag and the status stay until that attempt is over, and what
   is sent meanwhile goes into the dead socket. `Settles` says that the panel recovers even so.

Seen while modelling, and part of the models, but no run of their own:

* `SendTorque` and `SendControl` send at once, although the comment above
  `periodicTx` says that it alone decides when to send; no speed check comes before.
* Reset (`Read2`) neither resets nor re-reads anything, unlike the manual.
* A derating report (0x2C5) replaces the operator's limits in the model and on the
  bus until limits from the panel come in again. `LimitsAsSet` states that rule; no
  document says whether it is meant.
* The keys `M_max` and `M_min` of the JSON object show the limits in force, the inverter's,
  the panel's or the file's, and do not say whose.
* A speed setpoint of 16 067 rpm or more, which the slider offers, wraps around the
  11-bit field into a negative torque: with `Speeds = {20000}` `ControlAsAsked` fails.
* A garbled filter entry makes `std::stoul` throw out of `load`, and the server ends at start.
* `KAMA_FP_EPT_0615.dbc:1002` says that bit 0 of `MCU_CAN_Fault` is "CAN Bus off" and the next
  are reserved; `MarathonLogic.cpp:135` takes bits 0 and 1 for command faults.
* A message the defaults select in part (`MCU_DeratingStatus`) is selected whole by the
  first click on any message. An answer still under way may undo a click for a moment:
  `Confirmed` is about an operator who waits for answers. A second panel is not told of
  what the first changes.
* The selection has no effect on the telemetry: `model.dbcSignals` is never filled, and the
  commands it would choose are packed by code that is compiled out.
* Once a CAN frame is refused nothing sends it again, the one disabled 0x300 of a stop included:
  `QuietWhenBlocked` and `EnableWasAsked` excuse the ids in `dropped`.
* Destroying a `YokogawaDL850E` that never connected gives back a use of the library it
  never took; the run has `DestroyUnused = FALSE`. Connecting a connected object takes two
  uses and gives one back. Nothing in the program does either.
* `sendSafeDisable` repeats the sequence number of the last 0x301.
* Disconnecting while connected freezes the panel for up to four seconds: the worker's report
  "sent: Stop" waits for the Tk thread, which waits in `stop` for the worker, first a second
  for the close and then three for the thread. The close of `network.py:45`, meant to
  come before the loop is stopped, so often comes after both waits have run out. A worker
  between two messages that finds `_running` cleared closes the connection before `Stop` is sent;
  the teardown of the session stops the drive either way.
* The resolver capture counts JSON messages, so samples that repeat an old frame count.
* `PackSignalToBytes` of `CANDBCUtils.c` shifts in `uint8_t`; the copy in `CommandSender.cpp`
  does not. The server uses only the latter.
* The comments beside the schedule give 20 ms and 100 ms for 0x046 and 0x047, the
  constants and the DBC 10 and 20.

Bounds. Two modes, two current pairs and two setpoints tell "released" from
"something asked", which is all that the core's properties compare. The core and
`faults` runs use the shipped INI file. Speeds in `core` have a value on each side of
each comparison in `update()`, the hysteresis included; `faults` has one below and one
above the limit. `core` has all kinds of limits and no setpoint but zero, `faults` setpoints and one
limit, so both run `FreshLimit`; a negative limit, which the code treats as zero, is in
`LimitCorrect` only. `Restart` and reconnection are unbounded. One
session and two sessions are where the unlocked teardown differs: one
teardown against one live session is enough to show the race, and mutual exclusion
is pairwise. Raw values
of a signal are all ones and a pattern in `parts`; all ones is what a signal
could spill into its neighbours. `MaxUplink` (3) holds a whole `send_all`; an
entry of the panel takes one or two values, an invalid current among them, as the properties
compare for equality, and the inverter reports two limits, so that an old report differs from the
last one. An invalid limit, a negative or larger value is in the theorems only. The schedule counts in steps of 5 ms with holds, lateness and
turns that together leave 5 ms before the timeout: with less slack its assumption
fails. In `Telemetry` one signal of a message has its lowest, middle or highest value
and the others all lowest or all highest. Both rings have three slots, one more than
the cyclic messages, and wrap many times; the received packets have a known and an
unknown id. Two oscilloscope objects share the library, with at most four uses of it;
captures of 0, 1 and 3 samples are empty, within and above the limit of 2, in
samples of 8, 12, 16 and 24 bits (the theorem has 1 to 32). `selection` has three messages (selected whole, in part and
not at all by default) and at most two commands and answers
on their way: two clicks, or a stale answer and the greeting, which is where an answer can
overtake a click. The only bound of `ClientThread` is that a client is started and
stopped once, as the panel makes a new one for every connection. This run alone does not
check for deadlock, because a stopped client is at its end; `SignalSelection` never is, as
its server may always be restarted.

Fairness. `StateMachine` assumes only that a session whose reader failed gets to
its teardown (`WF(EndSession)`): joining and stopping need nobody's cooperation.
`Sessions` assumes weak fairness of each thread, that a thread waiting for the
mutex gets it in the end (strong fairness of `Lock`: the updaters sleep 5 ms after
each release, and the reader waits for its client), and that a blocked socket write
returns or fails in the end, as TCP makes it. Nothing is assumed of clients.

`SignalSelection` assumes that the client's event loop runs on, that an attempt to connect
ends either way, and that a session's reader takes its next command. The operator owes
nothing; `Settles` speaks of behaviours in which the connection holds from some time on
and nobody clicks or restarts any more. Commands of a dropped connection are
taken to be handled or lost before the next connection is made; answers that reached the Tk
thread's queue before a break are still shown.

`ClientThread` assumes that both threads run on, that the timeouts of `stop` and the loop's
timer come (`SF(LoopStop)`, as callbacks of the loop may be in between), and that what the
task awaits has an end, except a message on an open connection. Nobody has to
disconnect.

`TxSchedule` has no fairness; its bounds are the constants `Late`, `Hold` and `MaxTurns`,
which nothing in the code enforces: `std::mutex` is not fair, and a handler that
prints to a blocked console keeps `g_model_mutex`. The run and the theorem say
that the WebSocket needs no such bound.

## The proofs

`StateMachineProofs` proves for every value of the constants, under the assumptions
named in `StateMachine` (zero is a value of each set, the limits are integers or
the overflowed one):

* `TypeCorrect`, `GateCorrect` (`TxOnlyInNormal`), `QuietCorrect`
  (`QuietWhenBlocked`), `RxOnlyCorrect`, `LimitCorrect` (`FreshLimit`);
* `GateImplemented`: the control core implements `CommandGate`;
* under `SafeBoot` (no INI file the server may start from has a current or its
  enable): `NothingUnaskedCorrect`, `EnableCorrect`, `SavedCorrect`. Violation 1 is the
  reason for that assumption.

The inductive invariants. Type correctness and the gate (`transmitEnabled <=>
currentState = "Read2"`) are inductive as they stand. `QuietWhenBlocked` is not:
a save while in `Save_Cfg` or a second stop relies on an initialized channel
being behind an open gate, so what is carried is `QuietInv`, that the bus is
quiet whenever the gate **or the channel** is closed. The three unasked
properties support each other: what is saved is what is held, what is sent is
what is held, what is held was asked; and `asked` is empty outside `Read2`. Their
conjunction `AskedInv` is inductive, none of them alone is.

`CodecProofs`: the code's loops compute where a bit lands from a shift and a byte
count that depend on whether the field crosses a byte; the DBC counts down through
each byte. `LandingIsPlace` shows them equal for every start bit and every length up to
24 (the width that fits the 32-bit shift), and `UnpackIsMeaning` that the server reads what
the DBC means. The module also has what the other proofs need of whole payloads: the
bits of a number below 2^24 say the number (`NumberOfBits`), two signals are apart when one
ends before the other begins (`ApartIs`), and a signal packed among others that keep to
their places is read as it was packed (`ReadIs`).

`PartsProofs` has the modules that stand by themselves.

* Frames: as places of different bits differ, `FramesSayTheirValues`
  (`SignalsSayTheirValue`) and `FramesRoundTrip` (`RoundTrip`) follow for every layout of
  disjoint signals, from an invariant that adds to the type that every packed value fits its
  signal. `FrameTypes` adds that the bits written are numbers.
* `ShownIsSaidCorrect` (`ShownIsSaid`): up to 77 degrees, for all values of all signals at once.
  It compares the two tables, shows that no two of the 49 fields share a bit of their message,
  reads each from the frame by the codec lemmas, and carries an invariant that the data model
  says what the inverter said, since the JSON object is a copy of it made later. Finding 4 is
  the reason for the bound.
* `FileIsReadCorrect` (`FileIsRead`): for every value, text and sequence of saves, edits and
  kills, if the keys edited by hand have the names `load` asks for (`ByHand`; finding 5).
  The invariant adds that the file has no other keys.
* `LibraryReadyCorrect` (`LibraryReady`): for any number of objects, unless one is destroyed that
  never connected. The invariant counts: the library's uses are no fewer than the objects that
  have one to give back, those in a second connection counted twice, and the library is
  initialised exactly while the count is positive.
* `SamplesAsTakenCorrect` (`SamplesAsTaken`): for samples of 1 to 32 bits, signed, in any number.
  A sample cut to its width is the word the library puts in the buffer; the loop puts that word
  together from its bytes; `signExtend` restores the sign.

`SelectionProofs`, for every DBC file and `dbcconfig.ini` and any number of commands under way:
`PanelAgreesCorrect` (`PanelAgrees`), `ConfirmedCorrect` (`Confirmed`) and
`NothingHiddenCorrect` (`NothingHidden`). That panel and server agree at rest is not inductive:
`LastWord` adds that, once no command is under way, the last answer under way tells what the
server has; `CalmInv`, for an operator who waits for answers, that either the click is still on
its way and nothing before it, or all answers under way confirm it. `NothingHidden` needs
`DefaultsListed`: a message of which the server selects signals at start is in the catalog,
which is so of the shipped DBC and `dbcconfig.ini` (and of `MCSelection`).

`OperatorProofs`, for all entries, modes, gears and reports: `OperatorTypes` (`PathTypeOK`),
`CurrentAsAskedCorrect`, `ControlAsAskedCorrect` and `LimitsAsSetCorrect`. The properties speak of
the moment when every command has been handled; the invariant says of every moment what
that moment will find: of each request, the last command under way that names its field
says it, or none names it and the data model has it (`Kept`); of the torque limits, that both
are the panel's or both the inverter's (`LimitsKept`), the last it reported while `reported` holds
one (`ReportHeld`). A press appends commands that say what it
asks; handling takes the first. What the frames then say is the codec lemmas again, on the
calls of `DriveFrames`. Each theorem is about entries that fit their field (`CurrentsFit`:
-3200.0 to 3353.5 A; `SpeedsFit`: up to 16 066 rpm, less than the slider offers;
`MaxTorquesFit`: -1023 to 1024 Nm): beyond it the field cannot say the request. No such bound
protects the other fields: `M_desired` left from the speed mode does not fit either, but its
field begins at the top of a byte, so what is too wide falls off the payload.

`TransmitProofs` has the schedule and CAN_DBC_MODULE. `InTime` (`KeepAlive`), for all bounds whose
sum fits in the timeout, and `TypesKept` (`TxTypeOK`).
`KeepAlive` alone says nothing about the next step; the invariant `IInv` in `TxSchedule`
accounts for the time since the last scheduled 0x300 by where `can_updater` is: less than a
period at its last update, plus the nap, plus the holds it has been passed over for,
plus its own.

`SessionsProofs`: `SessionTypes` and `LockedCorrect` (`LockedExclusive`) for any number of
sessions, and `OneDriverCorrect` (`OneDriver`) when there is one connection at a time, the
case in which the teardown needs no lock. The invariant says who may be inside the
drive: a thread there holds the mutex, or it is a reader in its teardown (`Holding`); and
a reader in its teardown has joined its other threads, so they are at their end (`Ended`).
Without `Ended` nothing excludes an update beside the teardown.

`DriverProofs`, one connection at a time, access by access: `ConsistentCorrect`
(`ConsistentAtRest`), `DisconnectCorrect` (`DisconnectStops`) and `SessionsImplementGate`
(`ImplementsGate`). The invariant `DriveInv` gives each place in `setState`, `update`
and the handlers what its thread must know there: how far the disabling has come, and
that a teardown is on its way to `Idle`. At rest it is that the gate agrees with the
state and a closed gate or channel is quiet.

In `TransmitProofs`, too, `QueuesAreFifos` (`RingsAreFifos`) holds for every size of the rings, from lemmas about
the indices modulo the size: a packet put in goes to the end of `Contents`, one taken
leaves its front, and a ring is full exactly with one less than its size inside.
`NothingLost` (`NoneLost`) rests on the assumption that the ring has more slots than there are
cyclic messages, and on the invariant that while the driver refuses nothing the ring is
empty between calls and holds at most one packet of each message passed.

Every invariant and every action property of the passing runs is stated by a theorem. Only
model-checked are

* the liveness properties (`SessionEnds`, `TeardownEnds`, `Settles`, `StopReturns`,
  `Over`): they rest on fairness, and so on `ENABLED`, which the prover does not handle;
* `ClientThread`, which has no other properties;
* the six findings, which are counterexamples.

The theorems have the hypotheses named above, each of which the constants of the passing run
satisfy; `edited_config`, `telemetry_hot` and `config_names` show the properties failing without
`SafeBoot`, the 77 degrees and `ByHand`, and `all_gone` what two connections can do. `DriveFrames!Number` and `PackAll` are written without recursion (three bytes; the
union of what the calls write), as a recursive operator could not be reasoned about.

## Not modelled, and why

* Widget layout, plotting, recordings and the resolver panel of the client: presentation, without
  a protocol of their own.
* The text of the INI and DBC files and of the log; `ConfigFile` and `SignalSelection` take
  what the parsers find.
* `SignalLogger`, and the packing and decoding of `DbcSignalCache`: their only callers are
  compiled out (`kUseDbcRuntimePacking` is false) or have no reader (`dbcSignals`).
* The vendored libraries (`PCANBasic`, `CHAI`, `TMCTL`, `json`), the generated DBC codecs, and
  `main.cpp`, the old command line program, which is not in the build.
* The error handlers of CAN_DBC_MODULE, which count.
* A half-open TCP connection is a client that neither sends nor fails; nothing bounds
  how long the last command then goes on, which is a hazard that no property can cover.

Left out of what is modelled: message counters and checksums, the calibration
keepalive 0x301 in `TxSchedule`, frames shorter than the DBC says (decoded with bytes of
the frame before), what the oscilloscope driver falls back to when the recorder reports no
width of a channel (16 bits) or of the samples fetched (the channel's), the float rounding of values outside the panel's ranges, Id, M_min,
M_grad_max and n_max as entries of their own in `OperatorPath` (handled as Iq and M_max are).

Theorems to follow: the limits of the other entries (`M_min`, `M_grad_max`, `n_max`, `Id`) once they are
entries of their own in `OperatorPath`; what each session of several may assume (`DriverProofs` has
one connection at a time).
