---------------------------- MODULE StateMachine ----------------------------
(***************************************************************************)
(* The control core of the stand server as one client session drives it:   *)
(* class StateMachine, the command handlers of ws_server.cpp, the senders  *)
(* of CommandSender.cpp and the CANInterface they write to.                *)
(*                                                                         *)
(* g_model_mutex makes every command handler and every update() atomic     *)
(* within a session, so each is one action here.  (Sessions.tla takes the  *)
(* threads apart and shows when that is true.)                             *)
(*                                                                         *)
(* Data is abstracted to what the properties tell apart:                   *)
(*   MotorCtrl  stands for the pair MotorCtrl, GearCtrl of the DataModel:  *)
(*              0 is Ready (PWM released) in neutral, anything else asks   *)
(*              for a mode;                                                *)
(*   Idq        stands for the pair Isd, Isq: 0 is no current.             *)
(* The last frame of 0x046, 0x300 and 0x301 that the CAN driver accepted   *)
(* from this process is kept in wireControl, wireCurrent, wireResolver;    *)
(* before the first one they hold the released frame, which is what an     *)
(* inverter that was sent nothing does.                                    *)
(***************************************************************************)
EXTENDS Integers, FiniteSets

CONSTANTS
  Modes,        \* values of MotorCtrl a client may send
  Currents,     \* values of the Isd/Isq pair
  Setpoints,    \* values of M_desired
  Speeds,       \* rotor speeds the inverter may report [rpm]
  SpeedLimits,  \* values of n_max [rpm]; NotFinite among them stands for
                \* an overflowed float
  NotFinite,
  BootConfigs,  \* contents the INI file may have before the first start
  MayFail       \* CAN ids whose CAN_Write may be refused

Ids == {"control", "current", "resolver"}        \* 0x046, 0x300, 0x301

Configs == [En_Is : BOOLEAN, Idq : Currents, n_max : SpeedLimits]

ASSUME ModesAssumption     == Modes \subseteq Nat /\ {0, 1} \subseteq Modes
ASSUME CurrentsAssumption  == Currents \subseteq Int /\ 0 \in Currents
ASSUME SetpointsAssumption == Setpoints \subseteq Int /\ 0 \in Setpoints
ASSUME SpeedsAssumption    == Speeds \subseteq Int /\ 0 \in Speeds
ASSUME LimitsAssumption    == /\ NotFinite \notin Int
                              /\ SpeedLimits \subseteq Int \cup {NotFinite}
ASSUME BootAssumption      == BootConfigs \subseteq Configs
ASSUME FaultAssumption     == MayFail \subseteq Ids

VARIABLES
  session,          \* the client session: "none", "open" or "closing"
  currentState,     \* StateMachine::currentState
  isOverSpeed,      \* StateMachine::isOverSpeed
  transmitEnabled,  \* CANInterface::transmitEnabled
  initialized,      \* CANInterface::initialized
  En_Is, Idq, MotorCtrl, M_desired, ResolverEnabled,   \* DataModel requests
  ns, n_max,        \* DataModel: reported speed and operator limit
  disk,             \* the [Motor] section of the INI file
  wireControl, wireCurrent, wireResolver,
  dropped,          \* ids whose latest frame did not get out: CAN_Write
                    \* refused it, or the process was killed before it
  asked             \* what the client asked for since it was last wiped

requests == <<En_Is, Idq, MotorCtrl, M_desired, ResolverEnabled>>
wires    == <<wireControl, wireCurrent, wireResolver, dropped>>
vars     == <<session, currentState, isOverSpeed, transmitEnabled, initialized,
              requests, ns, n_max, disk, wires, asked>>

\* Read_Cfg is a member of the enum that no command and no handler sets.
State    == {"Idle", "Init", "Read2", "ResolverRxInit", "ResolverRx", "Stop",
             "Save_Cfg"}
isRxOnly == currentState \in {"ResolverRxInit", "ResolverRx"}

-----------------------------------------------------------------------------
(* Frames, as CommandSender builds them from the DataModel.  Operators     *)
(* whose names end in _bug are mutated forms of the one they precede.      *)

ControlFrame(m, d) == [MotorCtrl |-> m, M_desired |-> d]
CurrentFrame(e, i) == [En_Is |-> e, Idq |-> i]

Released == ControlFrame(0, 0)
Disabled == CurrentFrame(FALSE, 0)

\* CANInterface::send for every id at once: the driver accepts the ids in
\* sent and refuses those in lost.  A closed channel accepts nothing.
Write(sent, lost, control, current, resolver) ==
  /\ wireControl'  = IF "control"  \in sent THEN control  ELSE wireControl
  /\ wireCurrent'  = IF "current"  \in sent THEN current  ELSE wireCurrent
  /\ wireResolver' = IF "resolver" \in sent THEN resolver ELSE wireResolver
  /\ dropped'      = (dropped \ sent) \cup lost

\* CANInterface::send passes a frame on only through an open gate and an
\* initialized channel.
CanSend == transmitEnabled /\ initialized

\* One frame of one id, sent at once by a command handler.
WriteOne(id, control, current, resolver) ==
  IF CanSend
  THEN \/ Write({id}, {}, control, current, resolver)
       \/ id \in MayFail /\ Write({}, {id}, control, current, resolver)
  ELSE UNCHANGED wires

ClearRequests ==
  /\ En_Is' = FALSE /\ Idq' = 0
  /\ MotorCtrl' = 0 /\ M_desired' = 0
  /\ ResolverEnabled' = FALSE

\* No 0x300 among the disabling frames.
sendSafeDisable_bug ==
  /\ ClearRequests
  /\ IF CanSend
     THEN \E lost \in SUBSET MayFail :
            Write(Ids \ (lost \cup {"current"}), lost, Released, Disabled, FALSE)
     ELSE UNCHANGED wires

\* The request is cleared first and then sent: 0x046 three times, 0x300 and
\* 0x301 once.  An id is lost when none of its frames was accepted.
sendSafeDisable ==
  /\ ClearRequests
  /\ IF CanSend
     THEN \E lost \in SUBSET MayFail :
            Write(Ids \ lost, lost, Released, Disabled, FALSE)
     ELSE UNCHANGED wires

\* What the client has asked for.  Whatever it asked is void once the state
\* machine is outside Read2.
Asked(new, erased) ==
  asked' = IF currentState' = "Read2" THEN (asked \cup new) \ erased ELSE {}

-----------------------------------------------------------------------------
(* StateMachine::setState, as the command handlers call it.                *)

\* The gate is closed before the disabling frames are sent.
setState_order_bug(new) ==
  /\ IF new # "Read2" /\ transmitEnabled
     THEN ClearRequests /\ UNCHANGED wires
     ELSE UNCHANGED <<requests, wires>>
  /\ transmitEnabled' = (new = "Read2")
  /\ currentState' = new

\* The disabling frames are sent, the requests kept in the DataModel.
setState_keep_bug(new) ==
  /\ IF new # "Read2" /\ CanSend
     THEN Write(Ids, {}, Released, Disabled, FALSE)
     ELSE UNCHANGED wires
  /\ UNCHANGED requests
  /\ transmitEnabled' = (new = "Read2")
  /\ currentState' = new

\* The receive-only mode opens the gate as Read2 does.
setState_rx_bug(new) ==
  /\ IF new # "Read2" /\ transmitEnabled
     THEN sendSafeDisable
     ELSE UNCHANGED <<requests, wires>>
  /\ transmitEnabled' = (new \in {"Read2", "ResolverRxInit"})
  /\ currentState' = new

setState(new) ==
  /\ IF new # "Read2" /\ transmitEnabled
     THEN sendSafeDisable
     ELSE UNCHANGED <<requests, wires>>
  /\ transmitEnabled' = (new = "Read2")
  /\ currentState' = new

Command(new) ==
  /\ session = "open"
  /\ setState(new)
  /\ Asked({}, {})
  /\ UNCHANGED <<session, isOverSpeed, initialized, ns, n_max, disk>>

CmdInit       == Command("Init")
CmdResolverRx == Command("ResolverRxInit")
CmdStop       == Command("Stop")
CmdRead2      == Command("Read2")
CmdSaveCfg    == Command("Save_Cfg")

-----------------------------------------------------------------------------
(* The request handlers of handleCommand.  Each is refused while the gate  *)
(* is closed, otherwise it stores the fields and sends its frame at once.  *)
(* A key may be missing from the JSON; its field then keeps its value,     *)
(* which is one of the values chosen here.                                 *)

Accepted ==
  /\ session = "open" /\ transmitEnabled
  /\ UNCHANGED <<session, currentState, isOverSpeed, transmitEnabled,
                 initialized, ns, disk>>

AsksSetpoint(d)   == {a \in {"setpoint"} : d # 0}
AsksCurrent(e, i) == {a \in {"enable"} : e} \cup {a \in {"current"} : i # 0}

SendControl(m, d, e) ==
  /\ Accepted
  /\ MotorCtrl' = m /\ M_desired' = d /\ En_Is' = e
  /\ WriteOne("control", ControlFrame(m, d), wireCurrent, wireResolver)
  /\ Asked(AsksSetpoint(d) \cup AsksCurrent(e, 0), {})
  /\ UNCHANGED <<Idq, ResolverEnabled, n_max>>

SendTorque(e, i) ==
  /\ Accepted
  /\ En_Is' = e /\ Idq' = i
  /\ WriteOne("current", wireControl, CurrentFrame(e, i), wireResolver)
  /\ Asked(AsksCurrent(e, i), {})
  /\ UNCHANGED <<MotorCtrl, M_desired, ResolverEnabled, n_max>>

\* 0x047 goes out as well; no property is about its contents.
SendLimits(n) ==
  /\ Accepted
  /\ n_max' = n
  /\ UNCHANGED <<requests, wires, asked>>

SetResolverCorrection ==
  /\ Accepted
  /\ ResolverEnabled' = TRUE
  /\ WriteOne("resolver", wireControl, wireCurrent, TRUE)
  /\ UNCHANGED <<En_Is, Idq, MotorCtrl, M_desired, n_max, asked>>

\* The one handler that also acts while the gate is closed.
DisableResolverCorrection ==
  /\ session = "open"
  /\ ResolverEnabled' = FALSE
  /\ WriteOne("resolver", wireControl, wireCurrent, FALSE)
  /\ UNCHANGED <<session, currentState, isOverSpeed, transmitEnabled,
                 initialized, En_Is, Idq, MotorCtrl, M_desired, ns, n_max,
                 disk, asked>>

-----------------------------------------------------------------------------
(* StateMachine::update, one action per state with something to do.  Only  *)
(* a session's can_updater thread calls it, so nothing runs between        *)
(* sessions.  handleIdle does nothing.                                     *)

kFirmwareSpeedLimitRpm == 3000

Abs(v) == IF v < 0 THEN -v ELSE v

SpeedLimit ==
  IF n_max = NotFinite \/ n_max >= kFirmwareSpeedLimitRpm
  THEN kFirmwareSpeedLimitRpm ELSE n_max

TooFast(v) == n_max = NotFinite \/ SpeedLimit <= 0 \/ Abs(v) > SpeedLimit

\* Without fabs: only forward rotation counts.
OverSpeed_bug(v, was) ==
  \/ n_max = NotFinite \/ SpeedLimit <= 0 \/ v > SpeedLimit
  \/ was /\ ~(10 * v < 9 * SpeedLimit)

\* Trips above the limit, releases below nine tenths of it.
OverSpeed(v, was) == TooFast(v) \/ (was /\ ~(10 * Abs(v) < 9 * SpeedLimit))

\* Whichever of the periods has elapsed: any set of ids may be due.
periodicTx ==
  IF CanSend'
  THEN \E due \in SUBSET {id \in Ids : id = "resolver" => ResolverEnabled'} :
         \E lost \in SUBSET (due \cap MayFail) :
           Write(due \ lost, lost, ControlFrame(MotorCtrl', M_desired'),
                 CurrentFrame(En_Is', Idq'), TRUE)
  ELSE UNCHANGED wires

\* The request survives an overspeed.
LimitAndTransmit_keep_bug(was, i, d) ==
  /\ isOverSpeed' = OverSpeed(ns', was)
  /\ Idq' = i /\ M_desired' = d
  /\ periodicTx
  /\ Asked({}, IF isOverSpeed' THEN {"current", "setpoint"} ELSE {})

\* The limit is applied before the telemetry is received.
LimitAndTransmit_stale_bug(was, i, d) ==
  /\ isOverSpeed' = OverSpeed(ns, was)
  /\ Idq'       = IF isOverSpeed' THEN 0 ELSE i
  /\ M_desired' = IF isOverSpeed' THEN 0 ELSE d
  /\ periodicTx
  /\ Asked({}, IF isOverSpeed' THEN {"current", "setpoint"} ELSE {})

\* The end of update() in Read2, i and d being the requests it started with.
LimitAndTransmit(was, i, d) ==
  /\ isOverSpeed' = OverSpeed(ns', was)
  /\ Idq'       = IF isOverSpeed' THEN 0 ELSE i
  /\ M_desired' = IF isOverSpeed' THEN 0 ELSE d
  /\ periodicTx
  /\ Asked({}, IF isOverSpeed' THEN {"current", "setpoint"} ELSE {})

Updating(s) ==
  /\ session # "none" /\ currentState = s
  /\ UNCHANGED <<session, n_max>>

\* Draining the receive queue may bring a new rotor speed.
Receive == ns' \in IF initialized THEN Speeds ELSE {ns}

\* handleInit reopens the channel with every request cleared; when that
\* fails setState(Stop) finds the gate closed already.
UpdateInit ==
  /\ Updating("Init")
  /\ En_Is' = FALSE /\ MotorCtrl' = 0 /\ ResolverEnabled' = FALSE
  /\ initialized' \in BOOLEAN
  /\ transmitEnabled' = initialized'
  /\ currentState' = IF initialized' THEN "Read2" ELSE "Stop"
  /\ UNCHANGED <<ns, disk>>
  /\ IF initialized'
     THEN LimitAndTransmit(FALSE, 0, 0)
     ELSE /\ isOverSpeed' = FALSE /\ Idq' = 0 /\ M_desired' = 0
          /\ UNCHANGED wires
          /\ Asked({}, {})

UpdateRead2 ==
  /\ Updating("Read2")
  /\ Receive
  /\ UNCHANGED <<currentState, transmitEnabled, initialized, En_Is, MotorCtrl,
                 ResolverEnabled, disk>>
  /\ LimitAndTransmit(isOverSpeed, Idq, M_desired)

\* The receive-only mode opens the gate.
UpdateResolverRxInit_bug ==
  /\ Updating("ResolverRxInit")
  /\ initialized' \in BOOLEAN
  /\ transmitEnabled' = initialized'
  /\ currentState' = IF initialized' THEN "ResolverRx" ELSE "Stop"
  /\ Asked({}, {})
  /\ UNCHANGED <<isOverSpeed, requests, ns, disk, wires>>

UpdateResolverRxInit ==
  /\ Updating("ResolverRxInit")
  /\ initialized' \in BOOLEAN
  /\ transmitEnabled' = FALSE
  /\ currentState' = IF initialized' THEN "ResolverRx" ELSE "Stop"
  /\ Asked({}, {})
  /\ UNCHANGED <<isOverSpeed, requests, ns, disk, wires>>

UpdateResolverRx ==
  /\ Updating("ResolverRx")
  /\ Receive
  /\ UNCHANGED <<currentState, isOverSpeed, transmitEnabled, initialized,
                 requests, disk, wires, asked>>

\* setState(Stop) and handleStop in a row, or handleStop alone: the same.
StopDrive ==
  /\ IF transmitEnabled
     THEN sendSafeDisable
     ELSE /\ En_Is' = FALSE /\ Idq' = 0 /\ ResolverEnabled' = FALSE
          /\ UNCHANGED <<MotorCtrl, M_desired, wires>>
  /\ transmitEnabled' = FALSE /\ initialized' = FALSE
  /\ currentState' = "Idle"
  /\ Asked({}, {})
  /\ UNCHANGED <<isOverSpeed, ns, n_max, disk>>

UpdateStop == Updating("Stop") /\ StopDrive

\* Two keys swapped in the file.
UpdateSaveCfg_bug ==
  /\ Updating("Save_Cfg")
  /\ disk' = [En_Is |-> En_Is, Idq |-> n_max, n_max |-> Idq]
  /\ setState("Idle")
  /\ Asked({}, {})
  /\ UNCHANGED <<isOverSpeed, initialized, ns>>

\* The channel stays open; only the gate is closed, by the command already.
UpdateSaveCfg ==
  /\ Updating("Save_Cfg")
  /\ disk' = [En_Is |-> En_Is, Idq |-> Idq, n_max |-> n_max]
  /\ setState("Idle")
  /\ Asked({}, {})
  /\ UNCHANGED <<isOverSpeed, initialized, ns>>

Update ==
  \/ UpdateInit \/ UpdateRead2 \/ UpdateResolverRxInit \/ UpdateResolverRx
  \/ UpdateStop \/ UpdateSaveCfg

-----------------------------------------------------------------------------
(* do_session and main.                                                    *)

Connect ==
  /\ session = "none" /\ session' = "open"
  /\ UNCHANGED <<currentState, isOverSpeed, transmitEnabled, initialized,
                 requests, ns, n_max, disk, wires, asked>>

\* The reader's exception: the socket broke, or a message was no JSON.  The
\* updater thread may still run until it is joined.
ReaderError ==
  /\ session = "open" /\ session' = "closing"
  /\ UNCHANGED <<currentState, isOverSpeed, transmitEnabled, initialized,
                 requests, ns, n_max, disk, wires, asked>>

\* A field of the wrong type throws after the fields before it were stored
\* and before the frame is sent; M_desired is the last field of SendControl.
MalformedControl(m, e) ==
  /\ session = "open" /\ transmitEnabled /\ session' = "closing"
  /\ MotorCtrl' = m /\ En_Is' = e
  /\ asked' = asked \cup AsksCurrent(e, 0)
  /\ UNCHANGED <<currentState, isOverSpeed, transmitEnabled, initialized,
                 Idq, M_desired, ResolverEnabled, ns, n_max, disk, wires>>

MalformedTorque(e, i) ==
  /\ session = "open" /\ transmitEnabled /\ session' = "closing"
  /\ En_Is' = e /\ Idq' = i
  /\ asked' = asked \cup AsksCurrent(e, i)
  /\ UNCHANGED <<currentState, isOverSpeed, transmitEnabled, initialized,
                 MotorCtrl, M_desired, ResolverEnabled, ns, n_max, disk, wires>>

\* setState(Stop) without the update() that carries it out.
EndSession_bug ==
  /\ session \in {"closing", "none"} /\ session' = "none"
  /\ setState("Stop")
  /\ Asked({}, {})
  /\ UNCHANGED <<isOverSpeed, initialized, ns, n_max, disk>>

\* After both threads are joined; also when the handshake of a new client
\* fails, before there is a session.
EndSession ==
  /\ session \in {"closing", "none"} /\ session' = "none"
  /\ StopDrive

Init ==
  /\ disk \in BootConfigs
  /\ En_Is = disk.En_Is /\ Idq = disk.Idq /\ n_max = disk.n_max
  /\ MotorCtrl = 1 /\ M_desired = 0 /\ ResolverEnabled = FALSE
  /\ ns = 0
  /\ session = "none" /\ currentState = "Idle" /\ isOverSpeed = FALSE
  /\ transmitEnabled = FALSE /\ initialized = FALSE
  /\ wireControl = Released /\ wireCurrent = Disabled /\ wireResolver = FALSE
  /\ dropped = {} /\ asked = {}

\* The process is killed and started again: config.load, then Idle.  The bus
\* is left with whatever was sent last.
Restart ==
  /\ En_Is' = disk.En_Is /\ Idq' = disk.Idq /\ n_max' = disk.n_max
  /\ MotorCtrl' = 1 /\ M_desired' = 0 /\ ResolverEnabled' = FALSE
  /\ ns' = 0
  /\ session' = "none" /\ currentState' = "Idle" /\ isOverSpeed' = FALSE
  /\ transmitEnabled' = FALSE /\ initialized' = FALSE
  /\ dropped' = Ids /\ asked' = {}
  /\ UNCHANGED <<disk, wireControl, wireCurrent, wireResolver>>

Client ==
  \/ CmdInit \/ CmdResolverRx \/ CmdStop \/ CmdRead2 \/ CmdSaveCfg
  \/ \E m \in Modes, d \in Setpoints, e \in BOOLEAN : SendControl(m, d, e)
  \/ \E e \in BOOLEAN, i \in Currents : SendTorque(e, i)
  \/ \E n \in SpeedLimits : SendLimits(n)
  \/ SetResolverCorrection \/ DisableResolverCorrection
  \/ \E m \in Modes, e \in BOOLEAN : MalformedControl(m, e)
  \/ \E e \in BOOLEAN, i \in Currents : MalformedTorque(e, i)
  \/ Connect \/ ReaderError

Next == Client \/ Update \/ EndSession \/ Restart

Spec == Init /\ [][Next]_vars

\* Joining the threads and stopping the drive needs no one's cooperation.
FairSpec == Spec /\ WF_vars(EndSession)

-----------------------------------------------------------------------------
\* The latest command on every id is the released one, or did not get out.
QuietBus ==
  /\ "control"  \in dropped \/ wireControl  = Released
  /\ "current"  \in dropped \/ wireCurrent  = Disabled
  /\ "resolver" \in dropped \/ wireResolver = FALSE

TypeOK ==
  /\ session \in {"none", "open", "closing"}
  /\ currentState \in State
  /\ isOverSpeed \in BOOLEAN /\ transmitEnabled \in BOOLEAN
  /\ initialized \in BOOLEAN
  /\ En_Is \in BOOLEAN /\ Idq \in Currents /\ MotorCtrl \in Modes
  /\ M_desired \in Setpoints /\ ResolverEnabled \in BOOLEAN
  /\ ns \in Speeds /\ n_max \in SpeedLimits
  /\ disk \in Configs
  /\ wireControl \in [MotorCtrl : Modes, M_desired : Setpoints]
  /\ wireCurrent \in [En_Is : BOOLEAN, Idq : Currents]
  /\ wireResolver \in BOOLEAN
  /\ dropped \in SUBSET Ids
  /\ asked \in SUBSET {"setpoint", "enable", "current"}

\* The transmit gate is open in Read2 and in no other state, although
\* setState, three handlers and the teardown each move it on their own.
TxOnlyInNormal == transmitEnabled <=> currentState = "Read2"

\* Whenever the gate is closed, the last command the inverter was sent on
\* each id is the released one: every way out of Read2 sends the disabling
\* frames while it still can.
QuietWhenBlocked ==
  ~transmitEnabled => QuietBus

\* The server holds no current enable, current or setpoint the client did
\* not ask for after the last Init, Stop, mode change, disconnection, restart
\* or overspeed trip: nothing that was wiped comes back, and Reset (Read2)
\* resumes nothing.
NothingUnasked ==
  /\ En_Is          => "enable"   \in asked
  /\ Idq # 0        => "current"  \in asked
  /\ M_desired # 0  => "setpoint" \in asked

\* The inverter was never told to enable current control unless the client
\* asked for it since (DataModel.h: disabled at startup).
EnableWasAsked ==
  wireCurrent.En_Is => "enable" \in asked \/ "current" \in dropped

\* No application frame leaves in the receive-only mode.
RxOnlySilent ==
  [][isRxOnly => UNCHANGED <<wireControl, wireCurrent, wireResolver>>]_vars

\* A scheduled frame obeys the speed received in the very same update: the
\* telemetry is drained and the limit applied before anything is sent.
FreshLimit ==
  [][Update /\ TooFast(ns') =>
       /\ wireCurrent' # wireCurrent => wireCurrent'.Idq = 0
       /\ wireControl' # wireControl => wireControl'.M_desired = 0]_vars

\* Saving never writes an enabled or non-zero current to the INI file, from
\* which the next start would load it.
SavedConfigSafe == ~disk.En_Is /\ disk.Idq = 0

\* Every session that breaks ends with the drive in Idle, gate and channel
\* closed.
SessionEnds ==
  session = "closing" ~> /\ session = "none" /\ currentState = "Idle"
                         /\ ~transmitEnabled /\ ~initialized

-----------------------------------------------------------------------------
\* The bus as the contract sees it: ids whose frames got lost are excused.
Gate == INSTANCE CommandGate WITH
          gate <- transmitEnabled,
          bus  <- IF QuietBus THEN "released" ELSE "live"

\* The control core implements the contract of the command gate.
ImplementsGate == Gate!Spec
=============================================================================
