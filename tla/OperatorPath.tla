---------------------------- MODULE OperatorPath ----------------------------
(***************************************************************************)
(* From the operator's panel to the bus: the buttons of the panel          *)
(* (controllers.py), the commands on their way to the server, the fields   *)
(* of the data model they set (ws_server.cpp), the torque limits the       *)
(* inverter reports into the same fields (MarathonLogic.cpp), and the      *)
(* frames built from the model at once and on schedule.                    *)
(*                                                                         *)
(* Editing an entry sends nothing, so the entries are not kept: a button   *)
(* finds in them whatever has been typed by then.                          *)
(*                                                                         *)
(* The client is connected and the server in its normal mode below the     *)
(* speed limit: how it gets there and leaves is in StateMachine.  The      *)
(* entries that are handled like one that is here (Id like Iq, M_min,      *)
(* M_grad_max and n_max like M_max) keep their initial values.             *)
(***************************************************************************)
EXTENDS DriveFrames

CONSTANTS
    Modes,          \* the modes and gears the operator picks
    Gears,
    Currents,       \* what is typed for Iq, speed, torque and M_max: numbers,
    Speeds,         \* or NotANumber
    Torques,
    MaxTorques,
    Reports,        \* the torque limits the inverter reports
    MaxUplink,      \* bound: commands on their way
    NotANumber,
    Nothing

\* Two signals of 11 bits carry a report and its negative.
ASSUME PanelAssumption ==
    /\ Modes \subseteq {"currents", "speed", "torque"} /\ Gears \subseteq {"D", "R", "N"}
    /\ Currents \cup Speeds \cup Torques \cup MaxTorques \subseteq Int \cup {NotANumber}
    /\ Reports \subseteq -1023 .. 1023
    /\ MaxUplink \in Nat
    /\ NotANumber \notin Int /\ Nothing # NotANumber /\ Nothing \notin Int
    /\ Nothing \notin {"currents", "speed", "torque"}

VARIABLES
    uplink,     \* commands written and not yet handled, in order
    model,      \* DataModel
    bus,        \* the last frame: its id and payload
    asked,      \* what the buttons pressed so far ask for
    reported    \* the limit the inverter reported last, unless limits of the
                \* panel have come in since

pathVars == <<uplink, model, bus, asked, reported>>

MOTOR_MODE_MAP == [currents |-> 1, speed |-> 4, torque |-> 1]

GEAR_MAP == [D |-> 4, R |-> 3, N |-> 2]

FrameIds == {"0x046", "0x047", "0x300"}

\* The fields of r, and those of s that r has not.
Over(r, s) == [f \in DOMAIN r \cup DOMAIN s |-> IF f \in DOMAIN r THEN r[f] ELSE s[f]]

-----------------------------------------------------------------------------

(***************************************************************************)
(* The panel.                                                              *)
(***************************************************************************)

\* What the entries may hold when a button is pressed.
Panel == [mode : Modes, gear : Gears, Iq : Currents, speed : Speeds, torque : Torques,
          M_max : MaxTorques]

Limits(panel) ==
    [cmd |-> "SendLimits", M_min |-> -50, M_max |-> panel.M_max, M_grad_max |-> 50, n_max |-> 1000]

Torque(panel) == [cmd |-> "SendTorque", En_Is |-> TRUE, Isd |-> 0, Isq |-> panel.Iq]

\* The SendControl of each mode: the torque entry travels as "Ms".
Control(panel) ==
    CASE panel.mode = "currents" ->
           [cmd |-> "SendControl", En_Is |-> TRUE, Kl_15 |-> FALSE, MotorCtrl |-> 1]
      [] panel.mode = "speed" ->
           [cmd |-> "SendControl", En_Is |-> FALSE, Kl_15 |-> TRUE, MotorCtrl |-> 4,
            ns |-> panel.speed]
      [] panel.mode = "torque" ->
           [cmd |-> "SendControl", En_Is |-> FALSE, Kl_15 |-> TRUE, MotorCtrl |-> 1,
            Ms |-> panel.torque]

Gear(panel) == [GearCtrl |-> GEAR_MAP[panel.gear]]

\* The entry the mode needs.
Setpoint(panel) ==
    CASE panel.mode = "currents" -> panel.Iq
      [] panel.mode = "speed"    -> panel.speed
      [] panel.mode = "torque"   -> panel.torque

\* A part of a handler: the commands it sends and what they ask for, neither if
\* the entry it reads is no number.
Part(entry, sent, intent) ==
    IF entry = NotANumber THEN [commands |-> <<>>, intent |-> <<>>]
                          ELSE [commands |-> sent, intent |-> intent]

Then(first, second) ==
    [commands |-> first.commands \o second.commands, intent |-> Over(second.intent, first.intent)]

\* One press of a button, with whatever its handler sends.
Press(part) ==
    /\ part.commands # <<>>
    /\ Len(uplink) + Len(part.commands) <= MaxUplink
    /\ uplink' = uplink \o part.commands
    /\ asked' = Over(part.intent, asked)
    /\ UNCHANGED <<model, bus, reported>>

AskedMode(panel) ==
    IF panel.mode = "currents"
    THEN [mode |-> panel.mode, enable |-> TRUE]
    ELSE [mode |-> panel.mode, enable |-> FALSE, setpoint |-> Setpoint(panel)]

AskedCurrents(panel) == [enable |-> TRUE, Iq |-> panel.Iq]

AskedGear(panel) == [gear |-> panel.gear]

send_limits_now(panel) == Part(panel.M_max, <<Limits(panel)>>, [M_max |-> panel.M_max])

send_torque_now(panel) == Part(panel.Iq, <<Torque(panel)>>, AskedCurrents(panel))

\* In currents mode no entry is read.
send_control_now(panel) ==
    Part(IF panel.mode = "currents" THEN Nothing ELSE Setpoint(panel),
         <<Control(panel)>>, AskedMode(panel))

\* An invalid limit does not keep the rest from being sent; an invalid current
\* keeps the SendControl from being sent too.
send_all(panel) ==
    LET control == Over(Gear(panel), Control(panel))
        intent == Over(AskedGear(panel), AskedMode(panel))
    IN  Then(send_limits_now(panel),
             IF panel.mode = "currents"
             THEN Part(panel.Iq, <<control, Torque(panel)>>, Over(AskedCurrents(panel), intent))
             ELSE Part(Setpoint(panel), <<control>>, intent))

apply_mode(panel) ==
    IF panel.mode = "currents" THEN Then(send_control_now(panel), send_torque_now(panel))
                               ELSE send_control_now(panel)

set_gear_from_ui(panel) ==
    Part(Nothing, <<Over([cmd |-> "SendControl"], Gear(panel))>>, AskedGear(panel))

SendAll(panel) == Press(send_all(panel))

SendControlNow(panel) == Press(send_control_now(panel))

SendLimitsNow(panel) == Press(send_limits_now(panel))

SendTorqueNow(panel) == Press(send_torque_now(panel))

ApplyMode(panel) == Press(apply_mode(panel))

SetGear(panel) == Press(set_gear_from_ui(panel))

-----------------------------------------------------------------------------

(***************************************************************************)
(* The server.                                                             *)
(***************************************************************************)

Sends(id) == bus' = [id |-> id, payload |-> PayloadOf(id, model')]

\* Mutant: every name of the command is stored.
SetIfPresent_bug(j, names) == Over(j, model)

\* set_if_present for each of the names: other names are ignored.
SetIfPresent(j, names) ==
    [f \in DOMAIN model |-> IF f \in names \cap DOMAIN j THEN j[f] ELSE model[f]]

apply_control_fields(j) ==
    [SetIfPresent(j, {"MotorCtrl", "GearCtrl", "Kl_15", "Brake_active", "TCS_active", "En_Is"})
       EXCEPT !.M_desired = IF "ns" \in DOMAIN j THEN j.ns ELSE @]

apply_limit_fields(j) == SetIfPresent(j, {"M_max", "M_min", "M_grad_max", "n_max"})

\* Mutant: the enable is left to SendControl.
apply_torque_fields_bug(j) == SetIfPresent(j, {"Isd", "Isq"})

apply_torque_fields(j) == SetIfPresent(j, {"En_Is", "Isd", "Isq"})

handleCommand ==
    /\ uplink # <<>>
    /\ uplink' = Tail(uplink)
    /\ LET j == Head(uplink) IN
       \/ /\ j.cmd = "SendControl"
          /\ model' = apply_control_fields(j)
          /\ Sends("0x046") /\ UNCHANGED reported
       \/ /\ j.cmd = "SendLimits"
          /\ model' = apply_limit_fields(j)
          /\ Sends("0x047") /\ reported' = Nothing
       \/ /\ j.cmd = "SendTorque"
          /\ model' = apply_torque_fields(j)
          /\ Sends("0x300") /\ UNCHANGED reported
    /\ UNCHANGED asked

\* One frame of the schedule.
periodicTx ==
    /\ model' = [model EXCEPT !.Brake_active = FALSE, !.Kl_15 = TRUE, !.TCS_active = FALSE]
    /\ UNCHANGED <<uplink, asked, reported>>
    /\ \E id \in FrameIds : Sends(id)

\* The frame 0x2C5 in which the inverter reports the torque it can give, either
\* way.
Report(limit) == Saying(limit + 1024, 11, 11) \cup Saying(1024 - limit, 16, 11)

\* Mutant: the lower limit is left as it is.
Derated_bug(payload) == [model EXCEPT !.M_max = Number(Unpack(payload, 11, 11)) - 1024]

\* updateFromCAN puts both limits where apply_limit_fields puts the panel's.
Derated(payload) ==
    [model EXCEPT !.M_max = Number(Unpack(payload, 11, 11)) - 1024,
                  !.M_min = Number(Unpack(payload, 16, 11)) - 1024]

DeratingStatus ==
    /\ \E limit \in Reports : model' = Derated(Report(limit)) /\ reported' = limit
    /\ UNCHANGED <<uplink, bus, asked>>

-----------------------------------------------------------------------------

PathInit ==
    /\ uplink = <<>>
    /\ model = [Kl_15 |-> TRUE, En_Is |-> FALSE, Brake_active |-> FALSE, TCS_active |-> FALSE,
                MotorCtrl |-> 0, GearCtrl |-> 0, M_desired |-> 0, SurgeDamperState |-> 2,
                M_max |-> 450, M_min |-> -450, M_grad_max |-> 4200, n_max |-> 1000,
                Isd |-> 0, Isq |-> 0]
    /\ bus = [id |-> Nothing, payload |-> {}]
    /\ asked = [mode |-> Nothing, setpoint |-> Nothing, enable |-> FALSE, Iq |-> 0,
                M_max |-> Nothing, gear |-> Nothing]
    /\ reported = Nothing

Operator(panel) ==
    \/ SendAll(panel)
    \/ SendControlNow(panel)
    \/ SendLimitsNow(panel)
    \/ SendTorqueNow(panel)
    \/ ApplyMode(panel)
    \/ SetGear(panel)

Server == handleCommand \/ periodicTx \/ DeratingStatus

PathNext == Server \/ \E panel \in Panel : Operator(panel)

PathSpec == PathInit /\ [][PathNext]_pathVars

-----------------------------------------------------------------------------

PathTypeOK ==
    /\ DOMAIN model = {"Kl_15", "En_Is", "Brake_active", "TCS_active", "MotorCtrl", "GearCtrl",
                       "M_desired", "SurgeDamperState", "M_max", "M_min", "M_grad_max",
                       "n_max", "Isd", "Isq"}
    /\ \A f \in {"M_desired", "M_max", "Isq"} : model[f] \in Int
    /\ Len(uplink) <= MaxUplink
    /\ bus.payload \subseteq 0 .. 63

\* A frame that goes out when every command has been handled.
Settled(id) == bus' # bus /\ bus'.id = id /\ uplink' = <<>>

\* When every command has been handled, the current the inverter reads is the
\* one last asked for, and it is enabled exactly when the last button that
\* concerns it asked for currents.
CurrentAsAsked ==
    [][Settled("0x300") =>
         /\ CurrentEnabled(bus'.payload) = asked.enable
         /\ asked.enable => IqCommand(bus'.payload) = asked.Iq]_pathVars

\* Likewise the state requested, the gear, and in speed mode the setpoint, which
\* 0x046 carries as a torque of one Nm for each 15.675 rpm.
ControlAsAsked ==
    [][Settled("0x046") =>
         /\ asked.mode # Nothing =>
                RequestedState(bus'.payload) = MOTOR_MODE_MAP[asked.mode]
         /\ asked.gear # Nothing => ActualGear(bus'.payload) = GEAR_MAP[asked.gear]
         /\ asked.mode = "speed" =>
                DesiredTorque(bus'.payload) = Truncate(1000 * asked.setpoint, 15675)]_pathVars

\* In torque mode the inverter is asked for the torque of the panel.
TorqueAsAsked ==
    [][Settled("0x046") /\ asked.mode = "torque" =>
         DesiredTorque(bus'.payload) = asked.setpoint]_pathVars

\* The torque limits 0x047 carries: once the inverter has reported one, the one
\* it reported last, either way, until limits sent from the panel have come in;
\* then those set last.  Never one of each, and the other limits arrive as set.
LimitsAsSet ==
    [][Settled("0x047") =>
         /\ IF reported' # Nothing
            THEN MaxTorque(bus'.payload) = reported' /\ MinTorque(bus'.payload) = - reported'
            ELSE asked.M_max # Nothing =>
                   MaxTorque(bus'.payload) = asked.M_max /\ MinTorque(bus'.payload) = -50
         /\ asked.M_max # Nothing =>
                TorqueGradient(bus'.payload) = Truncate(50, 32) /\ MaxSpeed(bus'.payload) = 1000]_pathVars
============================================================================
