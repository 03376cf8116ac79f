------------------------------ MODULE MCParts ------------------------------
(***************************************************************************)
(* The modules that share no state: the filling of a frame, the decoding   *)
(* of the inverter's frames, the way from the panel to the bus, the        *)
(* configuration file, CAN_DBC_MODULE, the oscilloscope driver and the     *)
(* timing of a session.  In a behaviour one of them moves and the others   *)
(* rest, so the state space is the sum of theirs.                          *)
(***************************************************************************)
EXTENDS Payload, MCTelemetry, OperatorPath, ConfigFile, DbcModule, Oscilloscope,
        TxSchedule, TLC

Message_MC == {"control", "limits", "current", "calibration", "telemetry"}

Sig(start, length) == [start |-> start, length |-> length]

\* CommandSender::sendControlCommand, sendLimitCommand, sendTorqueCommand,
\* sendResolverCalibrationCommand; MarathonLogic::updateFromCAN, 0x07A.
Layout_MC ==
    [m \in Message_MC |->
        CASE m = "control"     -> { Sig(8, 1), Sig(7, 11), Sig(10, 2), Sig(11, 1),
                                    Sig(47, 4), Sig(23, 1), Sig(22, 3), Sig(51, 4), Sig(63, 8) }
          [] m = "limits"      -> { Sig(7, 11), Sig(12, 14), Sig(30, 11), Sig(35, 8),
                                    Sig(51, 4), Sig(63, 8), Sig(43, 5) }
          [] m = "current"     -> { Sig(7, 16), Sig(23, 16), Sig(39, 1), Sig(51, 4), Sig(63, 8) }
          [] m = "calibration" -> { Sig(7, 16), Sig(23, 8), Sig(31, 8), Sig(47, 16) }
          [] m = "telemetry"   -> { Sig(7, 11), Sig(12, 10), Sig(18, 11), Sig(39, 16) } ]

\* All bits set, and a pattern.
Raw_MC == [n \in 1 .. 24 |-> { 0 .. n - 1, {0, 2, 5, 9} \cap (0 .. n - 1) }]

\* The fields whose names in the file are those load asks for.
ByHand_MC == { f \in ConfigFields : ShippedName[f] = ConfigKeys[f].name }

txArr_MC == <<"MCU_VCU_1", "MCU_DeratingStatus">>
cycleTime_MC == ("MCU_VCU_1" :> 1) @@ ("MCU_DeratingStatus" :> 2)
rxArr_MC == {"VCU_MCU01"}
RxPacket_MC == {<<"VCU_MCU01", 1>>, <<"DCDC_Status", 2>>}

-----------------------------------------------------------------------------

VARIABLE part

PartsInit ==
    /\ Init /\ TelemetryInit /\ PathInit /\ ConfigInit /\ DbcInit /\ ScopeInit /\ TxInit
    /\ part \in {"payload", "telemetry", "path", "config", "dbc", "scope", "timing"}
    /\ part = "payload" \/ message = "current"
    /\ part = "telemetry" \/ watched = "Ms"
    /\ part = "config" \/ entry = "Kl_15"

PartsNext ==
    \/ /\ part = "payload" /\ Next
       /\ UNCHANGED <<part, telemetryVars, pathVars, configVars, dbcVars, scopeVars, txVars>>
    \/ /\ part = "telemetry" /\ TelemetryNext
       /\ UNCHANGED <<part, vars, pathVars, configVars, dbcVars, scopeVars, txVars>>
    \/ /\ part = "path" /\ PathNext
       /\ UNCHANGED <<part, vars, telemetryVars, configVars, dbcVars, scopeVars, txVars>>
    \/ /\ part = "config" /\ ConfigNext
       /\ UNCHANGED <<part, vars, telemetryVars, pathVars, dbcVars, scopeVars, txVars>>
    \/ /\ part = "dbc" /\ DbcNext
       /\ UNCHANGED <<part, vars, telemetryVars, pathVars, configVars, scopeVars, txVars>>
    \/ /\ part = "scope" /\ ScopeNext
       /\ UNCHANGED <<part, vars, telemetryVars, pathVars, configVars, dbcVars, txVars>>
    \/ /\ part = "timing" /\ TxNext
       /\ UNCHANGED <<part, vars, telemetryVars, pathVars, configVars, dbcVars, scopeVars>>

PartsSpec ==
    PartsInit
      /\ [][PartsNext]_<<part, vars, telemetryVars, pathVars, configVars, dbcVars, scopeVars, txVars>>
============================================================================
