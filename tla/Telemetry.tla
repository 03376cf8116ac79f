----------------------------- MODULE Telemetry -----------------------------
(***************************************************************************)
(* What the server shows of what the inverter says: the frames of the      *)
(* inverter as the DBC file lays them out, their decoding into the data    *)
(* model by MarathonLogic::updateFromCAN, and the JSON object in which     *)
(* serializeData gives the data model to the panel.                        *)
(*                                                                         *)
(* Each value is an integer in the unit of the signal's DBC factor (tenths *)
(* of a volt, 0.0001 rad), so the factors, which agree, drop out.  One key *)
(* of the JSON object is watched while all the frames come in.             *)
(* MCU_Status's Isd and Isq are halves of an ampere; ns is the speed in    *)
(* rpm, a factor of that in rad/s.  The flags computed from a field        *)
(* decoded here and the amplitude are left out, and so are the keys that   *)
(* show a request or the mode.  M_max and M_min are among those: besides   *)
(* updateFromCAN, SendLimits and ConfigManager::load write them, and what  *)
(* becomes of them is in OperatorPath.                                     *)
(***************************************************************************)
EXTENDS DriveFrames

CONSTANTS
    Hottest,    \* the highest temperature the inverter reports
    Raws,       \* what the inverter may say: a raw value for every field
    Unsaid

ASSUME HottestAssumption == Hottest \in -50 .. 205
ASSUME UnsaidAssumption == Unsaid \notin Int

(***************************************************************************)
(* The DBC file: field -> message, start bit, length, offset.              *)
(***************************************************************************)

SignalAt(id, start, length, offset) ==
    [id |-> id, start |-> start, length |-> length, offset |-> offset]

DBC ==
    [ Ms |-> SignalAt("0x07A", 7, 11, -1024),
      Udc |-> SignalAt("0x07A", 12, 10, 0),
      Is |-> SignalAt("0x07A", 18, 11, -1024),
      Wmechanical |-> SignalAt("0x07A", 39, 16, -32768),
      MCU_IGBTTempU |-> SignalAt("0x07B", 7, 8, -50),
      MCU_IGBTTempV |-> SignalAt("0x07B", 15, 8, -50),
      MCU_IGBTTempW |-> SignalAt("0x07B", 23, 8, -50),
      MCU_IGBTTempMax |-> SignalAt("0x07B", 31, 8, -50),
      MCU_TempCurrCool |-> SignalAt("0x07C", 7, 8, -50),
      MCU_TempCurrStr |-> SignalAt("0x07C", 31, 8, -50),
      MCU_OfsAl |-> SignalAt("0x07D", 7, 12, 0),
      MCU_Isd |-> SignalAt("0x07D", 11, 12, -2047),
      MCU_Isq |-> SignalAt("0x07D", 31, 12, -2047),
      MCU_bDmpCActv |-> SignalAt("0x07D", 35, 1, 0),
      MCU_stGateDrv |-> SignalAt("0x07D", 34, 2, 0),
      MCU_DmpCTrqCurr |-> SignalAt("0x07D", 55, 8, -125),
      MCU_VCUWorkMode |-> SignalAt("0x07D", 59, 4, 0),
      Ud |-> SignalAt("0x07E", 7, 16, -32760),
      Uq |-> SignalAt("0x07E", 23, 16, -32760),
      Id |-> SignalAt("0x07E", 39, 16, -32760),
      Iq |-> SignalAt("0x07E", 55, 16, -32760),
      ZVTimeStamp |-> SignalAt("0x07F", 7, 16, 0),
      ZVTheta |-> SignalAt("0x07F", 23, 16, 0),
      ZVThetaCorr |-> SignalAt("0x07F", 39, 16, 0),
      ZVTemperature |-> SignalAt("0x080", 7, 9, 0),
      ZVFlux |-> SignalAt("0x080", 14, 16, 0),
      ZVRs |-> SignalAt("0x080", 30, 16, 0),
      ResolverSine |-> SignalAt("0x081", 7, 16, -32768),
      ResolverCosine |-> SignalAt("0x081", 23, 16, -32768),
      ResolverTheta |-> SignalAt("0x081", 39, 16, 0),
      ResolverThetaCorr |-> SignalAt("0x081", 55, 16, 0),
      ResolverFluxPositionError |-> SignalAt("0x082", 7, 16, 0),
      ResolverAppliedCorrection |-> SignalAt("0x082", 23, 16, 0),
      ResolverElectricalSpeed |-> SignalAt("0x082", 39, 16, -32768),
      ResolverCalibrationStatus |-> SignalAt("0x082", 55, 8, 0),
      ResolverCalibrationAckSequence |-> SignalAt("0x082", 63, 8, 0),
      DeratingDischargeCurrent |-> SignalAt("0x2C5", 6, 1, 0),
      DeratingOverVoltage |-> SignalAt("0x2C5", 5, 1, 0),
      DeratingChargeCurrent |-> SignalAt("0x2C5", 1, 1, 0),
      DeratingUnderVoltage |-> SignalAt("0x2C5", 0, 1, 0),
      DeratingSpeed |-> SignalAt("0x2C5", 12, 1, 0),
      M_max |-> SignalAt("0x2C5", 11, 11, -1024),
      M_min |-> SignalAt("0x2C5", 16, 11, -1024),
      McuFailCode |-> SignalAt("0x2C6", 7, 3, 0),
      McuSoftwareFault |-> SignalAt("0x2C6", 15, 19, 0),
      McuHardwareFault |-> SignalAt("0x2C6", 39, 16, 0),
      McuSensorFault |-> SignalAt("0x2C6", 55, 8, 0),
      McuCANFault |-> SignalAt("0x2C6", 63, 8, 0),
      MCU_SW_ver |-> SignalAt("0x49A", 7, 16, 0) ]

Fields == DOMAIN DBC

Messages == { DBC[f].id : f \in Fields }

Temperatures ==
    {"MCU_IGBTTempU", "MCU_IGBTTempV", "MCU_IGBTTempW", "MCU_IGBTTempMax",
     "MCU_TempCurrCool", "MCU_TempCurrStr"}

Top(f) == IF f \in Temperatures THEN Hottest + 50 ELSE 2 ^ DBC[f].length - 1

ASSUME RawsAssumption == \A raw \in Raws : \A f \in Fields : raw[f] \in 0 .. Top(f)

\* The raw values of the signals of a message.
Sayings(id) ==
    LET signals == { f \in Fields : DBC[f].id = id }
    IN  { [f \in signals |-> raw[f]] : raw \in Raws }

\* The frame in which the inverter says them.
Frame(raw) ==
    UNION { Saying(raw[f], DBC[f].start, DBC[f].length) : f \in DOMAIN raw }

-----------------------------------------------------------------------------

(***************************************************************************)
(* The code: the cases of updateFromCAN.                                   *)
(***************************************************************************)

Decoder ==
    [ Ms |-> SignalAt("0x07A", 7, 11, -1024),
      Udc |-> SignalAt("0x07A", 12, 10, 0),
      Is |-> SignalAt("0x07A", 18, 11, -1024),
      Wmechanical |-> SignalAt("0x07A", 39, 16, -32768),
      MCU_IGBTTempU |-> SignalAt("0x07B", 7, 8, -50),
      MCU_IGBTTempV |-> SignalAt("0x07B", 15, 8, -50),
      MCU_IGBTTempW |-> SignalAt("0x07B", 23, 8, -50),
      MCU_IGBTTempMax |-> SignalAt("0x07B", 31, 8, -50),
      MCU_TempCurrCool |-> SignalAt("0x07C", 7, 8, -50),
      MCU_TempCurrStr |-> SignalAt("0x07C", 31, 8, -50),
      MCU_OfsAl |-> SignalAt("0x07D", 7, 12, 0),
      MCU_Isd |-> SignalAt("0x07D", 11, 12, -2047),
      MCU_Isq |-> SignalAt("0x07D", 31, 12, -2047),
      MCU_bDmpCActv |-> SignalAt("0x07D", 35, 1, 0),
      MCU_stGateDrv |-> SignalAt("0x07D", 34, 2, 0),
      MCU_DmpCTrqCurr |-> SignalAt("0x07D", 55, 8, -125),
      MCU_VCUWorkMode |-> SignalAt("0x07D", 59, 4, 0),
      Ud |-> SignalAt("0x07E", 7, 16, -32760),
      Uq |-> SignalAt("0x07E", 23, 16, -32760),
      Id |-> SignalAt("0x07E", 39, 16, -32760),
      Iq |-> SignalAt("0x07E", 55, 16, -32760),
      ZVTimeStamp |-> SignalAt("0x07F", 7, 16, 0),
      ZVTheta |-> SignalAt("0x07F", 23, 16, 0),
      ZVThetaCorr |-> SignalAt("0x07F", 39, 16, 0),
      ZVTemperature |-> SignalAt("0x080", 7, 9, 0),
      ZVFlux |-> SignalAt("0x080", 14, 16, 0),
      ZVRs |-> SignalAt("0x080", 30, 16, 0),
      ResolverSine |-> SignalAt("0x081", 7, 16, -32768),
      ResolverCosine |-> SignalAt("0x081", 23, 16, -32768),
      ResolverTheta |-> SignalAt("0x081", 39, 16, 0),
      ResolverThetaCorr |-> SignalAt("0x081", 55, 16, 0),
      ResolverFluxPositionError |-> SignalAt("0x082", 7, 16, 0),
      ResolverAppliedCorrection |-> SignalAt("0x082", 23, 16, 0),
      ResolverElectricalSpeed |-> SignalAt("0x082", 39, 16, -32768),
      ResolverCalibrationStatus |-> SignalAt("0x082", 55, 8, 0),
      ResolverCalibrationAckSequence |-> SignalAt("0x082", 63, 8, 0),
      DeratingDischargeCurrent |-> SignalAt("0x2C5", 6, 1, 0),
      DeratingOverVoltage |-> SignalAt("0x2C5", 5, 1, 0),
      DeratingChargeCurrent |-> SignalAt("0x2C5", 1, 1, 0),
      DeratingUnderVoltage |-> SignalAt("0x2C5", 0, 1, 0),
      DeratingSpeed |-> SignalAt("0x2C5", 12, 1, 0),
      M_max |-> SignalAt("0x2C5", 11, 11, -1024),
      M_min |-> SignalAt("0x2C5", 16, 11, -1024),
      McuFailCode |-> SignalAt("0x2C6", 7, 3, 0),
      McuSoftwareFault |-> SignalAt("0x2C6", 15, 19, 0),
      McuHardwareFault |-> SignalAt("0x2C6", 39, 16, 0),
      McuSensorFault |-> SignalAt("0x2C6", 55, 8, 0),
      McuCANFault |-> SignalAt("0x2C6", 63, 8, 0),
      MCU_SW_ver |-> SignalAt("0x49A", 7, 16, 0) ]

\* static_cast<int8_t>
ToInt8(n) == IF n > 127 THEN n - 256 ELSE n

Int8Fields == Temperatures \ {"MCU_TempCurrStr"}

\* Mutant: the wrong way round.
UnwrapAngle_bug(n) == IF n > 31415 THEN 62832 - n ELSE n

\* unwrapAngle, pi and 2 pi in units of 0.0001
UnwrapAngle(n) == IF n > 31415 THEN n - 62832 ELSE n

AngleFields == {"ResolverFluxPositionError", "ResolverAppliedCorrection"}

\* The value a frame gives a field.
Decoded(f, payload) ==
    LET s == Decoder[f]
        n == Number(Unpack(payload, s.start, s.length))
    IN  CASE f \in Int8Fields  -> ToInt8(n) + s.offset
          [] f \in AngleFields -> UnwrapAngle(n)
          [] OTHER             -> n + s.offset

\* The keys that show what the inverter says and nobody else: the software
\* version is not sent, and the limits are the panel's and the file's too.
Keys ==
    (Fields \ {"MCU_SW_ver", "M_max", "M_min"})
      \cup {"ns", "Flux", "Temperature", "Rs", "motorRs"}

\* Mutant: the resistance is sent under the name of the flux.
serializeData_bug ==
    [k \in Keys |->
        CASE k = "ns" -> "Wmechanical"
          [] k = "Temperature" -> "ZVTemperature"
          [] k \in {"Flux", "Rs", "motorRs"} -> "ZVRs"
          [] OTHER -> k]

\* The field each shows.
serializeData ==
    [k \in Keys |->
        CASE k = "ns" -> "Wmechanical"
          [] k = "Flux" -> "ZVFlux"
          [] k = "Temperature" -> "ZVTemperature"
          [] k \in {"Rs", "motorRs"} -> "ZVRs"
          [] OTHER -> k]

VARIABLES
    watched,    \* the key watched
    said,       \* what the inverter last said of what the panel reads there
    kept,       \* what the data model holds in the field sent there
    shown,      \* what the last JSON object has there
    meant       \* what the inverter had said by then

telemetryVars == <<watched, said, kept, shown, meant>>

\* The signal the panel takes a key for (state.py, FIELD_ALIASES; telemetry.py).
Meant ==
    [k \in Keys |->
        CASE k = "ns" -> "Wmechanical"
          [] k = "Flux" -> "ZVFlux"
          [] k = "Temperature" -> "ZVTemperature"
          [] k \in {"Rs", "motorRs"} -> "ZVRs"
          [] OTHER -> k]

TelemetryInit ==
    /\ watched \in Keys
    /\ said = Unsaid /\ kept = Unsaid /\ shown = Unsaid /\ meant = Unsaid

updateFromCAN ==
    /\ \E id \in Messages : \E raw \in Sayings(id) :
         LET signal == Meant[watched]
             field == serializeData[watched]
         IN  /\ said' = IF DBC[signal].id = id THEN raw[signal] + DBC[signal].offset
                        ELSE said
             /\ kept' = IF Decoder[field].id = id THEN Decoded(field, Frame(raw)) ELSE kept
    /\ UNCHANGED <<watched, shown, meant>>

\* The updater thread's next JSON object.
SendTelemetry ==
    /\ shown' = kept /\ meant' = said
    /\ UNCHANGED <<watched, said, kept>>

TelemetryNext == updateFromCAN \/ SendTelemetry

TelemetrySpec == TelemetryInit /\ [][TelemetryNext]_telemetryVars

-----------------------------------------------------------------------------

\* An angle between -pi and pi that differs from another by no or one turn.
IsAngleOf(value, angle) ==
    value \in {angle, angle - 62832} /\ -31416 <= value /\ value <= 31416

\* The JSON object shows what the inverter said last, an angle between -pi and
\* pi.
ShownIsSaid ==
    IF Meant[watched] \in AngleFields /\ meant # Unsaid
    THEN IsAngleOf(shown, meant)
    ELSE shown = meant
============================================================================
