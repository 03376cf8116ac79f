------------------------- MODULE StateMachineProofs -------------------------
(***************************************************************************)
(* Proofs about the control core, for every value of its constants.        *)
(***************************************************************************)
EXTENDS StateMachine, TLAPS

USE DEF Ids, State, Configs

\* The frames the senders build are frames.
LEMMA FrameTypes ==
  ASSUME NEW m \in Modes, NEW d \in Setpoints, NEW e \in BOOLEAN, NEW i \in Currents
  PROVE  /\ ControlFrame(m, d) \in [MotorCtrl : Modes, M_desired : Setpoints]
         /\ CurrentFrame(e, i) \in [En_Is : BOOLEAN, Idq : Currents]
         /\ Released \in [MotorCtrl : Modes, M_desired : Setpoints]
         /\ Disabled \in [En_Is : BOOLEAN, Idq : Currents]
  BY ModesAssumption, SetpointsAssumption, CurrentsAssumption
     DEF ControlFrame, CurrentFrame, Released, Disabled

WiresOK ==
  /\ wireControl \in [MotorCtrl : Modes, M_desired : Setpoints]
  /\ wireCurrent \in [En_Is : BOOLEAN, Idq : Currents]
  /\ wireResolver \in BOOLEAN
  /\ dropped \in SUBSET Ids

RequestsOK ==
  /\ En_Is \in BOOLEAN /\ Idq \in Currents /\ MotorCtrl \in Modes
  /\ M_desired \in Setpoints /\ ResolverEnabled \in BOOLEAN

\* A write of frames leaves frames on the wire.
LEMMA WriteTypes ==
  ASSUME WiresOK,
         NEW sent \in SUBSET Ids, NEW lost \in SUBSET Ids,
         NEW c \in [MotorCtrl : Modes, M_desired : Setpoints],
         NEW u \in [En_Is : BOOLEAN, Idq : Currents],
         NEW r \in BOOLEAN,
         Write(sent, lost, c, u, r)
  PROVE  WiresOK'
  BY DEF WiresOK, Write

\* A frame that is written leaves the bus well formed.
LEMMA WriteOneTypes ==
  ASSUME WiresOK,
         NEW id \in Ids,
         NEW c \in [MotorCtrl : Modes, M_desired : Setpoints],
         NEW u \in [En_Is : BOOLEAN, Idq : Currents],
         NEW r \in BOOLEAN,
         WriteOne(id, c, u, r)
  PROVE  WiresOK'
<1>1. CASE UNCHANGED wires
  BY <1>1 DEF WiresOK, wires
<1>2. CASE Write({id}, {}, c, u, r)
  BY <1>2, WriteTypes
<1>3. CASE Write({}, {id}, c, u, r)
  BY <1>3, WriteTypes
<1> QED
  BY <1>1, <1>2, <1>3 DEF WriteOne

\* Asking for the safe state keeps the types,
LEMMA DisableTypes ==
  ASSUME WiresOK, sendSafeDisable
  PROVE  WiresOK' /\ RequestsOK'
<1>1. RequestsOK'
  BY ModesAssumption, SetpointsAssumption, CurrentsAssumption
     DEF sendSafeDisable, ClearRequests, RequestsOK
<1>2. CASE UNCHANGED wires
  BY <1>1, <1>2 DEF WiresOK, wires
<1>3. ASSUME NEW lost \in SUBSET MayFail,
             Write(Ids \ lost, lost, Released, Disabled, FALSE)
      PROVE  WiresOK'
  <2>1. Released \in [MotorCtrl : Modes, M_desired : Setpoints]
    BY ModesAssumption, SetpointsAssumption DEF Released, ControlFrame
  <2>2. Disabled \in [En_Is : BOOLEAN, Idq : Currents]
    BY CurrentsAssumption DEF Disabled, CurrentFrame
  <2> QED
    BY <1>3, <2>1, <2>2, WriteTypes, FaultAssumption
<1> QED
  BY <1>1, <1>2, <1>3 DEF sendSafeDisable

\* as does changing the state.
LEMMA SetStateTypes ==
  ASSUME WiresOK, RequestsOK, NEW new \in State, setState(new)
  PROVE  /\ WiresOK' /\ RequestsOK'
         /\ transmitEnabled' \in BOOLEAN /\ currentState' \in State
<1>1. CASE new # "Read2" /\ transmitEnabled
  BY <1>1, DisableTypes DEF setState
<1>2. CASE ~(new # "Read2" /\ transmitEnabled)
  BY <1>2 DEF setState, WiresOK, RequestsOK, requests, wires
<1> QED
  BY <1>1, <1>2

Asks == {"setpoint", "enable", "current"}

\* What was asked is among what can be asked,
LEMMA AskedTypes ==
  ASSUME asked \in SUBSET Asks, NEW new \in SUBSET Asks, NEW erased,
         Asked(new, erased)
  PROVE  asked' \in SUBSET Asks
  BY DEF Asked

\* such as a set point or a current.
LEMMA AsksTypes ==
  ASSUME NEW d, NEW e \in BOOLEAN, NEW i
  PROVE  AsksSetpoint(d) \in SUBSET Asks /\ AsksCurrent(e, i) \in SUBSET Asks
  BY DEF AsksSetpoint, AsksCurrent, Asks

\* The periodic frames are well formed,
LEMMA PeriodicTypes ==
  ASSUME WiresOK, RequestsOK', periodicTx
  PROVE  WiresOK'
<1>1. CASE UNCHANGED wires
  BY <1>1 DEF WiresOK, wires
<1>2. ASSUME NEW due \in SUBSET {id \in Ids : id = "resolver" => ResolverEnabled'},
             NEW lost \in SUBSET (due \cap MayFail),
             Write(due \ lost, lost, ControlFrame(MotorCtrl', M_desired'),
                   CurrentFrame(En_Is', Idq'), TRUE)
      PROVE  WiresOK'
  <2>1. ControlFrame(MotorCtrl', M_desired') \in [MotorCtrl : Modes, M_desired : Setpoints]
    BY DEF RequestsOK, ControlFrame
  <2>2. CurrentFrame(En_Is', Idq') \in [En_Is : BOOLEAN, Idq : Currents]
    BY DEF RequestsOK, CurrentFrame
  <2>3. due \ lost \in SUBSET Ids /\ lost \in SUBSET Ids
    OBVIOUS
  <2> QED
    BY <1>2, <2>1, <2>2, <2>3, WriteTypes
<1> QED
  BY <1>1, <1>2 DEF periodicTx

\* and those of an update.
LEMMA LimitTypes ==
  ASSUME WiresOK, asked \in SUBSET Asks,
         En_Is' \in BOOLEAN, MotorCtrl' \in Modes, ResolverEnabled' \in BOOLEAN,
         NEW was \in BOOLEAN, NEW i \in Currents, NEW d \in Setpoints,
         LimitAndTransmit(was, i, d)
  PROVE  /\ WiresOK' /\ RequestsOK' /\ asked' \in SUBSET Asks
         /\ isOverSpeed' \in BOOLEAN
<1>1. isOverSpeed' \in BOOLEAN
  BY DEF LimitAndTransmit, OverSpeed, TooFast
<1>2. RequestsOK'
  BY CurrentsAssumption, SetpointsAssumption DEF LimitAndTransmit, RequestsOK
<1>3. WiresOK'
  BY <1>2, PeriodicTypes DEF LimitAndTransmit
<1>4. asked' \in SUBSET Asks
  BY DEF LimitAndTransmit, Asked
<1> QED
  BY <1>1, <1>2, <1>3, <1>4

\* The rest of the state.
CoreOK ==
  /\ session \in {"none", "open", "closing"}
  /\ currentState \in State
  /\ isOverSpeed \in BOOLEAN /\ transmitEnabled \in BOOLEAN
  /\ initialized \in BOOLEAN
  /\ ns \in Speeds /\ n_max \in SpeedLimits
  /\ disk \in Configs
  /\ asked \in SUBSET Asks

\* The types, part by part.
LEMMA TypeParts == TypeOK <=> CoreOK /\ RequestsOK /\ WiresOK
  BY DEF TypeOK, CoreOK, RequestsOK, WiresOK, Asks

\* Stopping the drive keeps the types,
LEMMA StopDriveTypes ==
  ASSUME CoreOK, RequestsOK, WiresOK, StopDrive,
         session' \in {"none", "open", "closing"}
  PROVE  CoreOK' /\ RequestsOK' /\ WiresOK'
<1>1. CASE transmitEnabled
  <2>1. WiresOK' /\ RequestsOK'
    BY <1>1, DisableTypes DEF StopDrive
  <2> QED
    BY <2>1 DEF StopDrive, CoreOK, Asked
<1>2. CASE ~transmitEnabled
  BY <1>2, CurrentsAssumption DEF StopDrive, CoreOK, RequestsOK, WiresOK, wires, Asked
<1> QED
  BY <1>1, <1>2

\* and every command does.
LEMMA CommandTypes ==
  ASSUME CoreOK, RequestsOK, WiresOK, NEW new \in State, Command(new)
  PROVE  CoreOK' /\ RequestsOK' /\ WiresOK'
  BY SetStateTypes, AskedTypes DEF Command, CoreOK

\* TypeOK is inductive on its own.
LEMMA TypeStep ==
  ASSUME CoreOK, RequestsOK, WiresOK, [Next]_vars
  PROVE  CoreOK' /\ RequestsOK' /\ WiresOK'
<1> USE DEF Accepted
<1>1. CASE CmdInit \/ CmdResolverRx \/ CmdStop \/ CmdRead2 \/ CmdSaveCfg
  BY <1>1, CommandTypes DEF CmdInit, CmdResolverRx, CmdStop, CmdRead2, CmdSaveCfg
<1>2. ASSUME NEW m \in Modes, NEW d \in Setpoints, NEW e \in BOOLEAN,
             SendControl(m, d, e)
      PROVE  CoreOK' /\ RequestsOK' /\ WiresOK'
  <2>1. WiresOK'
    BY <1>2, FrameTypes, WriteOneTypes DEF SendControl, WiresOK
  <2>2. asked' \in SUBSET Asks
    BY <1>2, AsksTypes, AskedTypes DEF SendControl, CoreOK
  <2> QED
    BY <1>2, <2>1, <2>2 DEF SendControl, CoreOK, RequestsOK
<1>3. ASSUME NEW e \in BOOLEAN, NEW i \in Currents, SendTorque(e, i)
      PROVE  CoreOK' /\ RequestsOK' /\ WiresOK'
  <2>1. WiresOK'
    BY <1>3, FrameTypes, WriteOneTypes DEF SendTorque, WiresOK
  <2>2. asked' \in SUBSET Asks
    BY <1>3, AsksTypes, AskedTypes DEF SendTorque, CoreOK
  <2> QED
    BY <1>3, <2>1, <2>2 DEF SendTorque, CoreOK, RequestsOK
<1>4. ASSUME NEW n \in SpeedLimits, SendLimits(n)
      PROVE  CoreOK' /\ RequestsOK' /\ WiresOK'
  BY <1>4 DEF SendLimits, CoreOK, RequestsOK, WiresOK, requests, wires
<1>5. CASE SetResolverCorrection
  <2>1. WiresOK'
    BY <1>5, WriteOneTypes DEF SetResolverCorrection, WiresOK
  <2> QED
    BY <1>5, <2>1 DEF SetResolverCorrection, CoreOK, RequestsOK
<1>6. CASE DisableResolverCorrection
  <2>1. WiresOK'
    BY <1>6, WriteOneTypes DEF DisableResolverCorrection, WiresOK
  <2> QED
    BY <1>6, <2>1 DEF DisableResolverCorrection, CoreOK, RequestsOK
<1>7. ASSUME NEW m \in Modes, NEW e \in BOOLEAN, MalformedControl(m, e)
      PROVE  CoreOK' /\ RequestsOK' /\ WiresOK'
  BY <1>7, AsksTypes DEF MalformedControl, CoreOK, RequestsOK, WiresOK, wires
<1>8. ASSUME NEW e \in BOOLEAN, NEW i \in Currents, MalformedTorque(e, i)
      PROVE  CoreOK' /\ RequestsOK' /\ WiresOK'
  BY <1>8, AsksTypes DEF MalformedTorque, CoreOK, RequestsOK, WiresOK, wires
<1>9. CASE Connect \/ ReaderError
  BY <1>9 DEF Connect, ReaderError, CoreOK, RequestsOK, WiresOK, requests, wires
<1>10. CASE UpdateInit
  <2>1. CASE initialized'
    <3>1. /\ WiresOK' /\ RequestsOK' /\ asked' \in SUBSET Asks
          /\ isOverSpeed' \in BOOLEAN
      BY <1>10, <2>1, LimitTypes, ModesAssumption, CurrentsAssumption,
         SetpointsAssumption DEF UpdateInit, CoreOK
    <3> QED
      BY <1>10, <2>1, <3>1 DEF UpdateInit, Updating, CoreOK
  <2>2. CASE ~initialized'
    BY <1>10, <2>2, ModesAssumption, CurrentsAssumption, SetpointsAssumption
       DEF UpdateInit, Updating, CoreOK, RequestsOK, WiresOK, wires, Asked
  <2> QED
    BY <2>1, <2>2
<1>11. CASE UpdateRead2
  <2>1. /\ WiresOK' /\ RequestsOK' /\ asked' \in SUBSET Asks
        /\ isOverSpeed' \in BOOLEAN
    BY <1>11, LimitTypes DEF UpdateRead2, CoreOK, RequestsOK
  <2> QED
    BY <1>11, <2>1 DEF UpdateRead2, Updating, Receive, CoreOK
<1>12. CASE UpdateResolverRxInit
  BY <1>12 DEF UpdateResolverRxInit, Updating, CoreOK, RequestsOK, WiresOK,
               requests, wires, Asked
<1>13. CASE UpdateResolverRx
  BY <1>13 DEF UpdateResolverRx, Updating, Receive, CoreOK, RequestsOK, WiresOK,
               requests, wires
<1>14. CASE UpdateStop
  BY <1>14, StopDriveTypes DEF UpdateStop, Updating, CoreOK
<1>15. CASE UpdateSaveCfg
  <2>1. /\ WiresOK' /\ RequestsOK'
        /\ transmitEnabled' \in BOOLEAN /\ currentState' \in State
    BY <1>15, SetStateTypes DEF UpdateSaveCfg
  <2>2. disk' \in Configs
    BY <1>15 DEF UpdateSaveCfg, RequestsOK, CoreOK
  <2> QED
    BY <1>15, <2>1, <2>2 DEF UpdateSaveCfg, Updating, CoreOK, Asked
<1>16. CASE EndSession
  BY <1>16, StopDriveTypes DEF EndSession
<1>17. CASE Restart
  <2>1. RequestsOK'
    BY <1>17, ModesAssumption, SetpointsAssumption DEF Restart, CoreOK, RequestsOK
  <2> QED
    BY <1>17, <2>1, SpeedsAssumption DEF Restart, CoreOK, WiresOK
<1>18. CASE UNCHANGED vars
  BY <1>18 DEF vars, requests, wires, CoreOK, RequestsOK, WiresOK
<1> QED
  BY <1>1, <1>2, <1>3, <1>4, <1>5, <1>6, <1>7, <1>8, <1>9, <1>10, <1>11, <1>12,
     <1>13, <1>14, <1>15, <1>16, <1>17, <1>18 DEF Next, Client, Update

\* They hold when the program starts.
LEMMA TypeInit == Init => CoreOK /\ RequestsOK /\ WiresOK
<1> SUFFICES ASSUME Init PROVE CoreOK /\ RequestsOK /\ WiresOK
  OBVIOUS
<1>1. disk \in Configs
  BY BootAssumption DEF Init
<1>2. CoreOK
  BY <1>1, SpeedsAssumption DEF Init, CoreOK
<1>3. RequestsOK
  BY <1>1, ModesAssumption, SetpointsAssumption DEF Init, RequestsOK
<1>4. /\ Released \in [MotorCtrl : Modes, M_desired : Setpoints]
      /\ Disabled \in [En_Is : BOOLEAN, Idq : Currents]
  BY ModesAssumption, SetpointsAssumption, CurrentsAssumption
     DEF Released, Disabled, ControlFrame, CurrentFrame
<1>5. WiresOK
  BY <1>4 DEF Init, WiresOK
<1> QED
  BY <1>2, <1>3, <1>5

\* Every variable keeps its type, whatever the client sends and in whatever
\* order, whichever writes the driver refuses and whenever the process dies.
THEOREM TypeCorrect == Spec => []TypeOK
<1>1. Init => TypeOK
  BY TypeInit, TypeParts
<1>2. TypeOK /\ [Next]_vars => TypeOK'
  <2> SUFFICES ASSUME TypeOK, [Next]_vars PROVE TypeOK'
    OBVIOUS
  <2>1. CoreOK' /\ RequestsOK' /\ WiresOK'
    BY TypeStep, TypeParts
  <2> QED
    BY <2>1 DEF TypeOK, CoreOK, RequestsOK, WiresOK, Asks
<1> QED
  BY <1>1, <1>2, PTL DEF Spec

-----------------------------------------------------------------------------
(* The gate.                                                               *)

\* Every step leaves the gate open in Read2 alone.
LEMMA GateStep ==
  ASSUME TxOnlyInNormal, transmitEnabled \in BOOLEAN, [Next]_vars
  PROVE  TxOnlyInNormal'
<1> USE DEF TxOnlyInNormal
<1>1. ASSUME NEW new, Command(new) PROVE TxOnlyInNormal'
  BY <1>1 DEF Command, setState
<1>2. CASE CmdInit \/ CmdResolverRx \/ CmdStop \/ CmdRead2 \/ CmdSaveCfg
  BY <1>1, <1>2 DEF CmdInit, CmdResolverRx, CmdStop, CmdRead2, CmdSaveCfg
<1>3. CASE UNCHANGED <<currentState, transmitEnabled>>
  BY <1>3
<1>4. CASE Client
  BY <1>2, <1>3, <1>4
     DEF Client, SendControl, SendTorque, SendLimits, SetResolverCorrection,
         DisableResolverCorrection, Accepted, MalformedControl, MalformedTorque,
         Connect, ReaderError
<1>5. CASE Update
  <2>1. CASE UpdateInit
    BY <2>1 DEF UpdateInit
  <2>2. CASE UpdateRead2 \/ UpdateResolverRx
    BY <2>2 DEF UpdateRead2, UpdateResolverRx
  <2>3. CASE UpdateResolverRxInit
    BY <2>3 DEF UpdateResolverRxInit
  <2>4. CASE UpdateStop \/ UpdateSaveCfg
    BY <2>4 DEF UpdateStop, StopDrive, UpdateSaveCfg, setState
  <2> QED
    BY <1>5, <2>1, <2>2, <2>3, <2>4 DEF Update
<1>6. CASE EndSession \/ Restart
  BY <1>6 DEF EndSession, Restart, StopDrive
<1> QED
  BY <1>3, <1>4, <1>5, <1>6 DEF Next, vars

\* The gate is open in Read2 and nowhere else.
THEOREM GateCorrect == Spec => []TxOnlyInNormal
<1>1. Init => TxOnlyInNormal
  BY DEF Init, TxOnlyInNormal
<1>2. TypeOK /\ TxOnlyInNormal /\ [Next]_vars => TxOnlyInNormal'
  BY GateStep DEF TypeOK
<1> QED
  BY <1>1, <1>2, TypeCorrect, PTL DEF Spec

-----------------------------------------------------------------------------
(* The bus behind a closed gate.  QuietWhenBlocked is not inductive: the   *)
(* gate may be open over a closed channel (Reset before Init), and closing *)
(* it then sends nothing.  So nothing live may be on the bus behind a      *)
(* closed channel either.                                                  *)

QuietInv == ~CanSend => QuietBus

\* The disabling frames leave the bus quiet or did not get out.
LEMMA DisableQuiet ==
  ASSUME QuietInv, transmitEnabled \in BOOLEAN, initialized \in BOOLEAN,
         sendSafeDisable
  PROVE  QuietBus'
<1>1. CASE CanSend
  BY <1>1, FaultAssumption DEF sendSafeDisable, Write, QuietBus
<1>2. CASE ~CanSend
  BY <1>2 DEF QuietInv, sendSafeDisable, QuietBus, wires
<1> QED
  BY <1>1, <1>2

\* A change of state leaves the bus quiet unless the gate opens.
LEMMA SetStateQuiet ==
  ASSUME QuietInv, transmitEnabled \in BOOLEAN, initialized \in BOOLEAN,
         NEW new, setState(new), UNCHANGED initialized
  PROVE  QuietInv'
<1>1. CASE new # "Read2" /\ transmitEnabled
  BY <1>1, DisableQuiet DEF setState, QuietInv
<1>2. CASE new # "Read2" /\ ~transmitEnabled
  BY <1>2 DEF setState, QuietInv, QuietBus, CanSend, wires
<1>3. CASE new = "Read2"
  BY <1>3 DEF setState, QuietInv, QuietBus, CanSend, wires
<1> QED
  BY <1>1, <1>2, <1>3

\* Stopping the drive leaves it quiet.
LEMMA StopDriveQuiet ==
  ASSUME QuietInv, transmitEnabled \in BOOLEAN, initialized \in BOOLEAN,
         StopDrive
  PROVE  QuietInv'
<1>1. CASE transmitEnabled
  BY <1>1, DisableQuiet DEF StopDrive, QuietInv
<1>2. CASE ~transmitEnabled
  BY <1>2 DEF StopDrive, QuietInv, QuietBus, CanSend, wires
<1> QED
  BY <1>1, <1>2

\* Every step keeps the bus quiet while the gate is shut.
LEMMA QuietStep ==
  ASSUME QuietInv, TxOnlyInNormal, transmitEnabled \in BOOLEAN,
         initialized \in BOOLEAN, [Next]_vars
  PROVE  QuietInv'
<1>1. CASE CmdInit \/ CmdResolverRx \/ CmdStop \/ CmdRead2 \/ CmdSaveCfg
  BY <1>1, SetStateQuiet
     DEF CmdInit, CmdResolverRx, CmdStop, CmdRead2, CmdSaveCfg, Command
<1>2. ASSUME UNCHANGED <<transmitEnabled, initialized>>,
             CanSend \/ UNCHANGED wires
      PROVE  QuietInv'
  BY <1>2 DEF QuietInv, QuietBus, CanSend, wires
<1>3. ASSUME NEW m \in Modes, NEW d \in Setpoints, NEW e \in BOOLEAN,
             SendControl(m, d, e)
      PROVE  QuietInv'
  BY <1>2, <1>3 DEF SendControl, Accepted, WriteOne
<1>4. ASSUME NEW e \in BOOLEAN, NEW i \in Currents, SendTorque(e, i)
      PROVE  QuietInv'
  BY <1>2, <1>4 DEF SendTorque, Accepted, WriteOne
<1>5. ASSUME NEW n \in SpeedLimits, SendLimits(n) PROVE QuietInv'
  BY <1>2, <1>5 DEF SendLimits, Accepted
<1>6. CASE SetResolverCorrection \/ DisableResolverCorrection
  BY <1>2, <1>6
     DEF SetResolverCorrection, DisableResolverCorrection, Accepted, WriteOne
<1>7. ASSUME NEW m \in Modes, NEW e \in BOOLEAN, MalformedControl(m, e)
      PROVE  QuietInv'
  BY <1>2, <1>7 DEF MalformedControl
<1>8. ASSUME NEW e \in BOOLEAN, NEW i \in Currents, MalformedTorque(e, i)
      PROVE  QuietInv'
  BY <1>2, <1>8 DEF MalformedTorque
<1>9. CASE Connect \/ ReaderError
  BY <1>2, <1>9 DEF Connect, ReaderError
<1>10. CASE UpdateInit
  <2>1. CASE initialized'
    BY <1>10, <2>1 DEF UpdateInit, QuietInv, CanSend
  <2>2. CASE ~initialized'
    <3>1. ~transmitEnabled
      BY <1>10 DEF UpdateInit, Updating, TxOnlyInNormal
    <3> QED
      BY <1>10, <2>2, <3>1 DEF UpdateInit, QuietInv, QuietBus, CanSend, wires
  <2> QED
    BY <2>1, <2>2
<1>11. CASE UpdateRead2
  BY <1>2, <1>11 DEF UpdateRead2, LimitAndTransmit, periodicTx, CanSend
<1>12. CASE UpdateResolverRxInit
  <2>1. ~transmitEnabled
    BY <1>12 DEF UpdateResolverRxInit, Updating, TxOnlyInNormal
  <2> QED
    BY <1>12, <2>1 DEF UpdateResolverRxInit, QuietInv, QuietBus, CanSend, wires
<1>13. CASE UpdateResolverRx
  BY <1>2, <1>13 DEF UpdateResolverRx
<1>14. CASE UpdateStop \/ EndSession
  BY <1>14, StopDriveQuiet DEF UpdateStop, EndSession
<1>15. CASE UpdateSaveCfg
  BY <1>15, SetStateQuiet DEF UpdateSaveCfg
<1>16. CASE Restart
  BY <1>16 DEF Restart, QuietInv, QuietBus
<1>17. CASE UNCHANGED vars
  BY <1>2, <1>17 DEF vars
<1> QED
  BY <1>1, <1>3, <1>4, <1>5, <1>6, <1>7, <1>8, <1>9, <1>10, <1>11, <1>12, <1>13,
     <1>14, <1>15, <1>16, <1>17 DEF Next, Client, Update

\* The bus is quiet whenever the gate is shut.
LEMMA QuietInvariant == Spec => []QuietInv
<1>1. Init => QuietInv
  BY DEF Init, QuietInv, QuietBus
<1>2. TypeOK /\ TxOnlyInNormal /\ QuietInv /\ [Next]_vars => QuietInv'
  BY QuietStep DEF TypeOK
<1> QED
  BY <1>1, <1>2, TypeCorrect, GateCorrect, PTL DEF Spec

\* Behind a closed gate the inverter was last told to release, on every id
\* whose frame got out: for every set of writes the driver may refuse, every
\* configuration and every sequence of commands.
THEOREM QuietCorrect == Spec => []QuietWhenBlocked
<1>1. QuietInv => QuietWhenBlocked
  BY DEF QuietInv, QuietWhenBlocked, CanSend
<1> QED
  BY <1>1, QuietInvariant, PTL

-----------------------------------------------------------------------------
(* The contract of the gate.  What is left to show is that no step that    *)
(* opens the gate puts a live command on the bus.                          *)

\* The gate opens on a quiet bus.
LEMMA OpenQuiet ==
  ASSUME QuietInv, TxOnlyInNormal, transmitEnabled = FALSE, [Next]_vars,
         transmitEnabled' = TRUE
  PROVE  QuietBus'
<1>1. QuietBus
  BY DEF QuietInv, CanSend
<1>2. CASE UNCHANGED wires
  BY <1>1, <1>2 DEF QuietBus, wires
<1>3. CASE UpdateInit
  <2>1. initialized' = TRUE /\ LimitAndTransmit(FALSE, 0, 0)
    <3>1. initialized' = TRUE
      BY <1>3 DEF UpdateInit
    <3>2. initialized'
      BY <3>1
    <3> QED
      BY <1>3, <3>1, <3>2, Zenon DEF UpdateInit
  <2>2. /\ MotorCtrl' = 0 /\ M_desired' = 0 /\ En_Is' = FALSE /\ Idq' = 0
        /\ ResolverEnabled' = FALSE
    BY <1>3, <2>1 DEF UpdateInit, LimitAndTransmit
  <2>3. PICK due \in SUBSET {id \in Ids : id = "resolver" => ResolverEnabled'} :
        \E lost \in SUBSET (due \cap MayFail) :
          Write(due \ lost, lost, Released, Disabled, TRUE)
    BY <2>1, <2>2 DEF LimitAndTransmit, periodicTx, CanSend, Released, Disabled
  <2>4. "resolver" \notin due
    BY <2>2
  <2> QED
    BY <1>1, <2>3, <2>4 DEF Write, QuietBus
<1>4. ASSUME NEW new, Command(new) PROVE UNCHANGED wires
  BY <1>4 DEF Command, setState
<1>5. CASE CmdInit \/ CmdResolverRx \/ CmdStop \/ CmdRead2 \/ CmdSaveCfg
  BY <1>2, <1>4, <1>5 DEF CmdInit, CmdResolverRx, CmdStop, CmdRead2, CmdSaveCfg
<1>6. CASE Client
  BY <1>5, <1>6
     DEF Client, SendControl, SendTorque, SendLimits, SetResolverCorrection,
         DisableResolverCorrection, Accepted, MalformedControl, MalformedTorque,
         Connect, ReaderError
<1>7. CASE UpdateRead2 \/ UpdateResolverRxInit \/ UpdateResolverRx
  BY <1>7 DEF UpdateRead2, UpdateResolverRxInit, UpdateResolverRx
<1>8. CASE UpdateStop \/ UpdateSaveCfg \/ EndSession \/ Restart
  BY <1>8 DEF UpdateStop, UpdateSaveCfg, EndSession, Restart, StopDrive, setState
<1> QED
  BY <1>3, <1>6, <1>7, <1>8 DEF Next, Update, vars

\* Every step of the control core is a step of the gate or none.
LEMMA GateSimulation ==
  ASSUME TypeOK, TypeOK', TxOnlyInNormal, QuietInv, QuietInv', [Next]_vars
  PROVE  [Gate!Next]_<<transmitEnabled,
                       IF QuietBus THEN "released" ELSE "live">>
<1> DEFINE bus == IF QuietBus THEN "released" ELSE "live"
<1>1. transmitEnabled \in BOOLEAN /\ transmitEnabled' \in BOOLEAN
  BY DEF TypeOK
<1>2. CASE transmitEnabled /\ transmitEnabled'
  BY <1>1, <1>2 DEF Gate!Next, Gate!Transmit
<1>3. CASE transmitEnabled /\ ~transmitEnabled'
  <2>1. QuietBus'
    BY <1>3 DEF QuietInv, CanSend
  <2> QED
    BY <1>1, <1>3, <2>1 DEF Gate!Next, Gate!Close
<1>4. CASE ~transmitEnabled /\ transmitEnabled'
  <2>1. QuietBus /\ QuietBus'
    BY <1>1, <1>4, OpenQuiet DEF QuietInv, CanSend
  <2> QED
    BY <1>1, <1>4, <2>1 DEF Gate!Next, Gate!Open
<1>5. CASE ~transmitEnabled /\ ~transmitEnabled'
  <2>1. QuietBus /\ QuietBus'
    BY <1>5 DEF QuietInv, CanSend
  <2> QED
    BY <1>1, <1>5, <2>1
<1> QED
  BY <1>1, <1>2, <1>3, <1>4, <1>5

\* The control core implements the contract of CommandGate.
THEOREM GateImplemented == Spec => ImplementsGate
<1>1. Init => Gate!Init
  BY DEF Init, Gate!Init, QuietBus
<1>2. TypeOK /\ TypeOK' /\ TxOnlyInNormal /\ QuietInv /\ QuietInv' /\ [Next]_vars
        => [Gate!Next]_<<transmitEnabled,
                         IF QuietBus THEN "released" ELSE "live">>
  BY GateSimulation
<1> QED
  BY <1>1, <1>2, TypeCorrect, GateCorrect, QuietInvariant, PTL
     DEF Spec, ImplementsGate, Gate!Spec

-----------------------------------------------------------------------------
(* What the server holds and what it enabled, against what was asked.      *)
(* Outside Read2 nothing counts as asked, so nothing may be held there     *)
(* either: this is what makes the properties inductive.  They need an INI  *)
(* file without a current; the file as shipped has none, and no save puts  *)
(* one there.                                                              *)

SafeBoot == \A c \in BootConfigs : ~c.En_Is /\ c.Idq = 0

AskedInv ==
  /\ NothingUnasked
  /\ EnableWasAsked
  /\ currentState # "Read2" => asked = {}

\* The safe values neither enable nor ask for a current.
LEMMA DisabledFields == Disabled.En_Is = FALSE /\ Disabled.Idq = 0
  BY DEF Disabled, CurrentFrame

\* Nothing is held and nothing is enabled outside Read2.
LEMMA HeldOutside ==
  ASSUME AskedInv, TypeOK, currentState # "Read2"
  PROVE  /\ En_Is = FALSE /\ Idq = 0 /\ M_desired = 0
         /\ asked = {} /\ (wireCurrent.En_Is => "current" \in dropped)
  BY DEF AskedInv, NothingUnasked, EnableWasAsked, TypeOK

\* Sending them sends nothing that was not asked for.
LEMMA DisableAsked ==
  ASSUME QuietInv, TypeOK, sendSafeDisable
  PROVE  NothingUnasked' /\ EnableWasAsked'
<1>1. QuietBus'
  BY DisableQuiet DEF TypeOK
<1>2. EnableWasAsked'
  BY <1>1, DisabledFields DEF QuietBus, EnableWasAsked, Disabled, CurrentFrame
<1> QED
  BY <1>2 DEF sendSafeDisable, ClearRequests, NothingUnasked

\* A change of state sends nothing that was not asked for,
LEMMA SetStateAsked ==
  ASSUME AskedInv, QuietInv, TxOnlyInNormal, TypeOK,
         NEW new \in State, setState(new), Asked({}, {})
  PROVE  AskedInv'
<1>1. CASE new # "Read2" /\ transmitEnabled
  BY <1>1, DisableAsked DEF setState, Asked, AskedInv
<1>2. CASE new # "Read2" /\ ~transmitEnabled
  <2>1. currentState # "Read2"
    BY <1>2 DEF TxOnlyInNormal
  <2> QED
    BY <1>2, <2>1, HeldOutside
       DEF setState, Asked, AskedInv, NothingUnasked, EnableWasAsked, requests, wires
<1>3. CASE new = "Read2"
  <2>1. asked' = asked
    BY <1>3 DEF setState, Asked
  <2> QED
    BY <1>3, <2>1
       DEF setState, AskedInv, NothingUnasked, EnableWasAsked, requests, wires
<1> QED
  BY <1>1, <1>2, <1>3

\* nor does stopping the drive,
LEMMA StopDriveAsked ==
  ASSUME AskedInv, QuietInv, TxOnlyInNormal, TypeOK, StopDrive
  PROVE  AskedInv'
<1>1. CASE transmitEnabled
  BY <1>1, DisableAsked DEF StopDrive, Asked, AskedInv
<1>2. CASE ~transmitEnabled
  <2>1. currentState # "Read2"
    BY <1>2 DEF TxOnlyInNormal
  <2> QED
    BY <1>2, <2>1, HeldOutside
       DEF StopDrive, Asked, AskedInv, NothingUnasked, EnableWasAsked, wires
<1> QED
  BY <1>1, <1>2

\* The schedule enables only what the server holds.
LEMMA PeriodicAsked ==
  ASSUME EnableWasAsked, periodicTx, asked' \in SUBSET Asks,
         En_Is' => "enable" \in asked', "enable" \in asked => "enable" \in asked'
  PROVE  EnableWasAsked'
<1>1. CASE UNCHANGED wires
  BY <1>1 DEF EnableWasAsked, wires
<1>2. ASSUME NEW due \in SUBSET {id \in Ids : id = "resolver" => ResolverEnabled'},
             NEW lost \in SUBSET (due \cap MayFail),
             Write(due \ lost, lost, ControlFrame(MotorCtrl', M_desired'),
                   CurrentFrame(En_Is', Idq'), TRUE)
      PROVE  EnableWasAsked'
  <2>1. CASE "current" \in due \ lost
    BY <1>2, <2>1 DEF Write, EnableWasAsked, CurrentFrame
  <2>2. CASE "current" \notin due \ lost
    BY <1>2, <2>2 DEF Write, EnableWasAsked
  <2> QED
    BY <2>1, <2>2
<1> QED
  BY <1>1, <1>2 DEF periodicTx

\* nor an update,
LEMMA LimitAsked ==
  ASSUME EnableWasAsked, asked \in SUBSET Asks, currentState' = "Read2",
         En_Is' \in BOOLEAN, En_Is' => "enable" \in asked,
         NEW was, NEW i, i # 0 => "current" \in asked,
         NEW d, d # 0 => "setpoint" \in asked,
         LimitAndTransmit(was, i, d)
  PROVE  AskedInv'
<1>1. asked' = asked \ (IF isOverSpeed' THEN {"current", "setpoint"} ELSE {})
  BY DEF LimitAndTransmit, Asked
<1>2. NothingUnasked'
  BY <1>1 DEF LimitAndTransmit, NothingUnasked
<1>3. asked' \in SUBSET Asks /\ ("enable" \in asked => "enable" \in asked')
  BY <1>1
<1>4. EnableWasAsked'
  BY <1>1, <1>3, PeriodicAsked DEF LimitAndTransmit
<1> QED
  BY <1>2, <1>4 DEF AskedInv

\* nor any step,
LEMMA AskedStep ==
  ASSUME AskedInv, SavedConfigSafe, QuietInv, TxOnlyInNormal, TypeOK, [Next]_vars
  PROVE  AskedInv'
<1> USE DEF AskedInv, NothingUnasked, EnableWasAsked
<1>1. CASE CmdInit \/ CmdResolverRx \/ CmdStop \/ CmdRead2 \/ CmdSaveCfg
  BY <1>1, SetStateAsked
     DEF CmdInit, CmdResolverRx, CmdStop, CmdRead2, CmdSaveCfg, Command
<1>2. Accepted => currentState = "Read2" /\ currentState' = "Read2"
  BY DEF Accepted, TxOnlyInNormal
<1>3. ASSUME NEW m \in Modes, NEW d \in Setpoints, NEW e \in BOOLEAN,
             SendControl(m, d, e)
      PROVE  AskedInv'
  <2>1. wireCurrent' = wireCurrent /\ ("current" \in dropped => "current" \in dropped')
    BY <1>3 DEF SendControl, WriteOne, Write, wires
  <2>2. asked' = asked \cup AsksSetpoint(d) \cup AsksCurrent(e, 0)
    BY <1>2, <1>3 DEF SendControl, Asked
  <2>3. M_desired' = d /\ En_Is' = e /\ Idq' = Idq /\ currentState' = "Read2"
    BY <1>2, <1>3 DEF SendControl
  <2> QED
    BY <2>1, <2>2, <2>3 DEF AsksSetpoint, AsksCurrent
<1>4. ASSUME NEW e \in BOOLEAN, NEW i \in Currents, SendTorque(e, i)
      PROVE  AskedInv'
  <2>1. asked' = asked \cup AsksCurrent(e, i)
    BY <1>2, <1>4 DEF SendTorque, Asked
  <2>2. /\ En_Is' = e /\ Idq' = i /\ M_desired' = M_desired
        /\ currentState' = "Read2"
    BY <1>2, <1>4 DEF SendTorque
  <2>3. \/ wireCurrent' = CurrentFrame(e, i)
        \/ /\ wireCurrent' = wireCurrent
           /\ "current" \in dropped => "current" \in dropped'
    BY <1>4 DEF SendTorque, WriteOne, Write, wires
  <2> QED
    BY <2>1, <2>2, <2>3 DEF AsksCurrent, CurrentFrame
<1>5. ASSUME NEW n \in SpeedLimits, SendLimits(n) PROVE AskedInv'
  BY <1>5 DEF SendLimits, Accepted, requests, wires
<1>6. CASE SetResolverCorrection \/ DisableResolverCorrection
  <2>1. UNCHANGED <<currentState, En_Is, Idq, M_desired, asked>>
    BY <1>6 DEF SetResolverCorrection, DisableResolverCorrection, Accepted
  <2>2. wireCurrent' = wireCurrent /\ ("current" \in dropped => "current" \in dropped')
    BY <1>6 DEF SetResolverCorrection, DisableResolverCorrection, WriteOne, Write, wires
  <2> QED
    BY <2>1, <2>2
<1>7. ASSUME NEW m \in Modes, NEW e \in BOOLEAN, MalformedControl(m, e)
      PROVE  AskedInv'
  BY <1>7 DEF MalformedControl, AsksCurrent, TxOnlyInNormal, wires
<1>8. ASSUME NEW e \in BOOLEAN, NEW i \in Currents, MalformedTorque(e, i)
      PROVE  AskedInv'
  BY <1>8 DEF MalformedTorque, AsksCurrent, TxOnlyInNormal, wires
<1>9. CASE Connect \/ ReaderError
  BY <1>9 DEF Connect, ReaderError, requests, wires
<1>10. CASE UpdateInit
  <2>1. currentState # "Read2" /\ En_Is' = FALSE
    BY <1>10 DEF UpdateInit, Updating
  <2>2. CASE initialized' = TRUE
    <3>1. initialized'
      BY <2>2
    <3>2. LimitAndTransmit(FALSE, 0, 0) /\ currentState' = "Read2"
      BY <1>10, <3>1, Zenon DEF UpdateInit
    <3> QED
      BY <2>1, <3>2, LimitAsked DEF TypeOK, Asks
  <2>3. CASE initialized' # TRUE
    BY <1>10, <2>1, <2>3, HeldOutside DEF UpdateInit, Asked, wires
  <2> QED
    BY <2>2, <2>3
<1>11. CASE UpdateRead2
  <2>1. LimitAndTransmit(isOverSpeed, Idq, M_desired) /\ currentState' = "Read2"
    BY <1>11 DEF UpdateRead2, Updating
  <2>2. En_Is' = En_Is
    BY <1>11 DEF UpdateRead2
  <2> QED
    BY <2>1, <2>2, LimitAsked DEF TypeOK, Asks
<1>12. CASE UpdateResolverRxInit
  BY <1>12, HeldOutside DEF UpdateResolverRxInit, Updating, Asked, requests, wires
<1>13. CASE UpdateResolverRx
  BY <1>13 DEF UpdateResolverRx, requests, wires
<1>14. CASE UpdateStop \/ EndSession
  BY <1>14, StopDriveAsked DEF UpdateStop, EndSession
<1>15. CASE UpdateSaveCfg
  BY <1>15, SetStateAsked DEF UpdateSaveCfg
<1>16. CASE Restart
  BY <1>16 DEF Restart, SavedConfigSafe
<1>17. CASE UNCHANGED vars
  BY <1>17 DEF vars, requests, wires
<1> QED
  BY <1>1, <1>3, <1>4, <1>5, <1>6, <1>7, <1>8, <1>9, <1>10, <1>11, <1>12, <1>13,
     <1>14, <1>15, <1>16, <1>17 DEF Next, Client, Update

\* Every step leaves a file without a current on the disk.
LEMMA SavedStep ==
  ASSUME AskedInv, SavedConfigSafe, TypeOK, [Next]_vars
  PROVE  SavedConfigSafe'
<1>1. CASE UpdateSaveCfg
  <2>1. En_Is = FALSE /\ Idq = 0
    BY <1>1, HeldOutside DEF UpdateSaveCfg, Updating
  <2> QED
    BY <1>1, <2>1 DEF UpdateSaveCfg, SavedConfigSafe
<1>2. CASE UNCHANGED disk
  BY <1>2 DEF SavedConfigSafe
<1> QED
  BY <1>1, <1>2
     DEF Next, vars, Client, CmdInit, CmdResolverRx, CmdStop, CmdRead2,
         CmdSaveCfg, Command, SendControl, SendTorque, SendLimits,
         SetResolverCorrection, DisableResolverCorrection, Accepted,
         MalformedControl, MalformedTorque, Connect, ReaderError, Update,
         UpdateInit, UpdateRead2, UpdateResolverRxInit, UpdateResolverRx,
         UpdateStop, EndSession, StopDrive, Restart

\* Started from such a file, the server holds and sends nothing unasked.
LEMMA AskedInvariant ==
  ASSUME SafeBoot
  PROVE  Spec => [](AskedInv /\ SavedConfigSafe)
<1>1. Init => AskedInv /\ SavedConfigSafe
  BY SafeBoot
     DEF SafeBoot, Init, AskedInv, NothingUnasked, EnableWasAsked,
         SavedConfigSafe, Disabled, CurrentFrame
<1>2. /\ AskedInv /\ SavedConfigSafe
      /\ TypeOK /\ TxOnlyInNormal /\ QuietInv /\ [Next]_vars
      => (AskedInv /\ SavedConfigSafe)'
  BY AskedStep, SavedStep
<1> QED
  BY <1>1, <1>2, TypeCorrect, GateCorrect, QuietInvariant, PTL DEF Spec

\* With an INI file that holds no current, the server never holds an enable,
\* a current or a setpoint that the client did not ask for.
THEOREM NothingUnaskedCorrect ==
  ASSUME SafeBoot
  PROVE  Spec => []NothingUnasked
<1>1. AskedInv /\ SavedConfigSafe => NothingUnasked
  BY DEF AskedInv
<1> QED
  BY <1>1, AskedInvariant, PTL

\* Nor does it tell the inverter to enable current control unasked, whatever
\* frames get lost.
THEOREM EnableCorrect ==
  ASSUME SafeBoot
  PROVE  Spec => []EnableWasAsked
<1>1. AskedInv /\ SavedConfigSafe => EnableWasAsked
  BY DEF AskedInv
<1> QED
  BY <1>1, AskedInvariant, PTL

\* Nor does it ever save an INI file from which a restart would load one.
THEOREM SavedCorrect ==
  ASSUME SafeBoot
  PROVE  Spec => []SavedConfigSafe
<1>1. AskedInv /\ SavedConfigSafe => SavedConfigSafe
  OBVIOUS
<1> QED
  BY <1>1, AskedInvariant, PTL

-----------------------------------------------------------------------------
(* What a step may never do.                                               *)

\* Nothing leaves in the receive-only mode.
LEMMA RxStep ==
  ASSUME TxOnlyInNormal, isRxOnly, [Next]_vars
  PROVE  UNCHANGED <<wireControl, wireCurrent, wireResolver>>
<1>1. ~transmitEnabled /\ ~CanSend /\ currentState \in {"ResolverRxInit", "ResolverRx"}
  BY DEF TxOnlyInNormal, isRxOnly, CanSend
<1>2. CASE UNCHANGED wires
  BY <1>2 DEF wires
<1>3. ASSUME NEW new, Command(new) PROVE UNCHANGED wires
  BY <1>1, <1>3 DEF Command, setState
<1>4. CASE Client
  <2>1. CASE CmdInit \/ CmdResolverRx \/ CmdStop \/ CmdRead2 \/ CmdSaveCfg
    BY <1>2, <1>3, <2>1 DEF CmdInit, CmdResolverRx, CmdStop, CmdRead2, CmdSaveCfg
  <2>2. CASE DisableResolverCorrection
    BY <1>1, <1>2, <2>2 DEF DisableResolverCorrection, WriteOne
  <2>3. ~Accepted
    BY <1>1 DEF Accepted
  <2>4. CASE Connect \/ ReaderError
    BY <1>2, <2>4 DEF Connect, ReaderError, wires
  <2> QED
    BY <1>1, <1>4, <2>1, <2>2, <2>3, <2>4
       DEF Client, SendControl, SendTorque, SendLimits, SetResolverCorrection,
           MalformedControl, MalformedTorque
<1>5. CASE Update
  BY <1>1, <1>2, <1>5
     DEF Update, UpdateInit, UpdateRead2, UpdateResolverRxInit, UpdateResolverRx,
         UpdateStop, UpdateSaveCfg, Updating
<1>6. CASE EndSession \/ Restart
  BY <1>1, <1>2, <1>6 DEF EndSession, Restart, StopDrive
<1> QED
  BY <1>2, <1>4, <1>5, <1>6 DEF Next, vars

\* The receive-only mode of the resolver is receive-only: no handler, update
\* or teardown puts an application frame on the bus while it lasts.
THEOREM RxOnlyCorrect == Spec => RxOnlySilent
<1>1. TxOnlyInNormal /\ [Next]_vars
        => [isRxOnly => UNCHANGED <<wireControl, wireCurrent, wireResolver>>]_vars
  BY RxStep
<1> QED
  BY <1>1, GateCorrect, PTL DEF Spec, RxOnlySilent

\* Periodic frames sent with nothing asked ask for no current and no torque,
LEMMA PeriodicLimited ==
  ASSUME periodicTx, Idq' = 0, M_desired' = 0
  PROVE  /\ wireCurrent' # wireCurrent => wireCurrent'.Idq = 0
         /\ wireControl' # wireControl => wireControl'.M_desired = 0
<1>1. CASE UNCHANGED wires
  BY <1>1 DEF wires
<1>2. ASSUME NEW sent, NEW lost,
             Write(sent, lost, ControlFrame(MotorCtrl', M_desired'),
                   CurrentFrame(En_Is', Idq'), TRUE)
      PROVE  /\ wireCurrent' # wireCurrent => wireCurrent'.Idq = 0
             /\ wireControl' # wireControl => wireControl'.M_desired = 0
  BY <1>2 DEF Write, ControlFrame, CurrentFrame
<1> QED
  BY <1>1, <1>2 DEF periodicTx

\* nor do the frames of the safe state,
LEMMA DisableLimited ==
  ASSUME sendSafeDisable
  PROVE  /\ wireCurrent' # wireCurrent => wireCurrent'.Idq = 0
         /\ wireControl' # wireControl => wireControl'.M_desired = 0
<1>1. Released.M_desired = 0 /\ Disabled.Idq = 0
  BY DEF Released, Disabled, ControlFrame, CurrentFrame
<1>2. CASE UNCHANGED wires
  BY <1>2 DEF wires
<1>3. ASSUME NEW sent, NEW lost, Write(sent, lost, Released, Disabled, FALSE)
      PROVE  /\ wireCurrent' # wireCurrent => wireCurrent'.Idq = 0
             /\ wireControl' # wireControl => wireControl'.M_desired = 0
  BY <1>1, <1>3 DEF Write
<1> QED
  BY <1>2, <1>3 DEF sendSafeDisable

\* nor those of an update that finds the speed too high.
LEMMA LimitStep ==
  ASSUME Update, TooFast(ns')
  PROVE  /\ wireCurrent' # wireCurrent => wireCurrent'.Idq = 0
         /\ wireControl' # wireControl => wireControl'.M_desired = 0
<1>1. CASE UNCHANGED wires
  BY <1>1 DEF wires
<1>2. ASSUME NEW was, NEW i, NEW d, LimitAndTransmit(was, i, d)
      PROVE  periodicTx /\ Idq' = 0 /\ M_desired' = 0
  <2>1. isOverSpeed'
    BY <1>2 DEF LimitAndTransmit, OverSpeed
  <2> QED
    BY <1>2, <2>1 DEF LimitAndTransmit
<1>3. CASE UpdateInit
  BY <1>1, <1>2, <1>3, PeriodicLimited DEF UpdateInit
<1>4. CASE UpdateRead2
  BY <1>2, <1>4, PeriodicLimited DEF UpdateRead2
<1>5. CASE UpdateResolverRxInit \/ UpdateResolverRx
  BY <1>1, <1>5 DEF UpdateResolverRxInit, UpdateResolverRx
<1>6. CASE UpdateStop \/ UpdateSaveCfg
  BY <1>1, <1>6, DisableLimited
     DEF UpdateStop, StopDrive, UpdateSaveCfg, setState, wires
<1> QED
  BY <1>3, <1>4, <1>5, <1>6 DEF Update

\* No update sends a current or a setpoint at a speed, received in that same
\* update, above the limit: for every limit and every speed.
THEOREM LimitCorrect == Spec => FreshLimit
<1>1. [Next]_vars
        => [Update /\ TooFast(ns') =>
              /\ wireCurrent' # wireCurrent => wireCurrent'.Idq = 0
              /\ wireControl' # wireControl => wireControl'.M_desired = 0]_vars
  BY LimitStep
<1> QED
  BY <1>1, PTL DEF Spec, FreshLimit
=============================================================================
