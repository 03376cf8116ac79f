---------------------------- MODULE MCSelection ----------------------------
(***************************************************************************)
(* The panel's side: the selection of signals over its connection, and the *)
(* life of one client.  In a behaviour one of the two moves and the other  *)
(* rests where it begins, where nothing is owed.                           *)
(***************************************************************************)
EXTENDS SignalSelection, ClientThread, TLC

\* One message the inverter receives, selected whole by default; one it sends,
\* selected in part; one it sends, not selected.
Message_MC == {"VCU_MCU01", "MCU_DeratingStatus", "MCU_FailureCode"}

SignalsOf_MC ==
    ("VCU_MCU01" :> {"VCU_KL15On"}) @@
    ("MCU_DeratingStatus" :> {"MCU_TrqAbsMax", "MCU_bDernN"}) @@
    ("MCU_FailureCode" :> {"MCU_FailCode"})

Line(section, name, direction) ==
    [section |-> section, name |-> name, direction |-> direction]

Lines_MC ==
    { Line("[ENV]", "generated_msgs_dir", "build"),
      Line("[MESSAGE_DIR]", "TcuCmd", ""),
      Line("[MESSAGE_DIR]", "VcuMCU01", "RX"),
      Line("[MESSAGE_DIR]", "McuDeratingStatus", "TX"),
      Line("[MESSAGE_DIR]", "McuFailureCode", "TX"),
      Line("[MESSAGE_DIR]", "McuHardwareNumber", "") }

KeyOf_MC ==
    [n \in {"VCU_MCU01", "VcuMCU01"} |-> "vcumcu01"] @@
    [n \in {"MCU_DeratingStatus", "McuDeratingStatus"} |-> "mcuderatingstatus"] @@
    [n \in {"MCU_FailureCode", "McuFailureCode"} |-> "mcufailurecode"] @@
    [n \in {"TcuCmd", "McuHardwareNumber", "generated_msgs_dir"} |-> "other"]

Defaults_MC == [rx |-> {"MCU_TrqAbsMax"}, tx |-> {"VCU_KL15On"}]

-----------------------------------------------------------------------------

VARIABLE part

PanelInit ==
    /\ Init /\ ClientInit
    /\ part \in {"selection", "client"}
    /\ part = "client" => initialized

PanelNext ==
    \/ part = "selection" /\ Next /\ UNCHANGED <<part, clientVars>>
    \/ part = "client" /\ ClientNext /\ UNCHANGED <<part, vars>>

PanelSpec ==
    /\ PanelInit /\ [][PanelNext]_<<part, vars, clientVars>>
    /\ Fairness /\ ClientFairness
============================================================================
