---------------------------- MODULE CommandGate -----------------------------
(***************************************************************************)
(* What the server promises about its CAN commands, whatever its states,   *)
(* handlers and threads: there is one gate.  Commands reach the bus only   *)
(* while it is open, opening it commands nothing, and the step that closes *)
(* it leaves the inverter released.                                        *)
(*                                                                         *)
(* It is the contract of StateMachine::setState, CANInterface::send and    *)
(* CommandSender::sendSafeDisable taken together.                          *)
(***************************************************************************)
VARIABLES gate,   \* application frames may be sent
          bus     \* the latest commands on the bus: "released" or "live"

Init == gate = FALSE /\ bus = "released"

Open     == gate = FALSE /\ gate' = TRUE /\ bus' = bus
Transmit == gate = TRUE /\ gate' = TRUE /\ bus' \in {"released", "live"}
Close    == gate = TRUE /\ gate' = FALSE /\ bus' = "released"

Next == Open \/ Transmit \/ Close

Spec == Init /\ [][Next]_<<gate, bus>>
=============================================================================
