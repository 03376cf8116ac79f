---------------------------- MODULE DriveFrames ----------------------------
(***************************************************************************)
(* The frames CommandSender builds from the data model, and what the DBC   *)
(* says they ask of the inverter.  Torques are in Nm, speeds in rpm,       *)
(* currents in tenths of an ampere; single-precision arithmetic is exact   *)
(* on these within the ranges the operator's panel offers.  The message    *)
(* counter, the checksum and the damping threshold, which nothing sets,    *)
(* are left out.                                                           *)
(***************************************************************************)
EXTENDS SignalCodec, Sequences

\* The two's complement bits of an int32_t.
Bits(n) ==
    { k \in 0 .. 30 : (n \div 2 ^ k) % 2 = 1 } \cup { k \in {31} : n < 0 }

\* The number of bits 0 to 23, byte by byte; no signal is longer.
Number(bits) ==
    LET bit(k) == IF k \in bits THEN 1 ELSE 0
        byte(b) == bit(8 * b) + 2 * bit(8 * b + 1) + 4 * bit(8 * b + 2) + 8 * bit(8 * b + 3)
                     + 16 * bit(8 * b + 4) + 32 * bit(8 * b + 5) + 64 * bit(8 * b + 6)
                     + 128 * bit(8 * b + 7)
    IN  byte(0) + 256 * byte(1) + 65536 * byte(2)

Flag(b) == IF b THEN 1 ELSE 0

\* static_cast<int32_t> of a quotient: towards zero.
Truncate(n, d) == IF n >= 0 THEN n \div d ELSE - ((- n) \div d)

\* The PackSignalToBytes calls of a handler, each <<value, startBit, length>>, on
\* a payload of zeros.  They use |=, so their order is of no account.
PackAll(calls) == UNION { Pack({}, Bits(c[1]), c[2], c[3]) : c \in calls }

\* Mutant: M_desired is always a torque.
torque_raw_bug(data) == data.M_desired + 1023

\* M_desired is a torque in MotorCtrl 1 and a speed otherwise.
torque_raw(data) ==
    IF data.MotorCtrl = 1
    THEN data.M_desired + 1023
    ELSE Truncate(1000 * data.M_desired, 15675) + 1023

ControlPayload(data) ==
    PackAll({ <<Flag(data.Kl_15), 8, 1>>, <<torque_raw(data), 7, 11>>,
               <<data.SurgeDamperState % 4, 10, 2>>, <<Flag(data.Brake_active), 11, 1>>,
               <<data.MotorCtrl % 16, 47, 4>>, <<Flag(data.TCS_active), 23, 1>>,
               <<data.GearCtrl % 8, 22, 3>> })

\* The limit in steps of 100 rpm, rounded and clamped to 0 .. 31.
max_speed_raw(data) ==
    LET n == Truncate(data.n_max + 50, 100)
    IN  IF n < 0 THEN 0 ELSE IF n > 31 THEN 31 ELSE n

\* Mutant: the two limits are swapped.
LimitPayload_bug(data) ==
    PackAll({ <<data.M_max + 1023, 7, 11>>, <<Truncate(data.M_grad_max, 32), 12, 14>>,
               <<data.M_min + 1023, 30, 11>>, <<max_speed_raw(data), 43, 5>> })

LimitPayload(data) ==
    PackAll({ <<data.M_min + 1023, 7, 11>>, <<Truncate(data.M_grad_max, 32), 12, 14>>,
               <<data.M_max + 1023, 30, 11>>, <<max_speed_raw(data), 43, 5>> })

CurrentPayload(data) ==
    PackAll({ <<data.Isd + 32000, 7, 16>>, <<data.Isq + 32000, 23, 16>>,
               <<Flag(data.En_Is), 39, 1>> })

PayloadOf(id, data) ==
    CASE id = "0x046" -> ControlPayload(data)
      [] id = "0x047" -> LimitPayload(data)
      [] id = "0x300" -> CurrentPayload(data)

-----------------------------------------------------------------------------

(***************************************************************************)
(* The inverter's reading, from the DBC file.                              *)
(***************************************************************************)

Read(payload, startBit, length) == Number(Meaning(payload, startBit, length))

DesiredTorque(payload)  == Read(payload, 7, 11) - 1023
RequestedState(payload) == Read(payload, 47, 4)
ActualGear(payload)     == Read(payload, 22, 3)
MinTorque(payload)      == Read(payload, 7, 11) - 1023
TorqueGradient(payload) == Read(payload, 12, 14)
MaxTorque(payload)      == Read(payload, 30, 11) - 1023
MaxSpeed(payload)       == 100 * Read(payload, 43, 5)
IdCommand(payload)      == Read(payload, 7, 16) - 32000
IqCommand(payload)      == Read(payload, 23, 16) - 32000
CurrentEnabled(payload) == Read(payload, 39, 1) = 1

\* A payload that says a raw value in one field and 0 elsewhere.
Saying(raw, startBit, length) == { Place(startBit, length, k) : k \in Bits(raw) }
============================================================================
