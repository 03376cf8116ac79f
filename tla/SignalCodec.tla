---------------------------- MODULE SignalCodec ----------------------------
(***************************************************************************)
(* The signal codec of the server: PackSignalToBytes (CommandSender.cpp)   *)
(* and UnpackSignalFromBytes (MarathonLogic.cpp), beside the meaning the   *)
(* DBC file gives a big-endian ("@0") signal.                              *)
(*                                                                         *)
(* A payload is the set of the numbers of its bits that are 1, bit b of    *)
(* byte B being number 8 * B + b, as in the DBC.  A raw value is the set   *)
(* of the numbers of its bits that are 1.                                  *)
(***************************************************************************)
EXTENDS Integers

(***************************************************************************)
(* The code.                                                               *)
(***************************************************************************)

\* startBitInByte - currentStartBit, an int8_t
Difference(startBit, length) == (startBit % 8) - ((length - 1) % 8)

lengthInBytesIncreased(startBit, length) ==
    IF Difference(startBit, length) < 0 THEN 1 ELSE 0

shift(startBit, length) ==
    Difference(startBit, length) + 8 * lengthInBytesIncreased(startBit, length)

\* Mutant: the extra byte is left out.
startByteInValue_bug(startBit, length) == (length - 1) \div 8

startByteInValue(startBit, length) ==
    ((length - 1) \div 8) + lengthInBytesIncreased(startBit, length)

\* The payload bit that bit j of the shifted value lands on: its byte, counted
\* from the last one written, and its place there.
Landing(startBit, length, j) ==
    8 * ((startBit \div 8) + startByteInValue(startBit, length) - (j \div 8)) + (j % 8)

\* The bits written by the loop: those of the shifted value in the bytes
\* startByteInValue .. 0.  The value is not masked to length, so a value that
\* is too wide reaches the bits of the first byte before the field.
Pack(payload, raw, startBit, length) ==
    payload \cup { Landing(startBit, length, k + shift(startBit, length)) :
                     k \in { b \in raw : b + shift(startBit, length)
                                 <= 8 * startByteInValue(startBit, length) + 7 } }

\* Mutant: the result is not shifted down.
Unpack_bug(payload, startBit, length) ==
    { k \in 0 .. length - 1 : Landing(startBit, length, k) \in payload }

Unpack(payload, startBit, length) ==
    { k \in 0 .. length - 1 :
        Landing(startBit, length, k + shift(startBit, length)) \in payload }

(***************************************************************************)
(* The meaning.  A DBC start bit names the most significant bit; the field *)
(* runs from there downwards in each byte and on to the top of the next.   *)
(***************************************************************************)

\* The place of a payload bit when a frame is read from its first byte, the
\* most significant bit of each byte first; it is its own inverse.
Sawtooth(bit) == 8 * (bit \div 8) + 7 - (bit % 8)

\* The payload bit that holds the field's bit of that significance.
Place(startBit, length, significance) ==
    Sawtooth(Sawtooth(startBit) + length - 1 - significance)

Places(startBit, length) == { Place(startBit, length, k) : k \in 0 .. length - 1 }

\* The raw value the other end of the bus reads.
Meaning(payload, startBit, length) ==
    { k \in 0 .. length - 1 : Place(startBit, length, k) \in payload }
============================================================================
