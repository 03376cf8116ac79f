------------------------------ MODULE Payload ------------------------------
(***************************************************************************)
(* How a handler of CommandSender fills a frame: a payload of zeros, then  *)
(* one PackSignalToBytes per signal, each writing with |= over the bytes   *)
(* it shares with its neighbours.                                          *)
(***************************************************************************)
EXTENDS SignalCodec

CONSTANTS
    Message,    \* the frames: sendControlCommand, sendLimitCommand, ...
    Layout,     \* the signals [start, length] of each
    Raw         \* Raw[n]: the raw values of n bits that are packed

Signal == UNION { Layout[m] : m \in Message }

ASSUME LayoutAssumption ==
    \A m \in Message : Layout[m] \subseteq [start : Nat, length : 1 .. 24]

\* No two signals of a frame share a bit.
ASSUME DisjointAssumption ==
    \A m \in Message : \A f, g \in Layout[m] :
        f # g => Places(f.start, f.length) \cap Places(g.start, g.length) = {}

ASSUME RawAssumption ==
    \A m \in Message : \A f \in Layout[m] : Raw[f.length] \subseteq SUBSET (0 .. f.length - 1)

VARIABLES
    message,    \* the frame being filled
    payload,    \* uint8_t payload[8]
    value       \* signal packed so far -> its raw value

vars == <<message, payload, value>>

Packed == DOMAIN value

TypeOK ==
    /\ message \in Message
    /\ payload \subseteq Int
    /\ Packed \subseteq Layout[message]
    /\ \A f \in Packed : value[f] \in Raw[f.length]

Init ==
    /\ message \in Message
    /\ payload = {}
    /\ value = [f \in {} |-> {}]

\* Mutant: the value is kept under every name.
PackSignal_bug(f, raw) ==
    /\ f \in Layout[message] \ Packed
    /\ payload' = Pack(payload, raw, f.start, f.length)
    /\ value' = [g \in Packed \cup {f} |-> raw]
    /\ UNCHANGED message

\* One call of PackSignalToBytes, with a value the signal can hold.
PackSignal(f, raw) ==
    /\ f \in Layout[message] \ Packed
    /\ payload' = Pack(payload, raw, f.start, f.length)
    /\ value' = [g \in Packed \cup {f} |-> IF g = f THEN raw ELSE value[g]]
    /\ UNCHANGED message

\* can.send: the next frame starts from zeros.
Send ==
    /\ Packed = Layout[message]
    /\ message' \in Message
    /\ payload' = {}
    /\ value' = [f \in {} |-> {}]

Next ==
    \/ \E f \in Signal : \E raw \in Raw[f.length] : PackSignal(f, raw)
    \/ Send

Spec == Init /\ [][Next]_vars

-----------------------------------------------------------------------------

\* Every signal packed so far says its value to a reader of the DBC, and every
\* other signal still says zero: no call disturbs a neighbour.
SignalsSayTheirValue ==
    \A f \in Layout[message] :
        Meaning(payload, f.start, f.length) = IF f \in Packed THEN value[f] ELSE {}

\* UnpackSignalFromBytes gives back what PackSignalToBytes stored.
RoundTrip ==
    \A f \in Packed : Unpack(payload, f.start, f.length) = value[f]
============================================================================
