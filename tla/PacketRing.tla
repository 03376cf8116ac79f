----------------------------- MODULE PacketRing -----------------------------
(***************************************************************************)
(* The ring of packets in T_SEND_DISPATCHER and T_RECEIVE_DISPATCHER, with *)
(* the functions of DbcTransmitter and DbcReceiver on it.  A ring of size  *)
(* slots holds size - 1 packets.                                           *)
(***************************************************************************)
EXTENDS Integers, Sequences

\* A ring as InitSendDispatcher and InitReceiveDispatcher leave it; the slots
\* keep what they held.
EmptyRing(size, packet) ==
    [size |-> size, slots |-> [i \in 0 .. size - 1 |-> packet], first |-> 0, last |-> 0]

\* Mutant: the slot kept free is used.
IsQueueFull_bug(q) == q.last + 1 = q.size /\ q.first = 0

\* IsSendQueueFull, IsReceiveQueueFull
IsQueueFull(q) == (q.last + 1) % q.size = q.first

\* IsSendQueueEmpty, IsReceiveQueueEmpty
IsQueueEmpty(q) == q.last = q.first

\* EnqueueSendPacket, EnqueueReceivePacket: a full ring stays as it is.
Enqueue(q, packet) ==
    IF IsQueueFull(q) THEN q
    ELSE [size |-> q.size, first |-> q.first,
          slots |-> [q.slots EXCEPT ![q.last] = packet], last |-> (q.last + 1) % q.size]

Oldest(q) == q.slots[q.first]

\* DequeueReceivePacket, and SendQueue once a packet is out.
Dequeue(q) == [q EXCEPT !.first = (q.first + 1) % q.size]

\* The packets inside, oldest first.
Contents(q) ==
    [ i \in 1 .. (q.last - q.first) % q.size |-> q.slots[(q.first + i - 1) % q.size] ]
============================================================================
