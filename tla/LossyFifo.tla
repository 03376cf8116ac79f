----------------------------- MODULE LossyFifo -----------------------------
(***************************************************************************)
(* What a packet queue of CAN_DBC_MODULE promises: packets leave in the    *)
(* order they came, each once; one that finds the queue full is lost, and  *)
(* no other.                                                               *)
(***************************************************************************)
EXTENDS Naturals, Sequences

CONSTANTS
    Packet,
    Capacity

VARIABLES
    queue,      \* the packets inside, oldest first
    did         \* the last thing done: <<"put" | "lost" | "took", packet>>

fifoVars == <<queue, did>>

FifoInit == queue = <<>> /\ did = <<>>

Put(p) ==
    /\ Len(queue) < Capacity
    /\ queue' = Append(queue, p) /\ did' = <<"put", p>>

Lose(p) ==
    /\ Len(queue) = Capacity
    /\ did' = <<"lost", p>>
    /\ UNCHANGED queue

Take ==
    /\ queue # <<>>
    /\ did' = <<"took", Head(queue)>> /\ queue' = Tail(queue)

FifoNext == Take \/ \E p \in Packet : Put(p) \/ Lose(p)

FifoSpec == FifoInit /\ [][FifoNext]_fifoVars
============================================================================
