----------------------------- MODULE DbcModule -----------------------------
(***************************************************************************)
(* CAN_DBC_MODULE: the cyclic messages and the two queues between them and *)
(* the CAN driver (DbcDispatcher.cpp).  One thread calls the module; the   *)
(* driver takes a packet or has no mailbox free.                           *)
(*                                                                         *)
(* What is packed into a message, the error counters and the loop counter, *)
(* which nothing reads, are left out, and so is the debugging code, which  *)
(* is compiled out.                                                        *)
(***************************************************************************)
EXTENDS PacketRing, FiniteSets

CONSTANTS
    txArr,          \* the messages sent, in their order
    cycleTime,      \* message sent -> so many calls of dbc_process apart
    rxArr,          \* the messages received
    RxPacket,       \* packets that arrive, <<message, data>>
    SendSize,       \* PACKETS_SEND_QUEUE_SIZE
    ReceivedSize    \* PACKETS_RECEIVED_QUEUE_SIZE

Sent == { txArr[i] : i \in 1 .. Len(txArr) }

ASSUME DbcAssumption ==
    /\ SendSize \in Nat \ {0, 1} /\ ReceivedSize \in Nat \ {0, 1}
    /\ txArr \in Seq(Sent) /\ txArr # <<>> /\ Len(txArr) < SendSize
    /\ RxPacket # {}

VARIABLES
    task,               \* what dbc_process or dbc_transmitNextPacket is at
    next,               \* the message processTx comes to next
    cycleTimeRemain,    \* message sent -> calls left
    tx, rx,             \* the rings of the two dispatchers
    parsed,             \* message received -> its last data
    refused,            \* the driver refused a packet and it is still queued
    didTx, didRx        \* the last thing done to each queue

dbcVars == <<task, next, cycleTimeRemain, tx, rx, parsed, refused, didTx, didRx>>

DbcInit ==
    /\ task = "idle" /\ next = 1
    /\ cycleTimeRemain = cycleTime
    /\ tx = EmptyRing(SendSize, txArr[1])
    /\ rx = EmptyRing(ReceivedSize, CHOOSE p \in RxPacket : TRUE)
    /\ parsed = [m \in rxArr |-> 0]
    /\ refused = FALSE
    /\ didTx = <<>> /\ didRx = <<>>

Offered(q, p) == <<IF IsQueueFull(q) THEN "lost" ELSE "put", p>>

dbc_process ==
    /\ task = "idle"
    /\ task' = "prepare" /\ next' = 1
    /\ UNCHANGED <<cycleTimeRemain, tx, rx, parsed, refused, didTx, didRx>>

\* tryMsgPrepare
Due(m) == cycleTimeRemain[m] <= 1

\* One turn of the loop of processTx.
Prepare ==
    LET m == txArr[next] IN
    /\ task = "prepare"
    /\ cycleTimeRemain' =
         [cycleTimeRemain EXCEPT ![m] = IF Due(m) THEN cycleTime[m] ELSE @ - 1]
    /\ tx' = IF Due(m) THEN Enqueue(tx, m) ELSE tx
    /\ didTx' = IF Due(m) THEN Offered(tx, m) ELSE didTx
    /\ IF next < Len(txArr) THEN next' = next + 1 /\ UNCHANGED task
       ELSE next' = 1 /\ task' = "send"
    /\ UNCHANGED <<rx, parsed, refused, didRx>>

dbc_transmitNextPacket ==
    /\ task = "idle"
    /\ task' = "send only"
    /\ UNCHANGED <<next, cycleTimeRemain, tx, rx, parsed, refused, didTx, didRx>>

AfterSending == IF task = "send" THEN "receive" ELSE "idle"

\* Mutant: one packet for each call.
SendQueue_bug ==
    /\ task \in {"send", "send only"}
    /\ IF IsQueueEmpty(tx) THEN refused' = FALSE /\ UNCHANGED <<tx, didTx>>
       ELSE \/ /\ tx' = Dequeue(tx) /\ didTx' = <<"took", Oldest(tx)>>
               /\ UNCHANGED refused
            \/ refused' = TRUE /\ UNCHANGED <<tx, didTx>>
    /\ task' = AfterSending
    /\ UNCHANGED <<next, cycleTimeRemain, rx, parsed, didRx>>

\* One turn of the loop of SendQueue: a packet refused stays in front.
SendQueue ==
    /\ task \in {"send", "send only"}
    /\ \/ /\ IsQueueEmpty(tx)
          /\ task' = AfterSending /\ refused' = FALSE
          /\ UNCHANGED <<tx, didTx>>
       \/ /\ ~ IsQueueEmpty(tx)
          /\ tx' = Dequeue(tx) /\ didTx' = <<"took", Oldest(tx)>>
          /\ UNCHANGED <<task, refused>>
       \/ /\ ~ IsQueueEmpty(tx)
          /\ task' = AfterSending /\ refused' = TRUE
          /\ UNCHANGED <<tx, didTx>>
    /\ UNCHANGED <<next, cycleTimeRemain, rx, parsed, didRx>>

\* One turn of the loop of processRx.
processRx ==
    /\ task = "receive"
    /\ IF IsQueueEmpty(rx)
       THEN task' = "idle" /\ UNCHANGED <<rx, parsed, didRx>>
       ELSE /\ rx' = Dequeue(rx) /\ didRx' = <<"took", Oldest(rx)>>
            /\ parsed' = [m \in rxArr |-> IF m = Oldest(rx)[1] THEN Oldest(rx)[2]
                                          ELSE parsed[m]]
            /\ UNCHANGED task
    /\ UNCHANGED <<next, cycleTimeRemain, tx, refused, didTx>>

\* The driver hands over a packet, of any id.
EnqueueReceivePacket(p) ==
    /\ task = "idle"
    /\ rx' = Enqueue(rx, p) /\ didRx' = Offered(rx, p)
    /\ UNCHANGED <<task, next, cycleTimeRemain, tx, parsed, refused, didTx>>

DbcNext ==
    \/ dbc_process \/ Prepare \/ dbc_transmitNextPacket \/ SendQueue \/ processRx
    \/ \E p \in RxPacket : EnqueueReceivePacket(p)

DbcSpec == DbcInit /\ [][DbcNext]_dbcVars

-----------------------------------------------------------------------------

TxFifo == INSTANCE LossyFifo WITH
    Packet <- Sent, Capacity <- SendSize - 1, queue <- Contents(tx), did <- didTx

RxFifo == INSTANCE LossyFifo WITH
    Packet <- RxPacket, Capacity <- ReceivedSize - 1, queue <- Contents(rx), did <- didRx

\* Each ring is a queue that loses a packet only when one less than its size
\* wait, whatever the driver refuses and wherever the indices wrap.
RingsAreFifos == TxFifo!FifoSpec /\ RxFifo!FifoSpec

\* While the driver takes what it is given, no cyclic message is lost, even when
\* all are due in one call: the ring is only ever full behind a refusal.
NoneLost ==
    task = "prepare" /\ Due(txArr[next]) /\ IsQueueFull(tx) => refused
============================================================================
