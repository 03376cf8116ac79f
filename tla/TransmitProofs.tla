--------------------------- MODULE TransmitProofs ---------------------------
(***************************************************************************)
(* What waits to be sent.  The rings of CAN_DBC_MODULE are bounded queues, *)
(* whatever their sizes and wherever their indices wrap, and no cyclic     *)
(* message is lost unless the driver refuses one.  The inverter hears      *)
(* 0x300 in time, for every clock, every lateness and every bound on the   *)
(* mutex that leaves room within its timeout.                              *)
(***************************************************************************)
EXTENDS DbcModule, TxSchedule, SequenceTheorems, TLAPS

(***************************************************************************)
(* The rings.                                                              *)
(***************************************************************************)

\* A ring of n slots with packets of P.
Ring(n, P) ==
    [size : {n}, slots : [0 .. n - 1 -> P], first : 0 .. n - 1, last : 0 .. n - 1]

Count(q) == (q.last - q.first) % q.size

\* An index one further, and the distance of two.
LEMMA Wraps ==
    ASSUME NEW n \in Nat \ {0, 1}, NEW a \in 0 .. n - 1, NEW b \in 0 .. n - 1
    PROVE  /\ (a + 1) % n = IF a + 1 = n THEN 0 ELSE a + 1
           /\ (a - b) % n = IF a >= b THEN a - b ELSE a - b + n
<1>1. /\ a + 1 < n => (a + 1) % n = a + 1
      /\ a + 1 = n => (a + 1) % n = 0
  BY SMT
<1>2. /\ a >= b => (a - b) % n = a - b
      /\ a < b => (a - b) % n = a - b + n
  BY SMT
<1> QED
  BY <1>1, <1>2, SMT

\* Where the packet i places behind the oldest lies.
LEMMA SlotOf ==
    ASSUME NEW n \in Nat \ {0, 1}, NEW a \in 0 .. n - 1, NEW i \in 0 .. n - 1
    PROVE  (a + i) % n = IF a + i < n THEN a + i ELSE a + i - n
<1>1. CASE a + i < n
  BY <1>1, SMT
<1>2. CASE a + i >= n
  BY <1>2, SMT
<1> QED
  BY <1>1, <1>2, SMT

\* The arithmetic of the indices first and last, with no remainder left in it:
\* one more at the end, and where the packet behind the others goes.
OneMore(n, f, l, c, k, d) ==
    /\ n \in Nat \ {0, 1} /\ f \in 0 .. n - 1 /\ l \in 0 .. n - 1
    /\ c \in 0 .. n - 2
    /\ c = IF l >= f THEN l - f ELSE l - f + n
    /\ k = IF l + 1 = n THEN 0 ELSE l + 1
    /\ d = IF k >= f THEN k - f ELSE k - f + n

\* One step of last, round the ring, is one packet more.
LEMMA OneMoreIs ==
    \A n, f, l, c, k, d : OneMore(n, f, l, c, k, d) => d = c + 1
  BY SMT DEF OneMore

Behind(n, f, l, c, i, s) ==
    /\ n \in Nat \ {0, 1} /\ f \in 0 .. n - 1 /\ l \in 0 .. n - 1
    /\ c \in 0 .. n - 2 /\ i \in 1 .. c + 1
    /\ c = IF l >= f THEN l - f ELSE l - f + n
    /\ s = IF f + i - 1 < n THEN f + i - 1 ELSE f + i - 1 - n

\* The slot of packet i is a slot of the ring, and is last only for the packet
\* put next.
LEMMA BehindIs ==
    \A n, f, l, c, i, s :
        Behind(n, f, l, c, i, s) => s \in 0 .. n - 1 /\ (s = l <=> i = c + 1)
<1> SUFFICES ASSUME NEW n, NEW f, NEW l, NEW c, NEW i, NEW s, Behind(n, f, l, c, i, s)
             PROVE  s \in 0 .. n - 1 /\ (s = l <=> i = c + 1)
  OBVIOUS
<1>1. CASE f + i - 1 < n
  BY <1>1, SMT DEF Behind
<1>2. CASE f + i - 1 >= n
  BY <1>2, SMT DEF Behind
<1>3. f + i - 1 \in Int /\ n \in Int
  BY SMT DEF Behind
<1> QED
  BY <1>1, <1>2, <1>3, SMT

\* The i-th place behind the index after f is the i+1-st behind f.
Shifted(n, f, i, g, s, t) ==
    /\ n \in Nat \ {0, 1} /\ f \in 0 .. n - 1 /\ i \in 1 .. n - 2
    /\ g = IF f + 1 = n THEN 0 ELSE f + 1
    /\ s = IF g + i - 1 < n THEN g + i - 1 ELSE g + i - 1 - n
    /\ t = IF f + i < n THEN f + i ELSE f + i - n

\* Counted from the next slot, a packet is one nearer.
LEMMA ShiftedIs ==
    \A n, f, i, g, s, t : Shifted(n, f, i, g, s, t) => s = t
  BY SMT DEF Shifted

\* Empty and full say how many packets a ring holds.
LEMMA CountIs ==
    ASSUME NEW n \in Nat \ {0, 1}, NEW P, NEW q \in Ring(n, P)
    PROVE  /\ Count(q) \in 0 .. n - 1
           /\ Count(q) = IF q.last >= q.first THEN q.last - q.first ELSE q.last - q.first + n
           /\ IsQueueEmpty(q) <=> Count(q) = 0
           /\ IsQueueFull(q) <=> Count(q) = n - 1
<1>1. q.size = n /\ q.last \in 0 .. n - 1 /\ q.first \in 0 .. n - 1
  BY DEF Ring
<1>2. /\ (q.last + 1) % n = IF q.last + 1 = n THEN 0 ELSE q.last + 1
      /\ Count(q) = IF q.last >= q.first THEN q.last - q.first ELSE q.last - q.first + n
  BY <1>1, Wraps DEF Count
<1> QED
  BY <1>1, <1>2, SMT DEF IsQueueEmpty, IsQueueFull

\* The packets of a ring, oldest first.
LEMMA ContentsAre ==
    ASSUME NEW n \in Nat \ {0, 1}, NEW P, NEW q \in Ring(n, P)
    PROVE  /\ Contents(q) \in Seq(P)
           /\ Len(Contents(q)) = Count(q)
           /\ \A i \in 1 .. Count(q) : Contents(q)[i] = q.slots[(q.first + i - 1) % n]
<1>1. /\ q.size = n /\ q.first \in 0 .. n - 1 /\ q.slots \in [0 .. n - 1 -> P]
      /\ Count(q) \in 0 .. n - 1
  BY CountIs DEF Ring
<1>2. ASSUME NEW i \in 1 .. Count(q)
      PROVE  q.slots[(q.first + i - 1) % n] \in P
  <2>1. (q.first + i - 1) % n \in 0 .. n - 1
    BY <1>1, SMT
  <2> QED
    BY <1>1, <2>1, SMT
<1>3. Contents(q) = [i \in 1 .. Count(q) |-> q.slots[(q.first + i - 1) % n]]
  BY <1>1 DEF Contents, Count
<1>4. Contents(q) \in [1 .. Count(q) -> P] /\ Count(q) \in Nat
  <2>1. Count(q) \in Nat
    BY <1>1, SMT
  <2> QED
    BY <1>2, <1>3, <2>1
<1>5. Contents(q) \in Seq(P) /\ Len(Contents(q)) = Count(q)
  BY <1>4, SMT
<1> QED
  BY <1>3, <1>5

\* A packet put in goes to the end.
LEMMA Enqueued ==
    ASSUME NEW n \in Nat \ {0, 1}, NEW P, NEW q \in Ring(n, P), NEW p \in P,
           ~ IsQueueFull(q)
    PROVE  /\ Enqueue(q, p) \in Ring(n, P)
           /\ Count(Enqueue(q, p)) = Count(q) + 1
           /\ Contents(Enqueue(q, p)) = Append(Contents(q), p)
<1> DEFINE r == [size |-> q.size, first |-> q.first,
                 slots |-> [q.slots EXCEPT ![q.last] = p], last |-> (q.last + 1) % q.size]
<1>1. Enqueue(q, p) = r
  BY DEF Enqueue
<1>2. /\ q.size = n /\ q.last \in 0 .. n - 1 /\ q.first \in 0 .. n - 1
      /\ q.slots \in [0 .. n - 1 -> P]
  BY DEF Ring
<1>3. /\ (q.last + 1) % n = IF q.last + 1 = n THEN 0 ELSE q.last + 1
      /\ (q.last + 1) % n \in 0 .. n - 1
  <2>1. (q.last + 1) % n = IF q.last + 1 = n THEN 0 ELSE q.last + 1
    BY <1>2, Wraps
  <2>2. (IF q.last + 1 = n THEN 0 ELSE q.last + 1) \in 0 .. n - 1
    BY <1>2, SMT
  <2> QED
    BY <2>1, <2>2
<1>4. /\ r \in Ring(n, P)
      /\ r.first = q.first /\ r.last = (q.last + 1) % n
      /\ r.slots = [q.slots EXCEPT ![q.last] = p]
  <2>1. r = [size |-> n, slots |-> [q.slots EXCEPT ![q.last] = p],
             first |-> q.first, last |-> (q.last + 1) % n]
    BY <1>2
  <2>2. [q.slots EXCEPT ![q.last] = p] \in [0 .. n - 1 -> P]
    BY <1>2
  <2> HIDE DEF r
  <2> QED
    BY <1>2, <1>3, <2>1, <2>2 DEF Ring
<1> HIDE DEF r
<1>5. /\ Count(q) \in 0 .. n - 2
      /\ Count(q) = IF q.last >= q.first THEN q.last - q.first ELSE q.last - q.first + n
  <2>1. Count(q) \in 0 .. n - 1 /\ Count(q) # n - 1
    BY CountIs
  <2>2. Count(q) \in 0 .. n - 2
    BY <2>1, SMT
  <2> QED
    BY <2>2, CountIs
<1>6. Count(r) = Count(q) + 1
  <2>1. Count(r) = IF r.last >= r.first THEN r.last - r.first ELSE r.last - r.first + n
    BY <1>4, CountIs
  <2>2. r.last = IF q.last + 1 = n THEN 0 ELSE q.last + 1
    BY <1>3, <1>4
  <2>3. r.first = q.first
    BY <1>4
  <2>4. Count(r) = IF r.last >= q.first THEN r.last - q.first ELSE r.last - q.first + n
    BY <2>1, <2>3
  <2>5. OneMore(n, q.first, q.last, Count(q), r.last, Count(r))
    BY <1>2, <1>5, <2>2, <2>4 DEF OneMore
  <2> QED
    BY <2>5, OneMoreIs
<1>7. Contents(r) = Append(Contents(q), p)
  <2>1. /\ Contents(r) \in Seq(P) /\ Len(Contents(r)) = Count(q) + 1
        /\ \A i \in 1 .. Count(q) + 1 : Contents(r)[i] = r.slots[(r.first + i - 1) % n]
    <3>1. /\ Contents(r) \in Seq(P) /\ Len(Contents(r)) = Count(r)
          /\ \A i \in 1 .. Count(r) : Contents(r)[i] = r.slots[(r.first + i - 1) % n]
      <4>1. r \in Ring(n, P)
        BY <1>4
      <4> QED
        BY <4>1, ContentsAre
    <3> QED
      BY <1>6, <3>1
  <2>2. /\ Contents(q) \in Seq(P) /\ Len(Contents(q)) = Count(q)
        /\ \A i \in 1 .. Count(q) : Contents(q)[i] = q.slots[(q.first + i - 1) % n]
    BY ContentsAre
  <2>3. /\ Append(Contents(q), p) \in Seq(P)
        /\ Len(Append(Contents(q), p)) = Count(q) + 1
        /\ \A i \in 1 .. Count(q) : Append(Contents(q), p)[i] = Contents(q)[i]
        /\ Append(Contents(q), p)[Count(q) + 1] = p
    BY <1>5, <2>2, AppendProperties, SMT
  <2>4. ASSUME NEW i \in 1 .. Count(q) + 1
        PROVE  Contents(r)[i] = Append(Contents(q), p)[i]
    <3>1. i - 1 \in 0 .. n - 1 /\ q.first + (i - 1) = q.first + i - 1
      BY <1>2, <1>5, <2>4, SMT
    <3>2. (q.first + i - 1) % n = IF q.first + i - 1 < n THEN q.first + i - 1
                                  ELSE q.first + i - 1 - n
      BY <1>2, <3>1, SlotOf
    <3>5. /\ (q.first + i - 1) % n \in 0 .. n - 1
          /\ (q.first + i - 1) % n = q.last <=> i = Count(q) + 1
      <4> DEFINE s == (q.first + i - 1) % n
      <4>1. s = IF q.first + i - 1 < n THEN q.first + i - 1 ELSE q.first + i - 1 - n
        BY <3>2
      <4>2. Behind(n, q.first, q.last, Count(q), i, s)
        <5> HIDE DEF s
        <5> QED
          BY <1>2, <1>5, <2>4, <4>1 DEF Behind
      <4>3. s \in 0 .. n - 1 /\ (s = q.last <=> i = Count(q) + 1)
        <5> HIDE DEF s
        <5> QED
          BY <4>2, BehindIs
      <4> QED
        BY <4>3
    <3>3. CASE i = Count(q) + 1
      <4>1. (q.first + i - 1) % n = q.last
        BY <3>3, <3>5
      <4>2. Contents(r)[i] = r.slots[q.last]
        BY <1>4, <2>1, <2>4, <4>1
      <4> QED
        BY <1>2, <1>4, <2>3, <3>3, <4>2
    <3>4. CASE i # Count(q) + 1
      <4>1. i \in 1 .. Count(q)
        BY <1>5, <2>4, <3>4, SMT
      <4>2. (q.first + i - 1) % n # q.last /\ (q.first + i - 1) % n \in 0 .. n - 1
        BY <3>4, <3>5
      <4>3. r.slots[(q.first + i - 1) % n] = q.slots[(q.first + i - 1) % n]
        BY <1>2, <1>4, <4>2
      <4> QED
        BY <1>4, <2>1, <2>2, <2>3, <2>4, <4>1, <4>3
    <3> QED
      BY <3>3, <3>4
  <2> QED
    BY <2>1, <2>3, <2>4, SeqEqual
<1> QED
  BY <1>1, <1>4, <1>6, <1>7

\* A packet leaves from the front.
LEMMA Dequeued ==
    ASSUME NEW n \in Nat \ {0, 1}, NEW P, NEW q \in Ring(n, P), ~ IsQueueEmpty(q)
    PROVE  /\ Dequeue(q) \in Ring(n, P)
           /\ Count(Dequeue(q)) = Count(q) - 1
           /\ Contents(q) # <<>> /\ Oldest(q) = Head(Contents(q))
           /\ Contents(Dequeue(q)) = Tail(Contents(q))
<1> DEFINE r == Dequeue(q)
<1>1. /\ q.size = n /\ q.last \in 0 .. n - 1 /\ q.first \in 0 .. n - 1
      /\ q.slots \in [0 .. n - 1 -> P]
  BY DEF Ring
<1>2. /\ (q.first + 1) % n = IF q.first + 1 = n THEN 0 ELSE q.first + 1
      /\ (q.first + 1) % n \in 0 .. n - 1
  <2>1. (q.first + 1) % n = IF q.first + 1 = n THEN 0 ELSE q.first + 1
    BY <1>1, Wraps
  <2>2. (IF q.first + 1 = n THEN 0 ELSE q.first + 1) \in 0 .. n - 1
    BY <1>1, SMT
  <2> QED
    BY <2>1, <2>2
<1>3. /\ r \in Ring(n, P)
      /\ r.first = (q.first + 1) % n /\ r.last = q.last /\ r.slots = q.slots
  <2>1. r = [size |-> q.size, slots |-> q.slots, first |-> (q.first + 1) % n,
             last |-> q.last]
    BY <1>1 DEF Ring, Dequeue
  <2> HIDE DEF r
  <2> QED
    BY <1>1, <1>2, <2>1 DEF Ring
<1> HIDE DEF r
<1>4. /\ Count(q) \in 1 .. n - 1
      /\ Count(q) = IF q.last >= q.first THEN q.last - q.first ELSE q.last - q.first + n
  <2>1. Count(q) \in 0 .. n - 1 /\ Count(q) # 0
    BY CountIs
  <2>2. Count(q) \in 1 .. n - 1
    BY <2>1, SMT
  <2> QED
    BY <2>2, CountIs
<1>5. Count(r) = Count(q) - 1
  <2>1. Count(r) = IF r.last >= r.first THEN r.last - r.first ELSE r.last - r.first + n
    BY <1>3, CountIs
  <2>2. r.first = IF q.first + 1 = n THEN 0 ELSE q.first + 1
    BY <1>2, <1>3
  <2>3. r.last = q.last
    BY <1>3
  <2> QED
    BY <1>1, <1>4, <2>1, <2>2, <2>3, SMT
<1>6. /\ Contents(q) \in Seq(P) /\ Len(Contents(q)) = Count(q)
      /\ \A i \in 1 .. Count(q) : Contents(q)[i] = q.slots[(q.first + i - 1) % n]
  BY ContentsAre
<1>7. Contents(q) # <<>>
  BY <1>4, <1>6, EmptySeq, SMT
<1>8. Oldest(q) = Head(Contents(q))
  <2>1. Contents(q)[1] = q.slots[(q.first + 1 - 1) % n]
    BY <1>4, <1>6, SMT
  <2>2. (q.first + 1 - 1) % n = q.first
    BY <1>1, SMT
  <2> QED
    BY <1>6, <1>7, <2>1, <2>2, SMT DEF Oldest
<1>9. Contents(r) = Tail(Contents(q))
  <2>1. /\ Contents(r) \in Seq(P) /\ Len(Contents(r)) = Count(q) - 1
        /\ \A i \in 1 .. Count(q) - 1 : Contents(r)[i] = r.slots[(r.first + i - 1) % n]
    BY <1>3, <1>5, ContentsAre
  <2>2. /\ Tail(Contents(q)) \in Seq(P)
        /\ Len(Tail(Contents(q))) = Count(q) - 1
        /\ \A i \in 1 .. Count(q) - 1 : Tail(Contents(q))[i] = Contents(q)[i + 1]
    BY <1>6, <1>7, HeadTailProperties
  <2>3. ASSUME NEW i \in 1 .. Count(q) - 1
        PROVE  Contents(r)[i] = Tail(Contents(q))[i]
    <3>1. /\ i + 1 \in 1 .. Count(q)
          /\ i - 1 \in 0 .. n - 1 /\ i \in 0 .. n - 1
          /\ r.first + (i - 1) = r.first + i - 1
          /\ q.first + (i + 1) - 1 = q.first + i
      BY <1>1, <1>2, <1>3, <1>4, <2>3, SMT
    <3>2. /\ (r.first + i - 1) % n = IF r.first + i - 1 < n THEN r.first + i - 1
                                     ELSE r.first + i - 1 - n
          /\ (q.first + i) % n = IF q.first + i < n THEN q.first + i ELSE q.first + i - n
      BY <1>1, <1>2, <1>3, <3>1, SlotOf
    <3>3. (r.first + i - 1) % n = (q.first + i) % n
      <4>1. i \in 1 .. n - 2
        BY <1>1, <1>4, <2>3, SMT
      <4>2. r.first = IF q.first + 1 = n THEN 0 ELSE q.first + 1
        BY <1>2, <1>3
      <4> QED
        <5>1. Shifted(n, q.first, i, r.first, (r.first + i - 1) % n, (q.first + i) % n)
          BY <1>1, <3>2, <4>1, <4>2 DEF Shifted
        <5> QED
          BY <5>1, ShiftedIs
    <3>4. Contents(q)[i + 1] = q.slots[(q.first + i) % n]
      BY <1>6, <3>1
    <3>5. Contents(r)[i] = q.slots[(q.first + i) % n]
      BY <1>3, <2>1, <2>3, <3>3
    <3> QED
      BY <2>2, <2>3, <3>4, <3>5
  <2> QED
    BY <2>1, <2>2, <2>3, SeqEqual
<1> QED
  BY <1>3, <1>5, <1>7, <1>8, <1>9 DEF r

\* What a ring answers a packet offered to it.
LEMMA OfferedIs ==
    ASSUME NEW n \in Nat \ {0, 1}, NEW P, NEW q \in Ring(n, P), NEW p \in P
    PROVE  /\ Enqueue(q, p) \in Ring(n, P)
           /\ Count(Enqueue(q, p)) <= Count(q) + 1
           /\ \/ /\ Len(Contents(q)) < n - 1
                 /\ Contents(Enqueue(q, p)) = Append(Contents(q), p)
                 /\ Offered(q, p) = <<"put", p>>
              \/ /\ Len(Contents(q)) = n - 1
                 /\ Contents(Enqueue(q, p)) = Contents(q)
                 /\ Offered(q, p) = <<"lost", p>>
<1>1. Len(Contents(q)) = Count(q)
  BY ContentsAre
<1>2. Count(q) \in 0 .. n - 1 /\ (IsQueueFull(q) <=> Count(q) = n - 1)
  BY CountIs
<1>3. CASE IsQueueFull(q)
  <2>1. Enqueue(q, p) = q /\ Offered(q, p) = <<"lost", p>>
    BY <1>3 DEF Enqueue, Offered
  <2>2. Count(q) <= Count(q) + 1
    BY <1>2, SMT
  <2> QED
    BY <1>1, <1>2, <1>3, <2>1, <2>2
<1>4. CASE ~ IsQueueFull(q)
  <2>1. Offered(q, p) = <<"put", p>>
    BY <1>4 DEF Offered
  <2>2. /\ Enqueue(q, p) \in Ring(n, P)
        /\ Count(Enqueue(q, p)) = Count(q) + 1
        /\ Contents(Enqueue(q, p)) = Append(Contents(q), p)
    BY <1>4, Enqueued
  <2>3. Count(q) < n - 1 /\ Count(q) + 1 <= Count(q) + 1
    BY <1>2, <1>4, SMT
  <2> QED
    BY <1>1, <2>1, <2>2, <2>3
<1> QED
  BY <1>3, <1>4

\* A ring is created empty.
LEMMA EmptyRingIs ==
    ASSUME NEW n \in Nat \ {0, 1}, NEW P, NEW p \in P
    PROVE  /\ EmptyRing(n, p) \in Ring(n, P)
           /\ IsQueueEmpty(EmptyRing(n, p))
           /\ Contents(EmptyRing(n, p)) = <<>>
<1> DEFINE r == EmptyRing(n, p)
<1>1. /\ r \in Ring(n, P)
      /\ r.first = 0 /\ r.last = 0
  <2>1. 0 \in 0 .. n - 1
    BY SMT
  <2> QED
    BY <2>1 DEF EmptyRing, Ring
<1> HIDE DEF r
<1>2. IsQueueEmpty(r)
  BY <1>1 DEF IsQueueEmpty
<1>3. Contents(r) \in Seq(P) /\ Len(Contents(r)) = 0
  <2>1. r \in Ring(n, P)
    BY <1>1
  <2>2. Count(r) = 0
    BY <1>2, <2>1, CountIs
  <2> QED
    BY <2>1, <2>2, ContentsAre
<1>4. Contents(r) = <<>>
  BY <1>3, EmptySeq
<1> QED
  BY <1>1, <1>2, <1>4 DEF r

-----------------------------------------------------------------------------
(* The module: between two calls the send ring is empty unless the driver  *)
(* has refused a packet, and a call puts in at most one of each message.   *)

Doing == {"idle", "prepare", "send", "send only", "receive"}

DTypes ==
    /\ task \in Doing /\ next \in 1 .. Len(txArr) /\ refused \in BOOLEAN
    /\ tx \in Ring(SendSize, Sent) /\ rx \in Ring(ReceivedSize, RxPacket)

Emptied ==
    ~ refused =>
        /\ task \in {"idle", "receive"} => Count(tx) = 0
        /\ task = "prepare" => Count(tx) <= next - 1

DInv == DTypes /\ Emptied

\* The messages of txArr are those the send ring is for.
LEMMA MessageIsSent ==
    ASSUME NEW i \in 1 .. Len(txArr)
    PROVE  txArr[i] \in Sent
  BY DEF Sent

\* There is a message to send.
LEMMA Lengths == Len(txArr) \in Nat \ {0}
  BY DbcAssumption, EmptySeq

\* The invariant holds when CAN_DBC_MODULE starts.
LEMMA DInitially == DbcInit => DInv
<1> SUFFICES ASSUME DbcInit
             PROVE  DInv
  OBVIOUS
<1>1. 1 \in 1 .. Len(txArr)
  BY Lengths, SMT
<1>2. tx \in Ring(SendSize, Sent) /\ IsQueueEmpty(tx)
  BY <1>1, MessageIsSent, EmptyRingIs, DbcAssumption DEF DbcInit
<1>3. Count(tx) = 0
  BY <1>2, CountIs, DbcAssumption
<1>4. rx \in Ring(ReceivedSize, RxPacket)
  <2>1. (CHOOSE p \in RxPacket : TRUE) \in RxPacket
    BY DbcAssumption
  <2> QED
    BY <2>1, EmptyRingIs, DbcAssumption DEF DbcInit
<1> QED
  BY <1>1, <1>2, <1>3, <1>4 DEF DbcInit, DInv, DTypes, Emptied, Doing

\* An offer to the ring is a step of the queue it implements.
LEMMA TxOffer ==
    ASSUME DTypes, NEW p \in Sent,
           tx' = Enqueue(tx, p), didTx' = Offered(tx, p)
    PROVE  TxFifo!FifoNext
<1>1. \/ /\ Len(Contents(tx)) < SendSize - 1
         /\ Contents(tx)' = Append(Contents(tx), p)
         /\ didTx' = <<"put", p>>
      \/ /\ Len(Contents(tx)) = SendSize - 1
         /\ Contents(tx)' = Contents(tx)
         /\ didTx' = <<"lost", p>>
  <2>1. Contents(tx)' = Contents(Enqueue(tx, p))
    BY DEF Contents
  <2> QED
    BY <2>1, OfferedIs, DbcAssumption DEF DTypes
<1>2. TxFifo!Put(p) \/ TxFifo!Lose(p)
  BY <1>1 DEF TxFifo!Put, TxFifo!Lose
<1> QED
  BY <1>2 DEF TxFifo!FifoNext

\* Taking the oldest packet to send is a step of the queue.
LEMMA TxTake ==
    ASSUME DTypes, ~ IsQueueEmpty(tx),
           tx' = Dequeue(tx), didTx' = <<"took", Oldest(tx)>>
    PROVE  TxFifo!FifoNext
<1>1. /\ Contents(tx) # <<>> /\ Contents(tx)' = Tail(Contents(tx))
      /\ didTx' = <<"took", Head(Contents(tx))>>
  <2>1. Contents(tx)' = Contents(Dequeue(tx))
    BY DEF Contents
  <2> QED
    BY <2>1, Dequeued, DbcAssumption DEF DTypes
<1> QED
  BY <1>1 DEF TxFifo!FifoNext, TxFifo!Take

\* So is offering a packet that was received,
LEMMA RxOffer ==
    ASSUME DTypes, NEW p \in RxPacket,
           rx' = Enqueue(rx, p), didRx' = Offered(rx, p)
    PROVE  RxFifo!FifoNext
<1>1. \/ /\ Len(Contents(rx)) < ReceivedSize - 1
         /\ Contents(rx)' = Append(Contents(rx), p)
         /\ didRx' = <<"put", p>>
      \/ /\ Len(Contents(rx)) = ReceivedSize - 1
         /\ Contents(rx)' = Contents(rx)
         /\ didRx' = <<"lost", p>>
  <2>1. Contents(rx)' = Contents(Enqueue(rx, p))
    BY DEF Contents
  <2> QED
    BY <2>1, OfferedIs, DbcAssumption DEF DTypes
<1>2. RxFifo!Put(p) \/ RxFifo!Lose(p)
  BY <1>1 DEF RxFifo!Put, RxFifo!Lose
<1> QED
  BY <1>2 DEF RxFifo!FifoNext

\* and handing the oldest one out.
LEMMA RxTake ==
    ASSUME DTypes, ~ IsQueueEmpty(rx),
           rx' = Dequeue(rx), didRx' = <<"took", Oldest(rx)>>
    PROVE  RxFifo!FifoNext
<1>1. /\ Contents(rx) # <<>> /\ Contents(rx)' = Tail(Contents(rx))
      /\ didRx' = <<"took", Head(Contents(rx))>>
  <2>1. Contents(rx)' = Contents(Dequeue(rx))
    BY DEF Contents
  <2> QED
    BY <2>1, Dequeued, DbcAssumption DEF DTypes
<1> QED
  BY <1>1 DEF RxFifo!FifoNext, RxFifo!Take

\* Nothing done to a ring: its queue stutters.
LEMMA TxRests == tx' = tx => Contents(tx)' = Contents(tx)
  BY DEF Contents

\* A ring that is left alone keeps its packets.
LEMMA RxRests == rx' = rx => Contents(rx)' = Contents(rx)
  BY DEF Contents

TxMove == TxFifo!FifoNext \/ (tx' = tx /\ didTx' = didTx)
RxMove == RxFifo!FifoNext \/ (rx' = rx /\ didRx' = didRx)

\* Every step keeps the invariant and is a step of both queues or of neither.
LEMMA DStep == DInv /\ [DbcNext]_dbcVars => DInv' /\ TxMove /\ RxMove
<1> SUFFICES ASSUME DInv, [DbcNext]_dbcVars
             PROVE  DInv' /\ TxMove /\ RxMove
  OBVIOUS
<1> USE DEF DInv
<1>0. /\ Len(txArr) \in Nat \ {0} /\ next \in 1 .. Len(txArr) /\ 1 \in 1 .. Len(txArr)
      /\ Count(tx) \in Nat
  <2>1. Count(tx) \in 0 .. SendSize - 1
    BY CountIs, DbcAssumption DEF DTypes
  <2>2. 1 \in 1 .. Len(txArr)
    BY Lengths, SMT
  <2>3. Count(tx) \in Nat
    BY <2>1, SMT
  <2> QED
    BY <2>2, <2>3, Lengths DEF DTypes
<1>1. CASE dbc_process
  <2>1. /\ task = "idle" /\ task' = "prepare" /\ next' = 1 /\ refused' = refused
        /\ tx' = tx /\ rx' = rx /\ didTx' = didTx /\ didRx' = didRx
    BY <1>1 DEF dbc_process
  <2>2. DTypes'
    BY <1>0, <2>1 DEF DTypes, Doing
  <2>3. Emptied'
    <3>1. Count(tx)' = Count(tx)
      BY <2>1 DEF Count
    <3>2. ~ refused => Count(tx) <= 1 - 1
      BY <2>1, SMT DEF Emptied
    <3> QED
      BY <2>1, <3>1, <3>2 DEF Emptied
  <2> QED
    BY <2>1, <2>2, <2>3 DEF TxMove, RxMove
<1>2. CASE Prepare
  <2> DEFINE m == txArr[next]
  <2>1. /\ task = "prepare" /\ rx' = rx /\ didRx' = didRx /\ refused' = refused
        /\ m \in Sent
        /\ \/ tx' = Enqueue(tx, m) /\ didTx' = Offered(tx, m)
           \/ tx' = tx /\ didTx' = didTx
    BY <1>0, <1>2, MessageIsSent DEF Prepare
  <2>2. \/ next < Len(txArr) /\ next' = next + 1 /\ task' = "prepare"
        \/ next' = 1 /\ task' = "send"
    BY <1>2 DEF Prepare
  <2>3. /\ tx' \in Ring(SendSize, Sent)
        /\ Count(tx') <= Count(tx) + 1
    <3>1. CASE tx' = Enqueue(tx, m)
      BY <2>1, <3>1, OfferedIs, DbcAssumption DEF DTypes
    <3>2. CASE tx' = tx
      <4>1. Count(tx) <= Count(tx) + 1
        BY <1>0, SMT
      <4> QED
        BY <3>2, <4>1 DEF DTypes
    <3> QED
      BY <2>1, <3>1, <3>2
  <2>4. DTypes'
    <3>1. next < Len(txArr) => next + 1 \in 1 .. Len(txArr)
      BY <1>0, SMT
    <3> QED
      BY <1>0, <2>1, <2>2, <2>3, <3>1 DEF DTypes, Doing
  <2>5. Emptied'
    <3>1. Count(tx') \in Nat
      <4>1. Count(tx') \in 0 .. SendSize - 1
        BY <2>3, CountIs, DbcAssumption
      <4> QED
        BY <4>1, SMT
    <3>2. ~ refused => Count(tx) <= next - 1
      BY <2>1 DEF Emptied
    <3>3. Count(tx)' = Count(tx')
      BY DEF Count
    <3>4. CASE next' = next + 1 /\ task' = "prepare"
      <4>1. ASSUME ~ refused
            PROVE  Count(tx') <= next' - 1
        <5>1. Count(tx) <= next - 1
          BY <3>2, <4>1
        <5> QED
          BY <1>0, <2>3, <3>1, <3>4, <5>1, SMT
      <4> QED
        BY <2>1, <3>3, <3>4, <4>1 DEF Emptied
    <3>5. CASE task' = "send"
      BY <3>5 DEF Emptied
    <3> QED
      BY <2>2, <3>4, <3>5
  <2>6. TxMove
    BY <2>1, TxOffer DEF TxMove
  <2> QED
    BY <2>1, <2>4, <2>5, <2>6 DEF RxMove
<1>3. CASE dbc_transmitNextPacket
  <2>1. /\ task' = "send only" /\ next' = next /\ refused' = refused
        /\ tx' = tx /\ rx' = rx /\ didTx' = didTx /\ didRx' = didRx
    BY <1>3 DEF dbc_transmitNextPacket
  <2> QED
    BY <2>1 DEF DTypes, Emptied, Doing, TxMove, RxMove
<1>4. CASE SendQueue
  <2>1. /\ task \in {"send", "send only"} /\ next' = next /\ rx' = rx /\ didRx' = didRx
        /\ AfterSending \in {"receive", "idle"}
    BY <1>4 DEF SendQueue, AfterSending
  <2>2. CASE /\ IsQueueEmpty(tx)
             /\ task' = AfterSending /\ refused' = FALSE
             /\ tx' = tx /\ didTx' = didTx
    <3>1. Count(tx) = 0
      BY <2>2, CountIs, DbcAssumption DEF DTypes
    <3>2. Count(tx)' = 0
      BY <2>2, <3>1 DEF Count
    <3> QED
      BY <2>1, <2>2, <3>2 DEF DTypes, Emptied, Doing, TxMove, RxMove
  <2>3. CASE /\ ~ IsQueueEmpty(tx)
             /\ tx' = Dequeue(tx) /\ didTx' = <<"took", Oldest(tx)>>
             /\ task' = task /\ refused' = refused
    <3>1. tx' \in Ring(SendSize, Sent)
      BY <2>3, Dequeued, DbcAssumption DEF DTypes
    <3>2. TxMove
      BY <2>3, TxTake DEF TxMove
    <3> QED
      BY <2>1, <2>3, <3>1, <3>2 DEF DTypes, Emptied, RxMove
  <2>4. CASE /\ ~ IsQueueEmpty(tx)
             /\ task' = AfterSending /\ refused' = TRUE
             /\ tx' = tx /\ didTx' = didTx
    BY <2>1, <2>4 DEF DTypes, Emptied, Doing, TxMove, RxMove
  <2> QED
    BY <1>4, <2>2, <2>3, <2>4 DEF SendQueue
<1>5. CASE processRx
  <2>1. /\ task = "receive" /\ next' = next /\ tx' = tx /\ didTx' = didTx
        /\ refused' = refused
    BY <1>5 DEF processRx
  <2>2. Count(tx)' = Count(tx)
    BY <2>1 DEF Count
  <2>3. CASE IsQueueEmpty(rx)
    <3>1. task' = "idle" /\ rx' = rx /\ didRx' = didRx
      BY <1>5, <2>3 DEF processRx
    <3> QED
      BY <2>1, <2>2, <3>1 DEF DTypes, Emptied, Doing, TxMove, RxMove
  <2>4. CASE ~ IsQueueEmpty(rx)
    <3>1. /\ rx' = Dequeue(rx) /\ didRx' = <<"took", Oldest(rx)>> /\ task' = task
      BY <1>5, <2>4 DEF processRx
    <3>2. rx' \in Ring(ReceivedSize, RxPacket)
      BY <2>4, <3>1, Dequeued, DbcAssumption DEF DTypes
    <3>3. RxMove
      BY <2>4, <3>1, RxTake DEF RxMove
    <3> QED
      BY <2>1, <2>2, <3>1, <3>2, <3>3 DEF DTypes, Emptied, TxMove
  <2> QED
    BY <2>3, <2>4
<1>6. ASSUME NEW p \in RxPacket, EnqueueReceivePacket(p)
      PROVE  DInv' /\ TxMove /\ RxMove
  <2>1. /\ rx' = Enqueue(rx, p) /\ didRx' = Offered(rx, p)
        /\ task' = task /\ next' = next /\ tx' = tx /\ didTx' = didTx
        /\ refused' = refused
    BY <1>6 DEF EnqueueReceivePacket
  <2>2. rx' \in Ring(ReceivedSize, RxPacket)
    BY <2>1, OfferedIs, DbcAssumption DEF DTypes
  <2>3. RxMove
    BY <2>1, RxOffer DEF RxMove
  <2>4. Count(tx)' = Count(tx)
    BY <2>1 DEF Count
  <2> QED
    BY <2>1, <2>2, <2>3, <2>4 DEF DTypes, Emptied, TxMove
<1>7. CASE UNCHANGED dbcVars
  <2>1. Count(tx)' = Count(tx)
    BY <1>7 DEF dbcVars, Count
  <2> QED
    BY <1>7, <2>1 DEF dbcVars, DTypes, Emptied, TxMove, RxMove
<1> QED
  BY <1>1, <1>2, <1>3, <1>4, <1>5, <1>6, <1>7 DEF DbcNext

\* The rings are well formed in every reachable state.
LEMMA DInvariant == DbcSpec => []DInv
<1>1. DInv /\ [DbcNext]_dbcVars => DInv'
  BY DStep
<1> QED
  BY DInitially, <1>1, PTL DEF DbcSpec

\* Whatever the messages, their cycles and the sizes of the rings: a cyclic
\* message finds the send ring full only behind a packet the driver refused.
THEOREM NothingLost == DbcSpec => []NoneLost
<1>1. DInv => NoneLost
  <2> SUFFICES ASSUME DInv, task = "prepare", IsQueueFull(tx), ~ refused
               PROVE  FALSE
    BY DEF NoneLost
  <2>1. Count(tx) = SendSize - 1 /\ SendSize - 1 \in Nat
    <3>1. Count(tx) = SendSize - 1
      BY CountIs, DbcAssumption DEF DInv, DTypes
    <3>2. SendSize - 1 \in Nat
      BY DbcAssumption, SMT
    <3> QED
      BY <3>1, <3>2
  <2>2. /\ Count(tx) <= next - 1 /\ next \in 1 .. Len(txArr)
    BY DEF DInv, DTypes, Emptied
  <2>3. Len(txArr) < SendSize /\ Len(txArr) \in Nat /\ SendSize \in Nat
    BY DbcAssumption, Lengths
  <2> QED
    BY <2>1, <2>2, <2>3, SMT
<1> QED
  BY DInvariant, <1>1, PTL

\* Both rings are bounded queues that lose a packet only when full, for every
\* size, whatever the driver refuses and wherever the indices wrap.
THEOREM QueuesAreFifos == DbcSpec => RingsAreFifos
<1>1. DbcInit => TxFifo!FifoInit /\ RxFifo!FifoInit
  <2> SUFFICES ASSUME DbcInit
               PROVE  TxFifo!FifoInit /\ RxFifo!FifoInit
    OBVIOUS
  <2>1. Contents(tx) = <<>>
    <3>1. txArr[1] \in Sent
      <4>1. 1 \in 1 .. Len(txArr)
        BY Lengths, SMT
      <4> QED
        BY <4>1, MessageIsSent
    <3> QED
      BY <3>1, EmptyRingIs, DbcAssumption DEF DbcInit
  <2>2. Contents(rx) = <<>>
    <3>1. (CHOOSE p \in RxPacket : TRUE) \in RxPacket
      BY DbcAssumption
    <3> QED
      BY <3>1, EmptyRingIs, DbcAssumption DEF DbcInit
  <2> QED
    BY <2>1, <2>2 DEF DbcInit, TxFifo!FifoInit, RxFifo!FifoInit
<1>2. DInv /\ [DbcNext]_dbcVars => [TxFifo!FifoNext]_(TxFifo!fifoVars)
  BY DStep, TxRests DEF TxMove, TxFifo!fifoVars
<1>3. DInv /\ [DbcNext]_dbcVars => [RxFifo!FifoNext]_(RxFifo!fifoVars)
  BY DStep, RxRests DEF RxMove, RxFifo!fifoVars
<1> QED
  BY DInvariant, <1>1, <1>2, <1>3, PTL
     DEF DbcSpec, RingsAreFifos, TxFifo!FifoSpec, RxFifo!FifoSpec

-----------------------------------------------------------------------------

(***************************************************************************)
(* The schedule.                                                           *)
(***************************************************************************)

\* What is used of the product turns * Hold.
LEMMA Holds ==
    ASSUME NEW m \in Nat, NEW n \in Nat, NEW h \in Nat, m <= n
    PROVE  /\ m * h \in Nat
           /\ m * h <= n * h
           /\ (m + 1) * h = m * h + h
           /\ (m - 1) * h = m * h - h
<1>1. PICK d \in Nat : n = m + d
  BY SMT
<1>2. n * h = m * h + d * h /\ d * h \in Nat /\ m * h \in Nat
  BY <1>1, SMT
<1> QED
  BY <1>2, SMT

\* The invariant holds when the session starts.
LEMMA InitHolds == TxInit => IInv
<1> SUFFICES ASSUME TxInit PROVE IInv
  OBVIOUS
<1>1. TxTypeOK
  BY SMT DEF TxInit, TxTypeOK, Threads, Labels, Ids
<1>2. Holding
  BY NobodyAssumption, SMT DEF TxInit, Holding, Threads
<1>3. Turns
  BY TimingAssumption, SMT DEF TxInit, Turns, Sleep, Threads
<1>4. Timely
  BY SMT DEF TxInit, Timely, Aged, Threads, Ids, Period
<1> QED
  BY <1>1, <1>2, <1>3, <1>4 DEF IInv

\* Each step keeps the invariant.
LEMMA StepHolds == IInv /\ [TxNext]_txVars => IInv'
<1> SUFFICES ASSUME IInv, [TxNext]_txVars PROVE IInv'
  OBVIOUS
<1> USE DEF IInv
<1>t. /\ Late \in Nat /\ Hold \in Nat /\ MaxTurns \in Nat /\ MaxTurns >= 1
      /\ Nobody \notin Threads
  BY TimingAssumption, NobodyAssumption, SMT DEF Threads
<1>h. /\ turns \in Nat
      /\ turns * Hold \in Nat /\ MaxTurns * Hold \in Nat
      /\ (turns + 1) * Hold = turns * Hold + Hold
      /\ (turns - 1) * Hold = turns * Hold - Hold
      /\ 0 * Hold = 0
      /\ turns <= MaxTurns => turns * Hold <= MaxTurns * Hold
  <2>1. turns \in Nat
    BY DEF TxTypeOK
  <2>2. turns <= turns /\ MaxTurns <= MaxTurns
    BY <1>t, <2>1, SMT
  <2>3. 0 * Hold = 0
    BY <1>t, SMT
  <2>4. turns * Hold \in Nat /\ (turns + 1) * Hold = turns * Hold + Hold
                             /\ (turns - 1) * Hold = turns * Hold - Hold
    BY <1>t, <2>1, <2>2, Holds
  <2>5. MaxTurns * Hold \in Nat
    BY <1>t, <2>2, Holds
  <2>6. turns <= MaxTurns => turns * Hold <= MaxTurns * Hold
    BY <1>t, <2>1, Holds
  <2> QED
    BY <2>1, <2>3, <2>4, <2>5, <2>6
<1>1. ASSUME NEW t \in Threads, Wake(t) PROVE IInv'
  <2>1. TxTypeOK'
    BY <1>1, SMT DEF Wake, Goto, TxTypeOK, Threads, Labels
  <2>2. Holding'
    BY <1>1, SMT DEF Wake, Goto, TxTypeOK, Holding, Threads
  <2>3. Turns'
    BY <1>1, <1>t, SMT DEF Wake, Goto, TxTypeOK, Turns, Threads
  <2>4. Timely'
    <3>1. CASE t = "can" /\ holder = Nobody
      BY <1>1, <1>t, <1>h, <3>1, SMT
         DEF Wake, Goto, TxTypeOK, Turns, Timely, Aged, Threads, Ids, Sleep, Period
    <3>2. CASE t = "can" /\ holder # Nobody
      BY <1>1, <1>t, <1>h, <3>2, SMT
         DEF Wake, Goto, TxTypeOK, Turns, Timely, Aged, Threads, Ids, Sleep, Period
    <3>3. CASE t # "can"
      BY <1>1, <1>t, <1>h, <3>3, SMT
         DEF Wake, Goto, TxTypeOK, Timely, Aged, Threads, Ids, Sleep, Period
    <3> QED
      BY <3>1, <3>2, <3>3
  <2> QED
    BY <2>1, <2>2, <2>3, <2>4
<1>2. ASSUME NEW t \in Threads, Lock(t) PROVE IInv'
  <2>1. TxTypeOK'
    BY <1>2, SMT DEF Lock, Goto, TxTypeOK, Threads, Labels
  <2>2. Holding'
    BY <1>2, <1>t, SMT DEF Lock, Goto, TxTypeOK, Holding, Threads
  <2>3. Turns'
    BY <1>2, <1>t, SMT DEF Lock, Goto, TxTypeOK, Turns, Threads
  <2>4. Timely'
    <3>1. CASE t = "can"
      BY <1>2, <1>t, <1>h, <3>1, SMT
         DEF Lock, Goto, TxTypeOK, Turns, Timely, Aged, Threads, Ids, Sleep, Period
    <3>2. CASE t # "can" /\ pc["can"] = "wait"
      BY <1>2, <1>t, <1>h, <3>2, SMT
         DEF Lock, Goto, TxTypeOK, Turns, Timely, Aged, Threads, Ids, Sleep, Period
    <3>3. CASE t # "can" /\ pc["can"] # "wait"
      BY <1>2, <1>t, <1>h, <3>3, SMT
         DEF Lock, Goto, TxTypeOK, Holding, Timely, Aged, Threads, Ids, Sleep, Period
    <3> QED
      BY <3>1, <3>2, <3>3
  <2> QED
    BY <2>1, <2>2, <2>3, <2>4
<1>3. CASE Update
  <2>1. TxTypeOK'
    BY <1>3, SMT DEF Update, Goto, TxTypeOK, Threads, Labels, Ids, Period
  <2>2. Holding'
    BY <1>3, <1>t, SMT DEF Update, Goto, TxTypeOK, Holding, Threads
  <2>3. Turns'
    BY <1>3, <1>t, SMT DEF Update, Goto, TxTypeOK, Turns, Threads, Sleep
  <2>4. Timely'
    BY <1>3, SMT DEF Update, Goto, TxTypeOK, Timely, Aged, Threads, Ids, Period
  <2> QED
    BY <2>1, <2>2, <2>3, <2>4
<1>4. CASE Serialize
  <2>1. TxTypeOK'
    BY <1>4, SMT DEF Serialize, Goto, TxTypeOK, Threads, Labels
  <2>2. Holding'
    BY <1>4, <1>t, SMT DEF Serialize, Goto, TxTypeOK, Holding, Threads
  <2>3. Turns'
    BY <1>4, SMT DEF Serialize, Goto, TxTypeOK, Turns, Threads
  <2>4. Timely'
    BY <1>4, <1>t, <1>h, SMT
       DEF Serialize, Goto, TxTypeOK, Holding, Timely, Aged, Threads, Ids, Sleep, Period
  <2> QED
    BY <2>1, <2>2, <2>3, <2>4
<1>5. CASE Handle
  <2> PICK label \in {"sleep", "queue"} : Goto("reader", label)
    BY <1>5 DEF Handle
  <2>1. TxTypeOK'
    BY <1>5, SMT DEF Handle, Goto, TxTypeOK, Threads, Labels
  <2>2. Holding'
    BY <1>5, <1>t, SMT DEF Handle, Goto, TxTypeOK, Holding, Threads
  <2>3. Turns'
    BY <1>5, SMT DEF Handle, Goto, TxTypeOK, Turns, Threads
  <2>4. Timely'
    BY <1>5, <1>t, <1>h, SMT
       DEF Handle, Goto, TxTypeOK, Holding, Timely, Aged, Threads, Ids, Sleep, Period
  <2> QED
    BY <2>1, <2>2, <2>3, <2>4
<1>6. ASSUME NEW t \in {"json", "reader"}, LockWriter(t) PROVE IInv'
  <2>1. TxTypeOK'
    BY <1>6, SMT DEF LockWriter, Goto, TxTypeOK, Threads, Labels
  <2>2. Holding'
    BY <1>6, <1>t, SMT DEF LockWriter, Goto, TxTypeOK, Holding, Threads
  <2>3. Turns'
    BY <1>6, SMT DEF LockWriter, Goto, TxTypeOK, Turns, Threads
  <2>4. Timely'
    BY <1>6, <1>t, <1>h, SMT
       DEF LockWriter, Goto, TxTypeOK, Timely, Aged, Threads, Ids, Sleep, Period
  <2> QED
    BY <2>1, <2>2, <2>3, <2>4
<1>7. ASSUME NEW t \in {"json", "reader"}, Written(t) PROVE IInv'
  <2>1. TxTypeOK'
    BY <1>7, SMT DEF Written, Goto, TxTypeOK, Threads, Labels
  <2>2. Holding'
    BY <1>7, <1>t, SMT DEF Written, Goto, TxTypeOK, Holding, Threads
  <2>3. Turns'
    BY <1>7, SMT DEF Written, Goto, TxTypeOK, Turns, Threads
  <2>4. Timely'
    BY <1>7, <1>t, <1>h, SMT
       DEF Written, Goto, TxTypeOK, Timely, Aged, Threads, Ids, Sleep, Period
  <2> QED
    BY <2>1, <2>2, <2>3, <2>4
<1>8. ASSUME NEW d \in Steps, Tick(d) PROVE IInv'
  <2> d \in Nat
    BY TimingAssumption
  <2>1. TxTypeOK'
    BY <1>8, SMT DEF Tick, TxTypeOK, Threads, Labels, Ids
  <2>2. Holding'
    BY <1>8, <1>t, SMT DEF Tick, TxTypeOK, Holding, Threads
  <2>3. Turns'
    BY <1>8, SMT DEF Tick, TxTypeOK, Turns, Threads, Sleep
  <2>4. Timely'
    BY <1>8, <1>t, <1>h, SMT
       DEF Tick, TxTypeOK, Holding, Timely, Aged, Threads, Ids, Sleep, Period
  <2> QED
    BY <2>1, <2>2, <2>3, <2>4
<1>9. CASE UNCHANGED txVars
  BY <1>9, SMT DEF txVars, TxTypeOK, Holding, Turns, Timely, Aged
<1> QED
  BY <1>1, <1>2, <1>3, <1>4, <1>5, <1>6, <1>7, <1>8, <1>9 DEF TxNext

\* The bounds add up to the timeout.
LEMMA InvariantSuffices == IInv => KeepAlive
<1> SUFFICES ASSUME IInv PROVE KeepAlive
  OBVIOUS
<1>1. /\ Late \in Nat /\ Hold \in Nat /\ MaxTurns \in Nat /\ turns \in Nat
      /\ held \in Nat /\ nap \in Nat /\ age["0x300"] \in Nat /\ silence \in Nat
  BY TimingAssumption, SMT DEF IInv, TxTypeOK, Ids
<1>2. /\ turns * Hold \in Nat /\ MaxTurns * Hold \in Nat
      /\ (turns - 1) * Hold = turns * Hold - Hold
      /\ turns <= MaxTurns => turns * Hold <= MaxTurns * Hold
      /\ (MaxTurns + 1) * Hold = MaxTurns * Hold + Hold
  <2>1. turns <= turns /\ MaxTurns <= MaxTurns
    BY <1>1, SMT
  <2>2. turns * Hold \in Nat /\ (turns - 1) * Hold = turns * Hold - Hold
    BY <1>1, <2>1, Holds
  <2>3. MaxTurns * Hold \in Nat /\ (MaxTurns + 1) * Hold = MaxTurns * Hold + Hold
    BY <1>1, <2>1, Holds
  <2>4. turns <= MaxTurns => turns * Hold <= MaxTurns * Hold
    BY <1>1, Holds
  <2> QED
    BY <2>2, <2>3, <2>4
<1>3. 10 + 5 + Late + (MaxTurns * Hold + Hold) <= 100
  BY <1>2, TimingAssumption DEF Period, Ids, Sleep, Timeout
<1>4. /\ silence <= age["0x300"]
      /\ pc["can"] = "sleep" => age["0x300"] < 10 + nap /\ nap <= 5 + Late
      /\ pc["can"] = "wait" => turns <= MaxTurns
      /\ pc["can"] = "wait" /\ holder = Nobody => age["0x300"] < 10 + (5 + Late + turns * Hold)
      /\ pc["can"] = "wait" /\ holder # Nobody =>
             age["0x300"] < 10 + (5 + Late + (turns - 1) * Hold + held) /\ held <= Hold
      /\ pc["can"] = "hold" => age["0x300"] < 10 + (5 + Late + MaxTurns * Hold + held)
                               /\ held <= Hold
      /\ pc["can"] \in {"sleep", "wait", "hold"}
  <2>1. "can" \in Threads /\ Nobody # "can" /\ Period["0x300"] = 10
    BY NobodyAssumption DEF Threads, Period, Ids
  <2> QED
    BY <2>1, SMT DEF IInv, Timely, Aged, Turns, Holding, Sleep
<1>5. silence < 100
  <2>1. CASE pc["can"] = "sleep"
    BY <1>1, <1>2, <1>3, <1>4, <2>1, SMT
  <2>2. CASE pc["can"] = "wait" /\ holder = Nobody
    BY <1>1, <1>2, <1>3, <1>4, <2>2, SMT
  <2>3. CASE pc["can"] = "wait" /\ holder # Nobody
    BY <1>1, <1>2, <1>3, <1>4, <2>3, SMT
  <2>4. CASE pc["can"] = "hold"
    BY <1>1, <1>2, <1>3, <1>4, <2>4, SMT
  <2> QED
    BY <1>4, <2>1, <2>2, <2>3, <2>4
<1> QED
  BY <1>5 DEF KeepAlive, Timeout

\* While a session is in the normal mode the inverter is never left without a
\* 0x300 for its timeout, however long the WebSocket blocks.
THEOREM InTime == TxSpec => []KeepAlive
<1>1. TxInit => IInv
  BY InitHolds
<1>2. IInv /\ [TxNext]_txVars => IInv'
  BY StepHolds
<1>3. IInv => KeepAlive
  BY InvariantSuffices
<1> QED
  BY <1>1, <1>2, <1>3, PTL DEF TxSpec

\* Every variable of the schedule keeps its type.
THEOREM TypesKept == TxSpec => []TxTypeOK
<1>1. TxInit => IInv
  BY InitHolds
<1>2. IInv /\ [TxNext]_txVars => IInv'
  BY StepHolds
<1>3. IInv => TxTypeOK
  BY DEF IInv
<1> QED
  BY <1>1, <1>2, <1>3, PTL DEF TxSpec
=============================================================================
