----------------------------- MODULE CodecProofs -----------------------------
(***************************************************************************)
(* The byte loops of the codec write and read exactly the bits the DBC     *)
(* gives a signal, for every start bit and every length up to 24; numbers  *)
(* that fit come through unchanged; and in a payload packed from signals   *)
(* that share no bit, each says its own value.                             *)
(***************************************************************************)
EXTENDS DriveFrames, TLAPS

\* Reading a byte from its top mirrors the number of a bit within it.
LEMMA SawtoothMirrors ==
    ASSUME NEW e \in Int, NEW r \in 0 .. 7
    PROVE  /\ Sawtooth(8 * e + (7 - r)) = 8 * e + r
           /\ 8 * e + r \in Int
<1>1. (8 * e + (7 - r)) \div 8 = e /\ (8 * e + (7 - r)) % 8 = 7 - r
  BY SMT
<1> QED
  BY <1>1, SMT DEF Sawtooth

\* The shift and the byte count of the code, whichever way the subtraction
\* goes: they place the field's last bit b - d (mod 8) above a byte's end.
LEMMA ShiftAndBytes ==
    ASSUME NEW s \in Nat, NEW n \in 1 .. 24
    PROVE  /\ shift(s, n) \in 0 .. 7
           /\ startByteInValue(s, n) \in 0 .. 3
           /\ 8 * startByteInValue(s, n) - shift(s, n) = n - 1 - (s % 8)
BY SMT DEF shift, startByteInValue, lengthInBytesIncreased, Difference

\* Where the loops of PackSignalToBytes and UnpackSignalFromBytes put bit k of
\* a value is where the DBC has it, and it is among the bytes they handle.
THEOREM LandingIsPlace ==
    ASSUME NEW s \in Nat, NEW n \in 1 .. 24, NEW k \in 0 .. n - 1
    PROVE  /\ Landing(s, n, k + shift(s, n)) = Place(s, n, k)
           /\ k + shift(s, n) <= 8 * startByteInValue(s, n) + 7
<1> DEFINE a == s \div 8
           b == s % 8
           h == shift(s, n)
           last == startByteInValue(s, n)
           j == k + h
           q == j \div 8
           r == j % 8
           e == a + last - q
<1>1. a \in Nat /\ b \in 0 .. 7 /\ s = 8 * a + b
  BY SMT
<1>2. h \in 0 .. 7 /\ last \in 0 .. 3 /\ 8 * last - h = n - 1 - b
  BY ShiftAndBytes
<1>3. last \in 0 .. 3 /\ j \in Nat /\ 8 * last - j = n - 1 - b - k
  <2> HIDE DEF h, last, b
  <2> QED
    BY <1>1, <1>2, SMT
<1>4. q \in Nat /\ r \in 0 .. 7 /\ j = 8 * q + r
  <2> HIDE DEF j
  <2> QED
    BY <1>3, SMT
<1>5. Landing(s, n, j) = 8 * e + r
  BY DEF Landing
<1>6. Sawtooth(s) = 8 * a + 7 - b
  BY DEF Sawtooth
<1>7. Place(s, n, k) = Sawtooth(8 * a + 7 - b + n - 1 - k)
  BY <1>6 DEF Place
<1> HIDE DEF a, b, h, last, j, q, r
<1>8. 8 * a + 7 - b + n - 1 - k = 8 * e + (7 - r) /\ e \in Int
  BY <1>1, <1>3, <1>4, SMT
<1> HIDE DEF e
<1>9. Landing(s, n, j) = Place(s, n, k)
  BY <1>4, <1>5, <1>7, <1>8, SawtoothMirrors
<1>10. j <= 8 * last + 7
  BY <1>1, <1>3, SMT
<1> QED
  BY <1>9, <1>10 DEF j, last, h

\* Distinct bits of a field have distinct places.
LEMMA PlacesDiffer ==
    ASSUME NEW s \in Nat, NEW n \in 1 .. 24, NEW k \in 0 .. n - 1, NEW l \in 0 .. n - 1,
           Place(s, n, k) = Place(s, n, l)
    PROVE  k = l
<1> DEFINE u == Sawtooth(s) + n - 1 - k
           v == Sawtooth(s) + n - 1 - l
<1>1. Sawtooth(s) \in Int
  BY SMT DEF Sawtooth
<1>2. u \in Int /\ v \in Int /\ u - v = l - k
  <2> HIDE DEF u, v
  <2> QED
    BY <1>1, SMT DEF u, v
<1>3. Sawtooth(u) = Sawtooth(v)
  BY DEF Place
<1> HIDE DEF u, v
<1>4. u = v
  BY <1>2, <1>3, SMT DEF Sawtooth
<1> QED
  BY <1>2, <1>4, SMT

\* The places of the bits of a raw value.
Spread(bits, startBit, length) == { Place(startBit, length, k) : k \in bits }

\* Packing a value that fits sets exactly its places.
LEMMA PackSetsPlaces ==
    ASSUME NEW p, NEW s \in Nat, NEW n \in 1 .. 24, NEW raw \in SUBSET (0 .. n - 1)
    PROVE  \A bit : bit \in Pack(p, raw, s, n) <=> bit \in p \/ bit \in Spread(raw, s, n)
<1>1. \A k \in raw : /\ k + shift(s, n) <= 8 * startByteInValue(s, n) + 7
                     /\ Landing(s, n, k + shift(s, n)) = Place(s, n, k)
  BY LandingIsPlace
<1>2. { k \in raw : k + shift(s, n) <= 8 * startByteInValue(s, n) + 7 } = raw
  BY <1>1
<1> QED
  BY <1>1, <1>2 DEF Pack, Spread

\* The server reads a field exactly as the DBC says.
THEOREM UnpackIsMeaning ==
    ASSUME NEW p, NEW s \in Nat, NEW n \in 1 .. 24
    PROVE  Unpack(p, s, n) = Meaning(p, s, n)
BY LandingIsPlace DEF Unpack, Meaning

-----------------------------------------------------------------------------

\* A packed signal says its value.
LEMMA PackedSignal ==
    ASSUME NEW p, NEW s \in Nat, NEW n \in 1 .. 24, NEW raw \in SUBSET (0 .. n - 1),
           Meaning(p, s, n) = {}
    PROVE  Meaning(Pack(p, raw, s, n), s, n) = raw
<1>1. \A bit : bit \in Pack(p, raw, s, n) <=> bit \in p \/ bit \in Spread(raw, s, n)
  BY PackSetsPlaces
<1>2. ASSUME NEW k \in 0 .. n - 1
      PROVE  Place(s, n, k) \in Pack(p, raw, s, n) <=> k \in raw
  <2>1. Place(s, n, k) \notin p
    BY DEF Meaning
  <2>2. \A l \in raw : Place(s, n, k) = Place(s, n, l) => k = l
    BY PlacesDiffer
  <2> QED
    BY <1>1, <2>1, <2>2 DEF Spread
<1> QED
  BY <1>2 DEF Meaning

\* Two signals that share no bit.
Apart(start, length, other, lengthOfOther) ==
    Places(start, length) \cap Places(other, lengthOfOther) = {}

\* Packing a signal leaves what the others say.
LEMMA OtherSignal ==
    ASSUME NEW p, NEW s \in Nat, NEW n \in 1 .. 24, NEW raw \in SUBSET (0 .. n - 1),
           NEW t \in Nat, NEW l \in 1 .. 24, Apart(s, n, t, l)
    PROVE  Meaning(Pack(p, raw, s, n), t, l) = Meaning(p, t, l)
<1>1. \A bit : bit \in Pack(p, raw, s, n) <=> bit \in p \/ bit \in Spread(raw, s, n)
  BY PackSetsPlaces
<1>2. ASSUME NEW i \in 0 .. l - 1
      PROVE  Place(t, l, i) \in Pack(p, raw, s, n) <=> Place(t, l, i) \in p
  <2>1. Place(t, l, i) \in Places(t, l)
    BY DEF Places
  <2>2. \A k \in raw : Place(s, n, k) \in Places(s, n)
    BY DEF Places
  <2> QED
    BY <1>1, <2>1, <2>2 DEF Spread, Apart
<1> QED
  BY <1>2 DEF Meaning

\* The bits written are numbers.
LEMMA PackWritesBits ==
    ASSUME NEW p \in SUBSET Int, NEW s \in Nat, NEW n \in 1 .. 24,
           NEW raw \in SUBSET (0 .. n - 1)
    PROVE  Pack(p, raw, s, n) \subseteq Int
<1>1. ASSUME NEW j \in Nat
      PROVE  Landing(s, n, j) \in Int
  <2>1. s \div 8 \in Int /\ j \div 8 \in Int /\ j % 8 \in Int
    BY <1>1, SMT
  <2>2. startByteInValue(s, n) \in 0 .. 3
    BY ShiftAndBytes
  <2> QED
    BY <2>1, <2>2, SMT DEF Landing
<1>2. \A k \in raw : k + shift(s, n) \in Nat
  <2>1. shift(s, n) \in 0 .. 7
    BY ShiftAndBytes
  <2> QED
    BY <2>1, SMT
<1> QED
  BY <1>1, <1>2 DEF Pack

-----------------------------------------------------------------------------

(***************************************************************************)
(* Numbers and their bits.                                                 *)
(***************************************************************************)

\* The powers of two up to a word of four bytes.
LEMMA PowersOfTwo ==
  \A k :
    /\ k = 0 => 2 ^ k = 2 ^ 0
    /\ k = 1 => 2 ^ k = 2 ^ 1
    /\ k = 2 => 2 ^ k = 2 ^ 2
    /\ k = 3 => 2 ^ k = 2 ^ 3
    /\ k = 4 => 2 ^ k = 2 ^ 4
    /\ k = 5 => 2 ^ k = 2 ^ 5
    /\ k = 6 => 2 ^ k = 2 ^ 6
    /\ k = 7 => 2 ^ k = 2 ^ 7
    /\ k = 8 => 2 ^ k = 2 ^ 8
    /\ k = 9 => 2 ^ k = 2 ^ 9
    /\ k = 10 => 2 ^ k = 2 ^ 10
    /\ k = 11 => 2 ^ k = 2 ^ 11
    /\ k = 12 => 2 ^ k = 2 ^ 12
    /\ k = 13 => 2 ^ k = 2 ^ 13
    /\ k = 14 => 2 ^ k = 2 ^ 14
    /\ k = 15 => 2 ^ k = 2 ^ 15
    /\ k = 16 => 2 ^ k = 2 ^ 16
    /\ k = 17 => 2 ^ k = 2 ^ 17
    /\ k = 18 => 2 ^ k = 2 ^ 18
    /\ k = 19 => 2 ^ k = 2 ^ 19
    /\ k = 20 => 2 ^ k = 2 ^ 20
    /\ k = 21 => 2 ^ k = 2 ^ 21
    /\ k = 22 => 2 ^ k = 2 ^ 22
    /\ k = 23 => 2 ^ k = 2 ^ 23
    /\ k = 24 => 2 ^ k = 2 ^ 24
    /\ k = 25 => 2 ^ k = 2 ^ 25
    /\ k = 26 => 2 ^ k = 2 ^ 26
    /\ k = 27 => 2 ^ k = 2 ^ 27
    /\ k = 28 => 2 ^ k = 2 ^ 28
    /\ k = 29 => 2 ^ k = 2 ^ 29
    /\ k = 30 => 2 ^ k = 2 ^ 30
    /\ k = 31 => 2 ^ k = 2 ^ 31
    /\ k = 32 => 2 ^ k = 2 ^ 32
BY Zenon

\* A bit of a number, one of its bytes, and what is left above.
Bit(n, k) == IF k \in Bits(n) THEN 1 ELSE 0

Octet(n, k) ==
    Bit(n, k) + 2 * Bit(n, k + 1) + 4 * Bit(n, k + 2) + 8 * Bit(n, k + 3) + 16 * Bit(n, k + 4)
      + 32 * Bit(n, k + 5) + 64 * Bit(n, k + 6) + 128 * Bit(n, k + 7)

Rest(n, m) == n \div m

\* These are numbers.
LEMMA RestTypes ==
    /\ \A n, k : Bit(n, k) \in Int /\ Octet(n, k) \in Int
    /\ \A n \in Nat : \A m \in Nat \ {0} : Rest(n, m) \in Int
<1>1. \A n, k : Bit(n, k) \in Int
  BY SMT DEF Bit
<1>2. \A n, k : Octet(n, k) \in Int
  BY <1>1, SMT DEF Octet
<1>3. \A n \in Nat : \A m \in Nat \ {0} : Rest(n, m) \in Int
  BY SMT DEF Rest
<1> QED
  BY <1>1, <1>2, <1>3, SMT

\* Bit by bit,
LEMMA Halved ==
    ASSUME NEW n \in Nat
    PROVE  /\ Rest(n, 1) = 2 * Rest(n, 2) + Bit(n, 0)
           /\ Rest(n, 2) = 2 * Rest(n, 4) + Bit(n, 1)
           /\ Rest(n, 4) = 2 * Rest(n, 8) + Bit(n, 2)
           /\ Rest(n, 8) = 2 * Rest(n, 16) + Bit(n, 3)
           /\ Rest(n, 16) = 2 * Rest(n, 32) + Bit(n, 4)
           /\ Rest(n, 32) = 2 * Rest(n, 64) + Bit(n, 5)
           /\ Rest(n, 64) = 2 * Rest(n, 128) + Bit(n, 6)
           /\ Rest(n, 128) = 2 * Rest(n, 256) + Bit(n, 7)
           /\ Rest(n, 256) = 2 * Rest(n, 512) + Bit(n, 8)
           /\ Rest(n, 512) = 2 * Rest(n, 1024) + Bit(n, 9)
           /\ Rest(n, 1024) = 2 * Rest(n, 2048) + Bit(n, 10)
           /\ Rest(n, 2048) = 2 * Rest(n, 4096) + Bit(n, 11)
           /\ Rest(n, 4096) = 2 * Rest(n, 8192) + Bit(n, 12)
           /\ Rest(n, 8192) = 2 * Rest(n, 16384) + Bit(n, 13)
           /\ Rest(n, 16384) = 2 * Rest(n, 32768) + Bit(n, 14)
           /\ Rest(n, 32768) = 2 * Rest(n, 65536) + Bit(n, 15)
           /\ Rest(n, 65536) = 2 * Rest(n, 131072) + Bit(n, 16)
           /\ Rest(n, 131072) = 2 * Rest(n, 262144) + Bit(n, 17)
           /\ Rest(n, 262144) = 2 * Rest(n, 524288) + Bit(n, 18)
           /\ Rest(n, 524288) = 2 * Rest(n, 1048576) + Bit(n, 19)
           /\ Rest(n, 1048576) = 2 * Rest(n, 2097152) + Bit(n, 20)
           /\ Rest(n, 2097152) = 2 * Rest(n, 4194304) + Bit(n, 21)
           /\ Rest(n, 4194304) = 2 * Rest(n, 8388608) + Bit(n, 22)
           /\ Rest(n, 8388608) = 2 * Rest(n, 16777216) + Bit(n, 23)
BY SMT DEF Bit, Bits, Rest

\* and byte by byte.
LEMMA OctetsAre ==
    ASSUME NEW n \in Nat
    PROVE  /\ Rest(n, 1) = 256 * Rest(n, 256) + Octet(n, 0)
           /\ Rest(n, 256) = 256 * Rest(n, 65536) + Octet(n, 8)
           /\ Rest(n, 65536) = 256 * Rest(n, 16777216) + Octet(n, 16)
<1>1. /\ Rest(n, 1) = 2 * Rest(n, 2) + Bit(n, 0)
      /\ Rest(n, 2) = 2 * Rest(n, 4) + Bit(n, 1)
      /\ Rest(n, 4) = 2 * Rest(n, 8) + Bit(n, 2)
      /\ Rest(n, 8) = 2 * Rest(n, 16) + Bit(n, 3)
      /\ Rest(n, 16) = 2 * Rest(n, 32) + Bit(n, 4)
      /\ Rest(n, 32) = 2 * Rest(n, 64) + Bit(n, 5)
      /\ Rest(n, 64) = 2 * Rest(n, 128) + Bit(n, 6)
      /\ Rest(n, 128) = 2 * Rest(n, 256) + Bit(n, 7)
  BY Halved, SMT
<1>2. /\ Rest(n, 256) = 2 * Rest(n, 512) + Bit(n, 8)
      /\ Rest(n, 512) = 2 * Rest(n, 1024) + Bit(n, 9)
      /\ Rest(n, 1024) = 2 * Rest(n, 2048) + Bit(n, 10)
      /\ Rest(n, 2048) = 2 * Rest(n, 4096) + Bit(n, 11)
      /\ Rest(n, 4096) = 2 * Rest(n, 8192) + Bit(n, 12)
      /\ Rest(n, 8192) = 2 * Rest(n, 16384) + Bit(n, 13)
      /\ Rest(n, 16384) = 2 * Rest(n, 32768) + Bit(n, 14)
      /\ Rest(n, 32768) = 2 * Rest(n, 65536) + Bit(n, 15)
  BY Halved, SMT
<1>3. /\ Rest(n, 65536) = 2 * Rest(n, 131072) + Bit(n, 16)
      /\ Rest(n, 131072) = 2 * Rest(n, 262144) + Bit(n, 17)
      /\ Rest(n, 262144) = 2 * Rest(n, 524288) + Bit(n, 18)
      /\ Rest(n, 524288) = 2 * Rest(n, 1048576) + Bit(n, 19)
      /\ Rest(n, 1048576) = 2 * Rest(n, 2097152) + Bit(n, 20)
      /\ Rest(n, 2097152) = 2 * Rest(n, 4194304) + Bit(n, 21)
      /\ Rest(n, 4194304) = 2 * Rest(n, 8388608) + Bit(n, 22)
      /\ Rest(n, 8388608) = 2 * Rest(n, 16777216) + Bit(n, 23)
  BY Halved, SMT
<1>4. Rest(n, 1) = 256 * Rest(n, 256) + Octet(n, 0)
  <2>1. Octet(n, 0) = Bit(n, 0) + 2 * Bit(n, 1) + 4 * Bit(n, 2) + 8 * Bit(n, 3) + 16 * Bit(n, 4) + 32 * Bit(n, 5) + 64 * Bit(n, 6) + 128 * Bit(n, 7)
    BY SMT DEF Octet
  <2> QED
    BY <1>1, <2>1, RestTypes, SMT
<1>5. Rest(n, 256) = 256 * Rest(n, 65536) + Octet(n, 8)
  <2>1. Octet(n, 8) = Bit(n, 8) + 2 * Bit(n, 9) + 4 * Bit(n, 10) + 8 * Bit(n, 11) + 16 * Bit(n, 12) + 32 * Bit(n, 13) + 64 * Bit(n, 14) + 128 * Bit(n, 15)
    BY SMT DEF Octet
  <2> QED
    BY <1>2, <2>1, RestTypes, SMT
<1>6. Rest(n, 65536) = 256 * Rest(n, 16777216) + Octet(n, 16)
  <2>1. Octet(n, 16) = Bit(n, 16) + 2 * Bit(n, 17) + 4 * Bit(n, 18) + 8 * Bit(n, 19) + 16 * Bit(n, 20) + 32 * Bit(n, 21) + 64 * Bit(n, 22) + 128 * Bit(n, 23)
    BY SMT DEF Octet
  <2> QED
    BY <1>3, <2>1, RestTypes, SMT
<1> QED
  BY <1>4, <1>5, <1>6, SMT

\* A number below 2 ^ 24 is that of its bits.
LEMMA NumberOfBits ==
    ASSUME NEW n \in Nat, n < 16777216
    PROVE  Number(Bits(n)) = n
<1>1. Number(Bits(n)) = Octet(n, 0) + 256 * Octet(n, 8) + 65536 * Octet(n, 16)
  BY SMT DEF Number, Octet, Bit
<1>2. Rest(n, 16777216) = 0 /\ Rest(n, 1) = n
  BY SMT DEF Rest
<1>3. Rest(n, 256) \in Int /\ Rest(n, 65536) \in Int
  BY RestTypes, SMT
<1> QED
  BY <1>1, <1>2, <1>3, OctetsAre, RestTypes, SMT

\* The powers of two grow.
LEMMA PowersGrow ==
    ASSUME NEW a \in 0 .. 31, NEW b \in 0 .. 31, a <= b
    PROVE  2 ^ a \in Nat \ {0} /\ 2 ^ a <= 2 ^ b
BY PowersOfTwo, SMT

\* Values that a signal of n bits can hold,
RawValues(n) == 0 .. 2 ^ n - 1

\* have no other bits.
LEMMA BitsFit ==
    ASSUME NEW n \in 1 .. 24, NEW v \in RawValues(n)
    PROVE  Bits(v) \subseteq 0 .. n - 1 /\ Number(Bits(v)) = v
<1>1. v \in Nat /\ v < 2 ^ n /\ 2 ^ n \in Nat /\ 2 ^ n <= 2 ^ 24
  <2>1. n \in 0 .. 31 /\ 24 \in 0 .. 31 /\ n <= 24
    BY SMT
  <2>2. 2 ^ n \in Nat \ {0} /\ 2 ^ n <= 2 ^ 24
    BY <2>1, PowersGrow, Zenon
  <2> QED
    BY <2>2, SMT DEF RawValues
<1>2. v < 16777216
  BY <1>1, SMT
<1>3. ASSUME NEW k \in Bits(v)
      PROVE  k \in 0 .. n - 1
  <2>1. k \in 0 .. 30 /\ (v \div 2 ^ k) % 2 = 1
    BY <1>1, SMT DEF Bits
  <2>2. CASE n <= k
    <3>1. n \in 0 .. 31 /\ k \in 0 .. 31
      BY <2>1, SMT
    <3>2. 2 ^ k \in Nat \ {0} /\ 2 ^ k <= 2 ^ k
      <4>1. k <= k
        BY <3>1, SMT
      <4> QED
        BY <3>1, <4>1, PowersGrow, Zenon
    <3>3. 2 ^ n <= 2 ^ k
      BY <2>2, <3>1, PowersGrow, Zenon
    <3>4. PICK p : p = 2 ^ k
      OBVIOUS
    <3>5. v < p /\ p \in Nat \ {0}
      BY <1>1, <3>2, <3>3, <3>4, SMT
    <3>6. v \div p = 0
      BY <1>1, <3>5, SMT
    <3> QED
      BY <2>1, <3>4, <3>6, SMT
  <2> QED
    BY <2>1, <2>2, SMT
<1> QED
  BY <1>1, <1>2, <1>3, NumberOfBits, SMT

-----------------------------------------------------------------------------

(***************************************************************************)
(* Payloads made of several signals.                                       *)
(***************************************************************************)

\* A value spread over its places is read back,
LEMMA SpreadIsRead ==
    ASSUME NEW s \in Nat, NEW n \in 1 .. 24, NEW raw \in SUBSET (0 .. n - 1)
    PROVE  Meaning(Spread(raw, s, n), s, n) = raw
<1>1. ASSUME NEW k \in 0 .. n - 1
      PROVE  Place(s, n, k) \in Spread(raw, s, n) <=> k \in raw
  <2>1. \A l \in raw : Place(s, n, k) = Place(s, n, l) => k = l
    BY PlacesDiffer
  <2> QED
    BY <2>1 DEF Spread
<1> QED
  BY <1>1 DEF Meaning

\* beside whatever avoids them.
LEMMA MeaningAmong ==
    ASSUME NEW parts, NEW p \in parts, NEW s, NEW n,
           \A q \in parts : q = p \/ q \cap Places(s, n) = {}
    PROVE  Meaning(UNION parts, s, n) = Meaning(p, s, n)
<1>1. ASSUME NEW k \in 0 .. n - 1
      PROVE  Place(s, n, k) \in UNION parts <=> Place(s, n, k) \in p
  <2>1. Place(s, n, k) \in Places(s, n)
    BY DEF Places
  <2> QED
    BY <2>1
<1> QED
  BY <1>1 DEF Meaning

\* A payload bit is at one place of the sawtooth.
LEMMA SawtoothIsOneToOne ==
    ASSUME NEW a \in Int, NEW b \in Int, Sawtooth(a) = Sawtooth(b)
    PROVE  a = b
BY SMT DEF Sawtooth

\* Two signals are apart when one ends before the other begins.
Before(s, n, t) == Sawtooth(s) + n <= Sawtooth(t)

\* Such signals share no bit.
LEMMA ApartIs ==
    ASSUME NEW s \in Nat, NEW n \in 1 .. 24, NEW t \in Nat, NEW l \in 1 .. 24,
           Before(s, n, t) \/ Before(t, l, s)
    PROVE  Apart(s, n, t, l)
<1>1. Sawtooth(s) \in Int /\ Sawtooth(t) \in Int
  BY SMT DEF Sawtooth
<1>2. ASSUME NEW k \in 0 .. n - 1, NEW i \in 0 .. l - 1, Place(s, n, k) = Place(t, l, i)
      PROVE  FALSE
  <2> DEFINE a == Sawtooth(s) + n - 1 - k
             b == Sawtooth(t) + l - 1 - i
  <2>1. a \in Int /\ b \in Int
    BY <1>1, SMT
  <2>2. Sawtooth(a) = Sawtooth(b)
    BY <1>2 DEF Place
  <2>3. a = b
    <3> HIDE DEF a, b
    <3> QED
      BY <2>1, <2>2, SawtoothIsOneToOne
  <2> QED
    BY <1>1, <2>3, SMT DEF Before
<1> QED
  BY <1>2 DEF Apart, Places

\* What PackSignalToBytes writes stays in the signal's places if the value fits,
LEMMA PackOfFitting ==
    ASSUME NEW s \in Nat, NEW n \in 1 .. 24, NEW raw \in SUBSET (0 .. n - 1)
    PROVE  Pack({}, raw, s, n) = Spread(raw, s, n) /\ Spread(raw, s, n) \subseteq Places(s, n)
<1>1. PICK p : p = {}
  OBVIOUS
<1>2. \A bit : bit \in Pack(p, raw, s, n) <=> bit \in p \/ bit \in Spread(raw, s, n)
  BY PackSetsPlaces
<1>3. Pack(p, raw, s, n) = Spread(raw, s, n)
  BY <1>1, <1>2
<1> QED
  BY <1>1, <1>3 DEF Spread, Places

\* or if the signal begins at the top of a byte: what does not fit is lost.
LEMMA PackAtTop ==
    ASSUME NEW s \in Nat, s % 8 = 7, NEW n \in 1 .. 24, NEW raw \in SUBSET Nat
    PROVE  Pack({}, raw, s, n) \subseteq Places(s, n)
<1>1. /\ shift(s, n) \in 0 .. 7
      /\ startByteInValue(s, n) \in 0 .. 3
      /\ 8 * startByteInValue(s, n) - shift(s, n) = n - 1 - (s % 8)
  BY ShiftAndBytes
<1>2. ASSUME NEW k \in raw, k + shift(s, n) <= 8 * startByteInValue(s, n) + 7
      PROVE  Landing(s, n, k + shift(s, n)) \in Places(s, n)
  <2>1. k \in Nat
    OBVIOUS
  <2>2. k \in 0 .. n - 1
    BY <1>1, <1>2, <2>1, SMT
  <2>3. Landing(s, n, k + shift(s, n)) = Place(s, n, k)
    BY <2>2, LandingIsPlace
  <2> QED
    BY <2>2, <2>3 DEF Places
<1> QED
  BY <1>2 DEF Pack

\* The calls for the signals of one frame: every signal keeps to its places and
\* those of the one that is read are its own.
Keeps(v, s, n) == v \in RawValues(n) \/ s % 8 = 7

\* A call that keeps to its places writes nowhere else,
LEMMA PackKeeps ==
    ASSUME NEW v, NEW s \in Nat, NEW n \in 1 .. 24, Keeps(v, s, n)
    PROVE  Pack({}, Bits(v), s, n) \subseteq Places(s, n)
<1>1. CASE v \in RawValues(n)
  <2>1. Bits(v) \in SUBSET (0 .. n - 1)
    BY <1>1, BitsFit
  <2> QED
    BY <2>1, PackOfFitting
<1>2. CASE s % 8 = 7
  <2>1. Bits(v) \in SUBSET Nat
    BY SMT DEF Bits
  <2> QED
    BY <1>2, <2>1, PackAtTop
<1> QED
  BY <1>1, <1>2 DEF Keeps

\* so the inverter reads a signal of the frame as it was packed.
LEMMA ReadIs ==
    ASSUME NEW calls, NEW v, NEW s \in Nat, NEW n \in 1 .. 24, v \in RawValues(n),
           <<v, s, n>> \in calls,
           \A c \in calls :
             \/ c = <<v, s, n>>
             \/ /\ c[2] \in Nat /\ c[3] \in 1 .. 24 /\ Keeps(c[1], c[2], c[3])
                /\ Apart(c[2], c[3], s, n)
    PROVE  Read(PackAll(calls), s, n) = v
<1> DEFINE parts == { Pack({}, Bits(c[1]), c[2], c[3]) : c \in calls }
           p == Pack({}, Bits(v), s, n)
<1>1. p \in parts
  <2>1. Pack({}, Bits(<<v, s, n>>[1]), <<v, s, n>>[2], <<v, s, n>>[3]) \in parts
    OBVIOUS
  <2> QED
    BY <2>1
<1>2. ASSUME NEW c \in calls
      PROVE  Pack({}, Bits(c[1]), c[2], c[3]) = p \/ Pack({}, Bits(c[1]), c[2], c[3]) \cap Places(s, n) = {}
  <2>1. CASE c = <<v, s, n>>
    BY <2>1
  <2>2. CASE c[2] \in Nat /\ c[3] \in 1 .. 24 /\ Keeps(c[1], c[2], c[3]) /\ Apart(c[2], c[3], s, n)
    <3>1. Pack({}, Bits(c[1]), c[2], c[3]) \subseteq Places(c[2], c[3])
      BY <2>2, PackKeeps
    <3> QED
      BY <2>2, <3>1 DEF Apart
  <2> QED
    BY <2>1, <2>2
<1>3. \A q \in parts : q = p \/ q \cap Places(s, n) = {}
  BY <1>2
<1>4. Bits(v) \in SUBSET (0 .. n - 1) /\ Number(Bits(v)) = v
  BY BitsFit
<1>5. Meaning(p, s, n) = Bits(v)
  BY <1>4, PackOfFitting, SpreadIsRead
<1> HIDE DEF parts, p
<1>6. Meaning(UNION parts, s, n) = Bits(v)
  BY <1>1, <1>3, <1>5, MeaningAmong
<1> QED
  BY <1>4, <1>6 DEF Read, PackAll, parts
==============================================================================
