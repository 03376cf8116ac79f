----------------------------- MODULE PartsProofs -----------------------------
(***************************************************************************)
(* Parts that stand by themselves: the driver of the recorder, for any     *)
(* number of objects, any size of a sample and any samples; the            *)
(* configuration file, for any values; and the frames the server packs,    *)
(* for any layout of disjoint signals.                                     *)
(***************************************************************************)
EXTENDS Payload, Telemetry, Oscilloscope, ConfigFile, CodecProofs, FiniteSetTheorems,
        TLAPS

(***************************************************************************)
(* The uses of the library.                                                *)
(***************************************************************************)

Holding == {"opening", "reopening", "open", "closed"}

\* The objects that have a use of the library to give back, and those that have
\* taken a second one.
Users == { o \in Object : handle_[o] \in Holding }

Again == { o \in Object : handle_[o] = "reopening" }

\* The count is no less than the uses that will be given back: a reconnection
\* leaves one behind.
CountInv ==
    /\ handle_ \in [Object -> {"none", "fresh"} \cup Holding]
    /\ IsFiniteSet(Users) /\ IsFiniteSet(Again)
    /\ apiRefCount_ \in Nat
    /\ apiRefCount_ >= Cardinality(Users) + Cardinality(Again)

\* The library is ready as long as it is in use.
ReadyInv == initialised \in BOOLEAN /\ (initialised <=> apiRefCount_ > 0)

\* What a step of one object does to the sets.
LEMMA BecomesIs ==
    ASSUME CountInv, NEW o \in Object, NEW h \in {"none", "fresh"} \cup Holding, Becomes(o, h)
    PROVE  /\ handle_' \in [Object -> {"none", "fresh"} \cup Holding]
           /\ Users' = IF h \in Holding THEN Users \cup {o} ELSE Users \ {o}
           /\ Again' = IF h = "reopening" THEN Again \cup {o} ELSE Again \ {o}
BY DEF CountInv, Becomes, Users, Again, Holding

\* The sizes of the sets, and what they become.
LEMMA SizesAre ==
    ASSUME CountInv, NEW o \in Object
    PROVE  /\ Cardinality(Users) \in Nat /\ Cardinality(Again) \in Nat
           /\ IsFiniteSet(Users \cup {o}) /\ IsFiniteSet(Users \ {o})
           /\ IsFiniteSet(Again \cup {o}) /\ IsFiniteSet(Again \ {o})
           /\ o \in Users => Cardinality(Users \cup {o}) = Cardinality(Users)
           /\ o \notin Users => Cardinality(Users \cup {o}) = Cardinality(Users) + 1
           /\ o \in Users => Cardinality(Users \ {o}) = Cardinality(Users) - 1
           /\ o \notin Users => Cardinality(Users \ {o}) = Cardinality(Users)
           /\ o \in Again => Cardinality(Again \cup {o}) = Cardinality(Again)
           /\ o \notin Again => Cardinality(Again \cup {o}) = Cardinality(Again) + 1
           /\ o \in Again => Cardinality(Again \ {o}) = Cardinality(Again) - 1
           /\ o \notin Again => Cardinality(Again \ {o}) = Cardinality(Again)
<1>1. IsFiniteSet(Users) /\ IsFiniteSet(Again)
  BY DEF CountInv
<1>2. Cardinality(Users) \in Nat /\ Cardinality(Again) \in Nat
  BY <1>1, FS_CardinalityType
<1> QED
  BY <1>1, <1>2, FS_AddElement, FS_RemoveElement

\* An object that holds a use is counted.
LEMMA UserIsCounted ==
    ASSUME CountInv, NEW o \in Users
    PROVE  apiRefCount_ > 0
<1>1. Users # {} /\ IsFiniteSet(Users) /\ IsFiniteSet(Again)
  BY DEF CountInv
<1>2. /\ Cardinality(Users) \in Nat /\ Cardinality(Again) \in Nat
      /\ Cardinality(Users) # 0
  BY <1>1, FS_CardinalityType, FS_EmptySet
<1>3. apiRefCount_ \in Nat /\ apiRefCount_ >= Cardinality(Users) + Cardinality(Again)
  BY DEF CountInv
<1> QED
  BY <1>2, <1>3

\* What an object holds.
Uses(h) == (IF h \in Holding THEN 1 ELSE 0) + (IF h = "reopening" THEN 1 ELSE 0)

\* What a call takes or gives back.
LEMMA ChangesOfUse ==
    /\ 0 >= Uses("fresh") - Uses("none") /\ 0 >= Uses("open") - Uses("opening")
    /\ 0 >= Uses("open") - Uses("reopening") /\ 0 >= Uses("closed") - Uses("open")
    /\ 1 >= Uses("opening") - Uses("fresh") /\ 1 >= Uses("reopening") - Uses("closed")
    /\ -1 >= Uses("fresh") - Uses("opening") /\ -1 >= Uses("closed") - Uses("reopening")
    /\ -1 >= Uses("none") - Uses("open") /\ -1 >= Uses("none") - Uses("closed")
BY DEF Uses, Holding

\* A step of one object keeps the invariant if the count goes with it.
LEMMA CountBecomes ==
    ASSUME CountInv, NEW o \in Object, NEW h \in {"none", "fresh"} \cup Holding, Becomes(o, h),
           apiRefCount_' \in Nat, apiRefCount_' - apiRefCount_ >= Uses(h) - Uses(handle_[o])
    PROVE  CountInv'
<1>1. (o \in Users <=> handle_[o] \in Holding) /\ (o \in Again <=> handle_[o] = "reopening")
  BY DEF Users, Again
<1>2. /\ handle_' \in [Object -> {"none", "fresh"} \cup Holding]
      /\ Users' = IF h \in Holding THEN Users \cup {o} ELSE Users \ {o}
      /\ Again' = IF h = "reopening" THEN Again \cup {o} ELSE Again \ {o}
  BY BecomesIs
<1>3. /\ Cardinality(Users) \in Nat /\ Cardinality(Again) \in Nat
      /\ IsFiniteSet(Users \cup {o}) /\ IsFiniteSet(Users \ {o})
      /\ IsFiniteSet(Again \cup {o}) /\ IsFiniteSet(Again \ {o})
      /\ o \in Users => Cardinality(Users \cup {o}) = Cardinality(Users)
      /\ o \notin Users => Cardinality(Users \cup {o}) = Cardinality(Users) + 1
      /\ o \in Users => Cardinality(Users \ {o}) = Cardinality(Users) - 1
      /\ o \notin Users => Cardinality(Users \ {o}) = Cardinality(Users)
      /\ o \in Again => Cardinality(Again \cup {o}) = Cardinality(Again)
      /\ o \notin Again => Cardinality(Again \cup {o}) = Cardinality(Again) + 1
      /\ o \in Again => Cardinality(Again \ {o}) = Cardinality(Again) - 1
      /\ o \notin Again => Cardinality(Again \ {o}) = Cardinality(Again)
  BY SizesAre
<1>4. apiRefCount_ \in Nat /\ apiRefCount_ >= Cardinality(Users) + Cardinality(Again)
  BY DEF CountInv
<1> HIDE DEF Users, Again, Holding
<1>5. IsFiniteSet(Users') /\ IsFiniteSet(Again')
  BY <1>2, <1>3
<1>6. /\ h \in Holding /\ o \in Users => Cardinality(Users') = Cardinality(Users)
      /\ h \in Holding /\ o \notin Users => Cardinality(Users') = Cardinality(Users) + 1
      /\ h \notin Holding /\ o \in Users => Cardinality(Users') = Cardinality(Users) - 1
      /\ h \notin Holding /\ o \notin Users => Cardinality(Users') = Cardinality(Users)
  <2>1. CASE h \in Holding
    <3>1. Users' = Users \cup {o}
      BY <1>2, <2>1
    <3> QED
      BY <1>3, <2>1, <3>1, Zenon
  <2>2. CASE h \notin Holding
    <3>1. Users' = Users \ {o}
      BY <1>2, <2>2
    <3> QED
      BY <1>3, <2>2, <3>1, Zenon
  <2> QED
    BY <2>1, <2>2
<1>7. /\ h = "reopening" /\ o \in Again => Cardinality(Again') = Cardinality(Again)
      /\ h = "reopening" /\ o \notin Again => Cardinality(Again') = Cardinality(Again) + 1
      /\ h # "reopening" /\ o \in Again => Cardinality(Again') = Cardinality(Again) - 1
      /\ h # "reopening" /\ o \notin Again => Cardinality(Again') = Cardinality(Again)
  <2>1. CASE h = "reopening"
    <3>1. Again' = Again \cup {o}
      BY <1>2, <2>1
    <3> QED
      BY <1>3, <2>1, <3>1, Zenon
  <2>2. CASE h # "reopening"
    <3>1. Again' = Again \ {o}
      BY <1>2, <2>2
    <3> QED
      BY <1>3, <2>2, <3>1, Zenon
  <2> QED
    BY <2>1, <2>2
<1>8. apiRefCount_' >= Cardinality(Users') + Cardinality(Again')
  <2>1. \/ h \notin Holding /\ h # "reopening" /\ Uses(h) = 0
        \/ h \in Holding /\ h # "reopening" /\ Uses(h) = 1
        \/ h \in Holding /\ h = "reopening" /\ Uses(h) = 2
    BY DEF Uses, Holding
  <2>2. \/ o \notin Users /\ o \notin Again /\ Uses(handle_[o]) = 0
        \/ o \in Users /\ o \notin Again /\ Uses(handle_[o]) = 1
        \/ o \in Users /\ o \in Again /\ Uses(handle_[o]) = 2
    BY <1>1 DEF Uses, Holding
  <2>3. Cardinality(Users') + Cardinality(Again') - (Cardinality(Users) + Cardinality(Again))
          <= Uses(h) - Uses(handle_[o])
    BY <1>3, <1>6, <1>7, <2>1, <2>2
  <2>4. Cardinality(Users') \in Int /\ Cardinality(Again') \in Int /\ Uses(h) \in Int
        /\ Uses(handle_[o]) \in Int
    BY <1>3, <1>6, <1>7, <2>1, <2>2
  <2> QED
    BY <1>3, <1>4, <2>3, <2>4
<1>9. IsFiniteSet(Users)' /\ IsFiniteSet(Again)' /\ Cardinality(Users)' = Cardinality(Users')
      /\ Cardinality(Again)' = Cardinality(Again')
  BY <1>5
<1> QED
  BY <1>2, <1>8, <1>9 DEF CountInv

\* The invariant holds at first,
LEMMA CountInit == ScopeInit => CountInv /\ ReadyInv
<1> SUFFICES ASSUME ScopeInit PROVE CountInv /\ ReadyInv
  OBVIOUS
<1>1. Users = {} /\ Again = {}
  BY DEF ScopeInit, Users, Again, Holding
<1>2. IsFiniteSet(Users) /\ IsFiniteSet(Again)
  BY <1>1, FS_EmptySet
<1>3. Cardinality(Users) = 0 /\ Cardinality(Again) = 0
  BY <1>1, FS_EmptySet
<1>4. handle_ \in [Object -> {"none", "fresh"} \cup Holding]
  BY DEF ScopeInit
<1>5. apiRefCount_ \in Nat /\ apiRefCount_ >= Cardinality(Users) + Cardinality(Again)
  BY <1>3 DEF ScopeInit
<1>6. ~ apiRefCount_ > 0
  BY DEF ScopeInit
<1> QED
  BY <1>2, <1>4, <1>5, <1>6, Zenon DEF CountInv, ReadyInv, ScopeInit

\* and every step keeps it, as long as no object is destroyed unused.
LEMMA CountStep ==
    ASSUME ~ DestroyUnused, CountInv, ReadyInv, [ScopeNext]_scopeVars
    PROVE  CountInv' /\ ReadyInv'
<1>1. apiRefCount_ \in Nat
  BY DEF CountInv
<1>2. ASSUME NEW o \in Object, Construct(o) \/ Connected(o) \/ disconnect(o)
      PROVE  CountInv' /\ ReadyInv'
  <2>1. \/ handle_[o] = "none" /\ Becomes(o, "fresh")
        \/ handle_[o] \in {"opening", "reopening"} /\ Becomes(o, "open")
        \/ handle_[o] = "open" /\ Becomes(o, "closed")
    BY <1>2 DEF Construct, Connected, disconnect
  <2>2. PICK h \in {"none", "fresh"} \cup Holding : Becomes(o, h) /\ 0 >= Uses(h) - Uses(handle_[o])
    BY <2>1, Zenon, ChangesOfUse DEF Holding
  <2>3. apiRefCount_' = apiRefCount_ /\ initialised' = initialised
    BY <1>2 DEF Construct, Connected, disconnect, apiVars
  <2>4. apiRefCount_' \in Nat /\ apiRefCount_' - apiRefCount_ >= Uses(h) - Uses(handle_[o])
    BY <1>1, <2>2, <2>3
  <2> QED
    BY <2>2, <2>3, <2>4, CountBecomes DEF ReadyInv
<1>3. ASSUME NEW o \in Object, connectLan(o)
      PROVE  CountInv' /\ ReadyInv'
  <2>1. \/ handle_[o] = "fresh" /\ Becomes(o, "opening")
        \/ handle_[o] = "closed" /\ Becomes(o, "reopening")
    BY <1>3 DEF connectLan
  <2>2. PICK h \in {"none", "fresh"} \cup Holding : Becomes(o, h) /\ 1 >= Uses(h) - Uses(handle_[o])
    BY <2>1, Zenon, ChangesOfUse DEF Holding
  <2>3. initialised' = TRUE /\ apiRefCount_' = apiRefCount_ + 1
    BY <1>3 DEF connectLan, ensureApiInit
  <2>4. apiRefCount_' \in Nat /\ apiRefCount_' > 0
    BY <1>1, <2>3
  <2>5. apiRefCount_' - apiRefCount_ >= Uses(h) - Uses(handle_[o])
    BY <1>1, <2>2, <2>3
  <2>6. CountInv'
    BY <2>2, <2>4, <2>5, CountBecomes
  <2> QED
    BY <2>3, <2>4, <2>6, Zenon DEF ReadyInv
<1>4. ASSUME NEW o \in Object, NotConnected(o) \/ Destroy(o)
      PROVE  CountInv' /\ ReadyInv'
  <2>1. \/ handle_[o] = "opening" /\ Becomes(o, "fresh")
        \/ handle_[o] = "reopening" /\ Becomes(o, "closed")
        \/ handle_[o] \in {"open", "closed"} /\ Becomes(o, "none")
    BY <1>4 DEF NotConnected, Destroy
  <2>2. PICK h \in {"none", "fresh"} \cup Holding : Becomes(o, h) /\ -1 >= Uses(h) - Uses(handle_[o])
    BY <2>1, Zenon, ChangesOfUse DEF Holding
  <2>3. apiRefCount_ > 0
    <3>1. o \in Users
      BY <2>1 DEF Users, Holding
    <3> QED
      BY <3>1, UserIsCounted
  <2>4. apiRefCount_' = apiRefCount_ - 1 /\ initialised' = (initialised /\ apiRefCount_ > 1)
    BY <1>4, <2>3, Zenon DEF NotConnected, Destroy, apiExitIfNeeded
  <2>5. apiRefCount_' = apiRefCount_ - 1
    BY <2>4
  <2>6. /\ apiRefCount_' \in Nat /\ (apiRefCount_' > 0 <=> apiRefCount_ > 1)
        /\ apiRefCount_' - apiRefCount_ >= Uses(h) - Uses(handle_[o])
    BY <1>1, <2>2, <2>3, <2>5
  <2>7. CountInv'
    BY <2>2, <2>6, CountBecomes
  <2> QED
    BY <2>3, <2>4, <2>6, <2>7, Zenon DEF ReadyInv
<1>5. CASE UNCHANGED <<apiVars, handle_>>
  <2>1. Users' = Users /\ Again' = Again
    BY <1>5 DEF Users, Again
  <2> QED
    BY <1>5, <2>1 DEF CountInv, ReadyInv, apiVars
<1> QED
  BY <1>2, <1>3, <1>4, <1>5
     DEF ScopeNext, Acquire, getLatchWaveform, NoWaveform, scopeVars

\* The library outlives every connection, however many objects connect,
\* reconnect, fail and are destroyed, if each was connected once (connectLan,
\* disconnect, ~YokogawaDL850E).
THEOREM LibraryReadyCorrect == ~ DestroyUnused => (ScopeSpec => []LibraryReady)
<1> SUFFICES ASSUME ~ DestroyUnused PROVE ScopeSpec => []LibraryReady
  OBVIOUS
<1>1. ScopeInit => CountInv /\ ReadyInv
  BY CountInit
<1>2. CountInv /\ ReadyInv /\ [ScopeNext]_scopeVars => CountInv' /\ ReadyInv'
  BY CountStep
<1>3. CountInv /\ ReadyInv => LibraryReady
  <2> SUFFICES ASSUME CountInv, ReadyInv, NEW o \in Object,
                      handle_[o] \in {"opening", "reopening", "open"}
               PROVE  initialised
    BY DEF LibraryReady
  <2>1. o \in Users
    BY DEF Users, Holding
  <2> QED
    BY <2>1, UserIsCounted, Zenon DEF ReadyInv
<1> QED
  BY <1>1, <1>2, <1>3, PTL DEF ScopeSpec

-----------------------------------------------------------------------------

(***************************************************************************)
(* Samples.                                                                *)
(***************************************************************************)

Sizes == 1 .. 32

\* A sample has this many values, half of them negative.
LEMMA PowerIs ==
    ASSUME NEW k \in Sizes
    PROVE  /\ 2 ^ (k - 1) \in Nat \ {0}
           /\ 2 ^ k = 2 * 2 ^ (k - 1)
           /\ 2 ^ k \in Nat \ {0}
<1>1. k \in 1 .. 32 /\ k - 1 \in 0 .. 31
  BY DEF Sizes
<1> QED
  BY <1>1, PowersOfTwo

Widths == {1, 2, 3, 4}

\* It takes one to four bytes, which have so many values,
LEMMA RoomIs ==
    ASSUME NEW k \in Sizes, NEW M, M = 2 ^ (8 * bytesForBits(k))
    PROVE  /\ bytesForBits(k) \in {1, 2, 3, 4}
           /\ bytesForBits(k) = 1 => M = 256
           /\ bytesForBits(k) = 2 => M = 65536
           /\ bytesForBits(k) = 3 => M = 16777216
           /\ bytesForBits(k) = 4 => M = 4294967296
<1> DEFINE n == bytesForBits(k)
<1>1. n \in {1, 2, 3, 4}
  BY DEF bytesForBits, Sizes
<1> HIDE DEF n
<1>2. 8 * n \in 8 .. 32
  BY <1>1
<1>3. M = 2 ^ (8 * n)
  BY DEF n
<1> QED
  BY <1>1, <1>2, <1>3, PowersOfTwo DEF n

\* a whole number of times those of the sample.
LEMMA RoomIsWhole ==
    ASSUME NEW k \in Sizes, NEW P, P = 2 ^ k, NEW M, M = 2 ^ (8 * bytesForBits(k))
    PROVE  \E q \in Nat : M = P * q + P
<1> DEFINE n == bytesForBits(k)
<1>1. n = (k + 7) \div 8 /\ k \in 1 .. 32
  BY DEF bytesForBits, Sizes
<1>2. /\ n \in {1, 2, 3, 4}
      /\ n = 1 => M = 256
      /\ n = 2 => M = 65536
      /\ n = 3 => M = 16777216
      /\ n = 4 => M = 4294967296
  BY RoomIs
<1> HIDE DEF n
<1>3. M % P = 0 /\ M >= P
  BY <1>1, <1>2, PowersOfTwo
<1>4. M \in Nat /\ P \in Nat \ {0}
  <2>1. M \in Nat
    BY <1>2
  <2>2. P \in Nat \ {0}
    BY PowerIs DEF Sizes
  <2> QED
    BY <2>1, <2>2
<1>5. M = P * (M \div P) /\ M \div P \in Nat \ {0}
  BY <1>3, <1>4
<1>6. (M \div P) - 1 \in Nat /\ M = P * ((M \div P) - 1) + P
  BY <1>4, <1>5
<1> QED
  BY <1>6

\* and a word below their number fits in them.
Fits(n, w) ==
    /\ n = 1 => w < 256
    /\ n = 2 => w < 65536
    /\ n = 3 => w < 16777216
    /\ n = 4 => w < 4294967296

\* Room for a sample is room for its word.
LEMMA FitsIs ==
    ASSUME NEW k \in Sizes, NEW M, M = 2 ^ (8 * bytesForBits(k)), NEW w \in 0 .. M - 1
    PROVE  bytesForBits(k) \in Widths /\ w \in Nat /\ Fits(bytesForBits(k), w)
<1> DEFINE n == bytesForBits(k)
<1>1. /\ n \in {1, 2, 3, 4}
      /\ n = 1 => M = 256
      /\ n = 2 => M = 65536
      /\ n = 3 => M = 16777216
      /\ n = 4 => M = 4294967296
  BY RoomIs
<1> HIDE DEF n
<1>2. n \in Widths /\ w \in Nat /\ Fits(n, w)
  BY <1>1 DEF Fits, Widths
<1> QED
  BY <1>2 DEF n

\* The low bits of a number.
LEMMA LowBits ==
    ASSUME NEW P \in Nat \ {0}, NEW q \in Nat, NEW r \in 0 .. P - 1
    PROVE  (P * q + r) % P = r
OBVIOUS

\* A word is the sum of its bytes.
LEMMA FourBytes ==
    ASSUME NEW w \in Nat, w < 4294967296
    PROVE  (w % 256) + 256 * ((w \div 256) % 256) + 65536 * ((w \div 65536) % 256)
             + 16777216 * ((w \div 16777216) % 256) = w
OBVIOUS

\* A byte of a word.
LEMMA ByteIs ==
    ASSUME NEW w \in Nat
    PROVE  /\ (w \div 2 ^ (8 * 0)) % 256 = w % 256
           /\ (w \div 2 ^ (8 * 1)) % 256 = (w \div 256) % 256
           /\ (w \div 2 ^ (8 * 2)) % 256 = (w \div 65536) % 256
           /\ (w \div 2 ^ (8 * 3)) % 256 = (w \div 16777216) % 256
<1>1. w \div 1 = w
  OBVIOUS
<1> QED
  BY <1>1

\* The loop over the bytes of a word puts it together again.
Byte(w, b) == (w \div 2 ^ (8 * b)) % 256

\* The word read is the one whose bytes are there.
LEMMA WordOfBytes ==
    ASSUME NEW n \in Widths, NEW w \in Nat, Fits(n, w), NEW buff, NEW first,
           \A b \in 0 .. n - 1 : buff[first + b] = Byte(w, b)
    PROVE  Word(buff, first, n) = w
<1> DEFINE b0 == buff[first + 0]
           b1 == buff[first + 1]
           b2 == buff[first + 2]
           b3 == buff[first + 3]
<1>1. n \in {1, 2, 3, 4}
  BY DEF Widths
<1>2. /\ b0 = Byte(w, 0)
      /\ 1 < n => b1 = Byte(w, 1)
      /\ 2 < n => b2 = Byte(w, 2)
      /\ 3 < n => b3 = Byte(w, 3)
  <2>1. /\ 0 \in 0 .. n - 1
        /\ 1 < n => 1 \in 0 .. n - 1
        /\ 2 < n => 2 \in 0 .. n - 1
        /\ 3 < n => 3 \in 0 .. n - 1
    BY <1>1
  <2> QED
    BY <2>1, Zenon
<1>3. /\ b0 = w % 256
      /\ 1 < n => b1 = (w \div 256) % 256
      /\ 2 < n => b2 = (w \div 65536) % 256
      /\ 3 < n => b3 = (w \div 16777216) % 256
  <2>1. /\ Byte(w, 0) = w % 256
        /\ Byte(w, 1) = (w \div 256) % 256
        /\ Byte(w, 2) = (w \div 65536) % 256
        /\ Byte(w, 3) = (w \div 16777216) % 256
    BY ByteIs DEF Byte
  <2> HIDE DEF b0, b1, b2, b3
  <2> QED
    BY <1>2, <2>1
<1>4. Word(buff, first, n) =
        (IF 0 < n THEN b0 ELSE 0) + 256 * (IF 1 < n THEN b1 ELSE 0)
          + 256 ^ 2 * (IF 2 < n THEN b2 ELSE 0) + 256 ^ 3 * (IF 3 < n THEN b3 ELSE 0)
  BY DEF Word
<1>5. (n = 1 => w < 256) /\ (n = 2 => w < 65536) /\ (n = 3 => w < 16777216) /\ (n = 4 => w < 4294967296)
  BY DEF Fits
<1> HIDE DEF b0, b1, b2, b3
<1>6. CASE n = 1
  <2>1. b0 = w
    BY <1>3, <1>5, <1>6
  <2> QED
    BY <1>4, <1>6, <2>1
<1>7. CASE n = 2
  <2>1. b0 + 256 * b1 = w /\ b0 \in Nat /\ b1 \in Nat
    BY <1>3, <1>5, <1>7
  <2> QED
    BY <1>4, <1>7, <2>1
<1>8. CASE n = 3
  <2>1. b0 + 256 * b1 + 65536 * b2 = w /\ b0 \in Nat /\ b1 \in Nat /\ b2 \in Nat
    BY <1>3, <1>5, <1>8
  <2> QED
    BY <1>4, <1>8, <2>1
<1>9. CASE n = 4
  <2>1. b0 + 256 * b1 + 65536 * b2 + 16777216 * b3 = w
        /\ b0 \in Nat /\ b1 \in Nat /\ b2 \in Nat /\ b3 \in Nat
    BY <1>3, <1>5, <1>9, FourBytes
  <2> QED
    BY <1>4, <1>9, <2>1
<1> QED
  BY <1>1, <1>6, <1>7, <1>8, <1>9

\* The word the library makes of a sample, and what the driver cuts a word to.
WordOf(s, P, M, above) == ((s + P) % P) + (IF above THEN M - P ELSE 0)

CutTo(v, P, H) == IF v % P >= H THEN (v % P) - P ELSE v % P

\* P values in a sample, H of them negative, M in its bytes.
Halves(P, H) == P \in Nat \ {0} /\ H \in Nat \ {0} /\ P = 2 * H

Holds(M, P) == \E q \in Nat : M = P * q + P

InHalves(s, H) == s \in -H .. H - 1

\* The word fits in its bytes, and is cut to its sample.
LEMMA CutIs ==
    ASSUME NEW P, NEW H, Halves(P, H), NEW M, Holds(M, P), NEW s, InHalves(s, H),
           NEW above \in BOOLEAN, NEW w, w = WordOf(s, P, M, above)
    PROVE  w \in 0 .. M - 1 /\ CutTo(w, P, H) = s
<1>a. P \in Nat \ {0} /\ H \in Nat \ {0} /\ P = 2 * H
  BY DEF Halves
<1>b. PICK q \in Nat : M = P * q + P
  BY DEF Holds
<1>c. s \in -H .. H - 1
  BY DEF InHalves
<1> DEFINE r == (s + P) % P
<1>1. M - P = P * q /\ P * q \in Nat /\ M \in Nat
  BY <1>a, <1>b
<1>2. /\ r \in 0 .. P - 1
      /\ s >= 0 => r = s
      /\ s < 0 => r = s + P
  <2>1. CASE s >= 0
    <3>1. s \in 0 .. P - 1 /\ s + P = P * 1 + s
      BY <1>a, <1>c, <2>1
    <3> QED
      BY <1>a, <2>1, <3>1, LowBits
  <2>2. CASE s < 0
    <3>1. s + P \in 0 .. P - 1 /\ s + P = P * 0 + (s + P)
      BY <1>a, <1>c, <2>2
    <3> QED
      BY <1>a, <1>c, <2>2, <3>1, LowBits
  <2> QED
    BY <1>c, <2>1, <2>2
<1>3. w = r + (IF above THEN P * q ELSE 0)
  BY <1>1, Zenon DEF WordOf
<1> HIDE DEF r
<1>4. w \in 0 .. M - 1 /\ w % P = r
  <2>1. CASE above
    <3>0. w = r + P * q
      BY <1>3, <2>1, Zenon
    <3>1. w = P * q + r
      BY <1>a, <1>b, <1>1, <1>2, <3>0
    <3>2. w \in 0 .. M - 1
      BY <1>a, <1>b, <1>1, <1>2, <3>1
    <3>3. (P * q + r) % P = r
      BY <1>a, <1>b, <1>2, LowBits
    <3> QED
      BY <3>1, <3>2, <3>3, Zenon
  <2>2. CASE ~ above
    <3>1. w = P * 0 + r /\ w = r
      BY <1>a, <1>b, <1>2, <1>3, <2>2
    <3>2. w \in 0 .. M - 1
      BY <1>a, <1>b, <1>1, <1>2, <3>1
    <3>3. (P * 0 + r) % P = r
      BY <1>a, <1>b, <1>2, LowBits
    <3> QED
      BY <3>1, <3>2, <3>3, Zenon
  <2> QED
    BY <2>1, <2>2
<1>5. CutTo(w, P, H) = s
  <2>1. CASE s >= 0
    BY <1>2, <1>4, <1>a, <1>c, <2>1 DEF CutTo
  <2>2. CASE s < 0
    BY <1>2, <1>4, <1>a, <1>c, <2>2 DEF CutTo
  <2> QED
    BY <1>c, <2>1, <2>2
<1> QED
  BY <1>4, <1>5

\* The place of a byte in the buffer.
LEMMA PlaceIs ==
    ASSUME NEW count \in Nat, NEW i \in 1 .. count, NEW n \in Widths, NEW b \in 0 .. n - 1
    PROVE  /\ (i - 1) * n + b \in 0 .. count * n - 1
           /\ ((i - 1) * n + b) \div n = i - 1
           /\ ((i - 1) * n + b) % n = b
<1>0. n \in {1, 2, 3, 4}
  BY DEF Widths
<1>1. CASE n = 1
  BY <1>1
<1>2. CASE n = 2
  BY <1>2
<1>3. CASE n = 3
  BY <1>3
<1>4. CASE n = 4
  BY <1>4
<1> QED
  BY <1>0, <1>1, <1>2, <1>3, <1>4

\* The bytes the library fills in.
Measured(size, n, P, M) == n = bytesForBits(size) /\ P = 2 ^ size /\ M = 2 ^ (8 * n)

HasBytes(buff, first, n, w) == \A b \in 0 .. n - 1 : buff[first + b] = Byte(w, b)

\* The library puts the bytes of each sample's word in its place.
LEMMA FilledIs ==
    ASSUME NEW size, NEW above, NEW count \in Nat, NEW samples, Len(samples) = count,
           NEW i \in 1 .. count, NEW n \in Widths, NEW P, NEW M, Measured(size, n, P, M)
    PROVE  HasBytes(Filled(samples, size, above), (i - 1) * n, n, WordOf(samples[i], P, M, above))
<1>0. n = bytesForBits(size) /\ P = 2 ^ size /\ M = 2 ^ (8 * n)
  BY DEF Measured
<1> DEFINE buff == Filled(samples, size, above)
<1>1. ASSUME NEW b \in 0 .. n - 1
      PROVE  buff[(i - 1) * n + b] = Byte(WordOf(samples[i], P, M, above), b)
  <2> DEFINE j == (i - 1) * n + b
  <2>2. buff = [ k \in 0 .. count * n - 1 |-> Byte(WordOf(samples[1 + k \div n], P, M, above), k % n) ]
    BY <1>0, Zenon DEF Filled, Byte, WordOf
  <2>3. j \in 0 .. count * n - 1 /\ j \div n = i - 1 /\ j % n = b
    <3>1. /\ (i - 1) * n + b \in 0 .. count * n - 1
          /\ ((i - 1) * n + b) \div n = i - 1
          /\ ((i - 1) * n + b) % n = b
      BY PlaceIs
    <3> QED
      BY <3>1
  <2>4. 1 + (i - 1) = i
    OBVIOUS
  <2> HIDE DEF j, buff
  <2>5. buff[j] = Byte(WordOf(samples[1 + j \div n], P, M, above), j % n)
    BY <2>2, <2>3, Zenon
  <2>6. buff[j] = Byte(WordOf(samples[i], P, M, above), b)
    BY <2>3, <2>4, <2>5, Zenon
  <2> QED
    BY <2>6 DEF j
<1> HIDE DEF buff
<1>2. HasBytes(buff, (i - 1) * n, n, WordOf(samples[i], P, M, above))
  BY <1>1, Zenon DEF HasBytes
<1> QED
  BY <1>2 DEF buff

\* Whatever the size of a sample, and whatever is in the bits above it, what is
\* unpacked is what was filled in.
LEMMA UnpackedIs ==
    ASSUME NEW size \in Sizes, NEW above \in BOOLEAN, NEW count \in Nat,
           NEW H, H = 2 ^ (size - 1), NEW samples \in [1 .. count -> -H .. H - 1]
    PROVE  Unpacked(Filled(samples, size, above), size, count) = samples
<1>1. PICK P : P = 2 ^ size
  OBVIOUS
<1>2. PICK n : n = bytesForBits(size)
  OBVIOUS
<1>3. PICK M : M = 2 ^ (8 * n)
  OBVIOUS
<1>4. PICK buff : buff = Filled(samples, size, above)
  OBVIOUS
<1>5. H \in Nat \ {0} /\ P = 2 * H /\ P \in Nat \ {0}
  BY <1>1, PowerIs
<1>6. \A w \in 0 .. M - 1 : n \in Widths /\ w \in Nat /\ Fits(n, w)
  BY <1>2, <1>3, FitsIs, Zenon
<1>7. Halves(P, H) /\ Holds(M, P)
  BY <1>1, <1>2, <1>3, <1>5, RoomIsWhole DEF Halves, Holds
<1>8. Len(samples) = count
  BY <1>5
<1> DEFINE u(i) == Word(buff, (i - 1) * n, n)
<1>9. Unpacked(buff, size, count) = [ i \in 1 .. count |-> CutTo(u(i), P, H) ]
  BY <1>1, <1>2, Zenon DEF Unpacked, CutTo, signExtend
<1>10. ASSUME NEW i \in 1 .. count
       PROVE  CutTo(u(i), P, H) = samples[i]
  <2>0. PICK s : s = samples[i]
    OBVIOUS
  <2>1. PICK w : w = WordOf(s, P, M, above)
    OBVIOUS
  <2>2. InHalves(s, H)
    BY <2>0 DEF InHalves
  <2>3. w \in 0 .. M - 1 /\ CutTo(w, P, H) = s
    BY <1>7, <2>1, <2>2, CutIs
  <2>4. n \in Widths /\ w \in Nat /\ Fits(n, w)
    BY <1>6, <2>3, Zenon
  <2>5. Measured(size, n, P, M)
    BY <1>1, <1>2, <1>3, Zenon DEF Measured
  <2>6. HasBytes(Filled(samples, size, above), (i - 1) * n, n, WordOf(samples[i], P, M, above))
    BY <1>8, <2>4, <2>5, FilledIs
  <2>7. \A b \in 0 .. n - 1 : buff[(i - 1) * n + b] = Byte(w, b)
    BY <1>4, <2>0, <2>1, <2>6, Zenon DEF HasBytes
  <2>8. u(i) = w
    BY <2>4, <2>7, WordOfBytes, Zenon
  <2> QED
    BY <2>0, <2>3, <2>8, Zenon
<1> HIDE DEF u
<1>11. Unpacked(buff, size, count) = [ i \in 1 .. count |-> samples[i] ]
  BY <1>9, <1>10, Zenon
<1>12. samples = [ i \in 1 .. count |-> samples[i] ]
  OBVIOUS
<1> QED
  BY <1>4, <1>11, <1>12, Zenon

\* However many samples there are, of whatever size, and whatever is fetched,
\* cleared, connected and destroyed in between: getLatchWaveform hands out the
\* samples the recorder took.
THEOREM SamplesAsTakenCorrect == ScopeSpec => []SamplesAsTaken
<1>1. ScopeInit => SamplesAsTaken
  BY DEF ScopeInit, SamplesAsTaken
<1>2. SamplesAsTaken /\ [ScopeNext]_scopeVars => SamplesAsTaken'
  <2> SUFFICES ASSUME SamplesAsTaken, ScopeNext
               PROVE  SamplesAsTaken'
    BY DEF scopeVars, apiVars, captureVars, SamplesAsTaken
  <2>1. PICK o \in Object :
          \/ Construct(o) \/ connectLan(o) \/ Connected(o) \/ NotConnected(o)
          \/ disconnect(o) \/ Destroy(o)
          \/ Acquire(o) \/ getLatchWaveform(o) \/ NoWaveform(o)
    BY DEF ScopeNext
  <2>2. CASE Construct(o) \/ connectLan(o) \/ Connected(o) \/ NotConnected(o)
             \/ disconnect(o) \/ Destroy(o)
    BY <2>2 DEF Construct, connectLan, Connected, NotConnected, disconnect, Destroy,
                captureVars, SamplesAsTaken
  <2>3. CASE Acquire(o) \/ NoWaveform(o)
    BY <2>3 DEF Acquire, NoWaveform, SamplesAsTaken
  <2>4. CASE getLatchWaveform(o)
    <3>1. PICK available \in Counts \ {0}, dataSize \in dataSizes, above \in BOOLEAN :
            LET dataCount == CHOOSE n \in {available, want(available)} :
                               n <= available /\ n <= want(available)
            IN  \E samples \in [1 .. dataCount -> Samples(dataSize)] :
                   /\ taken' = samples
                   /\ raw' = Unpacked(Filled(samples, dataSize, above), dataSize, dataCount)
      BY <2>4, Zenon DEF getLatchWaveform
    <3> DEFINE dataCount == CHOOSE n \in {available, want(available)} :
                              n <= available /\ n <= want(available)
    <3>2. PICK samples \in [1 .. dataCount -> Samples(dataSize)] :
            /\ taken' = samples
            /\ raw' = Unpacked(Filled(samples, dataSize, above), dataSize, dataCount)
      BY <3>1, Zenon
    <3>3. dataCount \in Nat
      <4>1. available \in Nat /\ want(available) \in Nat
        BY ScopeAssumption DEF want
      <4> DEFINE few == want(available)
      <4> HIDE DEF few
      <4>2. \E n \in {available, few} : n <= available /\ n <= few
        BY <4>1 DEF few
      <4>3. dataCount \in {available, few}
        BY <4>2, Zenon DEF few
      <4> QED
        BY <4>1, <4>3, Zenon DEF few
    <3> HIDE DEF dataCount
    <3>4. dataSize \in Sizes
      BY ScopeAssumption DEF Sizes
    <3>5. PICK H : H = 2 ^ (dataSize - 1)
      OBVIOUS
    <3>6. Samples(dataSize) \subseteq -H .. H - 1
      <4>1. H \in Nat \ {0}
        BY <3>4, <3>5, PowerIs
      <4>2. Samples(dataSize) = {-H, -1, 0, H - 1}
        BY <3>5, Zenon DEF Samples
      <4> QED
        BY <4>1, <4>2
    <3>7. samples \in [1 .. dataCount -> -H .. H - 1]
      BY <3>6
    <3>8. Unpacked(Filled(samples, dataSize, above), dataSize, dataCount) = samples
      BY <3>3, <3>4, <3>5, <3>7, UnpackedIs, Zenon
    <3> QED
      BY <3>2, <3>8, Zenon DEF SamplesAsTaken
  <2> QED
    BY <2>1, <2>2, <2>3, <2>4
<1> QED
  BY <1>1, <1>2, PTL DEF ScopeSpec

-----------------------------------------------------------------------------

(***************************************************************************)
(* The configuration file.                                                 *)
(***************************************************************************)

\* What was written last, if it was a value, is what load will read.
FileSays ==
    intended # Unknown =>
      readText(entryKey.kind, file[entryKey.name], entryKey.default) = intended

Names == DOMAIN file = {entryKey.name, ShippedName[entry]}

\* A value written with a point, a comma, a word or a digit is read, whatever
\* the key and its default (fixLocaleNumber, readFloat and the other readers).
LEMMA NotationIsRead ==
    ASSUME NEW kind, NEW n, NEW v, NEW default, kind = "float" => n \in {"point", "comma"}
    PROVE  readText(kind, <<n, v>>, default) = v
<1>1. <<n, v>> # Absent /\ <<n, v>> # Garbled
  BY DEF Absent, Garbled
<1>2. CASE kind = "float"
  <2>1. fixLocaleNumber(<<n, v>>) = <<"point", v>>
    BY <1>2 DEF fixLocaleNumber
  <2>2. stof(<<"point", v>>) = v
    BY DEF stof
  <2>3. readText(kind, <<n, v>>, default) = stof(fixLocaleNumber(<<n, v>>))
    BY <1>1, <1>2, Zenon DEF readText
  <2> QED
    BY <2>1, <2>2, <2>3, Zenon
<1>3. CASE kind # "float"
  <2>1. readText(kind, <<n, v>>, default) = <<n, v>>[2]
    BY <1>1, <1>3, Zenon DEF readText
  <2> QED
    BY <2>1
<1> QED
  BY <1>2, <1>3

\* So is what save writes, rounded to six digits when it is a real number.
LEMMA WrittenIsRead ==
    ASSUME NEW kind, NEW v, NEW default
    PROVE  readText(kind, writeText(kind, v), default)
             = IF kind = "float" THEN Printed(v) ELSE v
<1>1. CASE kind = "float"
  <2>1. writeText(kind, v) = <<"point", Printed(v)>>
    BY <1>1 DEF writeText
  <2>2. readText(kind, <<"point", Printed(v)>>, default) = Printed(v)
    BY NotationIsRead
  <2> QED
    BY <1>1, <2>1, <2>2, Zenon
<1>2. CASE kind # "float"
  <2>1. PICK n : writeText(kind, v) = <<n, v>>
    BY <1>2 DEF writeText
  <2>2. readText(kind, <<n, v>>, default) = v
    BY <1>2, NotationIsRead
  <2> QED
    BY <1>2, <2>1, <2>2, Zenon
<1> QED
  BY <1>1, <1>2

\* Whatever was saved, cut short, killed, edited and spoilt before, and whatever
\* the values: the server starts with what the file says to whoever wrote it
\* last (ConfigManager::load and save), if no hand edits one of the four fields
\* whose names in Config.ini are not those load asks for.
THEOREM FileIsReadCorrect ==
    (\A f \in ByHand : ShippedName[f] = ConfigKeys[f].name) => (ConfigSpec => []FileIsRead)
<1> SUFFICES ASSUME \A f \in ByHand : ShippedName[f] = ConfigKeys[f].name
             PROVE  ConfigSpec => []FileIsRead
  OBVIOUS
<1> DEFINE Inv == Names /\ FileSays /\ FileIsRead
<1>1. ConfigInit => Inv
  BY DEF ConfigInit, Names, FileSays, FileIsRead
<1>2. Inv /\ [ConfigNext]_configVars => Inv'
  <2> SUFFICES ASSUME Inv, [ConfigNext]_configVars PROVE Inv'
    OBVIOUS
  <2>1. CASE load
    <3>1. /\ field' = readText(entryKey.kind, file[entryKey.name], entryKey.default)
          /\ entry' = entry /\ file' = file /\ intended' = intended
      BY <2>1, Zenon DEF load
    <3> QED
      BY <3>1, Zenon DEF Names, FileSays, FileIsRead, entryKey
  <2>2. CASE Change \/ SaveCfg \/ Killed
    <3>1. /\ phase' # "loaded"
          /\ entry' = entry /\ file' = file /\ intended' = intended
      BY <2>2 DEF Change, SaveCfg, Killed
    <3> QED
      BY <3>1, Zenon DEF Names, FileSays, FileIsRead, entryKey
  <2>3. CASE save
    <3>1. /\ file' = [file EXCEPT ![entryKey.name] = writeText(entryKey.kind, field)]
          /\ intended' = IF entryKey.kind = "float" THEN Printed(field) ELSE field
          /\ entry' = entry
      BY <2>3, Zenon DEF save
    <3>2. phase' # "loaded"
      BY <2>3 DEF save
    <3>3. entryKey' = entryKey
      BY <3>1, Zenon DEF entryKey
    <3>4. entryKey.name \in DOMAIN file
      BY Zenon DEF Names
    <3>5. file'[entryKey.name] = writeText(entryKey.kind, field) /\ DOMAIN file' = DOMAIN file
      BY <3>1, <3>4, Zenon
    <3>6. readText(entryKey.kind, file'[entryKey.name], entryKey.default) = intended'
      <4>1. readText(entryKey.kind, writeText(entryKey.kind, field), entryKey.default)
              = IF entryKey.kind = "float" THEN Printed(field) ELSE field
        BY WrittenIsRead
      <4> QED
        BY <3>1, <3>5, <4>1, Zenon
    <3> QED
      BY <3>1, <3>2, <3>3, <3>5, <3>6, Zenon DEF Names, FileSays, FileIsRead
  <2>4. CASE Edit
    <3>1. PICK v \in ConfigValues(entryKey.kind) \ {Infinite}, n \in Notations(entryKey.kind) :
            file' = [file EXCEPT ![ShippedName[entry]] = <<n, v>>] /\ intended' = v
      BY <2>4, Zenon DEF Edit
    <3>2. entry \in ByHand /\ entry' = entry /\ phase' = phase
      BY <2>4, Zenon DEF Edit
    <3>a. phase' # "loaded"
      BY <2>4 DEF Edit
    <3>3. entryKey' = entryKey /\ ShippedName[entry] = entryKey.name
      BY <3>2, Zenon DEF entryKey
    <3>4. entryKey.name \in DOMAIN file
      BY Zenon DEF Names
    <3>5. file'[entryKey.name] = <<n, v>> /\ DOMAIN file' = DOMAIN file
      BY <3>1, <3>3, <3>4, Zenon
    <3>b. entryKey.kind = "float" => n \in {"point", "comma"}
      BY DEF Notations
    <3>6. readText(entryKey.kind, <<n, v>>, entryKey.default) = v
      BY <3>b, NotationIsRead
    <3>7. readText(entryKey.kind, file'[entryKey.name], entryKey.default) = intended'
      BY <3>1, <3>5, <3>6, Zenon
    <3> QED
      BY <3>2, <3>a, <3>3, <3>5, <3>7, Zenon DEF Names, FileSays, FileIsRead
  <2>5. CASE Garble
    <3>1. intended' = Unknown /\ entry' = entry /\ DOMAIN file' = DOMAIN file
      BY <2>5, Zenon DEF Garble
    <3> QED
      BY <3>1, Zenon DEF Names, FileSays, FileIsRead, entryKey
  <2>6. CASE UNCHANGED configVars
    <3>1. entry' = entry /\ file' = file /\ field' = field /\ phase' = phase /\ intended' = intended
      BY <2>6 DEF configVars
    <3> QED
      BY <3>1, Zenon DEF Names, FileSays, FileIsRead, entryKey
  <2> QED
    BY <2>1, <2>2, <2>3, <2>4, <2>5, <2>6, Zenon DEF ConfigNext
<1>3. Inv => FileIsRead
  OBVIOUS
<1> QED
  BY <1>1, <1>2, <1>3, PTL DEF ConfigSpec
-----------------------------------------------------------------------------

(***************************************************************************)
(* The frames.                                                             *)
(***************************************************************************)

\* The inductive invariant: SignalsSayTheirValue, with the types it rests on.
FrameInv ==
    /\ message \in Message
    /\ Packed \subseteq Layout[message]
    /\ \A f \in Packed : value[f] \in Raw[f.length]
    /\ SignalsSayTheirValue

\* Start bits and lengths are numbers the codec lemmas apply to.
LEMMA LayoutTypes ==
    ASSUME NEW m \in Message, NEW f \in Layout[m]
    PROVE  f.start \in Nat /\ f.length \in 1 .. 24
BY LayoutAssumption

\* An empty frame says zero everywhere.
LEMMA FrameInit == Init => FrameInv
<1> SUFFICES ASSUME Init PROVE FrameInv
  OBVIOUS
<1>1. Packed = {}
  BY DEF Init, Packed
<1>2. \A f \in Layout[message] : Meaning(payload, f.start, f.length) = {}
  BY DEF Init, Meaning
<1> QED
  BY <1>1, <1>2 DEF Init, FrameInv, SignalsSayTheirValue

\* Packing and sending preserve the invariant.
LEMMA FrameStep == FrameInv /\ [Next]_vars => FrameInv'
<1> SUFFICES ASSUME FrameInv, [Next]_vars PROVE FrameInv'
  OBVIOUS
<1>1. ASSUME NEW f \in Signal, NEW r \in Raw[f.length], PackSignal(f, r)
      PROVE  FrameInv'
  <2>1. /\ message \in Message /\ message' = message
        /\ f \in Layout[message] /\ f \notin Packed
        /\ payload' = Pack(payload, r, f.start, f.length)
    BY <1>1 DEF PackSignal, FrameInv
  <2>2. r \in SUBSET (0 .. f.length - 1) /\ f.start \in Nat /\ f.length \in 1 .. 24
    BY <2>1, RawAssumption, LayoutTypes
  <2>3. /\ Packed' = Packed \cup {f}
        /\ value'[f] = r
        /\ \A g \in Packed : value'[g] = value[g]
    BY <1>1, <2>1 DEF PackSignal, Packed
  <2>4. \A g \in Packed' : value'[g] \in Raw[g.length]
    BY <2>3 DEF FrameInv
  <2>5. ASSUME NEW g \in Layout[message]
        PROVE  Meaning(payload', g.start, g.length) = IF g \in Packed' THEN value'[g] ELSE {}
    <3>1. CASE g = f
      <4>1. Meaning(payload, f.start, f.length) = {}
        BY <2>1 DEF FrameInv, SignalsSayTheirValue
      <4> QED
        BY <3>1, <4>1, <2>1, <2>2, <2>3, PackedSignal
    <3>2. CASE g # f
      <4>1. g.start \in Nat /\ g.length \in 1 .. 24
        BY <2>1, LayoutTypes
      <4>2. Apart(f.start, f.length, g.start, g.length)
        BY <3>2, <2>1, DisjointAssumption DEF Apart
      <4>3. Meaning(Pack(payload, r, f.start, f.length), g.start, g.length)
              = Meaning(payload, g.start, g.length)
        BY <2>2, <4>1, <4>2, OtherSignal
      <4> QED
        BY <3>2, <4>3, <2>1, <2>3 DEF FrameInv, SignalsSayTheirValue
    <3> QED
      BY <3>1, <3>2
  <2> QED
    BY <2>1, <2>3, <2>4, <2>5 DEF FrameInv, SignalsSayTheirValue
<1>2. CASE Send
  <2>1. message' \in Message /\ Packed' = {}
    BY <1>2 DEF Send, Packed
  <2>2. \A f \in Layout[message'] : Meaning(payload', f.start, f.length) = {}
    BY <1>2 DEF Send, Meaning
  <2> QED
    BY <2>1, <2>2 DEF FrameInv, SignalsSayTheirValue
<1>3. CASE UNCHANGED vars
  BY <1>3 DEF vars, FrameInv, SignalsSayTheirValue, Packed
<1> QED
  BY <1>1, <1>2, <1>3 DEF Next

\* Every variable of the frame keeps its type.
THEOREM FrameTypes == Spec => []TypeOK
<1> DEFINE Inv == FrameInv /\ payload \in SUBSET Int
<1>1. Init => Inv
  BY FrameInit DEF Init
<1>2. Inv /\ [Next]_vars => Inv'
  <2> SUFFICES ASSUME Inv, [Next]_vars
               PROVE  payload' \in SUBSET Int
    BY FrameStep
  <2>1. ASSUME NEW f \in Signal, NEW r \in Raw[f.length], PackSignal(f, r)
        PROVE  payload' \in SUBSET Int
    <3>1. message \in Message /\ f \in Layout[message]
      BY <2>1 DEF PackSignal, FrameInv
    <3>2. r \in SUBSET (0 .. f.length - 1) /\ f.start \in Nat /\ f.length \in 1 .. 24
      BY <3>1, RawAssumption, LayoutTypes
    <3> QED
      BY <2>1, <3>2, PackWritesBits DEF PackSignal
  <2>2. CASE Send
    BY <2>2 DEF Send
  <2>3. CASE UNCHANGED vars
    BY <2>3 DEF vars
  <2> QED
    BY <2>1, <2>2, <2>3 DEF Next
<1>3. Inv => TypeOK
  BY DEF FrameInv, TypeOK
<1> QED
  BY <1>1, <1>2, <1>3, PTL DEF Spec

\* In every frame, whatever its layout and in whatever order it is filled, each
\* packed signal says its value and the others say zero.
THEOREM FramesSayTheirValues == Spec => []SignalsSayTheirValue
<1>1. Init => FrameInv
  BY FrameInit
<1>2. FrameInv /\ [Next]_vars => FrameInv'
  BY FrameStep
<1>3. FrameInv => SignalsSayTheirValue
  BY DEF FrameInv
<1> QED
  BY <1>1, <1>2, <1>3, PTL DEF Spec

\* The server's decoder undoes its encoder.
THEOREM FramesRoundTrip == Spec => []RoundTrip
<1>1. Init => FrameInv
  BY FrameInit
<1>2. FrameInv /\ [Next]_vars => FrameInv'
  BY FrameStep
<1>3. FrameInv => RoundTrip
  <2> SUFFICES ASSUME FrameInv, NEW f \in Packed
               PROVE  Unpack(payload, f.start, f.length) = value[f]
    BY DEF RoundTrip
  <2>1. f \in Layout[message] /\ f.start \in Nat /\ f.length \in 1 .. 24
    BY LayoutTypes DEF FrameInv
  <2> QED
    BY <2>1, UnpackIsMeaning DEF FrameInv, SignalsSayTheirValue
<1> QED
  BY <1>1, <1>2, <1>3, PTL DEF Spec

-----------------------------------------------------------------------------

(***************************************************************************)
(* What the JSON object shows.                                             *)
(***************************************************************************)

\* Where each field is.
LEMMA FieldsFit ==
    \A f \in Fields :
       /\ DBC[f].start \in 0 .. 63 /\ DBC[f].length \in 1 .. 19
       /\ DBC[f].offset \in Int
BY SMT DEF Fields, DBC, SignalAt

\* Temperatures have eight bits and angles sixteen.
LEMMA FieldKinds ==
    \A f \in Fields :
       /\ f \in Temperatures => DBC[f].length = 8
       /\ f \in AngleFields => DBC[f].length = 16 /\ DBC[f].offset = 0
BY SMT DEF Fields, DBC, SignalAt, Temperatures, AngleFields

\* No two fields of a message share a bit.
LEMMA FieldsApart ==
    \A f, g \in Fields :
       DBC[f].id = DBC[g].id /\ f # g
         => \/ Before(DBC[f].start, DBC[f].length, DBC[g].start)
            \/ Before(DBC[g].start, DBC[g].length, DBC[f].start)
BY SMT DEF Fields, DBC, SignalAt, Before, Sawtooth

\* What the inverter says of a field fits it.
LEMMA SaidFits ==
    ASSUME NEW id, NEW spoken \in Sayings(id)
    PROVE  /\ DOMAIN spoken = { f \in Fields : DBC[f].id = id }
           /\ \A f \in DOMAIN spoken :
                /\ f \in Fields /\ DBC[f].id = id
                /\ spoken[f] \in RawValues(DBC[f].length)
                /\ f \in Temperatures => spoken[f] \in 0 .. Hottest + 50
<1>1. PICK r \in Raws : spoken = [f \in { g \in Fields : DBC[g].id = id } |-> r[f]]
  BY DEF Sayings
<1>2. DOMAIN spoken = { f \in Fields : DBC[f].id = id }
  BY <1>1
<1>3. ASSUME NEW f \in DOMAIN spoken
      PROVE  /\ spoken[f] \in RawValues(DBC[f].length)
             /\ f \in Temperatures => spoken[f] \in 0 .. Hottest + 50
  <2>1. f \in Fields /\ spoken[f] = r[f]
    BY <1>1, <1>2
  <2>2. spoken[f] \in 0 .. Top(f)
    BY <2>1, RawsAssumption
  <2>3. CASE f \in Temperatures
    <3>1. DBC[f].length = 8
      BY <2>1, <2>3, FieldKinds
    <3>2. spoken[f] \in 0 .. Hottest + 50
      BY <2>2, <2>3 DEF Top
    <3>3. spoken[f] \in 0 .. 2 ^ 8 - 1
      BY <3>2, HottestAssumption, SMT
    <3> QED
      BY <3>1, <3>2, <3>3 DEF RawValues
  <2>4. CASE f \notin Temperatures
    BY <2>2, <2>4 DEF Top, RawValues
  <2> QED
    BY <2>3, <2>4
<1> QED
  BY <1>2, <1>3

\* A field is read as it was said.
LEMMA FieldIsRead ==
    ASSUME NEW f \in Fields, NEW spoken \in Sayings(DBC[f].id)
    PROVE  Number(Unpack(Frame(spoken), DBC[f].start, DBC[f].length)) = spoken[f]
<1> DEFINE part(g) == Spread(Bits(spoken[g]), DBC[g].start, DBC[g].length)
           parts == { part(g) : g \in DOMAIN spoken }
<1>1. f \in DOMAIN spoken
  <2>1. DOMAIN spoken = { g \in Fields : DBC[g].id = DBC[f].id }
    BY SaidFits
  <2> QED
    BY <2>1
<1>2. ASSUME NEW g \in DOMAIN spoken
      PROVE  /\ DBC[g].start \in Nat /\ DBC[g].length \in 1 .. 24
             /\ spoken[g] \in RawValues(DBC[g].length)
             /\ g \in Fields /\ DBC[g].id = DBC[f].id
             /\ Bits(spoken[g]) \in SUBSET (0 .. DBC[g].length - 1)
             /\ Number(Bits(spoken[g])) = spoken[g]
  <2>1. /\ g \in Fields /\ DBC[g].id = DBC[f].id
        /\ spoken[g] \in RawValues(DBC[g].length)
    BY SaidFits
  <2>2. DBC[g].start \in 0 .. 63 /\ DBC[g].length \in 1 .. 19
    BY <2>1, FieldsFit
  <2>3. DBC[g].start \in Nat /\ DBC[g].length \in 1 .. 24
    BY <2>2, SMT
  <2> QED
    BY <2>1, <2>3, BitsFit
<1>3. Frame(spoken) = UNION parts
  BY DEF Frame, Saying, Spread
<1>4. ASSUME NEW g \in DOMAIN spoken
      PROVE  part(g) = part(f) \/ part(g) \cap Places(DBC[f].start, DBC[f].length) = {}
  <2>1. CASE g = f
    BY <2>1
  <2>2. CASE g # f
    <3>1. Apart(DBC[g].start, DBC[g].length, DBC[f].start, DBC[f].length)
      <4>1. \/ Before(DBC[f].start, DBC[f].length, DBC[g].start)
            \/ Before(DBC[g].start, DBC[g].length, DBC[f].start)
        BY <1>1, <1>2, <2>2, FieldsApart
      <4> QED
        BY <1>1, <1>2, <4>1, ApartIs
    <3>2. part(g) \subseteq Places(DBC[g].start, DBC[g].length)
      BY <1>2 DEF Spread, Places
    <3> QED
      BY <3>1, <3>2 DEF Apart
  <2> QED
    BY <2>1, <2>2
<1>5. Meaning(UNION parts, DBC[f].start, DBC[f].length)
        = Meaning(part(f), DBC[f].start, DBC[f].length)
  <2>1. part(f) \in parts
    BY <1>1
  <2>2. \A q \in parts : q = part(f) \/ q \cap Places(DBC[f].start, DBC[f].length) = {}
    BY <1>4
  <2> HIDE DEF parts, part
  <2> QED
    BY <2>1, <2>2, MeaningAmong
<1>6. Meaning(part(f), DBC[f].start, DBC[f].length) = Bits(spoken[f])
  BY <1>1, <1>2, SpreadIsRead
<1>7. Unpack(Frame(spoken), DBC[f].start, DBC[f].length)
        = Meaning(Frame(spoken), DBC[f].start, DBC[f].length)
  BY <1>1, <1>2, UnpackIsMeaning
<1> HIDE DEF parts, part
<1> QED
  BY <1>1, <1>2, <1>3, <1>5, <1>6, <1>7, Zenon

\* What the JSON object has for a value of a field.
Shows(f, got, n) ==
    IF f \in AngleFields /\ n # Unsaid THEN IsAngleOf(got, n) ELSE got = n

\* Up to 77 degrees a field is decoded as it was said.
LEMMA DecodedIs ==
    ASSUME Hottest <= 77, NEW f \in Fields, NEW spoken \in Sayings(DBC[f].id),
           NEW n, n = spoken[f] + DBC[f].offset, NEW got, got = Decoded(f, Frame(spoken))
    PROVE  IF f \in AngleFields THEN IsAngleOf(got, n) ELSE got = n
<1>1. Decoder = DBC
  BY DEF Decoder, DBC
<1>2. PICK v : v = spoken[f]
  OBVIOUS
<1>3. Number(Unpack(Frame(spoken), DBC[f].start, DBC[f].length)) = v
  BY <1>2, FieldIsRead
<1>4. f \in DOMAIN spoken /\ v \in RawValues(DBC[f].length)
  BY <1>2, SaidFits
<1>5. PICK d : d = DBC[f].offset
  OBVIOUS
<1>6. got = CASE f \in Int8Fields  -> ToInt8(v) + d
                [] f \in AngleFields -> UnwrapAngle(v)
                [] OTHER             -> v + d
  BY <1>1, <1>3, <1>5 DEF Decoded
<1>7. CASE f \in Int8Fields
  <2>1. f \notin AngleFields /\ f \in Temperatures
    BY <1>7 DEF Int8Fields, AngleFields, Temperatures
  <2>2. v \in 0 .. Hottest + 50
    BY <1>2, <1>4, <2>1, SaidFits
  <2>3. ToInt8(v) = v
    BY <2>2, HottestAssumption, SMT DEF ToInt8
  <2>4. got = v + d
    BY <1>6, <1>7, <2>1, <2>3
  <2> QED
    BY <1>2, <1>5, <2>1, <2>4
<1>8. CASE f \in AngleFields
  <2>1. f \notin Int8Fields
    BY <1>8 DEF Int8Fields, AngleFields, Temperatures
  <2>2. d = 0 /\ DBC[f].length = 16
    BY <1>5, <1>8, FieldKinds
  <2>3. v \in 0 .. 2 ^ 16 - 1
    BY <1>4, <2>2 DEF RawValues
  <2>4. got = UnwrapAngle(v)
    BY <1>6, <1>8, <2>1
  <2>5. n = v
    BY <1>2, <1>5, <2>2, <2>3, SMT
  <2>6. v \in Int /\ 0 <= v /\ v < 65536
    <3>1. 2 ^ 16 = 65536
      BY SMT
    <3>2. PICK p : p = 2 ^ 16
      OBVIOUS
    <3> QED
      BY <2>3, <3>1, <3>2, SMT
  <2>7. IsAngleOf(got, n)
    BY <2>4, <2>5, <2>6, SMT DEF UnwrapAngle, IsAngleOf
  <2> QED
    BY <1>8, <2>7
<1>9. CASE f \notin Int8Fields /\ f \notin AngleFields
  <2>1. got = v + d
    BY <1>6, <1>9
  <2> QED
    BY <1>2, <1>5, <1>9, <2>1
<1> QED
  BY <1>7, <1>8, <1>9

\* The data model and the JSON object say what the inverter had said.
TelemetryInv ==
    /\ watched \in Keys
    /\ said \in Int \cup {Unsaid}
    /\ Shows(Meant[watched], kept, said) /\ Shows(Meant[watched], shown, meant)

\* The field behind a key is the signal the panel takes it for.
LEMMA FieldIsMeant ==
    ASSUME NEW k \in Keys
    PROVE  serializeData[k] = Meant[k] /\ Meant[k] \in Fields
<1>1. serializeData[k] = Meant[k]
  BY DEF serializeData, Meant
<1>2. Meant[k] \in Fields
  <2>1. /\ "Wmechanical" \in Fields /\ "ZVFlux" \in Fields /\ "ZVTemperature" \in Fields
        /\ "ZVRs" \in Fields
    BY DEF Fields, DBC
  <2>2. k \in Fields \/ k \in {"ns", "Flux", "Temperature", "Rs", "motorRs"}
    BY DEF Keys
  <2> QED
    BY <2>1, <2>2 DEF Meant
<1> QED
  BY <1>1, <1>2

\* Up to 77 degrees, the highest an int8_t takes the raw value of, the panel is
\* shown what the inverter said, whatever it says in all its signals.
THEOREM ShownIsSaidCorrect == Hottest <= 77 => (TelemetrySpec => []ShownIsSaid)
<1> SUFFICES ASSUME Hottest <= 77 PROVE TelemetrySpec => []ShownIsSaid
  OBVIOUS
<1>1. TelemetryInit => TelemetryInv
  BY DEF TelemetryInit, TelemetryInv, Shows
<1>2. TelemetryInv /\ [TelemetryNext]_telemetryVars => TelemetryInv'
  <2> SUFFICES ASSUME TelemetryInv, [TelemetryNext]_telemetryVars PROVE TelemetryInv'
    OBVIOUS
  <2>1. CASE updateFromCAN
    <3>1. PICK id \in Messages : \E spoken \in Sayings(id) :
            /\ said' = IF DBC[Meant[watched]].id = id
                       THEN spoken[Meant[watched]] + DBC[Meant[watched]].offset
                       ELSE said
            /\ kept' = IF Decoder[serializeData[watched]].id = id
                       THEN Decoded(serializeData[watched], Frame(spoken))
                       ELSE kept
      BY <2>1 DEF updateFromCAN
    <3>2. PICK spoken \in Sayings(id) :
            /\ said' = IF DBC[Meant[watched]].id = id
                       THEN spoken[Meant[watched]] + DBC[Meant[watched]].offset
                       ELSE said
            /\ kept' = IF Decoder[serializeData[watched]].id = id
                       THEN Decoded(serializeData[watched], Frame(spoken))
                       ELSE kept
      BY <3>1
    <3>3. PICK f : f = Meant[watched]
      OBVIOUS
    <3>4. serializeData[watched] = f /\ f \in Fields
      BY <3>3, FieldIsMeant DEF TelemetryInv
    <3>5. Decoder = DBC
      BY DEF Decoder, DBC
    <3>6. watched' = watched /\ shown' = shown /\ meant' = meant
      BY <2>1 DEF updateFromCAN
    <3>7. CASE DBC[f].id = id
      <4>1. said' = spoken[f] + DBC[f].offset /\ kept' = Decoded(f, Frame(spoken))
        BY <3>2, <3>3, <3>4, <3>5, <3>7
      <4>2. said' \in Int
        <5>1. f \in DOMAIN spoken /\ spoken[f] \in RawValues(DBC[f].length)
          <6>1. DOMAIN spoken = { g \in Fields : DBC[g].id = id }
            BY SaidFits
          <6>2. f \in DOMAIN spoken
            BY <3>4, <3>7, <6>1
          <6> QED
            BY <6>2, SaidFits
        <5>2. DBC[f].offset \in Int /\ DBC[f].length \in 1 .. 19
          BY <3>4, FieldsFit
        <5>3. spoken[f] \in Int
          BY <5>1, SMT DEF RawValues
        <5> QED
          BY <4>1, <5>2, <5>3
      <4>3. IF f \in AngleFields THEN IsAngleOf(kept', said') ELSE kept' = said'
        BY <3>4, <3>7, <4>1, DecodedIs
      <4>4. Shows(f, kept', said')
        BY <3>3, <4>2, <4>3, UnsaidAssumption DEF Shows
      <4> QED
        BY <3>3, <3>6, <4>2, <4>4 DEF TelemetryInv, Shows
    <3>8. CASE DBC[f].id # id
      <4>1. said' = said /\ kept' = kept
        BY <3>2, <3>3, <3>4, <3>5, <3>8
      <4> QED
        BY <3>6, <4>1 DEF TelemetryInv, Shows
    <3> QED
      BY <3>7, <3>8
  <2>2. CASE SendTelemetry
    BY <2>2 DEF SendTelemetry, TelemetryInv, Shows
  <2>3. CASE UNCHANGED telemetryVars
    BY <2>3 DEF telemetryVars, TelemetryInv, Shows
  <2> QED
    BY <2>1, <2>2, <2>3 DEF TelemetryNext
<1>3. TelemetryInv => ShownIsSaid
  BY DEF TelemetryInv, ShownIsSaid, Shows
<1> QED
  BY <1>1, <1>2, <1>3, PTL DEF TelemetrySpec
=============================================================================
