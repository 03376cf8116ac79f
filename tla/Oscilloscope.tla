---------------------------- MODULE Oscilloscope ----------------------------
(***************************************************************************)
(* The driver of the recorder (YokogawaDL850E.cpp): its objects, their     *)
(* connections, the process-wide count of the uses of the vendor's library *)
(* ScAPI, and the samples fetched.  The library may refuse any call.       *)
(*                                                                         *)
(* An object is used by one thread at a time (mtx_); only connecting is    *)
(* more than one step, for the count is taken first.  The scaling, times   *)
(* and texts of a waveform are left out, and so is what stands in for the  *)
(* width of a channel or of its samples when the recorder reports none.    *)
(***************************************************************************)
EXTENDS Integers, Sequences

CONSTANTS
    Object,
    MaxRefs,        \* bound: the library is in use so many times
    DestroyUnused,  \* whether an object may be destroyed without a connection
    dataSizes,      \* the sizes of a sample, in bits
    maxSamples,     \* what a caller asks for; 0: everything
    hardLimitSamples,
    Counts          \* so many samples may be there since the latch

ASSUME ScopeAssumption ==
    /\ dataSizes \subseteq 1 .. 32 /\ Counts \subseteq Nat
    /\ maxSamples \in Nat /\ hardLimitSamples \in Nat

VARIABLES
    initialised,    \* ScInit succeeded, and no ScExit since
    apiRefCount_,
    handle_,        \* object -> "none", "fresh" (never connected), "opening",
                    \* "reopening", "open" or "closed"
    recorder,       \* the recorder: "stopped", "running" or "latched"
    raw,            \* the samples last fetched
    taken           \* those the recorder took

apiVars == <<initialised, apiRefCount_>>
captureVars == <<recorder, raw, taken>>
scopeVars == <<apiVars, handle_, captureVars>>

ScopeInit ==
    /\ initialised = FALSE /\ apiRefCount_ = 0
    /\ handle_ = [o \in Object |-> "none"]
    /\ recorder = "stopped" /\ raw = <<>> /\ taken = <<>>

-----------------------------------------------------------------------------

(***************************************************************************)
(* Connections.                                                            *)
(***************************************************************************)

Becomes(o, h) == handle_' = [handle_ EXCEPT ![o] = h]

Construct(o) ==
    /\ handle_[o] = "none" /\ Becomes(o, "fresh")
    /\ UNCHANGED <<apiVars, captureVars>>

\* Mutant: who finds the library ready does not count.
ensureApiInit_bug ==
    initialised' = TRUE /\ apiRefCount_' = IF initialised THEN apiRefCount_ ELSE 1

\* ScInit for the first; if it fails connectLan gives up with nothing changed.
ensureApiInit == initialised' = TRUE /\ apiRefCount_' = apiRefCount_ + 1

\* ScExit for the last.
apiExitIfNeeded ==
    IF apiRefCount_ > 0
    THEN apiRefCount_' = apiRefCount_ - 1 /\ initialised' = (initialised /\ apiRefCount_ > 1)
    ELSE UNCHANGED apiVars

\* connectLan, its first half.
connectLan(o) ==
    /\ handle_[o] \in {"fresh", "closed"} /\ apiRefCount_ < MaxRefs
    /\ ensureApiInit
    /\ Becomes(o, IF handle_[o] = "fresh" THEN "opening" ELSE "reopening")
    /\ UNCHANGED captureVars

\* ScOpenInstrument succeeds.
Connected(o) ==
    /\ handle_[o] \in {"opening", "reopening"} /\ Becomes(o, "open")
    /\ UNCHANGED <<apiVars, captureVars>>

\* It fails.
NotConnected(o) ==
    /\ handle_[o] \in {"opening", "reopening"}
    /\ Becomes(o, IF handle_[o] = "opening" THEN "fresh" ELSE "closed")
    /\ apiExitIfNeeded
    /\ UNCHANGED captureVars

\* disconnect keeps the library for the destructor to leave.
disconnect(o) ==
    /\ handle_[o] = "open" /\ Becomes(o, "closed")
    /\ UNCHANGED <<apiVars, captureVars>>

\* The destructor leaves it once, connected or not.
Destroy(o) ==
    /\ handle_[o] \in {"open", "closed"} \/ (handle_[o] = "fresh" /\ DestroyUnused)
    /\ Becomes(o, "none") /\ apiExitIfNeeded
    /\ UNCHANGED captureVars

-----------------------------------------------------------------------------

(***************************************************************************)
(* Samples: integers in two's complement, in whole bytes, the least        *)
(* significant byte first; what is in the bits above is not known.         *)
(***************************************************************************)

bytesForBits(bits) == (bits + 7) \div 8

\* Mutant: the sign bit is taken to be one further up.
signExtend_bug(v, bits) == IF v >= 2 ^ bits THEN v - 2 ^ (bits + 1) ELSE v

\* (v ^ m) - m, with m the sign bit
signExtend(v, bits) == IF v >= 2 ^ (bits - 1) THEN v - 2 ^ bits ELSE v

\* The bytes of ScGetLatchAcqData for these samples.
Filled(samples, size, above) ==
    LET n == bytesForBits(size)
        Sent(s) == ((s + 2 ^ size) % 2 ^ size) + (IF above THEN 2 ^ (8 * n) - 2 ^ size ELSE 0)
    IN  [ j \in 0 .. Len(samples) * n - 1 |->
            (Sent(samples[1 + j \div n]) \div 2 ^ (8 * (j % n))) % 256 ]

\* The loop of getLatchWaveform over the bytes of a sample: at most four.
Word(buff, first, n) ==
    LET p(b) == IF b < n THEN buff[first + b] ELSE 0
    IN  p(0) + 256 * p(1) + 256 ^ 2 * p(2) + 256 ^ 3 * p(3)

\* And over the buffer.
Unpacked(buff, dataSize, dataCount) ==
    LET n == bytesForBits(dataSize)
    IN  [ i \in 1 .. dataCount |->
            signExtend(Word(buff, (i - 1) * n, n) % 2 ^ dataSize, dataSize) ]

\* So many samples are asked for.
want(available) ==
    LET asked == IF maxSamples = 0 THEN available ELSE maxSamples
    IN  IF hardLimitSamples > 0 /\ asked > hardLimitSamples THEN hardLimitSamples ELSE asked

\* The lowest, the highest and the values around zero.
Samples(size) == { - 2 ^ (size - 1), -1, 0, 2 ^ (size - 1) - 1 }

getLatchWaveform(o) ==
    /\ handle_[o] = "open" /\ recorder = "latched"
    /\ \E available \in Counts \ {0}, dataSize \in dataSizes, above \in BOOLEAN :
         LET dataCount == CHOOSE n \in {available, want(available)} :
                            n <= available /\ n <= want(available)
         IN  \E samples \in [1 .. dataCount -> Samples(dataSize)] :
                /\ taken' = samples
                /\ raw' = Unpacked(Filled(samples, dataSize, above), dataSize, dataCount)
    /\ UNCHANGED <<apiVars, handle_, recorder>>

\* Nothing to fetch, or a refusal by the library: the waveform was cleared.
NoWaveform(o) ==
    /\ handle_[o] = "open"
    /\ raw' = <<>> /\ taken' = <<>>
    /\ UNCHANGED <<apiVars, handle_, recorder>>

\* start, stop and latch
Acquire(o) ==
    /\ handle_[o] = "open"
    /\ \/ recorder' = "running"
       \/ recorder' = "stopped"
       \/ recorder = "running" /\ recorder' = "latched"
    /\ UNCHANGED <<apiVars, handle_, raw, taken>>

-----------------------------------------------------------------------------

ScopeNext ==
    \E o \in Object :
        \/ Construct(o) \/ connectLan(o) \/ Connected(o) \/ NotConnected(o)
        \/ disconnect(o) \/ Destroy(o)
        \/ Acquire(o) \/ getLatchWaveform(o) \/ NoWaveform(o)

ScopeSpec == ScopeInit /\ [][ScopeNext]_scopeVars

-----------------------------------------------------------------------------

\* The library is never left under an object that is connected or about to be,
\* however many connect, reconnect, fail and are destroyed at once.
LibraryReady ==
    \A o \in Object : handle_[o] \in {"opening", "reopening", "open"} => initialised

\* What is fetched is what the recorder took, whatever the size of a sample and
\* whatever is in the bits above it.
SamplesAsTaken == raw = taken
=============================================================================
