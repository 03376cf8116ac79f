----------------------------- MODULE TxSchedule -----------------------------
(***************************************************************************)
(* The timing of a session in the normal mode (ws_server.cpp,              *)
(* StateMachine::periodicTx): can_updater sends what is due, and competes  *)
(* for g_model_mutex with the thread that serializes the telemetry and     *)
(* with the reader.  A write to the WebSocket may take any time.           *)
(*                                                                         *)
(* Time is in milliseconds.  Nothing in the code bounds the time a thread  *)
(* keeps the mutex, the lateness of a sleep or the number of times another *)
(* thread gets the mutex first: these bounds are the constants.            *)
(***************************************************************************)
EXTENDS Integers

CONSTANTS
    Steps,      \* by how much the clock may advance
    Late,       \* a sleep lasts up to this much longer than asked for
    Hold,       \* a thread keeps g_model_mutex at most this long
    MaxTurns,   \* others get the mutex at most so often while can_updater waits
    Nobody

Ids == {"0x046", "0x047", "0x300"}

\* PERIOD_CTRL, PERIOD_LIMIT, PERIOD_CURR
Period == [id \in Ids |-> IF id = "0x047" THEN 20 ELSE 10]

Sleep == 5

\* The inverter's current-command timeout.
Timeout == 100

ASSUME TimingAssumption ==
    /\ Steps \subseteq Nat \ {0}
    /\ Late \in Nat /\ Hold \in Nat /\ MaxTurns \in Nat \ {0}
    /\ Period["0x300"] + Sleep + Late + (MaxTurns + 1) * Hold <= Timeout

ASSUME NobodyAssumption == Nobody \notin {"can", "json", "reader"}

VARIABLES
    pc,         \* thread -> what it does
    holder,     \* of g_model_mutex
    held,       \* for how long
    writer,     \* of ws_write_mutex
    nap,        \* how long can_updater has slept
    turns,      \* how often others have had the mutex while can_updater waits
    age,        \* id -> time since t_ctrl_, t_limit_, t_curr_
    silence     \* time since the last 0x300 on the bus

txVars == <<pc, holder, held, writer, nap, turns, age, silence>>

Threads == {"can", "json", "reader"}

Labels == {"sleep", "wait", "hold", "queue", "write"}

TxTypeOK ==
    /\ pc \in [Threads -> Labels]
    /\ holder \in Threads \cup {Nobody}
    /\ writer \in Threads \cup {Nobody}
    /\ held \in Nat /\ nap \in Nat /\ turns \in Nat /\ silence \in Nat
    /\ age \in [Ids -> Nat]

Goto(t, label) == pc' = [pc EXCEPT ![t] = label]

-----------------------------------------------------------------------------

\* A thread comes to the mutex: from its sleep, or with a command read.
Wake(t) ==
    /\ pc[t] = "sleep"
    /\ t = "can" => nap >= Sleep
    /\ Goto(t, "wait")
    /\ turns' = IF t = "can" THEN IF holder = Nobody THEN 0 ELSE 1 ELSE turns
    /\ UNCHANGED <<holder, held, writer, nap, age, silence>>

Lock(t) ==
    /\ pc[t] = "wait" /\ holder = Nobody
    /\ t # "can" /\ pc["can"] = "wait" => turns < MaxTurns
    /\ turns' = IF t # "can" /\ pc["can"] = "wait" THEN turns + 1 ELSE turns
    /\ holder' = t
    /\ held' = 0
    /\ Goto(t, "hold")
    /\ UNCHANGED <<writer, nap, age, silence>>

\* Mutant: frames go whether or not they are due, the timers move by a period.
Update_bug ==
    /\ holder = "can"
    /\ age' = [id \in Ids |-> age[id] - Period[id]]
    /\ silence' = 0
    /\ holder' = Nobody
    /\ nap' = 0
    /\ Goto("can", "sleep")
    /\ UNCHANGED <<held, writer, turns>>

\* sm.update(): every frame that is due; then the sleep.
Update ==
    /\ holder = "can"
    /\ age' = [id \in Ids |-> IF age[id] >= Period[id] THEN 0 ELSE age[id]]
    /\ silence' = IF age["0x300"] >= Period["0x300"] THEN 0 ELSE silence
    /\ holder' = Nobody
    /\ nap' = 0
    /\ Goto("can", "sleep")
    /\ UNCHANGED <<held, writer, turns>>

\* Mutant: the mutex is kept until the text has been written.
Serialize_bug ==
    /\ holder = "json"
    /\ Goto("json", "queue")
    /\ UNCHANGED <<holder, held, writer, nap, turns, age, silence>>

\* serializeData(), under the mutex for its own time only.
Serialize ==
    /\ holder = "json"
    /\ holder' = Nobody
    /\ Goto("json", "queue")
    /\ UNCHANGED <<held, writer, nap, turns, age, silence>>

\* handleCommand: SendTorque sends 0x300 at once, whatever its timer; some
\* commands are answered.
Handle ==
    /\ holder = "reader"
    /\ holder' = Nobody
    /\ silence' \in {silence, 0}
    /\ \E next \in {"sleep", "queue"} : Goto("reader", next)
    /\ UNCHANGED <<held, writer, nap, turns, age>>

LockWriter(t) ==
    /\ pc[t] = "queue" /\ writer = Nobody
    /\ writer' = t
    /\ Goto(t, "write")
    /\ UNCHANGED <<holder, held, nap, turns, age, silence>>

\* ws->write returns.
Written(t) ==
    /\ pc[t] = "write" /\ writer = t
    /\ writer' = Nobody
    /\ Goto(t, "sleep")
    /\ UNCHANGED <<holder, held, nap, turns, age, silence>>

\* Time passes, but a free mutex is taken at once, whoever is in it leaves it in
\* time unless it waits for the socket, and can_updater wakes up in time.
Tick(d) ==
    /\ holder = Nobody => pc["can"] # "wait"
    /\ holder # Nobody /\ pc[holder] = "hold" => held + d <= Hold
    /\ pc["can"] = "sleep" => nap + d <= Sleep + Late
    /\ held' = IF holder = Nobody THEN held ELSE held + d
    /\ nap' = IF pc["can"] = "sleep" THEN nap + d ELSE nap
    /\ age' = [id \in Ids |-> age[id] + d]
    /\ silence' = silence + d
    /\ UNCHANGED <<pc, holder, writer, turns>>

\* The first update in the normal mode has sent every frame.
TxInit ==
    /\ pc = [t \in Threads |-> "sleep"]
    /\ holder = Nobody /\ writer = Nobody
    /\ held = 0 /\ nap = 0 /\ turns = 0 /\ silence = 0
    /\ age = [id \in Ids |-> 0]

TxNext ==
    \/ \E t \in Threads : Wake(t) \/ Lock(t)
    \/ \E t \in {"json", "reader"} : LockWriter(t) \/ Written(t)
    \/ Update \/ Serialize \/ Handle
    \/ \E d \in Steps : Tick(d)

TxSpec == TxInit /\ [][TxNext]_txVars

-----------------------------------------------------------------------------

\* However long a WebSocket write takes, the inverter hears a 0x300 before its
\* current-command timeout.
KeepAlive == silence < Timeout

-----------------------------------------------------------------------------

(***************************************************************************)
(* The inductive invariant behind KeepAlive.                               *)
(***************************************************************************)

\* The mutex is held by the thread that is in it, and for no longer than Hold.
Holding ==
    /\ \A t \in Threads : pc[t] = "hold" <=> holder = t
    /\ holder # Nobody => held <= Hold

\* can_updater wakes in time, and is passed over MaxTurns times at most; the
\* thread it waits for is one of those.
Turns ==
    /\ pc["can"] = "sleep" => nap <= Sleep + Late
    /\ pc["can"] = "wait" => turns <= MaxTurns
    /\ pc["can"] = "wait" /\ holder # Nobody => turns >= 1

\* What the age of the 0x300 timer is made of: less than a period at the last
\* update, then the sleep, the holds waited for, and the present one.
Aged(time) == age["0x300"] < Period["0x300"] + time

Timely ==
    /\ silence <= age["0x300"]
    /\ pc["can"] \in {"sleep", "wait", "hold"}
    /\ pc["can"] = "sleep" => Aged(nap)
    /\ pc["can"] = "wait" /\ holder = Nobody => Aged(Sleep + Late + turns * Hold)
    /\ pc["can"] = "wait" /\ holder # Nobody =>
           Aged(Sleep + Late + (turns - 1) * Hold + held)
    /\ pc["can"] = "hold" => Aged(Sleep + Late + MaxTurns * Hold + held)

IInv == TxTypeOK /\ Holding /\ Turns /\ Timely
=============================================================================
