------------------------------ MODULE Sessions ------------------------------
(***************************************************************************)
(* The threads of ws_server.cpp around one shared drive.                   *)
(*                                                                         *)
(* main starts a detached do_session thread per connection.  Each session  *)
(* runs three threads: the reader (do_session itself), can_updater, which  *)
(* calls sm.update(), and updater, which serialises the model and writes   *)
(* it to the socket.  Handlers, updates and serialisation hold             *)
(* g_model_mutex; the teardown at the end of do_session does not.          *)
(*                                                                         *)
(* setState, update and the senders are taken apart into the accesses      *)
(* other threads can come between.  Data is reduced to one question: are   *)
(* the requests cleared or live, and which of the two was sent last.       *)
(* Operators whose names end in _bug are mutated forms of the one they     *)
(* precede.                                                                *)
(***************************************************************************)
EXTENDS Naturals

CONSTANTS
  Sessions,    \* connection slots; a slot is used again after its session
  Commands,    \* the commands a client sends
  NoThread

ASSUME CommandsAssumption ==
  Commands \subseteq {"Init", "Stop", "Read2", "ResolverRxInit", "Save_Cfg",
                      "SendTorque"}
ASSUME NoThreadAssumption == NoThread \notin Sessions \X {"reader", "can", "json"}

VARIABLES
  mutex,            \* the thread that holds g_model_mutex
  running,          \* do_session's running flag, per session
  pc, ret,          \* where each thread is, and where setState returns to
  arg,              \* the command, or the argument of setState
  frame,            \* the frame a thread has built and not yet written
  currentState, transmitEnabled, initialized,
  request,          \* the DataModel's requests: "cleared" or "live"
  bus               \* the last frame written: "cleared" or "live"

drive == <<currentState, transmitEnabled, initialized, request, bus>>
vars  == <<mutex, running, pc, ret, arg, frame, drive>>

Reader(s) == <<s, "reader">>
Can(s)    == <<s, "can">>
Json(s)   == <<s, "json">>
Threads   == Sessions \X {"reader", "can", "json"}
Workers   == Sessions \X {"reader", "can"}

Labels ==
  {"done", "accept", "read", "lock", "handler", "apply", "unlock", "join",
   "loop", "update", "tail", "check", "write", "test", "clear", "disable",
   "close", "gate", "store", "initClose", "initClear", "initOpen", "rxClose",
   "rxGate", "rxOpen", "stopTest", "stopClear", "stopWipe", "stopDisable",
   "stopGate", "stopClose", "writing"}

At(t, l)   == pc[t] = l
Goto(t, l) == pc' = [pc EXCEPT ![t] = l]

\* setState(new), to come back to l.
Call(t, new, l) ==
  /\ Goto(t, "test")
  /\ arg' = [arg EXCEPT ![t] = new] /\ ret' = [ret EXCEPT ![t] = l]

Local  == UNCHANGED <<mutex, running, ret, arg, frame>>
NoData == UNCHANGED drive

-----------------------------------------------------------------------------
(* StateMachine::setState in thread t.                                     *)

\* Straight to the gate: nothing is disabled first.
SetTest_bug(t) ==
  /\ At(t, "test") /\ Goto(t, "gate")
  /\ Local /\ NoData

SetTest(t) ==
  /\ At(t, "test")
  /\ Goto(t, IF arg[t] # "Read2" /\ transmitEnabled THEN "clear" ELSE "gate")
  /\ Local /\ NoData

\* sendSafeDisable clears the requests, then sends what it finds in them,
\* its five frames in one burst.
ClearRequest(t, from, to) ==
  /\ At(t, from) /\ Goto(t, to)
  /\ request' = "cleared"
  /\ Local /\ UNCHANGED <<currentState, transmitEnabled, initialized, bus>>

SendDisable(t, from, to) ==
  /\ At(t, from) /\ Goto(t, to)
  /\ bus' = IF transmitEnabled /\ initialized THEN request ELSE bus
  /\ Local /\ UNCHANGED <<currentState, transmitEnabled, initialized, request>>

GateOff(t, from, to) ==
  /\ At(t, from) /\ Goto(t, to)
  /\ transmitEnabled' = FALSE
  /\ Local /\ UNCHANGED <<currentState, initialized, request, bus>>

SetGate(t) ==
  /\ At(t, "gate") /\ Goto(t, "store")
  /\ transmitEnabled' = (arg[t] = "Read2")
  /\ Local /\ UNCHANGED <<currentState, initialized, request, bus>>

SetStore(t) ==
  /\ At(t, "store") /\ Goto(t, ret[t])
  /\ currentState' = arg[t]
  /\ arg' = [arg EXCEPT ![t] = "Idle"] /\ ret' = [ret EXCEPT ![t] = "done"]
  /\ UNCHANGED <<mutex, running, frame, transmitEnabled, initialized, request,
                 bus>>

setState(t) ==
  \/ SetTest(t)
  \/ ClearRequest(t, "clear", "disable") \/ SendDisable(t, "disable", "close")
  \/ GateOff(t, "close", "gate")
  \/ SetGate(t) \/ SetStore(t)

-----------------------------------------------------------------------------
(* StateMachine::update in thread t.                                       *)

Switch(t) ==
  /\ At(t, "update")
  /\ \/ /\ currentState = "Save_Cfg" /\ Call(t, "Idle", "tail")
        /\ UNCHANGED <<mutex, running, frame>>
     \/ /\ currentState # "Save_Cfg" /\ Local
        /\ Goto(t, CASE currentState = "Init"           -> "initClose"
                     [] currentState = "ResolverRxInit" -> "rxClose"
                     [] currentState = "Stop"           -> "stopTest"
                     [] OTHER                           -> "tail")
  /\ NoData

CloseChannel(t, from, to) ==
  /\ At(t, from) /\ Goto(t, to)
  /\ initialized' = FALSE
  /\ Local /\ UNCHANGED <<currentState, transmitEnabled, request, bus>>

\* CANInterface::init, whose result decides the next state.
OpenChannel(t, from, good) ==
  /\ At(t, from)
  /\ \E ok \in BOOLEAN :
       /\ initialized' = (initialized \/ ok)
       /\ Call(t, IF ok THEN good ELSE "Stop", "tail")
  /\ UNCHANGED <<mutex, running, frame, currentState, transmitEnabled,
                 request, bus>>

\* handleStop: with an open gate the requests are cleared and disabled, with a
\* closed one only some of them are cleared.
StopTest(t) ==
  /\ At(t, "stopTest")
  /\ Goto(t, IF transmitEnabled THEN "stopClear" ELSE "stopWipe")
  /\ Local /\ NoData

\* En_Is, Isd and Isq are cleared; MotorCtrl and M_desired stay what they are,
\* so a live request may stay live.
StopWipe(t) ==
  /\ At(t, "stopWipe") /\ Goto(t, "stopGate")
  /\ request' \in {"cleared", request}
  /\ Local /\ UNCHANGED <<currentState, transmitEnabled, initialized, bus>>

StopClose(t) ==
  /\ At(t, "stopClose") /\ Call(t, "Idle", "tail")
  /\ initialized' = FALSE
  /\ UNCHANGED <<mutex, running, frame, currentState, transmitEnabled,
                 request, bus>>

\* What runs under the mutex goes on to release it; the teardown, which
\* does not hold it, ends the session.
After(t) == IF mutex = t THEN "unlock" ELSE "done"

\* periodicTx in Read2: a frame is built from the requests, send checks the
\* gate and the channel, CAN_Write puts it on the bus.  Nothing may be due.
Tail(t) ==
  /\ At(t, "tail")
  /\ \/ Goto(t, After(t)) /\ UNCHANGED frame
     \/ /\ currentState = "Read2" /\ Goto(t, "check")
        /\ frame' = [frame EXCEPT ![t] = request]
  /\ UNCHANGED <<mutex, running, ret, arg>> /\ NoData

Check(t) ==
  /\ At(t, "check")
  /\ \/ transmitEnabled /\ initialized /\ Goto(t, "write") /\ UNCHANGED frame
     \/ /\ ~(transmitEnabled /\ initialized) /\ Goto(t, After(t))
        /\ frame' = [frame EXCEPT ![t] = "cleared"]
  /\ UNCHANGED <<mutex, running, ret, arg>> /\ NoData

\* CAN_Write refuses a channel that was closed since the check.
WriteFrame(t) ==
  /\ At(t, "write") /\ Goto(t, After(t))
  /\ bus' = IF initialized THEN frame[t] ELSE bus
  /\ frame' = [frame EXCEPT ![t] = "cleared"]
  /\ UNCHANGED <<mutex, running, ret, arg, currentState, transmitEnabled,
                 initialized, request>>

update(t) ==
  \/ Switch(t)
  \/ CloseChannel(t, "initClose", "initClear")
  \/ ClearRequest(t, "initClear", "initOpen")
  \/ OpenChannel(t, "initOpen", "Read2")
  \/ CloseChannel(t, "rxClose", "rxGate") \/ GateOff(t, "rxGate", "rxOpen")
  \/ OpenChannel(t, "rxOpen", "ResolverRx")
  \/ StopTest(t) \/ StopWipe(t)
  \/ ClearRequest(t, "stopClear", "stopDisable")
  \/ SendDisable(t, "stopDisable", "stopGate")
  \/ GateOff(t, "stopGate", "stopClose") \/ StopClose(t)
  \/ Tail(t) \/ Check(t) \/ WriteFrame(t)

-----------------------------------------------------------------------------
(* g_model_mutex                                                           *)

\* Without the lock_guard.
Lock_bug(t, from, to) ==
  /\ At(t, from) /\ Goto(t, to)
  /\ UNCHANGED <<mutex, running, ret, arg, frame>> /\ NoData

Lock(t, from, to) ==
  /\ At(t, from) /\ mutex = NoThread
  /\ mutex' = t /\ Goto(t, to)
  /\ UNCHANGED <<running, ret, arg, frame>> /\ NoData

Unlock(t) ==
  /\ At(t, "unlock") /\ mutex' = NoThread
  /\ Goto(t, IF t[2] = "can" THEN "loop" ELSE "read")
  /\ UNCHANGED <<running, ret, arg, frame>> /\ NoData

-----------------------------------------------------------------------------
(* The reader: do_session.                                                 *)

Connect(s) ==
  /\ At(Reader(s), "done") /\ Goto(Reader(s), "accept")
  /\ Local /\ NoData

\* Handshake and first catalog succeed: the two other threads are started.
Accept(s) ==
  /\ At(Reader(s), "accept")
  /\ running' = [running EXCEPT ![s] = TRUE]
  /\ pc' = [pc EXCEPT ![Reader(s)] = "read", ![Can(s)] = "loop",
                      ![Json(s)] = "loop"]
  /\ UNCHANGED <<mutex, ret, arg, frame>> /\ NoData

\* They fail: the outer catch stops the drive, without the mutex.
Refuse(s) ==
  /\ At(Reader(s), "accept")
  /\ Call(Reader(s), "Stop", "update")
  /\ UNCHANGED <<mutex, running, frame>> /\ NoData

Read(s) ==
  /\ At(Reader(s), "read") /\ Goto(Reader(s), "lock")
  /\ \E c \in Commands : arg' = [arg EXCEPT ![Reader(s)] = c]
  /\ UNCHANGED <<mutex, running, ret, frame>> /\ NoData

\* The other threads are not told.
ReadError_bug(s) ==
  /\ At(Reader(s), "read") /\ Goto(Reader(s), "join")
  /\ Local /\ NoData

\* The client is gone or sent no JSON.
ReadError(s) ==
  /\ At(Reader(s), "read") /\ Goto(Reader(s), "join")
  /\ running' = [running EXCEPT ![s] = FALSE]
  /\ UNCHANGED <<mutex, ret, arg, frame>> /\ NoData

\* handleCommand: a mode command is a setState; SendTorque is refused while
\* the gate is closed.
Handle(s) ==
  LET t == Reader(s) IN
  /\ At(t, "handler")
  /\ \/ /\ arg[t] # "SendTorque" /\ Call(t, arg[t], "unlock")
     \/ /\ arg[t] = "SendTorque"
        /\ Goto(t, IF transmitEnabled THEN "apply" ELSE "unlock")
        /\ arg' = [arg EXCEPT ![t] = "Idle"] /\ UNCHANGED ret
  /\ UNCHANGED <<mutex, running, frame>> /\ NoData

\* The fields are stored and the frame is built and sent at once.  Isd and
\* Isq may also be set back to zero.
Apply(s) ==
  LET t == Reader(s) IN
  /\ At(t, "apply") /\ Goto(t, "check")
  /\ \E r \in {"cleared", "live"} :
       request' = r /\ frame' = [frame EXCEPT ![t] = r]
  /\ UNCHANGED <<mutex, running, ret, arg, currentState, transmitEnabled,
                 initialized, bus>>

\* can_updater is not joined.
Join_bug(s) ==
  /\ At(Reader(s), "join") /\ At(Json(s), "done")
  /\ Call(Reader(s), "Stop", "update")
  /\ UNCHANGED <<mutex, running, frame>> /\ NoData

\* sm.setState(Stop) without the sm.update() that carries it out.
Join_noupdate_bug(s) ==
  /\ At(Reader(s), "join") /\ At(Can(s), "done") /\ At(Json(s), "done")
  /\ Call(Reader(s), "Stop", "done")
  /\ UNCHANGED <<mutex, running, frame>> /\ NoData

\* Once both threads are joined the teardown runs sm.setState(Stop) and
\* sm.update() without taking the mutex.
Join(s) ==
  /\ At(Reader(s), "join") /\ At(Can(s), "done") /\ At(Json(s), "done")
  /\ Call(Reader(s), "Stop", "update")
  /\ UNCHANGED <<mutex, running, frame>> /\ NoData

reader(s) ==
  \/ Accept(s) \/ Refuse(s)
  \/ Lock(Reader(s), "lock", "handler") \/ Handle(s) \/ Apply(s)
  \/ Unlock(Reader(s)) \/ Join(s)
  \/ setState(Reader(s)) \/ update(Reader(s))

-----------------------------------------------------------------------------
(* The other two threads.                                                  *)

Exit(s, t) ==
  /\ At(t, "loop") /\ ~running[s] /\ Goto(t, "done")
  /\ Local /\ NoData

\* The flag is read before the mutex is waited for.
Loop(s) ==
  /\ At(Can(s), "loop") /\ running[s] /\ Goto(Can(s), "lock")
  /\ Local /\ NoData

can_updater(s) ==
  \/ Exit(s, Can(s)) \/ Loop(s)
  \/ Lock(Can(s), "lock", "update") \/ Unlock(Can(s))
  \/ setState(Can(s)) \/ update(Can(s))

\* The mutex is kept over the socket write, in a thread that is no worker.
Serialize_bug(s) ==
  /\ At(Json(s), "loop") /\ running[s]
  /\ mutex = NoThread /\ mutex' = Json(s) /\ Goto(Json(s), "writing")
  /\ UNCHANGED <<running, ret, arg, frame>> /\ NoData

\* serializeData under the mutex reads the model and changes nothing; that
\* running may fall while it waits makes no difference to anyone.
Serialize(s) ==
  /\ At(Json(s), "loop") /\ running[s]
  /\ mutex = NoThread /\ Goto(Json(s), "writing")
  /\ Local /\ NoData

\* The write returns, or throws and ends this thread alone.
JsonWrite(s) ==
  /\ At(Json(s), "writing")
  /\ Goto(Json(s), "loop") \/ Goto(Json(s), "done")
  /\ Local /\ NoData

updater(s) ==
  \/ Exit(s, Json(s)) \/ Serialize(s) \/ JsonWrite(s)

-----------------------------------------------------------------------------
Init ==
  /\ mutex = NoThread
  /\ running = [s \in Sessions |-> FALSE]
  /\ pc    = [t \in Threads |-> "done"]
  /\ ret   = [t \in Threads |-> "done"]
  /\ arg   = [t \in Threads |-> "Idle"]
  /\ frame = [t \in Threads |-> "cleared"]
  /\ currentState = "Idle" /\ transmitEnabled = FALSE /\ initialized = FALSE
  /\ request = "cleared" /\ bus = "cleared"

Next ==
  \E s \in Sessions :
    \/ Connect(s) \/ Read(s) \/ ReadError(s)
    \/ reader(s) \/ can_updater(s) \/ updater(s)

Spec == Init /\ [][Next]_vars

\* Every thread runs on.  A thread that waits for the mutex gets it in the
\* end, since the holders sleep for 5 ms after each release.  A blocked
\* socket write returns or fails in the end.  Clients owe nothing.
FairSpec ==
  /\ Spec
  /\ \A s \in Sessions :
       /\ WF_vars(reader(s)) /\ SF_vars(Lock(Reader(s), "lock", "handler"))
       /\ WF_vars(can_updater(s)) /\ SF_vars(Lock(Can(s), "lock", "update"))
       /\ WF_vars(updater(s)) /\ SF_vars(Serialize(s))

-----------------------------------------------------------------------------
TypeOK ==
  /\ mutex \in Workers \cup {NoThread}
  /\ running \in [Sessions -> BOOLEAN]
  /\ pc \in [Threads -> Labels] /\ ret \in [Threads -> Labels]
  /\ frame \in [Threads -> {"cleared", "live"}]
  /\ currentState \in {"Idle", "Init", "Read2", "ResolverRxInit", "ResolverRx",
                       "Stop", "Save_Cfg"}
  /\ transmitEnabled \in BOOLEAN /\ initialized \in BOOLEAN
  /\ request \in {"cleared", "live"} /\ bus \in {"cleared", "live"}

Stopped ==
  /\ currentState = "Idle" /\ ~transmitEnabled /\ ~initialized
  /\ request = "cleared" /\ bus = "cleared"

\* Threads inside setState, update or a handler.
Outside == {"done", "accept", "read", "lock", "loop", "join"}
Driving == {t \in Workers : pc[t] \notin Outside}

\* The drive is driven by one thread at a time, although the teardown takes
\* no lock: it waits for can_updater to be joined instead.
OneDriver == \A t, u \in Driving : t = u

\* The mutex keeps all of them apart but the teardowns, which run after their
\* session's running flag has fallen, or before it was set.
Teardowns == {Reader(s) : s \in {r \in Sessions : ~running[r]}}
LockedExclusive == \A t, u \in Driving \ Teardowns : t = u

\* Between two critical sections the gate agrees with the state, and behind
\* a closed gate nothing live is stored or was sent last.
ConsistentAtRest ==
  Driving = {} => /\ transmitEnabled <=> currentState = "Read2"
                  /\ ~transmitEnabled => request = "cleared" /\ bus = "cleared"

\* When do_session reports "Client disconnected, CAN commands stopped", the
\* drive is in Idle with gate and channel closed and nothing live behind.
DisconnectStops ==
  [][\A s \in Sessions :
       pc[Reader(s)] # "done" /\ pc'[Reader(s)] = "done" => Stopped']_vars

\* When every session has ended the drive is stopped.
AllGoneStopped == (\A t \in Threads : pc[t] = "done") => Stopped

\* A broken session is torn down in the end, whatever its threads were
\* waiting for.
TeardownEnds ==
  \A s \in Sessions : pc[Reader(s)] = "join" ~> pc[Reader(s)] = "done"

Gate == INSTANCE CommandGate WITH
          gate <- transmitEnabled,
          bus  <- IF bus = "live" THEN "live" ELSE "released"

\* Step by step, the threads of a session keep the contract of the gate.
ImplementsGate == Gate!Spec
=============================================================================
