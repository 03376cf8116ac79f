---------------------------- MODULE DriverProofs ----------------------------
(***************************************************************************)
(* One connection at a time: at each place in setState, update and the     *)
(* handlers, what the thread there has to know of the drive for the gate   *)
(* to close behind released commands and a teardown to leave it stopped.   *)
(***************************************************************************)
EXTENDS SessionsProofs

Quiet == request = "cleared" /\ bus = "cleared"

Rest ==
  /\ transmitEnabled <=> currentState = "Read2"
  /\ ~transmitEnabled => Quiet
  /\ ~initialized => bus = "cleared"

Stopping == {"stopTest", "stopWipe", "stopGate", "stopClose"}

Opening == {"initClose", "initClear", "initOpen", "rxClose", "rxGate", "rxOpen"}

\* In setState, from the first frame of the disabling on; elsewhere.
Place(t) ==
  /\ pc[t] \notin {"disable", "close", "gate", "store"} => Rest
  /\ pc[t] \in {"apply", "check", "write"} => transmitEnabled
  /\ pc[t] \in Opening \cup Stopping => ~transmitEnabled
  /\ pc[t] \notin {"stopClear", "stopDisable"}
  /\ pc[t] \in {"clear", "disable", "close"} => transmitEnabled /\ arg[t] # "Read2"
  /\ pc[t] = "disable" => request = "cleared" /\ (~initialized => bus = "cleared")
  /\ pc[t] = "close" => Quiet
  /\ pc[t] = "gate" =>
       /\ ~initialized => bus = "cleared"
       /\ ~transmitEnabled => Quiet
       /\ arg[t] # "Read2" => ~transmitEnabled
  /\ pc[t] = "store" =>
       /\ ~initialized => bus = "cleared"
       /\ ~transmitEnabled => Quiet
       /\ transmitEnabled <=> arg[t] = "Read2"

\* A teardown, which holds no mutex: to Stop, through handleStop, to Idle.
Teardown(t) ==
  mutex # t =>
    /\ pc[t] \in Setting \cup Stopping \cup {"update", "tail", "stopClear", "stopDisable"}
    /\ pc[t] \in Setting =>
         \/ ret[t] = "update" /\ arg[t] = "Stop"
         \/ ret[t] = "tail" /\ arg[t] = "Idle" /\ ~initialized
    /\ pc[t] \in Stopping \cup {"update"} => currentState = "Stop"
    /\ pc[t] = "tail" => currentState = "Idle" /\ ~initialized

DriveInv ==
  /\ \A t \in Driving : Place(t) /\ Teardown(t)
  /\ Driving = {} => Rest

-----------------------------------------------------------------------------

\* What a step of the driver keeps: its place, the rest it leaves behind, the
\* contract of the gate, and that a teardown ends stopped.
Bus == IF bus = "live" THEN "live" ELSE "released"

Good(t) ==
  /\ pc'[t] \notin Outside => Place(t)' /\ Teardown(t)'
  /\ pc'[t] \in Outside => Rest'
  /\ pc'[t] = "done" => Stopped'

Contract == [Gate!Next]_<<transmitEnabled, Bus>>

\* A step of setState keeps to its place and to the contract of the gate.
LEMMA SetStateGood ==
  ASSUME IInv, NEW t \in Workers, pc[t] \notin Outside, Place(t), Teardown(t), setState(t)
  PROVE  Good(t) /\ Contract
<1>1. /\ t \in Threads /\ pc \in [Threads -> Labels] /\ ret \in [Threads -> Labels]
      /\ arg \in [Threads -> Arguments]
      /\ pc[t] \in Setting => ret[t] \in {"tail", "update"} \/ (ret[t] = "unlock" /\ mutex = t)
      /\ transmitEnabled \in BOOLEAN /\ initialized \in BOOLEAN
  BY Names DEF IInv, Types, TypeOK, Holding
<1>2. CASE SetTest(t)
  <2>1. Good(t)
    BY <1>1, <1>2, SMT DEF SetTest, Local, NoData, drive, At, Goto, Good, Place, Teardown, Rest,
       Quiet,
       Stopped, Stopping, Opening, Setting, Outside
  <2>2. Contract
    BY <1>1, <1>2, SMT DEF SetTest, Local, NoData, drive, At, Contract, Bus, Place, Rest, Quiet,
       Opening,
       Stopping, Gate!Next, Gate!Open, Gate!Transmit, Gate!Close
  <2> QED
    BY <2>1, <2>2
<1>3. CASE ClearRequest(t, "clear", "disable")
  <2>1. Good(t)
    BY <1>1, <1>3, SMT DEF ClearRequest, Local, At, Goto, Good, Place, Teardown, Rest, Quiet,
       Stopped, Stopping, Opening, Setting, Outside
  <2>2. Contract
    BY <1>1, <1>3, SMT DEF ClearRequest, Local, At, Contract, Bus, Place, Rest, Quiet, Opening,
       Stopping, Gate!Next, Gate!Open, Gate!Transmit, Gate!Close
  <2> QED
    BY <2>1, <2>2
<1>4. CASE SendDisable(t, "disable", "close")
  <2>1. Good(t)
    BY <1>1, <1>4, SMT DEF SendDisable, Local, At, Goto, Good, Place, Teardown, Rest, Quiet,
       Stopped, Stopping, Opening, Setting, Outside
  <2>2. Contract
    BY <1>1, <1>4, SMT DEF SendDisable, Local, At, Contract, Bus, Place, Rest, Quiet, Opening,
       Stopping, Gate!Next, Gate!Open, Gate!Transmit, Gate!Close
  <2> QED
    BY <2>1, <2>2
<1>5. CASE GateOff(t, "close", "gate")
  <2>1. Good(t)
    BY <1>1, <1>5, SMT DEF GateOff, Local, At, Goto, Good, Place, Teardown, Rest, Quiet,
       Stopped, Stopping, Opening, Setting, Outside
  <2>2. Contract
    <3>1. transmitEnabled = TRUE /\ Quiet
      BY <1>1, <1>5, SMT DEF GateOff, At, Place
    <3>2. transmitEnabled' = FALSE /\ bus' = bus
      BY <1>5, Zenon DEF GateOff
    <3> QED
      BY <3>1, <3>2, Zenon DEF Contract, Bus, Quiet, Gate!Next, Gate!Close
  <2> QED
    BY <2>1, <2>2
<1>6. CASE SetGate(t)
  <2>1. Good(t)
    <3>0. transmitEnabled' <=> arg[t] = "Read2"
      BY <1>6, Zenon DEF SetGate
    <3>1. /\ pc[t] = "gate" /\ pc'[t] = "store"
          /\ UNCHANGED <<mutex, ret, arg, initialized, currentState, request, bus>>
      BY <1>1, <1>6, SMT DEF SetGate, At, Goto, Local
    <3>2. /\ ~initialized => bus = "cleared"
          /\ arg[t] # "Read2" => Quiet
      BY <1>1, <3>1, SMT DEF Place
    <3>3. Place(t)'
      BY <3>0, <3>1, <3>2, SMT DEF Place, Quiet, Opening, Stopping
    <3>4. Teardown(t)'
      BY <3>1, SMT DEF Teardown, Setting, Stopping
    <3> QED
      BY <3>1, <3>3, <3>4, SMT DEF Good, Outside
  <2>2. Contract
    <3>1. /\ pc[t] = "gate" /\ transmitEnabled' = (arg[t] = "Read2")
          /\ bus' = bus
      BY <1>6, Zenon DEF SetGate, At
    <3>2. CASE arg[t] = "Read2"
      <4>1. transmitEnabled' = TRUE
        BY <3>1, <3>2, Zenon
      <4>2. transmitEnabled = TRUE \/ transmitEnabled = FALSE
        BY <1>1, Zenon
      <4> QED
        BY <3>1, <4>1, <4>2, Zenon DEF Contract, Bus, Gate!Next, Gate!Open
    <3>3. CASE arg[t] # "Read2"
      <4>1. transmitEnabled' = FALSE
        BY <3>1, <3>3, Zenon
      <4>2. transmitEnabled = FALSE
        BY <1>1, <3>1, <3>3, SMT DEF Place
      <4> QED
        BY <3>1, <4>1, <4>2, Zenon DEF Contract, Bus
    <3> QED
      BY <3>2, <3>3
  <2> QED
    BY <2>1, <2>2
<1>7. CASE SetStore(t)
  <2>1. Good(t)
    BY <1>1, <1>7, SMT DEF SetStore, Local, At, Goto, Good, Place, Teardown, Rest, Quiet,
       Stopped, Stopping, Opening, Setting, Outside
  <2>2. Contract
    BY <1>1, <1>7, SMT DEF SetStore, Local, At, Contract, Bus, Place, Rest, Quiet, Opening,
       Stopping, Gate!Next, Gate!Open, Gate!Transmit, Gate!Close
  <2> QED
    BY <2>1, <2>2
<1> QED
  BY <1>2, <1>3, <1>4, <1>5, <1>6, <1>7 DEF setState

\* So does a step of update().
LEMMA UpdateGood ==
  ASSUME IInv, NEW t \in Workers, pc[t] \notin Outside, Place(t), Teardown(t), update(t)
  PROVE  Good(t) /\ Contract
<1>1. /\ t \in Threads /\ pc \in [Threads -> Labels] /\ ret \in [Threads -> Labels]
      /\ arg \in [Threads -> Arguments]
      /\ transmitEnabled \in BOOLEAN /\ initialized \in BOOLEAN
  BY Names DEF IInv, Types, TypeOK
<1>2. CASE Switch(t)
  <2>1. Good(t)
    BY <1>1, <1>2, SMT DEF Switch, Call, Local, NoData, drive, At, Goto, Good, Place, Teardown,
       Rest, Quiet,
       Stopped, Stopping, Opening, Setting, Outside
  <2>2. Contract
    BY <1>1, <1>2, SMT DEF Switch, Call, Local, NoData, drive, At, Contract, Bus, Place, Rest,
       Quiet, Opening,
       Stopping, Gate!Next, Gate!Open, Gate!Transmit, Gate!Close
  <2> QED
    BY <2>1, <2>2
<1>3. CASE CloseChannel(t, "initClose", "initClear")
  <2>1. Good(t)
    BY <1>1, <1>3, SMT DEF CloseChannel, Local, At, Goto, Good, Place, Teardown, Rest, Quiet,
       Stopped, Stopping, Opening, Setting, Outside
  <2>2. Contract
    BY <1>1, <1>3, SMT DEF CloseChannel, Local, At, Contract, Bus, Place, Rest, Quiet, Opening,
       Stopping, Gate!Next, Gate!Open, Gate!Transmit, Gate!Close
  <2> QED
    BY <2>1, <2>2
<1>4. CASE ClearRequest(t, "initClear", "initOpen")
  <2>1. Good(t)
    BY <1>1, <1>4, SMT DEF ClearRequest, Local, At, Goto, Good, Place, Teardown, Rest, Quiet,
       Stopped, Stopping, Opening, Setting, Outside
  <2>2. Contract
    BY <1>1, <1>4, SMT DEF ClearRequest, Local, At, Contract, Bus, Place, Rest, Quiet, Opening,
       Stopping, Gate!Next, Gate!Open, Gate!Transmit, Gate!Close
  <2> QED
    BY <2>1, <2>2
<1>5. CASE OpenChannel(t, "initOpen", "Read2")
  <2>1. Good(t)
    BY <1>1, <1>5, SMT DEF OpenChannel, Call, At, Goto, Good, Place, Teardown, Rest, Quiet,
       Stopped, Stopping, Opening, Setting, Outside
  <2>2. Contract
    BY <1>1, <1>5, SMT DEF OpenChannel, Call, At, Contract, Bus, Place, Rest, Quiet, Opening,
       Stopping, Gate!Next, Gate!Open, Gate!Transmit, Gate!Close
  <2> QED
    BY <2>1, <2>2
<1>6. CASE CloseChannel(t, "rxClose", "rxGate")
  <2>1. Good(t)
    BY <1>1, <1>6, SMT DEF CloseChannel, Local, At, Goto, Good, Place, Teardown, Rest, Quiet,
       Stopped, Stopping, Opening, Setting, Outside
  <2>2. Contract
    BY <1>1, <1>6, SMT DEF CloseChannel, Local, At, Contract, Bus, Place, Rest, Quiet, Opening,
       Stopping, Gate!Next, Gate!Open, Gate!Transmit, Gate!Close
  <2> QED
    BY <2>1, <2>2
<1>7. CASE GateOff(t, "rxGate", "rxOpen")
  <2>1. Good(t)
    BY <1>1, <1>7, SMT DEF GateOff, Local, At, Goto, Good, Place, Teardown, Rest, Quiet,
       Stopped, Stopping, Opening, Setting, Outside
  <2>2. Contract
    <3>1. transmitEnabled = FALSE
      BY <1>1, <1>7, SMT DEF GateOff, At, Place, Opening, Stopping
    <3>2. transmitEnabled' = FALSE /\ bus' = bus
      BY <1>7, Zenon DEF GateOff
    <3> QED
      BY <3>1, <3>2, Zenon DEF Contract, Bus
  <2> QED
    BY <2>1, <2>2
<1>8. CASE OpenChannel(t, "rxOpen", "ResolverRx")
  <2>1. Good(t)
    BY <1>1, <1>8, SMT DEF OpenChannel, Call, At, Goto, Good, Place, Teardown, Rest, Quiet,
       Stopped, Stopping, Opening, Setting, Outside
  <2>2. Contract
    BY <1>1, <1>8, SMT DEF OpenChannel, Call, At, Contract, Bus, Place, Rest, Quiet, Opening,
       Stopping, Gate!Next, Gate!Open, Gate!Transmit, Gate!Close
  <2> QED
    BY <2>1, <2>2
<1>9. CASE StopTest(t)
  <2>1. Good(t)
    BY <1>1, <1>9, SMT DEF StopTest, Local, NoData, drive, At, Goto, Good, Place, Teardown,
       Rest, Quiet,
       Stopped, Stopping, Opening, Setting, Outside
  <2>2. Contract
    BY <1>1, <1>9, SMT DEF StopTest, Local, NoData, drive, At, Contract, Bus, Place, Rest,
       Quiet, Opening,
       Stopping, Gate!Next, Gate!Open, Gate!Transmit, Gate!Close
  <2> QED
    BY <2>1, <2>2
<1>10. CASE StopWipe(t)
  <2>1. Good(t)
    BY <1>1, <1>10, SMT DEF StopWipe, Local, At, Goto, Good, Place, Teardown, Rest, Quiet,
       Stopped, Stopping, Opening, Setting, Outside
  <2>2. Contract
    BY <1>1, <1>10, SMT DEF StopWipe, Local, At, Contract, Bus, Place, Rest, Quiet, Opening,
       Stopping, Gate!Next, Gate!Open, Gate!Transmit, Gate!Close
  <2> QED
    BY <2>1, <2>2
<1>11. CASE ClearRequest(t, "stopClear", "stopDisable")
  <2>1. Good(t)
    BY <1>1, <1>11, SMT DEF ClearRequest, Local, At, Goto, Good, Place, Teardown, Rest, Quiet,
       Stopped, Stopping, Opening, Setting, Outside
  <2>2. Contract
    BY <1>1, <1>11, SMT DEF ClearRequest, Local, At, Contract, Bus, Place, Rest, Quiet, Opening,
       Stopping, Gate!Next, Gate!Open, Gate!Transmit, Gate!Close
  <2> QED
    BY <2>1, <2>2
<1>12. CASE SendDisable(t, "stopDisable", "stopGate")
  <2>1. Good(t)
    BY <1>1, <1>12, SMT DEF SendDisable, Local, At, Goto, Good, Place, Teardown, Rest, Quiet,
       Stopped, Stopping, Opening, Setting, Outside
  <2>2. Contract
    BY <1>1, <1>12, SMT DEF SendDisable, Local, At, Contract, Bus, Place, Rest, Quiet, Opening,
       Stopping, Gate!Next, Gate!Open, Gate!Transmit, Gate!Close
  <2> QED
    BY <2>1, <2>2
<1>13. CASE GateOff(t, "stopGate", "stopClose")
  <2>1. Good(t)
    BY <1>1, <1>13, SMT DEF GateOff, Local, At, Goto, Good, Place, Teardown, Rest, Quiet,
       Stopped, Stopping, Opening, Setting, Outside
  <2>2. Contract
    <3>1. transmitEnabled = FALSE
      BY <1>1, <1>13, SMT DEF GateOff, At, Place, Opening, Stopping
    <3>2. transmitEnabled' = FALSE /\ bus' = bus
      BY <1>13, Zenon DEF GateOff
    <3> QED
      BY <3>1, <3>2, Zenon DEF Contract, Bus
  <2> QED
    BY <2>1, <2>2
<1>14. CASE StopClose(t)
  <2>1. Good(t)
    BY <1>1, <1>14, SMT DEF StopClose, Call, At, Goto, Good, Place, Teardown, Rest, Quiet,
       Stopped, Stopping, Opening, Setting, Outside
  <2>2. Contract
    BY <1>1, <1>14, SMT DEF StopClose, Call, At, Contract, Bus, Place, Rest, Quiet, Opening,
       Stopping, Gate!Next, Gate!Open, Gate!Transmit, Gate!Close
  <2> QED
    BY <2>1, <2>2
<1>15. CASE Tail(t)
  <2>1. Good(t)
    BY <1>1, <1>15, SMT DEF Tail, After, NoData, drive, At, Goto, Good, Place, Teardown, Rest,
       Quiet,
       Stopped, Stopping, Opening, Setting, Outside
  <2>2. Contract
    BY <1>1, <1>15, SMT DEF Tail, After, NoData, drive, At, Contract, Bus, Place, Rest, Quiet,
       Opening,
       Stopping, Gate!Next, Gate!Open, Gate!Transmit, Gate!Close
  <2> QED
    BY <2>1, <2>2
<1>16. CASE Check(t)
  <2>1. Good(t)
    BY <1>1, <1>16, SMT DEF Check, After, NoData, drive, At, Goto, Good, Place, Teardown, Rest,
       Quiet,
       Stopped, Stopping, Opening, Setting, Outside
  <2>2. Contract
    BY <1>1, <1>16, SMT DEF Check, After, NoData, drive, At, Contract, Bus, Place, Rest, Quiet,
       Opening,
       Stopping, Gate!Next, Gate!Open, Gate!Transmit, Gate!Close
  <2> QED
    BY <2>1, <2>2
<1>17. CASE WriteFrame(t)
  <2>1. Good(t)
    BY <1>1, <1>17, SMT DEF WriteFrame, After, At, Goto, Good, Place, Teardown, Rest, Quiet,
       Stopped, Stopping, Opening, Setting, Outside
  <2>2. Contract
    BY <1>1, <1>17, SMT DEF WriteFrame, After, At, Contract, Bus, Place, Rest, Quiet, Opening,
       Stopping, Gate!Next, Gate!Open, Gate!Transmit, Gate!Close
  <2> QED
    BY <2>1, <2>2
<1> QED
  BY <1>2, <1>3, <1>4, <1>5, <1>6, <1>7, <1>8, <1>9, <1>10, <1>11,
     <1>12, <1>13, <1>14, <1>15, <1>16, <1>17 DEF update

-----------------------------------------------------------------------------

\* A handler, under the mutex.
LEMMA HandlerGood ==
  ASSUME IInv, NEW s \in Sessions, Place(Reader(s)), Teardown(Reader(s)),
         Handle(s) \/ Apply(s)
  PROVE  /\ Good(Reader(s)) /\ Contract /\ pc[Reader(s)] \notin Outside
         /\ \A u \in Workers \ {Reader(s)} : pc'[u] = pc[u]
<1> DEFINE t == Reader(s)
<1>1. /\ t \in Workers /\ t \in Threads /\ \A u \in Workers : u \in Threads
      /\ pc \in [Threads -> Labels] /\ ret \in [Threads -> Labels]
      /\ arg \in [Threads -> Arguments]
      /\ transmitEnabled \in BOOLEAN /\ initialized \in BOOLEAN
      /\ pc[t] \in {"handler", "apply"} => mutex = t
  BY Names DEF IInv, Types, TypeOK, Holding
<1> HIDE DEF t
<1>2. CASE Handle(s)
  <2>1. /\ pc[t] = "handler" /\ UNCHANGED <<mutex, running, frame>> /\ drive' = drive
        /\ \/ /\ pc' = [pc EXCEPT ![t] = "test"]
           \/ pc' = [pc EXCEPT ![t] = "apply"] /\ transmitEnabled
           \/ pc' = [pc EXCEPT ![t] = "unlock"]
    BY <1>2 DEF Handle, At, Goto, Call, NoData, t
  <2>2. Good(t)
    <3>1. /\ pc'[t] \in {"test", "apply", "unlock"} /\ mutex' = t
          /\ pc'[t] = "apply" => transmitEnabled'
      BY <1>1, <2>1, SMT DEF drive
    <3>2. Rest'
      BY <2>1 DEF t, Place, Rest, Quiet, drive
    <3>3. Place(t)'
      BY <3>1, <3>2, SMT DEF Place, Opening, Stopping
    <3> QED
      BY <3>1, <3>3, SMT DEF Good, Teardown, Outside
  <2>3. Contract
    BY <2>1 DEF drive, Contract, Bus
  <2> QED
    BY <1>1, <2>1, <2>2, <2>3, SMT DEF t, Outside
<1>3. CASE Apply(s)
  <2>1. /\ pc[t] = "apply" /\ pc' = [pc EXCEPT ![t] = "check"]
        /\ UNCHANGED <<mutex, running, currentState, transmitEnabled, initialized, bus>>
    BY <1>3 DEF Apply, At, Goto, t
  <2>2. Good(t)
    <3>1. /\ pc'[t] = "check" /\ mutex' = t
          /\ transmitEnabled' = transmitEnabled
      BY <1>1, <2>1, SMT
    <3>2. transmitEnabled /\ Rest
      BY <2>1 DEF t, Place
    <3>3. Rest'
      BY <2>1, <3>2 DEF Rest
    <3>4. Place(t)'
      BY <3>1, <3>2, <3>3, SMT DEF Place, Opening, Stopping
    <3> QED
      BY <3>1, <3>4, SMT DEF Good, Teardown, Outside
  <2>3. Contract
    BY <2>1 DEF Contract, Bus
  <2> QED
    BY <1>1, <2>1, <2>2, <2>3, SMT DEF t, Outside
<1> QED
  BY <1>2, <1>3

\* A worker that leaves: what it rested on, it leaves behind.
LEMMA UnlockGood ==
  ASSUME IInv, NEW t \in Workers, Place(t), Unlock(t)
  PROVE  /\ Good(t) /\ Contract /\ pc[t] \notin Outside
         /\ \A u \in Workers \ {t} : pc'[u] = pc[u]
<1>1. /\ t \in Threads /\ \A u \in Workers : u \in Threads
      /\ pc \in [Threads -> Labels]
  BY Names DEF IInv, Types, TypeOK
<1>2. /\ pc[t] = "unlock" /\ drive' = drive
      /\ \/ pc' = [pc EXCEPT ![t] = "loop"]
         \/ pc' = [pc EXCEPT ![t] = "read"]
  BY DEF Unlock, At, Goto, NoData
<1>3. Good(t)
  BY <1>1, <1>2, SMT DEF drive, Good, Place, Rest, Quiet, Outside
<1>4. Contract
  BY <1>2 DEF drive, Contract, Bus
<1> QED
  BY <1>1, <1>2, <1>3, <1>4, SMT DEF Outside

\* setState and update move their thread only.
LEMMA OthersWait ==
  ASSUME IInv, NEW t \in Workers, setState(t) \/ update(t)
  PROVE  /\ pc[t] \notin Outside
         /\ \A u \in Workers \ {t} : pc'[u] = pc[u]
<1>1. t \in Threads /\ pc \in [Threads -> Labels] /\ \A u \in Workers : u \in Threads
  BY Names DEF IInv, Types, TypeOK
<1>2. PICK l : pc' = [pc EXCEPT ![t] = l]
  BY DEF setState, SetTest, ClearRequest, SendDisable, GateOff, SetGate, SetStore,
     update, Switch, CloseChannel, OpenChannel, StopTest, StopWipe, StopClose, Tail, Check,
     WriteFrame, Goto, Call
<1>3. pc[t] \notin Outside
  BY SMT DEF setState, SetTest, ClearRequest, SendDisable, GateOff, SetGate, SetStore,
     update, Switch, CloseChannel, OpenChannel, StopTest, StopWipe, StopClose, Tail, Check,
     WriteFrame, At, Outside
<1> QED
  BY <1>1, <1>2, <1>3

-----------------------------------------------------------------------------

\* The driver moves on; there is no other.
LEMMA DriverMoves ==
  ASSUME \A s, r \in Sessions : s = r, IInv, DriveInv,
         NEW t \in Workers, pc[t] \notin Outside,
         \A u \in Workers \ {t} : pc'[u] = pc[u], Good(t)
  PROVE  DriveInv'
<1>1. \A u \in Workers : u # t => pc[u] \in Outside
  BY OneDriverSuffices DEF OneDriver, Driving
<1>2. \A u \in Workers : u # t => pc'[u] \in Outside
  BY <1>1
<1>3. ASSUME NEW u \in Driving'
      PROVE  Place(u)' /\ Teardown(u)'
  <2>1. u = t /\ pc'[t] \notin Outside
    BY <1>2, <1>3 DEF Driving
  <2> QED
    BY <2>1 DEF Good
<1>4. ASSUME Driving' = {}
      PROVE  Rest'
  <2>1. pc'[t] \in Outside
    BY <1>4 DEF Driving
  <2> QED
    BY <2>1 DEF Good
<1> QED
  BY <1>3, <1>4 DEF DriveInv

\* A thread begins to drive; nobody did.
LEMMA DriverEnters ==
  ASSUME \A s, r \in Sessions : s = r, IInv', DriveInv, drive' = drive,
         NEW t \in Workers, pc[t] \in Outside, pc'[t] \in {"handler", "update", "test"},
         \A u \in Workers \ {t} : pc'[u] = pc[u], Teardown(t)'
  PROVE  DriveInv'
<1>1. OneDriver'
  BY OneDriverSuffices, PTL
<1>2. \A u \in Workers : u # t => pc'[u] \in Outside
  BY <1>1, SMT DEF OneDriver, Driving, Outside
<1>3. Driving = {}
  BY <1>2 DEF Driving
<1>4. Rest'
  BY <1>3 DEF DriveInv, Rest, Quiet, drive
<1>5. Place(t)'
  BY <1>4, SMT DEF Place, Opening, Stopping
<1>6. ASSUME NEW u \in Driving'
      PROVE  u = t
  BY <1>2, <1>6 DEF Driving
<1> QED
  BY <1>4, <1>5, <1>6 DEF DriveInv

\* Nobody drives who did not, and the drive rests.
LEMMA DriverRests ==
  ASSUME DriveInv, drive' = drive, mutex' = mutex,
         \A u \in Workers :
            \/ pc[u] \in Outside /\ pc'[u] \in Outside
            \/ pc'[u] = pc[u] /\ ret'[u] = ret[u] /\ arg'[u] = arg[u]
  PROVE  DriveInv'
<1>1. Driving' = Driving
  BY DEF Driving
<1>2. Rest' <=> Rest
  BY DEF Rest, Quiet, drive
<1>3. ASSUME NEW u \in Driving
      PROVE  Place(u)' /\ Teardown(u)'
  <2>1. pc'[u] = pc[u] /\ ret'[u] = ret[u] /\ arg'[u] = arg[u]
    BY <1>3 DEF Driving
  <2>2. Place(u) /\ Teardown(u)
    BY <1>3 DEF DriveInv
  <2>3. Place(u)'
    BY <2>1, <2>2 DEF Place, Rest, Quiet, drive
  <2>4. Teardown(u)'
    BY <2>1, <2>2 DEF Teardown, drive
  <2> QED
    BY <2>3, <2>4
<1> QED
  BY <1>1, <1>2, <1>3 DEF DriveInv
-----------------------------------------------------------------------------

EndsStopped ==
  \A s \in Sessions : pc[Reader(s)] # "done" /\ pc'[Reader(s)] = "done" => Stopped'

\* A thread that is well placed keeps the invariant of the drive.
LEMMA WorkerKeeps ==
  ASSUME \A s, r \in Sessions : s = r, IInv, DriveInv,
         NEW t \in Workers, pc[t] \notin Outside,
         \A u \in Workers \ {t} : pc'[u] = pc[u], Good(t), Contract
  PROVE  DriveInv' /\ Contract /\ EndsStopped
<1>1. DriveInv'
  BY DriverMoves
<1>2. ASSUME NEW s \in Sessions, pc[Reader(s)] # "done", pc'[Reader(s)] = "done"
      PROVE  Stopped'
  <2>1. Reader(s) = t
    BY <1>2, Names
  <2> QED
    BY <1>2, <2>1 DEF Good
<1> QED
  BY <1>1, <1>2 DEF EndsStopped

\* Steps that leave the drive alone.
LEMMA StillKeeps ==
  ASSUME DriveInv', drive' = drive,
         \A s \in Sessions : pc'[Reader(s)] = "done" => pc[Reader(s)] = "done"
  PROVE  DriveInv' /\ Contract /\ EndsStopped
BY DEF drive, Contract, Bus, EndsStopped

\* The steps under the mutex,
LEMMA WorkerStep ==
  ASSUME \A s, r \in Sessions : s = r, IInv, DriveInv,
         NEW t \in Workers, setState(t) \/ update(t) \/ Unlock(t)
  PROVE  DriveInv' /\ Contract /\ EndsStopped
<1>1. pc[t] \notin Outside
  BY OthersWait, SMT DEF Unlock, At, Outside
<1>2. Place(t) /\ Teardown(t)
  BY <1>1 DEF DriveInv, Driving
<1>3. Good(t) /\ Contract /\ \A u \in Workers \ {t} : pc'[u] = pc[u]
  <2>1. CASE setState(t)
    BY <1>1, <1>2, <2>1, SetStateGood, OthersWait
  <2>2. CASE update(t)
    BY <1>1, <1>2, <2>2, UpdateGood, OthersWait
  <2>3. CASE Unlock(t)
    BY <1>2, <2>3, UnlockGood
  <2> QED
    BY <2>1, <2>2, <2>3
<1> QED
  BY <1>1, <1>3, WorkerKeeps

\* taking it,
LEMMA LockStep ==
  ASSUME \A s, r \in Sessions : s = r, IInv, IInv', DriveInv,
         NEW t \in Workers, Lock(t, "lock", "handler") \/ Lock(t, "lock", "update")
  PROVE  DriveInv' /\ Contract /\ EndsStopped
<1>1. /\ t \in Threads /\ pc \in [Threads -> Labels]
      /\ \A u \in Workers : u \in Threads
  BY Names DEF IInv, Types, TypeOK
<1>2. PICK l \in {"handler", "update"} : Lock(t, "lock", l)
  OBVIOUS
<1>3. /\ pc[t] = "lock" /\ mutex' = t /\ drive' = drive
      /\ pc' = [pc EXCEPT ![t] = l]
  BY <1>2 DEF Lock, At, Goto, NoData
<1>4. /\ pc'[t] = l /\ \A u \in Workers \ {t} : pc'[u] = pc[u]
      /\ pc[t] \in Outside
  BY <1>1, <1>3, SMT DEF Outside
<1>5. DriveInv'
  <2>1. pc'[t] \in {"handler", "update", "test"} /\ Teardown(t)'
    BY <1>2, <1>3, <1>4 DEF Teardown
  <2> QED
    BY <1>3, <1>4, <2>1, DriverEnters
<1>6. ASSUME NEW s \in Sessions, pc'[Reader(s)] = "done"
      PROVE  pc[Reader(s)] = "done"
  BY <1>2, <1>4, <1>6, Names
<1> QED
  BY <1>3, <1>5, <1>6, StillKeeps

\* A reader begins its teardown.
LEMMA TeardownStep ==
  ASSUME \A s, r \in Sessions : s = r, IInv, IInv', DriveInv,
         NEW s \in Sessions, Refuse(s) \/ Join(s)
  PROVE  DriveInv' /\ Contract /\ EndsStopped
<1> DEFINE t == Reader(s)
<1>1. /\ t \in Workers /\ t \in Threads /\ \A u \in Workers : u \in Threads
      /\ pc \in [Threads -> Labels] /\ ret \in [Threads -> Labels]
      /\ arg \in [Threads -> Arguments]
  BY Names DEF IInv, Types, TypeOK
<1> HIDE DEF t
<1>2. /\ pc[t] \in {"accept", "join"} /\ drive' = drive
      /\ pc' = [pc EXCEPT ![t] = "test"]
      /\ arg' = [arg EXCEPT ![t] = "Stop"] /\ ret' = [ret EXCEPT ![t] = "update"]
  BY DEF Refuse, Join, At, Goto, Call, NoData, t
<1>3. /\ pc[t] \in Outside /\ pc'[t] = "test" /\ ret'[t] = "update" /\ arg'[t] = "Stop"
      /\ \A u \in Workers \ {t} : pc'[u] = pc[u]
  BY <1>1, <1>2, SMT DEF Outside
<1>4. DriveInv'
  <2>1. pc'[t] \in {"handler", "update", "test"} /\ Teardown(t)'
    BY <1>3, SMT DEF Teardown, Setting, Stopping
  <2> QED
    BY <1>1, <1>2, <1>3, <2>1, DriverEnters
<1>5. ASSUME NEW r \in Sessions, pc'[Reader(r)] = "done"
      PROVE  pc[Reader(r)] = "done"
  BY <1>3, <1>5, Names
<1> QED
  BY <1>2, <1>4, <1>5, StillKeeps

\* What happens outside the critical sections.
LEMMA OutsideStep ==
  ASSUME IInv, DriveInv, NEW s \in Sessions,
         Connect(s) \/ Accept(s) \/ Read(s) \/ ReadError(s)
           \/ Exit(s, Can(s)) \/ Loop(s) \/ updater(s)
  PROVE  DriveInv' /\ Contract /\ EndsStopped
<1>1. /\ pc \in [Threads -> Labels] /\ arg \in [Threads -> Arguments]
      /\ Reader(s) \in Workers /\ Can(s) \in Workers /\ Reader(s) # Can(s)
      /\ Reader(s) \in Threads /\ Can(s) \in Threads /\ Json(s) \in Threads
      /\ \A u \in Workers : u \in Threads /\ u # Json(s)
  BY Names DEF IInv, Types, TypeOK
<1>2. drive' = drive /\ mutex' = mutex /\ ret' = ret
  BY DEF Connect, Accept, Read, ReadError, Exit, Loop, updater, Serialize, JsonWrite,
     Local, NoData
<1>3. /\ \A u \in Workers :
            \/ pc[u] \in Outside /\ pc'[u] \in Outside
            \/ pc'[u] = pc[u] /\ arg'[u] = arg[u]
      /\ \A u \in Workers : pc'[u] = "done" => pc[u] = "done" \/ u = Can(s)
  <2>1. CASE Connect(s)
    BY <1>1, <2>1, SMT DEF Connect, At, Goto, Local, Outside
  <2>2. CASE Accept(s)
    <3>1. /\ pc[Reader(s)] = "accept" /\ arg' = arg
          /\ pc' = [pc EXCEPT ![Reader(s)] = "read", ![Can(s)] = "loop", ![Json(s)] = "loop"]
      BY <2>2 DEF Accept, At
    <3>2. ~ running[s]
      BY <3>1 DEF IInv, Ended
    <3>3. pc[Can(s)] = "done"
      BY <3>1, <3>2, SMT DEF IInv, Ended
    <3> QED
      BY <1>1, <3>1, <3>3, SMT DEF Outside
  <2>3. CASE Read(s)
    <3>1. PICK c : /\ pc[Reader(s)] = "read" /\ pc' = [pc EXCEPT ![Reader(s)] = "lock"]
                   /\ arg' = [arg EXCEPT ![Reader(s)] = c]
      BY <2>3 DEF Read, At, Goto
    <3> QED
      BY <1>1, <3>1, SMT DEF Outside
  <2>4. CASE ReadError(s)
    BY <1>1, <2>4, SMT DEF ReadError, At, Goto, Outside
  <2>5. CASE Exit(s, Can(s)) \/ Loop(s)
    BY <1>1, <2>5, SMT DEF Exit, Loop, At, Goto, Local, Outside
  <2>6. CASE updater(s)
    <3>1. PICK l : pc' = [pc EXCEPT ![Json(s)] = l]
      BY <2>6 DEF updater, Exit, Serialize, JsonWrite, Goto
    <3>2. arg' = arg
      BY <2>6 DEF updater, Exit, Serialize, JsonWrite, Local
    <3> QED
      BY <1>1, <3>1, <3>2
  <2> QED
    BY <2>1, <2>2, <2>3, <2>4, <2>5, <2>6
<1>4. DriveInv'
  BY <1>2, <1>3, DriverRests
<1>5. ASSUME NEW r \in Sessions, pc'[Reader(r)] = "done"
      PROVE  pc[Reader(r)] = "done"
  BY <1>3, <1>5, Names
<1> QED
  BY <1>2, <1>4, <1>5, StillKeeps

\* and all the others keep the invariant, and what a step may do to the drive.
LEMMA DriveStep ==
  ASSUME \A s, r \in Sessions : s = r, IInv, IInv', DriveInv, [Next]_vars
  PROVE  DriveInv' /\ Contract /\ [EndsStopped]_vars
<1>1. CASE UNCHANGED vars
  <2>1. Driving' = Driving /\ (Rest' <=> Rest)
    BY <1>1 DEF vars, drive, Driving, Rest, Quiet
  <2>2. \A t \in Driving : (Place(t)' <=> Place(t)) /\ (Teardown(t)' <=> Teardown(t))
    BY <1>1 DEF vars, drive, Place, Teardown, Rest, Quiet
  <2>3. DriveInv'
    BY <2>1, <2>2 DEF DriveInv
  <2> QED
    BY <1>1, <2>3 DEF vars, drive, Contract, Bus
<1>2. ASSUME NEW s \in Sessions,
             Connect(s) \/ Read(s) \/ ReadError(s)
               \/ reader(s) \/ can_updater(s) \/ updater(s)
      PROVE  DriveInv' /\ Contract /\ EndsStopped
  <2>1. Reader(s) \in Workers /\ Can(s) \in Workers
    BY Names
  <2>2. CASE \/ setState(Reader(s)) \/ update(Reader(s)) \/ Unlock(Reader(s))
             \/ setState(Can(s)) \/ update(Can(s)) \/ Unlock(Can(s))
    BY <2>1, <2>2, WorkerStep
  <2>3. CASE Lock(Reader(s), "lock", "handler") \/ Lock(Can(s), "lock", "update")
    BY <2>1, <2>3, LockStep
  <2>4. CASE Refuse(s) \/ Join(s)
    BY <2>4, TeardownStep
  <2>5. CASE \/ Connect(s) \/ Accept(s) \/ Read(s) \/ ReadError(s)
             \/ Exit(s, Can(s)) \/ Loop(s) \/ updater(s)
    BY <2>5, OutsideStep
  <2>6. CASE Handle(s) \/ Apply(s)
    <3>1. pc[Reader(s)] \notin Outside
      BY <2>6, SMT DEF Handle, Apply, At, Outside
    <3>2. Place(Reader(s)) /\ Teardown(Reader(s))
      BY <2>1, <3>1 DEF DriveInv, Driving
    <3> QED
      BY <2>1, <2>6, <3>2, HandlerGood, WorkerKeeps
  <2> QED
    BY <1>2, <2>2, <2>3, <2>4, <2>5, <2>6 DEF reader, can_updater
<1> QED
  BY <1>1, <1>2 DEF Next

\* The drive is off at the start.
LEMMA InitDrive == Init => DriveInv
<1> SUFFICES ASSUME Init PROVE DriveInv
  OBVIOUS
<1>1. \A t \in Workers : t \in Threads
  BY Names
<1>2. Driving = {}
  BY <1>1, SMT DEF Init, Driving, Outside
<1>3. Rest
  BY SMT DEF Init, Rest, Quiet
<1> QED
  BY <1>2, <1>3 DEF DriveInv

-----------------------------------------------------------------------------

\* Whenever no thread is in a critical section or a teardown, the gate agrees
\* with the state, and behind a closed gate nothing live is stored or was sent
\* last: one connection at a time.
THEOREM ConsistentCorrect ==
  ASSUME \A s, r \in Sessions : s = r
  PROVE  Spec => []ConsistentAtRest
<1>1. Init => DriveInv
  BY InitDrive
<1>2. IInv /\ IInv' /\ DriveInv /\ [Next]_vars => DriveInv'
  BY DriveStep
<1>3. DriveInv => ConsistentAtRest
  BY DEF DriveInv, Rest, Quiet, ConsistentAtRest
<1> QED
  BY <1>1, <1>2, <1>3, InvariantHolds, PTL DEF Spec

\* Every session ends with the drive in Idle, gate and channel closed and
\* nothing live behind, one connection at a time.
THEOREM DisconnectCorrect ==
  ASSUME \A s, r \in Sessions : s = r
  PROVE  Spec => DisconnectStops
<1>1. Init => DriveInv
  BY InitDrive
<1>2. IInv /\ IInv' /\ DriveInv /\ [Next]_vars => DriveInv'
  BY DriveStep
<1>3. IInv /\ IInv' /\ DriveInv /\ [Next]_vars =>
        [\A s \in Sessions :
           pc[Reader(s)] # "done" /\ pc'[Reader(s)] = "done" => Stopped']_vars
  BY DriveStep DEF EndsStopped
<1> QED
  BY <1>1, <1>2, <1>3, InvariantHolds, PTL DEF Spec, DisconnectStops

\* The threads of one connection at a time implement the contract of the gate,
\* access by access.
THEOREM SessionsImplementGate ==
  ASSUME \A s, r \in Sessions : s = r
  PROVE  Spec => ImplementsGate
<1>1. Init => DriveInv /\ Gate!Init
  BY InitDrive DEF Init, Gate!Init
<1>2. IInv /\ IInv' /\ DriveInv /\ [Next]_vars => DriveInv'
  BY DriveStep
<1>3. IInv /\ IInv' /\ DriveInv /\ [Next]_vars =>
        [Gate!Next]_<<transmitEnabled, IF bus = "live" THEN "live" ELSE "released">>
  BY DriveStep DEF Contract, Bus
<1> QED
  BY <1>1, <1>2, <1>3, InvariantHolds, PTL DEF Spec, ImplementsGate, Gate!Spec
=============================================================================
