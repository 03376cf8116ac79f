--------------------------- MODULE SessionsProofs ---------------------------
(***************************************************************************)
(* What the mutex and the joins of ws_server.cpp are worth, for any set of *)
(* sessions: who drives without being a teardown holds g_model_mutex, and  *)
(* while a session's reader tears down its can_updater has ended.          *)
(***************************************************************************)
EXTENDS Sessions, TLAPS

States == {"Idle", "Init", "Read2", "ResolverRxInit", "ResolverRx", "Stop", "Save_Cfg"}

\* Where a thread is inside setState.
Setting == {"test", "clear", "disable", "close", "gate", "store"}

Arguments == States \cup {"SendTorque"}

Types ==
  /\ TypeOK
  /\ arg \in [Threads -> Arguments]
  /\ \A t \in Workers : pc[t] \in Setting => arg[t] \in States

\* A thread between Lock and Unlock holds the mutex, and comes back to Unlock.
Holding ==
  /\ \A t \in Workers : pc[t] \notin Outside => mutex = t \/ t \in Teardowns
  /\ \A t \in Workers : pc[t] \in {"handler", "apply", "unlock"} => mutex = t
  /\ \A t \in Workers : pc[t] \in Setting =>
       ret[t] \in {"tail", "update"} \/ (ret[t] = "unlock" /\ mutex = t)

\* A reader that has ended, or is about to begin or to tear down, has its flag
\* down, and but for the wait in join its can_updater has ended.
Ended ==
  /\ \A s \in Sessions : pc[Reader(s)] \in {"done", "accept", "join"} => ~running[s]
  /\ \A s \in Sessions : ~running[s] => pc[Reader(s)] = "join" \/ pc[Can(s)] = "done"

IInv == Types /\ Holding /\ Ended

-----------------------------------------------------------------------------

\* Threads of different sessions, or of different kinds, differ.
LEMMA Names ==
  /\ Workers \subseteq Threads /\ NoThread \notin Workers
  /\ \A s \in Sessions : Reader(s) \in Workers /\ Can(s) \in Workers
  /\ \A s \in Sessions : Json(s) \in Threads /\ Json(s) \notin Workers
  /\ \A s, r \in Sessions : Reader(s) # Can(r)
  /\ \A s, r \in Sessions : Reader(s) = Reader(r) => s = r
  /\ \A s, r \in Sessions : Can(s) = Can(r) => s = r
BY NoThreadAssumption, SMT DEF Workers, Threads, Reader, Can, Json

\* The teardowns are readers whose flag is down.
LEMMA TeardownsAre ==
  ASSUME NEW s \in Sessions
  PROVE  Reader(s) \in Teardowns <=> ~running[s]
BY SMT DEF Teardowns, Reader

\* Only a reader tears its session down.
LEMMA NoCanTearsDown ==
  ASSUME NEW s \in Sessions
  PROVE  Can(s) \notin Teardowns
BY SMT DEF Teardowns, Reader, Can

\* A thread is some session's reader or its can_updater.
LEMMA WorkersAre ==
  ASSUME NEW t \in Workers
  PROVE  \E s \in Sessions : t = Reader(s) \/ t = Can(s)
BY SMT DEF Workers, Reader, Can

\* The invariant holds when the program starts.
LEMMA InitHolds == Init => IInv
<1> SUFFICES ASSUME Init PROVE IInv
  OBVIOUS
<1>0. /\ \A t \in Workers : t \in Threads
      /\ \A s \in Sessions : Reader(s) \in Threads /\ Can(s) \in Threads
  BY Names, Zenon
<1>1. Types
  <2>1. TypeOK
    <3>1. mutex \in Workers \cup {NoThread}
      BY Zenon DEF Init
    <3>2. "done" \in Labels
      BY SMT DEF Labels
    <3>3. /\ running \in [Sessions -> BOOLEAN]
          /\ pc \in [Threads -> Labels] /\ ret \in [Threads -> Labels]
          /\ frame \in [Threads -> {"cleared", "live"}]
      BY <3>2, SMT DEF Init
    <3> QED
      BY <3>1, <3>3, Zenon DEF Init, TypeOK
  <2>2. arg \in [Threads -> Arguments]
    BY SMT DEF Init, Arguments, States
  <2>3. \A t \in Workers : pc[t] \notin Setting
    BY <1>0, SMT DEF Init, Setting
  <2> QED
    BY <2>1, <2>2, <2>3 DEF Types
<1>2. Holding
  BY <1>0, SMT DEF Init, Holding, Outside, Setting
<1>3. Ended
  BY <1>0, SMT DEF Init, Ended
<1> QED
  BY <1>1, <1>2, <1>3 DEF IInv

-----------------------------------------------------------------------------

\* A step of a thread inside setState or update: it goes on to another place
\* there, to the release of the mutex it holds, or, holding none, to its end.
Inside(t) ==
  /\ mutex' = mutex /\ running' = running
  /\ t \in Workers /\ pc[t] \notin Outside
  /\ \A u \in Threads \ {t} : pc'[u] = pc[u] /\ ret'[u] = ret[u] /\ arg'[u] = arg[u]
  /\ pc'[t] \notin Outside \/ (pc'[t] = "done" /\ mutex # t)
  /\ pc'[t] \in {"handler", "apply", "unlock"} => mutex = t
  /\ pc'[t] \in Setting =>
       /\ ret'[t] \in {"tail", "update"} \/ (ret'[t] = "unlock" /\ mutex = t)
       /\ arg'[t] \in States

\* A step under the mutex keeps it,
LEMMA InsideHolds ==
  ASSUME IInv, TypeOK', arg' \in [Threads -> Arguments], NEW t, Inside(t)
  PROVE  IInv'
<1>0. t \in Workers /\ t \in Threads /\ pc[t] \notin Outside
  BY Names DEF Inside
<1>1. mutex' = mutex /\ running' = running /\ Teardowns' = Teardowns
  BY DEF Inside, Teardowns
<1>2. /\ pc'[t] \notin Outside \/ (pc'[t] = "done" /\ mutex # t)
      /\ pc'[t] \in {"handler", "apply", "unlock"} => mutex = t
      /\ pc'[t] \in Setting =>
           /\ ret'[t] \in {"tail", "update"} \/ (ret'[t] = "unlock" /\ mutex = t)
           /\ arg'[t] \in States
  BY DEF Inside
<1>3. \A u \in Workers : u # t => pc'[u] = pc[u] /\ ret'[u] = ret[u] /\ arg'[u] = arg[u]
  BY Names DEF Inside
<1>4. Types'
  <2>1. \A u \in Workers : pc'[u] \in Setting => arg'[u] \in States
    BY <1>2, <1>3 DEF IInv, Types
  <2> QED
    BY <2>1 DEF Types
<1>5. Holding'
  <2>1. ASSUME NEW u \in Workers, pc'[u] \notin Outside
        PROVE  mutex' = u \/ u \in Teardowns'
    BY <1>0, <1>1, <1>3, <2>1 DEF IInv, Holding
  <2>2. ASSUME NEW u \in Workers, pc'[u] \in {"handler", "apply", "unlock"}
        PROVE  mutex' = u
    BY <1>1, <1>2, <1>3, <2>2 DEF IInv, Holding
  <2>3. ASSUME NEW u \in Workers, pc'[u] \in Setting
        PROVE  ret'[u] \in {"tail", "update"} \/ (ret'[u] = "unlock" /\ mutex' = u)
    BY <1>1, <1>2, <1>3, <2>3 DEF IInv, Holding
  <2> QED
    BY <2>1, <2>2, <2>3 DEF Holding
<1>6. Ended'
  <2>1. ASSUME NEW s \in Sessions, pc'[Reader(s)] \in {"done", "accept", "join"}
        PROVE  ~running'[s]
    <3>1. CASE Reader(s) = t
      <4>1. mutex # t
        BY <1>2, <2>1, <3>1, SMT DEF Outside
      <4>2. t \in Teardowns
        BY <1>0, <4>1 DEF IInv, Holding
      <4> QED
        BY <1>1, <3>1, <4>2, TeardownsAre
    <3>2. CASE Reader(s) # t
      BY <1>1, <1>3, <2>1, <3>2, Names DEF IInv, Ended
    <3> QED
      BY <3>1, <3>2
  <2>2. ASSUME NEW s \in Sessions, ~running'[s]
        PROVE  pc'[Reader(s)] = "join" \/ pc'[Can(s)] = "done"
    <3>1. Reader(s) \in Workers /\ Can(s) \in Workers
      BY Names
    <3>2. pc[Reader(s)] = "join" \/ pc[Can(s)] = "done"
      BY <1>1, <2>2 DEF IInv, Ended
    <3>3. t # Reader(s) \/ pc[Reader(s)] # "join"
      BY <1>0 DEF Outside
    <3>4. t # Can(s) \/ pc[Can(s)] # "done"
      BY <1>0 DEF Outside
    <3> QED
      BY <1>3, <3>1, <3>2, <3>3, <3>4
  <2> QED
    BY <2>1, <2>2 DEF Ended
<1> QED
  BY <1>4, <1>5, <1>6 DEF IInv

-----------------------------------------------------------------------------

\* Closing the gate or the channel disturbs no type.
LEMMA ClosingTypes ==
  ASSUME TypeOK, arg \in [Threads -> Arguments], NEW t \in Threads, NEW from, NEW to \in Labels,
         GateOff(t, from, to) \/ CloseChannel(t, from, to)
  PROVE  TypeOK' /\ arg' \in [Threads -> Arguments]
<1>1. pc' \in [Threads -> Labels]
  BY SMT DEF GateOff, CloseChannel, Goto, TypeOK
<1>2. transmitEnabled' \in BOOLEAN /\ initialized' \in BOOLEAN
  BY Zenon DEF GateOff, CloseChannel, TypeOK
<1> QED
  BY <1>1, <1>2, Zenon DEF GateOff, CloseChannel, Local, TypeOK

\* What setState does is a step inside.
LEMMA SetStateHolds ==
  ASSUME IInv, NEW t \in Workers, setState(t)
  PROVE  IInv'
<1>1. /\ t \in Threads
      /\ pc \in [Threads -> Labels] /\ ret \in [Threads -> Labels]
      /\ arg \in [Threads -> Arguments]
      /\ TypeOK
  BY Names DEF IInv, Types, TypeOK
<1>2. /\ pc[t] \in Setting => arg[t] \in States
      /\ pc[t] \in Setting => ret[t] \in {"tail", "update"} \/ (ret[t] = "unlock" /\ mutex = t)
  BY DEF IInv, Types, Holding
<1>3. "Idle" \in Arguments
  BY DEF Arguments, States
<1>4. CASE SetTest(t)
  <2>1. Inside(t)
    BY <1>1, <1>2, <1>4, SMT DEF SetTest, Inside, At, Goto, Local, Setting, Outside
  <2>2. TypeOK' /\ arg' \in [Threads -> Arguments]
    BY <1>1, <1>4, SMT DEF SetTest, TypeOK, At, Goto, Local, NoData, drive, Labels
  <2> QED
    BY <2>1, <2>2, InsideHolds
<1>5. CASE ClearRequest(t, "clear", "disable")
  <2>1. Inside(t)
    BY <1>1, <1>2, <1>5, SMT DEF ClearRequest, Inside, At, Goto, Local, Setting, Outside
  <2>2. TypeOK' /\ arg' \in [Threads -> Arguments]
    BY <1>1, <1>5, SMT DEF ClearRequest, TypeOK, At, Goto, Local, Labels
  <2> QED
    BY <2>1, <2>2, InsideHolds
<1>6. CASE SendDisable(t, "disable", "close")
  <2>1. Inside(t)
    BY <1>1, <1>2, <1>6, SMT DEF SendDisable, Inside, At, Goto, Local, Setting, Outside
  <2>2. TypeOK' /\ arg' \in [Threads -> Arguments]
    BY <1>1, <1>6, SMT DEF SendDisable, TypeOK, At, Goto, Local, Labels
  <2> QED
    BY <2>1, <2>2, InsideHolds
<1>7. CASE GateOff(t, "close", "gate")
  <2>1. Inside(t)
    BY <1>1, <1>2, <1>7, SMT DEF GateOff, Inside, At, Goto, Local, Setting, Outside
  <2>2. TypeOK' /\ arg' \in [Threads -> Arguments]
    <3>1. "gate" \in Labels
      BY DEF Labels
    <3> QED
      BY <1>1, <1>7, <3>1, ClosingTypes
  <2> QED
    BY <2>1, <2>2, InsideHolds
<1>8. CASE SetGate(t)
  <2>1. Inside(t)
    BY <1>1, <1>2, <1>8, SMT DEF SetGate, Inside, At, Goto, Local, Setting, Outside
  <2>2. TypeOK' /\ arg' \in [Threads -> Arguments]
    BY <1>1, <1>8, SMT DEF SetGate, TypeOK, At, Goto, Local, Labels
  <2> QED
    BY <2>1, <2>2, InsideHolds
<1>9. CASE SetStore(t)
  <2>1. Inside(t)
    BY <1>1, <1>2, <1>9, SMT DEF SetStore, Inside, At, Goto, Setting, Outside
  <2>2. ret[t] \in Labels /\ arg[t] \in States /\ "done" \in Labels
    BY <1>1, <1>2, <1>9, SMT DEF SetStore, At, Labels, Setting
  <2>3. /\ pc' \in [Threads -> Labels] /\ ret' \in [Threads -> Labels]
        /\ arg' \in [Threads -> Arguments]
    BY <1>1, <1>3, <1>9, <2>2, SMT DEF SetStore, Goto
  <2>4. TypeOK'
    BY <1>1, <1>9, <2>2, <2>3, Zenon DEF SetStore, TypeOK, States
  <2> QED
    BY <2>1, <2>3, <2>4, InsideHolds
<1> QED
  BY <1>4, <1>5, <1>6, <1>7, <1>8, <1>9 DEF setState
\* So is what update does.
LEMMA UpdateHolds ==
  ASSUME IInv, NEW t \in Workers, update(t)
  PROVE  IInv'
<1>1. /\ t \in Threads
      /\ pc \in [Threads -> Labels] /\ ret \in [Threads -> Labels]
      /\ arg \in [Threads -> Arguments]
      /\ TypeOK
  BY Names DEF IInv, Types, TypeOK
<1>2. /\ pc[t] \in Setting => arg[t] \in States
      /\ pc[t] \in Setting => ret[t] \in {"tail", "update"} \/ (ret[t] = "unlock" /\ mutex = t)
  BY DEF IInv, Types, Holding
<1>3. /\ {"Idle", "Stop", "Read2", "ResolverRx"} \subseteq States
      /\ {"Idle", "Stop", "Read2", "ResolverRx"} \subseteq Arguments
  BY DEF Arguments, States
<1>4. CASE CloseChannel(t, "initClose", "initClear")
  <2>1. Inside(t)
    BY <1>1, <1>2, <1>3, <1>4, SMT DEF CloseChannel, Inside, At, Goto, Local, Setting, Outside
  <2>2. TypeOK' /\ arg' \in [Threads -> Arguments]
    <3>1. "initClear" \in Labels
      BY DEF Labels
    <3> QED
      BY <1>1, <1>4, <3>1, ClosingTypes
  <2> QED
    BY <2>1, <2>2, InsideHolds
<1>5. CASE ClearRequest(t, "initClear", "initOpen")
  <2>1. Inside(t)
    BY <1>1, <1>2, <1>3, <1>5, SMT DEF ClearRequest, Inside, At, Goto, Local, Setting, Outside
  <2>2. TypeOK' /\ arg' \in [Threads -> Arguments]
    BY <1>1, <1>3, <1>5, SMT DEF ClearRequest, TypeOK, At, Goto, Local, Labels
  <2> QED
    BY <2>1, <2>2, InsideHolds
<1>6. CASE CloseChannel(t, "rxClose", "rxGate")
  <2>1. Inside(t)
    BY <1>1, <1>2, <1>3, <1>6, SMT DEF CloseChannel, Inside, At, Goto, Local, Setting, Outside
  <2>2. TypeOK' /\ arg' \in [Threads -> Arguments]
    <3>1. "rxGate" \in Labels
      BY DEF Labels
    <3> QED
      BY <1>1, <1>6, <3>1, ClosingTypes
  <2> QED
    BY <2>1, <2>2, InsideHolds
<1>7. CASE GateOff(t, "rxGate", "rxOpen")
  <2>1. Inside(t)
    BY <1>1, <1>2, <1>3, <1>7, SMT DEF GateOff, Inside, At, Goto, Local, Setting, Outside
  <2>2. TypeOK' /\ arg' \in [Threads -> Arguments]
    <3>1. "rxOpen" \in Labels
      BY DEF Labels
    <3> QED
      BY <1>1, <1>7, <3>1, ClosingTypes
  <2> QED
    BY <2>1, <2>2, InsideHolds
<1>8. CASE StopTest(t)
  <2>1. Inside(t)
    BY <1>1, <1>2, <1>3, <1>8, SMT DEF StopTest, Inside, At, Goto, Local, Setting, Outside
  <2>2. TypeOK' /\ arg' \in [Threads -> Arguments]
    BY <1>1, <1>3, <1>8, SMT DEF StopTest, TypeOK, At, Goto, Local, NoData, drive, Labels
  <2> QED
    BY <2>1, <2>2, InsideHolds
<1>9. CASE StopWipe(t)
  <2>1. Inside(t)
    BY <1>1, <1>2, <1>3, <1>9, SMT DEF StopWipe, Inside, At, Goto, Local, Setting, Outside
  <2>2. TypeOK' /\ arg' \in [Threads -> Arguments]
    BY <1>1, <1>3, <1>9, SMT DEF StopWipe, TypeOK, At, Goto, Local, Labels
  <2> QED
    BY <2>1, <2>2, InsideHolds
<1>10. CASE ClearRequest(t, "stopClear", "stopDisable")
  <2>1. Inside(t)
    BY <1>1, <1>2, <1>3, <1>10, SMT DEF ClearRequest, Inside, At, Goto, Local, Setting, Outside
  <2>2. TypeOK' /\ arg' \in [Threads -> Arguments]
    BY <1>1, <1>3, <1>10, SMT DEF ClearRequest, TypeOK, At, Goto, Local, Labels
  <2> QED
    BY <2>1, <2>2, InsideHolds
<1>11. CASE SendDisable(t, "stopDisable", "stopGate")
  <2>1. Inside(t)
    BY <1>1, <1>2, <1>3, <1>11, SMT DEF SendDisable, Inside, At, Goto, Local, Setting, Outside
  <2>2. TypeOK' /\ arg' \in [Threads -> Arguments]
    BY <1>1, <1>3, <1>11, SMT DEF SendDisable, TypeOK, At, Goto, Local, Labels
  <2> QED
    BY <2>1, <2>2, InsideHolds
<1>12. CASE GateOff(t, "stopGate", "stopClose")
  <2>1. Inside(t)
    BY <1>1, <1>2, <1>3, <1>12, SMT DEF GateOff, Inside, At, Goto, Local, Setting, Outside
  <2>2. TypeOK' /\ arg' \in [Threads -> Arguments]
    <3>1. "stopClose" \in Labels
      BY DEF Labels
    <3> QED
      BY <1>1, <1>12, <3>1, ClosingTypes
  <2> QED
    BY <2>1, <2>2, InsideHolds
<1>13. CASE Check(t)
  <2>1. Inside(t)
    BY <1>1, <1>2, <1>3, <1>13, SMT DEF Check, Inside, At, Goto, After, Setting, Outside
  <2>2. TypeOK' /\ arg' \in [Threads -> Arguments]
    BY <1>1, <1>3, <1>13, SMT DEF Check, TypeOK, At, Goto, After, NoData, drive, Labels
  <2> QED
    BY <2>1, <2>2, InsideHolds
<1>14. CASE WriteFrame(t)
  <2>1. Inside(t)
    BY <1>1, <1>2, <1>3, <1>14, SMT DEF WriteFrame, Inside, At, Goto, After, Setting, Outside
  <2>2. TypeOK' /\ arg' \in [Threads -> Arguments]
    BY <1>1, <1>3, <1>14, SMT DEF WriteFrame, TypeOK, At, Goto, After, Labels
  <2> QED
    BY <2>1, <2>2, InsideHolds
<1>15. CASE Tail(t)
  <2>1. Inside(t)
    BY <1>1, <1>2, <1>3, <1>15, SMT DEF Tail, Inside, At, Goto, After, Setting, Outside
  <2>2. TypeOK' /\ arg' \in [Threads -> Arguments]
    BY <1>1, <1>3, <1>15, SMT DEF Tail, TypeOK, At, Goto, After, NoData, drive, Labels
  <2> QED
    BY <2>1, <2>2, InsideHolds
<1>16. CASE Switch(t)
  <2>1. Inside(t)
    BY <1>1, <1>2, <1>3, <1>16, SMT DEF Switch, Inside, At, Goto, Call, Local, NoData, drive,
       Setting, Outside
  <2>2. TypeOK' /\ arg' \in [Threads -> Arguments]
    BY <1>1, <1>3, <1>16, SMT DEF Switch, TypeOK, At, Goto, Call, Local, NoData, drive, Labels
  <2> QED
    BY <2>1, <2>2, InsideHolds
<1>17. CASE StopClose(t)
  <2>1. Inside(t)
    BY <1>1, <1>2, <1>3, <1>17, SMT DEF StopClose, Inside, At, Goto, Call, Setting, Outside
  <2>2. TypeOK' /\ arg' \in [Threads -> Arguments]
    <3>1. /\ pc' \in [Threads -> Labels] /\ ret' \in [Threads -> Labels]
          /\ arg' \in [Threads -> Arguments]
      BY <1>1, <1>3, <1>17, SMT DEF StopClose, Goto, Call, TypeOK, Labels
    <3>2. initialized' \in BOOLEAN
      BY <1>17, Zenon DEF StopClose
    <3> QED
      BY <1>1, <1>17, <3>1, <3>2, Zenon DEF StopClose, TypeOK
  <2> QED
    BY <2>1, <2>2, InsideHolds
<1>18. CASE OpenChannel(t, "initOpen", "Read2")
  <2>1. Inside(t)
    BY <1>1, <1>2, <1>3, <1>18, SMT DEF OpenChannel, Inside, At, Goto, Call, Setting, Outside
  <2>2. TypeOK' /\ arg' \in [Threads -> Arguments]
    BY <1>1, <1>3, <1>18, SMT DEF OpenChannel, TypeOK, At, Goto, Call, Labels
  <2> QED
    BY <2>1, <2>2, InsideHolds
<1>19. CASE OpenChannel(t, "rxOpen", "ResolverRx")
  <2>1. Inside(t)
    BY <1>1, <1>2, <1>3, <1>19, SMT DEF OpenChannel, Inside, At, Goto, Call, Setting, Outside
  <2>2. TypeOK' /\ arg' \in [Threads -> Arguments]
    BY <1>1, <1>3, <1>19, SMT DEF OpenChannel, TypeOK, At, Goto, Call, Labels
  <2> QED
    BY <2>1, <2>2, InsideHolds
<1> QED
  BY <1>4, <1>5, <1>6, <1>7, <1>8, <1>9, <1>10, <1>11, <1>12, <1>13,
     <1>14, <1>15, <1>16, <1>17, <1>18, <1>19 DEF update

-----------------------------------------------------------------------------

\* A worker waits for the mutex and gets it; nobody else is in.
LEMMA LockHolds ==
  ASSUME IInv, NEW t \in Workers,
         Lock(t, "lock", "handler") \/ Lock(t, "lock", "update")
  PROVE  IInv'
<1>1. /\ t \in Threads /\ TypeOK /\ t # NoThread
      /\ pc \in [Threads -> Labels] /\ arg \in [Threads -> Arguments]
  BY Names DEF IInv, Types, TypeOK
<1>2. PICK l \in {"handler", "update"} : Lock(t, "lock", l)
  OBVIOUS
<1>3. /\ pc[t] = "lock" /\ mutex = NoThread /\ mutex' = t
      /\ running' = running /\ ret' = ret /\ arg' = arg /\ Teardowns' = Teardowns
      /\ pc' = [pc EXCEPT ![t] = l]
  BY <1>2 DEF Lock, At, Goto, Teardowns
<1>4. /\ pc'[t] = l
      /\ \A u \in Workers : u # t => pc'[u] = pc[u]
  BY <1>1, <1>3, Names
<1>5. Types'
  <2>1. pc' \in [Threads -> Labels]
    <3>1. l \in Labels
      BY <1>2 DEF Labels
    <3> QED
      BY <1>1, <1>3, <3>1, SMT
  <2>2. TypeOK'
    BY <1>1, <1>2, <1>3, <2>1, Zenon DEF Lock, drive, NoData, TypeOK
  <2>3. \A u \in Workers : pc'[u] \in Setting => arg'[u] \in States
    BY <1>2, <1>3, <1>4 DEF IInv, Types, Setting
  <2> QED
    BY <1>1, <1>3, <2>2, <2>3 DEF Types
<1>6. Holding'
  <2>1. \A u \in Workers : mutex # u
    BY <1>3, Names
  <2>2. ASSUME NEW u \in Workers, u # t
        PROVE  /\ pc'[u] \notin Outside => u \in Teardowns
               /\ pc'[u] \notin {"handler", "apply", "unlock"}
               /\ pc'[u] \in Setting => ret'[u] \in {"tail", "update"}
    BY <1>3, <1>4, <2>1, <2>2 DEF IInv, Holding
  <2>3. pc'[t] \notin Setting
    BY <1>2, <1>4 DEF Setting
  <2> QED
    BY <1>3, <2>2, <2>3 DEF Holding
<1>7. Ended'
  <2>1. ASSUME NEW s \in Sessions
        PROVE  /\ pc'[Reader(s)] \in {"done", "accept", "join"} => pc'[Reader(s)] = pc[Reader(s)]
               /\ pc[Reader(s)] = "join" => pc'[Reader(s)] = "join"
               /\ pc[Can(s)] = "done" => pc'[Can(s)] = "done"
    <3>1. Reader(s) \in Workers /\ Can(s) \in Workers
      BY Names
    <3> QED
      BY <1>2, <1>3, <1>4, <3>1, SMT
  <2> QED
    BY <1>3, <2>1 DEF IInv, Ended
<1> QED
  BY <1>5, <1>6, <1>7 DEF IInv
\* It leaves again.
LEMMA UnlockHolds ==
  ASSUME IInv, NEW t \in Workers, Unlock(t)
  PROVE  IInv'
<1>1. /\ t \in Threads /\ TypeOK
      /\ pc \in [Threads -> Labels] /\ arg \in [Threads -> Arguments]
  BY Names DEF IInv, Types, TypeOK
<1>2. PICK l \in {"loop", "read"} : pc' = [pc EXCEPT ![t] = l]
  BY DEF Unlock, Goto
<1>3. /\ pc[t] = "unlock" /\ mutex = t /\ mutex' = NoThread
      /\ running' = running /\ ret' = ret /\ arg' = arg /\ Teardowns' = Teardowns
  BY DEF Unlock, At, Teardowns, IInv, Holding
<1>4. /\ pc'[t] = l
      /\ \A u \in Workers : u # t => pc'[u] = pc[u]
  BY <1>1, <1>2, Names
<1>5. Types'
  <2>1. pc' \in [Threads -> Labels]
    <3>1. l \in Labels
      BY <1>2 DEF Labels
    <3> QED
      BY <1>1, <1>2, <3>1, SMT
  <2>2. TypeOK'
    BY <1>1, <1>3, <2>1, Zenon DEF Unlock, drive, NoData, TypeOK
  <2>3. \A u \in Workers : pc'[u] \in Setting => arg'[u] \in States
    BY <1>2, <1>3, <1>4 DEF IInv, Types, Setting
  <2> QED
    BY <1>1, <1>3, <2>2, <2>3 DEF Types
<1>6. Holding'
  <2>1. ASSUME NEW u \in Workers, u # t
        PROVE  /\ pc'[u] \notin Outside => u \in Teardowns
               /\ pc'[u] \notin {"handler", "apply", "unlock"}
               /\ pc'[u] \in Setting => ret'[u] \in {"tail", "update"}
    BY <1>3, <1>4, <2>1 DEF IInv, Holding
  <2>2. pc'[t] \in Outside /\ pc'[t] \notin Setting
        /\ pc'[t] \notin {"handler", "apply", "unlock"}
    BY <1>2, <1>4 DEF Setting, Outside
  <2> QED
    BY <1>3, <2>1, <2>2 DEF Holding
<1>7. Ended'
  <2>1. ASSUME NEW s \in Sessions
        PROVE  /\ pc'[Reader(s)] \in {"done", "accept", "join"} => pc'[Reader(s)] = pc[Reader(s)]
               /\ pc[Reader(s)] = "join" => pc'[Reader(s)] = "join"
               /\ pc[Can(s)] = "done" => pc'[Can(s)] = "done"
    <3>1. Reader(s) \in Workers /\ Can(s) \in Workers
      BY Names
    <3> QED
      BY <1>2, <1>3, <1>4, <3>1, SMT
  <2> QED
    BY <1>3, <2>1 DEF IInv, Ended
<1> QED
  BY <1>5, <1>6, <1>7 DEF IInv

\* A step of thread t outside: it stays there, or is a reader whose flag is down
\* and enters setState for its teardown.
Around(t) ==
  /\ mutex' = mutex /\ t \in Workers /\ pc[t] \in Outside
  /\ \A u \in Workers \ {t} : pc'[u] = pc[u] /\ ret'[u] = ret[u] /\ arg'[u] = arg[u]
  /\ \A u \in Workers \ {t} : u \in Teardowns => u \in Teardowns'
  /\ \/ pc'[t] \in Outside
     \/ pc'[t] = "test" /\ t \in Teardowns' /\ ret'[t] = "update" /\ arg'[t] = "Stop"

\* and one of a thread outside it,
LEMMA AroundHolds ==
  ASSUME IInv, TypeOK', arg' \in [Threads -> Arguments], Ended', NEW t, Around(t)
  PROVE  IInv'
<1>1. /\ t \in Workers /\ mutex' = mutex
      /\ \/ pc'[t] \in Outside
         \/ pc'[t] = "test" /\ t \in Teardowns' /\ ret'[t] = "update" /\ arg'[t] = "Stop"
  BY DEF Around
<1>2. \A u \in Workers : u # t =>
        /\ pc'[u] = pc[u] /\ ret'[u] = ret[u] /\ arg'[u] = arg[u]
        /\ u \in Teardowns => u \in Teardowns'
  BY DEF Around
<1>3. Types'
  <2>1. \A u \in Workers : pc'[u] \in Setting => arg'[u] \in States
    BY <1>1, <1>2 DEF IInv, Types, Setting, Outside, States
  <2> QED
    BY <2>1 DEF Types
<1>4. Holding'
  <2>1. ASSUME NEW u \in Workers, pc'[u] \notin Outside
        PROVE  mutex' = u \/ u \in Teardowns'
    BY <1>1, <1>2, <2>1 DEF IInv, Holding
  <2>2. ASSUME NEW u \in Workers, pc'[u] \in {"handler", "apply", "unlock"}
        PROVE  mutex' = u
    BY <1>1, <1>2, <2>2 DEF IInv, Holding, Outside
  <2>3. ASSUME NEW u \in Workers, pc'[u] \in Setting
        PROVE  ret'[u] \in {"tail", "update"} \/ (ret'[u] = "unlock" /\ mutex' = u)
    BY <1>1, <1>2, <2>3 DEF IInv, Holding, Outside, Setting
  <2> QED
    BY <2>1, <2>2, <2>3 DEF Holding
<1> QED
  BY <1>3, <1>4 DEF IInv

-----------------------------------------------------------------------------

\* and all of a reader's,
LEMMA ReaderHolds ==
  ASSUME IInv, NEW s \in Sessions,
         Connect(s) \/ Read(s) \/ ReadError(s) \/ reader(s)
  PROVE  IInv'
<1> DEFINE t == Reader(s)
<1>1. /\ t \in Threads /\ t \in Workers /\ TypeOK /\ Can(s) \in Workers /\ t # Can(s)
      /\ pc \in [Threads -> Labels] /\ ret \in [Threads -> Labels]
      /\ arg \in [Threads -> Arguments] /\ running \in [Sessions -> BOOLEAN]
      /\ frame \in [Threads -> {"cleared", "live"}]
  BY Names DEF IInv, Types, TypeOK
<1>2. /\ \A u \in Workers : u \in Threads
      /\ \A r \in Sessions : r # s => Reader(r) # t
      /\ \A r \in Sessions : Reader(r) \in Workers /\ Can(r) \in Workers /\ Can(r) # t
  BY Names
<1>3. "Stop" \in States /\ "Idle" \in States /\ States \subseteq Arguments
      /\ Commands \subseteq Arguments
  BY CommandsAssumption DEF States, Arguments
<1>4. /\ pc[t] \in {"done", "accept", "join"} => ~running[s]
      /\ ~running[s] => pc[t] = "join" \/ pc[Can(s)] = "done"
  BY DEF IInv, Ended
<1> HIDE DEF t
<1>5. CASE Connect(s)
  <2>1. /\ pc[t] = "done" /\ pc' = [pc EXCEPT ![t] = "accept"]
        /\ UNCHANGED <<mutex, running, ret, arg, frame>> /\ NoData
    BY <1>5 DEF Connect, At, Goto, Local, t
  <2>2. Around(t)
    BY <1>1, <1>2, <2>1, SMT DEF Around, Outside, Teardowns
  <2>3. pc' \in [Threads -> Labels]
    BY <1>1, <2>1, SMT DEF Labels
  <2>4. TypeOK' /\ arg' \in [Threads -> Arguments]
    BY <1>1, <2>1, <2>3, Zenon DEF TypeOK, NoData, drive
  <2>5. Ended'
    BY <1>1, <1>2, <1>4, <2>1, SMT DEF IInv, Ended, t
  <2> QED
    BY <2>2, <2>4, <2>5, AroundHolds
<1>6. CASE Read(s)
  <2>1. PICK c \in Commands :
          /\ pc[t] = "read" /\ pc' = [pc EXCEPT ![t] = "lock"]
          /\ arg' = [arg EXCEPT ![t] = c]
          /\ UNCHANGED <<mutex, running, ret, frame>> /\ NoData
    BY <1>6 DEF Read, At, Goto, t
  <2>2. Around(t)
    BY <1>1, <1>2, <2>1, SMT DEF Around, Outside, Teardowns
  <2>3. pc' \in [Threads -> Labels] /\ arg' \in [Threads -> Arguments]
    <3>1. c \in Arguments /\ "lock" \in Labels
      BY <1>3, <2>1 DEF Labels
    <3> QED
      BY <1>1, <2>1, <3>1, SMT
  <2>4. TypeOK'
    BY <1>1, <2>1, <2>3, Zenon DEF TypeOK, NoData, drive
  <2>5. Ended'
    BY <1>1, <1>2, <1>4, <2>1, SMT DEF IInv, Ended, t
  <2> QED
    BY <2>2, <2>3, <2>4, <2>5, AroundHolds
<1>7. CASE ReadError(s)
  <2>1. /\ pc[t] = "read" /\ pc' = [pc EXCEPT ![t] = "join"]
        /\ running' = [running EXCEPT ![s] = FALSE]
        /\ UNCHANGED <<mutex, ret, arg, frame>> /\ NoData
    BY <1>7 DEF ReadError, At, Goto, t
  <2>2. Around(t)
    <3>1. \A u \in Workers : u \in Teardowns => u \in Teardowns'
      BY <1>1, <2>1, SMT DEF Teardowns
    <3> QED
      BY <1>1, <1>2, <2>1, <3>1, SMT DEF Around, Outside
  <2>3. pc' \in [Threads -> Labels] /\ running' \in [Sessions -> BOOLEAN]
    BY <1>1, <2>1, SMT DEF Labels
  <2>4. TypeOK' /\ arg' \in [Threads -> Arguments]
    BY <1>1, <2>1, <2>3, Zenon DEF TypeOK, NoData, drive
  <2>5. Ended'
    BY <1>1, <1>2, <1>4, <2>1, SMT DEF IInv, Ended, t
  <2> QED
    BY <2>2, <2>4, <2>5, AroundHolds
<1>8. CASE Refuse(s)
  <2>1. /\ pc[t] = "accept" /\ pc' = [pc EXCEPT ![t] = "test"]
        /\ arg' = [arg EXCEPT ![t] = "Stop"] /\ ret' = [ret EXCEPT ![t] = "update"]
        /\ UNCHANGED <<mutex, running, frame>> /\ NoData
    BY <1>8 DEF Refuse, At, Goto, Call, t
  <2>2. Around(t)
    <3>1. t \in Teardowns' /\ Teardowns' = Teardowns
      BY <1>4, <2>1, TeardownsAre DEF t, Teardowns
    <3> QED
      BY <1>1, <1>2, <2>1, <3>1, SMT DEF Around, Outside
  <2>3. /\ pc' \in [Threads -> Labels]
        /\ ret' \in [Threads -> Labels]
        /\ arg' \in [Threads -> Arguments]
    <3>1. "Stop" \in Arguments /\ "test" \in Labels /\ "update" \in Labels
      BY <1>3 DEF Labels
    <3> QED
      BY <1>1, <2>1, <3>1, SMT
  <2>4. TypeOK'
    BY <1>1, <2>1, <2>3, Zenon DEF TypeOK, NoData, drive
  <2>5. Ended'
    BY <1>1, <1>2, <1>4, <2>1, SMT DEF IInv, Ended, t
  <2> QED
    BY <2>2, <2>3, <2>4, <2>5, AroundHolds
<1>9. CASE Join(s)
  <2>1. /\ pc[t] = "join" /\ pc' = [pc EXCEPT ![t] = "test"] /\ pc[Can(s)] = "done"
        /\ arg' = [arg EXCEPT ![t] = "Stop"] /\ ret' = [ret EXCEPT ![t] = "update"]
        /\ UNCHANGED <<mutex, running, frame>> /\ NoData
    BY <1>9 DEF Join, At, Goto, Call, t
  <2>2. Around(t)
    <3>1. t \in Teardowns' /\ Teardowns' = Teardowns
      BY <1>4, <2>1, TeardownsAre DEF t, Teardowns
    <3> QED
      BY <1>1, <1>2, <2>1, <3>1, SMT DEF Around, Outside
  <2>3. /\ pc' \in [Threads -> Labels]
        /\ ret' \in [Threads -> Labels]
        /\ arg' \in [Threads -> Arguments]
    <3>1. "Stop" \in Arguments /\ "test" \in Labels /\ "update" \in Labels
      BY <1>3 DEF Labels
    <3> QED
      BY <1>1, <2>1, <3>1, SMT
  <2>4. TypeOK'
    BY <1>1, <2>1, <2>3, Zenon DEF TypeOK, NoData, drive
  <2>5. Ended'
    BY <1>1, <1>2, <1>4, <2>1, SMT DEF IInv, Ended, t
  <2> QED
    BY <2>2, <2>3, <2>4, <2>5, AroundHolds
<1>10. CASE Handle(s)
  <2>1. mutex = t \/ pc[t] # "handler"
    BY <1>1 DEF IInv, Holding
  <2>2. /\ pc[t] = "handler" /\ UNCHANGED <<mutex, running, frame>> /\ NoData
        /\ \/ /\ arg[t] # "SendTorque" /\ arg' = [arg EXCEPT ![t] = arg[t]]
              /\ pc' = [pc EXCEPT ![t] = "test"] /\ ret' = [ret EXCEPT ![t] = "unlock"]
           \/ /\ \/ pc' = [pc EXCEPT ![t] = "apply"]
                 \/ pc' = [pc EXCEPT ![t] = "unlock"]
              /\ arg' = [arg EXCEPT ![t] = "Idle"] /\ UNCHANGED ret
    BY <1>10 DEF Handle, At, Goto, Call, t
  <2>3. Inside(t)
    BY <1>1, <1>3, <2>1, <2>2, SMT DEF Inside, Outside, Setting, Arguments
  <2>4. /\ pc' \in [Threads -> Labels]
        /\ ret' \in [Threads -> Labels]
        /\ arg' \in [Threads -> Arguments]
    <3>1. /\ "Idle" \in Arguments
          /\ "test" \in Labels /\ "unlock" \in Labels /\ "apply" \in Labels
      BY <1>3 DEF Labels
    <3> QED
      BY <1>1, <2>2, <3>1, SMT
  <2>5. TypeOK'
    BY <1>1, <2>2, <2>4, Zenon DEF TypeOK, NoData, drive
  <2> QED
    BY <2>3, <2>4, <2>5, InsideHolds
<1>11. CASE Apply(s)
  <2>1. PICK r \in {"cleared", "live"} :
          /\ pc[t] = "apply" /\ pc' = [pc EXCEPT ![t] = "check"]
          /\ request' = r /\ frame' = [frame EXCEPT ![t] = r]
          /\ UNCHANGED <<mutex, running, ret, arg, currentState, transmitEnabled, initialized, bus>>
    BY <1>11 DEF Apply, At, Goto, t
  <2>2. Inside(t)
    BY <1>1, <2>1, SMT DEF Inside, Outside, Setting
  <2>3. pc' \in [Threads -> Labels] /\ frame' \in [Threads -> {"cleared", "live"}]
    BY <1>1, <2>1, SMT DEF Labels
  <2>4. TypeOK' /\ arg' \in [Threads -> Arguments]
    BY <1>1, <2>1, <2>3, Zenon DEF TypeOK
  <2> QED
    BY <2>2, <2>4, InsideHolds
<1>12. CASE Accept(s)
  <2>1. /\ pc[t] = "accept" /\ running' = [running EXCEPT ![s] = TRUE]
        /\ pc' = [pc EXCEPT ![t] = "read", ![Can(s)] = "loop", ![Json(s)] = "loop"]
        /\ UNCHANGED <<mutex, ret, arg, frame>> /\ NoData
    BY <1>12 DEF Accept, At, t
  <2>2. Can(s) \in Threads /\ Json(s) \in Threads /\ \A u \in Workers : u # Json(s)
    BY <1>1, <1>2, Names
  <2>3. /\ pc'[t] = "read" /\ pc'[Can(s)] = "loop"
        /\ \A u \in Workers : u # t /\ u # Can(s) => pc'[u] = pc[u]
    BY <1>1, <1>2, <2>1, <2>2, SMT
  <2>4. pc' \in [Threads -> Labels] /\ running' \in [Sessions -> BOOLEAN]
    BY <1>1, <2>1, <2>2, SMT DEF Labels
  <2>5. TypeOK' /\ arg' \in [Threads -> Arguments]
    BY <1>1, <2>1, <2>4, Zenon DEF TypeOK, NoData, drive
  <2>6. \A u \in Workers : u # t => (u \in Teardowns => u \in Teardowns')
    BY <1>1, <2>1, SMT DEF Teardowns, t
  <2>7. Types'
    <3>1. \A u \in Workers : pc'[u] \in Setting => arg'[u] \in States
      BY <2>1, <2>3 DEF IInv, Types, Setting
    <3> QED
      BY <2>5, <3>1 DEF Types
  <2>8. Holding'
    <3>1. ASSUME NEW u \in Workers, pc'[u] \notin Outside
          PROVE  mutex' = u \/ u \in Teardowns'
      BY <2>1, <2>3, <2>6, <3>1 DEF IInv, Holding, Outside
    <3>2. ASSUME NEW u \in Workers, pc'[u] \in {"handler", "apply", "unlock"}
          PROVE  mutex' = u
      BY <2>1, <2>3, <3>2 DEF IInv, Holding
    <3>3. ASSUME NEW u \in Workers, pc'[u] \in Setting
          PROVE  ret'[u] \in {"tail", "update"} \/ (ret'[u] = "unlock" /\ mutex' = u)
      BY <2>1, <2>3, <3>3 DEF IInv, Holding, Setting
    <3> QED
      BY <3>1, <3>2, <3>3 DEF Holding
  <2>9. Ended'
    <3>1. ASSUME NEW r \in Sessions, r # s
          PROVE  /\ pc'[Reader(r)] = pc[Reader(r)] /\ pc'[Can(r)] = pc[Can(r)]
                 /\ running'[r] = running[r]
      <4>1. /\ Can(r) # Can(s) /\ Reader(r) # Can(s) /\ Reader(r) # t /\ Can(r) # t
            /\ Reader(r) \in Workers /\ Can(r) \in Workers
        BY <1>2, <3>1, Names
      <4>2. running'[r] = running[r]
        BY <1>1, <2>1, <3>1, SMT
      <4> QED
        BY <2>3, <4>1, <4>2
    <3>2. pc'[Reader(s)] = "read" /\ running'[s]
      BY <1>1, <2>1, <2>3, SMT DEF t
    <3> QED
      BY <3>1, <3>2 DEF IInv, Ended
  <2> QED
    BY <2>7, <2>8, <2>9 DEF IInv
<1>13. CASE Lock(Reader(s), "lock", "handler")
  BY <1>1, <1>13, LockHolds DEF t
<1>14. CASE Unlock(Reader(s))
  BY <1>1, <1>14, UnlockHolds DEF t
<1>15. CASE setState(Reader(s))
  BY <1>1, <1>15, SetStateHolds DEF t
<1>16. CASE update(Reader(s))
  BY <1>1, <1>16, UpdateHolds DEF t
<1> QED
  BY <1>5, <1>6, <1>7, <1>8, <1>9, <1>10, <1>11, <1>12, <1>13, <1>14, <1>15, <1>16
  DEF reader

\* and of can_updater's,
LEMMA CanHolds ==
  ASSUME IInv, NEW s \in Sessions, can_updater(s)
  PROVE  IInv'
<1> DEFINE t == Can(s)
<1>1. /\ t \in Threads /\ t \in Workers /\ TypeOK
      /\ pc \in [Threads -> Labels] /\ arg \in [Threads -> Arguments]
  BY Names DEF IInv, Types, TypeOK
<1>2. /\ \A u \in Workers : u \in Threads
      /\ \A r \in Sessions : r # s => Can(r) # t
      /\ \A r \in Sessions : Reader(r) \in Workers /\ Can(r) \in Workers /\ Reader(r) # t
  BY Names
<1> HIDE DEF t
<1>3. CASE Exit(s, Can(s)) \/ Loop(s)
  <2>1. PICK l \in {"done", "lock"} :
          /\ pc[t] = "loop" /\ pc' = [pc EXCEPT ![t] = l] /\ (l = "done" \/ running[s])
          /\ UNCHANGED <<mutex, running, ret, arg, frame>> /\ NoData
    BY <1>3 DEF Exit, Loop, At, Goto, Local, t
  <2>2. Around(t)
    BY <1>1, <1>2, <2>1, SMT DEF Around, Outside, Teardowns
  <2>3. pc' \in [Threads -> Labels]
    BY <1>1, <2>1, SMT DEF Labels
  <2>4. TypeOK' /\ arg' \in [Threads -> Arguments]
    BY <1>1, <2>1, <2>3, Zenon DEF TypeOK, NoData, drive
  <2>5. Ended'
    BY <1>1, <1>2, <2>1, SMT DEF IInv, Ended, t
  <2> QED
    BY <2>2, <2>4, <2>5, AroundHolds
<1>4. CASE Lock(Can(s), "lock", "update")
  BY <1>1, <1>4, LockHolds DEF t
<1>5. CASE Unlock(Can(s))
  BY <1>1, <1>5, UnlockHolds DEF t
<1>6. CASE setState(Can(s))
  BY <1>1, <1>6, SetStateHolds DEF t
<1>7. CASE update(Can(s))
  BY <1>1, <1>7, UpdateHolds DEF t
<1> QED
  BY <1>3, <1>4, <1>5, <1>6, <1>7 DEF can_updater

\* The third thread only moves itself.
LEMMA JsonHolds ==
  ASSUME IInv, NEW s \in Sessions, updater(s)
  PROVE  IInv'
<1>1. /\ Json(s) \in Threads /\ TypeOK
      /\ pc \in [Threads -> Labels] /\ arg \in [Threads -> Arguments]
  BY Names DEF IInv, Types, TypeOK
<1>2. PICK l \in {"done", "writing", "loop"} : pc' = [pc EXCEPT ![Json(s)] = l]
  BY DEF updater, Exit, Serialize, JsonWrite, Goto
<1>3. UNCHANGED <<mutex, running, ret, arg, frame, Teardowns>> /\ NoData
  BY DEF updater, Exit, Serialize, JsonWrite, Local, Teardowns
<1>4. \A u \in Workers : pc'[u] = pc[u]
  BY <1>1, <1>2, Names
<1>5. pc' \in [Threads -> Labels]
  BY <1>1, <1>2, SMT DEF Labels
<1>6. TypeOK'
  BY <1>1, <1>3, <1>5, Zenon DEF TypeOK, NoData, drive
<1>7. Types'
  BY <1>3, <1>4, <1>6 DEF IInv, Types
<1>8. Holding'
  BY <1>3, <1>4 DEF IInv, Holding
<1>9. Ended'
  <2>1. \A r \in Sessions : Reader(r) \in Workers /\ Can(r) \in Workers
    BY Names
  <2> QED
    BY <1>3, <1>4, <2>1 DEF IInv, Ended
<1> QED
  BY <1>7, <1>8, <1>9 DEF IInv

\* so every step.
LEMMA StepHolds == IInv /\ [Next]_vars => IInv'
<1> SUFFICES ASSUME IInv, [Next]_vars PROVE IInv'
  OBVIOUS
<1>1. CASE UNCHANGED vars
  BY <1>1 DEF vars, drive, IInv, Types, TypeOK, Holding, Ended, Teardowns
<1>2. ASSUME NEW s \in Sessions,
             Connect(s) \/ Read(s) \/ ReadError(s)
               \/ reader(s) \/ can_updater(s) \/ updater(s)
      PROVE  IInv'
  BY <1>2, ReaderHolds, CanHolds, JsonHolds
<1> QED
  BY <1>1, <1>2 DEF Next

\* The threads are where the invariant says in every reachable state.
LEMMA InvariantHolds == Spec => []IInv
<1>1. Init => IInv
  BY InitHolds
<1>2. IInv /\ [Next]_vars => IInv'
  BY StepHolds
<1> QED
  BY <1>1, <1>2, PTL DEF Spec

-----------------------------------------------------------------------------

\* Every variable of the sessions keeps its type.
THEOREM SessionTypes == Spec => []TypeOK
<1>1. IInv => TypeOK
  BY DEF IInv, Types
<1> QED
  BY <1>1, InvariantHolds, PTL

\* Of the threads of any number of sessions, all that drive but the teardowns
\* keep out of each other's way: they hold g_model_mutex.
THEOREM LockedCorrect == Spec => []LockedExclusive
<1>1. IInv => LockedExclusive
  <2> SUFFICES ASSUME IInv, NEW t \in Driving \ Teardowns, NEW u \in Driving \ Teardowns
               PROVE  t = u
    BY DEF LockedExclusive
  <2>1. mutex = t
    BY DEF IInv, Holding, Driving
  <2>2. mutex = u
    BY DEF IInv, Holding, Driving
  <2> QED
    BY <2>1, <2>2
<1> QED
  BY <1>1, InvariantHolds, PTL

\* With one connection at a time no reader tears down beside a can_updater.
LEMMA OneDriverSuffices ==
  ASSUME \A s, r \in Sessions : s = r, IInv
  PROVE  OneDriver
<1> SUFFICES ASSUME NEW t \in Driving, NEW u \in Driving
             PROVE  t = u
  BY DEF OneDriver
<1>1. /\ t \in Workers /\ u \in Workers
      /\ pc[t] \notin Outside /\ pc[u] \notin Outside
  BY DEF Driving
<1>2. PICK s \in Sessions : t = Reader(s) \/ t = Can(s)
  BY <1>1, WorkersAre
<1>3. u = Reader(s) \/ u = Can(s)
  BY <1>1, WorkersAre
<1>4. ~ (pc[Reader(s)] \notin Outside /\ pc[Can(s)] \notin Outside)
  <2> SUFFICES ASSUME pc[Reader(s)] \notin Outside, pc[Can(s)] \notin Outside
               PROVE  FALSE
    OBVIOUS
  <2>1. /\ Reader(s) \in Workers /\ Can(s) \in Workers /\ Reader(s) # Can(s)
        /\ Can(s) \notin Teardowns
        /\ Reader(s) \in Teardowns => ~ running[s]
    BY Names, TeardownsAre, NoCanTearsDown
  <2>2. mutex = Can(s)
    BY <2>1 DEF IInv, Holding
  <2>3. ~ running[s]
    BY <2>1, <2>2 DEF IInv, Holding
  <2> QED
    BY <2>3, SMT DEF IInv, Ended, Outside
<1> QED
  BY <1>1, <1>2, <1>3, <1>4

\* With one connection at a time the drive has one driver, the teardown, which
\* takes no lock, included.
THEOREM OneDriverCorrect ==
  ASSUME \A s, r \in Sessions : s = r
  PROVE  Spec => []OneDriver
<1>1. IInv => OneDriver
  BY OneDriverSuffices
<1> QED
  BY <1>1, InvariantHolds, PTL
=============================================================================
