---------------------------- MODULE ClientThread ----------------------------
(***************************************************************************)
(* One WSClient (network.py) from its start to its stop: the Tk thread,    *)
(* which starts it and stops it, and its worker thread, whose event loop   *)
(* runs one callback after the other, the task _connect_forever among      *)
(* them.                                                                   *)
(*                                                                         *)
(* What the worker reports (on_status, on_error, on_message) goes through  *)
(* root.after, and Tk makes a call from another thread wait until its own  *)
(* thread is back in the main loop.  While the Tk thread is inside stop,   *)
(* each of the two may be waiting for the other; only the timeouts of stop *)
(* end that.                                                               *)
(***************************************************************************)
EXTENDS Naturals, Sequences, SequencesExt

VARIABLES
    tk,             \* "mainloop", "gone" (in it again, without the client), or
                    \* a place in stop
    running,        \* _running
    connected_evt,  \* _connected_evt
    thread,         \* "none", "started", "loop set", "run_forever", "finally"
                    \* or "ended"
    ready,          \* the callbacks the loop has to run, oldest first
    later,          \* call_later(0.05, loop.stop) is waiting for its time
    reporting,      \* the loop is inside the callback that reports a send
    main,           \* where _connect_forever is; done before and after
    cancelled,      \* CancelledError is what it meets next
    socket,         \* its connection: "none", "open" or "closed"
    held            \* self.ws is not None

workerVars == <<thread, later, reporting, main, cancelled, socket, held>>
clientVars == <<tk, running, connected_evt, ready, workerVars>>

ClientInit ==
    /\ tk = "mainloop" /\ running = FALSE /\ connected_evt = FALSE
    /\ thread = "none" /\ ready = <<>> /\ later = FALSE /\ reporting = FALSE
    /\ main = "done" /\ cancelled = FALSE
    /\ socket = "none" /\ held = FALSE

Looping == thread \in {"run_forever", "finally"}

HasLoop == thread = "loop set" \/ Looping

-----------------------------------------------------------------------------

(***************************************************************************)
(* The Tk thread.                                                          *)
(***************************************************************************)

Tk(from, to) == tk = from /\ tk' = to

start ==
    /\ Tk("mainloop", "mainloop") /\ thread = "none"
    /\ running' = TRUE /\ thread' = "started"
    /\ UNCHANGED <<connected_evt, ready, later, reporting, main, cancelled, socket, held>>

\* Stop is sent, if there is a loop to send it, and stop is called.
disconnect_ws ==
    /\ Tk("mainloop", "stop") /\ thread # "none"
    /\ ready' = IF HasLoop THEN Append(ready, "send") ELSE ready
    /\ UNCHANGED <<running, connected_evt, workerVars>>

\* Mutant: the loop is stopped and the flag stays.
StopRunning_bug == Tk("stop", "close") /\ UNCHANGED <<running, connected_evt, ready, workerVars>>

StopRunning ==
    /\ Tk("stop", "close") /\ running' = FALSE
    /\ UNCHANGED <<connected_evt, ready, workerVars>>

\* ws.close is handed to the loop; the result is waited for, a second at most.
StopClose ==
    /\ \/ /\ Tk("close", "closing") /\ HasLoop /\ held
          /\ ready' = Append(ready, "close")
       \/ Tk("close", "cancel") /\ ~ (HasLoop /\ held) /\ UNCHANGED ready
       \/ Tk("closing", "cancel") /\ UNCHANGED ready
    /\ UNCHANGED <<running, connected_evt, workerVars>>

StopLoop ==
    /\ Tk("cancel", "join")
    /\ ready' = IF Looping THEN Append(ready, "stop") ELSE ready
    /\ UNCHANGED <<running, connected_evt, workerVars>>

\* Mutant: the thread is joined, however long it takes.
StopJoin_bug ==
    /\ Tk("join", "clear") /\ thread = "ended"
    /\ UNCHANGED <<running, connected_evt, ready, workerVars>>

\* The thread is over, or three seconds are.
StopJoin == Tk("join", "clear") /\ UNCHANGED <<running, connected_evt, ready, workerVars>>

\* disconnect_ws drops the client.
StopEnds ==
    /\ Tk("clear", "gone") /\ connected_evt' = FALSE
    /\ UNCHANGED <<running, ready, workerVars>>

stop == StopRunning \/ StopClose \/ StopLoop \/ StopJoin \/ StopEnds

-----------------------------------------------------------------------------

(***************************************************************************)
(* The worker thread.                                                      *)
(***************************************************************************)

NewLoop ==
    /\ thread = "started" /\ thread' = "loop set"
    /\ UNCHANGED <<tk, running, connected_evt, ready, later, reporting, main, cancelled,
                   socket, held>>

\* create_task(_connect_forever) and run_forever
RunForever ==
    /\ thread = "loop set" /\ thread' = "run_forever"
    /\ main' = "created" /\ ready' = Append(ready, "main")
    /\ UNCHANGED <<tk, running, connected_evt, later, reporting, cancelled, socket, held>>

\* Places of the task inside a callback of the panel, or just behind it.
Calls == {"connecting", "connected", "message", "error", "stopping"}

Busy == reporting \/ main \in Calls \cup {"inner"}

\* The loop comes to its next callback.
Callback(c) ==
    /\ Looping /\ ~ Busy /\ ready # <<>> /\ Head(ready) = c
    /\ UNCHANGED <<tk, running>>

\* send_cmd_threadsafe: it is sent, or not, and that is reported.
SendStop ==
    /\ Callback("send")
    /\ ready' = Tail(ready) /\ reporting' = TRUE
    /\ UNCHANGED <<connected_evt, thread, later, main, cancelled, socket, held>>

Closed == IF socket = "open" THEN "closed" ELSE socket

Close ==
    /\ Callback("close")
    /\ ready' = Tail(ready) /\ socket' = IF held THEN Closed ELSE socket
    /\ UNCHANGED <<connected_evt, thread, later, reporting, main, cancelled, held>>

Woken(queue) == IF Contains(queue, "main") THEN queue ELSE Append(queue, "main")

\* _stop: the task is cancelled, the socket closed, and soon the loop stopped.
CancelMain ==
    /\ Callback("stop")
    /\ cancelled' = (main # "done")
    /\ ready' = (IF main # "done" THEN Woken(Tail(ready)) ELSE Tail(ready))
                  \o (IF held THEN <<"close">> ELSE <<>>)
    /\ later' = TRUE
    /\ UNCHANGED <<connected_evt, thread, reporting, main, socket, held>>

\* The fifty milliseconds are over: run_forever returns, and what is still
\* pending is cancelled and run to its end.
LoopStop ==
    /\ later /\ thread = "run_forever" /\ ~ Busy
    /\ later' = FALSE /\ thread' = "finally"
    /\ cancelled' = (main # "done")
    /\ ready' = IF main # "done" THEN Woken(ready) ELSE ready
    /\ UNCHANGED <<tk, running, connected_evt, reporting, main, socket, held>>

Finally ==
    /\ thread = "finally" /\ main = "done" /\ ~ Busy
    /\ thread' = "ended" /\ ready' = <<>>
    /\ held' = FALSE /\ connected_evt' = FALSE /\ socket' = Closed
    /\ UNCHANGED <<tk, running, later, reporting, main, cancelled>>

\* What the task awaits has come: an answer or a failure of the attempt to
\* connect, a message or the end of the connection, the end of a close or of
\* a pause.
Wake(places) ==
    /\ Looping /\ ~ Busy /\ main \in places /\ ~ Contains(ready, "main")
    /\ ready' = Append(ready, "main")
    /\ UNCHANGED <<tk, running, connected_evt, workerVars>>

\* The top of the outer loop.
Again == main' = IF running THEN "connecting" ELSE "stopping"

\* CancelledError: out of both loops, through the end of async with; raised
\* in the pause it meets no handler, and a task not begun never begins.
Raise ==
    /\ main' = IF main \in {"created", "backoff"} THEN "done" ELSE "stopping"
    /\ cancelled' = FALSE
    /\ socket' = IF main = "receiving" THEN Closed ELSE socket
    /\ UNCHANGED <<connected_evt, held>>

\* The task goes on from where it waited.
Resume ==
    \/ /\ main \in {"created", "leaving", "backoff"} /\ Again
       /\ UNCHANGED <<connected_evt, socket, held>>
    \/ /\ main = "opening" /\ main' = "connected"
       /\ socket' = "open" /\ held' = TRUE /\ connected_evt' = TRUE
    \/ /\ main = "opening" /\ main' = "error"
       /\ UNCHANGED <<connected_evt, socket, held>>
    \/ /\ main = "receiving" /\ socket = "open" /\ main' = "message"
       /\ UNCHANGED <<connected_evt, socket, held>>
    \/ /\ main = "receiving" /\ main' = "leaving" /\ socket' = "closed"
       /\ UNCHANGED <<connected_evt, held>>

_connect_forever ==
    /\ Callback("main") /\ ready' = Tail(ready)
    /\ \/ cancelled /\ Raise
       \/ ~ cancelled /\ Resume /\ UNCHANGED cancelled
    /\ UNCHANGED <<thread, later, reporting>>

\* Tk has taken the call, and the task goes on.
Reported ==
    /\ tk \in {"mainloop", "gone"}
    /\ \/ /\ reporting /\ reporting' = FALSE
          /\ UNCHANGED <<connected_evt, main, held>>
       \/ /\ main = "connecting" /\ main' = "opening"
          /\ UNCHANGED <<connected_evt, reporting, held>>
       \/ /\ main \in {"connected", "message"} /\ main' = "inner"
          /\ UNCHANGED <<connected_evt, reporting, held>>
       \/ /\ main = "error" /\ main' = "backoff"
          /\ held' = FALSE /\ connected_evt' = FALSE
          /\ UNCHANGED reporting
       \/ /\ main = "stopping" /\ main' = "done"
          /\ connected_evt' = FALSE
          /\ UNCHANGED <<reporting, held>>
    /\ UNCHANGED <<tk, running, thread, ready, later, cancelled, socket>>

\* The inner loop: on with receiving, or out of async with.
Inner ==
    /\ main = "inner"
    /\ IF running THEN main' = "receiving" /\ UNCHANGED socket
       ELSE main' = "leaving" /\ socket' = Closed
    /\ UNCHANGED <<tk, running, connected_evt, thread, ready, later, reporting, cancelled, held>>

Worker ==
    \/ NewLoop \/ RunForever \/ SendStop \/ Close \/ CancelMain \/ Finally
    \/ _connect_forever \/ Reported \/ Inner

\* What comes by itself: every wait but that for a message has an end.
Awaited ==
    Wake({"opening", "leaving", "backoff"} \cup IF socket = "open" THEN {} ELSE {"receiving"})

-----------------------------------------------------------------------------

ClientNext ==
    \/ start \/ disconnect_ws \/ stop
    \/ Worker \/ LoopStop \/ Wake({"opening", "leaving", "backoff", "receiving"})

\* Both threads run on, timers come, and waits end.  Nobody has to disconnect.
ClientFairness ==
    /\ WF_clientVars(stop) /\ WF_clientVars(Worker)
    /\ WF_clientVars(Awaited) /\ SF_clientVars(LoopStop)

-----------------------------------------------------------------------------

\* Disconnecting comes back to the operator, although the worker may be waiting
\* for the very thread that waits for it.
StopReturns == tk = "stop" ~> tk = "gone"

\* A client that was told to stop is over in the end: wherever its worker was,
\* even before its loop or after the timeouts, its connection is closed and
\* none is opened again.
Over == tk = "gone" ~> [](socket # "open" /\ ~ connected_evt)
============================================================================
