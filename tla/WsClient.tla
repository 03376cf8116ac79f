------------------------------ MODULE WsClient ------------------------------
(***************************************************************************)
(* The panel's end of the WebSocket (network.py, WSClient): the task       *)
(* _connect_forever on the worker thread's event loop, and what the rest   *)
(* of the panel sees of it, the socket ws and the flag _connected_evt.     *)
(*                                                                         *)
(* A receive error ends the inner loop only: ws and the flag keep their    *)
(* values until the next attempt to connect is over.  What is sent over a  *)
(* dead socket, or without one, is lost; the panel is told on its log.     *)
(* The operator's disconnect ends the task at once here; how it ends, with *)
(* the thread around it, is ClientThread.                                  *)
(***************************************************************************)
EXTENDS Naturals, Sequences

VARIABLES
    task,           \* where _connect_forever is
    ws,             \* the socket it last opened: "none", "open" or "dead"
    connected,      \* _connected_evt
    toServer,       \* commands in flight, oldest first
    toPanel         \* answers in flight, oldest first

linkVars == <<task, ws, connected, toServer, toPanel>>

LinkInit ==
    /\ task = "stopped" /\ ws = "none" /\ connected = FALSE
    /\ toServer = <<>> /\ toPanel = <<>>

\* With a connection goes what is on its way.  Answers that have reached the
\* panel are in the queue of its Tk thread, and stay.
Lost ==
    /\ toServer' = <<>>
    /\ \E n \in 0 .. Len(toPanel) : toPanel' = SubSeq(toPanel, 1, n)

\* connect_ws: the previous client is stopped, a new one starts.
Start ==
    /\ task' = "connecting" /\ ws' = "none" /\ connected' = FALSE
    /\ Lost

\* disconnect_ws
Stop ==
    /\ task # "stopped"
    /\ task' = "stopped" /\ ws' = "none" /\ connected' = FALSE
    /\ Lost

\* websockets.connect succeeds; greeting is what a session sends first.
Opened(greeting) ==
    /\ task = "connecting"
    /\ task' = "receiving" /\ ws' = "open" /\ connected' = TRUE
    /\ toPanel' = toPanel \o greeting
    /\ UNCHANGED toServer

\* It fails.
Refused ==
    /\ task = "connecting"
    /\ task' = "backoff" /\ ws' = "none" /\ connected' = FALSE
    /\ UNCHANGED <<toServer, toPanel>>

\* asyncio.sleep(backoff) is over.
Retry ==
    /\ task = "backoff"
    /\ task' = "connecting"
    /\ UNCHANGED <<ws, connected, toServer, toPanel>>

\* The connection breaks.
Break ==
    /\ ws = "open"
    /\ ws' = "dead"
    /\ Lost
    /\ UNCHANGED <<task, connected>>

\* ws.recv raises: break, and around to connect again.
ReceiveError ==
    /\ task = "receiving" /\ ws = "dead"
    /\ task' = "connecting"
    /\ UNCHANGED <<ws, connected, toServer, toPanel>>

\* send_json_threadsafe
Send(command) ==
    /\ toServer' = IF ws = "open" THEN Append(toServer, command) ELSE toServer
    /\ UNCHANGED <<task, ws, connected, toPanel>>
=============================================================================
