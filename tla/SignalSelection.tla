-------------------------- MODULE SignalSelection --------------------------
(***************************************************************************)
(* The selection of DBC signals: the server's cache of the DBC file and of *)
(* what is selected (DbcSignalCache), the commands that read and change it *)
(* (ws_server.cpp), and the copy of it one panel keeps (Controllers,       *)
(* Telemetry).                                                             *)
(*                                                                         *)
(* The panel changes its copy first and then sends all of it; every answer *)
(* is the whole catalog and replaces the copy.  A connection's commands    *)
(* are taken to be handled, or lost, before the next connection is made.   *)
(***************************************************************************)
EXTENDS WsClient

CONSTANTS
    Message,        \* the messages of the DBC file
    SignalsOf,      \* message -> its signals
    Lines,          \* the lines [section, name, direction] of dbcconfig.ini
    KeyOf,          \* a message's name in either file -> letters and digits
    Defaults,       \* direction -> the signals buildDefaultSelection selects
    MaxInFlight     \* so many commands and answers are on their way at most

Directions == {"rx", "tx"}

Signal == UNION { SignalsOf[m] : m \in Message }

ASSUME FilesAssumption ==
    /\ \A l, m \in Message : l # m => SignalsOf[l] \cap SignalsOf[m] = {}
    /\ Message \subseteq DOMAIN KeyOf
    /\ \A l, m \in Message : KeyOf[l] = KeyOf[m] => l = m
    /\ Defaults \in [Directions -> SUBSET Signal]

VARIABLES
    initialized,    \* the DBC file was found
    selected,       \* direction -> selectedRx_, selectedTx_
    catalog,        \* the panel's signal_catalog: entries <<direction, signal>>
    chosen,         \* direction -> the panel's selected signals
    calm            \* the panel has had this connection's catalog, and nothing
                    \* was clicked since while an answer was under way

serverVars == <<initialized, selected>>
panelVars == <<catalog, chosen, calm>>
vars == <<linkVars, serverVars, panelVars>>

Nothing == [d \in Directions |-> {}]

-----------------------------------------------------------------------------

(***************************************************************************)
(* DbcSignalCache.                                                         *)
(***************************************************************************)

\* loadDbc: defsByMessageId_
defs(m) == IF initialized THEN SignalsOf[m] ELSE {}

\* The names in the two files agree but for case and punctuation.
normalizeMessageKey(name) == KeyOf[name]

\* The messages dbcconfig.ini gives a direction; what the inverter receives,
\* the panel sends.
configuredCatalogMessages(d) ==
    { m \in Message :
        \E l \in Lines :
            /\ l.section = "[MESSAGE_DIR]"
            /\ l.direction = IF d = "tx" THEN "RX" ELSE "TX"
            /\ normalizeMessageKey(l.name) = normalizeMessageKey(m) }

\* Mutant: messages without a default are left out.
Catalog_bug == { e \in Directions \X Signal : initialized /\ e[2] \in Defaults[e[1]] }

\* The signals of those messages, and those that have a default.
Catalog ==
    { e \in Directions \X Signal :
        \/ \E m \in configuredCatalogMessages(e[1]) : e[2] \in defs(m)
        \/ initialized /\ e[2] \in Defaults[e[1]] }

\* The answer signal_catalog: the entries, and those selected.
selectionCatalog(selection) ==
    [ entries |-> Catalog,
      selected |-> { e \in Catalog : e[2] \in selection[e[1]] } ]

\* Mutant: the selection asked for is added to the one there is.
setSelection_bug(asked) ==
    [ d \in Directions |-> selected[d] \cup
        UNION { defs(m) : m \in { n \in Message : defs(n) \cap asked[d] # {} } } ]

\* Every message with a signal asked for, whole.
setSelection(asked) ==
    [ d \in Directions |->
        UNION { defs(m) : m \in { n \in Message : defs(n) \cap asked[d] # {} } } ]

\* selectRx and selectTx for each default; none if there is no DBC file.
buildDefaultSelection(found) == IF found THEN Defaults ELSE Nothing

-----------------------------------------------------------------------------

(***************************************************************************)
(* The server's side of a session.                                         *)
(***************************************************************************)

InFlight == Len(toServer) + Len(toPanel)

\* Mutant: a session starts without a word.
Accept_bug ==
    /\ Opened(<<>>) /\ InFlight < MaxInFlight
    /\ calm' = FALSE
    /\ UNCHANGED <<serverVars, catalog, chosen>>

\* do_session sends the catalog first.
Accept ==
    /\ Opened(<<selectionCatalog(selected)>>) /\ InFlight < MaxInFlight
    /\ calm' = FALSE
    /\ UNCHANGED <<serverVars, catalog, chosen>>

\* Mutant: the answer is made up before the command is carried out.
Handle_bug ==
    /\ toServer # <<>>
    /\ selected' = IF Head(toServer).cmd = "SetSignalSelection"
                   THEN setSelection(Head(toServer).asked) ELSE selected
    /\ toServer' = Tail(toServer)
    /\ toPanel' = Append(toPanel, selectionCatalog(selected))
    /\ UNCHANGED <<task, ws, connected, initialized, panelVars>>

\* A command of the session, with its answer.
Handle ==
    /\ toServer # <<>>
    /\ selected' = IF Head(toServer).cmd = "SetSignalSelection"
                   THEN setSelection(Head(toServer).asked) ELSE selected
    /\ toServer' = Tail(toServer)
    /\ toPanel' = Append(toPanel, selectionCatalog(selected'))
    /\ UNCHANGED <<task, ws, connected, initialized, panelVars>>

\* The server is started again, perhaps without its DBC file: the cache of the
\* new process.
Restart ==
    /\ initialized' \in BOOLEAN
    /\ selected' = buildDefaultSelection(initialized')
    /\ ws' = IF ws = "open" THEN "dead" ELSE ws
    /\ Lost
    /\ UNCHANGED <<task, connected, panelVars>>

-----------------------------------------------------------------------------

(***************************************************************************)
(* The panel.                                                              *)
(***************************************************************************)

\* The signals of the message that the catalog shows under a direction.
Row(d, m) == { s \in SignalsOf[m] : <<d, s>> \in catalog }

Rows == { r \in Directions \X Message : Row(r[1], r[2]) # {} }

\* A message with anything unselected is selected whole, else deselected.
Toggled(d, m) ==
    IF Row(d, m) \subseteq chosen[d] THEN chosen[d] \ Row(d, m)
    ELSE chosen[d] \cup Row(d, m)

toggle_signal_selection(d, m) ==
    /\ task # "stopped" /\ InFlight < MaxInFlight
    /\ <<d, m>> \in Rows
    /\ chosen' = [chosen EXCEPT ![d] = Toggled(d, m)]
    /\ Send([cmd |-> "SetSignalSelection", asked |-> chosen'])
    /\ calm' = (calm /\ InFlight = 0 /\ ws = "open")
    /\ UNCHANGED <<serverVars, catalog>>

\* The button beside the trees.
apply_signal_selection ==
    /\ task # "stopped" /\ InFlight < MaxInFlight
    /\ Send([cmd |-> "SetSignalSelection", asked |-> chosen])
    /\ calm' = FALSE
    /\ UNCHANGED <<serverVars, catalog, chosen>>

\* Once after connect_ws, as soon as the flag is set.
request_signal_catalog ==
    /\ connected /\ InFlight < MaxInFlight
    /\ Send([cmd |-> "GetSignalCatalog"])
    /\ UNCHANGED <<serverVars, panelVars>>

\* _handle_signal_catalog
handle_signal_catalog ==
    /\ toPanel # <<>>
    /\ catalog' = Head(toPanel).entries
    /\ chosen' = [d \in Directions |->
                    { s \in Signal : <<d, s>> \in Head(toPanel).selected }]
    /\ calm' = (calm \/ InFlight = 1)
    /\ toPanel' = Tail(toPanel)
    /\ UNCHANGED <<task, ws, connected, toServer, serverVars>>

-----------------------------------------------------------------------------

Init ==
    /\ LinkInit
    /\ initialized \in BOOLEAN
    /\ selected = buildDefaultSelection(initialized)
    /\ catalog = {} /\ chosen = Nothing /\ calm = FALSE

Operator ==
    \/ \E d \in Directions, m \in Message : toggle_signal_selection(d, m)
    \/ apply_signal_selection
    \/ request_signal_catalog
    \/ (Start \/ Stop) /\ calm' = FALSE /\ UNCHANGED <<serverVars, catalog, chosen>>

Client ==
    \/ (Refused \/ Retry \/ ReceiveError) /\ UNCHANGED <<serverVars, panelVars>>
    \/ handle_signal_catalog

Network == Break /\ calm' = FALSE /\ UNCHANGED <<serverVars, catalog, chosen>>

Next == Operator \/ Client \/ Accept \/ Handle \/ Network \/ Restart

Spec == Init /\ [][Next]_vars

\* The event loop runs on, an attempt to connect ends, and a session's reader
\* takes the next command; the operator owes nothing.
Fairness ==
    /\ WF_vars(Client) /\ WF_vars(Accept \/ (Refused /\ UNCHANGED <<serverVars, panelVars>>))
    /\ WF_vars(Handle)

-----------------------------------------------------------------------------

\* What the panel shows is what the server has.
Agrees ==
    /\ catalog = Catalog
    /\ \A d \in Directions :
         chosen[d] = { s \in selected[d] : <<d, s>> \in Catalog }

\* Once nothing is on its way between them over an open connection, the panel
\* shows the server's selection, whatever was clicked, lost or restarted before.
PanelAgrees == ws = "open" /\ InFlight = 0 => Agrees

\* Nothing is selected that the panel cannot show, and so cannot deselect.
NothingHidden == \A d \in Directions : \A s \in selected[d] : <<d, s>> \in Catalog

\* The rows with anything in them, whole.
Whole(names) ==
    [d \in Directions |->
        UNION { Row(d, m) : m \in { n \in Message : Row(d, n) \cap names[d] # {} } }]

\* For an operator who waits for each answer, it changes nothing in what the
\* click showed, but that a message selected in part, as some are by default,
\* may now be selected whole: the panel and the server reckon a click alike.
Confirmed ==
    [][handle_signal_catalog /\ calm => chosen' \in {chosen, Whole(chosen)}]_vars

\* Lost connections do not leave the panel behind: once the connection holds
\* and the operator rests, it shows the server's selection for good.
Settles ==
    <>[](ws = "open") /\ <>[][~ Operator /\ ~ Restart]_vars => <>[]Agrees

\* A lost connection is owned up to and waited after: on a receive error the
\* panel forgets the socket, clears the flag and backs off before the next
\* attempt (README.md).
LossBacksOff ==
    [][task = "receiving" /\ task' # "receiving" /\ ~ Operator =>
         task' = "backoff" /\ ws' = "none" /\ ~ connected']_vars
=============================================================================
