--------------------------- MODULE SelectionProofs ---------------------------
(***************************************************************************)
(* The selection of signals, for every DBC file, every dbcconfig.ini and   *)
(* any number of commands on their way: an idle connection means that the  *)
(* panel shows the server's selection; an answer says what its click did;  *)
(* and nothing is selected that cannot be deselected.                      *)
(***************************************************************************)
EXTENDS SignalSelection, SequenceTheorems, TLAPS

\* dbcconfig.ini gives a message that direction.
Configured(d, m) ==
    \E l \in Lines :
        /\ l.section = "[MESSAGE_DIR]"
        /\ l.direction = IF d = "tx" THEN "RX" ELSE "TX"
        /\ KeyOf[l.name] = KeyOf[m]

\* The catalog of a server that has its DBC file.
Everything ==
    { e \in Directions \X Signal :
        \/ \E m \in Message : e[2] \in SignalsOf[m] /\ Configured(e[1], m)
        \/ e[2] \in Defaults[e[1]] }

Selection == [Directions -> SUBSET Signal]

\* The selections a panel can come to.
Askable == { f \in Selection : \A d \in Directions : \A s \in f[d] : <<d, s>> \in Everything }

Command ==
    [cmd : {"GetSignalCatalog"}] \cup [cmd : {"SetSignalSelection"}, asked : Askable]

Answer == [entries : SUBSET Everything, selected : SUBSET Everything]

Types ==
    /\ ws \in {"none", "open", "dead"}
    /\ toServer \in Seq(Command) /\ toPanel \in Seq(Answer)
    /\ initialized \in BOOLEAN /\ selected \in Selection
    /\ catalog \in SUBSET Everything /\ chosen \in Askable /\ calm \in BOOLEAN

\* What a panel has chosen after an answer.
Said(answer) == [d \in Directions |-> { s \in Signal : <<d, s>> \in answer.selected }]

\* Commands are on their way over an open connection only, and its socket is
\* the one the task receives from.
OnlyOpen ==
    /\ toServer # <<>> => ws = "open"
    /\ ws = "open" => task = "receiving"

\* Once the last command is handled, the last answer on its way is about what
\* the server has now; and once that is shown, the panel agrees.
LastWord ==
    ws = "open" /\ toServer = <<>> =>
        IF toPanel = <<>> THEN Agrees
        ELSE toPanel[Len(toPanel)] = selectionCatalog(selected)

\* All answers on their way say the same, and no more than the last click.
AnswersConfirm ==
    \A i \in 1 .. Len(toPanel) :
        /\ toPanel[i] = toPanel[1]
        /\ toPanel[i].entries = catalog
        /\ Said(toPanel[i]) \in {chosen, Whole(chosen)}

\* Nothing else is asked for.
OnlyGets(commands) == \A i \in 1 .. Len(commands) : commands[i].cmd # "SetSignalSelection"

\* The click is on its way, and nothing is before it.
Clicked ==
    /\ toPanel = <<>> /\ toServer # <<>>
    /\ Head(toServer).cmd = "SetSignalSelection" /\ Head(toServer).asked = chosen
    /\ OnlyGets(Tail(toServer))

\* The click has been carried out, or there was none.
Answered ==
    /\ OnlyGets(toServer) /\ AnswersConfirm
    /\ ws = "open" => Said(selectionCatalog(selected)) \in {chosen, Whole(chosen)}
    /\ ws = "open" /\ toPanel # <<>> => toPanel[1] = selectionCatalog(selected)

\* As the panel sees it when the operator waits for each answer.
CalmInv ==
    calm => /\ ws = "open" => catalog = Catalog
            /\ Clicked \/ Answered

IInv == Types /\ OnlyOpen /\ LastWord /\ CalmInv

-----------------------------------------------------------------------------

(***************************************************************************)
(* The operators.                                                          *)
(***************************************************************************)

\* The catalog is empty without a DBC file, and all there is with one.
LEMMA CatalogIs ==
    ASSUME initialized \in BOOLEAN
    PROVE  Catalog = IF initialized THEN Everything ELSE {}
<1>1. \A d \in Directions, m \in Message : m \in configuredCatalogMessages(d) <=> Configured(d, m)
  BY DEF configuredCatalogMessages, Configured, normalizeMessageKey
<1>2. ASSUME initialized
      PROVE  Catalog = Everything
  <2>1. \A m : defs(m) = SignalsOf[m]
    BY <1>2 DEF defs
  <2>2. ASSUME NEW e \in Directions \X Signal
        PROVE  e \in Catalog <=> e \in Everything
    <3>1. e[1] \in Directions
      OBVIOUS
    <3>2. (\E m \in configuredCatalogMessages(e[1]) : e[2] \in defs(m))
            <=> (\E m \in Message : e[2] \in SignalsOf[m] /\ Configured(e[1], m))
      BY <1>1, <2>1, <3>1 DEF configuredCatalogMessages
    <3> QED
      BY <1>2, <3>2 DEF Catalog, Everything
  <2> QED
    BY <2>2 DEF Catalog, Everything
<1>3. ASSUME ~ initialized
      PROVE  Catalog = {}
  BY <1>3 DEF Catalog, defs
<1> QED
  BY <1>2, <1>3

\* The same of the state after a step.
LEMMA CatalogAlso ==
    ASSUME initialized' \in BOOLEAN
    PROVE  Catalog' = IF initialized' THEN Everything ELSE {}
<1>1. (initialized \in BOOLEAN => Catalog = IF initialized THEN Everything ELSE {})'
  BY CatalogIs, PTL
<1> QED
  BY <1>1

\* An answer of the server, and what a panel makes of it.
LEMMA AnswerIs ==
    ASSUME initialized \in BOOLEAN, NEW f \in Selection
    PROVE  /\ selectionCatalog(f) \in Answer
           /\ Said(selectionCatalog(f)) =
                [d \in Directions |-> { s \in f[d] : <<d, s>> \in Catalog }]
<1>1. Catalog \in SUBSET Everything
  BY CatalogIs
<1>2. selectionCatalog(f).selected = { e \in Catalog : e[2] \in f[e[1]] }
  BY DEF selectionCatalog
<1>3. ASSUME NEW d \in Directions
      PROVE  Said(selectionCatalog(f))[d] = { s \in f[d] : <<d, s>> \in Catalog }
  <2>1. f[d] \subseteq Signal
    BY DEF Selection
  <2> QED
    BY <1>2, <2>1 DEF Said
<1> QED
  BY <1>1, <1>3 DEF Answer, Said, selectionCatalog

\* A panel asks for signals only that some answer has shown.
LEMMA SaidIsAskable ==
    ASSUME NEW a \in Answer
    PROVE  Said(a) \in Askable
BY DEF Said, Answer, Askable, Selection

\* The server selects signals of the DBC file, whatever was asked for.
LEMMA SetSelectionTypes ==
    ASSUME NEW asked
    PROVE  setSelection(asked) \in Selection
BY DEF setSelection, defs, Selection, Signal

\* A row of the tree is part of the catalog.
LEMMA RowTypes ==
    ASSUME NEW d \in Directions, NEW m \in Message
    PROVE  Row(d, m) \subseteq { s \in Signal : <<d, s>> \in catalog }
BY DEF Row, Signal

\* A click leaves the panel with signals it has seen.
LEMMA ToggledIsAskable ==
    ASSUME Types, NEW d \in Directions, NEW m \in Message
    PROVE  [chosen EXCEPT ![d] = Toggled(d, m)] \in Askable
<1>1. Row(d, m) \subseteq { s \in Signal : <<d, s>> \in Everything }
  BY RowTypes DEF Types
<1>2. chosen[d] \subseteq { s \in Signal : <<d, s>> \in Everything }
  BY DEF Types, Askable, Selection
<1>3. Toggled(d, m) \subseteq { s \in Signal : <<d, s>> \in Everything }
  BY <1>1, <1>2 DEF Toggled
<1> QED
  BY <1>3 DEF Types, Askable, Selection

\* The server carries out a click as the panel shows it.
LEMMA ClickIsWhole ==
    ASSUME Types, catalog = Catalog
    PROVE  Said(selectionCatalog(setSelection(chosen))) = Whole(chosen)
<1> DEFINE f == setSelection(chosen)
<1>1. f \in Selection
  BY SetSelectionTypes
<1>2. Said(selectionCatalog(f)) = [d \in Directions |-> { s \in f[d] : <<d, s>> \in Catalog }]
  BY <1>1, AnswerIs DEF Types
<1>3. ASSUME NEW d \in Directions
      PROVE  { s \in f[d] : <<d, s>> \in Catalog } = Whole(chosen)[d]
  <2>1. CASE initialized
    <3>1. Catalog = Everything /\ \A m : defs(m) = SignalsOf[m]
      BY <2>1, CatalogIs DEF Types, defs
    <3>2. \A s \in chosen[d] : <<d, s>> \in catalog
      BY <3>1 DEF Types, Askable
    <3>3. \A m \in Message : SignalsOf[m] \cap chosen[d] # {} <=> Row(d, m) \cap chosen[d] # {}
      BY <3>2 DEF Row
    <3>4. f[d] = UNION { SignalsOf[m] : m \in { n \in Message : SignalsOf[n] \cap chosen[d] # {} } }
      BY <3>1 DEF setSelection
    <3>5. Whole(chosen)[d] =
            UNION { Row(d, m) : m \in { n \in Message : Row(d, n) \cap chosen[d] # {} } }
      BY DEF Whole
    <3>6. ASSUME NEW s
          PROVE  s \in f[d] /\ <<d, s>> \in Catalog <=> s \in Whole(chosen)[d]
      <4>1. \A m \in Message : s \in SignalsOf[m] /\ <<d, s>> \in Catalog <=> s \in Row(d, m)
        BY DEF Row
      <4> HIDE DEF f
      <4> QED
        BY <3>3, <3>4, <3>5, <4>1
    <3> HIDE DEF f
    <3> QED
      BY <3>6, Zenon
  <2>2. CASE ~ initialized
    <3>1. Catalog = {}
      BY <2>2, CatalogIs DEF Types
    <3> QED
      BY <3>1 DEF Whole, Row
  <2> QED
    BY <2>1, <2>2 DEF Types
<1> QED
  BY <1>2, <1>3 DEF Whole

-----------------------------------------------------------------------------

(***************************************************************************)
(* Queues.                                                                 *)
(***************************************************************************)

\* A message joins a queue at its end.
LEMMA AppendTypes ==
    ASSUME NEW T, NEW q \in Seq(T), NEW e \in T
    PROVE  /\ Append(q, e) \in Seq(T)
           /\ Len(Append(q, e)) = Len(q) + 1
           /\ Append(q, e) # <<>>
           /\ \A i \in 1 .. Len(q) : Append(q, e)[i] = q[i]
           /\ Append(q, e)[Len(q) + 1] = e
OBVIOUS

\* A message leaves a queue at its head.
LEMMA TailTypes ==
    ASSUME NEW T, NEW q \in Seq(T), q # <<>>
    PROVE  /\ Head(q) \in T /\ Head(q) = q[1]
           /\ Tail(q) \in Seq(T)
           /\ Len(q) \in Nat \ {0}
           /\ Len(Tail(q)) = Len(q) - 1
           /\ \A i \in 1 .. Len(q) - 1 : Tail(q)[i] = q[i + 1]
OBVIOUS

\* The oldest messages of a queue.
LEMMA PrefixTypes ==
    ASSUME NEW T, NEW q \in Seq(T), NEW n \in 0 .. Len(q)
    PROVE  /\ SubSeq(q, 1, n) \in Seq(T)
           /\ Len(SubSeq(q, 1, n)) = n
           /\ \A i \in 1 .. n : SubSeq(q, 1, n)[i] = q[i]
OBVIOUS

\* A queue is empty when nothing is counted in it.
LEMMA EmptyQueue ==
    ASSUME NEW T, NEW q \in Seq(T)
    PROVE  Len(q) \in Nat /\ (q = <<>> <=> Len(q) = 0)
OBVIOUS

-----------------------------------------------------------------------------

(***************************************************************************)
(* Types.                                                                  *)
(***************************************************************************)

\* What a lost connection leaves: no command, and the oldest answers.
LEMMA LostTypes ==
    ASSUME Types, Lost
    PROVE  /\ toServer' = <<>> /\ toServer' \in Seq(Command)
           /\ toPanel' \in Seq(Answer)
           /\ Len(toPanel') \in 0 .. Len(toPanel)
           /\ \A i \in 1 .. Len(toPanel') : toPanel'[i] = toPanel[i]
<1>1. PICK n \in 0 .. Len(toPanel) : toPanel' = SubSeq(toPanel, 1, n)
  BY DEF Lost
<1>2. toPanel \in Seq(Answer)
  BY DEF Types
<1>3. <<>> \in Seq(Command)
  OBVIOUS
<1> QED
  BY <1>1, <1>2, <1>3, PrefixTypes DEF Lost

\* A command joins those on their way if the connection is open, else it is lost.
LEMMA SendTypes ==
    ASSUME Types, NEW c \in Command, Send(c)
    PROVE  /\ toServer' \in Seq(Command)
           /\ UNCHANGED <<task, ws, toPanel>>
           /\ ws = "open" => toServer' = Append(toServer, c) /\ toServer' # <<>>
           /\ ws # "open" => toServer' = toServer
<1>1. toServer \in Seq(Command)
  BY DEF Types
<1> QED
  BY <1>1, AppendTypes DEF Send

\* A session starts with the catalog.
LEMMA AcceptTypes ==
    ASSUME Types, Accept
    PROVE  /\ toPanel' = Append(toPanel, selectionCatalog(selected))
           /\ toPanel' \in Seq(Answer)
           /\ Len(toPanel') = Len(toPanel) + 1
           /\ toPanel'[Len(toPanel) + 1] = selectionCatalog(selected)
           /\ toPanel' # <<>>
           /\ ws' = "open" /\ task' = "receiving" /\ calm' = FALSE
           /\ UNCHANGED <<toServer, serverVars, catalog, chosen>>
<1>1. selectionCatalog(selected) \in Answer /\ toPanel \in Seq(Answer)
  BY AnswerIs DEF Types
<1>2. toPanel' = toPanel \o <<selectionCatalog(selected)>>
  BY DEF Accept, Opened
<1>3. toPanel' = Append(toPanel, selectionCatalog(selected))
  BY <1>1, <1>2
<1> QED
  BY <1>1, <1>3, AppendTypes DEF Accept, Opened

\* A command is answered with what the server has after it.
LEMMA HandleTypes ==
    ASSUME Types, Handle
    PROVE  /\ toServer' = Tail(toServer) /\ toServer' \in Seq(Command)
           /\ selected' \in Selection
           /\ toPanel' = Append(toPanel, selectionCatalog(selected'))
           /\ toPanel' \in Seq(Answer)
           /\ Len(toPanel') = Len(toPanel) + 1
           /\ toPanel'[Len(toPanel) + 1] = selectionCatalog(selected')
           /\ \A i \in 1 .. Len(toPanel) : toPanel'[i] = toPanel[i]
           /\ toPanel' # <<>>
           /\ UNCHANGED <<task, ws, initialized, panelVars>>
<1>1. toServer \in Seq(Command) /\ toServer # <<>> /\ toPanel \in Seq(Answer)
  BY DEF Types, Handle
<1>2. Tail(toServer) \in Seq(Command)
  BY <1>1, TailTypes
<1>3. selected' \in Selection
  BY SetSelectionTypes DEF Handle, Types
<1>4. selectionCatalog(selected') \in Answer
  BY <1>3, AnswerIs DEF Types
<1>5. toPanel' = Append(toPanel, selectionCatalog(selected'))
  BY DEF Handle
<1>6. /\ toServer' = Tail(toServer)
      /\ UNCHANGED <<task, ws, initialized, panelVars>>
  BY DEF Handle
<1> HIDE DEF Selection, Answer, Command
<1> QED
  BY <1>1, <1>2, <1>3, <1>4, <1>5, <1>6, AppendTypes

\* The panel takes the oldest answer for its catalog and its selection.
LEMMA ShowTypes ==
    ASSUME Types, handle_signal_catalog
    PROVE  /\ Head(toPanel) \in Answer /\ Head(toPanel) = toPanel[1]
           /\ toPanel # <<>> /\ Len(toPanel) \in Nat \ {0}
           /\ toPanel' = Tail(toPanel) /\ toPanel' \in Seq(Answer)
           /\ Len(toPanel') = Len(toPanel) - 1
           /\ \A i \in 1 .. Len(toPanel) - 1 : toPanel'[i] = toPanel[i + 1]
           /\ catalog' = toPanel[1].entries
           /\ chosen' = Said(toPanel[1])
           /\ chosen' \in Askable
           /\ catalog' \in SUBSET Everything
           /\ calm' = (calm \/ InFlight = 1)
           /\ UNCHANGED <<task, ws, toServer, serverVars>>
<1>1. toPanel \in Seq(Answer) /\ toPanel # <<>>
  BY DEF Types, handle_signal_catalog
<1>2. Head(toPanel) \in Answer /\ Head(toPanel) = toPanel[1]
  BY <1>1, TailTypes
<1>3. chosen' = Said(Head(toPanel)) /\ catalog' = Head(toPanel).entries
  BY DEF handle_signal_catalog, Said
<1>4. chosen' \in Askable /\ catalog' \in SUBSET Everything
  BY <1>2, <1>3, SaidIsAskable DEF Answer
<1> QED
  BY <1>1, <1>2, <1>3, <1>4, TailTypes DEF handle_signal_catalog

\* The two commands.
LEMMA CommandTypes ==
    /\ [cmd |-> "GetSignalCatalog"] \in Command
    /\ \A f \in Askable : [cmd |-> "SetSignalSelection", asked |-> f] \in Command
BY DEF Command

\* A click, and the button that asks for the selection as it is.
LEMMA ToggleTypes ==
    ASSUME Types, NEW d \in Directions, NEW m \in Message, toggle_signal_selection(d, m)
    PROVE  /\ chosen' \in Askable
           /\ [cmd |-> "SetSignalSelection", asked |-> chosen'] \in Command
           /\ Send([cmd |-> "SetSignalSelection", asked |-> chosen'])
           /\ calm' = (calm /\ InFlight = 0 /\ ws = "open")
           /\ UNCHANGED <<serverVars, catalog>>
<1>1. chosen' \in Askable
  BY ToggledIsAskable DEF toggle_signal_selection
<1> QED
  BY <1>1, CommandTypes DEF toggle_signal_selection

\* A new process has the default selection, and no session.
LEMMA RestartTypes ==
    ASSUME Types, Restart
    PROVE  /\ initialized' \in BOOLEAN /\ selected' \in Selection
           /\ Lost /\ ws' # "open" /\ ws' \in {"none", "dead"}
           /\ UNCHANGED panelVars
<1>1. Defaults \in Selection /\ Nothing \in Selection
  BY FilesAssumption DEF Selection, Nothing
<1>2. selected' \in Selection
  BY <1>1 DEF Restart, buildDefaultSelection
<1> QED
  BY <1>2 DEF Restart, Types

\* The types hold at first,
LEMMA InitTypes == Init => Types
<1> SUFFICES ASSUME Init PROVE Types
  OBVIOUS
<1>1. Defaults \in Selection /\ Nothing \in Askable /\ Nothing \in Selection
  BY FilesAssumption DEF Selection, Nothing, Askable
<1>2. selected \in Selection
  BY <1>1 DEF Init, buildDefaultSelection
<1>3. <<>> \in Seq(Command) /\ <<>> \in Seq(Answer)
  OBVIOUS
<1> HIDE DEF Command, Answer, Askable, Selection, Everything
<1> QED
  BY <1>1, <1>2, <1>3 DEF Init, LinkInit, Types

\* and every step keeps them.
LEMMA TypesStep == Types /\ [Next]_vars => Types'
<1> SUFFICES ASSUME Types, [Next]_vars PROVE Types'
  OBVIOUS
<1> USE DEF Types
<1> HIDE DEF Command, Answer, Askable, Selection, Everything
<1>1. ASSUME NEW d \in Directions, NEW m \in Message, toggle_signal_selection(d, m)
      PROVE  Types'
  BY <1>1, ToggleTypes, SendTypes DEF serverVars
<1>2. CASE apply_signal_selection
  BY <1>2, CommandTypes, SendTypes DEF apply_signal_selection, serverVars
<1>3. CASE request_signal_catalog
  BY <1>3, CommandTypes, SendTypes DEF request_signal_catalog, serverVars, panelVars
<1>4. CASE (Start \/ Stop) /\ calm' = FALSE /\ UNCHANGED <<serverVars, catalog, chosen>>
  BY <1>4, LostTypes DEF Start, Stop, serverVars
<1>5. CASE (Refused \/ Retry \/ ReceiveError) /\ UNCHANGED <<serverVars, panelVars>>
  BY <1>5 DEF Refused, Retry, ReceiveError, serverVars, panelVars
<1>6. CASE handle_signal_catalog
  BY <1>6, ShowTypes DEF serverVars
<1>7. CASE Accept
  BY <1>7, AcceptTypes DEF serverVars
<1>8. CASE Handle
  BY <1>8, HandleTypes DEF panelVars
<1>9. CASE Network
  BY <1>9, LostTypes DEF Network, Break, serverVars
<1>10. CASE Restart
  BY <1>10, RestartTypes, LostTypes DEF panelVars
<1>11. CASE UNCHANGED vars
  BY <1>11 DEF vars, linkVars, serverVars, panelVars
<1> QED
  BY <1>1, <1>2, <1>3, <1>4, <1>5, <1>6, <1>7, <1>8, <1>9, <1>10, <1>11
     DEF Next, Operator, Client

-----------------------------------------------------------------------------

(***************************************************************************)
(* The panel agrees.                                                       *)
(***************************************************************************)

\* No step leaves a command on its way without an open connection.
LEMMA OnlyOpenStep == Types /\ OnlyOpen /\ [Next]_vars => OnlyOpen'
<1> SUFFICES ASSUME Types, OnlyOpen, [Next]_vars PROVE OnlyOpen'
  OBVIOUS
<1> USE DEF OnlyOpen
<1>1. ASSUME NEW d \in Directions, NEW m \in Message, toggle_signal_selection(d, m)
      PROVE  OnlyOpen'
  BY <1>1, ToggleTypes, SendTypes
<1>2. CASE apply_signal_selection
  BY <1>2, CommandTypes, SendTypes DEF apply_signal_selection, Types
<1>3. CASE request_signal_catalog
  BY <1>3, CommandTypes, SendTypes DEF request_signal_catalog
<1>4. CASE Start \/ Stop \/ Network
  BY <1>4, LostTypes DEF Start, Stop, Network, Break
<1>5. CASE Refused \/ Retry \/ ReceiveError
  BY <1>5 DEF Refused, Retry, ReceiveError
<1>6. CASE handle_signal_catalog
  BY <1>6, ShowTypes
<1>7. CASE Accept
  BY <1>7, AcceptTypes
<1>8. CASE Handle
  BY <1>8, HandleTypes DEF Handle
<1>9. CASE Restart
  BY <1>9, RestartTypes, LostTypes
<1>10. CASE UNCHANGED vars
  BY <1>10 DEF vars, linkVars
<1> QED
  BY <1>1, <1>2, <1>3, <1>4, <1>5, <1>6, <1>7, <1>8, <1>9, <1>10
     DEF Next, Operator, Client

\* The catalog is a matter of the server's files only.
LEMMA CatalogKept == initialized' = initialized => Catalog' = Catalog
BY DEF Catalog, configuredCatalogMessages, defs, normalizeMessageKey

\* Nothing is on its way to a panel that cannot hear it; in those steps nothing
\* has to be shown.
LEMMA NotOpenSteps ==
    ASSUME Types, OnlyOpen,
           \/ Start \/ Stop \/ Network \/ Refused \/ Retry \/ ReceiveError \/ Restart
    PROVE  ws' # "open"
BY RestartTypes DEF OnlyOpen, Start, Stop, Network, Break, Refused, Retry, ReceiveError

\* What is sent over an open connection is on its way.
LEMMA SendingSteps ==
    ASSUME Types, NEW c \in Command, Send(c), ws' = "open"
    PROVE  toServer' # <<>>
BY SendTypes

\* Every step keeps the last answer true: each command is answered with what the
\* server has then, and only a command changes it while the connection holds.
LEMMA LastWordStep == Types /\ OnlyOpen /\ LastWord /\ [Next]_vars => LastWord'
<1> SUFFICES ASSUME Types, OnlyOpen, LastWord, [Next]_vars, ws' = "open", toServer' = <<>>
             PROVE  IF toPanel' = <<>> THEN Agrees'
                    ELSE toPanel'[Len(toPanel')] = selectionCatalog(selected)'
  BY DEF LastWord
<1>1. ASSUME NEW d \in Directions, NEW m \in Message, toggle_signal_selection(d, m)
      PROVE  FALSE
  BY <1>1, ToggleTypes, SendingSteps
<1>2. CASE apply_signal_selection
  BY <1>2, CommandTypes, SendingSteps DEF apply_signal_selection, Types
<1>3. CASE request_signal_catalog
  BY <1>3, CommandTypes, SendingSteps DEF request_signal_catalog
<1>4. CASE Start \/ Stop \/ Network \/ Refused \/ Retry \/ ReceiveError \/ Restart
  BY <1>4, NotOpenSteps
<1>5. CASE handle_signal_catalog
  <2>1. /\ toPanel # <<>> /\ ws = "open" /\ toServer = <<>>
        /\ initialized' = initialized /\ selected' = selected
    BY <1>5, ShowTypes DEF serverVars
  <2>2. toPanel[Len(toPanel)] = selectionCatalog(selected)
    BY <2>1 DEF LastWord
  <2>3. Catalog' = Catalog
    BY <2>1, CatalogKept
  <2>4. CASE Len(toPanel) = 1
    <3>1. toPanel' = <<>>
      BY <1>5, <2>4, ShowTypes, EmptyQueue
    <3>2. catalog' = Catalog
      BY <1>5, <2>2, <2>4, ShowTypes DEF selectionCatalog
    <3>3. chosen' = [d \in Directions |-> { s \in selected[d] : <<d, s>> \in Catalog }]
      BY <1>5, <2>2, <2>4, ShowTypes, AnswerIs DEF Types
    <3> QED
      BY <2>1, <2>3, <3>1, <3>2, <3>3 DEF Agrees
  <2>5. CASE Len(toPanel) # 1
    <3>1. /\ Len(toPanel) \in Nat \ {0, 1}
          /\ Len(toPanel') = Len(toPanel) - 1
          /\ toPanel'[Len(toPanel) - 1] = toPanel[Len(toPanel)]
      BY <1>5, <2>5, ShowTypes
    <3>2. toPanel' # <<>>
      BY <3>1
    <3>3. selectionCatalog(selected)' = selectionCatalog(selected)
      BY <2>1, <2>3 DEF selectionCatalog
    <3> QED
      BY <2>2, <3>1, <3>2, <3>3
  <2> QED
    BY <2>4, <2>5
<1>6. CASE Accept
  <2>1. selectionCatalog(selected)' = selectionCatalog(selected)
    BY <1>6, AcceptTypes, CatalogKept DEF serverVars, selectionCatalog
  <2> QED
    BY <1>6, <2>1, AcceptTypes
<1>7. CASE Handle
  <2>1. selectionCatalog(selected)' = selectionCatalog(selected')
    BY <1>7, HandleTypes, CatalogKept DEF selectionCatalog
  <2> QED
    BY <1>7, <2>1, HandleTypes
<1>8. CASE UNCHANGED vars
  <2>1. Catalog' = Catalog
    BY <1>8, CatalogKept DEF vars, serverVars
  <2> QED
    BY <1>8, <2>1 DEF vars, linkVars, serverVars, panelVars, LastWord, Agrees, selectionCatalog
<1> QED
  BY <1>1, <1>2, <1>3, <1>4, <1>5, <1>6, <1>7, <1>8 DEF Next, Operator, Client, Network

-----------------------------------------------------------------------------

(***************************************************************************)
(* Answers confirm clicks.                                                 *)
(***************************************************************************)

\* There is nothing to confirm.
LEMMA EmptyConfirms ==
    ASSUME toPanel' = <<>>
    PROVE  AnswersConfirm'
BY DEF AnswersConfirm

\* There is nothing asked for.
LEMMA NoCommands == OnlyGets(<<>>)
BY DEF OnlyGets

\* One more command that asks for nothing.
LEMMA OneMoreGet ==
    ASSUME NEW q \in Seq(Command), NEW c \in Command, c.cmd # "SetSignalSelection"
    PROVE  /\ OnlyGets(q) => OnlyGets(Append(q, c))
           /\ q # <<>> => /\ Head(Append(q, c)) = Head(q)
                          /\ OnlyGets(Tail(q)) => OnlyGets(Tail(Append(q, c)))
<1>1. ASSUME NEW r \in Seq(Command), OnlyGets(r)
      PROVE  OnlyGets(Append(r, c))
  <2>1. \A i \in 1 .. Len(r) + 1 : i \in 1 .. Len(r) \/ i = Len(r) + 1
    BY EmptyQueue
  <2> QED
    BY <1>1, <2>1, AppendTypes DEF OnlyGets
<1>2. ASSUME q # <<>>
      PROVE  Head(Append(q, c)) = Head(q) /\ Tail(Append(q, c)) = Append(Tail(q), c)
  BY <1>2
<1>3. q # <<>> => Tail(q) \in Seq(Command)
  OBVIOUS
<1> QED
  BY <1>1, <1>2, <1>3

\* One command less that asks for nothing.
LEMMA OneLessGet ==
    ASSUME NEW q \in Seq(Command), q # <<>>, OnlyGets(q)
    PROVE  Head(q).cmd # "SetSignalSelection" /\ OnlyGets(Tail(q))
<1>1. /\ Head(q) = q[1] /\ 1 \in 1 .. Len(q)
      /\ \A i \in 1 .. Len(Tail(q)) : Tail(q)[i] = q[i + 1] /\ i + 1 \in 1 .. Len(q)
  BY TailTypes
<1> QED
  BY <1>1 DEF OnlyGets

\* The panel takes an answer.
LEMMA ShowCalm ==
    ASSUME Types, OnlyOpen, LastWord, CalmInv, handle_signal_catalog, calm'
    PROVE  (ws' = "open" => catalog' = Catalog') /\ Answered'
<1>1. initialized' = initialized /\ selected' = selected /\ ws' = ws /\ toServer' = toServer
  BY ShowTypes DEF serverVars
<1>2. Catalog' = Catalog
  BY <1>1, CatalogKept
<1>3. selectionCatalog(selected)' = selectionCatalog(selected)
  BY <1>1, <1>2 DEF selectionCatalog
<1>4. toPanel[1].entries = catalog' /\ Said(toPanel[1]) = chosen'
  BY ShowTypes
<1>5. CASE calm
  <2>1. Answered /\ (ws = "open" => catalog = Catalog)
    BY <1>5, ShowTypes DEF CalmInv, Clicked
  <2>2. /\ Len(toPanel) \in Nat \ {0}
        /\ Len(toPanel') = Len(toPanel) - 1
        /\ \A i \in 1 .. Len(toPanel) - 1 : toPanel'[i] = toPanel[i + 1]
    BY ShowTypes
  <2>3. \A i \in 1 .. Len(toPanel) : toPanel[i] = toPanel[1] /\ toPanel[i].entries = catalog
    BY <2>1 DEF Answered, AnswersConfirm
  <2>4. \A i \in 1 .. Len(toPanel') : toPanel'[i] = toPanel[1]
    BY <2>2, <2>3
  <2>5. \A i \in 1 .. Len(toPanel') : 1 \in 1 .. Len(toPanel')
    BY <2>2
  <2>6. AnswersConfirm'
    BY <1>4, <2>4, <2>5 DEF AnswersConfirm
  <2>7. catalog' = catalog
    BY <1>4, <2>2, <2>3
  <2>8. ws = "open" => toPanel[1] = selectionCatalog(selected)
    BY <2>1, ShowTypes DEF Answered
  <2>9. ws' = "open" => Said(selectionCatalog(selected)) = chosen'
    BY <1>1, <1>4, <2>8
  <2>10. toPanel' # <<>> => toPanel'[1] = toPanel[1]
    BY <2>4, <2>2, ShowTypes, EmptyQueue
  <2>11. OnlyGets(toServer')
    BY <1>1, <2>1 DEF Answered
  <2>12. Said(selectionCatalog(selected))' = Said(selectionCatalog(selected))
    BY <1>3 DEF Said
  <2> QED
    BY <1>1, <1>2, <1>3, <2>1, <2>6, <2>7, <2>8, <2>9, <2>10, <2>11, <2>12 DEF Answered
<1>6. CASE ~ calm
  <2>1. Len(toPanel) = 1 /\ toServer = <<>>
    <3>1. InFlight = 1 /\ Len(toPanel) \in Nat \ {0} /\ toServer \in Seq(Command)
      BY <1>6, ShowTypes DEF Types
    <3>2. Len(toServer) = 0
      BY <3>1, EmptyQueue DEF InFlight
    <3> QED
      BY <3>1, <3>2, EmptyQueue DEF InFlight
  <2>2. toPanel' = <<>>
    BY <2>1, ShowTypes, EmptyQueue
  <2>3. ws = "open" => toPanel[1] = selectionCatalog(selected)
    BY <2>1, ShowTypes DEF LastWord
  <2>4. ws' = "open" => catalog' = Catalog /\ Said(selectionCatalog(selected)) = chosen'
    BY <1>1, <1>4, <2>3 DEF selectionCatalog
  <2>5. Said(selectionCatalog(selected))' = Said(selectionCatalog(selected))
    BY <1>3 DEF Said
  <2> QED
    BY <1>1, <1>2, <2>1, <2>2, <2>4, <2>5, EmptyConfirms, NoCommands DEF Answered
<1> QED
  BY <1>5, <1>6

\* What was on its way still confirms, and so does the part of it that stays.
LEMMA PrefixConfirms ==
    ASSUME AnswersConfirm, UNCHANGED <<catalog, chosen>>,
           toPanel \in Seq(Answer), Len(toPanel') \in 0 .. Len(toPanel),
           \A i \in 1 .. Len(toPanel') : toPanel'[i] = toPanel[i]
    PROVE  AnswersConfirm'
<1>1. Whole(chosen)' = Whole(chosen) /\ \A a : Said(a)' = Said(a)
  BY DEF Whole, Row, Said
<1>2. \A i \in 1 .. Len(toPanel') : i \in 1 .. Len(toPanel) /\ 1 \in 1 .. Len(toPanel')
  OBVIOUS
<1>3. ASSUME NEW i \in 1 .. Len(toPanel')
      PROVE  /\ toPanel'[i] = toPanel'[1]
             /\ toPanel'[i].entries = catalog'
             /\ Said(toPanel'[i]) \in {chosen', Whole(chosen)}
  BY <1>2, <1>3 DEF AnswersConfirm
<1> QED
  BY <1>1, <1>3 DEF AnswersConfirm, Said

\* One more answer, like the others.
LEMMA OneMoreConfirms ==
    ASSUME AnswersConfirm, UNCHANGED <<catalog, chosen>>,
           toPanel \in Seq(Answer), NEW a \in Answer, toPanel' = Append(toPanel, a),
           toPanel # <<>> => toPanel[1] = a,
           a.entries = catalog, Said(a) \in {chosen, Whole(chosen)}
    PROVE  AnswersConfirm'
<1>1. Whole(chosen)' = Whole(chosen)
  BY DEF Whole, Row
<1>2. ASSUME NEW i \in 1 .. Len(toPanel')
      PROVE  toPanel'[i] = a
  <2>1. i \in 1 .. Len(toPanel) \/ i = Len(toPanel) + 1
    BY EmptyQueue
  <2>2. i \in 1 .. Len(toPanel) => toPanel # <<>> /\ toPanel[i] = toPanel[1]
    BY DEF AnswersConfirm
  <2> HIDE DEF Answer
  <2>3. \A j \in 1 .. Len(toPanel) : toPanel'[j] = toPanel[j]
    BY AppendTypes
  <2>4. toPanel'[Len(toPanel) + 1] = a
    BY AppendTypes
  <2> QED
    BY <2>1, <2>2, <2>3, <2>4
<1>3. \A i \in 1 .. Len(toPanel') : 1 \in 1 .. Len(toPanel')
  OBVIOUS
<1>4. \A i \in 1 .. Len(toPanel') :
        /\ toPanel'[i] = toPanel'[1]
        /\ toPanel'[i].entries = catalog'
        /\ Said(toPanel'[i]) \in {chosen', Whole(chosen)}
  BY <1>2, <1>3
<1> QED
  BY <1>1, <1>4 DEF AnswersConfirm, Said

\* The server takes a command.
LEMMA HandleCalm ==
    ASSUME Types, OnlyOpen, CalmInv, Handle, calm'
    PROVE  (ws' = "open" => catalog' = Catalog') /\ Answered'
<1>1. /\ toServer # <<>> /\ ws = "open" /\ calm
      /\ catalog = Catalog /\ catalog' = catalog /\ chosen' = chosen
      /\ initialized' = initialized
  BY HandleTypes DEF Handle, OnlyOpen, CalmInv, panelVars
<1>2. Catalog' = Catalog
  BY <1>1, CatalogKept
<1>3. selectionCatalog(selected)' = selectionCatalog(selected')
  BY <1>2 DEF selectionCatalog
<1>4. Whole(chosen)' = Whole(chosen)
  BY <1>1 DEF Whole, Row
<1> DEFINE a == selectionCatalog(selected')
<1>5. a \in Answer /\ a.entries = catalog
  BY <1>1, HandleTypes, AnswerIs DEF Types, selectionCatalog
<1>6. Said(selectionCatalog(selected))' = Said(a)
  BY <1>3 DEF Said
<1>7. toPanel' = Append(toPanel, a) /\ toPanel \in Seq(Answer) /\ toServer' = Tail(toServer)
  BY HandleTypes DEF Types
<1> HIDE DEF a
<1>8. CASE Clicked
  <2>1. selected' = setSelection(chosen)
    BY <1>8 DEF Clicked, Handle
  <2>2. Said(a) = Whole(chosen)
    BY <1>1, <2>1, ClickIsWhole DEF a
  <2>3. toPanel = <<>>
    BY <1>8 DEF Clicked
  <2>4. AnswersConfirm
    BY <2>3 DEF AnswersConfirm
  <2>5. AnswersConfirm'
    BY <1>1, <1>5, <1>7, <2>2, <2>3, <2>4, OneMoreConfirms
  <2>6. toPanel'[1] = a
    BY <1>7, <2>3
  <2>7. OnlyGets(toServer')
    BY <1>7, <1>8 DEF Clicked
  <2> QED
    BY <1>1, <1>2, <1>3, <1>4, <1>6, <2>2, <2>5, <2>6, <2>7 DEF Answered, a, OnlyGets
<1>9. CASE Answered
  <2>1. /\ OnlyGets(toServer) /\ AnswersConfirm
        /\ Said(selectionCatalog(selected)) \in {chosen, Whole(chosen)}
        /\ toPanel # <<>> => toPanel[1] = selectionCatalog(selected)
    BY <1>1, <1>9 DEF Answered
  <2>2. Head(toServer).cmd # "SetSignalSelection" /\ OnlyGets(Tail(toServer))
    BY <1>1, <2>1, OneLessGet DEF Types
  <2>3. selected' = selected
    BY <2>2 DEF Handle
  <2>4. Said(a) \in {chosen, Whole(chosen)} /\ (toPanel # <<>> => toPanel[1] = a)
    BY <2>1, <2>3 DEF a
  <2>5. AnswersConfirm'
    BY <1>1, <1>5, <1>7, <2>1, <2>4, OneMoreConfirms
  <2>6. toPanel'[1] = a
    <3>1. toPanel = <<>> => toPanel'[1] = a
      BY <1>7
    <3>2. toPanel # <<>> => toPanel'[1] = toPanel[1]
      BY <1>7, <1>5
    <3> QED
      BY <2>4, <3>1, <3>2
  <2>7. OnlyGets(toServer')
    BY <1>7, <2>2
  <2> QED
    BY <1>1, <1>2, <1>3, <1>4, <1>6, <2>4, <2>5, <2>6, <2>7 DEF Answered, a, OnlyGets
<1> QED
  BY <1>1, <1>8, <1>9 DEF CalmInv

\* Without an open connection nothing is on its way to the server, and what is
\* on its way to the panel only gets less.
LEMMA CutCalm ==
    ASSUME Types, OnlyOpen, CalmInv, calm, UNCHANGED <<catalog, chosen>>,
           ws' # "open", toServer' = <<>>,
           Len(toPanel') \in 0 .. Len(toPanel),
           \A i \in 1 .. Len(toPanel') : toPanel'[i] = toPanel[i]
    PROVE  Answered'
<1>1. AnswersConfirm
  BY DEF CalmInv, Clicked, Answered, AnswersConfirm
<1>2. AnswersConfirm'
  BY <1>1, PrefixConfirms DEF Types
<1> QED
  BY <1>2, NoCommands DEF Answered, OnlyGets

\* The panel asks for the catalog.
LEMMA RequestCalm ==
    ASSUME Types, CalmInv, calm, request_signal_catalog
    PROVE  (ws' = "open" => catalog' = Catalog') /\ (Clicked' \/ Answered')
<1> DEFINE c == [cmd |-> "GetSignalCatalog"]
<1>1. c \in Command /\ c.cmd # "SetSignalSelection"
  BY CommandTypes
<1>2. /\ toServer \in Seq(Command)
      /\ UNCHANGED <<ws, toPanel, initialized, selected, catalog, chosen>>
      /\ toServer' = Append(toServer, c) \/ toServer' = toServer
  BY DEF Types, request_signal_catalog, Send, serverVars, panelVars
<1>3. Catalog' = Catalog
  BY <1>2, CatalogKept
<1>4. selectionCatalog(selected)' = selectionCatalog(selected) /\ Whole(chosen)' = Whole(chosen)
  BY <1>2, <1>3 DEF selectionCatalog, Whole, Row
<1>5. OnlyGets(toServer) => OnlyGets(toServer')
  BY <1>1, <1>2, OneMoreGet
<1>6. Answered => Answered'
  BY <1>2, <1>4, <1>5 DEF Answered, AnswersConfirm, Said, OnlyGets
<1>7. toServer # <<>> =>
        /\ toServer' # <<>> /\ Head(toServer') = Head(toServer)
        /\ OnlyGets(Tail(toServer)) => OnlyGets(Tail(toServer'))
  <2> HIDE DEF c, Command
  <2>1. Append(toServer, c) # <<>>
    BY <1>1, <1>2, AppendTypes
  <2> QED
    BY <1>1, <1>2, <2>1, OneMoreGet
<1>8. Clicked => Clicked'
  BY <1>2, <1>7 DEF Clicked, OnlyGets
<1> QED
  BY <1>2, <1>3, <1>6, <1>8 DEF CalmInv

\* A click of an operator who waited: nothing is before it.
LEMMA ToggleCalm ==
    ASSUME Types, CalmInv, NEW d \in Directions, NEW m \in Message,
           toggle_signal_selection(d, m), calm'
    PROVE  (ws' = "open" => catalog' = Catalog') /\ Clicked'
<1> DEFINE c == [cmd |-> "SetSignalSelection", asked |-> chosen']
<1>1. /\ calm /\ InFlight = 0 /\ ws = "open"
      /\ c \in Command /\ Send(c) /\ UNCHANGED <<initialized, selected, catalog>>
  BY ToggleTypes DEF serverVars
<1>2. toServer = <<>> /\ toPanel = <<>>
  <2>1. Len(toServer) \in Nat /\ Len(toPanel) \in Nat
    BY DEF Types
  <2> QED
    BY <1>1, <2>1, EmptyQueue DEF InFlight, Types
<1>3. toServer' = <<c>> /\ toPanel' = <<>> /\ ws' = ws
  BY <1>1, <1>2 DEF Send
<1>4. Head(toServer') = c /\ Tail(toServer') = <<>> /\ toServer' # <<>>
  BY <1>3
<1>5. Catalog' = Catalog
  BY <1>1, CatalogKept
<1> QED
  BY <1>1, <1>3, <1>4, <1>5, NoCommands DEF CalmInv, Clicked, OnlyGets

\* Every step keeps what a patient operator relies on.
LEMMA CalmStep == Types /\ OnlyOpen /\ LastWord /\ CalmInv /\ [Next]_vars => CalmInv'
<1> SUFFICES ASSUME Types, OnlyOpen, LastWord, CalmInv, [Next]_vars, calm'
             PROVE  /\ ws' = "open" => catalog' = Catalog'
                    /\ Clicked' \/ Answered'
  BY DEF CalmInv
<1>1. ASSUME NEW d \in Directions, NEW m \in Message, toggle_signal_selection(d, m)
      PROVE  (ws' = "open" => catalog' = Catalog') /\ Clicked'
  BY <1>1, ToggleCalm
<1>2. CASE apply_signal_selection
  BY <1>2 DEF apply_signal_selection
<1>3. CASE request_signal_catalog
  BY <1>3, RequestCalm DEF request_signal_catalog, panelVars
<1>4. CASE Network \/ ((Start \/ Stop) /\ calm' = FALSE /\ UNCHANGED <<serverVars, catalog, chosen>>)
  BY <1>4 DEF Network
<1>5. CASE (Refused \/ Retry \/ ReceiveError) /\ UNCHANGED <<serverVars, panelVars>>
  <2>1. /\ calm /\ ws # "open" /\ ws' # "open"
        /\ UNCHANGED <<toServer, toPanel, catalog, chosen>>
    BY <1>5 DEF Refused, Retry, ReceiveError, OnlyOpen, panelVars
  <2>2. toServer' = <<>> /\ Len(toPanel') \in 0 .. Len(toPanel)
    BY <2>1 DEF OnlyOpen, Types
  <2> QED
    BY <2>1, <2>2, CutCalm
<1>6. CASE handle_signal_catalog
  BY <1>6, ShowCalm
<1>7. CASE Accept
  BY <1>7, AcceptTypes
<1>8. CASE Handle
  BY <1>8, HandleCalm
<1>9. CASE Restart
  <2>1. calm /\ ws' # "open" /\ UNCHANGED <<catalog, chosen>>
    BY <1>9, RestartTypes DEF panelVars
  <2> QED
    BY <1>9, <2>1, LostTypes, CutCalm, RestartTypes
<1>10. CASE UNCHANGED vars
  <2>1. /\ UNCHANGED <<ws, toServer, toPanel, initialized, selected, catalog, chosen, calm>>
    BY <1>10 DEF vars, linkVars, serverVars, panelVars
  <2>2. Catalog' = Catalog
    BY <2>1, CatalogKept
  <2>3. selectionCatalog(selected)' = selectionCatalog(selected) /\ Whole(chosen)' = Whole(chosen)
    BY <2>1, <2>2 DEF selectionCatalog, Whole, Row
  <2>4. Clicked => Clicked'
    BY <2>1 DEF Clicked, OnlyGets
  <2>5. Answered => Answered'
    BY <2>1, <2>3 DEF Answered, AnswersConfirm, Said, OnlyGets
  <2> QED
    BY <2>1, <2>2, <2>4, <2>5 DEF CalmInv
<1> QED
  BY <1>1, <1>2, <1>3, <1>4, <1>5, <1>6, <1>7, <1>8, <1>9, <1>10
     DEF Next, Operator, Client

-----------------------------------------------------------------------------

(***************************************************************************)
(* The theorems.                                                           *)
(***************************************************************************)

\* The invariant holds at first,
LEMMA InitIInv == Init => IInv
<1> SUFFICES ASSUME Init PROVE IInv
  OBVIOUS
<1>1. ws = "none" /\ toServer = <<>> /\ calm = FALSE
  BY DEF Init, LinkInit
<1> QED
  BY <1>1, InitTypes DEF IInv, OnlyOpen, LastWord, CalmInv

\* and every step keeps it.
LEMMA IInvStep == IInv /\ [Next]_vars => IInv'
BY TypesStep, OnlyOpenStep, LastWordStep, CalmStep DEF IInv

\* The commands, answers and selections are of the shapes the two programs give
\* them; commands are under way over an open connection only; and the last
\* answer under way tells what the server has (do_session, DbcSignalCache).
THEOREM SelectionInvariant == Spec => []IInv
<1>1. Init => IInv
  BY InitIInv
<1>2. IInv /\ [Next]_vars => IInv'
  BY IInvStep
<1> QED
  BY <1>1, <1>2, PTL DEF Spec

\* Over an open connection with nothing under way the panel shows the server's
\* selection, whatever was clicked, lost or restarted before.
THEOREM PanelAgreesCorrect == Spec => []PanelAgrees
<1>1. IInv => PanelAgrees
  <2> SUFFICES ASSUME IInv, ws = "open", InFlight = 0 PROVE Agrees
    BY DEF PanelAgrees
  <2>1. toServer = <<>> /\ toPanel = <<>>
    <3>1. Len(toServer) \in Nat /\ Len(toPanel) \in Nat
      BY DEF IInv, Types
    <3> QED
      BY <3>1, EmptyQueue DEF InFlight, IInv, Types
  <2> QED
    BY <2>1 DEF IInv, LastWord
<1> QED
  BY <1>1, SelectionInvariant, PTL

\* The answer to the click of an operator who waits for each answer changes
\* nothing in what the click showed, but that a message selected in part may
\* now be selected whole (_handle_signal_catalog).
THEOREM ConfirmedCorrect == Spec => Confirmed
<1>1. IInv /\ [Next]_vars => [handle_signal_catalog /\ calm => chosen' \in {chosen, Whole(chosen)}]_vars
  <2> SUFFICES ASSUME IInv, handle_signal_catalog, calm
               PROVE  chosen' \in {chosen, Whole(chosen)}
    OBVIOUS
  <2>1. toPanel # <<>> /\ Len(toPanel) \in Nat \ {0} /\ chosen' = Said(toPanel[1])
    BY ShowTypes DEF IInv
  <2>2. AnswersConfirm
    BY <2>1 DEF IInv, CalmInv, Clicked, Answered
  <2> QED
    BY <2>1, <2>2 DEF AnswersConfirm
<1> QED
  BY <1>1, SelectionInvariant, PTL DEF Spec, Confirmed

\* Every message with a signal that is selected by default has a line in
\* dbcconfig.ini that gives it that direction.
DefaultsListed ==
    \A d \in Directions, m \in Message : Defaults[d] \cap SignalsOf[m] # {} => Configured(d, m)

\* A server whose defaults are all listed never comes to have selected a signal
\* that the catalog does not show: setSelection takes messages whole, and only
\* those a panel has shown.
THEOREM NothingHiddenCorrect == DefaultsListed => (Spec => []NothingHidden)
<1> SUFFICES ASSUME DefaultsListed PROVE Spec => []NothingHidden
  OBVIOUS
<1>1. ASSUME NEW d \in Directions, NEW m \in Message, NEW s \in SignalsOf[m],
             NEW t \in SignalsOf[m], <<d, s>> \in Everything
      PROVE  <<d, t>> \in Everything
  <2>1. t \in Signal /\ s \in Signal
    BY DEF Signal
  <2>2. Configured(d, m)
    <3>1. CASE s \in Defaults[d]
      BY <3>1 DEF DefaultsListed
    <3>2. CASE s \notin Defaults[d]
      <4>1. PICK l \in Message : s \in SignalsOf[l] /\ Configured(d, l)
        <5>1. \A e \in Everything :
                (\E l \in Message : e[2] \in SignalsOf[l] /\ Configured(e[1], l))
                  \/ e[2] \in Defaults[e[1]]
          BY DEF Everything
        <5>2. <<d, s>>[1] = d /\ <<d, s>>[2] = s
          OBVIOUS
        <5> QED
          BY <1>1, <3>2, <5>1, <5>2
      <4>2. l = m
        BY <4>1, FilesAssumption
      <4> QED
        BY <4>1, <4>2
    <3> QED
      BY <3>1, <3>2
  <2> QED
    BY <2>1, <2>2 DEF Everything
<1>2. ASSUME initialized \in BOOLEAN, NEW asked \in Askable,
             NEW d \in Directions, NEW t \in setSelection(asked)[d]
      PROVE  <<d, t>> \in Catalog
  <2>1. PICK m \in Message : t \in defs(m) /\ defs(m) \cap asked[d] # {}
    BY <1>2 DEF setSelection
  <2>2. PICK s : s \in defs(m) /\ s \in asked[d]
    BY <2>1
  <2>3. initialized /\ t \in SignalsOf[m] /\ s \in SignalsOf[m]
    BY <2>1, <2>2 DEF defs
  <2>4. <<d, s>> \in Everything
    BY <1>2, <2>2 DEF Askable
  <2> QED
    BY <1>1, <1>2, <2>3, <2>4, CatalogIs
<1>3. ASSUME NEW d \in Directions, NEW s \in Defaults[d]
      PROVE  <<d, s>> \in Everything
  BY <1>3, FilesAssumption DEF Everything
<1>4. ASSUME initialized \in BOOLEAN, selected = buildDefaultSelection(initialized)
      PROVE  NothingHidden
  BY <1>3, <1>4, CatalogIs DEF buildDefaultSelection, Nothing, NothingHidden
<1>5. Init => NothingHidden
  BY <1>4 DEF Init
<1>6. IInv /\ NothingHidden /\ [Next]_vars => NothingHidden'
  <2> SUFFICES ASSUME IInv, NothingHidden, [Next]_vars
               PROVE  \A d \in Directions : \A s \in selected'[d] : <<d, s>> \in Catalog'
    BY DEF NothingHidden
  <2>1. CASE Handle
    <3>1. initialized' = initialized /\ initialized \in BOOLEAN
      BY <2>1 DEF Handle, IInv, Types
    <3>2. Catalog' = Catalog
      BY <3>1, CatalogKept
    <3>3. CASE Head(toServer).cmd = "SetSignalSelection"
      <4>1. Head(toServer) \in Command
        BY <2>1, TailTypes DEF Handle, IInv, Types
      <4>2. Head(toServer).asked \in Askable
        BY <3>3, <4>1 DEF Command
      <4>3. selected' = setSelection(Head(toServer).asked)
        BY <2>1, <3>3 DEF Handle
      <4> QED
        BY <1>2, <3>1, <3>2, <4>2, <4>3
    <3>4. CASE Head(toServer).cmd # "SetSignalSelection"
      BY <2>1, <3>2, <3>4 DEF Handle, NothingHidden
    <3> QED
      BY <3>3, <3>4
  <2>2. CASE Restart
    <3>1. initialized' \in BOOLEAN /\ selected' = buildDefaultSelection(initialized')
      BY <2>2 DEF Restart
    <3>2. Catalog' = IF initialized' THEN Everything ELSE {}
      BY <3>1, CatalogAlso
    <3> QED
      BY <1>3, <3>1, <3>2 DEF buildDefaultSelection, Nothing
  <2>3. CASE initialized' = initialized /\ selected' = selected
    BY <2>3, CatalogKept DEF NothingHidden
  <2> QED
    BY <2>1, <2>2, <2>3 DEF Next, Operator, Client, Network, Accept, toggle_signal_selection,
       apply_signal_selection, request_signal_catalog, handle_signal_catalog, serverVars, vars
<1> QED
  BY <1>5, <1>6, SelectionInvariant, PTL DEF Spec
==============================================================================
