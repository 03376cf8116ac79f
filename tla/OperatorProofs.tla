--------------------------- MODULE OperatorProofs ---------------------------
(***************************************************************************)
(* From the panel to the bus, for any entries: when every command has been *)
(* handled, the frames say what the buttons last asked for.  The argument  *)
(* is one invariant: of each request, the last command on its way that     *)
(* names the field says it, or none does and the data model has it.        *)
(***************************************************************************)
EXTENDS OperatorPath, CodecProofs, SequenceTheorems

(***************************************************************************)
(* The words of a sequence of commands.                                    *)
(***************************************************************************)

\* The last command that names a field says e; none names it.
SaysLast(q, name, e) ==
    \E i \in 1 .. Len(q) :
        /\ name \in DOMAIN q[i] /\ q[i][name] = e
        /\ \A j \in 1 .. Len(q) : j > i => name \notin DOMAIN q[j]

Quiet(q, name) == \A i \in 1 .. Len(q) : name \notin DOMAIN q[i]

\* What a field will be when every command has been handled.
Latest(q, m, name, field, e) ==
    SaysLast(q, name, e) \/ (Quiet(q, name) /\ m[field] = e)

\* A sequence of one.
LEMMA OneSays ==
    ASSUME NEW c, NEW name
    PROVE  /\ name \in DOMAIN c => SaysLast(<<c>>, name, c[name])
           /\ name \notin DOMAIN c => Quiet(<<c>>, name)
           /\ Quiet(<<>>, name)
<1>1. Len(<<c>>) = 1 /\ <<c>>[1] = c
  OBVIOUS
<1>2. name \in DOMAIN c => SaysLast(<<c>>, name, c[name])
  BY <1>1 DEF SaysLast
<1>3. name \notin DOMAIN c => Quiet(<<c>>, name)
  BY <1>1 DEF Quiet
<1>4. Quiet(<<>>, name)
  BY DEF Quiet
<1> QED
  BY <1>2, <1>3, <1>4

\* One sequence after another: the second has the last word.
LEMMA BothSay ==
    ASSUME NEW S, NEW q \in Seq(S), NEW r \in Seq(S), NEW name, NEW e
    PROVE  /\ SaysLast(r, name, e) => SaysLast(q \o r, name, e)
           /\ Quiet(r, name) /\ SaysLast(q, name, e) => SaysLast(q \o r, name, e)
           /\ Quiet(r, name) /\ Quiet(q, name) => Quiet(q \o r, name)
<1>1. /\ Len(q \o r) = Len(q) + Len(r) /\ Len(q) \in Nat /\ Len(r) \in Nat
      /\ \A i \in 1 .. Len(q) : (q \o r)[i] = q[i]
      /\ \A i \in 1 .. Len(r) : (q \o r)[Len(q) + i] = r[i]
  OBVIOUS
<1>2. \A i \in 1 .. Len(q \o r) :
        \/ i \in 1 .. Len(q) /\ (q \o r)[i] = q[i]
        \/ i - Len(q) \in 1 .. Len(r) /\ (q \o r)[i] = r[i - Len(q)]
  OBVIOUS
<1> DEFINE s == q \o r
<1> HIDE DEF s
<1>3. /\ Len(s) = Len(q) + Len(r) /\ Len(q) \in Nat /\ Len(r) \in Nat
      /\ \A i \in 1 .. Len(q) : s[i] = q[i]
      /\ \A i \in 1 .. Len(r) : s[Len(q) + i] = r[i]
      /\ \A i \in 1 .. Len(s) :
           \/ i \in 1 .. Len(q) /\ s[i] = q[i]
           \/ i - Len(q) \in 1 .. Len(r) /\ s[i] = r[i - Len(q)]
  BY <1>1, <1>2 DEF s
<1>4. ASSUME SaysLast(r, name, e) PROVE SaysLast(s, name, e)
  <2>1. PICK i \in 1 .. Len(r) :
          /\ name \in DOMAIN r[i] /\ r[i][name] = e
          /\ \A j \in 1 .. Len(r) : j > i => name \notin DOMAIN r[j]
    BY <1>4 DEF SaysLast
  <2>2. Len(q) + i \in 1 .. Len(s) /\ s[Len(q) + i] = r[i]
    BY <1>3
  <2>3. ASSUME NEW j \in 1 .. Len(s), j > Len(q) + i PROVE name \notin DOMAIN s[j]
    <3>1. j - Len(q) \in 1 .. Len(r) /\ s[j] = r[j - Len(q)] /\ j - Len(q) > i
      BY <1>3, <2>3
    <3> QED
      BY <2>1, <3>1
  <2> QED
    BY <2>1, <2>2, <2>3 DEF SaysLast
<1>5. ASSUME Quiet(r, name), SaysLast(q, name, e) PROVE SaysLast(s, name, e)
  <2>1. PICK i \in 1 .. Len(q) :
          /\ name \in DOMAIN q[i] /\ q[i][name] = e
          /\ \A j \in 1 .. Len(q) : j > i => name \notin DOMAIN q[j]
    BY <1>5 DEF SaysLast
  <2>2. i \in 1 .. Len(s) /\ s[i] = q[i]
    BY <1>3
  <2>3. ASSUME NEW j \in 1 .. Len(s), j > i PROVE name \notin DOMAIN s[j]
    BY <1>3, <1>5, <2>1, <2>3 DEF Quiet
  <2> QED
    BY <2>1, <2>2, <2>3 DEF SaysLast
<1>6. ASSUME Quiet(r, name), Quiet(q, name) PROVE Quiet(s, name)
  BY <1>3, <1>6 DEF Quiet
<1> QED
  BY <1>4, <1>5, <1>6 DEF s

\* The first command is handled: what was said last still is, or the first was it.
LEMMA TailSays ==
    ASSUME NEW S, NEW q \in Seq(S), q # <<>>, NEW name, NEW e
    PROVE  /\ SaysLast(q, name, e) =>
                \/ SaysLast(Tail(q), name, e)
                \/ Quiet(Tail(q), name) /\ name \in DOMAIN Head(q) /\ Head(q)[name] = e
           /\ Quiet(q, name) => Quiet(Tail(q), name) /\ name \notin DOMAIN Head(q)
<1>1. /\ Len(q) \in Nat \ {0} /\ Len(Tail(q)) = Len(q) - 1 /\ Head(q) = q[1]
      /\ \A i \in 1 .. Len(q) - 1 : Tail(q)[i] = q[i + 1]
  OBVIOUS
<1> DEFINE t == Tail(q)
<1> HIDE DEF t
<1>2. /\ Len(q) \in Nat \ {0} /\ Len(t) = Len(q) - 1 /\ Head(q) = q[1]
      /\ \A i \in 1 .. Len(t) : t[i] = q[i + 1]
  BY <1>1 DEF t
<1>3. ASSUME SaysLast(q, name, e)
      PROVE  \/ SaysLast(t, name, e)
             \/ Quiet(t, name) /\ name \in DOMAIN Head(q) /\ Head(q)[name] = e
  <2>1. PICK i \in 1 .. Len(q) :
          /\ name \in DOMAIN q[i] /\ q[i][name] = e
          /\ \A j \in 1 .. Len(q) : j > i => name \notin DOMAIN q[j]
    BY <1>3 DEF SaysLast
  <2>2. CASE i = 1
    <3>1. ASSUME NEW k \in 1 .. Len(t) PROVE name \notin DOMAIN t[k]
      <4>1. t[k] = q[k + 1] /\ k + 1 \in 1 .. Len(q) /\ k + 1 > i
        BY <1>2, <2>2
      <4> QED
        BY <2>1, <4>1
    <3>2. Quiet(t, name)
      BY <3>1 DEF Quiet
    <3> QED
      BY <1>2, <2>1, <2>2, <3>2
  <2>3. CASE i > 1
    <3>1. i - 1 \in 1 .. Len(t) /\ t[i - 1] = q[i]
      BY <1>2, <2>3
    <3>2. ASSUME NEW k \in 1 .. Len(t), k > i - 1 PROVE name \notin DOMAIN t[k]
      <4>1. t[k] = q[k + 1] /\ k + 1 \in 1 .. Len(q) /\ k + 1 > i
        BY <1>2, <3>2
      <4> QED
        BY <2>1, <4>1
    <3> QED
      BY <2>1, <3>1, <3>2 DEF SaysLast
  <2> QED
    BY <2>2, <2>3
<1>4. ASSUME Quiet(q, name) PROVE Quiet(t, name) /\ name \notin DOMAIN Head(q)
  <2>1. ASSUME NEW k \in 1 .. Len(t) PROVE name \notin DOMAIN t[k]
    <3>1. t[k] = q[k + 1] /\ k + 1 \in 1 .. Len(q)
      BY <1>2
    <3> QED
      BY <1>4, <3>1 DEF Quiet
  <2>2. 1 \in 1 .. Len(q)
    BY <1>2
  <2> QED
    BY <1>2, <1>4, <2>1, <2>2 DEF Quiet
<1> QED
  BY <1>3, <1>4 DEF t

\* So a field that becomes what the command says of it still will be what is
\* said last.
LEMMA HeadSays ==
    ASSUME NEW S, NEW q \in Seq(S), q # <<>>, NEW m, NEW n, NEW name, NEW field, NEW e,
           Latest(q, m, name, field, e),
           name \in DOMAIN Head(q) => n[field] = Head(q)[name],
           name \notin DOMAIN Head(q) => n[field] = m[field]
    PROVE  Latest(Tail(q), n, name, field, e)
BY TailSays DEF Latest
-----------------------------------------------------------------------------

(***************************************************************************)
(* The inductive invariant.                                                *)
(***************************************************************************)

Numbers(S) == S \ {NotANumber}

\* The commands the panel sends.
Commands ==
    { Limits(p) : p \in { r \in Panel : r.M_max # NotANumber } }
      \cup { Torque(p) : p \in { r \in Panel : r.Iq # NotANumber } }
      \cup { Control(p) : p \in { r \in Panel : r.mode = "currents" \/ Setpoint(r) # NotANumber } }
      \cup { Over(Gear(p), Control(p)) :
               p \in { r \in Panel : r.mode = "currents" \/ Setpoint(r) # NotANumber } }
      \cup { Over([cmd |-> "SendControl"], Gear(p)) : p \in Panel }

\* What the fields of the data model may hold.
Held(m) ==
    /\ DOMAIN m = {"Kl_15", "En_Is", "Brake_active", "TCS_active", "MotorCtrl", "GearCtrl",
                   "M_desired", "SurgeDamperState", "M_max", "M_min", "M_grad_max",
                   "n_max", "Isd", "Isq"}
    /\ m.En_Is \in BOOLEAN
    /\ m.MotorCtrl \in {0, 1, 4} /\ m.GearCtrl \in {0, 2, 3, 4}
    /\ m.M_desired \in {0} \cup Numbers(Speeds) /\ m.Isq \in {0} \cup Numbers(Currents)
    /\ m.M_max \in {450} \cup Reports \cup Numbers(MaxTorques)
    /\ m.M_min \in {-450, -50} \cup { - r : r \in Reports }
    /\ m.M_grad_max \in {50, 4200} /\ m.n_max = 1000
    /\ m.SurgeDamperState = 2 /\ m.Isd = 0

\* The field of a command that carries a request, and what it has to say.
NameOf == [enable |-> "En_Is", Iq |-> "Isq", mode |-> "MotorCtrl", gear |-> "GearCtrl",
           M_max |-> "M_max"]

Want(key, v) ==
    IF key = "mode" THEN MOTOR_MODE_MAP[v] ELSE IF key = "gear" THEN GEAR_MAP[v] ELSE v

\* The frames are built from fields that hold, or will hold, what was asked.
Kept(key) == Latest(uplink, model, NameOf[key], NameOf[key], Want(key, asked[key]))

SpeedKept == asked.mode = "speed" => Latest(uplink, model, "ns", "M_desired", asked.setpoint)

\* The torque limits are those of the last report, if there was one since the
\* panel's.
ReportHeld == reported # Nothing => model.M_max = reported /\ model.M_min = - reported

\* If there was none they are the panel's, and the gradient is in any case.
LimitsHeld ==
    /\ reported = Nothing => model.M_max = asked.M_max /\ model.M_min = -50
    /\ model.M_grad_max = 50

LimitsKept ==
    asked.M_max # Nothing =>
      SaysLast(uplink, "M_max", asked.M_max) \/ (Quiet(uplink, "M_max") /\ LimitsHeld)

IInv ==
    /\ uplink \in Seq(Commands) /\ Len(uplink) <= MaxUplink
    /\ Held(model)
    /\ DOMAIN NameOf \cup {"setpoint"} \subseteq DOMAIN asked
    /\ bus.payload \subseteq 0 .. 63
    /\ Kept("enable") /\ Kept("Iq")
    /\ asked.mode # Nothing => Kept("mode")
    /\ asked.gear # Nothing => Kept("gear")
    /\ SpeedKept
    /\ LimitsKept /\ ReportHeld

-----------------------------------------------------------------------------

(***************************************************************************)
(* A press of a button.                                                    *)
(***************************************************************************)

\* Two sequences of one.
LEMMA PairIs ==
    ASSUME NEW S, NEW x \in S, NEW y \in S
    PROVE  <<x>> \o <<y>> = <<x, y>>
<1>1. <<x>> \in Seq(S) /\ <<y>> \in Seq(S) /\ <<x, y>> \in Seq(S)
  OBVIOUS
<1>2. PICK s \in Seq(S) : s = <<x>> \o <<y>>
  <2>1. \A q, r \in Seq(S) : q \o r \in Seq(S)
    OBVIOUS
  <2> QED
    BY <1>1, <2>1, Zenon
<1>3. PICK t \in Seq(S) : t = <<x, y>>
  BY <1>1
<1>4. Len(s) = 2 /\ s[1] = x /\ s[2] = y
  BY <1>2
<1>5. Len(t) = 2 /\ t[1] = x /\ t[2] = y
  BY <1>3
<1>6. Len(s) = Len(t) /\ \A i \in 1 .. Len(s) : s[i] = t[i]
  BY <1>4, <1>5
<1> QED
  BY <1>2, <1>3, <1>6, SeqEqual

\* A part of a handler is faithful when its commands say what it asks for and
\* nothing of what it does not.
Says(part, key) ==
    IF key \in DOMAIN part.intent
    THEN SaysLast(part.commands, NameOf[key], Want(key, part.intent[key]))
    ELSE Quiet(part.commands, NameOf[key])

SaysSpeed(part) ==
    IF "mode" \in DOMAIN part.intent
    THEN part.intent.mode = "speed" =>
           "setpoint" \in DOMAIN part.intent /\ SaysLast(part.commands, "ns", part.intent.setpoint)
    ELSE "setpoint" \notin DOMAIN part.intent /\ Quiet(part.commands, "ns")

Faithful(part) ==
    /\ part.commands \in Seq(Commands)
    /\ \A key \in DOMAIN NameOf : Says(part, key)
    /\ SaysSpeed(part)

\* A part that sends nothing and asks for nothing.
LEMMA NothingIsFaithful == Faithful([commands |-> <<>>, intent |-> <<>>])
<1>1. DOMAIN <<>> = {} /\ <<>> \in Seq(Commands)
  OBVIOUS
<1>2. \A name : Quiet(<<>>, name)
  BY OneSays
<1> QED
  BY <1>1, <1>2 DEF Faithful, Says, SaysSpeed

\* A part that sends one command.
LEMMA OneIsFaithful ==
    ASSUME NEW c \in Commands, NEW intent,
           \A key \in DOMAIN NameOf :
             IF key \in DOMAIN intent
             THEN NameOf[key] \in DOMAIN c /\ c[NameOf[key]] = Want(key, intent[key])
             ELSE NameOf[key] \notin DOMAIN c,
           IF "mode" \in DOMAIN intent
           THEN intent.mode = "speed" =>
                  "setpoint" \in DOMAIN intent /\ "ns" \in DOMAIN c /\ c.ns = intent.setpoint
           ELSE "setpoint" \notin DOMAIN intent /\ "ns" \notin DOMAIN c
    PROVE  Faithful([commands |-> <<c>>, intent |-> intent])
<1> DEFINE part == [commands |-> <<c>>, intent |-> intent]
<1>1. part.commands = <<c>> /\ part.intent = intent /\ <<c>> \in Seq(Commands)
  OBVIOUS
<1> HIDE DEF part
<1>2. \A name : /\ name \in DOMAIN c => SaysLast(<<c>>, name, c[name])
                /\ name \notin DOMAIN c => Quiet(<<c>>, name)
  BY OneSays
<1>3. ASSUME NEW key \in DOMAIN NameOf PROVE Says(part, key)
  BY <1>1, <1>2 DEF Says
<1>4. SaysSpeed(part)
  BY <1>1, <1>2 DEF SaysSpeed
<1>5. Faithful(part)
  BY <1>1, <1>3, <1>4 DEF Faithful
<1> QED
  BY <1>5 DEF part

\* One faithful part after another.
LEMMA ThenIsFaithful ==
    ASSUME NEW first, NEW second, Faithful(first), Faithful(second)
    PROVE  Faithful(Then(first, second))
<1> DEFINE q == first.commands
           r == second.commands
           both == Then(first, second)
<1>1. /\ both.commands = q \o r /\ both.intent = Over(second.intent, first.intent)
      /\ q \in Seq(Commands) /\ r \in Seq(Commands) /\ q \o r \in Seq(Commands)
  <2>1. both.commands = q \o r /\ both.intent = Over(second.intent, first.intent)
    BY Zenon DEF Then
  <2>2. q \in Seq(Commands) /\ r \in Seq(Commands)
    BY DEF Faithful
  <2>3. \A x, y \in Seq(Commands) : x \o y \in Seq(Commands)
    OBVIOUS
  <2> QED
    BY <2>1, <2>2, <2>3, Zenon
<1>2. PICK s : s = q \o r
  OBVIOUS
<1>3. PICK intent : intent = Over(second.intent, first.intent)
  OBVIOUS
<1>4. /\ DOMAIN intent = DOMAIN first.intent \cup DOMAIN second.intent
      /\ \A key \in DOMAIN second.intent : intent[key] = second.intent[key]
      /\ \A key \in DOMAIN first.intent :
           key \notin DOMAIN second.intent => intent[key] = first.intent[key]
  BY <1>3 DEF Over
<1>5. \A name, e :
        /\ SaysLast(r, name, e) => SaysLast(s, name, e)
        /\ Quiet(r, name) /\ SaysLast(q, name, e) => SaysLast(s, name, e)
        /\ Quiet(r, name) /\ Quiet(q, name) => Quiet(s, name)
  BY <1>1, <1>2, BothSay
<1>6. /\ both.commands = s /\ both.intent = intent /\ s \in Seq(Commands)
  BY <1>1, <1>2, <1>3
<1> HIDE DEF both, q, r
<1>7. ASSUME NEW key \in DOMAIN NameOf PROVE Says(both, key)
  <2>1. Says(first, key) /\ Says(second, key)
    BY DEF Faithful
  <2> QED
    BY <1>4, <1>5, <1>6, <2>1 DEF Says, q, r
<1>8. SaysSpeed(both)
  <2>1. SaysSpeed(first) /\ SaysSpeed(second)
    BY DEF Faithful
  <2> QED
    BY <1>4, <1>5, <1>6, <2>1 DEF SaysSpeed, q, r
<1>9. Faithful(both)
  BY <1>6, <1>7, <1>8 DEF Faithful
<1> QED
  BY <1>9 DEF both

\* The entries are numbers or none.
LEMMA PanelTypes ==
    ASSUME NEW p \in Panel
    PROVE  /\ p.mode \in {"currents", "speed", "torque"} /\ p.gear \in {"D", "R", "N"}
           /\ p.Iq \in Currents /\ p.speed \in Speeds /\ p.torque \in Torques
           /\ p.M_max \in MaxTorques
           /\ Setpoint(p) = IF p.mode = "currents" THEN p.Iq
                            ELSE IF p.mode = "speed" THEN p.speed ELSE p.torque
BY PanelAssumption DEF Panel, Setpoint

\* What the fields of each command say.
LEMMA LimitsSay ==
    ASSUME NEW p
    PROVE  /\ DOMAIN Limits(p) = {"cmd", "M_min", "M_max", "M_grad_max", "n_max"}
           /\ Limits(p).cmd = "SendLimits" /\ Limits(p).M_min = -50 /\ Limits(p).M_max = p.M_max
           /\ Limits(p).M_grad_max = 50 /\ Limits(p).n_max = 1000
BY DEF Limits

\* Likewise.
LEMMA TorqueSays ==
    ASSUME NEW p
    PROVE  /\ DOMAIN Torque(p) = {"cmd", "En_Is", "Isd", "Isq"}
           /\ Torque(p).cmd = "SendTorque" /\ Torque(p).En_Is = TRUE
           /\ Torque(p).Isd = 0 /\ Torque(p).Isq = p.Iq
BY DEF Torque

ControlNames(mode) ==
    {"cmd", "En_Is", "Kl_15", "MotorCtrl"}
      \cup (IF mode = "speed" THEN {"ns"} ELSE IF mode = "torque" THEN {"Ms"} ELSE {})

\* Likewise.
LEMMA ControlSays ==
    ASSUME NEW p \in Panel
    PROVE  /\ DOMAIN Control(p) = ControlNames(p.mode)
           /\ Control(p).cmd = "SendControl" /\ Control(p).MotorCtrl = MOTOR_MODE_MAP[p.mode]
           /\ p.mode = "currents" => Control(p).En_Is = TRUE
           /\ p.mode # "currents" => Control(p).En_Is = FALSE
           /\ p.mode = "speed" => Control(p).ns = p.speed
<1>1. CASE p.mode = "currents"
  <2>1. PICK c : c = [cmd |-> "SendControl", En_Is |-> TRUE, Kl_15 |-> FALSE, MotorCtrl |-> 1]
    OBVIOUS
  <2>2. Control(p) = c
    BY <1>1, <2>1, Zenon DEF Control
  <2>3. /\ DOMAIN c = {"cmd", "En_Is", "Kl_15", "MotorCtrl"}
        /\ c.cmd = "SendControl" /\ c.MotorCtrl = 1 /\ c.En_Is = TRUE
    BY <2>1
  <2> QED
    BY <1>1, <2>2, <2>3 DEF MOTOR_MODE_MAP, ControlNames
<1>2. CASE p.mode = "speed"
  <2>1. PICK c : c = [cmd |-> "SendControl", En_Is |-> FALSE, Kl_15 |-> TRUE, MotorCtrl |-> 4,
                      ns |-> p.speed]
    OBVIOUS
  <2>2. Control(p) = c
    BY <1>2, <2>1 DEF Control
  <2>3. /\ DOMAIN c = {"cmd", "En_Is", "Kl_15", "MotorCtrl", "ns"}
        /\ c.cmd = "SendControl" /\ c.MotorCtrl = 4 /\ c.En_Is = FALSE /\ c.ns = p.speed
    BY <2>1
  <2> QED
    BY <1>2, <2>2, <2>3 DEF MOTOR_MODE_MAP, ControlNames
<1>3. CASE p.mode = "torque"
  <2>1. PICK c : c = [cmd |-> "SendControl", En_Is |-> FALSE, Kl_15 |-> TRUE, MotorCtrl |-> 1,
                      Ms |-> p.torque]
    OBVIOUS
  <2>2. Control(p) = c
    BY <1>3, <2>1 DEF Control
  <2>3. /\ DOMAIN c = {"cmd", "En_Is", "Kl_15", "MotorCtrl", "Ms"}
        /\ c.cmd = "SendControl" /\ c.MotorCtrl = 1 /\ c.En_Is = FALSE
    BY <2>1
  <2> QED
    BY <1>3, <2>2, <2>3 DEF MOTOR_MODE_MAP, ControlNames
<1> QED
  BY <1>1, <1>2, <1>3, PanelTypes

\* The command of a gear alone, and with a mode.
LEMMA GearSays ==
    ASSUME NEW p \in Panel
    PROVE  /\ DOMAIN Over([cmd |-> "SendControl"], Gear(p)) = {"cmd", "GearCtrl"}
           /\ Over([cmd |-> "SendControl"], Gear(p)).cmd = "SendControl"
           /\ Over([cmd |-> "SendControl"], Gear(p)).GearCtrl = GEAR_MAP[p.gear]
           /\ DOMAIN Over(Gear(p), Control(p)) = ControlNames(p.mode) \cup {"GearCtrl"}
           /\ Over(Gear(p), Control(p)).GearCtrl = GEAR_MAP[p.gear]
           /\ \A f \in ControlNames(p.mode) : Over(Gear(p), Control(p))[f] = Control(p)[f]
<1>1. PICK g : g = Gear(p)
  OBVIOUS
<1>2. DOMAIN g = {"GearCtrl"} /\ g.GearCtrl = GEAR_MAP[p.gear]
  BY <1>1 DEF Gear
<1>3. PICK c : c = Control(p)
  OBVIOUS
<1>4. DOMAIN c = ControlNames(p.mode) /\ "GearCtrl" \notin DOMAIN c
  <2>1. DOMAIN c = ControlNames(p.mode)
    BY <1>3, ControlSays
  <2>2. "GearCtrl" \notin ControlNames(p.mode)
    BY DEF ControlNames
  <2> QED
    BY <2>1, <2>2
<1>5. PICK r : r = [cmd |-> "SendControl"]
  OBVIOUS
<1>6. DOMAIN r = {"cmd"} /\ r.cmd = "SendControl"
  BY <1>5
<1>7. /\ DOMAIN Over(r, g) = {"cmd", "GearCtrl"} /\ Over(r, g).cmd = "SendControl"
      /\ Over(r, g).GearCtrl = GEAR_MAP[p.gear]
  BY <1>2, <1>6 DEF Over
<1>8. /\ DOMAIN Over(g, c) = ControlNames(p.mode) \cup {"GearCtrl"}
      /\ Over(g, c).GearCtrl = GEAR_MAP[p.gear]
      /\ \A f \in ControlNames(p.mode) : Over(g, c)[f] = c[f]
  BY <1>2, <1>4 DEF Over
<1> QED
  BY <1>1, <1>3, <1>5, <1>7, <1>8
\* The intents.
LEMMA Intents ==
    ASSUME NEW p \in Panel
    PROVE  /\ DOMAIN [M_max |-> p.M_max] = {"M_max"} /\ [M_max |-> p.M_max].M_max = p.M_max
           /\ DOMAIN AskedCurrents(p) = {"enable", "Iq"}
           /\ AskedCurrents(p).enable = TRUE /\ AskedCurrents(p).Iq = p.Iq
           /\ DOMAIN AskedGear(p) = {"gear"} /\ AskedGear(p).gear = p.gear
           /\ DOMAIN AskedMode(p) = {"mode", "enable"}
                 \cup (IF p.mode = "currents" THEN {} ELSE {"setpoint"})
           /\ AskedMode(p).mode = p.mode
           /\ p.mode = "currents" => AskedMode(p).enable = TRUE
           /\ p.mode # "currents" => AskedMode(p).enable = FALSE
           /\ p.mode = "speed" => AskedMode(p).setpoint = p.speed
<1>1. DOMAIN [M_max |-> p.M_max] = {"M_max"} /\ [M_max |-> p.M_max].M_max = p.M_max
  OBVIOUS
<1>2. /\ DOMAIN AskedCurrents(p) = {"enable", "Iq"}
      /\ AskedCurrents(p).enable = TRUE /\ AskedCurrents(p).Iq = p.Iq
  BY DEF AskedCurrents
<1>3. DOMAIN AskedGear(p) = {"gear"} /\ AskedGear(p).gear = p.gear
  BY DEF AskedGear
<1>4. CASE p.mode = "currents"
  <2>1. PICK r : r = [mode |-> p.mode, enable |-> TRUE]
    OBVIOUS
  <2>2. AskedMode(p) = r
    BY <1>4, <2>1 DEF AskedMode
  <2>3. DOMAIN r = {"mode", "enable"} /\ r.mode = p.mode /\ r.enable = TRUE
    BY <2>1
  <2> QED
    BY <1>1, <1>2, <1>3, <1>4, <2>2, <2>3
<1>5. CASE p.mode # "currents"
  <2>1. PICK r : r = [mode |-> p.mode, enable |-> FALSE, setpoint |-> Setpoint(p)]
    OBVIOUS
  <2>2. AskedMode(p) = r
    BY <1>5, <2>1 DEF AskedMode
  <2>3. /\ DOMAIN r = {"mode", "enable", "setpoint"} /\ r.mode = p.mode /\ r.enable = FALSE
        /\ r.setpoint = Setpoint(p)
    BY <2>1
  <2> QED
    BY <1>1, <1>2, <1>3, <1>5, <2>2, <2>3, PanelTypes
<1> QED
  BY <1>4, <1>5

\* The keys of the panel's requests.
LEMMA Names ==
    /\ DOMAIN NameOf = {"enable", "Iq", "mode", "gear", "M_max"}
    /\ NameOf["enable"] = "En_Is" /\ NameOf["Iq"] = "Isq" /\ NameOf["mode"] = "MotorCtrl"
    /\ NameOf["gear"] = "GearCtrl" /\ NameOf["M_max"] = "M_max"
    /\ \A v : /\ Want("enable", v) = v /\ Want("Iq", v) = v /\ Want("M_max", v) = v
              /\ Want("mode", v) = MOTOR_MODE_MAP[v] /\ Want("gear", v) = GEAR_MAP[v]
BY DEF NameOf, Want

\* The limits alone,
LEMMA LimitsFaithful ==
    ASSUME NEW p \in Panel, p.M_max # NotANumber
    PROVE  Faithful([commands |-> <<Limits(p)>>, intent |-> [M_max |-> p.M_max]])
<1>1. Limits(p) \in Commands
  BY DEF Commands
<1>2. PICK c : c = Limits(p)
  OBVIOUS
<1>3. PICK r : r = [M_max |-> p.M_max]
  OBVIOUS
<1>4. DOMAIN c = {"cmd", "M_min", "M_max", "M_grad_max", "n_max"} /\ c.M_max = p.M_max
  BY <1>2, LimitsSay
<1>5. DOMAIN r = {"M_max"} /\ r.M_max = p.M_max
  BY <1>3, Intents
<1>6. \A key \in DOMAIN NameOf :
        IF key \in DOMAIN r
        THEN NameOf[key] \in DOMAIN c /\ c[NameOf[key]] = Want(key, r[key])
        ELSE NameOf[key] \notin DOMAIN c
  BY <1>4, <1>5, Names
<1>7. "mode" \notin DOMAIN r /\ "setpoint" \notin DOMAIN r /\ "ns" \notin DOMAIN c
  BY <1>4, <1>5
<1>8. Faithful([commands |-> <<c>>, intent |-> r])
  BY <1>1, <1>2, <1>6, <1>7, OneIsFaithful
<1> QED
  BY <1>2, <1>3, <1>8

\* the currents alone,
LEMMA TorqueFaithful ==
    ASSUME NEW p \in Panel, p.Iq # NotANumber
    PROVE  Faithful([commands |-> <<Torque(p)>>, intent |-> AskedCurrents(p)])
<1>1. Torque(p) \in Commands
  BY DEF Commands
<1>2. PICK c : c = Torque(p)
  OBVIOUS
<1>3. PICK r : r = AskedCurrents(p)
  OBVIOUS
<1>4. DOMAIN c = {"cmd", "En_Is", "Isd", "Isq"} /\ c.Isq = p.Iq
  BY <1>2, TorqueSays
<1>5. DOMAIN r = {"enable", "Iq"} /\ r.Iq = p.Iq
  BY <1>3, Intents
<1>6. c.En_Is = r.enable
  BY <1>2, <1>3, TorqueSays, Intents
<1>7. \A key \in DOMAIN NameOf :
        IF key \in DOMAIN r
        THEN NameOf[key] \in DOMAIN c /\ c[NameOf[key]] = Want(key, r[key])
        ELSE NameOf[key] \notin DOMAIN c
  BY <1>4, <1>5, <1>6, Names
<1>8. "mode" \notin DOMAIN r /\ "setpoint" \notin DOMAIN r /\ "ns" \notin DOMAIN c
  BY <1>4, <1>5
<1>9. Faithful([commands |-> <<c>>, intent |-> r])
  BY <1>1, <1>2, <1>7, <1>8, OneIsFaithful
<1> QED
  BY <1>2, <1>3, <1>9

\* the gear alone,
LEMMA GearFaithful ==
    ASSUME NEW p \in Panel
    PROVE  Faithful([commands |-> <<Over([cmd |-> "SendControl"], Gear(p))>>,
                     intent |-> AskedGear(p)])
<1>1. Over([cmd |-> "SendControl"], Gear(p)) \in Commands
  BY DEF Commands
<1>2. PICK c : c = Over([cmd |-> "SendControl"], Gear(p))
  OBVIOUS
<1>3. PICK r : r = AskedGear(p)
  OBVIOUS
<1>4. DOMAIN c = {"cmd", "GearCtrl"} /\ c.GearCtrl = GEAR_MAP[p.gear]
  BY <1>2, GearSays
<1>5. DOMAIN r = {"gear"} /\ r.gear = p.gear
  BY <1>3, Intents
<1>6. \A key \in DOMAIN NameOf :
        IF key \in DOMAIN r
        THEN NameOf[key] \in DOMAIN c /\ c[NameOf[key]] = Want(key, r[key])
        ELSE NameOf[key] \notin DOMAIN c
  BY <1>4, <1>5, Names
<1>7. "mode" \notin DOMAIN r /\ "setpoint" \notin DOMAIN r /\ "ns" \notin DOMAIN c
  BY <1>4, <1>5
<1>8. Faithful([commands |-> <<c>>, intent |-> r])
  BY <1>1, <1>2, <1>6, <1>7, OneIsFaithful
<1> QED
  BY <1>2, <1>3, <1>8

\* A SendControl for a mode, with what it asks for.
SaysMode(c, r, mode, speed) ==
    /\ c.MotorCtrl = MOTOR_MODE_MAP[mode] /\ r.mode = mode
    /\ c.En_Is = r.enable
    /\ mode = "speed" => c.ns = speed /\ r.setpoint = speed

\* the mode alone,
LEMMA ControlFaithful ==
    ASSUME NEW p \in Panel, p.mode = "currents" \/ Setpoint(p) # NotANumber
    PROVE  Faithful([commands |-> <<Control(p)>>, intent |-> AskedMode(p)])
<1>1. Control(p) \in Commands
  BY DEF Commands
<1>2. PICK c : c = Control(p)
  OBVIOUS
<1>3. PICK r : r = AskedMode(p)
  OBVIOUS
<1>4. DOMAIN c = ControlNames(p.mode)
  BY <1>2, ControlSays
<1>5. DOMAIN r = {"mode", "enable"} \cup (IF p.mode = "currents" THEN {} ELSE {"setpoint"})
  BY <1>3, Intents
<1>6. SaysMode(c, r, p.mode, p.speed)
  BY <1>2, <1>3, ControlSays, Intents DEF SaysMode
<1>7. \A key \in DOMAIN NameOf :
        IF key \in DOMAIN r
        THEN NameOf[key] \in DOMAIN c /\ c[NameOf[key]] = Want(key, r[key])
        ELSE NameOf[key] \notin DOMAIN c
  BY <1>4, <1>5, <1>6, Names DEF ControlNames, SaysMode
<1>8. "mode" \in DOMAIN r /\ (r.mode = "speed" =>
         "setpoint" \in DOMAIN r /\ "ns" \in DOMAIN c /\ c.ns = r.setpoint)
  BY <1>4, <1>5, <1>6 DEF ControlNames, SaysMode
<1>9. Faithful([commands |-> <<c>>, intent |-> r])
  BY <1>1, <1>2, <1>7, <1>8, OneIsFaithful
<1> QED
  BY <1>2, <1>3, <1>9

\* and the mode with the gear.
LEMMA ControlWithGearFaithful ==
    ASSUME NEW p \in Panel, p.mode = "currents" \/ Setpoint(p) # NotANumber
    PROVE  Faithful([commands |-> <<Over(Gear(p), Control(p))>>,
                     intent |-> Over(AskedGear(p), AskedMode(p))])
<1>1. Over(Gear(p), Control(p)) \in Commands
  BY DEF Commands
<1>2. PICK c : c = Over(Gear(p), Control(p))
  OBVIOUS
<1>3. PICK r : r = Over(AskedGear(p), AskedMode(p))
  OBVIOUS
<1>4. /\ DOMAIN c = ControlNames(p.mode) \cup {"GearCtrl"} /\ c.GearCtrl = GEAR_MAP[p.gear]
      /\ \A f \in ControlNames(p.mode) : c[f] = Control(p)[f]
  BY <1>2, GearSays
<1>5. /\ DOMAIN r = {"mode", "enable", "gear"}
            \cup (IF p.mode = "currents" THEN {} ELSE {"setpoint"})
      /\ r.gear = p.gear
      /\ \A f \in DOMAIN AskedMode(p) : r[f] = AskedMode(p)[f]
  <2>1. PICK g : g = AskedGear(p)
    OBVIOUS
  <2>2. PICK m : m = AskedMode(p)
    OBVIOUS
  <2>3. DOMAIN g = {"gear"} /\ g.gear = p.gear
    BY <2>1, Intents
  <2>4. DOMAIN m = {"mode", "enable"} \cup (IF p.mode = "currents" THEN {} ELSE {"setpoint"})
    BY <2>2, Intents
  <2>5. r = Over(g, m)
    BY <1>3, <2>1, <2>2
  <2> QED
    BY <2>2, <2>3, <2>4, <2>5 DEF Over
<1>6. SaysMode(c, r, p.mode, p.speed)
  <2>1. SaysMode(Control(p), AskedMode(p), p.mode, p.speed)
    BY ControlSays, Intents DEF SaysMode
  <2>2. /\ c.MotorCtrl = Control(p).MotorCtrl /\ c.En_Is = Control(p).En_Is
        /\ p.mode = "speed" => c.ns = Control(p).ns
    BY <1>4 DEF ControlNames
  <2>3. /\ r.mode = AskedMode(p).mode /\ r.enable = AskedMode(p).enable
        /\ p.mode = "speed" => r.setpoint = AskedMode(p).setpoint
    BY <1>5, Intents
  <2> QED
    BY <2>1, <2>2, <2>3 DEF SaysMode
<1>7. \A key \in DOMAIN NameOf :
        IF key \in DOMAIN r
        THEN NameOf[key] \in DOMAIN c /\ c[NameOf[key]] = Want(key, r[key])
        ELSE NameOf[key] \notin DOMAIN c
  BY <1>4, <1>5, <1>6, Names DEF ControlNames, SaysMode
<1>8. "mode" \in DOMAIN r /\ (r.mode = "speed" =>
         "setpoint" \in DOMAIN r /\ "ns" \in DOMAIN c /\ c.ns = r.setpoint)
  BY <1>4, <1>5, <1>6 DEF ControlNames, SaysMode
<1>9. Faithful([commands |-> <<c>>, intent |-> r])
  BY <1>1, <1>2, <1>7, <1>8, OneIsFaithful
<1> QED
  BY <1>2, <1>3, <1>9

\* Whatever is typed, a button sends what it asks for.
LEMMA ButtonsAreFaithful ==
    ASSUME NEW p \in Panel
    PROVE  /\ Faithful(send_limits_now(p)) /\ Faithful(send_torque_now(p))
           /\ Faithful(send_control_now(p)) /\ Faithful(set_gear_from_ui(p))
           /\ Faithful(send_all(p)) /\ Faithful(apply_mode(p))
<1>1. ASSUME NEW entry, NEW sent, NEW intent,
             entry # NotANumber => Faithful([commands |-> sent, intent |-> intent])
      PROVE  Faithful(Part(entry, sent, intent))
  BY <1>1, NothingIsFaithful, Zenon DEF Part
<1>2. Faithful(send_limits_now(p))
  BY <1>1, LimitsFaithful, Zenon DEF send_limits_now
<1>3. Faithful(send_torque_now(p))
  BY <1>1, TorqueFaithful, Zenon DEF send_torque_now
<1>4. Faithful(send_control_now(p))
  <2>1. PICK entry : entry = IF p.mode = "currents" THEN Nothing ELSE Setpoint(p)
    OBVIOUS
  <2>2. entry # NotANumber => p.mode = "currents" \/ Setpoint(p) # NotANumber
    BY <2>1
  <2> QED
    BY <1>1, <2>1, <2>2, ControlFaithful, Zenon DEF send_control_now
<1>5. Faithful(set_gear_from_ui(p))
  BY <1>1, GearFaithful, Zenon DEF set_gear_from_ui
<1>6. Faithful(apply_mode(p))
  BY <1>3, <1>4, ThenIsFaithful, Zenon DEF apply_mode
<1>7. Faithful(send_all(p))
  <2> DEFINE control == Over(Gear(p), Control(p))
             intent == Over(AskedGear(p), AskedMode(p))
             currents == Part(p.Iq, <<control, Torque(p)>>, Over(AskedCurrents(p), intent))
             other == Part(Setpoint(p), <<control>>, intent)
  <2>1. CASE p.mode = "currents"
    <3>1. ASSUME p.Iq # NotANumber
          PROVE  Faithful([commands |-> <<control, Torque(p)>>,
                           intent |-> Over(AskedCurrents(p), intent)])
      <4> DEFINE first == [commands |-> <<control>>, intent |-> intent]
                 second == [commands |-> <<Torque(p)>>, intent |-> AskedCurrents(p)]
      <4>1. Faithful(first)
        BY <2>1, ControlWithGearFaithful, Zenon
      <4>2. Faithful(second)
        BY <3>1, TorqueFaithful, Zenon
      <4>3. /\ first.commands = <<control>> /\ first.intent = intent
            /\ second.commands = <<Torque(p)>> /\ second.intent = AskedCurrents(p)
        BY Zenon
      <4>4. <<control>> \o <<Torque(p)>> = <<control, Torque(p)>>
        <5>1. control \in {control, Torque(p)} /\ Torque(p) \in {control, Torque(p)}
          OBVIOUS
        <5> HIDE DEF control
        <5> QED
          BY <5>1, PairIs, Zenon
      <4>5. Then(first, second) = [commands |-> <<control, Torque(p)>>,
                                   intent |-> Over(AskedCurrents(p), intent)]
        <5> HIDE DEF first, second, control, intent
        <5> QED
          BY <4>3, <4>4, Zenon DEF Then
      <4> QED
        <5> HIDE DEF first, second, control, intent
        <5> QED
          BY <4>1, <4>2, <4>5, ThenIsFaithful, Zenon
    <3>2. Faithful(currents)
      BY <1>1, <3>1, Zenon
    <3>3. send_all(p) = Then(send_limits_now(p), currents)
      BY <2>1, Zenon DEF send_all
    <3> QED
      <4> HIDE DEF currents
      <4> QED
        BY <1>2, <3>2, <3>3, ThenIsFaithful, Zenon
  <2>2. CASE p.mode # "currents"
    <3>1. Faithful(other)
      BY <1>1, ControlWithGearFaithful, Zenon
    <3>2. send_all(p) = Then(send_limits_now(p), other)
      BY <2>2, Zenon DEF send_all
    <3> QED
      <4> HIDE DEF other
      <4> QED
        BY <1>2, <3>1, <3>2, ThenIsFaithful, Zenon
  <2> QED
    BY <2>1, <2>2
<1> QED
  BY <1>2, <1>3, <1>4, <1>5, <1>6, <1>7

\* A press of a faithful button keeps the invariant.
LEMMA PressHolds ==
    ASSUME IInv, NEW part, Faithful(part), Press(part)
    PROVE  IInv'
<1> DEFINE q == uplink
           r == part.commands
<1>1. /\ uplink' = q \o r /\ Len(q) + Len(r) <= MaxUplink
      /\ asked' = Over(part.intent, asked) /\ model' = model /\ bus' = bus
      /\ reported' = reported
  BY DEF Press
<1>2. q \in Seq(Commands) /\ r \in Seq(Commands)
  BY DEF IInv, Faithful
<1>3. q \o r \in Seq(Commands) /\ Len(q \o r) = Len(q) + Len(r)
  BY <1>2
<1>4. PICK s : s = q \o r
  OBVIOUS
<1>5. \A name, e :
        /\ SaysLast(r, name, e) => SaysLast(s, name, e)
        /\ Quiet(r, name) /\ SaysLast(q, name, e) => SaysLast(s, name, e)
        /\ Quiet(r, name) /\ Quiet(q, name) => Quiet(s, name)
  BY <1>2, <1>4, BothSay
<1>6. PICK intent : intent = part.intent
  OBVIOUS
<1>7. /\ DOMAIN asked' = DOMAIN asked \cup DOMAIN intent
      /\ \A key \in DOMAIN intent : asked'[key] = intent[key]
      /\ \A key \in DOMAIN asked : key \notin DOMAIN intent => asked'[key] = asked[key]
  BY <1>1, <1>6 DEF Over
<1> HIDE DEF q, r
<1>8. DOMAIN NameOf \cup {"setpoint"} \subseteq DOMAIN asked
  BY DEF IInv
<1>9. \A key \in DOMAIN NameOf :
        IF key \in DOMAIN intent THEN SaysLast(r, NameOf[key], Want(key, intent[key]))
                                 ELSE Quiet(r, NameOf[key])
  BY <1>6 DEF Faithful, Says, r
<1>10. ASSUME NEW key \in DOMAIN NameOf
       PROVE  /\ key \in DOMAIN intent => Kept(key)'
              /\ key \notin DOMAIN intent => asked'[key] = asked[key] /\ (Kept(key) => Kept(key)')
  BY <1>1, <1>4, <1>5, <1>7, <1>8, <1>9 DEF Kept, Latest, q
<1>11. Kept("enable")' /\ Kept("Iq")'
  BY <1>10, Names DEF IInv
<1>12. /\ asked'.mode # Nothing => Kept("mode")'
       /\ asked'.gear # Nothing => Kept("gear")'
  BY <1>10, Names DEF IInv
<1>13. SpeedKept'
  <2>1. SaysSpeed(part)
    BY DEF Faithful
  <2>2. CASE "mode" \in DOMAIN intent
    <3>1. asked'.mode = "speed" => SaysLast(s, "ns", asked'.setpoint)
      BY <1>5, <1>6, <1>7, <2>1, <2>2 DEF SaysSpeed, r
    <3> QED
      BY <1>1, <1>4, <3>1 DEF SpeedKept, Latest
  <2>3. CASE "mode" \notin DOMAIN intent
    <3>1. /\ asked'.mode = asked.mode /\ asked'.setpoint = asked.setpoint
          /\ Quiet(r, "ns")
      BY <1>6, <1>7, <1>8, <2>1, <2>3, Names DEF SaysSpeed, r
    <3> QED
      BY <1>1, <1>4, <1>5, <3>1 DEF SpeedKept, Latest, IInv, q
  <2> QED
    BY <2>2, <2>3
<1>14. LimitsKept'
  <2>1. CASE "M_max" \in DOMAIN intent
    <3>1. SaysLast(s, "M_max", asked'.M_max)
      BY <1>5, <1>7, <1>9, <2>1, Names
    <3> QED
      BY <1>1, <1>4, <3>1 DEF LimitsKept
  <2>2. CASE "M_max" \notin DOMAIN intent
    <3>1. asked'.M_max = asked.M_max /\ Quiet(r, "M_max")
      BY <1>7, <1>8, <1>9, <2>2, Names
    <3> QED
      BY <1>1, <1>4, <1>5, <3>1 DEF LimitsKept, LimitsHeld, IInv, q
  <2> QED
    BY <2>1, <2>2
<1>15. uplink' \in Seq(Commands) /\ Len(uplink') <= MaxUplink
  BY <1>1, <1>3
<1>16. Held(model)' /\ (bus.payload \subseteq 0 .. 63)'
  <2>1. Held(model')
    BY <1>1 DEF IInv
  <2> QED
    BY <1>1, <2>1 DEF IInv
<1>17. (DOMAIN NameOf \cup {"setpoint"} \subseteq DOMAIN asked)'
  BY <1>7, <1>8
<1>18. ReportHeld'
  BY <1>1 DEF IInv, ReportHeld
<1> QED
  BY <1>11, <1>12, <1>13, <1>14, <1>15, <1>16, <1>17, <1>18 DEF IInv

-----------------------------------------------------------------------------

(***************************************************************************)
(* The frames.                                                             *)
(***************************************************************************)

\* A field of the payload, and the bytes it is written to.
InFrame(s, n) == s \in Nat /\ n \in 1 .. 24 /\ (s \div 8) + startByteInValue(s, n) <= 7

\* The calls of a frame write within its eight bytes.
LEMMA PackAllInFrame ==
    ASSUME NEW calls, \A c \in calls : InFrame(c[2], c[3])
    PROVE  PackAll(calls) \subseteq 0 .. 63
<1>1. ASSUME NEW v, NEW s, NEW n, InFrame(s, n)
      PROVE  Pack({}, Bits(v), s, n) \subseteq 0 .. 63
  <2>1. s \in Nat /\ n \in 1 .. 24
    BY <1>1 DEF InFrame
  <2>2. /\ shift(s, n) \in 0 .. 7 /\ startByteInValue(s, n) \in 0 .. 3
        /\ (s \div 8) + startByteInValue(s, n) <= 7
    BY <1>1, <2>1, ShiftAndBytes DEF InFrame
  <2>3. PICK a \in Nat : a = s \div 8
    BY <2>1, SMT
  <2>4. PICK last \in 0 .. 3 : last = startByteInValue(s, n)
    BY <2>2
  <2>5. PICK h \in 0 .. 7 : h = shift(s, n)
    BY <2>2
  <2>6. Bits(v) \subseteq Nat
    BY SMT DEF Bits
  <2>7. ASSUME NEW k \in Nat, k + h <= 8 * last + 7
        PROVE  Landing(s, n, k + h) \in 0 .. 63
    <3>1. PICK j \in Nat : j = k + h
      BY <2>5, SMT
    <3>2. /\ j \div 8 \in Nat /\ j % 8 \in 0 .. 7 /\ j = 8 * (j \div 8) + (j % 8)
          /\ j <= 8 * last + 7
      BY <2>7, <3>1, SMT
    <3>3. a + last <= 7
      BY <2>2, <2>3, <2>4
    <3>4. 8 * (a + last - (j \div 8)) + (j % 8) \in 0 .. 63
      BY <3>2, <3>3, SMT
    <3> QED
      BY <2>3, <2>4, <3>1, <3>4 DEF Landing
  <2> QED
    BY <2>4, <2>5, <2>6, <2>7 DEF Pack
<1>2. \A c \in calls : Pack({}, Bits(c[1]), c[2], c[3]) \subseteq 0 .. 63
  BY <1>1
<1> QED
  BY <1>2 DEF PackAll

\* So every frame is one of eight bytes.
LEMMA PayloadsAre ==
    ASSUME NEW data, NEW id \in FrameIds
    PROVE  PayloadOf(id, data) \subseteq 0 .. 63
<1>1. /\ InFrame(8, 1) /\ InFrame(7, 11) /\ InFrame(10, 2) /\ InFrame(11, 1)
      /\ InFrame(47, 4) /\ InFrame(23, 1) /\ InFrame(22, 3)
      /\ InFrame(12, 14) /\ InFrame(30, 11) /\ InFrame(43, 5)
      /\ InFrame(7, 16) /\ InFrame(23, 16) /\ InFrame(39, 1)
  BY SMT DEF InFrame, startByteInValue, lengthInBytesIncreased, Difference
<1>2. ControlPayload(data) \subseteq 0 .. 63
  BY <1>1, PackAllInFrame DEF ControlPayload
<1>3. LimitPayload(data) \subseteq 0 .. 63
  BY <1>1, PackAllInFrame DEF LimitPayload
<1>4. CurrentPayload(data) \subseteq 0 .. 63
  BY <1>1, PackAllInFrame DEF CurrentPayload
<1> QED
  BY <1>2, <1>3, <1>4 DEF PayloadOf, FrameIds

-----------------------------------------------------------------------------

(***************************************************************************)
(* The server handles a command.                                           *)
(***************************************************************************)

\* The three kinds of commands.
IsLimits(c) ==
    /\ c.cmd = "SendLimits" /\ DOMAIN c = {"cmd", "M_min", "M_max", "M_grad_max", "n_max"}
    /\ c.M_min = -50 /\ c.M_max \in Numbers(MaxTorques) /\ c.M_grad_max = 50 /\ c.n_max = 1000

IsTorque(c) ==
    /\ c.cmd = "SendTorque" /\ DOMAIN c = {"cmd", "En_Is", "Isd", "Isq"}
    /\ c.En_Is \in BOOLEAN /\ c.Isd = 0 /\ c.Isq \in Numbers(Currents)

IsControl(c) ==
    /\ c.cmd = "SendControl"
    /\ DOMAIN c \subseteq {"cmd", "En_Is", "Kl_15", "MotorCtrl", "ns", "Ms", "GearCtrl"}
    /\ "En_Is" \in DOMAIN c => c.En_Is \in BOOLEAN
    /\ "MotorCtrl" \in DOMAIN c => c.MotorCtrl \in {1, 4}
    /\ "GearCtrl" \in DOMAIN c => c.GearCtrl \in {2, 3, 4}
    /\ "ns" \in DOMAIN c => c.ns \in Numbers(Speeds)

\* The panel sends no other.
LEMMA CommandsAre ==
    ASSUME NEW c \in Commands
    PROVE  IsLimits(c) \/ IsTorque(c) \/ IsControl(c)
<1>1. ASSUME NEW p \in Panel, p.M_max # NotANumber, c = Limits(p)
      PROVE  IsLimits(c)
  BY <1>1, LimitsSay, PanelTypes DEF IsLimits, Numbers
<1>2. ASSUME NEW p \in Panel, p.Iq # NotANumber, c = Torque(p)
      PROVE  IsTorque(c)
  BY <1>2, TorqueSays, PanelTypes DEF IsTorque, Numbers
<1>3. \A p \in Panel : MOTOR_MODE_MAP[p.mode] \in {1, 4} /\ GEAR_MAP[p.gear] \in {2, 3, 4}
  BY PanelTypes DEF MOTOR_MODE_MAP, GEAR_MAP
<1>4. ASSUME NEW p \in Panel, p.mode = "currents" \/ Setpoint(p) # NotANumber
      PROVE  /\ Control(p).En_Is \in BOOLEAN
             /\ "ns" \in ControlNames(p.mode) => Control(p).ns \in Numbers(Speeds)
  <2>1. Control(p).En_Is \in BOOLEAN
    BY ControlSays, Zenon
  <2>2. ASSUME "ns" \in ControlNames(p.mode) PROVE p.mode = "speed"
    BY <2>2 DEF ControlNames
  <2>3. ASSUME p.mode = "speed" PROVE Control(p).ns \in Numbers(Speeds)
    BY <1>4, <2>3, ControlSays, PanelTypes DEF Numbers
  <2> QED
    BY <2>1, <2>2, <2>3
<1>5. ASSUME NEW p \in Panel, p.mode = "currents" \/ Setpoint(p) # NotANumber, c = Control(p)
      PROVE  IsControl(c)
  <2>1. DOMAIN c = ControlNames(p.mode) /\ c.cmd = "SendControl"
        /\ c.MotorCtrl = MOTOR_MODE_MAP[p.mode]
    BY <1>5, ControlSays
  <2>2. ControlNames(p.mode) \subseteq {"cmd", "En_Is", "Kl_15", "MotorCtrl", "ns", "Ms"}
    BY DEF ControlNames
  <2>3. c.En_Is \in BOOLEAN /\ ("ns" \in DOMAIN c => c.ns \in Numbers(Speeds))
    BY <1>4, <1>5, <2>1
  <2> QED
    BY <1>3, <2>1, <2>2, <2>3 DEF IsControl
<1>6. ASSUME NEW p \in Panel, p.mode = "currents" \/ Setpoint(p) # NotANumber,
             c = Over(Gear(p), Control(p))
      PROVE  IsControl(c)
  <2>1. /\ DOMAIN c = ControlNames(p.mode) \cup {"GearCtrl"} /\ c.GearCtrl = GEAR_MAP[p.gear]
        /\ \A f \in ControlNames(p.mode) : c[f] = Control(p)[f]
    BY <1>6, GearSays
  <2>2. /\ {"cmd", "En_Is", "MotorCtrl"} \subseteq ControlNames(p.mode)
        /\ ControlNames(p.mode) \subseteq {"cmd", "En_Is", "Kl_15", "MotorCtrl", "ns", "Ms"}
    BY DEF ControlNames
  <2>3. c.cmd = "SendControl" /\ c.MotorCtrl = MOTOR_MODE_MAP[p.mode]
    BY <2>1, <2>2, ControlSays
  <2>4. c.En_Is \in BOOLEAN /\ ("ns" \in DOMAIN c => c.ns \in Numbers(Speeds))
    BY <1>4, <1>6, <2>1, <2>2
  <2> QED
    BY <1>3, <2>1, <2>2, <2>3, <2>4 DEF IsControl
<1>7. ASSUME NEW p \in Panel, c = Over([cmd |-> "SendControl"], Gear(p))
      PROVE  IsControl(c)
  <2>1. DOMAIN c = {"cmd", "GearCtrl"} /\ c.cmd = "SendControl"
        /\ c.GearCtrl = GEAR_MAP[p.gear]
    BY <1>7, GearSays
  <2> QED
    BY <1>3, <2>1 DEF IsControl
<1> QED
  BY <1>1, <1>2, <1>5, <1>6, <1>7 DEF Commands

\* What a data model n has of a command j and of the model m before it.
Takes(j, m, n) ==
    /\ \A name \in {"En_Is", "Isq", "MotorCtrl", "GearCtrl", "M_max"} :
         n[name] = IF name \in DOMAIN j THEN j[name] ELSE m[name]
    /\ n.M_desired = IF "ns" \in DOMAIN j THEN j.ns ELSE m.M_desired
    /\ IF "M_max" \in DOMAIN j THEN n.M_min = -50 /\ n.M_grad_max = 50
                               ELSE n.M_min = m.M_min /\ n.M_grad_max = m.M_grad_max

\* The command handled is stored, whole, and a frame is sent; limits of the panel
\* take the place of a report.
LEMMA HandleIs ==
    ASSUME IInv, handleCommand
    PROVE  /\ uplink # <<>> /\ uplink' = Tail(uplink) /\ asked' = asked
           /\ reported' = IF "M_max" \in DOMAIN Head(uplink) THEN Nothing ELSE reported
           /\ Takes(Head(uplink), model, model') /\ Held(model')
           /\ \E id \in FrameIds : Sends(id)
<1> DEFINE j == Head(uplink)
<1>1. uplink # <<>> /\ uplink' = Tail(uplink) /\ asked' = asked /\ j \in Commands
  BY DEF handleCommand, IInv
<1>2. IsLimits(j) \/ IsTorque(j) \/ IsControl(j)
  BY <1>1, CommandsAre
<1>3. Held(model)
  BY DEF IInv
<1>4. PICK m : m = model
  OBVIOUS
<1>5. PICK n : n = model'
  OBVIOUS
<1>6. CASE /\ j.cmd = "SendControl" /\ model' = apply_control_fields(j)
           /\ Sends("0x046") /\ reported' = reported
  <2>1. IsControl(j)
    BY <1>2, <1>6 DEF IsLimits, IsTorque
  <2>2. /\ DOMAIN n = DOMAIN m
        /\ \A f \in DOMAIN m \ {"M_desired"} :
             n[f] = IF f \in {"MotorCtrl", "GearCtrl", "Kl_15", "Brake_active", "TCS_active",
                              "En_Is"} \cap DOMAIN j THEN j[f] ELSE m[f]
        /\ n.M_desired = IF "ns" \in DOMAIN j THEN j.ns ELSE m.M_desired
    <3> HIDE DEF j
    <3> DEFINE names == {"MotorCtrl", "GearCtrl", "Kl_15", "Brake_active", "TCS_active", "En_Is"}
    <3>1. PICK r : r = SetIfPresent(j, names)
      OBVIOUS
    <3>2. PICK speed : speed = IF "ns" \in DOMAIN j THEN j.ns ELSE r.M_desired
      OBVIOUS
    <3>3. n = [r EXCEPT !.M_desired = speed]
      BY <1>5, <1>6, <3>1, <3>2, Zenon DEF apply_control_fields
    <3>4. /\ DOMAIN r = DOMAIN m
          /\ \A f \in DOMAIN m : r[f] = IF f \in names \cap DOMAIN j THEN j[f] ELSE m[f]
      BY <1>4, <3>1, Zenon DEF SetIfPresent
    <3>5. "M_desired" \in DOMAIN m /\ "M_desired" \notin names
      BY <1>3, <1>4 DEF Held
    <3> QED
      BY <3>2, <3>3, <3>4, <3>5
  <2>3. Takes(j, m, n)
    <3> HIDE DEF j
    <3> QED
      BY <1>3, <1>4, <2>1, <2>2 DEF Takes, Held, IsControl
  <2>4. Held(n)
    <3> HIDE DEF j
    <3> QED
      BY <1>3, <1>4, <2>1, <2>2 DEF Held, IsControl
  <2>5. reported' = IF "M_max" \in DOMAIN j THEN Nothing ELSE reported
    BY <1>6, <2>1 DEF IsControl
  <2> QED
    BY <1>1, <1>4, <1>5, <1>6, <2>3, <2>4, <2>5 DEF FrameIds
<1>7. CASE /\ j.cmd = "SendLimits" /\ model' = apply_limit_fields(j)
           /\ Sends("0x047") /\ reported' = Nothing
  <2>1. IsLimits(j)
    BY <1>2, <1>7 DEF IsControl, IsTorque
  <2>2. /\ DOMAIN n = DOMAIN m
        /\ \A f \in DOMAIN m :
             n[f] = IF f \in {"M_max", "M_min", "M_grad_max", "n_max"} \cap DOMAIN j
                    THEN j[f] ELSE m[f]
    <3> HIDE DEF j
    <3> QED
      BY <1>3, <1>4, <1>5, <1>7 DEF apply_limit_fields, SetIfPresent, Held
  <2>3. Takes(j, m, n)
    <3> HIDE DEF j
    <3> QED
      BY <1>3, <1>4, <2>1, <2>2 DEF Takes, Held, IsLimits
  <2>4. Held(n)
    <3> HIDE DEF j
    <3> QED
      BY <1>3, <1>4, <2>1, <2>2 DEF Held, IsLimits
  <2>5. reported' = IF "M_max" \in DOMAIN j THEN Nothing ELSE reported
    BY <1>7, <2>1 DEF IsLimits
  <2> QED
    BY <1>1, <1>4, <1>5, <1>7, <2>3, <2>4, <2>5 DEF FrameIds
<1>8. CASE /\ j.cmd = "SendTorque" /\ model' = apply_torque_fields(j)
           /\ Sends("0x300") /\ reported' = reported
  <2>1. IsTorque(j)
    BY <1>2, <1>8 DEF IsControl, IsLimits
  <2>2. /\ DOMAIN n = DOMAIN m
        /\ \A f \in DOMAIN m :
             n[f] = IF f \in {"En_Is", "Isd", "Isq"} \cap DOMAIN j THEN j[f] ELSE m[f]
    <3> HIDE DEF j
    <3> QED
      BY <1>3, <1>4, <1>5, <1>8 DEF apply_torque_fields, SetIfPresent, Held
  <2>3. Takes(j, m, n)
    <3> HIDE DEF j
    <3> QED
      BY <1>3, <1>4, <2>1, <2>2 DEF Takes, Held, IsTorque
  <2>4. Held(n)
    <3> HIDE DEF j
    <3> QED
      BY <1>3, <1>4, <2>1, <2>2 DEF Held, IsTorque
  <2>5. reported' = IF "M_max" \in DOMAIN j THEN Nothing ELSE reported
    BY <1>8, <2>1 DEF IsTorque
  <2> QED
    BY <1>1, <1>4, <1>5, <1>8, <2>3, <2>4, <2>5 DEF FrameIds
<1> QED
  BY <1>6, <1>7, <1>8 DEF handleCommand

\* A frame that goes out is built from the data model as it then is.
LEMMA FrameIs ==
    ASSUME NEW id \in FrameIds, Sends(id)
    PROVE  /\ bus'.id = id /\ bus'.payload = PayloadOf(id, model')
           /\ bus'.payload \subseteq 0 .. 63
<1>1. PICK p : p = PayloadOf(id, model')
  OBVIOUS
<1>2. bus' = [id |-> id, payload |-> p]
  BY <1>1, Zenon DEF Sends
<1>3. bus'.id = id /\ bus'.payload = p
  BY <1>2
<1>4. p \subseteq 0 .. 63
  BY <1>1, PayloadsAre
<1> QED
  BY <1>1, <1>3, <1>4

\* Handling a command keeps the invariant.
LEMMA HandleHolds ==
    ASSUME IInv, handleCommand
    PROVE  IInv'
<1> DEFINE j == Head(uplink)
<1>1. /\ uplink # <<>> /\ uplink' = Tail(uplink) /\ asked' = asked
      /\ reported' = IF "M_max" \in DOMAIN j THEN Nothing ELSE reported
      /\ Takes(j, model, model') /\ Held(model') /\ \E id \in FrameIds : Sends(id)
  BY HandleIs
<1>2. PICK q \in Seq(Commands) : q = uplink /\ Len(q) <= MaxUplink /\ q # <<>>
  BY <1>1 DEF IInv
<1>3. PICK t : t = Tail(q)
  OBVIOUS
<1>4. PICK m : m = model
  OBVIOUS
<1>5. PICK n : n = model'
  OBVIOUS
<1>6. t \in Seq(Commands) /\ Len(t) <= MaxUplink
  BY <1>2, <1>3, PanelAssumption
<1>7. uplink' = t /\ j = Head(q) /\ Takes(j, m, n)
  BY <1>1, <1>2, <1>3, <1>4, <1>5
<1> HIDE DEF j
<1>8. \A name, e :
        /\ SaysLast(q, name, e) =>
             \/ SaysLast(t, name, e)
             \/ Quiet(t, name) /\ name \in DOMAIN j /\ j[name] = e
        /\ Quiet(q, name) => Quiet(t, name) /\ name \notin DOMAIN j
  BY <1>2, <1>3, <1>7, TailSays
<1>9. \A name, field, e :
        /\ Latest(q, m, name, field, e)
        /\ n[field] = IF name \in DOMAIN j THEN j[name] ELSE m[field]
        => Latest(t, n, name, field, e)
  BY <1>8 DEF Latest
<1>10. \A name \in {"En_Is", "Isq", "MotorCtrl", "GearCtrl", "M_max"} : \A e :
         Latest(q, m, name, name, e) => Latest(t, n, name, name, e)
  BY <1>7, <1>9 DEF Takes
<1>11. \A key \in DOMAIN NameOf : Kept(key) => Kept(key)'
  <2> SUFFICES ASSUME NEW key \in DOMAIN NameOf, Kept(key)
               PROVE  Kept(key)'
    OBVIOUS
  <2>1. NameOf[key] \in {"En_Is", "Isq", "MotorCtrl", "GearCtrl", "M_max"}
    BY Names
  <2>2. Latest(q, m, NameOf[key], NameOf[key], Want(key, asked[key]))
    BY <1>2, <1>4 DEF Kept
  <2>3. Latest(t, n, NameOf[key], NameOf[key], Want(key, asked[key]))
    BY <1>10, <2>1, <2>2
  <2> QED
    BY <1>1, <1>5, <1>7, <2>3 DEF Kept
<1>12. SpeedKept'
  <2> SUFFICES ASSUME asked'.mode = "speed"
               PROVE  Latest(uplink', model', "ns", "M_desired", asked'.setpoint)
    BY DEF SpeedKept
  <2>1. Latest(q, m, "ns", "M_desired", asked.setpoint)
    BY <1>1, <1>2, <1>4 DEF IInv, SpeedKept
  <2>2. Latest(t, n, "ns", "M_desired", asked.setpoint)
    BY <1>7, <1>9, <2>1 DEF Takes
  <2> QED
    BY <1>1, <1>5, <1>7, <2>2
<1>13. LimitsKept'
  <2> SUFFICES ASSUME asked.M_max # Nothing
               PROVE  SaysLast(t, "M_max", asked.M_max)
                        \/ (Quiet(t, "M_max") /\ LimitsHeld')
    BY <1>1, <1>7 DEF LimitsKept
  <2>1. SaysLast(q, "M_max", asked.M_max) \/ (Quiet(q, "M_max") /\ LimitsHeld)
    BY <1>2 DEF IInv, LimitsKept
  <2>2. CASE SaysLast(t, "M_max", asked.M_max)
    BY <2>2
  <2>3. CASE Quiet(t, "M_max") /\ "M_max" \in DOMAIN j /\ j["M_max"] = asked.M_max
    BY <1>1, <1>5, <1>7, <2>3 DEF Takes, LimitsHeld
  <2>4. CASE Quiet(t, "M_max") /\ "M_max" \notin DOMAIN j /\ LimitsHeld
    BY <1>1, <1>4, <1>5, <1>7, <2>4 DEF Takes, LimitsHeld
  <2> QED
    BY <1>8, <2>1, <2>2, <2>3, <2>4
<1>14. bus'.payload \subseteq 0 .. 63
  BY <1>1, FrameIs
<1>15. /\ Kept("enable")' /\ Kept("Iq")'
       /\ asked'.mode # Nothing => Kept("mode")'
       /\ asked'.gear # Nothing => Kept("gear")'
  BY <1>1, <1>11, Names DEF IInv
<1>16. DOMAIN NameOf \cup {"setpoint"} \subseteq DOMAIN asked'
  BY <1>1 DEF IInv
<1>17. ReportHeld'
  <2>1. ReportHeld
    BY DEF IInv
  <2> QED
    BY <1>1, <1>4, <1>5, <1>7, <2>1 DEF ReportHeld, Takes
<1> QED
  BY <1>1, <1>6, <1>7, <1>12, <1>13, <1>14, <1>15, <1>16, <1>17 DEF IInv

\* What other steps leave alone.
SameRequests(m, n) ==
    \A f \in {"En_Is", "Isq", "MotorCtrl", "GearCtrl", "M_desired"} : n[f] = m[f]

\* A step that changes the data model elsewhere.
LEMMA RestHolds ==
    ASSUME IInv, uplink' = uplink, asked' = asked, SameRequests(model, model'), Held(model'),
           bus'.payload \subseteq 0 .. 63, LimitsKept', ReportHeld'
    PROVE  IInv'
<1>1. PICK m : m = model
  OBVIOUS
<1>2. PICK n : n = model'
  OBVIOUS
<1>3. \A q, name, e : \A f \in {"En_Is", "Isq", "MotorCtrl", "GearCtrl", "M_desired"} :
        Latest(q, m, name, f, e) => Latest(q, n, name, f, e)
  BY <1>1, <1>2 DEF Latest, SameRequests
<1>4. \A key \in {"enable", "Iq", "mode", "gear"} : Kept(key) => Kept(key)'
  <2> SUFFICES ASSUME NEW key \in {"enable", "Iq", "mode", "gear"}, Kept(key)
               PROVE  Kept(key)'
    OBVIOUS
  <2>1. NameOf[key] \in {"En_Is", "Isq", "MotorCtrl", "GearCtrl"}
    BY Names
  <2>2. Latest(uplink, m, NameOf[key], NameOf[key], Want(key, asked[key]))
    BY <1>1 DEF Kept
  <2>3. Latest(uplink, n, NameOf[key], NameOf[key], Want(key, asked[key]))
    BY <1>3, <2>1, <2>2
  <2> QED
    BY <1>2, <2>3 DEF Kept
<1>5. SpeedKept'
  BY <1>1, <1>2, <1>3 DEF IInv, SpeedKept
<1> QED
  BY <1>4, <1>5 DEF IInv

\* A frame of the schedule keeps the invariant.
LEMMA PeriodicHolds ==
    ASSUME IInv, periodicTx
    PROVE  IInv'
<1>1. Held(model)
  BY DEF IInv
<1>2. PICK m : m = model
  OBVIOUS
<1>3. PICK n : n = model'
  OBVIOUS
<1>4. n = [m EXCEPT !.Brake_active = FALSE, !.Kl_15 = TRUE, !.TCS_active = FALSE]
  BY <1>2, <1>3 DEF periodicTx
<1>5. /\ DOMAIN n = DOMAIN m
      /\ \A f \in DOMAIN m \ {"Brake_active", "Kl_15", "TCS_active"} : n[f] = m[f]
  BY <1>4
<1>6. Held(n) /\ SameRequests(m, n) /\ n.M_max = m.M_max /\ n.M_min = m.M_min
        /\ n.M_grad_max = m.M_grad_max
  BY <1>1, <1>2, <1>5 DEF Held, SameRequests
<1>7. /\ uplink' = uplink /\ asked' = asked /\ reported' = reported
      /\ \E id \in FrameIds : Sends(id)
  BY DEF periodicTx
<1>8. bus'.payload \subseteq 0 .. 63
  BY <1>7, FrameIs
<1>9. LimitsKept' /\ ReportHeld'
  BY <1>2, <1>3, <1>6, <1>7 DEF IInv, LimitsKept, LimitsHeld, ReportHeld
<1> QED
  BY <1>2, <1>3, <1>6, <1>7, <1>8, <1>9, RestHolds

\* The two torques of 0x2C5 are decoded as they were reported.
LEMMA ReportIsRead ==
    ASSUME NEW limit \in Reports, NEW payload, payload = Report(limit)
    PROVE  /\ Number(Unpack(payload, 11, 11)) - 1024 = limit
           /\ Number(Unpack(payload, 16, 11)) - 1024 = - limit
<1>1. PICK a : a = limit + 1024
  OBVIOUS
<1>2. PICK b : b = 1024 - limit
  OBVIOUS
<1>3. limit \in -1023 .. 1023
  BY PanelAssumption
<1>4. 2 ^ 11 = 2048
  BY SMT
<1>5. a \in RawValues(11) /\ b \in RawValues(11)
  BY <1>1, <1>2, <1>3, <1>4, SMT DEF RawValues
<1>6. 11 \in 1 .. 24 /\ 11 \in Nat /\ 16 \in Nat
  BY SMT
<1>7. /\ Bits(a) \in SUBSET (0 .. 11 - 1) /\ Number(Bits(a)) = a
      /\ Bits(b) \in SUBSET (0 .. 11 - 1) /\ Number(Bits(b)) = b
  BY <1>5, <1>6, BitsFit
<1>8. PICK x : x = Spread(Bits(a), 11, 11)
  OBVIOUS
<1>9. PICK y : y = Spread(Bits(b), 16, 11)
  OBVIOUS
<1>10. payload = UNION {x, y}
  BY <1>1, <1>2, <1>8, <1>9 DEF Report, Saying, Spread
<1>11. x \subseteq Places(11, 11) /\ y \subseteq Places(16, 11)
  BY <1>6, <1>7, <1>8, <1>9, PackOfFitting
<1>12. Apart(11, 11, 16, 11)
  <2>1. Before(11, 11, 16)
    BY SMT DEF Before, Sawtooth
  <2> QED
    BY <1>6, <2>1, ApartIs
<1>13. x \cap Places(16, 11) = {} /\ y \cap Places(11, 11) = {}
  BY <1>11, <1>12 DEF Apart
<1>14. /\ Meaning(UNION {x, y}, 11, 11) = Meaning(x, 11, 11)
       /\ Meaning(UNION {x, y}, 16, 11) = Meaning(y, 16, 11)
  <2>1. PICK parts : parts = {x, y}
    OBVIOUS
  <2>2. x \in parts /\ y \in parts
    BY <2>1
  <2>3. \A q \in parts : q = x \/ q \cap Places(11, 11) = {}
    BY <1>13, <2>1
  <2>4. \A q \in parts : q = y \/ q \cap Places(16, 11) = {}
    BY <1>13, <2>1
  <2>5. Meaning(UNION parts, 11, 11) = Meaning(x, 11, 11)
    BY <2>2, <2>3, MeaningAmong
  <2>6. Meaning(UNION parts, 16, 11) = Meaning(y, 16, 11)
    BY <2>2, <2>4, MeaningAmong
  <2> QED
    BY <2>1, <2>5, <2>6
<1>15. Meaning(x, 11, 11) = Bits(a) /\ Meaning(y, 16, 11) = Bits(b)
  BY <1>6, <1>7, <1>8, <1>9, SpreadIsRead
<1>16. /\ Unpack(payload, 11, 11) = Meaning(payload, 11, 11)
       /\ Unpack(payload, 16, 11) = Meaning(payload, 16, 11)
  BY <1>6, UnpackIsMeaning
<1>17. Number(Unpack(payload, 11, 11)) = a /\ Number(Unpack(payload, 16, 11)) = b
  BY <1>7, <1>10, <1>14, <1>15, <1>16
<1> QED
  BY <1>1, <1>2, <1>3, <1>17, SMT

\* A report keeps the invariant.
LEMMA ReportHolds ==
    ASSUME IInv, DeratingStatus
    PROVE  IInv'
<1>1. Held(model)
  BY DEF IInv
<1>2. PICK m : m = model
  OBVIOUS
<1>3. PICK n : n = model'
  OBVIOUS
<1>4. PICK limit \in Reports :
        n = [m EXCEPT !.M_max = limit, !.M_min = - limit] /\ reported' = limit
  <2> DEFINE Max(payload) == Number(Unpack(payload, 11, 11)) - 1024
             Min(payload) == Number(Unpack(payload, 16, 11)) - 1024
  <2>1. PICK limit \in Reports :
          /\ model' = [model EXCEPT !.M_max = Max(Report(limit)), !.M_min = Min(Report(limit))]
          /\ reported' = limit
    BY Zenon DEF DeratingStatus, Derated
  <2>2. \A payload : payload = Report(limit) => Max(payload) = limit /\ Min(payload) = - limit
    BY ReportIsRead
  <2> HIDE DEF Max, Min
  <2>3. PICK high : high = Max(Report(limit))
    OBVIOUS
  <2>4. PICK low : low = Min(Report(limit))
    OBVIOUS
  <2>5. high = limit /\ low = - limit
    BY <2>2, <2>3, <2>4
  <2>6. n = [m EXCEPT !.M_max = high, !.M_min = low]
    BY <1>2, <1>3, <2>1, <2>3, <2>4, Zenon
  <2> QED
    BY <2>1, <2>5, <2>6
<1>5. /\ DOMAIN n = DOMAIN m /\ n.M_max = limit /\ n.M_min = - limit
      /\ \A f \in DOMAIN m \ {"M_max", "M_min"} : n[f] = m[f]
  <2>1. "M_max" \in DOMAIN m /\ "M_min" \in DOMAIN m
    BY <1>1, <1>2 DEF Held
  <2>2. PICK low : low = - limit
    OBVIOUS
  <2> QED
    BY <1>4, <2>1, <2>2
<1>6. Held(n) /\ SameRequests(m, n) /\ n.M_grad_max = m.M_grad_max
  BY <1>1, <1>2, <1>5 DEF Held, SameRequests
<1>7. uplink' = uplink /\ asked' = asked /\ bus' = bus
  BY DEF DeratingStatus
<1>8. bus'.payload \subseteq 0 .. 63
  BY <1>7 DEF IInv
<1>9. LimitsKept' /\ ReportHeld'
  <2>1. limit # Nothing
    BY PanelAssumption
  <2>2. LimitsKept
    BY DEF IInv
  <2>3. LimitsKept'
    BY <1>2, <1>3, <1>4, <1>6, <1>7, <2>1, <2>2 DEF IInv, LimitsKept, LimitsHeld
  <2>4. ReportHeld'
    BY <1>3, <1>4, <1>5 DEF ReportHeld
  <2> QED
    BY <2>3, <2>4
<1> QED
  BY <1>2, <1>3, <1>6, <1>7, <1>8, <1>9, RestHolds

-----------------------------------------------------------------------------

(***************************************************************************)
(* What the inverter reads.                                                *)
(***************************************************************************)

\* What is typed fits the fields that carry it.
CurrentsFit == \A c \in Numbers(Currents) : c + 32000 \in RawValues(16)

SpeedsFit == \A v \in Numbers(Speeds) : Truncate(1000 * v, 15675) + 1023 \in RawValues(11)

MaxTorquesFit == \A t \in Numbers(MaxTorques) : t + 1023 \in RawValues(11)

\* A flag is a bit.
LEMMA FlagIs == \A b : Flag(b) \in RawValues(1)
<1>1. 0 \in RawValues(1) /\ 1 \in RawValues(1)
  BY SMT DEF RawValues
<1> QED
  BY <1>1, Zenon DEF Flag

\* A signal that keeps clear of another.
Clear(c, s, n) ==
    c[2] \in Nat /\ c[3] \in 1 .. 24 /\ Keeps(c[1], c[2], c[3]) /\ Apart(c[2], c[3], s, n)

\* Two signals one after the other.
Beside(t, l, s, n) ==
    /\ t \in Nat /\ l \in 1 .. 24 /\ s \in Nat /\ n \in 1 .. 24
    /\ Before(t, l, s) \/ Before(s, n, t)

\* A call for a signal beside another keeps clear of it,
LEMMA ClearIs ==
    \A v, t, l, s, n : Keeps(v, t, l) /\ Beside(t, l, s, n) => Clear(<<v, t, l>>, s, n)
<1> SUFFICES ASSUME NEW v, NEW t, NEW l, NEW s, NEW n, Keeps(v, t, l), Beside(t, l, s, n)
             PROVE  Clear(<<v, t, l>>, s, n)
  OBVIOUS
<1>1. Apart(t, l, s, n)
  BY ApartIs DEF Beside
<1>2. t \in Nat /\ l \in 1 .. 24
  BY DEF Beside
<1>3. PICK c : c = <<v, t, l>>
  OBVIOUS
<1>4. c[1] = v /\ c[2] = t /\ c[3] = l
  BY <1>3
<1>5. Clear(c, s, n)
  BY <1>1, <1>2, <1>4, Zenon DEF Clear
<1> QED
  BY <1>3, <1>5

\* which is then read as it was packed.
LEMMA ReadAmong ==
    \A calls, v, s, n :
      /\ s \in Nat /\ n \in 1 .. 24 /\ v \in RawValues(n) /\ <<v, s, n>> \in calls
      /\ \A c \in calls : c = <<v, s, n>> \/ Clear(c, s, n)
      => Read(PackAll(calls), s, n) = v
<1> SUFFICES ASSUME NEW calls, NEW v, NEW s, NEW n, s \in Nat, n \in 1 .. 24,
                    v \in RawValues(n), <<v, s, n>> \in calls,
                    \A c \in calls : c = <<v, s, n>> \/ Clear(c, s, n)
             PROVE  Read(PackAll(calls), s, n) = v
  OBVIOUS
<1>1. \A c \in calls :
        \/ c = <<v, s, n>>
        \/ /\ c[2] \in Nat /\ c[3] \in 1 .. 24 /\ Keeps(c[1], c[2], c[3])
           /\ Apart(c[2], c[3], s, n)
  BY Zenon DEF Clear
<1> QED
  BY <1>1, ReadIs, Zenon

\* The signals of 0x046 are read as they were packed.
LEMMA ControlIsRead ==
    ASSUME NEW m, Held(m)
    PROVE  /\ RequestedState(ControlPayload(m)) = m.MotorCtrl
           /\ ActualGear(ControlPayload(m)) = m.GearCtrl
           /\ SpeedsFit /\ m.MotorCtrl = 4 =>
                DesiredTorque(ControlPayload(m)) = Truncate(1000 * m.M_desired, 15675)
<1>1. PICK v1 : v1 = Flag(m.Kl_15)
  OBVIOUS
<1>2. PICK v2 : v2 = torque_raw(m)
  OBVIOUS
<1>3. PICK v3 : v3 = m.SurgeDamperState % 4
  OBVIOUS
<1>4. PICK v4 : v4 = Flag(m.Brake_active)
  OBVIOUS
<1>5. PICK v5 : v5 = m.MotorCtrl % 16
  OBVIOUS
<1>6. PICK v6 : v6 = Flag(m.TCS_active)
  OBVIOUS
<1>7. PICK v7 : v7 = m.GearCtrl % 8
  OBVIOUS
<1>8. PICK calls : calls = { <<v1, 8, 1>>, <<v2, 7, 11>>, <<v3, 10, 2>>, <<v4, 11, 1>>,
                             <<v5, 47, 4>>, <<v6, 23, 1>>, <<v7, 22, 3>> }
  OBVIOUS
<1>9. ControlPayload(m) = PackAll(calls)
  BY <1>1, <1>2, <1>3, <1>4, <1>5, <1>6, <1>7, <1>8, Zenon DEF ControlPayload
<1>10. v3 = 2 /\ v5 = m.MotorCtrl /\ v5 \in {0, 1, 4} /\ v7 = m.GearCtrl /\ v7 \in {0, 2, 3, 4}
  <2>1. m.SurgeDamperState = 2 /\ m.MotorCtrl \in {0, 1, 4} /\ m.GearCtrl \in {0, 2, 3, 4}
    BY DEF Held
  <2> QED
    BY <1>3, <1>5, <1>7, <2>1, SMT
<1>11. v3 \in RawValues(2) /\ v5 \in RawValues(4) /\ v7 \in RawValues(3)
  BY <1>10, SMT DEF RawValues
<1>12. v1 \in RawValues(1) /\ v4 \in RawValues(1) /\ v6 \in RawValues(1)
  BY <1>1, <1>4, <1>6, FlagIs
<1>13. /\ Keeps(v1, 8, 1) /\ Keeps(v2, 7, 11) /\ Keeps(v3, 10, 2) /\ Keeps(v4, 11, 1)
       /\ Keeps(v5, 47, 4) /\ Keeps(v6, 23, 1) /\ Keeps(v7, 22, 3)
  <2>1. Keeps(v2, 7, 11)
    BY SMT DEF Keeps
  <2> QED
    BY <1>11, <1>12, <2>1, Zenon DEF Keeps
<1>14. 47 \in Nat /\ 22 \in Nat /\ 7 \in Nat /\ 3 \in 1 .. 24 /\ 4 \in 1 .. 24 /\ 11 \in 1 .. 24
  BY SMT
<1>15. Read(PackAll(calls), 47, 4) = v5
  <2>1. /\ Beside(8, 1, 47, 4) /\ Beside(7, 11, 47, 4) /\ Beside(10, 2, 47, 4)
        /\ Beside(11, 1, 47, 4) /\ Beside(23, 1, 47, 4) /\ Beside(22, 3, 47, 4)
    BY SMT DEF Beside, Before, Sawtooth
  <2>2. /\ Clear(<<v1, 8, 1>>, 47, 4) /\ Clear(<<v2, 7, 11>>, 47, 4)
        /\ Clear(<<v3, 10, 2>>, 47, 4) /\ Clear(<<v4, 11, 1>>, 47, 4)
        /\ Clear(<<v6, 23, 1>>, 47, 4) /\ Clear(<<v7, 22, 3>>, 47, 4)
    BY <1>13, <2>1, ClearIs, Zenon
  <2>3. \A c \in calls : c = <<v5, 47, 4>> \/ Clear(c, 47, 4)
    BY <1>8, <2>2, Zenon
  <2>4. <<v5, 47, 4>> \in calls
    BY <1>8, Zenon
  <2> QED
    BY <1>11, <1>14, <2>3, <2>4, ReadAmong, Zenon
<1>16. Read(PackAll(calls), 22, 3) = v7
  <2>1. /\ Beside(8, 1, 22, 3) /\ Beside(7, 11, 22, 3) /\ Beside(10, 2, 22, 3)
        /\ Beside(11, 1, 22, 3) /\ Beside(23, 1, 22, 3) /\ Beside(47, 4, 22, 3)
    BY SMT DEF Beside, Before, Sawtooth
  <2>2. /\ Clear(<<v1, 8, 1>>, 22, 3) /\ Clear(<<v2, 7, 11>>, 22, 3)
        /\ Clear(<<v3, 10, 2>>, 22, 3) /\ Clear(<<v4, 11, 1>>, 22, 3)
        /\ Clear(<<v6, 23, 1>>, 22, 3) /\ Clear(<<v5, 47, 4>>, 22, 3)
    BY <1>13, <2>1, ClearIs, Zenon
  <2>3. \A c \in calls : c = <<v7, 22, 3>> \/ Clear(c, 22, 3)
    BY <1>8, <2>2, Zenon
  <2>4. <<v7, 22, 3>> \in calls
    BY <1>8, Zenon
  <2> QED
    BY <1>11, <1>14, <2>3, <2>4, ReadAmong, Zenon
<1>17. ASSUME SpeedsFit, m.MotorCtrl = 4
       PROVE  Read(PackAll(calls), 7, 11) - 1023 = Truncate(1000 * m.M_desired, 15675)
  <2>1. PICK n : n = Truncate(1000 * m.M_desired, 15675)
    OBVIOUS
  <2>2. v2 = n + 1023
    BY <1>2, <1>17, <2>1 DEF torque_raw
  <2>3. n \in Int /\ v2 \in RawValues(11)
    <3>1. m.M_desired \in Int
      BY PanelAssumption DEF Held, Numbers
    <3>2. n \in Int
      BY <2>1, <3>1, SMT DEF Truncate
    <3>3. CASE m.M_desired = 0
      <4>1. n = 0
        BY <2>1, <3>3, SMT DEF Truncate
      <4>2. 1023 \in RawValues(11)
        BY SMT DEF RawValues
      <4> QED
        BY <2>2, <4>1, <4>2, SMT
    <3>4. CASE m.M_desired \in Numbers(Speeds)
      BY <1>17, <2>1, <2>2, <3>2, <3>4 DEF SpeedsFit
    <3> QED
      BY <3>3, <3>4 DEF Held
  <2>4. /\ Beside(8, 1, 7, 11) /\ Beside(47, 4, 7, 11) /\ Beside(10, 2, 7, 11)
        /\ Beside(11, 1, 7, 11) /\ Beside(23, 1, 7, 11) /\ Beside(22, 3, 7, 11)
    BY SMT DEF Beside, Before, Sawtooth
  <2>5. /\ Clear(<<v1, 8, 1>>, 7, 11) /\ Clear(<<v5, 47, 4>>, 7, 11)
        /\ Clear(<<v3, 10, 2>>, 7, 11) /\ Clear(<<v4, 11, 1>>, 7, 11)
        /\ Clear(<<v6, 23, 1>>, 7, 11) /\ Clear(<<v7, 22, 3>>, 7, 11)
    BY <1>13, <2>4, ClearIs, Zenon
  <2>6. \A c \in calls : c = <<v2, 7, 11>> \/ Clear(c, 7, 11)
    BY <1>8, <2>5, Zenon
  <2>7. <<v2, 7, 11>> \in calls
    BY <1>8, Zenon
  <2>8. Read(PackAll(calls), 7, 11) = v2
    BY <1>14, <2>3, <2>6, <2>7, ReadAmong, Zenon
  <2> QED
    BY <2>1, <2>2, <2>3, <2>8, SMT
<1> QED
  BY <1>9, <1>10, <1>15, <1>16, <1>17 DEF RequestedState, ActualGear, DesiredTorque
\* Torques of less than 1024 Nm either way,
Small == -1023 .. 1023

\* such as reports,
LEMMA ReportsAre == \A r \in Reports : r \in Small /\ - r \in Small
<1>1. \A r \in Reports : r \in -1023 .. 1023
  BY PanelAssumption
<1> QED
  BY <1>1 DEF Small

\* fit their field.
LEMMA TorqueFits ==
    ASSUME NEW t \in Small, NEW v, v = t + 1023
    PROVE  t \in Int /\ v \in RawValues(11)
BY SMT DEF Small, RawValues

\* The signals of 0x047 are read as they were packed.
LEMMA LimitsAreRead ==
    ASSUME NEW m, Held(m), MaxTorquesFit
    PROVE  /\ MinTorque(LimitPayload(m)) = m.M_min
           /\ MaxTorque(LimitPayload(m)) = m.M_max
           /\ TorqueGradient(LimitPayload(m)) = Truncate(m.M_grad_max, 32)
           /\ MaxSpeed(LimitPayload(m)) = 1000
<1>1. PICK v1 : v1 = m.M_min + 1023
  OBVIOUS
<1>2. PICK v2 : v2 = Truncate(m.M_grad_max, 32)
  OBVIOUS
<1>3. PICK v3 : v3 = m.M_max + 1023
  OBVIOUS
<1>4. PICK v4 : v4 = max_speed_raw(m)
  OBVIOUS
<1>5. PICK calls : calls = { <<v1, 7, 11>>, <<v2, 12, 14>>, <<v3, 30, 11>>, <<v4, 43, 5>> }
  OBVIOUS
<1>6. LimitPayload(m) = PackAll(calls)
  BY <1>1, <1>2, <1>3, <1>4, <1>5 DEF LimitPayload
<1>7. m.M_min \in Int /\ v1 \in RawValues(11)
  <2>1. m.M_min \in Small
    <3>1. -450 \in Small /\ -50 \in Small
      BY SMT DEF Small
    <3> QED
      BY <3>1, ReportsAre DEF Held
  <2> QED
    BY <1>1, <2>1, TorqueFits
<1>8. v2 \in RawValues(14)
  <2>1. m.M_grad_max \in {50, 4200}
    BY DEF Held
  <2>2. v2 \in {1, 131}
    BY <1>2, <2>1, SMT DEF Truncate
  <2> QED
    BY <2>2, SMT DEF RawValues
<1>9. m.M_max \in Int /\ v3 \in RawValues(11)
  <2>1. CASE m.M_max \in Small
    BY <1>3, <2>1, TorqueFits
  <2>2. CASE m.M_max \in Numbers(MaxTorques)
    BY <1>3, <2>2, PanelAssumption DEF MaxTorquesFit, Numbers
  <2>3. 450 \in Small
    BY SMT DEF Small
  <2> QED
    BY <2>1, <2>2, <2>3, ReportsAre DEF Held
<1>10. v4 = 10 /\ v4 \in RawValues(5)
  <2>1. m.n_max = 1000
    BY DEF Held
  <2>2. v4 = 10
    BY <1>4, <2>1, SMT DEF max_speed_raw, Truncate
  <2> QED
    BY <2>2, SMT DEF RawValues
<1>11. Keeps(v1, 7, 11) /\ Keeps(v2, 12, 14) /\ Keeps(v3, 30, 11) /\ Keeps(v4, 43, 5)
  BY <1>7, <1>8, <1>9, <1>10, Zenon DEF Keeps
<1>12. /\ Beside(12, 14, 7, 11) /\ Beside(30, 11, 7, 11) /\ Beside(43, 5, 7, 11)
       /\ Beside(7, 11, 12, 14) /\ Beside(30, 11, 12, 14) /\ Beside(43, 5, 12, 14)
       /\ Beside(7, 11, 30, 11) /\ Beside(12, 14, 30, 11) /\ Beside(43, 5, 30, 11)
       /\ Beside(7, 11, 43, 5) /\ Beside(12, 14, 43, 5) /\ Beside(30, 11, 43, 5)
  BY SMT DEF Beside, Before, Sawtooth
<1>13. Read(PackAll(calls), 7, 11) = v1
  <2>1. \A c \in calls : c = <<v1, 7, 11>> \/ Clear(c, 7, 11)
    BY <1>5, <1>11, <1>12, ClearIs, Zenon
  <2>2. <<v1, 7, 11>> \in calls
    BY <1>5, Zenon
  <2>3. 7 \in Nat /\ 11 \in 1 .. 24
    BY SMT
  <2> QED
    BY <1>7, <2>1, <2>2, <2>3, ReadAmong, Zenon
<1>14. Read(PackAll(calls), 12, 14) = v2
  <2>1. \A c \in calls : c = <<v2, 12, 14>> \/ Clear(c, 12, 14)
    BY <1>5, <1>11, <1>12, ClearIs, Zenon
  <2>2. <<v2, 12, 14>> \in calls
    BY <1>5, Zenon
  <2>3. 12 \in Nat /\ 14 \in 1 .. 24
    BY SMT
  <2> QED
    BY <1>8, <2>1, <2>2, <2>3, ReadAmong, Zenon
<1>15. Read(PackAll(calls), 30, 11) = v3
  <2>1. \A c \in calls : c = <<v3, 30, 11>> \/ Clear(c, 30, 11)
    BY <1>5, <1>11, <1>12, ClearIs, Zenon
  <2>2. <<v3, 30, 11>> \in calls
    BY <1>5, Zenon
  <2>3. 30 \in Nat /\ 11 \in 1 .. 24
    BY SMT
  <2> QED
    BY <1>9, <2>1, <2>2, <2>3, ReadAmong, Zenon
<1>16. Read(PackAll(calls), 43, 5) = v4
  <2>1. \A c \in calls : c = <<v4, 43, 5>> \/ Clear(c, 43, 5)
    BY <1>5, <1>11, <1>12, ClearIs, Zenon
  <2>2. <<v4, 43, 5>> \in calls
    BY <1>5, Zenon
  <2>3. 43 \in Nat /\ 5 \in 1 .. 24
    BY SMT
  <2> QED
    BY <1>10, <2>1, <2>2, <2>3, ReadAmong, Zenon
<1>17. MinTorque(LimitPayload(m)) = m.M_min /\ MaxTorque(LimitPayload(m)) = m.M_max
  BY <1>1, <1>3, <1>6, <1>7, <1>9, <1>13, <1>15, SMT DEF MinTorque, MaxTorque
<1>18. TorqueGradient(LimitPayload(m)) = v2
  BY <1>6, <1>14 DEF TorqueGradient
<1>19. MaxSpeed(LimitPayload(m)) = 1000
  BY <1>6, <1>10, <1>16, SMT DEF MaxSpeed
<1> QED
  BY <1>2, <1>17, <1>18, <1>19

\* The signals of 0x300 are read as they were packed.
LEMMA CurrentsAreRead ==
    ASSUME NEW m, Held(m), CurrentsFit
    PROVE  /\ IqCommand(CurrentPayload(m)) = m.Isq
           /\ CurrentEnabled(CurrentPayload(m)) = m.En_Is
<1>1. PICK v1 : v1 = m.Isd + 32000
  OBVIOUS
<1>2. PICK v2 : v2 = m.Isq + 32000
  OBVIOUS
<1>3. PICK v3 : v3 = Flag(m.En_Is)
  OBVIOUS
<1>4. PICK calls : calls = { <<v1, 7, 16>>, <<v2, 23, 16>>, <<v3, 39, 1>> }
  OBVIOUS
<1>5. CurrentPayload(m) = PackAll(calls)
  BY <1>1, <1>2, <1>3, <1>4 DEF CurrentPayload
<1>6. m.Isq \in Int /\ v2 \in RawValues(16)
  <2>1. CASE m.Isq = 0
    BY <1>2, <2>1, SMT DEF RawValues
  <2>2. CASE m.Isq \in Numbers(Currents)
    BY <1>2, <2>2, PanelAssumption DEF CurrentsFit, Numbers
  <2> QED
    BY <2>1, <2>2 DEF Held
<1>7. v3 \in RawValues(1)
  BY <1>3, FlagIs
<1>8. Keeps(v1, 7, 16) /\ Keeps(v2, 23, 16) /\ Keeps(v3, 39, 1)
  BY SMT DEF Keeps
<1>9. /\ Beside(7, 16, 23, 16) /\ Beside(39, 1, 23, 16)
      /\ Beside(7, 16, 39, 1) /\ Beside(23, 16, 39, 1)
  BY SMT DEF Beside, Before, Sawtooth
<1>10. \A c \in calls : c = <<v2, 23, 16>> \/ Clear(c, 23, 16)
  BY <1>4, <1>8, <1>9, ClearIs, Zenon
<1>11. \A c \in calls : c = <<v3, 39, 1>> \/ Clear(c, 39, 1)
  BY <1>4, <1>8, <1>9, ClearIs, Zenon
<1>12. 23 \in Nat /\ 39 \in Nat /\ 16 \in 1 .. 24 /\ 1 \in 1 .. 24
  BY SMT
<1>13. <<v2, 23, 16>> \in calls /\ <<v3, 39, 1>> \in calls
  BY <1>4, Zenon
<1>14. Read(PackAll(calls), 23, 16) = v2
  BY <1>6, <1>10, <1>12, <1>13, ReadAmong, Zenon
<1>15. Read(PackAll(calls), 39, 1) = v3
  BY <1>7, <1>11, <1>12, <1>13, ReadAmong, Zenon
<1>16. IqCommand(CurrentPayload(m)) = m.Isq
  BY <1>2, <1>5, <1>6, <1>14, SMT DEF IqCommand
<1>17. CurrentEnabled(CurrentPayload(m)) <=> v3 = 1
  BY <1>5, <1>15, Zenon DEF CurrentEnabled
<1>18. m.En_Is \in BOOLEAN
  BY DEF Held
<1>19. v3 = IF m.En_Is THEN 1 ELSE 0
  BY <1>3, Zenon DEF Flag
<1>20. 0 # 1
  BY SMT
<1>21. CurrentEnabled(CurrentPayload(m)) \in BOOLEAN
  BY Zenon DEF CurrentEnabled
<1>22. CurrentEnabled(CurrentPayload(m)) = m.En_Is
  BY <1>17, <1>18, <1>19, <1>20, <1>21, Zenon
<1> QED
  BY <1>16, <1>22

-----------------------------------------------------------------------------

(***************************************************************************)
(* The theorems.                                                           *)
(***************************************************************************)

\* Nothing has been asked for and handleInit has left the data model so.
LEMMA InitHolds == PathInit => IInv
<1> SUFFICES ASSUME PathInit PROVE IInv
  OBVIOUS
<1>1. PICK m : m = model
  OBVIOUS
<1>2. m = [Kl_15 |-> TRUE, En_Is |-> FALSE, Brake_active |-> FALSE, TCS_active |-> FALSE,
           MotorCtrl |-> 0, GearCtrl |-> 0, M_desired |-> 0, SurgeDamperState |-> 2,
           M_max |-> 450, M_min |-> -450, M_grad_max |-> 4200, n_max |-> 1000,
           Isd |-> 0, Isq |-> 0]
  BY <1>1 DEF PathInit
<1>3. m.En_Is = FALSE /\ m.Isq = 0
  BY <1>2
<1>4. Held(m)
  BY <1>2 DEF Held
<1>5. PICK a : a = asked
  OBVIOUS
<1>6. a = [mode |-> Nothing, setpoint |-> Nothing, enable |-> FALSE, Iq |-> 0,
           M_max |-> Nothing, gear |-> Nothing]
  BY <1>5 DEF PathInit
<1>7. /\ DOMAIN a = {"mode", "setpoint", "enable", "Iq", "M_max", "gear"}
      /\ a.mode = Nothing /\ a.enable = FALSE /\ a.Iq = 0 /\ a.M_max = Nothing
      /\ a.gear = Nothing
  BY <1>6
<1>8. uplink = <<>> /\ bus.payload = {}
  BY DEF PathInit
<1>9. \A name : Quiet(uplink, name)
  BY <1>8, OneSays
<1>10. Kept("enable")
  <2>1. Latest(uplink, m, "En_Is", "En_Is", a.enable)
    BY <1>3, <1>7, <1>9, Zenon DEF Latest
  <2> QED
    BY <1>1, <1>5, <2>1, Names DEF Kept
<1>11. Kept("Iq")
  <2>1. Latest(uplink, m, "Isq", "Isq", a.Iq)
    BY <1>3, <1>7, <1>9, Zenon DEF Latest
  <2> QED
    BY <1>1, <1>5, <2>1, Names DEF Kept
<1>12. SpeedKept
  BY <1>5, <1>7, PanelAssumption DEF SpeedKept
<1>13. LimitsKept /\ ReportHeld
  BY <1>5, <1>7 DEF PathInit, LimitsKept, ReportHeld
<1>14. uplink \in Seq(Commands) /\ Len(uplink) <= MaxUplink
  BY <1>8, PanelAssumption
<1>15. DOMAIN NameOf \cup {"setpoint"} \subseteq DOMAIN asked
  BY <1>5, <1>7, Names
<1> QED
  BY <1>1, <1>4, <1>5, <1>7, <1>8, <1>10, <1>11, <1>12, <1>13, <1>14, <1>15 DEF IInv

\* Every step keeps the invariant, and a new frame is built from the data model.
LEMMA StepHolds ==
    ASSUME IInv, [PathNext]_pathVars
    PROVE  IInv' /\ (bus' # bus => asked' = asked /\ \E id \in FrameIds : Sends(id))
<1>1. ASSUME NEW panel \in Panel, Operator(panel)
      PROVE  IInv' /\ bus' = bus
  <2>1. PICK part : Faithful(part) /\ Press(part)
    BY <1>1, ButtonsAreFaithful, Zenon
       DEF Operator, SendAll, SendControlNow, SendLimitsNow, SendTorqueNow, ApplyMode, SetGear
  <2>2. bus' = bus
    BY <2>1 DEF Press
  <2> QED
    BY <2>1, <2>2, PressHolds
<1>2. CASE handleCommand
  BY <1>2, HandleHolds, HandleIs
<1>3. CASE periodicTx
  BY <1>3, PeriodicHolds DEF periodicTx
<1>4. CASE DeratingStatus
  <2>1. bus' = bus
    BY <1>4 DEF DeratingStatus
  <2> QED
    BY <1>4, <2>1, ReportHolds
<1>5. CASE UNCHANGED pathVars
  <2>1. /\ uplink' = uplink /\ model' = model /\ bus' = bus /\ asked' = asked
        /\ reported' = reported
    BY <1>5 DEF pathVars
  <2>2. SameRequests(model, model') /\ Held(model') /\ bus'.payload \subseteq 0 .. 63
    BY <2>1 DEF SameRequests, IInv
  <2>3. LimitsKept' /\ ReportHeld'
    BY <2>1 DEF IInv, LimitsKept, LimitsHeld, ReportHeld
  <2> QED
    BY <2>1, <2>2, <2>3, RestHolds
<1> QED
  BY <1>1, <1>2, <1>3, <1>4, <1>5 DEF PathNext, Server

\* The types of the model.
THEOREM OperatorTypes == PathSpec => []PathTypeOK
<1>1. PathInit => IInv
  BY InitHolds
<1>2. IInv /\ [PathNext]_pathVars => IInv'
  BY StepHolds
<1>3. IInv => PathTypeOK
  <2> SUFFICES ASSUME IInv PROVE PathTypeOK
    OBVIOUS
  <2>1. PICK m : m = model
    OBVIOUS
  <2>2. Held(m)
    BY <2>1 DEF IInv
  <2>3. \A f \in {"M_desired", "M_max", "Isq"} : m[f] \in Int
    <3>1. m.M_desired \in Int /\ m.Isq \in Int
      BY <2>2, PanelAssumption DEF Held, Numbers
    <3>2. m.M_max \in Int
      <4>1. \A r \in Small : r \in Int
        BY SMT DEF Small
      <4>2. \A r \in Reports : r \in Int
        BY <4>1, ReportsAre
      <4>3. \A t \in Numbers(MaxTorques) : t \in Int
        BY PanelAssumption DEF Numbers
      <4>4. 450 \in Int
        OBVIOUS
      <4>5. m.M_max = 450 \/ m.M_max \in Reports \/ m.M_max \in Numbers(MaxTorques)
        BY <2>2 DEF Held
      <4> QED
        BY <4>2, <4>3, <4>4, <4>5
    <3> QED
      BY <3>1, <3>2
  <2>4. DOMAIN m = {"Kl_15", "En_Is", "Brake_active", "TCS_active", "MotorCtrl", "GearCtrl",
                    "M_desired", "SurgeDamperState", "M_max", "M_min", "M_grad_max",
                    "n_max", "Isd", "Isq"}
    BY <2>2 DEF Held
  <2> QED
    BY <2>1, <2>3, <2>4 DEF PathTypeOK, IInv
<1> QED
  BY <1>1, <1>2, <1>3, PTL DEF PathSpec

\* When every command has been handled the frames are built from what was asked.
LEMMA SettledIs ==
    ASSUME IInv', uplink' = <<>>
    PROVE  /\ Held(model')
           /\ model'.En_Is = asked'.enable /\ model'.Isq = asked'.Iq
           /\ asked'.mode # Nothing => model'.MotorCtrl = MOTOR_MODE_MAP[asked'.mode]
           /\ asked'.gear # Nothing => model'.GearCtrl = GEAR_MAP[asked'.gear]
           /\ asked'.mode = "speed" => model'.M_desired = asked'.setpoint
           /\ ReportHeld' /\ (asked'.M_max # Nothing => LimitsHeld')
<1>1. \A name, e : ~ SaysLast(<<>>, name, e)
  BY DEF SaysLast
<1>2. \A m, name, field, e : Latest(<<>>, m, name, field, e) => m[field] = e
  BY <1>1 DEF Latest
<1>3. \A key \in DOMAIN NameOf : Kept(key)' => model'[NameOf[key]] = Want(key, asked'[key])
  BY <1>2 DEF Kept
<1>4. /\ Held(model') /\ Kept("enable")' /\ Kept("Iq")'
      /\ asked'.mode # Nothing => Kept("mode")'
      /\ asked'.gear # Nothing => Kept("gear")'
      /\ SpeedKept' /\ LimitsKept' /\ ReportHeld'
  BY DEF IInv
<1>5. /\ model'.En_Is = asked'.enable /\ model'.Isq = asked'.Iq
      /\ asked'.mode # Nothing => model'.MotorCtrl = MOTOR_MODE_MAP[asked'.mode]
      /\ asked'.gear # Nothing => model'.GearCtrl = GEAR_MAP[asked'.gear]
  BY <1>3, <1>4, Names
<1>6. asked'.mode = "speed" => model'.M_desired = asked'.setpoint
  BY <1>2, <1>4 DEF SpeedKept
<1>7. asked'.M_max # Nothing => LimitsHeld'
  BY <1>1, <1>4 DEF LimitsKept
<1> QED
  BY <1>4, <1>5, <1>6, <1>7

\* A frame that settles a request.
LEMMA SettledFrame ==
    ASSUME IInv, [PathNext]_pathVars, NEW id \in FrameIds, Settled(id)
    PROVE  /\ IInv' /\ uplink' = <<>> /\ asked' = asked
           /\ bus'.payload = PayloadOf(id, model')
<1>1. IInv' /\ uplink' = <<>> /\ asked' = asked /\ bus'.id = id /\ \E i \in FrameIds : Sends(i)
  BY StepHolds DEF Settled
<1>2. PICK i \in FrameIds : Sends(i)
  BY <1>1
<1> QED
  BY <1>1, <1>2, FrameIs

\* For any currents that fit the field: the current the inverter reads, and
\* whether it is enabled, is what the panel asked for last.
THEOREM CurrentAsAskedCorrect == CurrentsFit => (PathSpec => CurrentAsAsked)
<1> SUFFICES ASSUME CurrentsFit PROVE PathSpec => CurrentAsAsked
  OBVIOUS
<1>1. PathInit => IInv
  BY InitHolds
<1>2. IInv /\ [PathNext]_pathVars => IInv'
  BY StepHolds
<1>3. IInv /\ [PathNext]_pathVars =>
        (Settled("0x300") =>
           /\ CurrentEnabled(bus'.payload) = asked.enable
           /\ asked.enable => IqCommand(bus'.payload) = asked.Iq)
  <2> SUFFICES ASSUME IInv, [PathNext]_pathVars, Settled("0x300")
               PROVE  /\ CurrentEnabled(bus'.payload) = asked.enable
                      /\ IqCommand(bus'.payload) = asked.Iq
    OBVIOUS
  <2>1. "0x300" \in FrameIds
    BY DEF FrameIds
  <2>2. /\ IInv' /\ uplink' = <<>> /\ asked' = asked
        /\ bus'.payload = PayloadOf("0x300", model')
    BY <2>1, SettledFrame
  <2>3. PayloadOf("0x300", model') = CurrentPayload(model')
    BY DEF PayloadOf
  <2>4. Held(model') /\ model'.En_Is = asked.enable /\ model'.Isq = asked.Iq
    BY <2>2, SettledIs
  <2>5. /\ IqCommand(CurrentPayload(model')) = model'.Isq
        /\ CurrentEnabled(CurrentPayload(model')) = model'.En_Is
    BY <2>4, CurrentsAreRead
  <2> QED
    BY <2>2, <2>3, <2>4, <2>5, Zenon
<1> QED
  BY <1>1, <1>2, <1>3, PTL DEF PathSpec, CurrentAsAsked

\* For any speeds that fit the field: so are the state, the gear and, in speed
\* mode, the setpoint.
THEOREM ControlAsAskedCorrect == SpeedsFit => (PathSpec => ControlAsAsked)
<1> SUFFICES ASSUME SpeedsFit PROVE PathSpec => ControlAsAsked
  OBVIOUS
<1>1. PathInit => IInv
  BY InitHolds
<1>2. IInv /\ [PathNext]_pathVars => IInv'
  BY StepHolds
<1>3. IInv /\ [PathNext]_pathVars =>
        (Settled("0x046") =>
           /\ asked.mode # Nothing =>
                  RequestedState(bus'.payload) = MOTOR_MODE_MAP[asked.mode]
           /\ asked.gear # Nothing => ActualGear(bus'.payload) = GEAR_MAP[asked.gear]
           /\ asked.mode = "speed" =>
                  DesiredTorque(bus'.payload) = Truncate(1000 * asked.setpoint, 15675))
  <2> SUFFICES ASSUME IInv, [PathNext]_pathVars, Settled("0x046")
               PROVE  /\ asked.mode # Nothing =>
                             RequestedState(bus'.payload) = MOTOR_MODE_MAP[asked.mode]
                      /\ asked.gear # Nothing => ActualGear(bus'.payload) = GEAR_MAP[asked.gear]
                      /\ asked.mode = "speed" =>
                             DesiredTorque(bus'.payload) = Truncate(1000 * asked.setpoint, 15675)
    OBVIOUS
  <2>1. "0x046" \in FrameIds
    BY DEF FrameIds
  <2>2. /\ IInv' /\ uplink' = <<>> /\ asked' = asked
        /\ bus'.payload = PayloadOf("0x046", model')
    BY <2>1, SettledFrame
  <2>3. PayloadOf("0x046", model') = ControlPayload(model')
    BY DEF PayloadOf
  <2>4. /\ Held(model')
        /\ asked.mode # Nothing => model'.MotorCtrl = MOTOR_MODE_MAP[asked.mode]
        /\ asked.gear # Nothing => model'.GearCtrl = GEAR_MAP[asked.gear]
        /\ asked.mode = "speed" => model'.M_desired = asked.setpoint
    BY <2>2, SettledIs
  <2>5. /\ RequestedState(ControlPayload(model')) = model'.MotorCtrl
        /\ ActualGear(ControlPayload(model')) = model'.GearCtrl
        /\ model'.MotorCtrl = 4 =>
             DesiredTorque(ControlPayload(model')) = Truncate(1000 * model'.M_desired, 15675)
    BY <2>4, ControlIsRead
  <2>6. asked.mode = "speed" => asked.mode # Nothing /\ MOTOR_MODE_MAP[asked.mode] = 4
    BY PanelAssumption DEF MOTOR_MODE_MAP
  <2> QED
    BY <2>2, <2>3, <2>4, <2>5, <2>6
<1> QED
  BY <1>1, <1>2, <1>3, PTL DEF PathSpec, ControlAsAsked

\* For any limits that fit the field: once the inverter has reported a torque
\* limit the torque limits sent are the last it reported, until the panel's have
\* come in; then they are those set last, and the others are in any case.
THEOREM LimitsAsSetCorrect == MaxTorquesFit => (PathSpec => LimitsAsSet)
<1> SUFFICES ASSUME MaxTorquesFit PROVE PathSpec => LimitsAsSet
  OBVIOUS
<1>1. PathInit => IInv
  BY InitHolds
<1>2. IInv /\ [PathNext]_pathVars => IInv'
  BY StepHolds
<1>3. IInv /\ [PathNext]_pathVars =>
        (Settled("0x047") =>
           /\ IF reported' # Nothing
              THEN MaxTorque(bus'.payload) = reported' /\ MinTorque(bus'.payload) = - reported'
              ELSE asked.M_max # Nothing =>
                     MaxTorque(bus'.payload) = asked.M_max /\ MinTorque(bus'.payload) = -50
           /\ asked.M_max # Nothing =>
                  TorqueGradient(bus'.payload) = Truncate(50, 32) /\ MaxSpeed(bus'.payload) = 1000)
  <2> SUFFICES ASSUME IInv, [PathNext]_pathVars, Settled("0x047")
               PROVE  /\ IF reported' # Nothing
                         THEN /\ MaxTorque(bus'.payload) = reported'
                              /\ MinTorque(bus'.payload) = - reported'
                         ELSE asked.M_max # Nothing =>
                                /\ MaxTorque(bus'.payload) = asked.M_max
                                /\ MinTorque(bus'.payload) = -50
                      /\ asked.M_max # Nothing =>
                             /\ TorqueGradient(bus'.payload) = Truncate(50, 32)
                             /\ MaxSpeed(bus'.payload) = 1000
    BY Zenon
  <2>1. "0x047" \in FrameIds
    BY DEF FrameIds
  <2>2. /\ IInv' /\ uplink' = <<>> /\ asked' = asked
        /\ bus'.payload = PayloadOf("0x047", model')
    BY <2>1, SettledFrame
  <2>3. PayloadOf("0x047", model') = LimitPayload(model')
    BY DEF PayloadOf
  <2>4. Held(model') /\ ReportHeld' /\ (asked.M_max # Nothing => LimitsHeld')
    BY <2>2, SettledIs
  <2>5. /\ MinTorque(LimitPayload(model')) = model'.M_min
        /\ MaxTorque(LimitPayload(model')) = model'.M_max
        /\ TorqueGradient(LimitPayload(model')) = Truncate(model'.M_grad_max, 32)
        /\ MaxSpeed(LimitPayload(model')) = 1000
    BY <2>4, LimitsAreRead
  <2>6. reported' # Nothing => model'.M_max = reported' /\ model'.M_min = - reported'
    BY <2>4 DEF ReportHeld
  <2>7. asked.M_max # Nothing =>
          /\ reported' = Nothing => model'.M_max = asked.M_max /\ model'.M_min = -50
          /\ model'.M_grad_max = 50
    BY <2>2, <2>4 DEF LimitsHeld
  <2> QED
    BY <2>2, <2>3, <2>5, <2>6, <2>7
<1> QED
  BY <1>1, <1>2, <1>3, PTL DEF PathSpec, LimitsAsSet
=============================================================================
