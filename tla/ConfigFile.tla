----------------------------- MODULE ConfigFile -----------------------------
(***************************************************************************)
(* Config.ini: what ConfigManager::load reads at the start, what save      *)
(* writes key by key, and what someone may write by hand in between.  The  *)
(* server may be killed between two keys.                                  *)
(*                                                                         *)
(* One field of the data model is watched.  A text is <<notation, value>>. *)
(* A real number is counted in thousandths.  ^M stands for the Cyrillic    *)
(* letter in four of the names in the source.                              *)
(***************************************************************************)
EXTENDS Integers, Sequences

CONSTANTS
    ByHand,     \* the fields someone edits in the file
    Infinite,   \* a number beyond float
    Unknown

Absent == <<>>              \* no such key
Garbled == <<"garbled">>    \* a text that is no value

Key(name, kind, default) == [name |-> name, kind |-> kind, default |-> default]

\* The keys of load and save: field -> section and name, type, default.
ConfigKeys ==
    [ configFilePath |-> Key(<<"Path_Settings", "Config_File">>, "string", "config/Config.ini"),
      canBoard     |-> Key(<<"Can", "Can-Board">>, "int", 0),
      canChannel   |-> Key(<<"Can", "Can-Ch">>, "int", 0),
      canBaud      |-> Key(<<"Can", "Can-Baud">>, "int", 0),
      canFlags     |-> Key(<<"Can", "Can-Flags">>, "int", 0),
      acode        |-> Key(<<"Can", "ACode-Filter">>, "hex", 50),
      amask        |-> Key(<<"Can", "AMask-Filter">>, "hex", 0),
      Kl_15        |-> Key(<<"Motor", "Kl_15">>, "bool", FALSE),
      En_rem       |-> Key(<<"Motor", "En_rem">>, "bool", FALSE),
      Dampf_U      |-> Key(<<"Motor", "Dampf_U">>, "int", 0),
      Brake_active |-> Key(<<"Motor", "Brake active">>, "bool", FALSE),
      TCS_active   |-> Key(<<"Motor", "TCS activ">>, "bool", FALSE),
      M_min        |-> Key(<<"Motor", "^M_min">>, "float", -10000),
      M_grad_max   |-> Key(<<"Motor", "^M_grad_max">>, "float", 4000000),
      M_max        |-> Key(<<"Motor", "^M_max">>, "float", 10000),
      dM_damp_Ctrl |-> Key(<<"Motor", "d^M_damp_Ctrl">>, "float", 100),
      i_R          |-> Key(<<"Motor", "i_R">>, "float", 9780),
      En_Is        |-> Key(<<"Motor", "En_Is">>, "bool", FALSE),
      Isd          |-> Key(<<"Motor", "Is_sd">>, "float", 0),
      Isq          |-> Key(<<"Motor", "Is_sq">>, "float", 0),
      n_max        |-> Key(<<"Motor", "n_max">>, "float", 1000000),
      T_Str_max    |-> Key(<<"Motor", "T_Str_max">>, "float", 85000) ]

ConfigFields == DOMAIN ConfigKeys

\* Config.ini as it comes with the server has four names in Latin letters.
ShippedName ==
    [ f \in ConfigFields |->
        CASE f = "M_min"        -> <<"Motor", "M_min">>
          [] f = "M_grad_max"   -> <<"Motor", "M_grad_max">>
          [] f = "M_max"        -> <<"Motor", "M_max">>
          [] f = "dM_damp_Ctrl" -> <<"Motor", "dM_damp_Ctrl">>
          [] OTHER              -> ConfigKeys[f].name ]

\* The fields a command or a frame of the inverter sets.
Changing ==
    {"Kl_15", "Brake_active", "TCS_active", "M_min", "M_grad_max", "M_max",
     "En_Is", "Isd", "Isq", "n_max"}

ConfigValues(kind) ==
    CASE kind = "string" -> {"config/Config.ini", "C:\\data\\Config.ini"}
      [] kind = "int"    -> {0, 6}
      [] kind = "hex"    -> {50, 1074}
      [] kind = "bool"   -> BOOLEAN
      [] kind = "float"  -> {-9780, 0, 500, 4200000, 12345678, Infinite}

\* A number is written with a point or, as in the shipped file, with a comma.
Notations(kind) ==
    CASE kind = "bool"  -> {"word", "digit"}
      [] kind = "float" -> {"point", "comma"}
      [] OTHER          -> {kind}

-----------------------------------------------------------------------------

(***************************************************************************)
(* The readers and the writers.                                            *)
(***************************************************************************)

\* Mutant: the comma stays.
fixLocaleNumber_bug(text) == text

fixLocaleNumber(text) == IF text[1] = "comma" THEN <<"point", text[2]>> ELSE text

\* std::stof stops at a comma.
stof(text) ==
    IF text[1] = "comma" /\ text[2] # Infinite
    THEN 1000 * (IF text[2] >= 0 THEN text[2] \div 1000 ELSE - ((- text[2]) \div 1000))
    ELSE text[2]

\* readString, readInt, readFloat and readBool; GetPrivateProfileInt makes 0 of
\* what is no number.
readText(kind, text, default) ==
    IF text = Absent THEN default
    ELSE IF text = Garbled THEN IF kind = "int" THEN 0 ELSE default
    ELSE IF kind = "float" THEN stof(fixLocaleNumber(text))
    ELSE text[2]

\* operator<< prints six digits.
Printed(n) ==
    IF n = Infinite THEN n
    ELSE LET size == IF n >= 0 THEN n ELSE - n
             unit == IF size < 1000000 THEN 1 ELSE IF size < 10000000 THEN 10 ELSE 100
         IN  (IF n >= 0 THEN 1 ELSE -1) * unit * ((size + unit \div 2) \div unit)

\* Mutant: flags are written as yes and no, which readBool does not know.
writeText_bug(kind, value) ==
    CASE kind = "float" -> <<"point", Printed(value)>>
      [] kind = "bool"  -> Garbled
      [] OTHER          -> <<kind, value>>

\* writeString, writeInt, writeFloat and writeBool
writeText(kind, value) ==
    CASE kind = "float" -> <<"point", Printed(value)>>
      [] kind = "bool"  -> <<"word", value>>
      [] OTHER          -> <<kind, value>>

-----------------------------------------------------------------------------

VARIABLES
    entry,      \* the field watched
    file,       \* its names -> their texts
    field,      \* the field in the data model
    phase,      \* "down", "loaded" (and not changed since), "up" or "saving"
    intended    \* what the file last written says to whoever wrote it

configVars == <<entry, file, field, phase, intended>>

entryKey == ConfigKeys[entry]

ConfigInit ==
    /\ entry \in ConfigFields
    /\ file = [n \in {entryKey.name, ShippedName[entry]} |-> Absent]
    /\ field = Unknown /\ phase = "down" /\ intended = Unknown

\* main: stoul throws at a filter that is no number, and the server ends.
load ==
    /\ phase = "down"
    /\ ~ (entryKey.kind = "hex" /\ file[entryKey.name] = Garbled)
    /\ field' = readText(entryKey.kind, file[entryKey.name], entryKey.default)
    /\ phase' = "loaded"
    /\ UNCHANGED <<entry, file, intended>>

Change ==
    /\ phase \in {"loaded", "up"} /\ entry \in Changing
    /\ field' \in ConfigValues(entryKey.kind)
    /\ phase' = "up"
    /\ UNCHANGED <<entry, file, intended>>

\* SaveCfg: the state machine clears the current request first.
SaveCfg ==
    /\ phase \in {"loaded", "up"}
    /\ field' = CASE entry = "En_Is"          -> FALSE
                  [] entry \in {"Isd", "Isq"} -> 0
                  [] OTHER                      -> field
    /\ phase' = "saving"
    /\ UNCHANGED <<entry, file, intended>>

\* The key is written, at some time before the save ends.
save ==
    /\ phase = "saving"
    /\ file' = [file EXCEPT ![entryKey.name] = writeText(entryKey.kind, field)]
    /\ intended' = IF entryKey.kind = "float" THEN Printed(field) ELSE field
    /\ phase' = "up"
    /\ UNCHANGED <<entry, field>>

Killed ==
    /\ phase # "down"
    /\ phase' = "down" /\ field' = Unknown
    /\ UNCHANGED <<entry, file, intended>>

\* Someone writes a value into the file, as the shipped one has it.
Edit ==
    /\ phase = "down" /\ entry \in ByHand
    /\ \E v \in ConfigValues(entryKey.kind) \ {Infinite}, n \in Notations(entryKey.kind) :
         /\ file' = [file EXCEPT ![ShippedName[entry]] = <<n, v>>]
         /\ intended' = v
    /\ UNCHANGED <<entry, field, phase>>

\* Or something that is none.
Garble ==
    /\ phase = "down" /\ entry \in ByHand
    /\ file' = [file EXCEPT ![ShippedName[entry]] = Garbled]
    /\ intended' = Unknown
    /\ UNCHANGED <<entry, field, phase>>

ConfigNext ==
    load \/ Change \/ SaveCfg \/ save \/ Killed \/ Edit \/ Garble

ConfigSpec == ConfigInit /\ [][ConfigNext]_configVars

-----------------------------------------------------------------------------

\* The server starts with what the file says to whoever wrote it last, be it a
\* save, cut short or not, or someone with an editor.
FileIsRead == phase = "loaded" /\ intended # Unknown => field = intended
============================================================================
