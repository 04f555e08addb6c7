------------------------------ MODULE Commands ------------------------------
(***************************************************************************)
(* The arguments of "go" and "setoption": interface/uci_handler.h,         *)
(* interface/uci_options.h and parsing/input_parsing.h.  A line is a       *)
(* sequence of words with one space between them; a word is a text or a    *)
(* number.                                                                 *)
(***************************************************************************)
EXTENDS Integers, Sequences, FiniteSetsExt, TimeManager

Text(text) == [text |-> text, number |-> Unset]
Number(n) == [text |-> "number", number |-> n]

to_number(word) == word.number
ValueOr0(word) == IF to_number(word) = Unset THEN 0 ELSE to_number(word)

----------------------------------------------------------------------------
(* go                                                                      *)

\* Where the loop reads a setting: each takes a word and its value, "ponder"
\* one word.  sv_next_split() gives a word only when another one follows, so
\* the last word of the line is never a setting.
SettingsAt(args) ==
  LET isSetting[i \in 1..Len(args)] ==
        i = 1 \/ (isSetting[i - 1] => args[i - 1].text = "ponder")
  IN {i \in 1..(Len(args) - 1) : isSetting[i]}

\* The word after the last setting of that name.
HasSetting(args, name) == \E i \in SettingsAt(args) : args[i].text = name
LastValue(args, name) == args[Max({i \in SettingsAt(args) : args[i].text = name}) + 1]
SettingOr0(args, name) == IF HasSetting(args, name) THEN ValueOr0(LastValue(args, name)) ELSE 0

GoPonders(args) == HasSetting(args, "ponder")

\* std::optional<uint8_t>: the number loses its upper bits.
GoDepth(args) ==
  IF HasSetting(args, "depth") /\ to_number(LastValue(args, "depth")) # Unset
    THEN to_number(LastValue(args, "depth")) % DepthRange ELSE Unset

\* resetTiming(), then the settings.
GoTime(tm, args) ==
  [reset(tm) EXCEPT
     !.time = [white |-> SettingOr0(args, "wtime"), black |-> SettingOr0(args, "btime")],
     !.inc = [white |-> SettingOr0(args, "winc"), black |-> SettingOr0(args, "binc")],
     !.movesToGo = SettingOr0(args, "movestogo"),
     !.moveTime = IF HasSetting(args, "movetime") THEN SettingOr0(args, "movetime") ELSE @]

----------------------------------------------------------------------------
(* setoption                                                               *)

Limits == [Hash |-> [min |-> 1, max |-> 1024], Threads |-> [min |-> 1, max |-> 128],
           MoveOverhead |-> [min |-> 0, max |-> 10000], SyzygyProbeLimit |-> [min |-> 0, max |-> 7]]
Defaults == [Hash |-> 16, Threads |-> 1, MoveOverhead |-> 50, SyzygyProbeLimit |-> 0,
             Ponder |-> FALSE]
Spins == DOMAIN Limits

\* "name" <option> "value" <value>; every word but the value needs one after it.
IsSetOption(args) ==
  /\ Len(args) >= 4
  /\ args[1].text = "name" /\ args[3].text = "value"
  /\ args[2].text \in DOMAIN Defaults
OptionName(args) == args[2].text

\* Mutant: the upper limit is not looked at.
AcceptsAnyAbove(name, word) ==
  IF name \in Spins THEN to_number(word) >= Limits[name].min ELSE word.text \in {"true", "false"}

\* handleInput(): what an option takes.
Accepts(name, word) ==
  IF name \in Spins
    THEN /\ to_number(word) # Unset
         /\ to_number(word) >= Limits[name].min /\ to_number(word) =< Limits[name].max
    ELSE word.text \in {"true", "false"}
OptionValue(name, word) == IF name \in Spins THEN to_number(word) ELSE word.text = "true"
=============================================================================
