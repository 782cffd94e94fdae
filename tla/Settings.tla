---- MODULE Settings ----
(***************************************************************************)
(* config.py, app.py and the zoom handlers of window.py: the configuration *)
(* file, which the user edits, and the running instances, which load it    *)
(* when they start and save their whole configuration on every zoom.       *)
(*                                                                         *)
(* Of the fields system_prompt stands for all texts, request_timeout for   *)
(* the fields that are converted, and the two font sizes for themselves.   *)
(***************************************************************************)
EXTENDS TomlText

CONSTANTS
  Instances,
  Missing,      \* a key that is not in the file, a file that is not there
  MaxEdits,     \* bound: edits of the file
  MinFont, MaxFont, DefaultFont,
  Sizes         \* font sizes a user may write into the file, in range or not

ASSUME SettingsAssumption ==
  /\ MaxEdits \in Nat
  /\ MinFont \in Nat /\ MaxFont \in Nat /\ DefaultFont \in MinFont..MaxFont
  /\ MinFont..MaxFont \subseteq Sizes /\ Sizes \subseteq Int

VARIABLES
  file,        \* what reading the file yields: Missing, Unreadable or its keys
  config,      \* the configuration an instance has loaded, Missing if it is not running
  font_size,   \* the font size of an instance
  saving,      \* what an instance is about to write into the emptied file, or Missing
  edits,       \* edits so far
  remembered,  \* remembers: the configuration the user would expect
  spoiled      \* remembers: a save was cut off, overlapped, out of date or not TOML

vars == <<file, config, font_size, saving, edits, remembered, spoiled>>

\* Bound: the texts a user writes; the last cannot be saved.
DefaultPrompt == <<"letter">>
Texts == {<<>>, DefaultPrompt, <<"quote", "newline", "backslash">>, <<"newline">>}
Fonts == MinFont..MaxFont

\* request_timeout in Python: no timeout, an int or a float; and in the file.
Timeouts == {"None", "int", "float"}
Forms == {"string none", "string number", "int", "float"}

Defaults ==
  [system_prompt |-> DefaultPrompt, request_timeout |-> "None",
   terminal_font_size |-> DefaultFont, chat_font_size |-> DefaultFont]

Config == [system_prompt : Texts, request_timeout : Timeouts,
           terminal_font_size : Sizes, chat_font_size : Sizes]

\* What a readable file can say.
File ==
  [system_prompt : Texts \cup {Missing}, system_prompt_override : Texts \cup {Missing},
   request_timeout : Forms \cup {Missing},
   terminal_font_size : Sizes \cup {Missing}, chat_font_size : Sizes \cup {Missing}]

\* What is missing is not there with any value.
ASSUME MissingAssumption ==
  /\ Missing \notin Texts /\ Missing \notin Forms /\ Missing \notin Sizes
  /\ Missing \notin Config /\ Missing \notin File /\ Missing # Unreadable

Empty == [system_prompt |-> Missing, system_prompt_override |-> Missing,
          request_timeout |-> Missing, terminal_font_size |-> Missing,
          chat_font_size |-> Missing]

Init ==
  /\ file = Missing
  /\ config = [i \in Instances |-> Missing]
  /\ font_size = [i \in Instances |-> DefaultFont]
  /\ saving = [i \in Instances |-> Missing]
  /\ edits = 0
  /\ remembered = Defaults
  /\ spoiled = FALSE

----------------------------------------------------------------------------
(* load_config and save_config.                                            *)

Or(value, default) == IF value = Missing THEN default ELSE value

\* The old name of the prompt counts when the new one is not there.
LoadPrompt(raw) ==
  IF raw.system_prompt # Missing \/ raw.system_prompt_override = Missing
  THEN Or(raw.system_prompt, DefaultPrompt)
  ELSE IF raw.system_prompt_override = <<>> THEN DefaultPrompt
       ELSE raw.system_prompt_override

\* Strings for the timeout are "none" and its synonyms or a number.
LoadTimeout(raw) ==
  CASE raw.request_timeout \in {Missing, "string none"} -> "None"
    [] raw.request_timeout \in {"string number", "float"} -> "float"
    [] raw.request_timeout = "int" -> "int"

\* Sizes are taken as they are.
Load(raw) ==
  IF raw = Missing THEN Defaults
  ELSE [system_prompt |-> LoadPrompt(raw),
        request_timeout |-> LoadTimeout(raw),
        terminal_font_size |-> Or(raw.terminal_font_size, DefaultFont),
        chat_font_size |-> Or(raw.chat_font_size, DefaultFont)]

\* Mutant: a number is written like no timeout.
SaveTimeout_Dropped(value) == IF value = "int" THEN "int" ELSE "string none"

\* Neither None nor a float is a bool or an int: both are written as strings.
SaveTimeout(value) ==
  CASE value = "None" -> "string none" [] value = "int" -> "int" [] OTHER -> "string number"

Saved(c) ==
  LET prompt == TomlRead(TomlValue(c.system_prompt))
  IN  IF ~prompt.ok THEN Unreadable
      ELSE [system_prompt |-> prompt.text, system_prompt_override |-> Missing,
            request_timeout |-> SaveTimeout(c.request_timeout),
            terminal_font_size |-> c.terminal_font_size,
            chat_font_size |-> c.chat_font_size]

----------------------------------------------------------------------------
(* main, the zoom handlers, and what ends an instance.  write_text empties *)
(* the file before it writes.                                              *)

Running(i) == config[i] # Missing
Saving == {i \in Instances : saving[i] # Missing}

EmptyFile(i, c) ==
  /\ file' = Empty
  /\ saving' = [saving EXCEPT ![i] = c]

\* A file that cannot be read ends main with an exception.
Start(i) ==
  /\ ~Running(i)
  /\ file # Unreadable
  /\ config' = [config EXCEPT ![i] = Load(file)]
  /\ font_size' = [font_size EXCEPT ![i] = Load(file).terminal_font_size]
  /\ IF file = Missing THEN EmptyFile(i, Defaults) ELSE UNCHANGED <<file, saving>>
  /\ UNCHANGED <<edits, remembered, spoiled>>

WithFont(c, size) == [c EXCEPT !.terminal_font_size = size, !.chat_font_size = size]

\* The instance has loaded what the file says now, sizes apart.
Current(i) == WithFont(Load(file), DefaultFont) = WithFont(config[i], DefaultFont)

\* Mutant: the size is not clamped.
Zoomed_Unclamped(size, step) == size + step

Zoomed(size, step) == Max({MinFont, Min({MaxFont, size + step})})

\* Both scroll handlers.  config itself is not updated.
Zoom(i, step) ==
  /\ Running(i) /\ i \notin Saving
  /\ Zoomed(font_size[i], step) # font_size[i]
  /\ font_size' = [font_size EXCEPT ![i] = Zoomed(@, step)]
  /\ EmptyFile(i, WithFont(config[i], font_size'[i]))
  /\ spoiled' = (spoiled \/ Saving # {} \/ ~Current(i))
  /\ UNCHANGED <<config, edits, remembered>>

\* When another instance has written meanwhile, the end of its longer text may
\* be left behind this one.
FinishSave(i) ==
  /\ i \in Saving
  /\ \/ file' = Saved(saving[i])
     \/ file # Empty /\ file' = Unreadable
  /\ saving' = [saving EXCEPT ![i] = Missing]
  /\ remembered' = WithFont(remembered, saving[i].terminal_font_size)
  /\ spoiled' = (spoiled \/ ~Savable(saving[i].system_prompt))
  /\ UNCHANGED <<config, font_size, edits>>

Quit(i) ==
  /\ Running(i) /\ i \notin Saving
  /\ config' = [config EXCEPT ![i] = Missing]
  /\ UNCHANGED <<file, font_size, saving, edits, remembered, spoiled>>

\* The power fails between emptying the file and writing it.
CutOff(i) ==
  /\ i \in Saving
  /\ config' = [config EXCEPT ![i] = Missing]
  /\ saving' = [saving EXCEPT ![i] = Missing]
  /\ spoiled' = TRUE
  /\ UNCHANGED <<file, font_size, edits, remembered>>

\* The user writes or deletes a key, in TOML that says what it should.
Edit(key, value) ==
  /\ file \notin {Missing, Unreadable}
  /\ Saving = {}
  /\ edits < MaxEdits
  /\ edits' = edits + 1
  /\ file' = [file EXCEPT ![key] = value]
  /\ remembered' = Load(file')
  /\ UNCHANGED <<config, font_size, saving, spoiled>>

User ==
  \/ \E key \in {"system_prompt", "system_prompt_override"},
        text \in Texts \cup {Missing} : Edit(key, text)
  \/ \E form \in Forms \cup {Missing} : Edit("request_timeout", form)
  \/ \E key \in {"terminal_font_size", "chat_font_size"}, size \in Sizes \cup {Missing} :
        Edit(key, size)

Next ==
  \/ \E i \in Instances :
       \/ Start(i) \/ FinishSave(i) \/ Quit(i) \/ CutOff(i)
       \/ \E step \in {-1, 1} : Zoom(i, step)
  \/ User

Spec == Init /\ [][Next]_vars

----------------------------------------------------------------------------

\* Each variable has its type; an instance's font size is in range (6 to 72 in
\* window.py), or it is the one the instance has loaded, which may be any.
TypeOK ==
  /\ file \in {Missing, Unreadable} \cup File
  /\ config \in [Instances -> Config \cup {Missing}]
  /\ font_size \in [Instances -> Sizes]
  /\ \A i \in Instances :
       Running(i) => font_size[i] \in Fonts \cup {config[i].terminal_font_size}
  /\ saving \in [Instances -> Config \cup {Missing}]
  /\ edits \in 0..MaxEdits
  /\ remembered \in Config
  /\ spoiled \in BOOLEAN

\* Whatever the user has set by editing or zooming is what the next start finds,
\* also after restarts, older key names and saves of other instances.  Only four
\* things spoil it: a save that is cut off, one that overlaps with another, one
\* of an instance that had loaded other settings, so that zooming undoes an edit
\* made meanwhile (README.md asks for a restart only), and a text TOML cannot hold.
SettingsSurvive ==
  ~spoiled /\ Saving = {} => file # Unreadable /\ Load(file) = remembered

====
