---- MODULE SettingsProofs ----
(***************************************************************************)
(* That the configuration file keeps what the user has set: proofs about   *)
(* Settings for any number of instances and edits and all font sizes.      *)
(***************************************************************************)
EXTENDS Settings, TomlProofs

----------------------------------------------------------------------------
(* What load_config and save_config compute.                               *)

\* The texts a user writes, and what TOML can hold of them.
LEMMA TextsRead ==
  ASSUME NEW prompt \in Texts
  PROVE  LET back == TomlRead(TomlValue(prompt))
         IN  /\ back.ok /\ back.text \in Texts
             /\ Savable(prompt) => back.text = prompt
<1>. DEFINE back == TomlRead(TomlValue(prompt))
<1>1. prompt \in Seq(Clean)
  <2>1. /\ <<>> \in Seq(Clean) /\ <<"letter">> \in Seq(Clean)
        /\ <<"newline">> \in Seq(Clean)
    BY DEF Clean
  <2>2. <<"quote", "newline", "backslash">> \in Seq(Clean)
    BY DEF Clean
  <2>. QED
    BY <2>1, <2>2 DEF Texts, DefaultPrompt
<1>2. back = [ok |-> TRUE,
              text |-> IF prompt # <<>> /\ Head(prompt) = "newline" THEN Tail(prompt)
                       ELSE prompt]
  BY <1>1, CleanReads
<1>3. CASE prompt # <<>> /\ Head(prompt) = "newline"
  <2>1. prompt = <<"newline">>
    BY <1>3 DEF Texts, DefaultPrompt
  <2>2. Tail(prompt) = <<>>
    BY <2>1
  <2>3. back.ok /\ back.text = <<>> /\ ~Savable(prompt)
    BY <1>2, <1>3, <2>2 DEF Savable
  <2>. QED
    BY <2>3 DEF Texts
<1>4. CASE ~(prompt # <<>> /\ Head(prompt) = "newline")
  <2>1. back.ok /\ back.text = prompt
    BY <1>2, <1>4
  <2>. QED
    BY <2>1
<1>. QED
  BY <1>3, <1>4

\* Loading yields a configuration whatever the file says.
LEMMA LoadType ==
  ASSUME NEW raw \in File \cup {Missing}
  PROVE  Load(raw) \in Config
<1>1. Defaults \in Config
  BY SettingsAssumption DEF Defaults, Config, Texts, Timeouts, Fonts
<1>2. CASE raw \in File
  <2>1. LoadPrompt(raw) \in Texts
    BY <1>2 DEF LoadPrompt, Or, File, Texts
  <2>2. LoadTimeout(raw) \in Timeouts
    BY <1>2, MissingAssumption DEF LoadTimeout, File, Forms, Timeouts
  <2>3. /\ Or(raw.terminal_font_size, DefaultFont) \in Sizes
        /\ Or(raw.chat_font_size, DefaultFont) \in Sizes
    BY <1>2, SettingsAssumption DEF Or, File, Fonts
  <2>. QED
    BY <1>1, <2>1, <2>2, <2>3 DEF Load, Config
<1>. QED
  BY <1>1, <1>2 DEF Load

\* Saving yields a file, and one that loads as what was saved if TOML can hold
\* its text.
LEMMA SavedLoads ==
  ASSUME NEW c \in Config
  PROVE  /\ Saved(c) \in File
         /\ Savable(c.system_prompt) => Load(Saved(c)) = c
<1>. DEFINE back == TomlRead(TomlValue(c.system_prompt))
            raw == [system_prompt |-> back.text, system_prompt_override |-> Missing,
                    request_timeout |-> SaveTimeout(c.request_timeout),
                    terminal_font_size |-> c.terminal_font_size,
                    chat_font_size |-> c.chat_font_size]
<1>1. /\ c.system_prompt \in Texts /\ c.request_timeout \in Timeouts
      /\ c.terminal_font_size \in Sizes /\ c.chat_font_size \in Sizes
      /\ c = [system_prompt |-> c.system_prompt, request_timeout |-> c.request_timeout,
              terminal_font_size |-> c.terminal_font_size, chat_font_size |-> c.chat_font_size]
  BY DEF Config
<1>2. back.ok /\ back.text \in Texts /\ (Savable(c.system_prompt) => back.text = c.system_prompt)
  BY <1>1, TextsRead
<1>. HIDE DEF back
<1>3. Saved(c) = raw
  BY <1>2 DEF Saved, back
<1>4. SaveTimeout(c.request_timeout) \in Forms
  BY <1>1 DEF SaveTimeout, Timeouts, Forms
<1>5. raw \in File
  BY <1>1, <1>2, <1>4 DEF File
<1>6. raw # Missing
  BY <1>5, MissingAssumption
<1>7. ASSUME Savable(c.system_prompt) PROVE Load(raw) = c
  <2>1. LoadPrompt(raw) = c.system_prompt
    BY <1>1, <1>2, <1>7, MissingAssumption DEF LoadPrompt, Or
  <2>2. LoadTimeout(raw) = c.request_timeout
    <3>1. raw.request_timeout = SaveTimeout(c.request_timeout)
      OBVIOUS
    <3>. HIDE DEF raw
    <3>2. CASE c.request_timeout = "None"
      BY <1>4, <3>1, <3>2, MissingAssumption DEF SaveTimeout, LoadTimeout
    <3>3. CASE c.request_timeout = "int"
      BY <1>4, <3>1, <3>3, MissingAssumption DEF SaveTimeout, LoadTimeout
    <3>4. CASE c.request_timeout = "float"
      BY <1>4, <3>1, <3>4, MissingAssumption DEF SaveTimeout, LoadTimeout
    <3>. QED
      BY <1>1, <3>2, <3>3, <3>4 DEF Timeouts
  <2>3. /\ Or(raw.terminal_font_size, DefaultFont) = c.terminal_font_size
        /\ Or(raw.chat_font_size, DefaultFont) = c.chat_font_size
    BY <1>1, MissingAssumption DEF Or
  <2>. HIDE DEF raw
  <2>4. Load(raw) = [system_prompt |-> c.system_prompt, request_timeout |-> c.request_timeout,
                     terminal_font_size |-> c.terminal_font_size,
                     chat_font_size |-> c.chat_font_size]
    BY <1>6, <2>1, <2>2, <2>3 DEF Load
  <2>. QED
    BY <1>1, <2>4
<1>. QED
  BY <1>3, <1>5, <1>7

\* A readable file is neither missing nor unreadable, and an emptied one is readable.
LEMMA FileKinds ==
  /\ Missing \notin File /\ Unreadable \notin File /\ Missing # Unreadable
  /\ Empty \in File
<1>1. Empty \in File
  BY DEF Empty, File
<1>2. Unreadable \notin File
  BY DEF Unreadable, File
<1>. QED
  BY <1>1, <1>2, MissingAssumption

\* Sizes are clamped.
LEMMA ZoomedType ==
  ASSUME NEW size \in Sizes, NEW step \in {-1, 1}
  PROVE  Zoomed(size, step) \in Fonts /\ Fonts \subseteq Sizes
<1>. DEFINE least == Min({MaxFont, size + step})
<1>1. size \in Int /\ size + step \in Int /\ MinFont <= MaxFont
      /\ MinFont \in Nat /\ MaxFont \in Nat
  BY SettingsAssumption DEF Fonts
<1>2. least \in {MaxFont, size + step} /\ least <= MaxFont
  <2>1. \E x \in {MaxFont, size + step} : \A y \in {MaxFont, size + step} : x <= y
    BY <1>1
  <2>. QED
    BY <1>1, <2>1 DEF Min
<1>3. least \in Int
  BY <1>1, <1>2
<1>. HIDE DEF least
<1>4. Max({MinFont, least}) \in {MinFont, least} /\ Max({MinFont, least}) >= MinFont
  <2>1. \E x \in {MinFont, least} : \A y \in {MinFont, least} : x >= y
    BY <1>1, <1>3
  <2>. QED
    BY <1>1, <1>3, <2>1 DEF Max
<1>5. Zoomed(size, step) \in Fonts
  BY <1>1, <1>2, <1>3, <1>4 DEF Zoomed, Fonts, least
<1>. QED
  BY <1>5, SettingsAssumption DEF Fonts

\* A configuration with another font size is one.
LEMMA WithFontType ==
  ASSUME NEW c \in Config, NEW size \in Sizes
  PROVE  /\ WithFont(c, size) \in Config
         /\ WithFont(c, size).terminal_font_size = size
         /\ \A other \in Sizes : WithFont(WithFont(c, other), size) = WithFont(c, size)
BY DEF WithFont, Config

----------------------------------------------------------------------------
(* Type correctness.                                                       *)

\* The type invariant holds in every initial state, and every step keeps it.
LEMMA SettingsTypeInit == Init => TypeOK
<1>1. Defaults \in Config /\ DefaultFont \in Sizes
  BY SettingsAssumption DEF Defaults, Config, Texts, Timeouts
<1>2. 0 \in 0..MaxEdits
  BY SettingsAssumption
<1>. QED
  BY <1>1, <1>2 DEF Init, TypeOK, Running

\* Every step keeps the types.
LEMMA SettingsTypeNext == TypeOK /\ [Next]_vars => TypeOK'
<1>. SUFFICES ASSUME TypeOK, [Next]_vars PROVE TypeOK'
  OBVIOUS
<1>. USE DEF TypeOK
<1>1. ASSUME NEW i \in Instances, Start(i) PROVE TypeOK'
  <2>1. Load(file) \in Config /\ Defaults \in Config /\ Load(file).terminal_font_size \in Sizes
    <3>1. file \in File \cup {Missing}
      BY <1>1 DEF Start
    <3>2. Load(file) \in Config /\ Defaults \in Config
      BY <3>1, LoadType DEF Load
    <3>. QED
      BY <3>2 DEF Config
  <2>2. file' \in {Missing, Unreadable} \cup File /\ saving' \in [Instances -> Config \cup {Missing}]
    BY <1>1, <2>1, FileKinds DEF Start, EmptyFile
  <2>3. config' \in [Instances -> Config \cup {Missing}] /\ font_size' \in [Instances -> Sizes]
    BY <1>1, <2>1 DEF Start
  <2>4. ASSUME NEW j \in Instances, Running(j)'
        PROVE  font_size'[j] \in Fonts \cup {config'[j].terminal_font_size}
    <3>1. j # i => config'[j] = config[j] /\ font_size'[j] = font_size[j]
      BY <1>1, <2>1 DEF Start
    <3>2. j = i => config'[j].terminal_font_size = font_size'[j]
      BY <1>1 DEF Start
    <3>. QED
      BY <2>4, <3>1, <3>2 DEF Running
  <2>. QED
    BY <1>1, <2>2, <2>3, <2>4 DEF Start
<1>2. ASSUME NEW i \in Instances, NEW step \in {-1, 1}, Zoom(i, step) PROVE TypeOK'
  <2>1. Zoomed(font_size[i], step) \in Fonts /\ Fonts \subseteq Sizes
    BY ZoomedType
  <2>2. /\ font_size' \in [Instances -> Sizes] /\ font_size'[i] \in Sizes
        /\ \A j \in Instances : font_size'[j] = font_size[j] \/ font_size'[j] \in Fonts
    BY <1>2, <2>1 DEF Zoom
  <2>3. WithFont(config[i], font_size'[i]) \in Config
    <3>1. config[i] \in Config
      BY <1>2 DEF Zoom, Running
    <3>. QED
      BY <2>2, <3>1, WithFontType
  <2>4. file' \in File /\ saving' \in [Instances -> Config \cup {Missing}]
    BY <1>2, <2>3, FileKinds DEF Zoom, EmptyFile
  <2>5. spoiled' \in BOOLEAN
    BY <1>2 DEF Zoom
  <2>6. \A j \in Instances :
          Running(j)' => font_size'[j] \in Fonts \cup {config'[j].terminal_font_size}
    BY <1>2, <2>2 DEF Zoom, Running
  <2>. QED
    BY <1>2, <2>2, <2>4, <2>5, <2>6 DEF Zoom
<1>3. ASSUME NEW i \in Instances, FinishSave(i) PROVE TypeOK'
  <2>1. saving[i] \in Config
    BY <1>3 DEF FinishSave, Saving
  <2>2. Saved(saving[i]) \in File
    BY <2>1, SavedLoads
  <2>3. WithFont(remembered, saving[i].terminal_font_size) \in Config
    <3>1. saving[i].terminal_font_size \in Sizes
      BY <2>1 DEF Config
    <3>. QED
      BY <3>1, WithFontType
  <2>4. saving' \in [Instances -> Config \cup {Missing}]
    BY <1>3 DEF FinishSave
  <2>. QED
    BY <1>3, <2>2, <2>3, <2>4 DEF FinishSave, Running
<1>4. ASSUME NEW i \in Instances, Quit(i) PROVE TypeOK'
  BY <1>4 DEF Quit, Running
<1>5. ASSUME NEW i \in Instances, CutOff(i) PROVE TypeOK'
  BY <1>5 DEF CutOff, Running
<1>6. ASSUME User PROVE TypeOK'
  <2>1. ASSUME file' \in File, file \notin {Missing, Unreadable}, edits < MaxEdits,
               edits' = edits + 1, remembered' = Load(file'),
               UNCHANGED <<config, font_size, saving, spoiled>>
        PROVE  TypeOK'
    <3>1. remembered' \in Config
      BY <2>1, LoadType
    <3>2. edits' \in 0..MaxEdits
      BY <2>1, SettingsAssumption
    <3>. QED
      BY <2>1, <3>1, <3>2 DEF Running
  <2>2. ASSUME NEW key \in {"system_prompt", "system_prompt_override"},
               NEW text \in Texts \cup {Missing}, Edit(key, text)
        PROVE  TypeOK'
    BY <2>1, <2>2 DEF Edit, File
  <2>3. ASSUME NEW form \in Forms \cup {Missing}, Edit("request_timeout", form) PROVE TypeOK'
    BY <2>1, <2>3 DEF Edit, File
  <2>4. ASSUME NEW key \in {"terminal_font_size", "chat_font_size"},
               NEW size \in Sizes \cup {Missing}, Edit(key, size)
        PROVE  TypeOK'
    BY <2>1, <2>4 DEF Edit, File
  <2>. QED
    BY <1>6, <2>2, <2>3, <2>4 DEF User
<1>7. CASE UNCHANGED vars
  BY <1>7 DEF vars, Running
<1>. QED
  BY <1>1, <1>2, <1>3, <1>4, <1>5, <1>6, <1>7 DEF Next

\* Every variable of Settings keeps its type.
THEOREM SettingsTypeCorrect == Spec => []TypeOK
BY SettingsTypeInit, SettingsTypeNext, PTL DEF Spec

----------------------------------------------------------------------------
(* The invariant.                                                          *)

\* Nothing is written before there is a file.
WrittenInv == file = Missing => Saving = {}

\* As long as nothing has spoiled it, the file says what is remembered, or one
\* instance has emptied it and will write just that, apart from the font size
\* that it was zoomed to.
KeptInv ==
  ~spoiled =>
    /\ Saving = {} => file # Unreadable /\ Load(file) = remembered
    /\ \A i \in Saving :
         /\ Saving = {i} /\ file = Empty
         /\ saving[i] = WithFont(remembered, saving[i].terminal_font_size)

SettingsInv == WrittenInv /\ KeptInv

\* Who saves after one instance begins, and after it ends.
LEMMA SavingBegins ==
  ASSUME TypeOK, NEW i \in Instances, NEW c \in Config, saving' = [saving EXCEPT ![i] = c]
  PROVE  Saving' = Saving \cup {i} /\ saving'[i] = c
  BY MissingAssumption DEF TypeOK, Saving

\* The same when it has written, or was cut off.
LEMMA SavingEnds ==
  ASSUME TypeOK, NEW i \in Instances, saving' = [saving EXCEPT ![i] = Missing]
  PROVE  Saving' = Saving \ {i}
  BY DEF TypeOK, Saving

\* The configuration with the default sizes has one size for both.
LEMMA DefaultFonts ==
  Load(Missing) = Defaults /\ WithFont(Defaults, Defaults.terminal_font_size) = Defaults
<1>1. Load(Missing) = Defaults
  BY DEF Load
<1>2. Defaults.terminal_font_size = DefaultFont /\ Defaults.chat_font_size = DefaultFont
  BY DEF Defaults
<1>3. Defaults \in Config
  BY <1>1, LoadType
<1>4. \A c \in Config : c.chat_font_size = c.terminal_font_size =>
                       WithFont(c, c.terminal_font_size) = c
  BY DEF Config, WithFont
<1>. QED
  BY <1>1, <1>2, <1>3, <1>4

\* The invariant holds initially.
LEMMA SettingsInit == Init => SettingsInv
<1>. SUFFICES ASSUME Init PROVE SettingsInv
  OBVIOUS
<1>1. Saving = {} /\ file = Missing /\ Load(file) = remembered
  BY DefaultFonts DEF Init, Saving
<1>. QED
  BY <1>1, FileKinds DEF SettingsInv, WrittenInv, KeptInv

\* Every step keeps it.
LEMMA SettingsNext == TypeOK /\ SettingsInv /\ [Next]_vars => SettingsInv'
<1>. SUFFICES ASSUME TypeOK, SettingsInv, [Next]_vars PROVE SettingsInv'
  OBVIOUS
<1>0. Defaults \in Config
  BY LoadType, DefaultFonts
<1>1. ASSUME NEW i \in Instances, Start(i) PROVE SettingsInv'
  <2>1. CASE file = Missing
    <3>1. Saving = {} /\ file' = Empty /\ saving' = [saving EXCEPT ![i] = Defaults]
      BY <1>1, <2>1 DEF SettingsInv, WrittenInv, Start, EmptyFile
    <3>2. Saving' = {i} /\ saving'[i] = Defaults
      BY <1>0, <3>1, SavingBegins
    <3>3. ~spoiled => remembered = Defaults
      BY <2>1, <3>1, DefaultFonts DEF SettingsInv, KeptInv
    <3>4. remembered' = remembered /\ spoiled' = spoiled
      BY <1>1 DEF Start
    <3>. QED
      BY <3>1, <3>2, <3>3, <3>4, FileKinds, DefaultFonts DEF SettingsInv, WrittenInv, KeptInv
  <2>2. CASE file # Missing
    <3>1. UNCHANGED <<file, saving, remembered, spoiled>>
      BY <1>1, <2>2 DEF Start
    <3>. QED
      BY <3>1 DEF SettingsInv, WrittenInv, KeptInv, Saving
  <2>. QED
    BY <2>1, <2>2
<1>2. ASSUME NEW i \in Instances, NEW step \in {-1, 1}, Zoom(i, step) PROVE SettingsInv'
  <2>. DEFINE size == font_size'[i]
  <2>1. config[i] \in Config /\ size \in Sizes
    <3>1. Zoomed(font_size[i], step) \in Sizes
      BY ZoomedType DEF TypeOK
    <3>. QED
      BY <1>2, <3>1 DEF Zoom, Running, TypeOK
  <2>. HIDE DEF size
  <2>2. /\ file' = Empty /\ saving' = [saving EXCEPT ![i] = WithFont(config[i], size)]
        /\ remembered' = remembered
        /\ spoiled' = (spoiled \/ Saving # {} \/ ~Current(i))
    BY <1>2 DEF Zoom, EmptyFile, size
  <2>3. WithFont(config[i], size) \in Config /\ WithFont(config[i], size).terminal_font_size = size
    BY <2>1, WithFontType
  <2>4. Saving' = Saving \cup {i} /\ saving'[i] = WithFont(config[i], size)
    BY <2>2, <2>3, SavingBegins
  <2>5. ASSUME ~spoiled'
        PROVE  Saving = {} /\ WithFont(config[i], size) = WithFont(remembered, size)
    <3>1. ~spoiled /\ Saving = {} /\ Current(i)
      BY <2>2, <2>5 DEF TypeOK
    <3>2. Load(file) = remembered
      BY <3>1 DEF SettingsInv, KeptInv
    <3>3. WithFont(remembered, DefaultFont) = WithFont(config[i], DefaultFont)
      BY <3>1, <3>2 DEF Current
    <3>4. /\ WithFont(WithFont(remembered, DefaultFont), size) = WithFont(remembered, size)
          /\ WithFont(WithFont(config[i], DefaultFont), size) = WithFont(config[i], size)
      <4>1. DefaultFont \in Sizes /\ remembered \in Config
        BY SettingsAssumption DEF TypeOK
      <4>. QED
        BY <2>1, <4>1, WithFontType
    <3>. QED
      BY <3>1, <3>3, <3>4
  <2>. QED
    BY <2>2, <2>3, <2>4, <2>5, FileKinds DEF SettingsInv, WrittenInv, KeptInv
<1>3. ASSUME NEW i \in Instances, FinishSave(i) PROVE SettingsInv'
  <2>1. saving[i] \in Config
    BY <1>3 DEF FinishSave, Saving, TypeOK
  <2>2. Saved(saving[i]) \in File
    BY <2>1, SavedLoads
  <2>3. Saving' = Saving \ {i}
    BY <1>3, SavingEnds DEF FinishSave
  <2>4. WrittenInv'
    BY <1>3, <2>2, FileKinds DEF FinishSave, WrittenInv
  <2>5. ASSUME ~spoiled'
        PROVE  Saving' = {} /\ file' # Unreadable /\ Load(file') = remembered'
    <3>1. ~spoiled /\ Savable(saving[i].system_prompt)
      BY <1>3, <2>5 DEF FinishSave, TypeOK
    <3>2. /\ Saving = {i} /\ file = Empty
          /\ saving[i] = WithFont(remembered, saving[i].terminal_font_size)
      BY <1>3, <3>1 DEF FinishSave, SettingsInv, KeptInv
    <3>3. file' = Saved(saving[i]) /\ remembered' = saving[i]
      BY <1>3, <3>2 DEF FinishSave
    <3>4. Load(file') = saving[i]
      BY <2>1, <3>1, <3>3, SavedLoads
    <3>. QED
      BY <2>2, <2>3, <3>2, <3>3, <3>4, FileKinds
  <2>6. KeptInv'
    BY <2>5 DEF KeptInv
  <2>. QED
    BY <2>4, <2>6 DEF SettingsInv
<1>4. ASSUME NEW i \in Instances, Quit(i) PROVE SettingsInv'
  BY <1>4 DEF Quit, SettingsInv, WrittenInv, KeptInv, Saving
<1>5. ASSUME NEW i \in Instances, CutOff(i) PROVE SettingsInv'
  <2>1. spoiled' /\ file' = file /\ Saving' = Saving \ {i}
    BY <1>5, SavingEnds DEF CutOff
  <2>. QED
    BY <2>1 DEF SettingsInv, WrittenInv, KeptInv
<1>6. ASSUME User PROVE SettingsInv'
  <2>1. ASSUME file' \in File, Saving = {}, remembered' = Load(file'), UNCHANGED saving
        PROVE  SettingsInv'
    <3>1. Saving' = {}
      BY <2>1 DEF Saving
    <3>. QED
      BY <2>1, <3>1, FileKinds DEF SettingsInv, WrittenInv, KeptInv
  <2>2. ASSUME NEW key \in {"system_prompt", "system_prompt_override"},
               NEW text \in Texts \cup {Missing}, Edit(key, text)
        PROVE  SettingsInv'
    BY <2>1, <2>2 DEF Edit, File, TypeOK
  <2>3. ASSUME NEW form \in Forms \cup {Missing}, Edit("request_timeout", form)
        PROVE  SettingsInv'
    BY <2>1, <2>3 DEF Edit, File, TypeOK
  <2>4. ASSUME NEW key \in {"terminal_font_size", "chat_font_size"},
               NEW size \in Sizes \cup {Missing}, Edit(key, size)
        PROVE  SettingsInv'
    BY <2>1, <2>4 DEF Edit, File, TypeOK
  <2>. QED
    BY <1>6, <2>2, <2>3, <2>4 DEF User
<1>7. CASE UNCHANGED vars
  BY <1>7 DEF vars, SettingsInv, WrittenInv, KeptInv, Saving
<1>. QED
  BY <1>1, <1>2, <1>3, <1>4, <1>5, <1>6, <1>7 DEF Next

\* What the user has set by editing or zooming is what the next start finds,
\* unless a save is cut off, overlaps with another, is of an instance that had
\* loaded other settings, or holds a text that TOML cannot.
THEOREM SettingsAreKept == Spec => []SettingsSurvive
<1>1. SettingsInv => SettingsSurvive
  BY DEF SettingsInv, KeptInv, SettingsSurvive
<1>. QED
  BY <1>1, SettingsTypeInit, SettingsTypeNext, SettingsInit, SettingsNext, PTL DEF Spec

====
