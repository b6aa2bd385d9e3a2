------------------------------ MODULE Notation ------------------------------
(***************************************************************************)
(* The two notations of files: the lines `key = value` under [sections] of *)
(* the host (config.rs), in which a request is handed to the daemon        *)
(* (spool.rs), and the settings on the card of the device (settings.rs).   *)
(* What one side writes the other has to read back.                        *)
(*                                                                         *)
(* A text is a sequence of characters, each a string of its own; a word    *)
(* that only letters or only digits make up is one of them, "wide" is any  *)
(* other character, "newline" and "bell" are control characters.  Keys     *)
(* with a dot, environment names and the sizes of lines are left out.      *)
(***************************************************************************)
EXTENDS Integers, Sequences, SequencesExt

\* A number of u32, or -1 for digits beyond it.
NumberOf == [d \in {"0", "30", "65535", "65536", "4294967296"} |->
               CASE d = "0" -> 0 [] d = "30" -> 30 [] d = "65535" -> 65535
                 [] d = "65536" -> 65536 [] OTHER -> -1]
Digits  == DOMAIN NumberOf
Control == {"newline", "bell"}
Signs   == {"\"", "\\", "[", "]", "=", "#", ",", "space", "wide"}
Words(line) == ToSet(line) \ (Digits \cup Control \cup Signs)

NoLine == <<>>

\* text.lines(): where lines begin, and the line that begins at i.
Starts(text) == {1} \cup {i + 1 : i \in {j \in 1 .. Len(text) : text[j] = "newline"}}
StopsAt(text, i, j) ==
  /\ j = Len(text) + 1 \/ text[j] = "newline"
  /\ \A k \in i .. j - 1 : text[k] # "newline"
LineAt(text, i) == SubSeq(text, i, (CHOOSE j \in i .. Len(text) + 1 : StopsAt(text, i, j)) - 1)

\* str::trim.
Trim(line) ==
  LET solid == {i \in 1 .. Len(line) : line[i] # "space"}
  IN  IF solid = {} THEN NoLine
      ELSE SubSeq(line, CHOOSE i \in solid : \A j \in solid : i <= j,
                        CHOOSE i \in solid : \A j \in solid : j <= i)

-----------------------------------------------------------------------------
(* Values and sections.                                                    *)

\* One character of the strings of a value: at tells whether it is before a string, inside
\* one or behind it; parse_string, and the loop of parse_value around it.
StringStep(p, c) ==
  LET At(where)   == [p EXCEPT !.at = where]
      Taken       == [at |-> "inside", value |-> Append(p.value, c), items |-> p.items]
      Kept(where) == [at |-> where, value |-> <<>>, items |-> Append(p.items, p.value)]
  IN  CASE p.at = "inside" -> IF c = "\"" THEN At("behind") ELSE IF c = "\\" THEN At("escape")
                              ELSE IF c \in Control THEN At("wrong") ELSE Taken
        [] p.at = "escape" -> IF c \in {"\"", "\\"} THEN Taken ELSE At("wrong")
        [] p.at \in {"first", "next"} /\ c = "\"" -> At("inside")
        [] p.at = "behind" /\ c = "," -> Kept("next")
        [] p.at = "behind" /\ c = "]" -> Kept("closed")
        [] p.at = "first"  /\ c = "]" -> At("closed")
        [] c = "space" /\ p.at \notin {"inside", "escape"} -> p
        [] OTHER -> At("wrong")

Wrong == [kind |-> "wrong", value |-> <<>>]

OneString(p)  == IF p.at = "behind" /\ p.items = <<>> THEN [kind |-> "string", value |-> p.value] ELSE Wrong
AllStrings(p) == IF p.at = "closed" THEN [kind |-> "strings", value |-> p.items] ELSE Wrong

\* Where the characters s lead from p.
Through(p, s) ==
  LET at[n \in 0 .. Len(s)] == IF n = 0 THEN p ELSE StringStep(at[n - 1], s[n])
  IN  at[Len(s)]
Awaiting(where)  == [at |-> where, value |-> <<>>, items |-> <<>>]
ParseString(s) == OneString(Through(Awaiting("next"), s))
ParseArray(s)  == AllStrings(Through(Awaiting("first"), s))

\* parse_value.
ParseValue(s) ==
  CASE s = NoLine -> Wrong
    [] s \in {<<"true">>, <<"false">>} -> [kind |-> "bool", value |-> s]
    [] s # NoLine /\ Head(s) = "\"" -> ParseString(s)
    [] s # NoLine /\ Head(s) = "[" -> ParseArray(Tail(s))
    [] Len(s) = 1 /\ Head(s) \in Digits /\ NumberOf[Head(s)] >= 0 ->
         [kind |-> "integer", value |-> NumberOf[Head(s)]]
    [] OTHER -> Wrong

\* A trimmed line is left out, opens a section or is an entry key = value.
Blank(line) == line = NoLine \/ Head(line) = "#"
IsHeader(line) == line # NoLine /\ Head(line) = "["
HeaderValid(line, headers) == Len(line) = 3 /\ line[3] = "]" /\ line[2] \in headers

Sign(line)    == CHOOSE i \in 1 .. Len(line) : line[i] = "=" /\ \A j \in 1 .. i - 1 : line[j] # "="
KeyOf(line)   == Trim(SubSeq(line, 1, Sign(line) - 1))
ValueOf(line) == ParseValue(Trim(SubSeq(line, Sign(line) + 1, Len(line))))
EntryValid(line) ==
  /\ \E i \in 1 .. Len(line) : line[i] = "="
  /\ Len(KeyOf(line)) = 1 /\ Words(KeyOf(line)) # {}
  /\ ValueOf(line).kind # "wrong"

\* The lines by the places where they begin; an entry is one of the last section before it.
At(text, i)     == Trim(LineAt(text, i))
Headers(text)   == {i \in Starts(text) : IsHeader(At(text, i))}
Entries(text)   == {i \in Starts(text) : ~Blank(At(text, i)) /\ ~IsHeader(At(text, i))}
Inside(text, h) == {i \in Entries(text) : h < i /\ \A g \in Headers(text) : g < i => g <= h}

SectionsValid(text, headers) ==
  /\ \A h \in Headers(text) : HeaderValid(At(text, h), headers)
  /\ \A i \in Entries(text) : EntryValid(At(text, i)) /\ \E h \in Headers(text) : h < i
  /\ \A h \in Headers(text), i, j \in Entries(text) :
       {i, j} \subseteq Inside(text, h) /\ KeyOf(At(text, i)) = KeyOf(At(text, j)) => i = j

\* parse_sections: the entries of a section, by their keys.
ParseSection(text, h) ==
  [k \in {KeyOf(At(text, i))[1] : i \in Inside(text, h)} |->
     ValueOf(At(text, CHOOSE i \in Inside(text, h) : KeyOf(At(text, i))[1] = k))]

-----------------------------------------------------------------------------
(* Requests: [kind, text, choice, ttl], choice being the priority of a     *)
(* notify, the activity of a status or the mode of an input.               *)

Priorities == {"low", "normal", "high"}
Activities == {"idle", "working", "waiting", "done", "error"}
Modes      == {"demo", "forward"}

\* take_string, take_ttl and take_choice, of the entries v.
HasString(v, k)          == k \in DOMAIN v => v[k].kind = "string"
HasTtl(v)                == "ttl_s" \in DOMAIN v => v["ttl_s"].kind = "integer" /\ v["ttl_s"].value <= 65535
HasChoice(v, k, choices) == k \in DOMAIN v /\ HasString(v, k) /\ \E c \in choices : v[k].value = <<c>>
Either(v, k, default)    == IF k \in DOMAIN v THEN v[k].value ELSE default

RequestValid(header, v) ==
  CASE header = "notify" ->
         /\ DOMAIN v \subseteq {"text", "priority", "ttl_s"} /\ HasTtl(v)
         /\ "text" \in DOMAIN v /\ HasString(v, "text") /\ v["text"].value # <<>>
         /\ "priority" \in DOMAIN v => HasChoice(v, "priority", Priorities)
    [] header = "status" ->
         /\ DOMAIN v \subseteq {"activity", "detail", "ttl_s"} /\ HasTtl(v)
         /\ HasChoice(v, "activity", Activities) /\ HasString(v, "detail")
    [] OTHER -> DOMAIN v \subseteq {"mode"} /\ HasChoice(v, "mode", Modes)

RequestOf(header, v) ==
  CASE header = "notify" -> [kind |-> header, text |-> v["text"].value,
                             choice |-> Either(v, "priority", <<"normal">>)[1], ttl |-> Either(v, "ttl_s", 0)]
    [] header = "status" -> [kind |-> header, text |-> Either(v, "detail", <<>>),
                             choice |-> v["activity"].value[1], ttl |-> Either(v, "ttl_s", 30)]
    [] OTHER -> [kind |-> header, text |-> <<>>, choice |-> v["mode"].value[1], ttl |-> 0]

\* parse: one section, its entries of the right kinds, and no others.
NoRequest == [ok |-> FALSE, request |-> <<>>]
Understood(header, v) ==
  IF RequestValid(header, v) THEN [ok |-> TRUE, request |-> RequestOf(header, v)] ELSE NoRequest
RequestHeaders == {"notify", "status", "input"}
ParseRequest(text) ==
  IF SectionsValid(text, RequestHeaders) /\ \E h \in Headers(text) : Headers(text) = {h}
  THEN LET h == CHOOSE h \in Headers(text) : TRUE
       IN  Understood(At(text, h)[2], ParseSection(text, h))
  ELSE NoRequest

\* read: a file that is too long is not opened; words have up to 31 more letters.
MaxRequestBytes == 4096
MoreLetters     == 31
ReadRequest(text) ==
  IF Len(text) + MoreLetters > MaxRequestBytes THEN NoRequest ELSE ParseRequest(text)

\* quote.
Quotable(text) == ToSet(text) \cap Control = {}
Escaped(c) == IF c \in {"\"", "\\"} THEN <<"\\", c>> ELSE <<c>>
Escapes(text) ==
  LET some[n \in 0 .. Len(text)] == IF n = 0 THEN <<>> ELSE some[n - 1] \o Escaped(text[n])
  IN  some[Len(text)]
Quote(text) == <<"\"">> \o Escapes(text) \o <<"\"">>

\* format.
WithLine(line, rest) == line \o <<"newline">> \o rest
EntryOf(key, value)  == <<key, "space", "=", "space">> \o value
Digit(n) == <<CHOOSE d \in Digits : NumberOf[d] = n>>
EntriesOf(r) ==
  LET text   == Quote(r.text)
      choice == Quote(<<r.choice>>)
      ttl    == WithLine(EntryOf("ttl_s", Digit(r.ttl)), <<>>)
  IN  CASE r.kind = "notify" -> WithLine(EntryOf("text", text), WithLine(EntryOf("priority", choice), ttl))
        [] r.kind = "status" -> WithLine(EntryOf("activity", choice), WithLine(EntryOf("detail", text), ttl))
        [] OTHER -> WithLine(EntryOf("mode", choice), <<>>)
FormatRequest(r) == WithLine(<<"[", r.kind, "]">>, EntriesOf(r))

-----------------------------------------------------------------------------
(* The settings of the device: a function of their names.                  *)

Names == <<"enabled", "speech", "motion", "led", "touch", "sensors", "dark_quiet",
           "pace", "expression", "speech_pace">>
Flags == {Names[i] : i \in 1 .. 7}
Paces == {Names[i] : i \in 8 .. 10}
SettingNames == Flags \cup Paces
SettingItems == [k \in SettingNames |-> IF k \in Flags THEN {"true", "false"} ELSE {"quiet", "normal", "lively"}]
\* Settings::default.
DefaultSettings ==
  [k \in SettingNames |-> IF k \in Flags THEN "true" ELSE IF k = "expression" THEN "lively" ELSE "normal"]

\* Settings::encode, as lines of a key and an item.
LineFor(key, item) == [key |-> key, item |-> item]
EncodeSettings(s) ==
  [i \in 1 .. Len(Names) + 1 |-> IF i = 1 THEN LineFor("version", "2") ELSE LineFor(Names[i - 1], s[Names[i - 1]])]

\* Its 256 bytes, names counted at their longest.
EncodedBytes(lines) == Len(lines) * (11 + 1 + 6 + 1)

\* What the version before wrote: it had neither of the last two items.
OlderLines(lines) == [i \in 1 .. Len(lines) - 2 |-> IF i = 1 THEN LineFor("version", "1") ELSE lines[i]]

Once(lines, k) ==
  \E i \in 1 .. Len(lines) : lines[i].key = k /\ \A j \in 1 .. Len(lines) : lines[j].key = k => j = i
Missing(lines, k)  == \A i \in 1 .. Len(lines) : lines[i].key # k
ItemOf(lines, k) == lines[CHOOSE i \in 1 .. Len(lines) : lines[i].key = k].item
Known(line) == line.key = "version" \/ (line.key \in SettingNames /\ line.item \in SettingItems[line.key])
\* The items a version has.
Needed(version) == IF version = "1" THEN SettingNames \ {"expression", "speech_pace"} ELSE SettingNames

\* Settings::parse: each item once, all of the version, or an error.
ParseSettings(lines) ==
  LET needed == Needed(ItemOf(lines, "version"))
  IN  IF /\ Once(lines, "version") /\ ItemOf(lines, "version") \in {"1", "2"}
         /\ \A i \in 1 .. Len(lines) : Known(lines[i])
         /\ \A k \in SettingNames : IF k \in needed THEN Once(lines, k) ELSE Missing(lines, k)
      THEN [ok |-> TRUE,
            settings |-> [k \in SettingNames |-> IF k \in needed THEN ItemOf(lines, k) ELSE DefaultSettings[k]]]
      ELSE [ok |-> FALSE, settings |-> <<>>]
=============================================================================
