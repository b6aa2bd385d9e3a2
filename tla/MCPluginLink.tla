---------------------------- MODULE MCPluginLink ----------------------------
(* What lies between the daemon and a plugin, and on the way of content to *)
(* the device: four parts that share no state, each checked on its own.    *)
EXTENDS Framing, Content, Relay, Container

Caps(cards, n, p, mo, im) == [cards |-> cards, notify |-> n, presence |-> p, motion |-> mo, image |-> im]
MCCaps == {Caps(8, TRUE, TRUE, TRUE, TRUE), Caps(0, FALSE, FALSE, TRUE, FALSE),
           Caps(1, TRUE, TRUE, FALSE, FALSE), Caps(9, FALSE, TRUE, TRUE, TRUE)}
Section(c, a, e, p, s) ==
  [argv |-> a, argvBytes |-> 4096, env |-> e, valueBytes |-> 1024, keyBytes |-> 64,
   params |-> p, secrets |-> s, nets |-> 4, allowed |-> c]
Every == Caps(8, TRUE, TRUE, TRUE, TRUE)
MCSections ==
  {Section(c, 64, 16, 0, 32) : c \in MCCaps}
  \cup {Section(Every, a, e, p, s) : a \in {0, 64}, e \in {16, 17}, p \in {32, 33}, s \in {0, 1}}
MCHellos ==
  {[name |-> 32, version |-> 32, api |-> ApiVersion, requested |-> c] : c \in MCCaps}
  \cup {[name |-> n, version |-> 32, api |-> v, requested |-> Every] : n \in {0, 33}, v \in {2, 3}}
Gazes == {[x |-> 100, y |-> -100], [x |-> 101, y |-> 0]}
Spacer(h) == [kind |-> "spacer", bytes |-> 0, ratio |-> 0, height |-> h]
Bar(n, r) == [kind |-> "bar", bytes |-> n, ratio |-> r, height |-> 0]
Elements == {Text(0), Text(48), Text(49), Text(256), Text(257), Bar(12, 100), Bar(13, 0), Bar(0, 101),
             Spacer(0), Spacer(32), Spacer(33), Spacer(1)}
Rows == {<<>>} \cup {<<e>> : e \in Elements} \cup {<<e, Text(48)>> : e \in Elements}
        \cup {<<e, e, e>> : e \in {Text(1)}} \cup {[i \in 1 .. 5 |-> Text(1)]}
RowLists == {<<>>} \cup {[i \in 1 .. n |-> r] : n \in {1, 2, 3, 4, 5, 9}, r \in Rows}
MCMessages ==
  {[type |-> "CardPut", card |-> c, placement |-> p, rows |-> r] :
      c \in {7, 8}, p \in {"Banner", "Overlay"}, r \in RowLists}
  \cup {[type |-> "CardRemove", card |-> c] : c \in {0, 8}}
  \cup {[type |-> "Notify", bytes |-> n] : n \in {0, 1, 256, 257}}
  \cup {[type |-> "Presence", detail |-> n, gaze |-> g] : n \in {0, 20, 21, 257}, g \in Gazes}
  \cup {[type |-> "Emote", gaze |-> g, intensity |-> i, duration |-> d] :
          g \in Gazes, i \in {0, 100, 101}, d \in {99, 100, 10000, 10001}}
  \cup {[type |-> "Log", bytes |-> 1024]}
  \cup {[type |-> "ImageFrame", width |-> w, height |-> h, pixels |-> 2 * w * h] :
          w \in {0, 1, 7, 96, 159, 160, 161}, h \in {1, 2, 3, 5, 119, 120, 121}}
  \cup {[type |-> "ImageFrame", width |-> 4, height |-> 4, pixels |-> 31]}
Bmp(w, h, x, y, iw, ih, short) ==
  [type |-> "bmp", width |-> w, height |-> h, x |-> x, y |-> y, iconWidth |-> iw, iconHeight |-> ih,
   offset |-> 54, length |-> 54 + Stride(w) * (IF h < 0 THEN -h ELSE h) - short]
Icons == {None} \cup {Bmp(w, h, x, 0, iw, 16, s) : w \in {16, 17, 19}, h \in {16, -16, 15}, x \in {0, 1, 3},
                          iw \in {0, 16, 17}, s \in {0, 1}}
Trims == {Absent, -97, -96, 64, 65}
Display(m) == {[type |-> "display", message |-> m, trim |-> t] : t \in Trims}
MCCommands ==
  {[type |-> "card", slot |-> s, title |-> t, detail |-> d, ratio |-> r, label |-> 12, space |-> sp,
    icon |-> i, trim |-> 0] :
     s \in {"BannerTop", "Overlay"}, t \in {48, 49}, d \in {Absent, 48}, r \in {Absent, 100, 101},
     sp \in {Absent, 32, 33}, i \in Icons}
  \cup UNION {Display([type |-> "Text", bytes |-> n]) : n \in {0, 512, 513}}
  \cup UNION {Display([type |-> "Presence", detail |-> n, gaze |-> [x |-> 0, y |-> 0]]) : n \in {0, 20, 21}}
  \cup UNION {Display([type |-> "Emote", gaze |-> g, intensity |-> i, duration |-> d]) :
                 g \in Gazes, i \in {0, 100, 101}, d \in {99, 10000}}
  \cup {[type |-> "display", message |-> [type |-> "PitchTrim", steps |-> n], trim |-> Absent] :
          n \in {-97, -96, 64, 65}}

Written == {"a", "low", "]", "\"", "\\", "[", "=", "#", "space", "newline"}
Long(n) == [i \in 1 .. n |-> "wide"]
Ask1(k, t, c, n) == [kind |-> k, text |-> t, choice |-> c, ttl |-> n]
Texts(n) == UNION {[1 .. k -> Written] : k \in 0 .. n}
MCRequests ==
  {Ask1("notify", t, "high", 30) : t \in Texts(3) \cup {Long(513)}}
  \cup {Ask1("notify", <<"a">>, c, n) : c \in Priorities, n \in {0, 65535}}
  \cup {Ask1("status", t, "done", 0) : t \in Texts(2) \cup {Long(20), Long(21)}}
  \cup {Ask1("status", <<>>, c, n) : c \in Activities, n \in {0, 65535}}
  \cup {Ask1("input", <<>>, c, 0) : c \in Modes}

Line(k, v)  == WithLine(EntryOf(k, v), <<>>)
String(v)   == <<"\"">> \o v \o <<"\"">>
Top(k)      == <<"#", "a", "newline", "[", k, "]", "space", "newline">>
Values ==
  {String(<<"a">>), String(<<"\\", "a">>), <<"\"", "a">>, String(<<"a">>) \o <<"a">>, <<"30">>, <<"65536">>,
   <<"4294967296">>, <<"true">>, <<>>, <<"[", "]">>, <<"a">>,
   <<"[">> \o String(<<"a">>) \o <<",", "space">> \o String(<<"low">>) \o <<"]">>,
   <<"[">> \o String(<<"a">>) \o String(<<"low">>) \o <<"]">>}
MCFiles ==
  {Top("notify") \o Line(k, v) : k \in {"text", "priority", "ttl_s", "mode"}, v \in Values}
  \cup {Top("notify") \o Line("text", String(<<"a">>)) \o Line(k, v) :
          k \in {"text", "priority", "ttl_s", "mode"}, v \in Values \cup {String(<<"low">>)}}
  \cup {Top("status") \o Line(k, String(<<v>>)) : k \in {"activity", "detail"}, v \in {"done", "a"}}
  \cup {Top("input") \o Line("mode", String(<<v>>)) : v \in {"demo", "a"}}
  \cup {<<>>, Long(4096), Top("a"), Top("notify") \o Top("notify"), Line("mode", String(<<"demo">>)),
         Top("input") \o <<"mode">>}

-----------------------------------------------------------------------------
VARIABLE part
vars == <<part, fvars, xvars, rvars, cvars>>

Init ==
  /\ part \in {"framing", "content", "relay", "container"}
  /\ FramingInit /\ ContentInit /\ RelayInit /\ ContainerInit

Next ==
  /\ UNCHANGED part
  /\ \/ part = "framing" /\ FramingNext /\ UNCHANGED <<xvars, rvars, cvars>>
     \/ part = "content" /\ ContentNext /\ UNCHANGED <<fvars, rvars, cvars>>
     \/ part = "relay" /\ RelayNext /\ UNCHANGED <<fvars, xvars, cvars>>
     \/ part = "container" /\ ContainerNext /\ UNCHANGED <<fvars, xvars, rvars>>

Spec == Init /\ [][Next]_vars /\ RelayFairness /\ ContainerFairness
=============================================================================
