------------------------------- MODULE Content -------------------------------
(***************************************************************************)
(* What is let through on the way of content to the device: the file of    *)
(* settings, the grants, PluginMessage::validate, convert.rs or the        *)
(* builders of the command line, the encoded frame, and the checks of the  *)
(* firmware.  Every stage has limits of its own; none of them may let      *)
(* through what a later one refuses, except by telling the plugin or user. *)
(* A command of the user goes to the device in a session of its own, or as *)
(* a request in a file to the daemon; the device keeps its settings in a   *)
(* file as well (Notation).                                                *)
(*                                                                         *)
(* Texts are their lengths, images their sizes.  An encoded number of 16   *)
(* bits counts as the three bytes it may take.                             *)
(***************************************************************************)
EXTENDS Notation

CONSTANTS
  Sections,   \* [plugin <id>] of stackchan.conf with its part of secrets.conf
  Hellos,     \* what plugins say first
  Messages,   \* what they say then
  Commands,   \* what the user asks of the command line
  Requests,   \* what is to be handed to the daemon
  Files       \* files that a hook of the user wrote by itself

None   == [type |-> "None"]
Absent == -1

Capabilities == [cards : Nat, notify : BOOLEAN, presence : BOOLEAN, motion : BOOLEAN, image : BOOLEAN]
PluginSection == [argv : Nat, argvBytes : Nat, env : Nat, valueBytes : Nat, keyBytes : Nat,
                  params : Nat, secrets : Nat, nets : Nat, allowed : Capabilities]
Gaze     == [x : Int, y : Int]
\* An element of a row; of the four kinds only two have a text.
Element  == {e \in [kind : {"text", "bar", "spacer", "image"}, bytes : Nat, ratio : Nat, height : Nat] :
               e.kind \in {"spacer", "image"} => e.bytes = 0}
Bitmap   == [type : {"bmp"}, width : Int, height : Int, x : Nat, y : Nat, iconWidth : Nat,
             iconHeight : Nat, offset : Nat, length : Nat]

\* What can be asked for by a command that hands a request on.
Ttls    == {n \in Nat : n <= 65535 /\ \E d \in Digits : NumberOf[d] = n}
Request == [kind : {"notify"}, text : Seq(STRING), choice : Priorities, ttl : Ttls]
           \cup [kind : {"status"}, text : Seq(STRING), choice : Activities, ttl : Ttls]
           \cup [kind : {"input"}, text : {<<>>}, choice : Modes, ttl : {0}]

ASSUME ContentAssumption ==
  /\ Sections \subseteq PluginSection
  /\ \A h \in Hellos : h.requested \in Capabilities
  /\ \A m \in Messages :
       /\ m.type = "CardPut" => m.rows \in Seq(Seq(Element)) /\ m.placement \in {"Banner", "Overlay"}
       /\ m.type = "Notify" => m.bytes \in Nat
       /\ m.type = "Presence" => m.detail \in Nat /\ m.gaze \in Gaze
       /\ m.type = "Emote" => m \in [type : {"Emote"}, gaze : Gaze, intensity : Nat, duration : Nat]
       /\ m.type = "ImageFrame" => m.width \in Nat /\ m.height \in Nat
  /\ \A c \in Commands :
       /\ c.type \in {"card", "display"} /\ c.trim \in Int
       /\ c.type = "card" =>
            /\ c.title \in Nat /\ c.label \in Nat /\ c.slot \in {"BannerTop", "BannerBottom", "Overlay"}
            /\ {c.detail, c.ratio, c.space} \subseteq Nat \cup {Absent}
            /\ c.icon \in Bitmap \cup {None}
       /\ c.type = "display" => c.message \in
            [type : {"Text"}, bytes : Nat] \cup [type : {"Presence"}, detail : Nat, gaze : {[x |-> 0, y |-> 0]}]
            \cup [type : {"Emote"}, gaze : Gaze, intensity : Nat, duration : Nat]
            \cup [type : {"PitchTrim"}, steps : Int]
  /\ \A r \in Requests : r \in Request
  /\ \A text \in Files : text \in Seq(STRING)

VARIABLES
  section,    \* what the daemon read, or None
  granted,    \* the capabilities in force, or None
  hello,      \* history: the Hello they come from
  request,    \* the message of the plugin under way, or None
  sending,    \* messages on their way to the device
  transfer,   \* PendingImage of the firmware, or None
  outcome     \* how the last message ended
xvars == <<section, granted, hello, request, sending, transfer, outcome>>

\* plugin-api.
ApiVersion    == 3
MaxCards      == 8
MaxText       == 256
MaxApiFrame   == 64 * 1024
MaxParams     == 32
MaxKey        == 64
MaxValue      == 1024
MaxEndpoints  == 4
MaxEndpoint   == 64 + 256
\* config.rs.
MaxLine       == 4096
MaxEnv        == 16
MaxArgv       == 64
\* protocol.
MaxFrameBytes == 1024
MaxNotice     == 512
MaxRows       == 4
MaxElements   == 2
MaxCardText   == 48
MaxLabel      == 12
MaxDetail     == 20
MaxSide       == 16
ScreenWidth   == 320
ScreenHeight  == 240
MaxWidth      == 160
MaxHeight     == 120
MaxRowsBytes  == 960
\* settings.rs.
MaxConfigBytes == 256

Total(s) == LET sum[n \in 0 .. Len(s)] == IF n = 0 THEN 0 ELSE sum[n - 1] + s[n] IN sum[Len(s)]
SumOf(s, Op(_)) == Total([i \in 1 .. Len(s) |-> Op(s[i])])
All(s, Op(_))   == \A i \in 1 .. Len(s) : Op(s[i])
LesserOf(a, b)  == IF a < b THEN a ELSE b
GreatestOf(s, Op(_)) == FoldLeft(LAMBDA n, x : IF Op(x) > n THEN Op(x) ELSE n, 0, s)

-----------------------------------------------------------------------------
(* Settings, hand-shake and Init.                                          *)

\* plugin_section, push_env, parse_net_allow; a value is on one line.
SectionValid(s) ==
  /\ s.argv \in 1 .. MaxArgv /\ s.argvBytes <= MaxLine
  /\ s.allowed.cards <= MaxCards
  /\ s.env <= MaxEnv /\ s.valueBytes <= MaxValue /\ s.keyBytes \in 1 .. MaxKey
  /\ s.nets <= MaxEndpoints

\* push_param, for stackchan.conf and then for secrets.conf.
ParamsValid(s) == s.params + s.secrets <= MaxParams

\* Mistake: motion as the settings allow it, asked for or not.
IntersectAsAllowed(a, b) ==
  LET presence == a.presence /\ b.presence
  IN  [cards |-> LesserOf(a.cards, b.cards), notify |-> a.notify /\ b.notify,
       presence |-> presence, motion |-> presence /\ a.motion, image |-> a.image /\ b.image]

\* Capabilities::intersect.
Intersect(a, b) ==
  LET presence == a.presence /\ b.presence
  IN  [cards |-> LesserOf(a.cards, b.cards), notify |-> a.notify /\ b.notify,
       presence |-> presence, motion |-> presence /\ a.motion /\ b.motion,
       image |-> a.image /\ b.image]

HelloValid(h) ==
  /\ h.name \in 1 .. 32 /\ h.version <= 32
  /\ h.requested.cards <= MaxCards
  /\ h.api = ApiVersion

\* postcard::to_slice_cobs: a byte in every 254, the first and the last.
Framed(n) == n + n \div 254 + 2

\* Init and HostMessage::validate.
InitBytes(s) == 40 + (s.params + s.secrets) * (s.keyBytes + s.valueBytes + 3) + s.nets * (MaxEndpoint + 3)
InitAccepted(s) ==
  /\ s.params + s.secrets <= MaxParams /\ s.nets <= MaxEndpoints
  /\ s.keyBytes <= MaxKey /\ s.valueBytes <= MaxValue
  /\ Framed(InitBytes(s)) <= MaxApiFrame

\* launch::send.
LaunchFits(s) ==
  Framed(s.argvBytes + 2 * s.argv + s.env * (s.keyBytes + s.valueBytes + 3) + 2) <= MaxApiFrame

-----------------------------------------------------------------------------
(* Messages of the plugin.                                                 *)

GazeValid(g) == g.x \in -100 .. 100 /\ g.y \in -100 .. 100
Durations     == 100 .. 10000
EmoteValid(e) == GazeValid(e.gaze) /\ e.intensity <= 100 /\ e.duration \in Durations

ElementValid(e) ==
  /\ e.kind \in {"text", "bar"} => e.bytes <= MaxText
  /\ e.kind = "bar" => e.ratio <= 100
  /\ e.kind = "spacer" => e.height \in 1 .. 32
ApiRowValid(row) == Len(row) \in 1 .. 4 /\ All(row, ElementValid)

\* PluginMessage::validate.
Validate(m) ==
  \/ m.type = "CardPut" /\ m.card < MaxCards /\ Len(m.rows) \in 1 .. 8 /\ All(m.rows, ApiRowValid)
  \/ m.type = "CardRemove" /\ m.card < MaxCards
  \/ m.type = "Notify" /\ m.bytes \in 1 .. MaxText
  \/ m.type = "Presence" /\ m.detail <= MaxText /\ GazeValid(m.gaze)
  \/ m.type = "Emote" /\ EmoteValid(m)
  \/ m.type = "Log" /\ m.bytes <= 1024
  \/ /\ m.type = "ImageFrame" /\ m.width \in 1 .. MaxWidth /\ m.height \in 1 .. MaxHeight
     /\ m.pixels = 2 * m.width * m.height

\* The guards of receive.
MayDo(g, m) ==
  \/ m.type = "CardPut" /\ g.cards > 0
  \/ m.type \in {"CardRemove", "Log"}
  \/ m.type = "Notify" /\ g.notify
  \/ m.type \in {"Presence", "Emote"} /\ g.presence
  \/ m.type = "ImageFrame" /\ g.image

-----------------------------------------------------------------------------
(* Messages of the device.                                                 *)

RowHeight(row) == GreatestOf(row, LAMBDA e : IF e.kind = "spacer" THEN e.height ELSE 20)
Images(rows)   == SumOf(rows, LAMBDA row : Len(SelectSeq(row, LAMBDA e : e.kind = "image")))

\* Card::validate; image is Absent or [width, height, bytes].
CardValid(card) ==
  /\ card.rows # <<>> /\ All(card.rows, LAMBDA row : row # <<>>)
  /\ All(card.rows, LAMBDA row : All(row, LAMBDA e :
       /\ e.kind = "bar" => e.ratio <= 100
       /\ e.kind = "spacer" => e.height \in 1 .. 32))
  /\ 8 + SumOf(card.rows, RowHeight) <= IF card.slot = "Overlay" THEN 240 ELSE 48
  /\ Images(card.rows) = IF card.image = None THEN 0 ELSE 1
  /\ card.image # None => /\ card.image.width \in 1 .. MaxSide /\ card.image.height \in 1 .. MaxSide
                          /\ card.image.bytes = 2 * card.image.width * card.image.height

\* What the fixed lengths of the types allow.
Holds(m) ==
  \/ m.type = "Text" /\ m.bytes <= MaxNotice
  \/ /\ m.type = "Card" /\ Len(m.rows) <= MaxRows
     /\ All(m.rows, LAMBDA row : /\ Len(row) <= MaxElements
                                 /\ All(row, LAMBDA e : /\ e.kind = "text" => e.bytes <= MaxCardText
                                                        /\ e.kind = "bar" => e.bytes <= MaxLabel))
  \/ m.type = "Presence" /\ m.detail <= MaxDetail
  \/ m.type = "ImageRows" /\ m.bytes <= MaxRowsBytes
  \/ m.type \in {"Ping", "InputMode", "Emote", "PitchTrim", "ImageBegin", "ImageEnd"}

ElementHead == [text |-> 2, bar |-> 3, spacer |-> 2, image |-> 1]
ElementBytes(e) == ElementHead[e.kind] + e.bytes
RowBytes(row)   == 3 + SumOf(row, ElementBytes)
CardBytes(m) ==
  10 + SumOf(m.rows, RowBytes)
     + IF m.image = None THEN 0 ELSE 4 + m.image.bytes
Bytes(m) ==
  CASE m.type = "Text"      -> 7 + m.bytes
    [] m.type = "Card"      -> CardBytes(m)
    [] m.type = "Presence"  -> 12 + m.detail
    [] m.type = "ImageRows" -> 9 + m.bytes
    [] OTHER                -> 20

\* What Controller::handle rejects.
Accepts(m) ==
  \/ m.type \in {"Ping", "InputMode", "Text"}
  \/ m.type = "Card" /\ CardValid(m)
  \/ m.type = "Presence" /\ GazeValid(m.gaze)
  \/ m.type = "Emote" /\ EmoteValid(m)
  \/ m.type = "PitchTrim" /\ m.steps \in -96 .. 64
  \/ /\ m.type = "ImageBegin"
     /\ m.width \in 1 .. MaxWidth /\ m.height \in 1 .. MaxHeight
     /\ m.x + m.width <= ScreenWidth /\ m.y + m.height <= ScreenHeight
  \/ /\ m.type = "ImageRows" /\ transfer # None
     /\ m.bytes > 0 /\ m.bytes % (2 * transfer.width) = 0
     /\ m.row = transfer.next
     /\ m.row + m.bytes \div (2 * transfer.width) <= transfer.height
  \/ m.type = "ImageEnd" /\ transfer # None /\ transfer.next = transfer.height

-----------------------------------------------------------------------------
(* Conversion.                                                             *)

CardOf(slot, rows, image) == [type |-> "Card", slot |-> slot, rows |-> rows, image |-> image]

\* Mistake: the rows of a message are rounded up.
RowsPerMessageUp(width) == (MaxRowsBytes + 2 * width - 1) \div (2 * width)

\* As many rows as fit into one ImageRows.
RowsPerMessage(width) == LET n == MaxRowsBytes \div (2 * width) IN IF n = 0 THEN 1 ELSE n

\* image_messages.
ImageMessages(m) ==
  LET per   == RowsPerMessage(m.width)
      count == (m.height + per - 1) \div per
      Part(k) == [type |-> "ImageRows", row |-> (k - 1) * per,
                  bytes |-> 2 * m.width * LesserOf(per, m.height - (k - 1) * per)]
  IN  <<[type |-> "ImageBegin", x |-> (ScreenWidth - m.width) \div 2,
         y |-> (ScreenHeight - m.height) \div 2, width |-> m.width, height |-> m.height]>>
      \o [k \in 1 .. count |-> Part(k)] \o <<[type |-> "ImageEnd"]>>

\* card_rows, notice_text, presence and emote, as the test whether they convert.
Converts(m) ==
  \/ /\ m.type = "CardPut"
     /\ LET card == CardOf(IF m.placement = "Overlay" THEN "Overlay" ELSE "BannerTop", m.rows, None)
        IN  Holds(card) /\ CardValid(card)
  \/ m.type = "Notify" /\ m.bytes <= MaxNotice
  \/ m.type = "Presence" /\ m.detail <= MaxDetail /\ GazeValid(m.gaze)
  \/ m.type = "Emote" /\ EmoteValid(m)
  \/ m.type = "ImageFrame" /\ m.width <= MaxWidth /\ m.height <= MaxHeight
  \/ m.type \in {"CardRemove", "Log"}

\* What is sent for it, once the scheduler gave it slot.
DeviceMessages(m, motion, slot) ==
  CASE m.type = "CardPut"    -> <<CardOf(slot, m.rows, None)>>
    [] m.type = "Notify"     -> <<[type |-> "Text", bytes |-> m.bytes]>>
    [] m.type = "Presence"   -> <<[type |-> "Presence", detail |-> m.detail, gaze |-> m.gaze]>>
    [] m.type = "Emote"      -> <<[m EXCEPT !.intensity = IF motion THEN @ ELSE 0]>>
    [] m.type = "ImageFrame" -> ImageMessages(m)
    [] OTHER                 -> <<>>

SlotsOf(m) ==
  IF m.type = "CardPut" /\ m.placement = "Banner" THEN {"BannerTop", "BannerBottom"} ELSE {"Overlay"}

-----------------------------------------------------------------------------
(* Commands.                                                               *)

Stride(width) == ((width * 3 + 3) \div 4) * 4

\* The checks of decode_icon; b.height is negative when the rows run downwards.
IconValid(b) ==
  /\ b.iconWidth \in 1 .. MaxSide /\ b.iconHeight \in 1 .. MaxSide
  /\ b.offset >= 54 /\ b.width > 0 /\ b.height # 0
  /\ b.offset + Stride(b.width) * (IF b.height < 0 THEN -b.height ELSE b.height) <= b.length
  /\ b.x + b.iconWidth <= b.width
  /\ b.y + b.iconHeight <= IF b.height < 0 THEN -b.height ELSE b.height

\* The bytes it then reads.
IconInside(b) ==
  \A row \in b.y .. b.y + b.iconHeight - 1, column \in b.x .. b.x + b.iconWidth - 1 :
    LET source == IF b.height < 0 THEN row ELSE b.height - 1 - row
        at     == b.offset + source * Stride(b.width) + column * 3
    IN  at >= 0 /\ at + 2 < b.length

\* card_message.
Text(n)   == [kind |-> "text", bytes |-> n, ratio |-> 0, height |-> 0]
CommandRows(c) ==
  LET Optional(given, row) == IF given THEN <<row>> ELSE <<>>
  IN  <<IF c.detail = Absent THEN <<Text(c.title)>> ELSE <<Text(c.title), Text(c.detail)>>>>
      \o Optional(c.ratio # Absent, <<[kind |-> "bar", bytes |-> c.label, ratio |-> c.ratio, height |-> 0]>>)
      \o Optional(c.icon # None, <<[kind |-> "image", bytes |-> 0, ratio |-> 0, height |-> 0]>>)
      \o Optional(c.space # Absent, <<[kind |-> "spacer", bytes |-> 0, ratio |-> 0, height |-> c.space]>>)
CommandCard(c) ==
  CardOf(c.slot, CommandRows(c),
         IF c.icon = None THEN None
         ELSE [width |-> c.icon.iconWidth, height |-> c.icon.iconHeight,
               bytes |-> 2 * c.icon.iconWidth * c.icon.iconHeight])

TrimValid(steps) == steps \in -96 .. 64

\* load_pitch_trim: no file, or one that holds a valid number.
TrimLoads(c) == c.trim = Absent \/ TrimValid(c.trim)

\* text_message, presence_message and emote_message; the gaze of an Emote is narrowed
\* to a byte only when it is in range.
CommandMessage(c) == IF c.type = "card" THEN CommandCard(c) ELSE c.message
CommandValid(c) ==
  LET m == CommandMessage(c)
  IN  /\ c.type = "card" /\ c.icon # None => IconValid(c.icon)
      /\ Holds(m)
      /\ m.type = "Card" => CardValid(m)
      /\ m.type = "Emote" => EmoteValid(m)
      /\ m.type = "PitchTrim" => TrimValid(m.steps)

\* send_with_trim: the trim of the file first, and a Ping before each.
Session(c) ==
  LET Checked(m) == <<[type |-> "Ping"], m>>
  IN  (IF c.trim = Absent THEN <<>> ELSE Checked([type |-> "PitchTrim", steps |-> c.trim]))
      \o Checked(CommandMessage(c))

\* The message that drain_spool makes of a request, and whether it takes it.
Asked(r) ==
  CASE r.kind = "notify" -> [type |-> "Text", bytes |-> Len(r.text)]
    [] r.kind = "status" -> [type |-> "Presence", detail |-> Len(r.text), gaze |-> [x |-> 0, y |-> 0]]
    [] OTHER -> [type |-> "InputMode"]

-----------------------------------------------------------------------------
ContentInit ==
  /\ section = None /\ granted = None /\ hello = None /\ request = None
  /\ sending = <<>> /\ transfer = None /\ outcome = "idle"

\* load, when no command holds the port, then Spawner::spawn: what the settings
\* allow must fit the launch frame.
Configure ==
  /\ section = None /\ outcome = "idle"
  /\ \E s \in Sections :
       /\ SectionValid(s) /\ ParamsValid(s)
       /\ section' = s
       /\ outcome' = IF LaunchFits(s) THEN "idle" ELSE "too long"
  /\ UNCHANGED <<granted, hello, request, sending, transfer>>

\* handshake: a plugin that is not accepted is stopped.
Greet ==
  /\ section # None /\ granted = None /\ outcome = "idle"
  /\ \E h \in Hellos :
       /\ HelloValid(h)
       /\ hello' = h
       /\ granted' = Intersect(section.allowed, h.requested)
       /\ outcome' = IF InitAccepted(section) THEN "idle" ELSE "too long"
  /\ UNCHANGED <<section, request, sending, transfer>>

\* receive and apply, or the end in Reject.
Say ==
  /\ granted # None /\ outcome = "idle"
  /\ \E m \in Messages :
       IF Validate(m) /\ MayDo(granted, m) /\ Converts(m)
       THEN \E slot \in SlotsOf(m) :
              /\ request' = m
              /\ sending' = DeviceMessages(m, granted.motion, slot)
              /\ outcome' = "sending"
       ELSE /\ outcome' = "told"
            /\ UNCHANGED <<request, sending>>
  /\ UNCHANGED <<section, granted, hello, transfer>>

\* A command of the user, or the error it ends with; the daemon would hold the port.
\* load_pitch_trim, unless the command sets the trim itself, comes before the port.
Command ==
  /\ section = None /\ outcome = "idle"
  /\ \E c \in Commands :
       IF CommandValid(c) /\ TrimLoads(c)
       THEN /\ sending' = Session(c)
            /\ outcome' = IF c.type = "card" /\ c.icon # None /\ ~IconInside(c.icon)
                          THEN "panic" ELSE "sending"
       ELSE outcome' = "told" /\ UNCHANGED sending
  /\ UNCHANGED <<section, granted, hello, request, transfer>>

\* What the daemon makes of a request it has read; what is too long is logged.
Handed(r) ==
  IF Holds(Asked(r)) THEN outcome' = "sending" /\ sending' = <<Asked(r)>>
  ELSE outcome' = "told" /\ UNCHANGED sending

\* The daemon reads what was written for r; what has no text to show, or too much, is logged.
Showable(r) == Holds(Asked(r)) /\ (r.kind = "notify" => r.text # <<>>)
ReadBack(r, read) ==
  IF ~read.ok THEN outcome' = (IF Showable(r) THEN "refused" ELSE "told") /\ UNCHANGED sending
  ELSE IF read.request # r THEN outcome' = "changed" /\ UNCHANGED sending
  ELSE Handed(r)

\* write_spool, where a control character is refused, and read of the daemon.
Ask ==
  /\ section = None /\ outcome = "idle"
  /\ \E r \in Requests :
       IF Quotable(r.text) THEN ReadBack(r, ReadRequest(FormatRequest(r)))
       ELSE outcome' = "told" /\ UNCHANGED sending
  /\ UNCHANGED <<section, granted, hello, request, transfer>>

\* A file that was written without this program; what is wrong with it is logged.
HandedIfRead(read) ==
  IF read.ok THEN Handed(read.request) ELSE outcome' = "told" /\ UNCHANGED sending
Read ==
  /\ section = None /\ outcome = "idle"
  /\ \E text \in Files : HandedIfRead(ReadRequest(text))
  /\ UNCHANGED <<section, granted, hello, request, transfer>>

\* The settings of the device are saved and read at its next start; those of the version
\* before lack the last two items.
KeepSettings ==
  /\ section = None /\ outcome = "idle"
  /\ \E flags \in [Flags -> {"true", "false"}],
        paces \in [Paces -> {"quiet", "normal", "lively"}] :
       LET s     == [k \in SettingNames |-> IF k \in Flags THEN flags[k] ELSE paces[k]]
           lines == EncodeSettings(s)
           older == [k \in SettingNames |-> IF k \in Needed("1") THEN s[k] ELSE DefaultSettings[k]]
           read  == ParseSettings(lines)
           then  == ParseSettings(OlderLines(lines))
       IN  outcome' = IF EncodedBytes(lines) > MaxConfigBytes THEN "panic"
                      ELSE IF ~read.ok \/ ~then.ok THEN "refused"
                      ELSE IF read.settings # s \/ then.settings # older THEN "changed" ELSE "done"
  /\ UNCHANGED <<section, granted, hello, request, sending, transfer>>

\* from_slice or encode on this side, handle on the other; the rest of a transfer
\* is given up after a failure.
Deliver ==
  /\ outcome = "sending" /\ sending # <<>> /\ Head(sending).type # "Ping"
  /\ LET m == Head(sending)
     IN  /\ outcome' = IF ~Holds(m) THEN "panic"
                       ELSE IF Framed(Bytes(m)) > MaxFrameBytes THEN "too long"
                       ELSE IF ~Accepts(m) THEN "refused"
                       ELSE IF Tail(sending) = <<>> THEN "done" ELSE "sending"
         /\ sending' = Tail(sending)
         /\ transfer' =
              IF m.type = "ImageBegin" THEN [width |-> m.width, height |-> m.height, next |-> 0]
              ELSE IF m.type = "ImageEnd" THEN None
              ELSE IF m.type = "ImageRows" /\ Accepts(m)
              THEN [transfer EXCEPT !.next = @ + m.bytes \div (2 * transfer.width)]
              ELSE transfer
  /\ UNCHANGED <<section, granted, hello, request>>

\* validate_pong: firmware of another version ends the session.
Check ==
  /\ outcome = "sending" /\ sending # <<>> /\ Head(sending).type = "Ping"
  /\ \/ sending' = Tail(sending) /\ UNCHANGED outcome
     \/ sending' = <<>> /\ outcome' = "told"
  /\ UNCHANGED <<section, granted, hello, request, transfer>>

\* A message that needs nothing of the device ends, and the next may come.
Settle ==
  /\ outcome \in {"told", "done"} \/ (outcome = "sending" /\ sending = <<>>)
  /\ request' = None /\ outcome' = "idle"
  /\ UNCHANGED <<section, granted, hello, sending, transfer>>

ContentNext == Configure \/ Greet \/ Say \/ Command \/ Ask \/ Read \/ KeepSettings \/ Check \/ Deliver \/ Settle

ContentSpec == ContentInit /\ [][ContentNext]_xvars

-----------------------------------------------------------------------------
\* What was accepted of a plugin or of the user reaches the receiver whole: Init and
\* the launch information fit their frames and limits, every message made of content
\* fits the types and the frame of the device, and the firmware refuses none; and a file
\* that one side writes the other reads as it was meant, be it a request with quotes and
\* signs in its text or settings of this version and the last (convert.rs, config.rs,
\* card_message and decode_icon against lib.rs and model.rs; spool.rs; settings.rs).
ReceiversTakeAll == outcome \notin {"panic", "too long", "refused", "changed"}

\* Nothing a plugin sends reaches the device but what the settings allow and its Hello
\* asked for, and its emotes move nothing without motion (receive, intersect, emote).
GrantHolds ==
  request # None =>
    LET Both(name) == section.allowed[name] /\ hello.requested[name]
    IN  \A i \in 1 .. Len(sending) :
          /\ request.type = "Notify" => Both("notify")
          /\ request.type \in {"Presence", "Emote"} => Both("presence")
          /\ sending[i].type = "Emote" /\ sending[i].intensity > 0 =>
               Both("presence") /\ Both("motion")
          /\ request.type = "ImageFrame" => Both("image")
          /\ request.type = "CardPut" => section.allowed.cards > 0 /\ hello.requested.cards > 0
=============================================================================
