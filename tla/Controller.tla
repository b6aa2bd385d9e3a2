----------------------------- MODULE Controller -----------------------------
(***************************************************************************)
(* What the device shows, and where a tap goes: the Controller of          *)
(* firmware/src/model.rs with its client plugins (Clients), the frame      *)
(* buffer (framebuffer.rs) and the display behind it, as the main loop     *)
(* calls them.  A turn of the loop ticks, reads the touch panel, and takes *)
(* a message of the host; each draws into the frame buffer and transfers   *)
(* what has changed, which may fail half way.                              *)
(*                                                                         *)
(* A tick is one turn in the model (a part of CLIENT_POLL_MS).  Of a Card  *)
(* of the host there are its id and, for each row, its height and action;  *)
(* other host contents, Presence and Emote are told apart by where they    *)
(* are shown only.  The sequence number and the replies are in DeviceLink, the       *)
(* transfer of an image is in SlotSync (here an image comes whole), and    *)
(* when there is an autonomous reaction is in Reactions (here: at any      *)
(* time).  Controller::tap, the demo of faces, is never called by the loop. *)
(***************************************************************************)
EXTENDS Clients, Sequences

CONSTANTS
  Poll,       \* CLIENT_POLL_MS, in ticks
  Cards,      \* Cards of the host: [id, rows], a row being [height, action]; 0 is none
  TapRows,    \* the y of taps
  Lives,      \* the ttls of host content in ticks; 0 is none
  Reactions,  \* autonomous reactions that look different
  Budgets     \* bounds: how many gestures, how many messages and of which kinds, whether
              \* there are reactions, and how many failures of the display a behaviour has

Kinds == {"text", "card", "image", "clear slot", "clear", "presence", "emote", "mode"}

ASSUME ControllerAssumption ==
  /\ Poll \in Nat \ {0} /\ Lives \subseteq Nat /\ TapRows \subseteq 0 .. 239
  /\ \A card \in Cards : card \in [id : Nat, rows : Seq([height : Nat, action : Nat])]
  /\ \A b \in Budgets : /\ {b.gestures, b.messages, b.faults} \subseteq Nat
                        /\ b.kinds \subseteq Kinds /\ b.reactions \subseteq Reactions

VARIABLES
  pc,         \* where the loop is: "turn", "tick", "touch", "receive"
  state,      \* DisplayState: [slots, presence, emote]
  mode,       \* input_mode
  startup,    \* is the screen of the start on?
  local,      \* the View of the clients that was taken over
  clients,    \* see Clients
  reaction,   \* the autonomous reaction, or None
  dirty,      \* autonomy_dirty
  nextPoll,   \* ticks until the clients are polled
  frame,      \* FrameBuffer: [pixels, flushed, synced, written]
  lcd,        \* what the display shows
  budget, gestures, messages, faults,
  shown,      \* history: did the last transfer succeed (the one of the start: is it meant to last)?
  tap,        \* history: the last tap, what was seen there and what was done, or None
  quiet       \* history: ticks since the timer had a cue

bounds == <<budget, gestures, messages, faults>>
vars == <<pc, state, mode, startup, local, clients, reaction, dirty, nextPoll, frame, lcd,
          bounds, shown, tap, quiet>>

-----------------------------------------------------------------------------
(* DisplayState.  What is left of an entry is a number of ticks or Forever. *)

Forever == -1

Contents == ({"text"} \X (1 .. 3)) \cup ({"host card"} \X (1 .. 3) \X Cards) \cup {<<"image", 3>>}
Remaining == Nat \cup {Forever}
SlotEntry == [what : Contents, left : Remaining]
Presence  == [what : {<<"presence">>}, left : Remaining]
Expressions == {<<"host">>} \cup ({"cue"} \X Cues)
Emote     == [what : Expressions, left : Nat, source : {"client", "host"}]

DisplayState == [slots : [1 .. 3 -> SlotEntry \cup {None}], presence : Presence \cup {None},
                 emote : Emote \cup {None}]

\* What compose puts in front of them.
Composed == Contents \cup Banners \cup ({"panel"} \X Panels)

ASSUME EntryAssumption ==
  /\ None \notin [what : Composed, left : Remaining]
  /\ None \notin Presence /\ None \notin Emote /\ None \notin Reactions

Entry(what, ttl) == [what |-> what, left |-> IF ttl = 0 THEN Forever ELSE ttl]

EmptyState == [slots |-> [i \in 1 .. 3 |-> None], presence |-> None, emote |-> None]

\* DisplayState::expire
Rest(e) == IF e # None /\ e.left = 0 THEN None ELSE e
Expire(s) ==
  [slots |-> [i \in 1 .. 3 |-> Rest(s.slots[i])], presence |-> Rest(s.presence), emote |-> Rest(s.emote)]

Later(e) == IF e = None \/ e.left \in {0, Forever} THEN e ELSE [e EXCEPT !.left = @ - 1]
Older(s) ==
  [slots |-> [i \in 1 .. 3 |-> Later(s.slots[i])], presence |-> Later(s.presence), emote |-> Later(s.emote)]

\* set_emote
WithEmote(s, what, life, from) == [s EXCEPT !.emote = [what |-> what, left |-> life, source |-> from]]

\* Mistake: what is left of a client's Emote begins anew.
ClearedAnew(s) ==
  IF s.emote # None /\ s.emote.source = "client"
  THEN WithEmote(EmptyState, s.emote.what, CueLife, "client") ELSE EmptyState

\* Message::Clear: the host's contents go, a client's cue stays for as long as it had.
Cleared(s) ==
  [EmptyState EXCEPT !.emote = IF s.emote # None /\ s.emote.source = "client" THEN s.emote ELSE None]

-----------------------------------------------------------------------------
(* The picture.  The screen has three areas.                               *)

Areas == {"top", "middle", "bottom"}
BannerHeight  == 48
BottomBannerY == 192
AreaAt(y) == IF y < BannerHeight THEN "top" ELSE IF y < BottomBannerY THEN "middle" ELSE "bottom"

Blank == <<"blank">>
Unknown == <<"unknown">>

\* compose: the Card of a client in front of the host's banner, the panel in front of all.
Compose(s, v) ==
  [s EXCEPT !.slots[1] = IF v.card # None THEN Entry(v.card, 0) ELSE @,
            !.slots[3] = IF v.panel # None THEN Entry(<<"panel", v.panel>>, 0) ELSE @]

\* The face: an Emote, else Presence, else the autonomous reaction.
Face(s, v, r) ==
  LET autonomous == s.presence = None /\ s.emote = None /\ v.panel = None
  IN  <<"face", IF s.emote # None THEN s.emote.what ELSE <<"none">>, s.presence # None,
        IF autonomous /\ r # None THEN <<r>> ELSE <<>> >>

\* draw_content of the Overlay: an image leaves the rest black.
DrawnIn(what, a) == IF what = <<"image", 3>> /\ a # "middle" THEN <<"black", 3>> ELSE what

\* How high the first k rows of a Card are together, a row being as high as its highest
\* element.
Height(rows) ==
  LET sum[k \in 0 .. Len(rows)] == IF k = 0 THEN 0 ELSE sum[k - 1] + rows[k].height
  IN  sum

\* draw_card: the rows from y on.
Bands(rows, y) ==
  [k \in 1 .. Len(rows) |->
     LET top == y + 4 + Height(rows)[k - 1] IN top .. top + rows[k].height - 1]

\* Controller::draw and draw_state_with_image.
Picture(s, v, r, start) ==
  LET composed == Compose(s, v)
      what(i)  == IF composed.slots[i] = None THEN Blank ELSE composed.slots[i].what
  IN  IF start THEN [a \in Areas |-> <<"startup">>]
      ELSE IF composed.slots[3] # None
      THEN [a \in Areas |-> DrawnIn(what(3), a)]
      ELSE [a \in Areas |-> CASE a = "top" -> what(1) [] a = "middle" -> Face(s, v, r)
                              [] a = "bottom" -> what(2)]

-----------------------------------------------------------------------------
(* The frame buffer.  A tile is an area, its hash is its content.          *)

Drawn(f, p) == [pixels |-> p, flushed |-> f.flushed, synced |-> f.synced, written |-> TRUE]

\* The hashes of the tiles up to the one that failed are already stored.
AfterFailure(f, done) ==
  [pixels  |-> f.pixels, written |-> f.written, synced |-> FALSE,
   flushed |-> [a \in Areas |-> IF f.synced /\ a \in done THEN f.pixels[a] ELSE f.flushed[a]]]

\* FrameBuffer::flush: what has changed is sent, or all.  It may fail anywhere, and the
\* display then shows anything there.
Flush(f) ==
  LET changed == IF f.synced THEN {a \in Areas : f.flushed[a] # f.pixels[a]} ELSE Areas
  IN  \/ /\ f.synced /\ ~f.written
         /\ frame' = f /\ shown' = TRUE
         /\ UNCHANGED <<lcd, faults>>
      \/ /\ ~f.synced \/ f.written
         /\ frame' = [pixels |-> f.pixels, flushed |-> f.pixels, synced |-> TRUE, written |-> FALSE]
         /\ lcd' = [a \in Areas |-> IF a \in changed THEN f.pixels[a] ELSE lcd[a]]
         /\ shown' = TRUE
         /\ UNCHANGED faults
      \/ /\ ~f.synced \/ f.written
         /\ faults < budget.faults /\ faults' = faults + 1
         /\ \E sent \in SUBSET changed, failing \in changed :
              /\ failing \notin sent
              /\ frame' = AfterFailure(f, sent \cup {failing})
              /\ lcd' = [a \in Areas |-> IF a \in sent THEN f.pixels[a]
                                         ELSE IF a = failing THEN Unknown ELSE lcd[a]]
         /\ shown' = FALSE

Draw(s, v, r, start) == Flush(Drawn(frame, Picture(s, v, r, start)))

-----------------------------------------------------------------------------
(* A turn of the main loop.                                                *)

\* Mistake: what the sensors brought about is drawn whenever something else is.
SensedQuietly(r) == reaction' = r /\ nextPoll' = 0 /\ dirty' = dirty

\* Controller::sensor_sample, when something comes near.
Sensed(r) == reaction' = r /\ nextPoll' = 0 /\ dirty' = TRUE

\* Time passes, and the sensors may be read.
Turn ==
  /\ pc = "turn" /\ pc' = "tick" /\ tap' = None
  /\ clients' = Age(clients) /\ state' = Older(state)
  /\ quiet' = IF Cue(clients'.timer) # None THEN 0 ELSE Least(quiet + 1, CueLife)
  /\ \/ nextPoll' = nextPoll - 1 /\ UNCHANGED <<reaction, dirty>>
     \/ \E r \in budget.reactions : Sensed(r)
  /\ UNCHANGED <<mode, startup, local, frame, lcd, bounds, shown>>

\* What the clients ask for is taken over (sync_clients).
CueTaken(c, s) == IF c.cue = None THEN s ELSE WithEmote(s, <<"cue", c.cue>>, CueLife, "client")
CuesTaken(c) == [c EXCEPT !.cue = None]

\* Controller::tick: the clients are polled; the screen is drawn if anything has changed.
Tick ==
  /\ pc = "tick" /\ pc' = "touch"
  /\ LET poll == nextPoll <= 0
         c == IF poll THEN Ticked(clients) ELSE clients
         s == CueTaken(c, state)
         v == IF poll THEN View(c) ELSE local
     IN  \E r \in IF poll THEN {reaction, None} \cup budget.reactions ELSE {reaction} :
           LET start   == startup /\ v = local /\ (poll => r = None)
               changed == poll /\ (c.cue # None \/ v # local \/ r # reaction \/ dirty \/ start # startup)
           IN  /\ clients' = CuesTaken(c) /\ local' = v /\ reaction' = r /\ startup' = start
               /\ nextPoll' = IF poll THEN Poll ELSE nextPoll
               /\ dirty' = (dirty /\ ~poll)
               /\ state' = Expire(s)
               /\ IF changed \/ Expire(s) # s THEN Draw(Expire(s), v, r, start) ELSE Flush(frame)
  /\ UNCHANGED <<mode, budget, gestures, messages, tap, quiet>>

\* refresh_clients: c is what a gesture made of the clients.
Refresh(c) ==
  LET s == CueTaken(c, state)
      v == View(c)
  IN  /\ clients' = CuesTaken(c) /\ state' = s /\ local' = v
      /\ startup' = (startup /\ v = local)
      /\ IF c.cue # None \/ v # local THEN Draw(s, v, reaction, FALSE) ELSE Flush(frame)

Unrefreshed == UNCHANGED <<clients, state, local, startup>> /\ Flush(frame)

\* An autonomous reaction to a touch, if the time has come.
React ==
  /\ reaction' \in {reaction} \cup budget.reactions
  /\ startup' = FALSE
  /\ Draw(state, local, reaction', FALSE)
  /\ UNCHANGED <<clients, state, local>>

Gesture ==
  /\ pc = "touch" /\ pc' = "receive"
  /\ gestures < budget.gestures /\ gestures' = gestures + 1
  /\ UNCHANGED <<mode, dirty, nextPoll, budget, messages, quiet>>

LongPress ==
  /\ Gesture /\ tap' = None
  /\ Refresh(Opened(clients))
  /\ UNCHANGED reaction

\* A stroke over the face.
Stroke ==
  /\ Gesture /\ tap' = None
  /\ local.panel = None /\ state.slots[3] = None
  /\ React

\* The action of the row that holds y, going down from top; 0 for none.
ActionAt(rows, top, y) ==
  LET down[k \in 0 .. Len(rows)] ==
        IF k = 0 THEN [top |-> top, action |-> 0]
        ELSE LET above == down[k - 1]
             IN  [top    |-> above.top + rows[k].height,
                  action |-> IF y \in above.top .. above.top + rows[k].height - 1
                             THEN rows[k].action ELSE above.action]
  IN  down[Len(rows)].action

TappedSlot(y) ==
  IF state.slots[3] # None THEN 3
  ELSE IF y < BannerHeight /\ state.slots[1] # None THEN 1
  ELSE IF y \in BottomBannerY .. BottomBannerY + BannerHeight - 1 /\ state.slots[2] # None THEN 2
  ELSE 0
SlotTop(slot) == IF slot = 2 THEN BottomBannerY ELSE 0
CardIn(slot)  == slot # 0 /\ state.slots[slot].what[1] = "host card"

\* Mistake: the margin above the first row is forgotten.
HitFromTop(y) ==
  LET slot == TappedSlot(y)
  IN  IF CardIn(slot)
      THEN LET card == state.slots[slot].what[3]
           IN  <<slot, card.id, ActionAt(card.rows, SlotTop(slot), y)>>
      ELSE <<slot, 0, 0>>

\* Controller::hit: the slot, the Card and the action; 0 for none.
Hit(y) ==
  LET slot == TappedSlot(y)
  IN  IF CardIn(slot)
      THEN LET card == state.slots[slot].what[3]
           IN  <<slot, card.id, ActionAt(card.rows, SlotTop(slot) + 4, y)>>
      ELSE <<slot, 0, 0>>

\* A tap at y; button 0 is none.
Tapped(y, button, did) ==
  tap' = [seen |-> lcd[AreaAt(y)], sure |-> shown, y |-> y, button |-> button, did |-> did]

\* A tap while a panel is open: on a button, or beside them (0).
TapPanel ==
  /\ Gesture
  /\ local.panel # None
  /\ \E button \in 0 .. Buttons(local.panel) :
       IF button = 0 THEN Tapped(BannerHeight, 0, Nothing) /\ Unrefreshed
       ELSE /\ Tapped(BannerHeight, button, Effect(clients, local.panel[1], button))
            /\ Refresh(Pressed(clients, local.panel[1], button))
  /\ UNCHANGED reaction

\* A tap on the Card of a client, unless the host's Overlay hides it.
TapCard ==
  /\ Gesture
  /\ local.panel = None /\ local.card # None /\ state.slots[3] = None
  /\ Tapped(0, 0, <<"card">>)
  /\ Refresh(CardTapped(clients))
  /\ UNCHANGED reaction

\* Any other tap: the device reacts by itself unless the host wants it, or if it is on the
\* face; the host is told if it wants it.
TapHost ==
  /\ Gesture
  /\ local.panel = None
  /\ \E y \in TapRows :
       /\ y < BannerHeight /\ local.card # None => state.slots[3] # None
       /\ LET face == state.slots[3] = None /\ y \in BannerHeight .. BottomBannerY - 1
          IN  IF mode = "demo" \/ face THEN React
              ELSE Unrefreshed /\ UNCHANGED reaction
       /\ Tapped(y, 0, IF mode = "forward" THEN <<"event", Hit(y)>> ELSE <<"reaction">>)

NoGesture ==
  /\ pc = "touch" /\ pc' = "receive"
  /\ UNCHANGED <<state, mode, startup, local, clients, reaction, dirty, nextPoll, frame, lcd,
                 bounds, shown, tap, quiet>>

\* Controller::handle: what a message makes of the state, and the screen.
Show(s) ==
  /\ state' = Expire(s) /\ startup' = FALSE
  /\ Draw(Expire(s), local, reaction, FALSE)
  /\ UNCHANGED mode

Message(kind) ==
  /\ pc = "receive" /\ pc' = "turn"
  /\ kind \in budget.kinds
  /\ messages < budget.messages /\ messages' = messages + 1
  /\ UNCHANGED <<local, clients, reaction, dirty, nextPoll, budget, gestures, tap, quiet>>

ShowText ==
  /\ Message("text")
  /\ \E i \in 1 .. 3, ttl \in Lives : Show([state EXCEPT !.slots[i] = Entry(<<"text", i>>, ttl)])

\* An Overlay may be as high as the screen, a banner holds what fits in it.
ShowCard ==
  /\ Message("card")
  /\ \E i \in 1 .. 3, card \in Cards, ttl \in Lives :
       /\ i # 3 => 8 + Height(card.rows)[Len(card.rows)] <= BannerHeight
       /\ Show([state EXCEPT !.slots[i] = Entry(<<"host card", i, card>>, ttl)])

EndImage ==
  /\ Message("image")
  /\ \E ttl \in Lives : Show([state EXCEPT !.slots[3] = Entry(<<"image", 3>>, ttl)])

ClearSlot ==
  /\ Message("clear slot")
  /\ \E i \in 1 .. 3 : Show([state EXCEPT !.slots[i] = None])

Clear == Message("clear") /\ Show(Cleared(state))

SetPresence ==
  /\ Message("presence")
  /\ \E ttl \in Lives : Show([state EXCEPT !.presence = Entry(<<"presence">>, ttl)])

SetEmote ==
  /\ Message("emote")
  /\ \E life \in Lives \ {0} : Show(WithEmote(state, <<"host">>, life, "host"))

SetMode ==
  /\ Message("mode")
  /\ mode' \in {"demo", "forward"}
  /\ Flush(frame)
  /\ UNCHANGED <<state, startup>>

NoMessage ==
  /\ pc = "receive" /\ pc' = "turn"
  /\ UNCHANGED <<state, mode, startup, local, clients, reaction, dirty, nextPoll, frame, lcd,
                 bounds, shown, tap, quiet>>

\* The start: the screen of the start is on the display; loaded settings end it at the
\* first tick.
Init ==
  /\ pc = "turn" /\ state = EmptyState /\ mode = "demo"
  /\ startup \in BOOLEAN /\ dirty = ~startup
  /\ clients = NoClients /\ local = View(NoClients)
  /\ reaction = None /\ nextPoll = 0
  /\ lcd = Picture(EmptyState, local, None, TRUE)
  /\ frame = [pixels |-> lcd, flushed |-> lcd, synced |-> TRUE, written |-> FALSE]
  /\ budget \in Budgets /\ gestures = 0 /\ messages = 0 /\ faults = 0
  /\ shown = startup /\ tap = None
  /\ quiet = CueLife

Touch == LongPress \/ Stroke \/ TapPanel \/ TapCard \/ TapHost \/ NoGesture

Receive == ShowText \/ ShowCard \/ EndImage \/ ClearSlot \/ Clear \/ SetPresence \/ SetEmote \/ SetMode \/ NoMessage

Next == Turn \/ Tick \/ Touch \/ Receive

Spec == Init /\ [][Next]_vars

-----------------------------------------------------------------------------
(* Properties.                                                             *)

\* After a transfer that succeeded, the display shows what the state, the clients and the
\* reaction ask for, whatever transfers failed before and whoever changed it: no change is
\* left undrawn, and a tile that the display lost is sent again (model.rs:541-634,
\* framebuffer.rs:83-129).  So it is with the Ack of a message (main.rs:398-406).
ScreenIsCurrent ==
  pc # "tick" /\ shown => lcd = Picture(state, View(clients), reaction, startup)

\* The action of the row that is drawn at y, and what the host is told of a tap, by what is
\* seen there and where its rows are drawn.
ActionDrawn(rows, top, y) ==
  LET row == {k \in 1 .. Len(rows) : y \in Bands(rows, top)[k]}
  IN  IF row = {} THEN 0 ELSE rows[CHOOSE k \in row : TRUE].action
Named(t) ==
  LET slot == t.seen[2]
      card == t.seen[3]
  IN  IF t.seen[1] # "host card" THEN <<slot, 0, 0>>
      ELSE <<slot, card.id, ActionDrawn(card.rows, IF slot = 2 THEN 192 ELSE 0, t.y)>>

\* What a tap is good for, by what is seen there.
Meaning(t) ==
  CASE t.seen[1] = "panel" -> IF t.button = 0 THEN Nothing
                              ELSE Promise(t.seen[2], Labels(t.seen[2])[t.button])
    [] t.seen[1] = "card" -> <<"card">>
    [] t.seen[1] \notin {"panel", "card"} /\ mode = "demo" -> <<"reaction">>
    [] t.seen[1] \in {"text", "host card", "image", "black"} /\ mode = "forward" -> <<"event", Named(t)>>
    [] t.seen[1] \in {"face", "blank", "startup"} /\ mode = "forward" -> <<"event", <<0, 0, 0>> >>

\* A tap does what the display shows at that place: the button of a panel what its label
\* says, though labels, actions and what is drawn come from three tables; a Card of a client
\* goes to it; host content to the host under the name of its slot, and of a Card with the
\* action of the row that is drawn there (model.rs:298-340, 642-702, renderer.rs:460-508,
\* preferences.rs:58-145).
TapDoesWhatIsSeen == tap # None /\ tap.sure /\ pc # "turn" => tap.did = Meaning(tap)

\* A cue is gone CUE_EMOTE_MS after the timer has no reason for it, whatever the host sends:
\* Clear does not make it last (model.rs:402-411, docs/plugin.md:496).
CueEnds ==
  pc # "tick" /\ state.emote # None /\ state.emote.source = "client" => quiet < CueLife
=============================================================================
