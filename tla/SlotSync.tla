------------------------------ MODULE SlotSync ------------------------------
(***************************************************************************)
(* What the daemon believes of the screen: Daemon::sync_slots, device_ttl, *)
(* slot_messages, flush_pending, drain_spool and send_device of            *)
(* crates/host/src/daemon/mod.rs, the files of the spool (spool.rs), and a *)
(* device that shows each slot until a deadline of its own.                *)
(*                                                                         *)
(* The plan comes from the scheduler (Scheduling): here it is whatever it  *)
(* is, of contents that are told apart by their source.  The connection is *)
(* what DeviceLink makes of it: a call is delivered, fails before or after *)
(* it was carried out, or is carried out late but never after a later one; *)
(* the first call delivered over a new connection returns Reset, unless a  *)
(* request that was rejected first has lost it.                            *)
(*                                                                         *)
(* A tick is a part of a second.  The daemon reads the clock once a turn   *)
(* (`now`) and the calls of the turn take time: `lag` is by how much its   *)
(* clock is behind.                                                        *)
(***************************************************************************)
EXTENDS Integers, Sequences, FiniteSets

CONSTANTS
  Slots,        \* 1 .. n, in the order of SLOTS; the last one is Overlay
  Cards,        \* contents that are one message
  Images,       \* contents that are several, in Overlay only
  StatusLives,  \* the ttls of a status, in ticks; 0 is none
  Kinds,        \* kinds of requests, of "status", "input" and "notify"
  Second,       \* ticks in a second
  Refresh,      \* rotate_s, in ticks
  Margin,       \* DEVICE_TTL_MARGIN_S, in ticks
  ImageGap,     \* MIN_IMAGE_INTERVAL, in ticks
  MaxPerPoll,   \* MAX_PER_POLL
  MaxLag,       \* bound on the ticks that the calls of a turn take
  Budgets,      \* bounds: of which contents plans are made, after how many ticks those may
                \* expire (Forever: never), how many requests come to the spool, and how many
                \* failures, restarts and deaths there are together
  None

\* An image may be sent again by when a slot is due to be (MIN_IMAGE_INTERVAL is half a second,
\* mod.rs:35, and rotate_s at least one, config.rs:279), and the calls of two turns take less
\* than the margin (five seconds, mod.rs:31, and MaxLag at most one).
ASSUME SettleAssumption == ImageGap <= Refresh /\ 2 * MaxLag < Margin

Forever == 0   \* `left` of what has no deadline

ASSUME SlotSyncAssumption ==
  /\ IsFiniteSet(Slots) /\ Slots # {} /\ Slots = 1 .. Cardinality(Slots)
  /\ Second \in Nat \ {0} /\ MaxLag \in 0 .. Second
  /\ Refresh \in Nat \ {0} /\ Refresh % Second = 0
  /\ Margin \in Nat /\ Margin % Second = 0
  /\ ImageGap \in Nat /\ MaxPerPoll \in Nat \ {0}
  /\ StatusLives \subseteq Nat
  /\ Kinds \subseteq {"status", "input", "notify"}
  /\ \A b \in Budgets : /\ b.contents \subseteq Cards \cup Images /\ b.lives \subseteq Nat
                        /\ b.requests \in Nat /\ b.faults \in Nat

Contents == Cards \cup Images
Overlay  == Cardinality(Slots)

VARIABLES
  \* the daemon
  alive,     \* FALSE while no daemon runs
  pc,        \* where the turn is: "idle", "input", "status", "plan", "slots"
  lag,       \* ticks since the turn has read the clock
  ran,       \* has a turn ended since the last tick?
  plan,      \* [Slots -> Contents or None]
  life,      \* of each content the time left to it, or None if it is not put yet
  sent,      \* per slot, what the daemon believes is on the device, or None
  imageAge,  \* ticks since image_sent
  todo,      \* the slots that this turn has yet to look at
  queue,     \* the messages of the first of them that are yet to be sent
  waiting,   \* pending_status, or None
  mode,      \* pending_input, or None
  \* the spool
  files,     \* [Requests -> state of its file]
  request,   \* [Requests -> the request written to it, or None]
  \* the device and the connection
  screen,    \* per slot, what the device shows, or None
  pixels,    \* what the image buffer holds: the images its upper and lower rows are of
  incoming,  \* the image that is being received, or None
  presence,  \* the status on the device, or None
  input,     \* the request its input mode comes from, 0 for none
  reset,     \* the next delivered call returns Reset
  late,      \* a request that failed and may still be carried out, or None
  faults,    \* faults so far
  budget,    \* the bounds of this behaviour
  \* history
  calm,      \* ticks since the last disturbance
  dead,      \* ticks since the last daemon died
  unsure,    \* slots that were disturbed without a Reset that tells
  done,      \* the requests, in the order they were taken in
  before,    \* [Requests -> the requests whose files were complete before its own]
  stuck,     \* the requests whose files could not be removed at first
  due        \* [Requests -> ticks to the deadline of the status], from when it was taken in

daemonVars == <<alive, pc, lag, ran, plan, life, sent, imageAge, todo, queue, waiting, mode>>
deviceVars == <<screen, pixels, incoming, presence, input, reset, late>>
spoolVars  == <<files, request>>
spoolPast  == <<done, before, stuck, due>>
history    == <<calm, dead, unsure, spoolPast>>
vars == <<daemonVars, deviceVars, spoolVars, faults, budget, history>>

Requests == 1 .. budget.requests

UpTo(n) == (n + Second - 1) \div Second   \* seconds, rounded up
AtLeast(n, m) == IF n >= m THEN n ELSE m
AtMost(n, m)  == IF n <= m THEN n ELSE m

CalmMax == Refresh + Margin + MaxLag + 2   \* calm and dead are counted up to here

-----------------------------------------------------------------------------
(* What the variables hold.                                                *)

Ttls     == 1 .. Refresh + Margin
Life     == [left : Int, bounded : BOOLEAN]
Sent     == [src : Contents, age : Int, left : Int]
Waiting  == [id : Nat, left : Int, bounded : BOOLEAN]
Request  == [kind : Kinds, ttl : StatusLives]
Shown    == [src : Contents, left : Ttls]
Transfer == [src : Images, ttl : Ttls, row : 1 .. 3]
Presence == [id : Nat, left : Nat]

SlotMessage ==
  [kind : {"show"}, slot : Slots, src : Contents \ Images, ttl : Ttls]
    \cup [kind : {"clear"}, slot : Slots]
    \cup [kind : {"begin"}, src : Images, ttl : Ttls]
    \cup [kind : {"rows"}, src : Images, row : {1, 2}]
    \cup [kind : {"end"}, src : Images]
Message ==
  SlotMessage \cup [kind : {"status"}, id : Nat, ttl : Nat] \cup [kind : {"input"}, id : Nat]

ASSUME NoneAssumption ==
  /\ None \notin Contents /\ None \notin Nat
  /\ None \notin Life /\ None \notin Sent /\ None \notin Waiting /\ None \notin Request
  /\ None \notin Shown /\ None \notin Transfer /\ None \notin Presence
  /\ None \notin Message

-----------------------------------------------------------------------------
(* The device.  A message is a record with a kind; d is a record of what   *)
(* it shows.                                                               *)

Device == [screen |-> screen, pixels |-> pixels, incoming |-> incoming,
           presence |-> presence, input |-> input]

Become(d) ==
  /\ screen' = d.screen /\ pixels' = d.pixels /\ incoming' = d.incoming
  /\ presence' = d.presence /\ input' = d.input

Blank == [screen |-> [i \in Slots |-> None], pixels |-> <<None, None>>, incoming |-> None,
          presence |-> None, input |-> 0]

\* Controller::handle: is the message carried out?  Rows and the end of an image are only
\* accepted in the order of a transfer.
Accepts(d, m) ==
  CASE m.kind = "rows" -> d.incoming # None /\ d.incoming.src = m.src /\ d.incoming.row = m.row
    [] m.kind = "end"  -> d.incoming # None /\ d.incoming.src = m.src /\ d.incoming.row = 3
    [] OTHER           -> TRUE

\* ... and what it does.  The rows of an image go to the buffer of the image on show; its
\* end, accepted or not, ends the transfer.
Handled(d, m) ==
  CASE m.kind = "show"   -> [d EXCEPT !.screen[m.slot] = [src |-> m.src, left |-> m.ttl]]
    [] m.kind = "clear"  -> [d EXCEPT !.screen[m.slot] = None]
    [] m.kind = "begin"  -> [d EXCEPT !.incoming = [src |-> m.src, ttl |-> m.ttl, row |-> 1]]
    [] m.kind = "rows"   -> IF Accepts(d, m)
                            THEN [d EXCEPT !.pixels[m.row] = m.src, !.incoming.row = m.row + 1]
                            ELSE d
    [] m.kind = "end"    -> IF Accepts(d, m)
                            THEN [d EXCEPT !.screen[Overlay] = [src |-> m.src, left |-> d.incoming.ttl],
                                           !.incoming = None]
                            ELSE [d EXCEPT !.incoming = None]
    [] m.kind = "status" -> [d EXCEPT !.presence = [id |-> m.id, left |-> m.ttl]]
    [] m.kind = "input"  -> [d EXCEPT !.input = m.id]

\* What one sees in a slot: an image is what the buffer holds.
Seen(i) ==
  IF screen[i] = None THEN {}
  ELSE IF screen[i].src \in Images THEN {pixels[1], pixels[2]} ELSE {screen[i].src}

-----------------------------------------------------------------------------
(* One call to the device, send_device.                                    *)

\* The call disturbs what the daemon knows of these slots.
Touches(m) ==
  CASE m.kind \in {"show", "clear"}         -> {m.slot}
    [] m.kind \in {"begin", "rows", "end"} -> {Overlay}
    [] OTHER                                -> {}

\* It is carried out and answered.  A Reset makes the daemon forget what it sent.
Delivered(m) ==
  /\ Accepts(Device, m)
  /\ Become(Handled(Device, m))
  /\ reset' = FALSE /\ late' = None
  /\ UNCHANGED <<faults, calm>>

\* It is refused by the device, or carried out but the transfer to the display fails: in
\* both cases the connection stays, and a Reset that was due is lost.
Rejected(m) ==
  /\ \/ ~Accepts(Device, m) /\ UNCHANGED faults
     \/ Accepts(Device, m) /\ faults < budget.faults /\ faults' = faults + 1
  /\ Become(Handled(Device, m))
  /\ reset' = FALSE /\ late' = None
  /\ unsure' = IF reset THEN Slots ELSE unsure \cup Touches(m)
  /\ calm' = 0

\* It is not answered in time: it was lost, or carried out, or may yet be.  The next call
\* opens a new connection.
Unanswered(m) ==
  /\ faults < budget.faults /\ faults' = faults + 1
  /\ \/ Become(Device) /\ late' = None
     \/ Become(Handled(Device, m)) /\ late' = None
     \/ Become(Device) /\ late' = m
  /\ reset' = TRUE /\ calm' = 0
  /\ UNCHANGED unsure

Fails(m) == Rejected(m) \/ Unanswered(m)

\* Mistake: the Reset is not looked at.
ForgetNever == sent

\* Daemon::send_device: a Reset clears `sent`.
Forget == IF reset THEN [i \in Slots |-> None] ELSE sent

-----------------------------------------------------------------------------
(* The spool.                                                              *)

\* spool::write creates a temporary file, and then gives it its name.
WriteTemporary ==
  /\ \E r \in Requests, k \in Kinds, t \in StatusLives :
       /\ files[r] = "none" /\ \A q \in Requests : q < r => files[q] # "none"
       /\ k # "status" => \A u \in StatusLives : t <= u
       /\ files' = [files EXCEPT ![r] = "temporary"]
       /\ request' = [request EXCEPT ![r] = [kind |-> k, ttl |-> t]]
       /\ before' = [before EXCEPT ![r] = {q \in Requests : files[q] \in {"ready", "gone"}}]
  /\ UNCHANGED <<daemonVars, deviceVars, faults, budget, calm, dead, unsure, done, stuck, due>>

Rename ==
  /\ \E r \in Requests :
       files[r] = "temporary" /\ files' = [files EXCEPT ![r] = "ready"]
  /\ UNCHANGED <<daemonVars, deviceVars, request, faults, budget, history>>

\* spool::drain takes the first files by name, which is by the time they were created.
Taken(s) ==
  {t \in SUBSET s : /\ Cardinality(t) = AtMost(MaxPerPoll, Cardinality(s))
                    /\ \A r \in t, q \in s \ t : r < q}

\* Mistake: a request is carried out although its file cannot be removed.
CarriedOutAnyway(taken, removed) == taken

\* drain: only a request whose file is gone is carried out.
CarriedOut(taken, removed) == removed

Newest(rs, k, old) ==
  LET mine == {r \in rs : request[r].kind = k}
  IN  IF mine = {} THEN old ELSE CHOOSE r \in mine : \A q \in mine : q <= r

\* ... in the order of their files.
InOrder(rs) == {s \in [1 .. Cardinality(rs) -> rs] :
                  \A i, j \in 1 .. Cardinality(rs) : i < j => s[i] < s[j]}

\* drain_spool: of the requests for the device only the newest of a kind is kept.
BeginTurn ==
  /\ alive /\ pc = "idle" /\ lag' = 0
  /\ \E taken \in Taken({r \in Requests : files[r] = "ready"}) :
     \E removed \in SUBSET taken :
       /\ removed # taken => faults < budget.faults
       /\ faults' = IF removed # taken THEN faults + 1 ELSE faults
       /\ files' = [r \in Requests |-> IF r \in removed THEN "gone" ELSE files[r]]
       /\ LET todone == CarriedOut(taken, removed)
              status == Newest(todone, "status", 0)
          IN  /\ waiting' = IF status = 0 THEN waiting
                            ELSE [id |-> status, left |-> request[status].ttl,
                                  bounded |-> request[status].ttl # Forever]
              /\ mode' = Newest(todone, "input", mode)
              /\ \E order \in InOrder(todone) : done' = done \o order
              /\ due' = [r \in Requests |-> IF r = status THEN request[r].ttl ELSE due[r]]
       /\ stuck' = stuck \cup (taken \ removed)
  /\ pc' = IF mode' # 0 THEN "input" ELSE IF waiting' # None THEN "status" ELSE "plan"
  /\ UNCHANGED <<alive, ran, plan, life, sent, imageAge, todo, queue, deviceVars, request,
                 budget, calm, dead, unsure, before>>

\* flush_pending: the input mode, kept until it is sent.
FlushInput ==
  /\ pc = "input" /\ pc' = IF waiting # None THEN "status" ELSE "plan"
  /\ LET m == [kind |-> "input", id |-> mode]
     IN  \/ Delivered(m) /\ sent' = Forget /\ mode' = 0 /\ UNCHANGED unsure
         \/ Fails(m) /\ UNCHANGED <<sent, mode>>
  /\ UNCHANGED <<alive, lag, ran, plan, life, imageAge, todo, queue, waiting, spoolVars,
                 budget, dead, spoolPast>>

\* Mistake: a late status is sent with the ttl it came with.
StatusTtlAsAsked == request[waiting.id].ttl

\* What remains of the ttl, rounded up.
StatusTtl == IF waiting.bounded THEN AtLeast(1, UpTo(waiting.left + lag)) * Second ELSE Forever

\* flush_pending: a status whose deadline has passed is dropped.
FlushStatus ==
  /\ pc = "status" /\ pc' = "plan"
  /\ IF waiting.bounded /\ waiting.left + lag <= 0
     THEN waiting' = None /\ UNCHANGED <<deviceVars, faults, calm, unsure, sent>>
     ELSE LET m == [kind |-> "status", id |-> waiting.id, ttl |-> StatusTtl]
          IN  \/ Delivered(m) /\ sent' = Forget /\ waiting' = None /\ UNCHANGED unsure
              \/ Fails(m) /\ UNCHANGED <<sent, waiting>>
  /\ UNCHANGED <<alive, lag, ran, plan, life, imageAge, todo, queue, mode, spoolVars,
                 budget, dead, spoolPast>>

-----------------------------------------------------------------------------
(* The plan, and sync_slots.                                               *)

\* scheduler.plan at `now`: what has expired is gone, and what is left may be anything
\* that is live.
Live(c) == life[c] = None \/ ~life[c].bounded \/ life[c].left + lag > 0

Plans ==
  {p \in [Slots -> budget.contents \cup {None}] :
     /\ \A i \in Slots : p[i] \in Images => i = Overlay
     /\ \A i, j \in Slots : p[i] = p[j] /\ i # j => p[i] = None
     /\ \A i \in Slots : p[i] # None => Live(p[i])}

MakePlan ==
  /\ pc = "plan" /\ pc' = "slots" /\ todo' = [i \in Slots |-> i]
  /\ LET kept == [i \in Slots |-> IF plan[i] # None /\ Live(plan[i]) THEN plan[i] ELSE None]
     IN  \/ plan' = kept /\ UNCHANGED life
         \/ /\ plan' \in Plans \ {kept}
            /\ \E l \in budget.lives :
                 life' = [c \in Contents |->
                            IF life[c] # None \/ \A i \in Slots : plan'[i] # c THEN life[c]
                            ELSE IF l = Forever THEN [left |-> 0, bounded |-> FALSE]
                            ELSE [left |-> l - lag, bounded |-> TRUE]]
  /\ calm' = IF plan' = plan THEN calm ELSE 0
  /\ UNCHANGED <<alive, lag, ran, sent, imageAge, queue, waiting, mode, deviceVars, spoolVars,
                 faults, budget, dead, unsure, spoolPast>>

Remaining(c) == life[c].left + lag

\* Mistake: content without a deadline is left on the device for ever, as long as asked.
DeviceTtlAsAsked(c) ==
  IF life[c].bounded THEN AtLeast(1, UpTo(Remaining(c))) * Second ELSE 2 * CalmMax * Second

\* Mistake: the device drops the slot just when it is due to be sent again.
DeviceTtlNoMargin(c) ==
  LET most == Refresh \div Second
  IN  AtLeast(1, IF life[c].bounded THEN AtMost(most, UpTo(Remaining(c))) ELSE most) * Second

\* device_ttl: until the content expires, but not much longer than to the next time the
\* slot is sent; in whole seconds, at least one.
DeviceTtl(c) ==
  LET most == (Refresh + Margin) \div Second
  IN  AtLeast(1, IF life[c].bounded THEN AtMost(most, UpTo(Remaining(c))) ELSE most) * Second

\* slot_messages
Messages(i, c) ==
  IF c \in Images
  THEN <<[kind |-> "begin", src |-> c, ttl |-> DeviceTtl(c)],
         [kind |-> "rows", src |-> c, row |-> 1], [kind |-> "rows", src |-> c, row |-> 2],
         [kind |-> "end", src |-> c]>>
  ELSE <<[kind |-> "show", slot |-> i, src |-> c, ttl |-> DeviceTtl(c)]>>

\* It is on the device, and not due to be sent again.
Unchanged(i) == sent[i] # None /\ sent[i].src = plan[i] /\ sent[i].age - lag < Refresh

TooSoon(i) == plan[i] \in Images /\ imageAge - lag < ImageGap

\* What the device drops within a second by itself is not cleared.
NeedsClear(i) == sent[i].left + lag > Second

NextSlot ==
  /\ todo' = Tail(todo) /\ queue' = <<>>
  /\ pc' = IF todo' = <<>> THEN "idle" ELSE "slots"
  /\ lag' = IF todo' = <<>> THEN 0 ELSE lag
  /\ ran' = (ran \/ todo' = <<>>)

\* sync_slots looks at a slot: there is nothing to send ...
KeepSlot ==
  /\ pc = "slots" /\ queue = <<>>
  /\ LET i == Head(todo)
     IN  \/ /\ plan[i] # None /\ (Unchanged(i) \/ TooSoon(i))
            /\ UNCHANGED sent
         \/ /\ plan[i] = None /\ (sent[i] # None => ~NeedsClear(i))
            /\ sent' = [sent EXCEPT ![i] = None]
  /\ NextSlot
  /\ UNCHANGED <<alive, plan, life, imageAge, waiting, mode, deviceVars, spoolVars, faults,
                 budget, history>>

\* ... or there is.
SyncSlot ==
  /\ pc = "slots" /\ queue = <<>>
  /\ LET i == Head(todo)
     IN  \/ /\ plan[i] # None /\ ~Unchanged(i) /\ ~TooSoon(i)
            /\ queue' = Messages(i, plan[i])
         \/ /\ plan[i] = None /\ sent[i] # None /\ NeedsClear(i)
            /\ queue' = <<[kind |-> "clear", slot |-> i]>>
  /\ UNCHANGED <<alive, pc, lag, ran, plan, life, sent, imageAge, todo, waiting, mode,
                 deviceVars, spoolVars, faults, budget, history>>

\* The next message of the slot; when the last one is delivered it is recorded, as of the
\* time at which the turn began.
SendMessage ==
  /\ pc = "slots" /\ queue # <<>>
  /\ LET i == Head(todo)
         m == Head(queue)
         last == Len(queue) = 1
         ttl == DeviceTtl(plan[i])
     IN  \/ /\ Delivered(m)
            /\ unsure' = IF last THEN unsure \ {i} ELSE unsure
            /\ sent' = IF ~last THEN Forget
                       ELSE [Forget EXCEPT ![i] = IF plan[i] = None THEN None
                                                  ELSE [src |-> plan[i], age |-> lag,
                                                        left |-> ttl - lag]]
            /\ imageAge' = IF last /\ plan[i] \in Images THEN lag ELSE imageAge
            /\ IF last THEN NextSlot ELSE queue' = Tail(queue) /\ UNCHANGED <<todo, pc, lag, ran>>
         \/ /\ Fails(m) /\ NextSlot
            /\ UNCHANGED <<sent, imageAge>>
  /\ UNCHANGED <<alive, plan, life, waiting, mode, spoolVars, budget, dead, spoolPast>>

-----------------------------------------------------------------------------
(* Time, and what may go wrong.                                            *)

Older(e) == [e EXCEPT !.left = AtLeast(@ - 1, -MaxLag)]

\* The device drops what has reached its deadline (Controller::tick).
Expired(e) ==
  IF e = None \/ e.left = Forever THEN e
  ELSE IF e.left = 1 THEN None ELSE Older(e)

\* The turn is at a call, which takes time.
Calling == pc \in {"input", "status"} \/ queue # <<>>

\* A part of a second passes: in the middle of a turn, or after the loop took one.
Tick ==
  /\ late = None
  /\ \/ ~alive
     \/ pc = "idle" /\ ran
     \/ Calling /\ lag < MaxLag
  /\ lag' = IF alive /\ pc # "idle" THEN lag + 1 ELSE 0
  /\ ran' = (ran /\ pc # "idle")
  /\ life' = [c \in Contents |-> IF life[c] = None \/ ~life[c].bounded THEN life[c] ELSE Older(life[c])]
  /\ sent' = [i \in Slots |->
                IF sent[i] = None THEN None
                ELSE [Older(sent[i]) EXCEPT !.age = AtMost(@ + 1, Refresh + MaxLag)]]
  /\ imageAge' = AtMost(imageAge + 1, ImageGap + MaxLag)
  /\ waiting' = IF waiting = None THEN None ELSE Older(waiting)
  /\ screen' = [i \in Slots |-> Expired(screen[i])]
  /\ presence' = Expired(presence)
  /\ calm' = AtMost(calm + 1, CalmMax)
  /\ dead' = IF alive THEN 0 ELSE AtMost(dead + 1, CalmMax)
  /\ due' = [r \in Requests |-> IF due[r] <= -Second - MaxLag THEN due[r] ELSE due[r] - 1]
  /\ UNCHANGED <<alive, pc, plan, todo, queue, mode, pixels, incoming, input, reset, late,
                 spoolVars, faults, budget, unsure, done, before, stuck>>

\* A request whose call has failed is carried out after all, or not.  The device reads what
\* has come within a tick.
LateRequest ==
  /\ late # None /\ late' = None
  /\ Become(Device) \/ Become(Handled(Device, late))
  /\ calm' = 0
  /\ UNCHANGED <<daemonVars, reset, spoolVars, faults, budget, dead, unsure, spoolPast>>

\* The device restarts.  The connection shows it, or does not (DeviceLink!RestartsNoticed).
Restart ==
  /\ faults < budget.faults /\ faults' = faults + 1
  /\ Become(Blank) /\ late' = None
  /\ reset' \in {TRUE, reset}
  /\ unsure' = IF reset' THEN unsure ELSE Slots
  /\ calm' = 0
  /\ UNCHANGED <<daemonVars, spoolVars, budget, dead, spoolPast>>

\* The daemon dies, with all it knows; the next one gives its contents new sources.
DaemonDies ==
  /\ alive /\ faults < budget.faults /\ faults' = faults + 1
  /\ alive' = FALSE /\ pc' = "idle" /\ lag' = 0 /\ ran' = FALSE
  /\ plan' = [i \in Slots |-> None] /\ sent' = plan'
  /\ life' = [c \in Contents |->
                IF life[c] = None THEN None ELSE [left |-> -MaxLag, bounded |-> TRUE]]
  /\ imageAge' = ImageGap + MaxLag /\ todo' = <<>> /\ queue' = <<>>
  /\ waiting' = None /\ mode' = 0
  /\ calm' = 0 /\ dead' = 0
  /\ UNCHANGED <<deviceVars, spoolVars, budget, unsure, spoolPast>>

\* A daemon starts, and with it a connection.
DaemonStarts ==
  /\ ~alive /\ alive' = TRUE
  /\ reset' = TRUE /\ calm' = 0 /\ dead' = 0
  /\ UNCHANGED <<pc, lag, ran, plan, life, sent, imageAge, todo, queue, waiting, mode,
                 screen, pixels, incoming, presence, input, late, spoolVars, faults, budget,
                 unsure, spoolPast>>

Init ==
  /\ budget \in Budgets
  /\ alive = TRUE /\ pc = "idle" /\ lag = 0 /\ ran = FALSE
  /\ plan = [i \in Slots |-> None] /\ sent = [i \in Slots |-> None]
  /\ life = [c \in Contents |-> None]
  /\ imageAge = ImageGap + MaxLag /\ todo = <<>> /\ queue = <<>>
  /\ waiting = None /\ mode = 0
  /\ files = [r \in Requests |-> "none"] /\ request = [r \in Requests |-> None]
  /\ screen = Blank.screen /\ pixels = Blank.pixels /\ incoming = None
  /\ presence = None /\ input = 0
  /\ reset = TRUE /\ late = None
  /\ faults = 0
  /\ calm = 0 /\ dead = 0 /\ unsure = {} /\ done = <<>>
  /\ before = [r \in Requests |-> {}] /\ stuck = {} /\ due = [r \in Requests |-> 0]

Turn == BeginTurn \/ FlushInput \/ FlushStatus \/ MakePlan \/ KeepSlot \/ SyncSlot \/ SendMessage

Next ==
  \/ Turn \/ Tick
  \/ WriteTemporary \/ Rename
  \/ LateRequest \/ Restart \/ DaemonDies \/ DaemonStarts

Spec == Init /\ [][Next]_vars

-----------------------------------------------------------------------------
(* Properties.                                                             *)

\* The longest that a disturbance is felt in a slot that the plan fills: until the slot is
\* due to be sent again, is looked at after the calls of one turn, and sent after those of
\* the next.
SettleTime == Refresh + 2 * MaxLag

\* ... and in one it leaves empty: until the device drops what it shows by itself.
EmptyTime == Refresh + Margin - 1

Over(c) == life[c].bounded /\ life[c].left <= 0

\* Once the plan has not changed and nothing has failed for so long, the device shows just
\* what is planned, and goes on to: whatever calls failed or were carried out late, however
\* the device and the daemon restarted (noticed or not), whatever image broke off half way.
\* So `sent` being wrong costs no more than one interval, and no gap comes between the
\* deadline on the device and the next time the slot is sent (mod.rs:26-31, 419-481).
Settled ==
  \A i \in Slots : alive =>
    /\ plan[i] # None /\ calm > SettleTime /\ ~Over(plan[i]) => Seen(i) = {plan[i]}
    /\ plan[i] = None /\ calm > EmptyTime  => screen[i] = None

\* What the daemon takes to be on the device is there, until its deadline, as a whole image
\* if it is one: a call whose effect is unknown comes with a Reset, except for those in
\* `unsure` (a rejected request, and a restart that goes unnoticed).
BeliefTrue ==
  \A i \in Slots \ unsure :
    /\ sent[i] # None /\ sent[i].left > 0
    /\ ~reset /\ late = None
    /\ queue # <<>> => Head(todo) # i
    => /\ Seen(i) = {sent[i].src}
       /\ screen[i].left \in sent[i].left .. sent[i].left + MaxLag

\* Without a daemon nothing stays on the screen for longer than the interval at which it is
\* sent again and a margin (DEVICE_TTL_MARGIN_S, mod.rs:26-31).
DeadDaemonLeavesNothing ==
  ~alive /\ dead > Refresh + Margin => \A i \in Slots : screen[i] = None

\* A request of the spool is carried out at most once, though the daemon may die and a file
\* resist its removal, and in the order in which they were left, unless its file did
\* (spool.rs:250-280).
RequestsInOrder ==
  \A i, j \in 1 .. Len(done) : i < j =>
    /\ done[i] # done[j]
    /\ done[j] \in before[done[i]] => done[j] \in stuck

\* However late a status is sent, the device shows it no longer than asked for: up to a
\* second more, for rounding, and what the call takes (mod.rs:215-238).
StatusNotLate ==
  presence # None /\ presence.left # Forever => presence.left < due[presence.id] + Second + MaxLag
=============================================================================
