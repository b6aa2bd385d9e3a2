------------------------------ MODULE DeviceLink ------------------------------
(***************************************************************************)
(* The daemon's connection to the device: SerialDevice of                  *)
(* crates/host/src/daemon/device.rs and, at the other end of the USB       *)
(* cable, the receive and reply part of the loop of firmware/src/main.rs.  *)
(*                                                                         *)
(* `send` blocks: it connects if it must (Ping, then the pitch trim),      *)
(* sends the request, waits for the first reply and reads off its sequence *)
(* number whether the firmware has restarted.  Each exchange is a phase of *)
(* the host, so that the firmware, the cable and the user act in between.  *)
(*                                                                         *)
(* A request is known by the number of its call.  The code has no such     *)
(* number: `of` and `epoch` in a reply are history, never read by the host.*)
(***************************************************************************)
EXTENDS Integers, Sequences

CONSTANTS
  HasTrim,       \* is there a pitch trim to apply (load_pitch_trim)?
  Reconnect,     \* RECONNECT_INTERVAL, in ticks
  SeqMod,        \* 2^32: the sequence number of an Ack wraps around
  SeqWindow,     \* 16: how near to the wrap a small number is no restart
  MaxEvents,     \* MAX_PENDING_EVENTS
  Budgets,       \* bounds of the model: how many calls, connections, taps and
                 \* faults (lost bytes, restarts and rejections) a behaviour has
  None

ASSUME LinkAssumption ==
  /\ HasTrim \in BOOLEAN
  /\ Reconnect \in Nat
  /\ SeqMod \in Nat \ {0, 1}
  /\ SeqWindow \in 1 .. SeqMod - 1
  /\ MaxEvents \in Nat \ {0}
  /\ Budgets \subseteq [calls : Nat, connects : Nat, taps : Nat, faults : Nat]
  /\ None \notin Nat

Seqs == 0 .. SeqMod - 1

\* Frames to the firmware.  "partial" lacks its delimiter and joins the next
\* frame, "garbage" is the rest of a frame whose beginning is lost.
Message == [kind : {"ping", "trim", "request", "partial", "garbage"}, id : Nat]

\* Frames to the host.
Reply == [kind : {"pong", "event"}, id : Nat]
           \cup [kind : {"rejected"}, of : Message]
           \cup [kind : {"ack"}, seq : Seqs, of : Message, epoch : Nat]
Pong(n)      == [kind |-> "pong", id |-> n]
TapEvent(n)  == [kind |-> "event", id |-> n]
Rejected(m)  == [kind |-> "rejected", of |-> m]
Ack(s, m, e) == [kind |-> "ack", seq |-> s, of |-> m, epoch |-> e]

ASSUME NoneAssumption == None \notin Reply

Phase   == {"idle", "ping", "trim", "request", "retrim"}
Outcome == {"Delivered", "Reset", "Err"}

VARIABLES
  port,      \* is the port open?
  phase,     \* the exchange that `send` is waiting in
  delivery,  \* its result if the request is acknowledged
  lastSeq,   \* last_seq
  nonce,     \* nonce
  wait,      \* ticks until retry_at
  events,    \* the Events that are kept for poll
  call,      \* number of calls of `send` so far
  outcome,   \* what the last call returned
  down,      \* frames on their way to the firmware
  up,        \* frames on their way to the host
  seq,       \* firmware: Controller's seq
  tx,        \* firmware: the reply being sent
  tapped,    \* firmware: pending_event
  budget,    \* bound: what this behaviour may still do
  taps,      \* taps so far
  epoch,     \* history: how often the firmware has started
  known,     \* history: the epoch of the first success since the last Reset, or 0
  seen,      \* history: the epoch of the Ack that lastSeq is from
  excuse,    \* history: how the daemon can have missed a restart
  done,      \* history: the last request the firmware has carried out
  rejected,  \* history: what the firmware has carried out and yet rejected since
             \* the host has last had the answer it waited for
  polled     \* history: the last event poll has returned

link     == <<port, wait, lastSeq, seen>>
progress == <<phase, outcome>>
attempt  == <<delivery, nonce, call>>
told     == <<known, excuse>>
firmware == <<seq, tx, tapped, epoch, done, rejected>>
vars == <<link, progress, attempt, told, firmware, events, down, up, budget, taps, polled>>

Init ==
  /\ port = FALSE /\ phase = "idle" /\ delivery = "Delivered"
  /\ lastSeq = None /\ nonce = 0 /\ wait = 0 /\ events = <<>>
  /\ call = 0 /\ outcome = "Err"
  \* The firmware may have served an earlier daemon, which died while it wrote.
  /\ down \in {<<>>, <<[kind |-> "partial", id |-> 0]>>} /\ up = <<>>
  /\ seq \in Seqs
  /\ tx \in {None, Ack(seq, [kind |-> "request", id |-> 0], 1)}
  /\ tapped = None
  /\ budget \in Budgets /\ taps = 0 /\ epoch = 1
  /\ known = 0 /\ seen = 0 /\ excuse = {}
  /\ done = 0 /\ rejected = 0 /\ polled = 0

-----------------------------------------------------------------------------
(* The host.                                                               *)

Fault == budget.faults > 0 /\ budget' = [budget EXCEPT !.faults = @ - 1]

\* A write may be cut short, or lost in full; only the wait for a reply tells.
Write(m) ==
  \/ down' = Append(down, m) /\ UNCHANGED budget
  \/ Fault /\ down' \in {down, Append(down, [kind |-> "partial", id |-> m.id])}

Exchange(p, id) ==
  /\ phase' = p
  /\ Write([kind |-> IF p = "retrim" THEN "trim" ELSE p, id |-> id])
  /\ UNCHANGED outcome

Return(o) == phase' = "idle" /\ outcome' = o

\* SerialDevice::send when the port is open.
SendOpen ==
  /\ phase = "idle" /\ port /\ call < budget.calls
  /\ call' = call + 1
  /\ delivery' = "Delivered"
  /\ Exchange("request", call + 1)
  /\ UNCHANGED <<link, nonce, told, firmware, events, up, taps, polled>>

\* The same when it is closed.  Opening drops what the system has buffered, though
\* not what the device has yet to deliver.
SendClosed ==
  /\ phase = "idle" /\ ~port /\ wait = 0
  /\ call < budget.calls /\ nonce < budget.connects
  /\ call' = call + 1
  /\ delivery' = "Reset"
  /\ wait' = Reconnect
  /\ port' = TRUE
  /\ nonce' = nonce + 1
  /\ \E n \in 0 .. Len(up) : up' = SubSeq(up, n + 1, Len(up))
  /\ Exchange("ping", nonce + 1)
  /\ UNCHANGED <<lastSeq, seen, told, firmware, events, taps, polled>>

\* open_port fails; before retry_at it is not even tried.
SendFails ==
  /\ phase = "idle" /\ ~port /\ call < budget.calls
  /\ call' = call + 1
  /\ wait' = IF wait = 0 THEN Reconnect ELSE wait
  /\ Return("Err")
  /\ UNCHANGED <<port, lastSeq, seen, delivery, nonce, told, firmware, events, down, up,
                 budget, taps, polled>>

\* Mistakes: the wrap is taken for a restart; an equal number is not.
RestartedOnWrap(previous, s) == previous # None /\ s <= previous
RestartedIfLess(previous, s) ==
  /\ previous # None
  /\ s < previous
  /\ ~(previous > SeqMod - 1 - SeqWindow /\ s < SeqWindow)

Restarted(previous, s) ==
  /\ previous # None
  /\ s <= previous
  /\ ~(previous > SeqMod - 1 - SeqWindow /\ s < SeqWindow)

\* Mistake: any Pong will do.
PongOfAnyNonce(r) == r.kind = "pong"

\* validate_pong: only the answer to this very Ping.
ValidPong(r) == r.kind = "pong" /\ r.id = nonce

\* acked is the only way to success.  An Ack sets last_seq.
Acked(r) == r.kind = "ack" /\ lastSeq' = r.seq /\ seen' = r.epoch

\* connect closes the port if the handshake fails; retry_at stays as it has set it.
GiveUp == port' = FALSE /\ Return("Err") /\ UNCHANGED <<wait, lastSeq, seen, down, budget>>

OnPing(r) ==
  /\ phase = "ping"
  /\ \/ /\ ValidPong(r)
        /\ lastSeq' = None /\ UNCHANGED <<port, seen>>
        /\ IF HasTrim THEN Exchange("trim", nonce) /\ UNCHANGED wait
           ELSE Exchange("request", call) /\ wait' = 0
     \/ ~ValidPong(r) /\ GiveUp
  /\ UNCHANGED told

OnTrim(r) ==
  /\ phase = "trim"
  /\ \/ Acked(r) /\ Exchange("request", call) /\ wait' = 0 /\ UNCHANGED port
     \/ r.kind # "ack" /\ GiveUp
  /\ UNCHANGED told

\* History: numbers that do not tell a restart from the wrap.
NearWrap(previous, s) ==
  /\ previous # None
  /\ previous = 0 \/ (previous > SeqMod - 1 - SeqWindow /\ s < SeqWindow)

\* The daemon forgets what it believes the device shows (Delivery::Reset).
TellReset(r) == known' = r.epoch /\ excuse' = {}

OnRequest(r) ==
  /\ phase = "request"
  /\ \/ /\ Acked(r) /\ Restarted(lastSeq, r.seq)
        /\ TellReset(r)
        /\ IF HasTrim THEN Exchange("retrim", nonce)
           ELSE Return("Reset") /\ UNCHANGED <<down, budget>>
     \/ /\ Acked(r) /\ ~Restarted(lastSeq, r.seq)
        /\ IF delivery = "Reset" THEN TellReset(r)
           ELSE /\ excuse' = IF r.epoch # seen /\ NearWrap(lastSeq, r.seq)
                             THEN excuse \cup {"wrap"} ELSE excuse
                /\ known' = IF known = 0 THEN r.epoch ELSE known
        /\ Return(delivery) /\ UNCHANGED <<down, budget>>
     \/ /\ r.kind # "ack"    \* the call fails and the port stays open
        /\ excuse' = excuse \cup {IF delivery = "Reset" THEN "reconnected" ELSE "rejected"}
        /\ Return("Err") /\ UNCHANGED <<lastSeq, seen, known, down, budget>>
  /\ UNCHANGED <<port, wait>>

\* The result is Reset, whether or not the trim could be applied again.
OnRetrim(r) ==
  /\ phase = "retrim"
  /\ \/ /\ Acked(r)
        /\ excuse' = IF r.epoch # known THEN excuse \cup {"retrim"} ELSE excuse
        /\ UNCHANGED <<port, wait>>
     \/ /\ r.kind # "ack"
        /\ port' = FALSE /\ wait' = Reconnect
        /\ UNCHANGED <<lastSeq, seen, excuse>>
  /\ Return("Reset")
  /\ UNCHANGED <<known, down, budget>>

\* queue_event: the newest MaxEvents are kept.
Keep(q) == IF Len(q) > MaxEvents THEN SubSeq(q, Len(q) - MaxEvents + 1, Len(q)) ELSE q

\* Is it the answer the host waits for?
Awaited(r) == IF phase = "ping" THEN ValidPong(r) ELSE r.kind = "ack"

\* exchange reads the next frame: an Event is kept, any other reply is the answer.
Read ==
  /\ phase # "idle" /\ up # <<>>
  /\ up' = Tail(up)
  /\ rejected' = IF Awaited(Head(up)) THEN 0 ELSE rejected
  /\ \/ /\ Head(up).kind = "event"
        /\ events' = Keep(Append(events, Head(up).id))
        /\ UNCHANGED <<link, progress, told, down, budget>>
     \/ /\ Head(up).kind # "event"
        /\ \/ OnPing(Head(up))
           \/ OnTrim(Head(up))
           \/ OnRequest(Head(up))
           \/ OnRetrim(Head(up))
        /\ UNCHANGED events
  /\ UNCHANGED <<attempt, seq, tx, tapped, epoch, done, taps, polled>>

\* Mistake: a request that is not answered leaves the port open.
FailKeepsPort ==
  /\ phase # "idle"
  /\ Return(IF phase = "retrim" THEN "Reset" ELSE "Err")
  /\ UNCHANGED <<link, attempt, told, firmware, events, down, up, budget, taps, polled>>

\* exchange fails: no answer in REPLY_TIMEOUT, or an error of the port.
Fail ==
  /\ phase # "idle"
  /\ port' = FALSE
  /\ wait' = IF phase \in {"request", "retrim"} THEN Reconnect ELSE wait
  /\ Return(IF phase = "retrim" THEN "Reset" ELSE "Err")
  /\ UNCHANGED <<lastSeq, seen, attempt, told, firmware, events, down, up, budget, taps,
                 polled>>

\* poll reads some of what has arrived on an open port and returns the events, of
\* which `polled` keeps the last; a reply that nobody waits for is dropped.
Poll ==
  /\ phase = "idle"
  /\ \E n \in 0 .. IF port THEN Len(up) ELSE 0 :
       /\ n > 0 \/ events # <<>>
       /\ \/ \E i \in 1 .. n :
               /\ up[i].kind = "event" /\ polled' = up[i].id
               /\ \A j \in i + 1 .. n : up[j].kind # "event"
          \/ /\ \A i \in 1 .. n : up[i].kind # "event"
             /\ polled' = IF events = <<>> THEN polled ELSE events[Len(events)]
       /\ up' = SubSeq(up, n + 1, Len(up))
  /\ events' = <<>>
  /\ UNCHANGED <<link, progress, attempt, told, firmware, down, budget, taps>>

\* Time passes until retry_at.
Tick ==
  /\ wait > 0
  /\ wait' = wait - 1
  /\ UNCHANGED <<port, lastSeq, seen, progress, attempt, told, firmware, events, down, up,
                 budget, taps, polled>>

host == <<link, progress, attempt, told, events, polled>>

-----------------------------------------------------------------------------
(* The firmware.  It holds one reply at a time and reads on once it is sent.*)

\* self.seq.wrapping_add(1)
Following(s) == (s + 1) % SeqMod

\* Controller::handle, and the transfer of the picture after it: if that fails the
\* message has been carried out and is yet rejected.
Handle ==
  /\ tx = None /\ down # <<>>
  /\ LET m == Head(down)
     IN \/ /\ m.kind = "ping"
           /\ \/ tx' = Pong(m.id) /\ UNCHANGED budget
              \/ Fault /\ tx' = Rejected(m)
           /\ UNCHANGED <<seq, done, rejected>>
        \/ /\ m.kind \in {"trim", "request"}
           /\ seq' = Following(seq)
           /\ done' = IF m.kind = "request" THEN m.id ELSE done
           /\ \/ tx' = Ack(seq', m, epoch) /\ UNCHANGED <<budget, rejected>>
              \/ Fault /\ tx' = Rejected(m) /\ rejected' = rejected + 1
        \/ /\ m.kind = "request" /\ Fault
           /\ tx' = Rejected(m)
           /\ UNCHANGED <<seq, done, rejected>>
        \/ /\ m.kind = "garbage"
           /\ tx' = Rejected(m)
           /\ UNCHANGED <<seq, done, rejected, budget>>
  /\ down' = Tail(down)
  /\ UNCHANGED <<host, tapped, epoch, up, taps>>

\* Receiver: a frame without its end is decoded together with the next one.
Join ==
  /\ tx = None /\ Len(down) > 1 /\ Head(down).kind = "partial"
  /\ down' = IF down[2].kind = "partial" THEN Tail(down)
             ELSE <<[down[2] EXCEPT !.kind = "garbage"]>> \o SubSeq(down, 3, Len(down))
  /\ UNCHANGED <<host, firmware, up, budget, taps>>

\* The reply goes out, or is dropped if nobody has read it for two seconds.
Transmit ==
  /\ tx # None
  /\ tx' = None
  /\ \/ up' = Append(up, tx) /\ UNCHANGED budget
     \/ Fault /\ UNCHANGED up
  /\ UNCHANGED <<host, seq, tapped, epoch, done, rejected, down, taps>>

\* Mistake: the event is copied, not taken.
TransmitEventAgain ==
  /\ tx = None /\ tapped # None
  /\ tx' = TapEvent(tapped)
  /\ UNCHANGED <<host, seq, tapped, epoch, done, rejected, down, up, budget, taps>>

TransmitEvent ==
  /\ tx = None /\ tapped # None
  /\ tx' = TapEvent(tapped)
  /\ tapped' = None
  /\ UNCHANGED <<host, seq, epoch, done, rejected, down, up, budget, taps>>

\* A tap replaces one that has not been sent.
Tap ==
  /\ taps < budget.taps
  /\ taps' = taps + 1
  /\ tapped' = taps + 1
  /\ UNCHANGED <<host, seq, tx, epoch, done, rejected, down, up, budget>>

\* The firmware starts anew.  What it has not read may be lost, or cut.
Restart ==
  /\ Fault
  /\ epoch' = epoch + 1
  /\ seq' = 0 /\ tx' = None /\ tapped' = None
  /\ down' \in {down, <<>>}
       \cup (IF down = <<>> THEN {}
             ELSE {<<[Head(down) EXCEPT !.kind = "garbage"]>> \o Tail(down)})
  /\ UNCHANGED <<host, done, rejected, up, taps>>

\* The cable is pulled; both ends run on.
Unplug ==
  /\ down # <<>> \/ up # <<>>
  /\ Fault
  /\ down' = <<>> /\ up' = <<>>
  /\ UNCHANGED <<host, firmware, taps>>

Next ==
  \/ SendOpen \/ SendClosed \/ SendFails \/ Read \/ Fail \/ Poll \/ Tick
  \/ Handle \/ Join \/ Transmit \/ TransmitEvent \/ Tap \/ Restart \/ Unplug

Spec == Init /\ [][Next]_vars

-----------------------------------------------------------------------------
(* Properties.                                                             *)

\* A call of send succeeds only if the firmware has carried out that very request,
\* and requests take effect in the order of the calls: no reply or request of an
\* earlier attempt is taken for one of this attempt (the nonce of handshake and
\* the disconnect after every exchange that fails).
Calls == INSTANCE OrderedCalls
           WITH calls <- call, busy <- phase # "idle", done <- done,
                result <- outcome # "Err"
CallsInOrder == Calls!Spec

\* All that the daemon has delivered since it was last told to start over has
\* reached the same run of the firmware, so that it is still shown, but for these
\* cases: a request was rejected since, the firmware restarted again before the
\* trim was applied again, or it restarted within SeqWindow of the wrap (send and
\* restarted).
RestartsNoticed ==
  outcome = "Delivered" /\ phase = "idle" => seen = known \/ excuse # {}

\* The same where the first of these cases happens right after a reconnection: what
\* device.rs says of Delivery::Reset has no such exception.
ResetAfterReconnect ==
  outcome = "Delivered" /\ phase = "idle" /\ excuse \subseteq {"reconnected"}
    => seen = known

\* A restart is reported only if there was one, also where numbers wrap around: unless
\* as many requests as the window is wide were carried out and rejected in a row, each
\* of which brings the firmware one further ahead of the number the host has had.
\* How many faults there are else, and in how long a run, makes no difference.
RestartIsReal ==
  [][phase = "request" /\ delivery = "Delivered" /\ rejected < SeqWindow
       /\ (phase' = "retrim" \/ (phase' = "idle" /\ outcome' = "Reset"))
         => seen' > seen]_vars

\* What comes from the firmware, in order, with the reply that it is sending.
Coming == IF tx = None THEN up ELSE Append(up, tx)

IsReply(r) == r.kind # "event"

\* Frames of an exchange, by where they are.
UnderWay ==
  {<<"down", i>> : i \in DOMAIN down}
    \cup {<<"up", i>> : i \in {j \in DOMAIN Coming : IsReply(Coming[j])}}

\* Once the handshake has succeeded nothing old is under way: whatever is not an
\* Event belongs to the exchange in progress, so that the first reply is its reply
\* and poll never drops one (exchange and poll).
NothingStale ==
  port /\ phase # "ping" =>
    IF phase = "idle" THEN UnderWay = {} ELSE \A a, b \in UnderWay : a = b

\* Events reach the daemon in the order of the taps and at most once, however many
\* queues they pass and lose (pending_event, tx, the cable, queue_event): the one
\* that poll has returned, those it will, those on their way, the one to be sent.
EventsInOrder ==
  LET coming == {i \in DOMAIN Coming : Coming[i].kind = "event"}
  IN  /\ \A i, j \in DOMAIN events : i < j => events[i] < events[j]
      /\ \A i, j \in coming : i < j => Coming[i].id < Coming[j].id
      /\ \A i \in DOMAIN events : polled < events[i]
      /\ \A j \in coming : polled < Coming[j].id
      /\ \A i \in DOMAIN events, j \in coming : events[i] < Coming[j].id
      /\ tapped # None =>
           /\ polled < tapped
           /\ \A i \in DOMAIN events : events[i] < tapped
           /\ \A j \in coming : Coming[j].id < tapped
=============================================================================
