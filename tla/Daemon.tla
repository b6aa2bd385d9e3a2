------------------------------- MODULE Daemon -------------------------------
(***************************************************************************)
(* The daemon and its plugins: crates/host/src/daemon/mod.rs (the event    *)
(* loop) and plugin.rs (PluginRuntime), on top of the scheduler.           *)
(*                                                                         *)
(* The daemon is one thread.  Each life of a plugin has a thread that reads*)
(* its frames into the channel of events and one that writes to it from a  *)
(* bounded queue; both may outlive the process.  A turn of the loop is cut *)
(* into steps (pc), between which these threads act.                       *)
(*                                                                         *)
(* A plugin is granted what it asks for; a request it was not granted is   *)
(* "invalid", like one whose content is refused.  Of the messages to a     *)
(* plugin only their number in the queue is kept, and what a Visibility    *)
(* makes the plugin believe.  Face requests, which only the device sees,   *)
(* are left out.                                                           *)
(***************************************************************************)
EXTENDS Scheduling

CONSTANTS
  Backoff,       \* [1 .. MaxFailures -> Nat], in ticks: min(2^failures, 60 s)
  MaxFailures,   \* MAX_FAILURES
  StableRun,     \* STABLE_RUN, in ticks
  HelloTime,     \* HANDSHAKE_TIMEOUT, in ticks
  MaxRate,       \* MAX_MESSAGES_PER_SECOND; a tick is a second
  QueueLength,   \* OUTGOING_QUEUE
  MaxGeneration, \* [Plugins -> Nat], bound on the generations of a plugin
  MaxFrames,     \* [Plugins -> Nat], bound on the frames it sends
  MaxUnread,     \* bound on the events in the channel
  MaxTaps        \* bound on the taps and the notices of the spool

ASSUME DaemonAssumption ==
  /\ MaxFailures \in Nat
  /\ Backoff \in [1 .. MaxFailures -> Nat]
  /\ StableRun \in Nat \ {0}
  /\ HelloTime \in Nat \ {0}
  /\ MaxRate \in Nat
  /\ QueueLength \in Nat \ {0}
  /\ MaxGeneration \in [Plugins -> Nat]
  /\ MaxFrames \in [Plugins -> Nat]
  /\ MaxUnread \in Nat /\ MaxTaps \in Nat

\* What a plugin sends: Hello, a Log, a message that is refused, bytes that cannot be
\* decoded, a request; last, the end of its output.
Frame ==
  [kind : {"hello", "log", "invalid", "broken", "closed"}]
    \cup [kind : {"put"}, card : Cards, arg : CardArgs]
    \cup [kind : {"remove"}, card : Cards]
    \cup [kind : {"image"}, ttl : ImageTtls]
    \cup [kind : {"notify"}, arg : NoticeArgs]

VARIABLES
  plug,     \* the PluginRuntime of each plugin
  sched,    \* the Scheduler
  visible,  \* the Cards that are on show, of which their plugins are told
  events,   \* the channel: what the reader threads have read
  readers,  \* <<plugin, generation>> of the reader threads that still run
  pc,       \* where the loop is
  due,      \* the plugins that this turn has yet to look at
  changes,  \* the Visibility messages that this turn has yet to send
  frames, taps,  \* frames each plugin sent, and taps and notices, so far
  owner,    \* history: the generation whose frame put the Card, or the image
  told,     \* history: the Cards the present life of a plugin believes visible
  short     \* history: the lives in a row that ended before StableRun

history == <<owner, told, short>>
vars == <<plug, sched, visible, events, readers, pc, due, changes, frames, taps, history>>

\* One plugin: `left` is the time to retry_at or to the deadline of the handshake,
\* `ran` the time since `started`; `count` messages came in the present second, and
\* `queued` wait for the writer thread, which has ended unless `writing`.
Runtime ==
  [state : {"idle", "handshake", "running", "disabled"}, generation : Nat,
   failures : Nat, left : Nat, ran : 0 .. StableRun, count : Nat,
   queued : 0 .. QueueLength, writing : BOOLEAN]

Owned == CardKey \cup [plugin : Plugins, image : {TRUE}]
ImageOf(p) == [plugin |-> p, image |-> TRUE]

Init ==
  /\ plug = [p \in Plugins |->
               [state |-> "idle", generation |-> 0, failures |-> 0, left |-> 0, ran |-> 0,
                count |-> 0, queued |-> 0, writing |-> FALSE]]
  /\ sched = NewScheduler
  /\ visible = {} /\ events = <<>> /\ readers = {}
  /\ pc = "events" /\ due = {} /\ changes = {}
  /\ frames = [p \in Plugins |-> 0] /\ taps = 0
  /\ owner = [o \in Owned |-> 0]
  /\ told = [p \in Plugins |-> {}]
  /\ short = [p \in Plugins |-> 0]

Active(r) == r.state \in {"handshake", "running"}

-----------------------------------------------------------------------------
(* Operations of PluginRuntime.  r is the runtime of plugin p, s the state *)
(* of the scheduler, as the code before has left them.                     *)

\* Mistake: a life that ran for long does not start a new count.
FailedEver(r) ==
  LET n == r.failures + 1
  IN  [r EXCEPT !.failures = n, !.ran = 0,
                !.state = IF n > MaxFailures THEN "disabled" ELSE "idle",
                !.left  = IF n > MaxFailures THEN 0 ELSE Backoff[n]]

\* fail: too many in a row disable the plugin.
Failed(r) ==
  LET n == IF r.ran >= StableRun THEN 1 ELSE r.failures + 1
  IN  [r EXCEPT !.failures = n, !.ran = 0,
                !.state = IF n > MaxFailures THEN "disabled" ELSE "idle",
                !.left  = IF n > MaxFailures THEN 0 ELSE Backoff[n]]

ShortBy(p, r) == [short EXCEPT ![p] = IF r.ran >= StableRun THEN 0 ELSE @ + 1]

\* Mistake: the generation stays.
StoppedSame(r) == Failed([r EXCEPT !.queued = 0, !.writing = FALSE])

\* stop: the generation moves on, so that what the old life still sends is ignored;
\* its queue is dropped with the process.
Stopped(r) ==
  Failed([r EXCEPT !.generation = @ + 1, !.queued = 0, !.writing = FALSE])

\* Mistake: the Cards of the dead plugin are still taken to be on show.
StopForgetsVisible(p, r, s) ==
  /\ plug' = [plug EXCEPT ![p] = IF Active(r) THEN Stopped(r) ELSE r]
  /\ short' = IF Active(r) THEN ShortBy(p, r) ELSE short
  /\ sched' = RemovePlugin(s, p)
  /\ visible' = visible
  /\ told' = [told EXCEPT ![p] = {}]

\* Daemon::stop_plugin.
Stop(p, r, s) ==
  /\ plug' = [plug EXCEPT ![p] = IF Active(r) THEN Stopped(r) ELSE r]
  /\ short' = IF Active(r) THEN ShortBy(p, r) ELSE short
  /\ sched' = RemovePlugin(s, p)
  /\ visible' = {k \in visible : k.plugin # p}
  /\ told' = [told EXCEPT ![p] = {}]

\* Mistake: the loop waits until a full queue has room.
SendWaits(p, r, s, believed) ==
  /\ Active(r) => r.queued < QueueLength
  /\ plug' = [plug EXCEPT ![p] = IF Active(r) /\ r.writing
                                 THEN [r EXCEPT !.queued = @ + 1] ELSE r]
  /\ told' = IF Active(r) THEN [told EXCEPT ![p] = believed] ELSE told
  /\ sched' = s
  /\ UNCHANGED <<visible, short>>

\* Daemon::send_plugin of a message after which the life of p believes that the Cards
\* `believed` are visible.  A plugin whose queue is full is stopped; one that does not
\* run, or whose writer has ended, gets nothing.
Send(p, r, s, believed) ==
  IF Active(r) /\ r.queued = QueueLength
  THEN Stop(p, r, s)
  ELSE /\ plug' = [plug EXCEPT ![p] = IF Active(r) /\ r.writing
                                      THEN [r EXCEPT !.queued = @ + 1] ELSE r]
       /\ told' = IF Active(r) THEN [told EXCEPT ![p] = believed] ELSE told
       /\ sched' = s
       /\ UNCHANGED <<visible, short>>

\* Only the runtime and the scheduler change.
Become(p, r, s) ==
  /\ plug' = [plug EXCEPT ![p] = r]
  /\ sched' = s
  /\ UNCHANGED <<visible, told, short>>

-----------------------------------------------------------------------------
(* The threads of a plugin.                                                *)

\* The reader thread of a life passes on what the plugin sends; its end comes last.
ReadFrame ==
  /\ Len(events) < MaxUnread
  /\ \E l \in readers, f \in Frame :
       /\ frames[l[1]] < MaxFrames[l[1]]
       /\ frames' = [frames EXCEPT ![l[1]] = @ + 1]
       /\ events' = Append(events, [plugin |-> l[1], generation |-> l[2], frame |-> f])
       /\ readers' = IF f.kind = "closed" THEN readers \ {l} ELSE readers
  /\ UNCHANGED <<plug, sched, visible, pc, due, changes, taps, history>>

\* The writer thread writes the next message, or fails to and ends.
WriteMessage ==
  \E p \in Plugins, ok \in BOOLEAN :
    /\ plug[p].queued > 0
    /\ plug' = [plug EXCEPT ![p].queued = IF ok THEN @ - 1 ELSE 0, ![p].writing = ok]
    /\ UNCHANGED <<sched, visible, events, readers, pc, due, changes, frames, taps, history>>

-----------------------------------------------------------------------------
(* Daemon::handle.                                                         *)

\* Mistake: what an earlier life has sent is not told apart.
IsCurrentAlways(e) == plug[e.plugin].generation >= e.generation

IsCurrent(e) == plug[e.plugin].generation = e.generation

\* PluginRuntime::handshake: only a Hello makes the plugin run, and is answered by Init.
Handshake(p, r, f) ==
  IF f.kind = "hello"
  THEN Send(p, [r EXCEPT !.state = "running", !.left = 0], sched, told[p])
  ELSE Stop(p, r, sched)

\* Daemon::apply and reject: a request of a running plugin.
Apply(p, r, f) ==
  LET key == [plugin |-> p, card |-> f.card]
  IN  CASE f.kind = "put" ->
             IF CardLimit[p] = 0 THEN Send(p, r, sched, told[p])
             ELSE IF PutRefused(sched, key, f.arg)
             THEN Send(p, r, Put(sched, key, f.arg), told[p])
             ELSE Become(p, r, Put(sched, key, f.arg))
        [] f.kind = "remove"  -> Become(p, r, Remove(sched, key))
        [] f.kind = "image"   -> Become(p, r, ShowImage(sched, p, f.ttl))
        [] f.kind = "notify"  -> Become(p, r, Notify(sched, f.arg))
        [] f.kind = "invalid" -> Send(p, r, sched, told[p])
        [] f.kind = "log"     -> Become(p, r, sched)
        [] OTHER              -> Stop(p, r, sched)  \* a second Hello

\* Daemon::handle and PluginRuntime::receive.
Receive(e) ==
  LET p == e.plugin
      f == e.frame
      r == [plug[p] EXCEPT !.count = @ + 1]
  IN  IF f.kind \in {"closed", "broken"} THEN Stop(p, plug[p], sched)
      ELSE IF r.count > MaxRate THEN Stop(p, r, sched)
      ELSE IF r.state = "handshake" THEN Handshake(p, r, f)
      ELSE IF r.state = "running" THEN Apply(p, r, f)
      ELSE Become(p, r, sched)

OwnedNow(e) ==
  LET o == IF e.frame.kind = "put" THEN [plugin |-> e.plugin, card |-> e.frame.card]
           ELSE ImageOf(e.plugin)
  IN  IF e.frame.kind \in {"put", "image"} /\ sched'.counter > sched.counter
      THEN [owner EXCEPT ![o] = e.generation] ELSE owner

\* One event leaves the channel; an event of an earlier life is dropped.
HandleEvent ==
  /\ pc = "events" /\ events # <<>>
  /\ events' = Tail(events)
  /\ IF IsCurrent(Head(events))
     THEN Receive(Head(events)) /\ owner' = OwnedNow(Head(events))
     ELSE UNCHANGED <<plug, sched, visible, history>>
  /\ UNCHANGED <<readers, pc, due, changes, frames, taps>>

-----------------------------------------------------------------------------
(* Daemon::tick.                                                           *)

\* The loop goes on once the channel is empty.
BeginTick ==
  /\ pc = "events" /\ events = <<>>
  /\ pc' = "inputs" /\ due' = Plugins
  /\ UNCHANGED <<plug, sched, visible, events, readers, changes, frames, taps, history>>

\* on_device_event: a tap on a row with an action goes to the plugin of the Card, if
\* that is on show; any other tap on a banner turns the page.
TapCard ==
  /\ pc = "inputs" /\ taps < MaxTaps
  /\ taps' = taps + 1
  /\ \E k \in visible : Send(k.plugin, plug[k.plugin], sched, told[k.plugin])
  /\ UNCHANGED <<events, readers, pc, due, changes, frames, owner>>

TapBanner ==
  /\ pc = "inputs" /\ taps < MaxTaps
  /\ taps' = taps + 1
  /\ sched' = Advance(sched)
  /\ UNCHANGED <<plug, visible, events, readers, pc, due, changes, frames, history>>

\* drain_spool: a notice that a command has left for the daemon.
SpoolNotice ==
  /\ pc = "inputs" /\ taps < MaxTaps
  /\ taps' = taps + 1
  /\ \E arg \in NoticeArgs : sched' = Notify(sched, arg)
  /\ UNCHANGED <<plug, visible, events, readers, pc, due, changes, frames, history>>

\* The loop looks at the plugins in the order of the configuration.
Turn(p) ==
  /\ pc \in {"inputs", "start"}
  /\ p \in due /\ \A q \in due : p <= q
  /\ due' = due \ {p}
  /\ pc' = IF due' = {} THEN "plan" ELSE "start"
  /\ UNCHANGED <<events, changes, frames, taps, owner, visible>>

\* Mistake: a plugin that never says Hello is waited for.
TimedOutNever(r) == FALSE

TimedOut(r) == r.state = "handshake" /\ r.left = 0
StartDue(r) == r.state = "idle" /\ r.left = 0

\* start_if_due: a new life, with its threads.
Launched(r) ==
  [r EXCEPT !.state = "handshake", !.generation = @ + 1, !.left = HelloTime, !.ran = 0,
            !.count = 0, !.queued = 0, !.writing = TRUE]

Launch ==
  \E p \in Plugins :
    /\ Turn(p) /\ StartDue(plug[p]) /\ plug[p].generation < MaxGeneration[p]
    /\ plug' = [plug EXCEPT ![p] = Launched(@)]
    /\ readers' = readers \cup {<<p, plug'[p].generation>>}
    /\ UNCHANGED <<sched, told, short>>

\* It cannot be started, which is a failure.
LaunchFails ==
  \E p \in Plugins :
    /\ Turn(p) /\ StartDue(plug[p])
    /\ plug' = [plug EXCEPT ![p] = Failed([@ EXCEPT !.ran = 0])]
    /\ short' = [short EXCEPT ![p] = @ + 1]
    /\ UNCHANGED <<sched, told, readers>>

\* check_timeout: no Hello in time.
HelloTimeout ==
  \E p \in Plugins :
    /\ Turn(p) /\ TimedOut(plug[p])
    /\ plug' = [plug EXCEPT ![p] = Stopped(@)]
    /\ short' = ShortBy(p, plug[p])
    /\ sched' = RemovePlugin(sched, p)
    /\ told' = [told EXCEPT ![p] = {}]
    /\ UNCHANGED readers

\* Nothing is due, or the plugin has not connected yet (Ok(None) of spawn).
PassOver ==
  \E p \in Plugins :
    /\ Turn(p) /\ ~TimedOut(plug[p])
    /\ UNCHANGED <<plug, sched, told, short, readers>>

\* scheduler.plan, and the first half of sync_visibility.
PlanScreen ==
  /\ pc = "plan"
  /\ sched' = Prepare(sched)
  /\ visible' = VisibleCards(PlanOf(sched'))
  /\ changes' = {[key |-> k, visible |-> FALSE] : k \in visible \ visible'}
                  \cup {[key |-> k, visible |-> TRUE] : k \in visible' \ visible}
  /\ pc' = IF changes' = {} THEN "events" ELSE "notify"
  /\ UNCHANGED <<plug, events, readers, due, frames, taps, history>>

\* The second half: Cards that left the screen, then Cards that came to it.
SendVisibility ==
  /\ pc = "notify"
  /\ \E c \in changes :
       /\ c.visible => \A d \in changes : d.visible
       /\ changes' = changes \ {c}
       /\ LET p == c.key.plugin
          IN  Send(p, plug[p], sched,
                   IF c.visible THEN told[p] \cup {c.key} ELSE told[p] \ {c.key})
  /\ pc' = IF changes' = {} THEN "events" ELSE "notify"
  /\ UNCHANGED <<events, readers, due, frames, taps, owner>>

\* A second passes while the loop waits for events; the count is of the present one.
Tick ==
  /\ pc = "events"
  /\ plug' = [p \in Plugins |->
                LET r == plug[p]
                IN  [r EXCEPT !.left   = IF @ = 0 THEN 0 ELSE @ - 1,
                              !.ran    = IF Active(r) /\ @ < StableRun THEN @ + 1 ELSE @,
                              !.count = 0]]
  /\ sched' = Age(sched)
  /\ UNCHANGED <<visible, events, readers, pc, due, changes, frames, taps, history>>

Loop ==
  \/ HandleEvent \/ BeginTick \/ TapCard \/ TapBanner \/ SpoolNotice
  \/ Launch \/ LaunchFails \/ HelloTimeout \/ PassOver
  \/ PlanScreen \/ SendVisibility

Next == Loop \/ ReadFrame \/ WriteMessage \/ Tick

Spec == Init /\ [][Next]_vars

\* The loop does not stop, and neither does time, whatever the plugins do.
FairSpec == Spec /\ WF_vars(Loop) /\ SF_vars(Tick)

-----------------------------------------------------------------------------
(* Properties.                                                             *)

\* All that the scheduler holds for a plugin was put by its present life, which said
\* Hello and has not been stopped: nothing of a dead life, and nothing that a dead life
\* sent and the daemon reads late, can come to the screen or to that of a later life.
HeldByPresentLife ==
  LET Mine(o) == /\ plug[o.plugin].state = "running"
                 /\ owner[o] = plug[o.plugin].generation
  IN  /\ \A k \in Held(sched) : Mine(k)
      /\ sched.image # None => Mine(ImageOf(sched.image.plugin))

\* Once the process of a life is dead or its output has ended, no frame of it is current
\* any more: of two lives of a plugin, at most the one that is alive is listened to.
DeadLivesIgnored ==
  LET Heard(p, g) == plug[p].generation = g => Active(plug[p])
  IN  /\ \A l \in readers : Heard(l[1], l[2])
      /\ \A i \in 1 .. Len(events) : Heard(events[i].plugin, events[i].generation)

\* sync_visibility: when the loop waits for events, every running life has been told of
\* exactly those of its Cards that are on show, whatever was stopped or started on the
\* way; no Visibility repeats what the life was told before, and none comes before Init.
VisibilityTold ==
  /\ \A p \in {q \in Plugins : plug[q].state = "running"} :
       /\ pc = "events" => told[p] = {k \in visible : k.plugin = p}
       /\ \A c \in changes : c.key.plugin = p => (c.visible <=> c.key \notin told[p])
  /\ \A c \in changes : plug[c.key.plugin].state # "handshake"

\* fail: a plugin that keeps failing early is disabled, and one is disabled only after
\* it failed MaxFailures times in a row before it had run for StableRun.
DisabledWhenFailing ==
  \A p \in Plugins :
    /\ short[p] > MaxFailures => plug[p].state = "disabled"
    /\ plug[p].state = "disabled" => short[p] >= MaxFailures

\* STABLE_RUN (plugin.rs:31): the stop of a plugin that ran for StableRun does not count
\* as one of the failures in a row, of which it takes more than MaxFailures.
StableRunNotCounted ==
  \A p \in Plugins : plug[p].state = "disabled" => short[p] > MaxFailures

\* A plugin that does not read its input cannot hold up the daemon (OUTGOING_QUEUE,
\* plugin.rs:36-38): the loop always comes back to wait for events, though nothing is
\* assumed of the threads of the plugins.
LoopComesBack == []<>(pc = "events")

\* check_timeout: no plugin stays in the handshake, said it Hello or not.
HandshakeEnds ==
  \A p \in Plugins :
    plug[p].state = "handshake" ~> plug[p].state # "handshake"
=============================================================================
