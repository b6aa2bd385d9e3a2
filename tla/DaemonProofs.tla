---------------------------- MODULE DaemonProofs ----------------------------
(* Proofs about Daemon, for every number of plugins, lives, frames and     *)
(* limits: what is held is of the present life, dead lives are not heard,  *)
(* plugins are told what is visible, and failures in a row disable.        *)
EXTENDS Daemon, SchedulingProofs

Event  == [plugin : Plugins, generation : Nat, frame : Frame]
Change == [key : CardKey, visible : BOOLEAN]

TypeOK ==
  /\ plug \in [Plugins -> Runtime]
  /\ sched \in SchedState
  /\ visible \subseteq CardKey
  /\ events \in Seq(Event)
  /\ readers \subseteq Plugins \X Nat
  /\ pc \in {"events", "inputs", "start", "plan", "notify"}
  /\ due \subseteq Plugins /\ changes \subseteq Change
  /\ frames \in [Plugins -> Nat] /\ taps \in Nat
  /\ owner \in [Owned -> Nat]
  /\ told \in [Plugins -> SUBSET CardKey]
  /\ short \in [Plugins -> Nat]

\* No frame is of a life to come, and one of the present life says that it is alive.
Heard(p, g) ==
  /\ g <= plug[p].generation
  /\ g = plug[p].generation => Active(plug[p])
Lives ==
  /\ \A l \in readers : Heard(l[1], l[2])
  /\ \A i \in 1 .. Len(events) : Heard(events[i].plugin, events[i].generation)

\* A stable run counts as one failure, and the history counts none.
Failures ==
  \A p \in Plugins :
    /\ plug[p].failures \in {short[p], short[p] + 1}
    /\ plug[p].state = "disabled" <=> plug[p].failures > MaxFailures

\* What the life of p believes is visible, when the changes that are still to be sent
\* are taken into account; it has none to be told of before it runs.
BelievedBy(p) ==
  /\ \A k \in told[p] : k.plugin = p
  /\ plug[p].state # "running" => told[p] = {} /\ \A k \in visible : k.plugin # p
  /\ plug[p].state = "handshake" => \A c \in changes : c.key.plugin # p
  /\ plug[p].state = "running" => \A k \in CardKey : k.plugin = p =>
       /\ \A c \in changes : c.key = k =>
            /\ c.visible <=> k \in visible
            /\ c.visible <=> k \notin told[p]
       /\ (\A c \in changes : c.key # k) => (k \in told[p] <=> k \in visible)

Believed ==
  /\ pc # "notify" => changes = {}
  /\ \A c, d \in changes : c.key = d.key => c = d
  /\ \A p \in Plugins : BelievedBy(p)

-----------------------------------------------------------------------------
(* What a step does to the plugin that it is about.                        *)

\* The fields of a frame, by its kind.
LEMMA FrameFields ==
  ASSUME NEW f \in Frame
  PROVE  /\ f.kind \in {"hello", "log", "invalid", "broken", "closed", "put", "remove",
                        "image", "notify"}
         /\ f.kind \in {"put", "remove"} => f.card \in Cards
         /\ f.kind = "put" => f.arg \in CardArgs
         /\ f.kind = "image" => f.ttl \in ImageTtls
         /\ f.kind = "notify" => f.arg \in NoticeArgs
BY DEF Frame

\* r goes on with the life of plugin p, which may come to run by it.
SameLife(p, r) ==
  /\ r \in Runtime
  /\ r.generation = plug[p].generation /\ r.failures = plug[p].failures
  /\ r.ran = plug[p].ran
  /\ r.state = plug[p].state \/ (plug[p].state = "handshake" /\ r.state = "running")

\* The life of p goes on as r, which believes that b is visible.
Goes(p, r, s, b) ==
  /\ plug' = [plug EXCEPT ![p] = r]
  /\ told' = [told EXCEPT ![p] = b]
  /\ sched' = s
  /\ UNCHANGED <<visible, short>>

\* A plugin is stopped, or goes on with one more message in its queue.
LEMMA SendLemma ==
  ASSUME TypeOK, NEW p \in Plugins, NEW r, SameLife(p, r), NEW s,
         NEW b \in SUBSET CardKey, Send(p, r, s, b)
  PROVE  \/ Active(r) /\ Stop(p, r, s)
         \/ \E n : /\ SameLife(p, n) /\ n.state = r.state
                   /\ Goes(p, n, s, IF Active(r) THEN b ELSE told[p])
<1>1. CASE Active(r) /\ r.queued = QueueLength
  BY <1>1 DEF Send
<1>2. CASE ~(Active(r) /\ r.queued = QueueLength)
  <2> DEFINE n == IF Active(r) /\ r.writing THEN [r EXCEPT !.queued = @ + 1] ELSE r
  <2>1. /\ plug' = [plug EXCEPT ![p] = n]
        /\ told' = IF Active(r) THEN [told EXCEPT ![p] = b] ELSE told
        /\ sched' = s
        /\ UNCHANGED <<visible, short>>
    BY <1>2 DEF Send
  <2>2. SameLife(p, n) /\ n.state = r.state
    <3>1. r \in Runtime
      BY DEF SameLife
    <3>2. n \in Runtime
      <4>1. r.queued # QueueLength => r.queued + 1 \in 0 .. QueueLength
        BY <3>1, DaemonAssumption DEF Runtime
      <4>2. r.queued + 1 \in 0 .. QueueLength => [r EXCEPT !.queued = @ + 1] \in Runtime
        BY <3>1 DEF Runtime
      <4> QED
        BY <1>2, <3>1, <4>1, <4>2
    <3>3. /\ n.generation = r.generation /\ n.failures = r.failures /\ n.ran = r.ran
          /\ n.state = r.state
      BY <3>1 DEF Runtime
    <3> HIDE DEF n
    <3> QED
      BY <3>2, <3>3 DEF SameLife
  <2>3. told' = [told EXCEPT ![p] = IF Active(r) THEN b ELSE told[p]]
    BY <2>1 DEF TypeOK
  <2> HIDE DEF n
  <2> QED
    BY <2>1, <2>2, <2>3 DEF Goes
<1> QED
  BY <1>1, <1>2

LEMMA BecomeLemma ==
  ASSUME TypeOK, NEW p \in Plugins, NEW r, NEW s, Become(p, r, s)
  PROVE  Goes(p, r, s, told[p])
BY DEF TypeOK, Become, Goes

\* A failure counts, and disables once there are more than MaxFailures.
LEMMA FailedLemma ==
  ASSUME NEW r \in Runtime
  PROVE  /\ Failed(r) \in Runtime /\ Failed(r).generation = r.generation
         /\ Failed(r).failures = IF r.ran >= StableRun THEN 1 ELSE r.failures + 1
         /\ Failed(r).state = IF Failed(r).failures > MaxFailures THEN "disabled" ELSE "idle"
<1> DEFINE n == IF r.ran >= StableRun THEN 1 ELSE r.failures + 1
<1>1. n \in Nat /\ n >= 1
  BY DEF Runtime
<1> HIDE DEF n
<1>2. Failed(r) = [r EXCEPT !.failures = n, !.ran = 0,
                            !.state = IF n > MaxFailures THEN "disabled" ELSE "idle",
                            !.left  = IF n > MaxFailures THEN 0 ELSE Backoff[n]]
  BY DEF Failed, n
<1>3. ~(n > MaxFailures) => Backoff[n] \in Nat
  BY <1>1, DaemonAssumption
<1>4. 0 \in 0 .. StableRun
  BY DaemonAssumption
<1>5. Failed(r) \in Runtime /\ Failed(r).generation = r.generation
      /\ Failed(r).failures = n
      /\ Failed(r).state = IF n > MaxFailures THEN "disabled" ELSE "idle"
  <2>1. CASE n > MaxFailures
    <3>1. Failed(r) = [r EXCEPT !.failures = n, !.ran = 0, !.state = "disabled", !.left = 0]
      BY <1>2, <2>1
    <3>2. Failed(r) \in Runtime
      <4>1. [r EXCEPT !.failures = n, !.ran = 0] \in Runtime
        BY <1>1, <1>4 DEF Runtime
      <4>2. Failed(r) = [[r EXCEPT !.failures = n, !.ran = 0]
                           EXCEPT !.state = "disabled", !.left = 0]
        BY <3>1 DEF Runtime
      <4>3. [[r EXCEPT !.failures = n, !.ran = 0] EXCEPT !.left = 0] \in Runtime
        BY <4>1 DEF Runtime
      <4>4. [[[r EXCEPT !.failures = n, !.ran = 0] EXCEPT !.left = 0]
                EXCEPT !.state = "disabled"] \in Runtime
        BY <4>3 DEF Runtime
      <4> QED
        BY <4>1, <4>2, <4>4 DEF Runtime
    <3>3. Failed(r).generation = r.generation /\ Failed(r).failures = n
          /\ Failed(r).state = "disabled"
      BY <3>1 DEF Runtime
    <3> QED
      BY <2>1, <3>2, <3>3
  <2>2. CASE ~(n > MaxFailures)
    BY <1>1, <1>2, <1>3, <1>4, <2>2 DEF Runtime
  <2> QED
    BY <2>1, <2>2
<1> QED
  BY <1>5 DEF n

\* A stop begins the next generation.
LEMMA StoppedLemma ==
  ASSUME NEW r \in Runtime
  PROVE  /\ Stopped(r) \in Runtime /\ Stopped(r).generation = r.generation + 1
         /\ Stopped(r).failures = IF r.ran >= StableRun THEN 1 ELSE r.failures + 1
         /\ Stopped(r).state = IF Stopped(r).failures > MaxFailures THEN "disabled" ELSE "idle"
<1> DEFINE t == [r EXCEPT !.generation = @ + 1, !.queued = 0, !.writing = FALSE]
<1>1. t \in Runtime /\ t.generation = r.generation + 1 /\ t.ran = r.ran
      /\ t.failures = r.failures
  <2>1. 0 \in 0 .. QueueLength
    BY DaemonAssumption
  <2>2. r.generation + 1 \in Nat
    BY DEF Runtime
  <2>3. [r EXCEPT !.generation = r.generation + 1] \in Runtime
    BY <2>2 DEF Runtime
  <2>4. t = [[r EXCEPT !.generation = r.generation + 1] EXCEPT !.queued = 0, !.writing = FALSE]
    BY DEF Runtime
  <2> QED
    BY <2>1, <2>3 DEF Runtime
<1>2. Stopped(r) = Failed(t)
  BY DEF Stopped
<1> HIDE DEF t
<1> QED
  BY <1>1, <1>2, FailedLemma

\* A start begins the next generation too.
LEMMA LaunchedLemma ==
  ASSUME NEW r \in Runtime
  PROVE  /\ Launched(r) \in Runtime /\ Launched(r).state = "handshake"
         /\ Launched(r).generation = r.generation + 1
         /\ Launched(r).failures = r.failures
<1> DEFINE a == [r EXCEPT !.state = "handshake", !.generation = @ + 1]
           b == [a EXCEPT !.left = HelloTime, !.ran = 0]
           c == [b EXCEPT !.count = 0, !.queued = 0]
           d == [c EXCEPT !.writing = TRUE]
<1>0. HelloTime \in Nat /\ 0 \in 0 .. StableRun /\ 0 \in 0 .. QueueLength
  BY DaemonAssumption
<1>1. Launched(r) = d
  BY DEF Launched, Runtime
<1>2. a \in Runtime /\ a.state = "handshake" /\ a.generation = r.generation + 1
      /\ a.failures = r.failures
  <2>1. [r EXCEPT !.state = "handshake"] \in Runtime
    BY DEF Runtime
  <2>2. r.generation + 1 \in Nat
    BY DEF Runtime
  <2>3. a = [[r EXCEPT !.state = "handshake"] EXCEPT !.generation = r.generation + 1]
    BY DEF Runtime
  <2>4. a \in Runtime
    BY <2>1, <2>2, <2>3 DEF Runtime
  <2>5. a.state = "handshake" /\ a.generation = r.generation + 1 /\ a.failures = r.failures
    BY DEF Runtime
  <2> QED
    BY <2>4, <2>5
<1> HIDE DEF a
<1>3. b \in Runtime /\ b.state = a.state /\ b.generation = a.generation
      /\ b.failures = a.failures
  BY <1>0, <1>2 DEF Runtime
<1> HIDE DEF b
<1>4. c \in Runtime /\ c.state = b.state /\ c.generation = b.generation
      /\ c.failures = b.failures
  BY <1>0, <1>3 DEF Runtime
<1> HIDE DEF c
<1>5. d \in Runtime /\ d.state = c.state /\ d.generation = c.generation
      /\ d.failures = c.failures
  BY <1>4 DEF Runtime
<1> HIDE DEF d
<1> QED
  BY <1>1, <1>2, <1>3, <1>4, <1>5

-----------------------------------------------------------------------------
(* A frame of the present life.                                            *)

\* What a plugin that runs asks of the scheduler.
Asked(p, f, s) ==
  \/ s = sched
  \/ plug[p].state = "running" /\
       \/ f.kind = "put" /\ s = Put(sched, [plugin |-> p, card |-> f.card], f.arg)
       \/ f.kind = "remove" /\ s = Remove(sched, [plugin |-> p, card |-> f.card])
       \/ f.kind = "image" /\ s = ShowImage(sched, p, f.ttl)
       \/ f.kind = "notify" /\ s = Notify(sched, f.arg)

\* Every way through receive and handle ends in a stop, or the life goes on.
LEMMA ReceiveLemma ==
  ASSUME TypeOK, NEW e \in Event, Receive(e)
  PROVE  \/ \E r, s : SameLife(e.plugin, r) /\ Stop(e.plugin, r, s)
                        /\ (s = sched \/ (Asked(e.plugin, e.frame, s)
                                            /\ s.counter = sched.counter))
         \/ \E r, s : /\ SameLife(e.plugin, r) /\ Goes(e.plugin, r, s, told[e.plugin])
                      /\ Asked(e.plugin, e.frame, s)
<1> DEFINE p == e.plugin
           f == e.frame
           r == [plug[p] EXCEPT !.count = @ + 1]
           key == [plugin |-> p, card |-> f.card]
           Done == \/ \E n, s : SameLife(p, n) /\ Stop(p, n, s)
                                 /\ (s = sched \/ (Asked(p, f, s)
                                                     /\ s.counter = sched.counter))
                   \/ \E n, s : SameLife(p, n) /\ Goes(p, n, s, told[p]) /\ Asked(p, f, s)
<1> SUFFICES Done
  OBVIOUS
<1>1. p \in Plugins /\ f \in Frame /\ plug[p] \in Runtime /\ told[p] \in SUBSET CardKey
      /\ sched \in SchedState
  BY DEF Event, TypeOK
<1>2. SameLife(p, plug[p]) /\ SameLife(p, r) /\ r.state = plug[p].state
  <2>1. r \in Runtime /\ r.generation = plug[p].generation /\ r.ran = plug[p].ran
        /\ r.failures = plug[p].failures /\ r.state = plug[p].state
    BY <1>1 DEF Runtime
  <2> HIDE DEF r, p
  <2> QED
    BY <1>1, <2>1 DEF SameLife
<1>3. \/ Stop(p, plug[p], sched)
      \/ Stop(p, r, sched)
      \/ r.state = "handshake" /\ Handshake(p, r, f)
      \/ r.state = "running" /\ Apply(p, r, f)
      \/ Become(p, r, sched)
  BY DEF Receive
<1> HIDE DEF r, p, f
<1>4. ASSUME NEW n, SameLife(p, n), NEW s, Send(p, n, s, told[p]), Asked(p, f, s),
             s.counter = sched.counter
      PROVE  Done
  <2>1. (IF Active(n) THEN told[p] ELSE told[p]) = told[p]
    OBVIOUS
  <2> QED
    BY <1>1, <1>4, <2>1, SendLemma
<1>5. ASSUME NEW n, SameLife(p, n), NEW s, Become(p, n, s), Asked(p, f, s)
      PROVE  Done
  BY <1>1, <1>5, BecomeLemma
<1>6. ASSUME NEW n, SameLife(p, n), Stop(p, n, sched)
      PROVE  Done
  BY <1>6
<1>7. Asked(p, f, sched)
  BY DEF Asked
<1>8. CASE r.state = "handshake" /\ Handshake(p, r, f)
  <2> DEFINE n == [r EXCEPT !.state = "running", !.left = 0]
  <2>1. SameLife(p, n)
    <3>1. r \in Runtime
      BY <1>2 DEF SameLife
    <3>2. n \in Runtime /\ n.generation = r.generation /\ n.failures = r.failures
          /\ n.ran = r.ran /\ n.state = "running"
      BY <3>1 DEF Runtime
    <3> HIDE DEF n
    <3> QED
      BY <1>2, <1>8, <3>2 DEF SameLife
  <2>2. Send(p, n, sched, told[p]) \/ Stop(p, r, sched)
    BY <1>8 DEF Handshake
  <2> HIDE DEF n, Done
  <2> QED
    BY <1>2, <1>4, <1>6, <1>7, <2>1, <2>2
<1>9. CASE r.state = "running" /\ Apply(p, r, f)
  <2>1. f.kind \in {"hello", "log", "invalid", "broken", "closed", "put", "remove",
                    "image", "notify"}
    BY <1>1, FrameFields
  <2>2. plug[p].state = "running"
    BY <1>2, <1>9
  <2>3. CASE f.kind = "put"
    <3>1. key \in CardKey /\ f.arg \in CardArgs
      BY <1>1, <2>3, FrameFields DEF CardKey
    <3>2. Asked(p, f, Put(sched, key, f.arg))
      BY <2>2, <2>3 DEF Asked
    <3>3. PutRefused(sched, key, f.arg) => Put(sched, key, f.arg).counter = sched.counter
      BY <1>1, <3>1, PutHolds
    <3>4. \/ Send(p, r, sched, told[p])
          \/ PutRefused(sched, key, f.arg) /\ Send(p, r, Put(sched, key, f.arg), told[p])
          \/ Become(p, r, Put(sched, key, f.arg))
      BY <1>9, <2>3 DEF Apply
    <3> HIDE DEF Done, key
    <3> QED
      BY <1>2, <1>4, <1>5, <1>7, <3>2, <3>3, <3>4
  <2>4. CASE f.kind \in {"remove", "image", "notify"}
    <3>1. \E s : Become(p, r, s) /\ Asked(p, f, s)
      BY <1>9, <2>2, <2>4 DEF Apply, Asked
    <3> HIDE DEF Done
    <3> QED
      BY <1>2, <1>5, <3>1
  <2>5. CASE f.kind \in {"hello", "log", "invalid", "broken", "closed"}
    <3>1. Send(p, r, sched, told[p]) \/ Become(p, r, sched) \/ Stop(p, r, sched)
      BY <1>9, <2>5 DEF Apply
    <3> HIDE DEF Done
    <3> QED
      BY <1>2, <1>4, <1>5, <1>6, <1>7, <3>1
  <2> QED
    BY <2>1, <2>3, <2>4, <2>5
<1> HIDE DEF Done
<1> QED
  BY <1>2, <1>3, <1>5, <1>6, <1>7, <1>8, <1>9

-----------------------------------------------------------------------------
(* Types.                                                                  *)

\* The part of TypeOK about what a message or a stop changes.
LifeTypes ==
  /\ plug \in [Plugins -> Runtime]
  /\ sched \in SchedState
  /\ visible \subseteq CardKey
  /\ told \in [Plugins -> SUBSET CardKey]
  /\ short \in [Plugins -> Nat]

\* A stop ends the life of p, if it had one, and changes no other plugin.
LEMMA StopLemma ==
  ASSUME TypeOK, NEW p \in Plugins, NEW r, SameLife(p, r), NEW s \in SchedState,
         Stop(p, r, s)
  PROVE  /\ LifeTypes'
         /\ \A q \in Plugins : q # p => plug'[q] = plug[q] /\ told'[q] = told[q]
                                          /\ short'[q] = short[q]
         /\ sched' = RemovePlugin(s, p) /\ visible' = {k \in visible : k.plugin # p}
         /\ told'[p] = {}
         /\ \/ /\ Active(r) /\ plug'[p] = Stopped(r)
               /\ short'[p] = IF r.ran >= StableRun THEN 0 ELSE short[p] + 1
            \/ ~Active(r) /\ plug'[p] = r /\ short'[p] = short[p]
<1>1. plug \in [Plugins -> Runtime] /\ short \in [Plugins -> Nat] /\ visible \subseteq CardKey
      /\ told \in [Plugins -> SUBSET CardKey] /\ r \in Runtime
  BY DEF TypeOK, SameLife
<1>2. Stopped(r) \in Runtime /\ RemovePlugin(s, p) \in SchedState
  BY <1>1, StoppedLemma, RemovePluginType
<1>3. /\ plug' = [plug EXCEPT ![p] = IF Active(r) THEN Stopped(r) ELSE r]
      /\ short' = IF Active(r) THEN [short EXCEPT ![p] = IF r.ran >= StableRun THEN 0 ELSE @ + 1]
                  ELSE short
      /\ sched' = RemovePlugin(s, p)
      /\ visible' = {k \in visible : k.plugin # p}
      /\ told' = [told EXCEPT ![p] = {}]
  BY DEF Stop, ShortBy
<1>4. /\ plug' \in [Plugins -> Runtime]
      /\ plug'[p] = IF Active(r) THEN Stopped(r) ELSE r
      /\ \A q \in Plugins : q # p => plug'[q] = plug[q]
  BY <1>1, <1>2, <1>3
<1>5. /\ short' \in [Plugins -> Nat]
      /\ Active(r) => short'[p] = IF r.ran >= StableRun THEN 0 ELSE short[p] + 1
      /\ ~Active(r) => short'[p] = short[p]
      /\ \A q \in Plugins : q # p => short'[q] = short[q]
  BY <1>1, <1>3
<1>6. /\ told' \in [Plugins -> SUBSET CardKey] /\ told'[p] = {}
      /\ \A q \in Plugins : q # p => told'[q] = told[q]
  BY <1>1, <1>3
<1>7. sched' \in SchedState /\ visible' \subseteq CardKey
  BY <1>1, <1>2, <1>3
<1> QED
  BY <1>3, <1>4, <1>5, <1>6, <1>7 DEF LifeTypes

LEMMA GoesLemma ==
  ASSUME TypeOK, NEW p \in Plugins, NEW r, SameLife(p, r), NEW s \in SchedState,
         NEW b \in SUBSET CardKey, Goes(p, r, s, b)
  PROVE  /\ LifeTypes'
         /\ \A q \in Plugins : q # p => plug'[q] = plug[q] /\ told'[q] = told[q]
         /\ plug'[p] = r /\ told'[p] = b /\ sched' = s
         /\ visible' = visible /\ short' = short
BY DEF TypeOK, SameLife, Goes, LifeTypes

\* What a plugin asks of the scheduler leaves it well typed.
LEMMA AskedType ==
  ASSUME TypeOK, NEW p \in Plugins, NEW f \in Frame, NEW s, Asked(p, f, s)
  PROVE  s \in SchedState
<1>1. sched \in SchedState
  BY DEF TypeOK
<1>2. CASE f.kind = "put" /\ s = Put(sched, [plugin |-> p, card |-> f.card], f.arg)
  <2>1. [plugin |-> p, card |-> f.card] \in CardKey /\ f.arg \in CardArgs
    BY <1>2, FrameFields DEF CardKey
  <2> QED
    BY <1>1, <1>2, <2>1, PutType
<1>3. CASE f.kind = "remove" /\ s = Remove(sched, [plugin |-> p, card |-> f.card])
  <2>1. [plugin |-> p, card |-> f.card] \in CardKey
    BY <1>3, FrameFields DEF CardKey
  <2> QED
    BY <1>1, <1>3, <2>1, RemoveType
<1>4. CASE f.kind = "image" /\ s = ShowImage(sched, p, f.ttl)
  BY <1>1, <1>4, FrameFields, ShowImageType
<1>5. CASE f.kind = "notify" /\ s = Notify(sched, f.arg)
  BY <1>1, <1>5, FrameFields, NotifyType
<1> QED
  BY <1>1, <1>2, <1>3, <1>4, <1>5 DEF Asked

\* The part of TypeOK about the loop and the threads.
LoopTypes ==
  /\ events \in Seq(Event)
  /\ readers \subseteq Plugins \X Nat
  /\ pc \in {"events", "inputs", "start", "plan", "notify"}
  /\ due \subseteq Plugins /\ changes \subseteq Change
  /\ frames \in [Plugins -> Nat] /\ taps \in Nat
  /\ owner \in [Owned -> Nat]

LEMMA TypeParts == TypeOK <=> LifeTypes /\ LoopTypes
BY DEF TypeOK, LifeTypes, LoopTypes

\* The first event of the channel.
LEMMA HeadEvent ==
  ASSUME TypeOK, HandleEvent
  PROVE  /\ Head(events) = events[1] /\ 1 \in 1 .. Len(events) /\ Head(events) \in Event
         /\ events' \in Seq(Event) /\ Len(events') = Len(events) - 1 /\ Len(events) \in Nat
         /\ \A i \in 1 .. Len(events') : i + 1 \in 1 .. Len(events) /\ events'[i] = events[i + 1]
<1>1. events \in Seq(Event) /\ events # <<>> /\ events' = Tail(events)
  BY DEF TypeOK, HandleEvent
<1> HIDE DEF Event
<1> QED
  BY <1>1

\* The writer thread and the clock leave the state, the generation and the failures.
LEMMA QuietLemma ==
  ASSUME TypeOK, WriteMessage \/ Tick
  PROVE  /\ plug' \in [Plugins -> Runtime]
         /\ \A q \in Plugins : /\ plug'[q].state = plug[q].state
                               /\ plug'[q].generation = plug[q].generation
                               /\ plug'[q].failures = plug[q].failures
<1>1. plug \in [Plugins -> Runtime] /\ StableRun \in Nat /\ QueueLength \in Nat
  BY DaemonAssumption DEF TypeOK
<1>2. CASE WriteMessage
  <2>1. PICK p \in Plugins, ok \in BOOLEAN :
          /\ plug[p].queued > 0
          /\ plug' = [plug EXCEPT ![p].queued = IF ok THEN @ - 1 ELSE 0, ![p].writing = ok]
    BY <1>2 DEF WriteMessage
  <2> DEFINE n == IF ok THEN plug[p].queued - 1 ELSE 0
  <2>2. n \in 0 .. QueueLength
    BY <1>1, <2>1 DEF Runtime
  <2>3. plug' = [plug EXCEPT ![p] = [plug[p] EXCEPT !.queued = n, !.writing = ok]]
    BY <1>1, <2>1
  <2> HIDE DEF n
  <2>4. [plug[p] EXCEPT !.queued = n, !.writing = ok] \in Runtime
    BY <1>1, <2>2 DEF Runtime
  <2>5. /\ [plug[p] EXCEPT !.queued = n, !.writing = ok].state = plug[p].state
        /\ [plug[p] EXCEPT !.queued = n, !.writing = ok].generation = plug[p].generation
        /\ [plug[p] EXCEPT !.queued = n, !.writing = ok].failures = plug[p].failures
    BY <1>1 DEF Runtime
  <2> QED
    BY <1>1, <2>3, <2>4, <2>5
<1>3. CASE Tick
  <2> DEFINE left(r) == IF r.left = 0 THEN 0 ELSE r.left - 1
             ran(r)  == IF Active(r) /\ r.ran < StableRun THEN r.ran + 1 ELSE r.ran
             next(r) == [r EXCEPT !.left = left(r), !.ran = ran(r), !.count = 0]
  <2>1. plug' = [q \in Plugins |-> next(plug[q])]
    BY <1>3 DEF Tick
  <2>2. ASSUME NEW r \in Runtime
        PROVE  /\ next(r) \in Runtime /\ next(r).state = r.state
               /\ next(r).generation = r.generation /\ next(r).failures = r.failures
    <3>1. left(r) \in Nat
      BY DEF Runtime
    <3>2. ran(r) \in 0 .. StableRun
      <4>1. r.ran \in 0 .. StableRun
        BY DEF Runtime
      <4> QED
        BY <1>1, <4>1
    <3> HIDE DEF left, ran
    <3> QED
      BY <3>1, <3>2 DEF Runtime
  <2> HIDE DEF next
  <2> QED
    BY <1>1, <2>1, <2>2
<1> QED
  BY <1>2, <1>3

\* A life that begins.
Begins(p) ==
  /\ plug[p].state = "idle" /\ plug'[p].state = "handshake"
  /\ plug'[p].generation = plug[p].generation + 1
  /\ plug'[p].failures = plug[p].failures
  /\ readers' = readers \cup {<<p, plug'[p].generation>>}
  /\ UNCHANGED <<sched, told, short>>

\* One that cannot begin, which counts as a short one.
CannotBegin(p) ==
  /\ plug[p].state = "idle"
  /\ plug'[p].state = IF plug'[p].failures > MaxFailures THEN "disabled" ELSE "idle"
  /\ plug'[p].generation = plug[p].generation
  /\ plug'[p].failures = plug[p].failures + 1
  /\ short' = [short EXCEPT ![p] = @ + 1]
  /\ UNCHANGED <<sched, told, readers>>

\* One that is over before it said Hello.
TimesOut(p) ==
  /\ plug[p].state = "handshake" /\ plug'[p] = Stopped(plug[p])
  /\ short' = ShortBy(p, plug[p])
  /\ sched' = RemovePlugin(sched, p)
  /\ told' = [told EXCEPT ![p] = {}]
  /\ UNCHANGED readers

LEMMA TurnLemma ==
  ASSUME TypeOK, Launch \/ LaunchFails \/ HelloTimeout
  PROVE  \E p \in Plugins :
           /\ Turn(p)
           /\ plug' \in [Plugins -> Runtime]
           /\ \A q \in Plugins : q # p => plug'[q] = plug[q]
           /\ Begins(p) \/ CannotBegin(p) \/ TimesOut(p)
<1>1. plug \in [Plugins -> Runtime]
  BY DEF TypeOK
<1>2. CASE Launch
  <2>1. PICK p \in Plugins :
          /\ Turn(p) /\ StartDue(plug[p])
          /\ plug' = [plug EXCEPT ![p] = Launched(@)]
          /\ readers' = readers \cup {<<p, plug'[p].generation>>}
          /\ UNCHANGED <<sched, told, short>>
    BY <1>2 DEF Launch
  <2>2. /\ plug'[p] = Launched(plug[p]) /\ plug' \in [Plugins -> Runtime]
        /\ \A q \in Plugins : q # p => plug'[q] = plug[q]
    BY <1>1, <2>1, LaunchedLemma
  <2>3. Begins(p)
    BY <1>1, <2>1, <2>2, LaunchedLemma DEF Begins, StartDue
  <2> QED
    BY <2>1, <2>2, <2>3
<1>3. CASE LaunchFails
  <2>1. PICK p \in Plugins :
          /\ Turn(p) /\ StartDue(plug[p])
          /\ plug' = [plug EXCEPT ![p] = Failed([@ EXCEPT !.ran = 0])]
          /\ short' = [short EXCEPT ![p] = @ + 1]
          /\ UNCHANGED <<sched, told, readers>>
    BY <1>3 DEF LaunchFails
  <2> DEFINE r == [plug[p] EXCEPT !.ran = 0]
  <2>2. /\ r \in Runtime /\ r.failures = plug[p].failures
        /\ r.generation = plug[p].generation /\ ~(r.ran >= StableRun)
    <3>1. 0 \in 0 .. StableRun /\ ~(0 >= StableRun)
      BY DaemonAssumption
    <3> QED
      BY <1>1, <3>1 DEF Runtime
  <2>3. plug' = [plug EXCEPT ![p] = Failed(r)]
    BY <1>1, <2>1
  <2> HIDE DEF r
  <2>4. /\ plug'[p] = Failed(r) /\ plug' \in [Plugins -> Runtime]
        /\ \A q \in Plugins : q # p => plug'[q] = plug[q]
    BY <1>1, <2>2, <2>3, FailedLemma
  <2>5. CannotBegin(p)
    BY <2>1, <2>2, <2>4, FailedLemma DEF CannotBegin, StartDue
  <2> QED
    BY <2>1, <2>4, <2>5
<1>4. CASE HelloTimeout
  <2>1. PICK p \in Plugins :
          /\ Turn(p) /\ TimedOut(plug[p])
          /\ plug' = [plug EXCEPT ![p] = Stopped(@)]
          /\ short' = ShortBy(p, plug[p])
          /\ sched' = RemovePlugin(sched, p)
          /\ told' = [told EXCEPT ![p] = {}]
          /\ UNCHANGED readers
    BY <1>4 DEF HelloTimeout
  <2>2. /\ plug'[p] = Stopped(plug[p]) /\ plug' \in [Plugins -> Runtime]
        /\ \A q \in Plugins : q # p => plug'[q] = plug[q]
    BY <1>1, <2>1, StoppedLemma
  <2>3. TimesOut(p)
    BY <2>1, <2>2 DEF TimesOut, TimedOut
  <2> QED
    BY <2>1, <2>2, <2>3
<1> QED
  BY <1>2, <1>3, <1>4

\* The frame at the head is dropped, ends its life, or that life goes on.
Dropped == UNCHANGED <<plug, sched, visible, owner, told, short>>

EndedBy(e) ==
  \E r : SameLife(e.plugin, r) /\ \E s \in SchedState :
    /\ s = sched \/ (Asked(e.plugin, e.frame, s) /\ s.counter = sched.counter)
    /\ Stop(e.plugin, r, s)

GoesOnAfter(e) ==
  \E r : SameLife(e.plugin, r) /\ \E s \in SchedState :
    Asked(e.plugin, e.frame, s) /\ Goes(e.plugin, r, s, told[e.plugin])

LEMMA HandleCases ==
  ASSUME TypeOK, HandleEvent
  PROVE  \/ Dropped
         \/ /\ IsCurrent(Head(events)) /\ owner' = OwnedNow(Head(events))
            /\ EndedBy(Head(events)) \/ GoesOnAfter(Head(events))
<1>1. Head(events) \in Event
  BY HeadEvent
<1>2. CASE ~IsCurrent(Head(events))
  BY <1>2 DEF HandleEvent, Dropped, history
<1>3. CASE IsCurrent(Head(events))
  <2> DEFINE e == Head(events)
  <2>1. e \in Event /\ Receive(e) /\ owner' = OwnedNow(e) /\ IsCurrent(e)
    BY <1>1, <1>3 DEF HandleEvent
  <2> HIDE DEF e
  <2>2. e.plugin \in Plugins /\ e.frame \in Frame /\ sched \in SchedState
    BY <2>1 DEF Event, TypeOK
  <2>3. \A s : Asked(e.plugin, e.frame, s) => s \in SchedState
    BY <2>2, AskedType
  <2>4. EndedBy(e) \/ GoesOnAfter(e)
    BY <2>1, <2>2, <2>3, ReceiveLemma DEF EndedBy, GoesOnAfter
  <2> QED
    BY <2>1, <2>4 DEF e
<1> QED
  BY <1>2, <1>3

\* A message to the life that p has.
LEMMA MessageLemma ==
  ASSUME TypeOK, NEW p \in Plugins, NEW b \in SUBSET CardKey, Send(p, plug[p], sched, b)
  PROVE  \/ SameLife(p, plug[p]) /\ Active(plug[p]) /\ Stop(p, plug[p], sched)
         \/ \E n : /\ SameLife(p, n) /\ n.state = plug[p].state
                   /\ Goes(p, n, sched, IF Active(plug[p]) THEN b ELSE told[p])
<1>1. SameLife(p, plug[p])
  BY DEF SameLife, TypeOK
<1> QED
  BY <1>1, SendLemma

\* The changes of what is visible are told to a plugin that is configured.
LEMMA ChangeLemma ==
  ASSUME TypeOK, NEW c \in changes
  PROVE  /\ c.key \in CardKey /\ c.key.plugin \in Plugins /\ c.visible \in BOOLEAN
         /\ told[c.key.plugin] \cup {c.key} \in SUBSET CardKey
         /\ told[c.key.plugin] \ {c.key} \in SUBSET CardKey
<1>1. c \in Change
  BY DEF TypeOK
<1>2. c.key \in CardKey /\ c.visible \in BOOLEAN
  BY <1>1 DEF Change
<1>3. c.key.plugin \in Plugins
  BY <1>2 DEF CardKey
<1>4. told[c.key.plugin] \in SUBSET CardKey
  BY <1>3 DEF TypeOK
<1> QED
  BY <1>2, <1>3, <1>4

LEMMA HandleType == ASSUME TypeOK, HandleEvent PROVE TypeOK'
<1>1. LifeTypes'
  <2>1. CASE Dropped
    BY <2>1 DEF Dropped, TypeOK, LifeTypes
  <2> DEFINE e == Head(events)
  <2>2. e.plugin \in Plugins /\ told[e.plugin] \in SUBSET CardKey
    BY HeadEvent DEF Event, TypeOK
  <2> HIDE DEF e
  <2>3. CASE EndedBy(e)
    BY <2>2, <2>3, StopLemma DEF EndedBy
  <2>4. CASE GoesOnAfter(e)
    BY <2>2, <2>4, GoesLemma DEF GoesOnAfter
  <2> QED
    BY <2>1, <2>3, <2>4, HandleCases DEF e
<1>2. owner' \in [Owned -> Nat]
  <2>1. Head(events).generation \in Nat /\ owner \in [Owned -> Nat]
    BY HeadEvent DEF Event, TypeOK
  <2>2. owner' = owner \/ owner' = OwnedNow(Head(events))
    BY HandleCases DEF Dropped
  <2> QED
    BY <2>1, <2>2 DEF OwnedNow
<1>3. LoopTypes'
  BY <1>2, HeadEvent DEF LoopTypes, TypeOK, HandleEvent
<1> QED
  BY <1>1, <1>3, TypeParts DEF TypeOK, LifeTypes, LoopTypes

LEMMA SendType ==
  ASSUME TypeOK, TapCard \/ SendVisibility
  PROVE  TypeOK'
<1>1. LifeTypes'
  <2>1. ASSUME NEW p \in Plugins, NEW b \in SUBSET CardKey, Send(p, plug[p], sched, b)
        PROVE  LifeTypes'
    <3>1. sched \in SchedState /\ told[p] \in SUBSET CardKey
      BY DEF TypeOK
    <3> QED
      BY <2>1, <3>1, MessageLemma, StopLemma, GoesLemma
  <2>2. CASE TapCard
    <3>1. PICK k \in visible : Send(k.plugin, plug[k.plugin], sched, told[k.plugin])
      BY <2>2 DEF TapCard
    <3>2. k.plugin \in Plugins /\ told[k.plugin] \in SUBSET CardKey
      BY DEF TypeOK, CardKey
    <3> QED
      BY <2>1, <3>1, <3>2
  <2>3. CASE SendVisibility
    <3>1. PICK c \in changes :
            Send(c.key.plugin, plug[c.key.plugin], sched,
                 IF c.visible THEN told[c.key.plugin] \cup {c.key}
                 ELSE told[c.key.plugin] \ {c.key})
      BY <2>3 DEF SendVisibility
    <3> QED
      BY <2>1, <3>1, ChangeLemma
  <2> QED
    BY <2>2, <2>3
<1>2. LoopTypes'
  <2>1. CASE TapCard
    BY <2>1 DEF TypeOK, LoopTypes, TapCard
  <2>2. CASE SendVisibility
    <3>1. changes' \subseteq changes
      BY <2>2 DEF SendVisibility
    <3> QED
      BY <2>2, <3>1 DEF TypeOK, LoopTypes, SendVisibility
  <2> QED
    BY <2>1, <2>2
<1> QED
  BY <1>1, <1>2 DEF TypeOK, LifeTypes, LoopTypes

LEMMA TurnType ==
  ASSUME TypeOK, Launch \/ LaunchFails \/ HelloTimeout \/ PassOver
  PROVE  TypeOK'
<1>1. CASE Launch \/ LaunchFails \/ HelloTimeout
  <2>1. PICK p \in Plugins :
          /\ Turn(p)
          /\ plug' \in [Plugins -> Runtime]
          /\ Begins(p) \/ CannotBegin(p) \/ TimesOut(p)
    BY <1>1, TurnLemma
  <2>2. /\ plug'[p].generation \in Nat /\ sched \in SchedState
        /\ short \in [Plugins -> Nat] /\ told \in [Plugins -> SUBSET CardKey]
        /\ readers \subseteq Plugins \X Nat
    BY <2>1 DEF TypeOK, Runtime
  <2>3. sched' \in SchedState
    BY <2>1, <2>2, RemovePluginType DEF Begins, CannotBegin, TimesOut
  <2>4. short' \in [Plugins -> Nat] /\ told' \in [Plugins -> SUBSET CardKey]
    BY <2>1, <2>2 DEF Begins, CannotBegin, TimesOut, ShortBy
  <2>5. readers' \subseteq Plugins \X Nat
    BY <2>1, <2>2 DEF Begins, CannotBegin, TimesOut
  <2> QED
    BY <2>1, <2>3, <2>4, <2>5 DEF TypeOK, Turn
<1>2. CASE PassOver
  BY <1>2 DEF TypeOK, PassOver, Turn
<1> QED
  BY <1>1, <1>2

\* Cards are told to be visible or not by their keys.
LEMMA PlanVisible ==
  ASSUME TypeOK, PlanScreen
  PROVE  /\ sched' \in SchedState /\ visible' \subseteq Held(sched') /\ visible' \subseteq CardKey
         /\ NothingNew(sched, sched')
         /\ changes' \subseteq Change
<1>1. sched \in SchedState /\ visible \subseteq CardKey /\ sched' = Prepare(sched)
      /\ visible' = VisibleCards(PlanOf(sched'))
  BY DEF TypeOK, PlanScreen
<1>2. sched' \in SchedState /\ NothingNew(sched, sched')
  BY <1>1, PrepareType, HoldsNothingNew
<1>3. visible' \subseteq Held(sched')
  BY <1>1, <1>2, VisibleHeld
<1>4. visible' \subseteq CardKey
  BY <1>3 DEF Held
<1>5. changes' = {[key |-> k, visible |-> FALSE] : k \in visible \ visible'}
                   \cup {[key |-> k, visible |-> TRUE] : k \in visible' \ visible}
  BY DEF PlanScreen
<1>6. changes' \subseteq Change
  <2>1. \A k \in CardKey : [key |-> k, visible |-> FALSE] \in Change
                             /\ [key |-> k, visible |-> TRUE] \in Change
    BY DEF Change
  <2>2. visible \ visible' \subseteq CardKey /\ visible' \ visible \subseteq CardKey
    BY <1>1, <1>4
  <2>3. {[key |-> k, visible |-> FALSE] : k \in visible \ visible'} \subseteq Change
    BY <2>1, <2>2
  <2>4. {[key |-> k, visible |-> TRUE] : k \in visible' \ visible} \subseteq Change
    BY <2>1, <2>2
  <2> QED
    BY <1>5, <2>3, <2>4
<1> QED
  BY <1>2, <1>3, <1>4, <1>6

LEMMA ScreenType ==
  ASSUME TypeOK, BeginTick \/ TapBanner \/ SpoolNotice \/ PlanScreen
  PROVE  TypeOK'
<1>1. CASE BeginTick
  BY <1>1 DEF TypeOK, BeginTick, history
<1>2. CASE TapBanner
  <2>1. sched' \in SchedState
    BY <1>2, AdvanceType DEF TypeOK, TapBanner
  <2> QED
    BY <1>2, <2>1 DEF TypeOK, TapBanner, history
<1>3. CASE SpoolNotice
  <2>1. sched' \in SchedState
    BY <1>3, NotifyType DEF TypeOK, SpoolNotice
  <2> QED
    BY <1>3, <2>1 DEF TypeOK, SpoolNotice, history
<1>4. CASE PlanScreen
  BY <1>4, PlanVisible DEF TypeOK, PlanScreen, history
<1> QED
  BY <1>1, <1>2, <1>3, <1>4

LEMMA ThreadType ==
  ASSUME TypeOK, ReadFrame \/ WriteMessage \/ Tick
  PROVE  TypeOK'
<1>1. CASE ReadFrame
  <2>1. PICK l \in readers, f \in Frame :
          /\ frames' = [frames EXCEPT ![l[1]] = @ + 1]
          /\ events' = Append(events, [plugin |-> l[1], generation |-> l[2], frame |-> f])
          /\ readers' = IF f.kind = "closed" THEN readers \ {l} ELSE readers
    BY <1>1 DEF ReadFrame
  <2>2. l[1] \in Plugins /\ l[2] \in Nat
    BY DEF TypeOK
  <2>3. [plugin |-> l[1], generation |-> l[2], frame |-> f] \in Event
    BY <2>2 DEF Event
  <2>4. events' \in Seq(Event)
    BY <2>1, <2>3 DEF TypeOK
  <2>5. frames' \in [Plugins -> Nat] /\ readers' \subseteq Plugins \X Nat
    BY <2>1, <2>2 DEF TypeOK
  <2> QED
    BY <1>1, <2>4, <2>5 DEF TypeOK, ReadFrame, history
<1>2. CASE WriteMessage
  BY <1>2, QuietLemma DEF TypeOK, WriteMessage, history
<1>3. CASE Tick
  <2>1. sched' \in SchedState
    BY <1>3, AgeType DEF TypeOK, Tick
  <2> QED
    BY <1>3, <2>1, QuietLemma DEF TypeOK, Tick, history
<1> QED
  BY <1>1, <1>2, <1>3

\* The state keeps its types whatever the plugins send and whenever they end.
THEOREM TypeCorrect == Spec => []TypeOK
<1>1. Init => TypeOK
  <2>1. NewScheduler \in SchedState
    BY SchedulingAssumption DEF NewScheduler, SchedState
  <2>2. 0 \in 0 .. StableRun /\ 0 \in 0 .. QueueLength
    BY DaemonAssumption
  <2>3. [state |-> "idle", generation |-> 0, failures |-> 0, left |-> 0, ran |-> 0,
         count |-> 0, queued |-> 0, writing |-> FALSE] \in Runtime
    BY <2>2 DEF Runtime
  <2> QED
    BY <2>1, <2>3 DEF Init, TypeOK
<1>2. TypeOK /\ [Next]_vars => TypeOK'
  <2>1. TypeOK /\ UNCHANGED vars => TypeOK'
    BY DEF TypeOK, vars, history
  <2> QED
    BY <2>1, HandleType, SendType, TurnType, ScreenType, ThreadType DEF Next, Loop
<1> QED
  BY <1>1, <1>2, PTL DEF Spec

-----------------------------------------------------------------------------
(* Lives and failures.                                                     *)

\* What a step does to the life of q: it goes on, or it ends, or one begins, or cannot.
GoesOn(q) ==
  /\ plug'[q].generation = plug[q].generation /\ plug'[q].failures = plug[q].failures
  /\ short'[q] = short[q]
  /\ plug'[q].state = plug[q].state
       \/ (plug[q].state = "handshake" /\ plug'[q].state = "running")

Counted(q) ==
  /\ plug'[q].state = IF plug'[q].failures > MaxFailures THEN "disabled" ELSE "idle"
  /\ \/ plug'[q].failures = 1 /\ short'[q] = 0
     \/ plug'[q].failures = plug[q].failures + 1 /\ short'[q] = short[q] + 1

Ends(q) ==
  /\ Active(plug[q]) /\ Counted(q)
  /\ plug'[q].generation = plug[q].generation + 1

NextLife(q) ==
  \/ GoesOn(q)
  \/ Ends(q)
  \/ Begins(q)
  \/ /\ plug[q].state = "idle" /\ Counted(q)
     /\ plug'[q].generation = plug[q].generation

\* A stop ends the life, unless there is none.
LEMMA StopEnds ==
  ASSUME TypeOK, NEW p \in Plugins, NEW r, SameLife(p, r), NEW s \in SchedState,
         Stop(p, r, s)
  PROVE  /\ Ends(p) \/ (GoesOn(p) /\ ~Active(plug'[p]))
         /\ \A q \in Plugins : q # p => GoesOn(q)
<1>1. r \in Runtime
  BY DEF SameLife
<1>2. CASE Active(r)
  <2>1. /\ plug'[p] = Stopped(r)
        /\ short'[p] = IF r.ran >= StableRun THEN 0 ELSE short[p] + 1
    BY <1>2, StopLemma
  <2>2. Active(plug[p]) /\ r.generation = plug[p].generation /\ r.failures = plug[p].failures
    BY <1>2 DEF SameLife, Active
  <2> QED
    BY <1>1, <2>1, <2>2, StoppedLemma, StopLemma DEF Ends, Counted, GoesOn
<1>3. CASE ~Active(r)
  <2>1. plug'[p] = r /\ short'[p] = short[p]
    BY <1>3, StopLemma
  <2> QED
    BY <1>3, <2>1, StopLemma DEF SameLife, GoesOn
<1> QED
  BY <1>2, <1>3

LEMMA MessageLives ==
  ASSUME TypeOK, NEW p \in Plugins, NEW b \in SUBSET CardKey, Send(p, plug[p], sched, b),
         NEW q \in Plugins
  PROVE  NextLife(q)
<1>1. sched \in SchedState /\ told[p] \in SUBSET CardKey
  BY DEF TypeOK
<1>2. CASE SameLife(p, plug[p]) /\ Stop(p, plug[p], sched)
  BY <1>1, <1>2, StopEnds DEF NextLife
<1>3. CASE \E n : SameLife(p, n) /\ Goes(p, n, sched, IF Active(plug[p]) THEN b ELSE told[p])
  <2>1. PICK n : SameLife(p, n) /\ Goes(p, n, sched, IF Active(plug[p]) THEN b ELSE told[p])
    BY <1>3
  <2>2. /\ plug'[p] = n /\ short' = short
        /\ q # p => plug'[q] = plug[q]
    BY <1>1, <2>1, GoesLemma
  <2> QED
    BY <2>1, <2>2 DEF SameLife, GoesOn, NextLife
<1> QED
  BY <1>2, <1>3, MessageLemma

LEMMA LifeStep ==
  ASSUME TypeOK, [Next]_vars, NEW q \in Plugins
  PROVE  NextLife(q)
<1>1. CASE UNCHANGED vars
  BY <1>1 DEF vars, history, NextLife, GoesOn
<1>2. CASE HandleEvent
  <2> DEFINE e == Head(events)
  <2>1. e.plugin \in Plugins /\ told[e.plugin] \in SUBSET CardKey
    BY <1>2, HeadEvent DEF Event, TypeOK
  <2> HIDE DEF e
  <2>2. CASE Dropped
    BY <2>2 DEF Dropped, NextLife, GoesOn
  <2>3. CASE EndedBy(e)
    BY <2>1, <2>3, StopEnds DEF EndedBy, NextLife
  <2>4. CASE GoesOnAfter(e)
    <3>1. PICK r : SameLife(e.plugin, r) /\ \E s \in SchedState :
                     Goes(e.plugin, r, s, told[e.plugin])
      BY <2>4 DEF GoesOnAfter
    <3>2. /\ plug'[e.plugin] = r /\ short' = short
          /\ q # e.plugin => plug'[q] = plug[q]
      BY <2>1, <3>1, GoesLemma
    <3> QED
      BY <3>1, <3>2 DEF SameLife, GoesOn, NextLife
  <2> QED
    BY <1>2, <2>2, <2>3, <2>4, HandleCases DEF e
<1>3. CASE TapCard
  <2>1. PICK k \in visible : Send(k.plugin, plug[k.plugin], sched, told[k.plugin])
    BY <1>3 DEF TapCard
  <2>2. k.plugin \in Plugins /\ told[k.plugin] \in SUBSET CardKey
    BY DEF TypeOK, CardKey
  <2> QED
    BY <2>1, <2>2, MessageLives
<1>4. CASE SendVisibility
  <2>1. PICK c \in changes :
          Send(c.key.plugin, plug[c.key.plugin], sched,
               IF c.visible THEN told[c.key.plugin] \cup {c.key}
               ELSE told[c.key.plugin] \ {c.key})
    BY <1>4 DEF SendVisibility
  <2> QED
    BY <2>1, ChangeLemma, MessageLives
<1>5. CASE Launch \/ LaunchFails \/ HelloTimeout
  <2>1. PICK p \in Plugins :
          /\ \A x \in Plugins : x # p => plug'[x] = plug[x]
          /\ Begins(p) \/ CannotBegin(p) \/ TimesOut(p)
    BY <1>5, TurnLemma
  <2>2. short \in [Plugins -> Nat] /\ plug[p] \in Runtime
    BY DEF TypeOK
  <2>3. CASE q # p
    BY <2>1, <2>2, <2>3
       DEF NextLife, GoesOn, Begins, CannotBegin, TimesOut, ShortBy
  <2>4. CASE q = p /\ Begins(p)
    BY <2>4 DEF NextLife
  <2>5. CASE q = p /\ CannotBegin(p)
    BY <2>2, <2>5 DEF NextLife, CannotBegin, Counted
  <2>6. CASE q = p /\ TimesOut(p)
    <3>1. short'[p] = IF plug[p].ran >= StableRun THEN 0 ELSE short[p] + 1
      BY <2>2, <2>6 DEF TimesOut, ShortBy
    <3> QED
      BY <2>2, <2>6, <3>1, StoppedLemma DEF NextLife, Ends, Counted, TimesOut, Active
  <2> QED
    BY <2>1, <2>3, <2>4, <2>5, <2>6
<1>6. CASE WriteMessage \/ Tick
  BY <1>6, QuietLemma DEF NextLife, GoesOn, WriteMessage, Tick, history
<1>7. CASE PassOver \/ BeginTick \/ TapBanner \/ SpoolNotice \/ PlanScreen \/ ReadFrame
  BY <1>7 DEF NextLife, GoesOn, PassOver, BeginTick, TapBanner, SpoolNotice, PlanScreen,
              ReadFrame, history
<1> QED
  BY <1>1, <1>2, <1>3, <1>4, <1>5, <1>6, <1>7 DEF Next, Loop

\* What was heard of a life is heard until it ends, and never of its end.
LEMMA HeardLemma ==
  ASSUME TypeOK, TypeOK', [Next]_vars, NEW p \in Plugins, NEW g \in Nat, Heard(p, g)
  PROVE  Heard(p, g)'
<1>1. NextLife(p)
  BY LifeStep
<1>2. plug[p].generation \in Nat
  BY DEF TypeOK, Runtime
<1> QED
  BY <1>1, <1>2 DEF NextLife, GoesOn, Ends, Begins, Heard, Active

LEMMA LivesStep ==
  ASSUME TypeOK, TypeOK', Lives, [Next]_vars
  PROVE  Lives'
<1> DEFINE Still(p, g) == /\ g <= plug'[p].generation
                          /\ g = plug'[p].generation => Active(plug'[p])
<1>1. \A p \in Plugins, g \in Nat : Heard(p, g) => Still(p, g)
  BY HeardLemma DEF Heard
<1>2. Lives' <=> /\ \A l \in readers' : Still(l[1], l[2])
                 /\ \A i \in 1 .. Len(events') :
                      Still(events'[i].plugin, events'[i].generation)
  BY DEF Lives, Heard
<1> HIDE DEF Still
<1>3. /\ \A l \in readers : l[1] \in Plugins /\ l[2] \in Nat
      /\ \A i \in 1 .. Len(events) :
           events[i].plugin \in Plugins /\ events[i].generation \in Nat
  <2>1. \A i \in 1 .. Len(events) : events[i] \in Event
    BY DEF TypeOK
  <2> QED
    BY <2>1 DEF TypeOK, Event
<1>4. /\ \A l \in readers : Still(l[1], l[2])
      /\ \A i \in 1 .. Len(events) : Still(events[i].plugin, events[i].generation)
  BY <1>1, <1>3 DEF Lives
<1>5. CASE UNCHANGED <<readers, events>>
  BY <1>2, <1>4, <1>5
<1>6. CASE HandleEvent
  <2>1. /\ readers' = readers
        /\ \A i \in 1 .. Len(events') : i + 1 \in 1 .. Len(events) /\ events'[i] = events[i + 1]
    BY <1>6, HeadEvent DEF HandleEvent
  <2> QED
    BY <1>2, <1>4, <2>1
<1>7. CASE ReadFrame
  <2>1. PICK l \in readers, f \in Frame :
          /\ events' = Append(events, [plugin |-> l[1], generation |-> l[2], frame |-> f])
          /\ readers' = IF f.kind = "closed" THEN readers \ {l} ELSE readers
    BY <1>7 DEF ReadFrame
  <2> DEFINE new == [plugin |-> l[1], generation |-> l[2], frame |-> f]
  <2>2. new \in Event /\ new.plugin = l[1] /\ new.generation = l[2]
    BY <1>3 DEF Event
  <2> HIDE DEF new
  <2>3. \A i \in 1 .. Len(events') :
          \/ i \in 1 .. Len(events) /\ events'[i] = events[i]
          \/ events'[i] = new
    <3> HIDE DEF Event
    <3>1. events \in Seq(Event) /\ events' = Append(events, new)
      BY <2>1 DEF TypeOK, new
    <3> QED
      BY <2>2, <3>1
  <2>4. readers' \subseteq readers
    BY <2>1
  <2> QED
    BY <1>2, <1>4, <2>2, <2>3, <2>4
<1>8. CASE Launch \/ LaunchFails \/ HelloTimeout
  <2>1. PICK p \in Plugins : Turn(p) /\ (Begins(p) \/ CannotBegin(p) \/ TimesOut(p))
    BY <1>8, TurnLemma
  <2>2. events' = events
    BY <2>1 DEF Turn
  <2>3. \A l \in readers' : l \in readers \/ (l = <<p, plug'[p].generation>> /\ Begins(p))
    BY <2>1 DEF Begins, CannotBegin, TimesOut
  <2>4. Begins(p) => Still(p, plug'[p].generation)
    <3>1. plug'[p].generation \in Nat
      BY DEF TypeOK, Runtime
    <3> QED
      BY <3>1 DEF Begins, Still, Active
  <2> QED
    BY <1>2, <1>4, <2>2, <2>3, <2>4
<1> QED
  BY <1>5, <1>6, <1>7, <1>8
     DEF Next, Loop, BeginTick, TapCard, TapBanner, SpoolNotice, PassOver, PlanScreen,
         SendVisibility, WriteMessage, Tick, Turn, vars

LEMMA LivesInvariant == Spec => []Lives
<1>1. Init => Lives
  BY DEF Init, Lives
<1>2. TypeOK /\ TypeOK' /\ Lives /\ [Next]_vars => Lives'
  BY LivesStep
<1> QED
  BY <1>1, <1>2, TypeCorrect, PTL DEF Spec

\* Once a life is over no frame of it is current any more, whether its threads still
\* run or its frames still wait in the channel (stop).
THEOREM DeadLivesTheorem == Spec => []DeadLivesIgnored
<1>1. Lives => DeadLivesIgnored
  BY DEF Lives, DeadLivesIgnored, Heard
<1> QED
  BY <1>1, LivesInvariant, PTL

\* A plugin is disabled when it has failed too often in a row, and only then, however
\* starts, timeouts and stops are interleaved (fail).
THEOREM DisabledTheorem == Spec => []DisabledWhenFailing
<1>1. Init => Failures
  BY DaemonAssumption DEF Init, Failures
<1>2. ASSUME TypeOK, Failures, [Next]_vars PROVE Failures'
  <2> SUFFICES ASSUME NEW q \in Plugins
               PROVE  /\ plug'[q].failures \in {short'[q], short'[q] + 1}
                      /\ plug'[q].state = "disabled" <=> plug'[q].failures > MaxFailures
    BY DEF Failures
  <2>1. NextLife(q)
    BY <1>2, LifeStep
  <2>2. short[q] \in Nat /\ plug[q].failures \in Nat /\ MaxFailures \in Nat
    BY <1>2, DaemonAssumption DEF TypeOK, Runtime
  <2>3. CASE GoesOn(q)
    BY <1>2, <2>3 DEF GoesOn, Failures
  <2>4. CASE Counted(q)
    BY <1>2, <2>2, <2>4 DEF Counted, Failures
  <2>5. CASE Begins(q)
    BY <1>2, <2>5 DEF Begins, Failures
  <2> QED
    BY <2>1, <2>3, <2>4, <2>5 DEF NextLife, Ends
<1>3. TypeOK /\ Failures => DisabledWhenFailing
  <2> SUFFICES ASSUME TypeOK, Failures, NEW q \in Plugins
               PROVE  /\ short[q] > MaxFailures => plug[q].state = "disabled"
                      /\ plug[q].state = "disabled" => short[q] >= MaxFailures
    BY DEF DisabledWhenFailing
  <2>1. short[q] \in Nat /\ MaxFailures \in Nat
    BY DaemonAssumption DEF TypeOK
  <2> QED
    BY <2>1 DEF Failures
<1>4. TypeOK /\ Failures /\ [Next]_vars => Failures'
  BY <1>2
<1> QED
  BY <1>1, <1>3, <1>4, TypeCorrect, PTL DEF Spec

-----------------------------------------------------------------------------
(* What the scheduler holds.                                               *)

\* What is held belongs to the life that put it.
Owns(p, g) == plug[p].state = "running" /\ g = plug[p].generation

LEMMA HeldForm ==
  HeldByPresentLife <=>
    /\ \A k \in CardKey : sched.cards[k] # None => Owns(k.plugin, owner[k])
    /\ sched.image # None => Owns(sched.image.plugin, owner[ImageOf(sched.image.plugin)])
<1>1. \A p : ImageOf(p).plugin = p
  BY DEF ImageOf
<1> QED
  BY <1>1 DEF HeldByPresentLife, Owns, Held

\* Lives that run go on and nothing is added.
LEMMA HeldSame ==
  ASSUME TypeOK, HeldByPresentLife, NothingNew(sched, sched'), owner' = owner,
         \A q \in Plugins : plug[q].state = "running" =>
           plug'[q].state = "running" /\ plug'[q].generation = plug[q].generation
  PROVE  HeldByPresentLife'
<1> DEFINE Next1(p, g) == plug'[p].state = "running" /\ g = plug'[p].generation
<1>1. \A p \in Plugins : \A g : Owns(p, g) => Next1(p, g)
  BY DEF Owns
<1>2. HeldByPresentLife' <=>
        /\ \A k \in CardKey : sched'.cards[k] # None => Next1(k.plugin, owner'[k])
        /\ sched'.image # None => Next1(sched'.image.plugin, owner'[ImageOf(sched'.image.plugin)])
  <2>1. \A p : ImageOf(p).plugin = p
    BY DEF ImageOf
  <2> QED
    BY <2>1 DEF HeldByPresentLife, Held, ImageOf
<1> HIDE DEF Next1
<1>3. \A k \in CardKey : k.plugin \in Plugins
  BY DEF CardKey
<1>4. sched.image # None => sched.image.plugin \in Plugins
  BY DEF TypeOK, SchedState, Image
<1> QED
  BY <1>1, <1>2, <1>3, <1>4, HeldForm DEF NothingNew

\* A stop leaves nothing of the plugin and what there is of the others.
LEMMA HeldStop ==
  ASSUME TypeOK, HeldByPresentLife, NEW p \in Plugins, NEW s \in SchedState,
         NothingNew(sched, s), sched' = RemovePlugin(s, p), owner' = owner,
         \A q \in Plugins : q # p => plug'[q] = plug[q]
  PROVE  HeldByPresentLife'
<1> DEFINE Next1(q, g) == plug'[q].state = "running" /\ g = plug'[q].generation
<1>1. \A q \in Plugins : \A g : q # p /\ Owns(q, g) => Next1(q, g)
  BY DEF Owns
<1>2. HeldByPresentLife' <=>
        /\ \A k \in CardKey : sched'.cards[k] # None => Next1(k.plugin, owner'[k])
        /\ sched'.image # None => Next1(sched'.image.plugin, owner'[ImageOf(sched'.image.plugin)])
  <2>1. \A q : ImageOf(q).plugin = q
    BY DEF ImageOf
  <2> QED
    BY <2>1 DEF HeldByPresentLife, Held, ImageOf
<1> HIDE DEF Next1
<1>3. \A k \in CardKey : k.plugin \in Plugins
  BY DEF CardKey
<1>4. /\ \A k \in CardKey : sched'.cards[k] # None =>
           k.plugin # p /\ sched.cards[k] # None
      /\ sched'.image # None => sched.image # None /\ sched'.image.plugin = sched.image.plugin
                                  /\ sched.image.plugin # p
  BY RemovesAll DEF NothingNew
<1>5. sched.image # None => sched.image.plugin \in Plugins
  BY DEF TypeOK, SchedState, Image
<1> QED
  BY <1>1, <1>2, <1>3, <1>4, <1>5, HeldForm

\* What is asked adds at most the Card that is put, or the image, and then the counter
\* moves on.
LEMMA AskedHolds ==
  ASSUME TypeOK, NEW p \in Plugins, NEW f \in Frame, NEW s, Asked(p, f, s)
  PROVE  /\ s.counter = sched.counter => NothingNew(sched, s)
         /\ \A k \in CardKey : s.cards[k] # None =>
              \/ sched.cards[k] # None
              \/ /\ f.kind = "put" /\ k = [plugin |-> p, card |-> f.card]
                 /\ plug[p].state = "running" /\ s.counter > sched.counter
         /\ s.image # None =>
              \/ sched.image # None /\ s.image.plugin = sched.image.plugin
              \/ /\ f.kind = "image" /\ s.image.plugin = p
                 /\ plug[p].state = "running" /\ s.counter > sched.counter
<1>1. sched \in SchedState /\ sched.counter \in Nat
  BY DEF TypeOK, SchedState
<1>2. ASSUME NothingNew(sched, s)
      PROVE  /\ \A k \in CardKey : s.cards[k] # None => sched.cards[k] # None
             /\ s.image # None => sched.image # None /\ s.image.plugin = sched.image.plugin
  BY <1>2 DEF NothingNew
<1>3. CASE s = sched
  BY <1>1, <1>2, <1>3, HoldsNothingNew
<1>4. CASE plug[p].state = "running" /\ f.kind = "put"
             /\ s = Put(sched, [plugin |-> p, card |-> f.card], f.arg)
  <2> DEFINE key == [plugin |-> p, card |-> f.card]
  <2>1. key \in CardKey /\ f.arg \in CardArgs
    BY <1>4, FrameFields DEF CardKey
  <2> HIDE DEF key
  <2>2. s = Put(sched, key, f.arg) /\ plug[p].state = "running"
    BY <1>4 DEF key
  <2>3. CASE PutRefused(sched, key, f.arg)
    <3>1. NothingNew(sched, s)
      BY <1>1, <2>1, <2>2, <2>3, PutHolds
    <3> QED
      BY <1>2, <3>1
  <2>4. CASE ~PutRefused(sched, key, f.arg)
    <3>1. s.counter > sched.counter
      BY <1>1, <2>1, <2>2, <2>4, PutHolds
    <3>2. s.counter # sched.counter
      BY <1>1, <3>1
    <3>3. /\ \A k \in CardKey : s.cards[k] # None => k = key \/ sched.cards[k] # None
          /\ s.image # None => sched.image # None /\ s.image.plugin = sched.image.plugin
      BY <1>1, <2>1, <2>2, PutHolds
    <3> QED
      BY <1>4, <2>2, <3>1, <3>2, <3>3 DEF key
  <2> QED
    BY <2>3, <2>4
<1>5. CASE f.kind = "remove" /\ s = Remove(sched, [plugin |-> p, card |-> f.card])
  <2>1. [plugin |-> p, card |-> f.card] \in CardKey
    BY <1>5, FrameFields DEF CardKey
  <2>2. NothingNew(sched, s)
    BY <1>1, <1>5, <2>1, HoldsNothingNew
  <2> QED
    BY <1>2, <2>2
<1>6. CASE plug[p].state = "running" /\ f.kind = "image" /\ s = ShowImage(sched, p, f.ttl)
  <2>1. f.ttl \in ImageTtls
    BY <1>6, FrameFields
  <2>2. /\ s.cards = sched.cards /\ s.image # None /\ s.image.plugin = p
        /\ s.counter > sched.counter
    BY <1>1, <1>6, <2>1, ShowImageHolds
  <2>3. s.counter # sched.counter
    BY <1>1, <2>2
  <2> QED
    BY <1>6, <2>2, <2>3
<1>7. CASE f.kind = "notify" /\ s = Notify(sched, f.arg)
  <2>1. NothingNew(sched, s)
    BY <1>1, <1>7, FrameFields, HoldsNothingNew
  <2> QED
    BY <1>2, <2>1
<1> QED
  BY <1>3, <1>4, <1>5, <1>6, <1>7 DEF Asked

\* The Card that is put and the image that is shown are of the life that asked for it.
LEMMA HeldGoesOn ==
  ASSUME TypeOK, HeldByPresentLife, NEW e \in Event, IsCurrent(e), owner' = OwnedNow(e),
         GoesOnAfter(e)
  PROVE  HeldByPresentLife'
<1> DEFINE p == e.plugin
           g == e.generation
           key == [plugin |-> p, card |-> e.frame.card]
           o == IF e.frame.kind = "put" THEN key ELSE ImageOf(p)
           Next1(q, h) == plug'[q].state = "running" /\ h = plug'[q].generation
<1>1. p \in Plugins /\ g = plug[p].generation /\ e.frame \in Frame /\ sched \in SchedState
      /\ told[p] \in SUBSET CardKey /\ owner \in [Owned -> Nat]
  BY DEF Event, IsCurrent, TypeOK
<1>2. PICK r : SameLife(p, r) /\ \E s \in SchedState :
        Asked(p, e.frame, s) /\ Goes(p, r, s, told[p])
  BY DEF GoesOnAfter
<1>3. PICK s \in SchedState : Asked(p, e.frame, s) /\ Goes(p, r, s, told[p])
  BY <1>2
<1>4. /\ plug'[p] = r /\ sched' = s
      /\ \A q \in Plugins : q # p => plug'[q] = plug[q]
  BY <1>1, <1>2, <1>3, GoesLemma
<1>5. owner' = IF e.frame.kind \in {"put", "image"} /\ s.counter > sched.counter
               THEN [owner EXCEPT ![o] = g] ELSE owner
  BY <1>4 DEF OwnedNow
<1>6. o.plugin = p
  BY DEF ImageOf
<1>7. HeldByPresentLife' <=>
        /\ \A k \in CardKey : s.cards[k] # None => Next1(k.plugin, owner'[k])
        /\ s.image # None => Next1(s.image.plugin, owner'[ImageOf(s.image.plugin)])
  <2>1. \A q : ImageOf(q).plugin = q
    BY DEF ImageOf
  <2> QED
    BY <1>4, <2>1 DEF HeldByPresentLife, Held, ImageOf
<1>8. \A q \in Plugins : \A h : Owns(q, h) => Next1(q, h)
  BY <1>2, <1>4 DEF Owns, SameLife
<1>9. plug[p].state = "running" => Next1(p, g)
  BY <1>1, <1>2, <1>4 DEF SameLife
<1>10. /\ \A k \in CardKey : k.plugin \in Plugins /\ k \in Owned
       /\ \A q \in Plugins : ImageOf(q) \in Owned
  BY DEF CardKey, Owned, ImageOf
<1>11. \A x \in Owned : owner'[x] = owner[x] \/ (x.plugin = p /\ owner'[x] = g)
  <2> HIDE DEF o, p, g
  <2> QED
    BY <1>1, <1>5, <1>6
<1>12. e.frame.kind \in {"put", "image"} /\ s.counter > sched.counter /\ o \in Owned
         => owner'[o] = g
  <2> HIDE DEF o, p, g
  <2> QED
    BY <1>1, <1>5
<1> HIDE DEF Next1
<1>13. ASSUME NEW k \in CardKey, s.cards[k] # None PROVE Next1(k.plugin, owner'[k])
  <2>1. CASE sched.cards[k] # None
    <3>1. Owns(k.plugin, owner[k])
      BY <2>1, HeldForm
    <3>2. k.plugin \in Plugins /\ k \in Owned
      BY <1>10
    <3> QED
      BY <1>8, <1>9, <1>11, <3>1, <3>2 DEF Owns
  <2>2. CASE /\ e.frame.kind = "put" /\ k = key
             /\ plug[p].state = "running" /\ s.counter > sched.counter
    BY <1>9, <1>10, <1>12, <2>2
  <2> QED
    BY <1>1, <1>3, <1>13, <2>1, <2>2, AskedHolds
<1>14. ASSUME s.image # None
       PROVE  Next1(s.image.plugin, owner'[ImageOf(s.image.plugin)])
  <2>1. CASE sched.image # None /\ s.image.plugin = sched.image.plugin
    <3> DEFINE q == sched.image.plugin
    <3>1. q \in Plugins
      BY <2>1 DEF TypeOK, SchedState, Image
    <3>2. Owns(q, owner[ImageOf(q)])
      BY <2>1, HeldForm
    <3>3. ImageOf(q) \in Owned /\ ImageOf(q).plugin = q
      BY <1>10, <3>1 DEF ImageOf
    <3> HIDE DEF q
    <3>4. Next1(q, owner'[ImageOf(q)])
      BY <1>8, <1>9, <1>11, <3>1, <3>2, <3>3 DEF Owns
    <3> QED
      BY <2>1, <3>4 DEF q
  <2>2. CASE /\ e.frame.kind = "image" /\ s.image.plugin = p
             /\ plug[p].state = "running" /\ s.counter > sched.counter
    <3>1. o = ImageOf(p) /\ o \in Owned
      BY <1>1, <1>10, <2>2
    <3> QED
      BY <1>9, <1>12, <2>2, <3>1
  <2> QED
    BY <1>1, <1>3, <1>14, <2>1, <2>2, AskedHolds
<1> QED
  BY <1>7, <1>13, <1>14

\* A life that goes on runs on.
LEMMA RunsOn ==
  ASSUME NEW q \in Plugins, GoesOn(q) \/ plug'[q] = plug[q] \/ Begins(q) \/ CannotBegin(q)
                              \/ TimesOut(q)
  PROVE  plug[q].state = "running" =>
           plug'[q].state = "running" /\ plug'[q].generation = plug[q].generation
BY DEF GoesOn, Begins, CannotBegin, TimesOut

LEMMA HeldMessage ==
  ASSUME TypeOK, HeldByPresentLife, NEW p \in Plugins, NEW b \in SUBSET CardKey,
         Send(p, plug[p], sched, b), owner' = owner
  PROVE  HeldByPresentLife'
<1>1. sched \in SchedState /\ told[p] \in SUBSET CardKey /\ NothingNew(sched, sched)
  BY HoldsNothingNew DEF TypeOK
<1>2. CASE SameLife(p, plug[p]) /\ Stop(p, plug[p], sched)
  BY <1>1, <1>2, StopLemma, HeldStop
<1>3. CASE \E n : /\ SameLife(p, n) /\ n.state = plug[p].state
                  /\ Goes(p, n, sched, IF Active(plug[p]) THEN b ELSE told[p])
  <2>1. PICK n : SameLife(p, n) /\ Goes(p, n, sched, IF Active(plug[p]) THEN b ELSE told[p])
    BY <1>3
  <2>2. /\ plug'[p] = n /\ sched' = sched
        /\ \A q \in Plugins : q # p => plug'[q] = plug[q]
    BY <1>1, <2>1, GoesLemma
  <2>3. \A q \in Plugins : plug[q].state = "running" =>
          plug'[q].state = "running" /\ plug'[q].generation = plug[q].generation
    BY <2>1, <2>2 DEF SameLife
  <2> QED
    BY <1>1, <2>2, <2>3, HeldSame
<1> QED
  BY <1>2, <1>3, MessageLemma

LEMMA HeldStep ==
  ASSUME TypeOK, HeldByPresentLife, [Next]_vars
  PROVE  HeldByPresentLife'
<1>0. sched \in SchedState /\ NothingNew(sched, sched)
  BY HoldsNothingNew DEF TypeOK
<1>1. CASE HandleEvent
  <2> DEFINE e == Head(events)
  <2>1. e \in Event /\ e.plugin \in Plugins /\ e.frame \in Frame
    BY <1>1, HeadEvent DEF Event
  <2> HIDE DEF e
  <2>2. CASE Dropped
    BY <1>0, <2>2, HeldSame DEF Dropped
  <2>3. CASE owner' = OwnedNow(e) /\ EndedBy(e)
    <3>1. PICK r : SameLife(e.plugin, r) /\ \E s \in SchedState :
            /\ s = sched \/ (Asked(e.plugin, e.frame, s) /\ s.counter = sched.counter)
            /\ Stop(e.plugin, r, s)
      BY <2>3 DEF EndedBy
    <3>2. PICK s \in SchedState :
            /\ s = sched \/ (Asked(e.plugin, e.frame, s) /\ s.counter = sched.counter)
            /\ Stop(e.plugin, r, s)
      BY <3>1
    <3>3. NothingNew(sched, s) /\ s.counter = sched.counter
      BY <1>0, <2>1, <3>2, AskedHolds
    <3>4. /\ sched' = RemovePlugin(s, e.plugin)
          /\ \A q \in Plugins : q # e.plugin => plug'[q] = plug[q]
      BY <2>1, <3>1, <3>2, StopLemma
    <3>5. owner' = owner
      <4>1. sched'.counter = sched.counter /\ sched.counter \in Nat
        BY <2>1, <3>3, <3>4, RemovesAll DEF TypeOK, SchedState
      <4> QED
        BY <2>3, <4>1 DEF OwnedNow
    <3> QED
      BY <2>1, <3>3, <3>4, <3>5, HeldStop
  <2>4. CASE IsCurrent(e) /\ owner' = OwnedNow(e) /\ GoesOnAfter(e)
    BY <2>1, <2>4, HeldGoesOn
  <2> QED
    BY <1>1, <2>2, <2>3, <2>4, HandleCases DEF e
<1>2. CASE TapCard
  <2>1. PICK k \in visible : Send(k.plugin, plug[k.plugin], sched, told[k.plugin])
    BY <1>2 DEF TapCard
  <2>2. k.plugin \in Plugins /\ told[k.plugin] \in SUBSET CardKey
    BY DEF TypeOK, CardKey
  <2> QED
    BY <1>2, <2>1, <2>2, HeldMessage DEF TapCard
<1>3. CASE SendVisibility
  <2>1. PICK c \in changes :
          Send(c.key.plugin, plug[c.key.plugin], sched,
               IF c.visible THEN told[c.key.plugin] \cup {c.key}
               ELSE told[c.key.plugin] \ {c.key})
    BY <1>3 DEF SendVisibility
  <2>2. owner' = owner
    BY <1>3 DEF SendVisibility
  <2> QED
    BY <2>1, <2>2, ChangeLemma, HeldMessage
<1>4. CASE Launch \/ LaunchFails \/ HelloTimeout
  <2>1. PICK p \in Plugins :
          /\ Turn(p)
          /\ \A q \in Plugins : q # p => plug'[q] = plug[q]
          /\ Begins(p) \/ CannotBegin(p) \/ TimesOut(p)
    BY <1>4, TurnLemma
  <2>2. NothingNew(sched, sched') /\ owner' = owner
    BY <1>0, <2>1, RemovesAll DEF Begins, CannotBegin, TimesOut, Turn
  <2>3. \A q \in Plugins : plug[q].state = "running" =>
          plug'[q].state = "running" /\ plug'[q].generation = plug[q].generation
    BY <2>1, RunsOn
  <2> QED
    BY <2>2, <2>3, HeldSame
<1>5. CASE WriteMessage \/ Tick
  <2>1. NothingNew(sched, sched') /\ owner' = owner
    BY <1>0, <1>5, HoldsNothingNew DEF WriteMessage, Tick, history
  <2> QED
    BY <1>5, <2>1, QuietLemma, HeldSame
<1>6. CASE \/ PassOver \/ BeginTick \/ TapBanner \/ SpoolNotice \/ PlanScreen \/ ReadFrame
           \/ UNCHANGED vars
  <2>1. NothingNew(sched, sched')
    BY <1>0, <1>6, HoldsNothingNew
       DEF PassOver, BeginTick, TapBanner, SpoolNotice, PlanScreen, ReadFrame, vars
  <2>2. UNCHANGED <<plug, owner>>
    BY <1>6 DEF PassOver, Turn, BeginTick, TapBanner, SpoolNotice, PlanScreen, ReadFrame,
                vars, history
  <2> QED
    BY <2>1, <2>2, HeldSame
<1> QED
  BY <1>1, <1>2, <1>3, <1>4, <1>5, <1>6 DEF Next, Loop

\* What the scheduler holds for a plugin is of the life that runs now: nothing of a dead
\* life comes to the screen, however late its frames are read (stop_plugin, handle).
THEOREM HeldTheorem == Spec => []HeldByPresentLife
<1>1. Init => HeldByPresentLife
  BY DEF Init, NewScheduler, HeldByPresentLife, Held
<1>2. TypeOK /\ HeldByPresentLife /\ [Next]_vars => HeldByPresentLife'
  BY HeldStep
<1> QED
  BY <1>1, <1>2, TypeCorrect, PTL DEF Spec

-----------------------------------------------------------------------------
(* What plugins are told to be visible.                                    *)

\* What a step changes for others, p does not notice.
LEMMA BelievedSame ==
  ASSUME TypeOK, NEW p \in Plugins, BelievedBy(p), told'[p] = told[p],
         visible' \subseteq CardKey, changes' \subseteq Change,
         \/ plug'[p].state = plug[p].state
         \/ plug[p].state = "handshake" /\ plug'[p].state = "running",
         \A k \in CardKey : k.plugin = p => (k \in visible' <=> k \in visible),
         \A c \in Change : c.key.plugin = p => (c \in changes' <=> c \in changes)
  PROVE  BelievedBy(p)'
<1>1. visible \subseteq CardKey /\ changes \subseteq Change
  BY DEF TypeOK
<1>2. \A k \in told'[p] : k.plugin = p
  BY DEF BelievedBy
<1>3. plug'[p].state # "running" => told'[p] = {} /\ \A k \in visible' : k.plugin # p
  BY DEF BelievedBy
<1>4. plug'[p].state = "handshake" => \A c \in changes' : c.key.plugin # p
  BY DEF BelievedBy
<1>5. ASSUME plug'[p].state = "running", NEW k \in CardKey, k.plugin = p
      PROVE  /\ \A c \in changes' : c.key = k =>
                  /\ c.visible <=> k \in visible'
                  /\ c.visible <=> k \notin told'[p]
             /\ (\A c \in changes' : c.key # k) => (k \in told'[p] <=> k \in visible')
  <2>1. \A c \in changes' : c.key = k => c \in changes
    BY <1>5
  <2>2. \A c \in changes : c.key = k => c \in changes'
    BY <1>1, <1>5
  <2>3. CASE plug[p].state = "running"
    BY <1>5, <2>1, <2>2, <2>3 DEF BelievedBy
  <2>4. CASE plug[p].state = "handshake"
    <3>1. k \notin told[p] /\ k \notin visible /\ \A c \in changes : c.key # k
      BY <1>5, <2>4 DEF BelievedBy
    <3> QED
      BY <1>5, <2>1, <3>1
  <2> QED
    BY <1>5, <2>3, <2>4
<1> QED
  BY <1>2, <1>3, <1>4, <1>5 DEF BelievedBy

\* One that is stopped believes nothing and has nothing to be seen.
LEMMA BelievedStopped ==
  ASSUME NEW p \in Plugins, ~Active(plug'[p]), told'[p] = {},
         \A k \in visible' : k.plugin # p
  PROVE  BelievedBy(p)'
BY DEF BelievedBy, Active

LEMMA BelievedStop ==
  ASSUME TypeOK, Believed, NEW p \in Plugins, NEW r, SameLife(p, r), NEW s \in SchedState,
         Stop(p, r, s), changes' \subseteq Change,
         \A c \in Change : c.key.plugin # p => (c \in changes' <=> c \in changes)
  PROVE  \A q \in Plugins : BelievedBy(q)'
<1>1. /\ LifeTypes' /\ visible' = {k \in visible : k.plugin # p} /\ told'[p] = {}
      /\ \A q \in Plugins : q # p => plug'[q] = plug[q] /\ told'[q] = told[q]
  BY StopLemma
<1>2. ~Active(plug'[p])
  <2>1. Ends(p) \/ ~Active(plug'[p])
    BY StopEnds
  <2> QED
    BY <2>1 DEF Ends, Counted, Active
<1>3. BelievedBy(p)'
  BY <1>1, <1>2, BelievedStopped
<1>4. ASSUME NEW q \in Plugins, q # p PROVE BelievedBy(q)'
  BY <1>1, <1>4, BelievedSame DEF Believed, LifeTypes
<1> QED
  BY <1>3, <1>4

\* A message that tells p what it believes already.
LEMMA BelievedGoes ==
  ASSUME TypeOK, Believed, NEW p \in Plugins, NEW r, SameLife(p, r), NEW s \in SchedState,
         Goes(p, r, s, told[p]), changes' = changes
  PROVE  \A q \in Plugins : BelievedBy(q)'
<1>1. told[p] \in SUBSET CardKey /\ changes \subseteq Change /\ visible \subseteq CardKey
  BY DEF TypeOK
<1>2. /\ \A q \in Plugins : q # p => plug'[q] = plug[q] /\ told'[q] = told[q]
      /\ plug'[p] = r /\ told'[p] = told[p] /\ visible' = visible
  BY <1>1, GoesLemma
<1>3. \A q \in Plugins : /\ told'[q] = told[q]
                         /\ \/ plug'[q].state = plug[q].state
                            \/ plug[q].state = "handshake" /\ plug'[q].state = "running"
  BY <1>2 DEF SameLife
<1> QED
  BY <1>1, <1>2, <1>3, BelievedSame DEF Believed

\* A Visibility that is sent makes its plugin believe what is so.
LEMMA BelievedTold ==
  ASSUME TypeOK, Believed, NEW c \in changes, changes' = changes \ {c},
         Send(c.key.plugin, plug[c.key.plugin], sched,
              IF c.visible THEN told[c.key.plugin] \cup {c.key}
              ELSE told[c.key.plugin] \ {c.key})
  PROVE  \A q \in Plugins : BelievedBy(q)'
<1> DEFINE p == c.key.plugin
           b == IF c.visible THEN told[p] \cup {c.key} ELSE told[p] \ {c.key}
<1>1. /\ p \in Plugins /\ c.key \in CardKey /\ c.visible \in BOOLEAN /\ b \in SUBSET CardKey
      /\ told[p] \in SUBSET CardKey
      /\ changes \subseteq Change /\ visible \subseteq CardKey /\ sched \in SchedState
  BY ChangeLemma DEF TypeOK
<1>2. /\ changes' \subseteq Change
      /\ \A d \in Change : d.key.plugin # p => (d \in changes' <=> d \in changes)
      /\ \A d \in changes' : d \in changes /\ d.key # c.key
      /\ \A d \in changes : d.key # c.key => d \in changes'
  BY <1>1 DEF Believed
<1> HIDE DEF b, p
<1>3. CASE SameLife(p, plug[p]) /\ Stop(p, plug[p], sched)
  BY <1>1, <1>2, <1>3, BelievedStop
<1>4. CASE \E n : /\ SameLife(p, n) /\ n.state = plug[p].state
                  /\ Goes(p, n, sched, IF Active(plug[p]) THEN b ELSE told[p])
  <2>1. PICK n : /\ SameLife(p, n) /\ n.state = plug[p].state
                 /\ Goes(p, n, sched, IF Active(plug[p]) THEN b ELSE told[p])
    BY <1>4
  <2>2. /\ \A q \in Plugins : q # p => plug'[q] = plug[q] /\ told'[q] = told[q]
        /\ plug'[p] = n /\ told'[p] = (IF Active(plug[p]) THEN b ELSE told[p])
        /\ visible' = visible
    BY <1>1, <2>1, GoesLemma
  <2>3. ASSUME NEW q \in Plugins, q # p PROVE BelievedBy(q)'
    BY <1>1, <1>2, <2>2, <2>3, BelievedSame DEF Believed
  <2>4. BelievedBy(p)'
    <3>1. BelievedBy(p) /\ plug'[p].state = plug[p].state /\ c.key.plugin = p
      BY <1>1, <2>1, <2>2 DEF Believed, p
    <3>2. plug[p].state # "handshake"
      BY <3>1 DEF BelievedBy
    <3>3. CASE plug[p].state # "running"
      <4>1. told'[p] = {} /\ ~Active(plug'[p])
        BY <2>2, <3>1, <3>2, <3>3 DEF BelievedBy, Active
      <4> QED
        BY <2>2, <3>1, <3>3, <4>1, <1>1, BelievedStopped DEF BelievedBy
    <3>4. CASE plug[p].state = "running"
      <4>1. told'[p] = b
        BY <2>2, <3>4 DEF Active
      <4>2. /\ c.key \in b <=> c.visible
            /\ \A k \in CardKey : k # c.key => (k \in b <=> k \in told[p])
            /\ \A k \in b : k = c.key \/ k \in told[p]
        BY <1>1 DEF b
      <4>3. c.visible <=> c.key \in visible
        BY <1>1, <3>1, <3>4 DEF BelievedBy
      <4>4. \A k \in told'[p] : k.plugin = p
        BY <3>1, <4>1, <4>2 DEF BelievedBy
      <4>5. ASSUME NEW k \in CardKey, k.plugin = p
            PROVE  /\ \A d \in changes' : d.key = k =>
                        /\ d.visible <=> k \in visible'
                        /\ d.visible <=> k \notin told'[p]
                   /\ (\A d \in changes' : d.key # k) => (k \in told'[p] <=> k \in visible')
        <5>1. CASE k = c.key
          BY <1>2, <2>2, <4>1, <4>2, <4>3, <5>1
        <5>2. CASE k # c.key
          BY <1>2, <2>2, <3>1, <3>4, <4>1, <4>2, <4>5, <5>2 DEF BelievedBy
        <5> QED
          BY <5>1, <5>2
      <4> QED
        BY <3>1, <3>4, <4>4, <4>5 DEF BelievedBy
    <3> QED
      BY <3>3, <3>4
  <2> QED
    BY <2>3, <2>4
<1> QED
  BY <1>1, <1>3, <1>4, MessageLemma DEF b, p

\* The changes are what makes the difference to the new screen.
LEMMA BelievedPlan ==
  ASSUME TypeOK, Believed, HeldByPresentLife, PlanScreen
  PROVE  Believed'
<1>1. /\ changes = {} /\ UNCHANGED <<plug, told>>
      /\ changes' = {[key |-> k, visible |-> FALSE] : k \in visible \ visible'}
                      \cup {[key |-> k, visible |-> TRUE] : k \in visible' \ visible}
      /\ pc' = IF changes' = {} THEN "events" ELSE "notify"
  BY DEF PlanScreen, Believed, history
<1>2. visible \subseteq CardKey /\ visible' \subseteq CardKey
      /\ \A p \in Plugins : told[p] \subseteq CardKey
  BY PlanVisible DEF TypeOK
<1>3. \A k \in visible' : plug[k.plugin].state = "running"
  <2>1. \A k \in visible' : k \in CardKey /\ sched.cards[k] # None
    BY PlanVisible DEF Held, NothingNew
  <2> QED
    BY <2>1, HeldForm DEF Owns
<1>4. \A c \in changes' : /\ c.key \in visible \cup visible'
                          /\ c.visible <=> c.key \in visible'
                          /\ c.visible <=> c.key \notin visible
                          /\ c.visible \in BOOLEAN
                          /\ c = [key |-> c.key, visible |-> c.visible]
  <2> TAKE c \in changes'
  <2>1. CASE \E k \in visible \ visible' : c = [key |-> k, visible |-> FALSE]
    BY <2>1
  <2>2. CASE \E k \in visible' \ visible : c = [key |-> k, visible |-> TRUE]
    BY <2>2
  <2> QED
    BY <1>1, <2>1, <2>2
<1>5. \A k \in CardKey : (\A c \in changes' : c.key # k) => (k \in visible <=> k \in visible')
  <2> SUFFICES ASSUME NEW k \in CardKey, ~(k \in visible <=> k \in visible')
               PROVE  \E c \in changes' : c.key = k
    OBVIOUS
  <2>1. CASE k \in visible \ visible'
    <3>1. [key |-> k, visible |-> FALSE] \in changes'
      BY <1>1, <2>1
    <3> QED
      BY <3>1
  <2>2. CASE k \in visible' \ visible
    <3>1. [key |-> k, visible |-> TRUE] \in changes'
      BY <1>1, <2>2
    <3> QED
      BY <3>1
  <2> QED
    BY <2>1, <2>2
<1>6. \A c, d \in changes' : c.key = d.key => c = d
  <2> SUFFICES ASSUME NEW c \in changes', NEW d \in changes', c.key = d.key PROVE c = d
    OBVIOUS
  <2>1. c.visible = d.visible
    BY <1>4
  <2> QED
    BY <1>4, <2>1
<1>7. ASSUME NEW p \in Plugins PROVE BelievedBy(p)'
  <2>1. BelievedBy(p) /\ plug'[p] = plug[p] /\ told'[p] = told[p]
    BY <1>1 DEF Believed
  <2>2. \A k \in told[p] : k.plugin = p
    BY <2>1 DEF BelievedBy
  <2>3. plug[p].state # "running" => told[p] = {} /\ \A k \in visible' : k.plugin # p
    BY <1>3, <2>1 DEF BelievedBy
  <2>4. plug[p].state # "running" => \A c \in changes' : c.key.plugin # p
    BY <1>4, <2>1, <2>3 DEF BelievedBy
  <2>5. ASSUME plug[p].state = "running", NEW k \in CardKey, k.plugin = p
        PROVE  /\ \A c \in changes' : c.key = k =>
                    /\ c.visible <=> k \in visible'
                    /\ c.visible <=> k \notin told[p]
               /\ (\A c \in changes' : c.key # k) => (k \in told[p] <=> k \in visible')
    <3>1. k \in told[p] <=> k \in visible
      BY <1>1, <2>1, <2>5 DEF BelievedBy
    <3> QED
      BY <1>4, <1>5, <3>1
  <2> QED
    BY <2>1, <2>2, <2>3, <2>4, <2>5 DEF BelievedBy
<1> QED
  BY <1>1, <1>6, <1>7 DEF Believed

LEMMA BelievedTurn ==
  ASSUME TypeOK, Believed, Launch \/ LaunchFails \/ HelloTimeout
  PROVE  Believed'
<1>1. PICK p \in Plugins :
        /\ Turn(p)
        /\ \A q \in Plugins : q # p => plug'[q] = plug[q]
        /\ Begins(p) \/ CannotBegin(p) \/ TimesOut(p)
  BY TurnLemma
<1>2. /\ pc \in {"inputs", "start"} /\ UNCHANGED <<visible, changes>> /\ changes = {}
      /\ pc' \in {"plan", "start"}
  BY <1>1 DEF Turn, Believed
<1>3. /\ told \in [Plugins -> SUBSET CardKey] /\ visible \subseteq CardKey /\ plug[p] \in Runtime
  BY DEF TypeOK
<1>4. plug[p].state # "running"
  BY <1>1 DEF Begins, CannotBegin, TimesOut
<1>5. told[p] = {} /\ \A k \in visible : k.plugin # p
  BY <1>4 DEF Believed, BelievedBy
<1>6. /\ \A q \in Plugins : told'[q] = told[q]
  BY <1>1, <1>3, <1>5 DEF Begins, CannotBegin, TimesOut
<1>7. plug'[p].state # "running"
  BY <1>1, <1>3, StoppedLemma DEF Begins, CannotBegin, TimesOut
<1>8. BelievedBy(p)'
  BY <1>2, <1>5, <1>6, <1>7 DEF BelievedBy
<1>9. ASSUME NEW q \in Plugins, q # p PROVE BelievedBy(q)'
  <2>1. {} \subseteq Change
    OBVIOUS
  <2> QED
    BY <1>1, <1>2, <1>3, <1>6, <1>9, <2>1, BelievedSame DEF Believed
<1> QED
  BY <1>2, <1>8, <1>9 DEF Believed

LEMMA BelievedStep ==
  ASSUME TypeOK, Believed, HeldByPresentLife, [Next]_vars
  PROVE  Believed'
<1>1. CASE HandleEvent
  <2> DEFINE e == Head(events)
  <2>1. /\ e.plugin \in Plugins /\ told[e.plugin] \in SUBSET CardKey
        /\ changes \subseteq Change /\ UNCHANGED <<pc, changes>>
    BY <1>1, HeadEvent DEF Event, TypeOK, HandleEvent
  <2> HIDE DEF e
  <2>2. CASE Dropped
    BY <2>1, <2>2 DEF Dropped, Believed, BelievedBy
  <2>3. CASE EndedBy(e)
    <3>1. PICK r : SameLife(e.plugin, r) /\ \E s \in SchedState : Stop(e.plugin, r, s)
      BY <2>3 DEF EndedBy
    <3>2. \A q \in Plugins : BelievedBy(q)'
      BY <2>1, <3>1, BelievedStop
    <3> QED
      BY <2>1, <3>2 DEF Believed
  <2>4. CASE GoesOnAfter(e)
    <3>1. PICK r : SameLife(e.plugin, r) /\ \E s \in SchedState :
                     Goes(e.plugin, r, s, told[e.plugin])
      BY <2>4 DEF GoesOnAfter
    <3>2. \A q \in Plugins : BelievedBy(q)'
      BY <2>1, <3>1, BelievedGoes
    <3> QED
      BY <2>1, <3>2 DEF Believed
  <2> QED
    BY <1>1, <2>2, <2>3, <2>4, HandleCases DEF e
<1>2. CASE TapCard
  <2>1. PICK k \in visible : Send(k.plugin, plug[k.plugin], sched, told[k.plugin])
    BY <1>2 DEF TapCard
  <2>2. /\ k.plugin \in Plugins /\ told[k.plugin] \in SUBSET CardKey
        /\ sched \in SchedState /\ changes \subseteq Change /\ UNCHANGED <<pc, changes>>
    BY <1>2 DEF TypeOK, CardKey, TapCard
  <2> DEFINE p == k.plugin
  <2> HIDE DEF p
  <2>3. p \in Plugins /\ told[p] \in SUBSET CardKey /\ Send(p, plug[p], sched, told[p])
    BY <2>1, <2>2 DEF p
  <2>4. \/ SameLife(p, plug[p]) /\ Stop(p, plug[p], sched)
        \/ \E n : SameLife(p, n) /\ Goes(p, n, sched, told[p])
    BY <2>3, MessageLemma
  <2>5. \A q \in Plugins : BelievedBy(q)'
    BY <2>2, <2>3, <2>4, BelievedStop, BelievedGoes
  <2> QED
    BY <2>2, <2>5 DEF Believed
<1>3. CASE SendVisibility
  <2>1. PICK c \in changes :
          /\ changes' = changes \ {c}
          /\ Send(c.key.plugin, plug[c.key.plugin], sched,
                  IF c.visible THEN told[c.key.plugin] \cup {c.key}
                  ELSE told[c.key.plugin] \ {c.key})
    BY <1>3 DEF SendVisibility
  <2>2. \A q \in Plugins : BelievedBy(q)'
    BY <2>1, BelievedTold
  <2>3. pc' # "notify" => changes' = {}
    BY <1>3 DEF SendVisibility
  <2> QED
    BY <2>1, <2>2, <2>3 DEF Believed
<1>4. CASE Launch \/ LaunchFails \/ HelloTimeout
  BY <1>4, BelievedTurn
<1>5. CASE PlanScreen
  BY <1>5, BelievedPlan
<1>6. CASE WriteMessage \/ Tick
  <2>1. UNCHANGED <<pc, visible, told, changes>>
        /\ \A q \in Plugins : plug'[q].state = plug[q].state
    BY <1>6, QuietLemma DEF WriteMessage, Tick, history
  <2> QED
    BY <2>1 DEF Believed, BelievedBy
<1>7. CASE PassOver \/ BeginTick \/ TapBanner \/ SpoolNotice \/ ReadFrame \/ UNCHANGED vars
  <2>1. UNCHANGED <<plug, visible, told, changes>>
    BY <1>7 DEF PassOver, Turn, BeginTick, TapBanner, SpoolNotice, ReadFrame, vars, history
  <2>2. (pc' = "notify" => pc = "notify") /\ (pc # "notify" => pc' # "notify")
        /\ (pc = "notify" => pc' = "notify")
    BY <1>7 DEF PassOver, Turn, BeginTick, TapBanner, SpoolNotice, ReadFrame, vars
  <2> QED
    BY <2>1, <2>2 DEF Believed, BelievedBy
<1> QED
  BY <1>1, <1>2, <1>3, <1>4, <1>5, <1>6, <1>7 DEF Next, Loop

\* When the loop waits for events every running life has been told of exactly those of
\* its Cards that are on show, whichever lives began and ended on the way, and is never
\* told twice or too early (sync_visibility).
THEOREM VisibilityTheorem == Spec => []VisibilityTold
<1>1. Init => Believed
  BY DEF Init, Believed, BelievedBy
<1>2. TypeOK /\ Believed /\ HeldByPresentLife /\ [Next]_vars => Believed'
  BY BelievedStep
<1>3. ASSUME TypeOK, Believed PROVE VisibilityTold
  <2>1. ASSUME NEW p \in Plugins, plug[p].state = "running", pc = "events"
        PROVE  told[p] = {k \in visible : k.plugin = p}
    <3>1. told[p] \subseteq CardKey /\ visible \subseteq CardKey /\ changes = {}
      BY <1>3, <2>1 DEF TypeOK, Believed
    <3> QED
      BY <1>3, <2>1, <3>1 DEF Believed, BelievedBy
  <2>2. \A c \in changes : c.key \in CardKey /\ c.key.plugin \in Plugins
    BY <1>3, ChangeLemma
  <2>3. ASSUME NEW c \in changes
        PROVE  /\ plug[c.key.plugin].state # "handshake"
               /\ plug[c.key.plugin].state = "running" =>
                    (c.visible <=> c.key \notin told[c.key.plugin])
    BY <1>3, <2>2 DEF Believed, BelievedBy
  <2> QED
    BY <2>1, <2>3 DEF VisibilityTold
<1>4. TypeOK /\ Believed => VisibilityTold
  BY <1>3
<1> QED
  BY <1>1, <1>2, <1>4, TypeCorrect, HeldTheorem, PTL DEF Spec
=============================================================================
