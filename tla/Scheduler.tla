------------------------------ MODULE Scheduler ------------------------------
(* The scheduler of module Scheduling, driven by arbitrary calls: what the  *)
(* daemon may rely on whatever plugins, user and spool ask for.             *)
EXTENDS Scheduling

CONSTANTS
  MaxId,         \* bound of the model: ids and revisions handed out
  MaxTaps        \* bound of the model: banner taps by the user

ASSUME SchedulerAssumption == MaxId \in Nat /\ MaxTaps \in Nat

VARIABLES
  sched,     \* the Scheduler
  plan,      \* the plan returned last
  taps,      \* banner taps so far (bounds the model)
  lastShown  \* history: the id of the notice that became current last

vars == <<sched, plan, taps, lastShown>>

Init ==
  /\ sched = NewScheduler
  /\ plan = EmptyPlan
  /\ taps = 0
  /\ lastShown = 0

\* An operation on the scheduler alone.
Apply(s) ==
  /\ sched' = s
  /\ lastShown' = IF s.current = None THEN lastShown ELSE s.current.notice.id
  /\ UNCHANGED <<plan, taps>>

PutCard(key, arg) == sched.counter < MaxId /\ Apply(Put(sched, key, arg))
RemoveCard(key)   == sched.cards[key] # None /\ Apply(Remove(sched, key))
StopPlugin(p)     == Apply(RemovePlugin(sched, p))
PutImage(p, ttl)  == sched.counter < MaxId /\ Apply(ShowImage(sched, p, ttl))
PostNotice(arg)   == sched.counter < MaxId /\ Apply(Notify(sched, arg))
Tick              == Apply(Age(sched))

TapBanner ==
  /\ taps < MaxTaps
  /\ taps' = taps + 1
  /\ sched' = Advance(sched)
  /\ UNCHANGED <<plan, lastShown>>

MakePlan ==
  /\ sched' = Prepare(sched)
  /\ plan' = PlanOf(sched')
  /\ lastShown' = IF sched'.current = None THEN lastShown ELSE sched'.current.notice.id
  /\ UNCHANGED taps

Next ==
  \/ \E k \in CardKey, a \in CardArgs : PutCard(k, a)
  \/ \E k \in CardKey : RemoveCard(k)
  \/ \E p \in Plugins : StopPlugin(p)
  \/ \E p \in Plugins, ttl \in ImageTtls : PutImage(p, ttl)
  \/ \E a \in NoticeArgs : PostNotice(a)
  \/ TapBanner
  \/ MakePlan
  \/ Tick

\* The daemon's loop never stops planning and time never stops (mod.rs, step).
Spec == Init /\ [][Next]_vars
Fairness == WF_vars(MakePlan) /\ WF_vars(Tick)

\* Cards and notices come without end: when the ids of the model have run out, a
\* call takes the last one again.  Only for questions that compare no ids.
Again ==
  /\ sched.counter = MaxId
  /\ LET s == [sched EXCEPT !.counter = MaxId - 1]
     IN  \/ \E k \in CardKey, a \in CardArgs : Apply(Put(s, k, a))
         \/ \E a \in NoticeArgs : Apply(Notify(s, a))
EndlessSpec == Init /\ [][Next \/ Again]_vars /\ Fairness

-----------------------------------------------------------------------------
(* Properties.                                                             *)

\* The types of the state: no deadline, index or counter leaves its range.
TypeOK ==
  /\ sched \in SchedState
  /\ plan \in Plan
  /\ taps \in Nat
  /\ lastShown \in Nat

\* No plugin ever holds more Cards than it was granted, whatever it replaces,
\* removes or lets expire (the count in Scheduler::put).
CardLimitHeld  == WithinLimit(sched)

\* Notices are shown at most once and in the order they came: what waits is
\* newer than everything shown so far and is sorted by arrival, and the queue
\* never exceeds its limit (notify, expire).
NoticesInOrder == Queued(sched, lastShown)

\* Is the plan p made of what the state s holds?
CurrentPlan(s, p) ==
  /\ \A x \in ShownBy(p) :
       /\ x.left # 0
       /\ CASE x.source.kind = "card"   -> /\ s.cards[x.source.key] # None
                                           /\ s.cards[x.source.key].revision = x.source.id
            [] x.source.kind = "notice" -> s.current.notice.id = x.source.id
            [] x.source.kind = "image"  -> s.image.id = x.source.id
  /\ \A a, b \in {"top", "bottom", "overlay"} :
       a # b /\ p[a] # None => p[a] # p[b]

\* A plan shows only what is held and has time left at that moment, and shows
\* nothing in two slots at once (plan calls expire before it chooses).
PlanIsCurrent == [][MakePlan => CurrentPlan(sched', plan')]_vars

\* How strong a claim on the overlay is: a high notice beats every Card of its
\* priority, and an image counts as a Card of normal priority.
Claims(s) ==
  {<<s.cards[k].priority, 0, s.cards[k].revision>> : k \in InPlace(s, "Overlay")}
  \cup (IF s.image = None THEN {} ELSE {<<Normal, 0, s.image.id>>})
  \cup (IF HasHighNotice(s) THEN {<<High, 1, s.current.notice.id>>} ELSE {})
Weaker(a, b) ==
  \/ a[1] < b[1]
  \/ a[1] = b[1] /\ a[2] < b[2]
  \/ a[1] = b[1] /\ a[2] = b[2] /\ a[3] < b[3]

\* Is o the content of the strongest claim, or None without any?
Strongest(s, o) ==
  /\ (o = None) <=> (Claims(s) = {})
  /\ o # None =>
       \E c \in Claims(s) :
         /\ o.source.id = c[3]
         /\ \A d \in Claims(s) : d = c \/ Weaker(d, c)

\* The overlay shows the strongest claim of all, by one order over Cards, image
\* and notice; plan chooses in three stages, which must agree with that order.
OverlayIsStrongest == [][MakePlan => Strongest(sched', plan'.overlay)]_vars

Banners == InPlace(sched, "Banner")

\* While the same Cards are banners and the user does not tap, each of them is shown
\* again and again, whatever notices come between, without end (the rotation of
\* plan).  The two ways to read a page, two banners to a page or one beside a
\* notice, take turns with the notices: no turns may leave a banner out.
EveryBannerShown ==
  \A banners \in SUBSET CardKey :
    <>[](InPlace(sched, "Banner") = banners) =>
       \A k \in banners : []<>(k \in VisibleCards(plan))

=============================================================================
