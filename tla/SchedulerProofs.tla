--------------------------- MODULE SchedulerProofs ---------------------------
(* Proofs about Scheduler for every value of its constants: its invariants  *)
(* follow from what each operation preserves (SchedulingProofs).            *)
EXTENDS SchedulerHistory, SchedulingProofs

-----------------------------------------------------------------------------
\* The state keeps its types whatever is called in whatever order.
THEOREM TypeCorrect == Spec => []TypeOK
<1>1. Init => TypeOK
  BY SchedulingAssumption
     DEF Init, TypeOK, NewScheduler, SchedState, EmptyPlan, Plan
<1>2. TypeOK /\ [Next]_vars => TypeOK'
  <2> SUFFICES ASSUME TypeOK, [Next]_vars PROVE TypeOK'
    OBVIOUS
  <2>1. ASSUME NEW s \in SchedState, Apply(s) PROVE TypeOK'
    <3>1. s.current # None => s.current.notice.id \in Nat
      BY DEF SchedState, Current, Notice
    <3> QED
      BY <2>1, <3>1 DEF TypeOK, Apply
  <2>2. ASSUME NEW k \in CardKey, NEW a \in CardArgs, PutCard(k, a) PROVE TypeOK'
    BY <2>1, <2>2, PutType DEF PutCard, TypeOK
  <2>3. ASSUME NEW k \in CardKey, RemoveCard(k) PROVE TypeOK'
    BY <2>1, <2>3, RemoveType DEF RemoveCard, TypeOK
  <2>4. ASSUME NEW p \in Plugins, StopPlugin(p) PROVE TypeOK'
    BY <2>1, <2>4, RemovePluginType DEF StopPlugin, TypeOK
  <2>5. ASSUME NEW p \in Plugins, NEW ttl \in ImageTtls, PutImage(p, ttl) PROVE TypeOK'
    BY <2>1, <2>5, ShowImageType DEF PutImage, TypeOK
  <2>6. ASSUME NEW a \in NoticeArgs, PostNotice(a) PROVE TypeOK'
    BY <2>1, <2>6, NotifyType DEF PostNotice, TypeOK
  <2>7. CASE TapBanner
    BY <2>7, AdvanceType DEF TapBanner, TypeOK
  <2>8. CASE MakePlan
    <3>1. sched' \in SchedState
      BY <2>8, PrepareType DEF MakePlan, TypeOK
    <3>2. sched'.current # None => sched'.current.notice.id \in Nat
      BY <3>1 DEF SchedState, Current, Notice
    <3>3. plan' \in Plan
      BY <2>8, <3>1, PlanType DEF MakePlan
    <3> QED
      BY <2>8, <3>1, <3>2, <3>3 DEF MakePlan, TypeOK
  <2>9. CASE Tick
    BY <2>1, <2>9, AgeType DEF Tick, TypeOK
  <2>10. CASE UNCHANGED vars
    BY <2>10 DEF vars, TypeOK
  <2> QED
    BY <2>2, <2>3, <2>4, <2>5, <2>6, <2>7, <2>8, <2>9, <2>10 DEF Next
<1> QED
  BY <1>1, <1>2, PTL DEF Spec

SafeNow == Safe(sched)

\* The inductive invariant: the state is well typed and safe.
LEMMA Safety == Spec => []SafeNow
<1>1. Init => SafeNow
  <2> SUFFICES ASSUME Init PROVE Safe(sched)
    BY DEF SafeNow
  <2>1. Held(sched) = {} /\ sched.image = None
    BY DEF Init, NewScheduler, Held
  <2>2. \A p \in Plugins : HeldBy(sched, p) = {} /\ CardLimit[p] \in Nat
    BY <2>1, SchedulingAssumption DEF HeldBy
  <2>3. WithinLimit(sched)
    BY <2>2, FS_EmptySet DEF WithinLimit
  <2> QED
    BY <2>1, <2>3 DEF Safe, Distinct
<1>2. TypeOK /\ SafeNow /\ [Next]_vars => SafeNow'
  <2> SUFFICES ASSUME TypeOK, Safe(sched), [Next]_vars PROVE Safe(sched')
    BY DEF SafeNow
  <2>1. sched \in SchedState
    BY DEF TypeOK
  <2>2. ASSUME NEW k \in CardKey, NEW a \in CardArgs, PutCard(k, a)
        PROVE  Safe(sched')
    BY <2>1, <2>2, PutSafe DEF PutCard, Apply
  <2>3. ASSUME NEW k \in CardKey, RemoveCard(k) PROVE Safe(sched')
    BY <2>1, <2>3, RemoveSafe DEF RemoveCard, Apply
  <2>4. ASSUME NEW p \in Plugins, StopPlugin(p) PROVE Safe(sched')
    BY <2>1, <2>4, RemovePluginSafe DEF StopPlugin, Apply
  <2>5. ASSUME NEW p \in Plugins, NEW ttl \in ImageTtls, PutImage(p, ttl)
        PROVE  Safe(sched')
    BY <2>1, <2>5, ShowImageSafe DEF PutImage, Apply
  <2>6. ASSUME NEW a \in NoticeArgs, PostNotice(a) PROVE Safe(sched')
    BY <2>1, <2>6, NotifySafe DEF PostNotice, Apply
  <2>7. CASE TapBanner
    BY <2>1, <2>7, AdvanceSafe DEF TapBanner
  <2>8. CASE MakePlan
    BY <2>1, <2>8, PrepareSafe DEF MakePlan
  <2>9. CASE Tick
    BY <2>1, <2>9, AgeSafe DEF Tick, Apply
  <2>10. CASE UNCHANGED vars
    BY <2>10 DEF vars
  <2> QED
    BY <2>2, <2>3, <2>4, <2>5, <2>6, <2>7, <2>8, <2>9, <2>10 DEF Next
<1> QED
  BY <1>1, <1>2, TypeCorrect, PTL DEF Spec

\* Whatever the grants, the number of plugins and the order of the calls, no
\* plugin holds more Cards than it was granted (Scheduler::put).
THEOREM CardLimitTheorem == Spec => []CardLimitHeld
<1>1. SafeNow => CardLimitHeld
  BY DEF SafeNow, Safe, CardLimitHeld
<1> QED
  BY <1>1, Safety, PTL

-----------------------------------------------------------------------------
(* The history of what was accepted.                                       *)

\* Inductive: the ids of what was accepted grow, none is ahead of the counter, and
\* what is held is the newest in its place.
Ledger(s, h) ==
  /\ h \in Seq(Source)
  /\ \A i \in 1 .. Len(h) : h[i].id \in Nat /\ h[i].id <= s.counter
  /\ \A i, j \in 1 .. Len(h) : i < j => h[i].id < h[j].id
  /\ \A k \in Held(s) : Newest(h, CardShown(s, k).source)
  /\ s.image # None => Newest(h, ImageShown(s).source)

\* A step that accepts nothing and changes the content of nothing keeps the history.
LEMMA LedgerKept ==
  ASSUME NEW s, NEW t, NEW h, Ledger(s, h), t.counter = s.counter,
         \A k \in Held(t) : k \in Held(s) /\ CardShown(t, k).source = CardShown(s, k).source,
         t.image # None => s.image # None /\ ImageShown(t).source = ImageShown(s).source
  PROVE  Ledger(t, h)
BY DEF Ledger

\* The history grows by a content of the next id, which takes the place of none that
\* is still held.
LEMMA LedgerGrows ==
  ASSUME NEW s \in SchedState, NEW t, NEW h, Ledger(s, h),
         NEW x \in Source, x.id = s.counter + 1, t.counter = s.counter + 1,
         \A k \in Held(t) :
            \/ CardShown(t, k).source = x
            \/ /\ k \in Held(s) /\ CardShown(t, k).source = CardShown(s, k).source
               /\ ~TakesPlace(x, CardShown(s, k).source),
         t.image # None =>
            \/ ImageShown(t).source = x
            \/ /\ s.image # None /\ ImageShown(t).source = ImageShown(s).source
               /\ ~TakesPlace(x, ImageShown(s).source)
  PROVE  Ledger(t, Append(h, x))
<1> DEFINE g == Append(h, x)
           n == Len(h)
<1>1. /\ h \in Seq(Source) /\ n \in Nat /\ g \in Seq(Source) /\ Len(g) = n + 1
      /\ g[n + 1] = x /\ \A i \in 1 .. n : g[i] = h[i]
  BY DEF Ledger
<1>2. s.counter \in Nat
  BY DEF SchedState
<1> HIDE DEF g, n
<1>3. \A i \in 1 .. Len(g) : i = n + 1 \/ i \in 1 .. n
  BY <1>1
<1>4. ASSUME NEW i \in 1 .. Len(g) PROVE g[i].id \in Nat /\ g[i].id <= t.counter
  <2>1. CASE i = n + 1
    BY <1>1, <1>2, <2>1
  <2>2. CASE i \in 1 .. n
    BY <1>1, <1>2, <2>2 DEF Ledger, n
  <2> QED
    BY <1>3, <2>1, <2>2
<1>5. ASSUME NEW i \in 1 .. Len(g), NEW j \in 1 .. Len(g), i < j PROVE g[i].id < g[j].id
  <2>1. i \in 1 .. n
    BY <1>1, <1>5
  <2>2. CASE j = n + 1
    BY <1>1, <1>2, <2>1, <2>2 DEF Ledger, n
  <2>3. CASE j \in 1 .. n
    BY <1>1, <1>5, <2>1, <2>3 DEF Ledger, n
  <2> QED
    BY <1>3, <2>2, <2>3
<1>6. Newest(g, x)
  <2>1. n + 1 \in 1 .. Len(g) /\ \A j \in 1 .. Len(g) : ~(n + 1 < j)
    BY <1>1
  <2> QED
    BY <1>1, <2>1 DEF Newest
<1>7. ASSUME NEW y, Newest(h, y), ~TakesPlace(x, y) PROVE Newest(g, y)
  <2>1. PICK i \in 1 .. n : h[i] = y /\ \A j \in 1 .. n : i < j => ~TakesPlace(h[j], y)
    BY <1>7 DEF Newest, n
  <2>2. i \in 1 .. Len(g) /\ g[i] = y
    BY <1>1, <2>1
  <2>3. \A j \in 1 .. Len(g) : i < j => ~TakesPlace(g[j], y)
    BY <1>1, <1>3, <1>7, <2>1
  <2> QED
    BY <2>2, <2>3 DEF Newest
<1>8. \A k \in Held(t) : Newest(g, CardShown(t, k).source)
  BY <1>6, <1>7 DEF Ledger
<1>9. t.image # None => Newest(g, ImageShown(t).source)
  BY <1>6, <1>7 DEF Ledger
<1> QED
  BY <1>1, <1>4, <1>5, <1>8, <1>9 DEF Ledger, g

\* expire forgets what is over and changes nothing else of what is held.
LEMMA ExpireKeeps ==
  ASSUME NEW s \in SchedState
  PROVE  LET t == Expire(s)
         IN  /\ t \in SchedState /\ t.counter = s.counter
             /\ \A k \in CardKey : t.cards[k] \in {s.cards[k], None}
             /\ t.image \in {s.image, None}
BY ExpireType DEF Expire, IfLive, SchedState

\* Letting contents age keeps what they are.
LEMMA AgeKeeps ==
  ASSUME NEW s \in SchedState
  PROVE  LET t == Age(s)
         IN  /\ t.counter = s.counter
             /\ \A k \in CardKey : t.cards[k] # None =>
                  s.cards[k] # None /\ t.cards[k].revision = s.cards[k].revision
             /\ t.image # None => /\ s.image # None /\ t.image.id = s.image.id
                                  /\ t.image.plugin = s.image.plugin
<1> DEFINE Older(n) == IF n = None \/ n = 0 THEN n ELSE n - 1
           Aged(e)  == IF e = None THEN e ELSE [e EXCEPT !.left = Older(@)]
<1>1. Age(s).counter = s.counter /\ Age(s).image = Aged(s.image)
      /\ Age(s).cards = [k \in CardKey |-> Aged(s.cards[k])]
  BY DEF Age, SchedState
<1> HIDE DEF Older
<1>2. \A e \in CardEntry \cup {None} : Aged(e) # None => e # None /\ Aged(e).revision = e.revision
  BY DEF CardEntry
<1>3. \A e \in Image \cup {None} :
         Aged(e) # None => e # None /\ Aged(e).id = e.id /\ Aged(e).plugin = e.plugin
  BY DEF Image
<1> HIDE DEF Aged
<1>4. s.image \in Image \cup {None}
      /\ \A k \in CardKey : s.cards[k] \in CardEntry \cup {None}
  BY DEF SchedState
<1> QED
  BY <1>1, <1>2, <1>3, <1>4

\* Forgetting contents, and letting them age, keeps the history.
LEMMA LedgerShrinks ==
  ASSUME NEW s \in SchedState, NEW t \in SchedState, NEW h, Ledger(s, h),
         t.counter = s.counter,
         \A k \in CardKey : t.cards[k] # None =>
            s.cards[k] # None /\ t.cards[k].revision = s.cards[k].revision,
         t.image # None => /\ s.image # None /\ t.image.id = s.image.id
                           /\ t.image.plugin = s.image.plugin
  PROVE  Ledger(t, h)
<1>1. \A k \in Held(t) : k \in Held(s) /\ CardShown(t, k).source = CardShown(s, k).source
  BY DEF Held, CardShown
<1>2. t.image # None => s.image # None /\ ImageShown(t).source = ImageShown(s).source
  BY DEF ImageShown
<1> QED
  BY <1>1, <1>2, LedgerKept

\* put: a refused Card leaves no trace, an accepted one the next id.
LEMMA PutLedger ==
  ASSUME NEW s \in SchedState, NEW h, Ledger(s, h), NEW key \in CardKey, NEW arg \in CardArgs
  PROVE  LET t == Put(s, key, arg)
         IN  Ledger(t, IF PutRefused(s, key, arg) THEN h
                       ELSE Append(h, CardShown(t, key).source))
<1> DEFINE live == Expire(s)
           t == Put(s, key, arg)
           x == CardShown(t, key).source
<1>1. /\ live \in SchedState /\ live.counter = s.counter /\ t \in SchedState
      /\ \A k \in CardKey : live.cards[k] \in {s.cards[k], None}
      /\ live.image \in {s.image, None}
  BY ExpireKeeps, PutType
<1>2. CASE PutRefused(s, key, arg)
  <2>1. t = live
    BY <1>2 DEF Put
  <2> HIDE DEF live, t
  <2>2. Ledger(t, h)
    BY <1>1, <2>1, LedgerShrinks
  <2> QED
    BY <1>2, <2>2 DEF t
<1>3. CASE ~PutRefused(s, key, arg)
  <2> DEFINE entry == [placement |-> arg.placement, priority |-> arg.priority,
                       left |-> IF arg.ttl = 0 THEN None ELSE arg.ttl,
                       revision |-> s.counter + 1]
             cards == [live.cards EXCEPT ![key] = entry]
  <2>1. t = [live EXCEPT !.counter = s.counter + 1, !.cards = cards]
    BY <1>3 DEF Put
  <2>2. entry.revision = s.counter + 1 /\ s.counter \in Nat
    BY DEF SchedState
  <2> HIDE DEF live, entry
  <2>3. t.counter = s.counter + 1 /\ t.image = live.image /\ t.cards = cards
    BY <1>1, <2>1 DEF SchedState
  <2>4. /\ t.cards[key] = entry
        /\ \A k \in CardKey : k # key => t.cards[k] = live.cards[k]
    BY <1>1, <2>3 DEF SchedState
  <2> HIDE DEF t, cards
  <2>5. x = [kind |-> "card", key |-> key, id |-> s.counter + 1]
    BY <2>2, <2>4 DEF CardShown
  <2>6. x \in Source /\ x.id = s.counter + 1
    BY <2>2, <2>5 DEF Source
  <2>7. ASSUME NEW k \in Held(t)
        PROVE  \/ CardShown(t, k).source = x
               \/ /\ k \in Held(s) /\ CardShown(t, k).source = CardShown(s, k).source
                  /\ ~TakesPlace(x, CardShown(s, k).source)
    <3>1. CASE k = key
      BY <3>1
    <3>2. CASE k # key
      <4>1. k \in Held(s) /\ t.cards[k] = s.cards[k]
        BY <1>1, <2>4, <3>2 DEF Held
      <4>2. CardShown(s, k).source.key = k /\ x.key = key /\ CardShown(s, k).source.kind = "card"
        BY <2>5 DEF CardShown
      <4> QED
        BY <3>2, <4>1, <4>2 DEF CardShown, TakesPlace
    <3> QED
      BY <3>1, <3>2
  <2>8. t.image # None => /\ s.image # None /\ ImageShown(t).source = ImageShown(s).source
                          /\ ~TakesPlace(x, ImageShown(s).source)
    BY <1>1, <2>3, <2>5 DEF ImageShown, TakesPlace
  <2> HIDE DEF x
  <2>9. Ledger(t, Append(h, x))
    BY <2>3, <2>6, <2>7, <2>8, LedgerGrows
  <2> QED
    BY <1>3, <2>9 DEF t, x
<1> QED
  BY <1>2, <1>3

\* image takes the place of the image before.
LEMMA ImageLedger ==
  ASSUME NEW s \in SchedState, NEW h, Ledger(s, h), NEW p \in Plugins, NEW ttl \in ImageTtls
  PROVE  LET t == ShowImage(s, p, ttl)
         IN  Ledger(t, Append(h, ImageShown(t).source))
<1> DEFINE t == ShowImage(s, p, ttl)
           x == ImageShown(t).source
<1>1. /\ t.cards = s.cards /\ t.counter = s.counter + 1 /\ s.counter \in Nat
      /\ t.image.id = s.counter + 1 /\ t.image.plugin = p
  BY DEF ShowImage, SchedState
<1> HIDE DEF t
<1>2. x = [kind |-> "image", plugin |-> p, id |-> s.counter + 1]
  BY <1>1 DEF ImageShown
<1>3. x \in Source /\ x.id = s.counter + 1
  BY <1>1, <1>2 DEF Source
<1>4. \A k \in Held(t) : /\ k \in Held(s) /\ CardShown(t, k).source = CardShown(s, k).source
                         /\ ~TakesPlace(x, CardShown(s, k).source)
  BY <1>1, <1>2 DEF Held, CardShown, TakesPlace
<1>5. Ledger(t, Append(h, x))
  BY <1>1, <1>3, <1>4, LedgerGrows
<1> QED
  BY <1>5 DEF t

\* notify takes an id, in nobody's place.
LEMMA NoticeLedger ==
  ASSUME NEW s \in SchedState, NEW h, Ledger(s, h), NEW arg \in NoticeArgs
  PROVE  LET t == Notify(s, arg)
         IN  Ledger(t, Append(h, [kind |-> "notice", id |-> t.pending[Len(t.pending)].id]))
<1> DEFINE kept == IF Len(s.pending) = MaxPending THEN Tail(s.pending) ELSE s.pending
           new  == [id |-> s.counter + 1, priority |-> arg.priority,
                    duration |-> IF arg.ttl = 0 THEN DefaultNotice ELSE arg.ttl]
           t == Notify(s, arg)
           x == [kind |-> "notice", id |-> t.pending[Len(t.pending)].id]
<1>1. /\ t.cards = s.cards /\ t.image = s.image /\ s.counter \in Nat
      /\ t.counter = s.counter + 1 /\ t.pending = Append(kept, new)
  BY DEF Notify, SchedState
<1>2. kept \in Seq(Notice) /\ new \in Notice /\ new.id = s.counter + 1
  BY SchedulingAssumption DEF SchedState, Notice
<1> HIDE DEF kept, new, t
<1>3. t.pending[Len(t.pending)] = new
  BY <1>1, <1>2
<1>4. x \in Source /\ x.id = s.counter + 1 /\ x.kind = "notice"
  BY <1>1, <1>2, <1>3 DEF Source
<1> HIDE DEF x
<1>5. \A k \in Held(t) : /\ k \in Held(s) /\ CardShown(t, k).source = CardShown(s, k).source
                         /\ ~TakesPlace(x, CardShown(s, k).source)
  BY <1>1, <1>4 DEF Held, CardShown, TakesPlace
<1>6. t.image # None => /\ s.image # None /\ ImageShown(t).source = ImageShown(s).source
                        /\ ~TakesPlace(x, ImageShown(s).source)
  BY <1>1, <1>4 DEF ImageShown, TakesPlace
<1>7. Ledger(t, Append(h, x))
  BY <1>1, <1>4, <1>5, <1>6, LedgerGrows
<1> QED
  BY <1>7 DEF t, x

LedgerNow == Ledger(sched, issued)

\* A behaviour with its history is one of the scheduler.
LEMMA HistoryIsSpec == HistorySpec => Spec
<1>1. [HistoryNext]_<<vars, issued>> => [Next]_vars
  BY DEF HistoryNext, Next
<1> QED
  BY <1>1, PTL DEF HistorySpec, Spec

\* The history is kept by every step.
LEMMA LedgerInvariant == HistorySpec => []LedgerNow
<1>1. Init /\ issued = <<>> => LedgerNow
  <2> SUFFICES ASSUME Init, issued = <<>> PROVE Ledger(sched, issued)
    BY DEF LedgerNow
  <2>1. Held(sched) = {} /\ sched.image = None
    BY DEF Init, NewScheduler, Held
  <2>2. issued \in Seq(Source) /\ 1 .. Len(issued) = {}
    OBVIOUS
  <2> QED
    BY <2>1, <2>2 DEF Ledger
<1>2. TypeOK /\ LedgerNow /\ [HistoryNext]_<<vars, issued>> => LedgerNow'
  <2> SUFFICES ASSUME sched \in SchedState, Ledger(sched, issued),
                      [HistoryNext]_<<vars, issued>>
               PROVE  Ledger(sched', issued')
    BY DEF TypeOK, LedgerNow
  <2>1. ASSUME NEW k \in CardKey, NEW a \in CardArgs, PutCard(k, a),
               IF PutRefused(sched, k, a) THEN UNCHANGED issued ELSE Issue(CardSource(k))
        PROVE  Ledger(sched', issued')
    BY <2>1, PutLedger DEF PutCard, Apply, Issue, CardSource
  <2>2. ASSUME NEW p \in Plugins, NEW ttl \in ImageTtls, PutImage(p, ttl), Issue(ImageSource)
        PROVE  Ledger(sched', issued')
    BY <2>2, ImageLedger DEF PutImage, Apply, Issue, ImageSource
  <2>3. ASSUME NEW a \in NoticeArgs, PostNotice(a), Issue(NoticeSource)
        PROVE  Ledger(sched', issued')
    BY <2>3, NoticeLedger DEF PostNotice, Apply, Issue, NoticeSource
  <2>4. ASSUME NEW k \in CardKey, RemoveCard(k), UNCHANGED issued
        PROVE  Ledger(sched', issued')
    <3>1. sched' = Remove(sched, k) /\ sched' \in SchedState
      BY <2>4, RemoveType DEF RemoveCard, Apply
    <3>2. sched'.counter = sched.counter /\ sched'.image = sched.image
          /\ sched'.cards = [sched.cards EXCEPT ![k] = None]
      BY <3>1 DEF Remove, SchedState
    <3>3. sched'.counter = sched.counter /\ sched'.image \in {sched.image, None}
          /\ \A j \in CardKey : sched'.cards[j] \in {sched.cards[j], None}
      BY <3>2 DEF SchedState
    <3> QED
      BY <2>4, <3>1, <3>3, LedgerShrinks
  <2>5. ASSUME NEW p \in Plugins, StopPlugin(p), UNCHANGED issued
        PROVE  Ledger(sched', issued')
    <3>1. sched' = RemovePlugin(sched, p) /\ sched' \in SchedState
      BY <2>5, RemovePluginType DEF StopPlugin, Apply
    <3>2. sched'.counter = sched.counter /\ sched'.image \in {sched.image, None}
          /\ \A j \in CardKey : sched'.cards[j] \in {sched.cards[j], None}
      BY <3>1 DEF RemovePlugin, SchedState
    <3> QED
      BY <2>5, <3>1, <3>2, LedgerShrinks
  <2>6. ASSUME TapBanner, UNCHANGED issued PROVE Ledger(sched', issued')
    <3>1. sched' \in SchedState /\ sched'.counter = sched.counter
          /\ sched'.image = sched.image /\ sched'.cards = sched.cards
      BY <2>6, AdvanceType DEF TapBanner, Advance, SchedState
    <3> QED
      BY <2>6, <3>1, LedgerShrinks
  <2>7. ASSUME MakePlan, UNCHANGED issued PROVE Ledger(sched', issued')
    <3>1. PICK live \in SchedState : live = Expire(sched)
      BY ExpireType
    <3>2. /\ live.counter = sched.counter /\ live.image \in {sched.image, None}
          /\ \A j \in CardKey : live.cards[j] \in {sched.cards[j], None}
      BY <3>1, ExpireKeeps
    <3>3. sched' \in {live, Advance(live), [live EXCEPT !.rotation = Rotate]}
      BY <2>7, <3>1 DEF MakePlan, Prepare
    <3>4. sched'.counter = live.counter /\ sched'.image = live.image
          /\ sched'.cards = live.cards
      BY <3>3 DEF Advance, SchedState
    <3>5. sched' \in SchedState
      BY <2>7, PrepareType DEF MakePlan
    <3> QED
      BY <2>7, <3>2, <3>4, <3>5, LedgerShrinks
  <2>8. ASSUME Tick, UNCHANGED issued PROVE Ledger(sched', issued')
    <3>1. sched' = Age(sched) /\ sched' \in SchedState
      BY <2>8, AgeType DEF Tick, Apply
    <3>2. /\ sched'.counter = sched.counter
          /\ \A j \in CardKey : sched'.cards[j] # None =>
               sched.cards[j] # None /\ sched'.cards[j].revision = sched.cards[j].revision
          /\ sched'.image # None => /\ sched.image # None /\ sched'.image.id = sched.image.id
                                    /\ sched'.image.plugin = sched.image.plugin
      BY <3>1, AgeKeeps
    <3> QED
      BY <2>8, <3>1, <3>2, LedgerShrinks
  <2>9. CASE UNCHANGED <<vars, issued>>
    BY <2>9 DEF vars
  <2> QED
    BY <2>1, <2>2, <2>3, <2>4, <2>5, <2>6, <2>7, <2>8, <2>9 DEF HistoryNext
<1> QED
  BY <1>1, <1>2, HistoryIsSpec, TypeCorrect, PTL DEF HistorySpec

\* No Source is ever given to two contents, whatever is put, replaced, removed, posted
\* or lost, and what is held has the Source of the content accepted last in its
\* place: as sync_slots assumes when it does not resend a slot (Source, next_id).
THEOREM SourcesTheorem == HistorySpec => []SourcesDistinct
<1>1. LedgerNow => SourcesDistinct
  <2> SUFFICES ASSUME Ledger(sched, issued) PROVE SourcesDistinct
    BY DEF LedgerNow
  <2>1. ASSUME NEW i \in 1 .. Len(issued), NEW j \in 1 .. Len(issued), issued[i] = issued[j]
        PROVE  i = j
    <3>1. ~(i < j) /\ ~(j < i)
      BY <2>1 DEF Ledger
    <3> QED
      BY <3>1
  <2> QED
    BY <2>1 DEF SourcesDistinct, Ledger
<1> QED
  BY <1>1, LedgerInvariant, PTL

-----------------------------------------------------------------------------
\* Notices are shown in the order they came and at most once, for every length
\* of the queue and whatever it loses (Scheduler::notify and expire).
THEOREM NoticesTheorem == Spec => []NoticesInOrder
<1>1. Init => NoticesInOrder
  BY SchedulingAssumption DEF Init, NewScheduler, NoticesInOrder, Queued
<1>2. TypeOK /\ NoticesInOrder /\ [Next]_vars => NoticesInOrder'
  <2> SUFFICES ASSUME TypeOK, NoticesInOrder, [Next]_vars
               PROVE  Queued(sched', lastShown')
    BY DEF NoticesInOrder
  <2>1. /\ sched \in SchedState /\ lastShown \in Nat /\ Queued(sched, lastShown)
        /\ sched.counter \in Nat
    BY DEF TypeOK, NoticesInOrder, SchedState
  <2>2. ASSUME NEW k \in CardKey, NEW a \in CardArgs, PutCard(k, a)
        PROVE  Queued(sched', lastShown')
    BY <2>1, <2>2, PutQueued DEF PutCard, Apply, LastOf
  <2>3. ASSUME NEW k \in CardKey, RemoveCard(k)
        PROVE  Queued(sched', lastShown')
    <3>1. sched' \in SchedState /\ sched'.pending = sched.pending
          /\ sched'.current = sched.current /\ sched'.counter = sched.counter
      BY <2>1, <2>3, RemoveType DEF RemoveCard, Apply, Remove, SchedState
    <3>2. lastShown' = LastOf(sched', lastShown)
      BY <2>3 DEF RemoveCard, Apply, LastOf
    <3> QED
      BY <2>1, <3>1, <3>2, KeepQueued
  <2>4. ASSUME NEW p \in Plugins, StopPlugin(p)
        PROVE  Queued(sched', lastShown')
    <3>1. sched' \in SchedState /\ sched'.pending = sched.pending
          /\ sched'.current = sched.current /\ sched'.counter = sched.counter
      BY <2>1, <2>4, RemovePluginType DEF StopPlugin, Apply, RemovePlugin, SchedState
    <3>2. lastShown' = LastOf(sched', lastShown)
      BY <2>4 DEF StopPlugin, Apply, LastOf
    <3> QED
      BY <2>1, <3>1, <3>2, KeepQueued
  <2>5. ASSUME NEW p \in Plugins, NEW ttl \in ImageTtls, PutImage(p, ttl)
        PROVE  Queued(sched', lastShown')
    <3>1. sched' \in SchedState /\ sched'.pending = sched.pending
          /\ sched'.current = sched.current /\ sched'.counter = sched.counter + 1
      BY <2>1, <2>5, ShowImageType DEF PutImage, Apply, ShowImage, SchedState
    <3>2. lastShown' = LastOf(sched', lastShown)
      BY <2>5 DEF PutImage, Apply, LastOf
    <3> QED
      BY <2>1, <3>1, <3>2, KeepQueued
  <2>6. ASSUME NEW a \in NoticeArgs, PostNotice(a)
        PROVE  Queued(sched', lastShown')
    BY <2>1, <2>6, NotifyQueued DEF PostNotice, Apply, LastOf
  <2>7. CASE TapBanner
    <3>1. sched' \in SchedState /\ sched'.pending = sched.pending
          /\ sched'.current = sched.current /\ sched'.counter = sched.counter
      BY <2>1, <2>7, AdvanceType DEF TapBanner, Advance, SchedState
    <3>2. lastShown' = LastOf(sched', lastShown)
      BY <2>1, <2>7, <3>1 DEF TapBanner, LastOf, Queued
    <3> QED
      BY <2>1, <3>1, <3>2, KeepQueued
  <2>8. CASE MakePlan
    BY <2>1, <2>8, PrepareQueued DEF MakePlan, LastOf
  <2>9. CASE Tick
    <3>1. sched' \in SchedState /\ sched'.pending = sched.pending
          /\ sched'.counter = sched.counter
      <4>1. sched' = Age(sched) /\ sched' \in SchedState
        BY <2>1, <2>9, AgeType DEF Tick, Apply
      <4>2. Age(sched).pending = sched.pending /\ Age(sched).counter = sched.counter
        BY <2>1 DEF Age, SchedState
      <4> QED
        BY <4>1, <4>2
    <3>2. sched'.current # None => sched.current # None
                                   /\ sched'.current.notice = sched.current.notice
      BY <2>1, <2>9 DEF Tick, Apply, Age, SchedState, Current
    <3>3. lastShown' = LastOf(sched', lastShown)
      BY <2>9 DEF Tick, Apply, LastOf
    <3> QED
      BY <2>1, <3>1, <3>2, <3>3, KeepQueued
  <2>10. CASE UNCHANGED vars
    BY <2>1, <2>10 DEF vars
  <2> QED
    BY <2>2, <2>3, <2>4, <2>5, <2>6, <2>7, <2>8, <2>9, <2>10 DEF Next
<1> QED
  BY <1>1, <1>2, TypeCorrect, PTL DEF Spec

-----------------------------------------------------------------------------
(* The plan.                                                               *)

LastingNow == Lasting(sched)

\* Inductive: whatever waits has a duration, so that a notice that expire
\* promotes is not over at once.
LEMMA WaitingLasts == Spec => []LastingNow
<1>1. Init => LastingNow
  BY DEF Init, NewScheduler, LastingNow, Lasting
<1>2. TypeOK /\ LastingNow /\ [Next]_vars => LastingNow'
  <2> SUFFICES ASSUME sched \in SchedState, Lasting(sched), [Next]_vars
               PROVE  Lasting(sched')
    BY DEF TypeOK, LastingNow
  <2> DEFINE SameQueue(t) == t.pending = sched.pending
  <2>1. \A t : SameQueue(t) => Lasting(t)
    BY DEF Lasting
  <2>2. /\ \A k \in CardKey : SameQueue(Remove(sched, k))
        /\ \A p \in Plugins : SameQueue(RemovePlugin(sched, p))
        /\ \A p \in Plugins, ttl \in ImageTtls : SameQueue(ShowImage(sched, p, ttl))
        /\ SameQueue(Age(sched)) /\ SameQueue(Advance(sched))
    BY DEF Remove, RemovePlugin, ShowImage, Age, Advance, SchedState
  <2> HIDE DEF SameQueue
  <2>3. ASSUME NEW k \in CardKey, NEW a \in CardArgs, PutCard(k, a)
        PROVE  Lasting(sched')
    BY <2>3, PutLasting DEF PutCard, Apply
  <2>4. ASSUME NEW k \in CardKey, RemoveCard(k) PROVE Lasting(sched')
    BY <2>1, <2>2, <2>4 DEF RemoveCard, Apply
  <2>5. ASSUME NEW p \in Plugins, StopPlugin(p) PROVE Lasting(sched')
    BY <2>1, <2>2, <2>5 DEF StopPlugin, Apply
  <2>6. ASSUME NEW p \in Plugins, NEW ttl \in ImageTtls, PutImage(p, ttl)
        PROVE  Lasting(sched')
    BY <2>1, <2>2, <2>6 DEF PutImage, Apply
  <2>7. ASSUME NEW a \in NoticeArgs, PostNotice(a) PROVE Lasting(sched')
    BY <2>7, NotifyLasting DEF PostNotice, Apply
  <2>8. CASE TapBanner
    BY <2>1, <2>2, <2>8 DEF TapBanner
  <2>9. CASE MakePlan
    BY <2>9, PrepareTimely DEF MakePlan
  <2>10. CASE Tick
    BY <2>1, <2>2, <2>10 DEF Tick, Apply
  <2>11. CASE UNCHANGED vars
    BY <2>11 DEF vars
  <2> QED
    BY <2>3, <2>4, <2>5, <2>6, <2>7, <2>8, <2>9, <2>10, <2>11 DEF Next
<1> QED
  BY <1>1, <1>2, TypeCorrect, PTL DEF Spec

\* The plan of a state in which nothing has run out is current.
LEMMA PlanCurrent ==
  ASSUME NEW s \in SchedState, Timely(s)
  PROVE  CurrentPlan(s, PlanOf(s))
<1> DEFINE p == PlanOf(s)
<1>1. p.top = PlanTop(s) /\ p.bottom = PlanBottom(s) /\ p.overlay = PlanOverlay(s)
  BY DEF PlanOf
<1>2. ASSUME NEW a \in {"top", "bottom", "overlay"}, NEW b \in {"top", "bottom", "overlay"},
             a # b, p[a] # None
      PROVE  p[a] # p[b]
  <2> HIDE DEF p
  <2> QED
    BY <1>1, <1>2, SlotsApart
<1>3. ASSUME NEW x \in ShownBy(p)
      PROVE  /\ x.left # 0
             /\ CASE x.source.kind = "card"   -> /\ s.cards[x.source.key] # None
                                                 /\ s.cards[x.source.key].revision = x.source.id
                  [] x.source.kind = "notice" -> s.current.notice.id = x.source.id
                  [] x.source.kind = "image"  -> s.image.id = x.source.id
  <2>1. ShownOf(s, x)
    BY PlanShows
  <2>2. CASE \E k \in Held(s) : x = CardShown(s, k)
    <3>1. PICK k \in Held(s) : x = CardShown(s, k)
      BY <2>2
    <3>2. x.source.kind = "card" /\ x.source.key = k /\ x.source.id = s.cards[k].revision
          /\ x.left = s.cards[k].left
      BY <3>1 DEF CardShown
    <3> QED
      BY <3>2 DEF Timely, Held
  <2>3. CASE s.current # None /\ x = NoticeShown(s)
    <3>1. x.source.kind = "notice" /\ x.source.id = s.current.notice.id
          /\ x.left = s.current.left
      BY <2>3 DEF NoticeShown
    <3> QED
      BY <2>3, <3>1 DEF Timely
  <2>4. CASE s.image # None /\ x = ImageShown(s)
    <3>1. x.source.kind = "image" /\ x.source.id = s.image.id /\ x.left = s.image.left
      BY <2>4 DEF ImageShown
    <3> QED
      BY <2>4, <3>1 DEF Timely
  <2> QED
    BY <2>1, <2>2, <2>3, <2>4 DEF ShownOf
<1> QED
  BY <1>2, <1>3 DEF CurrentPlan

\* Whatever was put, posted or removed and however much time went by: a plan
\* shows only what is held and has time left, and nothing twice (Scheduler::plan).
THEOREM PlanTheorem == Spec => PlanIsCurrent
<1> DEFINE Good == MakePlan => CurrentPlan(sched', plan')
<1>1. TypeOK /\ LastingNow => Good
  <2> SUFFICES ASSUME sched \in SchedState, Lasting(sched), MakePlan
               PROVE  CurrentPlan(sched', plan')
    BY DEF TypeOK, LastingNow
  <2>1. sched' \in SchedState /\ Timely(sched') /\ plan' = PlanOf(sched')
    BY PrepareType, PrepareTimely DEF MakePlan
  <2> QED
    BY <2>1, PlanCurrent
<1>2. TypeOK /\ LastingNow /\ [Next]_vars => [Good]_vars
  BY <1>1
<1> HIDE DEF Good
<1>3. Spec => [][Good]_vars
  BY <1>2, TypeCorrect, WaitingLasts, PTL DEF Spec
<1> QED
  BY <1>3 DEF PlanIsCurrent, Good

\* The three stages of plan agree with one order over all claims.
LEMMA OverlayStrongest ==
  ASSUME NEW s \in SchedState, Distinct(s)
  PROVE  Strongest(s, PlanOverlay(s))
<1> DEFINE overlay == InPlace(s, "Overlay")
           o == PlanOverlay(s)
           claim(k) == <<s.cards[k].priority, 0, s.cards[k].revision>>
<1>1. \A d \in Claims(s) :
        \/ \E k \in overlay : d = claim(k)
        \/ s.image # None /\ d = <<Normal, 0, s.image.id>>
        \/ HasHighNotice(s) /\ d = <<High, 1, s.current.notice.id>>
  BY DEF Claims
<1>2. /\ \A k \in overlay : claim(k) \in Claims(s)
      /\ s.image # None => <<Normal, 0, s.image.id>> \in Claims(s)
      /\ HasHighNotice(s) => <<High, 1, s.current.notice.id>> \in Claims(s)
  BY DEF Claims
<1>3. \A k \in overlay : /\ k \in Held(s) /\ s.cards[k].priority \in {Low, Normal, High}
                         /\ s.cards[k].revision \in Nat
  BY DEF InPlace, Held, SchedState, CardEntry, Priority
<1>4. s.image # None => s.image.id \in Nat
  BY DEF SchedState, Image
<1>5. OverlayBest(s) \subseteq overlay
  BY DEF OverlayBest
<1>6. \A k \in overlay, b \in OverlayBest(s) :
         \/ s.cards[k].priority < s.cards[b].priority
         \/ /\ s.cards[k].priority = s.cards[b].priority
            /\ s.cards[k].revision <= s.cards[b].revision
  BY DEF OverlayBest
<1>7. \A k \in Held(s) : CardShown(s, k) # None
  BY NoneAssumption DEF CardShown, Held, SchedState, CardEntry, Shown, Source
<1>8. s.current # None => NoticeShown(s) # None
  BY NoneAssumption DEF NoticeShown, SchedState, Current, Notice, Shown, Source
<1>9. s.image # None => ImageShown(s) # None
  BY NoneAssumption DEF ImageShown, SchedState, Image, Shown, Source
<1> HIDE DEF overlay
<1>10. CASE HasHighNotice(s)
  <2> DEFINE c == <<High, 1, s.current.notice.id>>
  <2>1. o = NoticeShown(s) /\ s.current # None
    BY <1>10 DEF PlanOverlay, HasHighNotice
  <2>2. o # None /\ o.source.id = c[3] /\ c \in Claims(s)
    BY <1>2, <1>8, <1>10, <2>1 DEF NoticeShown
  <2>3. ASSUME NEW d \in Claims(s) PROVE d = c \/ Weaker(d, c)
    <3>1. CASE \E k \in overlay : d = claim(k)
      BY <1>3, <3>1 DEF Weaker, Low, Normal, High
    <3>2. CASE s.image # None /\ d = <<Normal, 0, s.image.id>>
      BY <3>2 DEF Weaker, Low, Normal, High
    <3> QED
      BY <1>1, <3>1, <3>2
  <2> QED
    BY <2>2, <2>3 DEF Strongest
<1>11. CASE ~HasHighNotice(s) /\ ImageWins(s)
  <2> DEFINE c == <<Normal, 0, s.image.id>>
  <2>1. o = ImageShown(s) /\ s.image # None
    BY <1>11 DEF PlanOverlay, ImageWins
  <2>2. o # None /\ o.source.id = c[3] /\ c \in Claims(s)
    BY <1>2, <1>9, <2>1 DEF ImageShown
  <2>3. ASSUME NEW k \in overlay PROVE Weaker(claim(k), c)
    <3>1. PICK b \in OverlayBest(s) : TRUE
      BY BestExists DEF overlay
    <3>2. \/ s.cards[b].priority < Normal
          \/ s.cards[b].priority = Normal /\ s.cards[b].revision < s.image.id
      BY <1>11 DEF ImageWins
    <3>3. b \in overlay
      BY <1>5
    <3> QED
      BY <1>3, <1>4, <1>6, <2>1, <3>2, <3>3 DEF Weaker, Low, Normal, High
  <2>4. \A d \in Claims(s) : d = c \/ Weaker(d, c)
    BY <1>1, <1>11, <2>3
  <2> QED
    BY <2>2, <2>4 DEF Strongest
<1>12. CASE ~HasHighNotice(s) /\ ~ImageWins(s) /\ OverlayBest(s) # {}
  <2>1. PICK b \in OverlayBest(s) : o = CardShown(s, b)
    BY <1>12 DEF PlanOverlay
  <2>2. b \in overlay /\ b \in Held(s)
    BY <1>3, <1>5
  <2>3. o # None /\ o.source.id = claim(b)[3] /\ claim(b) \in Claims(s)
    BY <1>2, <1>7, <2>1, <2>2 DEF CardShown
  <2>4. ASSUME NEW k \in overlay PROVE claim(k) = claim(b) \/ Weaker(claim(k), claim(b))
    BY <1>3, <1>6, <2>2 DEF Weaker, Low, Normal, High
  <2>5. ASSUME s.image # None PROVE Weaker(<<Normal, 0, s.image.id>>, claim(b))
    <3>1. PICK a \in OverlayBest(s) :
            ~(\/ s.cards[a].priority < Normal
              \/ s.cards[a].priority = Normal /\ s.cards[a].revision < s.image.id)
      BY <1>12, <2>5 DEF ImageWins
    <3>2. a = b
      BY BestUnique
    <3>3. s.cards[b].revision # s.image.id
      BY <2>2, <2>5 DEF Distinct
    <3> QED
      BY <1>3, <1>4, <2>2, <2>5, <3>1, <3>2, <3>3 DEF Weaker, Low, Normal, High
  <2>6. \A d \in Claims(s) : d = claim(b) \/ Weaker(d, claim(b))
    <3> HIDE DEF claim
    <3> QED
      BY <1>1, <1>12, <2>4, <2>5
  <2> HIDE DEF claim
  <2> QED
    BY <2>3, <2>6 DEF Strongest
<1>13. CASE ~HasHighNotice(s) /\ ~ImageWins(s) /\ OverlayBest(s) = {}
  <2>1. o = None
    BY <1>13 DEF PlanOverlay
  <2>2. overlay = {} /\ s.image = None
    BY <1>13, BestExists DEF overlay, ImageWins
  <2>3. Claims(s) = {}
    BY <1>1, <1>13, <2>2
  <2> QED
    BY <2>1, <2>3 DEF Strongest
<1> QED
  BY <1>10, <1>11, <1>12, <1>13

\* The overlay shows the strongest of all that asks for it, for any number of
\* Cards: the newest among the most urgent, with a high notice above all
\* (Scheduler::plan).
THEOREM StrongestTheorem == Spec => OverlayIsStrongest
<1> DEFINE Good == MakePlan => Strongest(sched', plan'.overlay)
<1>1. TypeOK /\ SafeNow => Good
  <2> SUFFICES ASSUME sched \in SchedState, Safe(sched), MakePlan
               PROVE  Strongest(sched', plan'.overlay)
    BY DEF TypeOK, SafeNow
  <2>1. sched' \in SchedState /\ Safe(sched') /\ plan' = PlanOf(sched')
    BY PrepareType, PrepareSafe DEF MakePlan
  <2>2. plan'.overlay = PlanOverlay(sched')
    BY <2>1 DEF PlanOf
  <2> QED
    BY <2>1, <2>2, OverlayStrongest DEF Safe
<1>2. TypeOK /\ SafeNow /\ [Next]_vars => [Good]_vars
  BY <1>1
<1> HIDE DEF Good
<1>3. Spec => [][Good]_vars
  BY <1>2, TypeCorrect, Safety, PTL DEF Spec
<1> QED
  BY <1>3 DEF OverlayIsStrongest, Good
=============================================================================
