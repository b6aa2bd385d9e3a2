--------------------------- MODULE SchedulingProofs ---------------------------
(* What the operations of Scheduling preserve, for every value of its       *)
(* constants.                                                              *)
EXTENDS Scheduling, FiniteSetTheorems, WellFoundedInduction, TLAPS

-----------------------------------------------------------------------------
(* What each operation preserves, stated on the record so that a module    *)
(* that calls several operations in a step can cite it too.                *)

\* expire keeps the state of the scheduler well typed.
LEMMA ExpireType == \A s \in SchedState : Expire(s) \in SchedState
<1> SUFFICES ASSUME NEW s \in SchedState PROVE Expire(s) \in SchedState
  OBVIOUS
<1>1. [k \in CardKey |-> IfLive(s.cards[k])] \in [CardKey -> CardEntry \cup {None}]
  BY DEF SchedState, IfLive
<1>2. IfLive(s.current) \in Current \cup {None} /\ IfLive(s.image) \in Image \cup {None}
  BY DEF SchedState, IfLive
<1>3. CASE ~(IfLive(s.current) = None /\ s.pending # <<>>)
  BY <1>1, <1>2, <1>3 DEF SchedState, Expire
<1>4. CASE IfLive(s.current) = None /\ s.pending # <<>>
  <2>1. Head(s.pending) \in Notice /\ Tail(s.pending) \in Seq(Notice)
    BY <1>4 DEF SchedState
  <2>2. [notice |-> Head(s.pending), left |-> Head(s.pending).duration] \in Current
    BY <2>1 DEF Current, Notice
  <2> QED
    BY <1>1, <1>2, <1>4, <2>1, <2>2 DEF SchedState, Expire
<1> QED
  BY <1>3, <1>4

\* put keeps the state well typed, whether or not it refuses the Card.
LEMMA PutType ==
  ASSUME NEW s \in SchedState, NEW key \in CardKey, NEW arg \in CardArgs
  PROVE  Put(s, key, arg) \in SchedState
<1>1. Expire(s) \in SchedState
  BY ExpireType
<1>2. [placement |-> arg.placement, priority |-> arg.priority,
       left |-> IF arg.ttl = 0 THEN None ELSE arg.ttl,
       revision |-> s.counter + 1] \in CardEntry
  BY SchedulingAssumption DEF SchedState, CardEntry
<1> DEFINE live == Expire(s)
           entry == [placement |-> arg.placement, priority |-> arg.priority,
                     left |-> IF arg.ttl = 0 THEN None ELSE arg.ttl,
                     revision |-> s.counter + 1]
           cards == [live.cards EXCEPT ![key] = entry]
           after == [live EXCEPT !.counter = s.counter + 1, !.cards = cards]
<1>3. after \in SchedState
  <2> HIDE DEF entry, live
  <2>1. live \in SchedState /\ entry \in CardEntry /\ s.counter + 1 \in Nat
    BY <1>1, <1>2 DEF entry, live, SchedState
  <2>2. cards \in [CardKey -> CardEntry \cup {None}]
    BY <2>1 DEF SchedState
  <2> HIDE DEF cards
  <2> QED
    BY <2>1, <2>2 DEF SchedState
<1>4. Put(s, key, arg) = IF PutRefused(s, key, arg) THEN live ELSE after
  BY DEF Put
<1> QED
  BY <1>1, <1>3, <1>4

\* remove keeps the state well typed.
LEMMA RemoveType ==
  ASSUME NEW s \in SchedState, NEW key \in CardKey
  PROVE  Remove(s, key) \in SchedState
BY DEF Remove, SchedState

\* remove_plugin keeps the state well typed.
LEMMA RemovePluginType ==
  ASSUME NEW s \in SchedState, NEW p \in Plugins
  PROVE  RemovePlugin(s, p) \in SchedState
BY DEF RemovePlugin, SchedState

\* image keeps the state well typed.
LEMMA ShowImageType ==
  ASSUME NEW s \in SchedState, NEW p \in Plugins, NEW ttl \in ImageTtls
  PROVE  ShowImage(s, p, ttl) \in SchedState
<1> DEFINE new == [plugin |-> p, id |-> s.counter + 1,
                   left |-> IF ttl = 0 THEN DefaultImage ELSE ttl]
<1>1. s.counter + 1 \in Nat /\ new \in Image
  BY SchedulingAssumption DEF SchedState, Image
<1>2. ShowImage(s, p, ttl) = [s EXCEPT !.counter = s.counter + 1, !.image = new]
  BY DEF ShowImage
<1> HIDE DEF new
<1> QED
  BY <1>1, <1>2 DEF SchedState

\* notify keeps the state well typed, also when the queue is full.
LEMMA NotifyType ==
  ASSUME NEW s \in SchedState, NEW arg \in NoticeArgs
  PROVE  Notify(s, arg) \in SchedState
<1> DEFINE kept == IF Len(s.pending) = MaxPending THEN Tail(s.pending) ELSE s.pending
           new  == [id |-> s.counter + 1, priority |-> arg.priority,
                    duration |-> IF arg.ttl = 0 THEN DefaultNotice ELSE arg.ttl]
<1>1. kept \in Seq(Notice)
  BY SchedulingAssumption DEF SchedState
<1>2. new \in Notice
  BY SchedulingAssumption DEF SchedState, Notice
<1>3. Append(kept, new) \in Seq(Notice)
  BY <1>1, <1>2
<1>4. Notify(s, arg) = [s EXCEPT !.counter = s.counter + 1,
                                 !.pending = Append(kept, new)]
  BY DEF Notify
<1>5. s.counter + 1 \in Nat
  BY DEF SchedState
<1> HIDE DEF kept, new
<1> QED
  BY <1>3, <1>4, <1>5 DEF SchedState

\* The remainder is in its range: page never leaves the values of usize.
LEMMA ModRange == \A n \in Nat, m \in Nat \ {0} : n % m \in 0 .. m - 1
OBVIOUS

\* advance keeps the state well typed.
LEMMA AdvanceType == \A s \in SchedState : Advance(s) \in SchedState
<1> SUFFICES ASSUME NEW s \in SchedState PROVE Advance(s) \in SchedState
  OBVIOUS
<1>1. s.page + 1 \in Nat /\ PageMod \in Nat \ {0}
  BY SchedulingAssumption DEF SchedState
<1>2. Rotate \in Nat
  BY SchedulingAssumption
<1>3. (s.page + 1) % PageMod \in 0 .. PageMod - 1
  BY <1>1, ModRange
<1> QED
  BY <1>2, <1>3 DEF Advance, SchedState

\* What plan does to the state keeps it well typed.
LEMMA PrepareType == \A s \in SchedState : Prepare(s) \in SchedState
<1> SUFFICES ASSUME NEW s \in SchedState PROVE Prepare(s) \in SchedState
  OBVIOUS
<1>1. Expire(s) \in SchedState
  BY ExpireType
<1>2. [Expire(s) EXCEPT !.rotation = Rotate] \in SchedState
  BY <1>1, SchedulingAssumption DEF SchedState
<1> QED
  BY <1>1, <1>2, AdvanceType DEF Prepare

\* The passing of time keeps the state well typed.
LEMMA AgeType == \A s \in SchedState : Age(s) \in SchedState
<1> SUFFICES ASSUME NEW s \in SchedState PROVE Age(s) \in SchedState
  OBVIOUS
<1> DEFINE Older(n) == IF n = None \/ n = 0 THEN n ELSE n - 1
           Aged(e)  == IF e = None THEN e ELSE [e EXCEPT !.left = Older(@)]
<1>1. \A n \in Nat \cup {None} : Older(n) \in Nat \cup {None}
  OBVIOUS
<1>2. \A n \in Nat : Older(n) \in Nat
  OBVIOUS
<1> HIDE DEF Older
<1>3. \A e \in CardEntry \cup {None} : Aged(e) \in CardEntry \cup {None}
  BY <1>1 DEF CardEntry
<1>4. \A e \in Current \cup {None} : Aged(e) \in Current \cup {None}
  BY <1>2 DEF Current
<1>5. \A e \in Image \cup {None} : Aged(e) \in Image \cup {None}
  BY <1>2 DEF Image
<1>6. Age(s) = [s EXCEPT !.cards = [k \in CardKey |-> Aged(s.cards[k])],
                         !.current = Aged(s.current), !.image = Aged(s.image),
                         !.rotation = Older(s.rotation)]
  BY DEF Age, Older
<1> HIDE DEF Aged
<1>7. [k \in CardKey |-> Aged(s.cards[k])] \in [CardKey -> CardEntry \cup {None}]
  BY <1>3 DEF SchedState
<1>8. Aged(s.current) \in Current \cup {None} /\ Aged(s.image) \in Image \cup {None}
  BY <1>4, <1>5 DEF SchedState
<1>9. Older(s.rotation) \in Nat \cup {None}
  BY <1>1 DEF SchedState
<1> DEFINE cards    == [k \in CardKey |-> Aged(s.cards[k])]
           current  == Aged(s.current)
           image    == Aged(s.image)
           rotation == Older(s.rotation)
<1> HIDE DEF cards, current, image, rotation
<1>10. [s EXCEPT !.cards = cards, !.current = current, !.image = image, !.rotation = rotation]
         \in SchedState
  BY <1>7, <1>8, <1>9 DEF SchedState, cards, current, image, rotation
<1> QED
  BY <1>6, <1>10 DEF cards, current, image, rotation

-----------------------------------------------------------------------------
(* The plan is well formed.                                                *)

\* A banner that is chosen for a slot is a Shown.
LEMMA BannerAtType ==
  ASSUME NEW s \in SchedState, NEW n
  PROVE  BannerAt(s, n) \in Shown \cup {None}
BY DEF BannerAt, CardShown, InPlace, Held, SchedState, CardEntry, Shown, Source

\* What plan reads off a well typed state is a Plan.
LEMMA PlanType ==
  ASSUME NEW s \in SchedState
  PROVE  PlanOf(s) \in Plan
<1>1. s.current # None => NoticeShown(s) \in Shown
  BY DEF NoticeShown, SchedState, Current, Notice, Shown, Source
<1>2. s.image # None => ImageShown(s) \in Shown
  BY DEF ImageShown, SchedState, Image, Shown, Source
<1>3. \A k \in Held(s) : CardShown(s, k) \in Shown
  BY DEF CardShown, Held, SchedState, CardEntry, Shown, Source
<1>4. PlanTop(s) \in Shown \cup {None}
  BY BannerAtType DEF PlanTop
<1>5. PlanBottom(s) \in Shown \cup {None}
  BY <1>1, BannerAtType DEF PlanBottom, HasBannerNotice
<1>6. PlanOverlay(s) \in Shown \cup {None}
  BY <1>1, <1>2, <1>3 DEF PlanOverlay, HasHighNotice, ImageWins, OverlayBest, InPlace
<1> QED
  BY <1>4, <1>5, <1>6 DEF PlanOf, Plan

-----------------------------------------------------------------------------
(* The limit of Cards and the order of what is held: both are inductive.   *)

\* No two contents that are held share a revision or id, and none is ahead of the
\* counter: they are ordered by age.
Distinct(s) ==
  /\ \A k \in Held(s) : s.cards[k].revision <= s.counter
  /\ \A j, k \in Held(s) : s.cards[j].revision = s.cards[k].revision => j = k
  /\ s.image # None =>
       /\ s.image.id <= s.counter
       /\ \A k \in Held(s) : s.cards[k].revision # s.image.id

Safe(s) == WithinLimit(s) /\ Distinct(s)

\* There are finitely many Cards, so that they can be counted.
LEMMA CardKeyFinite == IsFiniteSet(CardKey)
<1> DEFINE f == [t \in Plugins \X Cards |-> [plugin |-> t[1], card |-> t[2]]]
<1>1. IsFiniteSet(Plugins \X Cards)
  BY FS_Product, SchedulingAssumption
<1>2. f \in [Plugins \X Cards -> CardKey]
  BY DEF CardKey
<1>3. ASSUME NEW k \in CardKey
      PROVE  \E t \in Plugins \X Cards : f[t] = k
  <2>1. <<k.plugin, k.card>> \in Plugins \X Cards /\ f[<<k.plugin, k.card>>] = k
    BY DEF CardKey
  <2> QED
    BY <2>1
<1>4. f \in Surjection(Plugins \X Cards, CardKey)
  BY <1>2, <1>3 DEF Surjection
<1> QED
  BY <1>1, <1>4, FS_Surjection

\* The Cards of a plugin are finitely many.
LEMMA HeldFinite ==
  ASSUME NEW s, NEW p
  PROVE  IsFiniteSet(HeldBy(s, p)) /\ Cardinality(HeldBy(s, p)) \in Nat
BY CardKeyFinite, FS_Subset, FS_CardinalityType DEF HeldBy, Held

\* Forgetting Cards or the image, or letting them age, keeps a state safe.
LEMMA ShrinkSafe ==
  ASSUME NEW s \in SchedState, NEW t \in SchedState, Safe(s),
         s.counter <= t.counter,
         \A k \in CardKey : t.cards[k] # None =>
            /\ s.cards[k] # None
            /\ t.cards[k].revision = s.cards[k].revision,
         t.image # None => s.image # None /\ t.image.id = s.image.id
  PROVE  Safe(t)
<1>1. Held(t) \subseteq Held(s)
  BY DEF Held
<1>2. WithinLimit(t)
  <2> SUFFICES ASSUME NEW p \in Plugins
               PROVE  Cardinality(HeldBy(t, p)) <= CardLimit[p]
    BY DEF WithinLimit
  <2>1. HeldBy(t, p) \in SUBSET HeldBy(s, p)
    BY <1>1 DEF HeldBy
  <2>2. Cardinality(HeldBy(t, p)) <= Cardinality(HeldBy(s, p))
    BY <2>1, HeldFinite, FS_Subset
  <2>3. CardLimit[p] \in Nat /\ Cardinality(HeldBy(s, p)) <= CardLimit[p]
    BY SchedulingAssumption DEF Safe, WithinLimit
  <2> QED
    BY <2>2, <2>3, HeldFinite
<1>3. Distinct(t)
  <2>1. \A k \in Held(t) : t.cards[k].revision = s.cards[k].revision
                           /\ s.cards[k].revision \in Nat
    BY <1>1 DEF Held, SchedState, CardEntry
  <2>2. s.counter \in Nat /\ t.counter \in Nat
    BY DEF SchedState
  <2>3. t.image # None => t.image.id = s.image.id /\ s.image.id \in Nat
    BY DEF SchedState, Image
  <2> QED
    BY <1>1, <2>1, <2>2, <2>3 DEF Safe, Distinct
<1> QED
  BY <1>2, <1>3 DEF Safe

\* expire keeps a state safe.
LEMMA ExpireSafe ==
  ASSUME NEW s \in SchedState, Safe(s)
  PROVE  Safe(Expire(s))
<1>1. Expire(s) \in SchedState /\ s.counter \in Nat
  BY ExpireType DEF SchedState
<1>2. Expire(s).counter = s.counter
      /\ Expire(s).cards = [k \in CardKey |-> IfLive(s.cards[k])]
      /\ Expire(s).image = IfLive(s.image)
  BY DEF Expire, SchedState
<1> HIDE DEF Expire
<1> QED
  BY <1>1, <1>2, ShrinkSafe DEF IfLive

\* remove keeps a state safe.
LEMMA RemoveSafe ==
  ASSUME NEW s \in SchedState, Safe(s), NEW key \in CardKey
  PROVE  Safe(Remove(s, key))
<1>1. Remove(s, key) \in SchedState /\ s.counter \in Nat
  BY RemoveType DEF SchedState
<1>2. Remove(s, key).counter = s.counter /\ Remove(s, key).image = s.image
      /\ Remove(s, key).cards = [s.cards EXCEPT ![key] = None]
  BY DEF Remove, SchedState
<1>3. s.cards \in [CardKey -> CardEntry \cup {None}]
  BY DEF SchedState
<1> QED
  BY <1>1, <1>2, <1>3, ShrinkSafe

\* remove_plugin keeps a state safe.
LEMMA RemovePluginSafe ==
  ASSUME NEW s \in SchedState, Safe(s), NEW p \in Plugins
  PROVE  Safe(RemovePlugin(s, p))
<1> DEFINE t == RemovePlugin(s, p)
<1>1. t \in SchedState /\ s.counter \in Nat
  BY RemovePluginType DEF SchedState
<1>2. t.counter = s.counter
      /\ t.image = (IF s.image # None /\ s.image.plugin = p THEN None ELSE s.image)
      /\ t.cards = [k \in CardKey |-> IF k.plugin = p THEN None ELSE s.cards[k]]
  BY DEF RemovePlugin, SchedState
<1> HIDE DEF t
<1>3. Safe(t)
  BY <1>1, <1>2, ShrinkSafe
<1> QED
  BY <1>3 DEF t

\* advance keeps a state safe.
LEMMA AdvanceSafe ==
  ASSUME NEW s \in SchedState, Safe(s)
  PROVE  Safe(Advance(s))
<1>1. Advance(s) \in SchedState /\ s.counter \in Nat
  BY AdvanceType DEF SchedState
<1>2. Advance(s).counter = s.counter /\ Advance(s).image = s.image
      /\ Advance(s).cards = s.cards
  BY DEF Advance, SchedState
<1> QED
  BY <1>1, <1>2, ShrinkSafe

\* What plan does to the state keeps it safe.
LEMMA PrepareSafe ==
  ASSUME NEW s \in SchedState, Safe(s)
  PROVE  Safe(Prepare(s))
<1> DEFINE t == Expire(s)
<1>1. t \in SchedState /\ Safe(t)
  BY ExpireType, ExpireSafe
<1> HIDE DEF t
<1>2. [t EXCEPT !.rotation = Rotate] \in SchedState
  BY <1>1, SchedulingAssumption DEF SchedState
<1>3. Safe([t EXCEPT !.rotation = Rotate])
  BY <1>1 DEF SchedState, Safe, WithinLimit, HeldBy, Held, Distinct
<1>4. Safe(Advance(t))
  BY <1>1, AdvanceSafe
<1> QED
  BY <1>1, <1>3, <1>4 DEF Prepare, t

\* The passing of time keeps a state safe.
LEMMA AgeSafe ==
  ASSUME NEW s \in SchedState, Safe(s)
  PROVE  Safe(Age(s))
<1> DEFINE Older(n) == IF n = None \/ n = 0 THEN n ELSE n - 1
           Aged(e)  == IF e = None THEN e ELSE [e EXCEPT !.left = Older(@)]
<1>1. Age(s) \in SchedState /\ s.counter \in Nat
  BY AgeType DEF SchedState
<1>2. Age(s).counter = s.counter /\ Age(s).image = Aged(s.image)
      /\ Age(s).cards = [k \in CardKey |-> Aged(s.cards[k])]
  BY DEF Age, SchedState
<1> HIDE DEF Older
<1>4. \A e \in CardEntry \cup {None} : Aged(e) # None =>
         e # None /\ Aged(e).revision = e.revision
  BY DEF CardEntry
<1>5. \A e \in Image \cup {None} : Aged(e) # None => e # None /\ Aged(e).id = e.id
  BY DEF Image
<1> HIDE DEF Aged
<1>6. s.image \in Image \cup {None}
      /\ \A k \in CardKey : s.cards[k] \in CardEntry \cup {None}
  BY DEF SchedState
<1> QED
  BY <1>1, <1>2, <1>4, <1>5, <1>6, ShrinkSafe

\* put keeps a state safe: it counts the other Cards of the plugin before it adds one
\* and gives the new content a new revision.
LEMMA PutSafe ==
  ASSUME NEW s \in SchedState, Safe(s), NEW key \in CardKey, NEW arg \in CardArgs
  PROVE  Safe(Put(s, key, arg))
<1> DEFINE live == Expire(s)
           t == Put(s, key, arg)
<1>1. live \in SchedState /\ Safe(live) /\ live.counter = s.counter
  BY ExpireType, ExpireSafe DEF Expire, SchedState
<1>2. CASE PutRefused(s, key, arg)
  BY <1>1, <1>2 DEF Put
<1>3. CASE ~PutRefused(s, key, arg)
  <2> DEFINE entry == [placement |-> arg.placement, priority |-> arg.priority,
                       left |-> IF arg.ttl = 0 THEN None ELSE arg.ttl,
                       revision |-> s.counter + 1]
             cards == [live.cards EXCEPT ![key] = entry]
  <2>1. t = [live EXCEPT !.counter = s.counter + 1, !.cards = cards]
    BY <1>3 DEF Put
  <2>2. t \in SchedState
    BY PutType
  <2>3. entry # None /\ entry.revision = s.counter + 1 /\ s.counter \in Nat
    BY <1>3, SchedulingAssumption, NoneAssumption
       DEF PutRefused, SchedState, CardEntry, Placement, Priority
  <2>4. /\ Cardinality(HeldBy(live, key.plugin) \ {key}) < CardLimit[key.plugin]
        /\ CardLimit[key.plugin] \in Nat
    <3>1. CardLimit[key.plugin] \in Nat
      BY SchedulingAssumption DEF CardKey
    <3>2. Cardinality(HeldBy(live, key.plugin) \ {key}) \in Nat
      BY HeldFinite, FS_Subset, FS_CardinalityType
    <3> QED
      BY <1>3, <3>1, <3>2 DEF PutRefused
  <2> HIDE DEF live, entry
  <2>5. /\ t.counter = s.counter + 1 /\ t.image = live.image
        /\ t.cards = cards
    BY <1>1, <2>1 DEF SchedState
  <2>6. /\ t.cards[key] = entry
        /\ \A k \in CardKey : k # key => t.cards[k] = live.cards[k]
    BY <1>1, <2>5 DEF SchedState
  <2> HIDE DEF t, cards
  <2>7. WithinLimit(t)
    <3> SUFFICES ASSUME NEW p \in Plugins
                 PROVE  Cardinality(HeldBy(t, p)) <= CardLimit[p]
      BY DEF WithinLimit
    <3>1. CASE p = key.plugin
      <4> DEFINE others == HeldBy(live, p) \ {key}
      <4>1. IsFiniteSet(others) /\ Cardinality(others) \in Nat
        BY HeldFinite, FS_Subset, FS_CardinalityType
      <4>2. HeldBy(t, p) = others \cup {key}
        BY <2>3, <2>6, <3>1 DEF HeldBy, Held
      <4>3. Cardinality(others \cup {key}) = Cardinality(others) + 1
        BY <4>1, FS_AddElement
      <4> QED
        BY <2>4, <3>1, <4>1, <4>2, <4>3
    <3>2. CASE p # key.plugin
      <4>1. HeldBy(t, p) = HeldBy(live, p)
        BY <2>6, <3>2 DEF HeldBy, Held
      <4> QED
        BY <1>1, <4>1 DEF Safe, WithinLimit
    <3> QED
      BY <3>1, <3>2
  <2>8. Distinct(t)
    <3>1. \A k \in Held(t) \ {key} :
             k \in Held(live) /\ t.cards[k] = live.cards[k]
             /\ live.cards[k].revision \in Nat /\ live.cards[k].revision <= s.counter
      BY <1>1, <2>6 DEF Held, SchedState, CardEntry, Safe, Distinct
    <3>2. t.cards[key].revision = s.counter + 1
      BY <2>3, <2>6
    <3>3. t.image # None => t.image.id \in Nat /\ t.image.id <= s.counter
      BY <1>1, <2>5 DEF SchedState, Image, Safe, Distinct
    <3>4. \A k \in Held(t) : t.cards[k].revision <= t.counter
      BY <2>3, <2>5, <3>1, <3>2
    <3>5. \A j, k \in Held(t) : t.cards[j].revision = t.cards[k].revision => j = k
      BY <1>1, <2>3, <3>1, <3>2 DEF Safe, Distinct
    <3>6. t.image # None => /\ t.image.id <= t.counter
                            /\ \A k \in Held(t) : t.cards[k].revision # t.image.id
      BY <1>1, <2>3, <2>5, <3>1, <3>2, <3>3 DEF Safe, Distinct
    <3> QED
      BY <3>4, <3>5, <3>6 DEF Distinct
  <2>9. Safe(t)
    BY <2>7, <2>8 DEF Safe
  <2> QED
    BY <2>9 DEF t
<1> QED
  BY <1>2, <1>3

\* image keeps a state safe: its id is new.
LEMMA ShowImageSafe ==
  ASSUME NEW s \in SchedState, Safe(s), NEW p \in Plugins, NEW ttl \in ImageTtls
  PROVE  Safe(ShowImage(s, p, ttl))
<1> DEFINE t == ShowImage(s, p, ttl)
<1>1. t.cards = s.cards /\ t.counter = s.counter + 1 /\ t.image.id = s.counter + 1
  BY DEF ShowImage, SchedState
<1>2. s.counter \in Nat /\ \A k \in Held(s) : s.cards[k].revision \in Nat
  BY DEF SchedState, Held, CardEntry
<1> HIDE DEF t
<1>3. WithinLimit(t) /\ Held(t) = Held(s)
  BY <1>1 DEF Safe, WithinLimit, HeldBy, Held
<1>4. Distinct(t)
  BY <1>1, <1>2, <1>3 DEF Safe, Distinct
<1>5. Safe(t)
  BY <1>3, <1>4 DEF Safe
<1> QED
  BY <1>5 DEF t

\* notify keeps a state safe: it only takes an id.
LEMMA NotifySafe ==
  ASSUME NEW s \in SchedState, Safe(s), NEW arg \in NoticeArgs
  PROVE  Safe(Notify(s, arg))
<1>1. Notify(s, arg) \in SchedState /\ s.counter \in Nat
  BY NotifyType DEF SchedState
<1>2. Notify(s, arg).cards = s.cards /\ Notify(s, arg).image = s.image
      /\ Notify(s, arg).counter = s.counter + 1
  BY DEF Notify, SchedState
<1> HIDE DEF Notify
<1> QED
  BY <1>1, <1>2, ShrinkSafe

-----------------------------------------------------------------------------
(* The order of the notices.                                               *)

\* The notice shown last once the state is s.
LastOf(s, last) == IF s.current = None THEN last ELSE s.current.notice.id

\* What waits in the queue is a Notice.
LEMMA NoticeIn ==
  ASSUME NEW q \in Seq(Notice), NEW i \in 1 .. Len(q)
  PROVE  q[i] \in Notice /\ q[i].id \in Nat
<1>1. q[i] \in Notice
  OBVIOUS
<1> QED
  BY <1>1 DEF Notice

\* An operation that leaves the queue alone and at most forgets what is current.
LEMMA KeepQueued ==
  ASSUME NEW s \in SchedState, NEW t \in SchedState, NEW last \in Nat,
         Queued(s, last), s.counter <= t.counter, t.pending = s.pending,
         t.current # None => s.current # None /\ t.current.notice = s.current.notice
  PROVE  Queued(t, LastOf(t, last))
<1>1. LastOf(t, last) = last /\ (t.current # None => t.current.notice.id = last)
  BY DEF LastOf, Queued
<1>2. \A i \in 1 .. Len(s.pending) : s.pending[i].id \in Nat
  BY NoticeIn DEF SchedState
<1>3. s.counter \in Nat /\ t.counter \in Nat
  BY DEF SchedState
<1> QED
  BY <1>1, <1>2, <1>3 DEF Queued

\* A queue that loses its head keeps the order, and the head precedes the rest.
LEMMA TailQueued ==
  ASSUME NEW q \in Seq(Notice), q # <<>>
  PROVE  /\ Tail(q) \in Seq(Notice) /\ Len(Tail(q)) = Len(q) - 1
         /\ Head(q) = q[1] /\ Head(q) \in Notice /\ Len(q) \in Nat \ {0}
         /\ \A i \in 1 .. Len(Tail(q)) : Tail(q)[i] = q[i + 1] /\ i + 1 \in 1 .. Len(q)
OBVIOUS

\* expire keeps the queue sorted and ahead of what was shown, though it may show the head.
LEMMA ExpireQueued ==
  ASSUME NEW s \in SchedState, NEW last \in Nat, Queued(s, last)
  PROVE  Queued(Expire(s), LastOf(Expire(s), last))
<1> DEFINE t == Expire(s)
           q == s.pending
<1>1. t \in SchedState
  BY ExpireType
<1>2. t.counter = s.counter /\ s.counter \in Nat /\ q \in Seq(Notice)
  BY DEF Expire, SchedState
<1>3. CASE ~(IfLive(s.current) = None /\ q # <<>>)
  <2>1. t.pending = s.pending /\ t.current = IfLive(s.current)
    BY <1>3 DEF Expire, SchedState
  <2> HIDE DEF t
  <2>2. Queued(t, LastOf(t, last))
    BY <1>1, <1>2, <2>1, KeepQueued DEF IfLive
  <2> QED
    BY <2>2 DEF t
<1>4. CASE IfLive(s.current) = None /\ q # <<>>
  <2>1. /\ t.pending = Tail(q)
        /\ t.current = [notice |-> Head(q), left |-> Head(q).duration]
    BY <1>4 DEF Expire, SchedState
  <2>2. t.current # None
    <3>1. Head(q) \in Notice /\ Head(q).duration \in Nat
      BY <1>2, <1>4, TailQueued DEF Notice
    <3>2. t.current \in Current
      BY <2>1, <3>1 DEF Current
    <3> QED
      BY <3>2, NoneAssumption
  <2> HIDE DEF t, q
  <2>3. LastOf(t, last) = q[1].id /\ t.current.notice.id = q[1].id
    BY <1>2, <1>4, <2>1, <2>2, TailQueued DEF LastOf
  <2>4. \A i \in 1 .. Len(q) : q[i].id \in Nat
    BY <1>2, NoticeIn
  <2>5. /\ Len(q) <= MaxPending
        /\ \A i \in 1 .. Len(q) : last < q[i].id /\ q[i].id <= s.counter
        /\ \A i, j \in 1 .. Len(q) : i < j => q[i].id < q[j].id
    BY DEF Queued, q
  <2>6. /\ Len(t.pending) = Len(q) - 1 /\ Len(q) \in Nat \ {0}
        /\ \A i \in 1 .. Len(t.pending) :
             t.pending[i] = q[i + 1] /\ i + 1 \in 1 .. Len(q)
    BY <1>2, <1>4, <2>1, TailQueued
  <2>7. MaxPending \in Nat
    BY SchedulingAssumption
  <2>8. \A i \in 1 .. Len(t.pending) :
           q[1].id < t.pending[i].id /\ t.pending[i].id <= t.counter
    <3> SUFFICES ASSUME NEW i \in 1 .. Len(t.pending)
                 PROVE  q[1].id < t.pending[i].id /\ t.pending[i].id <= t.counter
      OBVIOUS
    <3>1. i + 1 \in 1 .. Len(q) /\ 1 \in 1 .. Len(q) /\ 1 < i + 1
      BY <2>6
    <3> QED
      BY <1>2, <2>5, <2>6, <3>1
  <2>9. \A i, j \in 1 .. Len(t.pending) :
           i < j => t.pending[i].id < t.pending[j].id
    <3> SUFFICES ASSUME NEW i \in 1 .. Len(t.pending),
                        NEW j \in 1 .. Len(t.pending), i < j
                 PROVE  t.pending[i].id < t.pending[j].id
      OBVIOUS
    <3>1. i + 1 \in 1 .. Len(q) /\ j + 1 \in 1 .. Len(q) /\ i + 1 < j + 1
      BY <2>6
    <3> QED
      BY <2>5, <2>6, <3>1
  <2>10. Len(t.pending) <= MaxPending
    BY <2>5, <2>6, <2>7
  <2>11. q[1].id <= t.counter
    BY <1>2, <2>5, <2>6
  <2>12. Queued(t, q[1].id)
    BY <2>3, <2>8, <2>9, <2>10, <2>11 DEF Queued
  <2> QED
    BY <2>3, <2>12 DEF t
<1> QED
  BY <1>3, <1>4

\* notify keeps the queue sorted and within its limit.
LEMMA NotifyQueued ==
  ASSUME NEW s \in SchedState, NEW last \in Nat, Queued(s, last), NEW arg \in NoticeArgs
  PROVE  Queued(Notify(s, arg), LastOf(Notify(s, arg), last))
<1> DEFINE t == Notify(s, arg)
           q == s.pending
           kept == IF Len(q) = MaxPending THEN Tail(q) ELSE q
           new == [id |-> s.counter + 1, priority |-> arg.priority,
                   duration |-> IF arg.ttl = 0 THEN DefaultNotice ELSE arg.ttl]
<1>1. q \in Seq(Notice) /\ s.counter \in Nat /\ MaxPending \in Nat \ {0}
  BY SchedulingAssumption DEF SchedState
<1>2. t.pending = Append(kept, new) /\ t.counter = s.counter + 1
      /\ t.current = s.current
  BY DEF Notify, SchedState
<1>3. new.id = s.counter + 1
  OBVIOUS
<1>4. kept \in Seq(Notice) /\ Len(kept) < MaxPending /\ Len(kept) \in Nat
  <2>1. Len(q) <= MaxPending /\ Len(q) \in Nat
    BY <1>1 DEF Queued
  <2>2. CASE Len(q) = MaxPending
    <3>1. q # <<>>
      BY <1>1, <2>2
    <3> QED
      BY <1>1, <2>2, <3>1, TailQueued
  <2>3. CASE Len(q) # MaxPending
    BY <1>1, <2>1, <2>3
  <2> QED
    BY <2>2, <2>3
<1>5. /\ \A i \in 1 .. Len(kept) :
           kept[i].id \in Nat /\ last < kept[i].id /\ kept[i].id <= s.counter
      /\ \A i, j \in 1 .. Len(kept) : i < j => kept[i].id < kept[j].id
  <2>1. /\ \A i \in 1 .. Len(q) :
             q[i].id \in Nat /\ last < q[i].id /\ q[i].id <= s.counter
        /\ \A i, j \in 1 .. Len(q) : i < j => q[i].id < q[j].id
    BY <1>1, NoticeIn DEF Queued
  <2>2. CASE Len(q) = MaxPending
    <3>1. q # <<>>
      BY <1>1, <2>2
    <3>2. /\ Len(kept) \in Nat
          /\ \A i \in 1 .. Len(kept) : kept[i] = q[i + 1] /\ i + 1 \in 1 .. Len(q)
      BY <1>1, <1>4, <2>2, <3>1, TailQueued
    <3> HIDE DEF q, kept
    <3>3. ASSUME NEW i \in 1 .. Len(kept)
          PROVE  kept[i].id \in Nat /\ last < kept[i].id /\ kept[i].id <= s.counter
      BY <2>1, <3>2
    <3>4. ASSUME NEW i \in 1 .. Len(kept), NEW j \in 1 .. Len(kept), i < j
          PROVE  kept[i].id < kept[j].id
      <4>1. i + 1 \in 1 .. Len(q) /\ j + 1 \in 1 .. Len(q) /\ i + 1 < j + 1
        BY <3>2, <3>4
      <4> QED
        BY <2>1, <3>2, <4>1
    <3> QED
      BY <3>3, <3>4
  <2>3. CASE Len(q) # MaxPending
    BY <2>1, <2>3
  <2> QED
    BY <2>2, <2>3
<1> HIDE DEF t, q, kept, new
<1>6. /\ Len(t.pending) = Len(kept) + 1
      /\ \A i \in 1 .. Len(kept) : t.pending[i] = kept[i]
      /\ t.pending[Len(kept) + 1] = new
  BY <1>2, <1>4
<1>7. \A i \in 1 .. Len(t.pending) :
         i \in 1 .. Len(kept) \/ i = Len(kept) + 1
  BY <1>4, <1>6
<1>8. last <= s.counter
      /\ (s.current # None => s.current.notice.id = last)
  BY DEF Queued
<1>9. LastOf(t, last) = last
  BY <1>2, <1>8 DEF LastOf
<1>10. \A i \in 1 .. Len(t.pending) :
          last < t.pending[i].id /\ t.pending[i].id <= t.counter
  BY <1>1, <1>2, <1>3, <1>5, <1>6, <1>7, <1>8
<1>11. ASSUME NEW i \in 1 .. Len(t.pending), NEW j \in 1 .. Len(t.pending), i < j
       PROVE  t.pending[i].id < t.pending[j].id
  <2>1. i \in 1 .. Len(kept)
    BY <1>4, <1>6, <1>11
  <2>2. CASE j \in 1 .. Len(kept)
    BY <1>5, <1>6, <1>11, <2>1, <2>2
  <2>3. CASE j = Len(kept) + 1
    <3>1. t.pending[j].id = s.counter + 1
      BY <1>3, <1>6, <2>3
    <3>2. t.pending[i].id \in Nat /\ t.pending[i].id <= s.counter
      BY <1>5, <1>6, <2>1
    <3> QED
      BY <1>1, <3>1, <3>2
  <2> QED
    BY <1>7, <2>2, <2>3
<1>12. Queued(t, last)
  BY <1>1, <1>2, <1>4, <1>6, <1>8, <1>10, <1>11 DEF Queued
<1> QED
  BY <1>9, <1>12 DEF t

\* put keeps the queue sorted, though it expires what is current.
LEMMA PutQueued ==
  ASSUME NEW s \in SchedState, NEW last \in Nat, Queued(s, last),
         NEW key \in CardKey, NEW arg \in CardArgs
  PROVE  Queued(Put(s, key, arg), LastOf(Put(s, key, arg), last))
<1> DEFINE live == Expire(s)
           t == Put(s, key, arg)
           next == LastOf(live, last)
<1>1. live \in SchedState /\ Queued(live, next) /\ live.counter = s.counter
      /\ t \in SchedState /\ s.counter \in Nat
  BY ExpireType, ExpireQueued, PutType DEF Expire, SchedState
<1>2. t.pending = live.pending /\ t.current = live.current /\ live.counter <= t.counter
  <2> HIDE DEF live
  <2>1. live.counter \in Nat /\ s.counter + 1 >= live.counter
    BY <1>1
  <2> QED
    BY <1>1, <2>1 DEF Put, live, SchedState
<1> HIDE DEF live, t
<1>3. next \in Nat
  BY <1>1 DEF LastOf, SchedState, Current, Notice
<1>4. LastOf(t, next) = LastOf(t, last) /\ LastOf(t, next) = next
  BY <1>1, <1>2 DEF LastOf
<1>5. Queued(t, LastOf(t, next))
  BY <1>1, <1>2, <1>3, KeepQueued
<1> QED
  BY <1>4, <1>5 DEF t

\* What plan does to the state keeps the queue sorted.
LEMMA PrepareQueued ==
  ASSUME NEW s \in SchedState, NEW last \in Nat, Queued(s, last)
  PROVE  Queued(Prepare(s), LastOf(Prepare(s), last))
<1> DEFINE live == Expire(s)
           t == Prepare(s)
           next == LastOf(live, last)
<1>1. live \in SchedState /\ Queued(live, next) /\ t \in SchedState
      /\ live.counter \in Nat
  BY ExpireType, ExpireQueued, PrepareType DEF SchedState
<1>2. t.pending = live.pending /\ t.current = live.current /\ live.counter = t.counter
  <2> HIDE DEF live
  <2> QED
    BY <1>1 DEF Prepare, Advance, live, SchedState
<1> HIDE DEF live, t
<1>3. next \in Nat
  BY <1>1 DEF LastOf, SchedState, Current, Notice
<1>4. LastOf(t, next) = LastOf(t, last) /\ LastOf(t, next) = next
  BY <1>2 DEF LastOf
<1>5. Queued(t, LastOf(t, next))
  BY <1>1, <1>2, <1>3, KeepQueued
<1> QED
  BY <1>4, <1>5 DEF t

-----------------------------------------------------------------------------
(* Who is held: an operation adds nothing but what it was asked to.        *)

\* All that t holds, s holds for the same plugin.
NothingNew(s, t) ==
  /\ \A k \in CardKey : t.cards[k] # None => s.cards[k] # None
  /\ t.image # None => s.image # None /\ t.image.plugin = s.image.plugin

\* Expiry, removal, time and notices add no Card and no image.
LEMMA HoldsNothingNew ==
  ASSUME NEW s \in SchedState
  PROVE  /\ NothingNew(s, s)
         /\ NothingNew(s, Expire(s)) /\ Expire(s).counter = s.counter
         /\ NothingNew(s, Prepare(s)) /\ NothingNew(s, Age(s)) /\ NothingNew(s, Advance(s))
         /\ \A k \in CardKey : NothingNew(s, Remove(s, k))
         /\ \A a \in NoticeArgs : NothingNew(s, Notify(s, a))
<1>1. NothingNew(s, s)
  BY DEF NothingNew
<1>2. /\ Expire(s).cards = [k \in CardKey |-> IfLive(s.cards[k])]
      /\ Expire(s).image = IfLive(s.image) /\ Expire(s).counter = s.counter
  BY DEF Expire, SchedState
<1>3. NothingNew(s, Expire(s))
  BY <1>2 DEF NothingNew, IfLive, Live
<1>4. \A t \in SchedState : Advance(t).cards = t.cards /\ Advance(t).image = t.image
  BY DEF Advance, SchedState
<1>5. Prepare(s).cards = Expire(s).cards /\ Prepare(s).image = Expire(s).image
  <2> DEFINE t == Expire(s)
  <2>1. t \in SchedState
    BY ExpireType
  <2> HIDE DEF t
  <2>2. [t EXCEPT !.rotation = Rotate].cards = t.cards
        /\ [t EXCEPT !.rotation = Rotate].image = t.image
    BY <2>1 DEF SchedState
  <2> QED
    BY <2>1, <2>2, <1>4 DEF Prepare, t
<1>6. NothingNew(s, Prepare(s))
  BY <1>3, <1>5 DEF NothingNew
<1>7. NothingNew(s, Advance(s))
  BY <1>4 DEF NothingNew
<1>8. NothingNew(s, Age(s))
  <2> DEFINE Older(n) == IF n = None \/ n = 0 THEN n ELSE n - 1
             Aged(e)  == IF e = None THEN e ELSE [e EXCEPT !.left = Older(@)]
  <2>1. Age(s).cards = [k \in CardKey |-> Aged(s.cards[k])] /\ Age(s).image = Aged(s.image)
    BY DEF Age, SchedState
  <2>2. s.image # None => Aged(s.image).plugin = s.image.plugin
    BY DEF SchedState, Image
  <2> QED
    BY <2>1, <2>2 DEF NothingNew
<1>9. ASSUME NEW k \in CardKey PROVE NothingNew(s, Remove(s, k))
  <2>1. Remove(s, k).cards = [s.cards EXCEPT ![k] = None] /\ Remove(s, k).image = s.image
    BY DEF Remove, SchedState
  <2>2. s.cards \in [CardKey -> CardEntry \cup {None}]
    BY DEF SchedState
  <2> QED
    BY <2>1, <2>2 DEF NothingNew
<1>10. ASSUME NEW a \in NoticeArgs PROVE NothingNew(s, Notify(s, a))
  <2>1. Notify(s, a).cards = s.cards /\ Notify(s, a).image = s.image
    BY DEF Notify, SchedState
  <2> QED
    BY <2>1 DEF NothingNew
<1> QED
  BY <1>1, <1>2, <1>3, <1>6, <1>7, <1>8, <1>9, <1>10

\* remove_plugin leaves nothing of the plugin.
LEMMA RemovesAll ==
  ASSUME NEW s \in SchedState, NEW p \in Plugins
  PROVE  /\ NothingNew(s, RemovePlugin(s, p)) /\ RemovePlugin(s, p).counter = s.counter
         /\ \A k \in CardKey : k.plugin = p => RemovePlugin(s, p).cards[k] = None
         /\ RemovePlugin(s, p).image # None => RemovePlugin(s, p).image.plugin # p
<1>1. RemovePlugin(s, p).counter = s.counter
      /\ RemovePlugin(s, p).image = (IF s.image # None /\ s.image.plugin = p THEN None
                                     ELSE s.image)
      /\ RemovePlugin(s, p).cards = [k \in CardKey |-> IF k.plugin = p THEN None
                                                       ELSE s.cards[k]]
  BY DEF RemovePlugin, SchedState
<1> QED
  BY <1>1 DEF NothingNew

\* put adds its Card, and only if it does the counter moves on.
LEMMA PutHolds ==
  ASSUME NEW s \in SchedState, NEW key \in CardKey, NEW arg \in CardArgs
  PROVE  /\ PutRefused(s, key, arg) => NothingNew(s, Put(s, key, arg))
                                         /\ Put(s, key, arg).counter = s.counter
         /\ ~PutRefused(s, key, arg) => Put(s, key, arg).counter > s.counter
         /\ \A k \in CardKey :
              Put(s, key, arg).cards[k] # None => k = key \/ s.cards[k] # None
         /\ Put(s, key, arg).image # None =>
              s.image # None /\ Put(s, key, arg).image.plugin = s.image.plugin
<1> DEFINE live == Expire(s)
           entry == [placement |-> arg.placement, priority |-> arg.priority,
                     left |-> IF arg.ttl = 0 THEN None ELSE arg.ttl,
                     revision |-> s.counter + 1]
<1>1. live \in SchedState /\ NothingNew(s, live) /\ live.counter = s.counter
      /\ s.counter \in Nat
  BY ExpireType, HoldsNothingNew DEF SchedState
<1>2. CASE PutRefused(s, key, arg)
  <2>1. Put(s, key, arg) = live
    BY <1>2 DEF Put
  <2> QED
    BY <1>1, <1>2, <2>1 DEF NothingNew
<1>3. CASE ~PutRefused(s, key, arg)
  <2>1. Put(s, key, arg) = [live EXCEPT !.counter = s.counter + 1,
                                        !.cards = [live.cards EXCEPT ![key] = entry]]
    BY <1>3 DEF Put
  <2> HIDE DEF live, entry
  <2>2. /\ Put(s, key, arg).counter = s.counter + 1
        /\ Put(s, key, arg).cards = [live.cards EXCEPT ![key] = entry]
        /\ Put(s, key, arg).image = live.image
    BY <1>1, <2>1 DEF SchedState
  <2>3. live.cards \in [CardKey -> CardEntry \cup {None}]
    BY <1>1 DEF SchedState
  <2> QED
    BY <1>1, <1>3, <2>2, <2>3 DEF NothingNew
<1> QED
  BY <1>2, <1>3

\* image leaves the Cards alone; the image is that of the plugin that asked.
LEMMA ShowImageHolds ==
  ASSUME NEW s \in SchedState, NEW p \in Plugins, NEW ttl \in ImageTtls
  PROVE  /\ ShowImage(s, p, ttl).cards = s.cards
         /\ ShowImage(s, p, ttl).image # None /\ ShowImage(s, p, ttl).image.plugin = p
         /\ ShowImage(s, p, ttl).counter > s.counter
<1>1. /\ ShowImage(s, p, ttl).cards = s.cards
      /\ ShowImage(s, p, ttl).image = [plugin |-> p, id |-> s.counter + 1,
                                       left |-> IF ttl = 0 THEN DefaultImage ELSE ttl]
      /\ ShowImage(s, p, ttl).counter = s.counter + 1
  BY DEF ShowImage, SchedState
<1>2. [plugin |-> p, id |-> s.counter + 1,
       left |-> IF ttl = 0 THEN DefaultImage ELSE ttl] \in Image
  BY SchedulingAssumption DEF SchedState, Image
<1> QED
  BY <1>1, <1>2, NoneAssumption DEF SchedState

\* A plan shows no Card but one that is held.
LEMMA VisibleHeld ==
  ASSUME NEW s \in SchedState
  PROVE  VisibleCards(PlanOf(s)) \subseteq Held(s)
<1> DEFINE Fine(x) == x # None /\ x.source.kind = "card" => x.source.key \in Held(s)
<1>1. \A k \in Held(s) : Fine(CardShown(s, k))
  BY DEF CardShown
<1>2. Fine(NoticeShown(s)) /\ Fine(ImageShown(s)) /\ Fine(None)
  BY DEF NoticeShown, ImageShown
<1>3. \A n : Fine(BannerAt(s, n))
  <2> TAKE n
  <2> DEFINE at == {k \in InPlace(s, "Banner") :
                      Cardinality({j \in InPlace(s, "Banner") : BannerBefore(s, j, k)}) = n}
  <2>1. at \subseteq Held(s)
    BY DEF InPlace
  <2>2. BannerAt(s, n) = IF at = {} THEN None ELSE CardShown(s, CHOOSE k \in at : TRUE)
    BY DEF BannerAt
  <2> HIDE DEF at, Fine
  <2> QED
    BY <1>1, <1>2, <2>1, <2>2
<1>4. Fine(PlanTop(s)) /\ Fine(PlanBottom(s))
  <2> HIDE DEF Fine
  <2> QED
    BY <1>2, <1>3 DEF PlanTop, PlanBottom
<1>5. Fine(PlanOverlay(s))
  <2>1. OverlayBest(s) \subseteq Held(s)
    BY DEF OverlayBest, InPlace
  <2> HIDE DEF Fine
  <2> QED
    BY <1>1, <1>2, <2>1 DEF PlanOverlay
<1> QED
  BY <1>4, <1>5 DEF VisibleCards, ShownBy, PlanOf

-----------------------------------------------------------------------------
(* What a plan shows.                                                      *)

\* No notice that waits would be over as soon as it is shown.
Lasting(s) == \A i \in 1 .. Len(s.pending) : s.pending[i].duration # 0

\* All that is held has time left.
Timely(s) ==
  /\ \A k \in Held(s) : s.cards[k].left # 0
  /\ s.current # None => s.current.left # 0
  /\ s.image # None => s.image.left # 0

\* expire leaves nothing that has no time left: the notice it promotes has not
\* begun to age.
LEMMA ExpireTimely ==
  ASSUME NEW s \in SchedState, Lasting(s)
  PROVE  Timely(Expire(s)) /\ Lasting(Expire(s))
<1> DEFINE t == Expire(s)
           q == s.pending
<1>1. /\ t.cards = [k \in CardKey |-> IfLive(s.cards[k])] /\ t.image = IfLive(s.image)
      /\ q \in Seq(Notice)
  BY DEF Expire, SchedState
<1>2. CASE ~(IfLive(s.current) = None /\ q # <<>>)
  <2>1. t.current = IfLive(s.current) /\ t.pending = q
    BY <1>2 DEF Expire, SchedState
  <2> HIDE DEF t, q
  <2>2. Timely(t)
    BY <1>1, <2>1 DEF Timely, Held, IfLive, Live
  <2>3. Lasting(t)
    BY <2>1 DEF Lasting, q
  <2> QED
    BY <2>2, <2>3 DEF t
<1>3. CASE IfLive(s.current) = None /\ q # <<>>
  <2>1. t.pending = Tail(q)
        /\ t.current = [notice |-> Head(q), left |-> Head(q).duration]
    BY <1>3 DEF Expire, SchedState
  <2>2. Head(q) = q[1] /\ 1 \in 1 .. Len(q)
    BY <1>1, <1>3
  <2>3. t.current.left # 0
    BY <2>1, <2>2 DEF Lasting
  <2>4. Len(t.pending) = Len(q) - 1 /\ Len(q) \in Nat
        /\ \A i \in 1 .. Len(t.pending) : t.pending[i] = q[i + 1] /\ i + 1 \in 1 .. Len(q)
    BY <1>1, <1>3, <2>1, TailQueued
  <2> HIDE DEF t
  <2>5. Timely(t)
    BY <1>1, <2>3 DEF Timely, Held, IfLive, Live
  <2>6. Lasting(t)
    BY <2>4 DEF Lasting
  <2> QED
    BY <2>5, <2>6 DEF t
<1> QED
  BY <1>2, <1>3

\* What plan reads has time left.
LEMMA PrepareTimely ==
  ASSUME NEW s \in SchedState, Lasting(s)
  PROVE  Timely(Prepare(s)) /\ Lasting(Prepare(s))
<1> DEFINE live == Expire(s)
           t == Prepare(s)
<1>1. live \in SchedState /\ Timely(live) /\ Lasting(live)
  BY ExpireType, ExpireTimely
<1>2. t.pending = live.pending /\ t.current = live.current /\ t.cards = live.cards
      /\ t.image = live.image
  <2> HIDE DEF live
  <2> QED
    BY <1>1 DEF Prepare, Advance, live, SchedState
<1> HIDE DEF live, t
<1>3. Timely(t) /\ Lasting(t)
  BY <1>1, <1>2 DEF Timely, Lasting, Held
<1> QED
  BY <1>3 DEF t

\* A notice waits with a duration, its own or the default (notify).
LEMMA NotifyLasting ==
  ASSUME NEW s \in SchedState, Lasting(s), NEW arg \in NoticeArgs
  PROVE  Lasting(Notify(s, arg))
<1> DEFINE t == Notify(s, arg)
           q == s.pending
           kept == IF Len(q) = MaxPending THEN Tail(q) ELSE q
           new == [id |-> s.counter + 1, priority |-> arg.priority,
                   duration |-> IF arg.ttl = 0 THEN DefaultNotice ELSE arg.ttl]
<1>1. q \in Seq(Notice) /\ MaxPending \in Nat \ {0} /\ Len(q) \in Nat
  BY SchedulingAssumption DEF SchedState
<1>2. t.pending = Append(kept, new)
  BY DEF Notify, SchedState
<1>3. new.duration # 0
  BY SchedulingAssumption
<1>4. /\ Len(kept) \in Nat
      /\ \A i \in 1 .. Len(kept) : kept[i].duration # 0
  <2>1. CASE Len(q) = MaxPending
    <3>1. q # <<>> /\ kept = Tail(q)
      BY <1>1, <2>1
    <3>2. /\ Len(kept) = Len(q) - 1
          /\ \A i \in 1 .. Len(kept) : kept[i] = q[i + 1] /\ i + 1 \in 1 .. Len(q)
      <4> HIDE DEF q
      <4> QED
        BY <1>1, <3>1, TailQueued
    <3>3. Len(kept) \in Nat
      BY <1>1, <2>1, <3>2
    <3> HIDE DEF q, kept
    <3> QED
      BY <3>2, <3>3 DEF Lasting, q
  <2>2. CASE Len(q) # MaxPending
    BY <1>1, <2>2 DEF Lasting
  <2> QED
    BY <2>1, <2>2
<1>5. kept \in Seq(Notice)
  BY <1>1
<1> HIDE DEF t, q, kept, new
<1>6. /\ Len(t.pending) = Len(kept) + 1
      /\ \A i \in 1 .. Len(kept) : t.pending[i] = kept[i]
      /\ t.pending[Len(kept) + 1] = new
  BY <1>2, <1>4, <1>5
<1>7. Lasting(t)
  BY <1>3, <1>4, <1>6 DEF Lasting
<1> QED
  BY <1>7 DEF t

\* put keeps what waits.
LEMMA PutLasting ==
  ASSUME NEW s \in SchedState, Lasting(s), NEW key \in CardKey, NEW arg \in CardArgs
  PROVE  Lasting(Put(s, key, arg))
<1> DEFINE live == Expire(s)
<1>1. live \in SchedState /\ Lasting(live)
  BY ExpireType, ExpireTimely
<1>2. Put(s, key, arg).pending = live.pending
  <2> HIDE DEF live
  <2> QED
    BY <1>1 DEF Put, live, SchedState
<1> QED
  BY <1>1, <1>2 DEF Lasting

\* x is the content of something that s holds.
ShownOf(s, x) ==
  \/ \E k \in Held(s) : x = CardShown(s, k)
  \/ s.current # None /\ x = NoticeShown(s)
  \/ s.image # None /\ x = ImageShown(s)

\* The n-th banner is a Card among the banners, the n-th of them.
LEMMA BannerAtRank ==
  ASSUME NEW s, NEW n, BannerAt(s, n) # None
  PROVE  \E k \in InPlace(s, "Banner") :
           /\ BannerAt(s, n) = CardShown(s, k)
           /\ Cardinality({j \in InPlace(s, "Banner") : BannerBefore(s, j, k)}) = n
<1> DEFINE at == {k \in InPlace(s, "Banner") :
                    Cardinality({j \in InPlace(s, "Banner") : BannerBefore(s, j, k)}) = n}
<1>1. BannerAt(s, n) = IF at = {} THEN None ELSE CardShown(s, CHOOSE k \in at : TRUE)
  BY DEF BannerAt
<1>2. PICK k \in at : BannerAt(s, n) = CardShown(s, k)
  <2> HIDE DEF at
  <2> QED
    BY <1>1
<1> QED
  BY <1>2

\* No Card has two ranks, so that two slots never show the same banner.
LEMMA BannersApart ==
  ASSUME NEW s, NEW m, NEW n, m # n, BannerAt(s, m) # None, BannerAt(s, n) # None
  PROVE  BannerAt(s, m) # BannerAt(s, n)
<1> DEFINE rank(k) == Cardinality({j \in InPlace(s, "Banner") : BannerBefore(s, j, k)})
<1>1. \A j, k : CardShown(s, j) = CardShown(s, k) => j = k
  BY DEF CardShown
<1>2. PICK a \in InPlace(s, "Banner") : BannerAt(s, m) = CardShown(s, a) /\ rank(a) = m
  BY BannerAtRank
<1>3. PICK b \in InPlace(s, "Banner") : BannerAt(s, n) = CardShown(s, b) /\ rank(b) = n
  BY BannerAtRank
<1> HIDE DEF rank
<1> QED
  BY <1>1, <1>2, <1>3

\* What the overlay shows: the high notice, the image, or the best Card.
LEMMA OverlayShows ==
  ASSUME NEW s, PlanOverlay(s) # None
  PROVE  \/ HasHighNotice(s) /\ PlanOverlay(s) = NoticeShown(s)
         \/ ~HasHighNotice(s) /\ s.image # None /\ PlanOverlay(s) = ImageShown(s)
         \/ ~HasHighNotice(s) /\ \E k \in OverlayBest(s) : PlanOverlay(s) = CardShown(s, k)
<1>1. OverlayBest(s) # {} =>
         \E k \in OverlayBest(s) : CardShown(s, CHOOSE j \in OverlayBest(s) : TRUE)
                                     = CardShown(s, k)
  OBVIOUS
<1> QED
  BY <1>1 DEF PlanOverlay, ImageWins

\* A plan shows nothing but what is held.
LEMMA PlanShows ==
  ASSUME NEW s, NEW x \in ShownBy(PlanOf(s))
  PROVE  ShownOf(s, x)
<1>1. \A n : BannerAt(s, n) # None => ShownOf(s, BannerAt(s, n))
  BY BannerAtRank DEF ShownOf, InPlace
<1>2. PlanTop(s) # None => ShownOf(s, PlanTop(s))
  BY <1>1 DEF PlanTop
<1>3. PlanBottom(s) # None => ShownOf(s, PlanBottom(s))
  <2>1. HasBannerNotice(s) => ShownOf(s, NoticeShown(s))
    BY DEF HasBannerNotice, ShownOf
  <2> QED
    BY <1>1, <2>1 DEF PlanBottom
<1>4. PlanOverlay(s) # None => ShownOf(s, PlanOverlay(s))
  BY OverlayShows DEF HasHighNotice, ShownOf, OverlayBest, InPlace
<1> QED
  BY <1>2, <1>3, <1>4 DEF ShownBy, PlanOf

\* The page of two banners is a number, also when there is none.
LEMMA PageNumber ==
  ASSUME NEW s \in SchedState
  PROVE  LET count == Cardinality(InPlace(s, "Banner"))
             pages == IF count = 0 THEN 1 ELSE (count + 1) \div 2
         IN  (s.page % pages) * 2 \in Nat
<1> DEFINE count == Cardinality(InPlace(s, "Banner"))
           pages == IF count = 0 THEN 1 ELSE (count + 1) \div 2
<1>1. count \in Nat
  <2>1. InPlace(s, "Banner") \in SUBSET CardKey
    BY DEF InPlace, Held
  <2> QED
    BY <2>1, CardKeyFinite, FS_Subset, FS_CardinalityType
<1> HIDE DEF count
<1>2. pages \in Nat \ {0}
  BY <1>1
<1> HIDE DEF pages
<1>3. s.page \in Nat
  BY SchedulingAssumption DEF SchedState
<1>4. s.page % pages \in Nat
  BY <1>2, <1>3, ModRange
<1>5. (s.page % pages) * 2 \in Nat
  BY <1>4
<1> QED
  BY <1>5 DEF pages, count

\* A plan shows nothing in two slots at once.
LEMMA SlotsApart ==
  ASSUME NEW s \in SchedState
  PROVE  /\ PlanTop(s) # None => PlanTop(s) # PlanBottom(s) /\ PlanTop(s) # PlanOverlay(s)
         /\ PlanBottom(s) # None => PlanBottom(s) # PlanOverlay(s)
<1> DEFINE Banner(x) == \E k \in InPlace(s, "Banner") : x = CardShown(s, k)
           n == (s.page % (IF Cardinality(InPlace(s, "Banner")) = 0 THEN 1
                           ELSE (Cardinality(InPlace(s, "Banner")) + 1) \div 2)) * 2
<1>1. \A m : BannerAt(s, m) # None => Banner(BannerAt(s, m))
  BY BannerAtRank
<1>2. \A k : /\ CardShown(s, k) # NoticeShown(s) /\ CardShown(s, k) # ImageShown(s)
             /\ \A j : CardShown(s, j) = CardShown(s, k) => j = k
  BY DEF CardShown, NoticeShown, ImageShown
<1>3. NoticeShown(s) # ImageShown(s)
  BY DEF NoticeShown, ImageShown
<1>4. \A k \in OverlayBest(s) : k \notin InPlace(s, "Banner")
  BY DEF OverlayBest, InPlace
<1>5. ASSUME NEW x, Banner(x), x = PlanOverlay(s), x # None PROVE FALSE
  BY <1>2, <1>4, <1>5, OverlayShows
<1>6. PlanTop(s) # None => Banner(PlanTop(s))
  BY <1>1 DEF PlanTop
<1>7. PlanTop(s) # None => PlanTop(s) # PlanBottom(s)
  <2>1. CASE HasBannerNotice(s)
    BY <1>2, <1>6, <2>1 DEF PlanBottom
  <2>2. CASE ~HasBannerNotice(s)
    <3>1. n \in Nat
      BY PageNumber
    <3>2. n # n + 1
      BY <3>1
    <3>3. PlanTop(s) = BannerAt(s, n) /\ PlanBottom(s) = BannerAt(s, n + 1)
      BY <2>2 DEF PlanTop, PlanBottom
    <3> HIDE DEF n
    <3> QED
      BY <3>2, <3>3, BannersApart
  <2> QED
    BY <2>1, <2>2
<1>8. PlanTop(s) # None => PlanTop(s) # PlanOverlay(s)
  <2> HIDE DEF Banner
  <2> QED
    BY <1>5, <1>6
<1>9. PlanBottom(s) # None => PlanBottom(s) # PlanOverlay(s)
  <2>1. CASE HasBannerNotice(s)
    <3>1. ~HasHighNotice(s)
      BY <2>1 DEF HasHighNotice, HasBannerNotice
    <3>2. PlanBottom(s) = NoticeShown(s)
      BY <2>1 DEF PlanBottom
    <3> QED
      BY <1>2, <1>3, <3>1, <3>2, OverlayShows
  <2>2. CASE ~HasBannerNotice(s)
    <3>1. PlanBottom(s) # None => Banner(PlanBottom(s))
      BY <1>1, <2>2 DEF PlanBottom
    <3> HIDE DEF Banner
    <3> QED
      BY <1>5, <3>1
  <2> QED
    BY <2>1, <2>2
<1> QED
  BY <1>7, <1>8, <1>9

-----------------------------------------------------------------------------
(* The best Card on the overlay.                                           *)

\* A non-empty set of naturals has a least element.
LEMMA LeastNatural ==
  ASSUME NEW T \in SUBSET Nat, T # {}
  PROVE  \E x \in T : \A y \in T : x <= y
<1> DEFINE R == OpToRel(<, Nat)
<1>1. IsWellFoundedOn(R, Nat)
  BY NatLessThanWellFounded
<1>2. \A x, y \in Nat : x < y => <<x, y>> \in R
  BY DEF OpToRel
<1> HIDE DEF R
<1>3. PICK x \in T : \A y \in T : <<y, x>> \notin R
  BY <1>1, WFMin
<1>4. \A y \in T : x <= y
  <2> TAKE y \in T
  <2>1. x \in Nat /\ y \in Nat /\ ~(y < x)
    BY <1>2, <1>3
  <2> QED
    BY <2>1
<1> QED
  BY <1>4

\* Where there are Cards on the overlay, one is the best: the newest of those of
\* the highest priority (max_by_key in plan).
LEMMA BestExists ==
  ASSUME NEW s \in SchedState, Distinct(s), InPlace(s, "Overlay") # {}
  PROVE  OverlayBest(s) # {}
<1> DEFINE overlay == InPlace(s, "Overlay")
           card(k) == s.cards[k]
<1>1. /\ \A k \in overlay : card(k).priority \in Priority /\ card(k).revision \in Nat
                            /\ card(k).revision <= s.counter
      /\ s.counter \in Nat /\ overlay # {}
  BY DEF InPlace, Held, SchedState, CardEntry, Distinct
<1> HIDE DEF overlay, card
<1>2. PICK a \in overlay : \A j \in overlay : card(j).priority <= card(a).priority
  <2> DEFINE T == {High - card(k).priority : k \in overlay}
  <2>1. T \in SUBSET Nat /\ T # {}
    BY <1>1 DEF Priority, Low, Normal, High
  <2>2. PICK x \in T : \A y \in T : x <= y
    <3> HIDE DEF T
    <3> QED
      BY <2>1, LeastNatural
  <2>3. PICK a \in overlay : x = High - card(a).priority
    OBVIOUS
  <2>4. ASSUME NEW j \in overlay PROVE card(j).priority <= card(a).priority
    <3>1. High - card(a).priority <= High - card(j).priority
      BY <2>2, <2>3
    <3> QED
      BY <1>1, <3>1 DEF Priority, Low, Normal, High
  <2> QED
    BY <2>4
<1> DEFINE same == {k \in overlay : card(k).priority = card(a).priority}
<1>3. PICK b \in same : \A j \in same : card(j).revision <= card(b).revision
  <2> DEFINE T == {s.counter - card(k).revision : k \in same}
  <2>1. T \in SUBSET Nat /\ T # {}
    BY <1>1, <1>2
  <2>2. PICK x \in T : \A y \in T : x <= y
    <3> HIDE DEF T
    <3> QED
      BY <2>1, LeastNatural
  <2>3. PICK b \in same : x = s.counter - card(b).revision
    OBVIOUS
  <2>4. ASSUME NEW j \in same PROVE card(j).revision <= card(b).revision
    <3>1. s.counter - card(b).revision <= s.counter - card(j).revision
      BY <2>2, <2>3
    <3> QED
      BY <1>1, <3>1
  <2> QED
    BY <2>4
<1>4. ASSUME NEW j \in overlay
      PROVE  \/ card(j).priority < card(b).priority
             \/ card(j).priority = card(b).priority /\ card(j).revision <= card(b).revision
  <2>1. card(j).priority <= card(b).priority
    BY <1>2, <1>3
  <2>2. CASE j \in same
    BY <1>3, <2>2
  <2>3. CASE j \notin same
    BY <1>1, <1>3, <2>1, <2>3 DEF Priority, Low, Normal, High
  <2> QED
    BY <2>2, <2>3
<1>5. b \in overlay
  OBVIOUS
<1> HIDE DEF same
<1> QED
  BY <1>4, <1>5 DEF OverlayBest, overlay, card

\* No two Cards are best: equal priorities are told apart by the revision.
LEMMA BestUnique ==
  ASSUME NEW s \in SchedState, Distinct(s),
         NEW a \in OverlayBest(s), NEW b \in OverlayBest(s)
  PROVE  a = b
<1>1. /\ a \in InPlace(s, "Overlay") /\ b \in InPlace(s, "Overlay")
      /\ a \in Held(s) /\ b \in Held(s)
  BY DEF OverlayBest, InPlace
<1>2. /\ s.cards[a].priority \in Nat /\ s.cards[b].priority \in Nat
      /\ s.cards[a].revision \in Nat /\ s.cards[b].revision \in Nat
  BY <1>1 DEF Held, SchedState, CardEntry, Priority, Low, Normal, High
<1>3. s.cards[a].revision = s.cards[b].revision
  BY <1>1, <1>2 DEF OverlayBest
<1> QED
  BY <1>1, <1>3 DEF Distinct
=============================================================================
