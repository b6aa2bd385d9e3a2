----------------------------- MODULE Scheduling -----------------------------
(***************************************************************************)
(* The arbitration of the screen: crates/host/src/daemon/scheduler.rs.     *)
(*                                                                         *)
(* Plugins put Cards, images and notices; the daemon asks for a Plan, the  *)
(* content of the two banner slots and of the overlay.  The code takes the *)
(* time as an argument; here a deadline is the number of ticks that remain *)
(* until it, Age is the passing of one tick, and a deadline has passed     *)
(* when nothing remains.  (deadline - now is all the code ever uses.)      *)
(*                                                                         *)
(* The operations are functions on the record `sched`, so that the daemon  *)
(* can call several of them in one step; module Scheduler calls them in    *)
(* any order.  The rows of a Card, the text of a notice and the pixels of  *)
(* an image are not modelled: the revision or the id stands for the        *)
(* content it identifies.                                                  *)
(***************************************************************************)
EXTENDS Integers, Sequences, FiniteSets

CONSTANTS
  Plugins,       \* indices of the configured plugins, a set of naturals
  Cards,         \* Card identifiers of one plugin, a set of naturals
  CardLimit,     \* [Plugins -> Nat], granted number of Cards
  CardArgs,      \* the Cards that are put: [placement, priority, ttl]
  NoticeArgs,    \* the notices that are posted: [priority, ttl]
  ImageTtls,     \* the ttl of the images that are shown
  Rotate,        \* rotation interval of the banners
  DefaultNotice, \* DEFAULT_NOTICE, shown when the ttl of a notice is 0
  DefaultImage,  \* DEFAULT_IMAGE
  MaxPending,    \* MAX_PENDING_NOTICES
  PageMod,       \* 2^w: `page` wraps around at the width of usize
  None           \* Option::None

Low    == 0
Normal == 1
High   == 2
Priority  == {Low, Normal, High}
Placement == {"Banner", "Overlay"}

ASSUME SchedulingAssumption ==
  /\ Plugins \subseteq Nat /\ IsFiniteSet(Plugins)
  /\ Cards \subseteq Nat /\ IsFiniteSet(Cards)
  /\ CardLimit \in [Plugins -> Nat]
  /\ CardArgs \subseteq [placement : Placement, priority : Priority, ttl : Nat]
  /\ NoticeArgs \subseteq [priority : Priority, ttl : Nat]
  /\ ImageTtls \subseteq Nat
  /\ Rotate \in Nat \ {0}
  /\ DefaultNotice \in Nat \ {0}
  /\ DefaultImage \in Nat \ {0}
  /\ MaxPending \in Nat \ {0}
  /\ PageMod \in Nat \ {0}

-----------------------------------------------------------------------------
(* State.                                                                  *)

CardKey   == [plugin : Plugins, card : Cards]
CardEntry == [placement : Placement, priority : Priority,
              left : Nat \cup {None}, revision : Nat]
Notice    == [id : Nat, priority : Priority, duration : Nat]
Current   == [notice : Notice, left : Nat]
Image     == [plugin : Plugins, id : Nat, left : Nat]

SchedState ==
  [cards    : [CardKey -> CardEntry \cup {None}],
   pending  : Seq(Notice),
   current  : Current \cup {None},
   image    : Image \cup {None},
   counter  : Nat,
   page     : 0 .. PageMod - 1,
   rotation : Nat \cup {None}]

\* A plan assigns a Shown to a slot: its source, which identifies the content,
\* and the time that remains.
Source == [kind : {"card"}, key : CardKey, id : Nat]
            \cup [kind : {"notice"}, id : Nat]
            \cup [kind : {"image"}, plugin : Plugins, id : Nat]
Shown  == [source : Source, left : Nat \cup {None}]
Plan   == [top : Shown \cup {None}, bottom : Shown \cup {None},
           overlay : Shown \cup {None}]

ASSUME NoneAssumption ==
  /\ None \notin Nat
  /\ None \notin CardEntry
  /\ None \notin Current
  /\ None \notin Image
  /\ None \notin Shown

NewScheduler ==
  [cards    |-> [k \in CardKey |-> None],
   pending  |-> <<>>,
   current  |-> None,
   image    |-> None,
   counter  |-> 0,
   page     |-> 0,
   rotation |-> None]

-----------------------------------------------------------------------------
(* Operations.                                                             *)

\* Is the optional entry e present with time left?
Live(e)     == e # None /\ e.left # 0
IfLive(e)   == IF Live(e) THEN e ELSE None
Held(s)     == {k \in CardKey : s.cards[k] # None}
HeldBy(s, p) == {k \in Held(s) : k.plugin = p}

\* Mistake (the mutants of PROJECT.json are named so): the newest notice first.
ExpireNewestFirst(s) ==
  LET n == Len(s.pending)
      promoted == IfLive(s.current) = None /\ n > 0
  IN  [s EXCEPT
         !.cards   = [k \in CardKey |-> IfLive(s.cards[k])],
         !.image   = IfLive(s.image),
         !.current = IF promoted
                     THEN [notice |-> s.pending[n], left |-> s.pending[n].duration]
                     ELSE IfLive(s.current),
         !.pending = IF promoted THEN SubSeq(s.pending, 1, n - 1) ELSE s.pending]


\* Scheduler::expire.  A notice leaves the queue only here, and only once
\* nothing is current; its time starts to run when it does.
Expire(s) ==
  LET current  == IfLive(s.current)
      promoted == current = None /\ s.pending # <<>>
  IN  [s EXCEPT
         !.cards   = [k \in CardKey |-> IfLive(s.cards[k])],
         !.image   = IfLive(s.image),
         !.current = IF promoted
                     THEN [notice |-> Head(s.pending),
                           left   |-> Head(s.pending).duration]
                     ELSE current,
         !.pending = IF promoted THEN Tail(s.pending) ELSE s.pending]

\* Mistake: one Card too many.
PutRefusedLate(s, key, arg) ==
  \/ arg.placement = "Overlay" /\ arg.ttl = 0
  \/ Cardinality(HeldBy(Expire(s), key.plugin) \ {key}) > CardLimit[key.plugin]

\* Scheduler::put refuses the Card, after having expired the others.
PutRefused(s, key, arg) ==
  \/ arg.placement = "Overlay" /\ arg.ttl = 0
  \/ Cardinality(HeldBy(Expire(s), key.plugin) \ {key}) >= CardLimit[key.plugin]

\* Mistake: a Card takes the next revision only when it is new.
PutReusesRevision(s, key, arg) ==
  LET live == Expire(s)
      new  == IF live.cards[key] = None THEN 1 ELSE 0
  IN  IF PutRefused(s, key, arg)
      THEN live
      ELSE [live EXCEPT
              !.counter = s.counter + new,
              !.cards = [live.cards EXCEPT
                           ![key] = [placement |-> arg.placement,
                                     priority  |-> arg.priority,
                                     left      |-> IF arg.ttl = 0 THEN None ELSE arg.ttl,
                                     revision  |-> s.counter + new]]]

Put(s, key, arg) ==
  LET live == Expire(s)
      entry == [placement |-> arg.placement,
                priority  |-> arg.priority,
                left      |-> IF arg.ttl = 0 THEN None ELSE arg.ttl,
                revision  |-> s.counter + 1]
  IN  IF PutRefused(s, key, arg)
      THEN live
      ELSE [live EXCEPT !.counter = s.counter + 1,
                         !.cards = [live.cards EXCEPT ![key] = entry]]

Remove(s, key) == [s EXCEPT !.cards[key] = None]

\* Scheduler::remove_plugin: its Cards and its image; notices stay.
RemovePlugin(s, p) ==
  [s EXCEPT
     !.cards = [k \in CardKey |-> IF k.plugin = p THEN None ELSE s.cards[k]],
     !.image = IF s.image # None /\ s.image.plugin = p THEN None ELSE s.image]

\* Scheduler::image: the newest image replaces any other plugin's.
ShowImage(s, p, ttl) ==
  [s EXCEPT
     !.counter = s.counter + 1,
     !.image   = [plugin |-> p, id |-> s.counter + 1,
                  left |-> IF ttl = 0 THEN DefaultImage ELSE ttl]]

\* Scheduler::notify: a full queue loses its oldest notice.
Notify(s, arg) ==
  LET kept == IF Len(s.pending) = MaxPending THEN Tail(s.pending) ELSE s.pending
  IN  [s EXCEPT
         !.counter = s.counter + 1,
         !.pending = Append(kept, [id       |-> s.counter + 1,
                                   priority |-> arg.priority,
                                   duration |-> IF arg.ttl = 0 THEN DefaultNotice
                                                ELSE arg.ttl])]

Advance(s) ==
  [s EXCEPT !.page = (s.page + 1) % PageMod, !.rotation = Rotate]

\* Mistake: plan reads what has expired.
PrepareWithoutExpire(s) ==
  IF s.rotation = 0 THEN Advance(s)
  ELSE IF s.rotation = None THEN [s EXCEPT !.rotation = Rotate]
  ELSE s

\* What Scheduler::plan does to the state before it reads it.
Prepare(s) ==
  LET live == Expire(s)
  IN  IF live.rotation = 0 THEN Advance(live)
      ELSE IF live.rotation = None THEN [live EXCEPT !.rotation = Rotate]
      ELSE live

\* The passing of one tick; what waits in the queue does not age.
Age(s) ==
  LET Older(n) == IF n = None \/ n = 0 THEN n ELSE n - 1
      Aged(e)  == IF e = None THEN e ELSE [e EXCEPT !.left = Older(@)]
  IN  [s EXCEPT
         !.cards    = [k \in CardKey |-> Aged(s.cards[k])],
         !.current  = Aged(s.current),
         !.image    = Aged(s.image),
         !.rotation = Older(s.rotation)]

-----------------------------------------------------------------------------
(* The assignment Scheduler::plan reads off a prepared state.              *)

CardShown(s, k) ==
  [source |-> [kind |-> "card", key |-> k, id |-> s.cards[k].revision],
   left   |-> s.cards[k].left]
NoticeShown(s) ==
  [source |-> [kind |-> "notice", id |-> s.current.notice.id],
   left   |-> s.current.left]
ImageShown(s) ==
  [source |-> [kind |-> "image", plugin |-> s.image.plugin, id |-> s.image.id],
   left   |-> s.image.left]

KeyLess(a, b) ==
  a.plugin < b.plugin \/ (a.plugin = b.plugin /\ a.card < b.card)

InPlace(s, placement) == {k \in Held(s) : s.cards[k].placement = placement}

\* Banners by priority, then in the order of the configuration.
BannerBefore(s, a, b) ==
  \/ s.cards[a].priority > s.cards[b].priority
  \/ s.cards[a].priority = s.cards[b].priority /\ KeyLess(a, b)

\* The n-th banner, counted from 0, or None past the last one.
BannerAt(s, n) ==
  LET banners == InPlace(s, "Banner")
      at == {k \in banners :
               Cardinality({j \in banners : BannerBefore(s, j, k)}) = n}
  IN  IF at = {} THEN None ELSE CardShown(s, CHOOSE k \in at : TRUE)

HasHighNotice(s)   == s.current # None /\ s.current.notice.priority = High
HasBannerNotice(s) == s.current # None /\ s.current.notice.priority # High

\* Mistake: the last page, if it is half full, is not counted.
PlanTopWholePages(s) ==
  LET count == Cardinality(InPlace(s, "Banner"))
      pages == IF count < 2 THEN 1 ELSE count \div 2
  IN  IF HasBannerNotice(s)
      THEN IF count = 0 THEN None ELSE BannerAt(s, s.page % count)
      ELSE BannerAt(s, (s.page % pages) * 2)

\* Two banners to a page, or one beside a notice.
PlanTop(s) ==
  LET count == Cardinality(InPlace(s, "Banner"))
      pages == IF count = 0 THEN 1 ELSE (count + 1) \div 2
  IN  IF HasBannerNotice(s)
      THEN IF count = 0 THEN None ELSE BannerAt(s, s.page % count)
      ELSE BannerAt(s, (s.page % pages) * 2)

PlanBottom(s) ==
  LET count == Cardinality(InPlace(s, "Banner"))
      pages == IF count = 0 THEN 1 ELSE (count + 1) \div 2
  IN  IF HasBannerNotice(s) THEN NoticeShown(s)
      ELSE BannerAt(s, (s.page % pages) * 2 + 1)

\* The overlay Card of the highest priority, the newest of these.
OverlayBest(s) ==
  {k \in InPlace(s, "Overlay") : \A j \in InPlace(s, "Overlay") :
     \/ s.cards[j].priority < s.cards[k].priority
     \/ /\ s.cards[j].priority = s.cards[k].priority
        /\ s.cards[j].revision <= s.cards[k].revision}

\* Mistake: the image ignores which of the two is newer.
ImageWinsAlways(s) ==
  /\ s.image # None
  /\ \A k \in OverlayBest(s) : s.cards[k].priority <= Normal

ImageWins(s) ==
  /\ s.image # None
  /\ \A k \in OverlayBest(s) :
       \/ s.cards[k].priority < Normal
       \/ s.cards[k].priority = Normal /\ s.cards[k].revision < s.image.id

PlanOverlay(s) ==
  IF HasHighNotice(s) THEN NoticeShown(s)
  ELSE IF ImageWins(s) THEN ImageShown(s)
  ELSE IF OverlayBest(s) # {} THEN CardShown(s, CHOOSE k \in OverlayBest(s) : TRUE)
  ELSE None

PlanOf(s) == [top |-> PlanTop(s), bottom |-> PlanBottom(s), overlay |-> PlanOverlay(s)]

EmptyPlan == [top |-> None, bottom |-> None, overlay |-> None]

\* What a plan shows, and Plan::visible_cards.
ShownBy(p)      == {p.top, p.bottom, p.overlay} \ {None}
VisibleCards(p) == {x.source.key : x \in {y \in ShownBy(p) : y.source.kind = "card"}}

-----------------------------------------------------------------------------
(* Predicates on a state that the specifications share.                    *)

\* No plugin holds more Cards than it was granted.
WithinLimit(s) == \A p \in Plugins : Cardinality(HeldBy(s, p)) <= CardLimit[p]

\* The queue of notices is bounded and sorted, and follows what was shown last.
Queued(s, last) ==
  /\ Len(s.pending) <= MaxPending
  /\ \A i \in 1 .. Len(s.pending) :
       last < s.pending[i].id /\ s.pending[i].id <= s.counter
  /\ \A i, j \in 1 .. Len(s.pending) :
       i < j => s.pending[i].id < s.pending[j].id
  /\ last <= s.counter
  /\ s.current # None => s.current.notice.id = last
=============================================================================
