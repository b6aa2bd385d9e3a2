-------------------------- MODULE SchedulerHistory --------------------------
(* The contents the scheduler has ever accepted, beside its state: what is *)
(* held at one moment cannot tell whether a Source was given out twice.    *)
EXTENDS Scheduler

VARIABLE issued  \* history: the Source of every content accepted, in this order

Issue(source) == issued' = Append(issued, source)

\* The Source of the content that has just been put, shown or posted.
CardSource(k) == CardShown(sched', k).source
ImageSource   == ImageShown(sched').source
NoticeSource  == [kind |-> "notice", id |-> sched'.pending[Len(sched'.pending)].id]

HistoryNext ==
  \/ \E k \in CardKey, a \in CardArgs :
       /\ PutCard(k, a)
       /\ IF PutRefused(sched, k, a) THEN UNCHANGED issued ELSE Issue(CardSource(k))
  \/ \E p \in Plugins, ttl \in ImageTtls : PutImage(p, ttl) /\ Issue(ImageSource)
  \/ \E a \in NoticeArgs : PostNotice(a) /\ Issue(NoticeSource)
  \/ /\ \/ \E k \in CardKey : RemoveCard(k)
        \/ \E p \in Plugins : StopPlugin(p)
        \/ TapBanner
        \/ MakePlan
        \/ Tick
     /\ UNCHANGED issued

HistorySpec == Init /\ issued = <<>> /\ [][HistoryNext]_<<vars, issued>>

-----------------------------------------------------------------------------
\* Does the content with Source y take the place of the one with Source x?
TakesPlace(y, x) == y.kind = x.kind /\ (x.kind = "card" => y.key = x.key)

\* Is x in the history h, and nothing after it that takes its place?
Newest(h, x) ==
  \E i \in 1 .. Len(h) :
    h[i] = x /\ \A j \in 1 .. Len(h) : i < j => ~TakesPlace(h[j], x)

\* The daemon sends a slot again only when its Source changes, so no Source may ever
\* stand for two contents: not when a Card replaces the one under its own key, nor
\* after a removal, an expiry or a stop, nor for a notice or an image.  And what is
\* held under a key or as the image has the Source of the content that was accepted
\* there last (next_id; put, image, notify).
SourcesDistinct ==
  /\ \A i, j \in 1 .. Len(issued) : issued[i] = issued[j] => i = j
  /\ \A k \in Held(sched) : Newest(issued, CardShown(sched, k).source)
  /\ sched.image # None => Newest(issued, ImageShown(sched).source)
=============================================================================
