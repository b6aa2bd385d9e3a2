----------------------------- MODULE MCScheduler -----------------------------
(* A small instance of Scheduler with its history for TLC.                 *)
EXTENDS SchedulerHistory

\* Two plugins, the first of which may hold one Card and the second two.
MCLimit == [p \in Plugins |-> p + 1]

\* Overlay Cards of every priority with and without a deadline, and banners.
MCCardArgs ==
  [placement : {"Overlay"}, priority : {Low, High}, ttl : {2}]
    \cup {[placement |-> "Overlay", priority |-> Normal, ttl |-> t] : t \in {0, 1}}
    \cup {[placement |-> "Banner", priority |-> Normal, ttl |-> 0]}
MCNoticeArgs == {[priority |-> Normal, ttl |-> 1], [priority |-> High, ttl |-> 0]}
=============================================================================
