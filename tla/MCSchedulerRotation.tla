------------------------- MODULE MCSchedulerRotation -------------------------
(* Banners of one plugin beside notices without end, for the rotation: as  *)
(* many banners as the .cfg has Cards.                                     *)
EXTENDS Scheduler

MCLimit   == [p \in Plugins |-> Cardinality(Cards)]
MCCards   == {[placement |-> "Banner", priority |-> Normal, ttl |-> 0]}
MCNotices == {[priority |-> Normal, ttl |-> 1]}
=============================================================================
