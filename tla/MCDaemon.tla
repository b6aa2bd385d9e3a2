------------------------------ MODULE MCDaemon ------------------------------
(* Instances of Daemon: a plugin whose Cards compete for the overlay with  *)
(* each other, with its images and with urgent notices.                    *)
EXTENDS Daemon

OnePlugin     == {0}
MCCards       == {0}
OneLimit      == [p \in OnePlugin |-> 1]
TwoLimit      == [p \in OnePlugin |-> 2]
MCCardArgs    == {[placement |-> "Overlay", priority |-> Normal, ttl |-> 1]}
MCNoticeArgs  == {[priority |-> High, ttl |-> 1]}
MCImageTtls   == {1}
OneGeneration == [p \in OnePlugin |-> 3]
OneFrames     == [p \in OnePlugin |-> 3]
ShortBackoff  == <<1>>
=============================================================================
