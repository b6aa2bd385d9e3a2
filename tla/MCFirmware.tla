----------------------------- MODULE MCFirmware -----------------------------
(* Two parts of the firmware that share no state, each checked on its own: *)
(* the settings on the SD card and the servos.                             *)
EXTENDS Storage, Body

CONSTANTS s1, s2, s3

\* Three settings: the defaults and two the user may choose.
MCSettings == {s1, s2, s3}

\* A target that is not a whole number of steps away, a trim of the neutral position,
\* and each kind of trouble with the others.
MCPlaces == 0 .. 4
MCNeutral == [x |-> 2, y |-> 2]
Target(x, y, neutral, trimmed) ==
  [at |-> [a \in Axes |-> IF a = "x" THEN x ELSE y], neutral |-> neutral, trimmed |-> trimmed]
MCTargets == {Target(2, 2, TRUE, FALSE), Target(2, 1, TRUE, TRUE), Target(4, 1, FALSE, FALSE)}
Budget(t, h, f, l, r) == [targets |-> t, hands |-> h, faults |-> f, losses |-> l, restarts |-> r]
MCBudgets == {Budget(2, 1, 0, 0, 1), Budget(1, 0, 2, 0, 1), Budget(2, 0, 0, 1, 0), Budget(1, 0, 0, 2, 0),
              Budget(1, 0, 1, 1, 1)}

-----------------------------------------------------------------------------
VARIABLE part
both == <<part, vars, bvars>>

\* The part that does not run stands still in one of its initial states.
InitBoth ==
  /\ Init /\ BodyInit
  /\ \/ part = "storage" /\ left = Budget(1, 0, 1, 1, 1)
        /\ \A a \in Axes : servos[a].goal = Neutral[a]
     \/ part = "body" /\ config = NoFile /\ backup = NoFile

NextBoth ==
  /\ UNCHANGED part
  /\ \/ part = "storage" /\ Next /\ UNCHANGED bvars
     \/ part = "body" /\ BodyNext /\ UNCHANGED vars

SpecBoth == InitBoth /\ [][NextBoth]_both /\ WF_bvars(part = "body" /\ Loop)
=============================================================================
