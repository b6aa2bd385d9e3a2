----------------------------- MODULE MCReactions -----------------------------
(* An instance of Reactions: touches that may fail, a touch beside a change *)
(* of the settings, changes of the settings beside one of the light, and     *)
(* something that comes and goes in front of sensors that may fail.         *)
EXTENDS Reactions

MCPaces == {"quiet", "lively"}
MCInterval == [p \in MCPaces |-> IF p = "quiet" THEN 6 ELSE 4]
MCSpeechInterval == [p \in MCPaces |-> IF p = "quiet" THEN 5 ELSE 3]
MCStarts == {[enabled |-> TRUE, speech |-> TRUE, touch |-> TRUE, sensors |-> s, dark_quiet |-> TRUE,
              pace |-> "lively", speech_pace |-> "quiet"] : s \in BOOLEAN}
Budget(t, c, s, f) == [touches |-> t, changes |-> c, sights |-> s, faults |-> f]
MCBudgets == {Budget(2, 0, 0, 1), Budget(1, 1, 0, 0), Budget(0, 2, 1, 0), Budget(0, 0, 3, 1)}
=============================================================================
