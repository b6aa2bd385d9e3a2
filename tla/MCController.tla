---------------------------- MODULE MCController ----------------------------
(* An instance of Controller.  A minute has ten ticks; the settings, the    *)
(* timer, and the host are tried in behaviours of their own and together.  *)
EXTENDS Controller

MCSteps == <<2, 1, 1>>
MCLives == {0, 2}
Row(h, a) == [height |-> h, action |-> a]
MCCards == {[id |-> 1, rows |-> <<Row(20, 1), Row(20, 2)>>],
            [id |-> 0, rows |-> <<Row(32, 0), Row(20, 3), Row(1, 4), Row(20, 5)>>]}
MCTapRows == {0, 3, 4, 23, 24, 35, 36, 43, 44, 47, 48, 56, 57, 76, 77, 191, 192, 195, 196, 216, 239}
MCReactions == {"a", "b"}
Budget(gs, ms, ks, rs, fs) ==
  [gestures |-> gs, messages |-> ms, kinds |-> ks, reactions |-> rs, faults |-> fs]
MCBudgets ==
  {Budget(6, 1, {"clear", "emote"}, {}, 0),
   Budget(4, 1, {"text", "image", "mode"}, {}, 1),
   Budget(1, 2, {"card", "clear slot", "mode"}, {}, 1),
   Budget(2, 2, Kinds \ {"card"}, MCReactions, 1)}
=============================================================================
