----------------------------- MODULE MCSlotSync -----------------------------
(* An instance of SlotSync: a banner and the overlay, a tick of half a      *)
(* second.  A behaviour has plans of all contents, which may come and go,   *)
(* or one that expires, or a request beside one, or requests alone.        *)
EXTENDS SlotSync

MCSlots   == 1 .. 2
MCCards   == {1}
MCImages  == {2, 3}
MCStatusLives == {0, 3}
MCKinds   == {"status", "input", "notify"}
Budget(cs, ls, rs, fs) ==
  [contents |-> cs, lives |-> ls, requests |-> rs, faults |-> fs]
MCBudgets == {Budget({1, 2, 3}, {Forever}, 0, 1), Budget({1, 2}, {Forever}, 0, 2),
              Budget({1}, {7}, 0, 1), Budget({1}, {Forever}, 1, 1), Budget({}, {}, 2, 1)}
=============================================================================
