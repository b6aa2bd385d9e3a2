---------------------------- MODULE MCDeviceLink ----------------------------
(* Instances of DeviceLink: many faults and calls, or taps beside them, or  *)
(* a reconnection after a request is rejected.                             *)
EXTENDS DeviceLink

ManyFaults == [calls |-> 4, connects |-> 2, taps |-> 0, faults |-> 3]
ManyTaps   == [calls |-> 2, connects |-> 2, taps |-> 4, faults |-> 1]
MCBudgets  == {ManyFaults, ManyTaps}
FewFaults  == {[ManyFaults EXCEPT !.faults = 2]}
=============================================================================
