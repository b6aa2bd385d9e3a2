CONSTANTS
  HasTrim = FALSE
  Reconnect = 1
  SeqMod = 8
  SeqWindow = 3
  MaxEvents = 1
  Budgets <- FewFaults
  None = None
SPECIFICATION Spec
CHECK_DEADLOCK FALSE
INVARIANT
  ResetAfterReconnect
