CONSTANTS
  HasTrim = TRUE
  Reconnect = 1
  SeqMod = 9
  SeqWindow = 2
  MaxEvents = 2
  Budgets <- MCBudgets
  None = None
SPECIFICATION Spec
CHECK_DEADLOCK FALSE
INVARIANTS
  RestartsNoticed
  NothingStale
  EventsInOrder
PROPERTIES
  CallsInOrder
  RestartIsReal
