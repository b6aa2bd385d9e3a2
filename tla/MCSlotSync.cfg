CONSTANTS
  Slots <- MCSlots
  Cards <- MCCards
  Images <- MCImages
  StatusLives <- MCStatusLives
  Kinds <- MCKinds
  Second = 2
  Refresh = 2
  Margin = 4
  ImageGap = 1
  MaxPerPoll = 1
  MaxLag = 1
  Budgets <- MCBudgets
  None = None
SPECIFICATION Spec
CHECK_DEADLOCK FALSE
INVARIANTS
  Settled
  BeliefTrue
  DeadDaemonLeavesNothing
  RequestsInOrder
  StatusNotLate
