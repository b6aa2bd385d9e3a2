CONSTANTS
  Minute = 10
  Steps <- MCSteps
  Adjust = 1
  MaxMinutes = 2
  PanelIdle = 3
  LauncherIdle = 3
  SettingsIdle = 4
  Almost = 4
  Final = 1
  AlmostEvery = 3
  FinalEvery = 3
  GlanceSide = 1
  Celebrate = 2
  NodHalf = 1
  DoneKeep = 4
  CueLife = 4
  CueRenew = 2
  Poll = 2
  Cards <- MCCards
  TapRows <- MCTapRows
  Lives <- MCLives
  Reactions <- MCReactions
  Budgets <- MCBudgets
  None = None
SPECIFICATION Spec
INVARIANTS
  ScreenIsCurrent
  TapDoesWhatIsSeen
  CueEnds
