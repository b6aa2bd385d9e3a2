CONSTANTS
  s1 = s1
  s2 = s2
  s3 = s3
  Settings <- MCSettings
  Default = s1
  Places <- MCPlaces
  Step = 2
  Gap = 2
  ReleaseAfter = 3
  ProbeEvery = 2
  IdleEvery = 4
  Neutral <- MCNeutral
  Targets <- MCTargets
  Budgets <- MCBudgets
  Never = Never
SPECIFICATION SpecBoth
INVARIANTS
  KeepsAVersion
  StatusIsTrue
  HoldEnds
PROPERTIES
  NoJump
  Arrives
