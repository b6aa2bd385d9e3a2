CONSTANTS
  LongPress = 2
  StrokeTime = 1
  StrokeLength = 2
  Far = 1
  Samples = 2
  Poll = 2
  EmoteLife = 2
  SpeechLife = 3
  ReactionGap = 1
  FirstIdle = 2
  Paces <- MCPaces
  Interval <- MCInterval
  SpeechInterval <- MCSpeechInterval
  Starts <- MCStarts
  Budgets <- MCBudgets
  Longest = 6
  None = None
SPECIFICATION Spec
INVARIANTS
  OneGesturePerTouch
  ReactionEnds
PROPERTIES
  SpeechSpaced
