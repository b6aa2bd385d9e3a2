SPECIFICATION FairSpec
CONSTANTS
  Plugins <- OnePlugin
  Cards = {0, 1}
  CardLimit <- TwoLimit
  CardArgs <- MCCardArgs
  NoticeArgs <- MCNoticeArgs
  ImageTtls <- MCImageTtls
  Rotate = 1
  DefaultNotice = 1
  DefaultImage = 1
  MaxPending = 1
  PageMod = 1
  None = None
  Backoff <- ShortBackoff
  MaxFailures = 1
  StableRun = 2
  HelloTime = 1
  MaxRate = 2
  QueueLength = 1
  MaxGeneration <- OneGeneration
  MaxFrames <- OneFrames
  MaxUnread = 1
  MaxTaps = 1
INVARIANTS
  VisibilityTold
  HeldByPresentLife
  DeadLivesIgnored
  DisabledWhenFailing
PROPERTIES
  LoopComesBack
  HandshakeEnds
