CONSTANTS
  Plugins = {0, 1}
  Cards = {0, 1}
  CardLimit <- MCLimit
  CardArgs <- MCCardArgs
  NoticeArgs <- MCNoticeArgs
  ImageTtls = {0}
  Rotate = 1
  DefaultNotice = 2
  DefaultImage = 1
  MaxPending = 2
  PageMod = 2
  MaxId = 3
  MaxTaps = 0
  None = None
SPECIFICATION HistorySpec
INVARIANTS
  CardLimitHeld
  NoticesInOrder
  SourcesDistinct
PROPERTIES
  PlanIsCurrent
  OverlayIsStrongest
