CONSTANTS
  Plugins = {0}
  Cards = {0, 1, 2}
  CardLimit <- MCLimit
  CardArgs <- MCCards
  NoticeArgs <- MCNotices
  ImageTtls = {}
  Rotate = 1
  DefaultNotice = 1
  DefaultImage = 1
  MaxPending = 1
  PageMod = 6
  MaxId = 1
  MaxTaps = 1
  None = None
SPECIFICATION EndlessSpec
PROPERTIES
  EveryBannerShown
  
