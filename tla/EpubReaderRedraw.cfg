SPECIFICATION FairSpec
CONSTANTS
  N = 2
  Pages <- CoverAndTwo
  TextStart = 1
  MAX_FOOTNOTE_DEPTH = 1
  kMaxQueue = 4
  Recents = Recents
  None = None
  MaxEvents = 2
PROPERTY ResetIsRedrawn
