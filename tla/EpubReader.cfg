SPECIFICATION Spec
CONSTANTS
  N = 2
  Pages <- TitleAndTwo
  TextStart = 1
  MAX_FOOTNOTE_DEPTH = 1
  kMaxQueue = 4
  Recents = Recents
  None = None
  MaxEvents = 3
INVARIANT TypeOK
INVARIANT PipelineNewest
INVARIANT QuietClose
