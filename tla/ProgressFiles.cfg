SPECIFICATION FairSpec
CONSTANTS
  Pages <- MCPages
  TextPlace <- MCTextPlace
  None = None
  Empty = Empty
  MaxFaults = 2
INVARIANT TypeOK
INVARIANT PlaceKept
INVARIANT ClosedKeepsPlace
PROPERTY SleepMirrors
PROPERTY StayingPageSaved
