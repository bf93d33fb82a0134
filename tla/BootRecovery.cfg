SPECIFICATION FairSpec
CONSTANTS
  b1 = b1
  b2 = b2
  Books = {b1, b2}
  NoBook = NoBook
  kMaxConsecutiveAutoRestarts = 2
  MaxFaults = 3
INVARIANT TypeOK
INVARIANT GuardHolds
INVARIANT ResumesAfterSleep
INVARIANT ReturnsToBook
PROPERTY BootSettles
