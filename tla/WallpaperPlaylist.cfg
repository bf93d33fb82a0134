SPECIFICATION FairSpec
CONSTANTS
  Images <- MCImages
  Corrupt <- MCCorrupt
  Stock <- MCStock
  NoImage = NoImage
  Cap = 3
  MaxNew = 1
  SkipBudget = 2
  Retries = 2
  MaxEdits = 2
INVARIANT TypeOK
PROPERTY LapShowsEach
 
 
PROPERTY EveryPictureReturns
