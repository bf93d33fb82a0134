SPECIFICATION Spec
CONSTANTS
  Torn = Torn
  MaxWrites = 4
INVARIANT TypeOK
INVARIANT FailedWriteRollsBack
PROPERTY BootKeepsAcked
PROPERTY UnsweptSurvivesTwo
PROPERTY ImplementsCell
