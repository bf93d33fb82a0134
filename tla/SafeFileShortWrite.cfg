SPECIFICATION Spec
CONSTANTS
  Torn = Torn
  MaxWrites = 4
INVARIANT TrueMeansWhole
