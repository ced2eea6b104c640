SPECIFICATION Spec
CONSTANTS
  Precision = 8
  Modulus = 16
  MaxUnits = 40
INVARIANT TypeOK
PROPERTIES
  Conserves
  Spread
