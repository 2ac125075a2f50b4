CONSTANTS
  Byte = 4
  Fills <- MCFills
SPECIFICATION Spec
INVARIANT TypeOK
INVARIANT ReadsBack
