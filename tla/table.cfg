SPECIFICATION Spec
CONSTANTS
  str = str
  two = two
  x = x
  y = y
  MaxInt = 3
  OtherKeys <- MCOtherKeys
  FloatKeys <- MCFloatKeys
  FloatToInt <- MCFloatToInt
  Values <- MCValues
  Empty = Empty
  MaxArray = 2
  MaxBuckets = 2
INVARIANTS TypeOK LiveFieldsReadLastWrite ClearedFieldsReadNil LengthIsBorder TraversalExact
PROPERTIES LibraryKeepsSequences MapSpec
SYMMETRY Symmetry
CONSTRAINT Undisturbed
