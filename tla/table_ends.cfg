SPECIFICATION FairSpec
CONSTANTS
  str = str
  two = two
  x = x
  y = y
  MaxInt = 2
  OtherKeys <- MCOtherKeys
  FloatKeys <- MCFloatKeys
  FloatToInt <- MCFloatToInt
  Values <- MCValues
  Empty = Empty
  MaxArray = 2
  MaxBuckets = 2
PROPERTIES TraversalEndsUnlessHidden
