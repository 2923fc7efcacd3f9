SPECIFICATION Spec
CONSTANTS
  Values <- MCValues
  Terms <- MCTerms
  Depth <- MCDepth
  Bodies <- MCBodies
  Labels <- MCLabels
  Styles <- MCStyles
  Encode <- MCEncode
CHECK_DEADLOCK FALSE
INVARIANTS SameMap SameStats SameString
