SPECIFICATION Spec
CONSTANTS
  o1 = o1
  o2 = o2
  o3 = o3
  v1 = v1
  v2 = v2
  v3 = v3
  h1 = h1
  h2 = h2
  h3 = h3
  Nil = Nil
  Null = Null
  Consumed = Consumed
  NoHandle = NoHandle
  NoKey = NoKey
  NoValue = NoValue
  Objects <- MCObjects3
  Values <- MCValues3
  Handles <- MCHandles2
  Capacity = 1
  GenMod = 2
  MaxCalls = 1
SYMMETRY Symmetry
INVARIANT GrowingIsSafe
\* Every object and value may have come to its end.
CHECK_DEADLOCK FALSE
