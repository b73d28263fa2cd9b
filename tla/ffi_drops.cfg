SPECIFICATION Spec
CONSTANTS
  MaxDepth = 3
  MaxDraws = 1
  Holders = {"call", "altrep", "serve", "conn", "worker"}
INVARIANT ResourcesDropped
