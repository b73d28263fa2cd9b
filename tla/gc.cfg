CONSTANTS
  Nil = Nil
  InitialCapacity = 1
  Objs = {a, b}
  Guards = {g, h}
  MaxFrames = 2
  MaxStack = 2
  MaxLost = 1
CONSTRAINT Bound
SYMMETRY Symmetry
SPECIFICATION Spec
INVARIANTS
  ArenaConsistent
  CountsMatch
  LiveGuardsProtect
  StackBalanced
