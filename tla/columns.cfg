SPECIFICATION Spec
CONSTANTS
  Calls <- MCCalls
  Tables <- MCTables
  Declared <- MCDeclared
  MaxPushes = 3
INVARIANTS
  SchemaOK
  CellsAreRight
  ParallelAgrees
  RowsComeBack
\* All rows are pushed.
CHECK_DEADLOCK FALSE
