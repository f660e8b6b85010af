CONSTANTS
  Focus <- MCFocus
  Queries <- MCQueries
SPECIFICATION Spec
CHECK_DEADLOCK FALSE
INVARIANTS TuplesOfTheLoops
