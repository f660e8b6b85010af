SPECIFICATION Spec
CONSTANTS
  Nodes <- FiveTrees
INVARIANTS OrderIsTotal AnswerStands
PROPERTIES OrderIsKept
