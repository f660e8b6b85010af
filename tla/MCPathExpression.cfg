SPECIFICATION Spec
CONSTANTS
  Documents <- SmallDocuments
  Axes <- AllAxes
  MaxSteps = 3
INVARIANTS InDocumentOrder ExactlyTheNodesReached PeersAreDisjoint
PROPERTIES StepKeepsOrder
CHECK_DEADLOCK FALSE
