CONSTANTS
  node = node
  yes = yes
  no = no
  qname = qname
  NoValue = NoValue
  Value <- MCValue
  Nodes <- MCNodes
  Truthy <- MCTruthy
  Falsy <- MCFalsy
  MaxLen = 4
SPECIFICATION Spec
INVARIANTS SequenceInv PullsInStep
PROPERTIES ReaderSpec ReadingEnds
CHECK_DEADLOCK FALSE
