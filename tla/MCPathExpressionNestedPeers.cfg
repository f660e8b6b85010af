SPECIFICATION Spec
CONSTANTS
  Documents <- SmallDocuments
  Axes = {"child", "following", "preceding"}
  MaxSteps = 3
INVARIANT ConcatIsGloballySorted
CHECK_DEADLOCK FALSE
