CONSTANTS
  Item = {a, b}
  View = {v1, v2, v3}
  MaxItems = 4
SPECIFICATION SharedSpec
INVARIANTS ViewsAreIndependent DoneMeansAll ReadsOnDemand
CHECK_DEADLOCK FALSE
