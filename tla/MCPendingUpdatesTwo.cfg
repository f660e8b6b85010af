CONSTANTS
  KindOf <- MCKindOf
  Kids <- MCKids
  Attrs <- MCAttrs
  Bindings <- MCBindings
  Names <- MCNames
  Contents <- MCContents
  MaxUpdates = 2
SPECIFICATION Spec
INVARIANTS StaysForest AppliedAsDeclared BreaksOnlyAfterRename
PROPERTIES KeepsOrder
CHECK_DEADLOCK FALSE
