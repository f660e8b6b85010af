CONSTANTS
  Module <- MCModule
  Query <- MCQuery
  MaxModules = 4
SPECIFICATION Spec
INVARIANTS AnalysedOnce ImportersAgree PrivateStaysPrivate EvaluatesAnalysed
PROPERTIES GivesUpOneNamespace
