SPECIFICATION Spec
INVARIANTS
  TypeOK
  WholeAfterDumps
  LossExplained
PROPERTIES
  FaultExplained
  DumpEnds
