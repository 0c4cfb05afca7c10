SPECIFICATION Spec
CONSTANTS
  nrules = 5
  File <- MCFile
  NoFile = NoFile
  base_of <- MCBase
  MaxStack = 30
  Manifests <- Plain
INVARIANTS
  SummaryExecutesNothing
