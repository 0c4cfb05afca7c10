SPECIFICATION FairSpec
CONSTANTS
  ninsts = 3
  jobs_n = 2
INVARIANTS
  CycleHonest
PROPERTIES
  Terminates
  ImplementsDag
