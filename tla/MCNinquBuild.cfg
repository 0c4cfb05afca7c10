SPECIFICATION BuildSpec
CONSTANTS
  ninsts = 2
  jobs_n = 2
  nsrc = 1
  MaxClock = 4
  MaxEdits = 1
  MaxRuns = 4
  Manifests <- MCManifests
CHECK_DEADLOCK FALSE
INVARIANTS
  NoRework
  SummarySound
PROPERTIES
  BuildSound
