SPECIFICATION FairSpec
CONSTANTS
  backup = backup
  fetch = fetch
  Unusable = Unusable
  Cmd <- MCCmd
  Pid = {1, 2}
  Minutes = 2
  Crontabs <- MCCrontabs
CHECK_DEADLOCK FALSE
INVARIANTS
  JobsExact
  NoOverlap
PROPERTIES
  OncePerMinute
  TermEnds
  ReloadApplied
