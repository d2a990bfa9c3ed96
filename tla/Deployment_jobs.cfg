CONSTANTS
  release = release  branch = branch  server = server  sweep = sweep
  f = f  g = g
  None = None
  Processes = {release, branch, server, sweep}
  Command <- Commands
  Versions = {1, 2, 3}
  Files = {f, g}
  Embedded <- Carries
  Concurrent = {2}
  Roles = 1
  Budget = 1
SPECIFICATION FairSpec
INVARIANTS
  MigrationsRunOnce
  SuccessLasts
PROPERTY EveryJobEnds
