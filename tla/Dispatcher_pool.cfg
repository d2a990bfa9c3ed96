CONSTANTS
  c1 = c1  c2 = c2  c3 = c3
  t1 = t1  t2 = t2
  k1 = k1  k2 = k2
  d1 = d1  d2 = d2
  None = None
  Calls = {c1, c2, c3}
  Dispatchers = {d1, d2}
  Menu <- ThreeCallers
  Ceiling = 2
SPECIFICATION FairSpec
INVARIANTS
  BatchesAreLegal
  SubmissionsAreConserved
  NoSleeperBesideWork
PROPERTIES
  EveryCallerIsAnswered
  EverySubmissionIsPosted
