CONSTANTS
  k1 = k1
  k2 = k2
  d1 = d1
  d2 = d2
  None = None
  Calls = {1, 2, 3, 4}
  Menu <- RetryMenu
  Dispatchers = {d1, d2}
  Affinity <- Affinities
  OpenAccounts = {1, 2}
  StripeCount <- Stripes
  MaxMinor = 3
  PlanLists = {}
SPECIFICATION RetriesSpec
PROPERTY EveryMemberIsAnswered
