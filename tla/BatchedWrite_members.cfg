CONSTANTS
  k1 = k1
  k2 = k2
  d1 = d1
  d2 = d2
  None = None
  Calls = {1, 2, 3}
  Menu <- MixedMenu
  Dispatchers = {d1, d2}
  Affinity <- Affinities
  OpenAccounts = {1, 2}
  StripeCount <- Stripes
  MaxMinor = 3
  PlanLists <- ShortLists
SPECIFICATION Spec
INVARIANTS
  TypeOK
  PlansAreExact
  KeysPostOnce
  TheBookAddsUp
  AnswersAreTrue
PROPERTIES
  KeyBeforeAccount
  ImplementsContract
