CONSTANTS
  c1 = c1
  c2 = c2
  c3 = c3
  k1 = k1
  k2 = k2
  k3 = k3
  k4 = k4
  None = None
  Nowhere = Nowhere
  Calls = {c1, c2, c3}
  Menu <- ThreeCalls
  OpenAccounts = {1, 2}
  StripeCount <- Stripes
  Affinities <- ThreeAffinities
SPECIFICATION FairSpec
INVARIANTS
  TypeOK
  KeysPostOnce
  TheBookAddsUp
  SupersessionIsSound
  NoWaitCycle
  ResponsesAreTrue
PROPERTIES
  ImplementsContract
  EveryCallIsAnswered
