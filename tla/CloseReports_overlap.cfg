CONSTANTS
  aug = aug
  sep = sep
  oct = oct
  usd = usd
  eur = eur
  p1 = p1
  p2 = p2
  c1 = c1
  c2 = c2
  None = None
  Posts = {p1, p2}
  Closes = {c1, c2}
  Charges <- Fees
  Asked <- Both
  Periods = {aug, sep}
  EndsAt <- Ends
  Accounts <- Chart
  Currency <- OneCurrency
  Temporary = {1}
  Earnings <- EarningsHomes
  StripeCount <- OneStripe
  Affinity <- Alike
  Instants <- Boundaries
SPECIFICATION Spec
INVARIANT OverlapIsCaughtByDrift
