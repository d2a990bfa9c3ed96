CONSTANTS
  c1 = c1  c2 = c2  c3 = c3
  t1 = t1  t2 = t2
  k1 = k1  k2 = k2
  blank = blank
  fees = fees  owed = owed
  alice = alice
  usd = usd  utc = utc  mars = mars
  jan = jan  feb = feb
  None = None
  Calls = {c1, c2, c3}
  Menu <- ThreeClients
  Purposes = {fees, owed}
  Scopes = {"none", "per_shard"}
  Charts <- BothCharts
  KnownZones = {utc}
  Currencies = {usd}
  IllegalTexts = {blank}
  Instants = {1, 2, 3, 4}
  MaxChartEdits = 1
SPECIFICATION FairSpec
INVARIANTS
  TypeOK
  RegistersAreSound
  ResponsesAreTrue
PROPERTY EveryRequestIsAnswered
