\* A vault with one market, two guardians and two timelocks; a vault with two
\* markets and funds; an oracle with two owners; four rate configurations.
CONSTANTS
  m = m
  m1 = m1
  m2 = m2
  guard = guard
  keeper = keeper
  NoGuardian = NoGuardian
  feed = feed
  feed2 = feed2
  alice = alice
  bob = bob
  NoAddress = NoAddress
  Nothing = Nothing
  Idle = Idle
  MarketsOf <- MCMarketsOf
  GuardiansOf <- MCGuardiansOf
  TimelocksOf <- MCTimelocksOf
  CapsOf <- MCCapsOf
  AmountsOf <- MCAmountsOf
  RatesOf <- MCRatesOf
  SyncsOf <- MCSyncsOf
  MaxSharesOf <- MCMaxSharesOf
  MaxTimeOf <- MCMaxTimeOf
  MinTimelock = 1
  MaxQueueLength = 2
  LossThreshold = 1
  FirstCap = 2
  Oracles = {feed, feed2}
  Accounts = {alice, bob}
  OracleMinTimelock = 1
  OracleTimelocks = {1, 2}
  OracleMaxTime = 5
  Limits <- MCLimits
  configTimelock = 2
  MaxUpdates = 4
  KinkMaxTime = 7
SPECIFICATION Spec
SYMMETRY SameMarkets
CHECK_DEADLOCK FALSE
INVARIANTS
  QueueMatchesConfig
  SlopeOfConfigInForce
  RenouncedIsFinal
PROPERTIES
  ChangesNeedNotice
  LossWithinCap
