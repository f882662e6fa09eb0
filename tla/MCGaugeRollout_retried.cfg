\* A record that the test has marked failed.
CONSTANTS
  m1 = m1
  m2 = m2
  NoRecord = NoRecord
  MarketList <- OneMarket
  TwoSilo <- NoTwoSilo
  LastSilo <- Silo0Last
  GaugesPerFile = 0
  CommandSets <- PlainRollout
  MaxFaults <- OneFault
SPECIFICATION Spec
CHECK_DEADLOCK FALSE
PROPERTIES
  FailedIsRetried
