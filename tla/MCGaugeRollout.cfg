\* Faults of forge runs and RPC nodes, split bundles; with and without the
\* other commands and interruptions.
CONSTANTS
  m1 = m1
  m2 = m2
  NoRecord = NoRecord
  MarketList <- TwoMarkets
  TwoSilo <- FirstTwoSilo
  LastSilo <- Silo0Last
  GaugesPerFile = 2
  CommandSets <- Rollouts
  MaxFaults <- Faults
SPECIFICATION FairSpec
CHECK_DEADLOCK FALSE
INVARIANTS
  TestedMeansReal
  QAMeansRolledOut
PROPERTIES
  RecordsKept
  NoSecondSet
  AllDeployed
