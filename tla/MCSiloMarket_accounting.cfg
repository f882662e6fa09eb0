\* One Silo lends, the other one only holds the collateral.
CONSTANTS
  Precision = 10
  Offset = 2
  MaxUint = 10000
  DaoAndDeployerFee = 3
  FlashloanFee = 1
  RoundingThreshold = 3
  TokenSupply <- LendingSupply
  Users = {alice, bob}
  Silo0 = silo0
  Silo1 = silo1
  NoSilo = noSilo
  MaxLtv <- MCMaxLtv
  LiquidationThreshold <- MCLiquidationThreshold
  Prices <- OnePrice
  Rcomps = {6}
  AssetInputs <- LendingAssets
  ShareInputs <- LendingShares
  TransferInputs <- None
  FlashInputs <- None
  DonationInputs <- None
  MaxBlocks = 2
  MaxLoanDepth = 0
SYMMETRY UserSymmetry
SPECIFICATION Spec
CHECK_DEADLOCK FALSE
INVARIANTS
  DebtCovered
  DebtSharesCovered
  ClaimsCovered
PROPERTIES
  SharePriceNeverFalls
