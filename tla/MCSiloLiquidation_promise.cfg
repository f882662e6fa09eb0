\* What is said of maxLiquidation, with a debt token of greater worth.
CONSTANTS
  Precision = 100
  Offset = 10
  MaxUint = 10000
  DaoAndDeployerFee = 50
  FlashloanFee = 1
  RoundingThreshold = 3
  TokenSupply <- TwoWaySupply
  Users = {alice, bob}
  Controller = controller
  Silo0 = silo0
  Silo1 = silo1
  NoSilo = noSilo
  MaxLtv <- TwoWayMaxLtv
  LiquidationThreshold <- TwoWayThreshold
  LiquidationTargetLtv <- TwoWayTarget
  LiquidationFee <- TwoWayFee
  FullLiquidationThreshold = 90
  LtMargin = 1
  KeeperFee = 20
  DebtInputs = {3, 12}
  Prices <- TwoWayPrices
  Rcomps = {30}
  AssetInputs <- None
  ShareInputs <- None
  TransferInputs <- None
  FlashInputs <- None
  DonationInputs <- None
  MaxBlocks = 2
  MaxLoanDepth = 0
SYMMETRY UserSymmetry
SPECIFICATION TwoLoansSpec
CHECK_DEADLOCK FALSE
INVARIANTS
  MaxLiquidationIsDelivered
