\* Liquidations by repayment and by defaulting, with interest and moving prices.
CONSTANTS
  Precision = 100
  Offset = 10
  MaxUint = 10000
  DaoAndDeployerFee = 50
  FlashloanFee = 1
  RoundingThreshold = 3
  TokenSupply <- OneWaySupply
  Users = {alice, bob, controller}
  Controller = controller
  Silo0 = silo0
  Silo1 = silo1
  NoSilo = noSilo
  MaxLtv <- OneWayMaxLtv
  LiquidationThreshold <- OneWayThreshold
  LiquidationTargetLtv <- OneWayTarget
  LiquidationFee <- OneWayFee
  FullLiquidationThreshold = 90
  LtMargin = 1
  KeeperFee = 20
  DebtInputs = {2, 10}
  Prices <- OneWayPrices
  Rcomps = {30}
  AssetInputs <- OneWayAssets
  ShareInputs <- None
  TransferInputs <- OneWayTransfers
  FlashInputs <- None
  DonationInputs <- None
  MaxBlocks = 1
  MaxLoanDepth = 0
SYMMETRY UserSymmetry
SPECIFICATION OneWaySpec
CHECK_DEADLOCK FALSE
INVARIANTS
  TypeOK
  CashAccounted
  MaxLiquidationHolds
PROPERTIES
  CollateralForDebt
  LiquidatedNotWorse
