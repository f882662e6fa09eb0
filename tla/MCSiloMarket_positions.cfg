\* Debt in both Silos with interest, prices that move, transfers of collateral and of debt.
CONSTANTS
  Precision = 10
  Offset = 1
  MaxUint = 10000
  DaoAndDeployerFee = 3
  FlashloanFee = 1
  RoundingThreshold = 3
  TokenSupply <- TradedSupply
  Users = {alice, bob}
  Silo0 = silo0
  Silo1 = silo1
  NoSilo = noSilo
  MaxLtv <- LowMaxLtv
  LiquidationThreshold <- LowLiquidationThreshold
  Prices <- TwoPrices
  Rcomps = {6}
  AssetInputs <- TradedAssets
  ShareInputs <- TradedShares
  TransferInputs <- TradedTransfers
  FlashInputs <- None
  DonationInputs <- None
  MaxBlocks = 2
  MaxLoanDepth = 0
SYMMETRY UserSymmetry
SPECIFICATION Spec
CHECK_DEADLOCK FALSE
INVARIANTS
  NoDebtInBothSilos
  DebtHasCollateralSilo
  SupplyIsSum
PROPERTIES
  OwnRiskLeavesSolvent
  HealthKept
  DebtPinsCollateral
