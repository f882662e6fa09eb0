\* Flash loans, one inside another, with every operation in between.
CONSTANTS
  Precision = 10
  Offset = 2
  MaxUint = 10000
  DaoAndDeployerFee = 3
  FlashloanFee = 1
  RoundingThreshold = 3
  Users = {alice, bob}
  Silo0 = silo0
  Silo1 = silo1
  NoSilo = noSilo
  MaxLtv <- MCMaxLtv
  LiquidationThreshold <- MCLiquidationThreshold
  Prices <- OnePrice
  Rcomps = {5}
  TokenSupply <- FlashSupply
  AssetInputs <- FlashAssets
  ShareInputs <- FlashShares
  TransferInputs <- None
  FlashInputs <- FlashAmounts
  DonationInputs <- FlashDonations
  MaxBlocks = 0
  MaxLoanDepth = 2
SYMMETRY UserSymmetry
SPECIFICATION Spec
CHECK_DEADLOCK FALSE
INVARIANTS
  CashAccounted
  LiquidityFunded
