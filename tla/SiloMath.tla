------------------------------ MODULE SiloMath ------------------------------
(***************************************************************************)
(* The pure arithmetic of a Silo: share/asset conversion, interest, fees   *)
(* and liquidity (silo-core/contracts/lib/SiloMathLib.sol, Rounding.sol,   *)
(* SiloStdLib.flashFee).  Every amount is a natural number; percentages    *)
(* are scaled by Precision (1e18 in the code).  A Faulty... operator is    *)
(* the one after it with a plausible mistake: TLC must catch the exchange. *)
(***************************************************************************)
EXTENDS Naturals

CONSTANTS
  Precision,          \* the value of 100%, _PRECISION_DECIMALS
  Offset,             \* virtual shares of an empty silo, _DECIMALS_OFFSET_POW
  MaxUint             \* type(uint256).max

ASSUME MathAssumption ==
  /\ Precision \in Nat \ {0}
  /\ Offset \in Nat \ {0}
  /\ MaxUint \in Nat

AssetType == {"Protected", "Collateral", "Debt"}

CollateralType == {"Protected", "Collateral"}

Floor == "Floor"
Ceil == "Ceil"

-----------------------------------------------------------------------------

\* Math.mulDiv.  A division by zero makes the code revert; every caller turns
\* a zero result into a revert too, so zero stands for it here.
MulDiv(a, b, c, rounding) ==
  IF c = 0 THEN 0
  ELSE IF rounding = Floor THEN (a * b) \div c
  ELSE (a * b + (c - 1)) \div c

\* mulDivOverflow: an overflowing product counts as zero.
MulDivOverflow(a, b) ==
  IF a * b > MaxUint THEN 0 ELSE (a * b) \div Precision

SmallerOf(a, b) == IF a < b THEN a ELSE b

Liquidity(collateralAssets, debtAssets) ==
  IF debtAssets > collateralAssets THEN 0 ELSE collateralAssets - debtAssets

-----------------------------------------------------------------------------

\* The virtual shares count for the first deposit only.
FaultyCommonShares(totalShares, type) ==
  IF type = "Debt" \/ totalShares # 0 THEN totalShares ELSE Offset

\* _commonConvertTo: with no share left the assets still booked are dust that
\* does not count; only debt is converted without virtual shares and assets.
CommonShares(totalShares, type) ==
  IF type = "Debt" THEN totalShares ELSE totalShares + Offset

CommonAssets(totalAssets, totalShares, type) ==
  (IF totalShares = 0 THEN 0 ELSE totalAssets) + (IF type = "Debt" THEN 0 ELSE 1)

ConvertToShares(assets, totalAssets, totalShares, rounding, type) ==
  IF CommonShares(totalShares, type) = 0 THEN assets
  ELSE MulDiv(assets, CommonShares(totalShares, type),
              CommonAssets(totalAssets, totalShares, type), rounding)

ConvertToAssets(shares, totalAssets, totalShares, rounding, type) ==
  IF CommonShares(totalShares, type) = 0 THEN shares
  ELSE MulDiv(shares, CommonAssets(totalAssets, totalShares, type),
              CommonShares(totalShares, type), rounding)

\* convertToAssetsOrToShares: the caller gives assets or shares, the other one
\* is computed; a zero on either side makes the operation revert, see Moves.
Converted(in, totalAssets, totalShares, toAssets, toShares, type) ==
  [assets |-> IF in.assets = 0
              THEN ConvertToAssets(in.shares, totalAssets, totalShares, toAssets, type)
              ELSE in.assets,
   shares |-> IF in.assets = 0
              THEN in.shares
              ELSE ConvertToShares(in.assets, totalAssets, totalShares, toShares, type)]

Moves(x) == x.assets # 0 /\ x.shares # 0

-----------------------------------------------------------------------------

\* getDebtAmountsWithInterest: an overflow skips the interest.
AccruedInterest(debtAssets, rcomp) ==
  LET interest == MulDivOverflow(debtAssets, rcomp)
  IN  IF debtAssets + interest > MaxUint THEN 0 ELSE interest

\* calculateFraction: what the division by Precision left behind is carried
\* over, and paid out as one more unit when it adds up to one.
FractionIntegral(total, percent, fraction) ==
  IF total = 0 \/ total * percent > MaxUint THEN 0
  ELSE (fraction + ((total * percent) % Precision)) \div Precision

\* What was paid out stays in the remainder.
FaultyFractionRest(total, percent, fraction) ==
  IF total = 0 \/ total * percent > MaxUint THEN fraction
  ELSE fraction + ((total * percent) % Precision)

FractionRest(total, percent, fraction) ==
  IF total = 0 THEN fraction
  ELSE IF total * percent > MaxUint THEN 0
  ELSE (fraction + ((total * percent) % Precision)) % Precision

\* SiloStdLib.flashFee: rounded down, but never to nothing.
FlashFee(amount, flashloanFee) ==
  IF flashloanFee = 0 THEN 0
  ELSE IF (amount * flashloanFee) \div Precision = 0 THEN 1
  ELSE (amount * flashloanFee) \div Precision

=============================================================================
