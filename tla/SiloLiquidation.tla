--------------------------- MODULE SiloLiquidation ---------------------------
(***************************************************************************)
(* Liquidations of a Silo market                                           *)
(* (silo-core/contracts/hooks/liquidation and hooks/defaulting).  The hook *)
(* receiver of the market seizes collateral shares of an insolvent user:   *)
(* against a repayment of the debt (liquidationCall), or against the       *)
(* deposits of the lenders, who get the shares through the incentives      *)
(* controller (liquidationCallByDefaulting).  A liquidation is one         *)
(* transaction, so one action; the separate calls it makes with the guard  *)
(* released, repay and two redeems, are applied in their order.  A Faulty  *)
(* definition is the one after it with a plausible mistake: TLC must catch *)
(* it.                                                                     *)
(***************************************************************************)
EXTENDS SiloMarket

CONSTANTS
  LiquidationTargetLtv, \* liquidationTargetLtv of each Silo as collateral
  LiquidationFee,       \* liquidationFee of each Silo as collateral
  FullLiquidationThreshold, \* _FULL_LIQUIDATION_THRESHOLD
  LtMargin,             \* LT_MARGIN_FOR_DEFAULTING
  KeeperFee,            \* KEEPER_FEE
  Controller,           \* the incentives controller of the lending Silo
  DebtInputs            \* what liquidators are ready to repay

\* One of the Silos is no collateral: only then there is defaulting.
OneWayMarket == \E s \in Silos : LiquidationThreshold[s] = 0

\* Views.validateSiloInitData, and validateDefaultingCollateral where it applies
ASSUME LiquidationAssumption ==
  /\ LiquidationTargetLtv \in [Silos -> Nat]
  /\ LiquidationFee \in [Silos -> Nat]
  /\ \A s \in Silos : /\ LiquidationTargetLtv[s] <= LiquidationThreshold[s]
                      /\ LiquidationThreshold[s] + LiquidationFee[s] <= Precision
  /\ FullLiquidationThreshold \in 0 .. (Precision - 1)
  /\ LtMargin \in Nat
  /\ KeeperFee \in 0 .. Precision
  /\ OneWayMarket => /\ Controller \in Users
                      /\ \A s \in Silos :
                           /\ LiquidationThreshold[s] = 0 => LiquidationFee[s] = 0
                           /\ LiquidationThreshold[s] + LtMargin + LiquidationFee[s] <= Precision
  /\ DebtInputs \subseteq Nat \ {0}

-----------------------------------------------------------------------------
(* PartialLiquidationLib: how much is repaid and seized.                   *)

\* getAssetsDataForLtvCalculations, in the books l
Position(l, u, c, d) ==
  [t \in AssetType |->
     LET s == IF t = "Debt" THEN d ELSE c
     IN  ConvertToAssets(balance[s][t][u], l[s].assets[t], l[s].supply[t],
                         IF t = "Debt" THEN Ceil ELSE Floor, t)]

SumOfCollateral(p) == p["Protected"] + p["Collateral"]

\* valueToAssetsByRatio, in either direction
ByRatio(part, other, total) == MulDiv(part, other, total, Floor)

\* The fee is taken of all the collateral.
FaultyCollateralFor(debtValue, collateralValue, fee) ==
  SmallerOf(debtValue + (collateralValue * fee) \div Precision, collateralValue)

\* calculateCollateralToLiquidate: the debt and the fee, if there is so much
CollateralFor(debtValue, collateralValue, fee) ==
  SmallerOf(debtValue + (debtValue * fee) \div Precision, collateralValue)

\* estimateMaxRepayValue: what brings the LTV down to the target, or all if that
\* is not possible or nearly all.
EstimateMaxRepayValue(debtValue, collateralValue, target, fee) ==
  LET excess  == debtValue * Precision - target * collateralValue
      divider == Precision - (target + (target * fee) \div Precision)
      repay   == excess \div divider
  IN  IF fee >= Precision THEN 0
      ELSE IF debtValue >= collateralValue \/ target = 0 THEN debtValue
      ELSE IF target * collateralValue >= debtValue * Precision THEN 0
      ELSE IF target + (target * fee) \div Precision >= Precision THEN debtValue
      ELSE IF (repay * Precision) \div debtValue > FullLiquidationThreshold THEN debtValue
      ELSE repay

\* liquidationPreview for a position with collateral; all of the debt has to go
\* if the estimate says so, any part of a bad debt may.
DebtToRepay(debtValue, collateralValue, debt, maxDebtToCover, ltv, c) ==
  LET maxRepay == EstimateMaxRepayValue(debtValue, collateralValue,
                                        LiquidationTargetLtv[c], LiquidationFee[c])
  IN  IF ltv >= Precision THEN SmallerOf(maxDebtToCover, debt)
      ELSE IF maxRepay = debtValue THEN debt
      ELSE SmallerOf(maxDebtToCover, ByRatio(maxRepay, debt, debtValue))

NoLiquidation == [debt |-> 0, protected |-> 0, collateral |-> 0]

\* getExactLiquidationAmounts: the assets to repay and to seize, protected ones
\* first; no debt stands for the errors it returns.
ExactLiquidationAmounts(l, u, c, d, maxDebtToCover, lt) ==
  LET p    == Position(l, u, c, d)
      sum  == SumOfCollateral(p)
      collateralValue == price[c] * sum
      debtValue == price[d] * p["Debt"]
      ltv  == MulDiv(debtValue, Precision, collateralValue, Ceil)
      debt == DebtToRepay(debtValue, collateralValue, p["Debt"], maxDebtToCover, ltv, c)
      seized == ByRatio(CollateralFor(ByRatio(debt, debtValue, p["Debt"]), collateralValue,
                                      LiquidationFee[c]),
                        sum, collateralValue)
  IN  IF p["Debt"] = 0 \/ maxDebtToCover = 0 THEN NoLiquidation
      ELSE IF sum = 0 THEN [NoLiquidation EXCEPT !.debt = SmallerOf(maxDebtToCover, p["Debt"])]
      ELSE IF ltv <= lt \/ seized = 0 \/ debt = 0 THEN NoLiquidation
      ELSE [debt |-> debt,
            protected |-> SmallerOf(seized, p["Protected"]),
            collateral |-> seized - SmallerOf(seized, p["Protected"])]

\* The shares that stand for the seized assets, both conversions rounded down
SeizedShares(l, c, x) ==
  [t \in CollateralType |->
     ConvertToShares(IF t = "Protected" THEN x.protected ELSE x.collateral,
                     l[c].assets[t], l[c].supply[t], Floor, t)]

\* forwardTransferFromNoChecks of the shares n of both types
Forwarded(b, c, u, to, n) ==
  [b EXCEPT ![c] = [t \in AssetType |->
     IF t = "Debt" THEN b[c][t]
     ELSE Transferred(b, c, t, u, to, n[t])[c][t]]]

-----------------------------------------------------------------------------
(* liquidationCall                                                         *)

RedemptionOf(l, t, n) == WithdrawalOf(l, t, [assets |-> 0, shares |-> n])

\* _tryRedeem: shares that are worth nothing (ReturnZeroAssets) are handed over
\* as they are, any other failure of redeem is the liquidation's.
CanTryRedeem(l, t, n) ==
  LET x == RedemptionOf(l, t, n)
  IN  x.assets # 0 => /\ CanWithdraw(l, t, x)
                      /\ CanPayWithdrawal(Withdrawn(l, t, x), x.assets)

TriedRedeem(l, t, n) ==
  LET x == RedemptionOf(l, t, n)
  IN  IF x.assets = 0 THEN l ELSE Paid(Withdrawn(l, t, x), x.assets)

KeptShares(l, t, n) == IF RedemptionOf(l, t, n).assets = 0 THEN n ELSE 0

\* by anybody, also the borrower; the liquidator takes shares or their assets
LiquidationCall(liquidator, u, d, maxDebtToCover, receiveSToken, rcomp) ==
  LET l == BothAccrued(rcomp)
      c == collateralSilo[u]
      x == ExactLiquidationAmounts(l, u, c, d, maxDebtToCover, LiquidationThreshold[c])
      n == SeizedShares(l, c, x)
      y == RepaymentOf(l[d], balance[d]["Debt"][u], [assets |-> x.debt, shares |-> 0])
      repaid == [l EXCEPT ![d] = Received(Repaid(l[d], y), y.assets)]
      m == TriedRedeem(repaid[c], "Collateral", n["Collateral"])
      taken == [t \in CollateralType |->
                  IF receiveSToken THEN n[t] ELSE KeptShares(repaid[c], t, n[t])]
      redeemed == [t \in CollateralType |-> n[t] - taken[t]]
      b == Burned(balance, d, "Debt", u, y.shares)
  IN  /\ HasDebt(u, d)
      /\ x.debt # 0 /\ x.debt <= maxDebtToCover
      /\ \A t \in CollateralType : n[t] <= balance[c][t][u]
      /\ CanRepay(l[d], y)
      /\ CanReceive(d, l[d], x.debt)
      /\ \E t \in CollateralType : n[t] # 0
      /\ receiveSToken \/ (/\ CanTryRedeem(repaid[c], "Collateral", n["Collateral"])
                           /\ CanTryRedeem(m, "Protected", n["Protected"]))
      /\ ledger' = IF receiveSToken THEN repaid
                   ELSE [repaid EXCEPT ![c] = TriedRedeem(m, "Protected", n["Protected"])]
      /\ balance' = [Forwarded(b, c, u, liquidator, taken) EXCEPT
                       ![c]["Protected"][u] = @ - redeemed["Protected"],
                       ![c]["Collateral"][u] = @ - redeemed["Collateral"]]
      /\ UNCHANGED <<collateralSilo, loans, price, blocks>>

-----------------------------------------------------------------------------
(* liquidationCallByDefaulting                                             *)

\* _getKeeperAndLenderSharesSplit
KeeperShares(c, n) ==
  MulDiv(LiquidationFee[c] * KeeperFee, n, Precision, Floor) \div (Precision + LiquidationFee[c])

\* The lenders are made to lose more than they have.
FaultyDefaultedDebtDeducted(l, debt) == [l EXCEPT !.assets["Collateral"] = @ - debt]

\* Dao and deployer keep fees on interest that is never paid.
FaultyLossOfLenders(l, debt) == [l EXCEPT !.assets["Collateral"] = Liquidity(@, debt)]

\* deductDefaultedDebtFromCollateral: the lenders lose what is not repaid, then
\* dao and deployer; the rest was never booked.
DefaultedDebtDeducted(l, debt) ==
  LET excess == Liquidity(debt, l.assets["Collateral"])
      loss   == SmallerOf(excess, l.revenue)
  IN  [l EXCEPT !.assets["Collateral"] = Liquidity(@, debt),
                !.revenue = @ - loss,
                !.surplus = @ - (excess - loss)]

LiquidationCallByDefaulting(keeper, u, d, rcomp) ==
  LET l == BothAccrued(rcomp)
      c == collateralSilo[u]
      x == ExactLiquidationAmounts(l, u, c, d, MaxUint, LiquidationThreshold[c] + LtMargin)
      n == SeizedShares(l, c, x)
      forKeeper == [t \in CollateralType |-> KeeperShares(c, n[t])]
      forLenders == [t \in CollateralType |-> n[t] - forKeeper[t]]
      m == DefaultedDebtDeducted(l[d], x.debt)
      y == RepaymentOf(m, balance[d]["Debt"][u], [assets |-> x.debt, shares |-> 0])
      b == Burned(balance, d, "Debt", u, y.shares)
  IN  /\ OneWayMarket
      /\ HasDebt(u, d)
      /\ x.debt # 0
      /\ \A t \in CollateralType : n[t] <= balance[c][t][u]
      /\ CanRepay(m, y)
      /\ ledger' = [l EXCEPT ![d] = Repaid(m, y)]
      /\ balance' = Forwarded(Forwarded(b, c, u, Controller, forLenders), c, u, keeper, forKeeper)
      /\ UNCHANGED <<collateralSilo, loans, price, blocks>>

-----------------------------------------------------------------------------

\* The controller only receives seized shares and pays them out as rewards.
Controlled ==
  \A u \in Users \cap {Controller}, s \in Silos, t \in AssetType : UNCHANGED balance[s][t][u]

\* How much of it is whose reward is left open: any amount it holds may be paid to anybody.
ClaimRewards ==
  \E w \in Users \cap {Controller}, s \in Silos, t \in CollateralType, u \in Users \ {Controller}, r \in [Silos -> Rcomps] :
    \E n \in TransferInputs[s] : TransferCollateral(s, t, w, u, n, r)

Liquidations ==
  \E u \in Users, v \in Users \ {Controller}, d \in Silos, r \in [Silos -> Rcomps] :
    \/ \E n \in DebtInputs, receiveSToken \in BOOLEAN :
         LiquidationCall(v, u, d, n, receiveSToken, r)
    \/ LiquidationCallByDefaulting(v, u, d, r)

LiquidationNext == (Next /\ Controlled) \/ ClaimRewards \/ Liquidations

LiquidationSpec == Init /\ [][LiquidationNext]_vars

-----------------------------------------------------------------------------

\* The debt is rounded up.
FaultyMaxLiquidation(u, c, d) ==
  LET p == Position(ledger, u, c, d)
      sum == SumOfCollateral(p)
      collateralValue == price[c] * sum
      debtValue == price[d] * p["Debt"]
      repay == EstimateMaxRepayValue(debtValue, collateralValue,
                                     LiquidationTargetLtv[c], LiquidationFee[c])
      collateral == ByRatio(CollateralFor(repay, collateralValue, LiquidationFee[c]),
                            sum, collateralValue)
  IN  IF sum = 0 THEN [collateral |-> 0, debt |-> p["Debt"]]
      ELSE IF MulDiv(debtValue, Precision, collateralValue, Ceil) <= LiquidationThreshold[c]
      THEN [collateral |-> 0, debt |-> 0]
      ELSE [collateral |-> Liquidity(collateral, 2),
            debt |-> MulDiv(repay, p["Debt"], debtValue, Ceil)]

\* maxLiquidation, once interest is accrued
MaxLiquidation(u, c, d) ==
  LET p == Position(ledger, u, c, d)
      sum == SumOfCollateral(p)
      collateralValue == price[c] * sum
      debtValue == price[d] * p["Debt"]
      repay == EstimateMaxRepayValue(debtValue, collateralValue,
                                     LiquidationTargetLtv[c], LiquidationFee[c])
      collateral == ByRatio(CollateralFor(repay, collateralValue, LiquidationFee[c]),
                            sum, collateralValue)
  IN  IF sum = 0 THEN [collateral |-> 0, debt |-> p["Debt"]]
      ELSE IF MulDiv(debtValue, Precision, collateralValue, Ceil) <= LiquidationThreshold[c]
      THEN [collateral |-> 0, debt |-> 0]
      ELSE [collateral |-> Liquidity(collateral, 2), debt |-> ByRatio(repay, p["Debt"], debtValue)]

\* Interest is accrued up to the current block.
Fresh == \A s \in Silos : ledger[s].clock # "stale"

\* previewRedeem of the shares that a liquidation with this repayment seizes
DeliveredFor(u, c, d, debt) ==
  LET x == ExactLiquidationAmounts(ledger, u, c, d, debt, LiquidationThreshold[c])
      n == SeizedShares(ledger, c, x)
  IN  RedemptionOf(ledger[c], "Protected", n["Protected"]).assets
        + RedemptionOf(ledger[c], "Collateral", n["Collateral"]).assets

\* What a share of the debt of Silo d is worth, rounded up
DebtShare(d) == ConvertToAssets(1, ledger[d].assets["Debt"], ledger[d].supply["Debt"], Ceil, "Debt")

\* What maxLiquidation answers, if it names a debt, can be done in the same block:
\* a liquidation with that debt repays all of it; the Silo takes the repayment, if
\* it is worth a share of the debt; the collateral that was announced is delivered
\* but for the worth of one unit of debt, rounded up, although it goes through many
\* roundings, as long as a share of the collateral is worth no more than a unit;
\* and where no sToken is asked for all of it can be redeemed.
MaxLiquidationHolds ==
  \A u \in Users, d \in Silos : HasDebt(u, d) /\ Fresh =>
    LET c == collateralSilo[u]
        promise == MaxLiquidation(u, c, d)
        x == ExactLiquidationAmounts(ledger, u, c, d, promise.debt, LiquidationThreshold[c])
        n == SeizedShares(ledger, c, x)
        repaid == RepaymentOf(ledger[d], balance[d]["Debt"][u], [assets |-> x.debt, shares |-> 0])
        missing == Liquidity(promise.collateral, DeliveredFor(u, c, d, promise.debt))
    IN  promise.collateral # 0 /\ promise.debt # 0 =>
          /\ x.debt = promise.debt
          /\ promise.debt >= DebtShare(d) => CanRepay(ledger[d], repaid)
          /\ ledger[c].assets["Collateral"] <= ledger[c].supply["Collateral"]
               => price[c] * Liquidity(missing, 1) * Precision
                    <= price[d] * (Precision + LiquidationFee[c])
          /\ (loans = <<>> /\ promise.collateral + 2 <= LedgerLiquidity(ledger[c]))
               => \A t \in CollateralType : CanTryRedeem(ledger[c], t, n[t])

\* A step that takes shares of collateral and of debt from a user: a liquidation
Seizes(u, c, d) ==
  /\ balance'[d]["Debt"][u] < balance[d]["Debt"][u]
  /\ \E t \in CollateralType : balance'[c][t][u] < balance[c][t][u]

\* No liquidation takes collateral of more worth than the debt it cancels and the
\* fee on it: through a chain of roundings from values to assets to shares, and
\* whether the debt is repaid or defaulted.
CollateralForDebt ==
  [][\A u \in Users, d \in Silos : LET c == collateralSilo[u] IN
       Fresh /\ HasDebt(u, d) /\ Seizes(u, c, d) =>
         LET worth(t) ==
               RedemptionOf(ledger[c], t, Liquidity(balance[c][t][u], balance'[c][t][u])).assets
         IN  price[c] * (worth("Collateral") + worth("Protected")) * Precision
               <= price[d] * (ledger[d].assets["Debt"] - ledger'[d].assets["Debt"])
                    * (Precision + LiquidationFee[c])
    ]_vars

\* What the rounding of the fee in the estimate may cost: a unit of value for each
\* target LTV of value repaid.
LostToFee(c, repaid) ==
  IF LiquidationTargetLtv[c] = 0 THEN 0 ELSE MulDiv(repaid, 1, LiquidationTargetLtv[c], Ceil)

\* As long as the LTV is below 100%, no liquidation of whatever part of a debt
\* harms the borrower.  All that is repaid is taken off his debt, but for less than
\* a share of it, because the shares are rounded down.  And the collateral that is
\* taken never weighs more in the LTV than the repayment does, fee and all
\* roundings included, but for LostToFee.
LiquidatedNotWorse ==
  [][\A u \in Users, d \in Silos :
       LET c == collateralSilo[u]
           repaid == price[d] * (ledger[d].assets["Debt"] - ledger'[d].assets["Debt"])
       IN  /\ Fresh /\ HasDebt(u, d) /\ Seizes(u, c, d)
           /\ MulDiv(DebtValue(u, d), Precision, CollateralValue(u, c), Ceil) \in 1 .. (Precision - 1)
           => /\ DebtValue(u, d)' + repaid <= DebtValue(u, d) + price[d] * DebtShare(d)
              /\ DebtValue(u, d) * CollateralValue(u, c)
                   <= DebtValue(u, d) * CollateralValue(u, c)'
                        + (repaid + LostToFee(c, repaid)) * CollateralValue(u, c)
    ]_vars

=============================================================================
