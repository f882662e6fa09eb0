----------------------------- MODULE SiloLedger -----------------------------
(***************************************************************************)
(* The books of one Silo and what each operation does to them             *)
(* (silo-core/contracts/lib/SiloERC4626Lib.sol, SiloLendingLib.sol and     *)
(* Actions.sol).  A ledger is a record                                     *)
(*                                                                         *)
(*   assets    totalAssets[AssetType] of SiloStorage                       *)
(*   supply    totalSupply() of the three share tokens                     *)
(*   revenue   daoAndDeployerRevenue                                       *)
(*   fractions the two remainders of the Fractions storage                 *)
(*   clock     interestRateTimestamp, seen from block.timestamp            *)
(*   cash      the Silo's balance of the underlying token                  *)
(*   surplus   history: tokens the Silo owns but never books (direct       *)
(*             transfers to it, and interest lost to the cap at MaxUint)   *)
(*                                                                         *)
(* The operators return the new ledger; the guards of the code are         *)
(* operators of their own, named Can...  A definition named Faulty... is   *)
(* the one after it with a plausible mistake: TLC must catch the exchange. *)
(***************************************************************************)
EXTENDS SiloMath

CONSTANTS
  DaoAndDeployerFee,  \* daoFee + deployerFee of the SiloConfig
  FlashloanFee,
  RoundingThreshold   \* debt below it is accrued with fractions

ASSUME LedgerAssumption ==
  /\ DaoAndDeployerFee \in 0 .. (Precision - 1)
  /\ FlashloanFee \in Nat
  /\ RoundingThreshold \in Nat

Clock == {"never", "stale", "now"}

Ledger ==
  [assets : [AssetType -> Nat], supply : [AssetType -> Nat], revenue : Nat,
   fractions : [interest : 0 .. (Precision - 1), revenue : 0 .. (Precision - 1)],
   clock : Clock,
   cash : Nat, surplus : Nat]

EmptyLedger ==
  [assets |-> [t \in AssetType |-> 0], supply |-> [t \in AssetType |-> 0],
   revenue |-> 0, fractions |-> [interest |-> 0, revenue |-> 0],
   clock |-> "never", cash |-> 0, surplus |-> 0]

LedgerLiquidity(l) == Liquidity(l.assets["Collateral"], l.assets["Debt"])

\* Protected deposits are taken for free cash.
FaultyUnprotected(l) == l.cash

\* What the tokens of the Silo cover beyond its protected deposits.
Unprotected(l) ==
  IF l.assets["Protected"] > l.cash THEN 0 ELSE l.cash - l.assets["Protected"]

-----------------------------------------------------------------------------
(* Interest: accrueInterestForAsset.                                       *)

\* applyFractions works only on a small debt and on a bookable collateral.
FractionsApply(debtBefore, collateralAfter) ==
  /\ debtBefore < RoundingThreshold
  /\ collateralAfter # MaxUint
  /\ collateralAfter # 0

\* The one more unit of revenue is taken from nobody.
FaultyWithInterest(l, rcomp) ==
  LET debt     == l.assets["Debt"]
      interest == AccruedInterest(debt, rcomp)
      fees     == MulDivOverflow(interest, DaoAndDeployerFee)
      apply    == FractionsApply(debt, l.assets["Collateral"])
      more     == IF apply THEN FractionIntegral(debt, rcomp, l.fractions.interest) ELSE 0
      total    == interest + more
  IN  [l EXCEPT
        !.assets["Collateral"] = @ + total - fees,
        !.assets["Debt"] = debt + total,
        !.revenue = @ + fees + (IF apply THEN FractionIntegral(total, DaoAndDeployerFee, l.fractions.revenue) ELSE 0),
        !.fractions =
          IF apply
          THEN [interest |-> FractionRest(debt, rcomp, @.interest),
                revenue  |-> FractionRest(total, DaoAndDeployerFee, @.revenue)]
          ELSE @,
        !.clock = "now"]

WithInterest(l, rcomp) ==
  LET debt       == l.assets["Debt"]
      interest   == AccruedInterest(debt, rcomp)
      fees       == MulDivOverflow(interest, DaoAndDeployerFee)
      credited   == SmallerOf(interest - fees, MaxUint - l.assets["Collateral"])
      collateral == l.assets["Collateral"] + credited
      apply      == FractionsApply(debt, collateral)
      moreInterest == IF apply THEN FractionIntegral(debt, rcomp, l.fractions.interest) ELSE 0
      total        == interest + moreInterest
      moreRevenue  == IF apply THEN FractionIntegral(total, DaoAndDeployerFee, l.fractions.revenue) ELSE 0
  IN  [l EXCEPT
        !.assets["Collateral"] = collateral + moreInterest - moreRevenue,
        !.assets["Debt"] = debt + total,
        !.revenue = @ + fees + moreRevenue,
        !.fractions =
          IF apply
          THEN [interest |-> FractionRest(debt, rcomp, @.interest),
                revenue  |-> FractionRest(total, DaoAndDeployerFee, @.revenue)]
          ELSE @,
        !.surplus = @ + (interest - fees - credited),
        !.clock = "now"]

\* The fees are charged to the debt and never booked.
FaultyAccrueInterest(l, rcomp) ==
  IF l.clock = "stale" /\ rcomp # 0
  THEN [WithInterest(l, rcomp) EXCEPT !.revenue = l.revenue]
  ELSE [l EXCEPT !.clock = "now"]

\* Once per block; the first call only starts the clock; a model that answers
\* zero or reverts leaves the debt as it is.
AccrueInterest(l, rcomp) ==
  IF l.clock = "stale" /\ rcomp # 0 THEN WithInterest(l, rcomp)
  ELSE [l EXCEPT !.clock = "now"]

-----------------------------------------------------------------------------
(* Deposits and withdrawals: SiloERC4626Lib.                               *)

\* Shares rounded in favour of the depositor
FaultyDepositOf(l, type, in) ==
  Converted(in, l.assets[type], l.supply[type], Ceil, Ceil, type)

DepositOf(l, type, in) ==
  Converted(in, l.assets[type], l.supply[type], Ceil, Floor, type)

CanDeposit(l, type, x) == Moves(x) /\ l.assets[type] + x.assets <= MaxUint

Deposited(l, type, x) ==
  [l EXCEPT !.assets[type] = @ + x.assets, !.supply[type] = @ + x.shares]

WithdrawalOf(l, type, in) ==
  Converted(in, l.assets[type], l.supply[type], Floor, Ceil, type)

\* Borrowable assets leave only what is not lent out, protected ones always may.
CanWithdraw(l, type, x) ==
  /\ l.supply[type] # 0
  /\ Moves(x)
  /\ x.assets <= IF type = "Collateral" THEN LedgerLiquidity(l) ELSE l.assets["Protected"]

Withdrawn(l, type, x) ==
  [l EXCEPT !.assets[type] = @ - x.assets, !.supply[type] = @ - x.shares]

\* The ProtectedProtection check; the transfer itself fails without the cash.
CanPayWithdrawal(l, assets) ==
  /\ assets <= l.cash
  /\ \/ l.assets["Protected"] = 0
     \/ l.cash - assets >= l.assets["Protected"]

-----------------------------------------------------------------------------
(* Loans: SiloLendingLib.borrow and repay.                                 *)

LoanOf(l, in) ==
  Converted(in, l.assets["Debt"], l.supply["Debt"], Floor, Ceil, "Debt")

CanBorrow(l, x) == Moves(x) /\ x.assets <= LedgerLiquidity(l)

Borrowed(l, x) ==
  [l EXCEPT !.assets["Debt"] = @ + x.assets, !.supply["Debt"] = @ + x.shares]

\* Both conversions rounded in favour of the borrower
FaultyRepaymentOf(l, owed, in) ==
  LET x == Converted(in, l.assets["Debt"], l.supply["Debt"], Floor, Ceil, "Debt")
  IN  IF x.shares > owed
      THEN Converted([assets |-> 0, shares |-> owed],
                     l.assets["Debt"], l.supply["Debt"], Floor, Ceil, "Debt")
      ELSE x

\* A repayment of more shares than the borrower owes is cut to what is owed.
RepaymentOf(l, owed, in) ==
  LET x == Converted(in, l.assets["Debt"], l.supply["Debt"], Ceil, Floor, "Debt")
  IN  IF x.shares > owed
      THEN Converted([assets |-> 0, shares |-> owed],
                     l.assets["Debt"], l.supply["Debt"], Ceil, Floor, "Debt")
      ELSE x

\* RepayTooHigh
CanRepay(l, x) == Moves(x) /\ x.assets <= l.assets["Debt"]

Repaid(l, x) ==
  [l EXCEPT !.assets["Debt"] = @ - x.assets, !.supply["Debt"] = @ - x.shares]

-----------------------------------------------------------------------------
(* Tokens in and out.                                                      *)

Received(l, amount) == [l EXCEPT !.cash = @ + amount]

CanPay(l, amount) == amount <= l.cash

Paid(l, amount) == [l EXCEPT !.cash = @ - amount]

\* Tokens sent to the Silo by a plain transfer are never booked.
Donated(l, amount) == [Received(l, amount) EXCEPT !.surplus = @ + amount]

\* flashLoan: the fee is booked before the tokens leave.
CanFlashLoan(l, amount) == amount # 0 /\ amount <= Unprotected(l)

\* The fee is charged and never booked.
FaultyFlashLent(l, amount) == Paid(l, amount)

FlashLent(l, amount) ==
  [Paid(l, amount) EXCEPT !.revenue = @ + FlashFee(amount, FlashloanFee)]

\* withdrawFees pays what the protected deposits leave; dao and deployer
\* share it, so the Silo pays all of it whatever the split.
FeesToWithdraw(l) == SmallerOf(l.revenue, Unprotected(l))

CanWithdrawFees(l) == l.revenue # 0 /\ Unprotected(l) # 0

FeesWithdrawn(l) ==
  [Paid(l, FeesToWithdraw(l)) EXCEPT !.revenue = @ - FeesToWithdraw(l)]

=============================================================================
