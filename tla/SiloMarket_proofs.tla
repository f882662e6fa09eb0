-------------------------- MODULE SiloMarket_proofs --------------------------
(***************************************************************************)
(* Theorems about SiloMarket, for any set of users, any amounts, prices,   *)
(* rates and fees, and flash loans nested to any depth.  First come facts  *)
(* about the arithmetic of SiloMath, the books of SiloLedger and the sums  *)
(* of the balances of a share token, for every amount, fee, precision and  *)
(* cap; then the market's own invariant and what follows from it; at last  *)
(* what shares are worth: debt shares are covered, claims are booked, the  *)
(* price of a deposit never falls, and solvent users stay so.              *)
(***************************************************************************)
EXTENDS SiloMarket, FiniteSetTheorems, WellFoundedInduction, TLAPS

-----------------------------------------------------------------------------
(* Arithmetic.                                                             *)

\* A rounded quotient of natural numbers is a natural number (Math.mulDiv).
LEMMA MulDivNat ==
  ASSUME NEW a \in Nat, NEW b \in Nat, NEW c \in Nat, NEW rounding
  PROVE  MulDiv(a, b, c, rounding) \in Nat
<1>1. a * b \in Nat
  OBVIOUS
<1>2. ASSUME NEW n \in Nat, c # 0 PROVE n \div c \in Nat
  BY <1>2
<1>3. c # 0 => a * b + (c - 1) \in Nat
  BY <1>1
<1> QED
  BY <1>1, <1>2, <1>3 DEF MulDiv

\* Division by Precision, the value of 100%.
LEMMA DivPrecision ==
  ASSUME NEW n \in Nat
  PROVE  /\ n \div Precision \in Nat
         /\ n % Precision \in 0 .. (Precision - 1)
         /\ n < 2 * Precision => n \div Precision <= 1
  BY MathAssumption

\* No fee below 100% takes more than what it is taken from (mulDivOverflow).
LEMMA MulDivOverflowBound ==
  ASSUME NEW a \in Nat, NEW b \in Nat
  PROVE  /\ MulDivOverflow(a, b) \in Nat
         /\ b < Precision => MulDivOverflow(a, b) <= a
<1>1. a * b \in Nat
  OBVIOUS
<1>2. MulDivOverflow(a, b) \in Nat
  BY <1>1, DivPrecision DEF MulDivOverflow
<1>3. ASSUME b < Precision PROVE (a * b) \div Precision <= a
  <2> DEFINE q == (a * b) \div Precision
  <2>1. q \in Nat /\ Precision * q <= a * b
    BY <1>1, MathAssumption
  <2>2. a * b <= a * Precision
    BY <1>3, MathAssumption
  <2>3. ASSUME q >= a + 1 PROVE FALSE
    <3>1. Precision * q >= Precision * (a + 1)
      BY <2>1, <2>3, MathAssumption
    <3>2. Precision * (a + 1) = a * Precision + Precision
      BY MathAssumption
    <3> QED
      BY <2>1, <2>2, <3>1, <3>2, <1>1, MathAssumption
  <2> QED
    BY <2>1, <2>3
<1> QED
  BY <1>1, <1>2, <1>3 DEF MulDivOverflow

\* Interest is a natural number (getDebtAmountsWithInterest).
LEMMA AccruedInterestNat ==
  ASSUME NEW debtAssets \in Nat, NEW rcomp \in Nat
  PROVE  AccruedInterest(debtAssets, rcomp) \in Nat
BY MulDivOverflowBound DEF AccruedInterest

\* The remainders pay out at most one unit at a time and stay remainders
\* (calculateFraction).
LEMMA FractionBound ==
  ASSUME NEW total \in Nat, NEW percent \in Nat, NEW fraction \in 0 .. (Precision - 1)
  PROVE  /\ FractionIntegral(total, percent, fraction) \in {0, 1}
         /\ FractionRest(total, percent, fraction) \in 0 .. (Precision - 1)
         /\ total = 0 => FractionIntegral(total, percent, fraction) = 0
<1>1. total * percent \in Nat
  OBVIOUS
<1> DEFINE rest == (total * percent) % Precision
<1>2. rest \in 0 .. (Precision - 1)
  BY <1>1, DivPrecision
<1> HIDE DEF rest
<1>3. fraction + rest \in Nat /\ fraction + rest < 2 * Precision
  BY <1>2, MathAssumption
<1>4. /\ (fraction + rest) \div Precision \in Nat
      /\ (fraction + rest) \div Precision <= 1
      /\ (fraction + rest) % Precision \in 0 .. (Precision - 1)
  BY <1>3, DivPrecision
<1>5. 0 \in 0 .. (Precision - 1)
  BY MathAssumption
<1> QED
  BY <1>4, <1>5 DEF FractionIntegral, FractionRest, rest

\* The fee of a flash loan is a natural number (SiloStdLib.flashFee).
LEMMA FlashFeeNat ==
  ASSUME NEW amount \in Nat
  PROVE  FlashFee(amount, FlashloanFee) \in Nat
<1>1. amount * FlashloanFee \in Nat
  BY LedgerAssumption
<1> QED
  BY <1>1, DivPrecision DEF FlashFee

-----------------------------------------------------------------------------
(* Conversions.                                                            *)

Amounts == [assets : Nat, shares : Nat]

\* Every conversion answers natural numbers, and keeps the one it was given
\* (convertToAssetsOrToShares).
LEMMA ConvertedNat ==
  ASSUME NEW in \in Amounts, NEW totalAssets \in Nat, NEW totalShares \in Nat,
         NEW toAssets, NEW toShares, NEW type
  PROVE  LET x == Converted(in, totalAssets, totalShares, toAssets, toShares, type)
         IN  /\ x \in Amounts
             /\ in.assets = 0 => x.shares = in.shares
             /\ in.assets # 0 => x.assets = in.assets
<1>1. CommonShares(totalShares, type) \in Nat /\ CommonAssets(totalAssets, totalShares, type) \in Nat
  BY MathAssumption DEF CommonShares, CommonAssets
<1>2. in.assets \in Nat /\ in.shares \in Nat
  BY DEF Amounts
<1>3. ConvertToAssets(in.shares, totalAssets, totalShares, toAssets, type) \in Nat
  BY <1>1, <1>2, MulDivNat DEF ConvertToAssets
<1>4. ConvertToShares(in.assets, totalAssets, totalShares, toShares, type) \in Nat
  BY <1>1, <1>2, MulDivNat DEF ConvertToShares
<1> QED
  BY <1>2, <1>3, <1>4 DEF Converted, Amounts

-----------------------------------------------------------------------------
(* The books.                                                              *)

\* What the books of one Silo satisfy between two steps, with owed tokens out
\* in flash loans: types, the cap, the cash identity and the cover of the debt.
LedgerOK(l, owed) ==
  /\ l.assets["Collateral"] <= MaxUint
  /\ l.cash + owed + l.assets["Debt"]
       = l.assets["Protected"] + l.assets["Collateral"] + l.revenue + l.surplus
  /\ l.assets["Debt"] <= l.assets["Collateral"] + l.revenue + l.surplus

\* A new Silo has its books in order.
LEMMA EmptyLedgerOK == EmptyLedger \in Ledger /\ LedgerOK(EmptyLedger, 0)
BY MathAssumption DEF LedgerOK, EmptyLedger, Ledger, AssetType, Clock

\* Each field of a ledger may be written on its own.
LEMMA LedgerUpdate ==
  ASSUME NEW l \in Ledger
  PROVE  /\ \A t \in AssetType, n \in Nat : [l EXCEPT !.assets[t] = n] \in Ledger
         /\ \A t \in AssetType, n \in Nat : [l EXCEPT !.supply[t] = n] \in Ledger
         /\ \A n \in Nat : [l EXCEPT !.revenue = n] \in Ledger
         /\ \A n \in Nat : [l EXCEPT !.cash = n] \in Ledger
         /\ \A n \in Nat : [l EXCEPT !.surplus = n] \in Ledger
         /\ \A f \in [interest : 0 .. (Precision - 1), revenue : 0 .. (Precision - 1)] :
              [l EXCEPT !.fractions = f] \in Ledger
         /\ [l EXCEPT !.clock = "now"] \in Ledger
<1>1. ASSUME NEW t \in AssetType, NEW n \in Nat PROVE [l EXCEPT !.assets[t] = n] \in Ledger
  BY DEF Ledger
<1>2. ASSUME NEW t \in AssetType, NEW n \in Nat PROVE [l EXCEPT !.supply[t] = n] \in Ledger
  BY DEF Ledger
<1>3. ASSUME NEW n \in Nat
      PROVE  /\ [l EXCEPT !.revenue = n] \in Ledger
             /\ [l EXCEPT !.cash = n] \in Ledger
             /\ [l EXCEPT !.surplus = n] \in Ledger
  BY DEF Ledger
<1>4. ASSUME NEW f \in [interest : 0 .. (Precision - 1), revenue : 0 .. (Precision - 1)]
      PROVE  [l EXCEPT !.fractions = f] \in Ledger
  BY DEF Ledger
<1>5. [l EXCEPT !.clock = "now"] \in Ledger
  BY DEF Ledger, Clock
<1> QED
  BY <1>1, <1>2, <1>3, <1>4, <1>5

\* What the fields of a ledger are.
LEMMA LedgerFields ==
  ASSUME NEW l \in Ledger
  PROVE  /\ l.assets["Protected"] \in Nat /\ l.assets["Collateral"] \in Nat
         /\ l.assets["Debt"] \in Nat
         /\ \A t \in AssetType : l.assets[t] \in Nat /\ l.supply[t] \in Nat
         /\ l.revenue \in Nat /\ l.cash \in Nat /\ l.surplus \in Nat
         /\ l.fractions.interest \in 0 .. (Precision - 1)
         /\ l.fractions.revenue \in 0 .. (Precision - 1)
         /\ l.fractions \in [interest : 0 .. (Precision - 1), revenue : 0 .. (Precision - 1)]
BY DEF Ledger, AssetType

\* Interest: whatever the rate, the debt grows by exactly what the depositors,
\* the fees and the surplus get (accrueInterestForAsset).
LEMMA WithInterestOK ==
  ASSUME NEW l \in Ledger, NEW owed \in Nat, LedgerOK(l, owed), NEW rcomp \in Nat
  PROVE  /\ WithInterest(l, rcomp) \in Ledger
         /\ LedgerOK(WithInterest(l, rcomp), owed)
         /\ WithInterest(l, rcomp).supply = l.supply
<1> DEFINE debt       == l.assets["Debt"]
           interest   == AccruedInterest(debt, rcomp)
           fees       == MulDivOverflow(interest, DaoAndDeployerFee)
           credited   == SmallerOf(interest - fees, MaxUint - l.assets["Collateral"])
           collateral == l.assets["Collateral"] + credited
           apply      == FractionsApply(debt, collateral)
           moreInterest == IF apply THEN FractionIntegral(debt, rcomp, l.fractions.interest) ELSE 0
           total        == interest + moreInterest
           moreRevenue  == IF apply THEN FractionIntegral(total, DaoAndDeployerFee, l.fractions.revenue) ELSE 0
           fractions == IF apply
                        THEN [interest |-> FractionRest(debt, rcomp, l.fractions.interest),
                              revenue  |-> FractionRest(total, DaoAndDeployerFee, l.fractions.revenue)]
                        ELSE l.fractions
<1>1. /\ debt \in Nat /\ l.assets["Collateral"] \in Nat /\ l.assets["Protected"] \in Nat
      /\ l.revenue \in Nat /\ l.cash \in Nat /\ l.surplus \in Nat
      /\ l.fractions.interest \in 0 .. (Precision - 1)
      /\ l.fractions.revenue \in 0 .. (Precision - 1)
      /\ l.fractions \in [interest : 0 .. (Precision - 1), revenue : 0 .. (Precision - 1)]
      /\ l.assets["Collateral"] <= MaxUint
  BY LedgerFields DEF LedgerOK
<1>2. interest \in Nat
  BY <1>1, AccruedInterestNat
<1>3. fees \in Nat /\ fees <= interest
  <2>1. DaoAndDeployerFee \in Nat /\ DaoAndDeployerFee < Precision
    BY LedgerAssumption, MathAssumption
  <2> QED
    BY <1>2, <2>1, MulDivOverflowBound
<1>4. credited \in Nat /\ credited <= interest - fees /\ collateral \in Nat /\ collateral <= MaxUint
  <2> HIDE DEF interest, fees
  <2> QED
    BY <1>1, <1>2, <1>3, MathAssumption DEF SmallerOf
<1>5. apply => collateral # MaxUint /\ collateral # 0
  BY DEF FractionsApply
<1>6. moreInterest \in {0, 1} /\ (~apply => moreInterest = 0) /\ total \in Nat
  <2>1. FractionIntegral(debt, rcomp, l.fractions.interest) \in {0, 1}
    BY <1>1, FractionBound
  <2> HIDE DEF interest, apply
  <2>2. moreInterest \in {0, 1} /\ (~apply => moreInterest = 0)
    BY <2>1
  <2> QED
    BY <1>2, <2>2
<1>7. /\ moreRevenue \in {0, 1} /\ (~apply => moreRevenue = 0)
      /\ fractions \in [interest : 0 .. (Precision - 1), revenue : 0 .. (Precision - 1)]
  <2>1. DaoAndDeployerFee \in Nat
    BY LedgerAssumption, MathAssumption
  <2> HIDE DEF total, apply
  <2>2. /\ FractionIntegral(total, DaoAndDeployerFee, l.fractions.revenue) \in {0, 1}
        /\ FractionRest(total, DaoAndDeployerFee, l.fractions.revenue) \in 0 .. (Precision - 1)
    BY <1>1, <1>6, <2>1, FractionBound
  <2>3. FractionRest(debt, rcomp, l.fractions.interest) \in 0 .. (Precision - 1)
    BY <1>1, FractionBound
  <2> QED
    BY <1>1, <2>2, <2>3
<1>8. /\ l.cash + owed + debt
           = l.assets["Protected"] + l.assets["Collateral"] + l.revenue + l.surplus
      /\ debt <= l.assets["Collateral"] + l.revenue + l.surplus
  BY DEF LedgerOK
<1>9. collateral = l.assets["Collateral"] + credited /\ total = interest + moreInterest
  OBVIOUS
<1> DEFINE l1 == [l EXCEPT !.assets["Collateral"] = collateral + moreInterest - moreRevenue]
           l2 == [l1 EXCEPT !.assets["Debt"] = debt + total]
           l3 == [l2 EXCEPT !.revenue = l.revenue + fees + moreRevenue]
           l4 == [l3 EXCEPT !.fractions = fractions]
           l5 == [l4 EXCEPT !.surplus = l.surplus + (interest - fees - credited)]
           l6 == [l5 EXCEPT !.clock = "now"]
<1>10. WithInterest(l, rcomp) = l6
  BY Zenon DEF WithInterest
<1> HIDE DEF debt, interest, fees, credited, collateral, apply, moreInterest, total, moreRevenue, fractions
<1>11. /\ collateral + moreInterest - moreRevenue \in Nat
       /\ collateral + moreInterest - moreRevenue <= MaxUint
       /\ debt + total \in Nat
       /\ l.revenue + fees + moreRevenue \in Nat
       /\ l.surplus + (interest - fees - credited) \in Nat
  BY <1>1, <1>2, <1>3, <1>4, <1>5, <1>6, <1>7, MathAssumption
<1>12. l6 \in Ledger
  <2>1. l1 \in Ledger
    BY <1>11, LedgerUpdate DEF AssetType
  <2>2. l2 \in Ledger
    BY <1>11, <2>1, LedgerUpdate DEF AssetType
  <2>3. l3 \in Ledger
    BY <1>11, <2>2, LedgerUpdate
  <2>4. l4 \in Ledger
    BY <1>7, <2>3, LedgerUpdate
  <2>5. l5 \in Ledger
    BY <1>11, <2>4, LedgerUpdate
  <2> QED
    BY <2>5, LedgerUpdate
<1>13. l6.assets["Collateral"] = collateral + moreInterest - moreRevenue
  BY DEF Ledger, AssetType
<1>14. l6.assets["Debt"] = debt + total /\ l6.assets["Protected"] = l.assets["Protected"]
  BY DEF Ledger, AssetType
<1>15. /\ l6.revenue = l.revenue + fees + moreRevenue
       /\ l6.surplus = l.surplus + (interest - fees - credited)
       /\ l6.cash = l.cash
       /\ l6.supply = l.supply
  <2>1. l6.revenue = l.revenue + fees + moreRevenue
    BY DEF Ledger
  <2>2. l6.surplus = l.surplus + (interest - fees - credited)
    BY DEF Ledger
  <2>3. l6.cash = l.cash /\ l6.supply = l.supply
    BY DEF Ledger
  <2> QED
    BY <2>1, <2>2, <2>3
<1> HIDE DEF l1, l2, l3, l4, l5, l6
<1>16. LedgerOK(l6, owed)
  <2>1. moreInterest \in Nat /\ moreRevenue \in Nat
    BY <1>6, <1>7
  <2>2. l6.cash + owed + l6.assets["Debt"]
          = l6.assets["Protected"] + l6.assets["Collateral"] + l6.revenue + l6.surplus
    <3> DEFINE cash == l.cash
               protected == l.assets["Protected"]
               lent == l.assets["Collateral"]
               revenue == l.revenue
               surplus == l.surplus
    <3>1. /\ cash \in Nat /\ protected \in Nat /\ lent \in Nat /\ debt \in Nat
          /\ revenue \in Nat /\ surplus \in Nat
          /\ cash + owed + debt = protected + lent + revenue + surplus
      BY <1>1, <1>8
    <3> HIDE DEF cash, protected, lent, revenue, surplus
    <3>2. cash + owed + (debt + (interest + moreInterest))
            = protected + (lent + credited + moreInterest - moreRevenue)
              + (revenue + fees + moreRevenue) + (surplus + (interest - fees - credited))
      BY <1>2, <1>3, <1>4, <2>1, <3>1
    <3> QED
      BY <1>9, <1>13, <1>14, <1>15, <3>2 DEF cash, protected, lent, revenue, surplus
  <2>3. l6.assets["Debt"] <= l6.assets["Collateral"] + l6.revenue + l6.surplus
    BY <1>1, <1>2, <1>3, <1>4, <1>8, <1>9, <1>13, <1>14, <1>15, <2>1
  <2> QED
    BY <1>11, <1>13, <2>2, <2>3 DEF LedgerOK
<1> QED
  BY <1>10, <1>12, <1>15, <1>16

\* accrueInterestForAsset keeps the books, whatever the clock says.
LEMMA AccrueInterestOK ==
  ASSUME NEW l \in Ledger, NEW owed \in Nat, LedgerOK(l, owed), NEW rcomp \in Nat
  PROVE  /\ AccrueInterest(l, rcomp) \in Ledger
         /\ LedgerOK(AccrueInterest(l, rcomp), owed)
         /\ AccrueInterest(l, rcomp).supply = l.supply
<1>1. /\ [l EXCEPT !.clock = "now"] \in Ledger
      /\ LedgerOK([l EXCEPT !.clock = "now"], owed)
      /\ [l EXCEPT !.clock = "now"].supply = l.supply
  BY LedgerUpdate DEF LedgerOK, Ledger, Clock
<1> QED
  BY <1>1, WithInterestOK DEF AccrueInterest

\* What a deposit, a withdrawal, a loan and a repayment have in common: they
\* write the total and the supply of one asset type, and the cash.
Booked(l, t, total, supply, cash) ==
  [[[l EXCEPT !.assets[t] = total] EXCEPT !.supply[t] = supply] EXCEPT !.cash = cash]

\* What such a call writes, and what it leaves alone.
IsBooked(m, l, t, total, supply, cash) ==
  /\ m \in Ledger
  /\ m.assets[t] = total
  /\ \A other \in AssetType \ {t} : m.assets[other] = l.assets[other]
  /\ m.supply = [l.supply EXCEPT ![t] = supply]
  /\ m.cash = cash /\ m.revenue = l.revenue /\ m.surplus = l.surplus

\* Booked writes these three fields and nothing else.
LEMMA BookedFields ==
  ASSUME NEW l \in Ledger, NEW t \in AssetType,
         NEW total \in Nat, NEW supply \in Nat, NEW cash \in Nat
  PROVE  IsBooked(Booked(l, t, total, supply, cash), l, t, total, supply, cash)
<1> DEFINE l1 == [l EXCEPT !.assets[t] = total]
           l2 == [l1 EXCEPT !.supply[t] = supply]
           l3 == [l2 EXCEPT !.cash = cash]
<1>1. l1 \in Ledger
  BY LedgerUpdate
<1>2. l2 \in Ledger
  BY <1>1, LedgerUpdate
<1>3. l3 \in Ledger
  BY <1>2, LedgerUpdate
<1>4. l3.assets[t] = total
  BY DEF Ledger
<1>5. ASSUME NEW other \in AssetType \ {t} PROVE l3.assets[other] = l.assets[other]
  BY DEF Ledger
<1>6. l3.supply = [l.supply EXCEPT ![t] = supply]
  BY DEF Ledger
<1>7. l3.cash = cash /\ l3.revenue = l.revenue /\ l3.surplus = l.surplus
  BY DEF Ledger
<1> QED
  BY <1>3, <1>4, <1>5, <1>6, <1>7 DEF Booked, IsBooked

\* SiloERC4626Lib.deposit keeps the books.
LEMMA DepositOK ==
  ASSUME NEW l \in Ledger, NEW owed \in Nat, LedgerOK(l, owed),
         NEW type \in CollateralType, NEW x \in Amounts, CanDeposit(l, type, x)
  PROVE  LET m == Received(Deposited(l, type, x), x.assets)
         IN  /\ m \in Ledger /\ LedgerOK(m, owed)
             /\ m.supply = [l.supply EXCEPT ![type] = @ + x.shares]
<1> DEFINE a == x.assets
           total == l.assets[type] + a
           supply == l.supply[type] + x.shares
           cash == l.cash + a
           m == Booked(l, type, total, supply, cash)
<1>1. Received(Deposited(l, type, x), x.assets) = m
  BY DEF Booked, Received, Deposited, Ledger
<1>2. a \in Nat /\ total \in Nat /\ supply \in Nat /\ cash \in Nat /\ type \in AssetType
  BY LedgerFields DEF Amounts, CollateralType, AssetType
<1> HIDE DEF m, total, supply, cash, a
<1>3. /\ m \in Ledger
      /\ m.assets[type] = total
      /\ \A other \in AssetType \ {type} : m.assets[other] = l.assets[other]
      /\ m.supply = [l.supply EXCEPT ![type] = supply]
      /\ m.cash = cash /\ m.revenue = l.revenue /\ m.surplus = l.surplus
  <2>1. IsBooked(m, l, type, total, supply, cash)
    BY <1>2, BookedFields DEF m
  <2> QED
    BY <2>1 DEF IsBooked
<1>4. LedgerOK(m, owed)
  <2> DEFINE p == l.assets["Protected"]
             c == l.assets["Collateral"]
             d == l.assets["Debt"]
             k == l.cash
             r == l.revenue
             s == l.surplus
  <2>1. /\ p \in Nat /\ c \in Nat /\ d \in Nat /\ k \in Nat /\ r \in Nat /\ s \in Nat
        /\ c <= MaxUint /\ k + owed + d = p + c + r + s /\ d <= c + r + s
    BY LedgerFields DEF LedgerOK
  <2>2. cash = k + a
    BY DEF cash
  <2>3. CASE type = "Protected"
    <3>1. /\ m.assets["Protected"] = p + a
          /\ m.assets["Collateral"] = c /\ m.assets["Debt"] = d
      BY <1>3, <2>3 DEF AssetType, total
    <3> HIDE DEF p, c, d, k, r, s
    <3>2. k + a + owed + d = p + a + c + r + s
      BY <1>2, <2>1
    <3> QED
      BY <1>3, <2>1, <2>2, <3>1, <3>2 DEF LedgerOK, r, s
  <2>4. CASE type = "Collateral"
    <3>1. /\ m.assets["Collateral"] = c + a /\ c + a <= MaxUint
          /\ m.assets["Protected"] = p /\ m.assets["Debt"] = d
      BY <1>3, <2>4 DEF AssetType, total, CanDeposit, a
    <3> HIDE DEF p, c, d, k, r, s
    <3>2. k + a + owed + d = p + (c + a) + r + s /\ d <= c + a + r + s
      BY <1>2, <2>1
    <3> QED
      BY <1>3, <2>1, <2>2, <3>1, <3>2 DEF LedgerOK, r, s
  <2> QED
    BY <2>3, <2>4 DEF CollateralType
<1> QED
  BY <1>1, <1>3, <1>4 DEF supply

\* SiloERC4626Lib.withdraw keeps the books: what is lent out cannot leave.
LEMMA WithdrawOK ==
  ASSUME NEW l \in Ledger, NEW owed \in Nat, LedgerOK(l, owed),
         NEW type \in CollateralType, NEW x \in Amounts, CanWithdraw(l, type, x),
         x.shares <= l.supply[type], x.assets <= l.cash
  PROVE  LET m == Paid(Withdrawn(l, type, x), x.assets)
         IN  /\ m \in Ledger /\ LedgerOK(m, owed)
             /\ m.supply = [l.supply EXCEPT ![type] = @ - x.shares]
<1> DEFINE a == x.assets
           total == l.assets[type] - a
           supply == l.supply[type] - x.shares
           cash == l.cash - a
           m == Booked(l, type, total, supply, cash)
<1>1. Paid(Withdrawn(l, type, x), x.assets) = m
  BY DEF Booked, Paid, Withdrawn, Ledger
<1>2. a \in Nat /\ supply \in Nat /\ cash \in Nat /\ type \in AssetType
  BY LedgerFields DEF Amounts, CollateralType, AssetType
<1>3. /\ total \in Nat
      /\ type = "Collateral" => a <= l.assets["Collateral"] - l.assets["Debt"]
      /\ type = "Protected" => a <= l.assets["Protected"]
      /\ a # 0
  <2>1. l.assets["Protected"] \in Nat /\ l.assets["Collateral"] \in Nat /\ l.assets["Debt"] \in Nat
    BY LedgerFields
  <2>2. CASE type = "Protected"
    BY <1>2, <2>1, <2>2 DEF CanWithdraw, Moves
  <2>3. CASE type = "Collateral"
    BY <1>2, <2>1, <2>3 DEF CanWithdraw, Moves, LedgerLiquidity, Liquidity
  <2> QED
    BY <2>2, <2>3 DEF CollateralType
<1> HIDE DEF m, total, supply, cash, a
<1>4. /\ m \in Ledger
      /\ m.assets[type] = total
      /\ \A other \in AssetType \ {type} : m.assets[other] = l.assets[other]
      /\ m.supply = [l.supply EXCEPT ![type] = supply]
      /\ m.cash = cash /\ m.revenue = l.revenue /\ m.surplus = l.surplus
  <2>1. IsBooked(m, l, type, total, supply, cash)
    BY <1>2, <1>3, BookedFields DEF m
  <2> QED
    BY <2>1 DEF IsBooked
<1>5. LedgerOK(m, owed)
  <2> DEFINE p == l.assets["Protected"]
             c == l.assets["Collateral"]
             d == l.assets["Debt"]
             k == l.cash
             r == l.revenue
             s == l.surplus
  <2>1. /\ p \in Nat /\ c \in Nat /\ d \in Nat /\ k \in Nat /\ r \in Nat /\ s \in Nat
        /\ c <= MaxUint /\ k + owed + d = p + c + r + s /\ d <= c + r + s
    BY LedgerFields DEF LedgerOK
  <2>2. cash = k - a
    BY DEF cash
  <2>3. CASE type = "Protected"
    <3>1. /\ m.assets["Protected"] = p - a /\ a <= p
          /\ m.assets["Collateral"] = c /\ m.assets["Debt"] = d
      BY <1>3, <1>4, <2>3 DEF AssetType, total
    <3> HIDE DEF p, c, d, k, r, s
    <3>2. k - a + owed + d = p - a + c + r + s
      BY <1>2, <2>1
    <3> QED
      BY <1>4, <2>1, <2>2, <3>1, <3>2 DEF LedgerOK, r, s
  <2>4. CASE type = "Collateral"
    <3>1. /\ m.assets["Collateral"] = c - a /\ a <= c - d
          /\ m.assets["Protected"] = p /\ m.assets["Debt"] = d
      BY <1>3, <1>4, <2>4 DEF AssetType, total
    <3> HIDE DEF p, c, d, k, r, s
    <3>2. k - a + owed + d = p + (c - a) + r + s /\ d <= c - a + r + s /\ c - a <= MaxUint
      BY <1>2, <2>1, <3>1, MathAssumption
    <3> QED
      BY <1>4, <2>1, <2>2, <3>1, <3>2 DEF LedgerOK, r, s
  <2> QED
    BY <2>3, <2>4 DEF CollateralType
<1> QED
  BY <1>1, <1>4, <1>5 DEF supply

\* SiloLendingLib.borrow keeps the books: a loan is taken from the liquidity.
LEMMA BorrowOK ==
  ASSUME NEW l \in Ledger, NEW owed \in Nat, LedgerOK(l, owed),
         NEW x \in Amounts, CanBorrow(l, x), CanPay(l, x.assets)
  PROVE  LET m == Paid(Borrowed(l, x), x.assets)
         IN  /\ m \in Ledger /\ LedgerOK(m, owed)
             /\ m.supply = [l.supply EXCEPT !["Debt"] = @ + x.shares]
<1> DEFINE a == x.assets
           total == l.assets["Debt"] + a
           supply == l.supply["Debt"] + x.shares
           cash == l.cash - a
           m == Booked(l, "Debt", total, supply, cash)
<1>1. Paid(Borrowed(l, x), x.assets) = m
  BY DEF Booked, Paid, Borrowed, Ledger
<1>2. a \in Nat /\ total \in Nat /\ supply \in Nat /\ cash \in Nat /\ "Debt" \in AssetType
  BY LedgerFields DEF Amounts, AssetType, CanPay
<1>3. a <= l.assets["Collateral"] - l.assets["Debt"]
  <2>1. l.assets["Collateral"] \in Nat /\ l.assets["Debt"] \in Nat
    BY LedgerFields
  <2> QED
    BY <1>2, <2>1 DEF CanBorrow, Moves, LedgerLiquidity, Liquidity
<1> HIDE DEF m, total, supply, cash, a
<1>4. /\ m \in Ledger
      /\ m.assets["Debt"] = total
      /\ \A other \in AssetType \ {"Debt"} : m.assets[other] = l.assets[other]
      /\ m.supply = [l.supply EXCEPT !["Debt"] = supply]
      /\ m.cash = cash /\ m.revenue = l.revenue /\ m.surplus = l.surplus
  <2>1. IsBooked(m, l, "Debt", total, supply, cash)
    BY <1>2, <1>3, BookedFields DEF m
  <2> QED
    BY <2>1 DEF IsBooked
<1>5. LedgerOK(m, owed)
  <2> DEFINE p == l.assets["Protected"]
             c == l.assets["Collateral"]
             d == l.assets["Debt"]
             k == l.cash
             r == l.revenue
             s == l.surplus
  <2>1. /\ p \in Nat /\ c \in Nat /\ d \in Nat /\ k \in Nat /\ r \in Nat /\ s \in Nat
        /\ c <= MaxUint /\ k + owed + d = p + c + r + s /\ d <= c + r + s
    BY LedgerFields DEF LedgerOK
  <2>2. cash = k - a
    BY DEF cash
  <2>3. /\ m.assets["Debt"] = d + a /\ a <= c - d
        /\ m.assets["Protected"] = p /\ m.assets["Collateral"] = c
    BY <1>3, <1>4 DEF AssetType, total
  <2> HIDE DEF p, c, d, k, r, s
  <2>4. k - a + owed + (d + a) = p + c + r + s /\ d + a <= c + r + s
    BY <1>2, <2>1, <2>3
  <2> QED
    BY <1>4, <2>1, <2>2, <2>3, <2>4 DEF LedgerOK, r, s
<1> QED
  BY <1>1, <1>4, <1>5 DEF supply

\* SiloLendingLib.repay keeps the books.
LEMMA RepayOK ==
  ASSUME NEW l \in Ledger, NEW owed \in Nat, LedgerOK(l, owed),
         NEW x \in Amounts, CanRepay(l, x), x.shares <= l.supply["Debt"]
  PROVE  LET m == Received(Repaid(l, x), x.assets)
         IN  /\ m \in Ledger /\ LedgerOK(m, owed)
             /\ m.supply = [l.supply EXCEPT !["Debt"] = @ - x.shares]
<1> DEFINE a == x.assets
           total == l.assets["Debt"] - a
           supply == l.supply["Debt"] - x.shares
           cash == l.cash + a
           m == Booked(l, "Debt", total, supply, cash)
<1>1. Received(Repaid(l, x), x.assets) = m
  BY DEF Booked, Received, Repaid, Ledger
<1>2. a \in Nat /\ total \in Nat /\ supply \in Nat /\ cash \in Nat /\ "Debt" \in AssetType
  BY LedgerFields DEF Amounts, AssetType, CanRepay
<1>3. a <= l.assets["Debt"]
  BY DEF CanRepay
<1> HIDE DEF m, total, supply, cash, a
<1>4. /\ m \in Ledger
      /\ m.assets["Debt"] = total
      /\ \A other \in AssetType \ {"Debt"} : m.assets[other] = l.assets[other]
      /\ m.supply = [l.supply EXCEPT !["Debt"] = supply]
      /\ m.cash = cash /\ m.revenue = l.revenue /\ m.surplus = l.surplus
  <2>1. IsBooked(m, l, "Debt", total, supply, cash)
    BY <1>2, <1>3, BookedFields DEF m
  <2> QED
    BY <2>1 DEF IsBooked
<1>5. LedgerOK(m, owed)
  <2> DEFINE p == l.assets["Protected"]
             c == l.assets["Collateral"]
             d == l.assets["Debt"]
             k == l.cash
             r == l.revenue
             s == l.surplus
  <2>1. /\ p \in Nat /\ c \in Nat /\ d \in Nat /\ k \in Nat /\ r \in Nat /\ s \in Nat
        /\ c <= MaxUint /\ k + owed + d = p + c + r + s /\ d <= c + r + s
    BY LedgerFields DEF LedgerOK
  <2>2. cash = k + a
    BY DEF cash
  <2>3. /\ m.assets["Debt"] = d - a /\ a <= d
        /\ m.assets["Protected"] = p /\ m.assets["Collateral"] = c
    BY <1>3, <1>4 DEF AssetType, total
  <2> HIDE DEF p, c, d, k, r, s
  <2>4. k + a + owed + (d - a) = p + c + r + s /\ d - a <= c + r + s
    BY <1>2, <2>1, <2>3
  <2> QED
    BY <1>4, <2>1, <2>2, <2>3, <2>4 DEF LedgerOK, r, s
<1> QED
  BY <1>1, <1>4, <1>5 DEF supply

\* transitionCollateral books the same assets under the other type.
LEMMA TransitionOK ==
  ASSUME NEW l \in Ledger, NEW owed \in Nat, LedgerOK(l, owed),
         NEW from \in CollateralType, NEW to \in CollateralType \ {from},
         NEW out \in Amounts, NEW in \in Amounts, in.assets = out.assets,
         CanWithdraw(l, from, out), CanDeposit(Withdrawn(l, from, out), to, in),
         out.shares <= l.supply[from]
  PROVE  LET m == Deposited(Withdrawn(l, from, out), to, in)
         IN  /\ m \in Ledger /\ LedgerOK(m, owed)
             /\ m.supply = [l.supply EXCEPT ![from] = @ - out.shares, ![to] = @ + in.shares]
<1> DEFINE p == l.assets["Protected"]
           c == l.assets["Collateral"]
           d == l.assets["Debt"]
           k == l.cash
           r == l.revenue
           s == l.surplus
<1>1. /\ p \in Nat /\ c \in Nat /\ d \in Nat /\ k \in Nat /\ r \in Nat /\ s \in Nat
      /\ c <= MaxUint /\ k + owed + d = p + c + r + s /\ d <= c + r + s
  BY LedgerFields DEF LedgerOK
<1> DEFINE a == out.assets
           mid == Withdrawn(l, from, out)
           m == Deposited(mid, to, in)
           l1 == [l EXCEPT !.assets[from] = l.assets[from] - a]
           m1 == [mid EXCEPT !.assets[to] = mid.assets[to] + a]
<1>2. /\ a \in Nat /\ out.shares \in Nat /\ in.shares \in Nat
      /\ from \in AssetType /\ to \in AssetType
      /\ l.supply[from] \in Nat /\ l.supply[to] \in Nat
  BY LedgerFields DEF Amounts, CollateralType, AssetType
<1>3. /\ from = "Collateral" => a <= c - d
      /\ from = "Protected" => a <= p
  BY <1>1, <1>2 DEF CanWithdraw, Moves, LedgerLiquidity, Liquidity
<1>4. l.assets[from] - a \in Nat /\ l.supply[from] - out.shares \in Nat
  BY <1>1, <1>2, <1>3 DEF CollateralType
<1>5. mid \in Ledger
  <2>1. l1 \in Ledger
    BY <1>2, <1>4, LedgerUpdate
  <2>2. mid = [l1 EXCEPT !.supply[from] = l.supply[from] - out.shares]
    BY DEF Withdrawn, Ledger
  <2> HIDE DEF l1, mid
  <2> QED
    BY <1>2, <1>4, <2>1, <2>2, LedgerUpdate
<1>6. /\ mid.assets[from] = l.assets[from] - a
      /\ \A t \in AssetType \ {from} : mid.assets[t] = l.assets[t]
      /\ mid.supply = [l.supply EXCEPT ![from] = @ - out.shares]
      /\ mid.cash = l.cash /\ mid.revenue = l.revenue /\ mid.surplus = l.surplus
  BY <1>2 DEF Withdrawn, Ledger
<1> HIDE DEF mid
<1>7. m \in Ledger
  <2>1. mid.assets[to] + a \in Nat /\ mid.supply[to] + in.shares \in Nat
    BY <1>2, <1>5, LedgerFields
  <2>2. m1 \in Ledger
    BY <1>2, <1>5, <2>1, LedgerUpdate
  <2>3. m = [m1 EXCEPT !.supply[to] = mid.supply[to] + in.shares]
    BY <1>5 DEF Deposited, Ledger
  <2> HIDE DEF m1, m
  <2> QED
    BY <1>2, <2>1, <2>2, <2>3, LedgerUpdate
<1>8. /\ m.assets[to] = mid.assets[to] + a
      /\ \A t \in AssetType \ {to} : m.assets[t] = mid.assets[t]
      /\ m.supply = [mid.supply EXCEPT ![to] = @ + in.shares]
      /\ m.cash = mid.cash /\ m.revenue = mid.revenue /\ m.surplus = mid.surplus
  BY <1>2, <1>5 DEF Deposited, Ledger
<1>9. mid.assets[to] + a <= MaxUint \/ to # "Collateral"
  BY DEF CanDeposit, mid
<1> HIDE DEF m
<1>10. m.supply = [l.supply EXCEPT ![from] = @ - out.shares, ![to] = @ + in.shares]
  BY <1>6, <1>8
<1>11. ASSUME from = "Protected", to = "Collateral" PROVE LedgerOK(m, owed)
  <2>1. /\ m.assets["Protected"] = p - a /\ m.assets["Collateral"] = c + a
        /\ m.assets["Debt"] = d /\ c + a <= MaxUint
    BY <1>6, <1>8, <1>9, <1>11 DEF AssetType
  <2> HIDE DEF p, c, d, k, r, s
  <2>2. k + owed + d = p - a + (c + a) + r + s /\ d <= c + a + r + s
    BY <1>1, <1>2, <1>3
  <2> QED
    BY <1>1, <1>6, <1>8, <2>1, <2>2 DEF LedgerOK, k, r, s
<1>12. ASSUME from = "Collateral", to = "Protected" PROVE LedgerOK(m, owed)
  <2>1. /\ m.assets["Protected"] = p + a /\ m.assets["Collateral"] = c - a
        /\ m.assets["Debt"] = d
    BY <1>6, <1>8, <1>12 DEF AssetType
  <2>2. a <= c - d
    BY <1>3, <1>12
  <2> HIDE DEF p, c, d, k, r, s, a
  <2>3. k + owed + d = p + a + (c - a) + r + s /\ d <= c - a + r + s /\ c - a <= MaxUint
    BY <1>1, <1>2, <2>2, MathAssumption
  <2> QED
    BY <1>1, <1>6, <1>8, <2>1, <2>3 DEF LedgerOK, k, r, s
<1> QED
  BY <1>7, <1>10, <1>11, <1>12 DEF CollateralType, m, mid

\* withdrawFees leaves the protected deposits and the cover of the debt.
LEMMA FeesWithdrawnOK ==
  ASSUME NEW l \in Ledger, NEW owed \in Nat, LedgerOK(l, owed)
  PROVE  /\ FeesWithdrawn(l) \in Ledger /\ LedgerOK(FeesWithdrawn(l), owed)
         /\ FeesWithdrawn(l).supply = l.supply
<1> DEFINE p == l.assets["Protected"]
           c == l.assets["Collateral"]
           d == l.assets["Debt"]
           k == l.cash
           r == l.revenue
           s == l.surplus
<1>1. /\ p \in Nat /\ c \in Nat /\ d \in Nat /\ k \in Nat /\ r \in Nat /\ s \in Nat
      /\ c <= MaxUint /\ k + owed + d = p + c + r + s /\ d <= c + r + s
  BY LedgerFields DEF LedgerOK
<1> DEFINE f == FeesToWithdraw(l)
           l1 == [l EXCEPT !.cash = k - f]
           m == [l1 EXCEPT !.revenue = r - f]
<1>2. f \in Nat /\ f <= r /\ (f <= k - p \/ f = 0)
  BY <1>1 DEF FeesToWithdraw, SmallerOf, Unprotected
<1>3. FeesWithdrawn(l) = m
  BY DEF FeesWithdrawn, Paid, Ledger
<1> HIDE DEF f
<1>4. k - f \in Nat /\ r - f \in Nat
  BY <1>1, <1>2
<1>5. m \in Ledger
  BY <1>4, LedgerUpdate
<1>6. /\ m.assets = l.assets /\ m.supply = l.supply
      /\ m.cash = k - f /\ m.revenue = r - f /\ m.surplus = s
  BY DEF Ledger
<1> HIDE DEF m, p, c, d, k, r, s
<1>7. k - f + owed + d = p + c + (r - f) + s /\ d <= c + (r - f) + s
  BY <1>1, <1>2
<1> QED
  BY <1>1, <1>3, <1>5, <1>6, <1>7 DEF LedgerOK, p, c, d

\* flashLoan: what leaves, with the booked fee, is owed.
LEMMA FlashLentOK ==
  ASSUME NEW l \in Ledger, NEW owed \in Nat, LedgerOK(l, owed),
         NEW amount \in Nat, CanFlashLoan(l, amount)
  PROVE  /\ FlashLent(l, amount) \in Ledger
         /\ LedgerOK(FlashLent(l, amount), owed + (amount + FlashFee(amount, FlashloanFee)))
         /\ FlashLent(l, amount).supply = l.supply
<1> DEFINE p == l.assets["Protected"]
           c == l.assets["Collateral"]
           d == l.assets["Debt"]
           k == l.cash
           r == l.revenue
           s == l.surplus
<1>1. /\ p \in Nat /\ c \in Nat /\ d \in Nat /\ k \in Nat /\ r \in Nat /\ s \in Nat
      /\ c <= MaxUint /\ k + owed + d = p + c + r + s /\ d <= c + r + s
  BY LedgerFields DEF LedgerOK
<1> DEFINE f == FlashFee(amount, FlashloanFee)
           l1 == [l EXCEPT !.cash = k - amount]
           m == [l1 EXCEPT !.revenue = r + f]
<1>2. f \in Nat /\ amount <= k
  BY <1>1, FlashFeeNat DEF CanFlashLoan, Unprotected
<1>3. FlashLent(l, amount) = m
  BY DEF FlashLent, Paid, Ledger
<1> HIDE DEF f
<1>4. k - amount \in Nat /\ r + f \in Nat
  BY <1>1, <1>2
<1>5. m \in Ledger
  BY <1>4, LedgerUpdate
<1>6. /\ m.assets = l.assets /\ m.supply = l.supply
      /\ m.cash = k - amount /\ m.revenue = r + f /\ m.surplus = s
  BY DEF Ledger
<1> HIDE DEF m, p, c, d, k, r, s
<1>7. k - amount + (owed + (amount + f)) + d = p + c + (r + f) + s /\ d <= c + (r + f) + s
  BY <1>1, <1>2
<1> QED
  BY <1>1, <1>3, <1>5, <1>6, <1>7 DEF LedgerOK, p, c, d, f

\* The end of a flash loan brings back what was owed.
LEMMA ReturnedOK ==
  ASSUME NEW l \in Ledger, NEW owed \in Nat, NEW amount \in Nat, LedgerOK(l, owed + amount)
  PROVE  /\ Received(l, amount) \in Ledger /\ LedgerOK(Received(l, amount), owed)
         /\ Received(l, amount).supply = l.supply
<1> DEFINE m == [l EXCEPT !.cash = l.cash + amount]
<1>1. Received(l, amount) = m
  BY DEF Received
<1>2. m \in Ledger
  <2>1. l.cash + amount \in Nat
    BY LedgerFields
  <2> QED
    BY <2>1, LedgerUpdate
<1>3. m.assets = l.assets /\ m.supply = l.supply /\ m.cash = l.cash + amount
      /\ m.revenue = l.revenue /\ m.surplus = l.surplus
  BY DEF Ledger
<1> HIDE DEF m
<1>4. l.cash + (owed + amount) + l.assets["Debt"] = l.cash + amount + owed + l.assets["Debt"]
  BY LedgerFields
<1> QED
  BY <1>1, <1>2, <1>3, <1>4 DEF LedgerOK

\* Tokens nobody books go to the surplus.
LEMMA DonatedOK ==
  ASSUME NEW l \in Ledger, NEW owed \in Nat, LedgerOK(l, owed), NEW amount \in Nat
  PROVE  /\ Donated(l, amount) \in Ledger /\ LedgerOK(Donated(l, amount), owed)
         /\ Donated(l, amount).supply = l.supply
<1> DEFINE p == l.assets["Protected"]
           c == l.assets["Collateral"]
           d == l.assets["Debt"]
           k == l.cash
           r == l.revenue
           s == l.surplus
<1>1. /\ p \in Nat /\ c \in Nat /\ d \in Nat /\ k \in Nat /\ r \in Nat /\ s \in Nat
      /\ c <= MaxUint /\ k + owed + d = p + c + r + s /\ d <= c + r + s
  BY LedgerFields DEF LedgerOK
<1> DEFINE l1 == [l EXCEPT !.cash = k + amount]
           m == [l1 EXCEPT !.surplus = s + amount]
<1>2. Donated(l, amount) = m
  BY DEF Donated, Received, Ledger
<1>3. m \in Ledger
  <2>1. k + amount \in Nat /\ s + amount \in Nat
    BY <1>1
  <2>2. l1 \in Ledger
    BY <2>1, LedgerUpdate
  <2> HIDE DEF l1, s
  <2> QED
    BY <2>1, <2>2, LedgerUpdate
<1>4. /\ m.assets = l.assets /\ m.supply = l.supply
      /\ m.cash = k + amount /\ m.revenue = r /\ m.surplus = s + amount
  BY DEF Ledger
<1> HIDE DEF m, p, c, d, k, r, s
<1>5. k + amount + owed + d = p + c + r + (s + amount) /\ d <= c + r + (s + amount)
  BY <1>1
<1> QED
  BY <1>1, <1>2, <1>3, <1>4, <1>5 DEF LedgerOK, p, c, d

\* The clock takes no part in the books.
LEMMA ClockOK ==
  ASSUME NEW l \in Ledger, NEW owed \in Nat, LedgerOK(l, owed), NEW clock \in Clock
  PROVE  /\ [l EXCEPT !.clock = clock] \in Ledger
         /\ LedgerOK([l EXCEPT !.clock = clock], owed)
         /\ [l EXCEPT !.clock = clock].supply = l.supply
BY DEF Ledger, LedgerOK

\* Outside of flash loans the books fund the liquidity they promise.
LEMMA LedgerFunded ==
  ASSUME NEW l \in Ledger, LedgerOK(l, 0)
  PROVE  /\ l.assets["Protected"] <= l.cash
         /\ LedgerLiquidity(l) <= Liquidity(l.cash, l.assets["Protected"] + l.revenue)
<1> DEFINE owed == 0
<1> DEFINE p == l.assets["Protected"]
           c == l.assets["Collateral"]
           d == l.assets["Debt"]
           k == l.cash
           r == l.revenue
           s == l.surplus
<1>1. /\ p \in Nat /\ c \in Nat /\ d \in Nat /\ k \in Nat /\ r \in Nat /\ s \in Nat
      /\ c <= MaxUint /\ k + owed + d = p + c + r + s /\ d <= c + r + s
  BY LedgerFields DEF LedgerOK
<1> HIDE DEF p, c, d, k, r, s
<1>2. p <= k
  BY <1>1
<1>3. Liquidity(c, d) <= Liquidity(k, p + r)
  BY <1>1, <1>2 DEF Liquidity
<1> QED
  BY <1>2, <1>3 DEF LedgerLiquidity, p, c, d, k, r

-----------------------------------------------------------------------------
(* Sums of the balances of a share token, characterised by what one holder *)
(* more adds to them.                                                      *)

IsSum(sum, b) ==
  /\ sum \in [SUBSET Users -> Nat]
  /\ sum[{}] = 0
  /\ \A S \in SUBSET Users, u \in Users : u \notin S => sum[S \cup {u}] = sum[S] + b[u]

\* The balances b of a share token add up to its supply n.
AddsUpTo(b, n) == \E sum : IsSum(sum, b) /\ sum[Users] = n

\* Without shares the balances add up to nothing.
LEMMA NobodyAddsUp == AddsUpTo([u \in Users |-> 0], 0)
<1> DEFINE sum == [S \in SUBSET Users |-> 0]
<1>1. IsSum(sum, [u \in Users |-> 0]) /\ sum[Users] = 0
  BY DEF IsSum
<1> QED
  BY <1>1 DEF AddsUpTo

\* Nobody holds more shares than there are.
LEMMA BalanceBound ==
  ASSUME NEW b \in [Users -> Nat], NEW n, AddsUpTo(b, n), NEW u \in Users
  PROVE  n \in Nat /\ b[u] <= n
<1>1. PICK sum : IsSum(sum, b) /\ sum[Users] = n
  BY DEF AddsUpTo
<1>2. (Users \ {u}) \cup {u} = Users
  OBVIOUS
<1>3. sum[(Users \ {u}) \cup {u}] = sum[Users \ {u}] + b[u]
  BY <1>1 DEF IsSum
<1>4. sum[Users \ {u}] \in Nat /\ sum[Users] \in Nat
  BY <1>1 DEF IsSum
<1> QED
  BY <1>1, <1>2, <1>3, <1>4

\* Shares are minted to one holder.
LEMMA AddUp ==
  ASSUME NEW b \in [Users -> Nat], NEW n \in Nat, AddsUpTo(b, n), NEW u \in Users, NEW k \in Nat
  PROVE  AddsUpTo([b EXCEPT ![u] = @ + k], n + k)
<1>1. PICK sum : IsSum(sum, b) /\ sum[Users] = n
  BY DEF AddsUpTo
<1> DEFINE more == [S \in SUBSET Users |-> IF u \in S THEN sum[S] + k ELSE sum[S]]
           c == [b EXCEPT ![u] = @ + k]
<1>2. more \in [SUBSET Users -> Nat]
  BY <1>1 DEF IsSum
<1>3. more[{}] = 0
  BY <1>1 DEF IsSum
<1>4. ASSUME NEW S \in SUBSET Users, NEW v \in Users, v \notin S
      PROVE  more[S \cup {v}] = more[S] + c[v]
  <2>1. S \cup {v} \in SUBSET Users /\ sum[S \cup {v}] = sum[S] + b[v]
    BY <1>1, <1>4 DEF IsSum
  <2>2. sum[S] \in Nat /\ b[v] \in Nat
    BY <1>1 DEF IsSum
  <2>3. CASE u = v
    <3>1. more[S \cup {v}] = sum[S] + b[v] + k /\ more[S] = sum[S] /\ c[v] = b[v] + k
      BY <1>4, <2>1, <2>3
    <3> QED
      BY <2>2, <3>1
  <2>4. CASE u # v
    <3>1. c[v] = b[v] /\ (u \in S \cup {v} <=> u \in S)
      BY <2>4
    <3> QED
      BY <2>1, <2>2, <3>1
  <2> QED
    BY <2>3, <2>4
<1>5. more[Users] = n + k
  BY <1>1
<1> QED
  BY <1>2, <1>3, <1>4, <1>5 DEF AddsUpTo, IsSum

\* Shares are burned from one holder, who has them.
LEMMA AddDown ==
  ASSUME NEW b \in [Users -> Nat], NEW n \in Nat, AddsUpTo(b, n), NEW u \in Users,
         NEW k \in Nat, k <= b[u]
  PROVE  AddsUpTo([b EXCEPT ![u] = @ - k], n - k)
<1>1. PICK sum : IsSum(sum, b) /\ sum[Users] = n
  BY DEF AddsUpTo
<1> DEFINE less == [S \in SUBSET Users |-> IF u \in S THEN sum[S] - k ELSE sum[S]]
           c == [b EXCEPT ![u] = @ - k]
<1>2. ASSUME NEW S \in SUBSET Users PROVE sum[S] \in Nat /\ (u \in S => sum[S] >= b[u])
  <2>1. sum[S] \in Nat /\ sum[S \ {u}] \in Nat
    BY <1>1 DEF IsSum
  <2>2. sum[(S \ {u}) \cup {u}] = sum[S \ {u}] + b[u]
    BY <1>1 DEF IsSum
  <2>3. u \in S => (S \ {u}) \cup {u} = S
    OBVIOUS
  <2> QED
    BY <2>1, <2>2, <2>3
<1>3. less \in [SUBSET Users -> Nat]
  BY <1>2
<1>4. less[{}] = 0
  BY <1>1 DEF IsSum
<1>5. ASSUME NEW S \in SUBSET Users, NEW v \in Users, v \notin S
      PROVE  less[S \cup {v}] = less[S] + c[v]
  <2>1. S \cup {v} \in SUBSET Users /\ sum[S \cup {v}] = sum[S] + b[v]
    BY <1>1, <1>5 DEF IsSum
  <2>2. sum[S] \in Nat /\ b[v] \in Nat
    BY <1>2
  <2>3. CASE u = v
    <3>1. less[S \cup {v}] = sum[S \cup {v}] - k /\ less[S] = sum[S]
      BY <1>5, <2>1, <2>3
    <3>2. c[v] = b[v] - k
      BY <2>3
    <3> QED
      BY <2>1, <2>2, <3>1, <3>2
  <2>4. CASE u # v
    <3>1. c[v] = b[v] /\ (u \in S \cup {v} <=> u \in S)
      BY <2>4
    <3> QED
      BY <2>1, <2>2, <3>1
  <2> QED
    BY <2>3, <2>4
<1>6. less[Users] = n - k
  BY <1>1
<1> QED
  BY <1>3, <1>4, <1>5, <1>6 DEF AddsUpTo, IsSum

-----------------------------------------------------------------------------
(* Every function has a sum, and Total is the one.                         *)

\* Of finitely many subsets one has no other below it.
LEMMA MinimalSubset ==
  ASSUME NEW S, IsFiniteSet(S), NEW Bad, Bad \subseteq SUBSET S, Bad # {}
  PROVE  \E T \in Bad : \A U \in Bad : U \subseteq T => U = T
<1>1. IsWellFoundedOn(StrictSubsetOrdering(S), SUBSET S)
  BY FS_StrictSubsetOrderingWellFounded, FS_FiniteSubsetsOfFinite
<1>2. PICK T \in Bad : \A U \in Bad : <<U, T>> \notin StrictSubsetOrdering(S)
  BY <1>1, WFMin
<1>3. ASSUME NEW U \in Bad, U \subseteq T PROVE U = T
  BY <1>2, <1>3 DEF StrictSubsetOrdering
<1> QED
  BY <1>2, <1>3

\* Induction over the subsets of a finite set, for a set F of them: what the
\* proofs below use instead of a theorem with an operator as parameter.
LEMMA SubsetInduction ==
  ASSUME NEW S, IsFiniteSet(S), NEW F, {} \in F,
         \A T \in F \cap SUBSET S, x \in S : x \notin T => T \cup {x} \in F
  PROVE  SUBSET S \subseteq F
<1> DEFINE Bad == (SUBSET S) \ F
<1> SUFFICES ASSUME Bad # {} PROVE FALSE
  OBVIOUS
<1>1. PICK T \in Bad : \A U \in Bad : U \subseteq T => U = T
  <2>1. Bad \subseteq SUBSET S
    OBVIOUS
  <2> HIDE DEF Bad
  <2> QED
    BY <2>1, MinimalSubset
<1>2. PICK x : x \in T
  OBVIOUS
<1>3. T \ {x} \in F
  BY <1>1, <1>2
<1>4. (T \ {x}) \cup {x} \in F /\ (T \ {x}) \cup {x} = T
  BY <1>2, <1>3
<1> QED
  BY <1>4

\* The sum is built one holder at a time.
LEMMA SumExists ==
  ASSUME NEW b \in [Users -> Nat]
  PROVE  \E sum : IsSum(sum, b)
<1> DEFINE SumOn(sum, T) ==
             /\ sum \in [SUBSET T -> Nat] /\ sum[{}] = 0
             /\ \A S \in SUBSET T, u \in T : u \notin S => sum[S \cup {u}] = sum[S] + b[u]
           F == {T \in SUBSET Users : \E sum : SumOn(sum, T)}
<1>1. {} \in F
  <2>1. SumOn([S \in SUBSET {} |-> 0], {})
    OBVIOUS
  <2> QED
    BY <2>1
<1>2. ASSUME NEW T \in F, NEW x \in Users, x \notin T PROVE T \cup {x} \in F
  <2>1. PICK sum : SumOn(sum, T)
    OBVIOUS
  <2> DEFINE more == [S \in SUBSET (T \cup {x}) |->
                        IF x \in S THEN sum[S \ {x}] + b[x] ELSE sum[S]]
  <2>2. ASSUME NEW S \in SUBSET (T \cup {x}) PROVE S \ {x} \in SUBSET T /\ (x \notin S => S \in SUBSET T)
    OBVIOUS
  <2>3. more \in [SUBSET (T \cup {x}) -> Nat] /\ more[{}] = 0
    BY <2>1, <2>2
  <2>4. ASSUME NEW S \in SUBSET (T \cup {x}), NEW u \in T \cup {x}, u \notin S
        PROVE  more[S \cup {u}] = more[S] + b[u]
    <3>0. S \cup {u} \in SUBSET (T \cup {x})
      OBVIOUS
    <3>1. CASE u = x
      <4>1. (S \cup {u}) \ {x} = S /\ x \notin S /\ x \in S \cup {u}
        BY <2>4, <3>1
      <4> QED
        BY <3>0, <3>1, <4>1
    <3>2. CASE u # x
      <4>1. u \in T /\ (x \in S \cup {u} <=> x \in S)
        BY <3>2
      <4>2. CASE x \in S
        <5>1. (S \cup {u}) \ {x} = (S \ {x}) \cup {u} /\ u \notin S \ {x}
          BY <2>4, <3>2
        <5>2. sum[(S \ {x}) \cup {u}] = sum[S \ {x}] + b[u]
          BY <2>1, <2>2, <4>1, <5>1
        <5>3. sum[S \ {x}] \in Nat /\ b[x] \in Nat /\ b[u] \in Nat
          BY <2>1, <2>2, <4>1
        <5>4. more[S \cup {u}] = sum[(S \cup {u}) \ {x}] + b[x] /\ more[S] = sum[S \ {x}] + b[x]
          BY <3>0, <4>1, <4>2
        <5>5. more[S \cup {u}] = (sum[S \ {x}] + b[u]) + b[x]
          BY <5>1, <5>2, <5>4
        <5> HIDE DEF more
        <5> QED
          BY <5>3, <5>4, <5>5
      <4>3. CASE x \notin S
        BY <2>1, <2>2, <2>4, <3>0, <4>1, <4>3
      <4> QED
        BY <4>2, <4>3
    <3> QED
      BY <3>1, <3>2
  <2>5. SumOn(more, T \cup {x})
    <3> HIDE DEF more
    <3> QED
      BY <2>3, <2>4
  <2>6. T \cup {x} \in SUBSET Users
    OBVIOUS
  <2> HIDE DEF more, SumOn
  <2> QED
    BY <2>5, <2>6
<1>3. Users \in F
  <2> HIDE DEF F
  <2> QED
    BY <1>1, <1>2, SubsetInduction, MarketAssumption
<1> QED
  BY <1>3 DEF IsSum

Chosen(S) == CHOOSE u \in S : TRUE

\* The equation by which the fold in Total is defined.
Iteration(sum, b) ==
  sum = [S \in SUBSET Users |-> IF S = {} THEN 0 ELSE b[Chosen(S)] + sum[S \ {Chosen(S)}]]

\* The fold over the users is a function on their subsets that adds one at a time,
LEMMA TotalIteration ==
  ASSUME NEW b
  PROVE  Total(b) = (CHOOSE sum : Iteration(sum, b))[Users]
BY DEF Total, MapThenSumSet, MapThenFoldSet, Iteration, Chosen

\* It determines the fold, however the holders are chosen.
LEMMA IterationUnique ==
  ASSUME NEW b, NEW g, NEW h, Iteration(g, b), Iteration(h, b)
  PROVE  g = h
<1> DEFINE Bad == {T \in SUBSET Users : g[T] # h[T]}
<1>1. Bad = {}
  <2> SUFFICES ASSUME Bad # {} PROVE FALSE
    OBVIOUS
  <2>1. PICK T \in Bad : \A U \in Bad : U \subseteq T => U = T
    <3>1. Bad \subseteq SUBSET Users
      OBVIOUS
    <3> HIDE DEF Bad
    <3> QED
      BY <3>1, MinimalSubset, MarketAssumption
  <2>2. T # {}
    BY DEF Iteration
  <2> DEFINE y == Chosen(T)
  <2>3. y \in T
    BY <2>2 DEF Chosen
  <2>4. g[T] = b[y] + g[T \ {y}] /\ h[T] = b[y] + h[T \ {y}]
    BY <2>2 DEF Iteration
  <2>5. g[T \ {y}] = h[T \ {y}]
    <3>1. T \ {y} \in SUBSET Users /\ T \ {y} \subseteq T /\ T \ {y} # T
      BY <2>3
    <3> HIDE DEF y
    <3> QED
      BY <2>1, <3>1
  <2> QED
    BY <2>4, <2>5
<1> QED
  BY <1>1 DEF Iteration

\* A sum satisfies the equation.
LEMMA SumIterates ==
  ASSUME NEW b \in [Users -> Nat], NEW sum, IsSum(sum, b)
  PROVE  Iteration(sum, b)
<1>1. ASSUME NEW S \in SUBSET Users, S # {}
      PROVE  sum[S] = b[Chosen(S)] + sum[S \ {Chosen(S)}]
  <2> DEFINE y == Chosen(S)
  <2>1. y \in S
    BY <1>1 DEF Chosen
  <2>2. (S \ {y}) \cup {y} = S /\ S \ {y} \in SUBSET Users /\ y \in Users /\ y \notin S \ {y}
    BY <2>1
  <2> HIDE DEF y
  <2>3. sum[(S \ {y}) \cup {y}] = sum[S \ {y}] + b[y]
    BY <2>2 DEF IsSum
  <2>4. sum[S \ {y}] \in Nat /\ b[y] \in Nat
    BY <2>2 DEF IsSum
  <2>5. sum[S] = sum[S \ {y}] + b[y]
    BY <2>2, <2>3
  <2>6. sum[S] = b[y] + sum[S \ {y}]
    BY <2>4, <2>5
  <2> QED
    BY <2>6 DEF y
<1> DEFINE other == [S \in SUBSET Users |-> IF S = {} THEN 0 ELSE b[Chosen(S)] + sum[S \ {Chosen(S)}]]
<1>2. sum = other
  <2>1. \A S \in SUBSET Users : sum[S] = other[S]
    BY <1>1 DEF IsSum
  <2> HIDE DEF other
  <2>2. sum = [S \in SUBSET Users |-> sum[S]]
    BY DEF IsSum
  <2>3. other = [S \in SUBSET Users |-> other[S]]
    BY DEF other
  <2> QED
    BY <2>1, <2>2, <2>3
<1> QED
  BY <1>2 DEF Iteration

\* The fold is the sum.
LEMMA TotalIsSum ==
  ASSUME NEW b \in [Users -> Nat], NEW sum, IsSum(sum, b)
  PROVE  Total(b) = sum[Users]
<1>1. Iteration(sum, b)
  BY SumIterates
<1>2. Iteration(CHOOSE g : Iteration(g, b), b)
  BY <1>1
<1>3. (CHOOSE g : Iteration(g, b)) = sum
  BY <1>1, <1>2, IterationUnique
<1> QED
  BY <1>3, TotalIteration

\* ... of which there is only one.
LEMMA TotalOfSupply ==
  ASSUME NEW b \in [Users -> Nat], NEW n, AddsUpTo(b, n)
  PROVE  Total(b) = n
BY TotalIsSum DEF AddsUpTo

\* What is rounded down for each holder adds up to no more than the whole: if each c
\* is at most the p/q-th part of b, their sums are.
LEMMA TotalOfParts ==
  ASSUME NEW b \in [Users -> Nat], NEW n \in Nat, AddsUpTo(b, n),
         NEW c \in [Users -> Nat], NEW p \in Nat, NEW q \in Nat,
         \A u \in Users : c[u] * q <= b[u] * p
  PROVE  Total(c) \in Nat /\ Total(c) * q <= n * p
<1>1. PICK whole : IsSum(whole, b) /\ whole[Users] = n
  BY DEF AddsUpTo
<1>2. PICK parts : IsSum(parts, c)
  BY SumExists
<1> DEFINE F == {S \in SUBSET Users : parts[S] * q <= whole[S] * p}
<1>3. {} \in F
  BY <1>1, <1>2 DEF IsSum
<1>4. ASSUME NEW S \in F, NEW u \in Users, u \notin S PROVE S \cup {u} \in F
  <2>1. parts[S \cup {u}] = parts[S] + c[u] /\ whole[S \cup {u}] = whole[S] + b[u]
    BY <1>1, <1>2, <1>4 DEF IsSum
  <2>2. parts[S] \in Nat /\ whole[S] \in Nat /\ c[u] \in Nat /\ b[u] \in Nat
    BY <1>1, <1>2 DEF IsSum
  <2>3. parts[S] * q <= whole[S] * p /\ c[u] * q <= b[u] * p
    OBVIOUS
  <2>4. \A v, w, x, y \in Nat : v * q <= w * p /\ x * q <= y * p => (v + x) * q <= (w + y) * p
    OBVIOUS
  <2>5. parts[S \cup {u}] * q <= whole[S \cup {u}] * p
    BY <2>1, <2>2, <2>3, <2>4
  <2> QED
    BY <2>5
<1>5. Users \in F
  <2> HIDE DEF F
  <2> QED
    BY <1>3, <1>4, SubsetInduction, MarketAssumption
<1>6. Total(c) = parts[Users] /\ parts[Users] \in Nat
  <2>1. Total(c) = parts[Users]
    BY <1>2, TotalIsSum
  <2>2. parts[Users] \in Nat
    BY <1>2 DEF IsSum
  <2> QED
    BY <2>1, <2>2
<1> QED
  BY <1>1, <1>5, <1>6

-----------------------------------------------------------------------------
(* All the share tokens of a market.                                       *)

Balances == [Silos -> [AssetType -> [Users -> Nat]]]
Supplies == [Silos -> [AssetType -> Nat]]

SharesOK(bal, sup) ==
  \A s \in Silos, t \in AssetType : AddsUpTo(bal[s][t], sup[s][t])

\* ShareToken._update for a mint: balance and supply grow together.
LEMMA MintOK ==
  ASSUME NEW bal \in Balances, NEW sup \in Supplies, SharesOK(bal, sup),
         NEW s \in Silos, NEW t \in AssetType, NEW u \in Users, NEW k \in Nat,
         NEW sup2 \in Supplies, sup2[s][t] = sup[s][t] + k,
         \A s2 \in Silos, t2 \in AssetType : <<s2, t2>> # <<s, t>> => sup2[s2][t2] = sup[s2][t2]
  PROVE  Minted(bal, s, t, u, k) \in Balances /\ SharesOK(Minted(bal, s, t, u, k), sup2)
<1> DEFINE bal2 == Minted(bal, s, t, u, k)
<1>1. bal2 \in Balances
  BY DEF Minted, Balances
<1>2. bal2[s][t] = [bal[s][t] EXCEPT ![u] = @ + k]
  BY DEF Minted, Balances
<1>3. ASSUME NEW s2 \in Silos, NEW t2 \in AssetType, <<s2, t2>> # <<s, t>>
      PROVE  bal2[s2][t2] = bal[s2][t2]
  BY <1>3 DEF Minted, Balances
<1>4. bal[s][t] \in [Users -> Nat] /\ sup[s][t] \in Nat /\ AddsUpTo(bal[s][t], sup[s][t])
  BY DEF Balances, Supplies, SharesOK
<1> HIDE DEF bal2
<1>5. AddsUpTo(bal2[s][t], sup2[s][t])
  BY <1>2, <1>4, AddUp
<1>6. ASSUME NEW s2 \in Silos, NEW t2 \in AssetType PROVE AddsUpTo(bal2[s2][t2], sup2[s2][t2])
  BY <1>3, <1>5 DEF SharesOK
<1> QED
  BY <1>1, <1>6 DEF SharesOK, bal2

\* ShareToken._update for a burn
LEMMA BurnOK ==
  ASSUME NEW bal \in Balances, NEW sup \in Supplies, SharesOK(bal, sup),
         NEW s \in Silos, NEW t \in AssetType, NEW u \in Users, NEW k \in Nat,
         k <= bal[s][t][u],
         NEW sup2 \in Supplies, sup2[s][t] = sup[s][t] - k,
         \A s2 \in Silos, t2 \in AssetType : <<s2, t2>> # <<s, t>> => sup2[s2][t2] = sup[s2][t2]
  PROVE  Burned(bal, s, t, u, k) \in Balances /\ SharesOK(Burned(bal, s, t, u, k), sup2)
<1> DEFINE bal2 == Burned(bal, s, t, u, k)
<1>1. bal2 \in Balances
  <2>1. bal[s][t][u] - k \in Nat
    BY DEF Balances
  <2> QED
    BY <2>1 DEF Burned, Balances
<1>2. bal2[s][t] = [bal[s][t] EXCEPT ![u] = @ - k]
  BY DEF Burned, Balances
<1>3. ASSUME NEW s2 \in Silos, NEW t2 \in AssetType, <<s2, t2>> # <<s, t>>
      PROVE  bal2[s2][t2] = bal[s2][t2]
  BY <1>3 DEF Burned, Balances
<1>4. bal[s][t] \in [Users -> Nat] /\ sup[s][t] \in Nat /\ AddsUpTo(bal[s][t], sup[s][t])
  BY DEF Balances, Supplies, SharesOK
<1> HIDE DEF bal2
<1>5. AddsUpTo(bal2[s][t], sup2[s][t])
  BY <1>2, <1>4, AddDown
<1>6. ASSUME NEW s2 \in Silos, NEW t2 \in AssetType PROVE AddsUpTo(bal2[s2][t2], sup2[s2][t2])
  BY <1>3, <1>5 DEF SharesOK
<1> QED
  BY <1>1, <1>6 DEF SharesOK, bal2

\* ShareToken._update for a transfer, also to oneself: the supply stays.
LEMMA TransferOK ==
  ASSUME NEW bal \in Balances, NEW sup \in Supplies, SharesOK(bal, sup),
         NEW s \in Silos, NEW t \in AssetType, NEW u \in Users, NEW v \in Users,
         NEW k \in Nat, k <= bal[s][t][u]
  PROVE  /\ Minted(Burned(bal, s, t, u, k), s, t, v, k) \in Balances
         /\ SharesOK(Minted(Burned(bal, s, t, u, k), s, t, v, k), sup)
<1> DEFINE mid == Burned(bal, s, t, u, k)
           sup1 == [sup EXCEPT ![s][t] = @ - k]
<1>1. k <= sup[s][t] /\ sup[s][t] \in Nat
  <2>1. bal[s][t] \in [Users -> Nat] /\ AddsUpTo(bal[s][t], sup[s][t])
    BY DEF Balances, SharesOK
  <2>2. sup[s][t] \in Nat /\ bal[s][t][u] <= sup[s][t] /\ bal[s][t][u] \in Nat
    BY <2>1, BalanceBound
  <2> QED
    BY <2>2
<1>2. sup1 \in Supplies
  BY <1>1 DEF Supplies
<1>3. /\ sup1[s][t] = sup[s][t] - k
      /\ \A s2 \in Silos, t2 \in AssetType : <<s2, t2>> # <<s, t>> => sup1[s2][t2] = sup[s2][t2]
  BY DEF Supplies
<1> HIDE DEF mid, sup1
<1>4. mid \in Balances /\ SharesOK(mid, sup1)
  BY <1>2, <1>3, BurnOK DEF mid
<1>5. /\ sup[s][t] = sup1[s][t] + k
      /\ \A s2 \in Silos, t2 \in AssetType : <<s2, t2>> # <<s, t>> => sup[s2][t2] = sup1[s2][t2]
  BY <1>1, <1>3
<1> QED
  BY <1>2, <1>4, <1>5, MintOK DEF mid

-----------------------------------------------------------------------------
(* The market.                                                             *)

SuppliesOf(l) == [s \in Silos |-> l[s].supply]

\* Each flash loan records what was owed below it on the call stack.
StackOK ==
  \A i \in 1 .. Len(loans), s \in Silos :
    loans[i].owed[s] =
      (IF i = 1 THEN 0 ELSE loans[i - 1].owed[s])
        + (IF s = loans[i].silo THEN loans[i].amount + loans[i].fee ELSE 0)

LedgersOK ==
  /\ ledger \in [Silos -> Ledger]
  /\ \A s \in Silos : LedgerOK(ledger[s], Owed(s))

TokensOK ==
  /\ balance \in Balances
  /\ SharesOK(balance, SuppliesOf(ledger))

LoansOK ==
  /\ loans \in Seq(FlashLoan)
  /\ StackOK

OthersOK ==
  /\ collateralSilo \in [Users -> Silos \cup {NoSilo}]
  /\ price \in [Silos -> Nat \ {0}]
  /\ blocks \in 0 .. MaxBlocks

\* The inductive invariant.
IInv == LedgersOK /\ TokensOK /\ LoansOK /\ OthersOK

-----------------------------------------------------------------------------

\* What flash loans owe to a Silo is a natural number.
LEMMA OwedNat ==
  ASSUME loans \in Seq(FlashLoan), NEW s \in Silos
  PROVE  Owed(s) \in Nat
<1>1. CASE loans = <<>>
  BY <1>1 DEF Owed
<1>2. CASE loans # <<>>
  <2>1. loans[Len(loans)] \in FlashLoan
    BY <1>2
  <2> QED
    BY <1>2, <2>1 DEF Owed, FlashLoan
<1> QED
  BY <1>1, <1>2

\* Oracles quote positive prices.
LEMMA QuotesType ==
  ASSUME NEW p \in Quotes
  PROVE  p \in [Silos -> Nat \ {0}]
BY MarketAssumption DEF Quotes

\* What callers ask for are amounts.
LEMMA InputsAmounts ==
  ASSUME NEW s \in Silos, NEW in \in Inputs(s)
  PROVE  in \in Amounts
BY MarketAssumption DEF Inputs, Amounts

\* A step that leaves the flash loans alone and writes the ledger of Silo s,
\* after interest was accrued or not, keeps the books.
LEMMA LedgerStep ==
  ASSUME LedgersOK, UNCHANGED loans,
         NEW l \in [Silos -> Ledger],
         \A t \in Silos : LedgerOK(l[t], Owed(t)) /\ l[t].supply = ledger[t].supply,
         NEW s \in Silos, NEW m \in Ledger, LedgerOK(m, Owed(s)),
         ledger' = [l EXCEPT ![s] = m]
  PROVE  /\ LedgersOK'
         /\ SuppliesOf(ledger) \in Supplies
         /\ SuppliesOf(ledger') \in Supplies
         /\ SuppliesOf(ledger')[s] = m.supply
         /\ \A t \in Silos : t # s => SuppliesOf(ledger')[t] = SuppliesOf(ledger)[t]
<1>1. ledger' \in [Silos -> Ledger]
  OBVIOUS
<1>2. \A t \in Silos : Owed(t)' = Owed(t)
  BY DEF Owed
<1>3. LedgersOK'
  BY <1>1, <1>2 DEF LedgersOK
<1>4. ASSUME NEW k \in [Silos -> Ledger] PROVE SuppliesOf(k) \in Supplies
  BY DEF SuppliesOf, Supplies, Ledger
<1>5. SuppliesOf(ledger) \in Supplies /\ SuppliesOf(ledger') \in Supplies
  BY <1>1, <1>4 DEF LedgersOK
<1>6. SuppliesOf(ledger')[s] = m.supply
  BY DEF SuppliesOf
<1>7. ASSUME NEW t \in Silos, t # s PROVE SuppliesOf(ledger')[t] = SuppliesOf(ledger)[t]
  BY <1>7 DEF SuppliesOf
<1> QED
  BY <1>3, <1>5, <1>6, <1>7

\* Accruing the interest of a Silo keeps its books.
LEMMA AccruedOK ==
  ASSUME LedgersOK, LoansOK, NEW s \in Silos, NEW rcomp \in Nat
  PROVE  /\ AccrueInterest(ledger[s], rcomp) \in Ledger
         /\ LedgerOK(AccrueInterest(ledger[s], rcomp), Owed(s))
         /\ AccrueInterest(ledger[s], rcomp).supply = ledger[s].supply
<1>1. ledger[s] \in Ledger /\ LedgerOK(ledger[s], Owed(s))
  BY DEF LedgersOK
<1>2. Owed(s) \in Nat
  BY OwedNat DEF LoansOK
<1> QED
  BY <1>1, <1>2, AccrueInterestOK

\* accrueInterestForBothSilos keeps the books of both.
LEMMA BothAccruedOK ==
  ASSUME LedgersOK, LoansOK, NEW rcomp \in [Silos -> Nat]
  PROVE  /\ BothAccrued(rcomp) \in [Silos -> Ledger]
         /\ \A t \in Silos : /\ LedgerOK(BothAccrued(rcomp)[t], Owed(t))
                             /\ BothAccrued(rcomp)[t].supply = ledger[t].supply
<1>1. \A t \in Silos : rcomp[t] \in Nat
  OBVIOUS
<1> QED
  BY <1>1, AccruedOK DEF BothAccrued

\* A step that mints shares of one type to one user along with the ledger.
LEMMA MintStep ==
  ASSUME LedgersOK, TokensOK, UNCHANGED loans,
         NEW l \in [Silos -> Ledger],
         \A t \in Silos : LedgerOK(l[t], Owed(t)) /\ l[t].supply = ledger[t].supply,
         NEW s \in Silos, NEW m \in Ledger, LedgerOK(m, Owed(s)),
         ledger' = [l EXCEPT ![s] = m],
         NEW type \in AssetType, NEW u \in Users, NEW k \in Nat,
         m.supply = [l[s].supply EXCEPT ![type] = @ + k],
         balance' = Minted(balance, s, type, u, k)
  PROVE  LedgersOK' /\ TokensOK'
<1>1. /\ LedgersOK'
      /\ SuppliesOf(ledger) \in Supplies
      /\ SuppliesOf(ledger') \in Supplies
      /\ SuppliesOf(ledger')[s] = m.supply
      /\ \A t \in Silos : t # s => SuppliesOf(ledger')[t] = SuppliesOf(ledger)[t]
  BY LedgerStep
<1> DEFINE sup == SuppliesOf(ledger)
           sup2 == SuppliesOf(ledger')
<1>2. sup[s] \in [AssetType -> Nat] /\ sup[s] = l[s].supply
  BY <1>1 DEF SuppliesOf, Supplies
<1>3. sup2[s] = [sup[s] EXCEPT ![type] = @ + k]
  BY <1>1, <1>2
<1> HIDE DEF sup, sup2
<1>4. /\ sup2[s][type] = sup[s][type] + k
      /\ \A s2 \in Silos, t2 \in AssetType : <<s2, t2>> # <<s, type>> => sup2[s2][t2] = sup[s2][t2]
  <2>1. \A t \in Silos : t # s => sup2[t] = sup[t]
    BY <1>1 DEF sup, sup2
  <2> QED
    BY <1>2, <1>3, <2>1
<1>5. balance \in Balances /\ SharesOK(balance, sup) /\ sup \in Supplies /\ sup2 \in Supplies
  BY <1>1 DEF TokensOK, sup, sup2
<1>6. Minted(balance, s, type, u, k) \in Balances /\ SharesOK(Minted(balance, s, type, u, k), sup2)
  BY <1>4, <1>5, MintOK
<1> QED
  BY <1>1, <1>6 DEF TokensOK, sup2

\* A step that burns shares of one type of one user along with the ledger.
LEMMA BurnStep ==
  ASSUME LedgersOK, TokensOK, UNCHANGED loans,
         NEW l \in [Silos -> Ledger],
         \A t \in Silos : LedgerOK(l[t], Owed(t)) /\ l[t].supply = ledger[t].supply,
         NEW s \in Silos, NEW m \in Ledger, LedgerOK(m, Owed(s)),
         ledger' = [l EXCEPT ![s] = m],
         NEW type \in AssetType, NEW u \in Users, NEW k \in Nat,
         k <= balance[s][type][u],
         m.supply = [l[s].supply EXCEPT ![type] = @ - k],
         balance' = Burned(balance, s, type, u, k)
  PROVE  LedgersOK' /\ TokensOK'
<1>1. /\ LedgersOK'
      /\ SuppliesOf(ledger) \in Supplies
      /\ SuppliesOf(ledger') \in Supplies
      /\ SuppliesOf(ledger')[s] = m.supply
      /\ \A t \in Silos : t # s => SuppliesOf(ledger')[t] = SuppliesOf(ledger)[t]
  BY LedgerStep
<1> DEFINE sup == SuppliesOf(ledger)
           sup2 == SuppliesOf(ledger')
<1>2. sup[s] \in [AssetType -> Nat] /\ sup[s] = l[s].supply
  BY <1>1 DEF SuppliesOf, Supplies
<1>3. sup2[s] = [sup[s] EXCEPT ![type] = @ - k]
  BY <1>1, <1>2
<1> HIDE DEF sup, sup2
<1>4. /\ sup2[s][type] = sup[s][type] - k
      /\ \A s2 \in Silos, t2 \in AssetType : <<s2, t2>> # <<s, type>> => sup2[s2][t2] = sup[s2][t2]
  <2>1. \A t \in Silos : t # s => sup2[t] = sup[t]
    BY <1>1 DEF sup, sup2
  <2> QED
    BY <1>2, <1>3, <2>1
<1>5. balance \in Balances /\ SharesOK(balance, sup) /\ sup \in Supplies /\ sup2 \in Supplies
  BY <1>1 DEF TokensOK, sup, sup2
<1>6. Burned(balance, s, type, u, k) \in Balances /\ SharesOK(Burned(balance, s, type, u, k), sup2)
  BY <1>4, <1>5, BurnOK
<1> QED
  BY <1>1, <1>6 DEF TokensOK, sup2

\* Nobody holds more shares than the ledger counts.
LEMMA HoldingBound ==
  ASSUME LedgersOK, TokensOK, NEW s \in Silos, NEW type \in AssetType, NEW u \in Users
  PROVE  /\ balance[s][type][u] \in Nat
         /\ balance[s][type][u] <= ledger[s].supply[type]
<1>1. balance[s][type] \in [Users -> Nat] /\ AddsUpTo(balance[s][type], SuppliesOf(ledger)[s][type])
  BY DEF TokensOK, Balances, SharesOK
<1>2. SuppliesOf(ledger)[s][type] = ledger[s].supply[type]
  BY DEF SuppliesOf
<1> QED
  BY <1>1, <1>2, BalanceBound

\* What a call leaves alone stays as it was.
LEMMA LoansKept ==
  ASSUME LoansOK, UNCHANGED loans
  PROVE  LoansOK'
BY DEF LoansOK, StackOK

\* Nothing is booked, held or lent at first.
LEMMA InitOK == Init => IInv
<1> SUFFICES ASSUME Init PROVE IInv
  OBVIOUS
<1>1. LoansOK
  BY DEF Init, LoansOK, StackOK
<1>2. LedgersOK
  <2>1. \A s \in Silos : Owed(s) = 0
    BY DEF Init, Owed
  <2> QED
    BY <2>1, EmptyLedgerOK DEF Init, LedgersOK
<1>3. TokensOK
  <2>1. balance \in Balances
    BY DEF Init, Balances
  <2>2. ASSUME NEW s \in Silos, NEW t \in AssetType
        PROVE  AddsUpTo(balance[s][t], SuppliesOf(ledger)[s][t])
    <3>1. balance[s][t] = [u \in Users |-> 0] /\ SuppliesOf(ledger)[s][t] = 0
      BY DEF Init, SuppliesOf, EmptyLedger
    <3> QED
      BY <3>1, NobodyAddsUp
  <2> QED
    BY <2>1, <2>2 DEF TokensOK, SharesOK
<1>4. OthersOK
  BY QuotesType, MarketAssumption DEF Init, OthersOK
<1> QED
  BY <1>1, <1>2, <1>3, <1>4 DEF IInv

\* deposit and mint keep the inductive invariant: the new shares are minted.
LEMMA DepositStep ==
  ASSUME IInv, NEW s \in Silos, NEW u \in Users, NEW type \in CollateralType,
         NEW in \in Inputs(s), NEW rcomp \in Rcomps, Deposit(s, u, type, in, rcomp)
  PROVE  IInv'
<1> DEFINE l == AccrueInterest(ledger[s], rcomp)
           x == DepositOf(l, type, in)
           m == Received(Deposited(l, type, x), x.assets)
<1>1. l \in Ledger /\ LedgerOK(l, Owed(s)) /\ l.supply = ledger[s].supply
  BY AccruedOK, MarketAssumption DEF IInv
<1>2. Owed(s) \in Nat
  BY OwedNat DEF IInv, LoansOK
<1>3. x \in Amounts
  <2>1. l.assets[type] \in Nat /\ l.supply[type] \in Nat
    BY <1>1, LedgerFields DEF CollateralType, AssetType
  <2>2. in \in Amounts
    BY InputsAmounts
  <2> HIDE DEF l
  <2> QED
    BY <2>1, <2>2, ConvertedNat DEF DepositOf
<1>4. /\ CanDeposit(l, type, x)
      /\ ledger' = [ledger EXCEPT ![s] = m]
      /\ balance' = Minted(balance, s, type, u, x.shares)
      /\ UNCHANGED <<collateralSilo, loans, price, blocks>>
  BY DEF Deposit
<1> HIDE DEF l, x
<1>5. m \in Ledger /\ LedgerOK(m, Owed(s)) /\ m.supply = [l.supply EXCEPT ![type] = @ + x.shares]
  BY <1>1, <1>2, <1>3, <1>4, DepositOK
<1> HIDE DEF m
<1>6. x.shares \in Nat /\ type \in AssetType
  BY <1>3 DEF Amounts, CollateralType, AssetType
<1>7. LedgersOK' /\ TokensOK'
  <2>1. m.supply = [ledger[s].supply EXCEPT ![type] = @ + x.shares]
    BY <1>1, <1>5
  <2>2. /\ ledger \in [Silos -> Ledger]
        /\ \A t \in Silos : LedgerOK(ledger[t], Owed(t)) /\ ledger[t].supply = ledger[t].supply
    BY DEF IInv, LedgersOK
  <2> QED
    BY <1>4, <1>5, <1>6, <2>1, <2>2, MintStep DEF IInv
<1> QED
  BY <1>4, <1>7, LoansKept DEF IInv, OthersOK

\* withdraw and redeem keep it: the owner has the shares, the Silo the cash.
LEMMA WithdrawStep ==
  ASSUME IInv, NEW s \in Silos, NEW u \in Users, NEW type \in CollateralType,
         NEW in \in Inputs(s), NEW rcomp \in [Silos -> Rcomps], Withdraw(s, u, type, in, rcomp)
  PROVE  IInv'
<1> DEFINE l == BothAccrued(rcomp)
           x == WithdrawalOf(l[s], type, in)
           m == Paid(Withdrawn(l[s], type, x), x.assets)
<1>1. /\ l \in [Silos -> Ledger]
      /\ \A t \in Silos : LedgerOK(l[t], Owed(t)) /\ l[t].supply = ledger[t].supply
  <2>1. rcomp \in [Silos -> Nat]
    BY MarketAssumption
  <2> QED
    BY <2>1, BothAccruedOK DEF IInv
<1>2. Owed(s) \in Nat
  BY OwedNat DEF IInv, LoansOK
<1>3. x \in Amounts
  <2>1. l[s].assets[type] \in Nat /\ l[s].supply[type] \in Nat
    BY <1>1, LedgerFields DEF CollateralType, AssetType
  <2>2. in \in Amounts
    BY InputsAmounts
  <2> HIDE DEF l
  <2> QED
    BY <2>1, <2>2, ConvertedNat DEF WithdrawalOf
<1>4. /\ CanWithdraw(l[s], type, x)
      /\ x.shares <= balance[s][type][u]
      /\ CanPayWithdrawal(Withdrawn(l[s], type, x), x.assets)
      /\ ledger' = [l EXCEPT ![s] = m]
      /\ balance' = Burned(balance, s, type, u, x.shares)
      /\ UNCHANGED <<collateralSilo, loans, price, blocks>>
  BY DEF Withdraw
<1> HIDE DEF l, x
<1>5. x.shares \in Nat /\ type \in AssetType
  BY <1>3 DEF Amounts, CollateralType, AssetType
<1>6. x.shares <= l[s].supply[type]
  <2>1. /\ balance[s][type][u] \in Nat /\ balance[s][type][u] <= ledger[s].supply[type]
        /\ ledger[s].supply[type] \in Nat
    BY <1>5, HoldingBound, LedgerFields DEF IInv, LedgersOK
  <2> QED
    BY <1>1, <1>4, <1>5, <2>1
<1>7. x.assets <= l[s].cash
  BY <1>4, <1>1 DEF CanPayWithdrawal, Withdrawn, Ledger
<1>8. m \in Ledger /\ LedgerOK(m, Owed(s)) /\ m.supply = [l[s].supply EXCEPT ![type] = @ - x.shares]
  <2>1. l[s] \in Ledger /\ LedgerOK(l[s], Owed(s))
    BY <1>1
  <2> QED
    BY <1>2, <1>3, <1>4, <1>6, <1>7, <2>1, WithdrawOK
<1> HIDE DEF m
<1>9. LedgersOK' /\ TokensOK'
  BY <1>1, <1>4, <1>5, <1>8, BurnStep DEF IInv
<1> QED
  BY <1>4, <1>9, LoansKept DEF IInv, OthersOK

\* borrow and borrowShares keep it: the loan is within the liquidity.
LEMMA BorrowStep ==
  ASSUME IInv, NEW s \in Silos, NEW u \in Users,
         NEW in \in Inputs(s), NEW rcomp \in [Silos -> Rcomps], Borrow(s, u, in, rcomp)
  PROVE  IInv'
<1> DEFINE l == BothAccrued(rcomp)
           x == LoanOf(l[s], in)
           m == Paid(Borrowed(l[s], x), x.assets)
<1>1. /\ l \in [Silos -> Ledger]
      /\ \A t \in Silos : LedgerOK(l[t], Owed(t)) /\ l[t].supply = ledger[t].supply
  <2>1. rcomp \in [Silos -> Nat]
    BY MarketAssumption
  <2> QED
    BY <2>1, BothAccruedOK DEF IInv
<1>2. Owed(s) \in Nat
  BY OwedNat DEF IInv, LoansOK
<1>3. x \in Amounts
  <2>1. l[s].assets["Debt"] \in Nat /\ l[s].supply["Debt"] \in Nat
    BY <1>1, LedgerFields DEF AssetType
  <2>2. in \in Amounts
    BY InputsAmounts
  <2> HIDE DEF l
  <2> QED
    BY <2>1, <2>2, ConvertedNat DEF LoanOf
<1>4. /\ CanBorrow(l[s], x)
      /\ CanPay(l[s], x.assets)
      /\ ledger' = [l EXCEPT ![s] = m]
      /\ balance' = Minted(balance, s, "Debt", u, x.shares)
      /\ collateralSilo' = [collateralSilo EXCEPT ![u] = OtherSilo(s)]
      /\ UNCHANGED <<loans, price, blocks>>
  BY DEF Borrow
<1> HIDE DEF l, x
<1>5. x.shares \in Nat /\ "Debt" \in AssetType
  BY <1>3 DEF Amounts, AssetType
<1>6. m \in Ledger /\ LedgerOK(m, Owed(s)) /\ m.supply = [l[s].supply EXCEPT !["Debt"] = @ + x.shares]
  <2>1. l[s] \in Ledger /\ LedgerOK(l[s], Owed(s))
    BY <1>1
  <2> QED
    BY <1>2, <1>3, <1>4, <2>1, BorrowOK
<1> HIDE DEF m
<1>7. LedgersOK' /\ TokensOK'
  BY <1>1, <1>4, <1>5, <1>6, MintStep DEF IInv
<1>8. OthersOK'
  BY <1>4 DEF IInv, OthersOK, OtherSilo, Silos
<1> QED
  BY <1>4, <1>7, <1>8, LoansKept DEF IInv

\* A repayment is cut to what the borrower owes.
LEMMA RepaymentBound ==
  ASSUME NEW l \in Ledger, NEW owes \in Nat, NEW in \in Amounts
  PROVE  /\ RepaymentOf(l, owes, in) \in Amounts
         /\ RepaymentOf(l, owes, in).shares \in Nat
         /\ RepaymentOf(l, owes, in).shares <= owes
<1> DEFINE asked == Converted(in, l.assets["Debt"], l.supply["Debt"], Ceil, Floor, "Debt")
           all == [assets |-> 0, shares |-> owes]
           cut == Converted(all, l.assets["Debt"], l.supply["Debt"], Ceil, Floor, "Debt")
<1>1. asked \in Amounts /\ cut \in Amounts /\ cut.shares = owes
  <2>1. l.assets["Debt"] \in Nat /\ l.supply["Debt"] \in Nat
    BY LedgerFields DEF AssetType
  <2>2. all \in Amounts /\ all.assets = 0 /\ all.shares = owes
    BY DEF Amounts
  <2> HIDE DEF all
  <2> QED
    BY <2>1, <2>2, ConvertedNat
<1>2. RepaymentOf(l, owes, in) = IF asked.shares > owes THEN cut ELSE asked
  BY DEF RepaymentOf
<1> HIDE DEF asked, cut
<1> QED
  BY <1>1, <1>2 DEF Amounts

\* repay and repayShares keep it: no more is burned than the borrower owes.
LEMMA RepayStep ==
  ASSUME IInv, NEW s \in Silos, NEW u \in Users,
         NEW in \in Inputs(s), NEW rcomp \in Rcomps, Repay(s, u, in, rcomp)
  PROVE  IInv'
<1> DEFINE l == AccrueInterest(ledger[s], rcomp)
           owes == balance[s]["Debt"][u]
           x == RepaymentOf(l, owes, in)
           m == Received(Repaid(l, x), x.assets)
<1>1. l \in Ledger /\ LedgerOK(l, Owed(s)) /\ l.supply = ledger[s].supply
  BY AccruedOK, MarketAssumption DEF IInv
<1>2. Owed(s) \in Nat
  BY OwedNat DEF IInv, LoansOK
<1>3. owes \in Nat /\ owes <= l.supply["Debt"] /\ l.supply["Debt"] \in Nat
  <2>1. "Debt" \in AssetType
    BY DEF AssetType
  <2>2. owes \in Nat /\ owes <= ledger[s].supply["Debt"]
    BY <2>1, HoldingBound DEF IInv
  <2>3. l.supply["Debt"] \in Nat
    BY <1>1, <2>1, LedgerFields
  <2> HIDE DEF l, owes
  <2> QED
    BY <1>1, <2>2, <2>3
<1>6. /\ CanRepay(l, x)
      /\ ledger' = [ledger EXCEPT ![s] = m]
      /\ balance' = Burned(balance, s, "Debt", u, x.shares)
      /\ UNCHANGED <<collateralSilo, loans, price, blocks>>
  BY DEF Repay
<1> HIDE DEF l, owes
<1>7. x \in Amounts /\ x.shares \in Nat /\ x.shares <= owes
  BY <1>1, <1>3, InputsAmounts, RepaymentBound
<1> HIDE DEF x
<1>8. x.shares <= l.supply["Debt"]
  BY <1>3, <1>7
<1>9. m \in Ledger /\ LedgerOK(m, Owed(s)) /\ m.supply = [l.supply EXCEPT !["Debt"] = @ - x.shares]
  BY <1>1, <1>2, <1>6, <1>7, <1>8, RepayOK
<1> HIDE DEF m
<1>10. LedgersOK' /\ TokensOK'
  <2>1. m.supply = [ledger[s].supply EXCEPT !["Debt"] = @ - x.shares] /\ "Debt" \in AssetType
    BY <1>1, <1>9 DEF AssetType
  <2>2. /\ ledger \in [Silos -> Ledger]
        /\ \A t \in Silos : LedgerOK(ledger[t], Owed(t)) /\ ledger[t].supply = ledger[t].supply
    BY DEF IInv, LedgersOK
  <2>3. x.shares <= balance[s]["Debt"][u]
    BY <1>7 DEF owes
  <2> QED
    BY <1>6, <1>7, <1>9, <2>1, <2>2, <2>3, BurnStep DEF IInv
<1> QED
  BY <1>6, <1>10, LoansKept DEF IInv, OthersOK

\* transitionCollateral keeps it: the assets of the burned shares are the ones
\* the new shares are minted for.
LEMMA TransitionCollateralStep ==
  ASSUME IInv, NEW s \in Silos, NEW u \in Users, NEW from \in CollateralType,
         NEW n \in ShareInputs[s], NEW rcomp \in [Silos -> Rcomps],
         TransitionCollateral(s, u, from, n, rcomp)
  PROVE  IInv'
<1> DEFINE l   == BothAccrued(rcomp)
           to  == IF from = "Collateral" THEN "Protected" ELSE "Collateral"
           all == [assets |-> 0, shares |-> n]
           out == WithdrawalOf(l[s], from, all)
           mid == Withdrawn(l[s], from, out)
           moved == [assets |-> out.assets, shares |-> 0]
           in  == DepositOf(mid, to, moved)
           m   == Deposited(mid, to, in)
<1>1. /\ l \in [Silos -> Ledger]
      /\ \A t \in Silos : LedgerOK(l[t], Owed(t)) /\ l[t].supply = ledger[t].supply
  <2>1. rcomp \in [Silos -> Nat]
    BY MarketAssumption
  <2> QED
    BY <2>1, BothAccruedOK DEF IInv
<1>2. Owed(s) \in Nat
  BY OwedNat DEF IInv, LoansOK
<1>3. n \in Nat /\ from \in AssetType /\ to \in AssetType /\ to \in CollateralType \ {from}
  BY MarketAssumption DEF CollateralType, AssetType
<1>4. out \in Amounts /\ out.shares = n
  <2>1. l[s].assets[from] \in Nat /\ l[s].supply[from] \in Nat
    BY <1>1, <1>3, LedgerFields
  <2>2. all \in Amounts /\ all.assets = 0 /\ all.shares = n
    BY <1>3 DEF Amounts
  <2> HIDE DEF l, all
  <2> QED
    BY <2>1, <2>2, ConvertedNat DEF WithdrawalOf
<1>5. /\ CanWithdraw(l[s], from, out)
      /\ n <= balance[s][from][u]
      /\ CanDeposit(mid, to, in)
      /\ ledger' = [l EXCEPT ![s] = m]
      /\ balance' = Minted(Burned(balance, s, from, u, n), s, to, u, in.shares)
      /\ UNCHANGED <<collateralSilo, loans, price, blocks>>
  BY DEF TransitionCollateral
<1>6. n <= l[s].supply[from]
  <2>1. /\ balance[s][from][u] \in Nat /\ balance[s][from][u] <= ledger[s].supply[from]
        /\ ledger[s].supply[from] \in Nat
    BY <1>3, HoldingBound, LedgerFields DEF IInv, LedgersOK
  <2> QED
    BY <1>1, <1>3, <1>5, <2>1
<1>7. mid.assets[to] = l[s].assets[to] /\ mid.supply[to] = l[s].supply[to]
  BY <1>1, <1>3 DEF Withdrawn, Ledger
<1>8. in \in Amounts /\ in.assets = out.assets
  <2>1. mid.assets[to] \in Nat /\ mid.supply[to] \in Nat
    BY <1>1, <1>3, <1>7, LedgerFields
  <2>2. moved \in Amounts /\ moved.assets = out.assets /\ moved.assets # 0
    <3>1. out.assets # 0
      BY <1>5 DEF CanWithdraw, Moves
    <3> HIDE DEF out
    <3> QED
      BY <1>4, <3>1 DEF Amounts
  <2> HIDE DEF mid, moved, to
  <2> QED
    BY <2>1, <2>2, ConvertedNat DEF DepositOf
<1> HIDE DEF l, to, out, in
<1>9. m \in Ledger /\ LedgerOK(m, Owed(s)) /\ m.supply = [l[s].supply EXCEPT ![from] = @ - n, ![to] = @ + in.shares]
  <2>1. l[s] \in Ledger /\ LedgerOK(l[s], Owed(s))
    BY <1>1
  <2> QED
    BY <1>2, <1>3, <1>4, <1>5, <1>6, <1>8, <2>1, TransitionOK
<1> HIDE DEF m, mid
<1>10. /\ LedgersOK'
       /\ SuppliesOf(ledger) \in Supplies
       /\ SuppliesOf(ledger') \in Supplies
       /\ SuppliesOf(ledger')[s] = m.supply
       /\ \A t \in Silos : t # s => SuppliesOf(ledger')[t] = SuppliesOf(ledger)[t]
  BY <1>1, <1>5, <1>9, LedgerStep DEF IInv
<1> DEFINE sup == SuppliesOf(ledger)
           sup1 == [sup EXCEPT ![s][from] = @ - n]
           sup2 == SuppliesOf(ledger')
<1>11. /\ sup[s] \in [AssetType -> Nat] /\ sup[s] = l[s].supply
       /\ sup \in Supplies /\ sup2 \in Supplies
       /\ sup2[s] = [sup[s] EXCEPT ![from] = @ - n, ![to] = @ + in.shares]
       /\ \A t \in Silos : t # s => sup2[t] = sup[t]
  <2>1. sup[s] \in [AssetType -> Nat] /\ sup[s] = l[s].supply
    BY <1>1, <1>10 DEF SuppliesOf, Supplies
  <2> QED
    BY <1>9, <1>10, <2>1
<1> HIDE DEF sup, sup2
<1>12. sup1 \in Supplies
  <2>1. sup[s][from] - n \in Nat
    BY <1>3, <1>6, <1>11
  <2> QED
    BY <1>11, <2>1 DEF Supplies
<1>13. /\ sup1[s][from] = sup[s][from] - n
       /\ \A s2 \in Silos, t2 \in AssetType : <<s2, t2>> # <<s, from>> => sup1[s2][t2] = sup[s2][t2]
  <2>1. sup1[s] = [sup[s] EXCEPT ![from] = @ - n]
    BY <1>11 DEF Supplies
  <2>2. \A t \in Silos : t # s => sup1[t] = sup[t]
    BY <1>11 DEF Supplies
  <2> HIDE DEF sup1
  <2> QED
    BY <1>3, <1>11, <2>1, <2>2
<1>14. /\ sup2[s][to] = sup1[s][to] + in.shares
       /\ \A s2 \in Silos, t2 \in AssetType : <<s2, t2>> # <<s, to>> => sup2[s2][t2] = sup1[s2][t2]
  <2>1. sup1[s] = [sup[s] EXCEPT ![from] = @ - n]
    BY <1>11 DEF Supplies
  <2>2. \A t \in Silos : t # s => sup1[t] = sup[t]
    BY <1>11 DEF Supplies
  <2> HIDE DEF sup1
  <2>3. sup2[s] = [sup1[s] EXCEPT ![to] = @ + in.shares] /\ sup1[s] \in [AssetType -> Nat]
    BY <1>3, <1>11, <1>12, <2>1 DEF Supplies
  <2> QED
    BY <1>3, <1>11, <2>2, <2>3
<1> DEFINE bal1 == Burned(balance, s, from, u, n)
<1>15. bal1 \in Balances /\ SharesOK(bal1, sup1)
  <2>1. balance \in Balances /\ SharesOK(balance, sup)
    BY DEF IInv, TokensOK, sup
  <2> HIDE DEF sup1
  <2> QED
    BY <1>3, <1>5, <1>11, <1>12, <1>13, <2>1, BurnOK
<1>16. balance' = Minted(bal1, s, to, u, in.shares)
  BY <1>5
<1> HIDE DEF bal1, sup1
<1>17. balance' \in Balances /\ SharesOK(balance', sup2)
  <2>1. in.shares \in Nat
    BY <1>8 DEF Amounts
  <2> QED
    BY <1>3, <1>11, <1>12, <1>14, <1>15, <1>16, <2>1, MintOK
<1> QED
  BY <1>5, <1>10, <1>17, LoansKept DEF IInv, OthersOK, TokensOK, sup2

\* A step whose new ledgers count the same shares.
LEMMA SameSupplies ==
  ASSUME TokensOK, NEW l \in [Silos -> Ledger], ledger' = l,
         \A t \in Silos : LedgerOK(l[t], Owed(t)') /\ l[t].supply = ledger[t].supply
  PROVE  /\ LedgersOK'
         /\ SuppliesOf(ledger') = SuppliesOf(ledger)
         /\ balance' = balance => TokensOK'
<1>1. LedgersOK'
  BY DEF LedgersOK
<1>2. SuppliesOf(ledger') = SuppliesOf(ledger)
  BY DEF SuppliesOf
<1> QED
  BY <1>1, <1>2 DEF TokensOK

\* A transfer of shares, with or without interest accrued on the way.
LEMMA TransferStep ==
  ASSUME LedgersOK, TokensOK, UNCHANGED loans,
         NEW l \in [Silos -> Ledger], ledger' = l,
         \A t \in Silos : LedgerOK(l[t], Owed(t)) /\ l[t].supply = ledger[t].supply,
         NEW s \in Silos, NEW type \in AssetType, NEW u \in Users, NEW v \in Users,
         NEW n \in Nat, n <= balance[s][type][u],
         balance' = Minted(Burned(balance, s, type, u, n), s, type, v, n)
  PROVE  LedgersOK' /\ TokensOK'
<1>1. \A t \in Silos : Owed(t)' = Owed(t)
  BY DEF Owed
<1>2. LedgersOK' /\ SuppliesOf(ledger') = SuppliesOf(ledger)
  BY <1>1, SameSupplies
<1>3. SuppliesOf(ledger) \in Supplies
  BY DEF LedgersOK, SuppliesOf, Supplies, Ledger
<1>4. balance \in Balances /\ SharesOK(balance, SuppliesOf(ledger))
  BY DEF TokensOK
<1>5. balance' \in Balances /\ SharesOK(balance', SuppliesOf(ledger))
  BY <1>3, <1>4, TransferOK
<1> QED
  BY <1>2, <1>5 DEF TokensOK

\* A transfer of collateral shares keeps it.
LEMMA TransferCollateralStep ==
  ASSUME IInv, NEW s \in Silos, NEW type \in CollateralType, NEW u \in Users, NEW v \in Users,
         NEW n \in TransferInputs[s], NEW rcomp \in [Silos -> Rcomps],
         TransferCollateral(s, type, u, v, n, rcomp)
  PROVE  IInv'
<1> DEFINE l == IF IsCollateralOf(s, u) THEN BothAccrued(rcomp) ELSE ledger
<1>1. /\ l \in [Silos -> Ledger]
      /\ \A t \in Silos : LedgerOK(l[t], Owed(t)) /\ l[t].supply = ledger[t].supply
  <2>1. rcomp \in [Silos -> Nat]
    BY MarketAssumption
  <2>2. /\ BothAccrued(rcomp) \in [Silos -> Ledger]
        /\ \A t \in Silos : /\ LedgerOK(BothAccrued(rcomp)[t], Owed(t))
                            /\ BothAccrued(rcomp)[t].supply = ledger[t].supply
    BY <2>1, BothAccruedOK DEF IInv
  <2> QED
    BY <2>2 DEF IInv, LedgersOK
<1>2. /\ n <= balance[s][type][u]
      /\ ledger' = l
      /\ balance' = Minted(Burned(balance, s, type, u, n), s, type, v, n)
      /\ UNCHANGED <<collateralSilo, loans, price, blocks>>
  BY DEF TransferCollateral, Transferred
<1>3. n \in Nat /\ type \in AssetType
  BY MarketAssumption DEF CollateralType, AssetType
<1> HIDE DEF l
<1>4. LedgersOK' /\ TokensOK'
  BY <1>1, <1>2, <1>3, TransferStep DEF IInv
<1> QED
  BY <1>2, <1>4, LoansKept DEF IInv, OthersOK

\* A transfer of debt shares keeps it, and the recipient gets a collateral Silo.
LEMMA TransferDebtStep ==
  ASSUME IInv, NEW s \in Silos, NEW u \in Users, NEW v \in Users,
         NEW n \in TransferInputs[s], NEW rcomp \in [Silos -> Rcomps],
         TransferDebt(s, u, v, n, rcomp)
  PROVE  IInv'
<1> DEFINE l == BothAccrued(rcomp)
<1>1. /\ l \in [Silos -> Ledger]
      /\ \A t \in Silos : LedgerOK(l[t], Owed(t)) /\ l[t].supply = ledger[t].supply
  <2>1. rcomp \in [Silos -> Nat]
    BY MarketAssumption
  <2> QED
    BY <2>1, BothAccruedOK DEF IInv
<1>2. /\ n <= balance[s]["Debt"][u]
      /\ ledger' = l
      /\ balance' = Minted(Burned(balance, s, "Debt", u, n), s, "Debt", v, n)
      /\ UNCHANGED <<loans, price, blocks>>
  BY DEF TransferDebt, Transferred
<1>3. n \in Nat /\ "Debt" \in AssetType
  BY MarketAssumption DEF AssetType
<1>4. collateralSilo' \in [Users -> Silos \cup {NoSilo}]
  BY DEF TransferDebt, IInv, OthersOK
<1> HIDE DEF l
<1>5. LedgersOK' /\ TokensOK'
  BY <1>1, <1>2, <1>3, TransferStep DEF IInv
<1> QED
  BY <1>2, <1>4, <1>5, LoansKept DEF IInv, OthersOK

\* A step that leaves flash loans and shares alone and writes one ledger,
\* of the same supplies.
LEMMA BooksStep ==
  ASSUME IInv, UNCHANGED <<balance, collateralSilo, loans, price, blocks>>,
         NEW s \in Silos, NEW m \in Ledger, LedgerOK(m, Owed(s)), m.supply = ledger[s].supply,
         ledger' = [ledger EXCEPT ![s] = m]
  PROVE  IInv'
<1> DEFINE l == [ledger EXCEPT ![s] = m]
<1>1. /\ l \in [Silos -> Ledger]
      /\ \A t \in Silos : LedgerOK(l[t], Owed(t)) /\ l[t].supply = ledger[t].supply
  BY DEF IInv, LedgersOK
<1>2. \A t \in Silos : Owed(t)' = Owed(t)
  BY DEF Owed
<1> HIDE DEF l
<1>3. LedgersOK' /\ TokensOK'
  <2>1. \A t \in Silos : LedgerOK(l[t], Owed(t)') /\ l[t].supply = ledger[t].supply
    BY <1>1, <1>2
  <2>2. ledger' = l
    BY DEF l
  <2> QED
    BY <1>1, <2>1, <2>2, SameSupplies DEF IInv
<1> QED
  BY <1>3, LoansKept DEF IInv, OthersOK

\* accrueInterest keeps it.
LEMMA AccrueStep ==
  ASSUME IInv, NEW s \in Silos, NEW rcomp \in Rcomps, Accrue(s, rcomp)
  PROVE  IInv'
<1> DEFINE m == AccrueInterest(ledger[s], rcomp)
<1>1. m \in Ledger /\ LedgerOK(m, Owed(s)) /\ m.supply = ledger[s].supply
  BY AccruedOK, MarketAssumption DEF IInv
<1>2. /\ ledger' = [ledger EXCEPT ![s] = m]
      /\ UNCHANGED <<balance, collateralSilo, loans, price, blocks>>
  BY DEF Accrue
<1> HIDE DEF m
<1> QED
  BY <1>1, <1>2, BooksStep

\* withdrawFees keeps it.
LEMMA WithdrawFeesStep ==
  ASSUME IInv, NEW s \in Silos, NEW rcomp \in Rcomps, WithdrawFees(s, rcomp)
  PROVE  IInv'
<1> DEFINE l == AccrueInterest(ledger[s], rcomp)
           m == FeesWithdrawn(l)
<1>1. l \in Ledger /\ LedgerOK(l, Owed(s)) /\ l.supply = ledger[s].supply
  BY AccruedOK, MarketAssumption DEF IInv
<1>2. Owed(s) \in Nat
  BY OwedNat DEF IInv, LoansOK
<1>3. /\ ledger' = [ledger EXCEPT ![s] = m]
      /\ UNCHANGED <<balance, collateralSilo, loans, price, blocks>>
  BY DEF WithdrawFees
<1> HIDE DEF l
<1>4. m \in Ledger /\ LedgerOK(m, Owed(s)) /\ m.supply = ledger[s].supply
  BY <1>1, <1>2, FeesWithdrawnOK
<1> HIDE DEF m
<1> QED
  BY <1>3, <1>4, BooksStep

\* A plain transfer of tokens to a Silo keeps it.
LEMMA DonateStep ==
  ASSUME IInv, NEW s \in Silos, NEW n \in DonationInputs[s], Donate(s, n)
  PROVE  IInv'
<1> DEFINE m == Donated(ledger[s], n)
<1>1. ledger[s] \in Ledger /\ LedgerOK(ledger[s], Owed(s)) /\ Owed(s) \in Nat /\ n \in Nat
  BY OwedNat, MarketAssumption DEF IInv, LedgersOK, LoansOK
<1>2. /\ ledger' = [ledger EXCEPT ![s] = m]
      /\ UNCHANGED <<balance, collateralSilo, loans, price, blocks>>
  BY DEF Donate
<1>3. m \in Ledger /\ LedgerOK(m, Owed(s)) /\ m.supply = ledger[s].supply
  BY <1>1, DonatedOK
<1> HIDE DEF m
<1> QED
  BY <1>2, <1>3, BooksStep

\* The passing of time keeps it.
LEMMA NewBlockStep ==
  ASSUME IInv, NewBlock
  PROVE  IInv'
<1> DEFINE clock(s) == IF ledger[s].clock = "never" THEN "never" ELSE "stale"
           l == [s \in Silos |-> [ledger[s] EXCEPT !.clock = clock(s)]]
<1>1. \A s \in Silos : ledger[s] \in Ledger /\ LedgerOK(ledger[s], Owed(s)) /\ Owed(s) \in Nat
  BY OwedNat DEF IInv, LedgersOK, LoansOK
<1>2. ledger' = l /\ UNCHANGED <<balance, collateralSilo, loans>>
  BY DEF NewBlock
<1>3. \A s \in Silos : clock(s) \in Clock
  BY DEF Clock
<1>4. /\ l \in [Silos -> Ledger]
      /\ \A s \in Silos : LedgerOK(l[s], Owed(s)) /\ l[s].supply = ledger[s].supply
  <2> HIDE DEF clock
  <2>1. \A s \in Silos : /\ [ledger[s] EXCEPT !.clock = clock(s)] \in Ledger
                         /\ LedgerOK([ledger[s] EXCEPT !.clock = clock(s)], Owed(s))
                         /\ [ledger[s] EXCEPT !.clock = clock(s)].supply = ledger[s].supply
    BY <1>1, <1>3, ClockOK
  <2> QED
    BY <2>1
<1> HIDE DEF l
<1>5. \A s \in Silos : LedgerOK(l[s], Owed(s)') /\ l[s].supply = ledger[s].supply
  BY <1>2, <1>4 DEF Owed
<1>6. LedgersOK' /\ TokensOK'
  BY <1>2, <1>4, <1>5, SameSupplies DEF IInv
<1>7. OthersOK'
  <2>1. price' \in [Silos -> Nat \ {0}]
    BY QuotesType DEF NewBlock
  <2>2. blocks' \in 0 .. MaxBlocks
    BY MarketAssumption DEF NewBlock, IInv, OthersOK
  <2> QED
    BY <1>2, <2>1, <2>2 DEF IInv, OthersOK
<1> QED
  BY <1>2, <1>6, <1>7, LoansKept DEF IInv

\* What a new flash loan adds to the call stack.
LEMMA BeginFlashLoanStep ==
  ASSUME IInv, NEW s \in Silos, NEW n \in FlashInputs[s], BeginFlashLoan(s, n)
  PROVE  IInv'
<1> DEFINE fee == FlashFee(n, FlashloanFee)
           out(t) == IF t = s THEN n + fee ELSE 0
           loan == [silo |-> s, amount |-> n, fee |-> fee, owed |-> [t \in Silos |-> Owed(t) + out(t)]]
           m == FlashLent(ledger[s], n)
           l == [ledger EXCEPT ![s] = m]
<1>1. n \in Nat /\ fee \in Nat
  BY FlashFeeNat, MarketAssumption
<1>2. \A t \in Silos : ledger[t] \in Ledger /\ LedgerOK(ledger[t], Owed(t)) /\ Owed(t) \in Nat
  BY OwedNat DEF IInv, LedgersOK, LoansOK
<1>3. /\ CanFlashLoan(ledger[s], n)
      /\ ledger' = l
      /\ loans' = Append(loans, loan)
      /\ UNCHANGED <<balance, collateralSilo, price, blocks>>
  BY DEF BeginFlashLoan
<1>4. m \in Ledger /\ LedgerOK(m, Owed(s) + (n + fee)) /\ m.supply = ledger[s].supply
  BY <1>1, <1>2, <1>3, FlashLentOK
<1> HIDE DEF m, fee
<1>5. loan \in FlashLoan
  <2>1. \A t \in Silos : Owed(t) + out(t) \in Nat
    BY <1>1, <1>2
  <2> QED
    BY <1>1, <2>1 DEF FlashLoan
<1>6. loan.silo = s /\ loan.amount = n /\ loan.fee = fee /\ \A t \in Silos : loan.owed[t] = Owed(t) + out(t)
  OBVIOUS
<1> HIDE DEF loan
<1>7. loans \in Seq(FlashLoan) /\ loans' \in Seq(FlashLoan)
  BY <1>3, <1>5 DEF IInv, LoansOK
<1>8. Len(loans') = Len(loans) + 1 /\ loans'[Len(loans')] = loan /\ loans' # <<>>
  BY <1>3, <1>5, <1>7
<1>9. \A t \in Silos : Owed(t)' = Owed(t) + out(t)
  BY <1>6, <1>8 DEF Owed
<1>10. StackOK'
  <2> SUFFICES ASSUME NEW i \in 1 .. Len(loans'), NEW t \in Silos
               PROVE  loans'[i].owed[t] =
                        (IF i = 1 THEN 0 ELSE loans'[i - 1].owed[t])
                          + (IF t = loans'[i].silo THEN loans'[i].amount + loans'[i].fee ELSE 0)
    BY DEF StackOK
  <2>1. CASE i = Len(loans')
    <3>1. Owed(t) = IF i = 1 THEN 0 ELSE loans'[i - 1].owed[t]
      <4>1. CASE loans = <<>>
        BY <1>8, <2>1, <4>1 DEF Owed
      <4>2. CASE loans # <<>>
        <5>1. loans'[i - 1] = loans[Len(loans)] /\ i # 1
          BY <1>3, <1>5, <1>7, <1>8, <2>1, <4>2
        <5> QED
          BY <4>2, <5>1 DEF Owed
      <4> QED
        BY <4>1, <4>2
    <3> QED
      BY <1>6, <1>8, <2>1, <3>1
  <2>2. CASE i # Len(loans')
    <3>1. i \in 1 .. Len(loans) /\ loans'[i] = loans[i] /\ (i # 1 => loans'[i - 1] = loans[i - 1])
      BY <1>3, <1>5, <1>7, <1>8, <2>2
    <3> QED
      BY <3>1 DEF IInv, LoansOK, StackOK
  <2> QED
    BY <2>1, <2>2
<1>11. /\ l \in [Silos -> Ledger]
       /\ \A t \in Silos : LedgerOK(l[t], Owed(t)') /\ l[t].supply = ledger[t].supply
  <2>1. l \in [Silos -> Ledger]
    BY <1>4 DEF IInv, LedgersOK
  <2>2. LedgerOK(l[s], Owed(s)') /\ l[s].supply = ledger[s].supply
    BY <1>4, <1>9 DEF IInv, LedgersOK
  <2>3. ASSUME NEW t \in Silos, t # s PROVE LedgerOK(l[t], Owed(t)') /\ l[t].supply = ledger[t].supply
    <3>1. l[t] = ledger[t] /\ Owed(t)' = Owed(t)
      BY <1>2, <1>9, <2>3
    <3> QED
      BY <1>2, <3>1
  <2> QED
    BY <2>1, <2>2, <2>3
<1> HIDE DEF l
<1>12. LedgersOK' /\ TokensOK'
  BY <1>3, <1>11, SameSupplies DEF IInv
<1> QED
  BY <1>3, <1>7, <1>10, <1>12 DEF IInv, OthersOK, LoansOK

\* What the return from the last flash loan takes off the call stack.
LEMMA EndFlashLoanStep ==
  ASSUME IInv, EndFlashLoan
  PROVE  IInv'
<1> DEFINE loan == loans[Len(loans)]
           back == loan.amount + loan.fee
<1>1. loans \in Seq(FlashLoan) /\ loans # <<>> /\ loan \in FlashLoan
  BY DEF EndFlashLoan, IInv, LoansOK
<1>2. back \in Nat /\ \E s \in Silos : s = loan.silo
  BY <1>1 DEF FlashLoan
<1> PICK s \in Silos : s = loan.silo
  BY <1>2
<1> DEFINE m == Received(ledger[s], back)
           l == [ledger EXCEPT ![s] = m]
<1>3. /\ ledger' = l
      /\ loans' = SubSeq(loans, 1, Len(loans) - 1)
      /\ UNCHANGED <<balance, collateralSilo, price, blocks>>
  BY DEF EndFlashLoan
<1>4. /\ loans' \in Seq(FlashLoan)
      /\ Len(loans') = Len(loans) - 1
      /\ \A i \in 1 .. Len(loans') : loans'[i] = loans[i]
  <2> DEFINE n == Len(loans) - 1
  <2>1. n \in Nat /\ n < Len(loans)
    BY <1>1
  <2>2. loans' = [i \in 1 .. n |-> loans[i]]
    BY <1>1, <1>3, <2>1
  <2>3. \A i \in 1 .. n : loans[i] \in FlashLoan
    BY <1>1, <2>1
  <2> HIDE DEF n
  <2>4. loans' \in Seq(FlashLoan) /\ Len(loans') = n
    BY <2>1, <2>2, <2>3
  <2> QED
    BY <2>2, <2>4 DEF n
<1>5. \A t \in Silos : Owed(t) = Owed(t)' + (IF t = s THEN back ELSE 0)
  <2> SUFFICES ASSUME NEW t \in Silos PROVE Owed(t) = Owed(t)' + (IF t = s THEN back ELSE 0)
    OBVIOUS
  <2>1. Owed(t) = loan.owed[t]
    BY <1>1 DEF Owed
  <2>2. loan.owed[t] = (IF Len(loans) = 1 THEN 0 ELSE loans[Len(loans) - 1].owed[t])
                         + (IF t = s THEN back ELSE 0)
    <3>1. Len(loans) \in 1 .. Len(loans)
      BY <1>1
    <3> QED
      BY <3>1 DEF IInv, LoansOK, StackOK
  <2>3. Owed(t)' = IF Len(loans) = 1 THEN 0 ELSE loans[Len(loans) - 1].owed[t]
    <3>1. CASE Len(loans) = 1
      <4>1. loans' = <<>>
        BY <1>4, <3>1
      <4> QED
        BY <3>1, <4>1 DEF Owed
    <3>2. CASE Len(loans) # 1
      <4>1. loans' # <<>> /\ loans'[Len(loans')] = loans[Len(loans) - 1]
        BY <1>1, <1>4, <3>2
      <4> QED
        BY <3>2, <4>1 DEF Owed
    <3> QED
      BY <3>1, <3>2
  <2> QED
    BY <2>1, <2>2, <2>3
<1> HIDE DEF back
<1>6. \A t \in Silos : Owed(t) \in Nat /\ Owed(t)' \in Nat
  <2>1. \A t \in Silos : Owed(t) \in Nat
    BY <1>1, OwedNat
  <2>2. \A t \in Silos : Owed(t)' \in Nat
    <3> SUFFICES ASSUME NEW t \in Silos PROVE Owed(t)' \in Nat
      OBVIOUS
    <3>1. loans' # <<>> => loans'[Len(loans')] \in FlashLoan
      BY <1>4
    <3> QED
      BY <3>1 DEF Owed, FlashLoan
  <2> QED
    BY <2>1, <2>2
<1>7. m \in Ledger /\ LedgerOK(m, Owed(s)') /\ m.supply = ledger[s].supply
  <2>1. ledger[s] \in Ledger /\ LedgerOK(ledger[s], Owed(s))
    BY <1>2 DEF IInv, LedgersOK
  <2>2. LedgerOK(ledger[s], Owed(s)' + back)
    BY <1>5, <2>1
  <2> HIDE DEF back
  <2> QED
    BY <1>2, <1>6, <2>1, <2>2, ReturnedOK
<1> HIDE DEF m
<1>8. /\ l \in [Silos -> Ledger]
      /\ \A t \in Silos : LedgerOK(l[t], Owed(t)') /\ l[t].supply = ledger[t].supply
  <2>1. l \in [Silos -> Ledger]
    BY <1>2, <1>7 DEF IInv, LedgersOK
  <2>2. LedgerOK(l[s], Owed(s)') /\ l[s].supply = ledger[s].supply
    BY <1>2, <1>7 DEF IInv, LedgersOK
  <2>3. ASSUME NEW t \in Silos, t # s PROVE LedgerOK(l[t], Owed(t)') /\ l[t].supply = ledger[t].supply
    <3>1. l[t] = ledger[t] /\ Owed(t)' = Owed(t)
      <4>1. l[t] = ledger[t]
        BY <1>2, <2>3 DEF IInv, LedgersOK
      <4>2. Owed(t)' = Owed(t)
        BY <1>5, <1>6, <2>3
      <4> QED
        BY <4>1, <4>2
    <3> QED
      BY <3>1 DEF IInv, LedgersOK
  <2> QED
    BY <2>1, <2>2, <2>3
<1> HIDE DEF l
<1>9. LedgersOK' /\ TokensOK'
  BY <1>3, <1>8, SameSupplies DEF IInv
<1>10. StackOK'
  <2> SUFFICES ASSUME NEW i \in 1 .. Len(loans'), NEW t \in Silos
               PROVE  loans'[i].owed[t] =
                        (IF i = 1 THEN 0 ELSE loans'[i - 1].owed[t])
                          + (IF t = loans'[i].silo THEN loans'[i].amount + loans'[i].fee ELSE 0)
    BY DEF StackOK
  <2>1. i \in 1 .. Len(loans) /\ loans'[i] = loans[i] /\ (i # 1 => loans'[i - 1] = loans[i - 1])
    BY <1>1, <1>4
  <2> QED
    BY <2>1 DEF IInv, LoansOK, StackOK
<1> QED
  BY <1>3, <1>4, <1>9, <1>10 DEF IInv, OthersOK, LoansOK

\* Every step keeps the inductive invariant.
LEMMA NextOK == IInv /\ [Next]_vars => IInv'
<1> SUFFICES ASSUME IInv, [Next]_vars PROVE IInv'
  OBVIOUS
<1>1. ASSUME NEW s \in Silos, SiloNext(s) PROVE IInv'
  <2>1. ASSUME NEW u \in Users, NEW in \in Inputs(s), NEW r \in Rcomps,
               NEW type \in CollateralType, Deposit(s, u, type, in, r)
        PROVE  IInv'
    BY <2>1, DepositStep
  <2>2. ASSUME NEW u \in Users, NEW in \in Inputs(s), NEW r \in Rcomps, Repay(s, u, in, r)
        PROVE  IInv'
    BY <2>2, RepayStep
  <2>3. ASSUME NEW u \in Users, NEW in \in Inputs(s), NEW r \in [Silos -> Rcomps],
               NEW type \in CollateralType, Withdraw(s, u, type, in, r)
        PROVE  IInv'
    BY <2>3, WithdrawStep
  <2>4. ASSUME NEW u \in Users, NEW in \in Inputs(s), NEW r \in [Silos -> Rcomps], Borrow(s, u, in, r)
        PROVE  IInv'
    BY <2>4, BorrowStep
  <2>5. ASSUME NEW u \in Users, NEW type \in CollateralType, NEW n \in ShareInputs[s],
               NEW r \in [Silos -> Rcomps], TransitionCollateral(s, u, type, n, r)
        PROVE  IInv'
    BY <2>5, TransitionCollateralStep
  <2>6. ASSUME NEW u \in Users, NEW v \in Users, NEW n \in TransferInputs[s],
               NEW r \in [Silos -> Rcomps], NEW type \in CollateralType,
               TransferCollateral(s, type, u, v, n, r)
        PROVE  IInv'
    BY <2>6, TransferCollateralStep
  <2>7. ASSUME NEW u \in Users, NEW v \in Users, NEW n \in TransferInputs[s],
               NEW r \in [Silos -> Rcomps], TransferDebt(s, u, v, n, r)
        PROVE  IInv'
    BY <2>7, TransferDebtStep
  <2>8. ASSUME NEW r \in Rcomps, Accrue(s, r) \/ WithdrawFees(s, r) PROVE IInv'
    BY <2>8, AccrueStep, WithdrawFeesStep
  <2>9. ASSUME NEW n \in FlashInputs[s], BeginFlashLoan(s, n) PROVE IInv'
    BY <2>9, BeginFlashLoanStep
  <2>10. ASSUME NEW n \in DonationInputs[s], Donate(s, n) PROVE IInv'
    BY <2>10, DonateStep
  <2> QED
    BY <1>1, <2>1, <2>2, <2>3, <2>4, <2>5, <2>6, <2>7, <2>8, <2>9, <2>10 DEF SiloNext
<1>2. CASE EndFlashLoan
  BY <1>2, EndFlashLoanStep
<1>3. CASE NewBlock
  BY <1>3, NewBlockStep
<1>4. CASE UNCHANGED vars
  <2>1. /\ \A s \in Silos : Owed(s)' = Owed(s)
        /\ UNCHANGED <<ledger, balance, collateralSilo, loans, price, blocks>>
    BY <1>4 DEF vars, Owed
  <2>2. LedgersOK' /\ TokensOK'
    BY <2>1 DEF IInv, LedgersOK, TokensOK
  <2> QED
    BY <2>1, <2>2, LoansKept DEF IInv, OthersOK
<1> QED
  BY <1>1, <1>2, <1>3, <1>4 DEF Next

\* Every reachable state satisfies the inductive invariant.
THEOREM Invariance == Spec => []IInv
BY InitOK, NextOK, PTL DEF Spec

\* The type invariant: no total, balance or remainder of the code underflows
\* and the collateral total stays below the cap of its interest.
THEOREM TypeCorrect == Spec => []TypeOK
<1>1. IInv => TypeOK
  BY DEF IInv, LedgersOK, TokensOK, LoansOK, OthersOK, LedgerOK, Balances, TypeOK
<1> QED
  BY <1>1, Invariance, PTL

\* The books and the tokens of a Silo agree to the unit, after any calls.
THEOREM CashAccountedAlways == Spec => []CashAccounted
<1>1. IInv => CashAccounted
  BY DEF IInv, LedgersOK, LedgerOK, CashAccounted
<1> QED
  BY <1>1, Invariance, PTL

\* The debt of a Silo is covered by what its collateral, fees and surplus are.
THEOREM DebtCoveredAlways == Spec => []DebtCovered
<1>1. IInv => DebtCovered
  BY DEF IInv, LedgersOK, LedgerOK, DebtCovered
<1> QED
  BY <1>1, Invariance, PTL

\* The inductive invariant pays what getLiquidity answers.
LEMMA FundedOK == IInv => LiquidityFunded
<1> SUFFICES ASSUME IInv, NEW s \in Silos, Owed(s) = 0
             PROVE  /\ ledger[s].assets["Protected"] <= ledger[s].cash
                    /\ LedgerLiquidity(ledger[s])
                         <= Liquidity(ledger[s].cash, ledger[s].assets["Protected"] + ledger[s].revenue)
  BY DEF LiquidityFunded
<1>1. ledger[s] \in Ledger /\ LedgerOK(ledger[s], Owed(s))
  BY DEF IInv, LedgersOK
<1> QED
  BY <1>1, LedgerFunded

\* Outside of flash loans a Silo can pay all the liquidity it answers and all
\* its protected deposits and booked fees.
THEOREM LiquidityFundedAlways == Spec => []LiquidityFunded
BY FundedOK, Invariance, PTL

\* What is counted by adding up one user after the other is the sum.
LEMMA SumsOK == IInv => SupplyIsSum
<1> SUFFICES ASSUME IInv, NEW s \in Silos, NEW t \in AssetType
             PROVE  ledger[s].supply[t] = Total(balance[s][t])
  BY DEF SupplyIsSum
<1>1. balance[s][t] \in [Users -> Nat] /\ AddsUpTo(balance[s][t], SuppliesOf(ledger)[s][t])
  BY DEF IInv, TokensOK, Balances, SharesOK
<1>2. SuppliesOf(ledger)[s][t] = ledger[s].supply[t]
  BY DEF SuppliesOf
<1> QED
  BY <1>1, <1>2, TotalOfSupply

\* The balances of a share token add up to its total supply, after any calls:
\* mints, burns and transfers move both or none.
THEOREM SupplyIsSumAlways == Spec => []SupplyIsSum
BY SumsOK, Invariance, PTL

-----------------------------------------------------------------------------
(* Positions: who owes to which Silo, against which collateral.            *)

Positions == NoDebtInBothSilos /\ DebtHasCollateralSilo

\* A mint changes one balance.
LEMMA MintedAt ==
  ASSUME balance \in Balances, NEW s \in Silos, NEW t \in AssetType, NEW u \in Users, NEW k,
         NEW s2 \in Silos, NEW t2 \in AssetType, NEW u2 \in Users, <<s2, t2, u2>> # <<s, t, u>>
  PROVE  Minted(balance, s, t, u, k)[s2][t2][u2] = balance[s2][t2][u2]
BY DEF Minted, Balances

\* A burn changes one balance.
LEMMA BurnedAt ==
  ASSUME NEW bal \in Balances, NEW s \in Silos, NEW t \in AssetType, NEW u \in Users, NEW k,
         NEW s2 \in Silos, NEW t2 \in AssetType, NEW u2 \in Users
  PROVE  Burned(bal, s, t, u, k)[s2][t2][u2] =
           IF s2 = s /\ t2 = t /\ u2 = u THEN bal[s2][t2][u2] - k ELSE bal[s2][t2][u2]
BY DEF Burned, Balances

\* What a transfer does to the balances of others, of the sender and of the
\* recipient, who may be the sender.
LEMMA TransferredAt ==
  ASSUME NEW bal \in Balances, NEW s \in Silos, NEW t \in AssetType,
         NEW u \in Users, NEW v \in Users, NEW k,
         NEW s2 \in Silos, NEW t2 \in AssetType, NEW u2 \in Users, <<s2, t2, u2>> # <<s, t, v>>
  PROVE  Transferred(bal, s, t, u, v, k)[s2][t2][u2] =
           IF s2 = s /\ t2 = t /\ u2 = u THEN bal[s2][t2][u2] - k ELSE bal[s2][t2][u2]
<1>1. Transferred(bal, s, t, u, v, k)[s2][t2][u2] = Burned(bal, s, t, u, k)[s2][t2][u2]
  BY DEF Transferred, Minted, Burned, Balances
<1> QED
  BY <1>1, BurnedAt

\* The collateral Silo of u is left alone or set for a debt that is new or was
\* backed by the Silo it is owed to.
Pinned(u) ==
  \A s \in Silos : HasDebt(u, s) /\ HasDebt(u, s)' /\ collateralSilo[u] # s
                  => collateralSilo'[u] = collateralSilo[u]

\* A step in which nobody starts to owe and no collateral Silo is set
LEMMA PositionsKept ==
  ASSUME Positions, UNCHANGED collateralSilo,
         \A u \in Users, s \in Silos : HasDebt(u, s)' => HasDebt(u, s)
  PROVE  Positions' /\ \A u \in Users : Pinned(u)
BY DEF Positions, NoDebtInBothSilos, DebtHasCollateralSilo, Silos, Pinned

\* borrow: no other debt, and the other Silo behind this one
LEMMA BorrowPositions ==
  ASSUME IInv, Positions, NEW s \in Silos, NEW u \in Users,
         NEW in \in Inputs(s), NEW rcomp \in [Silos -> Rcomps], Borrow(s, u, in, rcomp)
  PROVE  Positions' /\ \A v \in Users : Pinned(v)
<1> DEFINE k == LoanOf(BothAccrued(rcomp)[s], in).shares
<1>1. /\ balance' = Minted(balance, s, "Debt", u, k)
      /\ collateralSilo' = [collateralSilo EXCEPT ![u] = OtherSilo(s)]
      /\ ~HasDebt(u, OtherSilo(s))
  BY DEF Borrow
<1> HIDE DEF k
<1>2. balance \in Balances /\ collateralSilo \in [Users -> Silos \cup {NoSilo}] /\ "Debt" \in AssetType
  BY DEF IInv, TokensOK, OthersOK, AssetType
<1>3. OtherSilo(s) \in Silos \ {s} /\ \A t \in Silos : t = s \/ t = OtherSilo(s)
  BY MarketAssumption DEF OtherSilo, Silos
<1>4. \A v \in Users, t \in Silos : v # u \/ t # s => (HasDebt(v, t)' <=> HasDebt(v, t))
  BY <1>1, <1>2, MintedAt DEF HasDebt
<1>5. ~HasDebt(u, OtherSilo(s))'
  BY <1>1, <1>3, <1>4
<1>6. NoDebtInBothSilos'
  BY <1>3, <1>4, <1>5 DEF Positions, NoDebtInBothSilos, Silos
<1>7. DebtHasCollateralSilo'
  BY <1>1, <1>2, <1>3, <1>4 DEF Positions, DebtHasCollateralSilo
<1>8. ASSUME NEW v \in Users PROVE Pinned(v)
  BY <1>1, <1>2, <1>3, MarketAssumption DEF Positions, DebtHasCollateralSilo, Pinned
<1> QED
  BY <1>6, <1>7, <1>8 DEF Positions

\* onDebtTransfer: no other debt of the recipient, who has or gets the collateral
\* Silo of the sender.
LEMMA TransferDebtPositions ==
  ASSUME IInv, Positions, NEW s \in Silos, NEW u \in Users, NEW v \in Users,
         NEW n \in TransferInputs[s], NEW rcomp \in [Silos -> Rcomps],
         TransferDebt(s, u, v, n, rcomp)
  PROVE  Positions' /\ \A w \in Users : Pinned(w)
<1>1. /\ n # 0
      /\ n <= balance[s]["Debt"][u]
      /\ ~HasDebt(v, OtherSilo(s))
      /\ collateralSilo' =
           IF collateralSilo[v] = NoSilo
           THEN [collateralSilo EXCEPT ![v] = collateralSilo[u]]
           ELSE collateralSilo
      /\ balance' = Transferred(balance, s, "Debt", u, v, n)
  BY DEF TransferDebt
<1>2. balance \in Balances /\ collateralSilo \in [Users -> Silos \cup {NoSilo}] /\ "Debt" \in AssetType
  BY DEF IInv, TokensOK, OthersOK, AssetType
<1>3. OtherSilo(s) \in Silos \ {s} /\ \A t \in Silos : t = s \/ t = OtherSilo(s)
  BY MarketAssumption DEF OtherSilo, Silos
<1>4. n \in Nat
  BY MarketAssumption
<1>5. HasDebt(u, s)
  <2>1. balance[s]["Debt"][u] \in Nat
    BY <1>2 DEF Balances
  <2> QED
    BY <1>1, <1>4, <2>1 DEF HasDebt
<1>6. collateralSilo[u] \in Silos
  BY <1>5 DEF Positions, DebtHasCollateralSilo
<1>7. ASSUME NEW w \in Users, NEW t \in Silos, w # v \/ t # s, HasDebt(w, t)' PROVE HasDebt(w, t)
  <2>1. balance'[t]["Debt"][w] =
          IF t = s /\ w = u THEN balance[t]["Debt"][w] - n ELSE balance[t]["Debt"][w]
    BY <1>1, <1>2, <1>7, TransferredAt
  <2> QED
    BY <1>5, <1>7, <2>1 DEF HasDebt
<1>8. NoDebtInBothSilos'
  BY <1>1, <1>3, <1>7 DEF Positions, NoDebtInBothSilos, Silos
<1>9. DebtHasCollateralSilo'
  BY <1>1, <1>2, <1>6, <1>7, MarketAssumption DEF Positions, DebtHasCollateralSilo
<1>10. ASSUME NEW w \in Users PROVE Pinned(w)
  BY <1>1, <1>2, MarketAssumption DEF Positions, DebtHasCollateralSilo, Pinned
<1> QED
  BY <1>8, <1>9, <1>10 DEF Positions

\* No other call makes anybody owe or sets a collateral Silo,
LEMMA NobodyStartsToOwe ==
  ASSUME IInv, NEW s \in Silos,
         \/ \E u \in Users, in \in Inputs(s), r \in Rcomps :
              (\E type \in CollateralType : Deposit(s, u, type, in, r)) \/ Repay(s, u, in, r)
         \/ \E u \in Users, in \in Inputs(s), r \in [Silos -> Rcomps], type \in CollateralType :
              Withdraw(s, u, type, in, r)
         \/ \E u \in Users, type \in CollateralType, n \in ShareInputs[s], r \in [Silos -> Rcomps] :
              TransitionCollateral(s, u, type, n, r)
         \/ \E u, v \in Users, n \in TransferInputs[s], r \in [Silos -> Rcomps],
               type \in CollateralType : TransferCollateral(s, type, u, v, n, r)
  PROVE  /\ \A w \in Users, t \in Silos : HasDebt(w, t)' => HasDebt(w, t)
         /\ UNCHANGED collateralSilo
<1>1. balance \in Balances
  BY DEF IInv, TokensOK
<1>2. "Debt" \in AssetType /\ "Debt" \notin CollateralType /\ CollateralType \subseteq AssetType
  BY DEF AssetType, CollateralType
<1> DEFINE Kept == \A w \in Users, t \in Silos : HasDebt(w, t)' => HasDebt(w, t)
<1>3. ASSUME NEW u \in Users, NEW in \in Inputs(s), NEW r \in Rcomps, NEW type \in CollateralType,
             Deposit(s, u, type, in, r)
      PROVE  Kept /\ UNCHANGED collateralSilo
  <2> DEFINE k == DepositOf(AccrueInterest(ledger[s], r), type, in).shares
  <2>1. balance' = Minted(balance, s, type, u, k) /\ UNCHANGED collateralSilo
    BY <1>3 DEF Deposit
  <2> HIDE DEF k
  <2> QED
    BY <1>1, <1>2, <2>1, MintedAt DEF HasDebt
<1>4. ASSUME NEW u \in Users, NEW in \in Inputs(s), NEW r \in Rcomps, Repay(s, u, in, r)
      PROVE  Kept /\ UNCHANGED collateralSilo
  <2> DEFINE l == AccrueInterest(ledger[s], r)
             k == RepaymentOf(l, balance[s]["Debt"][u], in).shares
  <2>1. balance' = Burned(balance, s, "Debt", u, k) /\ UNCHANGED collateralSilo
    BY <1>4 DEF Repay
  <2>2. l \in Ledger
    BY AccruedOK, MarketAssumption DEF IInv
  <2>3. balance[s]["Debt"][u] \in Nat
    BY <1>1, <1>2 DEF Balances
  <2> HIDE DEF l
  <2>4. k \in Nat /\ k <= balance[s]["Debt"][u]
    BY <2>2, <2>3, InputsAmounts, RepaymentBound
  <2> HIDE DEF k
  <2>5. ASSUME NEW w \in Users, NEW t \in Silos, HasDebt(w, t)' PROVE HasDebt(w, t)
    <3>1. balance'[t]["Debt"][w] =
            IF t = s /\ w = u THEN balance[t]["Debt"][w] - k ELSE balance[t]["Debt"][w]
      BY <1>1, <1>2, <2>1, BurnedAt
    <3> QED
      BY <2>3, <2>4, <2>5, <3>1 DEF HasDebt
  <2> QED
    BY <2>1, <2>5
<1>5. ASSUME NEW u \in Users, NEW in \in Inputs(s), NEW r \in [Silos -> Rcomps],
             NEW type \in CollateralType, Withdraw(s, u, type, in, r)
      PROVE  Kept /\ UNCHANGED collateralSilo
  <2> DEFINE k == WithdrawalOf(BothAccrued(r)[s], type, in).shares
  <2>1. balance' = Burned(balance, s, type, u, k) /\ UNCHANGED collateralSilo
    BY <1>5 DEF Withdraw
  <2> HIDE DEF k
  <2> QED
    BY <1>1, <1>2, <2>1, BurnedAt DEF HasDebt
<1>6. ASSUME NEW u \in Users, NEW type \in CollateralType, NEW n \in ShareInputs[s],
             NEW r \in [Silos -> Rcomps], TransitionCollateral(s, u, type, n, r)
      PROVE  Kept /\ UNCHANGED collateralSilo
  <2> DEFINE l   == BothAccrued(r)
             to  == IF type = "Collateral" THEN "Protected" ELSE "Collateral"
             out == WithdrawalOf(l[s], type, [assets |-> 0, shares |-> n])
             mid == Withdrawn(l[s], type, out)
             k   == DepositOf(mid, to, [assets |-> out.assets, shares |-> 0]).shares
  <2>1. /\ balance' = Minted(Burned(balance, s, type, u, n), s, to, u, k)
        /\ UNCHANGED collateralSilo
    BY <1>6 DEF TransitionCollateral
  <2>2. to \in CollateralType
    BY DEF CollateralType
  <2> HIDE DEF to, k
  <2>3. ASSUME NEW w \in Users, NEW t \in Silos PROVE balance'[t]["Debt"][w] = balance[t]["Debt"][w]
    BY <1>1, <1>2, <2>1, <2>2 DEF Minted, Burned, Balances
  <2> QED
    BY <2>1, <2>3 DEF HasDebt
<1>7. ASSUME NEW u \in Users, NEW v \in Users, NEW n \in TransferInputs[s],
             NEW r \in [Silos -> Rcomps], NEW type \in CollateralType,
             TransferCollateral(s, type, u, v, n, r)
      PROVE  Kept /\ UNCHANGED collateralSilo
  <2>1. balance' = Transferred(balance, s, type, u, v, n) /\ UNCHANGED collateralSilo
    BY <1>7 DEF TransferCollateral
  <2> QED
    BY <1>1, <1>2, <2>1, TransferredAt DEF HasDebt
<1>8. Kept /\ UNCHANGED collateralSilo
  <2> HIDE DEF Kept
  <2> QED
    BY <1>3, <1>4, <1>5, <1>6, <1>7
<1> QED
  BY <1>8

\* ... so that the positions are kept.
LEMMA OtherPositions ==
  ASSUME IInv, Positions, NEW s \in Silos,
         \/ \E u \in Users, in \in Inputs(s), r \in Rcomps :
              (\E type \in CollateralType : Deposit(s, u, type, in, r)) \/ Repay(s, u, in, r)
         \/ \E u \in Users, in \in Inputs(s), r \in [Silos -> Rcomps], type \in CollateralType :
              Withdraw(s, u, type, in, r)
         \/ \E u \in Users, type \in CollateralType, n \in ShareInputs[s], r \in [Silos -> Rcomps] :
              TransitionCollateral(s, u, type, n, r)
         \/ \E u, v \in Users, n \in TransferInputs[s], r \in [Silos -> Rcomps],
               type \in CollateralType : TransferCollateral(s, type, u, v, n, r)
  PROVE  Positions' /\ \A u \in Users : Pinned(u)
BY NobodyStartsToOwe, PositionsKept

\* Every step keeps the positions.
LEMMA PositionsStep ==
  ASSUME IInv, Positions, [Next]_vars
  PROVE  Positions' /\ \A u \in Users : Pinned(u)
<1>1. ASSUME UNCHANGED <<balance, collateralSilo>> PROVE Positions' /\ \A u \in Users : Pinned(u)
  BY <1>1, PositionsKept DEF HasDebt
<1>2. ASSUME NEW s \in Silos, SiloNext(s) PROVE Positions' /\ \A u \in Users : Pinned(u)
  <2>1. ASSUME NEW u \in Users, NEW in \in Inputs(s), NEW r \in [Silos -> Rcomps], Borrow(s, u, in, r)
        PROVE  Positions' /\ \A v \in Users : Pinned(v)
    BY <2>1, BorrowPositions
  <2>2. ASSUME NEW u \in Users, NEW v \in Users, NEW n \in TransferInputs[s],
               NEW r \in [Silos -> Rcomps], TransferDebt(s, u, v, n, r)
        PROVE  Positions' /\ \A w \in Users : Pinned(w)
    BY <2>2, TransferDebtPositions
  <2>3. ASSUME NEW r \in Rcomps, Accrue(s, r) \/ WithdrawFees(s, r)
        PROVE  UNCHANGED <<balance, collateralSilo>>
    BY <2>3 DEF Accrue, WithdrawFees
  <2>4. ASSUME NEW n, BeginFlashLoan(s, n) \/ Donate(s, n)
        PROVE  UNCHANGED <<balance, collateralSilo>>
    BY <2>4 DEF BeginFlashLoan, Donate
  <2> HIDE DEF Positions
  <2> QED
    BY <1>1, <1>2, <2>1, <2>2, <2>3, <2>4, OtherPositions DEF SiloNext
<1>3. EndFlashLoan \/ NewBlock \/ UNCHANGED vars => UNCHANGED <<balance, collateralSilo>>
  BY DEF EndFlashLoan, NewBlock, vars
<1> QED
  BY <1>1, <1>2, <1>3 DEF Next

\* Positions are kept along with the inductive invariant.
LEMMA PositionsAlways == Spec => [](IInv /\ Positions)
<1>1. Init => Positions
  BY MarketAssumption DEF Init, Positions, NoDebtInBothSilos, DebtHasCollateralSilo, HasDebt, Silos, AssetType
<1>2. IInv /\ Positions /\ [Next]_vars => (IInv /\ Positions)'
  BY NextOK, PositionsStep
<1> QED
  BY <1>1, <1>2, InitOK, PTL DEF Spec

\* However a debt came about, by loans or by transfers of debt shares, nobody
\* owes to both Silos (getDebtSilo, hasDebtInOtherSilo).
THEOREM NoDebtInBothSilosAlways == Spec => []NoDebtInBothSilos
<1>1. Positions => NoDebtInBothSilos
  BY DEF Positions
<1> QED
  BY <1>1, PositionsAlways, PTL

\* Whoever owes has a collateral Silo, so getConfigsForSolvency finds one.
THEOREM DebtHasCollateralSiloAlways == Spec => []DebtHasCollateralSilo
<1>1. Positions => DebtHasCollateralSilo
  BY DEF Positions
<1> QED
  BY <1>1, PositionsAlways, PTL

\* No step exchanges the collateral Silo behind a lasting debt of the other one.
THEOREM DebtPinsCollateralAlways == Spec => DebtPinsCollateral
<1>1. IInv /\ Positions /\ [Next]_vars =>
        [\A u \in Users, s \in Silos :
           HasDebt(u, s) /\ HasDebt(u, s)' /\ collateralSilo[u] # s
             => collateralSilo'[u] = collateralSilo[u]]_vars
  BY PositionsStep DEF Pinned
<1> QED
  BY <1>1, PositionsAlways, PTL DEF Spec, DebtPinsCollateral

-----------------------------------------------------------------------------
(* The rounding of Math.mulDiv.                                            *)

\* A quotient times its divisor stays below the dividend, by less than it.
LEMMA Quotient ==
  ASSUME NEW n \in Nat, NEW c \in Nat \ {0}
  PROVE  /\ n \div c \in Nat
         /\ c * (n \div c) <= n
         /\ n < c * (n \div c) + c
OBVIOUS

\* Rounded down, the result is the last one that does not exceed the ratio.
LEMMA FloorBound ==
  ASSUME NEW a \in Nat, NEW b \in Nat, NEW c \in Nat \ {0}
  PROVE  /\ MulDiv(a, b, c, Floor) \in Nat
         /\ c * MulDiv(a, b, c, Floor) <= a * b
         /\ a * b < c * MulDiv(a, b, c, Floor) + c
<1>1. a * b \in Nat
  OBVIOUS
<1>2. MulDiv(a, b, c, Floor) = (a * b) \div c
  BY DEF MulDiv
<1> QED
  BY <1>1, <1>2, Quotient

\* Rounded up, it is the first one that is not below the ratio.
LEMMA CeilBound ==
  ASSUME NEW a \in Nat, NEW b \in Nat, NEW c \in Nat \ {0}
  PROVE  /\ MulDiv(a, b, c, Ceil) \in Nat
         /\ a * b <= c * MulDiv(a, b, c, Ceil)
         /\ c * MulDiv(a, b, c, Ceil) < a * b + c
<1> DEFINE n == a * b + (c - 1)
<1>1. a * b \in Nat /\ n \in Nat
  OBVIOUS
<1>2. MulDiv(a, b, c, Ceil) = n \div c
  BY DEF MulDiv, Ceil, Floor
<1>3. n \div c \in Nat /\ c * (n \div c) <= n /\ n < c * (n \div c) + c
  BY <1>1, Quotient
<1>4. c * (n \div c) \in Nat
  BY <1>3
<1> QED
  BY <1>1, <1>2, <1>3, <1>4

\* Assets and shares that a conversion by these totals pairs, for assets that
\* leave the Silo and for assets that come in: one of the two was given, the
\* other one is rounded in favour of the Silo.
PaidOut(a, s, totalAssets, totalShares) ==
  \/ s = MulDiv(a, totalShares, totalAssets, Ceil)
  \/ a = MulDiv(s, totalAssets, totalShares, Floor)

PaidIn(a, s, totalAssets, totalShares) ==
  \/ s = MulDiv(a, totalShares, totalAssets, Floor)
  \/ a = MulDiv(s, totalAssets, totalShares, Ceil)

\* As long as a share is worth an asset or more, a loan mints no more shares
\* than the assets it takes.
LEMMA LoanFair ==
  ASSUME NEW A \in Nat, NEW S \in Nat \ {0}, S <= A,
         NEW a \in Nat, NEW s \in Nat, PaidOut(a, s, A, S)
  PROVE  s <= a
<1>1. A \in Nat \ {0}
  OBVIOUS
<1>2. CASE s = MulDiv(a, S, A, Ceil)
  <2>1. A * s < a * S + A
    BY <1>1, <1>2, CeilBound
  <2>2. a * S <= a * A
    OBVIOUS
  <2>3. ASSUME s >= a + 1 PROVE FALSE
    <3>1. A * (a + 1) <= A * s
      BY <2>3
    <3>2. A * (a + 1) = a * A + A
      OBVIOUS
    <3> QED
      BY <2>1, <2>2, <3>1, <3>2
  <2> QED
    BY <2>3
<1>3. CASE a = MulDiv(s, A, S, Floor)
  <2>1. s * A < S * a + S
    BY <1>3, FloorBound
  <2>2. s * S <= s * A
    OBVIOUS
  <2>3. ASSUME a + 1 <= s PROVE FALSE
    <3>1. (a + 1) * S <= s * S
      BY <2>3
    <3>2. (a + 1) * S = S * a + S
      OBVIOUS
    <3> QED
      BY <2>1, <2>2, <3>1, <3>2
  <2> QED
    BY <2>3
<1> QED
  BY <1>2, <1>3 DEF PaidOut

\* A repayment leaves no more shares than assets, and no asset without a share.
LEMMA RepaymentFair ==
  ASSUME NEW A \in Nat, NEW S \in Nat \ {0}, S <= A,
         NEW a \in Nat, NEW s \in Nat, a <= A, s <= S, PaidIn(a, s, A, S)
  PROVE  /\ S - s <= A - a
         /\ S - s = 0 => A - a = 0
<1> DEFINE rest == A - a
           left == S - s
<1>1. rest \in Nat /\ left \in Nat /\ A \in Nat \ {0}
  OBVIOUS
<1>2. a = A - rest /\ s = S - left
  OBVIOUS
<1>3. a * S = A * S - rest * S /\ A * s = A * S - A * left
  BY <1>1
<1>4. rest * S \in Nat /\ A * left \in Nat /\ A * S \in Nat
  BY <1>1
<1>5. left = 0 => A * left = 0
  BY <1>1
<1>6. rest * S = 0 => rest = 0
  BY <1>1
<1>7. CASE s = MulDiv(a, S, A, Floor)
  <2>1. A * s <= a * S /\ a * S < A * s + A
    BY <1>1, <1>7, FloorBound
  <2> HIDE DEF rest, left
  <2>2. rest * S <= A * left /\ A * left < rest * S + A
    BY <1>1, <1>3, <1>4, <2>1
  <2>3. rest * S <= rest * A
    BY <1>1
  <2>4. ASSUME left >= rest + 1 PROVE FALSE
    <3>1. A * (rest + 1) <= A * left
      BY <1>1, <2>4
    <3>2. A * (rest + 1) = rest * A + A
      BY <1>1
    <3> QED
      BY <1>1, <1>4, <2>2, <2>3, <3>1, <3>2
  <2>5. left = 0 => rest = 0
    BY <1>4, <1>5, <1>6, <2>2
  <2>6. left <= rest
    BY <1>1, <2>4
  <2> QED
    BY <2>5, <2>6 DEF rest, left
<1>8. CASE a = MulDiv(s, A, S, Ceil)
  <2>1. s * A <= S * a /\ S * a < s * A + S
    BY <1>8, CeilBound
  <2> HIDE DEF rest, left
  <2>2. rest * S <= A * left /\ A * left < rest * S + S
    BY <1>1, <1>3, <1>4, <2>1
  <2>3. left * S <= A * left
    BY <1>1
  <2>4. ASSUME left >= rest + 1 PROVE FALSE
    <3>1. (rest + 1) * S <= left * S
      BY <1>1, <2>4
    <3>2. (rest + 1) * S = rest * S + S
      BY <1>1
    <3> QED
      BY <1>1, <1>4, <2>2, <2>3, <3>1, <3>2
  <2>5. left = 0 => rest = 0
    BY <1>4, <1>5, <1>6, <2>2
  <2>6. left <= rest
    BY <1>1, <2>4
  <2> QED
    BY <2>5, <2>6 DEF rest, left
<1> QED
  BY <1>7, <1>8 DEF PaidIn

-----------------------------------------------------------------------------
(* The debt of one Silo.                                                   *)

DebtFair(totalAssets, totalShares) ==
  /\ totalShares <= totalAssets
  /\ totalShares = 0 => totalAssets = 0

LedgerFair(l) == DebtFair(l.assets["Debt"], l.supply["Debt"])

\* The first loan mints a share for each asset, and a conversion without any
\* share is never a division by zero (convertToAssetsOrToShares).
LEMMA DebtConversion ==
  ASSUME NEW in \in Amounts, NEW A \in Nat, NEW S \in Nat, NEW toAssets, NEW toShares
  PROVE  LET x == Converted(in, A, S, toAssets, toShares, "Debt")
         IN  /\ S = 0 => x.assets = x.shares
             /\ S # 0 => \/ x.shares = MulDiv(x.assets, S, A, toShares)
                         \/ x.assets = MulDiv(x.shares, A, S, toAssets)
<1>1. CommonShares(S, "Debt") = S /\ (S # 0 => CommonAssets(A, S, "Debt") = A)
  BY DEF CommonShares, CommonAssets
<1> QED
  BY <1>1 DEF Converted, ConvertToAssets, ConvertToShares

\* Interest only adds to the debt, and never to a debt of nobody.
LEMMA WithInterestFair ==
  ASSUME NEW l \in Ledger, LedgerFair(l), NEW rcomp \in Nat
  PROVE  LedgerFair(WithInterest(l, rcomp))
<1> DEFINE debt       == l.assets["Debt"]
           interest   == AccruedInterest(debt, rcomp)
           fees       == MulDivOverflow(interest, DaoAndDeployerFee)
           credited   == SmallerOf(interest - fees, MaxUint - l.assets["Collateral"])
           collateral == l.assets["Collateral"] + credited
           apply      == FractionsApply(debt, collateral)
           more       == IF apply THEN FractionIntegral(debt, rcomp, l.fractions.interest) ELSE 0
<1>1. debt \in Nat /\ l.fractions.interest \in 0 .. (Precision - 1) /\ l.supply["Debt"] \in Nat
  BY LedgerFields DEF AssetType
<1>2. interest \in Nat /\ (debt = 0 => interest = 0)
  <2>1. interest \in Nat
    BY <1>1, AccruedInterestNat
  <2>2. ASSUME debt = 0 PROVE MulDivOverflow(debt, rcomp) = 0
    <3>1. debt * rcomp = 0 /\ 0 \div Precision = 0
      BY <2>2, MathAssumption
    <3> QED
      BY <3>1 DEF MulDivOverflow
  <2> HIDE DEF debt
  <2>3. debt = 0 => interest = 0
    BY <2>2 DEF AccruedInterest
  <2> QED
    BY <2>1, <2>3
<1>3. more \in Nat /\ (debt = 0 => more = 0)
  <2>1. /\ FractionIntegral(debt, rcomp, l.fractions.interest) \in {0, 1}
        /\ debt = 0 => FractionIntegral(debt, rcomp, l.fractions.interest) = 0
    BY <1>1, FractionBound
  <2> HIDE DEF apply, debt
  <2> QED
    BY <2>1
<1>4. WithInterest(l, rcomp).assets["Debt"] = debt + (interest + more)
  <2> HIDE DEF interest, fees, credited, collateral, apply, more
  <2> QED
    BY DEF WithInterest, Ledger, AssetType, interest, fees, credited, collateral, apply, more
<1>5. WithInterest(l, rcomp).supply = l.supply
  BY DEF WithInterest, Ledger
<1> HIDE DEF debt, interest, more
<1> QED
  BY <1>1, <1>2, <1>3, <1>4, <1>5 DEF LedgerFair, DebtFair, debt

\* accrueInterestForAsset, whatever the clock says.
LEMMA AccrueInterestFair ==
  ASSUME NEW l \in Ledger, LedgerFair(l), NEW rcomp \in Nat
  PROVE  LedgerFair(AccrueInterest(l, rcomp))
<1>1. LedgerFair([l EXCEPT !.clock = "now"])
  BY DEF LedgerFair, Ledger
<1> QED
  BY <1>1, WithInterestFair DEF AccrueInterest

\* SiloLendingLib.borrow
LEMMA BorrowFair ==
  ASSUME NEW l \in Ledger, LedgerFair(l), NEW in \in Amounts, Moves(LoanOf(l, in))
  PROVE  LedgerFair(Paid(Borrowed(l, LoanOf(l, in)), LoanOf(l, in).assets))
<1> DEFINE A == l.assets["Debt"]
           S == l.supply["Debt"]
           x == LoanOf(l, in)
<1>1. A \in Nat /\ S \in Nat /\ DebtFair(A, S)
  BY LedgerFields DEF LedgerFair, AssetType
<1>2. x \in Amounts
  BY <1>1, ConvertedNat DEF LoanOf
<1>3. /\ S = 0 => x.assets = x.shares
      /\ S # 0 => PaidOut(x.assets, x.shares, A, S)
  BY <1>1, DebtConversion DEF LoanOf, PaidOut
<1>4. /\ Paid(Borrowed(l, x), x.assets).assets["Debt"] = A + x.assets
      /\ Paid(Borrowed(l, x), x.assets).supply["Debt"] = S + x.shares
  BY DEF Paid, Borrowed, Ledger, AssetType
<1> HIDE DEF A, S, x
<1>5. x.assets \in Nat /\ x.shares \in Nat /\ x.shares # 0
  BY <1>2 DEF Amounts, Moves, x
<1>6. S # 0 => x.shares <= x.assets
  BY <1>1, <1>3, <1>5, LoanFair DEF DebtFair
<1>7. DebtFair(A + x.assets, S + x.shares)
  BY <1>1, <1>3, <1>5, <1>6 DEF DebtFair
<1> QED
  BY <1>4, <1>7 DEF LedgerFair, x

\* SiloLendingLib.repay
LEMMA RepayFair ==
  ASSUME NEW l \in Ledger, LedgerFair(l), NEW in \in Amounts,
         NEW owes \in Nat, owes <= l.supply["Debt"],
         CanRepay(l, RepaymentOf(l, owes, in))
  PROVE  LET x == RepaymentOf(l, owes, in)
         IN  LedgerFair(Received(Repaid(l, x), x.assets))
<1> DEFINE A == l.assets["Debt"]
           S == l.supply["Debt"]
           x == RepaymentOf(l, owes, in)
           asked == Converted(in, A, S, Ceil, Floor, "Debt")
           all == [assets |-> 0, shares |-> owes]
           cut == Converted(all, A, S, Ceil, Floor, "Debt")
<1>1. A \in Nat /\ S \in Nat /\ DebtFair(A, S)
  BY LedgerFields DEF LedgerFair, AssetType
<1>2. x \in Amounts /\ x.shares <= owes
  BY RepaymentBound
<1>3. all \in Amounts
  BY DEF Amounts
<1>4. S # 0 => /\ PaidIn(asked.assets, asked.shares, A, S)
               /\ PaidIn(cut.assets, cut.shares, A, S)
  <2> HIDE DEF all, A, S
  <2> QED
    BY <1>1, <1>3, DebtConversion DEF PaidIn
<1>5. x = asked \/ x = cut
  BY DEF RepaymentOf
<1>6. x.assets # 0 /\ x.assets <= A
  BY DEF CanRepay, Moves
<1>7. /\ Received(Repaid(l, x), x.assets).assets["Debt"] = A - x.assets
      /\ Received(Repaid(l, x), x.assets).supply["Debt"] = S - x.shares
  BY DEF Received, Repaid, Ledger, AssetType
<1>8. owes <= S
  OBVIOUS
<1> HIDE DEF A, S, x, asked, cut
<1>9. x.assets \in Nat /\ x.shares \in Nat /\ x.shares <= S
  BY <1>1, <1>2, <1>8 DEF Amounts
<1>10. S # 0
  BY <1>1, <1>6, <1>9 DEF DebtFair
<1>11. PaidIn(x.assets, x.shares, A, S)
  BY <1>4, <1>5, <1>10
<1>12. DebtFair(A - x.assets, S - x.shares)
  <2>1. S <= A
    BY <1>1 DEF DebtFair
  <2> QED
    BY <1>1, <1>6, <1>9, <1>10, <1>11, <2>1, RepaymentFair DEF DebtFair
<1> QED
  BY <1>7, <1>12 DEF LedgerFair, x

-----------------------------------------------------------------------------
(* The market.                                                             *)

\* Accrued or not, the ledgers of the market keep the debt fair.
LEMMA MarketAccruedFair ==
  ASSUME IInv, DebtSharesCovered, NEW t \in Silos
  PROVE  /\ ledger[t] \in Ledger /\ LedgerFair(ledger[t])
         /\ \A r \in Rcomps : LedgerFair(AccrueInterest(ledger[t], r))
         /\ \A r \in [Silos -> Rcomps] : LedgerFair(BothAccrued(r)[t])
<1>1. ledger[t] \in Ledger /\ LedgerFair(ledger[t])
  BY DEF IInv, LedgersOK, DebtSharesCovered, LedgerFair, DebtFair
<1>2. ASSUME NEW r \in Rcomps PROVE LedgerFair(AccrueInterest(ledger[t], r))
  BY <1>1, AccrueInterestFair, MarketAssumption
<1>3. ASSUME NEW r \in [Silos -> Rcomps] PROVE LedgerFair(BothAccrued(r)[t])
  <2>1. r[t] \in Rcomps
    OBVIOUS
  <2> QED
    BY <1>2, <2>1 DEF BothAccrued
<1> QED
  BY <1>1, <1>2, <1>3

\* A step that writes one ledger.
LEMMA OneLedgerFair ==
  ASSUME NEW l, l \in [Silos -> Ledger], \A t \in Silos : LedgerFair(l[t]),
         NEW s \in Silos, NEW m, LedgerFair(m), ledger' = [l EXCEPT ![s] = m]
  PROVE  DebtSharesCovered'
<1>1. \A t \in Silos : LedgerFair(ledger'[t])
  OBVIOUS
<1> QED
  BY <1>1 DEF DebtSharesCovered, LedgerFair, DebtFair

\* What a step on the ledger of one Silo leaves of its debt.
SameDebt(l, m) ==
  /\ m.assets["Debt"] = l.assets["Debt"]
  /\ m.supply["Debt"] = l.supply["Debt"]

\* Deposits, withdrawals and moves between them do not write the debt.
LEMMA CollateralSameDebt ==
  ASSUME NEW l \in Ledger, NEW type \in CollateralType, NEW x
  PROVE  /\ SameDebt(l, Received(Deposited(l, type, x), x.assets))
         /\ SameDebt(l, Paid(Withdrawn(l, type, x), x.assets))
BY DEF SameDebt, Received, Deposited, Paid, Withdrawn, Ledger, CollateralType, AssetType

\* The same debt is as fair as it was.
LEMMA SameDebtFair ==
  ASSUME NEW l, NEW m, SameDebt(l, m), LedgerFair(l)
  PROVE  LedgerFair(m)
BY DEF SameDebt, LedgerFair

\* deposit and mint
LEMMA DepositFair ==
  ASSUME IInv, DebtSharesCovered, NEW s \in Silos, NEW u \in Users,
         NEW type \in CollateralType, NEW in \in Inputs(s), NEW rcomp \in Rcomps,
         Deposit(s, u, type, in, rcomp)
  PROVE  DebtSharesCovered'
<1> DEFINE l == AccrueInterest(ledger[s], rcomp)
           x == DepositOf(l, type, in)
           m == Received(Deposited(l, type, x), x.assets)
<1>1. l \in Ledger /\ LedgerFair(l)
  BY AccruedOK, MarketAccruedFair, MarketAssumption DEF IInv
<1>2. ledger' = [ledger EXCEPT ![s] = m]
  BY DEF Deposit
<1> HIDE DEF l, x
<1>3. LedgerFair(m)
  BY <1>1, CollateralSameDebt, SameDebtFair
<1> HIDE DEF m
<1>4. ledger \in [Silos -> Ledger] /\ \A t \in Silos : LedgerFair(ledger[t])
  BY MarketAccruedFair DEF IInv, LedgersOK
<1> QED
  BY <1>2, <1>3, <1>4, OneLedgerFair

\* Both ledgers after accrueInterestForBothSilos.
LEMMA BothFair ==
  ASSUME IInv, DebtSharesCovered, NEW rcomp \in [Silos -> Rcomps]
  PROVE  /\ BothAccrued(rcomp) \in [Silos -> Ledger]
         /\ \A t \in Silos : LedgerFair(BothAccrued(rcomp)[t])
<1>1. rcomp \in [Silos -> Nat]
  BY MarketAssumption
<1> QED
  BY <1>1, BothAccruedOK, MarketAccruedFair DEF IInv

\* withdraw and redeem
LEMMA WithdrawFair ==
  ASSUME IInv, DebtSharesCovered, NEW s \in Silos, NEW u \in Users,
         NEW type \in CollateralType, NEW in \in Inputs(s), NEW rcomp \in [Silos -> Rcomps],
         Withdraw(s, u, type, in, rcomp)
  PROVE  DebtSharesCovered'
<1> DEFINE l == BothAccrued(rcomp)
           x == WithdrawalOf(l[s], type, in)
           m == Paid(Withdrawn(l[s], type, x), x.assets)
<1>1. l \in [Silos -> Ledger] /\ \A t \in Silos : LedgerFair(l[t])
  BY BothFair
<1>2. ledger' = [l EXCEPT ![s] = m]
  BY DEF Withdraw
<1> HIDE DEF l, x
<1>3. LedgerFair(m)
  <2>1. l[s] \in Ledger /\ LedgerFair(l[s])
    BY <1>1
  <2> QED
    BY <2>1, CollateralSameDebt, SameDebtFair
<1> HIDE DEF m
<1> QED
  BY <1>1, <1>2, <1>3, OneLedgerFair

\* transitionCollateral
LEMMA TransitionFair ==
  ASSUME IInv, DebtSharesCovered, NEW s \in Silos, NEW u \in Users,
         NEW from \in CollateralType, NEW n \in ShareInputs[s], NEW rcomp \in [Silos -> Rcomps],
         TransitionCollateral(s, u, from, n, rcomp)
  PROVE  DebtSharesCovered'
<1> DEFINE l   == BothAccrued(rcomp)
           to  == IF from = "Collateral" THEN "Protected" ELSE "Collateral"
           out == WithdrawalOf(l[s], from, [assets |-> 0, shares |-> n])
           mid == Withdrawn(l[s], from, out)
           in  == DepositOf(mid, to, [assets |-> out.assets, shares |-> 0])
           m   == Deposited(mid, to, in)
<1>1. l \in [Silos -> Ledger] /\ \A t \in Silos : LedgerFair(l[t])
  BY BothFair
<1>2. ledger' = [l EXCEPT ![s] = m]
  BY DEF TransitionCollateral
<1>3. to \in CollateralType
  BY DEF CollateralType
<1> HIDE DEF l, out, in, to
<1>4. SameDebt(l[s], m)
  <2>1. l[s] \in Ledger
    BY <1>1
  <2> QED
    BY <1>3, <2>1 DEF SameDebt, Deposited, Withdrawn, Ledger, CollateralType, AssetType
<1> HIDE DEF m
<1>5. LedgerFair(m)
  BY <1>1, <1>4, SameDebtFair
<1> QED
  BY <1>1, <1>2, <1>5, OneLedgerFair

\* borrow and borrowShares
LEMMA BorrowStepFair ==
  ASSUME IInv, DebtSharesCovered, NEW s \in Silos, NEW u \in Users,
         NEW in \in Inputs(s), NEW rcomp \in [Silos -> Rcomps], Borrow(s, u, in, rcomp)
  PROVE  DebtSharesCovered'
<1> DEFINE l == BothAccrued(rcomp)
           x == LoanOf(l[s], in)
           m == Paid(Borrowed(l[s], x), x.assets)
<1>1. l \in [Silos -> Ledger] /\ \A t \in Silos : LedgerFair(l[t])
  BY BothFair
<1>2. ledger' = [l EXCEPT ![s] = m] /\ Moves(x)
  BY DEF Borrow, CanBorrow
<1> HIDE DEF l
<1>3. LedgerFair(m)
  <2>1. l[s] \in Ledger /\ LedgerFair(l[s])
    BY <1>1
  <2> QED
    BY <1>2, <2>1, InputsAmounts, BorrowFair
<1> HIDE DEF m, x
<1> QED
  BY <1>1, <1>2, <1>3, OneLedgerFair

\* repay and repayShares
LEMMA RepayStepFair ==
  ASSUME IInv, DebtSharesCovered, NEW s \in Silos, NEW u \in Users,
         NEW in \in Inputs(s), NEW rcomp \in Rcomps, Repay(s, u, in, rcomp)
  PROVE  DebtSharesCovered'
<1> DEFINE l == AccrueInterest(ledger[s], rcomp)
           owes == balance[s]["Debt"][u]
           x == RepaymentOf(l, owes, in)
           m == Received(Repaid(l, x), x.assets)
<1>1. l \in Ledger /\ LedgerFair(l) /\ l.supply = ledger[s].supply
  BY AccruedOK, MarketAccruedFair, MarketAssumption DEF IInv
<1>2. owes \in Nat /\ owes <= ledger[s].supply["Debt"]
  <2>1. "Debt" \in AssetType
    BY DEF AssetType
  <2> QED
    BY <2>1, HoldingBound DEF IInv
<1>3. ledger' = [ledger EXCEPT ![s] = m] /\ CanRepay(l, x)
  BY DEF Repay
<1> HIDE DEF l, owes
<1>4. LedgerFair(m)
  <2>1. owes <= l.supply["Debt"]
    BY <1>1, <1>2
  <2> QED
    BY <1>1, <1>2, <1>3, <2>1, InputsAmounts, RepayFair
<1> HIDE DEF m, x
<1>5. ledger \in [Silos -> Ledger] /\ \A t \in Silos : LedgerFair(ledger[t])
  BY MarketAccruedFair DEF IInv, LedgersOK
<1> QED
  BY <1>3, <1>4, <1>5, OneLedgerFair

\* Calls that move no debt of the ledger they write, or accrue interest only:
\* fees, flash loans, donations and the clock.
LEMMA OtherFair ==
  ASSUME IInv, DebtSharesCovered,
         \/ \E s \in Silos, r \in Rcomps : Accrue(s, r) \/ WithdrawFees(s, r)
         \/ \E s \in Silos, n \in Nat : BeginFlashLoan(s, n) \/ Donate(s, n)
         \/ EndFlashLoan
         \/ NewBlock
  PROVE  DebtSharesCovered'
<1>1. ledger \in [Silos -> Ledger] /\ \A t \in Silos : LedgerFair(ledger[t])
  BY MarketAccruedFair DEF IInv, LedgersOK
<1>2. ASSUME NEW s \in Silos, NEW r \in Rcomps, Accrue(s, r) \/ WithdrawFees(s, r)
      PROVE  DebtSharesCovered'
  <2> DEFINE l == AccrueInterest(ledger[s], r)
  <2>1. l \in Ledger /\ LedgerFair(l)
    BY AccruedOK, MarketAccruedFair, MarketAssumption DEF IInv
  <2>2. \/ ledger' = [ledger EXCEPT ![s] = l]
        \/ ledger' = [ledger EXCEPT ![s] = FeesWithdrawn(l)]
    BY <1>2 DEF Accrue, WithdrawFees
  <2> HIDE DEF l
  <2>3. SameDebt(l, FeesWithdrawn(l))
    BY <2>1 DEF SameDebt, FeesWithdrawn, Paid, Ledger
  <2>4. LedgerFair(FeesWithdrawn(l))
    BY <2>1, <2>3, SameDebtFair
  <2> QED
    BY <1>1, <2>1, <2>2, <2>4, OneLedgerFair
<1>3. ASSUME NEW s \in Silos, NEW n \in Nat, BeginFlashLoan(s, n) \/ Donate(s, n)
      PROVE  DebtSharesCovered'
  <2>1. \/ ledger' = [ledger EXCEPT ![s] = FlashLent(ledger[s], n)]
        \/ ledger' = [ledger EXCEPT ![s] = Donated(ledger[s], n)]
    BY <1>1, <1>3 DEF BeginFlashLoan, Donate
  <2>2. /\ SameDebt(ledger[s], FlashLent(ledger[s], n))
        /\ SameDebt(ledger[s], Donated(ledger[s], n))
    BY <1>1 DEF SameDebt, FlashLent, Donated, Received, Paid, Ledger
  <2>3. LedgerFair(FlashLent(ledger[s], n)) /\ LedgerFair(Donated(ledger[s], n))
    BY <1>1, <2>2, SameDebtFair
  <2> QED
    BY <1>1, <2>1, <2>3, OneLedgerFair
<1>4. CASE EndFlashLoan
  <2> DEFINE s == loans[Len(loans)].silo
             n == loans[Len(loans)].amount + loans[Len(loans)].fee
             m == Received(ledger[s], n)
  <2>1. s \in Silos
    <3>1. loans[Len(loans)] \in FlashLoan
      BY <1>4 DEF EndFlashLoan, IInv, LoansOK
    <3> QED
      BY <3>1 DEF FlashLoan
  <2>2. ledger' = [ledger EXCEPT ![s] = m]
    BY <1>1, <1>4, <2>1 DEF EndFlashLoan
  <2> HIDE DEF s, n
  <2>3. SameDebt(ledger[s], m)
    BY <1>1, <2>1 DEF SameDebt, Received, Ledger
  <2> HIDE DEF m
  <2>4. LedgerFair(m)
    BY <1>1, <2>1, <2>3, SameDebtFair
  <2> QED
    BY <1>1, <2>1, <2>2, <2>4, OneLedgerFair
<1>5. CASE NewBlock
  <2>1. \A t \in Silos : SameDebt(ledger[t], ledger'[t])
    BY <1>1, <1>5 DEF NewBlock, SameDebt, Ledger
  <2> QED
    BY <1>1, <2>1 DEF SameDebt, LedgerFair, DebtFair, DebtSharesCovered
<1> QED
  BY <1>2, <1>3, <1>4, <1>5

\* Transfers of shares accrue interest and no more.
LEMMA TransferFair ==
  ASSUME IInv, DebtSharesCovered,
         NEW s, NEW u, NEW v, NEW n, NEW r \in [Silos -> Rcomps],
         \/ TransferDebt(s, u, v, n, r)
         \/ \E type \in CollateralType : TransferCollateral(s, type, u, v, n, r)
  PROVE  DebtSharesCovered'
<1>1. \A t \in Silos : LedgerFair(ledger[t]) /\ LedgerFair(BothAccrued(r)[t])
  BY MarketAccruedFair
<1>2. ledger' = ledger \/ ledger' = BothAccrued(r)
  BY DEF TransferDebt, TransferCollateral
<1> QED
  BY <1>1, <1>2 DEF DebtSharesCovered, LedgerFair, DebtFair

\* Every step keeps the debt shares covered.
LEMMA DebtStep == IInv /\ DebtSharesCovered /\ [Next]_vars => DebtSharesCovered'
<1> SUFFICES ASSUME IInv, DebtSharesCovered, [Next]_vars PROVE DebtSharesCovered'
  OBVIOUS
<1>1. ASSUME NEW s \in Silos, SiloNext(s) PROVE DebtSharesCovered'
  <2>1. ASSUME NEW u \in Users, NEW in \in Inputs(s), NEW r \in Rcomps,
               (\E type \in CollateralType : Deposit(s, u, type, in, r)) \/ Repay(s, u, in, r)
        PROVE  DebtSharesCovered'
    BY <2>1, DepositFair, RepayStepFair
  <2>2. ASSUME NEW u \in Users, NEW in \in Inputs(s), NEW r \in [Silos -> Rcomps],
               (\E type \in CollateralType : Withdraw(s, u, type, in, r)) \/ Borrow(s, u, in, r)
        PROVE  DebtSharesCovered'
    BY <2>2, WithdrawFair, BorrowStepFair
  <2>3. ASSUME NEW u \in Users, NEW type \in CollateralType, NEW n \in ShareInputs[s],
               NEW r \in [Silos -> Rcomps], TransitionCollateral(s, u, type, n, r)
        PROVE  DebtSharesCovered'
    BY <2>3, TransitionFair
  <2>4. ASSUME NEW u \in Users, NEW v \in Users, NEW n \in TransferInputs[s],
               NEW r \in [Silos -> Rcomps],
               (\E type \in CollateralType : TransferCollateral(s, type, u, v, n, r))
                 \/ TransferDebt(s, u, v, n, r)
        PROVE  DebtSharesCovered'
    BY <2>4, TransferFair
  <2>5. ASSUME NEW r \in Rcomps, Accrue(s, r) \/ WithdrawFees(s, r) PROVE DebtSharesCovered'
    BY <2>5, OtherFair
  <2>6. ASSUME NEW n \in FlashInputs[s], BeginFlashLoan(s, n) PROVE DebtSharesCovered'
    BY <2>6, OtherFair, MarketAssumption
  <2>7. ASSUME NEW n \in DonationInputs[s], Donate(s, n) PROVE DebtSharesCovered'
    BY <2>7, OtherFair, MarketAssumption
  <2> QED
    BY <1>1, <2>1, <2>2, <2>3, <2>4, <2>5, <2>6, <2>7 DEF SiloNext
<1>2. CASE EndFlashLoan \/ NewBlock
  BY <1>2, OtherFair
<1>3. CASE UNCHANGED vars
  BY <1>3 DEF vars, DebtSharesCovered
<1> QED
  BY <1>1, <1>2, <1>3 DEF Next

\* One share of debt is worth at least one asset and the last share takes the
\* last asset along: a repayment can never exceed the total debt (RepayTooHigh),
\* no conversion of debt divides by zero, and nobody leaves a debt nobody owes.
THEOREM DebtSharesCoveredAlways == Spec => []DebtSharesCovered
<1>1. Init => DebtSharesCovered
  BY DEF Init, DebtSharesCovered, EmptyLedger, AssetType
<1> QED
  BY <1>1, DebtStep, Invariance, PTL DEF Spec

-----------------------------------------------------------------------------
(* The claims of the holders of shares.                                    *)

\* The ratio by which collateral is converted, and the one of a fair debt.
LEMMA CollateralRatio ==
  ASSUME NEW A \in Nat, NEW S \in Nat, NEW t \in CollateralType
  PROVE  /\ CommonShares(S, t) = S + Offset
         /\ CommonAssets(A, S, t) = IF S = 0 THEN 1 ELSE A + 1
         /\ CommonShares(S, t) \in Nat \ {0}
         /\ CommonAssets(A, S, t) \in Nat \ {0}
BY MathAssumption DEF CommonShares, CommonAssets, CollateralType

\* More assets booked are more assets in a conversion,
LEMMA MoreAssets ==
  ASSUME NEW A \in Nat, NEW B \in Nat, A <= B, NEW S \in Nat, NEW t \in CollateralType
  PROVE  CommonAssets(A, S, t) <= CommonAssets(B, S, t)
BY DEF CommonAssets, CollateralType

\* ... and those of a debt are the booked ones: it has no virtual assets or shares.
LEMMA DebtRatio ==
  ASSUME NEW A \in Nat, NEW S \in Nat, DebtFair(A, S)
  PROVE  CommonShares(S, "Debt") = S /\ CommonAssets(A, S, "Debt") = A
BY DEF CommonShares, CommonAssets, DebtFair

\* Each depositor is answered his share of the collateral, rounded down.
LEMMA ClaimBound ==
  ASSUME NEW b \in Nat, NEW A \in Nat, NEW S \in Nat, NEW t \in CollateralType
  PROVE  /\ ConvertToAssets(b, A, S, Floor, t) \in Nat
         /\ ConvertToAssets(b, A, S, Floor, t) * CommonShares(S, t) <= b * CommonAssets(A, S, t)
<1>1. CommonShares(S, t) \in Nat \ {0} /\ CommonAssets(A, S, t) \in Nat
  BY CollateralRatio
<1>2. ConvertToAssets(b, A, S, Floor, t) = MulDiv(b, CommonAssets(A, S, t), CommonShares(S, t), Floor)
  BY <1>1 DEF ConvertToAssets
<1> DEFINE Q == CommonShares(S, t)
           P == CommonAssets(A, S, t)
<1> HIDE DEF P, Q
<1>3. MulDiv(b, P, Q, Floor) \in Nat /\ Q * MulDiv(b, P, Q, Floor) <= b * P
  BY <1>1, FloorBound DEF P, Q
<1>4. Q * MulDiv(b, P, Q, Floor) = MulDiv(b, P, Q, Floor) * Q
  BY <1>1, <1>3 DEF Q
<1> QED
  BY <1>2, <1>3, <1>4 DEF P, Q

\* Whoever has no more shares than there are is asked for no more than the debt.
LEMMA DemandBound ==
  ASSUME NEW A \in Nat, NEW S \in Nat, DebtFair(A, S), NEW b \in Nat, b <= S
  PROVE  ConvertToAssets(b, A, S, Ceil, "Debt") <= A
<1>1. CommonShares(S, "Debt") = S /\ CommonAssets(A, S, "Debt") = A
  BY DebtRatio
<1>2. CASE S = 0
  BY <1>1, <1>2 DEF ConvertToAssets
<1>3. CASE S # 0
  <2> DEFINE d == MulDiv(b, A, S, Ceil)
  <2>1. d \in Nat /\ S * d < b * A + S
    BY <1>3, CeilBound
  <2>2. b * A <= S * A
    OBVIOUS
  <2>3. ASSUME d >= A + 1 PROVE FALSE
    <3> HIDE DEF d
    <3>1. S * d >= S * (A + 1)
      BY <2>1, <2>3
    <3>2. S * (A + 1) = S * A + S
      OBVIOUS
    <3> QED
      BY <2>1, <2>2, <3>1, <3>2
  <2>4. ConvertToAssets(b, A, S, Ceil, "Debt") = d
    BY <1>1, <1>3 DEF ConvertToAssets
  <2> HIDE DEF d
  <2> QED
    BY <2>1, <2>3, <2>4
<1> QED
  BY <1>2, <1>3

\* Each claim is rounded down, so all of them fit.
LEMMA ClaimsOK == IInv /\ DebtSharesCovered => ClaimsCovered
<1> SUFFICES ASSUME IInv, DebtSharesCovered PROVE ClaimsCovered
  OBVIOUS
<1>1. ASSUME NEW s \in Silos, NEW t \in CollateralType
      PROVE  Total([u \in Users |-> AssetsOf(u, s, t, Floor)]) <= ledger[s].assets[t]
  <2> DEFINE A == ledger[s].assets[t]
             S == ledger[s].supply[t]
             b == balance[s][t]
             c == [u \in Users |-> AssetsOf(u, s, t, Floor)]
             p == CommonAssets(A, S, t)
             q == CommonShares(S, t)
  <2>1. t \in AssetType
    BY DEF CollateralType, AssetType
  <2>2. A \in Nat /\ S \in Nat
    BY <2>1, LedgerFields DEF IInv, LedgersOK
  <2>3. b \in [Users -> Nat] /\ AddsUpTo(b, S)
    BY <2>1 DEF IInv, TokensOK, Balances, SharesOK, SuppliesOf
  <2>4. ASSUME NEW u \in Users PROVE c[u] \in Nat /\ c[u] * q <= b[u] * p
    <3>1. b[u] \in Nat
      BY <2>3
    <3>2. c[u] = ConvertToAssets(b[u], A, S, Floor, t)
      BY DEF AssetsOf
    <3> HIDE DEF A, S, b, c
    <3> QED
      BY <2>2, <3>1, <3>2, ClaimBound
  <2>5. /\ q = S + Offset /\ p = IF S = 0 THEN 1 ELSE A + 1
        /\ q \in Nat \ {0} /\ p \in Nat \ {0}
    BY <2>2, CollateralRatio
  <2>6. c \in [Users -> Nat]
    BY <2>4
  <2> HIDE DEF A, S, b, c, p, q
  <2>7. Total(c) \in Nat /\ Total(c) * q <= S * p
    BY <2>2, <2>3, <2>4, <2>5, <2>6, TotalOfParts
  <2>8. S * p < p * q
    <3>1. p * q = p * S + p * Offset /\ p * Offset > 0
      BY <2>2, <2>5, MathAssumption
    <3> QED
      BY <2>2, <2>5, <3>1, MathAssumption
  <2>9. ASSUME Total(c) >= p PROVE FALSE
    <3>1. Total(c) * q >= p * q
      BY <2>5, <2>7, <2>9
    <3> QED
      BY <2>2, <2>5, <2>7, <2>8, <3>1
  <2>10. Total(c) <= A
    <3>1. Total(c) < p
      BY <2>5, <2>7, <2>9
    <3> QED
      BY <2>2, <2>5, <2>7, <3>1
  <2> QED
    BY <2>10 DEF A, c
<1>2. ASSUME NEW s \in Silos, NEW u \in Users
      PROVE  AssetsOf(u, s, "Debt", Ceil) <= ledger[s].assets["Debt"]
  <2>1. "Debt" \in AssetType
    BY DEF AssetType
  <2>2. /\ ledger[s].assets["Debt"] \in Nat /\ ledger[s].supply["Debt"] \in Nat
        /\ DebtFair(ledger[s].assets["Debt"], ledger[s].supply["Debt"])
    BY <2>1, LedgerFields DEF IInv, LedgersOK, DebtSharesCovered, DebtFair
  <2>3. balance[s]["Debt"][u] \in Nat /\ balance[s]["Debt"][u] <= ledger[s].supply["Debt"]
    BY <2>1, HoldingBound DEF IInv
  <2> QED
    BY <2>2, <2>3, DemandBound DEF AssetsOf
<1> QED
  BY <1>1, <1>2 DEF ClaimsCovered

\* All the depositors of a Silo together never claim more than is booked for
\* them, and no debtor is asked for more than is booked: whoever comes last
\* is paid, and what he owes can be repaid.
THEOREM ClaimsCoveredAlways == Spec => []ClaimsCovered
BY ClaimsOK, Invariance, DebtSharesCoveredAlways, PTL

-----------------------------------------------------------------------------
(* The price of a share, of collateral and of debt.                        *)

\* A share of collateral is worth no less with B assets for T shares than with
\* A assets for S shares, unless no share is left.
NoCheaper(A, S, B, T, t) ==
  T = 0 \/ CommonAssets(A, S, t) * CommonShares(T, t) <= CommonAssets(B, T, t) * CommonShares(S, t)

\* A share of debt costs no more.
NoDearer(A, S, B, T) == T = 0 \/ B * S <= A * T

PriceKept(l, m, t) == NoCheaper(l.assets[t], l.supply[t], m.assets[t], m.supply[t], t)

DebtEased(l, m) ==
  NoDearer(l.assets["Debt"], l.supply["Debt"], m.assets["Debt"], m.supply["Debt"])

\* Nothing that is booked for this type of shares is lost.
NothingLost(l, m, t) ==
  /\ m.supply[t] = l.supply[t]
  /\ l.assets[t] <= m.assets[t]

\* A fee below 100% leaves something of anything.
LEMMA FeeLeavesSome ==
  ASSUME NEW a \in Nat \ {0}, NEW b \in Nat, b < Precision
  PROVE  MulDivOverflow(a, b) < a
<1>1. a * b \in Nat
  OBVIOUS
<1> DEFINE q == (a * b) \div Precision
<1>2. q \in Nat /\ Precision * q <= a * b
  BY <1>1, Quotient, MathAssumption
<1>3. a * b < a * Precision
  BY MathAssumption
<1>4. ASSUME q >= a PROVE FALSE
  <2> HIDE DEF q
  <2>1. Precision * q >= Precision * a
    BY <1>2, <1>4, MathAssumption
  <2>2. Precision * a = a * Precision
    BY MathAssumption
  <2> QED
    BY <1>1, <1>2, <1>3, <2>1, <2>2, MathAssumption
<1> QED
  BY <1>2, <1>4 DEF MulDivOverflow

\* Interest is never taken from the depositors, although the fees are rounded
\* apart from it: the remainder pays for a unit of revenue only after interest.
LEMMA InterestNotLost ==
  ASSUME NEW l \in Ledger, l.assets["Collateral"] <= MaxUint, NEW rcomp \in Nat,
         NEW t \in CollateralType
  PROVE  NothingLost(l, WithInterest(l, rcomp), t)
<1> DEFINE debt       == l.assets["Debt"]
           interest   == AccruedInterest(debt, rcomp)
           fees       == MulDivOverflow(interest, DaoAndDeployerFee)
           lent       == l.assets["Collateral"]
           credited   == SmallerOf(interest - fees, MaxUint - lent)
           collateral == lent + credited
           apply      == FractionsApply(debt, collateral)
           moreInterest == IF apply THEN FractionIntegral(debt, rcomp, l.fractions.interest) ELSE 0
           total        == interest + moreInterest
           moreRevenue  == IF apply THEN FractionIntegral(total, DaoAndDeployerFee, l.fractions.revenue) ELSE 0
<1>1. /\ WithInterest(l, rcomp).supply = l.supply
      /\ WithInterest(l, rcomp).assets["Protected"] = l.assets["Protected"]
      /\ WithInterest(l, rcomp).assets["Collateral"] = collateral + moreInterest - moreRevenue
  <2> HIDE DEF interest, fees, credited, collateral, apply, moreInterest, total, moreRevenue
  <2>1. WithInterest(l, rcomp).supply = l.supply
    BY DEF WithInterest, Ledger
  <2>2. WithInterest(l, rcomp).assets["Protected"] = l.assets["Protected"]
    BY DEF WithInterest, Ledger, AssetType
  <2>3. WithInterest(l, rcomp).assets["Collateral"] = collateral + moreInterest - moreRevenue
    BY DEF WithInterest, Ledger, AssetType, interest, fees, credited, collateral, apply,
           moreInterest, total, moreRevenue, debt, lent
  <2> QED
    BY <2>1, <2>2, <2>3
<1>2. /\ debt \in Nat /\ lent \in Nat /\ lent <= MaxUint
      /\ l.fractions.interest \in 0 .. (Precision - 1)
      /\ l.fractions.revenue \in 0 .. (Precision - 1)
      /\ l.assets["Protected"] \in Nat
  BY LedgerFields
<1>3. DaoAndDeployerFee \in Nat /\ DaoAndDeployerFee < Precision
  BY LedgerAssumption, MathAssumption
<1>4. interest \in Nat
  BY <1>2, AccruedInterestNat
<1>5. fees \in Nat /\ fees <= interest /\ (interest # 0 => fees < interest)
  <2> HIDE DEF interest
  <2> QED
    BY <1>3, <1>4, MulDivOverflowBound, FeeLeavesSome
<1>6. /\ credited \in Nat
      /\ collateral # MaxUint => credited = interest - fees
  <2> HIDE DEF interest, fees, lent
  <2> QED
    BY <1>2, <1>4, <1>5, MathAssumption DEF SmallerOf
<1>7. moreInterest \in {0, 1}
  <2>1. FractionIntegral(debt, rcomp, l.fractions.interest) \in {0, 1}
    BY <1>2, FractionBound
  <2> HIDE DEF apply, debt
  <2> QED
    BY <2>1
<1>8. /\ moreRevenue \in {0, 1}
      /\ moreRevenue = 1 => total # 0 /\ collateral # MaxUint
  <2>1. total \in Nat
    <3> HIDE DEF interest, moreInterest
    <3> QED
      BY <1>4, <1>7
  <2> HIDE DEF total
  <2>2. /\ FractionIntegral(total, DaoAndDeployerFee, l.fractions.revenue) \in {0, 1}
        /\ total = 0 => FractionIntegral(total, DaoAndDeployerFee, l.fractions.revenue) = 0
    BY <1>2, <1>3, <2>1, FractionBound
  <2>3. apply => collateral # MaxUint
    BY DEF FractionsApply
  <2> HIDE DEF apply, collateral
  <2> QED
    BY <2>2, <2>3
<1>9. total = interest + moreInterest /\ collateral = lent + credited
  OBVIOUS
<1> HIDE DEF debt, interest, fees, lent, credited, collateral, apply, moreInterest, total, moreRevenue
<1>10. lent <= collateral + moreInterest - moreRevenue
  <2>1. CASE moreRevenue = 0
    BY <1>2, <1>6, <1>7, <1>9, <2>1
  <2>2. CASE moreRevenue = 1
    BY <1>2, <1>4, <1>5, <1>6, <1>7, <1>8, <1>9, <2>2
  <2> QED
    BY <1>8, <2>1, <2>2
<1> QED
  BY <1>1, <1>2, <1>10 DEF NothingLost, CollateralType, lent

\* accrueInterestForAsset
LEMMA AccrueNothingLost ==
  ASSUME NEW l \in Ledger, l.assets["Collateral"] <= MaxUint, NEW rcomp \in Nat,
         NEW t \in CollateralType
  PROVE  NothingLost(l, AccrueInterest(l, rcomp), t)
<1>1. l.assets[t] \in Nat
  BY LedgerFields DEF CollateralType, AssetType
<1>2. NothingLost(l, [l EXCEPT !.clock = "now"], t)
  BY <1>1 DEF NothingLost, Ledger
<1> QED
  BY <1>2, InterestNotLost DEF AccrueInterest

\* What is not lost keeps the price.
LEMMA NothingLostKeeps ==
  ASSUME NEW l \in Ledger, NEW m \in Ledger, NEW t \in CollateralType, NothingLost(l, m, t)
  PROVE  PriceKept(l, m, t)
<1> DEFINE A == l.assets[t]
           B == m.assets[t]
           S == l.supply[t]
<1>1. A \in Nat /\ B \in Nat /\ S \in Nat /\ A <= B /\ m.supply[t] = S
  BY LedgerFields DEF NothingLost, CollateralType, AssetType
<1> HIDE DEF A, B, S
<1>2. CommonAssets(A, S, t) \in Nat /\ CommonAssets(B, S, t) \in Nat /\ CommonShares(S, t) \in Nat
  BY <1>1, CollateralRatio
<1>3. CommonAssets(A, S, t) <= CommonAssets(B, S, t)
  BY <1>1, MoreAssets
<1>4. \A x, y, z \in Nat : x <= y => x * z <= y * z
  OBVIOUS
<1>5. CommonAssets(A, S, t) * CommonShares(S, t) <= CommonAssets(B, S, t) * CommonShares(S, t)
  BY <1>2, <1>3, <1>4
<1> QED
  BY <1>1, <1>5 DEF PriceKept, NoCheaper, A, B, S

\* First interest, then the call.
LEMMA PriceKeptAfter ==
  ASSUME NEW l \in Ledger, NEW mid \in Ledger, NEW m \in Ledger, NEW t \in CollateralType,
         NothingLost(l, mid, t), PriceKept(mid, m, t)
  PROVE  PriceKept(l, m, t)
<1> DEFINE A == l.assets[t]
           B == mid.assets[t]
           C == m.assets[t]
           S == l.supply[t]
           T == m.supply[t]
<1>1. /\ A \in Nat /\ B \in Nat /\ C \in Nat /\ S \in Nat /\ T \in Nat
      /\ A <= B /\ mid.supply[t] = S
  BY LedgerFields DEF NothingLost, CollateralType, AssetType
<1>2. T # 0 => CommonAssets(B, S, t) * CommonShares(T, t) <= CommonAssets(C, T, t) * CommonShares(S, t)
  BY <1>1 DEF PriceKept, NoCheaper
<1> HIDE DEF A, B, C, S, T
<1> DEFINE a == CommonAssets(A, S, t)
           b == CommonAssets(B, S, t)
           c == CommonAssets(C, T, t)
           s == CommonShares(S, t)
           v == CommonShares(T, t)
<1>3. a \in Nat /\ b \in Nat /\ c \in Nat /\ s \in Nat /\ v \in Nat /\ a <= b
  <2>1. a \in Nat /\ b \in Nat /\ c \in Nat /\ s \in Nat /\ v \in Nat
    BY <1>1, CollateralRatio
  <2>2. a <= b
    BY <1>1, MoreAssets
  <2> QED
    BY <2>1, <2>2
<1>4. T # 0 => b * v <= c * s
  BY <1>2
<1> HIDE DEF a, b, c, s, v
<1>5. a * v <= b * v
  BY <1>3
<1>6. T # 0 => a * v <= c * s
  BY <1>3, <1>4, <1>5
<1> QED
  BY <1>6 DEF PriceKept, NoCheaper, A, C, S, T, a, c, s, v

\* Assets that come in are at least what the shares are worth, and assets that
\* leave at most.
LEMMA RoundedForSilo ==
  ASSUME NEW A \in Nat \ {0}, NEW S \in Nat \ {0}, NEW a \in Nat, NEW k \in Nat
  PROVE  /\ PaidIn(a, k, A, S) => A * k <= a * S
         /\ PaidOut(a, k, A, S) => a * S <= A * k
<1>1. ASSUME k = MulDiv(a, S, A, Floor) PROVE A * k <= a * S
  BY <1>1, FloorBound
<1>2. ASSUME a = MulDiv(k, A, S, Ceil) PROVE A * k <= a * S
  <2>1. k * A <= S * a
    BY <1>2, CeilBound
  <2> QED
    BY <2>1
<1>3. ASSUME k = MulDiv(a, S, A, Ceil) PROVE a * S <= A * k
  BY <1>3, CeilBound
<1>4. ASSUME a = MulDiv(k, A, S, Floor) PROVE a * S <= A * k
  <2>1. S * a <= k * A
    BY <1>4, FloorBound
  <2> QED
    BY <2>1
<1> QED
  BY <1>1, <1>2, <1>3, <1>4 DEF PaidIn, PaidOut

\* A deposit at these totals
LEMMA DepositPrice ==
  ASSUME NEW A \in Nat, NEW S \in Nat, NEW a \in Nat, NEW k \in Nat, NEW t \in CollateralType,
         PaidIn(a, k, CommonAssets(A, S, t), CommonShares(S, t))
  PROVE  NoCheaper(A, S, A + a, S + k, t)
<1> DEFINE P == CommonAssets(A, S, t)
           Q == CommonShares(S, t)
           R == CommonAssets(A + a, S + k, t)
           V == CommonShares(S + k, t)
<1>1. P \in Nat \ {0} /\ Q \in Nat \ {0} /\ Q = S + Offset /\ P = IF S = 0 THEN 1 ELSE A + 1
  BY CollateralRatio
<1>2. V = S + k + Offset /\ (S + k # 0 => R = A + a + 1)
  <2>1. A + a \in Nat /\ S + k \in Nat
    OBVIOUS
  <2> QED
    BY <2>1, CollateralRatio
<1>3. P * k <= a * Q
  BY <1>1, RoundedForSilo
<1> HIDE DEF P, Q, R, V
<1>4. ASSUME S + k # 0 PROVE P * V <= R * Q
  <2>1. V = Q + k /\ R >= P + a /\ R \in Nat
    BY <1>1, <1>2, <1>4, MathAssumption
  <2>2. P * V = P * Q + P * k
    BY <1>1, <2>1
  <2>3. P * Q + a * Q = (P + a) * Q
    BY <1>1
  <2>4. (P + a) * Q <= R * Q
    BY <1>1, <2>1
  <2> QED
    BY <1>1, <1>3, <2>1, <2>2, <2>3, <2>4
<1> QED
  BY <1>4 DEF NoCheaper, P, Q, R, V

\* A withdrawal at these totals
LEMMA WithdrawPrice ==
  ASSUME NEW A \in Nat, NEW S \in Nat, NEW a \in Nat, NEW k \in Nat, NEW t \in CollateralType,
         a <= A, k <= S, PaidOut(a, k, CommonAssets(A, S, t), CommonShares(S, t))
  PROVE  NoCheaper(A, S, A - a, S - k, t)
<1> DEFINE rest == A - a
           left == S - k
           P == CommonAssets(A, S, t)
           Q == CommonShares(S, t)
           R == CommonAssets(rest, left, t)
           V == CommonShares(left, t)
<1>0. rest \in Nat /\ left \in Nat /\ (left # 0 => S # 0)
  OBVIOUS
<1>1. P \in Nat \ {0} /\ Q \in Nat \ {0} /\ Q = S + Offset /\ P = IF S = 0 THEN 1 ELSE A + 1
  BY CollateralRatio
<1>2. V = left + Offset /\ (left # 0 => R = rest + 1)
  <2> HIDE DEF rest, left
  <2> QED
    BY <1>0, CollateralRatio
<1>3. a * Q <= P * k
  BY <1>1, RoundedForSilo
<1> HIDE DEF P, Q, R, V
<1>4. ASSUME left # 0 PROVE P * V <= R * Q
  <2>1. V = Q - k /\ R = P - a /\ R \in Nat /\ V \in Nat
    BY <1>0, <1>1, <1>2, <1>4, MathAssumption
  <2>2. P * V = P * Q - P * k
    BY <1>1, <2>1
  <2>3. R * Q = P * Q - a * Q
    BY <1>1, <2>1
  <2>4. P * Q \in Nat /\ P * k \in Nat /\ a * Q \in Nat
    BY <1>1
  <2> QED
    BY <1>3, <2>2, <2>3, <2>4
<1> QED
  BY <1>4 DEF NoCheaper, P, Q, R, V

\* A loan and a repayment at these totals
LEMMA DebtPrice ==
  ASSUME NEW A \in Nat, NEW S \in Nat, DebtFair(A, S), S # 0, NEW a \in Nat, NEW k \in Nat
  PROVE  /\ PaidOut(a, k, A, S) => NoDearer(A, S, A + a, S + k)
         /\ a <= A /\ k <= S /\ PaidIn(a, k, A, S) => NoDearer(A, S, A - a, S - k)
<1>1. A \in Nat \ {0} /\ S \in Nat \ {0}
  BY DEF DebtFair
<1>2. A * S \in Nat /\ a * S \in Nat /\ A * k \in Nat
  OBVIOUS
<1>3. (A + a) * S = A * S + a * S /\ A * (S + k) = A * S + A * k
  OBVIOUS
<1>4. (A - a) * S = A * S - a * S /\ A * (S - k) = A * S - A * k
  OBVIOUS
<1> QED
  BY <1>1, <1>2, <1>3, <1>4, RoundedForSilo DEF NoDearer

-----------------------------------------------------------------------------
(* What each call does to the prices.                                      *)

\* Both prices of a ledger hold.
PricesHeld(l, m) ==
  /\ \A t \in CollateralType : PriceKept(l, m, t)
  /\ DebtEased(l, m)

\* The same totals make the same price.
LEMMA SamePrice ==
  ASSUME NEW A \in Nat, NEW S \in Nat, NEW t \in CollateralType
  PROVE  NoCheaper(A, S, A, S, t)
<1>1. CommonAssets(A, S, t) \in Nat /\ CommonShares(S, t) \in Nat
  BY CollateralRatio
<1> QED
  BY <1>1 DEF NoCheaper

\* Nothing is lost to the prices when no total changes.
LEMMA SameTotals ==
  ASSUME NEW l \in Ledger, NEW m \in Ledger, m.assets = l.assets, m.supply = l.supply
  PROVE  PricesHeld(l, m)
<1>1. \A t \in CollateralType : NothingLost(l, m, t)
  BY LedgerFields DEF NothingLost, CollateralType, AssetType
<1>2. l.assets["Debt"] \in Nat /\ l.supply["Debt"] \in Nat
  BY LedgerFields DEF AssetType
<1>3. DebtEased(l, m)
  BY <1>2 DEF DebtEased, NoDearer
<1> QED
  BY <1>1, <1>3, NothingLostKeeps DEF PricesHeld

\* A conversion of collateral pairs assets and shares by the ratio of its totals.
LEMMA CollateralConversion ==
  ASSUME NEW in \in Amounts, NEW A \in Nat, NEW S \in Nat, NEW t \in CollateralType
  PROVE  /\ LET x == Converted(in, A, S, Ceil, Floor, t)
            IN  PaidIn(x.assets, x.shares, CommonAssets(A, S, t), CommonShares(S, t))
         /\ LET x == Converted(in, A, S, Floor, Ceil, t)
            IN  PaidOut(x.assets, x.shares, CommonAssets(A, S, t), CommonShares(S, t))
<1>1. CommonShares(S, t) # 0
  BY CollateralRatio
<1> QED
  BY <1>1 DEF Converted, ConvertToAssets, ConvertToShares, PaidIn, PaidOut

\* SiloERC4626Lib.deposit, and the transfer of the tokens
LEMMA DepositedPrices ==
  ASSUME NEW l \in Ledger, NEW type \in CollateralType, NEW in \in Amounts
  PROVE  LET x == DepositOf(l, type, in)
         IN  /\ PriceKept(l, Deposited(l, type, x), type)
             /\ PricesHeld(l, Received(Deposited(l, type, x), x.assets))
<1> DEFINE A == l.assets[type]
           S == l.supply[type]
           x == DepositOf(l, type, in)
           d == Deposited(l, type, x)
           m == Received(d, x.assets)
<1>1. A \in Nat /\ S \in Nat /\ type \in AssetType /\ type # "Debt"
  BY LedgerFields DEF CollateralType, AssetType
<1>2. x \in Amounts /\ PaidIn(x.assets, x.shares, CommonAssets(A, S, type), CommonShares(S, type))
  BY <1>1, ConvertedNat, CollateralConversion DEF DepositOf
<1>3. x.assets \in Nat /\ x.shares \in Nat
  BY <1>2 DEF Amounts
<1> HIDE DEF x
<1>4. /\ d.assets = [l.assets EXCEPT ![type] = @ + x.assets]
      /\ d.supply = [l.supply EXCEPT ![type] = @ + x.shares]
      /\ m.assets = d.assets /\ m.supply = d.supply
  BY DEF Deposited, Received, Ledger
<1> HIDE DEF d, m
<1>5. l.assets \in [AssetType -> Nat] /\ l.supply \in [AssetType -> Nat]
  BY DEF Ledger
<1>6. PriceKept(l, d, type) /\ PriceKept(l, m, type)
  <2>1. d.assets[type] = A + x.assets /\ d.supply[type] = S + x.shares
    BY <1>1, <1>4, <1>5
  <2>2. NoCheaper(A, S, A + x.assets, S + x.shares, type)
    BY <1>1, <1>2, <1>3, DepositPrice
  <2> QED
    BY <1>4, <2>1, <2>2 DEF PriceKept
<1>7. ASSUME NEW t \in CollateralType, t # type PROVE PriceKept(l, m, t)
  <2>1. m.assets[t] = l.assets[t] /\ m.supply[t] = l.supply[t]
    BY <1>4, <1>5, <1>7
  <2>2. l.assets[t] \in Nat /\ l.supply[t] \in Nat
    BY LedgerFields DEF CollateralType, AssetType
  <2> QED
    BY <2>1, <2>2, SamePrice DEF PriceKept
<1>8. DebtEased(l, m)
  <2>1. m.assets["Debt"] = l.assets["Debt"] /\ m.supply["Debt"] = l.supply["Debt"]
    BY <1>1, <1>4, <1>5
  <2> QED
    BY <2>1, LedgerFields DEF DebtEased, NoDearer, AssetType
<1> QED
  BY <1>6, <1>7, <1>8 DEF PricesHeld, x, d, m

\* SiloERC4626Lib.withdraw
LEMMA WithdrawnPrices ==
  ASSUME NEW l \in Ledger, NEW type \in CollateralType, NEW in \in Amounts,
         CanWithdraw(l, type, WithdrawalOf(l, type, in)),
         WithdrawalOf(l, type, in).shares <= l.supply[type]
  PROVE  LET x == WithdrawalOf(l, type, in)
         IN  PricesHeld(l, Withdrawn(l, type, x)) /\ PricesHeld(l, Paid(Withdrawn(l, type, x), x.assets))
<1> DEFINE A == l.assets[type]
           S == l.supply[type]
           x == WithdrawalOf(l, type, in)
           d == Withdrawn(l, type, x)
           m == Paid(d, x.assets)
<1>1. A \in Nat /\ S \in Nat /\ type \in AssetType /\ type # "Debt"
  BY LedgerFields DEF CollateralType, AssetType
<1>2. x \in Amounts /\ PaidOut(x.assets, x.shares, CommonAssets(A, S, type), CommonShares(S, type))
  BY <1>1, ConvertedNat, CollateralConversion DEF WithdrawalOf
<1>3. x.assets \in Nat /\ x.shares \in Nat
  BY <1>2 DEF Amounts
<1>4. x.shares <= S
  OBVIOUS
<1>5. x.assets <= A
  <2>1. x.assets <= IF type = "Collateral" THEN LedgerLiquidity(l) ELSE l.assets["Protected"]
    BY DEF CanWithdraw
  <2>2. LedgerLiquidity(l) \in Nat /\ LedgerLiquidity(l) <= l.assets["Collateral"]
    BY LedgerFields DEF LedgerLiquidity, Liquidity
  <2> HIDE DEF x
  <2> QED
    BY <1>1, <1>3, <2>1, <2>2 DEF CollateralType
<1> HIDE DEF x
<1>6. /\ d.assets = [l.assets EXCEPT ![type] = @ - x.assets]
      /\ d.supply = [l.supply EXCEPT ![type] = @ - x.shares]
      /\ m.assets = d.assets /\ m.supply = d.supply
  BY DEF Withdrawn, Paid, Ledger
<1> HIDE DEF d, m
<1>7. l.assets \in [AssetType -> Nat] /\ l.supply \in [AssetType -> Nat]
  BY DEF Ledger
<1>8. ASSUME NEW t \in CollateralType PROVE PriceKept(l, d, t)
  <2>1. CASE t = type
    <3>1. d.assets[type] = A - x.assets /\ d.supply[type] = S - x.shares
      BY <1>1, <1>6, <1>7
    <3>2. NoCheaper(A, S, A - x.assets, S - x.shares, type)
      BY <1>1, <1>2, <1>3, <1>4, <1>5, WithdrawPrice
    <3> QED
      BY <2>1, <3>1, <3>2 DEF PriceKept
  <2>2. CASE t # type
    <3>1. d.assets[t] = l.assets[t] /\ d.supply[t] = l.supply[t]
      BY <1>6, <1>7, <2>2
    <3>2. l.assets[t] \in Nat /\ l.supply[t] \in Nat
      BY LedgerFields DEF CollateralType, AssetType
    <3> QED
      BY <3>1, <3>2, SamePrice DEF PriceKept
  <2> QED
    BY <2>1, <2>2
<1>9. DebtEased(l, d)
  <2>1. d.assets["Debt"] = l.assets["Debt"] /\ d.supply["Debt"] = l.supply["Debt"]
    BY <1>1, <1>6, <1>7
  <2> QED
    BY <2>1, LedgerFields DEF DebtEased, NoDearer, AssetType
<1>10. PricesHeld(l, d) /\ PricesHeld(l, m)
  BY <1>6, <1>8, <1>9 DEF PricesHeld, PriceKept, DebtEased
<1> QED
  BY <1>10 DEF d, m, x

\* transitionCollateral: a withdrawal and a deposit
LEMMA TransitionedPrices ==
  ASSUME NEW l \in Ledger, NEW from \in CollateralType, NEW to \in CollateralType, from # to,
         NEW n \in Nat, n <= l.supply[from],
         CanWithdraw(l, from, WithdrawalOf(l, from, [assets |-> 0, shares |-> n]))
  PROVE  LET out == WithdrawalOf(l, from, [assets |-> 0, shares |-> n])
             mid == Withdrawn(l, from, out)
             in  == DepositOf(mid, to, [assets |-> out.assets, shares |-> 0])
         IN  PricesHeld(l, Deposited(mid, to, in))
<1> DEFINE all == [assets |-> 0, shares |-> n]
           out == WithdrawalOf(l, from, all)
           mid == Withdrawn(l, from, out)
           moved == [assets |-> out.assets, shares |-> 0]
           in  == DepositOf(mid, to, moved)
           m   == Deposited(mid, to, in)
<1>1. from \in AssetType /\ to \in AssetType /\ from # "Debt" /\ to # "Debt"
  BY DEF CollateralType, AssetType
<1>2. l.assets[from] \in Nat /\ l.supply[from] \in Nat /\ l.assets[to] \in Nat /\ l.supply[to] \in Nat
  BY <1>1, LedgerFields
<1>3. out \in Amounts /\ out.shares = n /\ out.assets \in Nat
  <2>1. all \in Amounts /\ all.assets = 0 /\ all.shares = n
    BY DEF Amounts
  <2> HIDE DEF all
  <2>2. out \in Amounts /\ out.shares = n
    BY <1>2, <2>1, ConvertedNat DEF WithdrawalOf
  <2> QED
    BY <2>2 DEF Amounts
<1>4. all \in Amounts /\ moved \in Amounts /\ moved.assets = out.assets
  <2> HIDE DEF out
  <2> QED
    BY <1>3 DEF Amounts
<1>5. out.assets <= l.assets[from]
  <2>1. out.assets <= IF from = "Collateral" THEN LedgerLiquidity(l) ELSE l.assets["Protected"]
    BY DEF CanWithdraw
  <2>2. LedgerLiquidity(l) \in Nat /\ LedgerLiquidity(l) <= l.assets["Collateral"]
    BY LedgerFields DEF LedgerLiquidity, Liquidity
  <2> HIDE DEF out
  <2> QED
    BY <1>2, <1>3, <2>1, <2>2 DEF CollateralType
<1>6. PricesHeld(l, mid)
  BY <1>3, <1>4, WithdrawnPrices
<1>7. /\ mid \in Ledger
      /\ mid.assets = [l.assets EXCEPT ![from] = @ - out.assets]
      /\ mid.supply = [l.supply EXCEPT ![from] = @ - n]
  <2> HIDE DEF out
  <2>1. l.assets[from] - out.assets \in Nat /\ l.supply[from] - out.shares \in Nat
    BY <1>2, <1>3, <1>5
  <2> DEFINE d == [l EXCEPT !.assets[from] = l.assets[from] - out.assets]
  <2>2. d \in Ledger /\ d.supply[from] = l.supply[from]
    BY <1>1, <2>1, LedgerUpdate DEF Ledger
  <2>3. mid = [d EXCEPT !.supply[from] = l.supply[from] - out.shares]
    BY DEF Withdrawn, Ledger
  <2> HIDE DEF d, mid
  <2>4. mid \in Ledger
    BY <1>1, <2>1, <2>2, <2>3, LedgerUpdate
  <2>5. mid.assets = [l.assets EXCEPT ![from] = @ - out.assets]
    BY DEF mid, Withdrawn, Ledger
  <2>6. mid.supply = [l.supply EXCEPT ![from] = @ - out.shares]
    BY DEF mid, Withdrawn, Ledger
  <2> QED
    BY <1>3, <2>4, <2>5, <2>6
<1> HIDE DEF all, out, mid, moved
<1>8. PriceKept(mid, m, to)
  BY <1>4, <1>7, DepositedPrices
<1> HIDE DEF in
<1>9. /\ m.assets = [mid.assets EXCEPT ![to] = @ + in.assets]
      /\ m.supply = [mid.supply EXCEPT ![to] = @ + in.shares]
  BY <1>7 DEF Deposited, Ledger
<1> HIDE DEF m
<1>10. /\ l.assets \in [AssetType -> Nat] /\ l.supply \in [AssetType -> Nat]
       /\ mid.assets \in [AssetType -> Nat] /\ mid.supply \in [AssetType -> Nat]
  BY <1>7 DEF Ledger
<1>11. PriceKept(l, m, to)
  <2>1. mid.assets[to] = l.assets[to] /\ mid.supply[to] = l.supply[to]
    BY <1>1, <1>7, <1>10
  <2> QED
    BY <1>8, <2>1 DEF PriceKept
<1>12. PriceKept(l, m, from) /\ DebtEased(l, m)
  <2>1. \A t \in AssetType \ {to} : m.assets[t] = mid.assets[t] /\ m.supply[t] = mid.supply[t]
    BY <1>9, <1>10
  <2>2. /\ m.assets[from] = mid.assets[from] /\ m.supply[from] = mid.supply[from]
        /\ m.assets["Debt"] = mid.assets["Debt"] /\ m.supply["Debt"] = mid.supply["Debt"]
    BY <1>1, <2>1 DEF AssetType
  <2> QED
    BY <1>6, <2>2 DEF PricesHeld, PriceKept, DebtEased
<1>13. PricesHeld(l, m)
  <2>1. \A t \in CollateralType : t = from \/ t = to
    BY DEF CollateralType
  <2> QED
    BY <1>11, <1>12, <2>1 DEF PricesHeld
<1> QED
  BY <1>13 DEF m, in, mid, out, all, moved

\* A step that writes the debt of a ledger and no collateral
LEMMA CollateralAlone ==
  ASSUME NEW l \in Ledger, NEW m,
         \A t \in CollateralType : m.assets[t] = l.assets[t] /\ m.supply[t] = l.supply[t],
         DebtEased(l, m)
  PROVE  PricesHeld(l, m)
<1>1. ASSUME NEW t \in CollateralType PROVE PriceKept(l, m, t)
  <2>1. l.assets[t] \in Nat /\ l.supply[t] \in Nat
    BY LedgerFields DEF CollateralType, AssetType
  <2> QED
    BY <2>1, SamePrice DEF PriceKept
<1> QED
  BY <1>1 DEF PricesHeld

\* SiloLendingLib.borrow
LEMMA BorrowedPrices ==
  ASSUME NEW l \in Ledger, LedgerFair(l), NEW in \in Amounts
  PROVE  PricesHeld(l, Paid(Borrowed(l, LoanOf(l, in)), LoanOf(l, in).assets))
<1> DEFINE A == l.assets["Debt"]
           S == l.supply["Debt"]
           x == LoanOf(l, in)
           m == Paid(Borrowed(l, x), x.assets)
<1>1. A \in Nat /\ S \in Nat /\ DebtFair(A, S)
  BY LedgerFields DEF LedgerFair, AssetType
<1>2. x \in Amounts
  BY <1>1, ConvertedNat DEF LoanOf
<1>3. S # 0 => PaidOut(x.assets, x.shares, A, S)
  BY <1>1, DebtConversion DEF LoanOf, PaidOut
<1>4. /\ m.assets["Debt"] = A + x.assets /\ m.supply["Debt"] = S + x.shares
      /\ \A t \in CollateralType : m.assets[t] = l.assets[t] /\ m.supply[t] = l.supply[t]
  BY DEF Paid, Borrowed, Ledger, AssetType, CollateralType
<1> HIDE DEF A, S, x, m
<1>5. x.assets \in Nat /\ x.shares \in Nat
  BY <1>2 DEF Amounts
<1>6. NoDearer(A, S, A + x.assets, S + x.shares)
  <2>1. CASE S = 0
    <3>1. A = 0
      BY <1>1, <2>1 DEF DebtFair
    <3> QED
      BY <1>5, <2>1, <3>1 DEF NoDearer
  <2>2. CASE S # 0
    BY <1>1, <1>3, <1>5, <2>2, DebtPrice
  <2> QED
    BY <2>1, <2>2
<1>7. DebtEased(l, m)
  BY <1>4, <1>6 DEF DebtEased, A, S
<1> QED
  BY <1>4, <1>7, CollateralAlone DEF m, x

\* SiloLendingLib.repay
LEMMA RepaidPrices ==
  ASSUME NEW l \in Ledger, LedgerFair(l), NEW in \in Amounts,
         NEW owes \in Nat, owes <= l.supply["Debt"],
         CanRepay(l, RepaymentOf(l, owes, in))
  PROVE  LET x == RepaymentOf(l, owes, in)
         IN  PricesHeld(l, Received(Repaid(l, x), x.assets))
<1> DEFINE A == l.assets["Debt"]
           S == l.supply["Debt"]
           x == RepaymentOf(l, owes, in)
           m == Received(Repaid(l, x), x.assets)
           asked == Converted(in, A, S, Ceil, Floor, "Debt")
           all == [assets |-> 0, shares |-> owes]
           cut == Converted(all, A, S, Ceil, Floor, "Debt")
<1>1. A \in Nat /\ S \in Nat /\ DebtFair(A, S)
  BY LedgerFields DEF LedgerFair, AssetType
<1>2. x \in Amounts /\ x.shares <= owes
  BY RepaymentBound
<1>3. all \in Amounts
  BY DEF Amounts
<1>4. S # 0 => /\ PaidIn(asked.assets, asked.shares, A, S)
               /\ PaidIn(cut.assets, cut.shares, A, S)
  <2> HIDE DEF all, A, S
  <2> QED
    BY <1>1, <1>3, DebtConversion DEF PaidIn
<1>5. x = asked \/ x = cut
  BY DEF RepaymentOf
<1>6. x.assets <= A
  BY DEF CanRepay
<1>7. /\ m.assets["Debt"] = A - x.assets /\ m.supply["Debt"] = S - x.shares
      /\ \A t \in CollateralType : m.assets[t] = l.assets[t] /\ m.supply[t] = l.supply[t]
  BY DEF Received, Repaid, Ledger, AssetType, CollateralType
<1>8. owes <= S
  OBVIOUS
<1> HIDE DEF A, S, x, m, asked, cut
<1>9. x.assets \in Nat /\ x.shares \in Nat /\ x.shares <= S
  BY <1>1, <1>2, <1>8 DEF Amounts
<1>10. NoDearer(A, S, A - x.assets, S - x.shares)
  <2>1. CASE S = 0
    BY <1>9, <2>1 DEF NoDearer
  <2>2. CASE S # 0
    BY <1>1, <1>4, <1>5, <1>6, <1>9, <2>2, DebtPrice
  <2> QED
    BY <2>1, <2>2
<1>11. DebtEased(l, m)
  BY <1>7, <1>10 DEF DebtEased, A, S
<1> QED
  BY <1>7, <1>11, CollateralAlone DEF m, x

\* What a step may do to a ledger, interest included: only interest may make
\* the debt dearer, and it accrues on a stale clock only.
StepPrices(l, m) ==
  /\ \A t \in CollateralType : PriceKept(l, m, t)
  /\ l.clock # "stale" => DebtEased(l, m)

\* First interest, then a call that keeps the prices
LEMMA AccruedPrices ==
  ASSUME NEW l \in Ledger, NEW owed \in Nat, LedgerOK(l, owed), NEW rcomp \in Nat,
         NEW m \in Ledger, PricesHeld(AccrueInterest(l, rcomp), m)
  PROVE  StepPrices(l, m)
<1> DEFINE mid == AccrueInterest(l, rcomp)
<1>1. mid \in Ledger
  BY AccrueInterestOK
<1>2. ASSUME NEW t \in CollateralType PROVE NothingLost(l, mid, t)
  BY AccrueNothingLost DEF LedgerOK
<1>3. l.clock # "stale" => mid.assets = l.assets /\ mid.supply = l.supply
  BY DEF AccrueInterest, Ledger
<1> HIDE DEF mid
<1>4. ASSUME NEW t \in CollateralType PROVE PriceKept(l, m, t)
  BY <1>1, <1>2, PriceKeptAfter DEF PricesHeld, mid
<1>5. l.clock # "stale" => DebtEased(l, m)
  BY <1>3 DEF PricesHeld, DebtEased, mid
<1> QED
  BY <1>4, <1>5 DEF StepPrices

\* Interest alone, or nothing
LEMMA AccruedAlone ==
  ASSUME NEW l \in Ledger, NEW owed \in Nat, LedgerOK(l, owed)
  PROVE  StepPrices(l, l) /\ \A rcomp \in Nat : StepPrices(l, AccrueInterest(l, rcomp))
<1>1. PricesHeld(l, l)
  BY SameTotals
<1>2. ASSUME NEW rcomp \in Nat PROVE StepPrices(l, AccrueInterest(l, rcomp))
  <2>1. AccrueInterest(l, rcomp) \in Ledger
    BY AccrueInterestOK
  <2> QED
    BY <2>1, SameTotals, AccruedPrices
<1> QED
  BY <1>1, <1>2 DEF StepPrices, PricesHeld

AllPrices == \A t \in Silos : StepPrices(ledger[t], ledger'[t])

\* A call that accrues the interest of one Silo
LEMMA OnePrices ==
  ASSUME IInv, IInv', NEW s \in Silos, NEW r \in Nat, NEW m,
         PricesHeld(AccrueInterest(ledger[s], r), m), ledger' = [ledger EXCEPT ![s] = m]
  PROVE  AllPrices
<1>1. \A t \in Silos : /\ ledger[t] \in Ledger /\ LedgerOK(ledger[t], Owed(t))
                       /\ Owed(t) \in Nat /\ ledger'[t] \in Ledger
  BY OwedNat DEF IInv, LedgersOK, LoansOK
<1>2. ledger'[s] = m /\ \A t \in Silos : t # s => ledger'[t] = ledger[t]
  BY DEF IInv, LedgersOK
<1>3. StepPrices(ledger[s], ledger'[s])
  BY <1>1, <1>2, AccruedPrices
<1>4. ASSUME NEW t \in Silos, t # s PROVE StepPrices(ledger[t], ledger'[t])
  BY <1>1, <1>2, <1>4, AccruedAlone
<1> QED
  BY <1>3, <1>4 DEF AllPrices

\* A call that accrues the interest of both
LEMMA BothPrices ==
  ASSUME IInv, IInv', NEW s \in Silos, NEW r \in [Silos -> Nat], NEW m,
         PricesHeld(BothAccrued(r)[s], m), ledger' = [BothAccrued(r) EXCEPT ![s] = m]
  PROVE  AllPrices
<1>1. \A t \in Silos : /\ ledger[t] \in Ledger /\ LedgerOK(ledger[t], Owed(t))
                       /\ Owed(t) \in Nat /\ ledger'[t] \in Ledger /\ r[t] \in Nat
  BY OwedNat DEF IInv, LedgersOK, LoansOK
<1>2. \A t \in Silos : BothAccrued(r)[t] = AccrueInterest(ledger[t], r[t])
  BY DEF BothAccrued
<1>3. /\ ledger'[s] = m
      /\ \A t \in Silos : t # s => ledger'[t] = AccrueInterest(ledger[t], r[t])
  BY <1>2 DEF BothAccrued
<1>4. StepPrices(ledger[s], ledger'[s])
  BY <1>1, <1>2, <1>3, AccruedPrices
<1>5. ASSUME NEW t \in Silos, t # s PROVE StepPrices(ledger[t], ledger'[t])
  BY <1>1, <1>3, <1>5, AccruedAlone
<1> QED
  BY <1>4, <1>5 DEF AllPrices

\* deposit and mint, repay and repayShares
LEMMA OneSiloPrices ==
  ASSUME IInv, IInv', DebtSharesCovered, NEW s \in Silos, NEW u \in Users,
         NEW in \in Inputs(s), NEW r \in Rcomps,
         (\E type \in CollateralType : Deposit(s, u, type, in, r)) \/ Repay(s, u, in, r)
  PROVE  AllPrices
<1> DEFINE l == AccrueInterest(ledger[s], r)
<1>1. l \in Ledger /\ LedgerFair(l) /\ l.supply = ledger[s].supply /\ r \in Nat /\ in \in Amounts
  BY AccruedOK, MarketAccruedFair, InputsAmounts, MarketAssumption DEF IInv
<1>2. ASSUME NEW type \in CollateralType, Deposit(s, u, type, in, r) PROVE AllPrices
  <2> DEFINE x == DepositOf(l, type, in)
             m == Received(Deposited(l, type, x), x.assets)
  <2>1. ledger' = [ledger EXCEPT ![s] = m]
    BY <1>2 DEF Deposit
  <2> HIDE DEF l
  <2>2. PricesHeld(l, m)
    BY <1>1, DepositedPrices
  <2> HIDE DEF m, x
  <2> QED
    BY <1>1, <2>1, <2>2, OnePrices DEF l
<1>3. CASE Repay(s, u, in, r)
  <2> DEFINE owes == balance[s]["Debt"][u]
             x == RepaymentOf(l, owes, in)
             m == Received(Repaid(l, x), x.assets)
  <2>1. ledger' = [ledger EXCEPT ![s] = m] /\ CanRepay(l, x)
    BY <1>3 DEF Repay
  <2>2. owes \in Nat /\ owes <= l.supply["Debt"]
    <3>1. "Debt" \in AssetType
      BY DEF AssetType
    <3> HIDE DEF l
    <3> QED
      BY <1>1, <3>1, HoldingBound DEF IInv
  <2> HIDE DEF l, owes
  <2>3. PricesHeld(l, m)
    BY <1>1, <2>1, <2>2, RepaidPrices
  <2> HIDE DEF m, x
  <2> QED
    BY <1>1, <2>1, <2>3, OnePrices DEF l
<1> QED
  BY <1>2, <1>3

\* withdraw and redeem, borrow and borrowShares, transitionCollateral
LEMMA BothSilosPrices ==
  ASSUME IInv, IInv', DebtSharesCovered, NEW s \in Silos, NEW u \in Users,
         NEW r \in [Silos -> Rcomps],
         \/ \E in \in Inputs(s) :
              (\E type \in CollateralType : Withdraw(s, u, type, in, r)) \/ Borrow(s, u, in, r)
         \/ \E type \in CollateralType, n \in ShareInputs[s] : TransitionCollateral(s, u, type, n, r)
  PROVE  AllPrices
<1> DEFINE l == BothAccrued(r)
<1>1. r \in [Silos -> Nat]
  BY MarketAssumption
<1>2. /\ l[s] \in Ledger /\ LedgerFair(l[s])
      /\ l[s].supply = ledger[s].supply
  BY <1>1, BothAccruedOK, MarketAccruedFair DEF IInv
<1>3. ASSUME NEW t \in CollateralType
      PROVE  balance[s][t][u] \in Nat /\ balance[s][t][u] <= l[s].supply[t]
  <2>1. t \in AssetType
    BY DEF CollateralType, AssetType
  <2> HIDE DEF l
  <2> QED
    BY <1>2, <2>1, HoldingBound DEF IInv
<1>4. ASSUME NEW in \in Inputs(s), NEW type \in CollateralType, Withdraw(s, u, type, in, r)
      PROVE  AllPrices
  <2> DEFINE x == WithdrawalOf(l[s], type, in)
             m == Paid(Withdrawn(l[s], type, x), x.assets)
  <2>1. /\ ledger' = [l EXCEPT ![s] = m]
        /\ CanWithdraw(l[s], type, x) /\ x.shares <= balance[s][type][u]
    BY <1>4 DEF Withdraw
  <2> HIDE DEF l
  <2>2. in \in Amounts
    BY InputsAmounts
  <2>3. x.shares <= l[s].supply[type]
    <3>1. x \in Amounts
      BY <1>2, <2>2, ConvertedNat, LedgerFields DEF WithdrawalOf, CollateralType, AssetType
    <3>2. x.shares \in Nat /\ l[s].supply[type] \in Nat
      BY <1>2, <3>1, LedgerFields DEF Amounts, CollateralType, AssetType
    <3> HIDE DEF x
    <3> QED
      BY <1>3, <2>1, <3>2
  <2>4. PricesHeld(l[s], m)
    BY <1>2, <2>1, <2>2, <2>3, WithdrawnPrices
  <2> HIDE DEF m, x
  <2> QED
    BY <1>1, <2>1, <2>4, BothPrices DEF l
<1>5. ASSUME NEW in \in Inputs(s), Borrow(s, u, in, r) PROVE AllPrices
  <2> DEFINE x == LoanOf(l[s], in)
             m == Paid(Borrowed(l[s], x), x.assets)
  <2>1. ledger' = [l EXCEPT ![s] = m]
    BY <1>5 DEF Borrow
  <2> HIDE DEF l
  <2>2. PricesHeld(l[s], m)
    BY <1>2, InputsAmounts, BorrowedPrices
  <2> HIDE DEF m, x
  <2> QED
    BY <1>1, <2>1, <2>2, BothPrices DEF l
<1>6. ASSUME NEW type \in CollateralType, NEW n \in ShareInputs[s],
             TransitionCollateral(s, u, type, n, r)
      PROVE  AllPrices
  <2> DEFINE to  == IF type = "Collateral" THEN "Protected" ELSE "Collateral"
             out == WithdrawalOf(l[s], type, [assets |-> 0, shares |-> n])
             mid == Withdrawn(l[s], type, out)
             in  == DepositOf(mid, to, [assets |-> out.assets, shares |-> 0])
             m   == Deposited(mid, to, in)
  <2>1. /\ ledger' = [l EXCEPT ![s] = m]
        /\ CanWithdraw(l[s], type, out) /\ n <= balance[s][type][u]
    BY <1>6 DEF TransitionCollateral
  <2>2. to \in CollateralType /\ to # type
    BY DEF CollateralType
  <2>3. n \in Nat
    BY MarketAssumption
  <2> HIDE DEF l, to
  <2>4. n <= l[s].supply[type]
    <3>1. l[s].supply[type] \in Nat
      BY <1>2, LedgerFields DEF CollateralType, AssetType
    <3> QED
      BY <1>3, <2>1, <2>3, <3>1
  <2>5. PricesHeld(l[s], m)
    BY <1>2, <2>1, <2>2, <2>3, <2>4, TransitionedPrices
  <2> HIDE DEF m, in, mid, out
  <2> QED
    BY <1>1, <2>1, <2>5, BothPrices DEF l
<1> QED
  BY <1>4, <1>5, <1>6

\* Transfers of shares
LEMMA TransferPrices ==
  ASSUME IInv, NEW s, NEW u, NEW v, NEW n, NEW r \in [Silos -> Rcomps],
         \/ TransferDebt(s, u, v, n, r)
         \/ \E type \in CollateralType : TransferCollateral(s, type, u, v, n, r)
  PROVE  AllPrices
<1>1. \A t \in Silos : /\ ledger[t] \in Ledger /\ LedgerOK(ledger[t], Owed(t))
                       /\ Owed(t) \in Nat
  BY OwedNat DEF IInv, LedgersOK, LoansOK
<1>2. ledger' = ledger \/ ledger' = BothAccrued(r)
  BY DEF TransferDebt, TransferCollateral
<1>3. \A t \in Silos : r[t] \in Nat
  BY MarketAssumption
<1>4. ASSUME NEW t \in Silos PROVE StepPrices(ledger[t], ledger'[t])
  <2>1. ledger'[t] = ledger[t] \/ ledger'[t] = AccrueInterest(ledger[t], r[t])
    BY <1>2 DEF BothAccrued
  <2> QED
    BY <1>1, <1>3, <2>1, AccruedAlone
<1> QED
  BY <1>4 DEF AllPrices

\* Calls that move no collateral and no debt
LEMMA OtherPrices ==
  ASSUME IInv, IInv',
         \/ \E s \in Silos, r \in Rcomps : Accrue(s, r) \/ WithdrawFees(s, r)
         \/ \E s \in Silos, n \in Nat : BeginFlashLoan(s, n) \/ Donate(s, n)
         \/ EndFlashLoan
         \/ NewBlock
  PROVE  AllPrices
<1>1. \A t \in Silos : /\ ledger[t] \in Ledger /\ LedgerOK(ledger[t], Owed(t))
                       /\ Owed(t) \in Nat /\ ledger'[t] \in Ledger
  BY OwedNat DEF IInv, LedgersOK, LoansOK
<1>2. ledger \in [Silos -> Ledger]
  BY DEF IInv, LedgersOK
<1>3. ASSUME \A t \in Silos : ledger'[t].assets = ledger[t].assets /\ ledger'[t].supply = ledger[t].supply
      PROVE  AllPrices
  <2>1. \A t \in Silos : PricesHeld(ledger[t], ledger'[t])
    BY <1>1, <1>3, SameTotals
  <2> QED
    BY <2>1 DEF AllPrices, StepPrices, PricesHeld
<1>4. ASSUME NEW s \in Silos, NEW r \in Rcomps, Accrue(s, r) \/ WithdrawFees(s, r)
      PROVE  AllPrices
  <2> DEFINE l == AccrueInterest(ledger[s], r)
  <2>1. r \in Nat
    BY MarketAssumption
  <2>2. l \in Ledger
    BY <2>1, AccruedOK DEF IInv
  <2>3. PICK m : ledger' = [ledger EXCEPT ![s] = m] /\ (m = l \/ m = FeesWithdrawn(l))
    BY <1>4 DEF Accrue, WithdrawFees
  <2>4. m \in Ledger
    BY <1>1, <1>2, <2>3
  <2> HIDE DEF l
  <2>5. m.assets = l.assets /\ m.supply = l.supply
    BY <2>2, <2>3 DEF FeesWithdrawn, Paid, Ledger
  <2>6. PricesHeld(l, m)
    BY <2>2, <2>4, <2>5, SameTotals
  <2> QED
    BY <2>1, <2>3, <2>6, OnePrices DEF l
<1>5. ASSUME NEW s \in Silos, NEW n \in Nat, BeginFlashLoan(s, n) \/ Donate(s, n)
      PROVE  AllPrices
  <2>1. \/ ledger' = [ledger EXCEPT ![s] = FlashLent(ledger[s], n)]
        \/ ledger' = [ledger EXCEPT ![s] = Donated(ledger[s], n)]
    BY <1>2, <1>5 DEF BeginFlashLoan, Donate
  <2>2. /\ FlashLent(ledger[s], n).assets = ledger[s].assets
        /\ FlashLent(ledger[s], n).supply = ledger[s].supply
        /\ Donated(ledger[s], n).assets = ledger[s].assets
        /\ Donated(ledger[s], n).supply = ledger[s].supply
    BY <1>1 DEF FlashLent, Donated, Received, Paid, Ledger
  <2> QED
    BY <1>2, <1>3, <2>1, <2>2
<1>6. CASE EndFlashLoan
  <2> DEFINE s == loans[Len(loans)].silo
             n == loans[Len(loans)].amount + loans[Len(loans)].fee
  <2>1. s \in Silos
    <3>1. loans[Len(loans)] \in FlashLoan
      BY <1>6 DEF EndFlashLoan, IInv, LoansOK
    <3> QED
      BY <3>1 DEF FlashLoan
  <2>2. ledger' = [ledger EXCEPT ![s] = Received(ledger[s], n)]
    BY <1>2, <1>6, <2>1 DEF EndFlashLoan
  <2> HIDE DEF s, n
  <2>3. /\ Received(ledger[s], n).assets = ledger[s].assets
        /\ Received(ledger[s], n).supply = ledger[s].supply
    BY <1>1, <2>1 DEF Received, Ledger
  <2> QED
    BY <1>2, <1>3, <2>1, <2>2, <2>3
<1>7. CASE NewBlock
  <2>1. \A t \in Silos : ledger'[t].assets = ledger[t].assets /\ ledger'[t].supply = ledger[t].supply
    BY <1>1, <1>7 DEF NewBlock, Ledger
  <2> QED
    BY <1>3, <2>1
<1> QED
  BY <1>4, <1>5, <1>6, <1>7

\* Every step keeps the prices.
LEMMA PricesStep ==
  ASSUME IInv, DebtSharesCovered, [Next]_vars
  PROVE  AllPrices
<1>0. IInv'
  BY NextOK
<1>1. ASSUME NEW s \in Silos, SiloNext(s) PROVE AllPrices
  <2>1. ASSUME NEW u \in Users, NEW in \in Inputs(s), NEW r \in Rcomps,
               (\E type \in CollateralType : Deposit(s, u, type, in, r)) \/ Repay(s, u, in, r)
        PROVE  AllPrices
    BY <1>0, <2>1, OneSiloPrices
  <2>2. ASSUME NEW u \in Users, NEW in \in Inputs(s), NEW r \in [Silos -> Rcomps],
               (\E type \in CollateralType : Withdraw(s, u, type, in, r)) \/ Borrow(s, u, in, r)
        PROVE  AllPrices
    BY <1>0, <2>2, BothSilosPrices
  <2>3. ASSUME NEW u \in Users, NEW type \in CollateralType, NEW n \in ShareInputs[s],
               NEW r \in [Silos -> Rcomps], TransitionCollateral(s, u, type, n, r)
        PROVE  AllPrices
    BY <1>0, <2>3, BothSilosPrices
  <2>4. ASSUME NEW u \in Users, NEW v \in Users, NEW n \in TransferInputs[s],
               NEW r \in [Silos -> Rcomps],
               (\E type \in CollateralType : TransferCollateral(s, type, u, v, n, r))
                 \/ TransferDebt(s, u, v, n, r)
        PROVE  AllPrices
    BY <2>4, TransferPrices
  <2>5. ASSUME NEW r \in Rcomps, Accrue(s, r) \/ WithdrawFees(s, r) PROVE AllPrices
    BY <1>0, <2>5, OtherPrices
  <2>6. ASSUME NEW n \in FlashInputs[s], BeginFlashLoan(s, n) PROVE AllPrices
    BY <1>0, <2>6, OtherPrices, MarketAssumption
  <2>7. ASSUME NEW n \in DonationInputs[s], Donate(s, n) PROVE AllPrices
    BY <1>0, <2>7, OtherPrices, MarketAssumption
  <2> QED
    BY <1>1, <2>1, <2>2, <2>3, <2>4, <2>5, <2>6, <2>7 DEF SiloNext
<1>2. CASE EndFlashLoan \/ NewBlock
  BY <1>0, <1>2, OtherPrices
<1>3. CASE UNCHANGED vars
  <2>1. \A t \in Silos : ledger[t] \in Ledger /\ LedgerOK(ledger[t], Owed(t)) /\ Owed(t) \in Nat
    BY OwedNat DEF IInv, LedgersOK, LoansOK
  <2>2. ledger' = ledger
    BY <1>3 DEF vars
  <2> QED
    BY <2>1, <2>2, AccruedAlone DEF AllPrices
<1> QED
  BY <1>1, <1>2, <1>3 DEF Next

\* No call lowers the value of a share of deposit that somebody still holds:
\* every conversion is rounded against the caller, and interest is never paid
\* by the depositors, whatever the order of the calls and of the blocks.
THEOREM SharePriceNeverFallsAlways == Spec => SharePriceNeverFalls
<1>1. IInv /\ DebtSharesCovered /\ [Next]_vars =>
        [\A s \in Silos, t \in CollateralType :
           LET assets(l) == CommonAssets(l.assets[t], l.supply[t], t)
               shares(l) == CommonShares(l.supply[t], t)
           IN  \/ ledger'[s].supply[t] = 0
               \/ assets(ledger[s]) * shares(ledger'[s]) <= assets(ledger'[s]) * shares(ledger[s])
        ]_vars
  BY PricesStep DEF AllPrices, StepPrices, PriceKept, NoCheaper
<1> QED
  BY <1>1, Invariance, DebtSharesCoveredAlways, PTL DEF Spec, SharePriceNeverFalls

-----------------------------------------------------------------------------
(* The health of the users.                                                *)

\* More shares at no lower a price are worth no less, rounded down.
LEMMA FloorGrows ==
  ASSUME NEW b \in Nat, NEW P \in Nat, NEW Q \in Nat \ {0},
         NEW c \in Nat, NEW R \in Nat, NEW V \in Nat \ {0},
         b <= c, P * V <= R * Q
  PROVE  MulDiv(b, P, Q, Floor) <= MulDiv(c, R, V, Floor)
<1> DEFINE f == MulDiv(b, P, Q, Floor)
           g == MulDiv(c, R, V, Floor)
<1>1. f \in Nat /\ Q * f <= b * P /\ g \in Nat /\ c * R < V * g + V
  BY FloorBound
<1> HIDE DEF f, g
<1>2. \A x, y, z \in Nat : x <= y => x * z <= y * z
  OBVIOUS
<1>3. (Q * f) * V <= (b * P) * V
  BY <1>1, <1>2
<1>4. (b * P) * V = b * (P * V) /\ (c * R) * Q = c * (R * Q)
  OBVIOUS
<1>5. b * (P * V) <= c * (P * V) /\ c * (P * V) <= c * (R * Q)
  OBVIOUS
<1>6. (c * R) * Q < (V * g + V) * Q
  BY <1>1
<1>7. (Q * f) * V < (V * g + V) * Q
  <2>1. (Q * f) * V \in Nat /\ (b * P) * V \in Nat /\ c * (P * V) \in Nat
        /\ (c * R) * Q \in Nat /\ (V * g + V) * Q \in Nat
    BY <1>1
  <2> QED
    BY <1>3, <1>4, <1>5, <1>6, <2>1
<1>8. (Q * f) * V = (Q * V) * f /\ (V * g + V) * Q = (Q * V) * (g + 1)
  BY <1>1
<1>9. ASSUME f >= g + 1 PROVE FALSE
  <2>1. Q * V \in Nat /\ (Q * V) * f >= (Q * V) * (g + 1)
    BY <1>1, <1>9
  <2> QED
    BY <1>1, <1>7, <1>8, <2>1
<1> QED
  BY <1>1, <1>9 DEF f, g

\* Less debt at no higher a price costs no more, rounded up.
LEMMA CeilShrinks ==
  ASSUME NEW b \in Nat, NEW P \in Nat, NEW Q \in Nat \ {0},
         NEW c \in Nat, NEW R \in Nat, NEW V \in Nat \ {0},
         c <= b, R * Q <= P * V
  PROVE  MulDiv(c, R, V, Ceil) <= MulDiv(b, P, Q, Ceil)
<1> DEFINE f == MulDiv(b, P, Q, Ceil)
           g == MulDiv(c, R, V, Ceil)
<1>1. f \in Nat /\ b * P <= Q * f /\ g \in Nat /\ V * g < c * R + V
  BY CeilBound
<1> HIDE DEF f, g
<1>2. \A x, y, z \in Nat : x <= y => x * z <= y * z
  OBVIOUS
<1>3. (b * P) * V <= (Q * f) * V
  BY <1>1, <1>2
<1>4. (b * P) * V = b * (P * V) /\ (c * R) * Q = c * (R * Q)
  OBVIOUS
<1>5. c * (R * Q) <= c * (P * V) /\ c * (P * V) <= b * (P * V)
  OBVIOUS
<1>6. (c * R) * Q <= (Q * f) * V
  <2>1. (Q * f) * V \in Nat /\ (b * P) * V \in Nat /\ c * (P * V) \in Nat /\ (c * R) * Q \in Nat
    BY <1>1
  <2> QED
    BY <1>3, <1>4, <1>5, <2>1
<1>7. ASSUME g >= f + 1 PROVE FALSE
  <2>1. V * (f + 1) <= V * g /\ V * (f + 1) = V * f + V
    BY <1>1, <1>7
  <2>2. V * f < c * R
    BY <1>1, <2>1
  <2>3. (V * f) * Q < (c * R) * Q
    BY <1>1, <2>2
  <2>4. (V * f) * Q = (Q * f) * V
    BY <1>1
  <2> QED
    BY <1>1, <1>6, <2>3, <2>4
<1> QED
  BY <1>1, <1>7 DEF f, g

\* A claim that keeps its shares keeps its worth.
LEMMA ClaimGrows ==
  ASSUME NEW t \in CollateralType, NEW A \in Nat, NEW S \in Nat, NEW B \in Nat, NEW T \in Nat,
         NEW b \in Nat, NEW c \in Nat, b <= c, c <= T, NoCheaper(A, S, B, T, t)
  PROVE  ConvertToAssets(b, A, S, Floor, t) <= ConvertToAssets(c, B, T, Floor, t)
<1> DEFINE P == CommonAssets(A, S, t)
           Q == CommonShares(S, t)
           R == CommonAssets(B, T, t)
           V == CommonShares(T, t)
<1>1. P \in Nat /\ Q \in Nat \ {0} /\ R \in Nat /\ V \in Nat \ {0}
  BY CollateralRatio
<1>2. /\ ConvertToAssets(b, A, S, Floor, t) = MulDiv(b, P, Q, Floor)
      /\ ConvertToAssets(c, B, T, Floor, t) = MulDiv(c, R, V, Floor)
  BY <1>1 DEF ConvertToAssets
<1>3. CASE T = 0
  <2> HIDE DEF P, Q, R, V
  <2>1. b = 0 /\ b * P = 0
    BY <1>1, <1>3
  <2>2. MulDiv(b, P, Q, Floor) \in Nat /\ Q * MulDiv(b, P, Q, Floor) <= 0
    BY <1>1, <2>1, FloorBound
  <2>3. MulDiv(b, P, Q, Floor) = 0
    BY <1>1, <2>2
  <2>4. MulDiv(c, R, V, Floor) \in Nat
    BY <1>1, FloorBound
  <2> QED
    BY <1>2, <2>3, <2>4
<1>4. CASE T # 0
  <2>1. P * V <= R * Q
    BY <1>4 DEF NoCheaper
  <2> HIDE DEF P, Q, R, V
  <2>2. MulDiv(b, P, Q, Floor) <= MulDiv(c, R, V, Floor)
    BY <1>1, <2>1, FloorGrows
  <2> QED
    BY <1>2, <2>2
<1> QED
  BY <1>3, <1>4

\* A ratio of debt to collateral, the values given
RatioAtMost(debt, collateral, limit) ==
  \/ debt = 0
  \/ collateral # 0 /\ MulDiv(debt, Precision, collateral, Ceil) <= limit

\* Less debt, more collateral and a higher limit do no harm.
LEMMA RatioShrinks ==
  ASSUME NEW d \in Nat, NEW c \in Nat, NEW limit \in Nat, RatioAtMost(d, c, limit),
         NEW e \in Nat, NEW k \in Nat, NEW higher \in Nat,
         e <= d, c <= k, limit <= higher
  PROVE  RatioAtMost(e, k, higher)
<1>1. CASE d = 0
  BY <1>1 DEF RatioAtMost
<1>2. CASE d # 0
  <2>1. c # 0 /\ k # 0 /\ MulDiv(d, Precision, c, Ceil) <= limit
    BY <1>2 DEF RatioAtMost
  <2>2. Precision \in Nat /\ Precision * c <= Precision * k
    BY MathAssumption
  <2>3. MulDiv(e, Precision, k, Ceil) <= MulDiv(d, Precision, c, Ceil)
    BY <2>1, <2>2, CeilShrinks
  <2>4. MulDiv(e, Precision, k, Ceil) \in Nat /\ MulDiv(d, Precision, c, Ceil) \in Nat
    BY <2>1, <2>2, CeilBound
  <2> QED
    BY <2>1, <2>3, <2>4 DEF RatioAtMost
<1> QED
  BY <1>1, <1>2

\* The values are natural numbers.
ValuesOK ==
  \A u \in Users, s \in Silos : CollateralValue(u, s) \in Nat /\ DebtValue(u, s) \in Nat

\* Shares are worth naturals in every state.
LEMMA ValueNat == IInv => ValuesOK
<1> SUFFICES ASSUME IInv, NEW u \in Users, NEW s \in Silos
             PROVE  CollateralValue(u, s) \in Nat /\ DebtValue(u, s) \in Nat
  BY DEF ValuesOK
<1>1. price[s] \in Nat /\ ledger[s] \in Ledger
  BY DEF IInv, OthersOK, LedgersOK
<1>2. ASSUME NEW t \in AssetType, NEW rounding PROVE AssetsOf(u, s, t, rounding) \in Nat
  <2>1. /\ balance[s][t][u] \in Nat
        /\ ledger[s].assets[t] \in Nat /\ ledger[s].supply[t] \in Nat
    BY <1>1, LedgerFields DEF IInv, TokensOK, Balances
  <2>2. /\ CommonShares(ledger[s].supply[t], t) \in Nat
        /\ CommonAssets(ledger[s].assets[t], ledger[s].supply[t], t) \in Nat
    BY <2>1, MathAssumption DEF CommonShares, CommonAssets
  <2> QED
    BY <2>1, <2>2, MulDivNat DEF AssetsOf, ConvertToAssets
<1>3. /\ AssetsOf(u, s, "Protected", Floor) \in Nat /\ AssetsOf(u, s, "Collateral", Floor) \in Nat
      /\ AssetsOf(u, s, "Debt", Ceil) \in Nat
  BY <1>2 DEF AssetType
<1> QED
  BY <1>1, <1>3 DEF CollateralValue, DebtValue

\* Collateral that is not taken keeps its value.
LEMMA CollateralValueKept ==
  ASSUME IInv, IInv', AllPrices, price' = price, NEW u \in Users, NEW s \in Silos,
         \A t \in CollateralType : balance[s][t][u] <= balance'[s][t][u]
  PROVE  CollateralValue(u, s) <= CollateralValue(u, s)'
<1>1. ASSUME NEW t \in CollateralType
      PROVE  /\ AssetsOf(u, s, t, Floor) \in Nat /\ AssetsOf(u, s, t, Floor)' \in Nat
             /\ AssetsOf(u, s, t, Floor) <= AssetsOf(u, s, t, Floor)'
  <2> DEFINE A == ledger[s].assets[t]
             S == ledger[s].supply[t]
             B == ledger'[s].assets[t]
             T == ledger'[s].supply[t]
             b == balance[s][t][u]
             c == balance'[s][t][u]
  <2>1. t \in AssetType
    BY DEF CollateralType, AssetType
  <2>2. A \in Nat /\ S \in Nat /\ B \in Nat /\ T \in Nat
    BY <2>1, LedgerFields DEF IInv, LedgersOK
  <2>3. b \in Nat /\ c \in Nat /\ b <= c
    BY <2>1 DEF IInv, TokensOK, Balances
  <2>4. c <= T
    <3>1. balance'[s][t] \in [Users -> Nat] /\ AddsUpTo(balance'[s][t], T)
      BY <2>1 DEF IInv, TokensOK, Balances, SharesOK, SuppliesOf
    <3> QED
      BY <3>1, BalanceBound
  <2>5. NoCheaper(A, S, B, T, t)
    BY DEF AllPrices, StepPrices, PriceKept
  <2>6. /\ AssetsOf(u, s, t, Floor) = ConvertToAssets(b, A, S, Floor, t)
        /\ AssetsOf(u, s, t, Floor)' = ConvertToAssets(c, B, T, Floor, t)
    BY DEF AssetsOf
  <2> HIDE DEF A, S, B, T, b, c
  <2>7. ConvertToAssets(b, A, S, Floor, t) <= ConvertToAssets(c, B, T, Floor, t)
    BY <2>2, <2>3, <2>4, <2>5, ClaimGrows
  <2>8. ConvertToAssets(b, A, S, Floor, t) \in Nat /\ ConvertToAssets(c, B, T, Floor, t) \in Nat
    BY <2>2, <2>3, ClaimBound
  <2> QED
    BY <2>6, <2>7, <2>8
<1>2. price[s] \in Nat
  BY DEF IInv, OthersOK
<1> DEFINE p == AssetsOf(u, s, "Protected", Floor)
           q == AssetsOf(u, s, "Collateral", Floor)
           r == AssetsOf(u, s, "Protected", Floor)'
           v == AssetsOf(u, s, "Collateral", Floor)'
<1>3. p \in Nat /\ r \in Nat /\ p <= r /\ q \in Nat /\ v \in Nat /\ q <= v
  BY <1>1 DEF CollateralType
<1>4. CollateralValue(u, s) = price[s] * (p + q) /\ CollateralValue(u, s)' = price[s] * (r + v)
  BY DEF CollateralValue
<1> HIDE DEF p, q, r, v
<1>5. \A x, y, z \in Nat : x <= y => z * x <= z * y
  OBVIOUS
<1>6. p + q \in Nat /\ r + v \in Nat /\ p + q <= r + v
  BY <1>3
<1> QED
  BY <1>2, <1>4, <1>5, <1>6

\* A debt that is not added to costs no more than it did, interest aside.
LEMMA DebtValueKept ==
  ASSUME IInv, IInv', AllPrices, price' = price, NEW u \in Users, NEW s \in Silos,
         ledger[s].clock # "stale", HasDebt(u, s)',
         balance'[s]["Debt"][u] <= balance[s]["Debt"][u]
  PROVE  DebtValue(u, s)' <= DebtValue(u, s)
<1> DEFINE A == ledger[s].assets["Debt"]
           S == ledger[s].supply["Debt"]
           B == ledger'[s].assets["Debt"]
           T == ledger'[s].supply["Debt"]
           b == balance[s]["Debt"][u]
           c == balance'[s]["Debt"][u]
<1>1. "Debt" \in AssetType
  BY DEF AssetType
<1>2. A \in Nat /\ S \in Nat /\ B \in Nat /\ T \in Nat
  BY <1>1, LedgerFields DEF IInv, LedgersOK
<1>3. b \in Nat /\ c \in Nat /\ c <= b /\ c # 0
  BY <1>1 DEF IInv, TokensOK, Balances, HasDebt
<1>4. b <= S /\ c <= T
  <2>1. balance[s]["Debt"] \in [Users -> Nat] /\ AddsUpTo(balance[s]["Debt"], S)
    BY <1>1 DEF IInv, TokensOK, Balances, SharesOK, SuppliesOf
  <2>2. balance'[s]["Debt"] \in [Users -> Nat] /\ AddsUpTo(balance'[s]["Debt"], T)
    BY <1>1 DEF IInv, TokensOK, Balances, SharesOK, SuppliesOf
  <2> QED
    BY <2>1, <2>2, BalanceBound
<1>5. NoDearer(A, S, B, T)
  BY DEF AllPrices, StepPrices, DebtEased
<1>6. price[s] \in Nat
  BY DEF IInv, OthersOK
<1>7. /\ DebtValue(u, s) = price[s] * ConvertToAssets(b, A, S, Ceil, "Debt")
      /\ DebtValue(u, s)' = price[s] * ConvertToAssets(c, B, T, Ceil, "Debt")
  BY DEF DebtValue, AssetsOf
<1> HIDE DEF A, S, B, T, b, c
<1>8. S # 0 /\ T # 0
  BY <1>2, <1>3, <1>4
<1>9. /\ ConvertToAssets(b, A, S, Ceil, "Debt") = MulDiv(b, A, S, Ceil)
      /\ ConvertToAssets(c, B, T, Ceil, "Debt") = MulDiv(c, B, T, Ceil)
  BY <1>2, <1>8 DEF ConvertToAssets, CommonShares, CommonAssets
<1>10. MulDiv(c, B, T, Ceil) <= MulDiv(b, A, S, Ceil)
  BY <1>2, <1>3, <1>5, <1>8, CeilShrinks DEF NoDearer
<1>11. MulDiv(c, B, T, Ceil) \in Nat /\ MulDiv(b, A, S, Ceil) \in Nat
  BY <1>2, <1>3, MulDivNat
<1>12. \A x, y, z \in Nat : x <= y => z * x <= z * y
  OBVIOUS
<1> QED
  BY <1>6, <1>7, <1>9, <1>10, <1>11, <1>12

\* Nothing of the position of u is taken, and no debt is added to it.
NotWorse(u) ==
  /\ collateralSilo'[u] = collateralSilo[u]
  /\ \A d \in Silos : balance'[d]["Debt"][u] <= balance[d]["Debt"][u]
  /\ collateralSilo[u] \in Silos =>
       \A t \in CollateralType : balance[collateralSilo[u]][t][u] <= balance'[collateralSilo[u]][t][u]

\* Then u stays solvent, but for interest and prices.
LEMMA NotWorseKeeps ==
  ASSUME IInv, IInv', AllPrices, price' = price,
         \A s \in Silos : ledger[s].clock # "stale",
         NEW u \in Users, Solvent(u), NotWorse(u)
  PROVE  Solvent(u)'
<1> SUFFICES ASSUME NEW d \in Silos, HasDebt(u, d)'
             PROVE  /\ collateralSilo'[u] \in Silos
                    /\ LtvAtMost(u, collateralSilo[u], d, LiquidationThreshold[collateralSilo[u]])'
  BY DEF Solvent
<1>1. HasDebt(u, d)
  <2>1. "Debt" \in AssetType
    BY DEF AssetType
  <2>2. balance[d]["Debt"][u] \in Nat /\ balance'[d]["Debt"][u] \in Nat
    BY <2>1 DEF IInv, TokensOK, Balances
  <2>3. balance'[d]["Debt"][u] <= balance[d]["Debt"][u] /\ balance'[d]["Debt"][u] # 0
    BY DEF NotWorse, HasDebt
  <2> QED
    BY <2>2, <2>3 DEF HasDebt
<1>2. PICK s \in Silos : s = collateralSilo[u]
  BY <1>1 DEF Solvent
<1>3. collateralSilo'[u] = s
  BY <1>2 DEF NotWorse
<1>4. RatioAtMost(DebtValue(u, d), CollateralValue(u, s), LiquidationThreshold[s])
  BY <1>1, <1>2 DEF Solvent, LtvAtMost, RatioAtMost
<1>5. DebtValue(u, d)' <= DebtValue(u, d)
  BY DebtValueKept DEF NotWorse
<1>6. CollateralValue(u, s) <= CollateralValue(u, s)'
  BY <1>2, CollateralValueKept DEF NotWorse
<1>7. /\ CollateralValue(u, s) \in Nat /\ CollateralValue(u, s)' \in Nat
      /\ DebtValue(u, d) \in Nat /\ DebtValue(u, d)' \in Nat
      /\ LiquidationThreshold[s] \in Nat
  <2>1. CollateralValue(u, s) \in Nat /\ DebtValue(u, d) \in Nat
    BY ValueNat DEF ValuesOK
  <2>2. ValuesOK'
    BY ValueNat, PTL
  <2> QED
    BY <2>1, <2>2, MarketAssumption DEF ValuesOK
<1>8. RatioAtMost(DebtValue(u, d)', CollateralValue(u, s)', LiquidationThreshold[s])
  BY <1>4, <1>5, <1>6, <1>7, RatioShrinks
<1>9. CollateralValue(u, collateralSilo[u])' = CollateralValue(u, s)'
  BY <1>3 DEF CollateralValue, AssetsOf
<1> QED
  BY <1>3, <1>8, <1>9 DEF RatioAtMost, LtvAtMost

\* What a mint does to every balance.
LEMMA MintedEach ==
  ASSUME NEW bal \in Balances, NEW s \in Silos, NEW t \in AssetType, NEW u \in Users, NEW k,
         NEW s2 \in Silos, NEW t2 \in AssetType, NEW u2 \in Users
  PROVE  Minted(bal, s, t, u, k)[s2][t2][u2] =
           IF s2 = s /\ t2 = t /\ u2 = u THEN bal[s2][t2][u2] + k ELSE bal[s2][t2][u2]
BY DEF Minted, Balances

\* Interest is charged up to now.
LEMMA AccruedIsCurrent ==
  ASSUME NEW l \in Ledger, NEW r
  PROVE  AccrueInterest(l, r).clock = "now"
<1>1. CASE l.clock = "stale" /\ r # 0
  BY <1>1 DEF AccrueInterest, WithInterest, Ledger
<1>2. CASE ~(l.clock = "stale" /\ r # 0)
  BY <1>2 DEF AccrueInterest, Ledger
<1> QED
  BY <1>1, <1>2

\* accrueInterestForBothSilos leaves no old books, nor does what follows it.
LEMMA BothAreCurrent ==
  ASSUME IInv, NEW r \in [Silos -> Rcomps], NEW s \in Silos, NEW m,
         BothAccrued(r)[s] \in Ledger => m.clock = BothAccrued(r)[s].clock,
         ledger' = BothAccrued(r) \/ ledger' = [BothAccrued(r) EXCEPT ![s] = m]
  PROVE  BooksCurrent'
<1>1. ASSUME NEW d \in Silos
      PROVE  BothAccrued(r)[d] \in Ledger /\ BothAccrued(r)[d].clock = "now"
  <2>1. BothAccrued(r) \in [Silos -> Ledger]
    BY BothAccruedOK, MarketAssumption DEF IInv
  <2>2. ledger[d] \in Ledger
    BY DEF IInv, LedgersOK
  <2> QED
    BY <2>1, <2>2, AccruedIsCurrent DEF BothAccrued
<1>2. m.clock = "now"
  BY <1>1
<1>3. \A d \in Silos : ledger'[d].clock = "now"
  <2>1. DOMAIN BothAccrued(r) = Silos
    BY DEF BothAccrued
  <2> QED
    BY <1>1, <1>2, <2>1
<1> QED
  BY <1>3 DEF BooksCurrent

\* Whose debt grew or whose collateral behind a debt shrank was checked, on the
\* books of both Silos.
Checked(u) ==
  \/ Solvent(u)' /\ BooksCurrent'
  \/ NotWorse(u)
  \/ \A d \in Silos : ~HasDebt(u, d) /\ ~HasDebt(u, d)'

\* A step that leaves everybody what he had
LEMMA NobodyLoses ==
  ASSUME UNCHANGED collateralSilo, NEW u \in Users,
         \A d \in Silos : balance'[d]["Debt"][u] <= balance[d]["Debt"][u],
         \A s \in Silos, t \in CollateralType : balance[s][t][u] <= balance'[s][t][u]
  PROVE  Checked(u)
BY DEF Checked, NotWorse

\* A step in which only u gives up collateral shares, those of s, and is checked
\* when they are his collateral
LEMMA OwnerChecked ==
  ASSUME UNCHANGED collateralSilo, NEW s \in Silos, NEW u \in Users,
         \A d \in Silos, w \in Users : /\ balance[d]["Debt"][w] \in Nat
                                       /\ balance'[d]["Debt"][w] = balance[d]["Debt"][w],
         \A r \in Silos, t \in CollateralType, w \in Users :
           r # s \/ w # u => balance[r][t][w] <= balance'[r][t][w],
         IsCollateralOf(s, u) => Solvent(u)' /\ BooksCurrent'
  PROVE  \A w \in Users : Checked(w)
<1>1. ASSUME NEW w \in Users, w # u PROVE Checked(w)
  BY <1>1, NobodyLoses
<1>2. IsCollateralOf(s, u) => Checked(u)
  BY DEF Checked
<1>3. ASSUME collateralSilo[u] # s PROVE Checked(u)
  <2>1. \A d \in Silos : balance'[d]["Debt"][u] <= balance[d]["Debt"][u]
    OBVIOUS
  <2> QED
    BY <1>3, <2>1 DEF Checked, NotWorse
<1>4. ASSUME ~\E d \in Silos : HasDebt(u, d) PROVE Checked(u)
  <2>1. \A d \in Silos : ~HasDebt(u, d)'
    BY <1>4 DEF HasDebt
  <2> QED
    BY <1>4, <2>1 DEF Checked
<1> QED
  BY <1>1, <1>2, <1>3, <1>4 DEF IsCollateralOf

\* deposit, mint, repay and repayShares
LEMMA GiftChecked ==
  ASSUME IInv, NEW s \in Silos, NEW u \in Users, NEW in \in Inputs(s), NEW r \in Rcomps,
         (\E type \in CollateralType : Deposit(s, u, type, in, r)) \/ Repay(s, u, in, r)
  PROVE  \A w \in Users : Checked(w)
<1>1. balance \in Balances /\ "Debt" \in AssetType /\ "Debt" \notin CollateralType
  BY DEF IInv, TokensOK, AssetType, CollateralType
<1>2. CollateralType \subseteq AssetType
  BY DEF CollateralType, AssetType
<1>3. \A d \in Silos, t \in AssetType, w \in Users : balance[d][t][w] \in Nat
  BY <1>1 DEF Balances
<1> DEFINE l == AccrueInterest(ledger[s], r)
<1>4. l \in Ledger /\ in \in Amounts
  BY AccruedOK, InputsAmounts, MarketAssumption DEF IInv
<1>5. ASSUME NEW type \in CollateralType, Deposit(s, u, type, in, r), NEW w \in Users PROVE Checked(w)
  <2> DEFINE k == DepositOf(l, type, in).shares
  <2>1. balance' = Minted(balance, s, type, u, k) /\ UNCHANGED collateralSilo
    BY <1>5 DEF Deposit
  <2> HIDE DEF l
  <2>2. k \in Nat
    <3>1. l.assets[type] \in Nat /\ l.supply[type] \in Nat
      BY <1>2, <1>4, LedgerFields
    <3>2. DepositOf(l, type, in) \in Amounts
      BY <1>4, <3>1, ConvertedNat DEF DepositOf
    <3> QED
      BY <3>2 DEF Amounts
  <2> HIDE DEF k
  <2>3. \A d \in Silos : balance'[d]["Debt"][w] = balance[d]["Debt"][w]
    BY <1>1, <1>2, <2>1, MintedEach
  <2>4. \A d \in Silos, t \in CollateralType : balance[d][t][w] <= balance'[d][t][w]
    <3>1. \A d \in Silos, t \in CollateralType :
            balance'[d][t][w] = balance[d][t][w] + k \/ balance'[d][t][w] = balance[d][t][w]
      BY <1>1, <1>2, <2>1, MintedEach
    <3>2. \A d \in Silos, t \in CollateralType : balance[d][t][w] \in Nat
      BY <1>2, <1>3
    <3> QED
      BY <2>2, <3>1, <3>2
  <2>5. \A d \in Silos : balance'[d]["Debt"][w] <= balance[d]["Debt"][w]
    BY <1>1, <1>3, <2>3
  <2> QED
    BY <2>1, <2>4, <2>5, NobodyLoses
<1>6. ASSUME Repay(s, u, in, r), NEW w \in Users PROVE Checked(w)
  <2> DEFINE k == RepaymentOf(l, balance[s]["Debt"][u], in).shares
  <2>1. balance' = Burned(balance, s, "Debt", u, k) /\ UNCHANGED collateralSilo
    BY <1>6 DEF Repay
  <2>2. balance[s]["Debt"][u] \in Nat
    BY <1>1, <1>3
  <2> HIDE DEF l
  <2>3. k \in Nat
    BY <1>4, <2>2, RepaymentBound
  <2> HIDE DEF k
  <2>4. \A d \in Silos : balance'[d]["Debt"][w] <= balance[d]["Debt"][w]
    <3>1. \A d \in Silos : \/ balance'[d]["Debt"][w] = balance[d]["Debt"][w] - k
                           \/ balance'[d]["Debt"][w] = balance[d]["Debt"][w]
      BY <1>1, <2>1, BurnedAt
    <3>2. \A d \in Silos : balance[d]["Debt"][w] \in Nat
      BY <1>1, <1>3
    <3> QED
      BY <2>3, <3>1, <3>2
  <2>5. \A d \in Silos, t \in CollateralType : balance'[d][t][w] = balance[d][t][w]
    BY <1>1, <1>2, <2>1, BurnedAt
  <2>6. \A d \in Silos, t \in CollateralType : balance[d][t][w] <= balance'[d][t][w]
    BY <1>2, <1>3, <2>5
  <2> QED
    BY <2>1, <2>4, <2>6, NobodyLoses
<1> QED
  BY <1>5, <1>6

\* withdraw, redeem, transitionCollateral and transfers of collateral
LEMMA TakenChecked ==
  ASSUME IInv, NEW s \in Silos, NEW u \in Users, NEW r \in [Silos -> Rcomps],
         \/ \E in \in Inputs(s), type \in CollateralType : Withdraw(s, u, type, in, r)
         \/ \E type \in CollateralType, n \in ShareInputs[s] : TransitionCollateral(s, u, type, n, r)
         \/ \E type \in CollateralType, v \in Users, n \in TransferInputs[s] :
              TransferCollateral(s, type, u, v, n, r)
  PROVE  \A w \in Users : Checked(w)
<1>1. balance \in Balances /\ "Debt" \in AssetType /\ "Debt" \notin CollateralType
  BY DEF IInv, TokensOK, AssetType, CollateralType
<1>2. CollateralType \subseteq AssetType
  BY DEF CollateralType, AssetType
<1>3. \A d \in Silos, t \in AssetType, w \in Users : balance[d][t][w] \in Nat
  BY <1>1 DEF Balances
<1> DEFINE Untouched == \A d \in Silos, t \in AssetType, w \in Users :
                          t = "Debt" \/ d # s \/ w # u => balance'[d][t][w] = balance[d][t][w]
<1>4. ASSUME Untouched, UNCHANGED collateralSilo, IsCollateralOf(s, u) => Solvent(u)' /\ BooksCurrent'
      PROVE  \A w \in Users : Checked(w)
  <2>1. \A d \in Silos, w \in Users : /\ balance[d]["Debt"][w] \in Nat
                                      /\ balance'[d]["Debt"][w] = balance[d]["Debt"][w]
    BY <1>1, <1>3, <1>4
  <2>2. \A d \in Silos, t \in CollateralType, w \in Users :
          d # s \/ w # u => balance[d][t][w] <= balance'[d][t][w]
    BY <1>2, <1>3, <1>4
  <2> QED
    BY <1>4, <2>1, <2>2, OwnerChecked
<1>5. ASSUME NEW in \in Inputs(s), NEW type \in CollateralType, Withdraw(s, u, type, in, r)
      PROVE  \A w \in Users : Checked(w)
  <2> DEFINE k == WithdrawalOf(BothAccrued(r)[s], type, in).shares
  <2>1. /\ balance' = Burned(balance, s, type, u, k)
        /\ UNCHANGED collateralSilo /\ (IsCollateralOf(s, u) => Solvent(u)')
    BY <1>5 DEF Withdraw
  <2> HIDE DEF k
  <2>2. Untouched
    BY <1>1, <1>2, <2>1, BurnedAt
  <2> HIDE DEF Untouched
  <2>3. BooksCurrent'
    <3> DEFINE x == WithdrawalOf(BothAccrued(r)[s], type, in)
               m == Paid(Withdrawn(BothAccrued(r)[s], type, x), x.assets)
    <3>1. ledger' = [BothAccrued(r) EXCEPT ![s] = m]
      BY <1>5 DEF Withdraw
    <3> HIDE DEF x
    <3>2. BothAccrued(r)[s] \in Ledger => m.clock = BothAccrued(r)[s].clock
      BY DEF Paid, Withdrawn, Ledger
    <3> HIDE DEF m
    <3> QED
      BY <3>1, <3>2, BothAreCurrent
  <2> QED
    BY <1>4, <2>1, <2>2, <2>3
<1>6. ASSUME NEW type \in CollateralType, NEW n \in ShareInputs[s],
             TransitionCollateral(s, u, type, n, r)
      PROVE  \A w \in Users : Checked(w)
  <2> DEFINE to  == IF type = "Collateral" THEN "Protected" ELSE "Collateral"
             out == WithdrawalOf(BothAccrued(r)[s], type, [assets |-> 0, shares |-> n])
             mid == Withdrawn(BothAccrued(r)[s], type, out)
             k   == DepositOf(mid, to, [assets |-> out.assets, shares |-> 0]).shares
             bal == Burned(balance, s, type, u, n)
  <2>1. /\ balance' = Minted(bal, s, to, u, k)
        /\ UNCHANGED collateralSilo /\ (IsCollateralOf(s, u) => Solvent(u)')
    BY <1>6 DEF TransitionCollateral
  <2>2. to \in CollateralType
    BY DEF CollateralType
  <2> HIDE DEF to, k
  <2>3. ASSUME NEW d \in Silos, NEW t \in AssetType, NEW w \in Users, t = "Debt" \/ d # s \/ w # u
        PROVE  balance'[d][t][w] = balance[d][t][w]
    <3>1. bal[d][t][w] = balance[d][t][w]
      BY <1>1, <1>2, <2>3, BurnedAt
    <3>2. Minted(bal, s, to, u, k)[d][t][w] = bal[d][t][w]
      BY <1>1, <1>2, <2>2, <2>3 DEF Minted, Burned, Balances
    <3> QED
      BY <2>1, <3>1, <3>2
  <2>4. BooksCurrent'
    <3> DEFINE in == DepositOf(mid, to, [assets |-> out.assets, shares |-> 0])
               m  == Deposited(mid, to, in)
    <3>1. ledger' = [BothAccrued(r) EXCEPT ![s] = m]
      BY <1>6 DEF TransitionCollateral, to
    <3> HIDE DEF in, out
    <3>2. BothAccrued(r)[s] \in Ledger => m.clock = BothAccrued(r)[s].clock
      BY DEF Deposited, Withdrawn, Ledger
    <3> HIDE DEF m
    <3> QED
      BY <3>1, <3>2, BothAreCurrent
  <2> QED
    BY <1>4, <2>1, <2>3, <2>4
<1>7. ASSUME NEW type \in CollateralType, NEW v \in Users, NEW n \in TransferInputs[s],
             TransferCollateral(s, type, u, v, n, r)
      PROVE  \A w \in Users : Checked(w)
  <2>1. /\ balance' = Transferred(balance, s, type, u, v, n)
        /\ UNCHANGED collateralSilo /\ (IsCollateralOf(s, u) => Solvent(u)')
    BY <1>7 DEF TransferCollateral
  <2>2. n \in Nat
    BY MarketAssumption
  <2>3. ASSUME NEW d \in Silos, NEW w \in Users
        PROVE  balance[d]["Debt"][w] \in Nat /\ balance'[d]["Debt"][w] = balance[d]["Debt"][w]
    BY <1>1, <1>2, <1>3, <2>1, TransferredAt
  <2>4. ASSUME NEW d \in Silos, NEW t \in CollateralType, NEW w \in Users, d # s \/ w # u
        PROVE  balance[d][t][w] <= balance'[d][t][w]
    <3>1. balance[d][t][w] \in Nat
      BY <1>2, <1>3
    <3>2. CASE <<d, t, w>> = <<s, type, v>>
      <4>1. balance'[d][t][w] = balance[d][t][w] + n
        BY <1>1, <1>2, <2>1, <2>4, <3>2 DEF Transferred, Minted, Burned, Balances
      <4> QED
        BY <2>2, <3>1, <4>1
    <3>3. CASE <<d, t, w>> # <<s, type, v>>
      <4>1. balance'[d][t][w] = balance[d][t][w]
        BY <1>1, <1>2, <2>1, <2>4, <3>3, TransferredAt
      <4> QED
        BY <3>1, <4>1
    <3> QED
      BY <3>2, <3>3
  <2>5. IsCollateralOf(s, u) => BooksCurrent'
    <3>1. IsCollateralOf(s, u) => ledger' = BothAccrued(r)
      BY <1>7 DEF TransferCollateral
    <3> QED
      BY <3>1, BothAreCurrent
  <2> QED
    BY <2>1, <2>3, <2>4, <2>5, OwnerChecked
<1> QED
  BY <1>5, <1>6, <1>7

\* borrow and borrowShares: the limit of a loan is not above the one of a position.
LEMMA BorrowChecked ==
  ASSUME IInv, IInv', NEW s \in Silos, NEW u \in Users,
         NEW in \in Inputs(s), NEW r \in [Silos -> Rcomps], Borrow(s, u, in, r)
  PROVE  \A w \in Users : Checked(w)
<1>1. balance \in Balances /\ "Debt" \in AssetType /\ "Debt" \notin CollateralType
  BY DEF IInv, TokensOK, AssetType, CollateralType
<1>2. CollateralType \subseteq AssetType
  BY DEF CollateralType, AssetType
<1>3. \A d \in Silos, t \in AssetType, w \in Users : balance[d][t][w] \in Nat
  BY <1>1 DEF Balances
<1> DEFINE k == LoanOf(BothAccrued(r)[s], in).shares
<1>4. /\ ~HasDebt(u, OtherSilo(s))
      /\ balance' = Minted(balance, s, "Debt", u, k)
      /\ collateralSilo' = [collateralSilo EXCEPT ![u] = OtherSilo(s)]
      /\ LtvAtMost(u, OtherSilo(s), s, MaxLtv[OtherSilo(s)])'
  BY DEF Borrow
<1> HIDE DEF k
<1>5. OtherSilo(s) \in Silos \ {s} /\ \A d \in Silos : d = s \/ d = OtherSilo(s)
  BY MarketAssumption DEF OtherSilo, Silos
<1>6. collateralSilo \in [Users -> Silos \cup {NoSilo}]
  BY DEF IInv, OthersOK
<1>7. ASSUME NEW w \in Users, w # u PROVE Checked(w)
  <2>1. \A d \in Silos, t \in AssetType : balance'[d][t][w] = balance[d][t][w]
    BY <1>1, <1>4, <1>7, MintedEach
  <2>2. \A d \in Silos : balance'[d]["Debt"][w] <= balance[d]["Debt"][w]
    BY <1>1, <1>3, <2>1
  <2>3. \A d \in Silos, t \in CollateralType : balance[d][t][w] <= balance'[d][t][w]
    BY <1>2, <1>3, <2>1
  <2>4. collateralSilo'[w] = collateralSilo[w]
    BY <1>4, <1>6, <1>7
  <2> QED
    BY <2>2, <2>3, <2>4 DEF Checked, NotWorse
<1>8. Solvent(u)'
  <2> DEFINE c == OtherSilo(s)
  <2>1. collateralSilo'[u] = c /\ c \in Silos
    BY <1>4, <1>5, <1>6
  <2>2. \A d \in Silos : HasDebt(u, d)' => d = s
    <3>1. balance'[c]["Debt"][u] = balance[c]["Debt"][u]
      BY <1>1, <1>4, <1>5, MintedEach
    <3> QED
      BY <1>4, <1>5, <3>1 DEF HasDebt
  <2>3. RatioAtMost(DebtValue(u, s)', CollateralValue(u, c)', MaxLtv[c])
    BY <1>4 DEF LtvAtMost, RatioAtMost
  <2> HIDE DEF c
  <2>4. CollateralValue(u, c)' \in Nat /\ DebtValue(u, s)' \in Nat
    <3>1. ValuesOK'
      BY ValueNat, PTL
    <3> QED
      BY <2>1, <3>1 DEF ValuesOK
  <2>5. RatioAtMost(DebtValue(u, s)', CollateralValue(u, c)', LiquidationThreshold[c])
    <3>1. MaxLtv[c] \in Nat /\ LiquidationThreshold[c] \in Nat /\ MaxLtv[c] <= LiquidationThreshold[c]
      BY <2>1, MarketAssumption
    <3> QED
      BY <2>3, <2>4, <3>1, RatioShrinks
  <2>6. CollateralValue(u, collateralSilo[u])' = CollateralValue(u, c)'
    BY <2>1 DEF CollateralValue, AssetsOf
  <2> SUFFICES ASSUME NEW d \in Silos, HasDebt(u, d)'
               PROVE  /\ collateralSilo'[u] \in Silos
                      /\ LtvAtMost(u, collateralSilo[u], d, LiquidationThreshold[collateralSilo[u]])'
    BY DEF Solvent
  <2>7. d = s
    BY <2>2
  <2> QED
    BY <2>1, <2>5, <2>6, <2>7 DEF RatioAtMost, LtvAtMost
<1>9. BooksCurrent'
  <2> DEFINE x == LoanOf(BothAccrued(r)[s], in)
             m == Paid(Borrowed(BothAccrued(r)[s], x), x.assets)
  <2>1. ledger' = [BothAccrued(r) EXCEPT ![s] = m]
    BY DEF Borrow
  <2> HIDE DEF x
  <2>2. BothAccrued(r)[s] \in Ledger => m.clock = BothAccrued(r)[s].clock
    BY DEF Paid, Borrowed, Ledger
  <2> HIDE DEF m
  <2> QED
    BY <2>1, <2>2, BothAreCurrent
<1> QED
  BY <1>7, <1>8, <1>9 DEF Checked

\* transfer of debt: the recipient is checked, the sender owes less.
LEMMA TransferDebtChecked ==
  ASSUME IInv, NEW s \in Silos, NEW u \in Users, NEW v \in Users,
         NEW n \in TransferInputs[s], NEW r \in [Silos -> Rcomps], TransferDebt(s, u, v, n, r)
  PROVE  \A w \in Users : Checked(w)
<1>1. balance \in Balances /\ "Debt" \in AssetType /\ "Debt" \notin CollateralType
  BY DEF IInv, TokensOK, AssetType, CollateralType
<1>2. CollateralType \subseteq AssetType
  BY DEF CollateralType, AssetType
<1>3. \A d \in Silos, t \in AssetType, w \in Users : balance[d][t][w] \in Nat
  BY <1>1 DEF Balances
<1>4. /\ balance' = Transferred(balance, s, "Debt", u, v, n)
      /\ collateralSilo' = IF collateralSilo[v] = NoSilo
                           THEN [collateralSilo EXCEPT ![v] = collateralSilo[u]]
                           ELSE collateralSilo
      /\ Solvent(v)'
  BY DEF TransferDebt
<1>5. collateralSilo \in [Users -> Silos \cup {NoSilo}]
  BY DEF IInv, OthersOK
<1>6. n \in Nat
  BY MarketAssumption
<1>7. ASSUME NEW w \in Users, w # v PROVE NotWorse(w)
  <2>1. collateralSilo'[w] = collateralSilo[w]
    BY <1>4, <1>5, <1>7
  <2>2. \A d \in Silos, t \in AssetType :
          balance'[d][t][w] = IF d = s /\ t = "Debt" /\ w = u
                              THEN balance[d][t][w] - n ELSE balance[d][t][w]
    BY <1>1, <1>4, <1>7, TransferredAt
  <2>3. \A d \in Silos : balance'[d]["Debt"][w] <= balance[d]["Debt"][w]
    <3>1. \A d \in Silos : balance[d]["Debt"][w] \in Nat
      BY <1>1, <1>3
    <3>2. \A d \in Silos : \/ balance'[d]["Debt"][w] = balance[d]["Debt"][w] - n
                           \/ balance'[d]["Debt"][w] = balance[d]["Debt"][w]
      BY <1>1, <2>2
    <3> QED
      BY <1>6, <3>1, <3>2
  <2>4. \A d \in Silos, t \in CollateralType : balance'[d][t][w] = balance[d][t][w]
    BY <1>1, <1>2, <2>2
  <2>5. \A d \in Silos, t \in CollateralType : balance[d][t][w] <= balance'[d][t][w]
    BY <1>2, <1>3, <2>4
  <2> QED
    BY <2>1, <2>3, <2>5 DEF NotWorse
<1>8. BooksCurrent'
  <2>1. ledger' = BothAccrued(r)
    BY DEF TransferDebt
  <2> QED
    BY <2>1, BothAreCurrent
<1> QED
  BY <1>4, <1>7, <1>8 DEF Checked

\* Every step checks who has to be.
LEMMA CheckedStep ==
  ASSUME IInv, [Next]_vars
  PROVE  \A w \in Users : Checked(w)
<1>0. IInv'
  BY NextOK
<1>1. ASSUME UNCHANGED <<balance, collateralSilo>> PROVE \A w \in Users : Checked(w)
  <2>1. \A d \in Silos, t \in AssetType, w \in Users :
          balance[d][t][w] \in Nat /\ balance'[d][t][w] = balance[d][t][w]
    BY <1>1 DEF IInv, TokensOK, Balances
  <2>2. "Debt" \in AssetType /\ CollateralType \subseteq AssetType
    BY DEF AssetType, CollateralType
  <2> QED
    BY <1>1, <2>1, <2>2, NobodyLoses
<1>2. ASSUME NEW s \in Silos, SiloNext(s) PROVE \A w \in Users : Checked(w)
  <2>1. ASSUME NEW u \in Users, NEW in \in Inputs(s), NEW r \in Rcomps,
               (\E type \in CollateralType : Deposit(s, u, type, in, r)) \/ Repay(s, u, in, r)
        PROVE  \A w \in Users : Checked(w)
    BY <2>1, GiftChecked
  <2>2. ASSUME NEW u \in Users, NEW in \in Inputs(s), NEW r \in [Silos -> Rcomps],
               (\E type \in CollateralType : Withdraw(s, u, type, in, r)) \/ Borrow(s, u, in, r)
        PROVE  \A w \in Users : Checked(w)
    BY <1>0, <2>2, TakenChecked, BorrowChecked
  <2>3. ASSUME NEW u \in Users, NEW type \in CollateralType, NEW n \in ShareInputs[s],
               NEW r \in [Silos -> Rcomps], TransitionCollateral(s, u, type, n, r)
        PROVE  \A w \in Users : Checked(w)
    BY <2>3, TakenChecked
  <2>4. ASSUME NEW u \in Users, NEW v \in Users, NEW n \in TransferInputs[s],
               NEW r \in [Silos -> Rcomps],
               (\E type \in CollateralType : TransferCollateral(s, type, u, v, n, r))
                 \/ TransferDebt(s, u, v, n, r)
        PROVE  \A w \in Users : Checked(w)
    BY <2>4, TakenChecked, TransferDebtChecked
  <2>5. ASSUME NEW r, Accrue(s, r) \/ WithdrawFees(s, r) \/ BeginFlashLoan(s, r) \/ Donate(s, r)
        PROVE  UNCHANGED <<balance, collateralSilo>>
    BY <2>5 DEF Accrue, WithdrawFees, BeginFlashLoan, Donate
  <2> QED
    BY <1>1, <1>2, <2>1, <2>2, <2>3, <2>4, <2>5 DEF SiloNext
<1>3. EndFlashLoan \/ NewBlock \/ UNCHANGED vars => UNCHANGED <<balance, collateralSilo>>
  BY DEF EndFlashLoan, NewBlock, vars
<1> QED
  BY <1>1, <1>2, <1>3 DEF Next

\* Nobody takes on debt, or gives up collateral behind one, and ends up
\* insolvent, in whatever way it is done: the checks of borrow, withdraw,
\* transitionCollateral and the transfer hooks leave no gap between them, and none
\* is made before the interest of both Silos is charged.
THEOREM OwnRiskLeavesSolventAlways == Spec => OwnRiskLeavesSolvent
<1>1. ASSUME IInv, [Next]_vars, NEW u \in Users, NEW s \in Silos,
             \/ balance'[s]["Debt"][u] > balance[s]["Debt"][u]
             \/ /\ IsCollateralOf(s, u)
                /\ \E t \in CollateralType : balance'[s][t][u] < balance[s][t][u]
      PROVE  Solvent(u)' /\ BooksCurrent'
  <2>0. IInv'
    BY <1>1, NextOK
  <2>1. \A t \in AssetType : balance[s][t][u] \in Nat /\ balance'[s][t][u] \in Nat
    BY <1>1, <2>0 DEF IInv, TokensOK, Balances
  <2>2. "Debt" \in AssetType /\ CollateralType \subseteq AssetType
    BY DEF AssetType, CollateralType
  <2>3. ~NotWorse(u)
    BY <1>1, <2>1, <2>2 DEF NotWorse, IsCollateralOf
  <2>4. \E d \in Silos : HasDebt(u, d) \/ HasDebt(u, d)'
    BY <1>1, <2>1, <2>2 DEF HasDebt, IsCollateralOf
  <2> QED
    BY <1>1, <2>3, <2>4, CheckedStep DEF Checked
<1>2. IInv /\ [Next]_vars =>
        [\A u \in Users, s \in Silos :
           \/ balance'[s]["Debt"][u] > balance[s]["Debt"][u]
           \/ /\ IsCollateralOf(s, u)
              /\ \E t \in CollateralType : balance'[s][t][u] < balance[s][t][u]
           => Solvent(u)' /\ BooksCurrent']_vars
  BY <1>1
<1> QED
  BY <1>2, Invariance, PTL DEF Spec, OwnRiskLeavesSolvent

\* A solvent user stays solvent whatever he and all the others do, as long as
\* no price moves and no interest is due: no rounding of any conversion is paid
\* by a debtor beyond his limit, and no call of another reaches his collateral.
THEOREM HealthKeptAlways == Spec => HealthKept
<1>1. ASSUME IInv, DebtSharesCovered, [Next]_vars, NEW u \in Users,
             \A s \in Silos : ledger[s].clock # "stale", price' = price, Solvent(u)
      PROVE  Solvent(u)'
  <2>1. AllPrices
    BY <1>1, PricesStep
  <2>2. IInv'
    BY <1>1, NextOK
  <2>3. Checked(u)
    BY <1>1, CheckedStep
  <2> QED
    BY <1>1, <2>1, <2>2, <2>3, NotWorseKeeps DEF Checked, Solvent
<1>2. IInv /\ DebtSharesCovered /\ [Next]_vars =>
        [\A u \in Users :
           (\A s \in Silos : ledger[s].clock # "stale") /\ price' = price /\ Solvent(u)
             => Solvent(u)']_vars
  BY <1>1
<1> QED
  BY <1>2, Invariance, DebtSharesCoveredAlways, PTL DEF Spec, HealthKept

=============================================================================
