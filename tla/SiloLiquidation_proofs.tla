------------------------ MODULE SiloLiquidation_proofs ------------------------
(***************************************************************************)
(* Theorems about SiloLiquidation, for any market, fees, thresholds and    *)
(* repayments: liquidations by repayment and by defaulting keep the books  *)
(* of both Silos, take no more collateral than the debt they cancel and    *)
(* the fee on it are worth, and do not leave the borrower worse off; and   *)
(* what maxLiquidation answers can be done.                                *)
(***************************************************************************)
EXTENDS SiloLiquidation, SiloMarket_proofs

\* The books l and the balances b of the market between two calls of a
\* liquidation
MarketOK(l, b) ==
  /\ l \in [Silos -> Ledger]
  /\ \A s \in Silos : LedgerOK(l[s], Owed(s)) /\ LedgerFair(l[s])
  /\ b \in Balances
  /\ SharesOK(b, SuppliesOf(l))

\* Only collateral of a Silo with a threshold stands behind a debt; who has none
\* left keeps the collateral Silo he had.
Backing ==
  /\ \A u \in Users : collateralSilo[u] \in Silos => LiquidationThreshold[collateralSilo[u]] # 0
  /\ \A u \in Users, d \in Silos : HasDebt(u, d) => LiquidationThreshold[OtherSilo(d)] # 0

\* The inductive invariant of the market with its liquidations
LInv == IInv /\ DebtSharesCovered /\ Positions /\ Backing

-----------------------------------------------------------------------------
(* The collateral behind a debt                                            *)

\* A debt is worth something.
DebtsWorth == \A u \in Users, d \in Silos : HasDebt(u, d) => DebtValue(u, d) # 0

\* Shares of debt are worth one unit each at least, and prices are not zero.
LEMMA DebtsWorthOK == IInv /\ DebtSharesCovered => DebtsWorth
<1> SUFFICES ASSUME IInv, DebtSharesCovered, NEW u \in Users, NEW d \in Silos, HasDebt(u, d)
             PROVE  DebtValue(u, d) # 0
  BY DEF DebtsWorth
<1> DEFINE A == ledger[d].assets["Debt"]
           S == ledger[d].supply["Debt"]
           b == balance[d]["Debt"][u]
           q == MulDiv(b, A, S, Ceil)
<1>1. "Debt" \in AssetType /\ ledger[d] \in Ledger
  BY DEF AssetType, IInv, LedgersOK
<1>2. A \in Nat /\ S \in Nat /\ DebtFair(A, S)
  BY <1>1, LedgerFields DEF DebtSharesCovered, DebtFair
<1>3. b \in Nat \ {0}
  BY <1>1 DEF IInv, TokensOK, Balances, HasDebt
<1>4. b <= S
  <2>1. balance[d]["Debt"] \in [Users -> Nat] /\ AddsUpTo(balance[d]["Debt"], S)
    BY <1>1 DEF IInv, TokensOK, Balances, SharesOK, SuppliesOf
  <2> QED
    BY <1>2, <2>1, BalanceBound
<1>5. price[d] \in Nat \ {0}
  BY DEF IInv, OthersOK
<1>6. DebtValue(u, d) = price[d] * ConvertToAssets(b, A, S, Ceil, "Debt")
  BY DEF DebtValue, AssetsOf
<1> HIDE DEF A, S, b
<1>7. S # 0 /\ A # 0
  BY <1>2, <1>3, <1>4 DEF DebtFair
<1>8. ConvertToAssets(b, A, S, Ceil, "Debt") = q
  BY <1>2, <1>7, DebtRatio DEF ConvertToAssets
<1>9. q \in Nat /\ b * A <= S * q
  BY <1>2, <1>3, <1>7, CeilBound
<1> HIDE DEF q
<1>10. q # 0
  <2>1. b * A # 0 /\ b * A \in Nat
    BY <1>2, <1>3, <1>7
  <2> QED
    BY <1>2, <1>9, <2>1
<1> QED
  BY <1>5, <1>6, <1>8, <1>9, <1>10

\* Nobody starts to owe, no collateral Silo is set.
LEMMA BackingKept ==
  ASSUME Backing, UNCHANGED collateralSilo,
         \A u \in Users, d \in Silos : HasDebt(u, d)' => HasDebt(u, d)
  PROVE  Backing'
BY DEF Backing

\* borrow: a Silo without a threshold has no maxLtv either, so no loan against it
\* passes the check.
LEMMA BorrowBacked ==
  ASSUME IInv, Backing, IInv', DebtSharesCovered', NEW s \in Silos, NEW u \in Users,
         NEW in \in Inputs(s), NEW r \in [Silos -> Rcomps], Borrow(s, u, in, r)
  PROVE  Backing'
<1> DEFINE k == LoanOf(BothAccrued(r)[s], in).shares
           c == OtherSilo(s)
<1>1. /\ balance' = Minted(balance, s, "Debt", u, k) /\ k # 0
      /\ collateralSilo' = [collateralSilo EXCEPT ![u] = c]
      /\ LtvAtMost(u, c, s, MaxLtv[c])'
  BY DEF Borrow, CanBorrow, Moves
<1>2. balance \in Balances /\ "Debt" \in AssetType
  BY DEF IInv, TokensOK, AssetType
<1>3. c \in Silos \ {s} /\ \A t \in Silos : t = s \/ t = c
  BY MarketAssumption DEF OtherSilo, Silos
<1>4. collateralSilo \in [Users -> Silos \cup {NoSilo}]
  BY DEF IInv, OthersOK
<1>5. k \in Nat
  <2>1. r \in [Silos -> Nat]
    BY MarketAssumption
  <2>2. BothAccrued(r)[s] \in Ledger
    BY <2>1, BothAccruedOK DEF IInv
  <2>3. BothAccrued(r)[s].assets["Debt"] \in Nat /\ BothAccrued(r)[s].supply["Debt"] \in Nat
    BY <1>2, <2>2, LedgerFields
  <2>4. in \in Amounts
    BY InputsAmounts
  <2>5. LoanOf(BothAccrued(r)[s], in) \in Amounts
    BY <2>3, <2>4, ConvertedNat DEF LoanOf
  <2> QED
    BY <2>5 DEF Amounts
<1> HIDE DEF k
<1>6. HasDebt(u, s)'
  <2>1. balance'[s]["Debt"][u] = balance[s]["Debt"][u] + k
    BY <1>1, <1>2, MintedEach
  <2>2. balance[s]["Debt"][u] \in Nat
    BY <1>2 DEF Balances
  <2> QED
    BY <1>1, <1>5, <2>1, <2>2 DEF HasDebt
<1>7. LiquidationThreshold[c] # 0
  <2> DEFINE dv == DebtValue(u, s)'
             cv == CollateralValue(u, c)'
             q == MulDiv(dv, Precision, cv, Ceil)
  <2>1. dv \in Nat /\ cv \in Nat
    <3>1. ValuesOK'
      BY ValueNat, PTL
    <3> QED
      BY <1>3, <3>1 DEF ValuesOK
  <2>2. dv # 0
    <3>1. DebtsWorth'
      BY DebtsWorthOK, PTL
    <3> QED
      BY <1>6, <3>1 DEF DebtsWorth
  <2>3. cv # 0 /\ q <= MaxLtv[c]
    BY <1>1, <2>2 DEF LtvAtMost
  <2>4. Precision \in Nat \ {0} /\ MaxLtv[c] \in Nat /\ MaxLtv[c] <= LiquidationThreshold[c]
        /\ LiquidationThreshold[c] \in Nat
    BY <1>3, MathAssumption, MarketAssumption
  <2> HIDE DEF dv, cv
  <2>5. q \in Nat /\ dv * Precision <= cv * q
    BY <2>1, <2>3, <2>4, CeilBound
  <2> HIDE DEF q
  <2>6. q # 0
    <3>1. dv * Precision # 0 /\ dv * Precision \in Nat
      BY <2>1, <2>2, <2>4
    <3> QED
      BY <2>1, <2>5, <3>1
  <2> HIDE DEF c
  <2> QED
    BY <2>3, <2>4, <2>5, <2>6
<1>8. ASSUME NEW w \in Users, collateralSilo'[w] \in Silos
      PROVE  LiquidationThreshold[collateralSilo'[w]] # 0
  <2>1. CASE w = u
    BY <1>1, <1>4, <1>7, <2>1
  <2>2. CASE w # u
    BY <1>1, <1>4, <1>8, <2>2 DEF Backing
  <2> QED
    BY <2>1, <2>2
<1>9. ASSUME NEW w \in Users, NEW d \in Silos, HasDebt(w, d)'
      PROVE  LiquidationThreshold[OtherSilo(d)] # 0
  <2>1. CASE d = s
    BY <1>7, <2>1
  <2>2. CASE d # s
    <3>1. balance'[d]["Debt"][w] = balance[d]["Debt"][w]
      BY <1>1, <1>2, <2>2, MintedEach
    <3>2. HasDebt(w, d)
      BY <1>9, <3>1 DEF HasDebt
    <3> QED
      BY <3>2 DEF Backing
  <2> QED
    BY <2>1, <2>2
<1> QED
  BY <1>8, <1>9 DEF Backing

\* transfer of debt: the recipient gets the collateral Silo of the sender, or has
\* one.
LEMMA TransferDebtBacked ==
  ASSUME IInv, Backing, NEW s \in Silos, NEW u \in Users, NEW v \in Users,
         NEW n \in TransferInputs[s], NEW r \in [Silos -> Rcomps], TransferDebt(s, u, v, n, r)
  PROVE  Backing'
<1>1. /\ n # 0
      /\ n <= balance[s]["Debt"][u]
      /\ collateralSilo' =
           IF collateralSilo[v] = NoSilo
           THEN [collateralSilo EXCEPT ![v] = collateralSilo[u]]
           ELSE collateralSilo
      /\ balance' = Transferred(balance, s, "Debt", u, v, n)
  BY DEF TransferDebt
<1>2. balance \in Balances /\ collateralSilo \in [Users -> Silos \cup {NoSilo}] /\ "Debt" \in AssetType
  BY DEF IInv, TokensOK, OthersOK, AssetType
<1>3. n \in Nat
  BY MarketAssumption
<1>4. HasDebt(u, s)
  <2>1. balance[s]["Debt"][u] \in Nat
    BY <1>2 DEF Balances
  <2> QED
    BY <1>1, <1>3, <2>1 DEF HasDebt
<1>5. ASSUME NEW w \in Users, collateralSilo'[w] \in Silos
      PROVE  LiquidationThreshold[collateralSilo'[w]] # 0
  <2>1. collateralSilo'[w] = collateralSilo[w] \/ collateralSilo'[w] = collateralSilo[u]
    BY <1>1, <1>2
  <2> QED
    BY <1>5, <2>1 DEF Backing
<1>6. ASSUME NEW w \in Users, NEW d \in Silos, HasDebt(w, d)'
      PROVE  LiquidationThreshold[OtherSilo(d)] # 0
  <2>1. CASE d = s
    BY <1>4, <2>1 DEF Backing
  <2>2. CASE d # s
    <3>1. balance'[d]["Debt"][w] = balance[d]["Debt"][w]
      BY <1>1, <1>2, <2>2 DEF Transferred, Minted, Burned, Balances
    <3>2. HasDebt(w, d)
      BY <1>6, <3>1 DEF HasDebt
    <3> QED
      BY <3>2 DEF Backing
  <2> QED
    BY <2>1, <2>2
<1> QED
  BY <1>5, <1>6 DEF Backing

\* Every step of the market keeps what stands behind the debts.
LEMMA BackingStep ==
  ASSUME IInv, Backing, IInv', DebtSharesCovered', [Next]_vars
  PROVE  Backing'
<1>1. ASSUME UNCHANGED <<balance, collateralSilo>> PROVE Backing'
  BY <1>1, BackingKept DEF HasDebt
<1>2. ASSUME NEW s \in Silos, SiloNext(s) PROVE Backing'
  <2>1. ASSUME NEW u \in Users, NEW in \in Inputs(s), NEW r \in [Silos -> Rcomps], Borrow(s, u, in, r)
        PROVE  Backing'
    BY <2>1, BorrowBacked
  <2>2. ASSUME NEW u \in Users, NEW v \in Users, NEW n \in TransferInputs[s],
               NEW r \in [Silos -> Rcomps], TransferDebt(s, u, v, n, r)
        PROVE  Backing'
    BY <2>2, TransferDebtBacked
  <2>3. ASSUME NEW r \in Rcomps, Accrue(s, r) \/ WithdrawFees(s, r)
        PROVE  UNCHANGED <<balance, collateralSilo>>
    BY <2>3 DEF Accrue, WithdrawFees
  <2>4. ASSUME NEW n, BeginFlashLoan(s, n) \/ Donate(s, n)
        PROVE  UNCHANGED <<balance, collateralSilo>>
    BY <2>4 DEF BeginFlashLoan, Donate
  <2> HIDE DEF Backing
  <2> QED
    BY <1>1, <1>2, <2>1, <2>2, <2>3, <2>4, NobodyStartsToOwe, BackingKept DEF SiloNext
<1>3. EndFlashLoan \/ NewBlock \/ UNCHANGED vars => UNCHANGED <<balance, collateralSilo>>
  BY DEF EndFlashLoan, NewBlock, vars
<1> QED
  BY <1>1, <1>2, <1>3 DEF Next

-----------------------------------------------------------------------------
(* The calls a liquidation makes.                                          *)

\* A call to one Silo that burns shares of one user
LEMMA BurnMarket ==
  ASSUME NEW l, NEW b, MarketOK(l, b), NEW s \in Silos, NEW m \in Ledger,
         LedgerOK(m, Owed(s)), LedgerFair(m),
         NEW type \in AssetType, NEW u \in Users, NEW k \in Nat, k <= b[s][type][u],
         m.supply = [l[s].supply EXCEPT ![type] = @ - k]
  PROVE  MarketOK([l EXCEPT ![s] = m], Burned(b, s, type, u, k))
<1> DEFINE l2 == [l EXCEPT ![s] = m]
           n == l[s].supply[type] - k
<1>1. l \in [Silos -> Ledger] /\ b \in Balances /\ SharesOK(b, SuppliesOf(l))
  BY DEF MarketOK
<1>2. k <= l[s].supply[type] /\ l[s].supply[type] \in Nat
  <2>1. l[s].supply[type] \in Nat
    BY <1>1, LedgerFields
  <2>2. b[s][type] \in [Users -> Nat] /\ AddsUpTo(b[s][type], l[s].supply[type])
    BY <1>1 DEF Balances, SharesOK, SuppliesOf
  <2>3. b[s][type][u] <= l[s].supply[type] /\ b[s][type][u] \in Nat
    BY <2>1, <2>2, BalanceBound
  <2> QED
    BY <2>1, <2>3
<1>3. n \in Nat /\ m.supply = [l[s].supply EXCEPT ![type] = n]
  BY <1>2
<1> HIDE DEF n
<1>4. /\ l2 \in [Silos -> Ledger]
      /\ SuppliesOf(l) \in Supplies /\ SuppliesOf(l2) \in Supplies
      /\ SuppliesOf(l2)[s][type] = n
      /\ \A s2 \in Silos, t2 \in AssetType :
           <<s2, t2>> # <<s, type>> => SuppliesOf(l2)[s2][t2] = SuppliesOf(l)[s2][t2]
  <2>1. l2 \in [Silos -> Ledger] /\ l2[s] = m /\ \A t \in Silos : t # s => l2[t] = l[t]
    BY <1>1
  <2>2. ASSUME NEW j \in [Silos -> Ledger] PROVE SuppliesOf(j) \in Supplies
    BY DEF SuppliesOf, Supplies, Ledger
  <2> HIDE DEF l2
  <2>3. SuppliesOf(l) \in Supplies /\ SuppliesOf(l2) \in Supplies
    BY <1>1, <2>1, <2>2
  <2>4. SuppliesOf(l2)[s] = m.supply /\ SuppliesOf(l)[s] = l[s].supply
    BY <2>1 DEF SuppliesOf
  <2>5. \A t \in Silos : t # s => SuppliesOf(l2)[t] = SuppliesOf(l)[t]
    BY <2>1 DEF SuppliesOf
  <2>6. l[s].supply \in [AssetType -> Nat]
    BY <1>1 DEF Ledger
  <2>7. SuppliesOf(l2)[s][type] = n
    BY <1>3, <2>4, <2>6
  <2>8. ASSUME NEW s2 \in Silos, NEW t2 \in AssetType, <<s2, t2>> # <<s, type>>
        PROVE  SuppliesOf(l2)[s2][t2] = SuppliesOf(l)[s2][t2]
    BY <1>3, <2>4, <2>5, <2>6, <2>8
  <2> QED
    BY <2>1, <2>3, <2>7, <2>8
<1>5. SuppliesOf(l2)[s][type] = SuppliesOf(l)[s][type] - k
  BY <1>4 DEF n, SuppliesOf
<1>6. \A t \in Silos : LedgerOK(l2[t], Owed(t)) /\ LedgerFair(l2[t])
  BY <1>1 DEF MarketOK
<1> HIDE DEF l2
<1>7. Burned(b, s, type, u, k) \in Balances /\ SharesOK(Burned(b, s, type, u, k), SuppliesOf(l2))
  BY <1>1, <1>4, <1>5, BurnOK
<1> QED
  BY <1>4, <1>6, <1>7 DEF MarketOK, l2

\* A transfer of shares
LEMMA TransferMarket ==
  ASSUME NEW l, NEW b, MarketOK(l, b), NEW s \in Silos, NEW type \in AssetType,
         NEW u \in Users, NEW v \in Users, NEW n \in Nat, n <= b[s][type][u]
  PROVE  MarketOK(l, Transferred(b, s, type, u, v, n))
<1>1. /\ l \in [Silos -> Ledger] /\ b \in Balances /\ SharesOK(b, SuppliesOf(l))
      /\ SuppliesOf(l) \in Supplies
  BY DEF MarketOK, SuppliesOf, Supplies, Ledger
<1> QED
  BY <1>1, TransferOK DEF MarketOK, Transferred

\* Nobody holds more shares than are counted.
LEMMA MarketHolding ==
  ASSUME NEW l, NEW b, MarketOK(l, b), NEW s \in Silos, NEW type \in AssetType, NEW u \in Users
  PROVE  /\ l[s] \in Ledger
         /\ b[s][type][u] \in Nat /\ l[s].supply[type] \in Nat
         /\ b[s][type][u] <= l[s].supply[type]
<1>1. l[s] \in Ledger /\ b \in Balances
  BY DEF MarketOK
<1>2. l[s].supply[type] \in Nat
  BY <1>1, LedgerFields
<1>3. b[s][type] \in [Users -> Nat] /\ AddsUpTo(b[s][type], l[s].supply[type])
  BY <1>1 DEF MarketOK, Balances, SharesOK, SuppliesOf
<1> QED
  BY <1>1, <1>2, <1>3, BalanceBound

\* repay
LEMMA RepaidMarket ==
  ASSUME LoansOK, NEW l, NEW b, MarketOK(l, b), NEW d \in Silos, NEW u \in Users,
         NEW in \in Amounts, NEW y, y = RepaymentOf(l[d], b[d]["Debt"][u], in),
         CanRepay(l[d], y)
  PROVE  MarketOK([l EXCEPT ![d] = Received(Repaid(l[d], y), y.assets)],
                  Burned(b, d, "Debt", u, y.shares))
<1> DEFINE owes == b[d]["Debt"][u]
           m == Received(Repaid(l[d], y), y.assets)
<1>1. "Debt" \in AssetType
  BY DEF AssetType
<1>2. /\ l[d] \in Ledger /\ LedgerOK(l[d], Owed(d)) /\ LedgerFair(l[d])
      /\ owes \in Nat /\ l[d].supply["Debt"] \in Nat /\ owes <= l[d].supply["Debt"]
  BY <1>1, MarketHolding DEF MarketOK
<1>3. Owed(d) \in Nat
  BY OwedNat DEF LoansOK
<1> HIDE DEF owes
<1>4. y = RepaymentOf(l[d], owes, in)
  BY DEF owes
<1>5. y \in Amounts /\ y.shares \in Nat /\ y.shares <= owes
  BY <1>2, <1>4, RepaymentBound
<1>6. LedgerFair(m)
  BY <1>2, <1>4, RepayFair
<1>7. m \in Ledger /\ LedgerOK(m, Owed(d)) /\ m.supply = [l[d].supply EXCEPT !["Debt"] = @ - y.shares]
  <2>1. y.shares <= l[d].supply["Debt"]
    BY <1>2, <1>5
  <2> QED
    BY <1>2, <1>3, <1>5, <2>1, RepayOK
<1> HIDE DEF m
<1>8. y.shares <= b[d]["Debt"][u]
  BY <1>5 DEF owes
<1>9. MarketOK([l EXCEPT ![d] = m], Burned(b, d, "Debt", u, y.shares))
  BY <1>1, <1>5, <1>6, <1>7, <1>8, BurnMarket
<1> QED
  BY <1>9 DEF m

\* A redemption that pays something, or one that does not
LEMMA RedemptionAmounts ==
  ASSUME NEW l \in Ledger, NEW t \in CollateralType, NEW n \in Nat
  PROVE  RedemptionOf(l, t, n) \in Amounts /\ RedemptionOf(l, t, n).shares = n
<1> DEFINE in == [assets |-> 0, shares |-> n]
<1>1. in \in Amounts /\ in.assets = 0 /\ in.shares = n
  BY DEF Amounts
<1>2. l.assets[t] \in Nat /\ l.supply[t] \in Nat
  BY LedgerFields DEF CollateralType, AssetType
<1> HIDE DEF in
<1>3. WithdrawalOf(l, t, in) \in Amounts /\ WithdrawalOf(l, t, in).shares = n
  BY <1>1, <1>2, ConvertedNat DEF WithdrawalOf
<1> QED
  BY <1>3 DEF RedemptionOf, in

\* _tryRedeem
LEMMA RedeemedMarket ==
  ASSUME LoansOK, NEW l, NEW b, MarketOK(l, b), NEW c \in Silos, NEW t \in CollateralType,
         NEW u \in Users, NEW n \in Nat, CanTryRedeem(l[c], t, n),
         NEW k, k = n - KeptShares(l[c], t, n), k <= b[c][t][u]
  PROVE  /\ MarketOK([l EXCEPT ![c] = TriedRedeem(l[c], t, n)], Burned(b, c, t, u, k))
         /\ \A t2 \in CollateralType : PriceKept(l[c], TriedRedeem(l[c], t, n), t2)
<1> DEFINE x == RedemptionOf(l[c], t, n)
           m == TriedRedeem(l[c], t, n)
<1>1. t \in AssetType /\ t # "Debt"
  BY DEF CollateralType, AssetType
<1>2. /\ l[c] \in Ledger /\ LedgerOK(l[c], Owed(c)) /\ LedgerFair(l[c])
      /\ b[c][t][u] \in Nat /\ l[c].supply[t] \in Nat /\ b[c][t][u] <= l[c].supply[t]
  BY <1>1, MarketHolding DEF MarketOK
<1>3. Owed(c) \in Nat
  BY OwedNat DEF LoansOK
<1>4. x \in Amounts /\ x.shares = n
  BY <1>2, RedemptionAmounts
<1>5. CASE x.assets = 0
  <2>1. k = 0 /\ m = l[c]
    BY <1>5 DEF KeptShares, TriedRedeem
  <2>2. [l EXCEPT ![c] = m] = l /\ m.supply = [l[c].supply EXCEPT ![t] = @ - k]
    <3>1. l[c].supply \in [AssetType -> Nat] /\ l \in [Silos -> Ledger]
      BY <1>2 DEF Ledger, MarketOK
    <3>2. l[c].supply[t] - 0 = l[c].supply[t]
      BY <1>2
    <3> QED
      BY <2>1, <3>1, <3>2
  <2> HIDE DEF m
  <2>3. MarketOK([l EXCEPT ![c] = m], Burned(b, c, t, u, k))
    BY <1>1, <1>2, <2>1, <2>2, BurnMarket
  <2>4. \A t2 \in CollateralType : PriceKept(l[c], m, t2)
    BY <1>2, <2>1, SameTotals DEF PricesHeld
  <2> QED
    BY <2>3, <2>4 DEF m
<1>6. CASE x.assets # 0
  <2>1. k = n /\ m = Paid(Withdrawn(l[c], t, x), x.assets)
    BY <1>6 DEF KeptShares, TriedRedeem
  <2>2. CanWithdraw(l[c], t, x) /\ CanPayWithdrawal(Withdrawn(l[c], t, x), x.assets)
    BY <1>6 DEF CanTryRedeem
  <2>3. x.assets <= l[c].cash
    BY <1>2, <2>2 DEF CanPayWithdrawal, Withdrawn, Ledger
  <2> HIDE DEF x, m
  <2>4. x.shares <= l[c].supply[t]
    BY <1>2, <1>4, <2>1
  <2>5. m \in Ledger /\ LedgerOK(m, Owed(c)) /\ m.supply = [l[c].supply EXCEPT ![t] = @ - x.shares]
    BY <1>2, <1>3, <1>4, <2>1, <2>2, <2>3, <2>4, WithdrawOK
  <2>6. LedgerFair(m)
    BY <1>1, <1>2, <2>1 DEF LedgerFair, Paid, Withdrawn, Ledger, AssetType
  <2>7. MarketOK([l EXCEPT ![c] = m], Burned(b, c, t, u, k))
    BY <1>1, <1>4, <2>1, <2>5, <2>6, BurnMarket
  <2>8. \A t2 \in CollateralType : PriceKept(l[c], m, t2)
    <3> DEFINE in == [assets |-> 0, shares |-> n]
    <3>1. in \in Amounts /\ x = WithdrawalOf(l[c], t, in)
      BY DEF Amounts, RedemptionOf, x
    <3> HIDE DEF in
    <3>2. PricesHeld(l[c], Paid(Withdrawn(l[c], t, x), x.assets))
      BY <1>2, <2>2, <2>4, <3>1, WithdrawnPrices
    <3> QED
      BY <2>1, <3>2 DEF PricesHeld
  <2> QED
    BY <2>7, <2>8 DEF m
<1> QED
  BY <1>5, <1>6


-----------------------------------------------------------------------------
(* PartialLiquidationLib: how much is repaid and seized.                   *)

\* A part of a whole, in the measure of another whole, is at most that whole.
LEMMA ByRatioBound ==
  ASSUME NEW part \in Nat, NEW other \in Nat, NEW total \in Nat, part <= total
  PROVE  ByRatio(part, other, total) \in Nat /\ ByRatio(part, other, total) <= other
<1>1. CASE total = 0
  BY <1>1 DEF ByRatio, MulDiv
<1>2. CASE total # 0
  <2> DEFINE q == MulDiv(part, other, total, Floor)
  <2>1. q \in Nat /\ total * q <= part * other
    BY <1>2, FloorBound
  <2>2. part * other <= total * other
    OBVIOUS
  <2> HIDE DEF q
  <2>3. ASSUME q > other PROVE FALSE
    <3>1. total * q >= total * (other + 1) /\ total * (other + 1) = total * other + total
      BY <2>1, <2>3
    <3> QED
      BY <1>2, <2>1, <2>2, <3>1
  <2> QED
    BY <2>1, <2>3 DEF q, ByRatio
<1> QED
  BY <1>1, <1>2

\* estimateMaxRepayValue never asks for more than the debt.
LEMMA EstimateBound ==
  ASSUME NEW dv \in Nat, NEW cv \in Nat, NEW target \in Nat, NEW fee \in Nat
  PROVE  /\ EstimateMaxRepayValue(dv, cv, target, fee) \in Nat
         /\ EstimateMaxRepayValue(dv, cv, target, fee) <= dv
<1> DEFINE margin == target + (target * fee) \div Precision
           excess == dv * Precision - target * cv
           divider == Precision - margin
           repay == excess \div divider
           e == EstimateMaxRepayValue(dv, cv, target, fee)
<1>1. Precision \in Nat \ {0} /\ FullLiquidationThreshold \in 0 .. (Precision - 1)
  BY MathAssumption, LiquidationAssumption
<1>2. \/ e = 0
      \/ e = dv
      \/ /\ e = repay
         /\ ~(target * cv >= dv * Precision)
         /\ ~(margin >= Precision)
         /\ ~((repay * Precision) \div dv > FullLiquidationThreshold)
  BY DEF EstimateMaxRepayValue
<1>3. margin \in Nat /\ target * cv \in Nat /\ dv * Precision \in Nat
  <2>1. target * fee \in Nat
    OBVIOUS
  <2>2. (target * fee) \div Precision \in Nat
    BY <1>1, <2>1, Quotient
  <2> QED
    BY <1>1, <2>2
<1> HIDE DEF margin, e
<1>4. ASSUME e = repay, ~(target * cv >= dv * Precision), ~(margin >= Precision),
             ~((repay * Precision) \div dv > FullLiquidationThreshold)
      PROVE  repay \in Nat /\ repay <= dv
  <2>0. dv # 0
    BY <1>1, <1>3, <1>4
  <2>1. excess \in Nat /\ divider \in Nat \ {0}
    BY <1>1, <1>3, <1>4
  <2> HIDE DEF excess, divider
  <2>2. repay \in Nat
    BY <2>1, Quotient
  <2> HIDE DEF repay
  <2>3. repay * Precision \in Nat
    BY <1>1, <2>2
  <2>4. repay * Precision < dv * ((repay * Precision) \div dv) + dv
        /\ (repay * Precision) \div dv \in Nat
    BY <2>0, <2>3, Quotient
  <2> DEFINE q == (repay * Precision) \div dv
  <2>5. q \in Nat /\ q <= Precision - 1
    BY <1>1, <1>4, <2>4
  <2>6. repay * Precision < dv * q + dv
    BY <2>4
  <2> HIDE DEF q
  <2>7. dv * q + dv <= dv * Precision
    <3>1. q + 1 <= Precision
      BY <1>1, <2>5
    <3>2. dv * (q + 1) <= dv * Precision
      BY <1>1, <2>5, <3>1
    <3> QED
      BY <2>5, <3>2
  <2>8. repay * Precision < dv * Precision
    <3>1. dv * q + dv \in Nat
      BY <2>5
    <3> QED
      BY <1>1, <2>2, <2>3, <2>6, <2>7, <3>1
  <2>9. ASSUME repay > dv PROVE FALSE
    <3>1. dv * Precision <= repay * Precision
      BY <1>1, <2>2, <2>9
    <3> QED
      BY <1>3, <2>3, <2>8, <3>1
  <2> QED
    BY <2>2, <2>9
<1> QED
  BY <1>2, <1>4 DEF e

\* liquidationPreview never repays more than the debt, whatever is offered.
LEMMA DebtToRepayBound ==
  ASSUME NEW dv \in Nat, NEW cv \in Nat, NEW debt \in Nat, NEW max \in Nat, NEW ltv,
         NEW c \in Silos
  PROVE  /\ DebtToRepay(dv, cv, debt, max, ltv, c) \in Nat
         /\ DebtToRepay(dv, cv, debt, max, ltv, c) <= debt
<1> DEFINE e == EstimateMaxRepayValue(dv, cv, LiquidationTargetLtv[c], LiquidationFee[c])
<1>1. LiquidationTargetLtv[c] \in Nat /\ LiquidationFee[c] \in Nat
  BY LiquidationAssumption
<1>2. e \in Nat /\ e <= dv
  BY <1>1, EstimateBound
<1>3. \/ DebtToRepay(dv, cv, debt, max, ltv, c) = SmallerOf(max, debt)
      \/ DebtToRepay(dv, cv, debt, max, ltv, c) = debt
      \/ DebtToRepay(dv, cv, debt, max, ltv, c) = SmallerOf(max, ByRatio(e, debt, dv))
  BY DEF DebtToRepay
<1> HIDE DEF e
<1>4. ByRatio(e, debt, dv) \in Nat /\ ByRatio(e, debt, dv) <= debt
  BY <1>2, ByRatioBound
<1> QED
  BY <1>3, <1>4 DEF SmallerOf


\* A repayment within what the debt of the borrower is worth is not cut.
LEMMA ExactRepayment ==
  ASSUME NEW l \in Ledger, LedgerFair(l), NEW owes \in Nat, owes <= l.supply["Debt"],
         NEW debt \in Nat \ {0},
         debt <= ConvertToAssets(owes, l.assets["Debt"], l.supply["Debt"], Ceil, "Debt")
  PROVE  /\ RepaymentOf(l, owes, [assets |-> debt, shares |-> 0]).assets = debt
         /\ RepaymentOf(l, owes, [assets |-> debt, shares |-> 0]).shares
              = MulDiv(debt, l.supply["Debt"], l.assets["Debt"], Floor)
<1> DEFINE A == l.assets["Debt"]
           S == l.supply["Debt"]
           in == [assets |-> debt, shares |-> 0]
           x == Converted(in, A, S, Ceil, Floor, "Debt")
<1>1. A \in Nat /\ S \in Nat /\ DebtFair(A, S)
  BY LedgerFields DEF LedgerFair, AssetType
<1>2. CommonShares(S, "Debt") = S /\ CommonAssets(A, S, "Debt") = A
  BY <1>1, DebtRatio
<1>3. S # 0
  BY <1>2 DEF ConvertToAssets
<1>4. A \in Nat \ {0} /\ S <= A
  BY <1>1, <1>3 DEF DebtFair
<1>5. x.assets = debt /\ x.shares = MulDiv(debt, S, A, Floor)
  BY <1>2, <1>3 DEF Converted, ConvertToShares
<1>6. debt <= MulDiv(owes, A, S, Ceil)
  BY <1>2, <1>3 DEF ConvertToAssets
<1> HIDE DEF A, S
<1>7. MulDiv(debt, S, A, Floor) <= owes
  <2> DEFINE k == MulDiv(debt, S, A, Floor)
             d == MulDiv(owes, A, S, Ceil)
  <2>1. k \in Nat /\ A * k <= debt * S
    BY <1>1, <1>4, FloorBound
  <2>2. d \in Nat /\ S * d < owes * A + S
    BY <1>1, <1>3, <1>4, CeilBound
  <2>3. debt <= d
    BY <1>6
  <2> HIDE DEF k, d
  <2>4. debt * S <= S * d
    BY <1>1, <2>2, <2>3
  <2>5. A * k < owes * A + A
    <3>1. A * k \in Nat /\ debt * S \in Nat /\ S * d \in Nat /\ owes * A \in Nat
      BY <1>1, <1>4, <2>1, <2>2
    <3> QED
      BY <1>1, <1>4, <2>1, <2>2, <2>4, <3>1
  <2>6. ASSUME k >= owes + 1 PROVE FALSE
    <3>1. A * (owes + 1) <= A * k /\ A * (owes + 1) = owes * A + A
      BY <1>4, <2>1, <2>6
    <3>2. A * k \in Nat /\ owes * A + A \in Nat
      BY <1>4, <2>1
    <3> QED
      BY <2>5, <3>1, <3>2
  <2> QED
    BY <2>1, <2>6 DEF k
<1> HIDE DEF x
<1>8. ~(x.shares > owes)
  <2>1. MulDiv(debt, S, A, Floor) \in Nat
    BY <1>1, <1>4, FloorBound
  <2> QED
    BY <1>5, <1>7, <2>1
<1> QED
  BY <1>5, <1>8 DEF RepaymentOf, A, S, x

\* A greater number has no smaller quotient.
LEMMA QuotientOrder ==
  ASSUME NEW m \in Nat, NEW n \in Nat, m <= n, NEW c \in Nat \ {0}
  PROVE  m \div c \in Nat /\ n \div c \in Nat /\ m \div c <= n \div c
<1> DEFINE i == m \div c
           j == n \div c
<1>1. i \in Nat /\ c * i <= m /\ j \in Nat /\ n < c * j + c
  BY Quotient
<1> HIDE DEF i, j
<1>2. ASSUME i >= j + 1 PROVE FALSE
  <2>1. c * (j + 1) <= c * i /\ c * (j + 1) = c * j + c /\ c * i \in Nat /\ c * j \in Nat
    BY <1>1, <1>2
  <2> QED
    BY <1>1, <2>1
<1> QED
  BY <1>1, <1>2 DEF i, j

\* calculateCollateralToLiquidate answers the worth of the debt and of the fee
\* on it at most.
LEMMA CollateralForBound ==
  ASSUME NEW dv \in Nat, NEW cv \in Nat, NEW fee \in Nat
  PROVE  /\ CollateralFor(dv, cv, fee) \in Nat
         /\ CollateralFor(dv, cv, fee) <= cv
         /\ CollateralFor(dv, cv, fee) * Precision <= dv * (Precision + fee)
<1> DEFINE q == (dv * fee) \div Precision
           v == CollateralFor(dv, cv, fee)
<1>1. Precision \in Nat \ {0} /\ dv * fee \in Nat
  BY MathAssumption
<1>2. q \in Nat /\ Precision * q <= dv * fee
  BY <1>1, Quotient
<1>3. v = SmallerOf(dv + q, cv)
  BY DEF CollateralFor
<1> HIDE DEF q, v
<1>4. v \in Nat /\ v <= cv /\ v <= dv + q
  BY <1>2, <1>3 DEF SmallerOf
<1>5. v * Precision <= (dv + q) * Precision
  BY <1>1, <1>2, <1>4
<1>6. (dv + q) * Precision <= dv * (Precision + fee)
  <2>1. (dv + q) * Precision = dv * Precision + Precision * q
    BY <1>1, <1>2
  <2>2. dv * (Precision + fee) = dv * Precision + dv * fee
    BY <1>1
  <2> QED
    BY <1>1, <1>2, <2>1, <2>2
<1>7. v * Precision \in Nat /\ (dv + q) * Precision \in Nat /\ dv * (Precision + fee) \in Nat
  BY <1>1, <1>2, <1>4
<1> QED
  BY <1>4, <1>5, <1>6, <1>7 DEF v

\* A common factor is dropped.
LEMMA Cancel ==
  ASSUME NEW a \in Nat, NEW b \in Nat, NEW k \in Nat \ {0}, k * a <= k * b
  PROVE  a <= b
<1>1. ASSUME a > b PROVE FALSE
  <2>1. k * (b + 1) <= k * a /\ k * (b + 1) = k * b + k
    BY <1>1
  <2> QED
    BY <2>1
<1> QED
  BY <1>1

\* A part of the debt is repaid only where the target can be met: there is more
\* collateral than the debt weighs at the target and the fee on it.
LEMMA PartialRepayment ==
  ASSUME NEW dv \in Nat, NEW cv \in Nat, NEW target \in Nat, NEW fee \in Nat,
         NEW e, e = EstimateMaxRepayValue(dv, cv, target, fee), e # dv, e # 0
  PROVE  /\ target # 0 /\ dv <= cv
         /\ dv * (target + (target * fee) \div Precision) <= target * cv
<1> DEFINE margin == target + (target * fee) \div Precision
           excess == dv * Precision - target * cv
           divider == Precision - margin
           repay == excess \div divider
<1>1. Precision \in Nat \ {0}
  BY MathAssumption
<1>2. /\ e = repay /\ target # 0 /\ ~(dv >= cv)
      /\ ~(target * cv >= dv * Precision) /\ ~(margin >= Precision)
  BY DEF EstimateMaxRepayValue
<1>3. margin \in Nat /\ target * cv \in Nat /\ dv * Precision \in Nat
  <2>1. target * fee \in Nat
    OBVIOUS
  <2>2. (target * fee) \div Precision \in Nat
    BY <1>1, <2>1, Quotient
  <2> QED
    BY <1>1, <2>2
<1> HIDE DEF margin
<1>4. excess \in Nat /\ divider \in Nat \ {0} /\ divider = Precision - margin
      /\ excess = dv * Precision - target * cv
  BY <1>1, <1>2, <1>3
<1> HIDE DEF excess, divider
<1>5. repay \in Nat /\ excess < divider * repay + divider
  BY <1>4, Quotient
<1>6. repay + 1 <= dv
  <2>1. e \in Nat /\ e <= dv
    BY EstimateBound
  <2> QED
    BY <1>2, <1>5, <2>1
<1> HIDE DEF repay
<1>7. divider * (repay + 1) <= divider * dv /\ divider * (repay + 1) = divider * repay + divider
  BY <1>4, <1>5, <1>6
<1>8. divider * dv = dv * Precision - dv * margin
  BY <1>1, <1>3, <1>4
<1>9. dv * margin \in Nat /\ divider * dv \in Nat /\ divider * repay + divider \in Nat
  BY <1>3, <1>4, <1>5
<1>10. dv * margin <= target * cv
  BY <1>3, <1>4, <1>5, <1>7, <1>8, <1>9
<1> QED
  BY <1>2, <1>10 DEF margin

\* A repayment and its fee, rounded down, weigh at the target as much as the
\* repayment does there with the fee on the target, but for one.
LEMMA FeeAtTarget ==
  ASSUME NEW q \in Nat, NEW target \in Nat, NEW fee \in Nat
  PROVE  target * (q + (q * fee) \div Precision)
           <= q * (target + (target * fee) \div Precision) + q
<1> DEFINE i == (q * fee) \div Precision
           j == (target * fee) \div Precision
<1>1. Precision \in Nat \ {0} /\ q * fee \in Nat /\ target * fee \in Nat
  BY MathAssumption
<1>2. i \in Nat /\ Precision * i <= q * fee
  BY <1>1, Quotient
<1>3. j \in Nat /\ target * fee < Precision * j + Precision
  BY <1>1, Quotient
<1> HIDE DEF i, j
<1>4. target * (Precision * i) <= target * (q * fee)
  BY <1>1, <1>2
<1>5. q * (target * fee) <= q * (Precision * j + Precision)
  BY <1>1, <1>3
<1>6. /\ target * (q * fee) = q * (target * fee)
      /\ target * (Precision * i) = Precision * (target * i)
      /\ q * (Precision * j + Precision) = Precision * (q * j + q)
  BY <1>1, <1>2, <1>3
<1>7. target * i \in Nat /\ q * j + q \in Nat /\ q * (target * fee) \in Nat
  BY <1>1, <1>2, <1>3
<1>8. Precision * (target * i) <= Precision * (q * j + q)
  <2>1. Precision * (target * i) \in Nat /\ Precision * (q * j + q) \in Nat
    BY <1>1, <1>7
  <2> QED
    BY <1>4, <1>5, <1>6, <1>7, <2>1
<1>9. target * i <= q * j + q
  BY <1>1, <1>7, <1>8, Cancel
<1>10. target * (q + i) = target * q + target * i /\ q * (target + j) + q = target * q + (q * j + q)
  BY <1>2, <1>3
<1>11. target * q \in Nat
  OBVIOUS
<1> QED
  BY <1>7, <1>9, <1>10, <1>11 DEF i, j

\* What weighs no more at the target weighs no more against all the collateral.
LEMMA WeighedAtTarget ==
  ASSUME NEW dv \in Nat, NEW cv \in Nat, NEW q \in Nat, NEW target \in Nat \ {0},
         NEW margin \in Nat, NEW x \in Nat, NEW lost \in Nat,
         target * x <= q * margin + q, q <= target * lost,
         dv * margin <= target * cv, dv <= cv
  PROVE  dv * x <= (q + lost) * cv
<1>1. dv * (target * x) <= dv * (q * margin + q)
  OBVIOUS
<1>2. q * (dv * margin) <= q * (target * cv)
  OBVIOUS
<1>3. dv * q <= dv * (target * lost)
  OBVIOUS
<1>4. (target * lost) * dv <= (target * lost) * cv
  OBVIOUS
<1>5. /\ dv * (target * x) = target * (dv * x)
      /\ dv * (q * margin + q) = q * (dv * margin) + dv * q
      /\ dv * (target * lost) = (target * lost) * dv
      /\ q * (target * cv) + (target * lost) * cv = target * ((q + lost) * cv)
  OBVIOUS
<1>6. /\ dv * x \in Nat /\ (q + lost) * cv \in Nat
      /\ q * (dv * margin) \in Nat /\ dv * q \in Nat /\ (target * lost) * dv \in Nat
      /\ q * (target * cv) \in Nat /\ (target * lost) * cv \in Nat
      /\ target * (dv * x) \in Nat /\ target * ((q + lost) * cv) \in Nat
  OBVIOUS
<1>7. target * (dv * x) <= target * ((q + lost) * cv)
  BY <1>1, <1>2, <1>3, <1>4, <1>5, <1>6
<1> QED
  BY <1>6, <1>7, Cancel

\* Collateral that is taken for a repayment weighs no more in an LTV below 100%
\* than the repayment does, but for what the estimate of the fee may lose.
Weighed(dv, cv, c, repaid, taken) ==
  MulDiv(dv, Precision, cv, Ceil) \in 1 .. (Precision - 1)
    => dv * taken <= (repaid + LostToFee(c, repaid)) * cv

\* What getExactLiquidationAmounts answers: no more debt than there is, and no
\* more collateral than the debt and the fee on it are worth.
ExactOK(x, c, d, p) ==
  /\ x \in [debt : Nat, protected : Nat, collateral : Nat]
  /\ x.debt <= p["Debt"]
  /\ price[c] * (x.protected + x.collateral) * Precision
       <= price[d] * x.debt * (Precision + LiquidationFee[c])
  /\ Weighed(price[d] * p["Debt"], price[c] * SumOfCollateral(p), c,
             price[d] * x.debt, price[c] * (x.protected + x.collateral))


\* A position is assets, and its debt is no more than all debt of the Silo.
LEMMA PositionNat ==
  ASSUME NEW l, MarketOK(l, balance), NEW u \in Users, NEW c \in Silos, NEW d \in Silos
  PROVE  /\ Position(l, u, c, d)["Protected"] \in Nat
         /\ Position(l, u, c, d)["Collateral"] \in Nat
         /\ Position(l, u, c, d)["Debt"] \in Nat
         /\ Position(l, u, c, d)["Debt"] =
              ConvertToAssets(balance[d]["Debt"][u], l[d].assets["Debt"], l[d].supply["Debt"],
                              Ceil, "Debt")
         /\ Position(l, u, c, d)["Debt"] <= l[d].assets["Debt"]
<1>1. ASSUME NEW s \in Silos, NEW t \in AssetType, NEW r
      PROVE  ConvertToAssets(balance[s][t][u], l[s].assets[t], l[s].supply[t], r, t) \in Nat
  <2>1. /\ balance[s][t][u] \in Nat /\ l[s].assets[t] \in Nat /\ l[s].supply[t] \in Nat
    BY MarketHolding, LedgerFields
  <2>2. CommonShares(l[s].supply[t], t) \in Nat /\ CommonAssets(l[s].assets[t], l[s].supply[t], t) \in Nat
    BY <2>1, MathAssumption DEF CommonShares, CommonAssets
  <2> QED
    BY <2>1, <2>2, MulDivNat DEF ConvertToAssets
<1>2. "Debt" \in AssetType /\ "Protected" \in AssetType /\ "Collateral" \in AssetType
  BY DEF AssetType
<1>3. Position(l, u, c, d)["Debt"] =
        ConvertToAssets(balance[d]["Debt"][u], l[d].assets["Debt"], l[d].supply["Debt"], Ceil, "Debt")
  BY <1>2 DEF Position
<1>4. /\ Position(l, u, c, d)["Protected"] =
           ConvertToAssets(balance[c]["Protected"][u], l[c].assets["Protected"], l[c].supply["Protected"], Floor, "Protected")
      /\ Position(l, u, c, d)["Collateral"] =
           ConvertToAssets(balance[c]["Collateral"][u], l[c].assets["Collateral"], l[c].supply["Collateral"], Floor, "Collateral")
  BY <1>2 DEF Position
<1>5. Position(l, u, c, d)["Debt"] <= l[d].assets["Debt"]
  <2>1. /\ l[d] \in Ledger /\ balance[d]["Debt"][u] \in Nat /\ l[d].supply["Debt"] \in Nat
        /\ balance[d]["Debt"][u] <= l[d].supply["Debt"]
    BY <1>2, MarketHolding
  <2>2. l[d].assets["Debt"] \in Nat /\ DebtFair(l[d].assets["Debt"], l[d].supply["Debt"])
    BY <2>1, LedgerFields DEF MarketOK, LedgerFair
  <2> QED
    BY <1>3, <2>1, <2>2, DemandBound
<1> QED
  BY <1>1, <1>2, <1>3, <1>4, <1>5


\* The collateral for a repayment, in units, is worth no more than the
\* repayment and the fee on it.
LEMMA SeizedWorth ==
  ASSUME NEW pc \in Nat \ {0}, NEW pd \in Nat \ {0}, NEW fee \in Nat,
         NEW sum \in Nat \ {0}, NEW owed \in Nat \ {0}, NEW debt \in Nat
  PROVE  LET seized == ByRatio(CollateralFor(ByRatio(debt, pd * owed, owed), pc * sum, fee),
                               sum, pc * sum)
         IN  /\ seized \in Nat
             /\ pc * seized * Precision <= pd * debt * (Precision + fee)
             /\ pc * seized <= pc * sum
             /\ pc * seized <= pd * debt + (pd * debt * fee) \div Precision
<1> DEFINE dv == pd * owed
           cv == pc * sum
           rv == ByRatio(debt, dv, owed)
           v == CollateralFor(rv, cv, fee)
           seized == ByRatio(v, sum, cv)
<1>1. dv \in Nat /\ cv \in Nat \ {0} /\ Precision \in Nat \ {0}
  BY MathAssumption
<1>2. rv \in Nat /\ rv <= pd * debt
  <2>1. rv \in Nat /\ owed * rv <= debt * dv
    BY <1>1, FloorBound DEF ByRatio
  <2>2. debt * dv = owed * (pd * debt) /\ pd * debt \in Nat
    OBVIOUS
  <2> HIDE DEF rv, dv
  <2> QED
    BY <2>1, <2>2, Cancel
<1> HIDE DEF rv
<1>3. v \in Nat /\ v <= cv /\ v * Precision <= rv * (Precision + fee)
  BY <1>1, <1>2, CollateralForBound
<1>8. v <= pd * debt + (pd * debt * fee) \div Precision
  <2> DEFINE i == (rv * fee) \div Precision
             j == (pd * debt * fee) \div Precision
  <2>1. rv * fee \in Nat /\ pd * debt * fee \in Nat /\ rv * fee <= pd * debt * fee
    BY <1>2
  <2>2. i \in Nat /\ j \in Nat /\ i <= j
    BY <1>1, <2>1, QuotientOrder
  <2>3. v = SmallerOf(rv + i, cv)
    BY DEF CollateralFor
  <2> HIDE DEF i, v
  <2>4. v <= rv + i
    BY <1>1, <1>2, <1>3, <2>2, <2>3 DEF SmallerOf
  <2> HIDE DEF j
  <2>5. pd * debt \in Nat
    OBVIOUS
  <2>6. v <= pd * debt + j
    BY <1>2, <1>3, <2>2, <2>4, <2>5
  <2> QED
    BY <2>6 DEF j
<1> HIDE DEF v
<1>4. seized \in Nat /\ pc * seized <= v
  <2>1. seized \in Nat /\ cv * seized <= v * sum
    BY <1>1, <1>3, FloorBound DEF ByRatio
  <2> HIDE DEF seized
  <2>2. cv * seized = sum * (pc * seized) /\ v * sum = sum * v /\ pc * seized \in Nat
    BY <1>3, <2>1
  <2> HIDE DEF cv
  <2> QED
    BY <1>3, <2>1, <2>2, Cancel
<1> HIDE DEF seized
<1>5. pc * seized * Precision <= v * Precision
  BY <1>1, <1>3, <1>4
<1>6. rv * (Precision + fee) <= pd * debt * (Precision + fee)
  BY <1>1, <1>2
<1>7. /\ pc * seized * Precision \in Nat /\ v * Precision \in Nat
      /\ rv * (Precision + fee) \in Nat /\ pd * debt * (Precision + fee) \in Nat
  BY <1>1, <1>2, <1>3, <1>4
<1>9. pc * seized * Precision <= pd * debt * (Precision + fee)
  BY <1>3, <1>5, <1>6, <1>7
<1>10. pc * seized <= cv /\ pc * seized <= pd * debt + (pd * debt * fee) \div Precision
  <2> DEFINE j == (pd * debt * fee) \div Precision
  <2>1. pd * debt * fee \in Nat
    OBVIOUS
  <2>2. j \in Nat
    BY <1>1, <2>1, Quotient
  <2> HIDE DEF j
  <2>3. pd * debt \in Nat /\ pc * seized \in Nat
    BY <1>4
  <2>4. v <= pd * debt + j
    BY <1>8 DEF j
  <2>5. pc * seized <= cv /\ pc * seized <= pd * debt + j
    BY <1>1, <1>3, <1>4, <2>2, <2>3, <2>4
  <2> QED
    BY <2>5 DEF j
<1> QED
  BY <1>4, <1>9, <1>10 DEF seized, v, rv

\* The collateral for a repayment weighs no more than the repayment does.
LEMMA SeizedWeighs ==
  ASSUME NEW c \in Silos, NEW pc \in Nat \ {0}, NEW pd \in Nat \ {0},
         NEW sum \in Nat \ {0}, NEW owed \in Nat \ {0}, NEW max \in Nat, NEW debt \in Nat,
         debt = DebtToRepay(pd * owed, pc * sum, owed, max,
                            MulDiv(pd * owed, Precision, pc * sum, Ceil), c)
  PROVE  Weighed(pd * owed, pc * sum, c, pd * debt,
                 pc * ByRatio(CollateralFor(ByRatio(debt, pd * owed, owed), pc * sum,
                                            LiquidationFee[c]),
                              sum, pc * sum))
<1> DEFINE dv == pd * owed
           cv == pc * sum
           q == pd * debt
           target == LiquidationTargetLtv[c]
           fee == LiquidationFee[c]
           seized == ByRatio(CollateralFor(ByRatio(debt, dv, owed), cv, fee), sum, cv)
           taken == pc * seized
           lost == LostToFee(c, q)
           e == EstimateMaxRepayValue(dv, cv, target, fee)
           x == q + (q * fee) \div Precision
           margin == target + (target * fee) \div Precision
<1> SUFFICES ASSUME MulDiv(dv, Precision, cv, Ceil) \in 1 .. (Precision - 1)
             PROVE  dv * taken <= (q + lost) * cv
  BY DEF Weighed
<1>1. dv \in Nat /\ cv \in Nat /\ q \in Nat /\ target \in Nat /\ fee \in Nat /\ Precision \in Nat \ {0}
  BY LiquidationAssumption, MathAssumption
<1>2. seized \in Nat /\ taken \in Nat /\ taken <= cv /\ taken <= x
  <2>1. fee \in Nat
    BY <1>1
  <2> HIDE DEF fee
  <2>2. /\ seized \in Nat
        /\ pc * seized <= pc * sum
        /\ pc * seized <= pd * debt + (pd * debt * fee) \div Precision
    BY <2>1, SeizedWorth
  <2> HIDE DEF seized
  <2>3. pc * seized \in Nat
    BY <2>2
  <2> QED
    BY <2>2, <2>3
<1>3. lost \in Nat /\ (target # 0 => q <= target * lost)
  <2>1. CASE target = 0
    BY <2>1 DEF LostToFee
  <2>2. CASE target # 0
    <3>1. target \in Nat \ {0}
      BY <1>1, <2>2
    <3>2. lost = MulDiv(q, 1, target, Ceil)
      BY <2>2 DEF LostToFee
    <3> HIDE DEF lost, target, q
    <3>3. /\ MulDiv(q, 1, target, Ceil) \in Nat
          /\ q * 1 <= target * MulDiv(q, 1, target, Ceil)
      BY <1>1, <3>1, CeilBound
    <3>4. q * 1 = q
      BY <1>1
    <3> QED
      BY <3>2, <3>3, <3>4
  <2> QED
    BY <2>1, <2>2
<1>4. \/ debt = owed
      \/ e # dv /\ debt = SmallerOf(max, ByRatio(e, owed, dv))
  BY <1>1 DEF DebtToRepay
<1>5. x \in Nat /\ (q = 0 => x = 0)
  <2>1. q * fee \in Nat /\ (q = 0 => q * fee = 0)
    BY <1>1
  <2>2. 0 \div Precision = 0
    BY <1>1
  <2>3. (q * fee) \div Precision \in Nat
    BY <1>1, <2>1, Quotient
  <2> HIDE DEF q
  <2> QED
    BY <1>1, <2>1, <2>2, <2>3
<1>6. e \in Nat
  BY <1>1, EstimateBound
<1>7. debt # 0 => q # 0
  OBVIOUS
<1>8. debt = 0 => q = 0
  OBVIOUS
<1>9. debt = owed => q = dv
  OBVIOUS
<1>10. e = 0 => ByRatio(e, owed, dv) = 0
  BY <1>1 DEF ByRatio, MulDiv, Floor
<1> HIDE DEF x, seized, lost, e, taken, q, dv, cv
<1>11. CASE debt = owed
  <2>1. dv * taken <= dv * cv
    BY <1>1, <1>2
  <2>2. (q + lost) * cv = dv * cv + lost * cv /\ lost * cv \in Nat /\ dv * cv \in Nat /\ dv * taken \in Nat
    BY <1>1, <1>2, <1>3, <1>9, <1>11
  <2> QED
    BY <2>1, <2>2
<1>12. CASE debt = 0
  <2>1. taken = 0
    BY <1>2, <1>5, <1>8, <1>12
  <2>2. dv * taken = 0 /\ (q + lost) * cv \in Nat
    BY <1>1, <1>3, <2>1
  <2> QED
    BY <2>2
<1>13. CASE e # dv /\ debt = SmallerOf(max, ByRatio(e, owed, dv)) /\ debt # 0
  <2>1. e # 0
    BY <1>10, <1>13 DEF SmallerOf
  <2>2. target # 0 /\ dv <= cv /\ dv * margin <= target * cv
    <3>1. e = EstimateMaxRepayValue(dv, cv, target, fee)
      BY DEF e
    <3> HIDE DEF target, fee
    <3> QED
      BY <1>1, <1>13, <2>1, <3>1, PartialRepayment
  <2>3. target * x <= q * margin + q
    BY <1>1, FeeAtTarget DEF x
  <2>4. margin \in Nat
    <3>1. target * fee \in Nat
      BY <1>1
    <3>2. (target * fee) \div Precision \in Nat
      BY <1>1, <3>1, Quotient
    <3> QED
      BY <1>1, <3>2
  <2> HIDE DEF margin, target
  <2>5. dv * x <= (q + lost) * cv
    BY <1>1, <1>3, <1>5, <2>2, <2>3, <2>4, WeighedAtTarget
  <2>6. dv * taken <= dv * x
    BY <1>1, <1>2, <1>5
  <2>7. dv * taken \in Nat /\ dv * x \in Nat /\ (q + lost) * cv \in Nat
    BY <1>1, <1>2, <1>3, <1>5
  <2> QED
    BY <2>5, <2>6, <2>7
<1> QED
  BY <1>4, <1>11, <1>12, <1>13 DEF dv, cv, q, taken, seized, lost

\* getExactLiquidationAmounts
LEMMA ExactAmounts ==
  ASSUME NEW l, MarketOK(l, balance), price \in [Silos -> Nat \ {0}],
         NEW u \in Users, NEW c \in Silos, NEW d \in Silos, NEW max \in Nat, NEW lt
  PROVE  ExactOK(ExactLiquidationAmounts(l, u, c, d, max, lt), c, d, Position(l, u, c, d))
<1> DEFINE p == Position(l, u, c, d)
           sum == SumOfCollateral(p)
           cv == price[c] * sum
           dv == price[d] * p["Debt"]
           ltv == MulDiv(dv, Precision, cv, Ceil)
           debt == DebtToRepay(dv, cv, p["Debt"], max, ltv, c)
           seized == ByRatio(CollateralFor(ByRatio(debt, dv, p["Debt"]), cv, LiquidationFee[c]), sum, cv)
           prot == SmallerOf(seized, p["Protected"])
           x == ExactLiquidationAmounts(l, u, c, d, max, lt)
<1>1. \/ x = NoLiquidation
      \/ x = [NoLiquidation EXCEPT !.debt = SmallerOf(max, p["Debt"])]
      \/ /\ x = [debt |-> debt, protected |-> prot, collateral |-> seized - prot]
         /\ p["Debt"] # 0 /\ sum # 0
  BY DEF ExactLiquidationAmounts
<1>2. /\ p["Protected"] \in Nat /\ p["Collateral"] \in Nat /\ p["Debt"] \in Nat
      /\ price[c] \in Nat \ {0} /\ price[d] \in Nat \ {0} /\ Precision \in Nat
      /\ LiquidationFee[c] \in Nat
  BY PositionNat, MathAssumption, LiquidationAssumption
<1>3. sum \in Nat
  BY <1>2 DEF SumOfCollateral
<1>4. \A k \in Nat : price[d] * k * (Precision + LiquidationFee[c]) \in Nat
  BY <1>2
<1> HIDE DEF p, x, sum
<1>5. dv \in Nat /\ cv \in Nat
  BY <1>2, <1>3
<1>6. debt \in Nat /\ debt <= p["Debt"]
  <2> HIDE DEF cv, dv, ltv
  <2> QED
    BY <1>2, <1>5, DebtToRepayBound
<1> HIDE DEF debt
<1>10. ASSUME NEW q \in Nat PROVE Weighed(dv, cv, c, q, price[c] * (0 + 0))
  <2>1. LostToFee(c, q) \in Nat
    BY <1>10, LiquidationAssumption, MulDivNat DEF LostToFee
  <2> HIDE DEF dv, cv
  <2>2. (q + LostToFee(c, q)) * cv \in Nat /\ dv * (price[c] * (0 + 0)) = 0
    BY <1>2, <1>5, <1>10, <2>1
  <2> QED
    BY <2>2 DEF Weighed
<1>7. ASSUME x = NoLiquidation PROVE ExactOK(x, c, d, p)
  <2> DEFINE k == 0
  <2>1. /\ x \in [debt : Nat, protected : Nat, collateral : Nat]
        /\ x.debt = k /\ x.protected = 0 /\ x.collateral = 0
        /\ k \in Nat /\ k <= p["Debt"] /\ price[d] * k \in Nat
    BY <1>2, <1>7 DEF NoLiquidation
  <2> HIDE DEF k
  <2>3. Weighed(dv, cv, c, price[d] * k, price[c] * (0 + 0))
    BY <1>10, <2>1
  <2>4. price[c] * (0 + 0) * Precision <= price[d] * k * (Precision + LiquidationFee[c])
    BY <1>2, <1>4, <2>1
  <2> QED
    BY <2>1, <2>3, <2>4 DEF ExactOK, sum
<1>8. ASSUME x = [NoLiquidation EXCEPT !.debt = SmallerOf(max, p["Debt"])]
      PROVE  ExactOK(x, c, d, p)
  <2>1. SmallerOf(max, p["Debt"]) \in Nat /\ SmallerOf(max, p["Debt"]) <= p["Debt"]
    BY <1>2 DEF SmallerOf
  <2>2. x = [debt |-> SmallerOf(max, p["Debt"]), protected |-> 0, collateral |-> 0]
    BY <1>8 DEF NoLiquidation
  <2> DEFINE k == SmallerOf(max, p["Debt"])
  <2>3. k \in Nat /\ k <= p["Debt"] /\ price[d] * k \in Nat
    BY <1>2, <2>1
  <2>4. /\ x \in [debt : Nat, protected : Nat, collateral : Nat]
        /\ x.debt = k /\ x.protected = 0 /\ x.collateral = 0
    BY <2>1, <2>2
  <2> HIDE DEF k
  <2>5. Weighed(dv, cv, c, price[d] * k, price[c] * (0 + 0))
    BY <1>10, <2>3
  <2>6. price[c] * (0 + 0) * Precision <= price[d] * k * (Precision + LiquidationFee[c])
    BY <1>2, <1>4, <2>3
  <2> QED
    BY <2>3, <2>4, <2>5, <2>6 DEF ExactOK, sum
<1>9. ASSUME /\ x = [debt |-> debt, protected |-> prot, collateral |-> seized - prot]
             /\ p["Debt"] # 0 /\ sum # 0
      PROVE  ExactOK(x, c, d, p)
  <2>1. /\ seized \in Nat
        /\ price[c] * seized * Precision <= price[d] * debt * (Precision + LiquidationFee[c])
    BY <1>2, <1>3, <1>6, <1>9, SeizedWorth
  <2>4. Weighed(dv, cv, c, price[d] * debt, price[c] * seized)
    BY <1>2, <1>3, <1>6, <1>9, SeizedWeighs DEF debt
  <2> HIDE DEF seized
  <2>2. prot \in Nat /\ prot <= seized
    BY <1>2, <2>1 DEF SmallerOf
  <2>3. x.debt = debt /\ x.protected + x.collateral = seized
        /\ x \in [debt : Nat, protected : Nat, collateral : Nat]
    <3> HIDE DEF prot
    <3> QED
      BY <1>6, <1>9, <2>1, <2>2
  <2> QED
    BY <1>6, <2>1, <2>3, <2>4 DEF ExactOK, sum
<1> QED
  BY <1>1, <1>7, <1>8, <1>9 DEF x, p


-----------------------------------------------------------------------------
(* The shares that are seized.                                             *)

Seizable(x) == [t \in CollateralType |-> IF t = "Protected" THEN x.protected ELSE x.collateral]

\* The shares that stand for seized assets are worth no more than these.
LEMMA SeizedSharesOK ==
  ASSUME NEW l \in [Silos -> Ledger], NEW c \in Silos,
         NEW x \in [debt : Nat, protected : Nat, collateral : Nat],
         NEW n, n = SeizedShares(l, c, x)
  PROVE  /\ n \in [CollateralType -> Nat]
         /\ \A t \in CollateralType, k \in Nat :
              k <= n[t] => /\ RedemptionOf(l[c], t, k).assets \in Nat
                           /\ RedemptionOf(l[c], t, k).assets <= Seizable(x)[t]
<1>1. ASSUME NEW t \in CollateralType
      PROVE  /\ n[t] \in Nat
             /\ \A k \in Nat :
                  k <= n[t] => /\ RedemptionOf(l[c], t, k).assets \in Nat
                               /\ RedemptionOf(l[c], t, k).assets <= Seizable(x)[t]
  <2> DEFINE a == Seizable(x)[t]
             CS == CommonShares(l[c].supply[t], t)
             CA == CommonAssets(l[c].assets[t], l[c].supply[t], t)
  <2>1. a \in Nat
    BY DEF Seizable
  <2>2. l[c] \in Ledger /\ l[c].assets[t] \in Nat /\ l[c].supply[t] \in Nat
    BY LedgerFields DEF CollateralType, AssetType
  <2>3. CS \in Nat \ {0} /\ CA \in Nat \ {0}
    BY <2>2, CollateralRatio
  <2>4. n[t] = MulDiv(a, CS, CA, Floor)
    BY <2>3 DEF SeizedShares, ConvertToShares, Seizable
  <2>5. \A k \in Nat : RedemptionOf(l[c], t, k).assets = MulDiv(k, CA, CS, Floor)
    BY <2>3 DEF RedemptionOf, WithdrawalOf, Converted, ConvertToAssets
  <2> HIDE DEF a, CS, CA
  <2>6. n[t] \in Nat /\ CA * n[t] <= a * CS
    BY <2>1, <2>3, <2>4, FloorBound
  <2>7. ASSUME NEW k \in Nat, k <= n[t]
        PROVE  MulDiv(k, CA, CS, Floor) \in Nat /\ MulDiv(k, CA, CS, Floor) <= a
    <3> DEFINE q == MulDiv(k, CA, CS, Floor)
    <3>1. q \in Nat /\ CS * q <= k * CA
      BY <2>3, FloorBound
    <3> HIDE DEF q
    <3>2. k * CA <= CA * n[t]
      BY <2>3, <2>6, <2>7
    <3>3. CS * q <= CS * a
      <4>1. CS * q \in Nat /\ k * CA \in Nat /\ CA * n[t] \in Nat /\ a * CS \in Nat /\ a * CS = CS * a
        BY <2>1, <2>3, <2>6, <3>1
      <4> QED
        BY <2>6, <3>1, <3>2, <4>1
    <3> QED
      BY <2>1, <2>3, <3>1, <3>3, Cancel DEF q
  <2> QED
    BY <2>5, <2>6, <2>7 DEF a
<1>2. n = [t \in CollateralType |-> n[t]]
  BY DEF SeizedShares
<1> QED
  BY <1>1, <1>2

\* _getKeeperAndLenderSharesSplit splits.
LEMMA KeeperSharesBound ==
  ASSUME NEW c \in Silos, NEW n \in Nat
  PROVE  KeeperShares(c, n) \in Nat /\ KeeperShares(c, n) <= n
<1> DEFINE fee == LiquidationFee[c]
           q == MulDiv(fee * KeeperFee, n, Precision, Floor)
           total == Precision + fee
<1>1. fee \in Nat /\ KeeperFee \in Nat /\ KeeperFee <= Precision /\ Precision \in Nat \ {0}
  BY MathAssumption, LiquidationAssumption
<1>2. fee * KeeperFee \in Nat /\ total \in Nat \ {0}
  BY <1>1
<1>3. q \in Nat /\ Precision * q <= fee * KeeperFee * n
  BY <1>1, <1>2, FloorBound
<1>4. KeeperShares(c, n) = q \div total
  BY DEF KeeperShares
<1>5. q \div total \in Nat /\ total * (q \div total) <= q
  BY <1>2, <1>3, Quotient
<1> HIDE DEF q, fee
<1>6. q <= fee * n
  <2>1. fee * KeeperFee * n <= Precision * (fee * n)
    <3>1. fee * n \in Nat
      BY <1>1
    <3>2. KeeperFee * (fee * n) <= Precision * (fee * n)
      BY <1>1, <3>1
    <3>3. fee * KeeperFee * n = KeeperFee * (fee * n)
      BY <1>1
    <3> QED
      BY <3>2, <3>3
  <2>2. Precision * q <= Precision * (fee * n) /\ fee * n \in Nat
    <3>1. fee * KeeperFee * n \in Nat /\ Precision * q \in Nat /\ Precision * (fee * n) \in Nat /\ fee * n \in Nat
      BY <1>1, <1>2, <1>3
    <3> QED
      BY <1>3, <2>1, <3>1
  <2> QED
    BY <1>1, <1>3, <2>2, Cancel
<1>7. fee * n <= total * n
  BY <1>1
<1>8. total * (q \div total) <= total * n
  <2>1. total * (q \div total) \in Nat /\ fee * n \in Nat /\ total * n \in Nat
    BY <1>1, <1>2, <1>5
  <2> QED
    BY <1>3, <1>5, <1>6, <1>7, <2>1
<1> HIDE DEF total
<1> QED
  BY <1>2, <1>4, <1>5, <1>8, Cancel

\* forwardTransferFromNoChecks of both types moves the shares of each.
LEMMA ForwardedMarket ==
  ASSUME NEW l, NEW b, MarketOK(l, b), NEW c \in Silos, NEW u \in Users, NEW to \in Users,
         NEW n \in [CollateralType -> Nat], \A t \in CollateralType : n[t] <= b[c][t][u]
  PROVE  /\ MarketOK(l, Forwarded(b, c, u, to, n))
         /\ \A s \in Silos : Forwarded(b, c, u, to, n)[s]["Debt"] = b[s]["Debt"]
         /\ \A s \in Silos, t \in AssetType :
              s # c => Forwarded(b, c, u, to, n)[s][t] = b[s][t]
         /\ \A t \in CollateralType :
              Forwarded(b, c, u, to, n)[c][t] = Transferred(b, c, t, u, to, n[t])[c][t]
<1> DEFINE f == Forwarded(b, c, u, to, n)
<1>1. b \in Balances /\ SharesOK(b, SuppliesOf(l))
  BY DEF MarketOK
<1>2. CollateralType \subseteq AssetType /\ "Debt" \in AssetType /\ "Debt" \notin CollateralType
      /\ AssetType = CollateralType \cup {"Debt"}
  BY DEF CollateralType, AssetType
<1>3. \A s \in Silos : s # c => f[s] = b[s]
  BY <1>1 DEF Forwarded, Balances
<1>4. f[c] = [t \in AssetType |-> IF t = "Debt" THEN b[c][t]
                                  ELSE Transferred(b, c, t, u, to, n[t])[c][t]]
      /\ f = [b EXCEPT ![c] = f[c]]
  BY <1>1 DEF Forwarded, Balances
<1> HIDE DEF f
<1>5. f[c]["Debt"] = b[c]["Debt"]
  BY <1>2, <1>4
<1>6. ASSUME NEW t \in CollateralType
      PROVE  /\ f[c][t] = Transferred(b, c, t, u, to, n[t])[c][t]
             /\ f[c][t] \in [Users -> Nat]
             /\ AddsUpTo(f[c][t], SuppliesOf(l)[c][t])
  <2>1. MarketOK(l, Transferred(b, c, t, u, to, n[t]))
    BY <1>2, TransferMarket
  <2>2. f[c][t] = Transferred(b, c, t, u, to, n[t])[c][t]
    BY <1>2, <1>4
  <2> QED
    BY <1>2, <2>1, <2>2 DEF MarketOK, Balances, SharesOK
<1>7. f \in Balances
  <2>1. f[c] \in [AssetType -> [Users -> Nat]]
    BY <1>1, <1>2, <1>4, <1>5, <1>6 DEF Balances
  <2> QED
    BY <1>1, <1>4, <2>1 DEF Balances
<1>8. SharesOK(f, SuppliesOf(l))
  <2>1. ASSUME NEW s \in Silos, NEW t \in AssetType PROVE AddsUpTo(f[s][t], SuppliesOf(l)[s][t])
    BY <1>1, <1>2, <1>3, <1>5, <1>6 DEF SharesOK
  <2> QED
    BY <2>1 DEF SharesOK
<1>9. MarketOK(l, f)
  BY <1>7, <1>8 DEF MarketOK
<1>10. \A s \in Silos : f[s]["Debt"] = b[s]["Debt"]
  BY <1>3, <1>5
<1> QED
  BY <1>3, <1>6, <1>9, <1>10 DEF f

\* What the sender and others hold after a transfer, who may be the recipient
LEMMA SenderKeeps ==
  ASSUME NEW b \in Balances, NEW c \in Silos, NEW t \in AssetType, NEW u \in Users, NEW to \in Users,
         NEW n \in Nat, n <= b[c][t][u]
  PROVE  /\ Transferred(b, c, t, u, to, n)[c][t][u] \in Nat
         /\ b[c][t][u] - n <= Transferred(b, c, t, u, to, n)[c][t][u]
         /\ \A w \in Users \ {u} : b[c][t][w] <= Transferred(b, c, t, u, to, n)[c][t][w]
<1> DEFINE mid == Burned(b, c, t, u, n)
<1>1. \A w \in Users : b[c][t][w] \in Nat
  BY DEF Balances
<1>2. mid \in Balances
  <2>1. b[c][t][u] - n \in Nat
    BY <1>1
  <2> QED
    BY <2>1 DEF Balances, Burned
<1>3. \A w \in Users : mid[c][t][w] = IF w = u THEN b[c][t][w] - n ELSE b[c][t][w]
  BY BurnedAt
<1> HIDE DEF mid
<1>4. \A w \in Users : Minted(mid, c, t, to, n)[c][t][w] =
                         IF w = to THEN mid[c][t][w] + n ELSE mid[c][t][w]
  BY <1>2, MintedEach
<1>5. Transferred(b, c, t, u, to, n) = Minted(mid, c, t, to, n)
  BY DEF Transferred, mid
<1> QED
  BY <1>1, <1>3, <1>4, <1>5


-----------------------------------------------------------------------------
(* liquidationCall                                                         *)

BurnedOfBoth(f, c, u, i, j) ==
  [f EXCEPT ![c]["Protected"][u] = @ - i, ![c]["Collateral"][u] = @ - j]

\* Two burns may be done in either order.
LEMMA BurnedBoth ==
  ASSUME NEW f \in Balances, NEW c \in Silos, NEW u \in Users, NEW i \in Nat, NEW j \in Nat
  PROVE  BurnedOfBoth(f, c, u, i, j) =
           Burned(Burned(f, c, "Collateral", u, j), c, "Protected", u, i)
<1> DEFINE P == "Protected"
           C == "Collateral"
           a == [f EXCEPT ![c][P][u] = @ - i, ![c][C][u] = @ - j]
           b1 == Burned(f, c, C, u, j)
           b2 == Burned(b1, c, P, u, i)
           rowP == [f[c][P] EXCEPT ![u] = @ - i]
           rowC == [f[c][C] EXCEPT ![u] = @ - j]
<1>1. P \in AssetType /\ C \in AssetType /\ P # C
  BY DEF AssetType
<1>2. f = [s \in Silos |-> f[s]] /\ f[c] = [t \in AssetType |-> f[c][t]]
  BY DEF Balances
<1>3. a = [f EXCEPT ![c] = [[f[c] EXCEPT ![P] = rowP] EXCEPT ![C] = rowC]]
  BY <1>1, <1>2
<1>4. b1 = [f EXCEPT ![c] = [f[c] EXCEPT ![C] = rowC]]
  BY <1>1, <1>2 DEF Burned
<1>5. b2 = [b1 EXCEPT ![c] = [b1[c] EXCEPT ![P] = [b1[c][P] EXCEPT ![u] = @ - i]]]
  BY DEF Burned
<1>6. b1[c] = [f[c] EXCEPT ![C] = rowC] /\ b1[c][P] = f[c][P]
  BY <1>1, <1>2, <1>4
<1>7. b2 = [f EXCEPT ![c] = [[f[c] EXCEPT ![C] = rowC] EXCEPT ![P] = rowP]]
  <2> HIDE DEF b1, b2
  <2>1. b2 = [b1 EXCEPT ![c] = [b1[c] EXCEPT ![P] = rowP]]
    BY <1>5, <1>6
  <2> HIDE DEF rowP, rowC
  <2> QED
    BY <1>2, <1>4, <1>6, <2>1
<1> HIDE DEF a, b2, rowP, rowC
<1>8. [[f[c] EXCEPT ![C] = rowC] EXCEPT ![P] = rowP] = [[f[c] EXCEPT ![P] = rowP] EXCEPT ![C] = rowC]
  BY <1>1, <1>2
<1> QED
  BY <1>3, <1>7, <1>8 DEF a, b2, BurnedOfBoth

\* Redeeming collateral leaves what protected shares are worth.
LEMMA RedeemedApart ==
  ASSUME NEW l \in Ledger, NEW i \in Nat, NEW j \in Nat
  PROVE  KeptShares(TriedRedeem(l, "Collateral", i), "Protected", j) = KeptShares(l, "Protected", j)
<1> DEFINE m == TriedRedeem(l, "Collateral", i)
<1>1. m.assets["Protected"] = l.assets["Protected"] /\ m.supply["Protected"] = l.supply["Protected"]
  BY DEF TriedRedeem, Paid, Withdrawn, Ledger, AssetType
<1> HIDE DEF m
<1> QED
  BY <1>1 DEF KeptShares, RedemptionOf, WithdrawalOf, m

\* The two redeems of a liquidation
LEMMA RedeemedTwice ==
  ASSUME LoansOK, NEW l, NEW f, MarketOK(l, f), NEW c \in Silos, NEW u \in Users,
         NEW n \in [CollateralType -> Nat],
         CanTryRedeem(l[c], "Collateral", n["Collateral"]),
         NEW m, m = TriedRedeem(l[c], "Collateral", n["Collateral"]),
         CanTryRedeem(m, "Protected", n["Protected"]),
         NEW i \in Nat, i = n["Protected"] - KeptShares(l[c], "Protected", n["Protected"]),
         NEW j \in Nat, j = n["Collateral"] - KeptShares(l[c], "Collateral", n["Collateral"]),
         i <= f[c]["Protected"][u], j <= f[c]["Collateral"][u]
  PROVE  /\ MarketOK([l EXCEPT ![c] = TriedRedeem(m, "Protected", n["Protected"])],
                     BurnedOfBoth(f, c, u, i, j))
         /\ \A t \in CollateralType :
              PriceKept(l[c], TriedRedeem(m, "Protected", n["Protected"]), t)
<1> DEFINE l2 == [l EXCEPT ![c] = m]
           b == Burned(f, c, "Collateral", u, j)
<1>1. /\ l \in [Silos -> Ledger] /\ f \in Balances
      /\ n["Protected"] \in Nat /\ n["Collateral"] \in Nat
      /\ "Protected" \in CollateralType /\ "Collateral" \in CollateralType
      /\ "Protected" \in AssetType /\ "Collateral" \in AssetType
  BY DEF MarketOK, CollateralType, AssetType
<1>2. MarketOK(l2, b) /\ PriceKept(l[c], m, "Collateral")
  BY <1>1, RedeemedMarket
<1>3. l2[c] = m
  BY <1>1
<1>4. i = n["Protected"] - KeptShares(m, "Protected", n["Protected"])
  <2>1. l[c] \in Ledger
    BY <1>1
  <2> QED
    BY <1>1, <2>1, RedeemedApart
<1>5. b[c]["Protected"][u] = f[c]["Protected"][u]
  BY <1>1, BurnedAt
<1> HIDE DEF b, l2
<1>6. /\ MarketOK([l2 EXCEPT ![c] = TriedRedeem(m, "Protected", n["Protected"])],
                  Burned(b, c, "Protected", u, i))
      /\ PriceKept(m, TriedRedeem(m, "Protected", n["Protected"]), "Protected")
  BY <1>1, <1>2, <1>3, <1>4, <1>5, RedeemedMarket
<1>7. [l2 EXCEPT ![c] = TriedRedeem(m, "Protected", n["Protected"])]
        = [l EXCEPT ![c] = TriedRedeem(m, "Protected", n["Protected"])]
  BY <1>1 DEF l2
<1>8. BurnedOfBoth(f, c, u, i, j) = Burned(b, c, "Protected", u, i)
  BY <1>1, BurnedBoth DEF b
<1> DEFINE o == TriedRedeem(m, "Protected", n["Protected"])
<1>9. m.assets["Protected"] = l[c].assets["Protected"] /\ m.supply["Protected"] = l[c].supply["Protected"]
  <2>1. l[c] \in Ledger
    BY <1>1
  <2> QED
    BY <2>1 DEF TriedRedeem, Paid, Withdrawn, Ledger, AssetType
<1>10. o.assets["Collateral"] = m.assets["Collateral"] /\ o.supply["Collateral"] = m.supply["Collateral"]
  <2>1. m \in Ledger
    BY <1>1, <1>2, <1>3 DEF MarketOK
  <2> QED
    BY <2>1 DEF TriedRedeem, Paid, Withdrawn, Ledger, AssetType
<1> HIDE DEF o
<1>11. PriceKept(l[c], o, "Collateral") /\ PriceKept(l[c], o, "Protected")
  <2>1. PriceKept(m, o, "Protected")
    BY <1>6 DEF o
  <2> QED
    BY <1>2, <1>9, <1>10, <2>1 DEF PriceKept
<1>12. \A t \in CollateralType : PriceKept(l[c], o, t)
  BY <1>11 DEF CollateralType
<1> QED
  BY <1>6, <1>7, <1>8, <1>12 DEF o

\* Nothing burned, nothing changed.
LEMMA NoneBurned ==
  ASSUME NEW f \in Balances, NEW c \in Silos, NEW u \in Users
  PROVE  BurnedOfBoth(f, c, u, 0, 0) = f
<1>1. ASSUME NEW t \in AssetType PROVE [f EXCEPT ![c][t][u] = @ - 0] = f
  <2>1. f[c][t][u] - 0 = f[c][t][u]
    BY DEF Balances
  <2>2. [f[c][t] EXCEPT ![u] = f[c][t][u]] = f[c][t]
    BY DEF Balances
  <2>3. [f[c] EXCEPT ![t] = f[c][t]] = f[c]
    BY DEF Balances
  <2>4. [f EXCEPT ![c] = f[c]] = f
    BY DEF Balances
  <2> QED
    BY <2>1, <2>2, <2>3, <2>4
<1>2. "Protected" \in AssetType /\ "Collateral" \in AssetType
  BY DEF AssetType
<1> QED
  BY <1>1, <1>2 DEF BurnedOfBoth


\* The debt shares that stand for x.debt, rounded down
BurnedFor(l, d, x) == MulDiv(x.debt, l[d].supply["Debt"], l[d].assets["Debt"], Floor)

\* What a liquidation of u by the amounts x does, l being the books it finds
\* once interest is accrued: the debt falls by x.debt and the shares for it, and
\* only u gives up collateral, no more than the shares that stand for x, which
\* are worth no less than before.
Outcome(l, u, d, x) ==
  LET c == collateralSilo[u]
  IN  /\ BurnedFor(l, d, x) <= balance[d]["Debt"][u]
      /\ balance'[d]["Debt"][u] = balance[d]["Debt"][u] - BurnedFor(l, d, x)
      /\ ledger'[d].supply["Debt"] = l[d].supply["Debt"] - BurnedFor(l, d, x)
      /\ \A t \in CollateralType : PriceKept(l[c], ledger'[c], t)
      /\ MarketOK(ledger', balance')
      /\ UNCHANGED <<collateralSilo, loans, price, blocks>>
      /\ ledger'[d].assets["Debt"] = l[d].assets["Debt"] - x.debt
      /\ \A w \in Users, s \in Silos : balance'[s]["Debt"][w] <= balance[s]["Debt"][w]
      /\ \A w \in Users \ {u}, s \in Silos : balance'[s]["Debt"][w] = balance[s]["Debt"][w]
      /\ \A s \in Silos \ {d} : balance'[s]["Debt"][u] = balance[s]["Debt"][u]
      /\ \A t \in CollateralType :
           balance[c][t][u] <= balance'[c][t][u] + SeizedShares(l, c, x)[t]
      /\ \A w \in Users, s \in Silos, t \in CollateralType :
           w # u \/ s # c => balance[s][t][w] <= balance'[s][t][w]

\* The market as a liquidation finds it once interest is accrued
LEMMA AccruedMarket ==
  ASSUME LInv, NEW rcomp \in [Silos -> Rcomps]
  PROVE  MarketOK(BothAccrued(rcomp), balance)
<1> DEFINE l == BothAccrued(rcomp)
<1>1. /\ l \in [Silos -> Ledger]
      /\ \A t \in Silos : LedgerOK(l[t], Owed(t)) /\ l[t].supply = ledger[t].supply
  <2>1. rcomp \in [Silos -> Nat]
    BY MarketAssumption
  <2> QED
    BY <2>1, BothAccruedOK DEF LInv, IInv
<1>2. \A t \in Silos : LedgerFair(l[t])
  BY MarketAccruedFair DEF LInv
<1> HIDE DEF l
<1>3. SuppliesOf(l) = SuppliesOf(ledger)
  BY <1>1 DEF SuppliesOf
<1>4. MarketOK(l, balance)
  BY <1>1, <1>2, <1>3 DEF LInv, IInv, TokensOK, MarketOK
<1> QED
  BY <1>4 DEF l

\* Burning the repaid debt touches no collateral.
LEMMA DebtBurned ==
  ASSUME NEW bal \in Balances, NEW d \in Silos, NEW u \in Users, NEW k \in Nat
  PROVE  LET b == Burned(bal, d, "Debt", u, k)
         IN  /\ \A s \in Silos, t \in CollateralType, w \in Users : b[s][t][w] = bal[s][t][w]
             /\ \A s \in Silos, w \in Users : b[s]["Debt"][w] <= bal[s]["Debt"][w]
             /\ \A s \in Silos, w \in Users : s # d \/ w # u => b[s]["Debt"][w] = bal[s]["Debt"][w]
             /\ b[d]["Debt"][u] = bal[d]["Debt"][u] - k
<1> DEFINE b == Burned(bal, d, "Debt", u, k)
<1>1. "Debt" \in AssetType /\ CollateralType \subseteq AssetType /\ "Debt" \notin CollateralType
  BY DEF AssetType, CollateralType
<1>2. \A s \in Silos, t \in AssetType, w \in Users :
        b[s][t][w] = IF s = d /\ t = "Debt" /\ w = u THEN bal[s][t][w] - k ELSE bal[s][t][w]
  BY <1>1, BurnedAt
<1>3. \A s \in Silos, w \in Users : bal[s]["Debt"][w] \in Nat
  BY <1>1 DEF Balances
<1> HIDE DEF b
<1>4. \A s \in Silos, w \in Users : b[s]["Debt"][w] <= bal[s]["Debt"][w]
  <2> TAKE s \in Silos, w \in Users
  <2>1. b[s]["Debt"][w] = bal[s]["Debt"][w] - k \/ b[s]["Debt"][w] = bal[s]["Debt"][w]
    BY <1>1, <1>2
  <2> QED
    BY <1>3, <2>1
<1> QED
  BY <1>1, <1>2, <1>4 DEF b


\* A redemption of collateral leaves the debt.
LEMMA RedeemedDebt ==
  ASSUME NEW l \in Ledger, NEW t \in CollateralType, NEW n
  PROVE  /\ TriedRedeem(l, t, n).assets["Debt"] = l.assets["Debt"]
         /\ TriedRedeem(l, t, n).supply["Debt"] = l.supply["Debt"]
BY DEF TriedRedeem, Paid, Withdrawn, Ledger, AssetType, CollateralType

\* Redemptions of both types leave the debt alone.
LEMMA RedeemedTwiceDebt ==
  ASSUME NEW l \in Ledger, NEW i \in Nat, NEW j
  PROVE  LET m == TriedRedeem(TriedRedeem(l, "Collateral", i), "Protected", j)
         IN  m.assets["Debt"] = l.assets["Debt"] /\ m.supply["Debt"] = l.supply["Debt"]
<1> DEFINE m == TriedRedeem(l, "Collateral", i)
<1>1. "Collateral" \in CollateralType
  BY DEF CollateralType
<1>2. RedemptionOf(l, "Collateral", i) \in Amounts
  BY <1>1, RedemptionAmounts
<1>3. m.assets["Debt"] = l.assets["Debt"] /\ m.supply["Debt"] = l.supply["Debt"]
  BY <1>1, RedeemedDebt
<1>4. DOMAIN m = DOMAIN l /\ DOMAIN m.assets = AssetType /\ DOMAIN m.supply = AssetType
  BY <1>2 DEF TriedRedeem, Paid, Withdrawn, Ledger, Amounts
<1>5. "assets" \in DOMAIN m /\ "supply" \in DOMAIN m /\ "Debt" \in AssetType
  BY <1>4 DEF Ledger, AssetType
<1> HIDE DEF m
<1> QED
  BY <1>3, <1>4, <1>5 DEF TriedRedeem, Paid, Withdrawn, m

\* Burning both types of one user changes his two balances only.
LEMMA BurnedOfBothAt ==
  ASSUME NEW f \in Balances, NEW c \in Silos, NEW u \in Users, NEW n \in [CollateralType -> Nat],
         NEW s \in Silos, NEW w \in Users
  PROVE  LET b == BurnedOfBoth(f, c, u, n["Protected"], n["Collateral"])
         IN  /\ b[s]["Debt"][w] = f[s]["Debt"][w]
             /\ \A t \in CollateralType :
                  b[s][t][w] = IF s = c /\ w = u THEN f[s][t][w] - n[t] ELSE f[s][t][w]
<1> DEFINE P == "Protected"
           C == "Collateral"
           mid == Burned(f, c, C, u, n[C])
           b == BurnedOfBoth(f, c, u, n[P], n[C])
           onlyP == [f EXCEPT ![c] = [f[c] EXCEPT ![P] = [f[c][P] EXCEPT ![u] = @ - n[P]]]]
<1>1. /\ n[P] \in Nat /\ n[C] \in Nat /\ CollateralType = {P, C}
      /\ "Debt" \in AssetType /\ P \in AssetType /\ C \in AssetType
      /\ P # C /\ P # "Debt" /\ C # "Debt"
  BY DEF CollateralType, AssetType
<1>2. b = [f EXCEPT ![c] = [[f[c] EXCEPT ![P] = [f[c][P] EXCEPT ![u] = @ - n[P]]]
                                  EXCEPT ![C] = [f[c][C] EXCEPT ![u] = @ - n[C]]]]
  BY <1>1 DEF BurnedOfBoth, Balances
<1> HIDE DEF b
<1>3. b[s] = IF s = c THEN [[f[c] EXCEPT ![P] = [f[c][P] EXCEPT ![u] = @ - n[P]]]
                                  EXCEPT ![C] = [f[c][C] EXCEPT ![u] = @ - n[C]]]
             ELSE f[s]
  BY <1>2 DEF Balances
<1>4. CASE s # c
  BY <1>3, <1>4 DEF b
<1>5. CASE s = c
  <2>1. /\ b[c]["Debt"] = f[c]["Debt"]
        /\ b[c][P] = [f[c][P] EXCEPT ![u] = @ - n[P]]
        /\ b[c][C] = [f[c][C] EXCEPT ![u] = @ - n[C]]
    BY <1>1, <1>3, <1>5 DEF Balances
  <2>2. \A t \in AssetType : f[c][t] \in [Users -> Nat]
    BY DEF Balances
  <2>3. \A t \in CollateralType : b[c][t][w] = IF w = u THEN f[c][t][w] - n[t] ELSE f[c][t][w]
    BY <1>1, <2>1, <2>2
  <2> QED
    BY <1>5, <2>1, <2>3 DEF b
<1> QED
  BY <1>4, <1>5

\* The shares n are there; some of them are taken and the others redeemed.
Held(b, c, u, n) == \A t \in CollateralType : n[t] <= b[c][t][u]

Split(n, taken, red) ==
  /\ n \in [CollateralType -> Nat]
  /\ taken \in [CollateralType -> Nat]
  /\ red \in [CollateralType -> Nat]
  /\ \A t \in CollateralType : taken[t] <= n[t] /\ red[t] = n[t] - taken[t]

Given(b, c, u, n, g) ==
  /\ \A s \in Silos, w \in Users : g[s]["Debt"][w] = b[s]["Debt"][w]
  /\ \A t \in CollateralType : b[c][t][u] <= g[c][t][u] + n[t]
  /\ \A s \in Silos, w \in Users, t \in CollateralType :
       w # u \/ s # c => b[s][t][w] <= g[s][t][w]

\* What the sender of a transfer of some of n shares has left, once the rest of
\* them is burned
LEMMA TakenAndBurned ==
  ASSUME NEW l, NEW b, MarketOK(l, b), NEW c \in Silos, NEW u \in Users, NEW to \in Users,
         NEW n, NEW taken, NEW red, Held(b, c, u, n), Split(n, taken, red)
  PROVE  LET f == Forwarded(b, c, u, to, taken)
             g == BurnedOfBoth(f, c, u, red["Protected"], red["Collateral"])
         IN  /\ MarketOK(l, f)
             /\ Held(f, c, u, red)
             /\ Given(b, c, u, n, g)
<1>0. /\ n \in [CollateralType -> Nat] /\ \A t \in CollateralType : n[t] <= b[c][t][u]
      /\ taken \in [CollateralType -> Nat] /\ \A t \in CollateralType : taken[t] <= n[t]
      /\ red \in [CollateralType -> Nat] /\ \A t \in CollateralType : red[t] = n[t] - taken[t]
  BY DEF Held, Split
<1> DEFINE f == Forwarded(b, c, u, to, taken)
           g == BurnedOfBoth(f, c, u, red["Protected"], red["Collateral"])
<1>1. \A t \in CollateralType : taken[t] <= b[c][t][u]
  <2> TAKE t \in CollateralType
  <2>1. t \in AssetType
    BY DEF CollateralType, AssetType
  <2>2. b[c][t][u] \in Nat
    BY <2>1, MarketHolding
  <2>3. n[t] \in Nat /\ taken[t] \in Nat
    BY <1>0
  <2> QED
    BY <1>0, <2>2, <2>3
<1>2. /\ MarketOK(l, f)
      /\ \A s \in Silos : f[s]["Debt"] = b[s]["Debt"]
      /\ \A s \in Silos, t \in AssetType : s # c => f[s][t] = b[s][t]
      /\ \A t \in CollateralType : f[c][t] = Transferred(b, c, t, u, to, taken[t])[c][t]
  BY <1>0, <1>1, ForwardedMarket
<1> HIDE DEF f
<1>3. b \in Balances /\ f \in Balances /\ CollateralType \subseteq AssetType
  BY <1>2 DEF MarketOK, CollateralType, AssetType
<1>4. ASSUME NEW t \in CollateralType
      PROVE  /\ f[c][t][u] \in Nat
             /\ b[c][t][u] - taken[t] <= f[c][t][u]
             /\ \A w \in Users \ {u} : b[c][t][w] <= f[c][t][w]
  <2>1. taken[t] \in Nat /\ t \in AssetType
    BY <1>0, <1>3
  <2> QED
    <3>1. /\ Transferred(b, c, t, u, to, taken[t])[c][t][u] \in Nat
          /\ b[c][t][u] - taken[t] <= Transferred(b, c, t, u, to, taken[t])[c][t][u]
          /\ \A w \in Users \ {u} : b[c][t][w] <= Transferred(b, c, t, u, to, taken[t])[c][t][w]
      BY <1>1, <1>3, <2>1, SenderKeeps
    <3> QED
      BY <1>2, <3>1
<1>5. ASSUME NEW t \in CollateralType
      PROVE  /\ n[t] \in Nat /\ taken[t] \in Nat /\ red[t] = n[t] - taken[t] /\ red[t] \in Nat
             /\ b[c][t][u] \in Nat
  BY <1>0, <1>3 DEF Balances
<1>7. ASSUME NEW s \in Silos, NEW w \in Users
      PROVE  /\ g[s]["Debt"][w] = f[s]["Debt"][w]
             /\ \A t \in CollateralType :
                  g[s][t][w] = IF s = c /\ w = u THEN f[s][t][w] - red[t] ELSE f[s][t][w]
  <2>1. f \in Balances /\ red \in [CollateralType -> Nat]
    BY <1>0, <1>3
  <2> HIDE DEF g
  <2>2. /\ BurnedOfBoth(f, c, u, red["Protected"], red["Collateral"])[s]["Debt"][w] = f[s]["Debt"][w]
        /\ \A t \in CollateralType :
             BurnedOfBoth(f, c, u, red["Protected"], red["Collateral"])[s][t][w] =
               IF s = c /\ w = u THEN f[s][t][w] - red[t] ELSE f[s][t][w]
    BY <2>1, BurnedOfBothAt
  <2> QED
    BY <2>2 DEF g
<1> HIDE DEF g
<1>8. \A t \in CollateralType : red[t] <= f[c][t][u]
  BY <1>0, <1>4, <1>5
<1>9. \A t \in CollateralType : b[c][t][u] <= g[c][t][u] + n[t]
  BY <1>4, <1>5, <1>7
<1>10. ASSUME NEW s \in Silos, NEW w \in Users, NEW t \in CollateralType, w # u \/ s # c
       PROVE  b[s][t][w] <= g[s][t][w]
  <2>1. g[s][t][w] = f[s][t][w]
    BY <1>7, <1>10
  <2>2. CASE s # c
    <3>1. f[s][t] = b[s][t] /\ b[s][t][w] \in Nat
      BY <1>2, <1>3, <2>2 DEF Balances
    <3> QED
      BY <2>1, <3>1
  <2>3. CASE s = c
    BY <1>4, <1>10, <2>1, <2>3
  <2> QED
    BY <2>2, <2>3
<1> QED
  BY <1>2, <1>7, <1>8, <1>9, <1>10 DEF f, g, Held, Given


\* A repayment lets the debt fall by just that much, and leaves the deposits.
LEMMA RepaidDebt ==
  ASSUME NEW l \in Ledger, NEW y \in Amounts
  PROVE  LET m == Received(Repaid(l, y), y.assets)
         IN  /\ m.assets["Debt"] = l.assets["Debt"] - y.assets
             /\ m.supply["Debt"] = l.supply["Debt"] - y.shares
             /\ \A t \in CollateralType :
                  m.assets[t] = l.assets[t] /\ m.supply[t] = l.supply[t]
BY DEF Received, Repaid, Ledger, AssetType, CollateralType

\* Whoever owes has a collateral Silo.
LEMMA DebtorsCollateral ==
  ASSUME LInv, NEW u \in Users, NEW d \in Silos, HasDebt(u, d)
  PROVE  collateralSilo[u] \in Silos
BY DEF LInv, Positions, DebtHasCollateralSilo

\* liquidationCall, whether shares or assets are asked for, and by whomever
LEMMA LiquidationCallOutcome ==
  ASSUME LInv, NEW v \in Users, NEW u \in Users, NEW d \in Silos, NEW max \in Nat,
         NEW receiveSToken \in BOOLEAN, NEW rcomp \in [Silos -> Rcomps],
         LiquidationCall(v, u, d, max, receiveSToken, rcomp)
  PROVE  \E x : /\ ExactOK(x, collateralSilo[u], d, Position(BothAccrued(rcomp), u, collateralSilo[u], d))
                /\ Outcome(BothAccrued(rcomp), u, d, x)
<1> DEFINE l == BothAccrued(rcomp)
           c == collateralSilo[u]
           x == ExactLiquidationAmounts(l, u, c, d, max, LiquidationThreshold[c])
           n == SeizedShares(l, c, x)
           in == [assets |-> x.debt, shares |-> 0]
           y == RepaymentOf(l[d], balance[d]["Debt"][u], in)
           repaid == [l EXCEPT ![d] = Received(Repaid(l[d], y), y.assets)]
           m == TriedRedeem(repaid[c], "Collateral", n["Collateral"])
           taken == [t \in CollateralType |->
                       IF receiveSToken THEN n[t] ELSE KeptShares(repaid[c], t, n[t])]
           red == [t \in CollateralType |-> n[t] - taken[t]]
           b == Burned(balance, d, "Debt", u, y.shares)
           f == Forwarded(b, c, u, v, taken)
<1>1. /\ HasDebt(u, d) /\ x.debt # 0
      /\ \A t \in CollateralType : n[t] <= balance[c][t][u]
      /\ CanRepay(l[d], y)
      /\ receiveSToken \/ (/\ CanTryRedeem(repaid[c], "Collateral", n["Collateral"])
                           /\ CanTryRedeem(m, "Protected", n["Protected"]))
      /\ ledger' = IF receiveSToken THEN repaid
                   ELSE [repaid EXCEPT ![c] = TriedRedeem(m, "Protected", n["Protected"])]
      /\ balance' = BurnedOfBoth(f, c, u, red["Protected"], red["Collateral"])
      /\ UNCHANGED <<collateralSilo, loans, price, blocks>>
  BY DEF LiquidationCall, BurnedOfBoth
<1>2. c \in Silos /\ LoansOK /\ price \in [Silos -> Nat \ {0}]
  BY <1>1, DebtorsCollateral DEF LInv, IInv, OthersOK
<1>3. MarketOK(l, balance)
  BY AccruedMarket
<1> HIDE DEF l, c
<1>4. ExactOK(x, c, d, Position(l, u, c, d))
  BY <1>2, <1>3, ExactAmounts
<1> HIDE DEF x
<1>5. x \in [debt : Nat, protected : Nat, collateral : Nat] /\ x.debt \in Nat \ {0} /\ in \in Amounts
  BY <1>1, <1>4 DEF ExactOK, Amounts
<1>6. n \in [CollateralType -> Nat]
  BY <1>2, <1>3, <1>5, SeizedSharesOK DEF MarketOK
<1>7. /\ y.assets = x.debt /\ y \in Amounts /\ y.shares \in Nat /\ l[d] \in Ledger
      /\ y.shares = BurnedFor(l, d, x) /\ y.shares <= balance[d]["Debt"][u]
  <2>1. "Debt" \in AssetType
    BY DEF AssetType
  <2>2. /\ l[d] \in Ledger /\ LedgerFair(l[d]) /\ balance[d]["Debt"][u] \in Nat
        /\ balance[d]["Debt"][u] <= l[d].supply["Debt"]
    BY <1>3, <2>1, MarketHolding DEF MarketOK
  <2>3. x.debt <= ConvertToAssets(balance[d]["Debt"][u], l[d].assets["Debt"],
                                  l[d].supply["Debt"], Ceil, "Debt")
    BY <1>2, <1>3, <1>4, PositionNat DEF ExactOK
  <2>4. y.assets = x.debt /\ y.shares = BurnedFor(l, d, x)
    BY <1>5, <2>2, <2>3, ExactRepayment DEF BurnedFor
  <2> HIDE DEF in
  <2> QED
    BY <1>5, <2>2, <2>4, RepaymentBound
<1> HIDE DEF n, in
<1>8. MarketOK(repaid, b)
  BY <1>1, <1>2, <1>3, <1>5, RepaidMarket
<1>9. balance \in Balances /\ l \in [Silos -> Ledger]
  BY <1>3 DEF MarketOK
<1>10. /\ \A s \in Silos, t \in CollateralType, w \in Users : b[s][t][w] = balance[s][t][w]
       /\ \A s \in Silos, w \in Users : b[s]["Debt"][w] <= balance[s]["Debt"][w]
       /\ \A s \in Silos, w \in Users : s # d \/ w # u => b[s]["Debt"][w] = balance[s]["Debt"][w]
       /\ b[d]["Debt"][u] = balance[d]["Debt"][u] - BurnedFor(l, d, x)
  BY <1>7, <1>9, DebtBurned
<1>11. /\ repaid \in [Silos -> Ledger]
       /\ repaid[d].assets["Debt"] = l[d].assets["Debt"] - x.debt
       /\ repaid[d].supply["Debt"] = l[d].supply["Debt"] - BurnedFor(l, d, x)
       /\ \A t \in CollateralType : /\ repaid[c].assets[t] = l[c].assets[t]
                                    /\ repaid[c].supply[t] = l[c].supply[t]
  <2> DEFINE n1 == Received(Repaid(l[d], y), y.assets)
  <2>1. /\ n1.assets["Debt"] = l[d].assets["Debt"] - x.debt
        /\ n1.supply["Debt"] = l[d].supply["Debt"] - BurnedFor(l, d, x)
        /\ \A t \in CollateralType : n1.assets[t] = l[d].assets[t] /\ n1.supply[t] = l[d].supply[t]
    BY <1>7, RepaidDebt
  <2>2. repaid = [l EXCEPT ![d] = n1]
    OBVIOUS
  <2> HIDE DEF n1, repaid, y
  <2>3. repaid[d] = n1 /\ (c # d => repaid[c] = l[c])
    BY <1>2, <1>9, <2>2
  <2>4. ASSUME NEW t \in CollateralType
        PROVE  repaid[c].assets[t] = l[c].assets[t] /\ repaid[c].supply[t] = l[c].supply[t]
    BY <2>1, <2>3
  <2> QED
    BY <1>8, <2>1, <2>3, <2>4 DEF MarketOK
<1> HIDE DEF y, repaid, b
<1>12. ASSUME NEW t \in CollateralType
       PROVE  /\ taken[t] \in Nat /\ taken[t] <= n[t]
              /\ red[t] = n[t] - taken[t] /\ red[t] \in Nat
  BY <1>6 DEF KeptShares
<1>13. /\ taken \in [CollateralType -> Nat] /\ red \in [CollateralType -> Nat]
       /\ \A t \in CollateralType : taken[t] <= n[t] /\ red[t] = n[t] - taken[t]
  BY <1>12
<1>14. /\ receiveSToken => red["Protected"] = 0 /\ red["Collateral"] = 0
       /\ ~receiveSToken =>
            /\ red["Protected"] = n["Protected"] - KeptShares(repaid[c], "Protected", n["Protected"])
            /\ red["Collateral"] = n["Collateral"] - KeptShares(repaid[c], "Collateral", n["Collateral"])
  <2>1. "Protected" \in CollateralType /\ "Collateral" \in CollateralType
    BY DEF CollateralType
  <2>2. n["Protected"] \in Nat /\ n["Collateral"] \in Nat
    BY <1>6, <2>1
  <2> QED
    BY <2>1, <2>2
<1> HIDE DEF taken, red
<1>15. MarketOK(repaid, f) /\ Held(f, c, u, red) /\ Given(b, c, u, n, balance')
  <2>1. Held(b, c, u, n)
    BY <1>1, <1>2, <1>10 DEF Held
  <2>2. Split(n, taken, red)
    BY <1>6, <1>13 DEF Split
  <2> QED
    BY <1>1, <1>2, <1>8, <2>1, <2>2, TakenAndBurned
<1> HIDE DEF f
<1>16. /\ MarketOK(ledger', balance')
       /\ \A t \in CollateralType : PriceKept(l[c], ledger'[c], t)
  <2>1. CASE receiveSToken
    <3>1. balance' = f /\ ledger' = repaid
      BY <1>1, <1>2, <1>14, <1>15, <2>1, NoneBurned DEF MarketOK
    <3>2. ASSUME NEW t \in CollateralType PROVE PriceKept(l[c], repaid[c], t)
      <4>1. l[c].assets[t] \in Nat /\ l[c].supply[t] \in Nat
        BY <1>2, <1>9, LedgerFields DEF CollateralType, AssetType
      <4> QED
        BY <1>11, <4>1, SamePrice DEF PriceKept
    <3> QED
      BY <1>15, <3>1, <3>2
  <2>2. CASE ~receiveSToken
    <3>1. /\ red["Protected"] \in Nat /\ red["Collateral"] \in Nat
          /\ red["Protected"] <= f[c]["Protected"][u] /\ red["Collateral"] <= f[c]["Collateral"][u]
      BY <1>13, <1>15 DEF CollateralType, Held
    <3>2. /\ MarketOK([repaid EXCEPT ![c] = TriedRedeem(m, "Protected", n["Protected"])],
                      BurnedOfBoth(f, c, u, red["Protected"], red["Collateral"]))
          /\ \A t \in CollateralType :
               PriceKept(repaid[c], TriedRedeem(m, "Protected", n["Protected"]), t)
      <4> HIDE DEF m
      <4> QED
        BY <1>1, <1>2, <1>6, <1>14, <1>15, <2>2, <3>1, RedeemedTwice DEF m
    <3> DEFINE o == TriedRedeem(m, "Protected", n["Protected"])
    <3>3. ledger' = [repaid EXCEPT ![c] = o]
      BY <1>1, <2>2
    <3>4. \A t \in CollateralType : PriceKept(repaid[c], o, t)
      BY <3>2
    <3>5. MarketOK(ledger', balance')
      BY <1>1, <2>2, <3>2
    <3> HIDE DEF o, m
    <3>6. ledger'[c] = o
      BY <1>2, <1>11, <3>3
    <3>7. \A t \in CollateralType : PriceKept(l[c], o, t)
      BY <1>11, <3>4 DEF PriceKept
    <3> QED
      BY <3>5, <3>6, <3>7
  <2> QED
    BY <2>1, <2>2
<1>17. /\ ledger'[d].assets["Debt"] = l[d].assets["Debt"] - x.debt
       /\ ledger'[d].supply["Debt"] = l[d].supply["Debt"] - BurnedFor(l, d, x)
  <2>1. /\ TriedRedeem(m, "Protected", n["Protected"]).assets["Debt"] = repaid[c].assets["Debt"]
        /\ TriedRedeem(m, "Protected", n["Protected"]).supply["Debt"] = repaid[c].supply["Debt"]
    <3>1. n["Collateral"] \in Nat
      BY <1>6 DEF CollateralType
    <3> QED
      BY <1>2, <1>11, <3>1, RedeemedTwiceDebt
  <2> HIDE DEF m
  <2> QED
    BY <1>1, <1>2, <1>11, <2>1
<1>18. Outcome(l, u, d, x)
  <2>1. \A w \in Users, s \in Silos : balance'[s]["Debt"][w] <= balance[s]["Debt"][w]
    BY <1>10, <1>15 DEF Given
  <2>2. /\ \A w \in Users \ {u}, s \in Silos : balance'[s]["Debt"][w] = balance[s]["Debt"][w]
        /\ \A s \in Silos \ {d} : balance'[s]["Debt"][u] = balance[s]["Debt"][u]
    BY <1>10, <1>15 DEF Given
  <2>3. \A t \in CollateralType : balance[c][t][u] <= balance'[c][t][u] + n[t]
    BY <1>2, <1>10, <1>15 DEF Given
  <2>4. \A w \in Users, s \in Silos, t \in CollateralType :
          w # u \/ s # c => balance[s][t][w] <= balance'[s][t][w]
    BY <1>10, <1>15 DEF Given
  <2>5. /\ BurnedFor(l, d, x) <= balance[d]["Debt"][u]
        /\ balance'[d]["Debt"][u] = balance[d]["Debt"][u] - BurnedFor(l, d, x)
    BY <1>7, <1>10, <1>15 DEF Given
  <2> QED
    BY <1>1, <1>16, <1>17, <2>1, <2>2, <2>3, <2>4, <2>5 DEF Outcome, c, n
<1> QED
  BY <1>4, <1>18 DEF l, c


-----------------------------------------------------------------------------
(* liquidationCallByDefaulting                                             *)

\* What lenders, fees and surplus give up together is the debt.
Shared(c, rev, surplus, debt, excess, left, loss) ==
  left + (rev - loss) + (surplus - (excess - loss)) + debt = c + rev + surplus

\* A defaulted debt is shared out to the unit, whichever part is clipped,
LEMMA LossShared ==
  ASSUME NEW c \in Nat, NEW rev \in Nat, NEW surplus \in Nat, NEW debt \in Nat,
         NEW excess \in Nat, NEW left \in Nat, NEW loss \in Nat,
         (excess = 0 /\ left = c - debt) \/ (excess = debt - c /\ left = 0)
  PROVE  Shared(c, rev, surplus, debt, excess, left, loss)
BY DEF Shared

\* Tokens and loans are worth what is booked, and the loans no more than that.
Balanced(cash, owed, d, p, c, r, s) ==
  cash + owed + d = p + c + r + s /\ d <= c + r + s

\* ... so that the books balance as before.
LEMMA LossBalanced ==
  ASSUME NEW cash \in Nat, NEW owed \in Nat, NEW d \in Nat, NEW p \in Nat,
         NEW c \in Nat, NEW r \in Nat, NEW s \in Nat,
         NEW c2 \in Nat, NEW r2 \in Nat, NEW s2 \in Nat, NEW debt \in Nat,
         Balanced(cash, owed, d, p, c, r, s), c2 + r2 + s2 + debt = c + r + s
  PROVE  Balanced(cash, owed, d - debt, p, c2, r2, s2)
BY DEF Balanced

\* deductDefaultedDebtFromCollateral never takes more than there is: the debt
\* is covered by lenders, fees and what was never booked.
LEMMA DeductedFields ==
  ASSUME NEW l \in Ledger, NEW owed \in Nat, LedgerOK(l, owed),
         NEW debt \in Nat, debt <= l.assets["Debt"]
  PROVE  LET m == DefaultedDebtDeducted(l, debt)
         IN  /\ m \in Ledger
             /\ m.assets["Debt"] = l.assets["Debt"] /\ m.assets["Protected"] = l.assets["Protected"]
             /\ m.supply = l.supply /\ m.cash = l.cash
             /\ m.assets["Collateral"] <= l.assets["Collateral"]
             /\ m.assets["Collateral"] + m.revenue + m.surplus + debt
                  = l.assets["Collateral"] + l.revenue + l.surplus
<1> DEFINE C == l.assets["Collateral"]
           excess == Liquidity(debt, C)
           loss == SmallerOf(excess, l.revenue)
           left == Liquidity(C, debt)
           l1 == [l EXCEPT !.assets["Collateral"] = left]
           l2 == [l1 EXCEPT !.revenue = l.revenue - loss]
           m == [l2 EXCEPT !.surplus = l.surplus - (excess - loss)]
<1>1. DefaultedDebtDeducted(l, debt) = m
  BY DEF DefaultedDebtDeducted, Ledger
<1>2. /\ C \in Nat /\ l.assets["Debt"] \in Nat /\ l.revenue \in Nat /\ l.surplus \in Nat
      /\ C <= MaxUint /\ l.assets["Debt"] <= C + l.revenue + l.surplus
  BY LedgerFields DEF LedgerOK
<1>3. /\ excess \in Nat /\ left \in Nat /\ left <= C
      /\ (excess = 0 /\ left = C - debt) \/ (excess = debt - C /\ left = 0)
  <2> HIDE DEF C
  <2> QED
    BY <1>2 DEF Liquidity
<1>4. loss \in Nat /\ loss <= excess /\ loss <= l.revenue
      /\ (loss = excess \/ loss = l.revenue)
  BY <1>2, <1>3 DEF SmallerOf
<1> HIDE DEF C, excess, loss, left
<1>5. l.revenue - loss \in Nat /\ l.surplus - (excess - loss) \in Nat
  BY <1>2, <1>3, <1>4
<1>6. left + (l.revenue - loss) + (l.surplus - (excess - loss)) + debt = C + l.revenue + l.surplus
  <2>1. Shared(C, l.revenue, l.surplus, debt, excess, left, loss)
    BY <1>2, <1>3, <1>4, LossShared
  <2> QED
    BY <2>1 DEF Shared
<1>7. "Collateral" \in AssetType /\ "Debt" \in AssetType /\ "Protected" \in AssetType
  BY DEF AssetType
<1>8. l1 \in Ledger
  BY <1>3, <1>7, LedgerUpdate
<1>9. l2 \in Ledger
  BY <1>5, <1>8, LedgerUpdate
<1>10. m \in Ledger
  <2> HIDE DEF l2
  <2> QED
    BY <1>5, <1>9, LedgerUpdate
<1>11. /\ m.assets["Collateral"] = left
       /\ m.assets["Debt"] = l.assets["Debt"] /\ m.assets["Protected"] = l.assets["Protected"]
       /\ m.supply = l.supply /\ m.cash = l.cash
       /\ m.revenue = l.revenue - loss /\ m.surplus = l.surplus - (excess - loss)
  BY <1>7 DEF Ledger
<1> HIDE DEF m
<1> QED
  BY <1>1, <1>3, <1>6, <1>10, <1>11 DEF C

\* The defaulted debt is cancelled without any tokens.
LEMMA CancelledOK ==
  ASSUME NEW l \in Ledger, NEW owed \in Nat, LedgerOK(l, owed), LedgerFair(l),
         NEW owes \in Nat, owes <= l.supply["Debt"], NEW in \in Amounts,
         NEW debt \in Nat, debt <= l.assets["Debt"],
         NEW m, m = DefaultedDebtDeducted(l, debt),
         NEW y, y = RepaymentOf(m, owes, in), CanRepay(m, y), y.assets = debt
  PROVE  /\ Repaid(m, y) \in Ledger /\ LedgerOK(Repaid(m, y), owed) /\ LedgerFair(Repaid(m, y))
         /\ Repaid(m, y).supply = [l.supply EXCEPT !["Debt"] = @ - y.shares]
         /\ Repaid(m, y).assets["Debt"] = l.assets["Debt"] - debt
         /\ y.shares \in Nat /\ y.shares <= owes
<1> DEFINE k == Repaid(m, y)
           total == l.assets["Debt"] - debt
           supply == l.supply["Debt"] - y.shares
           b == Booked(m, "Debt", total, supply, m.cash)
<1>1. /\ m \in Ledger
      /\ m.assets["Debt"] = l.assets["Debt"] /\ m.assets["Protected"] = l.assets["Protected"]
      /\ m.supply = l.supply /\ m.cash = l.cash
      /\ m.assets["Collateral"] <= l.assets["Collateral"]
      /\ m.assets["Collateral"] + m.revenue + m.surplus + debt
           = l.assets["Collateral"] + l.revenue + l.surplus
  BY DeductedFields
<1>2. y \in Amounts /\ y.shares \in Nat /\ y.shares <= owes
  BY <1>1, RepaymentBound
<1>3. LedgerFair(m)
  BY <1>1 DEF LedgerFair
<1>4. LedgerFair(k)
  <2>1. LedgerFair(Received(Repaid(m, y), y.assets))
    BY <1>1, <1>3, RepayFair
  <2> QED
    BY <1>1, <2>1 DEF LedgerFair, Received, Repaid, Ledger
<1>5. l.supply["Debt"] \in Nat /\ l.assets["Debt"] \in Nat /\ "Debt" \in AssetType
  BY LedgerFields DEF AssetType
<1>6. total \in Nat /\ supply \in Nat /\ m.cash \in Nat
  BY <1>1, <1>2, <1>5, LedgerFields
<1>7. IsBooked(b, m, "Debt", total, supply, m.cash)
  <2> HIDE DEF b, total, supply
  <2> QED
    BY <1>1, <1>5, <1>6, BookedFields DEF b
<1>8. k = b
  BY <1>1 DEF Repaid, Booked, Ledger
<1> HIDE DEF k, b
<1>9. /\ k \in Ledger /\ k.assets["Debt"] = total
      /\ k.assets["Protected"] = l.assets["Protected"]
      /\ k.assets["Collateral"] = m.assets["Collateral"]
      /\ k.supply = [l.supply EXCEPT !["Debt"] = supply]
      /\ k.cash = l.cash /\ k.revenue = m.revenue /\ k.surplus = m.surplus
  BY <1>1, <1>7, <1>8 DEF IsBooked, AssetType
<1>10. LedgerOK(k, owed)
  <2>1. /\ l.assets["Protected"] \in Nat /\ l.assets["Collateral"] \in Nat
        /\ l.revenue \in Nat /\ l.surplus \in Nat /\ l.cash \in Nat
        /\ l.assets["Collateral"] <= MaxUint
        /\ l.cash + owed + l.assets["Debt"]
             = l.assets["Protected"] + l.assets["Collateral"] + l.revenue + l.surplus
        /\ l.assets["Debt"] <= l.assets["Collateral"] + l.revenue + l.surplus
    BY LedgerFields DEF LedgerOK
  <2>2. m.assets["Collateral"] \in Nat /\ m.revenue \in Nat /\ m.surplus \in Nat
    BY <1>1, LedgerFields
  <2>3. MaxUint \in Nat
    BY MathAssumption
  <2>4. k.assets["Collateral"] <= MaxUint
    BY <1>1, <1>9, <2>1, <2>2, <2>3
  <2>5. /\ l.cash + owed + (l.assets["Debt"] - debt)
             = l.assets["Protected"] + m.assets["Collateral"] + m.revenue + m.surplus
        /\ l.assets["Debt"] - debt <= m.assets["Collateral"] + m.revenue + m.surplus
    <3>1. Balanced(l.cash, owed, l.assets["Debt"], l.assets["Protected"],
                   l.assets["Collateral"], l.revenue, l.surplus)
      BY <2>1 DEF Balanced
    <3>2. Balanced(l.cash, owed, l.assets["Debt"] - debt, l.assets["Protected"],
                   m.assets["Collateral"], m.revenue, m.surplus)
      BY <1>1, <1>5, <2>1, <2>2, <3>1, LossBalanced
    <3> QED
      BY <3>2 DEF Balanced
  <2>6. /\ k.cash + owed + k.assets["Debt"]
             = k.assets["Protected"] + k.assets["Collateral"] + k.revenue + k.surplus
        /\ k.assets["Debt"] <= k.assets["Collateral"] + k.revenue + k.surplus
    BY <1>9, <2>5
  <2> QED
    BY <2>4, <2>6 DEF LedgerOK
<1> QED
  BY <1>2, <1>4, <1>9, <1>10 DEF k


\* The shares n in two parts, to two recipients
LEMMA ForwardedTwice ==
  ASSUME NEW l, NEW b, MarketOK(l, b), NEW c \in Silos, NEW u \in Users,
         NEW first \in Users, NEW second \in Users,
         NEW n, NEW i, NEW j, Held(b, c, u, n), Split(n, i, j)
  PROVE  LET g == Forwarded(Forwarded(b, c, u, first, i), c, u, second, j)
         IN  MarketOK(l, g) /\ Given(b, c, u, n, g)
<1> DEFINE f == Forwarded(b, c, u, first, i)
           g == Forwarded(f, c, u, second, j)
<1>1. /\ i \in [CollateralType -> Nat] /\ j \in [CollateralType -> Nat]
      /\ CollateralType \subseteq AssetType
  BY DEF Split, CollateralType, AssetType
<1>2. ASSUME NEW t \in CollateralType
      PROVE  /\ n[t] \in Nat /\ i[t] \in Nat /\ j[t] \in Nat /\ b[c][t][u] \in Nat
             /\ i[t] <= n[t] /\ j[t] = n[t] - i[t] /\ n[t] <= b[c][t][u]
  BY <1>1, MarketHolding DEF Held, Split
<1>3. \A t \in CollateralType : i[t] <= b[c][t][u]
  BY <1>2
<1>4. /\ MarketOK(l, f)
      /\ \A s \in Silos : f[s]["Debt"] = b[s]["Debt"]
      /\ \A s \in Silos, t \in AssetType : s # c => f[s][t] = b[s][t]
      /\ \A t \in CollateralType : f[c][t] = Transferred(b, c, t, u, first, i[t])[c][t]
  BY <1>1, <1>3, ForwardedMarket
<1>5. b \in Balances /\ f \in Balances
  BY <1>4 DEF MarketOK
<1> HIDE DEF f
<1>6. ASSUME NEW t \in CollateralType
      PROVE  /\ f[c][t][u] \in Nat /\ b[c][t][u] - i[t] <= f[c][t][u]
             /\ \A w \in Users \ {u} : b[c][t][w] <= f[c][t][w]
  <2>1. t \in AssetType /\ i[t] \in Nat /\ i[t] <= b[c][t][u]
    BY <1>1, <1>2, <1>3
  <2>2. /\ Transferred(b, c, t, u, first, i[t])[c][t][u] \in Nat
        /\ b[c][t][u] - i[t] <= Transferred(b, c, t, u, first, i[t])[c][t][u]
        /\ \A w \in Users \ {u} : b[c][t][w] <= Transferred(b, c, t, u, first, i[t])[c][t][w]
    BY <1>5, <2>1, SenderKeeps
  <2> QED
    BY <1>4, <2>2
<1>7. \A t \in CollateralType : j[t] <= f[c][t][u]
  BY <1>2, <1>6
<1>8. /\ MarketOK(l, g)
      /\ \A s \in Silos : g[s]["Debt"] = f[s]["Debt"]
      /\ \A s \in Silos, t \in AssetType : s # c => g[s][t] = f[s][t]
      /\ \A t \in CollateralType : g[c][t] = Transferred(f, c, t, u, second, j[t])[c][t]
  BY <1>1, <1>4, <1>7, ForwardedMarket
<1> HIDE DEF g
<1>9. ASSUME NEW t \in CollateralType
      PROVE  /\ g[c][t][u] \in Nat /\ f[c][t][u] - j[t] <= g[c][t][u]
             /\ \A w \in Users \ {u} : f[c][t][w] <= g[c][t][w]
  <2>1. t \in AssetType /\ j[t] \in Nat /\ j[t] <= f[c][t][u]
    BY <1>1, <1>2, <1>7
  <2>2. /\ Transferred(f, c, t, u, second, j[t])[c][t][u] \in Nat
        /\ f[c][t][u] - j[t] <= Transferred(f, c, t, u, second, j[t])[c][t][u]
        /\ \A w \in Users \ {u} : f[c][t][w] <= Transferred(f, c, t, u, second, j[t])[c][t][w]
    BY <1>5, <2>1, SenderKeeps
  <2> QED
    BY <1>8, <2>2
<1>10. \A t \in CollateralType : b[c][t][u] <= g[c][t][u] + n[t]
  BY <1>2, <1>6, <1>9
<1>11. ASSUME NEW s \in Silos, NEW w \in Users, NEW t \in CollateralType, w # u \/ s # c
       PROVE  b[s][t][w] <= g[s][t][w]
  <2>1. b[s][t][w] \in Nat /\ f[s][t][w] \in Nat /\ t \in AssetType
    BY <1>1, <1>5 DEF Balances
  <2>2. CASE s # c
    BY <1>4, <1>8, <2>1, <2>2
  <2>3. CASE s = c
    <3>1. w # u /\ g[s][t][w] \in Nat
      BY <1>1, <1>8, <1>11, <2>3 DEF MarketOK, Balances
    <3> QED
      BY <1>6, <1>9, <2>1, <2>3, <3>1
  <2> QED
    BY <2>2, <2>3
<1> QED
  BY <1>4, <1>8, <1>10, <1>11 DEF f, g, Given

\* liquidationCallByDefaulting, whoever the keeper is
LEMMA DefaultingOutcome ==
  ASSUME LInv, NEW v \in Users, NEW u \in Users, NEW d \in Silos,
         NEW rcomp \in [Silos -> Rcomps], LiquidationCallByDefaulting(v, u, d, rcomp)
  PROVE  \E x : /\ ExactOK(x, collateralSilo[u], d, Position(BothAccrued(rcomp), u, collateralSilo[u], d))
                /\ Outcome(BothAccrued(rcomp), u, d, x)
<1> DEFINE l == BothAccrued(rcomp)
           c == collateralSilo[u]
           x == ExactLiquidationAmounts(l, u, c, d, MaxUint, LiquidationThreshold[c] + LtMargin)
           n == SeizedShares(l, c, x)
           forKeeper == [t \in CollateralType |-> KeeperShares(c, n[t])]
           forLenders == [t \in CollateralType |-> n[t] - forKeeper[t]]
           in == [assets |-> x.debt, shares |-> 0]
           m == DefaultedDebtDeducted(l[d], x.debt)
           owes == balance[d]["Debt"][u]
           y == RepaymentOf(m, owes, in)
           paid == Repaid(m, y)
           b == Burned(balance, d, "Debt", u, y.shares)
<1>1. /\ OneWayMarket /\ HasDebt(u, d) /\ x.debt # 0
      /\ \A t \in CollateralType : n[t] <= balance[c][t][u]
      /\ CanRepay(m, y)
      /\ ledger' = [l EXCEPT ![d] = paid]
      /\ balance' = Forwarded(Forwarded(b, c, u, Controller, forLenders), c, u, v, forKeeper)
      /\ UNCHANGED <<collateralSilo, loans, price, blocks>>
  BY DEF LiquidationCallByDefaulting
<1>2. /\ c \in Silos /\ LoansOK /\ price \in [Silos -> Nat \ {0}] /\ MaxUint \in Nat
      /\ Controller \in Users
  BY <1>1, DebtorsCollateral, MathAssumption, LiquidationAssumption DEF LInv, IInv, OthersOK
<1>0. c # d
  <2>1. LiquidationThreshold[c] # 0 /\ LiquidationThreshold[OtherSilo(d)] # 0
    BY <1>1, <1>2 DEF LInv, Backing
  <2>2. PICK s \in Silos : LiquidationThreshold[s] = 0
    BY <1>1 DEF OneWayMarket
  <2>3. \A t \in Silos : t = d \/ t = OtherSilo(d)
    BY DEF Silos, OtherSilo
  <2> HIDE DEF c
  <2> QED
    BY <2>1, <2>2, <2>3
<1>3. MarketOK(l, balance)
  BY AccruedMarket
<1> HIDE DEF l, c
<1>4. ExactOK(x, c, d, Position(l, u, c, d))
  BY <1>2, <1>3, ExactAmounts
<1> HIDE DEF x
<1>5. x \in [debt : Nat, protected : Nat, collateral : Nat] /\ x.debt \in Nat \ {0} /\ in \in Amounts
  BY <1>1, <1>4 DEF ExactOK, Amounts
<1>6. n \in [CollateralType -> Nat]
  BY <1>2, <1>3, <1>5, SeizedSharesOK DEF MarketOK
<1>7. /\ l[d] \in Ledger /\ LedgerOK(l[d], Owed(d)) /\ LedgerFair(l[d])
      /\ owes \in Nat /\ l[d].supply["Debt"] \in Nat /\ owes <= l[d].supply["Debt"]
      /\ Owed(d) \in Nat
  <2>1. "Debt" \in AssetType
    BY DEF AssetType
  <2> QED
    BY <1>2, <1>3, <2>1, MarketHolding, OwedNat DEF MarketOK, LoansOK
<1>8. /\ x.debt <= ConvertToAssets(owes, l[d].assets["Debt"], l[d].supply["Debt"], Ceil, "Debt")
      /\ x.debt <= l[d].assets["Debt"]
  <2>1. /\ x.debt <= Position(l, u, c, d)["Debt"] /\ Position(l, u, c, d)["Debt"] \in Nat
        /\ Position(l, u, c, d)["Debt"] <= l[d].assets["Debt"]
        /\ Position(l, u, c, d)["Debt"] =
             ConvertToAssets(owes, l[d].assets["Debt"], l[d].supply["Debt"], Ceil, "Debt")
    BY <1>2, <1>3, <1>4, PositionNat DEF ExactOK
  <2>2. l[d].assets["Debt"] \in Nat
    BY <1>7, LedgerFields DEF AssetType
  <2> HIDE DEF owes
  <2> QED
    BY <1>5, <2>1, <2>2
<1>9. m \in Ledger /\ m.assets["Debt"] = l[d].assets["Debt"] /\ m.supply = l[d].supply
  BY <1>5, <1>7, <1>8, DeductedFields
<1> HIDE DEF owes
<1>10. y.assets = x.debt /\ y.shares = BurnedFor(l, d, x)
  <2>1. LedgerFair(m)
    BY <1>7, <1>9 DEF LedgerFair
  <2> HIDE DEF m
  <2> QED
    BY <1>5, <1>7, <1>8, <1>9, <2>1, ExactRepayment DEF BurnedFor
<1> HIDE DEF n, in, y
<1>11. /\ paid \in Ledger /\ LedgerOK(paid, Owed(d)) /\ LedgerFair(paid)
       /\ paid.supply = [l[d].supply EXCEPT !["Debt"] = @ - y.shares]
       /\ paid.assets["Debt"] = l[d].assets["Debt"] - x.debt
       /\ y.shares \in Nat /\ y.shares <= owes
  BY <1>1, <1>5, <1>7, <1>8, <1>10, CancelledOK DEF y
<1> HIDE DEF m, paid
<1>12. MarketOK([l EXCEPT ![d] = paid], b)
  <2>1. "Debt" \in AssetType /\ y.shares <= balance[d]["Debt"][u]
    BY <1>11 DEF AssetType, owes
  <2> QED
    BY <1>3, <1>11, <2>1, BurnMarket
<1>13. balance \in Balances /\ l \in [Silos -> Ledger]
  BY <1>3 DEF MarketOK
<1>14. /\ \A s \in Silos, t \in CollateralType, w \in Users : b[s][t][w] = balance[s][t][w]
       /\ \A s \in Silos, w \in Users : b[s]["Debt"][w] <= balance[s]["Debt"][w]
       /\ \A s \in Silos, w \in Users : s # d \/ w # u => b[s]["Debt"][w] = balance[s]["Debt"][w]
       /\ b[d]["Debt"][u] = balance[d]["Debt"][u] - BurnedFor(l, d, x)
  BY <1>10, <1>11, <1>13, DebtBurned
<1>15. /\ ledger'[d].assets["Debt"] = l[d].assets["Debt"] - x.debt
       /\ ledger'[d].supply["Debt"] = l[d].supply["Debt"] - BurnedFor(l, d, x)
       /\ \A t \in CollateralType : PriceKept(l[c], ledger'[c], t)
  <2>1. ledger'[d] = paid /\ ledger'[c] = l[c]
    BY <1>0, <1>1, <1>2, <1>13
  <2>2. l[d].supply \in [AssetType -> Nat] /\ "Debt" \in AssetType
    BY <1>13 DEF Ledger, AssetType
  <2>3. ASSUME NEW t \in CollateralType PROVE PriceKept(l[c], l[c], t)
    <3>1. l[c].assets[t] \in Nat /\ l[c].supply[t] \in Nat
      BY <1>2, <1>13, LedgerFields DEF CollateralType, AssetType
    <3> QED
      BY <3>1, SamePrice DEF PriceKept
  <2> QED
    BY <1>10, <1>11, <2>1, <2>2, <2>3
<1> HIDE DEF b
<1>16. Held(b, c, u, n) /\ Split(n, forLenders, forKeeper)
  <2>1. ASSUME NEW t \in CollateralType
        PROVE  /\ forKeeper[t] \in Nat /\ forLenders[t] \in Nat
               /\ forLenders[t] <= n[t] /\ forKeeper[t] = n[t] - forLenders[t]
    <3>1. n[t] \in Nat
      BY <1>6
    <3>2. KeeperShares(c, n[t]) \in Nat /\ KeeperShares(c, n[t]) <= n[t]
      BY <1>2, <3>1, KeeperSharesBound
    <3> QED
      BY <3>1, <3>2
  <2>2. forKeeper \in [CollateralType -> Nat] /\ forLenders \in [CollateralType -> Nat]
    BY <2>1
  <2> HIDE DEF forKeeper, forLenders
  <2>3. Split(n, forLenders, forKeeper)
    BY <1>6, <2>1, <2>2 DEF Split
  <2>4. Held(b, c, u, n)
    BY <1>1, <1>2, <1>14 DEF Held
  <2> QED
    BY <2>3, <2>4
<1> HIDE DEF forKeeper, forLenders
<1>17. MarketOK(ledger', balance') /\ Given(b, c, u, n, balance')
  BY <1>1, <1>2, <1>12, <1>16, ForwardedTwice
<1>18. Outcome(l, u, d, x)
  <2>1. \A w \in Users, s \in Silos : balance'[s]["Debt"][w] <= balance[s]["Debt"][w]
    BY <1>14, <1>17 DEF Given
  <2>2. /\ \A w \in Users \ {u}, s \in Silos : balance'[s]["Debt"][w] = balance[s]["Debt"][w]
        /\ \A s \in Silos \ {d} : balance'[s]["Debt"][u] = balance[s]["Debt"][u]
    BY <1>14, <1>17 DEF Given
  <2>3. \A t \in CollateralType : balance[c][t][u] <= balance'[c][t][u] + n[t]
    BY <1>2, <1>14, <1>17 DEF Given
  <2>4. \A w \in Users, s \in Silos, t \in CollateralType :
          w # u \/ s # c => balance[s][t][w] <= balance'[s][t][w]
    BY <1>14, <1>17 DEF Given
  <2>5. /\ BurnedFor(l, d, x) <= balance[d]["Debt"][u]
        /\ balance'[d]["Debt"][u] = balance[d]["Debt"][u] - BurnedFor(l, d, x)
    <3>1. y.shares = BurnedFor(l, d, x) /\ y.shares <= balance[d]["Debt"][u]
      BY <1>10, <1>11 DEF owes
    <3> QED
      BY <1>14, <1>17, <3>1 DEF Given
  <2> QED
    BY <1>1, <1>15, <1>17, <2>1, <2>2, <2>3, <2>4, <2>5 DEF Outcome, c, n
<1> QED
  BY <1>4, <1>18 DEF l, c


-----------------------------------------------------------------------------
(* The inductive invariant of the market with its liquidations             *)

\* What a liquidation leaves is a market in order.
LEMMA OutcomeStep ==
  ASSUME LInv, NEW l, NEW u \in Users, NEW d \in Silos, NEW x, Outcome(l, u, d, x)
  PROVE  LInv'
<1>1. MarketOK(ledger', balance') /\ UNCHANGED <<collateralSilo, loans, price, blocks>>
  BY DEF Outcome
<1>2. \A t \in Silos : Owed(t)' = Owed(t)
  BY <1>1 DEF Owed
<1>3. LedgersOK'
  BY <1>1, <1>2 DEF MarketOK, LedgersOK
<1>4. TokensOK'
  BY <1>1 DEF MarketOK, TokensOK
<1>5. LoansOK' /\ OthersOK'
  BY <1>1, LoansKept DEF LInv, IInv, OthersOK
<1>6. DebtSharesCovered'
  BY <1>1 DEF MarketOK, LedgerFair, DebtFair, DebtSharesCovered
<1>7. Positions' /\ Backing'
  <2>1. \A w \in Users, s \in Silos : HasDebt(w, s)' => HasDebt(w, s)
    <3> SUFFICES ASSUME NEW w \in Users, NEW s \in Silos, HasDebt(w, s)' PROVE HasDebt(w, s)
      OBVIOUS
    <3>1. balance'[s]["Debt"][w] <= balance[s]["Debt"][w]
      BY DEF Outcome
    <3>2. balance'[s]["Debt"][w] \in Nat /\ balance[s]["Debt"][w] \in Nat
      BY <1>4 DEF TokensOK, Balances, AssetType, LInv, IInv
    <3> QED
      BY <3>1, <3>2 DEF HasDebt
  <2> QED
    BY <1>1, <2>1, PositionsKept, BackingKept DEF LInv
<1> QED
  BY <1>3, <1>4, <1>5, <1>6, <1>7 DEF LInv, IInv

\* A liquidation of either kind has an outcome.
Liquidates(u, d, rcomp) ==
  \E v \in Users \ {Controller} :
    \/ \E n \in DebtInputs, receiveSToken \in BOOLEAN :
         LiquidationCall(v, u, d, n, receiveSToken, rcomp)
    \/ LiquidationCallByDefaulting(v, u, d, rcomp)

\* Every liquidation, of either kind, has such an outcome for some amounts.
LEMMA LiquidationOutcome ==
  ASSUME LInv, NEW u \in Users, NEW d \in Silos, NEW rcomp \in [Silos -> Rcomps],
         Liquidates(u, d, rcomp)
  PROVE  \E x : /\ ExactOK(x, collateralSilo[u], d, Position(BothAccrued(rcomp), u, collateralSilo[u], d))
                /\ Outcome(BothAccrued(rcomp), u, d, x)
<1>1. PICK v \in Users \ {Controller} :
        \/ \E n \in DebtInputs, receiveSToken \in BOOLEAN :
             LiquidationCall(v, u, d, n, receiveSToken, rcomp)
        \/ LiquidationCallByDefaulting(v, u, d, rcomp)
  BY DEF Liquidates
<1>2. \A n \in DebtInputs : n \in Nat
  BY LiquidationAssumption
<1> QED
  BY <1>1, <1>2, LiquidationCallOutcome, DefaultingOutcome

\* A transfer of collateral shares, such as a payment of rewards
LEMMA TransferKeeps ==
  ASSUME LInv, NEW s \in Silos, NEW type \in CollateralType, NEW u \in Users, NEW v \in Users,
         NEW n \in TransferInputs[s], NEW rcomp \in [Silos -> Rcomps],
         TransferCollateral(s, type, u, v, n, rcomp)
  PROVE  LInv'
<1>1. IInv'
  BY TransferCollateralStep DEF LInv
<1>2. DebtSharesCovered'
  BY TransferFair DEF LInv
<1>3. Positions' /\ Backing'
  <2> HIDE DEF Positions, Backing
  <2> QED
    BY NobodyStartsToOwe, PositionsKept, BackingKept DEF LInv
<1> QED
  BY <1>1, <1>2, <1>3 DEF LInv

\* Every step of the market with its liquidations keeps the inductive invariant.
LEMMA LiquidationNextOK == LInv /\ [LiquidationNext]_vars => LInv'
<1> SUFFICES ASSUME LInv, [LiquidationNext]_vars PROVE LInv'
  OBVIOUS
<1>1. CASE [Next]_vars
  <2>1. IInv' /\ DebtSharesCovered' /\ Positions'
    <3> HIDE DEF Positions, DebtSharesCovered
    <3> QED
      BY <1>1, NextOK, DebtStep, PositionsStep DEF LInv
  <2>2. Backing'
    BY <1>1, <2>1, BackingStep DEF LInv
  <2> QED
    BY <2>1, <2>2 DEF LInv
<1>2. CASE ClaimRewards
  BY <1>2, TransferKeeps DEF ClaimRewards
<1>3. ASSUME NEW u \in Users, NEW d \in Silos, NEW r \in [Silos -> Rcomps], Liquidates(u, d, r)
      PROVE  LInv'
  BY <1>3, LiquidationOutcome, OutcomeStep
<1>4. Liquidations => \E u \in Users, d \in Silos, r \in [Silos -> Rcomps] : Liquidates(u, d, r)
  BY DEF Liquidations, Liquidates
<1> QED
  BY <1>1, <1>2, <1>3, <1>4 DEF LiquidationNext

\* Every state that the market reaches with its liquidations satisfies it.
LEMMA LiquidationInvariance == LiquidationSpec => []LInv
<1>1. Init => LInv
  <2>1. Init => DebtSharesCovered
    BY DEF Init, DebtSharesCovered, EmptyLedger, AssetType
  <2>2. Init => Positions
    BY MarketAssumption DEF Init, Positions, NoDebtInBothSilos, DebtHasCollateralSilo, HasDebt, Silos, AssetType
  <2>3. Init => Backing
    BY MarketAssumption DEF Init, Backing, HasDebt, Silos, AssetType
  <2> QED
    BY <2>1, <2>2, <2>3, InitOK DEF LInv
<1> QED
  BY <1>1, LiquidationNextOK, PTL DEF LiquidationSpec

\* No liquidation lets a total, a balance or a remainder underflow.
THEOREM LiquidationTypeCorrect == LiquidationSpec => []TypeOK
<1>1. LInv => TypeOK
  BY DEF LInv, IInv, LedgersOK, TokensOK, LoansOK, OthersOK, LedgerOK, Balances, TypeOK
<1> QED
  BY <1>1, LiquidationInvariance, PTL

\* The books agree with the tokens to the unit whatever is liquidated: by a
\* repayment and redeemed collateral, or by a debt that lenders, dao and
\* deployer take over (deductDefaultedDebtFromCollateral).
THEOREM LiquidationCashAccounted == LiquidationSpec => []CashAccounted
<1>1. LInv => CashAccounted
  BY DEF LInv, IInv, LedgersOK, LedgerOK, CashAccounted
<1> QED
  BY <1>1, LiquidationInvariance, PTL

\* What the market promises without liquidations holds with them: the debt is
\* covered, liquidity is there to be paid, each share of debt is worth an asset,
\* balances add up, the claims of all depositors fit, nobody owes to both Silos
\* and everybody who owes has a collateral Silo.
THEOREM LiquidationKeepsMarket ==
  LiquidationSpec => [](/\ DebtCovered /\ LiquidityFunded /\ DebtSharesCovered
                        /\ SupplyIsSum /\ ClaimsCovered
                        /\ NoDebtInBothSilos /\ DebtHasCollateralSilo)
<1>1. LInv => DebtCovered
  BY DEF LInv, IInv, LedgersOK, LedgerOK, DebtCovered
<1>2. LInv => /\ DebtCovered /\ LiquidityFunded /\ DebtSharesCovered
              /\ SupplyIsSum /\ ClaimsCovered
              /\ NoDebtInBothSilos /\ DebtHasCollateralSilo
  BY <1>1, FundedOK, SumsOK, ClaimsOK DEF LInv, Positions
<1> QED
  BY <1>2, LiquidationInvariance, PTL


-----------------------------------------------------------------------------
(* What a liquidation leaves to the borrower.                              *)

\* What is left of n of S shares of a debt of D, after k of them have been burned
\* for a, is worth as much less as was repaid, but for less than a share.
LEMMA DebtLeft ==
  ASSUME NEW D \in Nat, NEW S \in Nat, DebtFair(D, S), NEW n \in Nat, n <= S,
         NEW a \in Nat, a <= D, NEW k \in Nat, k <= n, k = MulDiv(a, S, D, Floor),
         DebtFair(D - a, S - k), n # 0
  PROVE  ConvertToAssets(n - k, D - a, S - k, Ceil, "Debt") + a
           <= ConvertToAssets(n, D, S, Ceil, "Debt") + ConvertToAssets(1, D, S, Ceil, "Debt")
<1> DEFINE p == MulDiv(n, D, S, Ceil)
           q == MulDiv(1, D, S, Ceil)
           B == D - a
           T == S - k
           N == n - k
           z == MulDiv(N, B, T, Ceil)
<1>1. S \in Nat \ {0} /\ D \in Nat \ {0} /\ B \in Nat /\ T \in Nat /\ N \in Nat
  BY DEF DebtFair
<1>2. /\ ConvertToAssets(n, D, S, Ceil, "Debt") = p
      /\ ConvertToAssets(1, D, S, Ceil, "Debt") = q
  BY <1>1, DebtRatio DEF ConvertToAssets
<1>3. p \in Nat /\ n * D <= S * p /\ q \in Nat /\ D <= S * q
  <2>1. q \in Nat /\ 1 * D <= S * q
    BY <1>1, CeilBound
  <2>2. p \in Nat /\ n * D <= S * p
    BY <1>1, CeilBound
  <2> HIDE DEF p, q
  <2> QED
    BY <1>1, <2>1, <2>2
<1>4. D * k <= a * S /\ a * S < D * k + D
  BY <1>1, FloorBound
<1>5. CASE T = 0
  <2>1. B = 0 /\ N = 0 /\ n = S /\ a = D
    BY <1>1, <1>5 DEF DebtFair
  <2>2. ConvertToAssets(N, B, T, Ceil, "Debt") = 0
    <3>1. CommonShares(T, "Debt") = 0
      BY <1>5 DEF CommonShares
    <3> HIDE DEF N, B, T
    <3> QED
      BY <2>1, <3>1 DEF ConvertToAssets
  <2> HIDE DEF p, q
  <2>3. S * D <= S * p
    BY <1>3, <2>1
  <2>4. D <= p
    BY <1>1, <1>3, <2>3, Cancel
  <2> QED
    BY <1>2, <1>3, <2>1, <2>2, <2>4
<1>6. CASE T # 0
  <2>1. ConvertToAssets(N, B, T, Ceil, "Debt") = z
    BY <1>1, <1>6, DebtRatio DEF ConvertToAssets
  <2>2. z \in Nat /\ T * z < N * B + T
    BY <1>1, <1>6, CeilBound
  <2> DEFINE w == p + q - a
  <2>3. B = D - a /\ T = S - k /\ N = n - k
    OBVIOUS
  <2> HIDE DEF p, q, z, B, T, N
  <2>4. S * w = S * p + S * q - a * S /\ w \in Int
    BY <1>1, <1>3
  <2>5. N * D = n * D - D * k
    BY <1>1, <2>3
  <2>6. N * D <= S * w
    <3>1. n * D \in Nat /\ D * k \in Nat /\ a * S \in Nat /\ S * p \in Nat /\ S * q \in Nat
      BY <1>1, <1>3
    <3> QED
      BY <1>3, <1>4, <2>4, <2>5, <3>1
  <2>7. S * B <= T * D
    <3>1. S * B = S * D - a * S /\ T * D = S * D - D * k
      BY <1>1, <2>3
    <3> QED
      BY <1>1, <1>4, <3>1
  <2>8. w \in Nat
    <3>1. ASSUME w < 0 PROVE FALSE
      <4>1. S * w < 0
        BY <1>1, <2>4, <3>1
      <4>2. N * D \in Nat
        BY <1>1
      <4> QED
        BY <2>4, <2>6, <4>1, <4>2
    <3> QED
      BY <2>4, <3>1
  <2> HIDE DEF w
  <2>9. N * (S * B) <= N * (T * D)
    BY <1>1, <2>7
  <2>10. T * (N * D) <= T * (S * w)
    BY <1>1, <2>6, <2>8
  <2>11. S * (N * B) <= S * (T * w)
    <3>1. N * (S * B) = S * (N * B) /\ N * (T * D) = T * (N * D) /\ T * (S * w) = S * (T * w)
      BY <1>1, <2>8
    <3>2. S * (N * B) \in Nat /\ T * (N * D) \in Nat /\ S * (T * w) \in Nat
      BY <1>1, <2>8
    <3> QED
      BY <2>9, <2>10, <3>1, <3>2
  <2>12. N * B <= T * w
    <3>1. N * B \in Nat /\ T * w \in Nat
      BY <1>1, <2>8
    <3> QED
      BY <1>1, <2>11, <3>1, Cancel
  <2>13. z <= w
    <3>1. ASSUME z >= w + 1 PROVE FALSE
      <4>1. T * (w + 1) <= T * z /\ T * (w + 1) = T * w + T
        BY <1>1, <2>2, <2>8, <3>1
      <4>2. T * z \in Nat /\ N * B \in Nat /\ T * w \in Nat
        BY <1>1, <2>2, <2>8
      <4> QED
        BY <1>1, <2>2, <2>12, <4>1, <4>2
    <3> QED
      BY <2>2, <2>8, <3>1
  <2>14. z + a <= p + q
    BY <1>3, <2>2, <2>13 DEF w
  <2> QED
    BY <1>2, <2>1, <2>3, <2>14
<1> QED
  BY <1>1, <1>5, <1>6

\* Without the shares that stand for some assets, a claim is worth less by these
\* assets at most.
LEMMA ClaimLeft ==
  ASSUME NEW t \in CollateralType, NEW A \in Nat, NEW S \in Nat, NEW b \in Nat, NEW i \in Nat,
         NEW n, n = ConvertToShares(i, A, S, Floor, t)
  PROVE  /\ n \in Nat
         /\ ConvertToAssets(b, A, S, Floor, t)
              <= ConvertToAssets(Liquidity(b, n), A, S, Floor, t) + i
<1> DEFINE P == CommonAssets(A, S, t)
           Q == CommonShares(S, t)
           j == Liquidity(b, n)
           f == MulDiv(b, P, Q, Floor)
           g == MulDiv(j, P, Q, Floor)
<1>1. P \in Nat \ {0} /\ Q \in Nat \ {0}
  BY CollateralRatio
<1>2. \A k : ConvertToAssets(k, A, S, Floor, t) = MulDiv(k, P, Q, Floor)
  BY <1>1 DEF ConvertToAssets
<1>3. n = MulDiv(i, Q, P, Floor)
  BY <1>1 DEF ConvertToShares
<1> HIDE DEF P, Q
<1>4. n \in Nat /\ P * n <= i * Q
  BY <1>1, <1>3, FloorBound
<1>5. j \in Nat /\ ((j = 0 /\ b <= n) \/ j = b - n)
  BY <1>4 DEF Liquidity
<1> HIDE DEF j
<1>6. /\ f \in Nat /\ Q * f <= b * P
      /\ g \in Nat /\ j * P < Q * g + Q
  BY <1>1, <1>5, FloorBound
<1> HIDE DEF f, g
<1>7. b * P <= j * P + P * n
  <2>1. b <= j + n
    BY <1>4, <1>5
  <2>2. b * P <= (j + n) * P /\ (j + n) * P = j * P + P * n
    BY <1>1, <1>4, <1>5, <2>1
  <2> QED
    BY <2>2
<1>8. Q * f < Q * (g + i + 1)
  <2>1. Q * (g + i + 1) = Q * g + Q + i * Q
    BY <1>1, <1>6
  <2>2. /\ Q * f \in Nat /\ b * P \in Nat /\ j * P \in Nat /\ P * n \in Nat
        /\ Q * g + Q \in Nat /\ i * Q \in Nat
    BY <1>1, <1>4, <1>5, <1>6
  <2> QED
    BY <1>4, <1>6, <1>7, <2>1, <2>2
<1>9. ASSUME f >= g + i + 1 PROVE FALSE
  <2>1. Q * (g + i + 1) <= Q * f
    BY <1>1, <1>6, <1>9
  <2>2. Q * f \in Nat /\ Q * (g + i + 1) \in Nat
    BY <1>1, <1>6
  <2> QED
    BY <1>8, <2>1, <2>2
<1>10. f <= g + i
  BY <1>6, <1>9
<1> QED
  BY <1>2, <1>4, <1>10 DEF f, g, j

-----------------------------------------------------------------------------
(* What a liquidation takes for the debt it cancels.                       *)

DebtsLeft == \A s \in Silos, w \in Users : balance'[s]["Debt"][w] = balance[s]["Debt"][w]

DepositsLeft ==
  \A s \in Silos, t \in CollateralType, w \in Users : balance'[s][t][w] = balance[s][t][w]

\* Calls that move shares of deposits
LEMMA DepositCalls ==
  ASSUME balance \in Balances, NEW s \in Silos, NEW r, NEW type \in CollateralType,
         NEW u \in Users, NEW v \in Users,
         \/ \E in : Deposit(s, u, type, in, r)
         \/ \E in : Withdraw(s, u, type, in, r)
         \/ \E n : TransitionCollateral(s, u, type, n, r)
         \/ \E n : TransferCollateral(s, type, u, v, n, r)
  PROVE  DebtsLeft
<1>1. "Debt" \notin CollateralType /\ type # "Debt"
  BY DEF CollateralType
<1>2. ASSUME NEW k, NEW w, NEW t \in Silos, NEW o \in Users
      PROVE  Minted(balance, s, type, w, k)[t]["Debt"][o] = balance[t]["Debt"][o]
  BY <1>1 DEF Minted, Balances, AssetType
<1>3. ASSUME NEW k, NEW w, NEW t \in Silos, NEW o \in Users
      PROVE  Burned(balance, s, type, w, k)[t]["Debt"][o] = balance[t]["Debt"][o]
  BY <1>1 DEF Burned, Balances, AssetType
<1>4. ASSUME NEW to \in CollateralType, NEW k, NEW j, NEW x, NEW t \in Silos, NEW o \in Users
      PROVE  Minted(Burned(balance, s, type, u, k), s, to, x, j)[t]["Debt"][o] = balance[t]["Debt"][o]
  BY <1>1 DEF Minted, Burned, Balances, AssetType
<1>5. ASSUME NEW in, Deposit(s, u, type, in, r) PROVE DebtsLeft
  <2>1. \E k : balance' = Minted(balance, s, type, u, k)
    BY <1>5 DEF Deposit
  <2> QED
    BY <1>2, <2>1 DEF DebtsLeft
<1>6. ASSUME NEW in, Withdraw(s, u, type, in, r) PROVE DebtsLeft
  <2>1. \E k : balance' = Burned(balance, s, type, u, k)
    BY <1>6 DEF Withdraw
  <2> QED
    BY <1>3, <2>1 DEF DebtsLeft
<1>7. ASSUME NEW n, TransitionCollateral(s, u, type, n, r) PROVE DebtsLeft
  <2> DEFINE to == IF type = "Collateral" THEN "Protected" ELSE "Collateral"
  <2>1. to \in CollateralType
    BY DEF CollateralType
  <2>2. \E k : balance' = Minted(Burned(balance, s, type, u, n), s, to, u, k)
    BY <1>7 DEF TransitionCollateral
  <2> HIDE DEF to
  <2> QED
    BY <1>4, <2>1, <2>2 DEF DebtsLeft
<1>8. ASSUME NEW n, TransferCollateral(s, type, u, v, n, r) PROVE DebtsLeft
  <2>1. balance' = Minted(Burned(balance, s, type, u, n), s, type, v, n)
    BY <1>8 DEF TransferCollateral, Transferred
  <2> QED
    BY <1>4, <2>1 DEF DebtsLeft
<1> QED
  BY <1>5, <1>6, <1>7, <1>8

\* Calls that move shares of debt
LEMMA DebtCalls ==
  ASSUME balance \in Balances, NEW s \in Silos, NEW r, NEW u \in Users, NEW v \in Users,
         \/ \E in : Borrow(s, u, in, r)
         \/ \E in : Repay(s, u, in, r)
         \/ \E n : TransferDebt(s, u, v, n, r)
  PROVE  DepositsLeft
<1>1. "Debt" \in AssetType /\ "Debt" \notin CollateralType /\ CollateralType \subseteq AssetType
  BY DEF AssetType, CollateralType
<1>2. ASSUME NEW k, NEW w, NEW d \in Silos, NEW t \in CollateralType, NEW o \in Users
      PROVE  /\ Minted(balance, s, "Debt", w, k)[d][t][o] = balance[d][t][o]
             /\ Burned(balance, s, "Debt", w, k)[d][t][o] = balance[d][t][o]
  <2>1. t \in AssetType /\ t # "Debt"
    BY <1>1
  <2> QED
    BY <2>1 DEF Minted, Burned, Balances
<1>3. ASSUME NEW k, NEW d \in Silos, NEW t \in CollateralType, NEW o \in Users
      PROVE  Transferred(balance, s, "Debt", u, v, k)[d][t][o] = balance[d][t][o]
  <2>1. t \in AssetType /\ t # "Debt"
    BY <1>1
  <2> QED
    BY <2>1 DEF Transferred, Minted, Burned, Balances
<1> QED
  BY <1>2, <1>3 DEF Borrow, Repay, TransferDebt, DepositsLeft

\* Only a liquidation moves both debt and deposits in one step.
LEMMA OneKind ==
  ASSUME balance \in Balances, [Next]_vars \/ ClaimRewards
  PROVE  DebtsLeft \/ DepositsLeft
<1>1. ASSUME NEW s \in Silos, SiloNext(s) PROVE DebtsLeft \/ DepositsLeft
  <2>1. ASSUME NEW u \in Users, NEW in, NEW r,
               (\E type \in CollateralType : Deposit(s, u, type, in, r) \/ Withdraw(s, u, type, in, r))
                 \/ Repay(s, u, in, r) \/ Borrow(s, u, in, r)
        PROVE  DebtsLeft \/ DepositsLeft
    BY <2>1, DepositCalls, DebtCalls
  <2>2. ASSUME NEW u \in Users, NEW v \in Users, NEW n, NEW r,
               \/ \E type \in CollateralType : \/ TransitionCollateral(s, u, type, n, r)
                                               \/ TransferCollateral(s, type, u, v, n, r)
               \/ TransferDebt(s, u, v, n, r)
        PROVE  DebtsLeft \/ DepositsLeft
    BY <2>2, DepositCalls, DebtCalls
  <2>3. ASSUME NEW r, Accrue(s, r) \/ WithdrawFees(s, r) \/ BeginFlashLoan(s, r) \/ Donate(s, r)
        PROVE  DebtsLeft \/ DepositsLeft
    BY <2>3 DEF Accrue, WithdrawFees, BeginFlashLoan, Donate, DebtsLeft
  <2> QED
    BY <1>1, <2>1, <2>2, <2>3 DEF SiloNext
<1>2. EndFlashLoan \/ NewBlock \/ UNCHANGED vars => DebtsLeft
  BY DEF EndFlashLoan, NewBlock, vars, DebtsLeft
<1>3. ClaimRewards => DebtsLeft
  BY DepositCalls DEF ClaimRewards
<1> QED
  BY <1>1, <1>2, <1>3 DEF Next

\* In a block in which interest was accrued a call finds the books as they are.
LEMMA FreshBooks ==
  ASSUME Fresh, ledger \in [Silos -> Ledger], NEW r \in [Silos -> Rcomps], NEW s \in Silos
  PROVE  /\ BothAccrued(r)[s].assets = ledger[s].assets
         /\ BothAccrued(r)[s].supply = ledger[s].supply
<1>1. BothAccrued(r)[s] = [ledger[s] EXCEPT !.clock = "now"]
  BY DEF BothAccrued, AccrueInterest, Fresh
<1> QED
  BY <1>1 DEF Ledger

\* A step that seizes collateral of u and cancels debt of his is a liquidation of
\* u with some outcome.
LEMMA SeizureOutcome ==
  ASSUME LInv, [LiquidationNext]_vars, NEW u \in Users, NEW d \in Silos,
         HasDebt(u, d), Seizes(u, collateralSilo[u], d)
  PROVE  \E r \in [Silos -> Rcomps], x \in [debt : Nat, protected : Nat, collateral : Nat] :
           /\ ExactOK(x, collateralSilo[u], d, Position(BothAccrued(r), u, collateralSilo[u], d))
           /\ Outcome(BothAccrued(r), u, d, x)
<1> DEFINE c == collateralSilo[u]
<1>1. balance \in Balances /\ c \in Silos
  BY DebtorsCollateral DEF LInv, IInv, TokensOK
<1>2. /\ balance[d]["Debt"][u] \in Nat
      /\ \A t \in CollateralType : balance[c][t][u] \in Nat
  BY <1>1 DEF Balances, AssetType, CollateralType
<1>3. /\ balance'[d]["Debt"][u] # balance[d]["Debt"][u]
      /\ \E t \in CollateralType : balance'[c][t][u] # balance[c][t][u]
  BY <1>2 DEF Seizes
<1>4. ~DebtsLeft /\ ~DepositsLeft
  BY <1>1, <1>3 DEF DebtsLeft, DepositsLeft
<1>5. Liquidations
  <2> HIDE DEF DebtsLeft, DepositsLeft
  <2> QED
    BY <1>1, <1>4, OneKind DEF LiquidationNext
<1>6. PICK v \in Users, e \in Silos, r \in [Silos -> Rcomps] : Liquidates(v, e, r)
  BY <1>5 DEF Liquidations, Liquidates
<1>7. PICK x : /\ ExactOK(x, collateralSilo[v], e, Position(BothAccrued(r), v, collateralSilo[v], e))
               /\ Outcome(BothAccrued(r), v, e, x)
  BY <1>6, LiquidationOutcome
<1>8. u = v /\ d = e
  BY <1>3, <1>7 DEF Outcome
<1>9. x \in [debt : Nat, protected : Nat, collateral : Nat]
  BY <1>7 DEF ExactOK
<1> QED
  BY <1>7, <1>8, <1>9

\* The amounts that a liquidation in a block with interest accrued goes by
LEMMA FreshOutcome ==
  ASSUME LInv, Fresh, NEW u \in Users, NEW d \in Silos, HasDebt(u, d),
         NEW r \in [Silos -> Rcomps], NEW x,
         ExactOK(x, collateralSilo[u], d, Position(BothAccrued(r), u, collateralSilo[u], d)),
         Outcome(BothAccrued(r), u, d, x)
  PROVE  LET l == BothAccrued(r)
         IN  /\ collateralSilo[u] \in Silos /\ MarketOK(l, balance)
             /\ x \in [debt : Nat, protected : Nat, collateral : Nat]
             /\ l \in [Silos -> Ledger] /\ ledger \in [Silos -> Ledger]
             /\ \A s \in Silos : l[s].assets = ledger[s].assets /\ l[s].supply = ledger[s].supply
             /\ ledger[d].assets["Debt"] - ledger'[d].assets["Debt"] = x.debt
<1> DEFINE l == BothAccrued(r)
<1>1. collateralSilo[u] \in Silos /\ MarketOK(l, balance)
  BY DebtorsCollateral, AccruedMarket
<1>2. x \in [debt : Nat, protected : Nat, collateral : Nat]
  BY DEF ExactOK
<1>3. /\ l \in [Silos -> Ledger] /\ ledger \in [Silos -> Ledger]
      /\ \A s \in Silos : l[s].assets = ledger[s].assets /\ l[s].supply = ledger[s].supply
  BY <1>1, FreshBooks DEF MarketOK, LInv, IInv, LedgersOK
<1>4. ledger'[d].assets["Debt"] = ledger[d].assets["Debt"] - x.debt
  BY <1>3 DEF Outcome
<1>5. ledger[d].assets["Debt"] \in Nat
  BY <1>3, LedgerFields DEF AssetType
<1>6. ledger[d].assets["Debt"] - ledger'[d].assets["Debt"] = x.debt
  BY <1>2, <1>4, <1>5
<1> QED
  BY <1>1, <1>2, <1>3, <1>6

\* No more is taken than what is seized, in worth.
LEMMA WorthBound ==
  ASSUME NEW pc \in Nat, NEW i \in Nat, NEW j \in Nat, NEW p \in Nat, NEW c \in Nat,
         NEW one \in Nat, NEW bound \in Nat, i <= c, j <= p, pc * (p + c) * one <= bound
  PROVE  pc * (i + j) * one <= bound
<1>1. i + j \in Nat /\ p + c \in Nat /\ i + j <= p + c
  OBVIOUS
<1>2. pc * (i + j) <= pc * (p + c)
  BY <1>1
<1>3. pc * (i + j) * one <= pc * (p + c) * one
  BY <1>1, <1>2
<1>4. pc * (i + j) * one \in Nat /\ pc * (p + c) * one \in Nat
  BY <1>1
<1> QED
  BY <1>3, <1>4

\* No liquidation, by repayment or by defaulting, takes collateral of more worth
\* than the debt it cancels and the fee on it, through all the roundings from
\* values to assets to shares and back (getExactLiquidationAmounts).
THEOREM CollateralForDebtAlways == LiquidationSpec => CollateralForDebt
<1> DEFINE c(u) == collateralSilo[u]
           worth(u, t) ==
             RedemptionOf(ledger[c(u)], t,
                          Liquidity(balance[c(u)][t][u], balance'[c(u)][t][u])).assets
           Fair(u, d) ==
             price[c(u)] * (worth(u, "Collateral") + worth(u, "Protected")) * Precision
               <= price[d] * (ledger[d].assets["Debt"] - ledger'[d].assets["Debt"])
                    * (Precision + LiquidationFee[c(u)])
<1>1. ASSUME LInv, LInv', Fresh, NEW u \in Users, NEW d \in Silos, HasDebt(u, d),
             NEW r \in [Silos -> Rcomps], NEW x,
             ExactOK(x, collateralSilo[u], d, Position(BothAccrued(r), u, collateralSilo[u], d)),
             Outcome(BothAccrued(r), u, d, x)
      PROVE  Fair(u, d)
  <2> DEFINE l == BothAccrued(r)
             k == c(u)
             n == SeizedShares(l, k, x)
             given(t) == Liquidity(balance[k][t][u], balance'[k][t][u])
  <2>1. /\ k \in Silos /\ MarketOK(l, balance)
        /\ x \in [debt : Nat, protected : Nat, collateral : Nat]
        /\ l \in [Silos -> Ledger] /\ ledger \in [Silos -> Ledger]
        /\ \A s \in Silos : l[s].assets = ledger[s].assets /\ l[s].supply = ledger[s].supply
        /\ ledger[d].assets["Debt"] - ledger'[d].assets["Debt"] = x.debt
    BY <1>1, FreshOutcome
  <2>2. k \in Silos /\ MarketOK(l, balance)
    BY <2>1
  <2>3. x \in [debt : Nat, protected : Nat, collateral : Nat]
    BY <2>1
  <2>4. price[k] * (x.protected + x.collateral) * Precision
          <= price[d] * x.debt * (Precision + LiquidationFee[k])
    BY <1>1 DEF ExactOK
  <2>5. /\ l \in [Silos -> Ledger] /\ ledger \in [Silos -> Ledger]
        /\ \A s \in Silos : l[s].assets = ledger[s].assets /\ l[s].supply = ledger[s].supply
    BY <2>1
  <2>6. ledger[d].assets["Debt"] - ledger'[d].assets["Debt"] = x.debt
    BY <2>1
  <2>7. ASSUME NEW t \in CollateralType
        PROVE  worth(u, t) \in Nat /\ worth(u, t) <= Seizable(x)[t]
    <3>1. /\ n \in [CollateralType -> Nat]
          /\ \A i \in Nat : i <= n[t] => /\ RedemptionOf(l[k], t, i).assets \in Nat
                                         /\ RedemptionOf(l[k], t, i).assets <= Seizable(x)[t]
      BY <2>2, <2>3, <2>5, SeizedSharesOK
    <3>2. balance[k][t][u] <= balance'[k][t][u] + n[t]
      BY <1>1 DEF Outcome
    <3>3. balance[k][t][u] \in Nat /\ balance'[k][t][u] \in Nat
      BY <1>1, <2>2 DEF LInv, IInv, TokensOK, Balances, AssetType, CollateralType
    <3>4. given(t) \in Nat /\ given(t) <= n[t]
      <4>1. n[t] \in Nat
        BY <3>1
      <4> HIDE DEF k, n
      <4> QED
        BY <3>2, <3>3, <4>1 DEF Liquidity
    <3>5. RedemptionOf(l[k], t, given(t)) = RedemptionOf(ledger[k], t, given(t))
      <4> HIDE DEF k, l, given
      <4> QED
        BY <2>2, <2>5 DEF RedemptionOf, WithdrawalOf
    <3> HIDE DEF n, l, given
    <3>6. RedemptionOf(ledger[k], t, given(t)).assets \in Nat
          /\ RedemptionOf(ledger[k], t, given(t)).assets <= Seizable(x)[t]
      BY <3>1, <3>4, <3>5
    <3> QED
      BY <3>6 DEF given
  <2>8. /\ worth(u, "Collateral") \in Nat /\ worth(u, "Collateral") <= x.collateral
        /\ worth(u, "Protected") \in Nat /\ worth(u, "Protected") <= x.protected
    <3>1. "Collateral" \in CollateralType /\ "Protected" \in CollateralType
      BY DEF CollateralType
    <3>2. Seizable(x)["Collateral"] = x.collateral /\ Seizable(x)["Protected"] = x.protected
      BY <3>1 DEF Seizable
    <3> HIDE DEF worth
    <3> QED
      BY <2>7, <3>1, <3>2
  <2>9. /\ price[k] \in Nat /\ price[d] \in Nat /\ Precision \in Nat
        /\ LiquidationFee[k] \in Nat /\ x.debt \in Nat /\ x.protected \in Nat /\ x.collateral \in Nat
    BY <1>1, <2>2, <2>3, MathAssumption, LiquidationAssumption DEF LInv, IInv, OthersOK
  <2>10. price[d] * x.debt * (Precision + LiquidationFee[k]) \in Nat
    BY <2>9
  <2> HIDE DEF worth, l, n, given
  <2>11. price[k] * (worth(u, "Collateral") + worth(u, "Protected")) * Precision
           <= price[d] * x.debt * (Precision + LiquidationFee[k])
    <3> HIDE DEF k
    <3> QED
      BY <2>4, <2>8, <2>9, <2>10, WorthBound
  <2> QED
    BY <2>6, <2>11
<1>2. ASSUME LInv, LInv', [LiquidationNext]_vars, Fresh, NEW u \in Users, NEW d \in Silos,
             HasDebt(u, d), Seizes(u, c(u), d)
      PROVE  Fair(u, d)
  <2> HIDE DEF Fair
  <2> QED
    BY <1>1, <1>2, SeizureOutcome
<1>3. LInv /\ LInv' /\ [LiquidationNext]_vars =>
        [\A u \in Users, d \in Silos : LET k == collateralSilo[u] IN
           Fresh /\ HasDebt(u, d) /\ Seizes(u, k, d) =>
             LET w(t) ==
                   RedemptionOf(ledger[k], t, Liquidity(balance[k][t][u], balance'[k][t][u])).assets
             IN  price[k] * (w("Collateral") + w("Protected")) * Precision
                   <= price[d] * (ledger[d].assets["Debt"] - ledger'[d].assets["Debt"])
                        * (Precision + LiquidationFee[k])]_vars
  BY <1>2
<1> QED
  BY <1>3, LiquidationInvariance, PTL DEF LiquidationSpec, CollateralForDebt

-----------------------------------------------------------------------------
(* What a liquidation leaves to the borrower.                              *)

\* The debt falls by what is repaid, but for less than a share of it.
LEMMA DebtRepaid ==
  ASSUME LInv, LInv', Fresh, NEW u \in Users, NEW d \in Silos, HasDebt(u, d),
         NEW r \in [Silos -> Rcomps], NEW x,
         ExactOK(x, collateralSilo[u], d, Position(BothAccrued(r), u, collateralSilo[u], d)),
         Outcome(BothAccrued(r), u, d, x)
  PROVE  DebtValue(u, d)' + price[d] * x.debt <= DebtValue(u, d) + price[d] * DebtShare(d)
<1> DEFINE l == BothAccrued(r)
           D == ledger[d].assets["Debt"]
           S == ledger[d].supply["Debt"]
           n == balance[d]["Debt"][u]
           k == BurnedFor(l, d, x)
           before == ConvertToAssets(n, D, S, Ceil, "Debt")
           after == ConvertToAssets(n - k, D - x.debt, S - k, Ceil, "Debt")
           share == ConvertToAssets(1, D, S, Ceil, "Debt")
<1>1. /\ collateralSilo[u] \in Silos /\ MarketOK(l, balance)
      /\ x \in [debt : Nat, protected : Nat, collateral : Nat]
      /\ ledger \in [Silos -> Ledger]
      /\ l[d].assets = ledger[d].assets /\ l[d].supply = ledger[d].supply
  BY FreshOutcome
<1>2. "Debt" \in AssetType
  BY DEF AssetType
<1>3. D \in Nat /\ S \in Nat /\ DebtFair(D, S)
  BY <1>1, <1>2, LedgerFields DEF LInv, DebtSharesCovered, DebtFair
<1>4. n \in Nat /\ n # 0 /\ n <= S
  <2>1. balance[d]["Debt"][u] \in Nat /\ balance[d]["Debt"][u] <= l[d].supply["Debt"]
    BY <1>1, <1>2, MarketHolding
  <2> QED
    BY <1>1, <2>1 DEF HasDebt
<1>5. x.debt \in Nat /\ x.debt <= D
  <2>1. /\ x.debt <= Position(l, u, collateralSilo[u], d)["Debt"]
        /\ Position(l, u, collateralSilo[u], d)["Debt"] \in Nat
        /\ Position(l, u, collateralSilo[u], d)["Debt"] <= l[d].assets["Debt"]
    BY <1>1, PositionNat DEF ExactOK
  <2> HIDE DEF l
  <2> QED
    BY <1>1, <1>3, <2>1
<1>6. k = MulDiv(x.debt, S, D, Floor)
  BY <1>1 DEF BurnedFor
<1>7. /\ k <= n /\ balance'[d]["Debt"][u] = n - k
      /\ ledger'[d].supply["Debt"] = S - k
      /\ ledger'[d].assets["Debt"] = D - x.debt
      /\ price' = price
  BY <1>1 DEF Outcome
<1>8. DebtFair(D - x.debt, S - k)
  <2>1. DebtFair(ledger'[d].assets["Debt"], ledger'[d].supply["Debt"])
    BY DEF LInv, DebtSharesCovered, DebtFair
  <2> HIDE DEF k, D, S
  <2> QED
    BY <1>7, <2>1
<1>9. k \in Nat
  BY <1>3, <1>5, <1>6, MulDivNat
<1> HIDE DEF k, D, S, n
<1>10. after + x.debt <= before + share
  BY <1>3, <1>4, <1>5, <1>6, <1>7, <1>8, <1>9, DebtLeft
<1>11. /\ DebtValue(u, d) = price[d] * before
       /\ price[d] * DebtShare(d) = price[d] * share
  BY DEF DebtValue, AssetsOf, DebtShare, D, S, n
<1>12. DebtValue(u, d)' = price[d] * after
  BY <1>7 DEF DebtValue, AssetsOf
<1>13. before \in Nat /\ share \in Nat /\ after \in Nat
  <2>1. ASSUME NEW b \in Nat, NEW A \in Nat, NEW T \in Nat
        PROVE  ConvertToAssets(b, A, T, Ceil, "Debt") \in Nat
    <3>1. CommonShares(T, "Debt") \in Nat /\ CommonAssets(A, T, "Debt") \in Nat
      BY <2>1, MathAssumption DEF CommonShares, CommonAssets
    <3> QED
      BY <2>1, <3>1, MulDivNat DEF ConvertToAssets
  <2>2. n - k \in Nat /\ D - x.debt \in Nat /\ S - k \in Nat
    BY <1>3, <1>4, <1>5, <1>7, <1>9
  <2> QED
    BY <1>3, <1>4, <2>1, <2>2
<1>14. price[d] \in Nat
  BY DEF LInv, IInv, OthersOK
<1> HIDE DEF before, share, after
<1>15. price[d] * (after + x.debt) <= price[d] * (before + share)
  BY <1>5, <1>10, <1>13, <1>14
<1>16. /\ price[d] * (after + x.debt) = price[d] * after + price[d] * x.debt
       /\ price[d] * (before + share) = price[d] * before + price[d] * share
  BY <1>5, <1>13, <1>14
<1> QED
  BY <1>11, <1>12, <1>15, <1>16

\* The collateral of the borrower falls by no more than what is seized.
LEMMA CollateralTaken ==
  ASSUME LInv, LInv', Fresh, NEW u \in Users, NEW d \in Silos, HasDebt(u, d),
         NEW r \in [Silos -> Rcomps], NEW x,
         ExactOK(x, collateralSilo[u], d, Position(BothAccrued(r), u, collateralSilo[u], d)),
         Outcome(BothAccrued(r), u, d, x), NEW c, c = collateralSilo[u]
  PROVE  CollateralValue(u, c) <= CollateralValue(u, c)' + price[c] * (x.protected + x.collateral)
<1> DEFINE l == BothAccrued(r)
<1>1. /\ c \in Silos /\ MarketOK(l, balance)
      /\ x \in [debt : Nat, protected : Nat, collateral : Nat]
      /\ ledger \in [Silos -> Ledger]
      /\ l[c].assets = ledger[c].assets /\ l[c].supply = ledger[c].supply
  BY FreshOutcome
<1>2. /\ MarketOK(ledger', balance') /\ price' = price
      /\ \A t \in CollateralType : /\ PriceKept(l[c], ledger'[c], t)
                                   /\ balance[c][t][u] <= balance'[c][t][u] + SeizedShares(l, c, x)[t]
  BY DEF Outcome
<1> HIDE DEF l
<1>3. ASSUME NEW t \in CollateralType
      PROVE  /\ AssetsOf(u, c, t, Floor) \in Nat /\ AssetsOf(u, c, t, Floor)' \in Nat
             /\ AssetsOf(u, c, t, Floor) <= AssetsOf(u, c, t, Floor)' + Seizable(x)[t]
  <2> DEFINE A == ledger[c].assets[t]
             S == ledger[c].supply[t]
             B == ledger'[c].assets[t]
             T == ledger'[c].supply[t]
             b == balance[c][t][u]
             e == balance'[c][t][u]
             i == Seizable(x)[t]
             n == SeizedShares(l, c, x)[t]
             j == Liquidity(b, n)
  <2>1. t \in AssetType /\ i \in Nat
    BY <1>1 DEF CollateralType, AssetType, Seizable
  <2>2. A \in Nat /\ S \in Nat /\ B \in Nat /\ T \in Nat
    BY <1>1, <1>2, <2>1, LedgerFields DEF MarketOK
  <2>3. b \in Nat
    BY <1>1, <2>1, MarketHolding
  <2>4. e \in Nat /\ e <= T
    BY <1>1, <1>2, <2>1, MarketHolding
  <2>5. n = ConvertToShares(i, A, S, Floor, t)
    BY <1>1 DEF SeizedShares, Seizable
  <2>6. NoCheaper(A, S, B, T, t) /\ b <= e + n
    BY <1>1, <1>2 DEF PriceKept
  <2>7. /\ AssetsOf(u, c, t, Floor) = ConvertToAssets(b, A, S, Floor, t)
        /\ AssetsOf(u, c, t, Floor)' = ConvertToAssets(e, B, T, Floor, t)
    BY DEF AssetsOf
  <2> HIDE DEF A, S, B, T, b, e, i, n
  <2>8. /\ n \in Nat
        /\ ConvertToAssets(b, A, S, Floor, t) <= ConvertToAssets(j, A, S, Floor, t) + i
    BY <2>1, <2>2, <2>3, <2>5, ClaimLeft
  <2>9. j \in Nat /\ j <= e
    BY <2>3, <2>4, <2>6, <2>8 DEF Liquidity
  <2> HIDE DEF j
  <2>10. ConvertToAssets(j, A, S, Floor, t) <= ConvertToAssets(e, B, T, Floor, t)
    BY <2>2, <2>4, <2>6, <2>9, ClaimGrows
  <2>11. /\ ConvertToAssets(b, A, S, Floor, t) \in Nat
         /\ ConvertToAssets(j, A, S, Floor, t) \in Nat
         /\ ConvertToAssets(e, B, T, Floor, t) \in Nat
    BY <2>2, <2>3, <2>4, <2>9, ClaimBound
  <2>12. AssetsOf(u, c, t, Floor) <= AssetsOf(u, c, t, Floor)' + i
    BY <2>1, <2>7, <2>8, <2>10, <2>11
  <2> QED
    BY <2>7, <2>11, <2>12 DEF i
<1> DEFINE p == AssetsOf(u, c, "Protected", Floor)
           q == AssetsOf(u, c, "Collateral", Floor)
           v == AssetsOf(u, c, "Protected", Floor)'
           w == AssetsOf(u, c, "Collateral", Floor)'
<1>4. /\ p \in Nat /\ v \in Nat /\ p <= v + x.protected
      /\ q \in Nat /\ w \in Nat /\ q <= w + x.collateral
  <2>1. "Collateral" \in CollateralType /\ "Protected" \in CollateralType
    BY DEF CollateralType
  <2>2. Seizable(x)["Collateral"] = x.collateral /\ Seizable(x)["Protected"] = x.protected
    BY <2>1 DEF Seizable
  <2> QED
    BY <1>3, <2>1, <2>2
<1>5. /\ CollateralValue(u, c) = price[c] * (p + q)
      /\ CollateralValue(u, c)' = price[c] * (v + w)
  BY <1>2 DEF CollateralValue
<1>6. price[c] \in Nat /\ x.protected \in Nat /\ x.collateral \in Nat
  BY <1>1 DEF LInv, IInv, OthersOK
<1> HIDE DEF p, q, v, w
<1>7. p + q <= v + w + (x.protected + x.collateral)
  BY <1>4, <1>6
<1>8. price[c] * (p + q) <= price[c] * (v + w + (x.protected + x.collateral))
  BY <1>4, <1>6, <1>7
<1>9. price[c] * (v + w + (x.protected + x.collateral))
        = price[c] * (v + w) + price[c] * (x.protected + x.collateral)
  BY <1>4, <1>6
<1> QED
  BY <1>5, <1>8, <1>9

\* What is taken weighs no more than what is repaid, in the values of the position.
LEMMA TakenWeighed ==
  ASSUME LInv, Fresh, NEW u \in Users, NEW d \in Silos, HasDebt(u, d),
         NEW r \in [Silos -> Rcomps], NEW x,
         ExactOK(x, collateralSilo[u], d, Position(BothAccrued(r), u, collateralSilo[u], d)),
         Outcome(BothAccrued(r), u, d, x), NEW c, c = collateralSilo[u]
  PROVE  Weighed(DebtValue(u, d), CollateralValue(u, c), c,
                 price[d] * x.debt, price[c] * (x.protected + x.collateral))
<1> DEFINE l == BothAccrued(r)
           p == Position(l, u, c, d)
<1>1. /\ c \in Silos
      /\ l[c].assets = ledger[c].assets /\ l[c].supply = ledger[c].supply
      /\ l[d].assets = ledger[d].assets /\ l[d].supply = ledger[d].supply
  BY FreshOutcome
<1>2. Weighed(price[d] * p["Debt"], price[c] * SumOfCollateral(p), c,
              price[d] * x.debt, price[c] * (x.protected + x.collateral))
  BY DEF ExactOK
<1>3. /\ p["Debt"] = AssetsOf(u, d, "Debt", Ceil)
      /\ p["Protected"] = AssetsOf(u, c, "Protected", Floor)
      /\ p["Collateral"] = AssetsOf(u, c, "Collateral", Floor)
  <2> HIDE DEF l
  <2> QED
    BY <1>1 DEF Position, AssetsOf, AssetType
<1> HIDE DEF p
<1>4. price[d] * p["Debt"] = DebtValue(u, d) /\ price[c] * SumOfCollateral(p) = CollateralValue(u, c)
  BY <1>3 DEF DebtValue, CollateralValue, SumOfCollateral
<1> QED
  BY <1>2, <1>4

\* Values of a position before and after, weighed
LEMMA LeftWeighed ==
  ASSUME NEW dv \in Nat, NEW cv \in Nat, NEW after \in Nat, NEW taken \in Nat, NEW given \in Nat,
         cv <= after + taken, dv * taken <= given * cv
  PROVE  dv * cv <= dv * after + given * cv
<1>1. dv * cv <= dv * (after + taken) /\ dv * (after + taken) = dv * after + dv * taken
  OBVIOUS
<1>2. dv * cv \in Nat /\ dv * after \in Nat /\ dv * taken \in Nat /\ given * cv \in Nat
  OBVIOUS
<1> QED
  BY <1>1, <1>2

\* No liquidation of whatever part of a debt harms a borrower whose LTV is below
\* 100%: all that is repaid is taken off his debt, but for less than a share of
\* it, and what is taken of the collateral weighs no more in the LTV than the
\* repayment does, but for LostToFee (getExactLiquidationAmounts, repay).
THEOREM LiquidatedNotWorseAlways == LiquidationSpec => LiquidatedNotWorse
<1> DEFINE Repaid2(u, d) == price[d] * (ledger[d].assets["Debt"] - ledger'[d].assets["Debt"])
           Eased(u, d) ==
             DebtValue(u, d)' + Repaid2(u, d) <= DebtValue(u, d) + price[d] * DebtShare(d)
           Below(u, d, c) ==
             MulDiv(DebtValue(u, d), Precision, CollateralValue(u, c), Ceil) \in 1 .. (Precision - 1)
           Kept(u, d, c) ==
             DebtValue(u, d) * CollateralValue(u, c)
               <= DebtValue(u, d) * CollateralValue(u, c)'
                    + (Repaid2(u, d) + LostToFee(c, Repaid2(u, d))) * CollateralValue(u, c)
<1>1. ASSUME LInv, LInv', [LiquidationNext]_vars, Fresh, NEW u \in Users, NEW d \in Silos,
             HasDebt(u, d), NEW c, c = collateralSilo[u], Seizes(u, c, d), Below(u, d, c)
      PROVE  Eased(u, d) /\ Kept(u, d, c) /\ collateralSilo'[u] = c
  <2>1. PICK r \in [Silos -> Rcomps],
             x \in [debt : Nat, protected : Nat, collateral : Nat] :
          /\ ExactOK(x, c, d, Position(BothAccrued(r), u, c, d))
          /\ Outcome(BothAccrued(r), u, d, x)
    BY <1>1, SeizureOutcome
  <2>2. /\ c \in Silos /\ x \in [debt : Nat, protected : Nat, collateral : Nat]
        /\ Repaid2(u, d) = price[d] * x.debt
    BY <1>1, <2>1, FreshOutcome
  <2> DEFINE repaid == price[d] * x.debt
             taken == price[c] * (x.protected + x.collateral)
             given == repaid + LostToFee(c, repaid)
  <2>3. DebtValue(u, d)' + repaid <= DebtValue(u, d) + price[d] * DebtShare(d)
    BY <1>1, <2>1, DebtRepaid
  <2>4. CollateralValue(u, c) <= CollateralValue(u, c)' + taken
    BY <1>1, <2>1, CollateralTaken
  <2>5. DebtValue(u, d) * taken <= given * CollateralValue(u, c)
    BY <1>1, <2>1, TakenWeighed DEF Weighed
  <2>6. price[d] \in Nat /\ price[c] \in Nat
    BY <1>1, <2>2 DEF LInv, IInv, OthersOK
  <2>7. repaid \in Nat /\ taken \in Nat
    BY <2>2, <2>6
  <2>8. given \in Nat
    <3>1. LiquidationTargetLtv[c] \in Nat
      BY <2>2, LiquidationAssumption
    <3> HIDE DEF repaid
    <3>2. LostToFee(c, repaid) \in Nat
      BY <2>7, <3>1, MulDivNat DEF LostToFee
    <3> QED
      BY <2>7, <3>2
  <2>9. /\ DebtValue(u, d) \in Nat /\ CollateralValue(u, c) \in Nat
        /\ CollateralValue(u, c)' \in Nat
    <3>1. ValuesOK /\ ValuesOK'
      BY <1>1, ValueNat, PTL DEF LInv
    <3> QED
      BY <2>2, <3>1 DEF ValuesOK
  <2>10. collateralSilo'[u] = c
    BY <1>1, <2>1 DEF Outcome
  <2> HIDE DEF given, taken
  <2>11. DebtValue(u, d) * CollateralValue(u, c)
           <= DebtValue(u, d) * CollateralValue(u, c)' + given * CollateralValue(u, c)
    BY <2>4, <2>5, <2>7, <2>8, <2>9, LeftWeighed
  <2> QED
    BY <2>2, <2>3, <2>10, <2>11 DEF given
<1>2. ASSUME LInv, LInv', [LiquidationNext]_vars, NEW u \in Users, NEW d \in Silos
      PROVE  LET c == collateralSilo[u]
                 repaid == price[d] * (ledger[d].assets["Debt"] - ledger'[d].assets["Debt"])
             IN  /\ Fresh /\ HasDebt(u, d) /\ Seizes(u, c, d)
                 /\ MulDiv(DebtValue(u, d), Precision, CollateralValue(u, c), Ceil) \in 1 .. (Precision - 1)
                 => /\ DebtValue(u, d)' + repaid <= DebtValue(u, d) + price[d] * DebtShare(d)
                    /\ DebtValue(u, d) * CollateralValue(u, c)
                         <= DebtValue(u, d) * CollateralValue(u, c)'
                              + (repaid + LostToFee(c, repaid)) * CollateralValue(u, c)
  BY <1>1, <1>2
<1>3. LInv /\ LInv' /\ [LiquidationNext]_vars =>
        [\A u \in Users, d \in Silos :
           LET c == collateralSilo[u]
               repaid == price[d] * (ledger[d].assets["Debt"] - ledger'[d].assets["Debt"])
           IN  /\ Fresh /\ HasDebt(u, d) /\ Seizes(u, c, d)
               /\ MulDiv(DebtValue(u, d), Precision, CollateralValue(u, c), Ceil) \in 1 .. (Precision - 1)
               => /\ DebtValue(u, d)' + repaid <= DebtValue(u, d) + price[d] * DebtShare(d)
                  /\ DebtValue(u, d) * CollateralValue(u, c)
                       <= DebtValue(u, d) * CollateralValue(u, c)'
                            + (repaid + LostToFee(c, repaid)) * CollateralValue(u, c)]_vars
  BY <1>2
<1> QED
  BY <1>3, LiquidationInvariance, PTL DEF LiquidationSpec, LiquidatedNotWorse

-----------------------------------------------------------------------------
(* Protected shares are worth no more than a unit each.                    *)

\* With its virtual shares counted, protected deposits have more shares than assets:
\* they earn nothing but what roundings leave.
Thin(l) == l.assets["Protected"] < l.supply["Protected"] + Offset

Thins == \A s \in Silos : Thin(ledger[s])

\* A deposit mints a share for each asset at least, if a share is worth no more,
LEMMA ThinDeposit ==
  ASSUME NEW P \in Nat \ {0}, NEW Q \in Nat \ {0}, P <= Q,
         NEW a \in Nat, NEW k \in Nat, PaidIn(a, k, P, Q)
  PROVE  a <= k
<1>1. ASSUME k = MulDiv(a, Q, P, Floor), k < a PROVE FALSE
  <2>1. a * Q < P * k + P
    BY <1>1, FloorBound
  <2>2. P * (k + 1) <= P * a /\ P * (k + 1) = P * k + P
    BY <1>1
  <2>3. P * a <= a * Q
    OBVIOUS
  <2>4. a * Q \in Nat /\ P * k + P \in Nat /\ P * a \in Nat
    OBVIOUS
  <2> QED
    BY <2>1, <2>2, <2>3, <2>4
<1>2. ASSUME a = MulDiv(k, P, Q, Ceil), k < a PROVE FALSE
  <2>1. Q * a < k * P + Q
    BY <1>2, CeilBound
  <2>2. Q * (k + 1) <= Q * a /\ Q * (k + 1) = k * Q + Q
    BY <1>2
  <2>3. k * P <= k * Q
    OBVIOUS
  <2>4. Q * a \in Nat /\ k * P \in Nat /\ k * Q \in Nat
    OBVIOUS
  <2> QED
    BY <2>1, <2>2, <2>3, <2>4
<1> QED
  BY <1>1, <1>2 DEF PaidIn

\* ... and a withdrawal leaves no fewer shares than assets.
LEMMA ThinWithdraw ==
  ASSUME NEW P \in Nat \ {0}, NEW Q \in Nat \ {0}, P <= Q,
         NEW a \in Nat, NEW k \in Nat, a < P, k < Q, PaidOut(a, k, P, Q)
  PROVE  P + k <= Q + a
<1> SUFFICES ASSUME P + k > Q + a PROVE FALSE
  OBVIOUS
<1> DEFINE g == Q - P
           i == P - a
           j == Q - k
<1>1. /\ g \in Nat /\ i \in Nat \ {0} /\ j \in Nat \ {0} /\ i >= j + 1
      /\ P = a + i /\ Q = a + i + g /\ Q = k + j
  OBVIOUS
<1>2. CASE k = MulDiv(a, Q, P, Ceil)
  <2>1. P * k < a * Q + P
    BY <1>2, CeilBound
  <2>2. k = a + i + g - j /\ k >= a + g + 1
    BY <1>1
  <2>3. P * (a + g + 1) <= P * k
    BY <1>1, <2>2
  <2>4. P * (a + g + 1) = P * a + P * g + P
    BY <1>1
  <2>5. a * Q = P * a + a * g
    BY <1>1
  <2>6. a * g <= P * g
    BY <1>1
  <2>7. P * k \in Nat /\ a * Q \in Nat /\ P * a \in Nat /\ P * g \in Nat /\ a * g \in Nat
    BY <1>1
  <2> QED
    BY <2>1, <2>3, <2>4, <2>5, <2>6, <2>7
<1>3. CASE a = MulDiv(k, P, Q, Floor)
  <2>1. k * P < Q * a + Q
    BY <1>3, FloorBound
  <2>2. a + 1 <= P - j
    BY <1>1
  <2>3. Q * (a + 1) <= Q * (P - j) /\ Q * (a + 1) = Q * a + Q
    BY <1>1, <2>2
  <2>4. Q * (P - j) = Q * P - Q * j
    BY <1>1
  <2>5. k * P = Q * P - j * P
    BY <1>1
  <2>6. j * P <= Q * j
    BY <1>1
  <2>7. /\ k * P \in Nat /\ Q * a \in Nat /\ Q * (P - j) \in Int /\ Q * P \in Nat
        /\ Q * j \in Nat /\ j * P \in Nat
    BY <1>1
  <2> QED
    BY <2>1, <2>3, <2>4, <2>5, <2>6, <2>7
<1> QED
  BY <1>2, <1>3 DEF PaidOut

\* The totals by which protected deposits are converted
LEMMA ThinRatio ==
  ASSUME NEW l \in Ledger, Thin(l)
  PROVE  LET A == l.assets["Protected"]
             S == l.supply["Protected"]
         IN  /\ A \in Nat /\ S \in Nat
             /\ CommonAssets(A, S, "Protected") \in Nat \ {0}
             /\ CommonShares(S, "Protected") = S + Offset
             /\ CommonShares(S, "Protected") \in Nat \ {0}
             /\ S # 0 => CommonAssets(A, S, "Protected") = A + 1
             /\ CommonAssets(A, S, "Protected") <= CommonShares(S, "Protected")
<1> DEFINE A == l.assets["Protected"]
           S == l.supply["Protected"]
<1>1. A \in Nat /\ S \in Nat /\ "Protected" \in CollateralType
  BY LedgerFields DEF AssetType, CollateralType
<1>2. A < S + Offset /\ Offset \in Nat \ {0}
  BY MathAssumption DEF Thin
<1> HIDE DEF A, S
<1>3. /\ CommonShares(S, "Protected") = S + Offset
      /\ CommonAssets(A, S, "Protected") = IF S = 0 THEN 1 ELSE A + 1
  BY <1>1, CollateralRatio
<1> QED
  BY <1>1, <1>2, <1>3 DEF A, S

\* What a step on the ledger of one Silo leaves of its protected deposits
SameProtected(l, m) ==
  /\ m.assets["Protected"] = l.assets["Protected"]
  /\ m.supply["Protected"] = l.supply["Protected"]

\* The same protected deposits are as thin as they were.
LEMMA SameProtectedThin ==
  ASSUME NEW l, NEW m, SameProtected(l, m), Thin(l)
  PROVE  Thin(m)
BY DEF SameProtected, Thin

\* Protected deposits earn no interest (accrueInterestForAsset).
LEMMA AccruedThin ==
  ASSUME NEW l \in Ledger, NEW rcomp
  PROVE  SameProtected(l, AccrueInterest(l, rcomp))
<1>1. SameProtected(l, [l EXCEPT !.clock = "now"])
  BY DEF SameProtected, Ledger
<1>2. SameProtected(l, WithInterest(l, rcomp))
  BY DEF SameProtected, WithInterest, Ledger, AssetType
<1> QED
  BY <1>1, <1>2 DEF AccrueInterest

\* SiloERC4626Lib.deposit
LEMMA DepositedThin ==
  ASSUME NEW l \in Ledger, Thin(l), NEW type \in CollateralType, NEW in \in Amounts
  PROVE  LET x == DepositOf(l, type, in)
         IN  Thin(Deposited(l, type, x)) /\ Thin(Received(Deposited(l, type, x), x.assets))
<1> DEFINE A == l.assets["Protected"]
           S == l.supply["Protected"]
           P == CommonAssets(A, S, "Protected")
           Q == CommonShares(S, "Protected")
           x == DepositOf(l, type, in)
           d == Deposited(l, type, x)
<1>1. A \in Nat /\ S \in Nat /\ P \in Nat \ {0} /\ Q \in Nat \ {0} /\ P <= Q
  BY ThinRatio
<1>2. Thin(d)
  <2>1. CASE type = "Collateral"
    <3> HIDE DEF x
    <3>1. SameProtected(l, d)
      BY <2>1 DEF SameProtected, Deposited, Ledger, AssetType
    <3> QED
      BY <3>1, SameProtectedThin
  <2>2. CASE type = "Protected"
    <3>1. x \in Amounts /\ PaidIn(x.assets, x.shares, P, Q)
      BY <1>1, <2>2, ConvertedNat, CollateralConversion DEF DepositOf
    <3> HIDE DEF x
    <3>2. x.assets \in Nat /\ x.shares \in Nat
      BY <3>1 DEF Amounts
    <3>3. x.assets <= x.shares
      <4> HIDE DEF P, Q
      <4> QED
        BY <1>1, <3>1, <3>2, ThinDeposit
    <3>4. d.assets["Protected"] = A + x.assets /\ d.supply["Protected"] = S + x.shares
      BY <2>2 DEF Deposited, Ledger, AssetType
    <3> HIDE DEF d
    <3> QED
      BY <1>1, <3>2, <3>3, <3>4, MathAssumption DEF Thin
  <2> QED
    BY <2>1, <2>2 DEF CollateralType
<1>3. SameProtected(d, Received(d, x.assets))
  <2> HIDE DEF x
  <2> QED
    BY DEF SameProtected, Received, Deposited, Ledger
<1> HIDE DEF d, x
<1>4. Thin(Received(d, x.assets))
  BY <1>2, <1>3, SameProtectedThin
<1> QED
  BY <1>2, <1>4 DEF d, x

\* SiloERC4626Lib.withdraw
LEMMA WithdrawnThin ==
  ASSUME NEW l \in Ledger, Thin(l), NEW type \in CollateralType, NEW in \in Amounts,
         CanWithdraw(l, type, WithdrawalOf(l, type, in)),
         WithdrawalOf(l, type, in).shares <= l.supply[type]
  PROVE  LET x == WithdrawalOf(l, type, in)
         IN  Thin(Withdrawn(l, type, x)) /\ Thin(Paid(Withdrawn(l, type, x), x.assets))
<1> DEFINE A == l.assets["Protected"]
           S == l.supply["Protected"]
           P == CommonAssets(A, S, "Protected")
           Q == CommonShares(S, "Protected")
           x == WithdrawalOf(l, type, in)
           d == Withdrawn(l, type, x)
<1>1. /\ A \in Nat /\ S \in Nat /\ P \in Nat \ {0} /\ Q \in Nat \ {0} /\ P <= Q
      /\ Q = S + Offset /\ (S # 0 => P = A + 1)
  BY ThinRatio
<1>2. Thin(d)
  <2>1. CASE type = "Collateral"
    <3> HIDE DEF x
    <3>1. SameProtected(l, d)
      BY <2>1 DEF SameProtected, Withdrawn, Ledger, AssetType
    <3> QED
      BY <3>1, SameProtectedThin
  <2>2. CASE type = "Protected"
    <3>1. x \in Amounts /\ PaidOut(x.assets, x.shares, P, Q)
      BY <1>1, <2>2, ConvertedNat, CollateralConversion DEF WithdrawalOf
    <3>2. S # 0 /\ x.assets <= A /\ x.shares <= S
      BY <2>2 DEF CanWithdraw
    <3> HIDE DEF x
    <3>3. x.assets \in Nat /\ x.shares \in Nat
      BY <3>1 DEF Amounts
    <3>4. x.assets < P /\ x.shares < Q
      <4> HIDE DEF P, Q, A, S
      <4> QED
        BY <1>1, <3>2, <3>3, MathAssumption
    <3>5. P + x.shares <= Q + x.assets
      <4> HIDE DEF P, Q
      <4> QED
        BY <1>1, <3>1, <3>3, <3>4, ThinWithdraw
    <3>6. d.assets["Protected"] = A - x.assets /\ d.supply["Protected"] = S - x.shares
      BY <2>2 DEF Withdrawn, Ledger, AssetType
    <3> HIDE DEF d, P, Q, A, S
    <3> QED
      BY <1>1, <3>2, <3>3, <3>5, <3>6, MathAssumption DEF Thin
  <2> QED
    BY <2>1, <2>2 DEF CollateralType
<1>3. SameProtected(d, Paid(d, x.assets))
  <2> HIDE DEF x
  <2> QED
    BY DEF SameProtected, Paid, Withdrawn, Ledger
<1> HIDE DEF d, x
<1>4. Thin(Paid(d, x.assets))
  BY <1>2, <1>3, SameProtectedThin
<1> QED
  BY <1>2, <1>4 DEF d, x

\* transitionCollateral: a withdrawal and a deposit
LEMMA TransitionedThin ==
  ASSUME NEW l \in Ledger, Thin(l), NEW from \in CollateralType, NEW to \in CollateralType,
         from # to, NEW n \in Nat, n <= l.supply[from],
         CanWithdraw(l, from, WithdrawalOf(l, from, [assets |-> 0, shares |-> n]))
  PROVE  LET out == WithdrawalOf(l, from, [assets |-> 0, shares |-> n])
             mid == Withdrawn(l, from, out)
             in  == DepositOf(mid, to, [assets |-> out.assets, shares |-> 0])
         IN  Thin(Deposited(mid, to, in))
<1> DEFINE all == [assets |-> 0, shares |-> n]
           out == WithdrawalOf(l, from, all)
           mid == Withdrawn(l, from, out)
           moved == [assets |-> out.assets, shares |-> 0]
           in  == DepositOf(mid, to, moved)
           m   == Deposited(mid, to, in)
<1>1. all \in Amounts /\ out \in Amounts /\ out.shares = n
  BY RedemptionAmounts DEF RedemptionOf, Amounts
<1>2. moved \in Amounts
  BY <1>1 DEF Amounts
<1>3. CASE from = "Protected"
  <2>1. Thin(mid)
    BY <1>1, WithdrawnThin
  <2>2. to = "Collateral"
    BY <1>3 DEF CollateralType
  <2> HIDE DEF out, in
  <2>3. SameProtected(mid, m)
    BY <2>2 DEF SameProtected, Deposited, Withdrawn, Ledger, AssetType
  <2> HIDE DEF mid, m
  <2>4. Thin(m)
    BY <2>1, <2>3, SameProtectedThin
  <2> QED
    BY <2>4 DEF m, in, mid, out
<1>4. CASE from = "Collateral"
  <2>1. to = "Protected"
    BY <1>4 DEF CollateralType
  <2> HIDE DEF out
  <2>2. mid.assets["Protected"] = l.assets["Protected"] /\ mid.supply["Protected"] = l.supply["Protected"]
    BY <1>4 DEF Withdrawn, Ledger, AssetType
  <2>3. in = DepositOf(l, to, moved)
    BY <2>1, <2>2 DEF DepositOf
  <2> HIDE DEF in, moved
  <2>4. Thin(Deposited(l, to, in))
    BY <1>2, <2>3, DepositedThin
  <2>5. SameProtected(Deposited(l, to, in), m)
    BY <1>4, <2>1 DEF SameProtected, Deposited, Withdrawn, Ledger, AssetType
  <2> HIDE DEF mid, m
  <2>6. Thin(m)
    BY <2>4, <2>5, SameProtectedThin
  <2> QED
    BY <2>6 DEF m, in, moved, mid, out
<1> QED
  BY <1>3, <1>4 DEF CollateralType

\* Accrued or not, the ledgers of the market are thin.
LEMMA MarketThin ==
  ASSUME IInv, Thins, NEW rcomp \in [Silos -> Rcomps]
  PROVE  /\ ledger \in [Silos -> Ledger] /\ \A t \in Silos : Thin(ledger[t])
         /\ BothAccrued(rcomp) \in [Silos -> Ledger]
         /\ \A t \in Silos : /\ Thin(BothAccrued(rcomp)[t])
                             /\ BothAccrued(rcomp)[t].supply = ledger[t].supply
<1>1. ledger \in [Silos -> Ledger] /\ \A t \in Silos : Thin(ledger[t])
  BY DEF IInv, LedgersOK, Thins
<1>2. /\ BothAccrued(rcomp) \in [Silos -> Ledger]
      /\ \A t \in Silos : BothAccrued(rcomp)[t].supply = ledger[t].supply
  <2>1. rcomp \in [Silos -> Nat]
    BY MarketAssumption
  <2> QED
    BY <2>1, BothAccruedOK DEF IInv
<1>3. ASSUME NEW t \in Silos PROVE Thin(BothAccrued(rcomp)[t])
  <2>1. SameProtected(ledger[t], BothAccrued(rcomp)[t])
    BY <1>1, AccruedThin DEF BothAccrued
  <2> QED
    BY <1>1, <2>1, SameProtectedThin
<1> QED
  BY <1>1, <1>2, <1>3

\* A step that writes one ledger.
LEMMA OneLedgerThin ==
  ASSUME NEW l, l \in [Silos -> Ledger], \A t \in Silos : Thin(l[t]),
         NEW s \in Silos, NEW m, Thin(m), ledger' = [l EXCEPT ![s] = m]
  PROVE  Thins'
<1>1. \A t \in Silos : Thin(ledger'[t])
  OBVIOUS
<1> QED
  BY <1>1 DEF Thins, Thin

\* deposit and mint
LEMMA DepositThin ==
  ASSUME IInv, Thins, NEW s \in Silos, NEW u \in Users,
         NEW type \in CollateralType, NEW in \in Inputs(s), NEW rcomp \in Rcomps,
         Deposit(s, u, type, in, rcomp)
  PROVE  Thins'
<1> DEFINE l == AccrueInterest(ledger[s], rcomp)
           x == DepositOf(l, type, in)
           m == Received(Deposited(l, type, x), x.assets)
<1>1. ledger \in [Silos -> Ledger] /\ \A t \in Silos : Thin(ledger[t])
  BY DEF IInv, LedgersOK, Thins
<1>2. l \in Ledger /\ Thin(l)
  <2>1. l \in Ledger
    BY AccruedOK, MarketAssumption DEF IInv
  <2>2. SameProtected(ledger[s], l)
    BY <1>1, AccruedThin
  <2> QED
    BY <1>1, <2>1, <2>2, SameProtectedThin
<1>3. ledger' = [ledger EXCEPT ![s] = m]
  BY DEF Deposit
<1>4. Thin(m)
  <2> HIDE DEF l
  <2> QED
    BY <1>2, InputsAmounts, DepositedThin
<1> HIDE DEF m
<1> QED
  BY <1>1, <1>3, <1>4, OneLedgerThin

\* withdraw and redeem
LEMMA WithdrawThin ==
  ASSUME IInv, Thins, NEW s \in Silos, NEW u \in Users,
         NEW type \in CollateralType, NEW in \in Inputs(s), NEW rcomp \in [Silos -> Rcomps],
         Withdraw(s, u, type, in, rcomp)
  PROVE  Thins'
<1> DEFINE l == BothAccrued(rcomp)
           x == WithdrawalOf(l[s], type, in)
           m == Paid(Withdrawn(l[s], type, x), x.assets)
<1>1. /\ l \in [Silos -> Ledger] /\ \A t \in Silos : Thin(l[t])
      /\ l[s].supply = ledger[s].supply
  BY MarketThin
<1>2. /\ ledger' = [l EXCEPT ![s] = m] /\ CanWithdraw(l[s], type, x)
      /\ x.shares <= balance[s][type][u]
  BY DEF Withdraw
<1>3. type \in AssetType
  BY DEF CollateralType, AssetType
<1>4. /\ balance[s][type][u] \in Nat /\ balance[s][type][u] <= ledger[s].supply[type]
      /\ ledger[s].supply[type] \in Nat
  BY <1>3, HoldingBound, LedgerFields DEF IInv, LedgersOK
<1> HIDE DEF l
<1>5. x \in Amounts
  <2>1. l[s].assets[type] \in Nat /\ l[s].supply[type] \in Nat
    BY <1>1, <1>3, LedgerFields
  <2> QED
    BY <2>1, InputsAmounts, ConvertedNat DEF WithdrawalOf
<1>6. x.shares <= l[s].supply[type]
  <2>1. x.shares \in Nat
    BY <1>5 DEF Amounts
  <2> HIDE DEF x
  <2> QED
    BY <1>1, <1>2, <1>4, <2>1
<1>7. Thin(m)
  <2>1. l[s] \in Ledger /\ Thin(l[s])
    BY <1>1
  <2> QED
    BY <1>2, <1>6, <2>1, InputsAmounts, WithdrawnThin
<1> HIDE DEF m
<1> QED
  BY <1>1, <1>2, <1>7, OneLedgerThin

\* transitionCollateral
LEMMA TransitionThin ==
  ASSUME IInv, Thins, NEW s \in Silos, NEW u \in Users,
         NEW from \in CollateralType, NEW n \in ShareInputs[s], NEW rcomp \in [Silos -> Rcomps],
         TransitionCollateral(s, u, from, n, rcomp)
  PROVE  Thins'
<1> DEFINE l   == BothAccrued(rcomp)
           to  == IF from = "Collateral" THEN "Protected" ELSE "Collateral"
           out == WithdrawalOf(l[s], from, [assets |-> 0, shares |-> n])
           mid == Withdrawn(l[s], from, out)
           in  == DepositOf(mid, to, [assets |-> out.assets, shares |-> 0])
           m   == Deposited(mid, to, in)
<1>1. /\ l \in [Silos -> Ledger] /\ \A t \in Silos : Thin(l[t])
      /\ l[s].supply = ledger[s].supply
  BY MarketThin
<1>2. /\ ledger' = [l EXCEPT ![s] = m] /\ CanWithdraw(l[s], from, out)
      /\ n <= balance[s][from][u]
  BY DEF TransitionCollateral
<1>3. from \in AssetType /\ to \in CollateralType /\ from # to
  BY DEF CollateralType, AssetType
<1>4. /\ balance[s][from][u] \in Nat /\ balance[s][from][u] <= ledger[s].supply[from]
      /\ ledger[s].supply[from] \in Nat /\ n \in Nat
  BY <1>3, HoldingBound, LedgerFields, MarketAssumption DEF IInv, LedgersOK
<1> HIDE DEF l, to
<1>5. n <= l[s].supply[from]
  BY <1>1, <1>2, <1>4
<1>6. Thin(m)
  <2>1. l[s] \in Ledger /\ Thin(l[s])
    BY <1>1
  <2> QED
    BY <1>2, <1>3, <1>4, <1>5, <2>1, TransitionedThin
<1> HIDE DEF m
<1> QED
  BY <1>1, <1>2, <1>6, OneLedgerThin

\* A call that writes the debt, the fees or the cash of one Silo.
LEMMA OtherThin ==
  ASSUME NEW l \in Ledger, NEW x, NEW n
  PROVE  /\ SameProtected(l, Paid(Borrowed(l, x), n))
         /\ SameProtected(l, Received(Repaid(l, x), n))
         /\ SameProtected(l, FeesWithdrawn(l))
         /\ SameProtected(l, FlashLent(l, n)) /\ SameProtected(l, Donated(l, n))
         /\ SameProtected(l, Received(l, n))
<1>1. SameProtected(l, Paid(Borrowed(l, x), n)) /\ SameProtected(l, Received(Repaid(l, x), n))
  BY DEF SameProtected, Paid, Borrowed, Received, Repaid, Ledger, AssetType
<1>2. SameProtected(l, FeesWithdrawn(l))
  BY DEF SameProtected, FeesWithdrawn, Paid, Ledger
<1>3. /\ SameProtected(l, FlashLent(l, n)) /\ SameProtected(l, Donated(l, n))
      /\ SameProtected(l, Received(l, n))
  BY DEF SameProtected, FlashLent, Donated, Received, Paid, Ledger
<1> QED
  BY <1>1, <1>2, <1>3

\* Such a call to Silo s, on ledgers with interest accrued or not
LEMMA OtherLedgerThin ==
  ASSUME NEW l, l \in [Silos -> Ledger], \A t \in Silos : Thin(l[t]),
         NEW s \in Silos, NEW m, SameProtected(l[s], m), ledger' = [l EXCEPT ![s] = m]
  PROVE  Thins'
<1>1. Thin(m)
  BY SameProtectedThin
<1> QED
  BY <1>1, OneLedgerThin

\* A call that writes ledger s only, starting from interest accrued on it
LEMMA AccruedLedgerThin ==
  ASSUME IInv, Thins, NEW s \in Silos, NEW r \in Rcomps, NEW m,
         SameProtected(AccrueInterest(ledger[s], r), m), ledger' = [ledger EXCEPT ![s] = m]
  PROVE  Thins'
<1>1. ledger \in [Silos -> Ledger] /\ \A t \in Silos : Thin(ledger[t])
  BY DEF IInv, LedgersOK, Thins
<1>2. SameProtected(ledger[s], AccrueInterest(ledger[s], r))
  BY <1>1, AccruedThin
<1>3. SameProtected(ledger[s], m)
  BY <1>2 DEF SameProtected
<1> QED
  BY <1>1, <1>3, OtherLedgerThin

\* Loans, repayments, fees and interest
LEMMA LedgerCallsThin ==
  ASSUME IInv, Thins, NEW s \in Silos,
         \/ \E u \in Users, in \in Inputs(s), r \in [Silos -> Rcomps] : Borrow(s, u, in, r)
         \/ \E u \in Users, in \in Inputs(s), r \in Rcomps : Repay(s, u, in, r)
         \/ \E r \in Rcomps : Accrue(s, r) \/ WithdrawFees(s, r)
  PROVE  Thins'
<1>1. ASSUME NEW u \in Users, NEW in \in Inputs(s), NEW r \in [Silos -> Rcomps],
             Borrow(s, u, in, r)
      PROVE  Thins'
  <2> DEFINE l == BothAccrued(r)
             x == LoanOf(l[s], in)
             m == Paid(Borrowed(l[s], x), x.assets)
  <2>1. l \in [Silos -> Ledger] /\ \A t \in Silos : Thin(l[t])
    BY MarketThin
  <2>2. ledger' = [l EXCEPT ![s] = m]
    BY <1>1 DEF Borrow
  <2> HIDE DEF l, x
  <2>3. SameProtected(l[s], m)
    BY <2>1, OtherThin
  <2> HIDE DEF m
  <2> QED
    BY <2>1, <2>2, <2>3, OtherLedgerThin
<1>2. ASSUME NEW u \in Users, NEW in \in Inputs(s), NEW r \in Rcomps, Repay(s, u, in, r)
      PROVE  Thins'
  <2> DEFINE l == AccrueInterest(ledger[s], r)
             x == RepaymentOf(l, balance[s]["Debt"][u], in)
             m == Received(Repaid(l, x), x.assets)
  <2>1. l \in Ledger
    BY AccruedOK, MarketAssumption DEF IInv
  <2>2. ledger' = [ledger EXCEPT ![s] = m]
    BY <1>2 DEF Repay
  <2> HIDE DEF x
  <2>3. SameProtected(l, m)
    <3> HIDE DEF l
    <3> QED
      BY <2>1, OtherThin
  <2> HIDE DEF m
  <2> QED
    BY <2>2, <2>3, AccruedLedgerThin
<1>3. ASSUME NEW r \in Rcomps, Accrue(s, r) \/ WithdrawFees(s, r)
      PROVE  Thins'
  <2> DEFINE l == AccrueInterest(ledger[s], r)
  <2>1. l \in Ledger
    BY AccruedOK, MarketAssumption DEF IInv
  <2>2. \/ ledger' = [ledger EXCEPT ![s] = l]
        \/ ledger' = [ledger EXCEPT ![s] = FeesWithdrawn(l)]
    BY <1>3 DEF Accrue, WithdrawFees
  <2>3. SameProtected(l, l) /\ SameProtected(l, FeesWithdrawn(l))
    <3> HIDE DEF l
    <3> QED
      BY <2>1, OtherThin DEF SameProtected
  <2> QED
    BY <2>2, <2>3, AccruedLedgerThin
<1> QED
  BY <1>1, <1>2, <1>3

\* Flash loans, donations and the clock
LEMMA TokenCallsThin ==
  ASSUME IInv, Thins,
         \/ \E s \in Silos, n \in Nat : BeginFlashLoan(s, n) \/ Donate(s, n)
         \/ EndFlashLoan
         \/ NewBlock
  PROVE  Thins'
<1>1. ledger \in [Silos -> Ledger] /\ \A t \in Silos : Thin(ledger[t])
  BY DEF IInv, LedgersOK, Thins
<1>2. ASSUME NEW s \in Silos, NEW n \in Nat, BeginFlashLoan(s, n) \/ Donate(s, n)
      PROVE  Thins'
  <2>1. \/ ledger' = [ledger EXCEPT ![s] = FlashLent(ledger[s], n)]
        \/ ledger' = [ledger EXCEPT ![s] = Donated(ledger[s], n)]
    BY <1>1, <1>2 DEF BeginFlashLoan, Donate
  <2>2. /\ SameProtected(ledger[s], FlashLent(ledger[s], n))
        /\ SameProtected(ledger[s], Donated(ledger[s], n))
    BY <1>1, OtherThin
  <2> QED
    BY <1>1, <2>1, <2>2, OtherLedgerThin
<1>3. CASE EndFlashLoan
  <2> DEFINE s == loans[Len(loans)].silo
             n == loans[Len(loans)].amount + loans[Len(loans)].fee
             m == Received(ledger[s], n)
  <2>1. s \in Silos
    <3>1. loans[Len(loans)] \in FlashLoan
      BY <1>3 DEF EndFlashLoan, IInv, LoansOK
    <3> QED
      BY <3>1 DEF FlashLoan
  <2>2. ledger' = [ledger EXCEPT ![s] = m]
    BY <1>1, <1>3, <2>1 DEF EndFlashLoan
  <2> HIDE DEF s, n
  <2>3. SameProtected(ledger[s], m)
    BY <1>1, <2>1, OtherThin
  <2> HIDE DEF m
  <2> QED
    BY <1>1, <2>1, <2>2, <2>3, OtherLedgerThin
<1>4. CASE NewBlock
  <2>1. \A t \in Silos : SameProtected(ledger[t], ledger'[t])
    BY <1>1, <1>4 DEF NewBlock, SameProtected, Ledger
  <2> QED
    BY <1>1, <2>1 DEF Thins, SameProtected, Thin
<1> QED
  BY <1>2, <1>3, <1>4

\* Transfers of shares accrue interest and no more.
LEMMA TransferThin ==
  ASSUME IInv, Thins,
         NEW s, NEW u, NEW v, NEW n, NEW r \in [Silos -> Rcomps],
         \/ TransferDebt(s, u, v, n, r)
         \/ \E type \in CollateralType : TransferCollateral(s, type, u, v, n, r)
  PROVE  Thins'
<1>1. \A t \in Silos : Thin(ledger[t]) /\ Thin(BothAccrued(r)[t])
  BY MarketThin
<1>2. ledger' = ledger \/ ledger' = BothAccrued(r)
  BY DEF TransferDebt, TransferCollateral
<1> QED
  BY <1>1, <1>2 DEF Thins, Thin

\* Every step of the market leaves protected deposits thin.
LEMMA ThinMarketStep == IInv /\ Thins /\ [Next]_vars => Thins'
<1> SUFFICES ASSUME IInv, Thins, [Next]_vars PROVE Thins'
  OBVIOUS
<1>1. ASSUME NEW s \in Silos, SiloNext(s) PROVE Thins'
  <2>1. ASSUME NEW u \in Users, NEW in \in Inputs(s), NEW r \in Rcomps,
               (\E type \in CollateralType : Deposit(s, u, type, in, r)) \/ Repay(s, u, in, r)
        PROVE  Thins'
    BY <2>1, DepositThin, LedgerCallsThin
  <2>2. ASSUME NEW u \in Users, NEW in \in Inputs(s), NEW r \in [Silos -> Rcomps],
               (\E type \in CollateralType : Withdraw(s, u, type, in, r)) \/ Borrow(s, u, in, r)
        PROVE  Thins'
    BY <2>2, WithdrawThin, LedgerCallsThin
  <2>3. ASSUME NEW u \in Users, NEW type \in CollateralType, NEW n \in ShareInputs[s],
               NEW r \in [Silos -> Rcomps], TransitionCollateral(s, u, type, n, r)
        PROVE  Thins'
    BY <2>3, TransitionThin
  <2>4. ASSUME NEW u \in Users, NEW v \in Users, NEW n \in TransferInputs[s],
               NEW r \in [Silos -> Rcomps],
               (\E type \in CollateralType : TransferCollateral(s, type, u, v, n, r))
                 \/ TransferDebt(s, u, v, n, r)
        PROVE  Thins'
    BY <2>4, TransferThin
  <2>5. ASSUME NEW r \in Rcomps, Accrue(s, r) \/ WithdrawFees(s, r) PROVE Thins'
    BY <2>5, LedgerCallsThin
  <2>6. ASSUME NEW n \in FlashInputs[s], BeginFlashLoan(s, n) PROVE Thins'
    BY <2>6, TokenCallsThin, MarketAssumption
  <2>7. ASSUME NEW n \in DonationInputs[s], Donate(s, n) PROVE Thins'
    BY <2>7, TokenCallsThin, MarketAssumption
  <2> QED
    BY <1>1, <2>1, <2>2, <2>3, <2>4, <2>5, <2>6, <2>7 DEF SiloNext
<1>2. CASE EndFlashLoan \/ NewBlock
  BY <1>2, TokenCallsThin
<1>3. CASE UNCHANGED vars
  BY <1>3 DEF vars, Thins, Thin
<1> QED
  BY <1>1, <1>2, <1>3 DEF Next

\* _tryRedeem
LEMMA RedeemedThin ==
  ASSUME NEW l \in Ledger, Thin(l), NEW t \in CollateralType, NEW n \in Nat,
         CanTryRedeem(l, t, n), n <= l.supply[t]
  PROVE  Thin(TriedRedeem(l, t, n))
<1> DEFINE in == [assets |-> 0, shares |-> n]
           x == WithdrawalOf(l, t, in)
<1>1. in \in Amounts /\ x.shares = n
  BY RedemptionAmounts DEF Amounts, RedemptionOf
<1> HIDE DEF in
<1>2. CASE x.assets = 0
  BY <1>2 DEF TriedRedeem, RedemptionOf, in
<1>3. CASE x.assets # 0
  <2>1. CanWithdraw(l, t, x) /\ TriedRedeem(l, t, n) = Paid(Withdrawn(l, t, x), x.assets)
    BY <1>3 DEF CanTryRedeem, TriedRedeem, RedemptionOf, in
  <2> QED
    BY <1>1, <2>1, WithdrawnThin
<1> QED
  BY <1>2, <1>3

\* liquidationCall: a repayment and two redemptions
LEMMA LiquidationCallThin ==
  ASSUME LInv, Thins, NEW v \in Users, NEW u \in Users, NEW d \in Silos, NEW max \in Nat,
         NEW receiveSToken \in BOOLEAN, NEW rcomp \in [Silos -> Rcomps],
         LiquidationCall(v, u, d, max, receiveSToken, rcomp)
  PROVE  Thins'
<1> DEFINE l == BothAccrued(rcomp)
           c == collateralSilo[u]
           x == ExactLiquidationAmounts(l, u, c, d, max, LiquidationThreshold[c])
           n == SeizedShares(l, c, x)
           in == [assets |-> x.debt, shares |-> 0]
           y == RepaymentOf(l[d], balance[d]["Debt"][u], in)
           repaid == [l EXCEPT ![d] = Received(Repaid(l[d], y), y.assets)]
           b == Burned(balance, d, "Debt", u, y.shares)
           m == TriedRedeem(repaid[c], "Collateral", n["Collateral"])
           o == TriedRedeem(m, "Protected", n["Protected"])
           k == n["Collateral"] - KeptShares(repaid[c], "Collateral", n["Collateral"])
<1>1. /\ HasDebt(u, d) /\ x.debt # 0
      /\ \A t \in CollateralType : n[t] <= balance[c][t][u]
      /\ CanRepay(l[d], y)
      /\ receiveSToken \/ (/\ CanTryRedeem(repaid[c], "Collateral", n["Collateral"])
                           /\ CanTryRedeem(m, "Protected", n["Protected"]))
      /\ ledger' = IF receiveSToken THEN repaid ELSE [repaid EXCEPT ![c] = o]
  BY DEF LiquidationCall
<1>2. /\ c \in Silos /\ LoansOK /\ price \in [Silos -> Nat \ {0}]
      /\ "Protected" \in CollateralType /\ "Collateral" \in CollateralType
      /\ CollateralType \subseteq AssetType /\ "Debt" \in AssetType
  BY <1>1, DebtorsCollateral DEF LInv, IInv, OthersOK, CollateralType, AssetType
<1>3. MarketOK(l, balance) /\ l \in [Silos -> Ledger] /\ \A t \in Silos : Thin(l[t])
  BY AccruedMarket, MarketThin DEF LInv
<1> HIDE DEF l, c
<1>4. x \in [debt : Nat, protected : Nat, collateral : Nat] /\ in \in Amounts
  BY <1>2, <1>3, ExactAmounts DEF ExactOK, Amounts
<1> HIDE DEF x
<1>5. n \in [CollateralType -> Nat]
  BY <1>2, <1>3, <1>4, SeizedSharesOK
<1> HIDE DEF n, in
<1>6. MarketOK(repaid, b)
  BY <1>1, <1>2, <1>3, <1>4, RepaidMarket
<1>7. /\ repaid \in [Silos -> Ledger] /\ \A t \in Silos : Thin(repaid[t])
      /\ \A t \in CollateralType : repaid[c].supply[t] = l[c].supply[t]
  <2> DEFINE r == Received(Repaid(l[d], y), y.assets)
  <2>1. l[d] \in Ledger
    BY <1>3
  <2>2. /\ SameProtected(l[d], r)
        /\ \A t \in CollateralType : r.supply[t] = l[d].supply[t]
    <3> HIDE DEF y
    <3> QED
      BY <2>1, OtherThin DEF Received, Repaid, Ledger, AssetType, CollateralType
  <2>3. Thin(r)
    BY <1>3, <2>2, SameProtectedThin
  <2>4. repaid = [l EXCEPT ![d] = r]
    OBVIOUS
  <2> HIDE DEF r
  <2>5. \A t \in Silos : Thin([l EXCEPT ![d] = r][t])
    BY <1>3, <2>3
  <2>6. \A t \in CollateralType : [l EXCEPT ![d] = r][c].supply[t] = l[c].supply[t]
    BY <1>2, <1>3, <2>2
  <2> HIDE DEF repaid
  <2> QED
    BY <1>6, <2>4, <2>5, <2>6 DEF MarketOK
<1>8. \A t \in CollateralType : n[t] \in Nat /\ n[t] <= repaid[c].supply[t]
  <2> SUFFICES ASSUME NEW t \in CollateralType PROVE n[t] \in Nat /\ n[t] <= repaid[c].supply[t]
    OBVIOUS
  <2>1. /\ balance[c][t][u] \in Nat /\ l[c].supply[t] \in Nat
        /\ balance[c][t][u] <= l[c].supply[t]
    BY <1>2, <1>3, MarketHolding
  <2>2. n[t] \in Nat /\ n[t] <= balance[c][t][u]
    BY <1>1, <1>5
  <2> HIDE DEF repaid
  <2> QED
    BY <1>7, <2>1, <2>2
<1>9. b[c]["Collateral"][u] = balance[c]["Collateral"][u]
  <2>1. balance \in Balances /\ y \in Amounts
    <3>1. l[d] \in Ledger /\ balance[d]["Debt"][u] \in Nat
      BY <1>2, <1>3, MarketHolding
    <3> QED
      BY <1>3, <1>4, <3>1, RepaymentBound DEF MarketOK
  <2> HIDE DEF y
  <2>2. "Collateral" # "Debt"
    OBVIOUS
  <2> QED
    BY <1>2, <2>1, <2>2, BurnedAt DEF Amounts
<1> HIDE DEF y, repaid, b
<1>10. CASE receiveSToken
  BY <1>1, <1>7, <1>10 DEF Thins, Thin
<1>11. CASE ~receiveSToken
  <2>1. repaid[c] \in Ledger /\ Thin(repaid[c])
    BY <1>2, <1>7
  <2>2. m \in Ledger
    <3>1. k \in Nat /\ k <= b[c]["Collateral"][u]
      <4>1. n["Collateral"] \in Nat /\ n["Collateral"] <= balance[c]["Collateral"][u]
        BY <1>1, <1>2, <1>5
      <4>2. k = n["Collateral"] \/ k = 0
        BY <4>1 DEF KeptShares
      <4>3. balance[c]["Collateral"][u] \in Nat
        BY <1>2, <1>3, MarketHolding
      <4> HIDE DEF k
      <4> QED
        BY <1>9, <4>1, <4>2, <4>3
    <3>2. MarketOK([repaid EXCEPT ![c] = m], Burned(b, c, "Collateral", u, k))
      BY <1>1, <1>2, <1>5, <1>6, <1>11, <3>1, RedeemedMarket
    <3> HIDE DEF m
    <3> QED
      BY <1>2, <1>7, <3>2 DEF MarketOK
  <2>3. Thin(m)
    BY <1>1, <1>2, <1>8, <1>11, <2>1, RedeemedThin
  <2>4. m.supply["Protected"] = repaid[c].supply["Protected"]
    BY <1>2, <2>1 DEF TriedRedeem, Paid, Withdrawn, Ledger, AssetType
  <2> HIDE DEF m
  <2>5. Thin(o)
    BY <1>1, <1>2, <1>8, <1>11, <2>2, <2>3, <2>4, RedeemedThin
  <2>6. ledger' = [repaid EXCEPT ![c] = o]
    BY <1>1, <1>11
  <2> HIDE DEF o
  <2> QED
    BY <1>2, <1>7, <2>5, <2>6, OneLedgerThin
<1> QED
  BY <1>10, <1>11

\* liquidationCallByDefaulting
LEMMA DefaultingThin ==
  ASSUME LInv, Thins, NEW v, NEW u, NEW d \in Silos, NEW rcomp \in [Silos -> Rcomps],
         LiquidationCallByDefaulting(v, u, d, rcomp)
  PROVE  Thins'
<1> DEFINE l == BothAccrued(rcomp)
<1>1. l \in [Silos -> Ledger] /\ \A t \in Silos : Thin(l[t])
  BY MarketThin DEF LInv
<1>2. \E debt, y : ledger' = [l EXCEPT ![d] = Repaid(DefaultedDebtDeducted(l[d], debt), y)]
  BY DEF LiquidationCallByDefaulting
<1>3. PICK debt, y : ledger' = [l EXCEPT ![d] = Repaid(DefaultedDebtDeducted(l[d], debt), y)]
  BY <1>2
<1> HIDE DEF l
<1>4. SameProtected(l[d], Repaid(DefaultedDebtDeducted(l[d], debt), y))
  BY <1>1 DEF SameProtected, Repaid, DefaultedDebtDeducted, Ledger, AssetType
<1> QED
  BY <1>1, <1>3, <1>4, OtherLedgerThin

\* Every step of the market with its liquidations does.
LEMMA ThinStep == LInv /\ Thins /\ [LiquidationNext]_vars => Thins'
<1> SUFFICES ASSUME LInv, Thins, [LiquidationNext]_vars PROVE Thins'
  OBVIOUS
<1>1. CASE [Next]_vars
  BY <1>1, ThinMarketStep DEF LInv
<1>2. CASE ClaimRewards
  BY <1>2, TransferThin DEF ClaimRewards, LInv
<1>3. CASE Liquidations
  <2>1. \A n \in DebtInputs : n \in Nat
    BY LiquidationAssumption
  <2> QED
    BY <1>3, <2>1, LiquidationCallThin, DefaultingThin DEF Liquidations
<1> QED
  BY <1>1, <1>2, <1>3 DEF LiquidationNext

\* No protected share is ever worth more than a unit.
LEMMA ThinAlways == LiquidationSpec => [](LInv /\ Thins)
<1>1. Init => Thins
  BY MathAssumption DEF Init, Thins, Thin, EmptyLedger, AssetType
<1> QED
  BY <1>1, LiquidationInvariance, ThinStep, PTL DEF LiquidationSpec

-----------------------------------------------------------------------------
(* What maxLiquidation answers.                                            *)

\* A worth in units that are worth p each
LEMMA UnitsOfWorth ==
  ASSUME NEW p \in Nat \ {0}, NEW n \in Nat \ {0}, NEW v \in Nat
  PROVE  /\ ByRatio(v, n, p * n) \in Nat
         /\ p * ByRatio(v, n, p * n) <= v
         /\ v < p * ByRatio(v, n, p * n) + p
<1> DEFINE k == ByRatio(v, n, p * n)
           m == p * n
<1>1. m \in Nat \ {0}
  OBVIOUS
<1>2. MulDiv(v, n, m, Floor) \in Nat /\ m * MulDiv(v, n, m, Floor) <= v * n
      /\ v * n < m * MulDiv(v, n, m, Floor) + m
  <2> HIDE DEF m
  <2> QED
    BY <1>1, FloorBound
<1>3. k = MulDiv(v, n, m, Floor)
  BY DEF ByRatio
<1> HIDE DEF k
<1>4. k \in Nat /\ m * k <= v * n /\ v * n < m * k + m
  <2> HIDE DEF m
  <2> QED
    BY <1>2, <1>3
<1>5. m * k = n * (p * k) /\ v * n = n * v /\ m * k + m = n * (p * k + p)
  BY <1>4
<1>6. p * k \in Nat /\ p * k + p \in Nat
  BY <1>4
<1>7. p * k <= v
  <2>1. n * (p * k) <= n * v
    BY <1>4, <1>5
  <2> QED
    BY <1>6, <2>1, Cancel
<1>8. ASSUME p * k + p <= v PROVE FALSE
  <2>1. n * (p * k + p) <= n * v
    BY <1>6, <1>8
  <2>2. n * (p * k + p) \in Nat /\ n * v \in Nat /\ n * v < n * (p * k + p)
    BY <1>4, <1>5, <1>6
  <2> QED
    BY <2>1, <2>2
<1> QED
  BY <1>4, <1>6, <1>7, <1>8 DEF k

\* What a part of a debt is worth, from what all of it is worth
LEMMA WorthOfUnits ==
  ASSUME NEW p \in Nat \ {0}, NEW n \in Nat \ {0}, NEW k \in Nat
  PROVE  ByRatio(k, p * n, n) = p * k
<1> DEFINE w == ByRatio(k, p * n, n)
<1>1. w \in Nat /\ n * w <= k * (p * n) /\ k * (p * n) < n * w + n
  <2>1. p * n \in Nat
    OBVIOUS
  <2> QED
    BY <2>1, FloorBound DEF ByRatio
<1> HIDE DEF w
<1>2. k * (p * n) = n * (p * k) /\ p * k \in Nat /\ n * w + n = n * (w + 1)
  BY <1>1
<1>3. w <= p * k
  BY <1>1, <1>2, Cancel
<1>4. p * k <= w
  <2>1. ASSUME p * k >= w + 1 PROVE FALSE
    <3>1. n * (w + 1) <= n * (p * k)
      BY <1>1, <1>2, <2>1
    <3>2. n * (w + 1) \in Nat /\ n * (p * k) \in Nat
      BY <1>1, <1>2
    <3> QED
      BY <1>1, <1>2, <3>1, <3>2
  <2> QED
    BY <1>1, <1>2, <2>1
<1> QED
  BY <1>1, <1>2, <1>3, <1>4 DEF w

\* The fee on a repayment, and on a bit more
LEMMA FeeGrows ==
  ASSUME NEW v \in Nat, NEW r \in Nat, NEW fee \in Nat
  PROVE  LET less == (v * fee) \div Precision
             more == ((v + r) * fee) \div Precision
         IN  /\ less \in Nat /\ more \in Nat /\ less <= more
             /\ more * Precision < less * Precision + r * fee + Precision
<1> DEFINE less == (v * fee) \div Precision
           more == ((v + r) * fee) \div Precision
<1>1. /\ Precision \in Nat \ {0} /\ v * fee \in Nat /\ r * fee \in Nat
      /\ (v + r) * fee \in Nat /\ (v + r) * fee = v * fee + r * fee
  BY MathAssumption
<1>2. /\ less \in Nat /\ more \in Nat
      /\ v * fee < Precision * less + Precision
      /\ Precision * more <= (v + r) * fee
  BY <1>1, Quotient
<1>3. less <= more
  BY <1>1, QuotientOrder
<1> HIDE DEF less, more
<1>4. Precision * more = more * Precision /\ Precision * less = less * Precision
      /\ more * Precision \in Nat /\ less * Precision \in Nat
  BY <1>1, <1>2
<1>5. more * Precision < less * Precision + r * fee + Precision
  BY <1>1, <1>2, <1>4
<1> QED
  BY <1>2, <1>3, <1>5 DEF less, more

\* What calculateCollateralToLiquidate answers for a repayment v and for one that
\* is greater by r
LEMMA CollateralGrows ==
  ASSUME NEW v \in Nat, NEW r \in Nat, NEW cv \in Nat, NEW fee \in Nat
  PROVE  LET less == CollateralFor(v, cv, fee)
             more == CollateralFor(v + r, cv, fee)
         IN  /\ less \in Nat /\ more \in Nat /\ less <= more
             /\ (more - less) * Precision < r * (Precision + fee) + Precision
             /\ r < v => less = cv \/ more <= 2 * less
<1> DEFINE i == (v * fee) \div Precision
           j == ((v + r) * fee) \div Precision
           less == CollateralFor(v, cv, fee)
           more == CollateralFor(v + r, cv, fee)
<1>1. /\ i \in Nat /\ j \in Nat /\ i <= j
      /\ j * Precision < i * Precision + r * fee + Precision
      /\ Precision \in Nat \ {0}
  BY FeeGrows, MathAssumption
<1>2. less = SmallerOf(v + i, cv) /\ more = SmallerOf(v + r + j, cv)
  BY DEF CollateralFor
<1>3. i = (v * fee) \div Precision
  OBVIOUS
<1> HIDE DEF i, j, less, more
<1>4. /\ less \in Nat /\ more \in Nat /\ less <= more
      /\ less = v + i \/ (less = cv /\ more = cv)
      /\ more <= v + r + j
  BY <1>1, <1>2 DEF SmallerOf
<1>5. r * fee \in Nat /\ r * (Precision + fee) = r * Precision + r * fee /\ r * Precision \in Nat
  BY <1>1
<1>6. (more - less) * Precision < r * (Precision + fee) + Precision
  <2>1. CASE less = v + i
    <3>1. more - less <= r + j - i /\ more - less \in Nat /\ r + j - i \in Nat
      BY <1>1, <1>4, <2>1
    <3>2. (more - less) * Precision <= (r + j - i) * Precision
      BY <1>1, <3>1
    <3>3. (r + j - i) * Precision = r * Precision + j * Precision - i * Precision
      BY <1>1
    <3>4. /\ (more - less) * Precision \in Nat /\ j * Precision \in Nat /\ i * Precision \in Nat
      BY <1>1, <3>1
    <3> QED
      BY <1>1, <1>5, <3>2, <3>3, <3>4
  <2>2. CASE less = cv /\ more = cv
    <3>1. (more - less) * Precision = 0
      BY <1>1, <1>4, <2>2
    <3> QED
      BY <1>1, <1>5, <3>1
  <2> QED
    BY <1>4, <2>1, <2>2
<1>7. ASSUME r < v, less # cv PROVE more <= 2 * less
  <2>1. less = v + i
    BY <1>4, <1>7
  <2>2. j <= 2 * i + 1
    <3>1. j * Precision <= (v + v) * fee
      <4>1. (v + r) * fee \in Nat /\ (v + r) * fee <= (v + v) * fee /\ (v + v) * fee \in Nat
        BY <1>7
      <4>2. Precision * j <= (v + r) * fee
        BY <1>1, <4>1, Quotient DEF j
      <4>3. Precision * j = j * Precision /\ j * Precision \in Nat
        BY <1>1
      <4> QED
        BY <4>1, <4>2, <4>3
    <3>2. v * fee < Precision * i + Precision /\ v * fee \in Nat
      <4>1. v * fee \in Nat
        OBVIOUS
      <4> QED
        BY <1>1, <1>3, <4>1, Quotient
    <3>3. (v + v) * fee = v * fee + v * fee
      OBVIOUS
    <3>4. ASSUME j >= 2 * i + 2 PROVE FALSE
      <4>1. (2 * i + 2) * Precision <= j * Precision
        BY <1>1, <3>4
      <4>2. (2 * i + 2) * Precision = Precision * i + Precision * i + Precision + Precision
        BY <1>1
      <4>3. Precision * i \in Nat /\ j * Precision \in Nat
        BY <1>1
      <4> QED
        BY <1>1, <3>1, <3>2, <3>3, <4>1, <4>2, <4>3
    <3> QED
      BY <1>1, <3>4
  <2> QED
    BY <1>1, <1>4, <1>7, <2>1, <2>2
<1> QED
  BY <1>4, <1>6, <1>7 DEF less, more

\* What is repaid and seized for the debt that maxLiquidation answers, if R is the
\* value it was estimated from: all of that debt, and some of the collateral if three
\* units are found for R; but for one more unit no more is missing than a unit of
\* debt is worth.
PromisedOK(pc, pd, fee, sum, owed, R) ==
  LET debt == ByRatio(R, owed, pd * owed)
      value == ByRatio(debt, pd * owed, owed)
      found == ByRatio(CollateralFor(R, pc * sum, fee), sum, pc * sum)
      seized == ByRatio(CollateralFor(value, pc * sum, fee), sum, pc * sum)
  IN  /\ debt \in Nat /\ debt <= owed
      /\ R = pd * owed => debt = owed
      /\ found \in Nat /\ seized \in Nat /\ seized <= found /\ seized <= sum
      /\ debt # 0 /\ found >= 3 => seized # 0
      /\ \A g \in Nat :
           seized + 1 + g <= found => pc * g * Precision <= pd * (Precision + fee)

LEMMA PromisedAmounts ==
  ASSUME NEW pc \in Nat \ {0}, NEW pd \in Nat \ {0}, NEW fee \in Nat,
         NEW sum \in Nat \ {0}, NEW owed \in Nat \ {0}, NEW R \in Nat, R <= pd * owed
  PROVE  PromisedOK(pc, pd, fee, sum, owed, R)
<1> DEFINE cv == pc * sum
           debt == ByRatio(R, owed, pd * owed)
           value == ByRatio(debt, pd * owed, owed)
           more == CollateralFor(R, cv, fee)
           less == CollateralFor(value, cv, fee)
           found == ByRatio(more, sum, cv)
           seized == ByRatio(less, sum, cv)
           r == R - pd * debt
<1>1. cv \in Nat /\ Precision \in Nat \ {0}
  BY MathAssumption
<1>2. debt \in Nat /\ pd * debt <= R /\ R < pd * debt + pd
  BY UnitsOfWorth
<1> HIDE DEF debt
<1>3. value = pd * debt
  BY <1>2, WorthOfUnits
<1>4. debt <= owed /\ (R = pd * owed => debt = owed)
  <2>1. ASSUME debt >= owed + 1 PROVE FALSE
    <3>1. pd * (owed + 1) <= pd * debt /\ pd * (owed + 1) = pd * owed + pd
      BY <1>2, <2>1
    <3>2. pd * owed \in Nat /\ pd * debt \in Nat
      BY <1>2
    <3> QED
      BY <1>2, <3>1, <3>2
  <2>2. ASSUME R = pd * owed, debt + 1 <= owed PROVE FALSE
    <3>1. pd * (debt + 1) <= pd * owed /\ pd * (debt + 1) = pd * debt + pd
      BY <1>2, <2>2
    <3>2. pd * owed \in Nat /\ pd * debt \in Nat
      BY <1>2
    <3> QED
      BY <1>2, <2>2, <3>1, <3>2
  <2> QED
    BY <1>2, <2>1, <2>2
<1>5. r \in Nat /\ r + 1 <= pd /\ value \in Nat /\ R = value + r
  BY <1>2, <1>3
<1>6. debt # 0 => r < value
  <2>1. debt # 0 => pd * 1 <= pd * debt
    BY <1>2
  <2>2. pd * 1 = pd
    OBVIOUS
  <2> HIDE DEF r
  <2> QED
    BY <1>3, <1>5, <2>1, <2>2
<1> HIDE DEF r, value
<1>7. /\ less \in Nat /\ more \in Nat /\ less <= more
      /\ (more - less) * Precision < r * (Precision + fee) + Precision
      /\ r < value => less = cv \/ more <= 2 * less
  BY <1>1, <1>5, CollateralGrows
<1>8. more <= cv /\ less <= cv
  BY <1>1, <1>5, CollateralForBound
<1> HIDE DEF less, more
<1>9. /\ found \in Nat /\ pc * found <= more /\ more < pc * found + pc
      /\ seized \in Nat /\ pc * seized <= less /\ less < pc * seized + pc
  BY <1>7, UnitsOfWorth
<1>10. seized <= sum
  BY <1>1, <1>7, <1>8, ByRatioBound
<1> HIDE DEF found, seized
<1>11. /\ pc * found \in Nat /\ pc * seized \in Nat
       /\ r * (Precision + fee) \in Nat /\ pd * (Precision + fee) \in Nat
  BY <1>1, <1>5, <1>9
<1>12. seized <= found
  <2>1. ASSUME seized >= found + 1 PROVE FALSE
    <3>1. pc * (found + 1) <= pc * seized /\ pc * (found + 1) = pc * found + pc
      BY <1>9, <2>1
    <3> QED
      BY <1>7, <1>9, <1>11, <3>1
  <2> QED
    BY <1>9, <2>1
<1>13. ASSUME debt # 0, found >= 3, seized = 0 PROVE FALSE
  <2>1. pc * 3 <= pc * found
    BY <1>9, <1>13
  <2>2. less < pc
    BY <1>9, <1>13
  <2>3. less # cv
    BY <1>7, <1>8, <1>9, <1>11, <2>1, <2>2
  <2>4. more <= 2 * less
    BY <1>6, <1>7, <1>13, <2>3
  <2> QED
    BY <1>7, <1>9, <1>11, <2>1, <2>2, <2>4
<1>14. ASSUME NEW g \in Nat, seized + 1 + g <= found
       PROVE  pc * g * Precision <= pd * (Precision + fee)
  <2>1. pc * (seized + 1 + g) <= pc * found
    BY <1>9, <1>14
  <2>2. pc * (seized + 1 + g) = pc * seized + pc + pc * g /\ pc * g \in Nat
    BY <1>9
  <2>3. pc * g + 1 <= more - less
    BY <1>7, <1>9, <1>11, <2>1, <2>2
  <2>4. (pc * g + 1) * Precision <= (more - less) * Precision
    BY <1>1, <1>7, <2>2, <2>3
  <2>5. /\ (pc * g + 1) * Precision = pc * g * Precision + Precision
        /\ pc * g * Precision \in Nat /\ (more - less) * Precision \in Nat
    BY <1>1, <1>7, <2>2
  <2>6. pc * g * Precision <= r * (Precision + fee)
    BY <1>1, <1>7, <1>11, <2>4, <2>5
  <2>7. r * (Precision + fee) <= pd * (Precision + fee)
    BY <1>1, <1>5
  <2> QED
    BY <1>11, <2>5, <2>6, <2>7
<1> QED
  BY <1>2, <1>4, <1>9, <1>10, <1>12, <1>13, <1>14
    DEF PromisedOK, debt, value, found, seized, more, less

\* Assets turned into shares and back: no more than a unit is lost, as long as a share
\* is worth no more than a unit.
LEMMA RoundTrip ==
  ASSUME NEW P \in Nat \ {0}, NEW Q \in Nat \ {0}, P <= Q, NEW a \in Nat
  PROVE  LET n == MulDiv(a, Q, P, Floor)
         IN  /\ n \in Nat /\ MulDiv(n, P, Q, Floor) \in Nat
             /\ a <= MulDiv(n, P, Q, Floor) + 1
<1> DEFINE n == MulDiv(a, Q, P, Floor)
           b == MulDiv(n, P, Q, Floor)
<1>1. n \in Nat /\ a * Q < P * n + P
  BY FloorBound
<1> HIDE DEF n
<1>2. b \in Nat /\ n * P < Q * b + Q
  BY <1>1, FloorBound
<1> HIDE DEF b
<1>3. ASSUME a >= b + 2 PROVE FALSE
  <2>1. Q * (b + 2) <= Q * a /\ Q * (b + 2) = Q * b + Q + Q
    BY <1>2, <1>3
  <2>2. Q * a = a * Q /\ P * n = n * P /\ a * Q \in Nat /\ n * P \in Nat /\ Q * b \in Nat
    BY <1>1, <1>2
  <2> QED
    BY <1>1, <1>2, <2>1, <2>2
<1> QED
  BY <1>1, <1>2, <1>3 DEF b, n

\* maxLiquidation answers what a liquidation with that debt does: it repays all of the
\* debt, and seizes the collateral, up to the two units the answer leaves out.
LEMMA PromiseExact ==
  ASSUME MarketOK(ledger, balance), price \in [Silos -> Nat \ {0}],
         NEW u \in Users, NEW c \in Silos, NEW d \in Silos,
         NEW promise, promise = MaxLiquidation(u, c, d),
         promise.collateral # 0, promise.debt # 0,
         NEW x, x = ExactLiquidationAmounts(ledger, u, c, d, promise.debt, LiquidationThreshold[c])
  PROVE  LET p == Position(ledger, u, c, d)
             announced == promise.collateral + 2
         IN  /\ x \in [debt : Nat, protected : Nat, collateral : Nat]
             /\ x.debt = promise.debt /\ promise.debt \in Nat /\ promise.debt <= p["Debt"]
             /\ x.protected <= p["Protected"] /\ x.collateral <= p["Collateral"]
             /\ promise.collateral \in Nat /\ x.protected + x.collateral <= announced
             /\ \A g \in Nat :
                  x.protected + x.collateral + 1 + g <= announced
                    => price[c] * g * Precision <= price[d] * (Precision + LiquidationFee[c])
<1> DEFINE p == Position(ledger, u, c, d)
           owed == p["Debt"]
           sum == SumOfCollateral(p)
           pc == price[c]
           pd == price[d]
           fee == LiquidationFee[c]
           cv == pc * sum
           dv == pd * owed
           ltv == MulDiv(dv, Precision, cv, Ceil)
           R == EstimateMaxRepayValue(dv, cv, LiquidationTargetLtv[c], fee)
           found == ByRatio(CollateralFor(R, cv, fee), sum, cv)
           q == ByRatio(R, owed, dv)
           debt == DebtToRepay(dv, cv, owed, q, ltv, c)
           seized == ByRatio(CollateralFor(ByRatio(debt, dv, owed), cv, fee), sum, cv)
           prot == SmallerOf(seized, p["Protected"])
<1>1. /\ p["Protected"] \in Nat /\ p["Collateral"] \in Nat /\ owed \in Nat
      /\ pc \in Nat \ {0} /\ pd \in Nat \ {0} /\ fee \in Nat
      /\ LiquidationTargetLtv[c] \in Nat /\ Precision \in Nat
  BY PositionNat, MathAssumption, LiquidationAssumption
<1>2. /\ sum # 0 /\ ~(ltv <= LiquidationThreshold[c])
      /\ promise = [collateral |-> Liquidity(found, 2), debt |-> q]
  BY DEF MaxLiquidation
<1>3. sum \in Nat \ {0} /\ sum = p["Protected"] + p["Collateral"]
  BY <1>1, <1>2 DEF SumOfCollateral
<1>4. x = IF owed = 0 \/ q = 0 THEN NoLiquidation
          ELSE IF sum = 0 THEN [NoLiquidation EXCEPT !.debt = SmallerOf(q, owed)]
          ELSE IF ltv <= LiquidationThreshold[c] \/ seized = 0 \/ debt = 0 THEN NoLiquidation
          ELSE [debt |-> debt, protected |-> prot, collateral |-> seized - prot]
  BY <1>2 DEF ExactLiquidationAmounts
<1>5. debt = IF ltv >= Precision THEN SmallerOf(q, owed)
             ELSE IF R = dv THEN owed
             ELSE SmallerOf(q, q)
  BY DEF DebtToRepay
<1> HIDE DEF p, sum, ltv, debt
<1>6. dv \in Nat /\ cv \in Nat
  BY <1>1, <1>3
<1>7. R \in Nat /\ R <= dv
  <2> HIDE DEF dv, cv
  <2> QED
    BY <1>1, <1>6, EstimateBound
<1> HIDE DEF R
<1>8. q \in Nat /\ q <= owed /\ q # 0
  <2>1. q = promise.debt
    BY <1>2
  <2> HIDE DEF dv
  <2>2. q \in Nat /\ q <= owed
    BY <1>6, <1>7, <1>1, ByRatioBound
  <2> HIDE DEF q
  <2> QED
    BY <2>1, <2>2
<1>9. owed \in Nat \ {0}
  <2> HIDE DEF q
  <2> QED
    BY <1>1, <1>8
<1> DEFINE value == ByRatio(q, dv, owed)
           s == ByRatio(CollateralFor(value, cv, fee), sum, cv)
<1>10. /\ R = dv => q = owed
       /\ found \in Nat /\ s \in Nat /\ s <= found /\ s <= sum
       /\ q # 0 /\ found >= 3 => s # 0
       /\ \A g \in Nat :
            s + 1 + g <= found => pc * g * Precision <= pd * (Precision + fee)
  <2>1. PromisedOK(pc, pd, fee, sum, owed, R)
    <3> HIDE DEF owed, pc, pd, fee
    <3> QED
      BY <1>1, <1>3, <1>7, <1>9, PromisedAmounts
  <2> HIDE DEF owed, pc, pd, fee
  <2> QED
    BY <2>1 DEF PromisedOK
<1>11. debt = q
  <2>1. R = dv => q = owed
    BY <1>10
  <2> HIDE DEF q, owed, dv
  <2> QED
    BY <1>5, <1>8, <1>9, <2>1 DEF SmallerOf
<1>12. seized = s
  BY <1>11
<1> HIDE DEF q, seized, s, found, owed, cv, dv, pc, pd, fee
<1>13. found >= 3 /\ promise.collateral = found - 2 /\ promise.debt = q
  <2>1. promise.collateral = Liquidity(found, 2) /\ promise.debt = q
    BY <1>2
  <2>2. found >= 3 \/ found = 2 \/ found = 1 \/ found = 0
    BY <1>10
  <2> QED
    BY <1>10, <2>1, <2>2 DEF Liquidity
<1>14. x = [debt |-> q, protected |-> prot, collateral |-> s - prot]
  BY <1>2, <1>4, <1>8, <1>9, <1>10, <1>11, <1>12, <1>13
<1>15. prot \in Nat /\ prot <= s /\ prot <= p["Protected"] /\ s - prot <= p["Collateral"]
  BY <1>1, <1>3, <1>10, <1>12 DEF SmallerOf
<1> HIDE DEF prot
<1>16. /\ x \in [debt : Nat, protected : Nat, collateral : Nat]
       /\ x.debt = q /\ x.protected = prot /\ x.collateral = s - prot
       /\ x.protected + x.collateral = s
  BY <1>8, <1>10, <1>14, <1>15
<1>17. promise.collateral \in Nat /\ promise.collateral + 2 = found
  BY <1>10, <1>13
<1>18. x.protected <= p["Protected"] /\ x.collateral <= p["Collateral"]
  BY <1>15, <1>16
<1>19. \A g \in Nat :
         x.protected + x.collateral + 1 + g <= promise.collateral + 2
           => pc * g * Precision <= pd * (Precision + fee)
  BY <1>10, <1>16, <1>17
<1>20. x.debt = promise.debt /\ promise.debt \in Nat /\ promise.debt <= owed
  BY <1>8, <1>13, <1>16
<1> QED
  BY <1>10, <1>16, <1>17, <1>18, <1>19, <1>20 DEF p, owed, pc, pd, fee

\* The Silo takes a repayment within the debt of the borrower, if it is worth a share.
LEMMA PromiseRepaid ==
  ASSUME NEW l \in Ledger, LedgerFair(l), NEW owes \in Nat, owes # 0, owes <= l.supply["Debt"],
         NEW debt \in Nat \ {0},
         debt <= ConvertToAssets(owes, l.assets["Debt"], l.supply["Debt"], Ceil, "Debt"),
         debt >= ConvertToAssets(1, l.assets["Debt"], l.supply["Debt"], Ceil, "Debt")
  PROVE  CanRepay(l, RepaymentOf(l, owes, [assets |-> debt, shares |-> 0]))
<1> DEFINE A == l.assets["Debt"]
           S == l.supply["Debt"]
           y == RepaymentOf(l, owes, [assets |-> debt, shares |-> 0])
           k == MulDiv(debt, S, A, Floor)
           one == MulDiv(1, A, S, Ceil)
<1>1. A \in Nat /\ S \in Nat /\ DebtFair(A, S)
  BY LedgerFields DEF LedgerFair, AssetType
<1>2. CommonShares(S, "Debt") = S /\ CommonAssets(A, S, "Debt") = A
  BY <1>1, DebtRatio
<1>3. S \in Nat \ {0} /\ A \in Nat \ {0}
  BY <1>1 DEF DebtFair
<1>4. y.assets = debt /\ y.shares = k
  BY ExactRepayment
<1>5. ConvertToAssets(1, A, S, Ceil, "Debt") = one
  BY <1>2, <1>3 DEF ConvertToAssets
<1>6. debt <= A
  <2> DEFINE all == ConvertToAssets(owes, A, S, Ceil, "Debt")
  <2>1. all \in Nat /\ all <= A
    <3>1. all = MulDiv(owes, A, S, Ceil)
      BY <1>2, <1>3 DEF ConvertToAssets
    <3>2. all <= A
      BY <1>1, DemandBound
    <3> QED
      BY <1>1, <3>1, <3>2, MulDivNat
  <2>2. debt <= all
    OBVIOUS
  <2> HIDE DEF all, A
  <2> QED
    BY <1>1, <2>1, <2>2
<1> HIDE DEF y, A, S
<1>7. one \in Nat /\ 1 * A <= S * one
  BY <1>3, CeilBound
<1>8. k \in Nat /\ debt * S < A * k + A
  BY <1>3, FloorBound
<1>9. one <= debt
  BY <1>5 DEF A, S
<1> HIDE DEF one, k
<1>10. k # 0
  <2>1. ASSUME k = 0 PROVE FALSE
    <3>1. S * one <= S * debt /\ S * debt = debt * S
      BY <1>3, <1>7, <1>9
    <3>2. S * one \in Nat /\ debt * S \in Nat /\ A * k = 0
      BY <1>3, <1>7, <2>1
    <3> QED
      BY <1>3, <1>7, <1>8, <3>1, <3>2
  <2> QED
    BY <2>1
<1> QED
  BY <1>4, <1>6, <1>10 DEF CanRepay, Moves, y, A

\* Of the collateral that is seized, a unit of each type is lost at most when it is
\* turned into shares and redeemed.
LEMMA SeizedDelivered ==
  ASSUME NEW l \in [Silos -> Ledger], NEW c \in Silos, NEW t \in CollateralType,
         l[c].assets[t] < l[c].supply[t] + Offset,
         NEW x \in [debt : Nat, protected : Nat, collateral : Nat]
  PROVE  LET paid == RedemptionOf(l[c], t, SeizedShares(l, c, x)[t]).assets
         IN  paid \in Nat /\ Seizable(x)[t] <= paid + 1
<1> DEFINE a == Seizable(x)[t]
           A == l[c].assets[t]
           S == l[c].supply[t]
           Q == CommonShares(S, t)
           P == CommonAssets(A, S, t)
           n == SeizedShares(l, c, x)[t]
           paid == RedemptionOf(l[c], t, n).assets
<1>1. a \in Nat
  BY DEF Seizable
<1>2. l[c] \in Ledger /\ A \in Nat /\ S \in Nat
  BY LedgerFields DEF CollateralType, AssetType
<1>3. Q \in Nat \ {0} /\ P \in Nat \ {0} /\ P <= Q
  <2>1. /\ Q = S + Offset /\ P = (IF S = 0 THEN 1 ELSE A + 1)
        /\ Q \in Nat \ {0} /\ P \in Nat \ {0}
    BY <1>2, CollateralRatio
  <2>2. A < S + Offset /\ Offset \in Nat \ {0}
    BY MathAssumption
  <2> HIDE DEF A, S, P, Q
  <2> QED
    BY <1>2, <2>1, <2>2
<1>4. n = MulDiv(a, Q, P, Floor)
  BY <1>3 DEF SeizedShares, ConvertToShares, Seizable
<1>5. paid = MulDiv(n, P, Q, Floor)
  BY <1>3 DEF RedemptionOf, WithdrawalOf, Converted, ConvertToAssets
<1> HIDE DEF a, P, Q, n, paid
<1>6. paid \in Nat /\ a <= paid + 1
  BY <1>1, <1>3, <1>4, <1>5, RoundTrip
<1> QED
  BY <1>6 DEF paid, n, a

\* Nobody's deposits are worth more than all deposits, and without any share they are
\* worth nothing.
LEMMA ClaimWithin ==
  ASSUME NEW b \in Nat, NEW A \in Nat, NEW S \in Nat, b <= S, NEW t \in CollateralType
  PROVE  LET claim == ConvertToAssets(b, A, S, Floor, t)
         IN  claim \in Nat /\ claim <= A /\ (S = 0 => claim = 0)
<1> DEFINE claim == ConvertToAssets(b, A, S, Floor, t)
<1>1. /\ CommonShares(S, t) = S + Offset
      /\ CommonAssets(A, S, t) = IF S = 0 THEN 1 ELSE A + 1
      /\ Offset \in Nat \ {0}
  BY CollateralRatio, MathAssumption
<1>2. claim \in Nat /\ claim * CommonShares(S, t) <= b * CommonAssets(A, S, t)
  BY ClaimBound
<1> HIDE DEF claim
<1>3. CASE S = 0
  <2>1. claim * Offset <= 0
    BY <1>1, <1>2, <1>3
  <2>2. claim = 0
    <3>1. claim # 0 => claim * Offset \in Nat \ {0}
      BY <1>1, <1>2
    <3> QED
      BY <1>2, <2>1, <3>1
  <2> QED
    BY <2>2 DEF claim
<1>4. CASE S # 0
  <2>1. claim * (S + Offset) <= b * (A + 1)
    BY <1>1, <1>2, <1>4
  <2>2. b * (A + 1) <= S * (A + 1)
    OBVIOUS
  <2>3. ASSUME claim >= A + 1 PROVE FALSE
    <3>1. (A + 1) * (S + Offset) <= claim * (S + Offset)
      BY <1>1, <1>2, <2>3
    <3>2. (A + 1) * (S + Offset) = S * (A + 1) + Offset * (A + 1)
      BY <1>1
    <3>3. Offset * (A + 1) >= 1 /\ Offset * (A + 1) \in Nat
      BY <1>1
    <3>4. S * (A + 1) \in Nat /\ b * (A + 1) \in Nat /\ claim * (S + Offset) \in Nat
      BY <1>1, <1>2
    <3> QED
      BY <2>1, <2>2, <3>1, <3>2, <3>3, <3>4
  <2>4. claim <= A
    BY <1>2, <2>3
  <2> QED
    BY <1>2, <1>4, <2>4 DEF claim
<1> QED
  BY <1>3, <1>4

\* Where no flash loan is out the Silo has the tokens for its protected deposits and for
\* the liquidity of its books.
LEMMA LiquidityInCash ==
  ASSUME NEW l \in Ledger, LedgerOK(l, 0)
  PROVE  /\ LedgerLiquidity(l) \in Nat /\ l.assets["Protected"] \in Nat /\ l.cash \in Nat
         /\ l.assets["Protected"] <= l.cash
         /\ LedgerLiquidity(l) # 0 => l.assets["Protected"] + LedgerLiquidity(l) <= l.cash
<1> DEFINE P == l.assets["Protected"]
           C == l.assets["Collateral"]
           D == l.assets["Debt"]
<1>1. /\ P \in Nat /\ C \in Nat /\ D \in Nat
      /\ l.cash \in Nat /\ l.revenue \in Nat /\ l.surplus \in Nat
  BY LedgerFields
<1>2. /\ l.cash + 0 + D = P + C + l.revenue + l.surplus
      /\ D <= C + l.revenue + l.surplus
  BY DEF LedgerOK
<1>3. LedgerLiquidity(l) = IF D > C THEN 0 ELSE C - D
  BY DEF LedgerLiquidity, Liquidity
<1> HIDE DEF P, C, D
<1>4. LedgerLiquidity(l) \in Nat /\ P <= l.cash
  BY <1>1, <1>2, <1>3
<1>5. ASSUME LedgerLiquidity(l) # 0 PROVE P + LedgerLiquidity(l) <= l.cash
  BY <1>1, <1>2, <1>3, <1>5
<1> QED
  BY <1>1, <1>4, <1>5 DEF P

\* The part of the promise that is redeemed: shares for no more than the deposits of the
\* borrower can be redeemed, unless they are worth nothing.
LEMMA PromiseRedeemed ==
  ASSUME NEW l, MarketOK(l, balance), LoansOK, loans = <<>>,
         NEW u \in Users, NEW c \in Silos, NEW d \in Silos, NEW t \in CollateralType,
         NEW x \in [debt : Nat, protected : Nat, collateral : Nat],
         Seizable(x)[t] <= Position(l, u, c, d)[t],
         x.collateral <= LedgerLiquidity(l[c])
  PROVE  CanTryRedeem(l[c], t, SeizedShares(l, c, x)[t])
<1> DEFINE n == SeizedShares(l, c, x)[t]
           y == RedemptionOf(l[c], t, n)
           a == Seizable(x)[t]
           A == l[c].assets[t]
           S == l[c].supply[t]
<1>1. t \in AssetType /\ (t = "Protected" \/ t = "Collateral") /\ t # "Debt"
  BY DEF AssetType, CollateralType
<1>2. /\ l[c] \in Ledger /\ A \in Nat /\ S \in Nat
      /\ balance[c][t][u] \in Nat /\ balance[c][t][u] <= S
  BY <1>1, MarketHolding, LedgerFields
<1>3. n \in Nat /\ y.assets \in Nat /\ y.assets <= a
  <2>1. l \in [Silos -> Ledger]
    BY DEF MarketOK
  <2>2. /\ SeizedShares(l, c, x) \in [CollateralType -> Nat]
        /\ \A k \in Nat :
             k <= n => /\ RedemptionOf(l[c], t, k).assets \in Nat
                       /\ RedemptionOf(l[c], t, k).assets <= Seizable(x)[t]
    BY <2>1, SeizedSharesOK
  <2> QED
    BY <2>2
<1>4. y.shares = n
  BY <1>2, <1>3, RedemptionAmounts
<1>5. n = 0 => y.assets = 0
  <2>1. CommonShares(S, t) \in Nat \ {0} /\ CommonAssets(A, S, t) \in Nat \ {0}
    BY <1>2, CollateralRatio
  <2>2. y.assets = MulDiv(n, CommonAssets(A, S, t), CommonShares(S, t), Floor)
    BY <2>1 DEF RedemptionOf, WithdrawalOf, Converted, ConvertToAssets
  <2> QED
    BY <1>3, <2>1, <2>2 DEF MulDiv
<1>6. a \in Nat /\ a <= A /\ (S = 0 => a = 0)
  <2>1. Position(l, u, c, d)[t] = ConvertToAssets(balance[c][t][u], A, S, Floor, t)
    BY <1>1 DEF Position
  <2>2. LET claim == ConvertToAssets(balance[c][t][u], A, S, Floor, t)
        IN  claim \in Nat /\ claim <= A /\ (S = 0 => claim = 0)
    BY <1>2, ClaimWithin
  <2> DEFINE claim == ConvertToAssets(balance[c][t][u], A, S, Floor, t)
  <2>3. claim \in Nat /\ claim <= A /\ (S = 0 => claim = 0) /\ a <= claim
    BY <2>1, <2>2
  <2>4. a \in Nat
    BY DEF Seizable
  <2> HIDE DEF claim, a, A, S
  <2> QED
    BY <1>2, <2>3, <2>4
<1>7. /\ LedgerLiquidity(l[c]) \in Nat /\ l[c].cash \in Nat
      /\ l[c].assets["Protected"] \in Nat /\ l[c].assets["Protected"] <= l[c].cash
      /\ LedgerLiquidity(l[c]) # 0
           => l[c].assets["Protected"] + LedgerLiquidity(l[c]) <= l[c].cash
  <2>1. LedgerOK(l[c], 0)
    BY DEF MarketOK, Owed
  <2> QED
    BY <1>2, <2>1, LiquidityInCash
<1>8. t = "Collateral" => a <= LedgerLiquidity(l[c])
  BY <1>1 DEF Seizable
<1>9. Withdrawn(l[c], t, y).assets["Protected"]
        = IF t = "Protected" THEN l[c].assets["Protected"] - y.assets ELSE l[c].assets["Protected"]
  BY <1>1, <1>2 DEF Withdrawn, Ledger, AssetType
<1>10. Withdrawn(l[c], t, y).cash = l[c].cash
  BY <1>2 DEF Withdrawn, Ledger
<1> HIDE DEF n, y, a
<1>11. ASSUME y.assets # 0
       PROVE  /\ CanWithdraw(l[c], t, y)
              /\ CanPayWithdrawal(Withdrawn(l[c], t, y), y.assets)
  <2>1. S # 0 /\ y.shares # 0
    BY <1>3, <1>4, <1>5, <1>6, <1>11
  <2>2. t = "Protected" => y.assets <= l[c].assets["Protected"]
    BY <1>2, <1>3, <1>6
  <2>3. t = "Collateral" => y.assets <= LedgerLiquidity(l[c]) /\ LedgerLiquidity(l[c]) # 0
    BY <1>3, <1>6, <1>7, <1>8, <1>11
  <2>4. CanWithdraw(l[c], t, y)
    BY <1>1, <1>11, <2>1, <2>2, <2>3 DEF CanWithdraw, Moves
  <2>5. CanPayWithdrawal(Withdrawn(l[c], t, y), y.assets)
    <3> DEFINE m == Withdrawn(l[c], t, y)
    <3>1. CASE t = "Protected"
      <4>1. m.assets["Protected"] = l[c].assets["Protected"] - y.assets /\ m.cash = l[c].cash
        BY <1>9, <1>10, <3>1
      <4> HIDE DEF m
      <4>2. y.assets <= m.cash /\ m.cash - y.assets >= m.assets["Protected"]
        BY <1>3, <1>7, <2>2, <3>1, <4>1
      <4> QED
        BY <4>2 DEF CanPayWithdrawal, m
    <3>2. CASE t = "Collateral"
      <4>1. m.assets["Protected"] = l[c].assets["Protected"] /\ m.cash = l[c].cash
        BY <1>9, <1>10, <3>2
      <4> HIDE DEF m
      <4>2. y.assets <= m.cash /\ m.cash - y.assets >= m.assets["Protected"]
        BY <1>3, <1>7, <2>3, <3>2, <4>1
      <4> QED
        BY <4>2 DEF CanPayWithdrawal, m
    <3> QED
      BY <1>1, <3>1, <3>2
  <2> QED
    BY <2>4, <2>5
<1> QED
  BY <1>11 DEF CanTryRedeem, y, n

\* What is missing of the promise, but for one unit
LEMMA PromiseDelivered ==
  ASSUME NEW said \in Nat, NEW i \in Nat, NEW j \in Nat, NEW m \in Nat, NEW k \in Nat,
         i <= m + 1, j <= k + 1, i + j <= said + 2
  PROVE  LET g == Liquidity(Liquidity(said, m + k), 1)
         IN  g \in Nat /\ (g = 0 \/ i + j + 1 + g <= said + 2)
BY DEF Liquidity

\* The answer holds in any state of the market.
LEMMA PromiseHolds == LInv /\ Thins => MaxLiquidationHolds
<1> SUFFICES ASSUME LInv, Thins, NEW u \in Users, NEW d \in Silos, HasDebt(u, d),
                    MaxLiquidation(u, collateralSilo[u], d).collateral # 0,
                    MaxLiquidation(u, collateralSilo[u], d).debt # 0
             PROVE  LET c == collateralSilo[u]
                        promise == MaxLiquidation(u, c, d)
                        x == ExactLiquidationAmounts(ledger, u, c, d, promise.debt,
                                                     LiquidationThreshold[c])
                        n == SeizedShares(ledger, c, x)
                        repaid == RepaymentOf(ledger[d], balance[d]["Debt"][u],
                                              [assets |-> x.debt, shares |-> 0])
                        missing == Liquidity(promise.collateral,
                                             DeliveredFor(u, c, d, promise.debt))
                    IN  /\ x.debt = promise.debt
                        /\ promise.debt >= DebtShare(d) => CanRepay(ledger[d], repaid)
                        /\ ledger[c].assets["Collateral"] <= ledger[c].supply["Collateral"]
                             => price[c] * Liquidity(missing, 1) * Precision
                                  <= price[d] * (Precision + LiquidationFee[c])
                        /\ (loans = <<>> /\ promise.collateral + 2 <= LedgerLiquidity(ledger[c]))
                             => \A t \in CollateralType : CanTryRedeem(ledger[c], t, n[t])
  BY DEF MaxLiquidationHolds
<1> DEFINE c == collateralSilo[u]
           promise == MaxLiquidation(u, c, d)
           x == ExactLiquidationAmounts(ledger, u, c, d, promise.debt, LiquidationThreshold[c])
           n == SeizedShares(ledger, c, x)
           p == Position(ledger, u, c, d)
           owes == balance[d]["Debt"][u]
           paid(t) == RedemptionOf(ledger[c], t, n[t]).assets
           missing == Liquidity(promise.collateral, paid("Protected") + paid("Collateral"))
<1>1. c \in Silos
  BY DebtorsCollateral
<1>2. MarketOK(ledger, balance)
  BY DEF LInv, IInv, LedgersOK, TokensOK, MarketOK, DebtSharesCovered, LedgerFair, DebtFair
<1>3. price \in [Silos -> Nat \ {0}] /\ LoansOK
  BY DEF LInv, IInv, OthersOK
<1>4. DeliveredFor(u, c, d, promise.debt) = paid("Protected") + paid("Collateral")
  BY DEF DeliveredFor
<1>5. promise.collateral # 0 /\ promise.debt # 0
  OBVIOUS
<1> HIDE DEF c
<1>6. /\ x \in [debt : Nat, protected : Nat, collateral : Nat]
      /\ x.debt = promise.debt /\ promise.debt \in Nat /\ promise.debt <= p["Debt"]
      /\ x.protected <= p["Protected"] /\ x.collateral <= p["Collateral"]
      /\ promise.collateral \in Nat /\ x.protected + x.collateral <= promise.collateral + 2
      /\ \A g \in Nat :
           x.protected + x.collateral + 1 + g <= promise.collateral + 2
             => price[c] * g * Precision <= price[d] * (Precision + LiquidationFee[c])
  <2> HIDE DEF promise, x, p
  <2>1. promise = MaxLiquidation(u, c, d)
    BY DEF promise
  <2>2. x = ExactLiquidationAmounts(ledger, u, c, d, promise.debt, LiquidationThreshold[c])
    BY DEF x
  <2>3. p = Position(ledger, u, c, d)
    BY DEF p
  <2> QED
    BY <1>1, <1>2, <1>3, <1>5, <2>1, <2>2, <2>3, PromiseExact
<1> HIDE DEF promise, x, p
<1>7. ledger \in [Silos -> Ledger] /\ \A s \in Silos : Thin(ledger[s])
  BY DEF LInv, IInv, LedgersOK, Thins
<1>8. "Protected" \in CollateralType /\ "Collateral" \in CollateralType
  BY DEF CollateralType
<1>9. Seizable(x)["Protected"] = x.protected /\ Seizable(x)["Collateral"] = x.collateral
  BY <1>8 DEF Seizable
<1>10. ASSUME promise.debt >= DebtShare(d)
       PROVE  CanRepay(ledger[d], RepaymentOf(ledger[d], owes, [assets |-> x.debt, shares |-> 0]))
  <2>1. /\ ledger[d] \in Ledger /\ owes \in Nat /\ owes <= ledger[d].supply["Debt"]
    BY <1>2, MarketHolding DEF AssetType
  <2>2. owes # 0 /\ LedgerFair(ledger[d])
    BY <1>2 DEF HasDebt, MarketOK
  <2>3. p["Debt"] = ConvertToAssets(owes, ledger[d].assets["Debt"], ledger[d].supply["Debt"],
                                    Ceil, "Debt")
    BY <1>1, <1>2, PositionNat DEF p
  <2>4. x.debt \in Nat \ {0} /\ x.debt <= p["Debt"] /\ x.debt >= DebtShare(d)
    BY <1>5, <1>6, <1>10
  <2> HIDE DEF owes
  <2> QED
    BY <2>1, <2>2, <2>3, <2>4, PromiseRepaid DEF DebtShare
<1>11. ASSUME ledger[c].assets["Collateral"] <= ledger[c].supply["Collateral"]
       PROVE  price[c] * Liquidity(missing, 1) * Precision
                <= price[d] * (Precision + LiquidationFee[c])
  <2>1. ledger[c].assets["Protected"] < ledger[c].supply["Protected"] + Offset
    BY <1>1, <1>7 DEF Thin
  <2>2. ledger[c].assets["Collateral"] < ledger[c].supply["Collateral"] + Offset
    <3>1. /\ ledger[c].assets["Collateral"] \in Nat /\ ledger[c].supply["Collateral"] \in Nat
          /\ Offset \in Nat \ {0}
      BY <1>1, <1>7, LedgerFields, MathAssumption DEF AssetType
    <3> QED
      BY <1>11, <3>1
  <2>3. /\ paid("Protected") \in Nat /\ x.protected <= paid("Protected") + 1
        /\ paid("Collateral") \in Nat /\ x.collateral <= paid("Collateral") + 1
    BY <1>1, <1>6, <1>7, <1>8, <1>9, <2>1, <2>2, SeizedDelivered
  <2> DEFINE g == Liquidity(missing, 1)
  <2>4. x.protected \in Nat /\ x.collateral \in Nat
    BY <1>6
  <2> HIDE DEF paid
  <2>5. g \in Nat /\ (g = 0 \/ x.protected + x.collateral + 1 + g <= promise.collateral + 2)
    BY <1>6, <2>3, <2>4, PromiseDelivered
  <2> HIDE DEF g
  <2>6. CASE g = 0
    <3>1. /\ price[c] \in Nat /\ price[d] \in Nat /\ Precision \in Nat
          /\ LiquidationFee[c] \in Nat
      BY <1>1, <1>3, MathAssumption, LiquidationAssumption
    <3>2. price[c] * g * Precision = 0 /\ price[d] * (Precision + LiquidationFee[c]) \in Nat
      BY <2>6, <3>1
    <3> QED
      BY <3>2 DEF g
  <2>7. CASE x.protected + x.collateral + 1 + g <= promise.collateral + 2
    <3>1. price[c] * g * Precision <= price[d] * (Precision + LiquidationFee[c])
      BY <1>6, <2>5, <2>7
    <3> QED
      BY <3>1 DEF g
  <2> QED
    BY <2>5, <2>6, <2>7
<1>12. ASSUME loans = <<>>, promise.collateral + 2 <= LedgerLiquidity(ledger[c]),
              NEW t \in CollateralType
       PROVE  CanTryRedeem(ledger[c], t, n[t])
  <2>1. Seizable(x)[t] <= p[t]
    BY <1>6, <1>9 DEF CollateralType
  <2>2. x.collateral <= LedgerLiquidity(ledger[c])
    <3>1. LedgerLiquidity(ledger[c]) \in Nat
      BY <1>1, <1>7, LedgerFields DEF LedgerLiquidity, Liquidity
    <3>2. x.protected \in Nat /\ x.collateral \in Nat
      BY <1>6
    <3> QED
      BY <1>6, <1>12, <3>1, <3>2
  <2> QED
    BY <1>1, <1>2, <1>3, <1>6, <1>12, <2>1, <2>2, PromiseRedeemed DEF p
<1> HIDE DEF paid, n
<1> QED
  BY <1>4, <1>6, <1>10, <1>11, <1>12 DEF c, promise, x, n

\* Protected deposits earn nothing: whatever the market does, liquidations included, a
\* protected share is worth a unit at most (SiloERC4626Lib).
THEOREM ProtectedStaysThin == LiquidationSpec => []Thins
<1>1. LInv /\ Thins => Thins
  OBVIOUS
<1> QED
  BY <1>1, ThinAlways, PTL

\* What maxLiquidation answers can be done in the same block: the debt is repaid, and the
\* collateral delivered but for the worth of a unit of debt (PartialLiquidationLib).
THEOREM MaxLiquidationHoldsAlways == LiquidationSpec => []MaxLiquidationHolds
<1> QED
  BY ThinAlways, PromiseHolds, PTL

=============================================================================
