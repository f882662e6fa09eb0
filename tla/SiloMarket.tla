----------------------------- MODULE SiloMarket -----------------------------
(***************************************************************************)
(* A Silo market: the two Silos of one SiloConfig, the three share tokens  *)
(* of each, the positions of the users and the flash loans in progress     *)
(* (silo-core/contracts/Silo.sol, lib/Actions.sol, SiloConfig.sol,         *)
(* lib/SiloSolvencyLib.sol, utils/ShareToken.sol and its descendants).     *)
(*                                                                         *)
(* Every action is one successful external call; a call that reverts       *)
(* changes nothing and is a stuttering step.  Calls are atomic, with one   *)
(* exception: flashLoan hands control to its receiver without holding the  *)
(* cross reentrancy guard, so any operation may run between               *)
(* BeginFlashLoan and EndFlashLoan, another flash loan included.  A Faulty *)
(* action is the one after it with a plausible mistake: TLC must catch it. *)
(***************************************************************************)
EXTENDS SiloLedger, Sequences, FiniteSetsExt

CONSTANTS
  Users,
  Silo0, Silo1,
  NoSilo,             \* address(0)
  MaxLtv,             \* maxLtv of each Silo as collateral
  LiquidationThreshold, \* lt of each Silo as collateral
  Prices,             \* the prices the oracle of each token may quote
  Rcomps,             \* the compound rates an interest rate model may answer
  TokenSupply,        \* total supply of each underlying token
  AssetInputs,        \* amounts of assets and of shares that callers ask
  ShareInputs,        \* each Silo for,
  TransferInputs,     \* amounts of shares they transfer,
  FlashInputs,        \* amounts they flash borrow,
  DonationInputs,     \* amounts they send to it
  MaxBlocks,          \* bound on the number of new blocks
  MaxLoanDepth        \* bound on the nesting of flash loans

Silos == {Silo0, Silo1}

ASSUME MarketAssumption ==
  /\ IsFiniteSet(Users)
  /\ Silo0 # Silo1
  /\ NoSilo \notin Silos
  /\ MaxLtv \in [Silos -> Nat]
  /\ LiquidationThreshold \in [Silos -> Nat]
  /\ \A s \in Silos : MaxLtv[s] <= LiquidationThreshold[s]
  /\ Prices \in [Silos -> SUBSET (Nat \ {0})]
  /\ Rcomps \subseteq Nat
  /\ TokenSupply \in [Silos -> Nat]
  /\ AssetInputs \in [Silos -> SUBSET Nat]
  /\ ShareInputs \in [Silos -> SUBSET Nat]
  /\ TransferInputs \in [Silos -> SUBSET Nat]
  /\ FlashInputs \in [Silos -> SUBSET Nat]
  /\ DonationInputs \in [Silos -> SUBSET Nat]
  /\ MaxBlocks \in Nat
  /\ MaxLoanDepth \in Nat

VARIABLES
  ledger,             \* the books of each Silo
  balance,            \* share token balances, by Silo, asset type and user
  collateralSilo,     \* borrowerCollateralSilo of the SiloConfig
  loans,              \* the call stack of flash loans in progress
  price,              \* what the oracles quote for one unit of each token
  blocks              \* number of new blocks so far

vars == <<ledger, balance, collateralSilo, loans, price, blocks>>

-----------------------------------------------------------------------------

OtherSilo(s) == IF s = Silo0 THEN Silo1 ELSE Silo0

\* A call names an amount of assets or of shares, the other one is zero.
Inputs(s) ==
  [assets : AssetInputs[s], shares : {0}] \cup [assets : {0}, shares : ShareInputs[s]]

\* A transfer to a Silo can move only tokens somebody else holds.
CanReceive(s, l, amount) == l.cash + amount <= TokenSupply[s]

Quotes == {p \in [Silos -> UNION {Prices[s] : s \in Silos}] : \A s \in Silos : p[s] \in Prices[s]}

FlashLoan == [silo : Silos, amount : Nat, fee : Nat, owed : [Silos -> Nat]]

\* What the flash loans in progress still have to bring back to a Silo.
Owed(s) == IF loans = <<>> THEN 0 ELSE loans[Len(loans)].owed[s]

HasDebt(u, s) == balance[s]["Debt"][u] # 0

\* getConfigsForSolvency answers an empty collateral config without a debt.
IsCollateralOf(s, u) ==
  /\ \E d \in Silos : HasDebt(u, d)
  /\ collateralSilo[u] = s

AssetsOf(u, s, type, rounding) ==
  ConvertToAssets(balance[s][type][u], ledger[s].assets[type],
                  ledger[s].supply[type], rounding, type)

CollateralValue(u, s) ==
  price[s] * (AssetsOf(u, s, "Protected", Floor) + AssetsOf(u, s, "Collateral", Floor))

DebtValue(u, s) == price[s] * AssetsOf(u, s, "Debt", Ceil)

\* getLtv, compared to a limit.  Without collateral the ratio is infinite.
LtvAtMost(u, collateral, debt, limit) ==
  \/ DebtValue(u, debt) = 0
  \/ /\ CollateralValue(u, collateral) # 0
     /\ MulDiv(DebtValue(u, debt), Precision, CollateralValue(u, collateral), Ceil) <= limit

Solvent(u) ==
  \A d \in Silos : HasDebt(u, d) =>
    /\ collateralSilo[u] \in Silos
    /\ LtvAtMost(u, collateralSilo[u], d, LiquidationThreshold[collateralSilo[u]])

\* The Silo that is called accrues interest, the other one does not.
FaultyBothAccrued(rcomp) == [ledger EXCEPT ![Silo0] = AccrueInterest(@, rcomp[Silo0])]

\* accrueInterestForBothSilos
BothAccrued(rcomp) == [s \in Silos |-> AccrueInterest(ledger[s], rcomp[s])]

\* ShareToken._update of the balances b
Minted(b, s, type, u, amount) == [b EXCEPT ![s][type][u] = @ + amount]

Burned(b, s, type, u, amount) == [b EXCEPT ![s][type][u] = @ - amount]

Transferred(b, s, type, sender, recipient, amount) ==
  Minted(Burned(b, s, type, sender, amount), s, type, recipient, amount)

-----------------------------------------------------------------------------

Init ==
  /\ ledger = [s \in Silos |-> EmptyLedger]
  /\ balance = [s \in Silos |-> [t \in AssetType |-> [u \in Users |-> 0]]]
  /\ collateralSilo = [u \in Users |-> NoSilo]
  /\ loans = <<>>
  /\ price \in Quotes
  /\ blocks = 0

\* deposit and mint, of borrowable or protected collateral
Deposit(s, receiver, type, in, rcomp) ==
  LET l == AccrueInterest(ledger[s], rcomp)
      x == DepositOf(l, type, in)
  IN  /\ CanDeposit(l, type, x)
      /\ CanReceive(s, l, x.assets)
      /\ ledger' = [ledger EXCEPT ![s] = Received(Deposited(l, type, x), x.assets)]
      /\ balance' = Minted(balance, s, type, receiver, x.shares)
      /\ UNCHANGED <<collateralSilo, loans, price, blocks>>

\* The solvency check forgets the protected collateral.
FaultyWithdraw(s, owner, type, in, rcomp) ==
  LET l == BothAccrued(rcomp)
      x == WithdrawalOf(l[s], type, in)
  IN  /\ CanWithdraw(l[s], type, x)
      /\ x.shares <= balance[s][type][owner]
      /\ CanPayWithdrawal(Withdrawn(l[s], type, x), x.assets)
      /\ ledger' = [l EXCEPT ![s] = Paid(Withdrawn(l[s], type, x), x.assets)]
      /\ balance' = Burned(balance, s, type, owner, x.shares)
      /\ UNCHANGED <<collateralSilo, loans, price, blocks>>
      /\ IsCollateralOf(s, owner) /\ type = "Collateral" => Solvent(owner)'

\* withdraw and redeem
Withdraw(s, owner, type, in, rcomp) ==
  LET l == BothAccrued(rcomp)
      x == WithdrawalOf(l[s], type, in)
  IN  /\ CanWithdraw(l[s], type, x)
      /\ x.shares <= balance[s][type][owner]
      /\ CanPayWithdrawal(Withdrawn(l[s], type, x), x.assets)
      /\ ledger' = [l EXCEPT ![s] = Paid(Withdrawn(l[s], type, x), x.assets)]
      /\ balance' = Burned(balance, s, type, owner, x.shares)
      /\ UNCHANGED <<collateralSilo, loans, price, blocks>>
      /\ IsCollateralOf(s, owner) => Solvent(owner)'

\* The collateral Silo of an earlier debt is left in place.
FaultyBorrow(s, borrower, in, rcomp) ==
  LET l == BothAccrued(rcomp)
      x == LoanOf(l[s], in)
  IN  /\ ~HasDebt(borrower, OtherSilo(s))
      /\ CanBorrow(l[s], x)
      /\ CanPay(l[s], x.assets)
      /\ ledger' = [l EXCEPT ![s] = Paid(Borrowed(l[s], x), x.assets)]
      /\ balance' = Minted(balance, s, "Debt", borrower, x.shares)
      /\ UNCHANGED <<collateralSilo, loans, price, blocks>>
      /\ LtvAtMost(borrower, OtherSilo(s), s, MaxLtv[OtherSilo(s)])'

\* borrow and borrowShares, always against collateral of the other Silo
Borrow(s, borrower, in, rcomp) ==
  LET l == BothAccrued(rcomp)
      x == LoanOf(l[s], in)
  IN  /\ ~HasDebt(borrower, OtherSilo(s))
      /\ CanBorrow(l[s], x)
      /\ CanPay(l[s], x.assets)
      /\ ledger' = [l EXCEPT ![s] = Paid(Borrowed(l[s], x), x.assets)]
      /\ balance' = Minted(balance, s, "Debt", borrower, x.shares)
      /\ collateralSilo' = [collateralSilo EXCEPT ![borrower] = OtherSilo(s)]
      /\ UNCHANGED <<loans, price, blocks>>
      /\ LtvAtMost(borrower, OtherSilo(s), s, MaxLtv[OtherSilo(s)])'

\* The repayer is charged what he asked for, not what was left to repay.
FaultyRepay(s, borrower, in, rcomp) ==
  LET l == AccrueInterest(ledger[s], rcomp)
      x == RepaymentOf(l, balance[s]["Debt"][borrower], in)
      paid == IF in.assets = 0 THEN x.assets ELSE in.assets
  IN  /\ CanRepay(l, x)
      /\ CanReceive(s, l, paid)
      /\ ledger' = [ledger EXCEPT ![s] = Received(Repaid(l, x), paid)]
      /\ balance' = Burned(balance, s, "Debt", borrower, x.shares)
      /\ UNCHANGED <<collateralSilo, loans, price, blocks>>

\* repay and repayShares, by anyone
Repay(s, borrower, in, rcomp) ==
  LET l == AccrueInterest(ledger[s], rcomp)
      x == RepaymentOf(l, balance[s]["Debt"][borrower], in)
  IN  /\ CanRepay(l, x)
      /\ CanReceive(s, l, x.assets)
      /\ ledger' = [ledger EXCEPT ![s] = Received(Repaid(l, x), x.assets)]
      /\ balance' = Burned(balance, s, "Debt", borrower, x.shares)
      /\ UNCHANGED <<collateralSilo, loans, price, blocks>>

\* The shares of one type are taken for the shares of the other.
FaultyTransitionCollateral(s, owner, from, shares, rcomp) ==
  LET l   == BothAccrued(rcomp)
      to  == IF from = "Collateral" THEN "Protected" ELSE "Collateral"
      out == WithdrawalOf(l[s], from, [assets |-> 0, shares |-> shares])
      mid == Withdrawn(l[s], from, out)
      in  == DepositOf(mid, to, [assets |-> out.assets, shares |-> 0])
  IN  /\ CanWithdraw(l[s], from, out)
      /\ shares <= balance[s][from][owner]
      /\ CanDeposit(mid, to, in)
      /\ ledger' = [l EXCEPT ![s] = Deposited(mid, to, in)]
      /\ balance' = Minted(Burned(balance, s, from, owner, shares), s, to, owner, shares)
      /\ UNCHANGED <<collateralSilo, loans, price, blocks>>
      /\ IsCollateralOf(s, owner) => Solvent(owner)'

\* transitionCollateral: a withdrawal and a deposit without moving tokens
TransitionCollateral(s, owner, from, shares, rcomp) ==
  LET l   == BothAccrued(rcomp)
      to  == IF from = "Collateral" THEN "Protected" ELSE "Collateral"
      out == WithdrawalOf(l[s], from, [assets |-> 0, shares |-> shares])
      mid == Withdrawn(l[s], from, out)
      in  == DepositOf(mid, to, [assets |-> out.assets, shares |-> 0])
  IN  /\ CanWithdraw(l[s], from, out)
      /\ shares <= balance[s][from][owner]
      /\ CanDeposit(mid, to, in)
      /\ ledger' = [l EXCEPT ![s] = Deposited(mid, to, in)]
      /\ balance' = Minted(Burned(balance, s, from, owner, shares), s, to, owner, in.shares)
      /\ UNCHANGED <<collateralSilo, loans, price, blocks>>
      /\ IsCollateralOf(s, owner) => Solvent(owner)'

\* Both balances are read before either is written, and nobody is checked.
FaultyTransferCollateral(s, type, sender, recipient, amount, rcomp) ==
  /\ amount # 0
  /\ amount <= balance[s][type][sender]
  /\ balance' = [Burned(balance, s, type, sender, amount) EXCEPT
                   ![s][type][recipient] = balance[s][type][recipient] + amount]
  /\ ledger' = IF IsCollateralOf(s, sender) THEN BothAccrued(rcomp) ELSE ledger
  /\ UNCHANGED <<collateralSilo, loans, price, blocks>>

\* transfer and transferFrom of a collateral or protected share token
TransferCollateral(s, type, sender, recipient, amount, rcomp) ==
  /\ amount # 0
  /\ amount <= balance[s][type][sender]
  /\ balance' = Transferred(balance, s, type, sender, recipient, amount)
  /\ ledger' = IF IsCollateralOf(s, sender) THEN BothAccrued(rcomp) ELSE ledger
  /\ UNCHANGED <<collateralSilo, loans, price, blocks>>
  /\ IsCollateralOf(s, sender) => Solvent(sender)'

\* The recipient is taken for a new debtor: any other debt and the collateral
\* behind it are overlooked.
FaultyTransferDebt(s, sender, recipient, amount, rcomp) ==
  /\ amount # 0
  /\ amount <= balance[s]["Debt"][sender]
  /\ collateralSilo' = [collateralSilo EXCEPT ![recipient] = collateralSilo[sender]]
  /\ balance' = Transferred(balance, s, "Debt", sender, recipient, amount)
  /\ ledger' = BothAccrued(rcomp)
  /\ UNCHANGED <<loans, price, blocks>>
  /\ Solvent(recipient)'

\* transfer and transferFrom of a debt share token, with onDebtTransfer
TransferDebt(s, sender, recipient, amount, rcomp) ==
  /\ amount # 0
  /\ amount <= balance[s]["Debt"][sender]
  /\ ~HasDebt(recipient, OtherSilo(s))
  /\ collateralSilo' =
       IF collateralSilo[recipient] = NoSilo
       THEN [collateralSilo EXCEPT ![recipient] = collateralSilo[sender]]
       ELSE collateralSilo
  /\ balance' = Transferred(balance, s, "Debt", sender, recipient, amount)
  /\ ledger' = BothAccrued(rcomp)
  /\ UNCHANGED <<loans, price, blocks>>
  /\ Solvent(recipient)'

\* accrueInterest
Accrue(s, rcomp) ==
  /\ ledger' = [ledger EXCEPT ![s] = AccrueInterest(@, rcomp)]
  /\ UNCHANGED <<balance, collateralSilo, loans, price, blocks>>

WithdrawFees(s, rcomp) ==
  LET l == AccrueInterest(ledger[s], rcomp)
  IN  /\ CanWithdrawFees(l)
      /\ ledger' = [ledger EXCEPT ![s] = FeesWithdrawn(l)]
      /\ UNCHANGED <<balance, collateralSilo, loans, price, blocks>>

-----------------------------------------------------------------------------

\* flashLoan up to the call of onFlashLoan
BeginFlashLoan(s, amount) ==
  LET fee == FlashFee(amount, FlashloanFee)
  IN  /\ Len(loans) < MaxLoanDepth
      /\ CanFlashLoan(ledger[s], amount)
      /\ ledger' = [ledger EXCEPT ![s] = FlashLent(@, amount)]
      /\ loans' = Append(loans,
           [silo |-> s, amount |-> amount, fee |-> fee,
            owed |-> [t \in Silos |-> Owed(t) + IF t = s THEN amount + fee ELSE 0]])
      /\ UNCHANGED <<balance, collateralSilo, price, blocks>>

\* The fee stays with the receiver.
FaultyEndFlashLoan ==
  LET loan == loans[Len(loans)]
  IN  /\ loans # <<>>
      /\ CanReceive(loan.silo, ledger[loan.silo], loan.amount)
      /\ ledger' = [ledger EXCEPT ![loan.silo] = Received(@, loan.amount)]
      /\ loans' = SubSeq(loans, 1, Len(loans) - 1)
      /\ UNCHANGED <<balance, collateralSilo, price, blocks>>

\* flashLoan from the return of onFlashLoan
EndFlashLoan ==
  LET loan == loans[Len(loans)]
  IN  /\ loans # <<>>
      /\ CanReceive(loan.silo, ledger[loan.silo], loan.amount + loan.fee)
      /\ ledger' = [ledger EXCEPT ![loan.silo] = Received(@, loan.amount + loan.fee)]
      /\ loans' = SubSeq(loans, 1, Len(loans) - 1)
      /\ UNCHANGED <<balance, collateralSilo, price, blocks>>

\* A plain token transfer to a Silo
Donate(s, amount) ==
  /\ amount # 0
  /\ CanReceive(s, ledger[s], amount)
  /\ ledger' = [ledger EXCEPT ![s] = Donated(@, amount)]
  /\ UNCHANGED <<balance, collateralSilo, loans, price, blocks>>

\* block.timestamp moves on, between transactions only, and the oracles with it
NewBlock ==
  /\ loans = <<>>
  /\ blocks < MaxBlocks
  /\ \E s \in Silos : ledger[s].clock = "now"
  /\ ledger' = [s \in Silos |->
       [ledger[s] EXCEPT !.clock = IF @ = "never" THEN "never" ELSE "stale"]]
  /\ price' \in Quotes
  /\ blocks' = blocks + 1
  /\ UNCHANGED <<balance, collateralSilo, loans>>

SiloNext(s) ==
  \/ \E u \in Users, in \in Inputs(s), r \in Rcomps :
       \/ \E type \in CollateralType : Deposit(s, u, type, in, r)
       \/ Repay(s, u, in, r)
  \/ \E u \in Users, in \in Inputs(s), r \in [Silos -> Rcomps] :
       \/ \E type \in CollateralType : Withdraw(s, u, type, in, r)
       \/ Borrow(s, u, in, r)
  \/ \E u \in Users, type \in CollateralType, n \in ShareInputs[s], r \in [Silos -> Rcomps] :
       TransitionCollateral(s, u, type, n, r)
  \/ \E u, v \in Users, n \in TransferInputs[s], r \in [Silos -> Rcomps] :
       \/ \E type \in CollateralType : TransferCollateral(s, type, u, v, n, r)
       \/ TransferDebt(s, u, v, n, r)
  \/ \E r \in Rcomps : Accrue(s, r) \/ WithdrawFees(s, r)
  \/ \E n \in FlashInputs[s] : BeginFlashLoan(s, n)
  \/ \E n \in DonationInputs[s] : Donate(s, n)

Next == (\E s \in Silos : SiloNext(s)) \/ EndFlashLoan \/ NewBlock

Spec == Init /\ [][Next]_vars

-----------------------------------------------------------------------------

\* Type invariant.  Every total, balance and remainder stays a natural number,
\* so no checked subtraction of the code underflows, and the collateral total
\* stays within uint256, which its interest cap relies on.
TypeOK ==
  /\ ledger \in [Silos -> Ledger]
  /\ \A s \in Silos : ledger[s].assets["Collateral"] <= MaxUint
  /\ balance \in [Silos -> [AssetType -> [Users -> Nat]]]
  /\ collateralSilo \in [Users -> Silos \cup {NoSilo}]
  /\ loans \in Seq(FlashLoan)
  /\ price \in [Silos -> Nat \ {0}]
  /\ blocks \in 0 .. MaxBlocks

\* The books agree with the tokens, to the unit, over any sequence of calls:
\* what a Silo holds, is owed by flash loans and has lent is what it owes to
\* depositors, dao and deployer, plus the tokens it never books.
CashAccounted ==
  \A s \in Silos :
    LET l == ledger[s]
    IN  l.cash + Owed(s) + l.assets["Debt"]
          = l.assets["Protected"] + l.assets["Collateral"] + l.revenue + l.surplus

\* Debt never outgrows what it was lent from, although all the interest is
\* added to the debt and only a part of it to the collateral.
DebtCovered ==
  \A s \in Silos :
    ledger[s].assets["Debt"]
      <= ledger[s].assets["Collateral"] + ledger[s].revenue + ledger[s].surplus

\* Outside of a flash loan every unit that getLiquidity answers can be paid
\* without touching protected deposits or the booked fees, whatever was lent,
\* flash lent or paid out before: what each withdrawal, loan and withdrawal of
\* fees relies on, and BASE_INVARIANT_E and _F of the repository's tests.
LiquidityFunded ==
  \A s \in Silos : Owed(s) = 0 =>
    LET l == ledger[s]
    IN  /\ l.assets["Protected"] <= l.cash
        /\ LedgerLiquidity(l) <= Liquidity(l.cash, l.assets["Protected"] + l.revenue)

\* One share of debt is worth at least one asset and the last share carries the
\* last asset.  So RepayTooHigh cannot occur, no conversion of debt divides by
\* zero, and a debt of no share has no asset nobody owes.
DebtSharesCovered ==
  \A s \in Silos :
    /\ ledger[s].supply["Debt"] <= ledger[s].assets["Debt"]
    /\ ledger[s].supply["Debt"] = 0 => ledger[s].assets["Debt"] = 0

\* What all users together have of something.
Total(amounts) == MapThenSumSet(LAMBDA u : amounts[u], Users)

\* The balances of a share token add up to its total supply: no operation
\* moves one without the other.
SupplyIsSum ==
  \A s \in Silos, t \in AssetType : ledger[s].supply[t] = Total(balance[s][t])

\* What all the depositors of a Silo may claim together, each rounded for
\* himself, is booked; and no debtor is asked for more than what is booked.
ClaimsCovered ==
  \A s \in Silos :
    /\ \A t \in CollateralType :
         Total([u \in Users |-> AssetsOf(u, s, t, Floor)]) <= ledger[s].assets[t]
    /\ \A u \in Users : AssetsOf(u, s, "Debt", Ceil) <= ledger[s].assets["Debt"]

\* A user never owes to both Silos, whichever way the debts came, by borrowing
\* or by receiving debt shares; getDebtSilo would revert for such a user.
NoDebtInBothSilos ==
  \A u \in Users : ~(HasDebt(u, Silo0) /\ HasDebt(u, Silo1))

\* Whoever owes has a collateral Silo, so that every solvency check finds the
\* configuration it asks for; the recipient of a debt transfer included.
DebtHasCollateralSilo ==
  \A u \in Users : (\E s \in Silos : HasDebt(u, s)) => collateralSilo[u] \in Silos

\* The value of a share of deposit never falls while anybody holds one, in no
\* call, and not through the rounding of any conversion.
SharePriceNeverFalls ==
  [][\A s \in Silos, t \in CollateralType :
       LET assets(l) == CommonAssets(l.assets[t], l.supply[t], t)
           shares(l) == CommonShares(l.supply[t], t)
       IN  \/ ledger'[s].supply[t] = 0
           \/ assets(ledger[s]) * shares(ledger'[s]) <= assets(ledger'[s]) * shares(ledger[s])
    ]_vars

\* No interest of this or an earlier block is left to be charged.
BooksCurrent == \A s \in Silos : ledger[s].clock = "now"

\* Nobody gets out of a step with more debt shares, or with fewer shares of
\* collateral behind a debt, and insolvent or solvent only on old books: by borrowing,
\* withdrawing, moving between the collateral types or transferring shares of
\* either kind.  The interest of both Silos counts.
OwnRiskLeavesSolvent ==
  [][\A u \in Users, s \in Silos :
       \/ balance'[s]["Debt"][u] > balance[s]["Debt"][u]
       \/ /\ IsCollateralOf(s, u)
          /\ \E t \in CollateralType : balance'[s][t][u] < balance[s][t][u]
       => Solvent(u)' /\ BooksCurrent'
    ]_vars

\* Apart from the passing of time and the price nothing makes a healthy user
\* insolvent: no call of his own and none of anybody else, be it through the
\* rounding of a conversion, a transfer of debt or a withdrawal.
HealthKept ==
  [][\A u \in Users :
       (\A s \in Silos : ledger[s].clock # "stale") /\ price' = price /\ Solvent(u)
         => Solvent(u)'
    ]_vars

\* The collateral behind a debt is not exchanged while the debt lasts: only a
\* debt that was backed by the Silo it is owed to is moved, by a new loan.
DebtPinsCollateral ==
  [][\A u \in Users, s \in Silos :
       HasDebt(u, s) /\ HasDebt(u, s)' /\ collateralSilo[u] # s
         => collateralSilo'[u] = collateralSilo[u]
    ]_vars

=============================================================================
