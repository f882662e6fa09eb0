-------------------------- MODULE MCSiloLiquidation --------------------------
(***************************************************************************)
(* Small instances of SiloLiquidation for TLC.                             *)
(***************************************************************************)
EXTENDS SiloLiquidation, TLC

BySilo(x, y) == (Silo0 :> x) @@ (Silo1 :> y)

None == BySilo({}, {})

UserSymmetry == Permutations(Users \ {Controller})

\* Silo0 is the collateral and Silo1 lends, so debts may be defaulted.
OneWayMaxLtv == BySilo(75, 0)
OneWayThreshold == BySilo(80, 0)
OneWayTarget == BySilo(70, 0)
OneWayFee == BySilo(5, 0)
OneWayPrices == BySilo({3}, {9,11})
OneWaySupply == BySilo(30, 7)
OneWayAssets == BySilo({30}, {7})
OneWayTransfers == BySilo({90}, {})

\* Shares of a and b, nobody else has any
Held(a, b, x, y) == [u \in Users |-> IF u = a THEN x ELSE IF u = b THEN y ELSE 0]

\* Twenty units of Silo0 were deposited as collateral and ten protected, 65 shares
\* of the collateral redeemed for six units, rounded down, and six units deposited
\* again for 58 shares: from here the value of a share is no round number.
Redeemed ==
  \E a, b \in Users \ {Controller} : a # b /\
    /\ ledger =
         BySilo([EmptyLedger EXCEPT !.assets = [Protected |-> 10, Collateral |-> 20, Debt |-> 0],
                                    !.supply = [Protected |-> 100, Collateral |-> 193, Debt |-> 0],
                                    !.clock = "now", !.cash = 30],
                [EmptyLedger EXCEPT !.assets["Collateral"] = 7, !.supply["Collateral"] = 70,
                                    !.clock = "now", !.cash = 7])
    /\ balance =
         BySilo([Protected |-> Held(a, b, 100, 0), Collateral |-> Held(a, b, 193, 0), Debt |-> Held(a, b, 0, 0)],
                [Protected |-> Held(a, b, 0, 0), Collateral |-> Held(a, b, 0, 70), Debt |-> Held(a, b, 0, 0)])
    /\ collateralSilo = [u \in Users |-> NoSilo]
    /\ loans = <<>>
    /\ price \in Quotes
    /\ blocks = 0

\* Deposits of 27 and seven units and a loan of three; then the interest of a long
\* time, another three units: a share of the debt is worth two units.
LongLoan ==
  \E a, b \in Users \ {Controller} : a # b /\
    /\ ledger =
         BySilo([EmptyLedger EXCEPT !.assets["Collateral"] = 27, !.supply["Collateral"] = 270,
                                    !.clock = "now", !.cash = 27],
                [EmptyLedger EXCEPT !.assets = [Protected |-> 0, Collateral |-> 9, Debt |-> 6],
                                    !.supply = [Protected |-> 0, Collateral |-> 70, Debt |-> 3],
                                    !.clock = "now", !.revenue = 1, !.cash = 4])
    /\ balance =
         BySilo([Protected |-> Held(a, b, 0, 0), Collateral |-> Held(a, b, 270, 0), Debt |-> Held(a, b, 0, 0)],
                [Protected |-> Held(a, b, 0, 0), Collateral |-> Held(a, b, 0, 70), Debt |-> Held(a, b, 3, 0)])
    /\ collateralSilo = [u \in Users |-> IF u = a THEN Silo0 ELSE NoSilo]
    /\ loans = <<>>
    /\ price \in Quotes
    /\ blocks = 0

OneWaySpec == (Init \/ Redeemed \/ LongLoan) /\ [][LiquidationNext]_vars

\* Both Silos are collateral, and a unit of Silo1 is worth two of Silo0.
TwoWayMaxLtv == BySilo(75, 75)
TwoWayThreshold == BySilo(80, 80)
TwoWayTarget == BySilo(70, 70)
TwoWayFee == BySilo(5, 5)
TwoWayPrices == BySilo({10}, {16, 20})
TwoWaySupply == BySilo(20, 7)

\* Each user has borrowed from the other one's Silo: three deposits of ten, ten
\* and seven units, and loans of seven and of ten.
TwoLoans ==
  \E a, b \in Users : a # b /\
  /\ ledger =
       BySilo([EmptyLedger EXCEPT !.assets = [Protected |-> 10, Collateral |-> 10, Debt |-> 10],
                                  !.supply = [Protected |-> 100, Collateral |-> 100, Debt |-> 10],
                                  !.clock = "now", !.cash = 10],
              [EmptyLedger EXCEPT !.assets = [Protected |-> 0, Collateral |-> 7, Debt |-> 7],
                                  !.supply = [Protected |-> 0, Collateral |-> 70, Debt |-> 7],
                                  !.clock = "now"])
  /\ balance =
       BySilo([Protected |-> Held(a, b, 100, 0), Collateral |-> Held(a, b, 100, 0), Debt |-> Held(a, b, 0, 10)],
              [Protected |-> Held(a, b, 0, 0), Collateral |-> Held(a, b, 0, 70), Debt |-> Held(a, b, 7, 0)])
  /\ collateralSilo = [u \in Users |-> IF u = a THEN Silo0 ELSE Silo1]
  /\ loans = <<>>
  /\ price = BySilo(10, 20)
  /\ blocks = 0

TwoLoansSpec == TwoLoans /\ [][LiquidationNext]_vars

-----------------------------------------------------------------------------
(* What the repository says of the code, and the code does not do.         *)

\* "collateralToLiquidate underestimated amount of collateral liquidator will get",
\* for the debt that maxLiquidation answers (IPartialLiquidation.sol:86).  The debt
\* is rounded down to a whole unit before the collateral for it is computed.
MaxLiquidationIsDelivered ==
  \A u \in Users, d \in Silos : HasDebt(u, d) /\ Fresh =>
    LET promise == MaxLiquidation(u, collateralSilo[u], d)
    IN  promise.collateral <= DeliveredFor(u, collateralSilo[u], d, promise.debt)

=============================================================================
