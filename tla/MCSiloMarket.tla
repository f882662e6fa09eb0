---------------------------- MODULE MCSiloMarket ----------------------------
(***************************************************************************)
(* Small instances of SiloMarket for TLC.                                  *)
(***************************************************************************)
EXTENDS SiloMarket, TLC

BySilo(x, y) == (Silo0 :> x) @@ (Silo1 :> y)

UserSymmetry == Permutations(Users)

\* One unit of collateral of Silo0 is worth four of Silo1.
MCMaxLtv == BySilo(8, 8)
MCLiquidationThreshold == BySilo(9, 9)
OnePrice == BySilo({4}, {1})

None == BySilo({}, {})

\* Silo1 lends; a single unit of Silo0 is the collateral.
LendingSupply == BySilo(1, 3)
LendingAssets == BySilo({1}, {3})
LendingShares == BySilo({}, {3})

\* Silo1 lends flash loans as well.
FlashSupply == BySilo(1, 4)
FlashAssets == BySilo({1}, {2})
FlashShares == None
FlashAmounts == BySilo({}, {1, 2})
FlashDonations == BySilo({}, {1})

\* Both Silos lend, at moving prices, and shares of all kinds change hands.
TwoPrices == BySilo({1, 4}, {2})
LowMaxLtv == BySilo(5, 5)
LowLiquidationThreshold == BySilo(6, 6)
TradedSupply == BySilo(1, 2)
TradedAssets == BySilo({1}, {1})
TradedShares == BySilo({1}, {})
TradedTransfers == BySilo({1}, {1})

-----------------------------------------------------------------------------
(* What the repository says of the code, and the code does not do.         *)

\* "`_protectedAssets` is always less/equal `siloBalance`", the comment in
\* withdrawFees (Actions.sol:383).  Inside the callback of a flash loan a loan
\* may take the cash behind the protected deposits; the code clips to zero.
ProtectedNeverAboveBalance ==
  \A s \in Silos : ledger[s].assets["Protected"] <= ledger[s].cash

=============================================================================
