----------------------------- MODULE MCTimelocks -----------------------------
(***************************************************************************)
(* Small instances of Timelocks for TLC: the governance of a vault with    *)
(* one market, and the funds of one with two.                              *)
(***************************************************************************)
EXTENDS Timelocks, TLC

CONSTANTS m, m1, m2, guard, keeper, feed, feed2, alice, bob

MCMarketsOf == [roles |-> {m}, funds |-> {m1, m2}]
MCGuardiansOf == [roles |-> {guard, keeper}, funds |-> {}]
MCTimelocksOf == [roles |-> {1, 2}, funds |-> {1}]
MCCapsOf == [roles |-> {0, 1, 2}, funds |-> {0}]
MCAmountsOf == [roles |-> {1}, funds |-> {1, 2}]
MCRatesOf == [roles |-> {0, 1}, funds |-> {1, 2}]
MCSyncsOf == [roles |-> {}, funds |-> {}]
MCMaxSharesOf == [roles |-> 1, funds |-> 2]
MCMaxTimeOf == [roles |-> 4, funds |-> 2]

MCLimits == {[kmin |-> 0, kmax |-> 1], [kmin |-> 2, kmax |-> 3]}

SameMarkets == Permutations({m1, m2})

=============================================================================
