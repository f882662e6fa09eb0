--------------------------- MODULE MCGaugeRollout ---------------------------
(***************************************************************************)
(* Small instances of GaugeRollout for TLC: a market with two collateral   *)
(* silos and one with a single one.                                        *)
(***************************************************************************)
EXTENDS GaugeRollout

CONSTANTS m1, m2

TwoMarkets == <<m1, m2>>
OneMarket == <<m1>>
FirstTwoSilo == {m1}
NoTwoSilo == {}

\* The rollout itself; one in which simulations run and bundles are executed; the
\* same with scripts that are interrupted; and failed records synchronised as well.
Rollouts ==
    {{}, {"dry", "execute"}, {"dry", "execute", "crash"}, {"dry", "sync", "execute", "crash"}}
PlainRollout == {{}}
Faults == [c \in Rollouts |-> IF c = {} THEN 3 ELSE 1]
OneFault == [c \in PlainRollout |-> 1]

\* The names of the tokens put the keys of silo 0 last.
Silo0Last == [m \in Markets |-> 0]

=============================================================================
