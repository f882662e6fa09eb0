------------------------------ MODULE KinkConfig ------------------------------
(***************************************************************************)
(* The configuration of DynamicKinkModel (interestRateModel/kink).  The    *)
(* owner replaces it with the delay of an immutable timelock.  The new one *)
(* comes into force by the mere passing of time, while the Silo accrues    *)
(* interest and moves the slope k of the one in force, or is cancelled.    *)
(* What the rates are computed to does not matter here: an accrual leaves  *)
(* some k between the limits of the configuration it was done with.        *)
(***************************************************************************)
EXTENDS Naturals, Sequences

CONSTANTS
    Limits,         \* pairs kmin, kmax that pass verifyConfig
    configTimelock, \* of the immutable configuration
    Nothing,        \* no configuration is pending
    MaxUpdates,     \* bound: configurations made
    MaxTime         \* bound of the clock

KinkAssumption ==
    /\ \A l \in Limits : l.kmin \in Nat /\ l.kmax \in Nat /\ l.kmin <= l.kmax
    /\ configTimelock \in Nat /\ MaxUpdates \in Nat /\ MaxTime \in Nat
    /\ Nothing \notin [value : Nat, validAt : Nat]

VARIABLES
    clock,
    configs,            \* the configurations made; one is named by its number
    configsHistory,     \* by configuration, k and configuration before it
    irmConfig,          \* _irmConfig: in force or pending
    k,                  \* _modelState.k, of irmConfig
    activateConfigAt

vars == <<clock, configs, configsHistory, irmConfig, k, activateConfigAt>>

NoHistory == [k |-> 0, irmConfig |-> 0]

\* initialize
Init ==
    /\ clock = 1 /\ activateConfigAt = 1
    /\ configs \in {<<l>> : l \in Limits}
    /\ configsHistory = <<NoHistory>>
    /\ irmConfig = 1 /\ k = configs[1].kmin

-----------------------------------------------------------------------------
pendingConfigExists == activateConfigAt > clock

\* irmConfig() and modelState(): what the Silo is charged by
ConfigInForce == IF pendingConfigExists THEN configsHistory[irmConfig].irmConfig ELSE irmConfig
KInForce == IF pendingConfigExists THEN configsHistory[irmConfig].k ELSE k

updateConfig ==
    /\ ~pendingConfigExists /\ Len(configs) < MaxUpdates
    /\ \E l \in Limits :
         /\ configs' = Append(configs, l)
         /\ k' = l.kmin
    /\ activateConfigAt' = clock + configTimelock
    /\ configsHistory' = Append(configsHistory, [k |-> k, irmConfig |-> irmConfig])
    /\ irmConfig' = Len(configs')
    /\ UNCHANGED clock

\* The configuration is restored and the slope is not.
FaultyCancelPendingUpdateConfig ==
    /\ pendingConfigExists
    /\ irmConfig' = configsHistory[irmConfig].irmConfig
    /\ configsHistory' = [configsHistory EXCEPT ![irmConfig] = NoHistory]
    /\ activateConfigAt' = 0
    /\ UNCHANGED <<clock, configs, k>>

cancelPendingUpdateConfig ==
    /\ pendingConfigExists
    /\ irmConfig' = configsHistory[irmConfig].irmConfig
    /\ k' = configsHistory[irmConfig].k
    /\ configsHistory' = [configsHistory EXCEPT ![irmConfig] = NoHistory]
    /\ activateConfigAt' = 0
    /\ UNCHANGED <<clock, configs>>

\* _capK of what compoundInterestRate answers
NewK(config) == configs[config].kmin .. configs[config].kmax

getCompoundInterestRateAndUpdate ==
    /\ \E newK \in NewK(ConfigInForce) :
         IF pendingConfigExists
         THEN configsHistory' = [configsHistory EXCEPT ![irmConfig].k = newK] /\ k' = k
         ELSE k' = newK /\ UNCHANGED configsHistory
    /\ UNCHANGED <<clock, configs, irmConfig, activateConfigAt>>

Tick ==
    /\ clock < MaxTime /\ clock' = clock + 1
    /\ UNCHANGED <<configs, configsHistory, irmConfig, k, activateConfigAt>>

Next ==
    \/ updateConfig \/ cancelPendingUpdateConfig
    \/ getCompoundInterestRateAndUpdate
    \/ Tick

Spec == Init /\ [][Next]_vars

-----------------------------------------------------------------------------
\* The configuration in force is replaced after the timelock only, and a cancelled
\* one never comes into force.
Never(old, new) == FALSE

ConfigNotice == INSTANCE Timelock WITH
    MinNotice <- configTimelock, Harmless <- Never,
    notice <- configTimelock, value <- ConfigInForce,
    pending <- IF pendingConfigExists THEN [value |-> irmConfig, validAt |-> activateConfigAt] ELSE Nothing

ImplementsTimelock == ConfigNotice!Spec

\* The slope in use stays within the limits of the configuration in use, and that of
\* a pending one waits at its minimum: however accruals, cancellations and the
\* silent activation follow each other, no slope is carried from one configuration
\* to another.
SlopeOfConfigInForce ==
    /\ KInForce \in NewK(ConfigInForce)
    /\ pendingConfigExists => k = configs[irmConfig].kmin

=============================================================================
