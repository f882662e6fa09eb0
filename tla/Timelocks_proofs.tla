--------------------------- MODULE Timelocks_proofs ---------------------------
(***************************************************************************)
(* What the contracts with delayed settings promise, for all parameters of *)
(* theirs: of the interest rate model and the manageable oracle proved     *)
(* here, of the vault in SiloVault_proofs, and of Timelocks from the three.*)
(***************************************************************************)
EXTENDS Timelocks, TLAPS

-----------------------------------------------------------------------------
(* The interest rate model                                                 *)

History == [k : Nat, irmConfig : Nat]

\* Every configuration made has a place in the history, and the configuration in
\* force or pending is one of them.
KinkTypes ==
    /\ clock \in Nat /\ activateConfigAt \in Nat /\ k \in Nat
    /\ configs \in Seq(Limits) /\ configsHistory \in Seq(History)
    /\ Len(configsHistory) = Len(configs)
    /\ irmConfig \in 1 .. Len(configs)

\* What comes back when the pending configuration is cancelled is a configuration
\* with a slope of its own; what is in force has such a slope.
SlopesOK ==
    IF Kink!pendingConfigExists
    THEN /\ configsHistory[irmConfig].irmConfig \in 1 .. Len(configs)
         /\ configsHistory[irmConfig].k \in Kink!NewK(configsHistory[irmConfig].irmConfig)
         /\ k = configs[irmConfig].kmin
    ELSE k \in Kink!NewK(irmConfig)

KinkInv == KinkTypes /\ SlopesOK

-----------------------------------------------------------------------------
\* The limits of a configuration hold its minimum.
LEMMA LimitsOfConfig ==
    ASSUME Kink!KinkAssumption, KinkTypes, NEW c \in 1 .. Len(configs)
    PROVE  /\ configs[c] \in Limits
           /\ configs[c].kmin \in Nat /\ configs[c].kmax \in Nat
           /\ configs[c].kmin \in Kink!NewK(c) /\ Kink!NewK(c) \subseteq Nat
<1>1. configs[c] \in Limits
  BY DEF KinkTypes
<1> QED
  BY <1>1 DEF Kink!KinkAssumption, Kink!NewK

\* The configuration of initialize starts with its own minimum.
LEMMA InitKink == Kink!KinkAssumption /\ Kink!Init => KinkInv
<1> SUFFICES ASSUME Kink!KinkAssumption, Kink!Init PROVE KinkInv
  OBVIOUS
<1>1. PICK l \in Limits : configs = <<l>>
  BY DEF Kink!Init
<1>2. l.kmin \in Nat /\ l.kmax \in Nat /\ l.kmin <= l.kmax
  BY DEF Kink!KinkAssumption
<1>3. Kink!NoHistory \in History /\ configsHistory = <<Kink!NoHistory>>
  BY DEF Kink!NoHistory, History, Kink!Init
<1>4. KinkTypes
  BY <1>1, <1>2, <1>3 DEF KinkTypes, Kink!Init
<1> QED
  BY <1>1, <1>2, <1>4 DEF KinkInv, SlopesOK, Kink!Init, Kink!pendingConfigExists, Kink!NewK

\* An update keeps the way back, and its own slope waits at the minimum.
LEMMA UpdateKink == Kink!KinkAssumption /\ KinkInv /\ Kink!updateConfig => KinkInv'
<1> SUFFICES ASSUME Kink!KinkAssumption, KinkInv, Kink!updateConfig PROVE KinkInv'
  OBVIOUS
<1> USE DEF KinkInv
<1>1. PICK l \in Limits : configs' = Append(configs, l) /\ k' = l.kmin
  BY DEF Kink!updateConfig
<1>2. l.kmin \in Nat /\ l.kmax \in Nat /\ l.kmin <= l.kmax
  BY DEF Kink!KinkAssumption
<1> DEFINE n == Len(configs)
           h == [k |-> k, irmConfig |-> irmConfig]
<1>3. n \in Nat /\ irmConfig \in 1 .. n
  BY DEF KinkTypes
<1>4. /\ configs' \in Seq(Limits) /\ Len(configs') = n + 1 /\ configs'[n + 1] = l
      /\ \A c \in 1 .. n : configs'[c] = configs[c]
  BY <1>1 DEF KinkTypes
<1>5. h \in History
  BY DEF KinkTypes, History
<1>6. /\ configsHistory' \in Seq(History) /\ Len(configsHistory') = n + 1
      /\ configsHistory'[n + 1] = h
  <2>1. configsHistory' = Append(configsHistory, h)
    BY DEF Kink!updateConfig
  <2>2. configsHistory \in Seq(History) /\ Len(configsHistory) = n
    BY DEF KinkTypes
  <2> HIDE DEF h, n
  <2> QED
    BY <1>3, <1>5, <2>1, <2>2
<1>7. irmConfig' = n + 1 /\ clock' = clock /\ activateConfigAt' = clock + configTimelock
  BY <1>4 DEF Kink!updateConfig
<1>8. KinkTypes'
  BY <1>1, <1>2, <1>3, <1>4, <1>6, <1>7 DEF KinkTypes, Kink!KinkAssumption
<1>9. k \in Kink!NewK(irmConfig)
  BY DEF SlopesOK, Kink!updateConfig
<1>11. CASE Kink!pendingConfigExists'
  <2>1. configsHistory'[irmConfig'] = h /\ configs'[irmConfig'] = l
    BY <1>4, <1>6, <1>7
  <2>2. h.irmConfig = irmConfig /\ h.k = k
    OBVIOUS
  <2>3. configsHistory'[irmConfig'].irmConfig \in 1 .. Len(configs')
    BY <2>1, <2>2, <1>3, <1>4
  <2>4. k \in configs'[irmConfig].kmin .. configs'[irmConfig].kmax
    <3>1. k \in configs[irmConfig].kmin .. configs[irmConfig].kmax
      BY <1>9 DEF Kink!NewK
    <3> QED
      BY <3>1, <1>3, <1>4
  <2> QED
    BY <1>1, <1>8, <1>11, <2>1, <2>2, <2>3, <2>4 DEF SlopesOK, Kink!NewK
<1>12. CASE ~Kink!pendingConfigExists'
  BY <1>1, <1>2, <1>4, <1>7, <1>8, <1>12 DEF SlopesOK, Kink!NewK
<1> QED
  BY <1>11, <1>12

\* A cancellation takes the way back, with the slope that accruals have left there.
LEMMA CancelKink == Kink!KinkAssumption /\ KinkInv /\ Kink!cancelPendingUpdateConfig => KinkInv'
<1> SUFFICES ASSUME Kink!KinkAssumption, KinkInv, Kink!cancelPendingUpdateConfig PROVE KinkInv'
  OBVIOUS
<1> USE DEF KinkInv
<1>1. /\ configsHistory[irmConfig].irmConfig \in 1 .. Len(configs)
      /\ configsHistory[irmConfig].k \in Kink!NewK(configsHistory[irmConfig].irmConfig)
  BY DEF SlopesOK, Kink!cancelPendingUpdateConfig
<1>2. configsHistory[irmConfig].k \in Nat
  BY <1>1, LimitsOfConfig
<1>3. Kink!NoHistory \in History
  BY DEF Kink!NoHistory, History
<1>4. configsHistory' \in Seq(History) /\ Len(configsHistory') = Len(configsHistory)
  BY <1>3 DEF KinkTypes, Kink!cancelPendingUpdateConfig
<1>5. KinkTypes'
  BY <1>1, <1>2, <1>4 DEF KinkTypes, Kink!cancelPendingUpdateConfig
<1>6. ~Kink!pendingConfigExists'
  BY DEF KinkTypes, Kink!cancelPendingUpdateConfig, Kink!pendingConfigExists
<1> QED
  BY <1>1, <1>5, <1>6 DEF SlopesOK, Kink!cancelPendingUpdateConfig, Kink!NewK

\* An accrual changes the slope of the configuration in force, wherever it is kept.
LEMMA AccrueKink ==
    Kink!KinkAssumption /\ KinkInv /\ Kink!getCompoundInterestRateAndUpdate
        => KinkInv'
<1> SUFFICES ASSUME Kink!KinkAssumption, KinkInv, Kink!getCompoundInterestRateAndUpdate
             PROVE  KinkInv'
  OBVIOUS
<1> USE DEF KinkInv
<1>0. UNCHANGED <<clock, configs, irmConfig, activateConfigAt>>
  BY DEF Kink!getCompoundInterestRateAndUpdate
<1>1. CASE Kink!pendingConfigExists
  <2>1. PICK newK \in Kink!NewK(configsHistory[irmConfig].irmConfig) :
           configsHistory' = [configsHistory EXCEPT ![irmConfig].k = newK] /\ k' = k
    BY <1>1 DEF Kink!getCompoundInterestRateAndUpdate, Kink!ConfigInForce
  <2> DEFINE h == configsHistory[irmConfig]
             g == configsHistory'[irmConfig]
  <2>2. irmConfig \in 1 .. Len(configsHistory) /\ h \in History
    BY DEF KinkTypes
  <2>3. g.k = newK /\ g.irmConfig = h.irmConfig
    BY <2>1, <2>2 DEF KinkTypes, History
  <2>4. newK \in Nat
    BY <1>1, <2>1, LimitsOfConfig DEF SlopesOK
  <2>5. [h EXCEPT !.k = newK] \in History
    BY <2>2, <2>4 DEF History
  <2>6. configsHistory' \in Seq(History) /\ Len(configsHistory') = Len(configsHistory)
    BY <2>1, <2>2, <2>5 DEF KinkTypes
  <2>7. KinkTypes'
    BY <1>0, <2>1, <2>6 DEF KinkTypes
  <2> QED
    BY <1>0, <1>1, <2>1, <2>3, <2>7 DEF SlopesOK, Kink!pendingConfigExists, Kink!NewK
<1>2. CASE ~Kink!pendingConfigExists
  <2>1. k' \in Kink!NewK(irmConfig) /\ configsHistory' = configsHistory
    BY <1>2 DEF Kink!getCompoundInterestRateAndUpdate, Kink!ConfigInForce
  <2>2. k' \in Nat
    BY <2>1, LimitsOfConfig DEF KinkTypes
  <2> QED
    BY <1>0, <1>2, <2>1, <2>2 DEF KinkTypes, SlopesOK, Kink!pendingConfigExists, Kink!NewK
<1> QED
  BY <1>1, <1>2

\* Time alone puts the pending configuration into force, with the slope that waited.
LEMMA TickKink == Kink!KinkAssumption /\ KinkInv /\ Kink!Tick => KinkInv'
<1> SUFFICES ASSUME Kink!KinkAssumption, KinkInv, Kink!Tick PROVE KinkInv'
  OBVIOUS
<1> USE DEF KinkInv
<1>1. /\ clock' = clock + 1
      /\ UNCHANGED <<configs, configsHistory, irmConfig, k, activateConfigAt>>
  BY DEF Kink!Tick
<1>2. KinkTypes'
  BY <1>1 DEF KinkTypes
<1>3. Kink!pendingConfigExists' => Kink!pendingConfigExists
  BY <1>1 DEF KinkTypes, Kink!pendingConfigExists
<1>4. configs[irmConfig].kmin \in Kink!NewK(irmConfig)
  BY LimitsOfConfig DEF KinkTypes
<1> QED
  BY <1>1, <1>2, <1>3, <1>4 DEF SlopesOK, Kink!NewK

\* The invariant is about the variables of the model only.
LEMMA StutterKink == KinkInv /\ UNCHANGED Kink!vars => KinkInv'
  BY DEF KinkInv, KinkTypes, SlopesOK, Kink!pendingConfigExists, Kink!NewK, Kink!vars

\* In every state the configuration in force has a slope within its limits, whether
\* it is kept in the state or in the history of a pending one (getCompoundInterestRateAndUpdate).
LEMMA KinkKept == Kink!KinkAssumption /\ KinkInv /\ [Kink!Next]_(Kink!vars) => KinkInv'
BY UpdateKink, CancelKink, AccrueKink, TickKink, StutterKink DEF Kink!Next

LEMMA KinkInvariance == ASSUME Kink!KinkAssumption PROVE Kink!Spec => []KinkInv
BY InitKink, KinkKept, PTL DEF Kink!Spec

LEMMA KinkSlope == KinkInv => Kink!SlopeOfConfigInForce
BY DEF KinkInv, SlopesOK, Kink!SlopeOfConfigInForce, Kink!KInForce, Kink!ConfigInForce

-----------------------------------------------------------------------------
\* The announcement as Timelock sees it.
ConfigAnnounced ==
    IF Kink!pendingConfigExists THEN [value |-> irmConfig, validAt |-> activateConfigAt]
    ELSE Nothing

\* An announcement is a record and no Nothing.
LEMMA ConfigAnnouncedIsPending ==
    ASSUME Kink!KinkAssumption, KinkTypes
    PROVE  ConfigAnnounced = Nothing <=> ~Kink!pendingConfigExists
<1>1. [value |-> irmConfig, validAt |-> activateConfigAt] \in [value : Nat, validAt : Nat]
  BY DEF KinkTypes
<1> QED
  BY <1>1 DEF ConfigAnnounced, Kink!KinkAssumption

\* At first nothing is announced.
LEMMA InitConfigNotice == Kink!KinkAssumption /\ Kink!Init => Kink!ConfigNotice!Init
<1> SUFFICES ASSUME Kink!KinkAssumption, Kink!Init PROVE Kink!ConfigNotice!Init
  OBVIOUS
<1>1. ~Kink!pendingConfigExists
  BY DEF Kink!Init, Kink!pendingConfigExists
<1>2. configTimelock >= configTimelock
  BY DEF Kink!KinkAssumption
<1> QED
  BY <1>1, <1>2 DEF Kink!ConfigNotice!Init

\* An update is an announcement, or takes effect at once under a timelock of zero.
LEMMA UpdateNotice ==
    Kink!KinkAssumption /\ KinkInv /\ KinkInv' /\ Kink!updateConfig
        => Kink!ConfigNotice!Next
<1> SUFFICES ASSUME Kink!KinkAssumption, KinkInv, KinkInv', Kink!updateConfig
             PROVE  Kink!ConfigNotice!Next
  OBVIOUS
<1>1. /\ ~Kink!pendingConfigExists /\ clock' = clock
      /\ activateConfigAt' = clock + configTimelock
  BY DEF Kink!updateConfig
<1>2. irmConfig \in 1 .. Len(configs) /\ irmConfig' = Len(configs)' /\ configs' \in Seq(Limits)
  BY DEF KinkInv, KinkTypes, Kink!updateConfig
<1>3. configsHistory'[irmConfig'].irmConfig = irmConfig
  <2>1. /\ configsHistory' = Append(configsHistory, [k |-> k, irmConfig |-> irmConfig])
        /\ configsHistory \in Seq(History) /\ irmConfig' = Len(configs')
        /\ Len(configsHistory') = Len(configs') /\ configsHistory' \in Seq(History)
    BY DEF KinkInv, KinkTypes, Kink!updateConfig
  <2>2. configsHistory'[irmConfig'] = [k |-> k, irmConfig |-> irmConfig]
    BY <2>1
  <2> QED
    BY <2>2
<1>4. clock \in Nat /\ configTimelock \in Nat /\ clock' >= clock
  BY <1>1 DEF KinkInv, KinkTypes, Kink!KinkAssumption
<1>5. /\ (ConfigAnnounced = Nothing <=> ~Kink!pendingConfigExists)
      /\ (ConfigAnnounced = Nothing <=> ~Kink!pendingConfigExists)'
  <2>1. [value |-> irmConfig, validAt |-> activateConfigAt]' \in [value : Nat, validAt : Nat]
    BY DEF KinkInv, KinkTypes
  <2>2. (ConfigAnnounced = Nothing <=> ~Kink!pendingConfigExists)'
    BY <2>1 DEF ConfigAnnounced, Kink!KinkAssumption
  <2> QED
    BY <2>2, ConfigAnnouncedIsPending DEF KinkInv
<1>6. CASE Kink!pendingConfigExists'
  <2>1. Kink!ConfigInForce' = Kink!ConfigInForce
    BY <1>1, <1>3, <1>6 DEF Kink!ConfigInForce
  <2>2. ConfigAnnounced'.validAt >= clock + configTimelock
    BY <1>1, <1>4, <1>6 DEF ConfigAnnounced
  <2>3. Kink!ConfigNotice!Announce
    BY <1>1, <1>5, <1>6, <2>1, <2>2 DEF Kink!ConfigNotice!Announce, ConfigAnnounced
  <2> QED
    BY <1>4, <2>3 DEF Kink!ConfigNotice!Next
<1>7. CASE ~Kink!pendingConfigExists'
  <2>1. configTimelock = 0
    BY <1>1, <1>4, <1>7 DEF Kink!pendingConfigExists
  <2>2. Kink!ConfigNotice!Immediately
    BY <1>1, <1>7, <2>1 DEF Kink!ConfigNotice!Immediately
  <2> QED
    BY <1>4, <2>2 DEF Kink!ConfigNotice!Next
<1> QED
  BY <1>6, <1>7

\* A cancelled configuration never takes effect.
LEMMA CancelNotice ==
    Kink!KinkAssumption /\ KinkInv /\ Kink!cancelPendingUpdateConfig
        => Kink!ConfigNotice!Next
<1> SUFFICES ASSUME Kink!KinkAssumption, KinkInv, Kink!cancelPendingUpdateConfig
             PROVE  Kink!ConfigNotice!Next
  OBVIOUS
<1>1. Kink!pendingConfigExists /\ clock' = clock /\ clock \in Nat /\ activateConfigAt' = 0
  BY DEF KinkInv, KinkTypes, Kink!cancelPendingUpdateConfig
<1>2. ~Kink!pendingConfigExists'
  BY <1>1 DEF Kink!pendingConfigExists
<1>3. Kink!ConfigInForce' = Kink!ConfigInForce
  BY <1>1, <1>2 DEF Kink!ConfigInForce, Kink!cancelPendingUpdateConfig
<1>4. ConfigAnnounced # Nothing
  BY <1>1, ConfigAnnouncedIsPending DEF KinkInv
<1>5. Kink!ConfigNotice!Withdraw
  BY <1>1, <1>2, <1>3, <1>4 DEF Kink!ConfigNotice!Withdraw, ConfigAnnounced
<1>6. clock' >= clock /\ configTimelock >= configTimelock
  BY <1>1 DEF Kink!KinkAssumption
<1> QED
  BY <1>5, <1>6 DEF Kink!ConfigNotice!Next

\* An accrual under a pending configuration writes into its history and leaves the
\* way back as it was.
LEMMA AccrueNotice ==
    Kink!KinkAssumption /\ KinkInv /\ Kink!getCompoundInterestRateAndUpdate
        => Kink!ConfigNotice!Next
<1> SUFFICES ASSUME Kink!KinkAssumption, KinkInv, Kink!getCompoundInterestRateAndUpdate
             PROVE  Kink!ConfigNotice!Next
  OBVIOUS
<1>1. UNCHANGED <<clock, configs, irmConfig, activateConfigAt>> /\ clock \in Nat
  BY DEF Kink!getCompoundInterestRateAndUpdate, KinkInv, KinkTypes
<1>2. Kink!ConfigInForce' = Kink!ConfigInForce
  <2>1. CASE Kink!pendingConfigExists
    <3>1. PICK newK \in Kink!NewK(Kink!ConfigInForce) :
             configsHistory' = [configsHistory EXCEPT ![irmConfig].k = newK]
      BY <2>1 DEF Kink!getCompoundInterestRateAndUpdate
    <3>2. irmConfig \in 1 .. Len(configsHistory) /\ configsHistory[irmConfig] \in History
      BY DEF KinkInv, KinkTypes
    <3>3. configsHistory'[irmConfig].irmConfig = configsHistory[irmConfig].irmConfig
      BY <3>1, <3>2 DEF KinkInv, KinkTypes, History
    <3> QED
      BY <1>1, <2>1, <3>3 DEF Kink!ConfigInForce, Kink!pendingConfigExists
  <2>2. CASE ~Kink!pendingConfigExists
    BY <1>1, <2>2 DEF Kink!ConfigInForce, Kink!pendingConfigExists
  <2> QED
    BY <2>1, <2>2
<1>3. UNCHANGED ConfigAnnounced
  BY <1>1 DEF ConfigAnnounced, Kink!pendingConfigExists
<1>4. clock' >= clock /\ configTimelock >= configTimelock
  BY <1>1 DEF Kink!KinkAssumption
<1> QED
  BY <1>2, <1>3, <1>4 DEF Kink!ConfigNotice!Next, ConfigAnnounced

\* Time is what puts a configuration into force, and only once it is due.
LEMMA TickNotice == Kink!KinkAssumption /\ KinkInv /\ Kink!Tick => Kink!ConfigNotice!Next
<1> SUFFICES ASSUME Kink!KinkAssumption, KinkInv, Kink!Tick PROVE Kink!ConfigNotice!Next
  OBVIOUS
<1>1. /\ clock' = clock + 1 /\ clock \in Nat /\ activateConfigAt \in Nat
      /\ UNCHANGED <<configs, configsHistory, irmConfig, k, activateConfigAt>>
  BY DEF Kink!Tick, KinkInv, KinkTypes
<1>2. clock' >= clock /\ configTimelock >= configTimelock
  BY <1>1 DEF Kink!KinkAssumption
<1>3. CASE Kink!pendingConfigExists /\ ~Kink!pendingConfigExists'
  <2>1. clock' >= activateConfigAt
    BY <1>1, <1>3 DEF Kink!pendingConfigExists
  <2>2. /\ ConfigAnnounced # Nothing
        /\ ConfigAnnounced.value = irmConfig /\ ConfigAnnounced.validAt = activateConfigAt
    BY <1>3, ConfigAnnouncedIsPending DEF KinkInv, ConfigAnnounced
  <2>3. Kink!ConfigNotice!TakeEffect
    BY <1>1, <1>3, <2>1, <2>2 DEF Kink!ConfigNotice!TakeEffect, ConfigAnnounced, Kink!ConfigInForce
  <2> QED
    BY <1>2, <2>3 DEF Kink!ConfigNotice!Next
<1>4. CASE Kink!pendingConfigExists <=> Kink!pendingConfigExists'
  <2>1. UNCHANGED <<Kink!ConfigInForce, ConfigAnnounced>>
    BY <1>1, <1>4 DEF Kink!ConfigInForce, ConfigAnnounced
  <2> QED
    BY <1>2, <2>1 DEF Kink!ConfigNotice!Next, ConfigAnnounced
<1>5. Kink!pendingConfigExists' => Kink!pendingConfigExists
  BY <1>1 DEF Kink!pendingConfigExists
<1> QED
  BY <1>3, <1>4, <1>5

\* Every step of the configuration in force is one of Timelock.
LEMMA KinkNotice ==
    ASSUME Kink!KinkAssumption, KinkInv, KinkInv', Kink!Next
    PROVE  Kink!ConfigNotice!Next
BY UpdateNotice, CancelNotice, AccrueNotice, TickNotice DEF Kink!Next

\* The configuration in force implements Timelock: it is replaced by the one that was
\* announced, after the timelock, and by no other.
THEOREM ConfigImplementsTimelock ==
    ASSUME Kink!KinkAssumption PROVE Kink!Spec => Kink!ImplementsTimelock
<1>1. KinkInv /\ KinkInv' /\ [Kink!Next]_(Kink!vars)
        => [Kink!ConfigNotice!Next]_(Kink!ConfigNotice!vars)
  <2>1. UNCHANGED Kink!vars => UNCHANGED Kink!ConfigNotice!vars
    BY DEF Kink!vars, Kink!ConfigNotice!vars, Kink!ConfigInForce, Kink!pendingConfigExists
  <2> QED
    BY <2>1, KinkNotice
<1> QED
  BY InitConfigNotice, KinkInvariance, <1>1, PTL DEF Kink!Spec, Kink!ImplementsTimelock,
     Kink!ConfigNotice!Spec

-----------------------------------------------------------------------------
(* The manageable oracle                                                   *)

Change(values) == [value : values, validAt : Nat]

\* What is pending was proposed: an oracle that passed the verification, a timelock
\* that is long enough, an account or nobody.
PendingOK ==
    /\ pendingOracle \in Change(Oracles \cup {NoAddress})
    /\ pendingTimelock \in Change(Nat)
    /\ pendingOwnership \in Change(Accounts \cup {NoAddress})
    /\ pendingOracle.validAt # 0 => pendingOracle.value \in Oracles
    /\ pendingTimelock.validAt # 0 => pendingTimelock.value >= OracleMinTimelock

\* The inductive invariant.
OracleInv ==
    /\ clock \in Nat \ {0}
    /\ owner \in Accounts \cup {NoAddress} /\ oracle \in Oracles
    /\ timelock \in Nat /\ timelock >= OracleMinTimelock
    /\ PendingOK
    /\ Oracle!RenouncedIsFinal

-----------------------------------------------------------------------------
\* A change proposed now is due in the future.
LEMMA ChangeUpdated ==
    ASSUME Oracle!OracleAssumption, OracleInv, NEW S, NEW v \in S
    PROVE  /\ Oracle!update(v) \in Change(S) /\ Oracle!update(v).value = v
           /\ Oracle!update(v).validAt = clock + timelock /\ Oracle!update(v).validAt # 0
BY DEF Oracle!OracleAssumption, OracleInv, Oracle!update, Change

\* Nothing is pending.
LEMMA NonePending ==
    ASSUME NEW S
    PROVE  /\ Oracle!NoAddressPending \in Change(S \cup {NoAddress})
           /\ Oracle!NoAddressPending.validAt = 0
           /\ Oracle!NoTimelockPending \in Change(Nat) /\ Oracle!NoTimelockPending.validAt = 0
BY DEF Oracle!NoAddressPending, Oracle!NoTimelockPending, Change

\* The invariant holds of a new oracle,
LEMMA InitOracle == Oracle!OracleAssumption /\ Oracle!Init => OracleInv
<1> SUFFICES ASSUME Oracle!OracleAssumption, Oracle!Init PROVE OracleInv
  OBVIOUS
<1>1. timelock \in Nat /\ timelock >= OracleMinTimelock /\ owner \in Accounts /\ owner # NoAddress
  BY DEF Oracle!OracleAssumption, Oracle!Init
<1>2. PendingOK
  BY NonePending DEF Oracle!Init, PendingOK
<1> QED
  BY <1>1, <1>2 DEF Oracle!Init, OracleInv, Oracle!RenouncedIsFinal

\* Proposals, by the owner.
LEMMA OracleProposeKeeps ==
    ASSUME Oracle!OracleAssumption, OracleInv,
           \/ Oracle!proposeOracle \/ Oracle!proposeTimelock
           \/ Oracle!proposeTransferOwnership \/ Oracle!proposeRenounceOwnership
    PROVE  OracleInv'
<1>1. UNCHANGED <<clock, owner, oracle, timelock>> /\ owner # NoAddress
  BY DEF Oracle!proposeOracle, Oracle!proposeTimelock, Oracle!proposeTransferOwnership,
     Oracle!proposeRenounceOwnership, Oracle!onlyOwner
<1>2. Oracle!RenouncedIsFinal'
  BY <1>1 DEF Oracle!RenouncedIsFinal
<1>3. PendingOK'
  <2>1. CASE Oracle!proposeOracle
    <3>1. PICK o \in Oracles : pendingOracle' = Oracle!update(o)
      BY <2>1 DEF Oracle!proposeOracle
    <3>2. pendingOracle' \in Change(Oracles \cup {NoAddress}) /\ pendingOracle'.value = o
      BY <3>1, ChangeUpdated
    <3> QED
      BY <2>1, <3>2 DEF Oracle!proposeOracle, PendingOK, OracleInv
  <2>2. CASE Oracle!proposeTimelock
    <3>1. PICK t \in OracleTimelocks : t >= OracleMinTimelock /\ pendingTimelock' = Oracle!update(t)
      BY <2>2 DEF Oracle!proposeTimelock
    <3>2. t \in Nat
      BY DEF Oracle!OracleAssumption
    <3>3. pendingTimelock' \in Change(Nat) /\ pendingTimelock'.value = t
      BY <3>1, <3>2, ChangeUpdated
    <3> QED
      BY <2>2, <3>1, <3>3 DEF Oracle!proposeTimelock, PendingOK, OracleInv
  <2>3. CASE Oracle!proposeTransferOwnership \/ Oracle!proposeRenounceOwnership
    <3>1. PICK a \in Accounts \cup {NoAddress} : pendingOwnership' = Oracle!update(a)
      BY <2>3 DEF Oracle!proposeTransferOwnership, Oracle!proposeRenounceOwnership
    <3>2. pendingOwnership' \in Change(Accounts \cup {NoAddress})
      BY <3>1, ChangeUpdated
    <3> QED
      BY <2>3, <3>2 DEF Oracle!proposeTransferOwnership, Oracle!proposeRenounceOwnership,
         PendingOK, OracleInv
  <2> QED
    BY <2>1, <2>2, <2>3
<1> QED
  BY <1>1, <1>2, <1>3 DEF OracleInv

\* Acceptances, by the owner or the one to be, and cancellations.
LEMMA OracleAcceptKeeps ==
    ASSUME Oracle!OracleAssumption, OracleInv,
           \/ Oracle!acceptOracle \/ Oracle!acceptTimelock
           \/ Oracle!acceptOwnership \/ Oracle!acceptRenounceOwnership
           \/ Oracle!cancelOracle \/ Oracle!cancelTimelock \/ Oracle!cancelOwnership
    PROVE  OracleInv'
<1>1. /\ Oracle!NoAddressPending \in Change(Oracles \cup {NoAddress})
      /\ Oracle!NoAddressPending \in Change(Accounts \cup {NoAddress})
      /\ Oracle!NoAddressPending.validAt = 0
      /\ Oracle!NoTimelockPending \in Change(Nat) /\ Oracle!NoTimelockPending.validAt = 0
  BY NonePending
<1>2. /\ pendingOracle.validAt # 0 => pendingOracle.value \in Oracles
      /\ pendingTimelock.validAt # 0 =>
           pendingTimelock.value \in Nat /\ pendingTimelock.value >= OracleMinTimelock
      /\ pendingOwnership.value \in Accounts \cup {NoAddress}
  BY DEF OracleInv, PendingOK, Change
<1>3. CASE \/ Oracle!acceptOracle \/ Oracle!acceptTimelock
           \/ Oracle!cancelOracle \/ Oracle!cancelTimelock \/ Oracle!cancelOwnership
  <2>1. owner' = owner /\ owner # NoAddress /\ clock' = clock
    BY <1>3 DEF Oracle!acceptOracle, Oracle!acceptTimelock, Oracle!cancelOracle,
       Oracle!cancelTimelock, Oracle!cancelOwnership, Oracle!onlyOwner
  <2>2. oracle' \in Oracles /\ timelock' \in Nat /\ timelock' >= OracleMinTimelock
    BY <1>2, <1>3 DEF Oracle!acceptOracle, Oracle!acceptTimelock, Oracle!cancelOracle,
       Oracle!cancelTimelock, Oracle!cancelOwnership,
                      Oracle!afterTimelock, OracleInv
  <2>3. PendingOK'
    BY <1>1, <1>3 DEF Oracle!acceptOracle, Oracle!acceptTimelock, Oracle!cancelOracle,
       Oracle!cancelTimelock, Oracle!cancelOwnership,
                      OracleInv, PendingOK
  <2>4. Oracle!RenouncedIsFinal'
    BY <2>1 DEF Oracle!RenouncedIsFinal
  <2> QED
    BY <2>1, <2>2, <2>3, <2>4 DEF OracleInv
<1>4. CASE Oracle!acceptOwnership \/ Oracle!acceptRenounceOwnership
  <2>1. /\ UNCHANGED <<clock, oracle, timelock, pendingOracle, pendingTimelock>>
        /\ pendingOwnership' = Oracle!NoAddressPending
        /\ owner' \in Accounts \cup {NoAddress}
    BY <1>2, <1>4 DEF Oracle!acceptOwnership, Oracle!acceptRenounceOwnership
  <2>2. PendingOK'
    BY <1>1, <2>1 DEF OracleInv, PendingOK
  <2>3. Oracle!RenouncedIsFinal'
    BY <1>1, <1>4, <2>1 DEF Oracle!acceptOwnership, Oracle!acceptRenounceOwnership,
       Oracle!RenouncedIsFinal, Oracle!whenNotPending
  <2> QED
    BY <2>1, <2>2, <2>3 DEF OracleInv
<1> QED
  BY <1>3, <1>4

\* ... every external function keeps it,
LEMMA OracleKept ==
    Oracle!OracleAssumption /\ OracleInv /\ [Oracle!Next]_(Oracle!vars)
        => OracleInv'
<1> SUFFICES ASSUME Oracle!OracleAssumption, OracleInv, [Oracle!Next]_(Oracle!vars) PROVE OracleInv'
  OBVIOUS
<1>1. CASE Oracle!Tick \/ UNCHANGED Oracle!vars
  <2>1. UNCHANGED <<owner, oracle, timelock, pendingOracle, pendingTimelock, pendingOwnership>>
    BY <1>1 DEF Oracle!Tick, Oracle!vars
  <2>2. clock' \in Nat \ {0}
    BY <1>1 DEF Oracle!Tick, Oracle!vars, OracleInv
  <2> QED
    BY <2>1, <2>2 DEF OracleInv, PendingOK, Oracle!RenouncedIsFinal, Oracle!whenNotPending
<1> QED
  BY <1>1, OracleProposeKeeps, OracleAcceptKeeps DEF Oracle!Next

\* ... so that it always holds.
LEMMA OracleInvariance == ASSUME Oracle!OracleAssumption PROVE Oracle!Spec => []OracleInv
<1>1. Oracle!Init => OracleInv
  BY InitOracle
<1>2. OracleInv /\ [Oracle!Next]_(Oracle!vars) => OracleInv'
  BY OracleKept
<1> QED
  BY <1>1, <1>2, PTL DEF Oracle!Spec

\* What an oracle without an owner forwards to is fixed for good, and so is its
\* timelock: it stays without an owner, and the two settings keep their values.
THEOREM RenouncedStays ==
    ASSUME Oracle!OracleAssumption
    PROVE  Oracle!Spec => [][owner = NoAddress =>
                        owner' = NoAddress /\ UNCHANGED <<oracle, timelock>>]_(Oracle!vars)
<1>1. ASSUME OracleInv, Oracle!Next, owner = NoAddress
      PROVE  owner' = NoAddress /\ UNCHANGED <<oracle, timelock>>
  <2>1. pendingOracle.validAt = 0 /\ pendingTimelock.validAt = 0 /\ pendingOwnership.validAt = 0
    BY <1>1 DEF OracleInv, Oracle!RenouncedIsFinal, Oracle!whenNotPending
  <2> QED
    BY <1>1, <2>1 DEF Oracle!Next, Oracle!proposeOracle, Oracle!proposeTimelock,
       Oracle!proposeTransferOwnership,
         Oracle!proposeRenounceOwnership, Oracle!acceptOracle, Oracle!acceptTimelock,
         Oracle!acceptOwnership,
         Oracle!acceptRenounceOwnership, Oracle!cancelOracle, Oracle!cancelTimelock,
         Oracle!cancelOwnership, Oracle!Tick,
         Oracle!onlyOwner, Oracle!afterTimelock
<1>2. OracleInv /\ [Oracle!Next]_(Oracle!vars) =>
        [owner = NoAddress => owner' = NoAddress /\ UNCHANGED <<oracle, timelock>>]_(Oracle!vars)
  BY <1>1
<1> QED
  BY <1>2, OracleInvariance, PTL DEF Oracle!Spec

-----------------------------------------------------------------------------
(* The settings as Timelocks *)

\* A change is announced when it has a time.
LEMMA ChangeAnnounced ==
    ASSUME Oracle!OracleAssumption, OracleInv
    PROVE  /\ pendingOracle.validAt = 0 => Oracle!OraclePending = NoAddress
           /\ pendingOracle.validAt # 0 =>
                Oracle!OraclePending = pendingOracle /\ Oracle!OraclePending # NoAddress
           /\ pendingTimelock.validAt = 0 => Oracle!TimelockPending = NoAddress
           /\ pendingTimelock.validAt # 0 =>
                Oracle!TimelockPending = pendingTimelock /\ Oracle!TimelockPending # NoAddress
           /\ pendingOwnership.validAt = 0 => Oracle!OwnerPending = NoAddress
           /\ pendingOwnership.validAt # 0 =>
                Oracle!OwnerPending = pendingOwnership /\ Oracle!OwnerPending # NoAddress
<1> DEFINE All == [value : Nat \cup Oracles \cup Accounts \cup {NoAddress}, validAt : Nat]
<1>1. pendingOracle \in All /\ pendingTimelock \in All /\ pendingOwnership \in All
  BY DEF OracleInv, PendingOK, Change
<1>2. NoAddress \notin All
  BY DEF Oracle!OracleAssumption
<1> QED
  BY <1>1, <1>2 DEF Oracle!OraclePending, Oracle!TimelockPending, Oracle!OwnerPending

\* The clock goes on, and no timelock below the least is in force.
LEMMA OracleNoticeKept ==
    ASSUME Oracle!OracleAssumption, OracleInv, OracleInv', [Oracle!Next]_(Oracle!vars)
    PROVE  clock' >= clock /\ timelock' >= OracleMinTimelock /\ clock + timelock >= clock + timelock
<1>1. clock' = clock \/ clock' = clock + 1
  BY DEF Oracle!Next, Oracle!proposeOracle, Oracle!proposeTimelock, Oracle!proposeTransferOwnership,
     Oracle!proposeRenounceOwnership, Oracle!acceptOracle, Oracle!acceptTimelock,
     Oracle!acceptOwnership,
     Oracle!acceptRenounceOwnership, Oracle!cancelOracle, Oracle!cancelTimelock,
     Oracle!cancelOwnership, Oracle!Tick, Oracle!vars
<1> QED
  BY <1>1 DEF OracleInv

\* Every step is one of the Timelock of the oracle,
LEMMA OracleStep ==
    ASSUME Oracle!OracleAssumption, OracleInv, OracleInv', [Oracle!Next]_(Oracle!vars)
    PROVE  Oracle!OracleNotice!Next
<1>1. clock' >= clock /\ timelock' >= OracleMinTimelock /\ clock + timelock >= clock + timelock
  BY OracleNoticeKept
<1>2. /\ pendingOracle.validAt = 0 => Oracle!OraclePending = NoAddress
      /\ pendingOracle.validAt # 0 =>
           Oracle!OraclePending = pendingOracle /\ Oracle!OraclePending # NoAddress
  BY ChangeAnnounced
<1>3. /\ pendingOracle'.validAt = 0 => Oracle!OraclePending' = NoAddress
      /\ pendingOracle'.validAt # 0 =>
           Oracle!OraclePending' = pendingOracle' /\ Oracle!OraclePending' # NoAddress
  <2>1. pendingOracle' \in [value : Nat \cup Oracles \cup Accounts \cup {NoAddress}, validAt : Nat]
    BY DEF OracleInv, PendingOK, Change
  <2> QED
    BY <2>1 DEF Oracle!OraclePending, Oracle!OracleAssumption
<1>4. Oracle!NoAddressPending.validAt = 0
  BY NonePending
<1>5. CASE Oracle!proposeOracle
  <2>1. pendingOracle.validAt = 0 /\ UNCHANGED <<clock, oracle>>
    BY <1>5 DEF Oracle!proposeOracle, Oracle!whenNotPending
  <2>2. pendingOracle'.validAt = clock + timelock /\ pendingOracle'.validAt # 0
    BY <1>5, ChangeUpdated DEF Oracle!proposeOracle
  <2>3. Oracle!OracleNotice!Announce
    BY <1>1, <1>2, <1>3, <2>1, <2>2 DEF Oracle!OracleNotice!Announce
  <2> QED
    BY <1>1, <2>3 DEF Oracle!OracleNotice!Next
<1>6. CASE Oracle!acceptOracle
  <2>1. Oracle!OracleNotice!TakeEffect
    BY <1>2, <1>3, <1>4, <1>6 DEF Oracle!acceptOracle, Oracle!afterTimelock,
       Oracle!OracleNotice!TakeEffect
  <2> QED
    BY <1>1, <2>1 DEF Oracle!OracleNotice!Next
<1>7. CASE Oracle!cancelOracle
  <2>1. Oracle!OracleNotice!Withdraw
    BY <1>2, <1>3, <1>4, <1>7 DEF Oracle!cancelOracle, Oracle!whenPending,
       Oracle!OracleNotice!Withdraw
  <2> QED
    BY <1>1, <2>1 DEF Oracle!OracleNotice!Next
<1>8. CASE UNCHANGED <<oracle, pendingOracle>>
  BY <1>1, <1>8 DEF Oracle!OracleNotice!Next, Oracle!OraclePending
<1> QED
  BY <1>5, <1>6, <1>7, <1>8 DEF Oracle!Next, Oracle!proposeTimelock,
     Oracle!proposeTransferOwnership,
     Oracle!proposeRenounceOwnership, Oracle!acceptTimelock, Oracle!acceptOwnership,
     Oracle!acceptRenounceOwnership,
     Oracle!cancelTimelock, Oracle!cancelOwnership, Oracle!Tick, Oracle!vars

\* ... one of the Timelock of the timelock itself,
LEMMA OracleTimelockStep ==
    ASSUME Oracle!OracleAssumption, OracleInv, OracleInv', [Oracle!Next]_(Oracle!vars)
    PROVE  Oracle!TimelockNotice!Next
<1>1. clock' >= clock /\ timelock' >= OracleMinTimelock /\ clock + timelock >= clock + timelock
  BY OracleNoticeKept
<1>2. /\ pendingTimelock.validAt = 0 => Oracle!TimelockPending = NoAddress
      /\ pendingTimelock.validAt # 0 =>
           Oracle!TimelockPending = pendingTimelock /\ Oracle!TimelockPending # NoAddress
  BY ChangeAnnounced
<1>3. /\ pendingTimelock'.validAt = 0 => Oracle!TimelockPending' = NoAddress
      /\ pendingTimelock'.validAt # 0 =>
           Oracle!TimelockPending' = pendingTimelock' /\ Oracle!TimelockPending' # NoAddress
  <2>1. pendingTimelock'
          \in [value : Nat \cup Oracles \cup Accounts \cup {NoAddress}, validAt : Nat]
    BY DEF OracleInv, PendingOK, Change
  <2> QED
    BY <2>1 DEF Oracle!TimelockPending, Oracle!OracleAssumption
<1>4. Oracle!NoTimelockPending.validAt = 0
  BY NonePending
<1>5. CASE Oracle!proposeTimelock
  <2>1. pendingTimelock.validAt = 0 /\ UNCHANGED <<clock, timelock>>
    BY <1>5 DEF Oracle!proposeTimelock, Oracle!whenNotPending
  <2>2. pendingTimelock'.validAt = clock + timelock /\ pendingTimelock'.validAt # 0
    BY <1>5, ChangeUpdated DEF Oracle!proposeTimelock
  <2>3. Oracle!TimelockNotice!Announce
    BY <1>1, <1>2, <1>3, <2>1, <2>2 DEF Oracle!TimelockNotice!Announce
  <2> QED
    BY <1>1, <2>3 DEF Oracle!TimelockNotice!Next
<1>6. CASE Oracle!acceptTimelock
  <2>1. Oracle!TimelockNotice!TakeEffect
    BY <1>2, <1>3, <1>4, <1>6 DEF Oracle!acceptTimelock, Oracle!afterTimelock,
       Oracle!TimelockNotice!TakeEffect
  <2> QED
    BY <1>1, <2>1 DEF Oracle!TimelockNotice!Next
<1>7. CASE Oracle!cancelTimelock
  <2>1. Oracle!TimelockNotice!Withdraw
    BY <1>2, <1>3, <1>4, <1>7 DEF Oracle!cancelTimelock, Oracle!whenPending,
       Oracle!TimelockNotice!Withdraw
  <2> QED
    BY <1>1, <2>1 DEF Oracle!TimelockNotice!Next
<1>8. CASE UNCHANGED <<timelock, pendingTimelock>>
  BY <1>1, <1>8 DEF Oracle!TimelockNotice!Next, Oracle!TimelockPending
<1> QED
  BY <1>5, <1>6, <1>7, <1>8 DEF Oracle!Next, Oracle!proposeOracle, Oracle!proposeTransferOwnership,
     Oracle!proposeRenounceOwnership, Oracle!acceptOracle, Oracle!acceptOwnership,
     Oracle!acceptRenounceOwnership,
     Oracle!cancelOracle, Oracle!cancelOwnership, Oracle!Tick, Oracle!vars

\* ... and one of the Timelock of the owner.
LEMMA OwnerStep ==
    ASSUME Oracle!OracleAssumption, OracleInv, OracleInv', [Oracle!Next]_(Oracle!vars)
    PROVE  Oracle!OwnerNotice!Next
<1>1. clock' >= clock /\ timelock' >= OracleMinTimelock /\ clock + timelock >= clock + timelock
  BY OracleNoticeKept
<1>2. /\ pendingOwnership.validAt = 0 => Oracle!OwnerPending = NoAddress
      /\ pendingOwnership.validAt # 0 =>
           Oracle!OwnerPending = pendingOwnership /\ Oracle!OwnerPending # NoAddress
  BY ChangeAnnounced
<1>3. /\ pendingOwnership'.validAt = 0 => Oracle!OwnerPending' = NoAddress
      /\ pendingOwnership'.validAt # 0 =>
           Oracle!OwnerPending' = pendingOwnership' /\ Oracle!OwnerPending' # NoAddress
  <2>1. pendingOwnership'
          \in [value : Nat \cup Oracles \cup Accounts \cup {NoAddress}, validAt : Nat]
    BY DEF OracleInv, PendingOK, Change
  <2> QED
    BY <2>1 DEF Oracle!OwnerPending, Oracle!OracleAssumption
<1>4. Oracle!NoAddressPending.validAt = 0
  BY NonePending
<1>5. CASE Oracle!proposeTransferOwnership \/ Oracle!proposeRenounceOwnership
  <2>1. pendingOwnership.validAt = 0 /\ UNCHANGED <<clock, owner>>
    BY <1>5 DEF Oracle!proposeTransferOwnership, Oracle!proposeRenounceOwnership,
       Oracle!whenNotPending
  <2>2. \E a \in Accounts \cup {NoAddress} : pendingOwnership' = Oracle!update(a)
    BY <1>5 DEF Oracle!proposeTransferOwnership, Oracle!proposeRenounceOwnership
  <2>3. pendingOwnership'.validAt = clock + timelock /\ pendingOwnership'.validAt # 0
    BY <2>2, ChangeUpdated
  <2>4. Oracle!OwnerNotice!Announce
    BY <1>1, <1>2, <1>3, <2>1, <2>3 DEF Oracle!OwnerNotice!Announce
  <2> QED
    BY <1>1, <2>4 DEF Oracle!OwnerNotice!Next
<1>6. CASE Oracle!acceptOwnership \/ Oracle!acceptRenounceOwnership
  <2>1. Oracle!OwnerNotice!TakeEffect
    BY <1>2, <1>3, <1>4, <1>6 DEF Oracle!acceptOwnership, Oracle!acceptRenounceOwnership,
       Oracle!afterTimelock,
                                  Oracle!OwnerNotice!TakeEffect
  <2> QED
    BY <1>1, <2>1 DEF Oracle!OwnerNotice!Next
<1>7. CASE Oracle!cancelOwnership
  <2>1. Oracle!OwnerNotice!Withdraw
    BY <1>2, <1>3, <1>4, <1>7 DEF Oracle!cancelOwnership, Oracle!whenPending,
       Oracle!OwnerNotice!Withdraw
  <2> QED
    BY <1>1, <2>1 DEF Oracle!OwnerNotice!Next
<1>8. CASE UNCHANGED <<owner, pendingOwnership>>
  BY <1>1, <1>8 DEF Oracle!OwnerNotice!Next, Oracle!OwnerPending
<1> QED
  BY <1>5, <1>6, <1>7, <1>8 DEF Oracle!Next, Oracle!proposeOracle, Oracle!proposeTimelock,
     Oracle!acceptOracle,
     Oracle!acceptTimelock, Oracle!cancelOracle, Oracle!cancelTimelock, Oracle!Tick, Oracle!vars

\* At first nothing is pending.
LEMMA OracleInitNotice ==
    Oracle!OracleAssumption /\ Oracle!Init =>
        Oracle!OracleNotice!Init /\ Oracle!TimelockNotice!Init /\ Oracle!OwnerNotice!Init
BY NonePending DEF Oracle!Init, Oracle!OracleNotice!Init, Oracle!TimelockNotice!Init,
   Oracle!OwnerNotice!Init, Oracle!OraclePending, Oracle!TimelockPending, Oracle!OwnerPending

\* The oracle, the timelock and the owner are Timelocks: each changes only after the
\* timelock that was in force when its change was proposed, though the other two change
\* in between (modifier afterTimelock, PendingLib).
THEOREM OracleImplementsTimelocks ==
    ASSUME Oracle!OracleAssumption
    PROVE  Oracle!Spec => Oracle!ImplementsTimelock
<1>1. OracleInv /\ OracleInv' /\ [Oracle!Next]_(Oracle!vars) =>
        /\ [Oracle!OracleNotice!Next]_(Oracle!OracleNotice!vars)
        /\ [Oracle!TimelockNotice!Next]_(Oracle!TimelockNotice!vars)
        /\ [Oracle!OwnerNotice!Next]_(Oracle!OwnerNotice!vars)
  BY OracleStep, OracleTimelockStep, OwnerStep
<1> QED
  BY OracleInitNotice, <1>1, OracleInvariance, PTL DEF Oracle!Spec, Oracle!ImplementsTimelock,
     Oracle!OracleNotice!Spec, Oracle!TimelockNotice!Spec, Oracle!OwnerNotice!Spec

-----------------------------------------------------------------------------
(* The vault, as Timelocks and as SiloVault_proofs instantiate it          *)

RolesProof == INSTANCE SiloVault_proofs WITH
    Markets <- MarketsOf["roles"], Guardians <- GuardiansOf["roles"],
    Timelocks <- TimelocksOf["roles"], Caps <- CapsOf["roles"], Amounts <- AmountsOf["roles"],
    Rates <- RatesOf["roles"], Syncs <- SyncsOf["roles"], MaxShares <- MaxSharesOf["roles"],
    MaxTime <- MaxTimeOf["roles"]

FundsProof == INSTANCE SiloVault_proofs WITH
    Markets <- MarketsOf["funds"], Guardians <- GuardiansOf["funds"],
    Timelocks <- TimelocksOf["funds"], Caps <- CapsOf["funds"], Amounts <- AmountsOf["funds"],
    Rates <- RatesOf["funds"], Syncs <- SyncsOf["funds"], MaxShares <- MaxSharesOf["funds"],
    MaxTime <- MaxTimeOf["funds"]

-----------------------------------------------------------------------------
(* The new vault: Timelocks and SiloVault_proofs each instantiate SiloVault, with the
   same parameters, so that what one calls a step or a state is the same to the other *)

\* Settings are changed by the same steps,
LEMMA RolesGovernance == Roles!Governance <=> RolesProof!Governance
<1>1. /\ \A t : (Roles!submitTimelock(t) <=> RolesProof!submitTimelock(t))
      /\ (Roles!acceptTimelock <=> RolesProof!acceptTimelock)
      /\ (Roles!revokePendingTimelock <=> RolesProof!revokePendingTimelock)
  BY Zenon DEF Roles!submitTimelock, RolesProof!submitTimelock, Roles!_setTimelock,
         RolesProof!_setTimelock, Roles!update, RolesProof!update, Roles!NoPending,
         RolesProof!NoPending, Roles!markets, RolesProof!markets, Roles!acceptTimelock,
         RolesProof!acceptTimelock, Roles!afterTimelock, RolesProof!afterTimelock,
         Roles!revokePendingTimelock, RolesProof!revokePendingTimelock
<1>2. /\ \A g : (Roles!submitGuardian(g) <=> RolesProof!submitGuardian(g))
      /\ (Roles!acceptGuardian <=> RolesProof!acceptGuardian)
      /\ (Roles!revokePendingGuardian <=> RolesProof!revokePendingGuardian)
  BY Zenon DEF Roles!submitGuardian, RolesProof!submitGuardian, Roles!_setGuardian,
         RolesProof!_setGuardian, Roles!NoPendingGuardian, RolesProof!NoPendingGuardian,
         Roles!update, RolesProof!update, Roles!markets, RolesProof!markets, Roles!acceptGuardian,
         RolesProof!acceptGuardian, Roles!afterTimelock, RolesProof!afterTimelock,
         Roles!revokePendingGuardian, RolesProof!revokePendingGuardian
<1>3. /\ \A x, c : (Roles!submitCap(x, c) <=> RolesProof!submitCap(x, c))
      /\ \A x : (Roles!acceptCap(x) <=> RolesProof!acceptCap(x))
      /\ \A x : (Roles!revokePendingCap(x) <=> RolesProof!revokePendingCap(x))
      /\ \A x : (Roles!submitMarketRemoval(x) <=> RolesProof!submitMarketRemoval(x))
      /\ \A x : (Roles!revokePendingMarketRemoval(x) <=> RolesProof!revokePendingMarketRemoval(x))
  BY Zenon DEF Roles!submitCap, RolesProof!submitCap, Roles!_setCap, RolesProof!_setCap,
         Roles!update, RolesProof!update, Roles!NoPending, RolesProof!NoPending, Roles!delayed,
         RolesProof!delayed, Roles!acceptCap, RolesProof!acceptCap, Roles!afterTimelock,
         RolesProof!afterTimelock, Roles!revokePendingCap, RolesProof!revokePendingCap,
         Roles!submitMarketRemoval, RolesProof!submitMarketRemoval,
         Roles!revokePendingMarketRemoval, RolesProof!revokePendingMarketRemoval
<1>4. /\ (Roles!setSupplyQueue <=> RolesProof!setSupplyQueue)
      /\ (Roles!updateWithdrawQueue <=> RolesProof!updateWithdrawQueue)
  BY Zenon DEF Roles!setSupplyQueue, RolesProof!setSupplyQueue, Roles!SeqOf, RolesProof!SeqOf,
         Roles!delayed, RolesProof!delayed, Roles!markets, RolesProof!markets,
         Roles!updateWithdrawQueue, RolesProof!updateWithdrawQueue, Roles!Range, RolesProof!Range,
         Roles!IsInjective, RolesProof!IsInjective, Roles!Removable, RolesProof!Removable,
         Roles!NoConfig, RolesProof!NoConfig
<1> QED
  BY <1>1, <1>2, <1>3, <1>4 DEF Roles!Governance, RolesProof!Governance

\* ... and funds are moved by the same steps,
LEMMA RolesAllocation == Roles!Allocation <=> RolesProof!Allocation
<1>1. \A a, open : Roles!_supplyERC4626(a, open) = RolesProof!_supplyERC4626(a, open)
  BY Zenon DEF Roles!_supplyERC4626, RolesProof!_supplyERC4626, Roles!SupplyTo, RolesProof!SupplyTo,
         Roles!Updated, RolesProof!Updated, Roles!Expected, RolesProof!Expected, Roles!Room,
         RolesProof!Room, Roles!SmallerOf, RolesProof!SmallerOf, Roles!Above, RolesProof!Above,
         Roles!Worth, RolesProof!Worth, Roles!NoLoss, RolesProof!NoLoss, Roles!SharesFor,
         RolesProof!SharesFor, Roles!Supplied, RolesProof!Supplied, Roles!FoldLeft,
         RolesProof!FoldLeft, Roles!MapThenFoldSet, RolesProof!MapThenFoldSet, Roles!Max,
         RolesProof!Max
<1>2. \A a, liquid : Roles!_withdrawERC4626(a, liquid) = RolesProof!_withdrawERC4626(a, liquid)
  BY SMT DEF Roles!_withdrawERC4626, RolesProof!_withdrawERC4626, Roles!TakeFrom,
         RolesProof!TakeFrom, Roles!Updated, RolesProof!Updated, Roles!Expected,
         RolesProof!Expected, Roles!SmallerOf, RolesProof!SmallerOf, Roles!Above, RolesProof!Above,
         Roles!Taken, RolesProof!Taken, Roles!SharesOf, RolesProof!SharesOf, Roles!FoldLeft,
         RolesProof!FoldLeft, Roles!MapThenFoldSet, RolesProof!MapThenFoldSet, Roles!Max,
         RolesProof!Max
<1>3. (Roles!Deposit <=> RolesProof!Deposit) /\ (Roles!Withdraw <=> RolesProof!Withdraw)
  BY <1>1, <1>2 DEF Roles!Deposit, RolesProof!Deposit, Roles!Withdraw, RolesProof!Withdraw,
         Roles!delayed, RolesProof!delayed, Roles!markets, RolesProof!markets
<1>4. (Roles!reallocate <=> RolesProof!reallocate)
  BY Zenon DEF Roles!reallocate, RolesProof!reallocate, Roles!Updated, RolesProof!Updated,
         Roles!Expected, RolesProof!Expected, Roles!Above, RolesProof!Above, Roles!Taken,
         RolesProof!Taken, Roles!SharesOf, RolesProof!SharesOf, Roles!Worth, RolesProof!Worth,
         Roles!NoLoss, RolesProof!NoLoss, Roles!SharesFor, RolesProof!SharesFor, Roles!Supplied,
         RolesProof!Supplied, Roles!delayed, RolesProof!delayed, Roles!markets, RolesProof!markets
<1>5. (Roles!syncBalanceTracker <=> RolesProof!syncBalanceTracker)
  BY Zenon DEF Roles!syncBalanceTracker, RolesProof!syncBalanceTracker, Roles!Expected,
         RolesProof!Expected, Roles!delayed, RolesProof!delayed, Roles!markets, RolesProof!markets
<1> QED
  BY <1>3, <1>4, <1>5 DEF Roles!Allocation, RolesProof!Allocation

\* ... and so is every step the same.
LEMMA RolesSteps == [Roles!Next]_(Roles!vars) <=> [RolesProof!Next]_(RolesProof!vars)
<1>1. /\ (Roles!Report <=> RolesProof!Report) /\ (Roles!Gift <=> RolesProof!Gift)
      /\ (Roles!Tick <=> RolesProof!Tick)
  BY Zenon DEF Roles!Report, RolesProof!Report, Roles!Gift, RolesProof!Gift, Roles!Tick,
         RolesProof!Tick, Roles!delayed, RolesProof!delayed, Roles!markets, RolesProof!markets
<1>2. Roles!vars = RolesProof!vars
  BY DEF Roles!vars, RolesProof!vars, Roles!delayed, RolesProof!delayed, Roles!markets,
         RolesProof!markets
<1>3. Roles!Next <=> RolesProof!Next
  BY <1>1, RolesGovernance, RolesAllocation DEF Roles!Next, RolesProof!Next
<1>4. UNCHANGED Roles!vars <=> UNCHANGED RolesProof!vars
  BY DEF Roles!vars, RolesProof!vars, Roles!delayed, RolesProof!delayed, Roles!markets,
         RolesProof!markets
<1> QED
  BY <1>3, <1>4

LEMMA RolesAssumed == Roles!VaultAssumption => RolesProof!VaultAssumption
BY DEF Roles!VaultAssumption, RolesProof!VaultAssumption, Roles!IsFiniteSet, RolesProof!IsFiniteSet

\* The properties are the same.
LEMMA RolesProperties ==
    /\ RolesProof!QueueMatchesConfig => Roles!QueueMatchesConfig
    /\ RolesProof!RemovedWithNotice => Roles!RemovedWithNotice
<1>1. RolesProof!QueueMatchesConfig => Roles!QueueMatchesConfig
  BY DEF Roles!QueueMatchesConfig, RolesProof!QueueMatchesConfig, Roles!Range, RolesProof!Range,
         Roles!IsInjective, RolesProof!IsInjective
<1>2. RolesProof!RemovedWithNotice => Roles!RemovedWithNotice
  BY DEF Roles!RemovedWithNotice, RolesProof!RemovedWithNotice
<1> QED
  BY <1>1, <1>2

-----------------------------------------------------------------------------
(* The opened vault: Timelocks and SiloVault_proofs each instantiate SiloVault, with the
   same parameters, so that what one calls a step or a state is the same to the other *)

\* Settings are changed by the same steps,
LEMMA FundsGovernance == Funds!Governance <=> FundsProof!Governance
<1>1. /\ \A t : (Funds!submitTimelock(t) <=> FundsProof!submitTimelock(t))
      /\ (Funds!acceptTimelock <=> FundsProof!acceptTimelock)
      /\ (Funds!revokePendingTimelock <=> FundsProof!revokePendingTimelock)
  BY Zenon DEF Funds!submitTimelock, FundsProof!submitTimelock, Funds!_setTimelock,
         FundsProof!_setTimelock, Funds!update, FundsProof!update, Funds!NoPending,
         FundsProof!NoPending, Funds!markets, FundsProof!markets, Funds!acceptTimelock,
         FundsProof!acceptTimelock, Funds!afterTimelock, FundsProof!afterTimelock,
         Funds!revokePendingTimelock, FundsProof!revokePendingTimelock
<1>2. /\ \A g : (Funds!submitGuardian(g) <=> FundsProof!submitGuardian(g))
      /\ (Funds!acceptGuardian <=> FundsProof!acceptGuardian)
      /\ (Funds!revokePendingGuardian <=> FundsProof!revokePendingGuardian)
  BY Zenon DEF Funds!submitGuardian, FundsProof!submitGuardian, Funds!_setGuardian,
         FundsProof!_setGuardian, Funds!NoPendingGuardian, FundsProof!NoPendingGuardian,
         Funds!update, FundsProof!update, Funds!markets, FundsProof!markets, Funds!acceptGuardian,
         FundsProof!acceptGuardian, Funds!afterTimelock, FundsProof!afterTimelock,
         Funds!revokePendingGuardian, FundsProof!revokePendingGuardian
<1>3. /\ \A x, c : (Funds!submitCap(x, c) <=> FundsProof!submitCap(x, c))
      /\ \A x : (Funds!acceptCap(x) <=> FundsProof!acceptCap(x))
      /\ \A x : (Funds!revokePendingCap(x) <=> FundsProof!revokePendingCap(x))
      /\ \A x : (Funds!submitMarketRemoval(x) <=> FundsProof!submitMarketRemoval(x))
      /\ \A x : (Funds!revokePendingMarketRemoval(x) <=> FundsProof!revokePendingMarketRemoval(x))
  BY Zenon DEF Funds!submitCap, FundsProof!submitCap, Funds!_setCap, FundsProof!_setCap,
         Funds!update, FundsProof!update, Funds!NoPending, FundsProof!NoPending, Funds!delayed,
         FundsProof!delayed, Funds!acceptCap, FundsProof!acceptCap, Funds!afterTimelock,
         FundsProof!afterTimelock, Funds!revokePendingCap, FundsProof!revokePendingCap,
         Funds!submitMarketRemoval, FundsProof!submitMarketRemoval,
         Funds!revokePendingMarketRemoval, FundsProof!revokePendingMarketRemoval
<1>4. /\ (Funds!setSupplyQueue <=> FundsProof!setSupplyQueue)
      /\ (Funds!updateWithdrawQueue <=> FundsProof!updateWithdrawQueue)
  BY Zenon DEF Funds!setSupplyQueue, FundsProof!setSupplyQueue, Funds!SeqOf, FundsProof!SeqOf,
         Funds!delayed, FundsProof!delayed, Funds!markets, FundsProof!markets,
         Funds!updateWithdrawQueue, FundsProof!updateWithdrawQueue, Funds!Range, FundsProof!Range,
         Funds!IsInjective, FundsProof!IsInjective, Funds!Removable, FundsProof!Removable,
         Funds!NoConfig, FundsProof!NoConfig
<1> QED
  BY <1>1, <1>2, <1>3, <1>4 DEF Funds!Governance, FundsProof!Governance

\* ... and funds are moved by the same steps,
LEMMA FundsAllocation == Funds!Allocation <=> FundsProof!Allocation
<1>1. \A a, open : Funds!_supplyERC4626(a, open) = FundsProof!_supplyERC4626(a, open)
  BY Zenon DEF Funds!_supplyERC4626, FundsProof!_supplyERC4626, Funds!SupplyTo, FundsProof!SupplyTo,
         Funds!Updated, FundsProof!Updated, Funds!Expected, FundsProof!Expected, Funds!Room,
         FundsProof!Room, Funds!SmallerOf, FundsProof!SmallerOf, Funds!Above, FundsProof!Above,
         Funds!Worth, FundsProof!Worth, Funds!NoLoss, FundsProof!NoLoss, Funds!SharesFor,
         FundsProof!SharesFor, Funds!Supplied, FundsProof!Supplied, Funds!FoldLeft,
         FundsProof!FoldLeft, Funds!MapThenFoldSet, FundsProof!MapThenFoldSet, Funds!Max,
         FundsProof!Max
<1>2. \A a, liquid : Funds!_withdrawERC4626(a, liquid) = FundsProof!_withdrawERC4626(a, liquid)
  BY SMT DEF Funds!_withdrawERC4626, FundsProof!_withdrawERC4626, Funds!TakeFrom,
         FundsProof!TakeFrom, Funds!Updated, FundsProof!Updated, Funds!Expected,
         FundsProof!Expected, Funds!SmallerOf, FundsProof!SmallerOf, Funds!Above, FundsProof!Above,
         Funds!Taken, FundsProof!Taken, Funds!SharesOf, FundsProof!SharesOf, Funds!FoldLeft,
         FundsProof!FoldLeft, Funds!MapThenFoldSet, FundsProof!MapThenFoldSet, Funds!Max,
         FundsProof!Max
<1>3. (Funds!Deposit <=> FundsProof!Deposit) /\ (Funds!Withdraw <=> FundsProof!Withdraw)
  BY <1>1, <1>2 DEF Funds!Deposit, FundsProof!Deposit, Funds!Withdraw, FundsProof!Withdraw,
         Funds!delayed, FundsProof!delayed, Funds!markets, FundsProof!markets
<1>4. (Funds!reallocate <=> FundsProof!reallocate)
  BY Zenon DEF Funds!reallocate, FundsProof!reallocate, Funds!Updated, FundsProof!Updated,
         Funds!Expected, FundsProof!Expected, Funds!Above, FundsProof!Above, Funds!Taken,
         FundsProof!Taken, Funds!SharesOf, FundsProof!SharesOf, Funds!Worth, FundsProof!Worth,
         Funds!NoLoss, FundsProof!NoLoss, Funds!SharesFor, FundsProof!SharesFor, Funds!Supplied,
         FundsProof!Supplied, Funds!delayed, FundsProof!delayed, Funds!markets, FundsProof!markets
<1>5. (Funds!syncBalanceTracker <=> FundsProof!syncBalanceTracker)
  BY Zenon DEF Funds!syncBalanceTracker, FundsProof!syncBalanceTracker, Funds!Expected,
         FundsProof!Expected, Funds!delayed, FundsProof!delayed, Funds!markets, FundsProof!markets
<1> QED
  BY <1>3, <1>4, <1>5 DEF Funds!Allocation, FundsProof!Allocation

\* ... and so is every step the same.
LEMMA FundsSteps == [Funds!Next]_(Funds!vars) <=> [FundsProof!Next]_(FundsProof!vars)
<1>1. /\ (Funds!Report <=> FundsProof!Report) /\ (Funds!Gift <=> FundsProof!Gift)
      /\ (Funds!Tick <=> FundsProof!Tick)
  BY Zenon DEF Funds!Report, FundsProof!Report, Funds!Gift, FundsProof!Gift, Funds!Tick,
         FundsProof!Tick, Funds!delayed, FundsProof!delayed, Funds!markets, FundsProof!markets
<1>2. Funds!vars = FundsProof!vars
  BY DEF Funds!vars, FundsProof!vars, Funds!delayed, FundsProof!delayed, Funds!markets,
         FundsProof!markets
<1>3. Funds!Next <=> FundsProof!Next
  BY <1>1, FundsGovernance, FundsAllocation DEF Funds!Next, FundsProof!Next
<1>4. UNCHANGED Funds!vars <=> UNCHANGED FundsProof!vars
  BY DEF Funds!vars, FundsProof!vars, Funds!delayed, FundsProof!delayed, Funds!markets,
         FundsProof!markets
<1> QED
  BY <1>3, <1>4

LEMMA FundsAssumed == Funds!VaultAssumption => FundsProof!VaultAssumption
BY DEF Funds!VaultAssumption, FundsProof!VaultAssumption, Funds!IsFiniteSet, FundsProof!IsFiniteSet

\* The properties are the same.
LEMMA FundsProperties ==
    /\ FundsProof!QueueMatchesConfig => Funds!QueueMatchesConfig
    /\ FundsProof!RemovedWithNotice => Funds!RemovedWithNotice
<1>1. FundsProof!QueueMatchesConfig => Funds!QueueMatchesConfig
  BY DEF Funds!QueueMatchesConfig, FundsProof!QueueMatchesConfig, Funds!Range, FundsProof!Range,
         Funds!IsInjective, FundsProof!IsInjective
<1>2. FundsProof!RemovedWithNotice => Funds!RemovedWithNotice
  BY DEF Funds!RemovedWithNotice, FundsProof!RemovedWithNotice
<1> QED
  BY <1>1, <1>2

-----------------------------------------------------------------------------
(* Timelocks *)

\* What is assumed of the constants is what each contract assumes.
LEMMA Assumed ==
    /\ RolesProof!VaultAssumption /\ FundsProof!VaultAssumption
    /\ Oracle!OracleAssumption /\ Kink!KinkAssumption
BY TimelocksAssumption, RolesAssumed, FundsAssumed DEF TimelocksAssumption

\* The inductive invariant: that of the contract that runs.
Inv ==
    /\ part = "roles" => RolesProof!IInv
    /\ part = "funds" => FundsProof!IInv
    /\ part = "oracle" => OracleInv
    /\ part = "rates" => KinkInv

\* A step is one of the contract that runs, or nothing happens to it.
LEMMA StepOfPart ==
    ASSUME [Next]_vars
    PROVE  /\ part' = part
           /\ part = "roles" => [RolesProof!Next]_(RolesProof!vars)
           /\ part = "funds" => [FundsProof!Next]_(FundsProof!vars)
           /\ part = "oracle" => [Oracle!Next]_(Oracle!vars)
           /\ part = "rates" => [Kink!Next]_(Kink!vars)
<1>1. UNCHANGED vars => /\ part' = part
                        /\ UNCHANGED Roles!vars /\ UNCHANGED Funds!vars
                        /\ UNCHANGED Oracle!vars /\ UNCHANGED Kink!vars
  BY DEF vars, vaultVars, oracleVars, kinkVars, Oracle!vars, Kink!vars,
         Roles!vars, Roles!delayed, Roles!markets, Funds!vars, Funds!delayed, Funds!markets
<1>2. /\ part' = part
      /\ part = "roles" => [Roles!Next]_(Roles!vars)
      /\ part = "funds" => [Funds!Next]_(Funds!vars)
      /\ part = "oracle" => [Oracle!Next]_(Oracle!vars)
      /\ part = "rates" => [Kink!Next]_(Kink!vars)
  BY <1>1 DEF Next
<1> QED
  BY <1>2, RolesSteps, FundsSteps

\* A vault that was opened in its markets satisfies the invariant of the vault.
LEMMA OpenedOK == Opened => FundsProof!IInv
<1> SUFFICES ASSUME Opened PROVE FundsProof!IInv
  OBVIOUS
<1> DEFINE Markets == MarketsOf["funds"]
<1>1. /\ TimelocksOf["funds"] \subseteq Nat /\ MinTimelock \in Nat \ {0} /\ MaxQueueLength \in Nat
      /\ FirstCap \in Nat \ {0}
  BY Assumed, TimelocksAssumption DEF FundsProof!VaultAssumption, TimelocksAssumption
<1>2. /\ timelock \in Nat /\ timelock >= MinTimelock /\ clock = 1 + timelock
      /\ pendingTimelock = [value |-> 0, validAt |-> 0]
      /\ guardian = NoGuardian /\ pendingGuardian = [value |-> NoGuardian, validAt |-> 0]
      /\ pendingCap = [m \in Markets |-> [value |-> 0, validAt |-> 0]]
      /\ announced = [m \in Markets |-> 0]
  BY <1>1 DEF Opened, Funds!NoPending, Funds!NoPendingGuardian
<1>3. config = [m \in Markets |-> [cap |-> FirstCap, enabled |-> TRUE, removableAt |-> 0]]
  BY DEF Opened
<1>4. withdrawQueue \in Seq(Markets)
  <2>1. PICK n \in 0 .. MaxQueueLength : withdrawQueue \in [1 .. n -> Markets]
    BY DEF Opened, SeqOf
  <2> QED
    BY <1>1, <2>1
<1>5. FundsProof!SettingsTyped
  BY <1>1, <1>2, <1>3, <1>4 DEF FundsProof!SettingsTyped, FundsProof!PendingNumber,
     FundsProof!PendingAddress, FundsProof!Config
<1>6. FundsProof!TimelockOK /\ FundsProof!AnnouncedOK
  BY <1>2, <1>3 DEF FundsProof!TimelockOK, FundsProof!AnnouncedOK
<1>7. FundsProof!QueueMatchesConfig
  <2>1. FundsProof!IsInjective(withdrawQueue) /\ FundsProof!Range(withdrawQueue) = Markets
    BY DEF Opened, IsInjective, Range, FundsProof!IsInjective, FundsProof!Range
  <2> QED
    BY <1>2, <1>3, <2>1 DEF FundsProof!QueueMatchesConfig
<1>8. FundsProof!FundsOK
  BY DEF Opened, FundsProof!FundsOK, FundsProof!PrincipalCounted, FundsProof!Fund
<1> QED
  BY <1>5, <1>6, <1>7, <1>8 DEF FundsProof!IInv, FundsProof!SettingsOK

\* Each contract starts in its invariant,
LEMMA InitInv == Init => Inv
<1>1. Roles!Init => RolesProof!IInv
  <2>1. Roles!Init => RolesProof!Init
    BY Zenon DEF Roles!Init, RolesProof!Init, Roles!NoPending, RolesProof!NoPending, Roles!NoConfig,
       RolesProof!NoConfig, Roles!NoPendingGuardian, RolesProof!NoPendingGuardian
  <2> QED
    BY <2>1, Assumed, RolesProof!InitSettings, RolesProof!InitFunds DEF RolesProof!IInv
<1> QED
  BY <1>1, OpenedOK, Assumed, InitOracle, InitKink DEF Init, Inv

\* ... and keeps it.
LEMMA InvKept == Inv /\ [Next]_vars => Inv'
<1> SUFFICES ASSUME Inv, [Next]_vars PROVE Inv'
  OBVIOUS
<1>1. part = "roles" => RolesProof!IInv'
  BY StepOfPart, Assumed, RolesProof!SettingsKept, RolesProof!FundsKept DEF Inv, RolesProof!IInv
<1>2. part = "funds" => FundsProof!IInv'
  BY StepOfPart, Assumed, FundsProof!SettingsKept, FundsProof!FundsKept DEF Inv, FundsProof!IInv
<1>3. part = "oracle" => OracleInv'
  BY StepOfPart, Assumed, OracleKept DEF Inv
<1>4. part = "rates" => KinkInv'
  BY StepOfPart, Assumed, KinkKept DEF Inv
<1> QED
  BY <1>1, <1>2, <1>3, <1>4, StepOfPart DEF Inv

\* Whichever contract runs is in its inductive invariant.
THEOREM TimelocksInvariance == Spec => []Inv
BY InitInv, InvKept, PTL DEF Spec

\* The vault, new or opened, counts its assets over the enabled markets, each once, and
\* no cap comes to a market whose removal is announced (updateWithdrawQueue, setCap).
THEOREM QueueMatchesConfigAlways == Spec => []QueueMatchesConfig
<1>1. Inv => QueueMatchesConfig
  BY RolesProperties, FundsProperties DEF Inv, QueueMatchesConfig,
     RolesProof!IInv, RolesProof!SettingsOK, FundsProof!IInv, FundsProof!SettingsOK
<1> QED
  BY <1>1, TimelocksInvariance, PTL

\* The slope the Silo is charged by is within the limits of the configuration it is
\* charged by, whatever is pending, cancelled or taking effect
\* (getCompoundInterestRateAndUpdate).
THEOREM SlopeOfConfigInForceAlways == Spec => []SlopeOfConfigInForce
<1>1. Inv => SlopeOfConfigInForce
  BY KinkSlope DEF Inv, SlopeOfConfigInForce
<1> QED
  BY <1>1, TimelocksInvariance, PTL

\* Once ownership is renounced nothing is pending, so nobody can change the oracle any
\* more (acceptRenounceOwnership, with onlyOwner of all proposals).
THEOREM RenouncedIsFinalAlways == Spec => []RenouncedIsFinal
<1>1. Inv => RenouncedIsFinal
  BY DEF Inv, RenouncedIsFinal, OracleInv
<1> QED
  BY <1>1, TimelocksInvariance, PTL

\* No deposit and no reallocation puts more into a market than its cap, for any number
\* of markets, queues in any order and whatever the markets report (balanceTracker).
THEOREM LossWithinCapAlways == Spec => LossWithinCap
<1> DEFINE Within == /\ part = "roles" => Roles!LossWithinCap
                     /\ part = "funds" => Funds!LossWithinCap
<1>1. Inv /\ [Next]_vars => [Within]_vars
  <2> SUFFICES ASSUME Inv, [Next]_vars PROVE Within
    OBVIOUS
  <2>1. part = "roles" => Roles!LossWithinCap
    BY StepOfPart, Assumed, RolesProof!FundsKept DEF Inv, RolesProof!IInv, Roles!LossWithinCap
  <2>2. part = "funds" => Funds!LossWithinCap
    BY StepOfPart, Assumed, FundsProof!FundsKept DEF Inv, FundsProof!IInv, Funds!LossWithinCap
  <2> QED
    BY <2>1, <2>2
<1> HIDE DEF Within
<1>2. Spec => [][Within]_vars
  BY <1>1, TimelocksInvariance, PTL DEF Spec
<1> QED
  BY <1>2 DEF LossWithinCap, Within

-----------------------------------------------------------------------------
(* Notice *)

\* The notices of the vault start with nothing announced.
LEMMA RolesInitNotice ==
    ASSUME Roles!Init
    PROVE  /\ Roles!TimelockNotice!Init /\ Roles!GuardianNotice!Init
           /\ \A m \in MarketsOf["roles"] : Roles!CapNotice(m)!Init
BY DEF Roles!Init, Roles!TimelockNotice!Init, Roles!GuardianNotice!Init, Roles!CapNotice!Init,
       Roles!Pending, Roles!NoPending, Roles!NoPendingGuardian

\* ... and take its steps, as proved of SiloVault.
LEMMA RolesNotice ==
    ASSUME Inv, Inv', [Next]_vars, part = "roles"
    PROVE  /\ Roles!TimelockNotice!Next /\ Roles!GuardianNotice!Next
           /\ \A m \in MarketsOf["roles"] : Roles!CapNotice(m)!Next
           /\ Roles!RemovedWithNotice
<1>1. /\ RolesProof!VaultAssumption /\ RolesProof!SettingsOK /\ RolesProof!SettingsOK'
      /\ [RolesProof!Next]_(RolesProof!vars)
  BY StepOfPart, Assumed DEF Inv, RolesProof!IInv
<1>2. Roles!TimelockNotice!Next
  <2>1. RolesProof!TimelockNotice!Next
    BY <1>1, RolesProof!TimelockStep
  <2> QED
    BY <2>1 DEF Roles!TimelockNotice!Next, Roles!TimelockNotice!Announce,
       Roles!TimelockNotice!Withdraw, Roles!TimelockNotice!TakeEffect,
       Roles!TimelockNotice!Immediately, Roles!Longer, Roles!Pending,
       RolesProof!TimelockNotice!Next, RolesProof!TimelockNotice!Announce,
       RolesProof!TimelockNotice!Withdraw, RolesProof!TimelockNotice!TakeEffect,
       RolesProof!TimelockNotice!Immediately, RolesProof!Longer, RolesProof!Pending
<1>3. Roles!GuardianNotice!Next
  <2>1. RolesProof!GuardianNotice!Next
    BY <1>1, RolesProof!GuardianStep
  <2> QED
    BY <2>1 DEF Roles!GuardianNotice!Next, Roles!GuardianNotice!Announce,
       Roles!GuardianNotice!Withdraw, Roles!GuardianNotice!TakeEffect,
       Roles!GuardianNotice!Immediately, Roles!Appoints, Roles!Pending,
       RolesProof!GuardianNotice!Next, RolesProof!GuardianNotice!Announce,
       RolesProof!GuardianNotice!Withdraw, RolesProof!GuardianNotice!TakeEffect,
       RolesProof!GuardianNotice!Immediately, RolesProof!Appoints, RolesProof!Pending
<1>4. ASSUME NEW m \in MarketsOf["roles"] PROVE Roles!CapNotice(m)!Next
  <2>1. RolesProof!CapNotice(m)!Next
    BY <1>1, RolesProof!CapStep
  <2> QED
    BY <2>1 DEF Roles!CapNotice!Next, Roles!CapNotice!Announce,
       Roles!CapNotice!Withdraw, Roles!CapNotice!TakeEffect,
       Roles!CapNotice!Immediately, Roles!Lower, Roles!Pending,
       RolesProof!CapNotice!Next, RolesProof!CapNotice!Announce,
       RolesProof!CapNotice!Withdraw, RolesProof!CapNotice!TakeEffect,
       RolesProof!CapNotice!Immediately, RolesProof!Lower, RolesProof!Pending
<1>5. Roles!RemovedWithNotice
  BY <1>1, RolesProof!RemovedStep, RolesProperties
<1> QED
  BY <1>2, <1>3, <1>4, <1>5

\* Whatever is delayed changes after its notice only: the timelock, the guardian and the
\* caps of the vault, the three settings of the oracle, the configuration of the rate
\* model; and a market with funds is removed with notice only.
THEOREM ChangesNeedNoticeAlways == Spec => ChangesNeedNotice
<1> DEFINE First ==
             /\ part = "roles" => /\ Roles!TimelockNotice!Init /\ Roles!GuardianNotice!Init
                                  /\ \A m \in MarketsOf["roles"] : Roles!CapNotice(m)!Init
             /\ part = "oracle" => Oracle!OracleNotice!Init /\ Oracle!TimelockNotice!Init
                                   /\ Oracle!OwnerNotice!Init
             /\ part = "rates" => Kink!ConfigNotice!Init
           OfRoles == part = "roles" =>
             /\ Roles!TimelockNotice!Next /\ Roles!GuardianNotice!Next
             /\ \A m \in MarketsOf["roles"] : Roles!CapNotice(m)!Next
             /\ Roles!RemovedWithNotice
           OfFunds == part = "funds" => Funds!RemovedWithNotice
           OfOracle == part = "oracle" =>
             Oracle!OracleNotice!Next /\ Oracle!TimelockNotice!Next /\ Oracle!OwnerNotice!Next
           OfRates == part = "rates" => Kink!ConfigNotice!Next
<1>1. Init => First
  BY RolesInitNotice, OracleInitNotice, InitConfigNotice, Assumed DEF Init
<1>2. Inv /\ Inv' /\ [Next]_vars => [OfRoles]_vars
  BY RolesNotice
<1>3. Inv /\ Inv' /\ [Next]_vars => [OfFunds]_vars
  BY StepOfPart, Assumed, FundsProof!RemovedStep, FundsProperties DEF Inv, FundsProof!IInv
<1>4. Inv /\ Inv' /\ [Next]_vars => [OfOracle]_vars
  BY StepOfPart, Assumed, OracleStep, OracleTimelockStep, OwnerStep DEF Inv
<1>5. Inv /\ Inv' /\ [Next]_vars => [OfRates]_vars
  <2> SUFFICES ASSUME Inv, Inv', [Next]_vars, part = "rates", ~UNCHANGED vars
               PROVE  Kink!ConfigNotice!Next
    OBVIOUS
  <2>1. Kink!Next
    BY DEF Next
  <2> QED
    BY <2>1, StepOfPart, Assumed, KinkNotice DEF Inv
<1> HIDE DEF First, OfRoles, OfFunds, OfOracle, OfRates
<1>6. Spec => /\ First
              /\ [][OfRoles]_vars /\ [][OfFunds]_vars /\ [][OfOracle]_vars /\ [][OfRates]_vars
  BY <1>1, <1>2, <1>3, <1>4, <1>5, TimelocksInvariance, PTL DEF Spec
<1> QED
  BY <1>6 DEF ChangesNeedNotice, First, OfRoles, OfFunds, OfOracle, OfRates

=============================================================================
