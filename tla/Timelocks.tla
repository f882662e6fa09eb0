------------------------------ MODULE Timelocks ------------------------------
(***************************************************************************)
(* The contracts whose settings change after notice: the vault, twice (a   *)
(* new one, for its governance, and one that was opened in its markets,    *)
(* for funds that lose, earn and lie), the manageable oracle and the       *)
(* interest rate model.  They share no state, so a behaviour is that of    *)
(* one of them.                                                            *)
(***************************************************************************)
EXTENDS Naturals, Sequences, FiniteSets, SequencesExt

CONSTANTS
    \* of the vault, by part: "roles" and "funds"
    MarketsOf, GuardiansOf, TimelocksOf, CapsOf, AmountsOf, RatesOf, SyncsOf,
    MaxSharesOf, MaxTimeOf,
    NoGuardian, MinTimelock, MaxQueueLength, LossThreshold,
    FirstCap,       \* of the markets of the opened vault
    Oracles, Accounts, NoAddress, OracleMinTimelock, OracleTimelocks, OracleMaxTime,
    Limits, configTimelock, MaxUpdates, KinkMaxTime,
    Nothing,        \* no change is pending
    Idle            \* the variables of a contract that does not run

VARIABLES
    part,                                           \* which of them
    clock, timelock, pendingTimelock,
    guardian, pendingGuardian, config, pendingCap,  \* the vault
    supplyQueue, withdrawQueue, funds, rate, announced,
    owner, oracle, pendingOracle, pendingOwnership, \* the oracle
    configs, configsHistory, irmConfig, k, activateConfigAt     \* the rate model

vaultVars == <<guardian, pendingGuardian, config, pendingCap, supplyQueue, withdrawQueue, funds,
               rate, announced>>
oracleVars == <<owner, oracle, pendingOracle, pendingOwnership>>
kinkVars == <<configs, configsHistory, irmConfig, k, activateConfigAt>>
vars == <<part, clock, timelock, pendingTimelock, vaultVars, oracleVars, kinkVars>>

Roles == INSTANCE SiloVault WITH
    Markets <- MarketsOf["roles"], Guardians <- GuardiansOf["roles"],
    Timelocks <- TimelocksOf["roles"], Caps <- CapsOf["roles"], Amounts <- AmountsOf["roles"],
    Rates <- RatesOf["roles"], Syncs <- SyncsOf["roles"], MaxShares <- MaxSharesOf["roles"],
    MaxTime <- MaxTimeOf["roles"]

Funds == INSTANCE SiloVault WITH
    Markets <- MarketsOf["funds"], Guardians <- GuardiansOf["funds"],
    Timelocks <- TimelocksOf["funds"], Caps <- CapsOf["funds"], Amounts <- AmountsOf["funds"],
    Rates <- RatesOf["funds"], Syncs <- SyncsOf["funds"], MaxShares <- MaxSharesOf["funds"],
    MaxTime <- MaxTimeOf["funds"]

Oracle == INSTANCE ManageableOracle WITH
    MinTimelock <- OracleMinTimelock, Timelocks <- OracleTimelocks, MaxTime <- OracleMaxTime

Kink == INSTANCE KinkConfig WITH MaxTime <- KinkMaxTime

ASSUME TimelocksAssumption ==
    /\ Roles!VaultAssumption /\ Funds!VaultAssumption
    /\ Oracle!OracleAssumption /\ Kink!KinkAssumption
    /\ FirstCap \in Nat \ {0}

-----------------------------------------------------------------------------
NoTimelock == timelock = Idle /\ pendingTimelock = Idle
NoVault ==
    /\ guardian = Idle /\ pendingGuardian = Idle /\ config = Idle /\ pendingCap = Idle
    /\ supplyQueue = Idle /\ withdrawQueue = Idle /\ funds = Idle /\ rate = Idle
    /\ announced = Idle
NoOracle == owner = Idle /\ oracle = Idle /\ pendingOracle = Idle /\ pendingOwnership = Idle
NoKink ==
    /\ configs = Idle /\ configsHistory = Idle /\ irmConfig = Idle /\ k = Idle
    /\ activateConfigAt = Idle

\* A new vault whose markets got their first cap at once: submitted, waited for and
\* accepted, in any order.
Opened ==
    LET Markets == MarketsOf["funds"]
    IN  /\ timelock \in {t \in TimelocksOf["funds"] : t >= MinTimelock}
        /\ clock = 1 + timelock /\ pendingTimelock = Funds!NoPending
        /\ guardian = NoGuardian /\ pendingGuardian = Funds!NoPendingGuardian
        /\ config = [m \in Markets |-> [cap |-> FirstCap, enabled |-> TRUE, removableAt |-> 0]]
        /\ pendingCap = [m \in Markets |-> Funds!NoPending]
        /\ supplyQueue = <<>>
        /\ withdrawQueue \in SeqOf(Markets, MaxQueueLength)
        /\ IsInjective(withdrawQueue) /\ Range(withdrawQueue) = Markets
        /\ funds = [m \in Markets |-> [shares |-> 0, balanceTracker |-> 0, principal |-> 0]]
        /\ rate = [m \in Markets |-> 1]
        /\ announced = [m \in Markets |-> 0]

Init ==
    \/ part = "roles" /\ Roles!Init /\ NoOracle /\ NoKink
    \/ part = "funds" /\ Opened /\ NoOracle /\ NoKink
    \/ part = "oracle" /\ Oracle!Init /\ NoVault /\ NoKink
    \/ part = "rates" /\ Kink!Init /\ NoTimelock /\ NoVault /\ NoOracle

Next ==
    \/ part = "roles" /\ Roles!Next /\ UNCHANGED <<part, oracleVars, kinkVars>>
    \/ part = "funds" /\ Funds!Next /\ UNCHANGED <<part, oracleVars, kinkVars>>
    \/ part = "oracle" /\ Oracle!Next /\ UNCHANGED <<part, vaultVars, kinkVars>>
    \/ /\ part = "rates" /\ Kink!Next
       /\ UNCHANGED <<part, timelock, pendingTimelock, vaultVars, oracleVars>>

Spec == Init /\ [][Next]_vars

-----------------------------------------------------------------------------
\* The timelock, the guardian and the caps of the vault, the oracle, the timelock
\* and the owner of the manageable oracle, and the configuration of the rate model
\* are Timelocks: each step of theirs is one of the abstract specification.  And a
\* market with funds is removed with notice only.
ChangesNeedNotice ==
    /\ part = "roles" => /\ Roles!TimelockNotice!Init /\ Roles!GuardianNotice!Init
                         /\ \A m \in MarketsOf["roles"] : Roles!CapNotice(m)!Init
    /\ part = "oracle" => Oracle!OracleNotice!Init /\ Oracle!TimelockNotice!Init
                          /\ Oracle!OwnerNotice!Init
    /\ part = "rates" => Kink!ConfigNotice!Init
    /\ [][part = "roles" =>
            /\ Roles!TimelockNotice!Next /\ Roles!GuardianNotice!Next
            /\ \A m \in MarketsOf["roles"] : Roles!CapNotice(m)!Next
            /\ Roles!RemovedWithNotice]_vars
    /\ [][part = "funds" => Funds!RemovedWithNotice]_vars
    /\ [][part = "oracle" =>
            Oracle!OracleNotice!Next /\ Oracle!TimelockNotice!Next /\ Oracle!OwnerNotice!Next]_vars
    /\ [][part = "rates" => Kink!ConfigNotice!Next]_vars

\* The vault counts its assets over the enabled markets, each once, and no cap comes
\* to a market whose removal is announced.
QueueMatchesConfig ==
    /\ part = "roles" => Roles!QueueMatchesConfig
    /\ part = "funds" => Funds!QueueMatchesConfig

\* No step puts more into a market than its cap, whatever the market reports.
LossWithinCap ==
    [][/\ part = "roles" => Roles!LossWithinCap
       /\ part = "funds" => Funds!LossWithinCap]_vars

\* The slope in use is within the limits of the configuration in use.
SlopeOfConfigInForce == part = "rates" => Kink!SlopeOfConfigInForce

\* An oracle without an owner has nothing pending.
RenouncedIsFinal == part = "oracle" => Oracle!RenouncedIsFinal

=============================================================================
