-------------------------- MODULE DeploymentChecks --------------------------
(***************************************************************************)
(* The checks of a chain's deployments that read the chain: of owners,     *)
(* admins, versions and ages.  Each is a job of its own that runs one      *)
(* script; they share what every script has (its report, its exit code)    *)
(* and nothing else, so a behaviour is that of the one script that runs.   *)
(***************************************************************************)
EXTENDS Naturals, Sequences, FiniteSets

CONSTANTS
    Deployments, Abi, Excluded, SiloHooks, Zero, NoAdmin, NotRead,
    OwnerAccounts, OwnerAddresses, MaxTransfers,                    \* owners
    AdminAccounts, AdminAddresses, MaxRoleChanges,                  \* admins
    DeployedList, GetterList, VersionAddresses, Versions, Expected, NoAddress, NoVersion,   \* versions
    Scripts, ContractsOf, BroadcastAddresses, NoBlock, MaxAge, MaxTime,                     \* ages
    Idle            \* the variables of a script that does not run

VARIABLES
    script,                                     \* which of them runs
    pc, todo, skipped, ok, fail, failedContracts, hasFailure, exit, mode, readFailed, slots,
    owner, pending, transfers, held, ownerResult, pendingResult, pendingContracts,  \* owners
    members, changes, toFetch, admin, first,                                        \* admins
    address, actual, found, onChain,                                                \* versions
    clock, minedAt, file, runLatest, entries, now, timestamp, okCodeOnly            \* ages

ownVars == <<owner, pending, transfers, held, ownerResult, pendingResult, pendingContracts>>
adminVars == <<members, changes, toFetch, admin, first>>
versionVars == <<address, actual, found, onChain>>
ageVars == <<clock, minedAt, file, runLatest, entries, now, timestamp, okCodeOnly>>
vars == <<script, pc, todo, skipped, ok, fail, failedContracts, hasFailure, exit, mode, readFailed,
          slots, ownVars, adminVars, versionVars, ageVars>>

Owner == INSTANCE OwnerCheck WITH Accounts <- OwnerAccounts, CommonAddresses <- OwnerAddresses

Admin == INSTANCE AdminCheck WITH Accounts <- AdminAccounts, CommonAddresses <- AdminAddresses

Version == INSTANCE VersionCheck WITH Addresses <- VersionAddresses

Freshness == INSTANCE FreshnessCheck WITH Addresses <- BroadcastAddresses

ASSUME ChecksAssumption ==
    /\ Owner!OwnerAssumption /\ Admin!AdminAssumption
    /\ Version!VersionAssumption /\ Freshness!FreshnessAssumption

-----------------------------------------------------------------------------
NoOwners ==
    /\ owner = Idle /\ pending = Idle /\ transfers = Idle /\ held = Idle
    /\ ownerResult = Idle /\ pendingResult = Idle /\ pendingContracts = Idle
NoAdmins == members = Idle /\ changes = Idle /\ toFetch = Idle /\ admin = Idle /\ first = Idle
NoVersions == address = Idle /\ actual = Idle /\ found = Idle /\ onChain = Idle
NoAges ==
    /\ clock = Idle /\ minedAt = Idle /\ file = Idle /\ runLatest = Idle
    /\ entries = Idle /\ now = Idle /\ timestamp = Idle /\ okCodeOnly = Idle

Init ==
    \/ script = "owners" /\ Owner!Init /\ NoAdmins /\ NoVersions /\ NoAges
    \/ script = "admins" /\ Admin!Init /\ NoOwners /\ NoVersions /\ NoAges
    \/ /\ script = "versions" /\ Version!Init /\ NoOwners /\ NoAdmins /\ NoAges
       /\ skipped = Idle /\ readFailed = Idle /\ slots = Idle
    \/ /\ script = "ages" /\ Freshness!Init /\ NoOwners /\ NoAdmins /\ NoVersions
       /\ todo = Idle /\ skipped = Idle /\ failedContracts = Idle /\ hasFailure = Idle
       /\ mode = Idle /\ slots = Idle

Next ==
    \/ script = "owners" /\ Owner!Next /\ UNCHANGED <<script, adminVars, versionVars, ageVars>>
    \/ script = "admins" /\ Admin!Next /\ UNCHANGED <<script, ownVars, versionVars, ageVars>>
    \/ /\ script = "versions" /\ Version!Next
       /\ UNCHANGED <<script, ownVars, adminVars, ageVars, skipped, readFailed, slots>>
    \/ /\ script = "ages" /\ Freshness!Next
       /\ UNCHANGED <<script, ownVars, adminVars, versionVars, todo, skipped, failedContracts,
                      hasFailure, mode, slots>>

Spec == Init /\ [][Next]_vars

-----------------------------------------------------------------------------
\* The state of the running script has its type; where verdicts are counted,
\* every contract is counted once.
TypeOK ==
    /\ script = "owners" => Owner!TypeOK /\ Owner!ReportAgrees
    /\ script = "admins" => Admin!TypeOK /\ Admin!ReportAgrees
    /\ script = "versions" => Version!TypeOK
    /\ script = "ages" => Freshness!TypeOK

\* A contract that passes was owned by the DAO, or had it as its first admin, at
\* some moment of the run, whichever reads failed.
PassedHadDao ==
    /\ script = "owners" => Owner!PassedHadDao
    /\ script = "admins" => Admin!PassedHadDao

\* If every read is answered and nobody interferes with a contract during the
\* run, its verdict is exact, also on its age.
ExactWhenQuiet ==
    /\ script = "owners" => Owner!ExactWhenQuiet
    /\ script = "admins" => Admin!SteadyIsExact
    /\ script = "ages" => Freshness!ExactWhenRead

\* A clean check of versions has read every contract and found it up to date, and
\* one that has read an outdated contract lists it: the versions are given back to
\* the contracts that they were read from, whichever getters fail.
CleanMeansCurrent ==
    script = "versions" =>
        Version!VersionsOfOwnAddress /\ Version!CleanMeansCurrent /\ Version!OutdatedListed

\* A contract that passes the check of ages is deployed, as fresh only if it is,
\* and without an age only if the run that deployed it was overwritten; and a
\* check that ends with 0 has passed all contracts.
AgesAreTrue ==
    script = "ages" =>
        /\ Freshness!PassedIsDeployed /\ Freshness!ZeroMeansAllPassed
        /\ Freshness!FreshIsFresh /\ Freshness!OldPassesOnlyOverwritten

=============================================================================
