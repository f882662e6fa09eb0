------------------------- MODULE MCDeploymentChecks -------------------------
(***************************************************************************)
(* Small instances of DeploymentChecks for TLC.                            *)
(***************************************************************************)
EXTENDS DeploymentChecks

CONSTANTS
    factory, hook, lens, tower, irm, oracle, impl, dao, daoOld, dev,
    core, update, silo, a1, a2, a3

\* A contract, a SiloHook, one without owner() and roles, and an excluded one.
MCDeployments == <<factory, hook, lens, tower>>
MCAbi == [c \in {factory, hook, lens, tower} |->
             IF c = lens THEN {} ELSE {"owner", "getRoleMemberCount", "getRoleMember"}]
MCExcluded == {tower}
MCSiloHooks == {hook}

MCOwnerAccounts == {dao, daoOld, dev}
MCOwnerAddresses == [DAO |-> dao, DAO_OLD |-> daoOld, DEV |-> dev]
MCAdminAccounts == {dao, dev}
MCAdminAddresses == [DAO |-> dao, DEV |-> dev]

\* Two contracts of the files, three behind getters; two of them may be one.
MCDeployedList == <<lens, factory>>
MCGetterList == <<irm, oracle, impl>>
MCVersionAddresses == {a1, a2}
MCVersions == {"1", "2", "legacy"}
MCExpected == [c \in {lens, factory, irm, oracle, impl} |-> IF c \in {lens, irm} THEN "1" ELSE "2"]

\* A script of two contracts and one that deploys only the second of them.
MCScripts == <<core, update>>
MCContractsOf == [s \in {core, update} |-> IF s = core THEN {silo, lens} ELSE {lens}]
MCBroadcastAddresses == {a1, a2, a3}

=============================================================================
