---------------------------- MODULE VersionCheck ----------------------------
(***************************************************************************)
(* scripts/check_deployments_version_on_chain.py: the versions of deployed *)
(* contracts on chain against those of the sources.  Besides the contracts *)
(* of the deployment files it checks contracts that are only known through *)
(* a getter (implementations behind factories and the SiloDeployer).  All  *)
(* versions come from one call with a list of addresses, and the answers   *)
(* are given back to the contracts by their position in it.                *)
(***************************************************************************)
EXTENDS Naturals, Sequences, FiniteSets, SequencesExt

CONSTANTS
    DeployedList,   \* versioned contracts of the deployment files, sorted
    GetterList,     \* contracts known by a getter, in the order of the checks
    Addresses,
    Versions,
    Expected,       \* by contract, the version in the sources
    NoAddress, NoVersion

\* parse_args
Modes == {"check", "no_fail", "dry_run"}

\* collect_deployments, where the sources tell a version.
Deployed == Range(DeployedList)

\* The implementations behind deployed factories and the SiloDeployer, where the
\* sources tell a version.
Getters == Range(GetterList)

Contracts == Deployed \cup Getters

VersionAssumption ==
    /\ DeployedList # <<>>   \* otherwise it says so and ends with 0
    /\ DeployedList \in Seq(Deployed) /\ GetterList \in Seq(Getters)
    /\ IsInjective(DeployedList \o GetterList)
    /\ Expected \in [Contracts -> Versions \ {"legacy"}]
    /\ NoAddress \notin Addresses /\ "legacy" \in Versions /\ NoVersion \notin Versions

VARIABLES
    address,    \* by contract, where it really is; NoAddress behind a zero getter
    actual,     \* by address, VERSION(), "legacy" where there is none
    pc,         \* "start", "prefetch", "versions", "verdicts", "done"
    found,      \* by getter, the address read
    onChain,    \* by contract, the version read
    todo,       \* the contracts without a verdict
    ok, fail, failedContracts,
    hasFailure, \* the flag of the JSON report, read by the CI job that collects
    exit,
    mode        \* one of Modes

chain == <<address, actual>>
report == <<ok, fail, failedContracts>>
result == <<hasFailure, exit>>
vars == <<chain, pc, found, onChain, todo, report, result, mode>>

Init ==
    /\ address \in [Contracts -> Addresses \cup {NoAddress}]
    /\ \A c \in Deployed : address[c] # NoAddress
    /\ actual \in [Addresses -> Versions]
    /\ pc = "start" /\ hasFailure = FALSE /\ exit = 0
    /\ mode \in Modes
    /\ found = [g \in Getters |-> NoAddress]
    /\ onChain = [c \in Contracts |-> NoVersion]
    /\ todo = DeployedList \o GetterList
    /\ ok = 0 /\ fail = 0 /\ failedContracts = {}

\* _write_json_report, of which a job that collects the reports reads has_failure.
write_json_report(error) == hasFailure' = (fail > 0 \/ error)

\* No RPC URL, a failed preflight or no SiloLens.
Stop ==
    /\ pc = "start" /\ mode # "dry_run" /\ pc' = "done"
    /\ exit' = 2 /\ write_json_report(TRUE)
    /\ UNCHANGED <<chain, found, onChain, todo, report, mode>>

\* A dry run reads nothing and only lists the expected versions.
DryRun ==
    /\ pc = "start" /\ mode = "dry_run" /\ pc' = "done" /\ todo' = <<>>
    /\ UNCHANGED <<chain, found, onChain, report, result, mode>>

Start ==
    /\ pc = "start" /\ mode # "dry_run" /\ pc' = "prefetch"
    /\ UNCHANGED <<chain, found, onChain, todo, report, result, mode>>

\* One multicall reads all the getters; any of them may fail, or all do.
Prefetch ==
    /\ pc = "prefetch" /\ pc' = "versions"
    /\ \E answered \in SUBSET Getters :
          found' = [g \in Getters |-> IF g \in answered THEN address[g] ELSE NoAddress]
    /\ UNCHANGED <<chain, onChain, todo, report, result, mode>>

-----------------------------------------------------------------------------
\* The getters of the list up to n that were read, in their order
ReachedOf[n \in 0 .. Len(GetterList)] ==
    IF n = 0 THEN <<>>
    ELSE IF found[GetterList[n]] = NoAddress THEN ReachedOf[n - 1]
    ELSE Append(ReachedOf[n - 1], GetterList[n])

Reached == ReachedOf[Len(GetterList)]

\* The addresses of the call: those of the files, then those found.
Asked == [i \in DOMAIN DeployedList |-> address[DeployedList[i]]]
         \o [i \in DOMAIN Reached |-> found[Reached[i]]]

FaultyPosition(c) ==
    IF c \in Deployed THEN CHOOSE i \in DOMAIN DeployedList : DeployedList[i] = c
    ELSE Len(DeployedList) + (CHOOSE i \in DOMAIN GetterList : GetterList[i] = c)

\* The position of a contract's answer: the files' contracts in their order,
\* then a running index that moves on only for a getter that was read.
Position(c) ==
    IF c \in Deployed THEN CHOOSE i \in DOMAIN DeployedList : DeployedList[i] = c
    ELSE Len(DeployedList) + (CHOOSE i \in DOMAIN Reached : Reached[i] = c)

\* _abi_decode_string_array, and the version taken from each string: "legacy" if it
\* cannot be decoded or is empty.
decoded(broken) ==
    [i \in DOMAIN Asked |-> IF i \in broken THEN "legacy" ELSE actual[Asked[i]]]

\* get_versions_on_chain: nothing at all if the call fails or the answer has
\* another length.
GetVersions ==
    /\ pc = "versions" /\ pc' = "verdicts"
    /\ \/ onChain' = [c \in Contracts |-> NoVersion]
       \/ \E broken \in SUBSET DOMAIN Asked :
            onChain' = [c \in Contracts |->
                IF (c \in Deployed \/ found[c] # NoAddress) /\ Position(c) \in DOMAIN Asked
                THEN decoded(broken)[Position(c)] ELSE NoVersion]
    /\ UNCHANGED <<chain, found, todo, report, result, mode>>

-----------------------------------------------------------------------------
Current == Head(todo)

Count(verdict, listed) ==
    /\ ok' = ok + IF verdict = "ok" THEN 1 ELSE 0
    /\ fail' = fail + IF verdict = "fail" THEN 1 ELSE 0
    /\ failedContracts' = failedContracts \cup listed

Take ==
    /\ pc = "verdicts" /\ todo # <<>> /\ todo' = Tail(todo)
    /\ UNCHANGED <<chain, pc, found, onChain, result, mode>>

\* A getter that was not read has no address to list.
NoAddressRead == Current \in Getters /\ found[Current] = NoAddress

\* Only versions that differ are failures.
LenientVerdict ==
    Take /\ IF onChain[Current] \in {Expected[Current], NoVersion} THEN Count("ok", {})
             ELSE Count("fail", {Current})

\* A getter that was not read is passed over.
SkippingVerdict ==
    Take /\ IF NoAddressRead THEN Count("skip", {})
             ELSE IF onChain[Current] = Expected[Current] THEN Count("ok", {})
             ELSE Count("fail", {Current})

\* A contract behind a getter is counted, never listed.
UnlistedVerdict ==
    Take /\ IF onChain[Current] = Expected[Current] THEN Count("ok", {})
             ELSE Count("fail", {Current} \ Getters)

\* A version that was not read is a failure, as is one that differs.
Verdict ==
    Take /\ IF onChain[Current] = Expected[Current] THEN Count("ok", {})
             ELSE Count("fail", IF NoAddressRead THEN {} ELSE {Current})

Finish ==
    /\ pc = "verdicts" /\ todo = <<>> /\ pc' = "done"
    /\ exit' = IF fail > 0 /\ mode # "no_fail" THEN 1 ELSE 0
    /\ write_json_report(FALSE)
    /\ UNCHANGED <<chain, found, onChain, todo, report, mode>>

Next == Stop \/ DryRun \/ Start \/ Prefetch \/ GetVersions \/ Verdict \/ Finish

Spec == Init /\ [][Next]_vars

-----------------------------------------------------------------------------
TypeOK ==
    /\ pc \in {"start", "prefetch", "versions", "verdicts", "done"}
    /\ found \in [Getters -> Addresses \cup {NoAddress}]
    /\ onChain \in [Contracts -> Versions \cup {NoVersion}]
    /\ mode # "dry_run" => ok + fail + Len(todo) = Cardinality(Contracts)
    /\ failedContracts \subseteq Contracts /\ exit \in {0, 1, 2}

\* Each version is compared for the contract it was read from, whichever
\* getters fail: a version that was read is that of the contract's own address,
\* or "legacy".
VersionsOfOwnAddress ==
    \A c \in Contracts :
        onChain[c] # NoVersion =>
            address[c] # NoAddress /\ onChain[c] \in {actual[address[c]], "legacy"}

\* The check ends with 0, or reports no failure to the job that collects the
\* reports, only if every contract was read and is up to date.
CleanMeansCurrent ==
    /\ pc = "done" /\ mode # "dry_run"
    /\ (exit = 0 /\ mode = "check") \/ ~hasFailure
    => \A c \in Contracts : address[c] # NoAddress /\ actual[address[c]] = Expected[c]

\* An outdated contract that was read is listed; the list has only contracts
\* whose version is another one or could not be read.
OutdatedListed ==
    pc = "done" /\ exit # 2 =>
        /\ \A c \in failedContracts : onChain[c] # Expected[c]
        /\ \A c \in Contracts :
             onChain[c] \notin {NoVersion, Expected[c]} => c \in failedContracts

=============================================================================
