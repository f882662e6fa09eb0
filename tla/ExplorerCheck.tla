--------------------------- MODULE ExplorerCheck ----------------------------
(***************************************************************************)
(* scripts/check_deployments_verified_on_explorer.py, the job of one       *)
(* chain: every deployed contract is looked up on every explorer of the    *)
(* chain.  A request may time out, be refused or be limited and is retried *)
(* once; what is learned goes into a section per explorer, and the         *)
(* sections into an artifact for the job that merges them.                 *)
(***************************************************************************)
EXTENDS Naturals, Sequences, FiniteSets, SequencesExt

CONSTANTS
    Chains, Okx,
    ExplorersOf,    \* CHAIN_EXPLORERS: by chain, its explorers in their order
    Addresses,
    Names,          \* of contracts; "unknown" and "" give way to another name
    MaxEntriesOf    \* bound: by chain, entries of the files

ExplorerAssumption ==
    /\ DOMAIN ExplorersOf = Chains /\ MaxEntriesOf \in [Chains -> Nat]
    /\ \A c \in Chains : /\ ExplorersOf[c] \in Seq(Range(ExplorersOf[c])) /\ ExplorersOf[c] # <<>>
                         /\ IsInjective(ExplorersOf[c])
    /\ IsFiniteSet(Addresses)

Entries == [name : Names, address : Addresses]

VARIABLES
    chain,
    files, broadcast,   \* the entries of the deployment and of the broadcast files
    isVerified,         \* by explorer, the addresses verified there
    pc,                 \* "start", "explorer", "asking", "done", "crashed"
    contracts,          \* the entries to check, sorted
    explorer,           \* index in Explorers
    todo, attempt,
    verified, unverified, errors,   \* of the current explorer
    sections,           \* summary_per_chain
    hasFailures, noFail, exit,
    artifact,           \* the sections in the JSON file; the workflow writes an
                        \* empty list if there is no file
    early               \* history: isVerified at the start

world == <<chain, files, broadcast, isVerified, early, noFail>>
counts == <<verified, unverified, errors>>
vars == <<world, pc, contracts, explorer, todo, attempt, counts, sections, hasFailures, exit,
          artifact>>

Explorers == ExplorersOf[chain]
Here == Explorers[explorer]
UseOklink == chain = Okx

\* collect_from_deployments: a file has the name of its contract.
collect_from_deployments == SeqOf({e \in Entries : e.name # ""}, MaxEntriesOf[chain])

\* collect_from_broadcast: any object with a name, be it empty, and an address.
collect_from_broadcast == SeqOf(Entries, MaxEntriesOf[chain])

Init ==
    /\ chain \in Chains
    /\ files \in collect_from_deployments
    /\ broadcast \in collect_from_broadcast
    /\ isVerified \in [Range(Explorers) -> SUBSET Addresses] /\ early = isVerified
    /\ pc = "start" /\ contracts = <<>> /\ explorer = 1 /\ todo = <<>> /\ attempt = 0
    /\ verified = {} /\ unverified = {} /\ errors = {}
    /\ sections = <<>> /\ hasFailures = FALSE /\ noFail \in BOOLEAN /\ exit = 0
    /\ artifact = <<>>

\* Contracts are verified on an explorer while the job runs.
GetVerified ==
    /\ pc = "asking"
    /\ \E a \in Addresses : a \notin isVerified[Here] /\
         isVerified' = [isVerified EXCEPT ![Here] = @ \cup {a}]
    /\ UNCHANGED <<chain, files, broadcast, early, noFail>>
    /\ UNCHANGED <<pc, contracts, explorer, todo, attempt, counts,
                   sections, hasFailures, exit, artifact>>

-----------------------------------------------------------------------------
Nameless(e) == e.name \in {"", "unknown"}

Positions(list, a) == {i \in DOMAIN list : list[i].address = a}
LastOf(S) == CHOOSE i \in S : \A j \in S : j <= i
FirstOf(S) == CHOOSE i \in S : \A j \in S : i <= j

\* The first entry found stays.
FaultyCollected(a) ==
    IF Positions(files, a) # {} THEN files[FirstOf(Positions(files, a))]
    ELSE broadcast[FirstOf(Positions(broadcast, a))]

\* One entry for an address: the last of the deployment files; the first of the
\* broadcast files with a name, or the last without one, if that has none.
Collected(a) ==
    LET fromFiles == Positions(files, a)
        named == {i \in Positions(broadcast, a) : ~Nameless(broadcast[i])}
    IN  IF fromFiles # {} /\ ~Nameless(files[LastOf(fromFiles)]) THEN files[LastOf(fromFiles)]
        ELSE IF named # {} THEN broadcast[FirstOf(named)]
        ELSE IF Positions(broadcast, a) # {} THEN broadcast[LastOf(Positions(broadcast, a))]
        ELSE files[LastOf(fromFiles)]

Deployed == {e.address : e \in Range(files) \cup Range(broadcast)}

Section(error) ==
    [explorer |-> IF error = "" THEN Here ELSE "default", error |-> error,
     verified |-> verified, unverified |-> unverified, errors |-> errors]

write_json_artifact(content) == artifact' = content

\* resolve_api_config raises.
resolve_api_config ==
    /\ pc = "start" /\ hasFailures' = TRUE
    /\ sections' = <<Section("config")>>

\* Without an API key or a known explorer, or without deployments, the chain
\* has a single section that says so; only the former is a failure.
NoConfig ==
    /\ resolve_api_config /\ pc' = "done" /\ write_json_artifact(sections')
    /\ exit' = IF noFail THEN 0 ELSE 1
    /\ UNCHANGED <<world, contracts, explorer, todo, attempt, counts>>

NoDeployments ==
    /\ pc = "start" /\ Deployed = {} /\ pc' = "done"
    /\ sections' = <<Section("none")>> /\ write_json_artifact(sections')
    /\ UNCHANGED <<world, contracts, explorer, todo, attempt, counts, hasFailures, exit>>

Start ==
    /\ pc = "start" /\ Deployed # {} /\ pc' = "explorer"
    /\ contracts' = SetToSeq({Collected(a) : a \in Deployed})
    /\ UNCHANGED <<world, explorer, todo, attempt, counts, sections, hasFailures, exit, artifact>>

StartExplorer ==
    /\ pc = "explorer" /\ explorer <= Len(Explorers) /\ pc' = "asking"
    /\ todo' = [i \in DOMAIN contracts |-> contracts[i].address] /\ attempt' = 0
    /\ verified' = {} /\ unverified' = {} /\ errors' = {}
    /\ UNCHANGED <<world, contracts, explorer, sections, hasFailures, exit, artifact>>

-----------------------------------------------------------------------------
Record(v, u, e) ==
    /\ verified' = verified \cup v /\ unverified' = unverified \cup u /\ errors' = errors \cup e
    /\ todo' = Tail(todo) /\ attempt' = 0
    /\ UNCHANGED <<world, pc, contracts, explorer, sections, hasFailures, exit, artifact>>

Retry ==
    /\ attempt' = 1
    /\ UNCHANGED <<world, pc, contracts, explorer, todo, counts, sections, hasFailures, exit,
                   artifact>>

Asking == pc = "asking" /\ todo # <<>>

\* An answer about the contract.
Answer ==
    /\ Asking
    /\ IF Head(todo) \in isVerified[Here] THEN Record({Head(todo)}, {}, {})
       ELSE Record({}, {Head(todo)}, {})

\* The contract is dropped after the second time.
DroppingTimeout ==
    /\ Asking
    /\ IF attempt = 0 THEN Retry ELSE Record({}, {}, {})

\* A retry that forgets that it is one.
EndlessTimeout ==
    /\ Asking /\ attempt' = 1 - attempt
    /\ UNCHANGED <<world, pc, contracts, explorer, todo, counts, sections, hasFailures, exit,
                   artifact>>

\* A timeout, a refused connection, 408, 429 or a 5xx.
Timeout ==
    /\ Asking
    /\ IF attempt = 0 THEN Retry ELSE Record({}, {}, {Head(todo)})

\* Another HTTP error, or an answer that is not a JSON object.
Refused == Asking /\ Record({}, {}, {Head(todo)})

\* Everything that is not about the contract is taken for verified source.
FaultyErrorPayload == Record({Head(todo)}, {}, {})

\* OKLink's errors are no answer about a contract.
MixedErrorPayload == Record({}, {Head(todo)}, {})

\* A payload that tells of an error: OKLink's code is looked at, the result of
\* the others is only found not to be a contract.
ErrorPayload ==
    IF UseOklink THEN Record({}, {}, {Head(todo)}) ELSE Record({}, {Head(todo)}, {})

\* A payload that tells of the rate limit is retried once, then taken as it is.
RateLimited == Asking /\ IF attempt = 0 THEN Retry ELSE ErrorPayload

\* A bad key or parameter.
ApiError == Asking /\ ErrorPayload

\* Any other exception ends the job; the sections so far are kept.
Crash ==
    /\ pc \in {"explorer", "asking"} /\ pc' = "crashed" /\ exit' = 1
    /\ write_json_artifact(sections)
    /\ UNCHANGED <<world, contracts, explorer, todo, attempt, counts, sections, hasFailures>>

\* Only the last explorer decides.
FaultyFinishExplorer ==
    /\ pc = "asking" /\ todo = <<>> /\ pc' = "explorer" /\ explorer' = explorer + 1
    /\ sections' = Append(sections, Section(""))
    /\ hasFailures' = (unverified # {} \/ errors # {})
    /\ UNCHANGED <<world, contracts, todo, attempt, counts, exit, artifact>>

\* The summary is begun anew for each explorer.
ResetFinishExplorer ==
    /\ pc = "asking" /\ todo = <<>> /\ pc' = "explorer" /\ explorer' = explorer + 1
    /\ sections' = <<Section("")>>
    /\ hasFailures' = (hasFailures \/ unverified # {} \/ errors # {})
    /\ UNCHANGED <<world, contracts, todo, attempt, counts, exit, artifact>>

FinishExplorer ==
    /\ pc = "asking" /\ todo = <<>> /\ pc' = "explorer" /\ explorer' = explorer + 1
    /\ sections' = Append(sections, Section(""))
    /\ hasFailures' = (hasFailures \/ unverified # {} \/ errors # {})
    /\ UNCHANGED <<world, contracts, todo, attempt, counts, exit, artifact>>

Finish ==
    /\ pc = "explorer" /\ explorer > Len(Explorers) /\ pc' = "done"
    /\ write_json_artifact(sections) /\ exit' = IF hasFailures /\ ~noFail THEN 1 ELSE 0
    /\ UNCHANGED <<world, contracts, explorer, todo, attempt, counts, sections, hasFailures>>

Step ==
    \/ NoConfig \/ NoDeployments \/ Start \/ StartExplorer
    \/ Answer \/ Timeout \/ Refused \/ RateLimited \/ ApiError \/ Crash
    \/ FinishExplorer \/ Finish

Next == GetVerified \/ Step

Spec == Init /\ [][Next]_vars

\* Every request ends, by its timeout if not otherwise, and the job goes on.
FairSpec == Spec /\ WF_vars(Step)

-----------------------------------------------------------------------------
Reported == {s \in Range(artifact) : s.error = ""}

\* Each section of the artifact has every contract of the chain, in exactly one
\* of its three lists, also if the job ended early.
SectionsAreComplete ==
    \A s \in Reported :
        /\ s.verified \cup s.unverified \cup s.errors = Deployed
        /\ Cardinality(s.verified) + Cardinality(s.unverified) + Cardinality(s.errors)
             = Cardinality(Deployed)

\* A contract that is reported as verified is verified on that very explorer.
VerifiedIsTrue == \A s \in Reported : s.verified \subseteq isVerified[s.explorer]

\* A job that ends with 0 has verified every contract on every explorer; or was
\* asked to end so; or there are no contracts.
ZeroMeansVerified ==
    pc = "done" /\ exit = 0 /\ ~noFail =>
        \A x \in Range(Explorers) : Deployed \subseteq isVerified[x]

\* A contract gets the name of its deployment file if that has one, else a name
\* of the broadcast files if one of them has.
NamesAreKept ==
    \A e \in Range(contracts) :
        Nameless(e) => \A d \in Range(broadcast) : d.address = e.address => Nameless(d)

\* OKLink's errors are told from its answers: a contract of okx that is reported
\* as not verified was not, when the job started.
UnverifiedIsTrue == UseOklink => \A s \in Reported : s.unverified \cap early[s.explorer] = {}

\* Every job ends.
Ends == <>(pc \in {"done", "crashed"})

=============================================================================
