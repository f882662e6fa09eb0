----------------------------- MODULE AdminCheck -----------------------------
(***************************************************************************)
(* scripts/check_deployments_admin_is_dao.py: the first holder of          *)
(* DEFAULT_ADMIN_ROLE of every deployed AccessControlEnumerable is to be   *)
(* the DAO.  The number of holders is read first and the holder itself in  *)
(* a second call; roles may be granted and revoked in between, and a       *)
(* revocation moves the last holder into the place of the one removed.     *)
(***************************************************************************)
EXTENDS Naturals, Sequences, FiniteSets, SequencesExt

CONSTANTS
    Deployments,    \* the deployment files' contracts, sorted
    Abi,            \* by contract, the functions of the ABI in its file
    Excluded,       \* CONTRACTS_EXCLUDED
    SiloHooks,      \* those whose name starts with SiloHook
    Accounts,
    CommonAddresses,    \* common/addresses of the chain: by key, an account
    NoAdmin,        \* the reason "admin_role_empty_or_zero"
    NotRead,        \* every other reason
    MaxRoleChanges  \* bound: grants and revocations during a run

\* Calls with which a contract is asked for its proxy.
Slots == {"implementation", "beacon"}

\* parse_args
Modes == {"check", "no_fail", "dry_run"}

\* collect_deployment_addresses
Contracts == Range(Deployments)

abi_has_access_control_admin(c) == {"getRoleMemberCount", "getRoleMember"} \subseteq Abi[c]

DaoAddresses == {CommonAddresses[k] : k \in {"DAO", "DAO_OLD"} \cap DOMAIN CommonAddresses}

Checked == {c \in Contracts \ Excluded : abi_has_access_control_admin(c)}

AdminAssumption ==
    /\ Deployments \in Seq(Contracts) /\ IsInjective(Deployments) /\ Deployments # <<>>
    /\ Excluded \cup SiloHooks \subseteq Contracts /\ DOMAIN Abi = Contracts
    /\ Range(CommonAddresses) \subseteq Accounts
    /\ NoAdmin # NotRead /\ {NoAdmin, NotRead} \cap Accounts = {}
    /\ MaxRoleChanges \in Nat

VARIABLES
    members,        \* by contract, the holders of DEFAULT_ADMIN_ROLE in their order
    slots,          \* by contract, its EIP-1967 slots that are set
    changes,
    pc,             \* "start", "counts", "members", "verdicts", "done"
    toFetch,        \* members_to_fetch: the contracts whose holder is still to be read
    admin,          \* by contract, the holder read, NoAdmin or NotRead
    todo,
    skipped, ok, fail, failedContracts,
    hasFailure, exit,
    mode,           \* one of Modes
    first,          \* history: by contract, its first holders during the run
    readFailed      \* history: a read of the run failed

chain == <<members, slots, changes, first>>
report == <<skipped, ok, fail, failedContracts>>
vars == <<chain, pc, toFetch, admin, todo, report, hasFailure, exit, mode, readFailed>>

First(list) == IF list = <<>> THEN NoAdmin ELSE Head(list)

MemberLists == {list \in SeqOf(Accounts, 2) : IsInjective(list)}

Init ==
    /\ members \in [Checked -> MemberLists]
    /\ slots \in [SiloHooks -> SUBSET Slots]
    /\ changes = 0 /\ first = [c \in Checked |-> {First(members[c])}]
    /\ pc = "start" /\ toFetch = {} /\ readFailed = FALSE
    /\ admin = [c \in Checked |-> NotRead]
    /\ todo = Deployments
    /\ skipped = 0 /\ ok = 0 /\ fail = 0 /\ failedContracts = {}
    /\ hasFailure = FALSE /\ exit = 0
    /\ mode \in Modes

-----------------------------------------------------------------------------
\* The chain goes on: EnumerableSet appends, and removes by moving the last.
SetMembers(c, list) ==
    /\ members' = [members EXCEPT ![c] = list]
    /\ first' = [first EXCEPT ![c] = @ \cup {First(list)}]
    /\ changes < MaxRoleChanges /\ changes' = changes + 1
    /\ pc # "done"
    /\ UNCHANGED <<slots, pc, toFetch, admin, todo, report, hasFailure, exit, mode, readFailed>>

GrantRole ==
    \E c \in Checked, a \in Accounts :
        /\ members[c] # <<>> /\ ~Contains(members[c], a)
        /\ SetMembers(c, Append(members[c], a))

RevokeRole ==
    \E c \in Checked : \E i \in DOMAIN members[c] :
        SetMembers(c, Front([members[c] EXCEPT ![i] = Last(members[c])]))

-----------------------------------------------------------------------------
\* _write_json_report, of which a job that collects the reports reads has_failure.
write_json_report(error) == hasFailure' = (fail > 0 \/ error)

\* No DAO in the addresses or, unless the run is dry, no RPC URL or a failed preflight.
Stop ==
    /\ pc = "start" /\ pc' = "done" /\ (mode = "dry_run" => DaoAddresses = {})
    /\ exit' = 2 /\ write_json_report(TRUE) /\ readFailed' = TRUE
    /\ UNCHANGED <<chain, toFetch, admin, todo, report, mode>>

\* A dry run, which wants the DAO too, lists the contracts.
DryRun ==
    /\ pc = "start" /\ mode = "dry_run" /\ pc' = "done" /\ todo' = <<>>
    /\ DaoAddresses # {}
    /\ UNCHANGED <<chain, toFetch, admin, report, hasFailure, exit, mode, readFailed>>

Start ==
    /\ pc = "start" /\ mode # "dry_run" /\ pc' = "counts"
    /\ DaoAddresses # {}
    /\ UNCHANGED <<chain, toFetch, admin, todo, report, hasFailure, exit, mode, readFailed>>

\* _decode_admin_count: the contracts whose number of holders is one or more.
withHolders(answered) == {c \in answered : Len(members[c]) > 0}

\* An unread number of holders is no holder at all.
LenientReadCounts ==
    /\ pc = "counts" /\ pc' = "members"
    /\ \E answered \in SUBSET Checked :
         /\ toFetch' = withHolders(answered)
         /\ admin' = [c \in Checked |-> IF c \in toFetch' THEN NotRead ELSE NoAdmin]
         /\ readFailed' = (answered # Checked)
    /\ UNCHANGED <<chain, todo, report, hasFailure, exit, mode>>

\* One multicall reads the number of holders; a call of it may fail, or all.
ReadCounts ==
    /\ pc = "counts" /\ pc' = "members"
    /\ \E answered \in SUBSET Checked :
         /\ toFetch' = withHolders(answered)
         /\ admin' = [c \in Checked |-> IF c \in answered \ toFetch' THEN NoAdmin ELSE NotRead]
         /\ readFailed' = (answered # Checked)
    /\ UNCHANGED <<chain, todo, report, hasFailure, exit, mode>>

\* Another reads the holder at index 0; where the last one was revoked in the
\* meantime, the call reverts.
ReadMembers ==
    /\ pc = "members" /\ pc' = "verdicts"
    /\ \E answered \in SUBSET {c \in toFetch : members[c] # <<>>} :
         /\ admin' = [c \in Checked |-> IF c \in answered THEN First(members[c]) ELSE admin[c]]
         /\ readFailed' = (readFailed \/ answered # toFetch)
    /\ UNCHANGED <<chain, toFetch, todo, report, hasFailure, exit, mode>>

-----------------------------------------------------------------------------
Current == Head(todo)

Count(verdict) ==
    /\ skipped' = skipped + IF verdict = "skip" THEN 1 ELSE 0
    /\ ok' = ok + IF verdict = "ok" THEN 1 ELSE 0
    /\ fail' = fail + IF verdict = "fail" THEN 1 ELSE 0
    /\ failedContracts' = failedContracts \cup IF verdict = "fail" THEN {Current} ELSE {}

Take ==
    /\ pc = "verdicts" /\ todo # <<>> /\ todo' = Tail(todo)
    /\ UNCHANGED <<chain, pc, toFetch, admin, hasFailure, exit, mode>>

\* Without the implementation slot the probe has failed; without the other, that
\* slot is taken for empty.
detect_proxy_info(c, answered) == "implementation" \in answered /\ slots[c] \cap answered # {}

\* A probe that failed is a contract that is no proxy.
Probe ==
    \E answered \in SUBSET Slots :
        /\ readFailed' = (readFailed \/ answered # Slots)
        /\ Count(IF detect_proxy_info(Current, answered) THEN "fail" ELSE "ok")

Skip == Take /\ Current \notin Checked /\ Count("skip") /\ UNCHANGED readFailed

\* A failed read is passed over.
SkippingVerdict ==
    /\ Take /\ Current \in Checked /\ UNCHANGED readFailed
    /\ Count(IF admin[Current] = NotRead THEN "skip"
             ELSE IF admin[Current] \in DaoAddresses THEN "ok" ELSE "fail")

\* Every SiloHook without a holder passes, proxy or not.
TrustingVerdict ==
    /\ Take /\ Current \in Checked /\ UNCHANGED readFailed
    /\ Count(IF (admin[Current] = NoAdmin /\ Current \in SiloHooks) \/ admin[Current] \in DaoAddresses
             THEN "ok" ELSE "fail")

\* The DAO, or nobody for the implementation of a SiloHook.
Verdict ==
    /\ Take /\ Current \in Checked
    /\ IF admin[Current] = NoAdmin /\ Current \in SiloHooks THEN Probe
       ELSE /\ UNCHANGED readFailed
            /\ Count(IF admin[Current] \in DaoAddresses THEN "ok" ELSE "fail")

Finish ==
    /\ pc = "verdicts" /\ todo = <<>> /\ pc' = "done"
    /\ exit' = IF fail > 0 /\ mode # "no_fail" THEN 1 ELSE 0
    /\ write_json_report(FALSE)
    /\ UNCHANGED <<chain, toFetch, admin, todo, report, mode, readFailed>>

Next ==
    \/ GrantRole \/ RevokeRole
    \/ Stop \/ DryRun \/ Start \/ ReadCounts \/ ReadMembers \/ Skip \/ Verdict \/ Finish

Spec == Init /\ [][Next]_vars

-----------------------------------------------------------------------------
TypeOK ==
    /\ \A c \in Checked : IsInjective(members[c])
    /\ admin \in [Checked -> Accounts \cup {NoAdmin, NotRead}]
    /\ pc \in {"members", "verdicts"} => \A c \in Checked : admin[c] = NoAdmin => c \notin toFetch
    /\ failedContracts \subseteq Checked /\ exit \in {0, 1, 2}

Finished == pc = "done" /\ exit # 2 /\ mode # "dry_run"
Passed == Checked \ failedContracts

\* A contract that passes had the DAO as its first admin at some moment of the
\* run, or is a SiloHook that had no admin at some moment of it.
PassedHadDao ==
    Finished => \A c \in Passed :
        \/ first[c] \cap DaoAddresses # {}
        \/ c \in SiloHooks /\ NoAdmin \in first[c]

\* A contract whose first admin was the DAO at each moment of the run passes if
\* every read was answered, and one that never had the DAO there fails, however
\* roles moved between the two reads.
SteadyIsExact ==
    Finished /\ ~readFailed => \A c \in Checked :
        /\ first[c] \subseteq DaoAddresses => c \in Passed
        /\ first[c] \cap DaoAddresses = {} /\ NoAdmin \notin first[c] => c \in failedContracts
        /\ first[c] = {NoAdmin} => (c \in Passed <=> c \in SiloHooks /\ slots[c] = {})

\* Every contract has one verdict; the report has a failure exactly if a
\* contract failed, whatever the exit code is asked to be.
ReportAgrees ==
    Finished =>
        /\ skipped + ok + fail = Len(Deployments)
        /\ skipped = Cardinality(Contracts \ Checked) /\ fail = Cardinality(failedContracts)
        /\ hasFailure <=> failedContracts # {}
        /\ exit = 0 <=> mode = "no_fail" \/ failedContracts = {}

=============================================================================
