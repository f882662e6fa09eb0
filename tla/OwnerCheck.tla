----------------------------- MODULE OwnerCheck -----------------------------
(***************************************************************************)
(* scripts/check_deployments_owner_is_dao.py: every deployed contract with *)
(* an owner() is to be owned by the DAO.  Owners, pending owners and proxy *)
(* slots are read one after the other, while ownership may be passed on    *)
(* between the reads.                                                      *)
(***************************************************************************)
EXTENDS Naturals, Sequences, FiniteSets, SequencesExt

CONSTANTS
    Deployments,    \* the deployment files' contracts, sorted
    Abi,            \* by contract, the functions of the ABI in its file
    Excluded,       \* CONTRACTS_EXCLUDED
    SiloHooks,      \* those whose name starts with SiloHook
    Accounts,
    CommonAddresses,    \* common/addresses of the chain: by key, an account
    Zero,           \* the zero address
    NotRead,
    MaxTransfers    \* bound: changes of ownership during a run

\* Calls with which a contract is asked for its proxy.
Slots == {"implementation", "beacon"}

\* parse_args
Modes == {"check", "no_fail", "dry_run"}

\* collect_deployment_addresses
Contracts == Range(Deployments)

abi_has_owner(c) == "owner" \in Abi[c]

DaoAddresses == {CommonAddresses[k] : k \in {"DAO", "DAO_OLD"} \cap DOMAIN CommonAddresses}

Checked == {c \in Contracts \ Excluded : abi_has_owner(c)}

OwnerAssumption ==
    /\ Deployments \in Seq(Contracts) /\ IsInjective(Deployments) /\ Deployments # <<>>
    /\ Excluded \cup SiloHooks \subseteq Contracts /\ DOMAIN Abi = Contracts
    /\ Range(CommonAddresses) \subseteq Accounts
    /\ Zero \notin Accounts /\ NotRead \notin Accounts \cup {Zero}
    /\ MaxTransfers \in Nat

VARIABLES
    owner, pending,     \* by contract, owner() and pendingOwner()
    slots,              \* by contract, its EIP-1967 slots that are set
    transfers,
    pc,                 \* "start", "owners", "pending", "verdicts", "done"
    ownerResult,        \* by contract, the owner read, Zero, or NotRead
    pendingResult,      \* by contract, the pending owner read, or NotRead
    todo,
    skipped, ok, fail, failedContracts, pendingContracts,
    hasFailure, exit,
    mode,               \* one of Modes
    held,               \* history: by contract, the owners during the run
    readFailed          \* history: a read of the run failed

chain == <<owner, pending, slots, transfers, held>>
results == <<ownerResult, pendingResult>>
report == <<skipped, ok, fail, failedContracts, pendingContracts>>
vars == <<chain, pc, results, todo, report, hasFailure, exit, mode, readFailed>>

Init ==
    /\ owner \in [Checked -> Accounts \cup {Zero}]
    /\ pending \in [Checked -> Accounts \cup {Zero}]
    /\ slots \in [SiloHooks -> SUBSET Slots]
    /\ transfers = 0 /\ held = [c \in Checked |-> {owner[c]}]
    /\ pc = "start" /\ readFailed = FALSE
    /\ ownerResult = [c \in Checked |-> NotRead]
    /\ pendingResult = [c \in Checked |-> NotRead]
    /\ todo = Deployments
    /\ skipped = 0 /\ ok = 0 /\ fail = 0
    /\ failedContracts = {} /\ pendingContracts = {}
    /\ hasFailure = FALSE /\ exit = 0
    /\ mode \in Modes

-----------------------------------------------------------------------------
\* The chain goes on: Ownable2Step, by the owners of the contracts.
Pass(c, to) ==
    /\ owner' = [owner EXCEPT ![c] = to]
    /\ held' = [held EXCEPT ![c] = @ \cup {to}]
    /\ pending' = [pending EXCEPT ![c] = Zero]

TransferOwnership ==
    /\ transfers < MaxTransfers /\ transfers' = transfers + 1 /\ pc # "done"
    /\ \E c \in Checked, to \in Accounts :
         owner[c] # Zero /\ pending' = [pending EXCEPT ![c] = to]
    /\ UNCHANGED <<owner, slots, held, pc, results, todo, report, hasFailure, exit, mode, readFailed>>

AcceptOwnership ==
    /\ transfers < MaxTransfers /\ transfers' = transfers + 1 /\ pc # "done"
    /\ \E c \in Checked : pending[c] # Zero /\ Pass(c, pending[c])
    /\ UNCHANGED <<slots, pc, results, todo, report, hasFailure, exit, mode, readFailed>>

-----------------------------------------------------------------------------
\* _write_json_report, of which a job that collects the reports reads has_failure.
write_json_report(error) == hasFailure' = (fail > 0 \/ error)

\* No DAO in the addresses or, unless the run is dry, no RPC URL or a failed preflight.
Stop ==
    /\ pc = "start" /\ pc' = "done" /\ (mode = "dry_run" => DaoAddresses = {})
    /\ exit' = 2 /\ write_json_report(TRUE) /\ readFailed' = TRUE
    /\ UNCHANGED <<chain, results, todo, report, mode>>

\* A dry run, which wants the DAO too, lists the contracts.
DryRun ==
    /\ pc = "start" /\ mode = "dry_run" /\ pc' = "done" /\ todo' = <<>>
    /\ DaoAddresses # {}
    /\ UNCHANGED <<chain, results, report, hasFailure, exit, mode, readFailed>>

Start ==
    /\ pc = "start" /\ mode # "dry_run" /\ pc' = "owners"
    /\ DaoAddresses # {}
    /\ UNCHANGED <<chain, results, todo, report, hasFailure, exit, mode, readFailed>>

\* _decode_owner_like_result of one call.
decoded(account, answered) == IF answered THEN account ELSE NotRead

\* One multicall reads all owners; each call of it may fail, or all of it.
ReadOwners ==
    /\ pc = "owners" /\ pc' = "pending"
    /\ \E answered \in SUBSET Checked :
         /\ ownerResult' = [c \in Checked |-> decoded(owner[c], c \in answered)]
         /\ readFailed' = (answered # Checked)
    /\ UNCHANGED <<chain, pendingResult, todo, report, hasFailure, exit, mode>>

Candidates == {c \in Checked : ownerResult[c] \notin DaoAddresses \cup {Zero, NotRead}}

\* Another reads the pending owners of those not owned by the DAO; a zero
\* address and a failure are no pending owner.
ReadPending ==
    /\ pc = "pending" /\ pc' = "verdicts"
    /\ \E answered \in SUBSET Candidates :
         /\ pendingResult' = [c \in Checked |->
                decoded(pending[c], c \in answered /\ pending[c] # Zero)]
         /\ readFailed' = (readFailed \/ answered # Candidates)
    /\ UNCHANGED <<chain, ownerResult, todo, report, hasFailure, exit, mode>>

-----------------------------------------------------------------------------
Current == Head(todo)

\* A contract whose owner was not read is counted, not listed.
ForgetfulCount(verdict, waiting) ==
    /\ skipped' = skipped + IF verdict = "skip" THEN 1 ELSE 0
    /\ ok' = ok + IF verdict = "ok" THEN 1 ELSE 0
    /\ fail' = fail + IF verdict = "fail" THEN 1 ELSE 0
    /\ failedContracts' = failedContracts \cup
           IF verdict = "fail" /\ ownerResult[Current] # NotRead THEN {Current} ELSE {}
    /\ pendingContracts' = pendingContracts \cup waiting

Count(verdict, waiting) ==
    /\ skipped' = skipped + IF verdict = "skip" THEN 1 ELSE 0
    /\ ok' = ok + IF verdict = "ok" THEN 1 ELSE 0
    /\ fail' = fail + IF verdict = "fail" THEN 1 ELSE 0
    /\ failedContracts' = failedContracts \cup IF verdict = "fail" THEN {Current} ELSE {}
    /\ pendingContracts' = pendingContracts \cup waiting

Take ==
    /\ pc = "verdicts" /\ todo # <<>> /\ todo' = Tail(todo)
    /\ UNCHANGED <<chain, pc, results, hasFailure, exit, mode>>

\* Without the implementation slot the probe has failed; without the other, that
\* slot is taken for empty.
detect_proxy_info(c, answered) == "implementation" \in answered /\ slots[c] \cap answered # {}

\* A probe that failed is a contract that is no proxy.
Probe ==
    \E answered \in SUBSET Slots :
        /\ readFailed' = (readFailed \/ answered # Slots)
        /\ Count(IF detect_proxy_info(Current, answered) THEN "fail" ELSE "ok", {})

Skip == Take /\ Current \notin Checked /\ Count("skip", {}) /\ UNCHANGED readFailed

\* The zero address is an owner like the DAO.
ZeroFriendlyVerdict ==
    /\ Take /\ Current \in Checked /\ UNCHANGED readFailed
    /\ IF ownerResult[Current] \in DaoAddresses \cup {Zero}
       THEN Count("ok", {}) ELSE Count("fail", {})

\* A failed read is passed over.
SkippingVerdict ==
    /\ Take /\ Current \in Checked /\ UNCHANGED readFailed
    /\ Count(IF ownerResult[Current] = NotRead THEN "skip"
             ELSE IF ownerResult[Current] \in DaoAddresses THEN "ok" ELSE "fail", {})

\* The pending owner is enough.
PendingVerdict ==
    /\ Take /\ Current \in Checked /\ UNCHANGED readFailed
    /\ IF {ownerResult[Current], pendingResult[Current]} \cap DaoAddresses # {}
       THEN Count("ok", {}) ELSE Count("fail", {})

\* The DAO, or nobody for the implementation of a SiloHook.
Verdict ==
    /\ Take /\ Current \in Checked
    /\ IF ownerResult[Current] = Zero /\ Current \in SiloHooks THEN Probe
       ELSE /\ UNCHANGED readFailed
            /\ IF ownerResult[Current] \in DaoAddresses THEN Count("ok", {})
               ELSE Count("fail", IF pendingResult[Current] = NotRead THEN {}
                                  ELSE {<<Current, pendingResult[Current]>>})

Finish ==
    /\ pc = "verdicts" /\ todo = <<>> /\ pc' = "done"
    /\ exit' = IF fail > 0 /\ mode # "no_fail" THEN 1 ELSE 0
    /\ write_json_report(FALSE)
    /\ UNCHANGED <<chain, results, todo, report, mode, readFailed>>

Next ==
    \/ TransferOwnership \/ AcceptOwnership
    \/ Stop \/ DryRun \/ Start \/ ReadOwners \/ ReadPending \/ Skip \/ Verdict \/ Finish

Spec == Init /\ [][Next]_vars

-----------------------------------------------------------------------------
TypeOK ==
    /\ owner \in [Checked -> Accounts \cup {Zero}]
    /\ pending \in [Checked -> Accounts \cup {Zero}]
    /\ ownerResult \in [Checked -> Accounts \cup {Zero, NotRead}]
    /\ pendingResult \in [Checked -> Accounts \cup {NotRead}]
    /\ skipped \in Nat /\ ok \in Nat /\ fail = Cardinality(failedContracts)
    /\ failedContracts \subseteq Checked /\ exit \in {0, 1, 2}

Finished == pc = "done" /\ exit # 2 /\ mode # "dry_run"
Passed == Checked \ failedContracts

\* A contract that passes was owned by the DAO at some moment of the run, or is
\* a SiloHook that nobody owned at some moment of it.  A contract whose owner
\* could not be read never passes.
PassedHadDao ==
    Finished => \A c \in Passed :
        \/ held[c] \cap DaoAddresses # {}
        \/ c \in SiloHooks /\ Zero \in held[c]

\* Without failed reads and without a change of ownership the verdict is exact,
\* and so is the list of those who may accept a contract.
ExactWhenQuiet ==
    Finished /\ ~readFailed /\ transfers = 0 =>
        /\ failedContracts = {c \in Checked :
                /\ owner[c] \notin DaoAddresses
                /\ ~(owner[c] = Zero /\ c \in SiloHooks /\ slots[c] = {})}
        /\ pendingContracts = {<<c, pending[c]>> : c \in
                {d \in failedContracts : owner[d] # Zero /\ pending[d] # Zero}}

\* Every contract has one verdict; a clean report has no failing contract,
\* whatever the exit code is asked to be.
ReportAgrees ==
    Finished =>
        /\ skipped + ok + fail = Len(Deployments)
        /\ skipped = Cardinality(Contracts \ Checked)
        /\ hasFailure <=> failedContracts # {}
        /\ exit = 0 <=> mode = "no_fail" \/ failedContracts = {}

=============================================================================
