---------------------------- MODULE GaugeRollout ----------------------------
(***************************************************************************)
(* The rollout of permissioned liquidation controllers ("gauges") to the   *)
(* existing markets of one chain: scripts/tasks/set-permissioned-          *)
(* liquidation.  An operator runs the scripts by hand, one at a time, in   *)
(* any order and as often as needed; they hand over results in files:      *)
(*                                                                         *)
(*   4_deploy   one forge run per market; resumes from the progress file   *)
(*   5_build    the progress file -> Safe bundles in out/                  *)
(*   6_test     five steps over the progress file, the bundles, the chain  *)
(*   7_sync     replaces entries of failed records by those of the registry*)
(*   8_qa       progress file against market list and bundles              *)
(*                                                                         *)
(* A gauge is the nonce with which its factory creates it, so a simulated  *)
(* address is the address of the next gauge really created, for whichever  *)
(* market that is.  All hooks have one owner, so there is one bundle per   *)
(* part.                                                                   *)
(***************************************************************************)
EXTENDS Naturals, Sequences, FiniteSets, SequencesExt

CONSTANTS
    MarketList,     \* the markets of the chain in the order of the JSON file
    TwoSilo,        \* the markets in which both silos may hold collateral
    LastSilo,       \* by market, the silo whose registry keys come last
    GaugesPerFile,  \* gauges that fit MAX_TX_PER_FILE (0: never split)
    CommandSets,    \* what may happen besides broadcasting, building and testing
    MaxFaults,      \* by command set, a bound on reverts, lost broadcasts, RPC
                    \* failures and crashes
    NoRecord

Markets == Range(MarketList)
Kinds == {"collateral", "protected"}
Token == [market : Markets, silo : {0, 1}, kind : Kinds]
NoGauge == 0
ExpectedVersion == "expected"
Entries == [gauge : Nat, token : Token, version : {"", "legacy", ExpectedVersion}]
Record == [success : BOOLEAN, entries : SUBSET Entries]

ASSUME ConstantsOK ==
    /\ MarketList \in Seq(Markets) /\ IsInjective(MarketList)
    /\ TwoSilo \subseteq Markets
    /\ LastSilo \in [Markets -> {0, 1}]
    /\ \A m \in Markets \ TwoSilo : LastSilo[m] = 0
    /\ GaugesPerFile \in Nat /\ MaxFaults \in [CommandSets -> Nat]
    /\ CommandSets \subseteq SUBSET {"dry", "sync", "execute", "crash"}
    /\ NoRecord \notin Record

VARIABLES
    created,    \* the share tokens of the gauges the factory has created
    configured, \* by share token, the gauge set in the hook receiver
    registry,   \* _siloIncentivesControllerDeployments.json
    progress,   \* permissioned_liquidation_deploy_gauges_by_chain.json
    out,        \* Set Gauge bundles: file 0 is unnumbered, i is "Part i"
    pc,         \* what is running: "idle", "deploy", "forged" or a test step
    mem,        \* 4_deploy: the progress state in memory
    sicIds,     \* 4_deploy: the markets found in the registry at the start
    next,       \* 4_deploy: position in MarketList
    broadcast,  \* 4_deploy: --broadcast was given
    forged,     \* 4_deploy: exit code and extracted lines of the forge run
    testOk,     \* 6_test: conjunction of the return codes so far
    lastTest,   \* "pass" or "fail" once 6_test has ended, until the next command
    faults,
    commands    \* one of CommandSets

chain == <<created, configured>>
deployVars == <<mem, sicIds, next, broadcast, forged>>
vars == <<chain, registry, progress, out, pc, deployVars, testOk, lastTest, faults, commands>>

-----------------------------------------------------------------------------
(* The chain *)

Exists(g) == g \in DOMAIN created
ShareToken(g) == created[g]                     \* SHARE_TOKEN(), if Exists(g)
Version(g) == IF Exists(g) THEN ExpectedVersion ELSE "legacy"

Silos(m) == IF m \in TwoSilo THEN {0, 1} ELSE {0}

\* The share tokens in the order the forge script creates gauges for them.
TokensOf(m) ==
    LET both(s) == << [market |-> m, silo |-> s, kind |-> "collateral"],
                      [market |-> m, silo |-> s, kind |-> "protected"] >>
    IN  IF m \in TwoSilo THEN both(0) \o both(1) ELSE both(0)

\* The address the simulation predicts for the i-th gauge of a run.
Predicted(i) == Len(created) + i

-----------------------------------------------------------------------------
(* The records of the progress file *)

Entry(g, t, v) == [gauge |-> g, token |-> t, version |-> v]
Succeeded(rec) == rec # NoRecord /\ rec.success
Failed(rec) == rec # NoRecord /\ ~rec.success
GaugesOf(rec) == {e.gauge : e \in rec.entries}
Recorded == {m \in Markets : progress[m] # NoRecord}

\* load_progress_state: the record of a market, with the status it was saved with.
load_progress_state ==
    [m \in Markets |-> IF m \in Recorded
                       THEN [success |-> progress[m].success, entries |-> progress[m].entries]
                       ELSE NoRecord]

\* save_progress_state: the whole file is written anew.
save_progress_state(state) == progress' = state

\* load_existing_sic_ids: the markets that a key of the registry names.
load_existing_sic_ids ==
    {m \in Markets : \E t \in Range(TokensOf(m)) : registry[t] # NoGauge}

\* Lines told apart by hook and kind only, not by share token.
Faultyextract_set_gauge_data(m, n) ==
    {Entry(Predicted(i), TokensOf(m)[i], "") : i \in {j \in 1..n : j + 2 > n}}

\* extract_set_gauge_data: the lines of the first n gauges of market m.
extract_set_gauge_data(m, n) ==
    {Entry(Predicted(i), TokensOf(m)[i], "") : i \in 1..n}

Mark(p, ms, flag) ==
    [m \in Markets |-> IF m \in ms THEN [p[m] EXCEPT !.success = flag] ELSE p[m]]

Fault == faults < MaxFaults[commands] /\ faults' = faults + 1 /\ UNCHANGED commands
NoFault == UNCHANGED <<faults, commands>>

\* The script that ran has ended, or crashed: its memory is gone.
Ends ==
    /\ pc' = "idle" /\ mem' = [m \in Markets |-> NoRecord] /\ sicIds' = {}
    /\ next' = 1 /\ broadcast' = FALSE /\ forged' = NoRecord

-----------------------------------------------------------------------------
(* 4_deploy_permissioned_liquidation_controllers.py *)

\* main, up to the loop. Without an RPC the chain is skipped with a warning.
StartDeploy(b, rpc) ==
    /\ pc = "idle"
    /\ b \/ "dry" \in commands
    /\ IF rpc THEN NoFault ELSE Fault
    /\ pc' = "deploy" /\ broadcast' = b
    /\ mem' = load_progress_state
    /\ sicIds' = load_existing_sic_ids
    /\ next' = IF rpc THEN 1 ELSE Len(MarketList) + 1
    /\ lastTest' = "none"
    /\ UNCHANGED <<chain, registry, progress, out, forged, testOk>>

Current == MarketList[next]
InLoop == pc = "deploy" /\ next <= Len(MarketList)

\* A successful market is skipped; so is one without a record that had an
\* entry in the registry when the script started.
SkipMarket ==
    /\ InLoop
    /\ \/ Succeeded(mem[Current])
       \/ mem[Current] = NoRecord /\ Current \in sicIds
    /\ next' = next + 1
    /\ UNCHANGED <<chain, registry, progress, out, pc, mem, sicIds, broadcast,
                   forged, testOk, lastTest, faults, commands>>

\* Any record counts as failed.
FaultyNeedsForge ==
    /\ InLoop
    /\ mem[Current] # NoRecord \/ Current \notin sicIds

\* A failed market that is registered is neither skipped nor deployed.
StuckNeedsForge ==
    /\ InLoop
    /\ mem[Current] = NoRecord \/ Failed(mem[Current])
    /\ Current \notin sicIds

NeedsForge ==
    /\ InLoop
    /\ Failed(mem[Current]) \/ (mem[Current] = NoRecord /\ Current \notin sicIds)

\* run_with_live_output, and what is extracted of its output.
run_with_live_output(rc, n) ==
    [rc |-> rc, entries |-> extract_set_gauge_data(Current, n)]

\* The file is saved when the record is dropped.
FaultyForged(rc, n) ==
    /\ pc' = "forged"
    /\ forged' = run_with_live_output(rc, n)
    /\ mem' = [mem EXCEPT ![Current] = NoRecord]
    /\ save_progress_state(mem')
    /\ UNCHANGED <<configured, out, sicIds, next, broadcast, testOk, lastTest>>

\* A stale record is dropped from memory before the forge run.
Forged(rc, n) ==
    /\ pc' = "forged"
    /\ forged' = run_with_live_output(rc, n)
    /\ mem' = [mem EXCEPT ![Current] = NoRecord]
    /\ UNCHANGED <<configured, progress, out, sicIds, next, broadcast, testOk, lastTest>>

\* The silos whose gauges the QA of the forge script finds configured.
BlockedSilos(m) ==
    {s \in Silos(m) : \E t \in Range(TokensOf(m)) : t.silo = s /\ configured[t] # NoGauge}

\* The forge script reverts after it has printed the lines of some silos: on any
\* error, or in its own QA when a gauge is configured. Nothing is sent or saved.
ForgeReverts ==
    /\ NeedsForge
    /\ \/ \E s \in 0..Cardinality(Silos(Current)) : Fault /\ Forged(1, 2 * s)
       \/ /\ BlockedSilos(Current) # {} /\ NoFault
          /\ Forged(1, IF 0 \in BlockedSilos(Current) THEN 2 ELSE 4)
    /\ UNCHANGED <<created, registry>>

\* build_forge_command: whether n gauges of a market and the exit code rc are an
\* outcome of the command; without --broadcast nothing is sent.
build_forge_command(m, n, rc) ==
    IF broadcast THEN n = Len(TokensOf(m)) \/ (n < Len(TokensOf(m)) /\ rc = 1)
    ELSE n = 0 /\ rc = 0

\* The simulation ends and has written the registry. Then the first n gauges
\* are really created; with all of them on chain, the verifier may still fail.
ForgeSends(n, rc) ==
    /\ NeedsForge /\ BlockedSilos(Current) = {}
    /\ LET all == TokensOf(Current) IN
       /\ build_forge_command(Current, n, rc)
       /\ IF rc = 0 THEN NoFault ELSE Fault
       /\ registry' = [t \in Token |->
                         IF t \in Range(all)
                         THEN Predicted(CHOOSE i \in DOMAIN all : all[i] = t)
                         ELSE registry[t]]
       /\ created' = created \o SubSeq(all, 1, n)
       /\ Forged(rc, Len(all))

\* A run counts as successful when any line was extracted; the state in memory
\* is written to the file after every run.
RecordRun ==
    /\ pc = "forged"
    /\ mem' = [mem EXCEPT ![Current] =
                 [success |-> forged.rc = 0 \/ forged.entries # {},
                  entries |-> forged.entries]]
    /\ save_progress_state(mem')
    /\ pc' = "deploy" /\ next' = next + 1 /\ forged' = NoRecord
    /\ UNCHANGED <<chain, registry, out, sicIds, broadcast, testOk, lastTest, faults, commands>>

FinishDeploy ==
    /\ pc = "deploy" /\ next > Len(MarketList)
    /\ save_progress_state(mem)
    /\ Ends
    /\ UNCHANGED <<chain, registry, out, testOk, lastTest, faults, commands>>

Deploying ==
    \/ SkipMarket \/ ForgeReverts \/ RecordRun \/ FinishDeploy
    \/ \E n \in 0..4, rc \in {0, 1} : ForgeSends(n, rc)

-----------------------------------------------------------------------------
(* 5_build_set_gauge_for_current_markets.py: every entry of every record,    *)
(* whatever its success flag; files of earlier runs are not removed.         *)

BundleEntries ==
    UNION {{<<e.gauge, e.token>> : e \in progress[m].entries} : m \in Recorded}

\* The file of a gauge: the gauges are sorted, and those of one file together.
PartOf(g, gauges) ==
    IF GaugesPerFile = 0 \/ Cardinality(gauges) <= GaugesPerFile THEN 0
    ELSE (Cardinality({h \in gauges : h < g}) \div GaugesPerFile) + 1

\* What goes into file i.
Bundle(i) ==
    LET gauges == {x[1] : x \in BundleEntries}
    IN  {x \in BundleEntries : PartOf(x[1], gauges) = i}

BuildBundles ==
    /\ pc = "idle" /\ BundleEntries # {}
    /\ out' = [i \in DOMAIN out |-> IF Bundle(i) # {} THEN Bundle(i) ELSE out[i]]
    /\ lastTest' = "none"
    /\ UNCHANGED <<chain, registry, progress, pc, deployVars, testOk, faults, commands>>

\* The script is interrupted when it has written the files up to the last one.
InterruptedBuild(last) ==
    /\ pc = "idle" /\ "crash" \in commands /\ Fault
    /\ out' = [i \in DOMAIN out |->
                 IF i <= last /\ Bundle(i) # {} THEN Bundle(i) ELSE out[i]]
    /\ lastTest' = "none"
    /\ UNCHANGED <<chain, registry, progress, pc, deployVars, testOk>>

\* gauges_found_in_set_gauge_files: every matching file, stale ones included.
FoundGauges == {x[1] : x \in UNION Range(out)}

-----------------------------------------------------------------------------
(* 6_test_permissioned_liquidation.py: the five steps of main, each of which *)
(* reads the progress file and writes it back, and fails without records.    *)

TestStep(from, to, p, ok) ==
    /\ pc = from /\ pc' = to
    /\ progress' = p
    /\ testOk' = ((from = "idle" \/ testOk) /\ ok /\ Recorded # {})
    /\ lastTest' = IF to = "idle" THEN (IF testOk' THEN "pass" ELSE "fail") ELSE "none"
    /\ UNCHANGED <<chain, registry, out, deployVars>>

Demote(ms) == Mark(progress, ms, FALSE)

\* Marks some records failed and the failed ones among others successful.
DemoteAndPromote(bad, good) == Mark(Demote(bad), good, TRUE)

\* A record passes with success=true and at least two gauges.
run_step_1 ==
    LET bad == {m \in Recorded : ~progress[m].success
                                 \/ Cardinality(progress[m].entries) < 2}
    IN  TestStep("idle", "step2", Demote(bad), bad = {}) /\ NoFault

\* Every gauge of a successful record is in the bundles; if one is not, every
\* record that holds it is marked.
run_step_2 ==
    LET expected == UNION {GaugesOf(progress[m]) :
                             m \in {m \in Recorded : progress[m].success}}
        missing == expected \ FoundGauges
        bad == {m \in Recorded : GaugesOf(progress[m]) \cap missing # {}}
    IN  TestStep("step2", "step3", Demote(bad), missing = {}) /\ NoFault

\* A version that is not yet recorded is read from the chain, or given up.
WithVersion(e, read) ==
    IF e.version # "" THEN e
    ELSE [e EXCEPT !.version = IF read THEN Version(e.gauge) ELSE "legacy"]

UpdatedVersions(read) ==
    [m \in Markets |->
       IF m \notin Recorded THEN NoRecord
       ELSE [progress[m] EXCEPT !.entries = {WithVersion(e, read) : e \in @}]]

\* A failed multicall records "legacy" for all versions it was to fetch, a failed
\* preflight leaves them.
run_step_3_update_gauge_versions ==
    LET needed == \E m \in Recorded : \E e \in progress[m].entries : e.version = ""
    IN  \/ TestStep("step3", "step4", UpdatedVersions(TRUE), TRUE) /\ NoFault
        \/ needed /\ TestStep("step3", "step4", progress, FALSE) /\ Fault
        \/ needed /\ TestStep("step3", "step4", UpdatedVersions(FALSE), FALSE) /\ Fault

run_step_4_validate_gauge_version ==
    LET bad == {m \in Recorded : \E e \in progress[m].entries : e.version # ExpectedVersion}
        good == {m \in Recorded \ bad : progress[m].entries # {}}
    IN  TestStep("step4", "step5", DemoteAndPromote(bad, good), bad = {}) /\ NoFault

\* What step 5 accepts, if it can read the chain.
ShareTokenOK(m, e) ==
    /\ Exists(e.gauge)
    /\ ShareToken(e.gauge).market = m
    /\ ShareToken(e.gauge) = e.token

\* The preflight, the reads of the markets or the reads of the gauges may fail.
run_step_5_validate_gauge_share_token ==
    LET full == {m \in Recorded : progress[m].entries # {}}
        bad == {m \in Recorded : \E e \in progress[m].entries : ~ShareTokenOK(m, e)}
    IN  \/ TestStep("step5", "idle", DemoteAndPromote(bad, full \ bad), bad = {}) /\ NoFault
        \/ \E unread \in {{}, Recorded, full} :
             TestStep("step5", "idle", Demote(unread), FALSE) /\ Fault

Testing ==
    \/ run_step_2 \/ run_step_3_update_gauge_versions
    \/ run_step_4_validate_gauge_version \/ run_step_5_validate_gauge_share_token

-----------------------------------------------------------------------------
(* 7_sync_failed_with_incentive_deployments.py *)

\* For one kind of share token the earlier key of the file remains.
Faultyload_sic_by_chain_and_id(m) ==
    [k \in Kinds |->
       LET first == IF m \in TwoSilo THEN 1 - LastSilo[m] ELSE 0
       IN  registry[[market |-> m, kind |-> k,
                     silo |-> IF k = "protected" THEN first ELSE LastSilo[m]]]]

\* load_sic_by_chain_and_id: keyed by market and kind; of the two silos of a
\* market the later key of the file remains.
load_sic_by_chain_and_id(m) ==
    [k \in Kinds |-> registry[[market |-> m, silo |-> LastSilo[m], kind |-> k]]]

LastOfKind(rec, k) ==
    LET es == {e \in rec.entries : e.token.kind = k}
    IN  CHOOSE e \in es : \A f \in es : f.token.silo <= e.token.silo

HasKind(rec, k) == \E e \in rec.entries : e.token.kind = k

\* The registered kinds and the recorded kinds differ, or their gauges do.
DiffersFromRegistry(m) ==
    \E k \in Kinds : HasKind(progress[m], k) =>
        LastOfKind(progress[m], k).gauge # load_sic_by_chain_and_id(m)[k]

\* A failed record takes the registered gauges, with the share tokens read from
\* the chain and the versions it had; if one of them is not there it stays.
Synced(m) ==
    LET sic == load_sic_by_chain_and_id(m)
        rec == progress[m]
        version(k) == IF HasKind(rec, k) THEN LastOfKind(rec, k).version ELSE ""
    IN  IF /\ Failed(rec) /\ \A k \in Kinds : sic[k] # NoGauge
           /\ DiffersFromRegistry(m) /\ \A k \in Kinds : Exists(sic[k])
        THEN [rec EXCEPT !.entries =
                {Entry(sic[k], ShareToken(sic[k]), version(k)) : k \in Kinds}]
        ELSE rec

Sync ==
    /\ pc = "idle" /\ "sync" \in commands
    /\ progress' = [m \in Markets |-> Synced(m)]
    /\ lastTest' = "none"
    /\ UNCHANGED <<chain, registry, out, pc, deployVars, testOk, faults, commands>>

-----------------------------------------------------------------------------
(* 8_qa_all_permissioned_liquidation.py: it only reads. *)

expected_markets_from_v3 == Range(MarketList)

\* A market without a record is none.
FaultyQAPasses == \A m \in Recorded : GaugesOf(progress[m]) \subseteq FoundGauges

QAPasses ==
    /\ Recorded = expected_markets_from_v3
    /\ \A m \in Recorded : GaugesOf(progress[m]) \subseteq FoundGauges

-----------------------------------------------------------------------------
(* Around the scripts *)

\* The Safe executes a bundle: all of its setGauge calls or none. A call needs
\* a gauge of the share token and none configured for it before.
ExecuteBundle(i) ==
    /\ pc = "idle" /\ "execute" \in commands
    /\ out[i] # {}
    /\ \A x \in out[i] : /\ Exists(x[1]) /\ ShareToken(x[1]) = x[2]
                         /\ configured[x[2]] = NoGauge
                         /\ \A y \in out[i] : y[2] = x[2] => y = x
    /\ configured' = [t \in Token |->
         IF \E x \in out[i] : x[2] = t THEN (CHOOSE x \in out[i] : x[2] = t)[1]
         ELSE configured[t]]
    /\ UNCHANGED <<created, registry, progress, out, pc, deployVars, testOk,
                   lastTest, faults, commands>>

\* The script that runs is interrupted between two of its writes.  A progress file
\* torn by an interrupted write is not readable: json.loads ends every script that
\* opens it, until the operator puts the last good file back, and that is the state
\* of an interruption before the write.
Crash ==
    /\ pc # "idle" /\ "crash" \in commands
    /\ Fault /\ Ends
    /\ UNCHANGED <<chain, registry, progress, out, testOk, lastTest>>

Init ==
    /\ created = <<>>
    /\ configured = [t \in Token |-> NoGauge]
    /\ registry = [t \in Token |-> NoGauge]
    /\ progress = [m \in Markets |-> NoRecord]
    /\ out = [i \in 0..4 * Len(MarketList) |-> {}]
    /\ pc = "idle" /\ mem = progress /\ sicIds = {} /\ next = 1
    /\ broadcast = FALSE /\ forged = NoRecord
    /\ testOk = FALSE /\ lastTest = "none" /\ faults = 0
    /\ commands \in CommandSets

Next ==
    \/ \E b, rpc \in BOOLEAN : StartDeploy(b, rpc)
    \/ Deploying \/ BuildBundles \/ run_step_1 \/ Testing \/ Sync
    \/ \E i \in DOMAIN out : ExecuteBundle(i) \/ InterruptedBuild(i)
    \/ Crash

Spec == Init /\ [][Next]_vars

\* A script that has been started goes on, and the operator keeps deploying,
\* building and testing, in whatever order.
Fairness ==
    /\ WF_vars(Deploying) /\ WF_vars(Testing)
    /\ SF_vars(StartDeploy(TRUE, TRUE)) /\ SF_vars(BuildBundles) /\ SF_vars(run_step_1)

FairSpec == Spec /\ Fairness

-----------------------------------------------------------------------------
(* Safety *)

\* The gauges of a record are on chain, for the share tokens it names.
Real(m, rec) ==
    \A e \in rec.entries :
        Exists(e.gauge) /\ created[e.gauge] = e.token /\ e.token.market = m

\* One gauge for each share token that needs one.
Complete(m, rec) == {e.token : e \in rec.entries} = Range(TokensOf(m))

\* A silo with a gauge for one of its share tokens has one for the other, too.
WholeSilos(rec) ==
    LET tokens == {e.token : e \in rec.entries}
    IN  \A t \in tokens, k \in Kinds : [t EXCEPT !.kind = k] \in tokens

\* When 6_test exits 0, every recorded market is successful, its gauges are on
\* chain for its own share tokens with the expected version, and each of them
\* is in a bundle: simulated addresses, lost broadcasts, other markets' gauges
\* and bundles of an earlier state do not pass the five steps.  The gauges are those
\* of whole silos, also where the synchronisation knew two gauges of each kind for
\* a market and kept one of them.  Unless entries were synchronised or a script was
\* interrupted, no share token of the market is without a gauge either.
TestedMeansReal ==
    lastTest = "pass" =>
        \A m \in Recorded :
            /\ Succeeded(progress[m]) /\ Real(m, progress[m])
            /\ progress[m].entries # {} /\ WholeSilos(progress[m])
            /\ \A e \in progress[m].entries :
                   e.version = ExpectedVersion /\ e.gauge \in FoundGauges
            /\ commands \cap {"sync", "crash"} = {} => Complete(m, progress[m])

\* When 8_qa passes after the test, every market of the list, also one that 4_deploy
\* had lost when it was interrupted, has a gauge of its own on chain that the bundles
\* name; and unless entries were synchronised or a script was interrupted, some
\* bundle sets for every share token of the market a gauge created for it.
QAMeansRolledOut ==
    QAPasses /\ lastTest = "pass" =>
        \A m \in Markets :
            /\ m \in Recorded
            /\ \E e \in progress[m].entries :
                   Exists(e.gauge) /\ created[e.gauge].market = m /\ e.gauge \in FoundGauges
            /\ commands \cap {"sync", "crash"} = {} =>
                   \A t \in Range(TokensOf(m)) :
                       \E x \in UNION Range(out) : x[2] = t /\ Exists(x[1]) /\ created[x[1]] = t

\* The market of a failed record leaves the memory of 4_deploy before its forge
\* run, but never the file, whenever the script is interrupted.
RecordsKept ==
    [][\A m \in Markets : progress[m] # NoRecord => progress'[m] # NoRecord]_vars

\* A market whose recorded gauges are complete and real gets no second set of
\* gauges, unless a check of its record failed in between: rerunning 4_deploy,
\* with --broadcast or without, is harmless.
NoSecondSet ==
    [][\A m \in Markets :
         /\ Succeeded(progress[m]) /\ Real(m, progress[m]) /\ Complete(m, progress[m])
         => ~ \E i \in DOMAIN created' \ DOMAIN created : created'[i].market = m]_vars

-----------------------------------------------------------------------------
(* Liveness *)

\* Reverted forge runs, lost broadcasts and RPC failures delay the rollout but
\* do not stop it: in the end every market has a record with all its gauges.
\* An operator who keeps deploying, building and testing needs nothing else.
AllDeployed ==
    commands = {} =>
        <>[](\A m \in Markets :
                /\ progress[m] # NoRecord
                /\ Real(m, progress[m]) /\ Complete(m, progress[m]))

-----------------------------------------------------------------------------
(* What the repository says of the scripts, and the scripts do not do.      *)

\* "If user/test tooling marked success=false, this entry must be retried and
\* not auto-promoted to success." (4_deploy, load_progress_state)
FailedIsRetried ==
    [][\A m \in Markets :
         Failed(progress[m]) /\ Succeeded(progress'[m]) => pc = "forged"]_vars

=============================================================================
