--------------------------- MODULE FreshnessCheck ---------------------------
(***************************************************************************)
(* scripts/check_deployments_freshness_from_broadcast.py: are the deployed *)
(* contracts young enough?  A deployment script writes the addresses of    *)
(* its contracts into the deployment files and its transactions into the   *)
(* run-latest.json of the script, which the next run of it overwrites; a   *)
(* transaction that was not mined has no receipt there.  The check looks   *)
(* the creation of each address up in these files and asks the chain for   *)
(* the time of its block, or else only for the code at the address.        *)
(***************************************************************************)
EXTENDS Naturals, Sequences, FiniteSets, SequencesExt

CONSTANTS
    Scripts,        \* deployment scripts, in the order their files are found
    ContractsOf,    \* by script, the contracts it deploys
    Addresses, NoAddress,
    NoBlock,        \* of a transaction without a receipt
    MaxAge,         \* --max-age-days
    MaxTime         \* bound of the clock

Contracts == UNION {ContractsOf[s] : s \in Range(Scripts)}

FreshnessAssumption ==
    /\ Scripts \in Seq(Range(Scripts)) /\ IsInjective(Scripts)
    /\ DOMAIN ContractsOf = Range(Scripts)
    /\ \A s \in Range(Scripts) : IsFiniteSet(ContractsOf[s])
    /\ NoAddress \notin Addresses /\ NoBlock = 0
    /\ MaxAge \in Nat /\ MaxTime \in Nat \ {0}

VARIABLES
    clock,          \* a block is named by the time it was mined at
    minedAt,        \* by address, the block of its creation, or NoBlock
    file,           \* by contract, the address in its deployment file
    runLatest,      \* by script, the transactions of its last run
    pc,             \* "idle", "blocks", "ages", "code", "done"
    entries,        \* the contracts to check
    now,            \* time.time() at the start
    timestamp,      \* by block, the time read, or NoBlock
    ok, okCodeOnly, fail, exit,
    readFailed      \* history: a request or an answer of it failed

chain == <<clock, minedAt, file, runLatest>>
verdicts == <<ok, okCodeOnly, fail, exit>>
vars == <<chain, pc, entries, now, timestamp, verdicts, readFailed>>

Init ==
    /\ clock = 1 /\ minedAt = [a \in Addresses |-> NoBlock]
    /\ file = [c \in Contracts |-> NoAddress]
    /\ runLatest = [s \in Range(Scripts) |-> <<>>]
    /\ pc = "idle" /\ entries = {} /\ now = 0
    /\ timestamp = [b \in 1..MaxTime |-> NoBlock]
    /\ ok = {} /\ okCodeOnly = {} /\ fail = {} /\ exit = 0 /\ readFailed = FALSE

-----------------------------------------------------------------------------
\* A run of a deployment script: contracts in a transaction each, or the second
\* created by the first one (additionalContracts).  Addresses are new, or, with
\* CREATE2, those of before; a transaction is mined or lost.
Transaction(creates, mined) == [creates |-> creates, mined |-> mined]

RunOf(s) ==
    {<<Transaction({file'[c] : c \in ContractsOf[s]}, m)>> : m \in BOOLEAN} \cup
    {[i \in DOMAIN order |-> Transaction({file'[order[i]]}, mined[i])] :
        order \in SetToSeqs(ContractsOf[s]), mined \in [1..Cardinality(ContractsOf[s]) -> BOOLEAN]}

Deploy ==
    /\ pc = "idle"
    /\ \E s \in Range(Scripts) :
         /\ \E new \in [ContractsOf[s] -> Addresses] :
              /\ IsInjective(new)
              /\ \A c \in ContractsOf[s] : \A d \in Contracts \ {c} : new[c] # file[d]
              /\ file' = [c \in Contracts |-> IF c \in DOMAIN new THEN new[c] ELSE file[c]]
         /\ \E run \in RunOf(s) :
              LET mines(i) == /\ run[i].mined
                              /\ \A a \in run[i].creates : minedAt[a] = NoBlock
                  block(i) == IF mines(i) THEN clock + i - 1 ELSE NoBlock
              IN  /\ clock + Len(run) <= MaxTime /\ clock' = clock + Len(run)
                  /\ runLatest' = [runLatest EXCEPT ![s] =
                        [i \in DOMAIN run |-> [creates |-> run[i].creates, block |-> block(i)]]]
                  /\ minedAt' = [a \in Addresses |->
                        IF \E i \in DOMAIN run : a \in run[i].creates /\ mines(i)
                        THEN block(CHOOSE i \in DOMAIN run : a \in run[i].creates)
                        ELSE minedAt[a]]
    /\ UNCHANGED <<pc, entries, now, timestamp, verdicts, readFailed>>

Tick ==
    /\ pc = "idle" /\ clock < MaxTime /\ clock' = clock + 1
    /\ UNCHANGED <<minedAt, file, runLatest, pc, entries, now, timestamp, verdicts, readFailed>>

-----------------------------------------------------------------------------
\* Any transaction of the run stands for its contracts.
FaultyFindCreation(run, a) ==
    IF \E i \in DOMAIN run : a \in run[i].creates THEN run[Len(run)].block ELSE NoBlock

\* The block of the transaction that creates the address: none if it has no
\* receipt, or if no transaction does.
FindCreation(run, a) ==
    LET hits == {i \in DOMAIN run : a \in run[i].creates}
    IN  IF hits = {} THEN NoBlock ELSE run[CHOOSE i \in hits : TRUE].block

\* Of some scripts, the one whose file is found first
FirstOf(scripts) ==
    LET positions == {i \in DOMAIN Scripts : Scripts[i] \in scripts}
    IN  Scripts[CHOOSE i \in positions : \A j \in positions : i <= j]

\* The first file that names the address decides.
FaultyFindDeploy(a) ==
    LET named == {s \in Range(Scripts) :
                     \E i \in DOMAIN runLatest[s] : a \in runLatest[s][i].creates}
    IN  IF named = {} THEN NoBlock ELSE FindCreation(runLatest[FirstOf(named)], a)

\* The first file with a creation decides.
FindDeploy(a) ==
    LET found == {s \in Range(Scripts) : FindCreation(runLatest[s], a) # NoBlock}
    IN  IF found = {} THEN NoBlock ELSE FindCreation(runLatest[FirstOf(found)], a)

BlockOf(c) == FindDeploy(file[c])
InBroadcast == {c \in entries : BlockOf(c) # NoBlock}

\* No RPC URL, or a failed preflight.
Refuse ==
    /\ pc = "idle" /\ pc' = "done" /\ exit' = 1 /\ readFailed' = TRUE
    /\ UNCHANGED <<chain, entries, now, timestamp, ok, okCodeOnly, fail>>

collect_deployment_addresses == {c \in Contracts : file[c] # NoAddress}

collect_deployment_addresses_from_files(files) ==
    {c \in files : file[c] # NoAddress}

\* All deployment files, or those given by --deployment-file.
Start ==
    /\ pc = "idle" /\ now' = clock
    /\ \/ entries' = collect_deployment_addresses
       \/ \E files \in SUBSET Contracts :
             entries' = collect_deployment_addresses_from_files(files)
    /\ pc' = IF entries' = {} THEN "done" ELSE "blocks"
    /\ UNCHANGED <<chain, timestamp, verdicts, readFailed>>

\* A dry run stops here.
DryRun ==
    /\ pc = "blocks" /\ pc' = "done" /\ entries' = {}
    /\ UNCHANGED <<chain, now, timestamp, verdicts, readFailed>>

\* A batch that fails ends the check.
GiveUp ==
    /\ exit' = 1 /\ pc' = "done" /\ readFailed' = TRUE
    /\ UNCHANGED <<chain, entries, now, timestamp, ok, okCodeOnly, fail>>

decode_block_timestamp_from_response(b, answered) == IF b \in answered THEN b ELSE NoBlock

\* One batch reads the blocks; an answer of it may be missing, or all.
ReadBlocks ==
    /\ pc = "blocks"
    /\ LET blocks == {BlockOf(c) : c \in InBroadcast}
       IN  \E answered \in SUBSET blocks :
             /\ timestamp' = [b \in 1..MaxTime |->
                                 decode_block_timestamp_from_response(b, answered)]
             /\ readFailed' = (answered # blocks)
    /\ pc' = "ages"
    /\ UNCHANGED <<chain, entries, now, verdicts>>

NoBlocks == pc = "blocks" /\ InBroadcast # {} /\ GiveUp

\* An age that cannot be told is not too high.
FaultyAges ==
    /\ pc = "ages" /\ pc' = "code"
    /\ LET old == {c \in InBroadcast : /\ timestamp[BlockOf(c)] # NoBlock
                                       /\ now > timestamp[BlockOf(c)] + MaxAge}
       IN  fail' = old /\ ok' = InBroadcast \ old
    /\ UNCHANGED <<chain, entries, now, timestamp, okCodeOnly, exit, readFailed>>

\* Too old, or of a block whose time could not be read, is a failure.
Ages ==
    /\ pc = "ages" /\ pc' = "code"
    /\ LET young == {c \in InBroadcast : /\ timestamp[BlockOf(c)] # NoBlock
                                         /\ now <= timestamp[BlockOf(c)] + MaxAge}
       IN  ok' = young /\ fail' = InBroadcast \ young
    /\ UNCHANGED <<chain, entries, now, timestamp, okCodeOnly, exit, readFailed>>

\* decode_eth_get_code_response: whether an answer shows code at the address.
HasCode(c) == minedAt[file[c]] # NoBlock

\* The result of the code check does not count.
FaultyCode ==
    /\ pc = "code" /\ pc' = "done"
    /\ \E answered \in SUBSET (entries \ InBroadcast) :
         /\ okCodeOnly' = {c \in answered : HasCode(c)}
         /\ readFailed' = (readFailed \/ answered # entries \ InBroadcast)
    /\ exit' = IF fail # {} THEN 1 ELSE 0
    /\ UNCHANGED <<chain, entries, now, timestamp, ok, fail>>

\* Any answer is code.
LenientCode ==
    /\ pc = "code" /\ pc' = "done"
    /\ \E answered \in SUBSET (entries \ InBroadcast) :
         /\ okCodeOnly' = answered
         /\ readFailed' = (readFailed \/ answered # entries \ InBroadcast)
    /\ fail' = fail \cup (entries \ (InBroadcast \cup okCodeOnly'))
    /\ exit' = IF fail' # {} THEN 1 ELSE 0
    /\ UNCHANGED <<chain, entries, now, timestamp, ok>>

\* Whatever has no creation in the files must at least have code.
Code ==
    /\ pc = "code" /\ pc' = "done"
    /\ \E answered \in SUBSET (entries \ InBroadcast) :
         /\ okCodeOnly' = {c \in answered : HasCode(c)}
         /\ readFailed' = (readFailed \/ answered # entries \ InBroadcast)
    /\ fail' = fail \cup (entries \ (InBroadcast \cup okCodeOnly'))
    /\ exit' = IF fail' # {} THEN 1 ELSE 0
    /\ UNCHANGED <<chain, entries, now, timestamp, ok>>

NoCode == pc = "code" /\ entries # InBroadcast /\ GiveUp

Next ==
    \/ Deploy \/ Tick \/ Refuse \/ Start \/ DryRun
    \/ ReadBlocks \/ NoBlocks \/ Ages \/ Code \/ NoCode

Spec == Init /\ [][Next]_vars

-----------------------------------------------------------------------------
Checked == pc = "done" /\ entries # {}

TypeOK ==
    /\ minedAt \in [Addresses -> 0..MaxTime] /\ clock \in 1..MaxTime
    /\ file \in [Contracts -> Addresses \cup {NoAddress}]
    /\ Checked /\ ~(exit = 1 /\ readFailed) => ok \cup okCodeOnly \cup fail = entries

\* What the files say of a contract is what happened on chain: a contract that
\* passes is deployed at its address.
PassedIsDeployed == \A c \in ok \cup okCodeOnly : minedAt[file[c]] # NoBlock

\* A contract that passes as fresh was deployed within the maximal age before
\* the start of the check.
FreshIsFresh == \A c \in ok : now <= minedAt[file[c]] + MaxAge

\* An old contract passes only if the run that deployed it is no more the last
\* one of its script (or could not be found for another reason than its age).
OldPassesOnlyOverwritten ==
    \A c \in okCodeOnly : \A s \in Range(Scripts) :
        ~\E i \in DOMAIN runLatest[s] :
            file[c] \in runLatest[s][i].creates /\ runLatest[s][i].block = minedAt[file[c]]

\* A check that ends with 0 has passed every contract that it was asked for.
ZeroMeansAllPassed == Checked /\ exit = 0 => ok \cup okCodeOnly = entries

\* If nothing fails to be read, the check fails exactly for a contract that is
\* not deployed or whose creation is in the files and too long ago.
ExactWhenRead ==
    Checked /\ ~readFailed =>
        (exit = 1 <=> \E c \in entries :
            \/ minedAt[file[c]] = NoBlock
            \/ c \in InBroadcast /\ now > minedAt[file[c]] + MaxAge)

=============================================================================
