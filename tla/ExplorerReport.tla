--------------------------- MODULE ExplorerReport ---------------------------
(***************************************************************************)
(* The workflow that verifies contracts on explorers: the job of a chain,  *)
(* and the report that is merged from the artifacts of all jobs.  The jobs *)
(* share no state, so a behaviour is that of one of them, or that of the   *)
(* report; the report assumes of an artifact only what the jobs are shown  *)
(* to hand in.                                                             *)
(***************************************************************************)
EXTENDS Naturals, Sequences, FiniteSets, SequencesExt

CONSTANTS
    Chains, Okx, ExplorersOf, Addresses, Names, MaxEntriesOf,   \* the jobs
    KeysOf, ErrorKey, SectionOrder, ParsedKey, MaxRuns,         \* the report
    Idle            \* the variables of what does not run

VARIABLES
    part,       \* "job" or "report"
    chain, files, broadcast, isVerified, pc, contracts, explorer, todo, attempt, verified,
    unverified, errors, sections, hasFailures, noFail, exit, artifact, early,   \* a job
    run, comment, reported, latest, missed                                      \* the report

jobVars == <<chain, files, broadcast, isVerified, pc, contracts, explorer, todo, attempt, verified,
             unverified, errors, sections, hasFailures, noFail, exit, artifact, early>>
reportVars == <<run, comment, reported, latest, missed>>
vars == <<part, jobVars, reportVars>>

Job == INSTANCE ExplorerCheck
Report == INSTANCE VerificationReport WITH Jobs <- Chains

\* Every explorer of a chain has a key of its own.
ASSUME ExplorerReportAssumption ==
    /\ Job!ExplorerAssumption /\ Report!ReportAssumption
    /\ \A c \in Chains : Len(KeysOf[c]) = Len(ExplorersOf[c])

-----------------------------------------------------------------------------
NoJob ==
    /\ chain = Idle /\ files = Idle /\ broadcast = Idle /\ isVerified = Idle /\ pc = Idle
    /\ contracts = Idle /\ explorer = Idle /\ todo = Idle /\ attempt = Idle /\ verified = Idle
    /\ unverified = Idle /\ errors = Idle /\ sections = Idle /\ hasFailures = Idle
    /\ noFail = Idle /\ exit = Idle /\ artifact = Idle /\ early = Idle

NoReport == run = Idle /\ comment = Idle /\ reported = Idle /\ latest = Idle /\ missed = Idle

Init ==
    \/ part = "job" /\ Job!Init /\ NoReport
    \/ part = "report" /\ Report!Init /\ NoJob

JobStep == part = "job" /\ Job!Step /\ UNCHANGED <<part, reportVars>>

Next ==
    \/ JobStep
    \/ part = "job" /\ Job!GetVerified /\ UNCHANGED <<part, reportVars>>
    \/ part = "report" /\ Report!Next /\ UNCHANGED <<part, jobVars>>

Spec == Init /\ [][Next]_vars

\* Every request of a job ends, by its timeout if not otherwise.
FairSpec == Spec /\ WF_vars(JobStep)

-----------------------------------------------------------------------------
\* Whatever fails, each section handed in has every contract exactly once.
SectionsAreComplete == part = "job" => Job!SectionsAreComplete

\* A contract reported as verified is verified on that very explorer; on okx, one
\* reported as not verified was not when the job started.  A job that ends with 0,
\* though it may fail, has verified everything.  Contracts keep the names that one
\* of the files has of them.
ResultsAreTrue ==
    part = "job" =>
        /\ Job!VerifiedIsTrue /\ Job!UnverifiedIsTrue
        /\ Job!ZeroMeansVerified /\ Job!NamesAreKept

\* Every job ends.
Ends == part = "job" => <>(pc \in {"done", "crashed"})

\* The artifact of a job as the report reads it: by key, whether the section is
\* clean.
KeyOf(s) ==
    IF s.error # "" THEN ErrorKey[chain]
    ELSE KeysOf[chain][CHOOSE i \in DOMAIN Job!Explorers : Job!Explorers[i] = s.explorer]
Clean(s) == s.error = "" /\ s.unverified = {} /\ s.errors = {}
Handed ==
    [k \in {KeyOf(s) : s \in Range(artifact)} |->
        \E s \in Range(artifact) : KeyOf(s) = k /\ Clean(s)]

\* What a job hands in, whether it has ended or was ended by an exception, is one
\* of the artifacts that the report takes; and what the report calls clean is
\* verified on chain.
ArtifactsFitReport ==
    part = "job" /\ pc \in {"done", "crashed"} =>
        /\ Handed \in Report!Artifacts(chain)
        /\ \A s \in Range(artifact) : Clean(s) => Job!Deployed \subseteq isVerified[s.explorer]

\* The comment says that all is verified only if the last run with results was.
ClearMeansVerified == part = "report" => Report!ClearMeansVerified

\* What a run learned is in its comment, a failed section stays until a later run
\* has a result of it, and no longer.
CommentIsCurrent ==
    part = "report" =>
        Report!FreshIsShown /\ Report!FailuresAreKept /\ Report!FailuresAreCurrent

=============================================================================
