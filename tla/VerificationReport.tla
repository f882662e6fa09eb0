------------------------- MODULE VerificationReport -------------------------
(***************************************************************************)
(* scripts/merge_verification_reports.py: one comment on a pull request    *)
(* tells what is verified on the explorers.  Every run of the workflow has *)
(* a job for each chain (ExplorerCheck) that may end without results; the  *)
(* script puts the artifacts of the jobs together with what it can read    *)
(* out of the comment that it wrote itself in an earlier run.              *)
(***************************************************************************)
EXTENDS Naturals, Sequences, FiniteSets, SequencesExt

CONSTANTS
    Jobs,
    KeysOf,         \* by job, the summary keys of its explorers, in order
    ErrorKey,       \* by job, the key of its section if it could not check at all, as
                    \* load_artifacts reads it ("injective blockscout" for injective)
    SectionOrder,   \* SECTION_ORDER
    ParsedKey,      \* by key, the key that its heading in the comment is read as
    MaxRuns         \* bound: runs of the workflow

normalize_section_key(k) == ParsedKey[k]

Keys == Range(SectionOrder) \cup {ErrorKey[j] : j \in Jobs} \cup Range(ParsedKey)

\* The heading of a key that is not known is not read as one that is.
ReportAssumption ==
    /\ SectionOrder \in Seq(Keys) /\ IsInjective(SectionOrder) /\ Jobs # {} /\ IsFiniteSet(Keys)
    /\ \A j \in Jobs : /\ KeysOf[j] \in Seq(Range(SectionOrder)) /\ KeysOf[j] # <<>>
                       /\ IsInjective(KeysOf[j])
    /\ DOMAIN ParsedKey = Keys
    /\ \A k \in Range(SectionOrder) : ParsedKey[k] = k
    /\ \A k \in Keys : ParsedKey[k] \in Range(SectionOrder) => ParsedKey[k] = k
    /\ MaxRuns \in Nat

\* A section of the comment has a heading, unless everything of it is verified:
\* then it is a single line.
Item == [key : Keys, run : 1..MaxRuns, clean : BOOLEAN]

VARIABLES
    run,            \* runs so far
    comment,        \* [kind |-> "none", "clear", "sections", items |-> the sections]
    reported,       \* history: the keys that the last run had results of
    latest,         \* history: by key, the last result: run and whether it was clean
    missed          \* history: the comment was there and could not be fetched

vars == <<run, comment, reported, latest, missed>>

None == [kind |-> "none", items |-> <<>>]

Init ==
    /\ run = 0 /\ comment = None /\ reported = {} /\ missed = FALSE
    /\ latest = [k \in Keys |-> [run |-> 0, clean |-> FALSE]]

-----------------------------------------------------------------------------
\* The artifact of a job: nothing, a section that tells why nothing was checked,
\* or sections of its explorers; all of them, unless it ended by an exception.
Artifacts(j) ==
    {[k \in {} |-> FALSE], [k \in {ErrorKey[j]} |-> FALSE]} \cup
    UNION {[{KeysOf[j][i] : i \in 1..n} -> BOOLEAN] : n \in 1..Len(KeysOf[j])}

\* All sections of a run: by key, whether the section is clean.
LoadArtifacts(of) ==
    [k \in UNION {DOMAIN of[j] : j \in Jobs} |-> of[CHOOSE j \in Jobs : k \in DOMAIN of[j]][k]]

Headings == {i \in DOMAIN comment.items : ~comment.items[i].clean}

\* The text of a section goes up to the next heading.
End(i) ==
    LET later == {j \in Headings : j > i}
    IN  IF later = {} THEN Len(comment.items) ELSE Min(later) - 1

\* A section read from the comment, with the text under its heading.
Raw(i) == SubSeq(comment.items, i, End(i))

\* Only the sections with a heading are found; the last one of a key counts.
ParseExistingComment ==
    LET key(i) == normalize_section_key(comment.items[i].key)
    IN  [k \in {key(i) : i \in Headings} |-> Raw(Max({i \in Headings : key(i) = k}))]

FetchPrComment(fetched) == IF fetched THEN ParseExistingComment ELSE [k \in {} |-> <<>>]

\* What is in the comment stays.
FaultyMerged(old, new) ==
    [k \in DOMAIN old \cup DOMAIN new |->
        IF k \in DOMAIN old THEN old[k]
        ELSE <<[key |-> k, run |-> run + 1, clean |-> new[k]]>>]

\* The comment is only looked at if there is nothing new.
NewOnlyMerged(old, new) ==
    IF new = [k \in {} |-> FALSE] THEN old
    ELSE [k \in DOMAIN new |-> <<[key |-> k, run |-> run + 1, clean |-> new[k]]>>]

\* The artifacts override the comment.
Merged(old, new) ==
    [k \in DOMAIN old \cup DOMAIN new |->
        IF k \in DOMAIN new THEN <<[key |-> k, run |-> run + 1, clean |-> new[k]]>>
        ELSE old[k]]

\* ordered_section_keys: first the known keys in their order, then the others.
Order == SectionOrder \o SetToSeq(Keys \ Range(SectionOrder))

Ordered(merged) ==
    FlattenSeq([i \in DOMAIN Order |->
                   IF Order[i] \in DOMAIN merged THEN merged[Order[i]] ELSE <<>>])

\* A failure from an earlier run does not count.
FaultyAllVerified(merged, new) ==
    /\ \A k \in DOMAIN new : new[k]
    /\ Cardinality(DOMAIN merged) >= Len(SectionOrder)

\* Everything in the comment is of this run and clean, and nothing is missing.
AllVerified(merged, new) ==
    /\ \A k \in DOMAIN merged : k \in DOMAIN new /\ new[k]
    /\ Cardinality(DOMAIN merged) >= Len(SectionOrder)

\* A run of the workflow; its merge job may not get the comment (gh fails, or
\* the comment is not on the first page).
Run(of, fetched) ==
    LET new == LoadArtifacts(of)
        merged == Merged(FetchPrComment(fetched), new)
    IN  /\ run < MaxRuns /\ run' = run + 1
        /\ comment' =
             IF DOMAIN merged = {} THEN (IF fetched THEN comment ELSE None)
             ELSE IF AllVerified(merged, new) THEN [kind |-> "clear", items |-> <<>>]
             ELSE [kind |-> "sections", items |-> Ordered(merged)]
        /\ reported' = DOMAIN new
        /\ latest' = [k \in Keys |->
              IF k \in DOMAIN new THEN [run |-> run + 1, clean |-> new[k]] ELSE latest[k]]
        /\ missed' = (missed \/ (~fetched /\ comment # None))

Next ==
    \E of \in [Jobs -> UNION {Artifacts(j) : j \in Jobs}], fetched \in BOOLEAN :
        (\A j \in Jobs : of[j] \in Artifacts(j)) /\ Run(of, fetched)

Spec == Init /\ [][Next]_vars

-----------------------------------------------------------------------------
Items == Range(comment.items)

\* The comment says that everything is verified only if the last run that had
\* any results verified everything, on every explorer.
ClearMeansVerified ==
    comment.kind = "clear" =>
        \A k \in Range(SectionOrder) :
            latest[k].clean /\ latest[k].run = latest[Head(SectionOrder)].run

\* What a run learned is in its comment.
FreshIsShown ==
    comment.kind = "sections" =>
        \A k \in reported : [key |-> k, run |-> run, clean |-> latest[k].clean] \in Items

\* A section that failed stays in the comment until a later run has a result of
\* it: as long as the comment can be fetched.
FailuresAreKept ==
    ~missed => \A k \in Range(SectionOrder) :
        latest[k].run > 0 /\ ~latest[k].clean =>
            [key |-> k, run |-> latest[k].run, clean |-> FALSE] \in Items

\* A failure in the comment was never verified by a later run.
FailuresAreCurrent ==
    \A i \in Items : ~i.clean /\ i.key \in Range(SectionOrder) => i.run = latest[i.key].run

=============================================================================
