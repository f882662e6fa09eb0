------------------------ MODULE GaugeRollout_proofs ------------------------
(***************************************************************************)
(* What the rollout scripts promise for every list of markets, any number  *)
(* of reverts, lost broadcasts, RPC failures and interruptions, and any    *)
(* order of the commands.                                                  *)
(***************************************************************************)
EXTENDS GaugeRollout, FiniteSetTheorems, SequenceTheorems, TLAPS

Progress == [Markets -> Record \cup {NoRecord}]
ForgeRun == [rc : Nat, entries : SUBSET Entries]

TypeOK ==
    /\ created \in Seq(Token)
    /\ registry \in [Token -> Nat]
    /\ progress \in Progress /\ mem \in Progress
    /\ next \in Nat \ {0}
    /\ pc \in {"idle", "deploy", "forged", "step2", "step3", "step4", "step5"}
    /\ pc = "forged" => next <= Len(MarketList) /\ forged \in ForgeRun
    /\ testOk \in BOOLEAN

\* Between two runs of forge 4_deploy has in memory what the file says; during a
\* run the market that is deployed is missing.
MemoryOK ==
    /\ pc = "deploy" => mem = progress
    /\ pc = "forged" => mem = [m \in Markets |-> IF m = Current THEN NoRecord ELSE progress[m]]

\* All records hold gauges, are successful, and their gauges are in the bundles.
Bundled ==
    \A m \in Recorded : /\ progress[m].success /\ progress[m].entries # {}
                        /\ GaugesOf(progress[m]) \subseteq FoundGauges

Versioned ==
    \A m \in Recorded : \A e \in progress[m].entries : e.version = ExpectedVersion

\* What the steps of 6_test that have succeeded so far have established.
TestOK ==
    /\ pc # "idle" => lastTest # "pass"
    /\ testOk /\ pc = "step2" => \A m \in Recorded : progress[m].success /\ progress[m].entries # {}
    /\ testOk /\ pc \in {"step3", "step4", "step5"} => Bundled
    /\ testOk /\ pc = "step5" => Versioned
    /\ lastTest = "pass" =>
          Bundled /\ Versioned /\ \A m \in Recorded : Real(m, progress[m])

\* None of the gauges exists for the market.
Unreal(m, entries) ==
    \A e \in entries : ~(Exists(e.gauge) /\ created[e.gauge].market = m)

Covered(m, entries) ==
    {e.token : e \in entries} = Range(TokensOf(m)) \/ Unreal(m, entries)

\* A forge run that reverts after some of its lines leaves the gauges of these
\* lines to the markets that come after.
CoverageOK ==
    commands \cap {"sync", "crash"} = {} =>
        /\ \A m \in Recorded : (pc = "forged" /\ m = Current) \/ Covered(m, progress[m].entries)
        /\ pc = "forged" => Covered(Current, forged.entries)

\* The inductive invariant.
IInv == TypeOK /\ MemoryOK /\ TestOK /\ CoverageOK

-----------------------------------------------------------------------------
(* Records *)

\* The recorded markets are those with a record.
LEMMA RecordedType ==
  ASSUME progress \in Progress, NEW m \in Markets
  PROVE  /\ m \in Recorded <=> progress[m] \in Record
         /\ m \notin Recorded <=> progress[m] = NoRecord
BY ConstantsOK DEF Progress, Recorded

\* Setting the flag of a record leaves its entries alone.
LEMMA MarkRecord ==
  ASSUME NEW r \in Record, NEW f \in BOOLEAN
  PROVE  [r EXCEPT !.success = f] = [success |-> f, entries |-> r.entries]
BY DEF Record

\* Setting the entries of a record leaves its flag alone.
LEMMA RecordWith ==
  ASSUME NEW r \in Record, NEW es
  PROVE  [r EXCEPT !.entries = es] = [success |-> r.success, entries |-> es]
BY DEF Record

\* Marking records changes nothing but their flags.
LEMMA MarkProgress ==
  ASSUME NEW p \in Progress, NEW ms \in SUBSET Markets, NEW f \in BOOLEAN,
         \A m \in ms : p[m] \in Record
  PROVE  /\ Mark(p, ms, f) \in Progress
         /\ \A m \in Markets :
              /\ Mark(p, ms, f)[m] = NoRecord <=> p[m] = NoRecord
              /\ p[m] \in Record =>
                   /\ Mark(p, ms, f)[m].entries = p[m].entries
                   /\ m \in ms => (Mark(p, ms, f)[m].success <=> f)
                   /\ m \notin ms => (Mark(p, ms, f)[m].success <=> p[m].success)
<1> DEFINE marked(m) == [success |-> f, entries |-> p[m].entries]
<1>1. Mark(p, ms, f) = [m \in Markets |-> IF m \in ms THEN marked(m) ELSE p[m]]
  BY MarkRecord DEF Mark
<1>2. \A m \in ms : marked(m) \in Record
  BY DEF Record
<1> QED
  BY <1>1, <1>2, ConstantsOK DEF Progress

\* load_progress_state gives what the file says.
LEMMA LoadedState ==
  ASSUME progress \in Progress
  PROVE  load_progress_state = progress
<1>1. \A m \in Recorded : [success |-> progress[m].success, entries |-> progress[m].entries] = progress[m]
  BY RecordedType DEF Record, Recorded
<1> QED
  BY <1>1, RecordedType DEF load_progress_state, Progress

-----------------------------------------------------------------------------
(* Gauges and share tokens *)

\* Two pairs in a row.
LEMMA TwoPairs ==
  ASSUME NEW S, NEW p \in Seq(S), NEW q \in Seq(S), Len(p) = 2, Len(q) = 2
  PROVE  /\ p \o q \in Seq(S) /\ Len(p \o q) = 4
         /\ (p \o q)[1] = p[1] /\ (p \o q)[2] = p[2]
         /\ (p \o q)[3] = q[1] /\ (p \o q)[4] = q[2]
<1>1. p \o q \in Seq(S) /\ Len(p \o q) = 4
  BY ConcatProperties
<1>2. \A i \in 1 .. Len(p) + Len(q) :
        (p \o q)[i] = IF i <= Len(p) THEN p[i] ELSE q[i - Len(p)]
  BY ConcatProperties
<1> QED
  BY <1>1, <1>2

\* The share tokens of a market, listed.
LEMMA TokensListed ==
  ASSUME NEW m \in Markets
  PROVE  LET token(s, k) == [market |-> m, silo |-> s, kind |-> k] IN
         TokensOf(m) = IF m \in TwoSilo
                       THEN << token(0, "collateral"), token(0, "protected"),
                               token(1, "collateral"), token(1, "protected") >>
                       ELSE << token(0, "collateral"), token(0, "protected") >>
<1> DEFINE token(s, k) == [market |-> m, silo |-> s, kind |-> k]
           both(s) == << token(s, "collateral"), token(s, "protected") >>
           two == << token(0, "collateral"), token(0, "protected"),
                     token(1, "collateral"), token(1, "protected") >>
           joined == both(0) \o both(1)
<1>1. \A s \in {0, 1}, k \in Kinds : token(s, k) \in Token
  BY DEF Token
<1>2. /\ both(0) \in Seq(Token) /\ Len(both(0)) = 2
      /\ both(1) \in Seq(Token) /\ Len(both(1)) = 2
      /\ both(0)[1] = two[1] /\ both(0)[2] = two[2]
      /\ both(1)[1] = two[3] /\ both(1)[2] = two[4]
      /\ two \in Seq(Token) /\ Len(two) = 4
  BY <1>1 DEF Kinds
<1>3. joined = two
  <2> HIDE DEF both, two
  <2>1. /\ joined \in Seq(Token) /\ Len(joined) = 4
        /\ joined[1] = two[1] /\ joined[2] = two[2] /\ joined[3] = two[3] /\ joined[4] = two[4]
    BY <1>2, TwoPairs
  <2> HIDE DEF joined
  <2>2. \A i \in 1 .. 4 : joined[i] = two[i]
    BY <2>1
  <2> QED
    BY <1>2, <2>1, <2>2
<1> QED
  BY <1>3 DEF TokensOf

\* The share tokens of a market, one or two pairs.
LEMMA TokensOfType ==
  ASSUME NEW m \in Markets
  PROVE  /\ TokensOf(m) \in Seq(Token)
         /\ Len(TokensOf(m)) = 2 * Cardinality(Silos(m))
         /\ \A i \in DOMAIN TokensOf(m) : TokensOf(m)[i].market = m
         /\ Cardinality(Silos(m)) = (IF 1 \in Silos(m) THEN 2 ELSE 1)
<1> DEFINE token(s, k) == [market |-> m, silo |-> s, kind |-> k]
           one == << token(0, "collateral"), token(0, "protected") >>
           two == << token(0, "collateral"), token(0, "protected"),
                     token(1, "collateral"), token(1, "protected") >>
<1>1. \A s \in {0, 1}, k \in Kinds : token(s, k) \in Token
  BY DEF Token
<1>2. TokensOf(m) = IF m \in TwoSilo THEN two ELSE one
  BY TokensListed
<1>3. Cardinality(Silos(m)) = IF m \in TwoSilo THEN 2 ELSE 1
  <2>1. Cardinality({0}) = 1 /\ IsFiniteSet({0})
    BY FS_Singleton
  <2>2. {0, 1} = {0} \cup {1}
    OBVIOUS
  <2>3. Cardinality({0} \cup {1}) = 2
    BY <2>1, FS_AddElement
  <2> QED
    BY <2>1, <2>2, <2>3 DEF Silos
<1>4. 1 \in Silos(m) <=> m \in TwoSilo
  BY DEF Silos
<1>5. one \in Seq(Token) /\ two \in Seq(Token)
  BY <1>1 DEF Kinds
<1>6. /\ Len(one) = 2 /\ \A i \in DOMAIN one : one[i].market = m
      /\ Len(two) = 4 /\ \A i \in DOMAIN two : two[i].market = m
  OBVIOUS
<1> QED
  BY <1>2, <1>3, <1>4, <1>5, <1>6

\* The lines of a forge run are entries for the market's first share tokens, with
\* the gauges the factory would create next.
LEMMA ExtractedType ==
  ASSUME created \in Seq(Token), NEW m \in Markets, NEW n \in 0 .. Len(TokensOf(m))
  PROVE  /\ extract_set_gauge_data(m, n) \in SUBSET Entries
         /\ \A e \in extract_set_gauge_data(m, n) : ~Exists(e.gauge)
         /\ n = Len(TokensOf(m)) =>
              {e.token : e \in extract_set_gauge_data(m, n)} = Range(TokensOf(m))
<1>1. TokensOf(m) \in Seq(Token)
  BY TokensOfType
<1>2. \A i \in 1 .. n : TokensOf(m)[i] \in Token /\ Predicted(i) \in Nat
                        /\ Predicted(i) \notin DOMAIN created
  BY <1>1 DEF Predicted
<1>3. \A i \in 1 .. n : Entry(Predicted(i), TokensOf(m)[i], "") \in Entries
  BY <1>2 DEF Entry, Entries
<1>4. ASSUME n = Len(TokensOf(m))
      PROVE  {e.token : e \in extract_set_gauge_data(m, n)} = Range(TokensOf(m))
  <2>1. DOMAIN TokensOf(m) = 1 .. n
    BY <1>1, <1>4
  <2>2. {e.token : e \in extract_set_gauge_data(m, n)} = {TokensOf(m)[i] : i \in 1 .. n}
    <3>1. \A i \in 1 .. n : Entry(Predicted(i), TokensOf(m)[i], "").token = TokensOf(m)[i]
      BY DEF Entry
    <3> QED
      BY <3>1 DEF extract_set_gauge_data
  <2> QED
    BY <2>1, <2>2 DEF Range
<1>5. \A i \in 1 .. n : ~Exists(Entry(Predicted(i), TokensOf(m)[i], "").gauge)
  BY <1>2 DEF Entry, Exists
<1> QED
  BY <1>3, <1>4, <1>5 DEF extract_set_gauge_data

\* Two sequences, one after the other.
LEMMA Joined ==
  ASSUME NEW S, NEW p \in Seq(S), NEW q \in Seq(S)
  PROVE  /\ p \o q \in Seq(S) /\ Len(p \o q) = Len(p) + Len(q)
         /\ \A i \in 1 .. Len(p) + Len(q) :
              (p \o q)[i] = IF i <= Len(p) THEN p[i] ELSE q[i - Len(p)]
<1>1. p \o q \in Seq(S) /\ Len(p \o q) = Len(p) + Len(q)
  BY ConcatProperties
<1>2. \A i \in 1 .. Len(p) + Len(q) :
        (p \o q)[i] = IF i <= Len(p) THEN p[i] ELSE q[i - Len(p)]
  BY ConcatProperties
<1> QED
  BY <1>1, <1>2

\* Creating gauges of one market adds gauges of that market and keeps the others.
LEMMA CreatedGrows ==
  ASSUME created \in Seq(Token), NEW m \in Markets, NEW n \in 0 .. Len(TokensOf(m)),
         created' = created \o SubSeq(TokensOf(m), 1, n)
  PROVE  /\ created' \in Seq(Token)
         /\ DOMAIN created \subseteq DOMAIN created'
         /\ \A g \in DOMAIN created : created'[g] = created[g]
         /\ \A g \in DOMAIN created' \ DOMAIN created : created'[g].market = m
<1> DEFINE new == SubSeq(TokensOf(m), 1, n)
<1>1. /\ TokensOf(m) \in Seq(Token)
      /\ \A i \in DOMAIN TokensOf(m) : TokensOf(m)[i].market = m
  BY TokensOfType
<1>2. new \in Seq(Token) /\ Len(new) = n /\ \A i \in 1 .. n : new[i] = TokensOf(m)[i]
  BY <1>1
<1>3. \A i \in 1 .. Len(new) : new[i].market = m
  BY <1>1, <1>2
<1> HIDE DEF new
<1>4. created' = created \o new
  BY DEF new
<1>5. /\ created' \in Seq(Token) /\ Len(created') = Len(created) + Len(new)
      /\ \A g \in 1 .. Len(created) + Len(new) :
           created'[g] = IF g <= Len(created) THEN created[g] ELSE new[g - Len(created)]
  BY <1>2, <1>4, Joined
<1>6. /\ \A g \in 1 .. Len(created) : created'[g] = created[g]
      /\ Len(created) \in Nat /\ Len(new) \in Nat
  BY <1>2, <1>5
<1>7. \A g \in (Len(created) + 1) .. Len(created') : created'[g].market = m
  <2> TAKE g \in (Len(created) + 1) .. Len(created')
  <2>1. g - Len(created) \in 1 .. Len(new)
    BY <1>5, <1>6
  <2>2. created'[g] = new[g - Len(created)]
    BY <1>5, <1>6
  <2> QED
    BY <1>3, <2>1, <2>2
<1>8. /\ DOMAIN created = 1 .. Len(created) /\ DOMAIN created' = 1 .. Len(created')
      /\ Len(created) <= Len(created')
  BY <1>5, <1>6
<1> QED
  BY <1>5, <1>6, <1>7, <1>8

-----------------------------------------------------------------------------
(* The deployment *)

\* The position of the loop names a market.
LEMMA CurrentType ==
  ASSUME TypeOK, next <= Len(MarketList)
  PROVE  Current \in Markets
BY ConstantsOK DEF TypeOK, Current

\* The invariant is kept by the start of 4_deploy, which loads the progress file.
LEMMA StartKeeps ==
  ASSUME IInv, NEW b \in BOOLEAN, NEW rpc \in BOOLEAN, StartDeploy(b, rpc)
  PROVE  IInv'
<1>1. mem' = progress /\ progress' = progress /\ pc' = "deploy" /\ lastTest' = "none"
  BY LoadedState DEF IInv, TypeOK, StartDeploy
<1>2. UNCHANGED <<created, registry, testOk, commands>>
  BY DEF StartDeploy, chain, NoFault, Fault
<1>3. Len(MarketList) + 1 \in Nat \ {0}
  BY ConstantsOK
<1>4. TypeOK'
  BY <1>1, <1>2, <1>3 DEF IInv, TypeOK, StartDeploy
<1>5. MemoryOK' /\ TestOK'
  BY <1>1 DEF MemoryOK, TestOK
<1>6. CoverageOK'
  BY <1>1, <1>2 DEF IInv, CoverageOK, StartDeploy, Recorded, Covered, Unreal, Exists
<1> QED
  BY <1>4, <1>5, <1>6 DEF IInv

\* ... by a market that is skipped,
LEMMA SkipKeeps ==
  ASSUME IInv, SkipMarket
  PROVE  IInv'
<1>1. UNCHANGED <<created, registry, progress, pc, mem, testOk, lastTest, commands, out>> /\ pc = "deploy"
  BY DEF SkipMarket, chain, InLoop
<1>2. TypeOK'
  BY <1>1 DEF IInv, TypeOK, SkipMarket
<1>3. MemoryOK' /\ TestOK'
  BY <1>1 DEF IInv, MemoryOK, TestOK
<1>4. CoverageOK'
  BY <1>1 DEF IInv, CoverageOK, Recorded, Covered, Unreal, Exists
<1> QED
  BY <1>2, <1>3, <1>4 DEF IInv

\* A forge run of the current market leaves file and chain in order when it changes
\* the chain for this market only.
LEMMA ForgedKeeps ==
  ASSUME IInv, InLoop, NEW rc \in Nat, NEW n \in 0 .. Len(TokensOf(Current)), Forged(rc, n),
         registry' \in [Token -> Nat], created' \in Seq(Token), commands' = commands,
         DOMAIN created \subseteq DOMAIN created',
         \A g \in DOMAIN created : created'[g] = created[g],
         \A g \in DOMAIN created' \ DOMAIN created : created'[g].market = Current,
         created' = created \/ n = Len(TokensOf(Current))
  PROVE  IInv'
<1>1. Current \in Markets /\ pc = "deploy" /\ mem = progress
  BY CurrentType DEF IInv, InLoop, MemoryOK
<1>2. /\ forged' = [rc |-> rc, entries |-> extract_set_gauge_data(Current, n)]
      /\ mem' = [mem EXCEPT ![Current] = NoRecord]
      /\ pc' = "forged" /\ UNCHANGED <<progress, next, testOk, lastTest>>
  BY DEF Forged, run_with_live_output
<1>3. Current' = Current
  BY <1>2 DEF Current
<1>4. /\ extract_set_gauge_data(Current, n) \in SUBSET Entries
      /\ \A e \in extract_set_gauge_data(Current, n) : ~Exists(e.gauge)
      /\ n = Len(TokensOf(Current)) =>
           {e.token : e \in extract_set_gauge_data(Current, n)} = Range(TokensOf(Current))
  BY <1>1, ExtractedType DEF IInv, TypeOK
<1>5. TypeOK'
  <2>1. mem' \in Progress
    BY <1>1, <1>2 DEF IInv, TypeOK, Progress
  <2>2. forged' \in ForgeRun
    BY <1>2, <1>4 DEF ForgeRun
  <2> QED
    BY <1>2, <2>1, <2>2 DEF IInv, TypeOK, InLoop
<1>6. MemoryOK'
  BY <1>1, <1>2, <1>3 DEF IInv, TypeOK, Progress, MemoryOK
<1>7. TestOK'
  BY <1>1, <1>2 DEF IInv, TestOK
<1>8. CoverageOK'
  <2> SUFFICES ASSUME commands \cap {"sync", "crash"} = {}
               PROVE  /\ \A m \in Recorded : m = Current \/ Covered(m, progress[m].entries)'
                      /\ Covered(Current, forged.entries)'
    BY <1>2, <1>3 DEF CoverageOK, Recorded
  <2>1. ASSUME NEW m \in Recorded, m # Current
        PROVE  Covered(m, progress[m].entries)'
    <3>1. Covered(m, progress[m].entries)
      BY <1>1, <2>1 DEF IInv, CoverageOK
    <3>2. ASSUME Unreal(m, progress[m].entries), NEW e \in progress[m].entries,
                 e.gauge \in DOMAIN created', created'[e.gauge].market = m
          PROVE  FALSE
      BY <2>1, <3>2 DEF Unreal, Exists
    <3> QED
      BY <1>2, <3>1, <3>2 DEF Covered, Unreal, Exists
  <2>2. Covered(Current, forged.entries)'
    <3> DEFINE entries == extract_set_gauge_data(Current, n)
    <3>1. forged'.entries = entries
      BY <1>2
    <3>2. CASE n = Len(TokensOf(Current))
      BY <1>3, <1>4, <3>1, <3>2 DEF Covered
    <3>3. CASE created' = created
      BY <1>3, <1>4, <3>1, <3>3 DEF Covered, Unreal, Exists
    <3> QED
      BY <3>2, <3>3
  <2> QED
    BY <2>1, <2>2
<1> QED
  BY <1>5, <1>6, <1>7, <1>8 DEF IInv

\* A forge run that reverts has printed the lines of none, one or two silos.
LEMMA RevertedLines ==
  ASSUME Current \in Markets, ForgeReverts
  PROVE  \E n \in {0, 2, 4} : n <= Len(TokensOf(Current)) /\ Forged(1, n)
<1>1. /\ Len(TokensOf(Current)) = 2 * Cardinality(Silos(Current))
      /\ Cardinality(Silos(Current)) = (IF 1 \in Silos(Current) THEN 2 ELSE 1)
  BY TokensOfType
<1>2. ASSUME NEW s \in 0 .. Cardinality(Silos(Current)), Forged(1, 2 * s)
      PROVE  \E n \in {0, 2, 4} : n <= Len(TokensOf(Current)) /\ Forged(1, n)
  <2>1. s \in {0, 1, 2} /\ 2 * s <= Len(TokensOf(Current))
    BY <1>1
  <2>2. 2 * s \in {0, 2, 4}
    BY <2>1
  <2> QED
    BY <1>2, <2>1, <2>2
<1>3. ASSUME BlockedSilos(Current) # {},
             Forged(1, IF 0 \in BlockedSilos(Current) THEN 2 ELSE 4)
      PROVE  \E n \in {0, 2, 4} : n <= Len(TokensOf(Current)) /\ Forged(1, n)
  <2>1. 0 \in BlockedSilos(Current) \/ 1 \in Silos(Current)
    BY <1>3 DEF BlockedSilos, Silos
  <2>2. (IF 0 \in BlockedSilos(Current) THEN 2 ELSE 4) <= Len(TokensOf(Current))
    BY <1>1, <2>1
  <2> QED
    BY <1>3, <2>2
<1> QED
  BY <1>2, <1>3 DEF ForgeReverts

\* The invariant is kept by such a run,
LEMMA RevertKeeps ==
  ASSUME IInv, ForgeReverts
  PROVE  IInv'
<1>1. InLoop /\ UNCHANGED <<created, registry>> /\ commands' = commands
  BY DEF ForgeReverts, NeedsForge, Fault, NoFault
<1>2. Current \in Markets
  BY <1>1, CurrentType DEF IInv, InLoop
<1>3. PICK n \in {0, 2, 4} : n <= Len(TokensOf(Current)) /\ Forged(1, n)
  BY <1>2, RevertedLines
<1>4. n \in 0 .. Len(TokensOf(Current))
  BY <1>2, <1>3, TokensOfType
<1> QED
  BY <1>1, <1>3, <1>4, ForgedKeeps DEF IInv, TypeOK

\* A forge run creates gauges for the current market, after those that exist.
LEMMA SendsCreate ==
  ASSUME TypeOK, NEW n \in 0 .. 4, NEW rc \in {0, 1}, ForgeSends(n, rc)
  PROVE  /\ Current \in Markets /\ registry' \in [Token -> Nat] /\ created' \in Seq(Token)
         /\ DOMAIN created \subseteq DOMAIN created'
         /\ \A g \in DOMAIN created : created'[g] = created[g]
         /\ \A g \in DOMAIN created' \ DOMAIN created : created'[g].market = Current
<1>1. Current \in Markets
  BY CurrentType DEF ForgeSends, NeedsForge, InLoop
<1>2. TokensOf(Current) \in Seq(Token)
  BY <1>1, TokensOfType
<1>3. n \in 0 .. Len(TokensOf(Current)) /\ created' = created \o SubSeq(TokensOf(Current), 1, n)
  BY <1>2 DEF ForgeSends, build_forge_command
<1>4. registry' \in [Token -> Nat]
  <2> DEFINE all == TokensOf(Current)
             place(t) == CHOOSE i \in DOMAIN all : all[i] = t
  <2>1. registry' = [t \in Token |-> IF t \in Range(all) THEN Predicted(place(t)) ELSE registry[t]]
    BY DEF ForgeSends
  <2>2. ASSUME NEW t \in Range(all)
        PROVE  Predicted(place(t)) \in Nat
    <3>1. place(t) \in DOMAIN all
      BY <2>2 DEF Range
    <3>2. place(t) \in Nat
      BY <1>2, <3>1
    <3> HIDE DEF place
    <3> QED
      BY <3>2 DEF TypeOK, Predicted
  <2> HIDE DEF place, all
  <2> QED
    BY <2>1, <2>2 DEF TypeOK
<1> QED
  BY <1>1, <1>3, <1>4, CreatedGrows DEF TypeOK

\* The invariant is kept by a forge run that creates some or all of its gauges,
LEMMA SendsKeeps ==
  ASSUME IInv, NEW n \in 0 .. 4, NEW rc \in {0, 1}, ForgeSends(n, rc)
  PROVE  IInv'
<1>1. Forged(rc, Len(TokensOf(Current))) /\ InLoop /\ commands' = commands
  BY DEF ForgeSends, NeedsForge, Fault, NoFault
<1>2. /\ Current \in Markets /\ registry' \in [Token -> Nat] /\ created' \in Seq(Token)
      /\ DOMAIN created \subseteq DOMAIN created'
      /\ \A g \in DOMAIN created : created'[g] = created[g]
      /\ \A g \in DOMAIN created' \ DOMAIN created : created'[g].market = Current
  BY SendsCreate DEF IInv
<1>3. Len(TokensOf(Current)) \in 0 .. Len(TokensOf(Current))
  BY <1>2, TokensOfType
<1> QED
  BY <1>1, <1>2, <1>3, ForgedKeeps

\* ... by the record of a forge run, which is saved,
LEMMA RecordKeeps ==
  ASSUME IInv, RecordRun
  PROVE  IInv'
<1> DEFINE rec == [success |-> forged.rc = 0 \/ forged.entries # {}, entries |-> forged.entries]
<1>1. /\ next <= Len(MarketList) /\ forged \in ForgeRun
      /\ mem = [m \in Markets |-> IF m = Current THEN NoRecord ELSE progress[m]]
      /\ pc = "forged" /\ lastTest # "pass"
  BY DEF IInv, TypeOK, MemoryOK, TestOK, RecordRun
<1>2. Current \in Markets
  BY <1>1, CurrentType DEF IInv
<1>3. /\ mem' = [mem EXCEPT ![Current] = rec] /\ progress' = mem'
      /\ pc' = "deploy" /\ next' = next + 1
      /\ UNCHANGED <<created, registry, testOk, lastTest, commands>>
  BY DEF RecordRun, save_progress_state, chain
<1>4. rec \in Record
  BY <1>1 DEF Record, ForgeRun
<1> HIDE DEF rec
<1>5. progress' = [m \in Markets |-> IF m = Current THEN rec ELSE progress[m]]
  BY <1>1, <1>2, <1>3
<1>6. TypeOK'
  <2>1. progress' \in Progress
    BY <1>4, <1>5 DEF IInv, TypeOK, Progress
  <2> QED
    BY <1>3, <2>1 DEF IInv, TypeOK
<1>7. MemoryOK' /\ TestOK'
  BY <1>1, <1>3 DEF MemoryOK, TestOK
<1>8. CoverageOK'
  <2> SUFFICES ASSUME commands \cap {"sync", "crash"} = {}, NEW m \in Markets, progress'[m] # NoRecord
               PROVE  Covered(m, progress'[m].entries)
    BY <1>3 DEF CoverageOK, Recorded, Covered, Unreal, Exists
  <2>1. CASE m = Current
    <3>1. progress'[m].entries = forged.entries
      BY <1>2, <1>5, <2>1 DEF rec
    <3> QED
      BY <1>1, <2>1, <3>1 DEF IInv, CoverageOK
  <2>2. CASE m # Current
    BY <1>1, <1>5, <2>2 DEF IInv, CoverageOK, Recorded
  <2> QED
    BY <2>1, <2>2
<1> QED
  BY <1>6, <1>7, <1>8 DEF IInv

\* ... by the end of 4_deploy,
LEMMA FinishKeeps ==
  ASSUME IInv, FinishDeploy
  PROVE  IInv'
<1>1. /\ progress' = progress /\ pc' = "idle" /\ pc = "deploy" /\ next' = 1
      /\ mem' = [m \in Markets |-> NoRecord]
      /\ UNCHANGED <<created, registry, testOk, lastTest, commands>>
  BY DEF IInv, MemoryOK, FinishDeploy, save_progress_state, Ends, chain
<1>2. TypeOK'
  <2>1. mem' \in Progress
    BY <1>1 DEF Progress
  <2> QED
    BY <1>1, <2>1 DEF IInv, TypeOK
<1>3. MemoryOK' /\ TestOK'
  BY <1>1 DEF IInv, MemoryOK, TestOK
<1>4. CoverageOK'
  BY <1>1 DEF IInv, CoverageOK, Recorded, Covered, Unreal, Exists
<1> QED
  BY <1>2, <1>3, <1>4 DEF IInv

-----------------------------------------------------------------------------
(* The test *)

\* p has the records of the progress file with the same gauges for the same tokens.
SameGauges(p) ==
    \A m \in Markets :
        /\ p[m] = NoRecord <=> progress[m] = NoRecord
        /\ m \in Recorded =>
             /\ \A e \in p[m].entries : \E f \in progress[m].entries :
                    e.gauge = f.gauge /\ e.token = f.token
             /\ \A f \in progress[m].entries : \E e \in p[m].entries :
                    e.gauge = f.gauge /\ e.token = f.token

\* Marking records failed, and others successful, leaves their entries alone.
LEMMA Marked ==
  ASSUME progress \in Progress, NEW bad \in SUBSET Recorded, NEW good \in SUBSET Recorded
  PROVE  /\ Demote(bad) \in Progress /\ SameGauges(Demote(bad))
         /\ DemoteAndPromote(bad, good) \in Progress /\ SameGauges(DemoteAndPromote(bad, good))
         /\ \A m \in Recorded :
              /\ Demote(bad)[m].entries = progress[m].entries
              /\ DemoteAndPromote(bad, good)[m].entries = progress[m].entries
              /\ m \notin bad => (Demote(bad)[m].success <=> progress[m].success)
              /\ m \notin bad =>
                   (DemoteAndPromote(bad, good)[m].success <=> m \in good \/ progress[m].success)
<1> DEFINE d == Demote(bad)
           p == DemoteAndPromote(bad, good)
<1>1. /\ bad \in SUBSET Markets /\ good \in SUBSET Markets
      /\ \A m \in Recorded : m \in Markets /\ progress[m] \in Record
  BY RecordedType DEF Recorded
<1> DEFINE no == FALSE
           yes == TRUE
<1>2. no \in BOOLEAN /\ yes \in BOOLEAN /\ \A m \in bad : progress[m] \in Record
  BY <1>1
<1>3. d = Mark(progress, bad, no) /\ p = Mark(d, good, yes)
  BY DEF Demote, DemoteAndPromote
<1> HIDE DEF d, p, no, yes
<1>4. /\ d \in Progress
      /\ \A m \in Markets :
              /\ d[m] = NoRecord <=> progress[m] = NoRecord
              /\ progress[m] \in Record =>
                   /\ d[m].entries = progress[m].entries
                   /\ m \notin bad => (d[m].success <=> progress[m].success)
  BY <1>1, <1>2, <1>3, MarkProgress
<1>5. d \in Progress /\ \A m \in good : d[m] \in Record
  BY <1>1, <1>4, ConstantsOK DEF Progress, Recorded
<1>6. /\ p \in Progress
      /\ \A m \in Markets :
              /\ p[m] = NoRecord <=> d[m] = NoRecord
              /\ d[m] \in Record =>
                   /\ p[m].entries = d[m].entries
                   /\ m \in good => (p[m].success <=> yes)
                   /\ m \notin good => (p[m].success <=> d[m].success)
  BY <1>1, <1>2, <1>5, <1>3, MarkProgress
<1>7. \A m \in Recorded : d[m] \in Record
  BY <1>1, <1>4 DEF Progress, Recorded
<1>8. \A m \in Recorded :
        /\ d[m].entries = progress[m].entries /\ p[m].entries = progress[m].entries
        /\ m \notin bad => (d[m].success <=> progress[m].success)
        /\ m \notin bad => (p[m].success <=> m \in good \/ progress[m].success)
  BY <1>1, <1>4, <1>6, <1>7 DEF yes
<1>9. SameGauges(d) /\ SameGauges(p)
  BY <1>4, <1>6, <1>8 DEF SameGauges
<1> QED
  BY <1>4, <1>6, <1>8, <1>9 DEF d, p

\* An entry with another version.
LEMMA EntryWith ==
  ASSUME NEW e \in Entries, NEW v \in {"legacy", ExpectedVersion}
  PROVE  /\ [e EXCEPT !.version = v] \in Entries
         /\ [e EXCEPT !.version = v].gauge = e.gauge
         /\ [e EXCEPT !.version = v].token = e.token
<1> DEFINE V == {"", "legacy", ExpectedVersion}
<1>1. e \in [gauge : Nat, token : Token, version : V] /\ v \in V
  BY DEF Entries
<1> HIDE DEF V
<1>2. [e EXCEPT !.version = v] = [gauge |-> e.gauge, token |-> e.token, version |-> v]
  BY <1>1
<1>3. [gauge |-> e.gauge, token |-> e.token, version |-> v] \in [gauge : Nat, token : Token, version : V]
  BY <1>1
<1> QED
  BY <1>2, <1>3 DEF Entries, V

\* Reading versions changes nothing but versions.
LEMMA UpdatedType ==
  ASSUME TypeOK, NEW read \in BOOLEAN
  PROVE  /\ UpdatedVersions(read) \in Progress /\ SameGauges(UpdatedVersions(read))
         /\ \A m \in Recorded : UpdatedVersions(read)[m].success = progress[m].success
<1> DEFINE p == UpdatedVersions(read)
           new(m) == {WithVersion(e, read) : e \in progress[m].entries}
<1>1. \A m \in Recorded : m \in Markets /\ progress[m] \in Record
  BY RecordedType DEF TypeOK, Recorded
<1>2. ASSUME NEW e \in Entries
      PROVE  /\ WithVersion(e, read) \in Entries
             /\ WithVersion(e, read).gauge = e.gauge /\ WithVersion(e, read).token = e.token
  <2> DEFINE v == IF read THEN Version(e.gauge) ELSE "legacy"
  <2>1. v \in {"legacy", ExpectedVersion}
    BY DEF Version
  <2> HIDE DEF v
  <2>2. WithVersion(e, read) = IF e.version # "" THEN e ELSE [e EXCEPT !.version = v]
    BY DEF WithVersion, v
  <2> QED
    BY <2>1, <2>2, EntryWith
<1>3. ASSUME NEW m \in Recorded
      PROVE  /\ p[m] = [success |-> progress[m].success, entries |-> new(m)]
             /\ new(m) \in SUBSET Entries
  <2>1. progress[m].entries \in SUBSET Entries
    BY <1>1 DEF Record
  <2>2. [progress[m] EXCEPT !.entries = new(m)] = [success |-> progress[m].success, entries |-> new(m)]
    BY <1>1, RecordWith
  <2>3. p[m] = [progress[m] EXCEPT !.entries = new(m)]
    BY <1>1 DEF UpdatedVersions
  <2> QED
    BY <1>2, <2>1, <2>2, <2>3
<1>4. \A m \in Recorded : p[m] \in Record /\ p[m].success = progress[m].success
                          /\ p[m].entries = new(m)
  <2> TAKE m \in Recorded
  <2>1. progress[m].success \in BOOLEAN
    BY <1>1 DEF Record
  <2>2. p[m] = [success |-> progress[m].success, entries |-> new(m)] /\ new(m) \in SUBSET Entries
    BY <1>3
  <2> HIDE DEF new, p
  <2>3. [success |-> progress[m].success, entries |-> new(m)] \in Record
    BY <2>1, <2>2 DEF Record
  <2>4. p[m].success = progress[m].success /\ p[m].entries = new(m)
    BY <2>2
  <2> QED
    BY <2>2, <2>3, <2>4
<1>5. p \in Progress
  <2>1. p = [m \in Markets |-> IF m \in Recorded THEN p[m] ELSE NoRecord]
    BY DEF UpdatedVersions
  <2> HIDE DEF p
  <2> QED
    BY <1>4, <2>1 DEF Progress
<1>6. SameGauges(p)
  <2> SUFFICES ASSUME NEW m \in Markets
               PROVE  /\ p[m] = NoRecord <=> progress[m] = NoRecord
                      /\ m \in Recorded =>
                           /\ \A e \in p[m].entries : \E f \in progress[m].entries :
                                  e.gauge = f.gauge /\ e.token = f.token
                           /\ \A f \in progress[m].entries : \E e \in p[m].entries :
                                  e.gauge = f.gauge /\ e.token = f.token
    BY DEF SameGauges
  <2>1. m \notin Recorded => p[m] = NoRecord /\ progress[m] = NoRecord
    BY DEF UpdatedVersions, Recorded
  <2>2. m \in Recorded => progress[m].entries \in SUBSET Entries
    BY <1>1 DEF Record
  <2> HIDE DEF p
  <2> QED
    BY <1>1, <1>2, <1>4, <2>1, <2>2, ConstantsOK
<1> QED
  BY <1>4, <1>5, <1>6

\* The test changes no gauge of any record.
LEMMA TestsKeepGauges ==
  ASSUME IInv, run_step_1 \/ Testing
  PROVE  SameGauges(progress')
<1>1. progress \in Progress
  BY DEF IInv, TypeOK
<1>2. CASE run_step_1
  <2> DEFINE bad == {k \in Recorded : ~progress[k].success
                                      \/ Cardinality(progress[k].entries) < 2}
  <2>1. bad \in SUBSET Recorded /\ progress' = Demote(bad)
    BY <1>2 DEF run_step_1, TestStep
  <2> HIDE DEF bad
  <2> QED
    BY <1>1, <2>1, Marked
<1>3. CASE run_step_2
  <2> DEFINE expected == UNION {GaugesOf(progress[k]) :
                                  k \in {k \in Recorded : progress[k].success}}
             missing == expected \ FoundGauges
             bad == {k \in Recorded : GaugesOf(progress[k]) \cap missing # {}}
  <2>1. bad \in SUBSET Recorded /\ progress' = Demote(bad)
    BY <1>3 DEF run_step_2, TestStep
  <2> HIDE DEF bad
  <2> QED
    BY <1>1, <2>1, Marked
<1>4. CASE run_step_3_update_gauge_versions
  <2>1. progress' = progress \/ \E read \in BOOLEAN : progress' = UpdatedVersions(read)
    BY <1>4 DEF run_step_3_update_gauge_versions, TestStep
  <2>2. SameGauges(progress)
    BY DEF SameGauges
  <2> QED
    BY <2>1, <2>2, UpdatedType DEF IInv
<1>5. CASE run_step_4_validate_gauge_version
  <2> DEFINE bad == {k \in Recorded : \E e \in progress[k].entries : e.version # ExpectedVersion}
             good == {k \in Recorded \ bad : progress[k].entries # {}}
  <2>1. progress' = DemoteAndPromote(bad, good)
    BY <1>5 DEF run_step_4_validate_gauge_version, TestStep
  <2>2. bad \in SUBSET Recorded /\ good \in SUBSET Recorded
    OBVIOUS
  <2> HIDE DEF bad, good
  <2> QED
    BY <1>1, <2>1, <2>2, Marked
<1>6. CASE run_step_5_validate_gauge_share_token
  <2> DEFINE full == {k \in Recorded : progress[k].entries # {}}
             bad == {k \in Recorded : \E e \in progress[k].entries : ~ShareTokenOK(k, e)}
  <2>1. \/ progress' = DemoteAndPromote(bad, full \ bad)
        \/ \E unread \in SUBSET Recorded : progress' = Demote(unread)
    BY <1>6 DEF run_step_5_validate_gauge_share_token, TestStep
  <2>2. bad \in SUBSET Recorded /\ full \ bad \in SUBSET Recorded
    OBVIOUS
  <2> HIDE DEF bad, full
  <2> QED
    BY <1>1, <2>1, <2>2, Marked
<1> QED
  BY <1>2, <1>3, <1>4, <1>5, <1>6 DEF Testing

\* A step of the test keeps the gauges of all records, and with them what the
\* deployment relies on.
LEMMA TestStepKeeps ==
  ASSUME IInv, NEW from \in {"idle", "step2", "step3", "step4", "step5"},
         NEW to \in {"idle", "step2", "step3", "step4", "step5"},
         NEW p \in Progress, SameGauges(p), NEW ok \in BOOLEAN,
         TestStep(from, to, p, ok), commands' = commands
  PROVE  TypeOK' /\ MemoryOK' /\ CoverageOK'
<1>1. /\ pc = from /\ pc' = to /\ progress' = p
      /\ testOk' = ((from = "idle" \/ testOk) /\ ok /\ Recorded # {})
      /\ UNCHANGED <<created, registry, mem, next, forged>>
  BY DEF TestStep, chain, deployVars
<1>2. TypeOK'
  BY <1>1 DEF IInv, TypeOK
<1>3. MemoryOK'
  BY <1>1 DEF MemoryOK
<1>4. CoverageOK'
  <2> SUFFICES ASSUME commands \cap {"sync", "crash"} = {}, NEW m \in Markets, p[m] # NoRecord
               PROVE  Covered(m, p[m].entries)
    BY <1>1 DEF CoverageOK, Recorded, Covered, Unreal, Exists
  <2>1. m \in Recorded
    BY DEF SameGauges, Recorded
  <2>2. Covered(m, progress[m].entries)
    BY <1>1, <2>1 DEF IInv, CoverageOK
  <2>3. {e.token : e \in p[m].entries} = {e.token : e \in progress[m].entries}
    BY <2>1 DEF SameGauges
  <2>4. Unreal(m, progress[m].entries) => Unreal(m, p[m].entries)
    BY <2>1 DEF SameGauges, Unreal
  <2> QED
    BY <2>2, <2>3, <2>4 DEF Covered
<1> QED
  BY <1>2, <1>3, <1>4

\* ... and by the five steps of 6_test, each of which establishes a part of TestOK.
LEMMA Step1Keeps ==
  ASSUME IInv, run_step_1
  PROVE  IInv'
<1> DEFINE bad == {m \in Recorded : ~progress[m].success
                                    \/ Cardinality(progress[m].entries) < 2}
<1>1. TestStep("idle", "step2", Demote(bad), bad = {}) /\ commands' = commands
  BY DEF run_step_1, NoFault
<1>2. /\ Demote(bad) \in Progress /\ SameGauges(Demote(bad))
      /\ \A m \in Recorded : Demote(bad)[m].entries = progress[m].entries
                             /\ (m \notin bad => (Demote(bad)[m].success <=> progress[m].success))
  BY Marked DEF IInv, TypeOK
<1>3. TypeOK' /\ MemoryOK' /\ CoverageOK'
  <2> HIDE DEF bad
  <2> QED
    BY <1>1, <1>2, TestStepKeeps
<1>4. TestOK'
  <2>1. /\ pc' = "step2" /\ lastTest' = "none" /\ progress' = Demote(bad)
        /\ testOk' => bad = {}
    BY <1>1 DEF TestStep
  <2>2. ASSUME bad = {}, NEW m \in Recorded
        PROVE  progress[m].success /\ progress[m].entries # {}
    <3>1. Cardinality({}) = 0
      BY FS_EmptySet
    <3>2. m \notin bad
      BY <2>2
    <3> QED
      BY <3>1, <3>2
  <2>3. \A m \in Markets : progress'[m] # NoRecord => m \in Recorded
    BY <1>2, <2>1 DEF SameGauges, Recorded
  <2> HIDE DEF bad
  <2>4. ASSUME testOk', NEW m \in Markets, progress'[m] # NoRecord
        PROVE  progress'[m].success /\ progress'[m].entries # {}
    BY <1>2, <2>1, <2>2, <2>3, <2>4
  <2> QED
    BY <2>1, <2>4 DEF TestOK, Recorded
<1> QED
  BY <1>3, <1>4 DEF IInv

\* What the records say stays as it was when a step marks none of them failed.
LEMMA BundledKept ==
  ASSUME NEW p, progress' = p, SameGauges(p), out' = out,
         \A m \in Recorded : p[m].success /\ progress[m].entries # {}
                             /\ GaugesOf(progress[m]) \subseteq FoundGauges
  PROVE  Bundled'
<1> SUFFICES ASSUME NEW m \in Markets, p[m] # NoRecord
             PROVE  /\ p[m].success /\ p[m].entries # {}
                    /\ GaugesOf(p[m]) \subseteq FoundGauges
  BY DEF Bundled, Recorded, GaugesOf, FoundGauges
<1>1. m \in Recorded
  BY DEF SameGauges, Recorded
<1>2. GaugesOf(p[m]) = GaugesOf(progress[m]) /\ p[m].entries # {}
  BY <1>1 DEF SameGauges, GaugesOf
<1> QED
  BY <1>1, <1>2

\* Step 2 finds the gauges of successful records in the bundles.
LEMMA Step2Keeps ==
  ASSUME IInv, run_step_2
  PROVE  IInv'
<1> DEFINE expected == UNION {GaugesOf(progress[m]) :
                                m \in {m \in Recorded : progress[m].success}}
           missing == expected \ FoundGauges
           bad == {m \in Recorded : GaugesOf(progress[m]) \cap missing # {}}
<1>1. TestStep("step2", "step3", Demote(bad), missing = {}) /\ commands' = commands
  BY DEF run_step_2, NoFault
<1>2. /\ Demote(bad) \in Progress /\ SameGauges(Demote(bad))
      /\ \A m \in Recorded : Demote(bad)[m].entries = progress[m].entries
                             /\ (m \notin bad => (Demote(bad)[m].success <=> progress[m].success))
  BY Marked DEF IInv, TypeOK
<1>3. TypeOK' /\ MemoryOK' /\ CoverageOK'
  <2> HIDE DEF bad, missing
  <2> QED
    BY <1>1, <1>2, TestStepKeeps
<1>4. TestOK'
  <2>1. /\ pc = "step2" /\ pc' = "step3" /\ lastTest' = "none" /\ progress' = Demote(bad) /\ out' = out
        /\ testOk' => testOk /\ missing = {}
    BY <1>1 DEF TestStep
  <2>2. missing = {} => bad = {}
    OBVIOUS
  <2>3. ASSUME missing = {}, NEW m \in Recorded, progress[m].success
        PROVE  GaugesOf(progress[m]) \subseteq FoundGauges
    BY <2>3
  <2> HIDE DEF bad, missing
  <2>4. testOk => \A m \in Recorded : progress[m].success /\ progress[m].entries # {}
    BY <2>1 DEF IInv, TestOK
  <2>5. ASSUME testOk'
        PROVE  Bundled'
    BY <1>2, <2>1, <2>2, <2>3, <2>4, <2>5, BundledKept
  <2> QED
    BY <2>1, <2>5 DEF TestOK
<1> QED
  BY <1>3, <1>4 DEF IInv

\* Step 3 reads versions, or gives them up, and drops no gauge.
LEMMA Step3Keeps ==
  ASSUME IInv, run_step_3_update_gauge_versions
  PROVE  IInv'
<1>1. commands' = commands
  BY DEF run_step_3_update_gauge_versions, NoFault, Fault
<1>2. \/ TestStep("step3", "step4", UpdatedVersions(TRUE), TRUE)
      \/ TestStep("step3", "step4", progress, FALSE)
      \/ TestStep("step3", "step4", UpdatedVersions(FALSE), FALSE)
  BY DEF run_step_3_update_gauge_versions
<1>3. \A read \in BOOLEAN :
        /\ UpdatedVersions(read) \in Progress /\ SameGauges(UpdatedVersions(read))
        /\ \A m \in Recorded : UpdatedVersions(read)[m].success = progress[m].success
  BY UpdatedType DEF IInv
<1>4. progress \in Progress /\ SameGauges(progress)
  BY DEF IInv, TypeOK, SameGauges
<1>5. TypeOK' /\ MemoryOK' /\ CoverageOK'
  BY <1>1, <1>2, <1>3, <1>4, TestStepKeeps
<1>6. TestOK'
  <2>1. /\ pc = "step3" /\ pc' = "step4" /\ lastTest' = "none" /\ out' = out
        /\ testOk' => testOk /\ progress' = UpdatedVersions(TRUE)
    BY <1>2 DEF TestStep
  <2>2. ASSUME testOk'
        PROVE  Bundled'
    <3>1. Bundled
      BY <2>1, <2>2 DEF IInv, TestOK
    <3> QED
      BY <1>3, <2>1, <2>2, <3>1, BundledKept DEF Bundled
  <2> QED
    BY <2>1, <2>2 DEF TestOK
<1> QED
  BY <1>5, <1>6 DEF IInv

\* Step 4 finds the expected version in all records.
LEMMA Step4Keeps ==
  ASSUME IInv, run_step_4_validate_gauge_version
  PROVE  IInv'
<1> DEFINE bad == {m \in Recorded : \E e \in progress[m].entries : e.version # ExpectedVersion}
           good == {m \in Recorded \ bad : progress[m].entries # {}}
           p == DemoteAndPromote(bad, good)
<1>1. TestStep("step4", "step5", p, bad = {}) /\ commands' = commands
  BY DEF run_step_4_validate_gauge_version, NoFault
<1>2. /\ p \in Progress /\ SameGauges(p)
      /\ \A m \in Recorded :
           /\ p[m].entries = progress[m].entries
           /\ m \notin bad => (p[m].success <=> m \in good \/ progress[m].success)
  <2>1. bad \in SUBSET Recorded /\ good \in SUBSET Recorded
    OBVIOUS
  <2> HIDE DEF bad, good
  <2> QED
    BY <2>1, Marked DEF IInv, TypeOK
<1>3. TypeOK' /\ MemoryOK' /\ CoverageOK'
  <2> HIDE DEF bad, p
  <2> QED
    BY <1>1, <1>2, TestStepKeeps
<1>4. TestOK'
  <2>1. /\ pc = "step4" /\ pc' = "step5" /\ lastTest' = "none" /\ progress' = p /\ out' = out
        /\ testOk' => testOk /\ bad = {}
    BY <1>1 DEF TestStep
  <2>2. bad = {} => \A m \in Recorded : \A e \in progress[m].entries : e.version = ExpectedVersion
    OBVIOUS
  <2> HIDE DEF bad, good, p
  <2>3. ASSUME testOk'
        PROVE  Bundled' /\ Versioned'
    <3>1. Bundled
      BY <2>1, <2>3 DEF IInv, TestOK
    <3>2. \A m \in Recorded : p[m].success
      BY <1>2, <2>1, <2>3, <3>1 DEF Bundled
    <3>3. Bundled'
      BY <1>2, <2>1, <3>1, <3>2, BundledKept DEF Bundled
    <3>4. \A m \in Markets : progress'[m] # NoRecord => m \in Recorded
      BY <1>2, <2>1 DEF SameGauges, Recorded
    <3> QED
      BY <1>2, <2>1, <2>2, <2>3, <3>3, <3>4 DEF Versioned, Recorded
  <2> QED
    BY <2>1, <2>3 DEF TestOK
<1> QED
  BY <1>3, <1>4 DEF IInv

\* Step 5 finds all gauges on chain, for the share tokens of their records.
LEMMA Step5Keeps ==
  ASSUME IInv, run_step_5_validate_gauge_share_token
  PROVE  IInv'
<1> DEFINE full == {m \in Recorded : progress[m].entries # {}}
           bad == {m \in Recorded : \E e \in progress[m].entries : ~ShareTokenOK(m, e)}
           p == DemoteAndPromote(bad, full \ bad)
<1>1. commands' = commands
  BY DEF run_step_5_validate_gauge_share_token, NoFault, Fault
<1>2. \/ TestStep("step5", "idle", p, bad = {})
      \/ \E unread \in SUBSET Recorded : TestStep("step5", "idle", Demote(unread), FALSE)
  BY DEF run_step_5_validate_gauge_share_token
<1>3. /\ p \in Progress /\ SameGauges(p)
      /\ \A m \in Recorded :
           /\ p[m].entries = progress[m].entries
           /\ m \notin bad => (p[m].success <=> m \in full \ bad \/ progress[m].success)
  <2>1. bad \in SUBSET Recorded /\ full \ bad \in SUBSET Recorded
    OBVIOUS
  <2> HIDE DEF bad, full
  <2> QED
    BY <2>1, Marked DEF IInv, TypeOK
<1>4. \A unread \in SUBSET Recorded : Demote(unread) \in Progress /\ SameGauges(Demote(unread))
  BY Marked DEF IInv, TypeOK
<1>5. TypeOK' /\ MemoryOK' /\ CoverageOK'
  <2> HIDE DEF bad, p
  <2> QED
    BY <1>1, <1>2, <1>3, <1>4, TestStepKeeps
<1>6. TestOK'
  <2>1. /\ pc = "step5" /\ pc' = "idle" /\ out' = out /\ created' = created
        /\ lastTest' = "pass" => testOk /\ bad = {} /\ progress' = p
    BY <1>2 DEF TestStep, chain
  <2>2. bad = {} => \A m \in Recorded : \A e \in progress[m].entries : ShareTokenOK(m, e)
    OBVIOUS
  <2> HIDE DEF bad, full, p
  <2>3. ASSUME lastTest' = "pass"
        PROVE  Bundled' /\ Versioned' /\ \A m \in Recorded' : Real(m, progress[m])'
    <3>1. Bundled /\ Versioned
      BY <2>1, <2>3 DEF IInv, TestOK
    <3>2. \A m \in Recorded : p[m].success
      BY <1>3, <2>1, <2>3, <3>1 DEF Bundled
    <3>3. Bundled'
      BY <1>3, <2>1, <2>3, <3>1, <3>2, BundledKept DEF Bundled
    <3>4. \A m \in Markets : progress'[m] # NoRecord => m \in Recorded
      BY <1>3, <2>1, <2>3 DEF SameGauges, Recorded
    <3>5. Versioned'
      BY <1>3, <2>1, <2>3, <3>1, <3>4 DEF Versioned, Recorded
    <3>6. \A m \in Recorded' : m \in Recorded /\ progress'[m].entries = progress[m].entries
      BY <1>3, <2>1, <2>3, <3>4 DEF Recorded
    <3>7. ASSUME NEW m \in Recorded', NEW e \in progress'[m].entries
          PROVE  Exists(e.gauge)' /\ created'[e.gauge] = e.token /\ e.token.market = m
      <4>1. ShareTokenOK(m, e)
        BY <2>1, <2>2, <2>3, <3>6, <3>7
      <4> QED
        BY <2>1, <4>1 DEF ShareTokenOK, ShareToken, Exists
    <3> QED
      BY <3>3, <3>5, <3>7 DEF Real
  <2> QED
    BY <2>1, <2>3 DEF TestOK
<1> QED
  BY <1>5, <1>6 DEF IInv

-----------------------------------------------------------------------------
(* The other commands *)

\* The invariant is kept by new bundles, all of them or some, which end a passed test,
LEMMA BuildKeeps ==
  ASSUME IInv, BuildBundles \/ \E last \in DOMAIN out : InterruptedBuild(last)
  PROVE  IInv'
<1>1. /\ pc = "idle" /\ lastTest' = "none"
      /\ UNCHANGED <<created, registry, progress, pc, mem, next, forged, testOk, commands>>
  BY DEF BuildBundles, InterruptedBuild, Fault, chain, deployVars
<1>2. TypeOK'
  BY <1>1 DEF IInv, TypeOK
<1>3. MemoryOK' /\ TestOK'
  BY <1>1 DEF MemoryOK, TestOK
<1>4. CoverageOK'
  BY <1>1 DEF IInv, CoverageOK, Recorded, Covered, Unreal, Exists
<1> QED
  BY <1>2, <1>3, <1>4 DEF IInv

\* A synchronised record holds registered gauges for the tokens read from the chain.
LEMMA SyncedType ==
  ASSUME TypeOK, NEW m \in Markets
  PROVE  /\ Synced(m) \in Record \cup {NoRecord}
         /\ progress[m] # NoRecord => Synced(m) \in Record
<1> DEFINE rec == progress[m]
           sic == load_sic_by_chain_and_id(m)
           version(k) == IF HasKind(rec, k) THEN LastOfKind(rec, k).version ELSE ""
           synced == {Entry(sic[k], ShareToken(sic[k]), version(k)) : k \in Kinds}
<1>1. \/ Synced(m) = rec
      \/ /\ Failed(rec) /\ \A k \in Kinds : Exists(sic[k])
         /\ Synced(m) = [rec EXCEPT !.entries = synced]
  BY DEF Synced
<1>2. rec \in Record \cup {NoRecord}
  BY DEF TypeOK, Progress
<1>3. ASSUME Failed(rec), \A k \in Kinds : Exists(sic[k])
      PROVE  [rec EXCEPT !.entries = synced] \in Record
  <2>1. rec \in Record
    BY <1>2, <1>3 DEF Failed
  <2>2. ASSUME NEW k \in Kinds
        PROVE  version(k) \in {"", "legacy", ExpectedVersion}
    <3> DEFINE es == {e \in rec.entries : e.token.kind = k}
    <3>1. CASE HasKind(rec, k)
      <4>1. es # {} /\ \A e \in es : e \in Entries
        BY <2>1, <3>1 DEF HasKind, Record
      <4>2. \A e \in es : e.token.silo \in {0, 1}
        BY <4>1 DEF Entries, Token
      <4>3. \E e \in es : \A f \in es : f.token.silo <= e.token.silo
        <5> HIDE DEF es
        <5>1. CASE \E e \in es : e.token.silo = 1
          BY <4>2, <5>1
        <5>2. CASE ~ \E e \in es : e.token.silo = 1
          BY <4>1, <4>2, <5>2
        <5> QED
          BY <5>1, <5>2
      <4>4. LastOfKind(rec, k) \in es
        BY <4>3 DEF LastOfKind
      <4> QED
        BY <3>1, <4>1, <4>4 DEF Entries
    <3>2. CASE ~HasKind(rec, k)
      BY <3>2
    <3> QED
      BY <3>1, <3>2
  <2>3. ASSUME NEW k \in Kinds
        PROVE  sic[k] \in Nat /\ ShareToken(sic[k]) \in Token
    <3>1. [market |-> m, silo |-> LastSilo[m], kind |-> k] \in Token
      BY ConstantsOK DEF Token
    <3>2. sic[k] = registry[[market |-> m, silo |-> LastSilo[m], kind |-> k]]
      BY DEF load_sic_by_chain_and_id
    <3>3. sic[k] \in DOMAIN created
      BY <1>3 DEF Exists
    <3> HIDE DEF sic
    <3> QED
      BY <3>1, <3>2, <3>3 DEF TypeOK, ShareToken
  <2> HIDE DEF version, sic
  <2>4. \A k \in Kinds : Entry(sic[k], ShareToken(sic[k]), version(k)) \in Entries
    BY <2>2, <2>3 DEF Entry, Entries
  <2>5. synced \in SUBSET Entries
    BY <2>4
  <2> HIDE DEF synced, rec
  <2>6. rec.success \in BOOLEAN
    BY <2>1 DEF Record
  <2>7. [success |-> rec.success, entries |-> synced] \in Record
    BY <2>5, <2>6 DEF Record
  <2> QED
    BY <2>1, <2>7, RecordWith
<1> QED
  BY <1>1, <1>2, <1>3

\* ... and by synchronised entries, which make CoverageOK void.
LEMMA SyncKeeps ==
  ASSUME IInv, Sync
  PROVE  IInv'
<1>1. /\ pc = "idle" /\ "sync" \in commands /\ lastTest' = "none"
      /\ progress' = [m \in Markets |-> Synced(m)]
      /\ UNCHANGED <<created, registry, pc, mem, next, forged, testOk, commands>>
  BY DEF Sync, chain, deployVars
<1>2. TypeOK'
  <2>1. progress' \in Progress
    BY <1>1, SyncedType DEF IInv, Progress
  <2> QED
    BY <1>1, <2>1 DEF IInv, TypeOK
<1>3. MemoryOK' /\ TestOK' /\ CoverageOK'
  BY <1>1 DEF MemoryOK, TestOK, CoverageOK
<1> QED
  BY <1>2, <1>3 DEF IInv

\* Only what the gauge bundles configure changes in the hook receivers.
LEMMA UnchangedKeeps ==
  ASSUME IInv, UNCHANGED <<created, registry, progress, out, pc, mem, next, forged,
                           testOk, lastTest, commands>>
  PROVE  IInv'
<1>1. TypeOK'
  BY DEF IInv, TypeOK
<1>2. MemoryOK'
  BY DEF IInv, MemoryOK, Current
<1>3. TestOK'
  BY DEF IInv, TestOK, Bundled, Versioned, Recorded, GaugesOf, FoundGauges, Real, Exists
<1>4. CoverageOK'
  BY DEF IInv, CoverageOK, Recorded, Covered, Unreal, Exists, Current
<1> QED
  BY <1>1, <1>2, <1>3, <1>4 DEF IInv

\* An interruption loses the memory of 4_deploy, and nothing that a test said.
LEMMA CrashKeeps ==
  ASSUME IInv, Crash
  PROVE  IInv'
<1>1. /\ pc # "idle" /\ pc' = "idle" /\ next' = 1 /\ mem' = [m \in Markets |-> NoRecord]
      /\ "crash" \in commands /\ UNCHANGED <<created, registry, progress, testOk, lastTest, commands>>
  BY DEF Crash, Ends, Fault, chain
<1>2. TypeOK'
  <2>1. mem' \in Progress
    BY <1>1 DEF Progress
  <2> QED
    BY <1>1, <2>1 DEF IInv, TypeOK
<1>3. MemoryOK' /\ TestOK' /\ CoverageOK'
  BY <1>1 DEF IInv, MemoryOK, TestOK, CoverageOK
<1> QED
  BY <1>2, <1>3 DEF IInv

-----------------------------------------------------------------------------
(* The theorems *)

\* It holds when nothing has been deployed,
LEMMA InitOK == Init => IInv
<1> SUFFICES ASSUME Init PROVE IInv
  OBVIOUS
<1>1. TypeOK
  BY DEF Init, TypeOK, Progress, NoGauge
<1>2. MemoryOK /\ TestOK
  BY DEF Init, MemoryOK, TestOK
<1>3. CoverageOK
  BY DEF Init, CoverageOK, Recorded
<1> QED
  BY <1>1, <1>2, <1>3 DEF IInv

\* ... and every step keeps it.
LEMMA NextKeeps == IInv /\ [Next]_vars => IInv'
<1> SUFFICES ASSUME IInv, [Next]_vars PROVE IInv'
  OBVIOUS
<1>1. ASSUME NEW b \in BOOLEAN, NEW rpc \in BOOLEAN, StartDeploy(b, rpc) PROVE IInv'
  BY <1>1, StartKeeps
<1>2. CASE Deploying
  BY <1>2, SkipKeeps, RevertKeeps, RecordKeeps, FinishKeeps, SendsKeeps DEF Deploying
<1>3. CASE BuildBundles \/ \E last \in DOMAIN out : InterruptedBuild(last)
  BY <1>3, BuildKeeps
<1>4. CASE run_step_1
  BY <1>4, Step1Keeps
<1>5. CASE Testing
  BY <1>5, Step2Keeps, Step3Keeps, Step4Keeps, Step5Keeps DEF Testing
<1>6. CASE Sync
  BY <1>6, SyncKeeps
<1>7. ASSUME NEW i \in DOMAIN out, ExecuteBundle(i) PROVE IInv'
  <2>1. UNCHANGED <<created, registry, progress, out, pc, mem, next, forged,
                    testOk, lastTest, commands>>
    BY <1>7 DEF ExecuteBundle, deployVars
  <2> QED
    BY <2>1, UnchangedKeeps
<1>8. CASE Crash
  BY <1>8, CrashKeeps
<1>9. CASE UNCHANGED vars
  <2>1. UNCHANGED <<created, registry, progress, out, pc, mem, next, forged,
                    testOk, lastTest, commands>>
    BY <1>9 DEF vars, chain, deployVars
  <2> QED
    BY <2>1, UnchangedKeeps
<1> QED
  BY <1>1, <1>2, <1>3, <1>4, <1>5, <1>6, <1>7, <1>8, <1>9 DEF Next

\* The invariant holds of every rollout.
LEMMA Invariance == Spec => []IInv
<1> QED
  BY InitOK, NextKeeps, PTL DEF Spec

\* What the steps of a passed test have established of each record.
LEMMA TestedRecord ==
  ASSUME IInv, lastTest = "pass", NEW m \in Recorded
  PROVE  /\ Succeeded(progress[m]) /\ Real(m, progress[m]) /\ progress[m].entries # {}
         /\ \A e \in progress[m].entries :
                e.version = ExpectedVersion /\ e.gauge \in FoundGauges
         /\ commands \cap {"sync", "crash"} = {} => Complete(m, progress[m])
<1>1. Bundled /\ Versioned /\ Real(m, progress[m]) /\ pc = "idle"
  BY DEF IInv, TestOK
<1>2. Succeeded(progress[m]) /\ progress[m].entries # {}
  BY <1>1 DEF Bundled, Succeeded, Recorded
<1>3. \A e \in progress[m].entries : e.version = ExpectedVersion /\ e.gauge \in FoundGauges
  BY <1>1 DEF Bundled, Versioned, GaugesOf
<1>4. ASSUME commands \cap {"sync", "crash"} = {}
      PROVE  Complete(m, progress[m])
  <2>1. Covered(m, progress[m].entries)
    BY <1>1, <1>4 DEF IInv, CoverageOK
  <2>2. ~Unreal(m, progress[m].entries)
    BY <1>1 DEF Bundled, Real, Unreal
  <2> QED
    BY <2>1, <2>2 DEF Covered, Complete
<1> QED
  BY <1>1, <1>2, <1>3, <1>4

-----------------------------------------------------------------------------
(* Whole silos.  A forge run prints both gauges of a silo; what the registry *)
(* names for a share token is, once it exists, its gauge or another market's. *)

RegistryOK ==
    \A t \in Token :
        /\ registry[t] # NoGauge => t \in Range(TokensOf(t.market))
        /\ Exists(registry[t]) /\ created[registry[t]].market = t.market =>
               created[registry[t]] = t

\* Only a record with a gauge of another market may lack one of the two of a silo.
WholeOrForeign(m, rec) ==
    WholeSilos(rec) \/ \E e \in rec.entries : Exists(e.gauge) /\ created[e.gauge].market # m

SilosOK ==
    /\ RegistryOK
    /\ \A m \in Recorded : WholeOrForeign(m, progress[m])
    /\ pc = "forged" => WholeSilos(forged)

\* The first lines of a market are those of none, one or two whole silos.
LEMMA LinesWhole ==
  ASSUME NEW m \in Markets, NEW n \in {0, 2, 4}, n <= Len(TokensOf(m)),
         NEW rec, rec.entries = extract_set_gauge_data(m, n)
  PROVE  WholeSilos(rec)
<1> DEFINE token(s, k) == [market |-> m, silo |-> s, kind |-> k]
           tokens == {e.token : e \in rec.entries}
           first == {token(0, "collateral"), token(0, "protected")}
           all == first \cup {token(1, "collateral"), token(1, "protected")}
<1>1. tokens = {TokensOf(m)[i] : i \in 1 .. n}
  <2> DEFINE entry(i) == Entry(Predicted(i), TokensOf(m)[i], "")
  <2>1. \A i \in 1 .. n : entry(i).token = TokensOf(m)[i]
    BY DEF Entry
  <2>2. rec.entries = {entry(i) : i \in 1 .. n}
    BY DEF extract_set_gauge_data
  <2> HIDE DEF entry
  <2> QED
    BY <2>1, <2>2
<1>2. tokens \in {{}, first, all}
  <2>1. CASE n = 0
    <3>1. 1 .. n = {}
      BY <2>1
    <3> HIDE DEF tokens, first, all
    <3> QED
      BY <1>1, <3>1
  <2>2. CASE n = 2
    <3>1. TokensOf(m)[1] = token(0, "collateral") /\ TokensOf(m)[2] = token(0, "protected")
      BY TokensListed
    <3>2. 1 .. n = {1, 2}
      BY <2>2
    <3> HIDE DEF tokens, token
    <3> QED
      BY <1>1, <3>1, <3>2
  <2>3. CASE n = 4
    <3>1. m \in TwoSilo
      BY <2>3, TokensOfType DEF Silos
    <3>2. /\ TokensOf(m)[1] = token(0, "collateral") /\ TokensOf(m)[2] = token(0, "protected")
          /\ TokensOf(m)[3] = token(1, "collateral") /\ TokensOf(m)[4] = token(1, "protected")
      BY <3>1, TokensListed
    <3>3. 1 .. n = {1, 2, 3, 4}
      BY <2>3
    <3> HIDE DEF tokens, token
    <3> QED
      BY <1>1, <3>2, <3>3
  <2> QED
    BY <2>1, <2>2, <2>3
<1>3. \A s \in {0, 1}, j, k \in Kinds : [token(s, j) EXCEPT !.kind = k] = token(s, k)
  OBVIOUS
<1>4. ASSUME NEW t \in tokens, NEW k \in Kinds
      PROVE  [t EXCEPT !.kind = k] \in tokens
  <2> HIDE DEF tokens, token
  <2>1. CASE tokens = first
    <3>1. \E j \in Kinds : t = token(0, j)
      BY <1>4, <2>1 DEF Kinds
    <3>2. token(0, k) \in tokens
      BY <2>1 DEF Kinds
    <3> QED
      BY <1>3, <3>1, <3>2
  <2>2. CASE tokens = all
    <3>1. \E s \in {0, 1}, j \in Kinds : t = token(s, j)
      BY <1>4, <2>2 DEF Kinds
    <3>2. \A s \in {0, 1} : token(s, k) \in tokens
      BY <2>2 DEF Kinds
    <3> QED
      BY <1>3, <3>1, <3>2
  <2> QED
    BY <1>2, <1>4, <2>1, <2>2
<1> QED
  BY <1>4 DEF WholeSilos

\* New gauges do not make a foreign gauge the market's own.
LEMMA ForeignStays ==
  ASSUME NEW m, NEW rec, WholeOrForeign(m, rec), DOMAIN created \subseteq DOMAIN created',
         \A g \in DOMAIN created : created'[g] = created[g]
  PROVE  WholeSilos(rec) \/ \E e \in rec.entries : Exists(e.gauge)' /\ created'[e.gauge].market # m
BY DEF WholeOrForeign, Exists

\* A forge run registers, for each share token, the gauge it creates for it, if any.
LEMMA SendsRegister ==
  ASSUME IInv, RegistryOK, NEW n \in 0 .. 4, NEW rc \in {0, 1}, ForgeSends(n, rc)
  PROVE  RegistryOK'
<1> DEFINE all == TokensOf(Current)
           place(t) == CHOOSE i \in DOMAIN all : all[i] = t
<1>1. /\ Current \in Markets /\ created \in Seq(Token) /\ created' \in Seq(Token)
      /\ DOMAIN created \subseteq DOMAIN created'
      /\ \A g \in DOMAIN created : created'[g] = created[g]
      /\ \A g \in DOMAIN created' \ DOMAIN created : created'[g].market = Current
  BY SendsCreate DEF IInv, TypeOK
<1>2. all \in Seq(Token) /\ \A i \in DOMAIN all : all[i].market = Current
  BY <1>1, TokensOfType
<1>3. /\ n \in 0 .. Len(all) /\ created' = created \o SubSeq(all, 1, n)
      /\ registry' = [t \in Token |-> IF t \in Range(all) THEN Predicted(place(t)) ELSE registry[t]]
  BY <1>2 DEF ForgeSends, build_forge_command
<1>4. /\ Len(created') = Len(created) + n
      /\ \A i \in 1 .. n : created'[Len(created) + i] = all[i]
  <2> DEFINE new == SubSeq(all, 1, n)
  <2>1. new \in Seq(Token) /\ Len(new) = n /\ \A i \in 1 .. n : new[i] = all[i]
    BY <1>2, <1>3
  <2> HIDE DEF new
  <2>2. created' = created \o new
    BY <1>3 DEF new
  <2>3. /\ Len(created') = Len(created) + Len(new)
        /\ \A g \in 1 .. Len(created) + Len(new) :
             created'[g] = IF g <= Len(created) THEN created[g] ELSE new[g - Len(created)]
    BY <1>1, <2>1, <2>2, Joined
  <2>4. ASSUME NEW i \in 1 .. n
        PROVE  created'[Len(created) + i] = all[i]
    <3>1. /\ Len(created) \in Nat /\ Len(created) + i \in 1 .. Len(created) + Len(new)
          /\ ~(Len(created) + i <= Len(created)) /\ (Len(created) + i) - Len(created) = i
      BY <1>1, <2>1
    <3>2. created'[Len(created) + i] = new[i]
      BY <2>3, <3>1
    <3> QED
      BY <2>1, <3>2
  <2> QED
    BY <2>1, <2>3, <2>4
<1> SUFFICES ASSUME NEW t \in Token
             PROVE  /\ registry'[t] # NoGauge => t \in Range(TokensOf(t.market))
                    /\ Exists(registry[t])' /\ created'[registry'[t]].market = t.market =>
                           created'[registry'[t]] = t
  BY DEF RegistryOK
<1>5. CASE t \in Range(all)
  <2>1. place(t) \in DOMAIN all /\ all[place(t)] = t
    BY <1>5 DEF Range
  <2> HIDE DEF place
  <2>2. place(t) \in 1 .. Len(all) /\ t.market = Current
    BY <1>2, <2>1
  <2>3. registry'[t] = Len(created) + place(t)
    BY <1>3, <1>5 DEF Predicted
  <2>4. registry'[t] \in DOMAIN created' => place(t) \in 1 .. n
    BY <1>1, <1>3, <1>4, <2>2, <2>3
  <2> HIDE DEF all
  <2> QED
    BY <1>4, <1>5, <2>1, <2>2, <2>3, <2>4 DEF Exists, all
<1>6. CASE t \notin Range(all)
  <2> HIDE DEF all, place
  <2>1. registry'[t] = registry[t]
    BY <1>3, <1>6
  <2>2. registry[t] # NoGauge => t \in Range(TokensOf(t.market))
    BY DEF RegistryOK
  <2>3. ASSUME registry[t] \in DOMAIN created', created'[registry[t]].market = t.market
        PROVE  created'[registry[t]] = t
    <3>1. registry[t] # NoGauge
      BY <1>1, <2>3 DEF NoGauge
    <3>2. t.market # Current
      BY <1>6, <2>2, <3>1 DEF all
    <3>3. registry[t] \in DOMAIN created
      BY <1>1, <2>3, <3>2
    <3> QED
      BY <1>1, <2>3, <3>3 DEF RegistryOK, Exists
  <2> QED
    BY <2>1, <2>2, <2>3 DEF Exists
<1> QED
  BY <1>5, <1>6

\* A synchronised record has the registered gauges of one silo.
LEMMA SyncedWhole ==
  ASSUME IInv, SilosOK, NEW m \in Markets, Synced(m) # NoRecord
  PROVE  WholeOrForeign(m, Synced(m))
<1> DEFINE rec == progress[m]
           sic == load_sic_by_chain_and_id(m)
           version(k) == IF HasKind(rec, k) THEN LastOfKind(rec, k).version ELSE ""
           synced == {Entry(sic[k], ShareToken(sic[k]), version(k)) : k \in Kinds}
           token(k) == [market |-> m, silo |-> LastSilo[m], kind |-> k]
<1>1. \/ Synced(m) = rec
      \/ /\ Failed(rec) /\ \A k \in Kinds : Exists(sic[k])
         /\ Synced(m) = [rec EXCEPT !.entries = synced]
  BY DEF Synced
<1>2. CASE Synced(m) = rec
  BY <1>2 DEF SilosOK, Recorded
<1>3. CASE /\ Failed(rec) /\ \A k \in Kinds : Exists(sic[k])
           /\ Synced(m) = [rec EXCEPT !.entries = synced]
  <2>1. Synced(m).entries = synced
    <3>1. rec \in Record
      BY <1>3 DEF IInv, TypeOK, Progress, Failed
    <3> HIDE DEF synced, rec
    <3> QED
      BY <1>3, <3>1, RecordWith
  <2>2. \A k \in Kinds : token(k) \in Token /\ sic[k] = registry[token(k)]
    BY ConstantsOK DEF Token, load_sic_by_chain_and_id
  <2> HIDE DEF version, sic, rec
  <2>3. \A k \in Kinds : /\ Entry(sic[k], ShareToken(sic[k]), version(k)).gauge = sic[k]
                         /\ Entry(sic[k], ShareToken(sic[k]), version(k)).token = created[sic[k]]
    BY DEF Entry, ShareToken
  <2>4. ASSUME \A k \in Kinds : created[sic[k]].market = m
        PROVE  WholeSilos(Synced(m))
    <3>1. \A k \in Kinds : created[sic[k]] = token(k)
      BY <1>3, <2>2, <2>4 DEF SilosOK, RegistryOK
    <3>2. {e.token : e \in Synced(m).entries} = {token(k) : k \in Kinds}
      <4> DEFINE entry(k) == Entry(sic[k], ShareToken(sic[k]), version(k))
      <4>1. Synced(m).entries = {entry(k) : k \in Kinds}
        BY <2>1
      <4>2. \A k \in Kinds : entry(k).token = token(k)
        BY <2>3, <3>1
      <4> HIDE DEF entry, token, synced
      <4> QED
        BY <4>1, <4>2
    <3>3. \A j, k \in Kinds : [token(j) EXCEPT !.kind = k] = token(k)
      OBVIOUS
    <3> HIDE DEF token, synced
    <3> QED
      BY <3>2, <3>3 DEF WholeSilos
  <2>5. ASSUME NEW k \in Kinds, created[sic[k]].market # m
        PROVE  \E e \in Synced(m).entries : Exists(e.gauge) /\ created[e.gauge].market # m
    <3>1. Entry(sic[k], ShareToken(sic[k]), version(k)) \in Synced(m).entries
      BY <2>1
    <3> QED
      BY <1>3, <2>3, <2>5, <3>1
  <2> QED
    BY <2>4, <2>5 DEF WholeOrForeign
<1> QED
  BY <1>1, <1>2, <1>3

\* Records with the same gauges for the same tokens are whole, or hold a foreign gauge.
LEMMA SameWhole ==
  ASSUME SilosOK, SameGauges(progress'), created' = created, registry' = registry,
         pc' # "forged"
  PROVE  SilosOK'
<1>1. RegistryOK'
  BY DEF SilosOK, RegistryOK, Exists
<1>2. ASSUME NEW m \in Markets, progress'[m] # NoRecord
      PROVE  WholeOrForeign(m, progress[m])'
  <2>1. m \in Recorded /\ WholeOrForeign(m, progress[m])
    BY <1>2 DEF SilosOK, SameGauges, Recorded
  <2>2. {e.token : e \in progress'[m].entries} = {e.token : e \in progress[m].entries}
    BY <2>1 DEF SameGauges
  <2>3. \A f \in progress[m].entries : \E e \in progress'[m].entries : e.gauge = f.gauge
    BY <2>1 DEF SameGauges
  <2> QED
    BY <2>1, <2>2, <2>3 DEF WholeOrForeign, WholeSilos, Exists
<1> QED
  BY <1>1, <1>2 DEF SilosOK, Recorded

\* Whole silos are kept by a forge run of the current market,
LEMMA ForgedWhole ==
  ASSUME IInv, SilosOK, InLoop, NEW rc, NEW n \in {0, 2, 4}, n <= Len(TokensOf(Current)),
         Forged(rc, n), RegistryOK', DOMAIN created \subseteq DOMAIN created',
         \A g \in DOMAIN created : created'[g] = created[g]
  PROVE  SilosOK'
<1>1. Current \in Markets
  BY CurrentType DEF IInv, InLoop
<1>2. /\ progress' = progress
      /\ forged'.entries = extract_set_gauge_data(Current, n)
  BY DEF Forged, run_with_live_output
<1>3. WholeSilos(forged)'
  <2> DEFINE f == forged'
  <2>1. WholeSilos(f)
    BY <1>1, <1>2, LinesWhole
  <2> QED
    BY <2>1 DEF WholeSilos
<1>4. ASSUME NEW m \in Recorded
      PROVE  WholeOrForeign(m, progress[m])'
  <2>1. WholeOrForeign(m, progress[m])
    BY DEF SilosOK
  <2> QED
    BY <1>2, <2>1, ForeignStays DEF WholeOrForeign, WholeSilos
<1> QED
  BY <1>2, <1>3, <1>4 DEF SilosOK, Recorded

\* ... by its record, and by every other step.
LEMMA SilosKept == IInv /\ SilosOK /\ [Next]_vars => SilosOK'
<1> SUFFICES ASSUME IInv, SilosOK, [Next]_vars PROVE SilosOK'
  OBVIOUS
<1>1. ASSUME UNCHANGED <<created, registry, progress>>,
             pc' # "forged" \/ UNCHANGED <<pc, forged>>
      PROVE  SilosOK'
  BY <1>1 DEF SilosOK, RegistryOK, WholeOrForeign, WholeSilos, Recorded, Exists
<1>2. CASE ForgeReverts
  <2>1. InLoop /\ UNCHANGED <<created, registry>>
    BY <1>2 DEF ForgeReverts, NeedsForge
  <2>2. Current \in Markets
    BY <2>1, CurrentType DEF IInv, InLoop
  <2>3. \E n \in {0, 2, 4} : n <= Len(TokensOf(Current)) /\ Forged(1, n)
    BY <1>2, <2>2, RevertedLines
  <2>4. RegistryOK'
    BY <2>1 DEF SilosOK, RegistryOK, Exists
  <2> QED
    BY <2>1, <2>3, <2>4, ForgedWhole
<1>3. ASSUME NEW n \in 0 .. 4, NEW rc \in {0, 1}, ForgeSends(n, rc)
      PROVE  SilosOK'
  <2>1. InLoop /\ Forged(rc, Len(TokensOf(Current)))
    BY <1>3 DEF ForgeSends, NeedsForge
  <2>2. /\ Current \in Markets /\ DOMAIN created \subseteq DOMAIN created'
        /\ \A g \in DOMAIN created : created'[g] = created[g]
    BY <1>3, SendsCreate DEF IInv
  <2>3. RegistryOK'
    BY <1>3, SendsRegister DEF SilosOK
  <2>4. Len(TokensOf(Current)) \in {0, 2, 4} /\ Len(TokensOf(Current)) <= Len(TokensOf(Current))
    <3>1. /\ Len(TokensOf(Current)) = 2 * Cardinality(Silos(Current))
          /\ Cardinality(Silos(Current)) \in {1, 2}
      BY <2>2, TokensOfType
    <3> QED
      BY <3>1
  <2> QED
    BY <2>1, <2>2, <2>3, <2>4, ForgedWhole
<1>4. CASE RecordRun
  <2> DEFINE rec == [success |-> forged.rc = 0 \/ forged.entries # {}, entries |-> forged.entries]
  <2>1. /\ mem = [m \in Markets |-> IF m = Current THEN NoRecord ELSE progress[m]]
        /\ WholeSilos(forged)
    BY <1>4 DEF IInv, MemoryOK, RecordRun, SilosOK
  <2>2. /\ progress' = [mem EXCEPT ![Current] = rec] /\ pc' = "deploy"
        /\ UNCHANGED <<created, registry>>
    BY <1>4 DEF RecordRun, save_progress_state, chain
  <2>3. WholeSilos(rec)
    BY <2>1 DEF WholeSilos
  <2> HIDE DEF rec
  <2>4. \A m \in Markets : progress'[m] = rec \/ progress'[m] = progress[m]
    BY <2>1, <2>2
  <2>5. RegistryOK'
    BY <2>2 DEF SilosOK, RegistryOK, Exists
  <2>6. ASSUME NEW m \in Markets, progress'[m] # NoRecord
        PROVE  WholeOrForeign(m, progress[m])'
    <3>1. CASE progress'[m] = rec
      BY <2>3, <3>1 DEF WholeOrForeign, WholeSilos
    <3>2. CASE progress'[m] = progress[m]
      <4>1. WholeOrForeign(m, progress[m])
        BY <2>6, <3>2 DEF SilosOK, Recorded
      <4> QED
        BY <2>2, <3>2, <4>1 DEF WholeOrForeign, WholeSilos, Exists
    <3> QED
      BY <2>4, <3>1, <3>2
  <2> QED
    BY <2>2, <2>5, <2>6 DEF SilosOK, Recorded
<1>5. CASE run_step_1 \/ Testing
  <2>1. UNCHANGED <<created, registry>> /\ pc' # "forged"
    BY <1>5 DEF run_step_1, Testing, run_step_2, run_step_3_update_gauge_versions,
         run_step_4_validate_gauge_version, run_step_5_validate_gauge_share_token, TestStep, chain
  <2> QED
    BY <1>5, <2>1, TestsKeepGauges, SameWhole
<1>6. CASE Sync
  <2>1. /\ progress' = [m \in Markets |-> Synced(m)] /\ pc' = "idle"
        /\ UNCHANGED <<created, registry>>
    BY <1>6 DEF Sync, chain
  <2>2. RegistryOK'
    BY <2>1 DEF SilosOK, RegistryOK, Exists
  <2>3. ASSUME NEW m \in Markets, progress'[m] # NoRecord
        PROVE  WholeOrForeign(m, progress[m])'
    <3>1. progress'[m] = Synced(m)
      BY <2>1
    <3>2. WholeOrForeign(m, Synced(m))
      BY <2>3, <3>1, SyncedWhole
    <3> QED
      BY <2>1, <3>1, <3>2 DEF WholeOrForeign, WholeSilos, Exists
  <2> QED
    BY <2>1, <2>2, <2>3 DEF SilosOK, Recorded
<1>7. ASSUME NEW b \in BOOLEAN, NEW rpc \in BOOLEAN, StartDeploy(b, rpc) PROVE SilosOK'
  BY <1>1, <1>7 DEF StartDeploy, chain
<1>8. CASE SkipMarket \/ FinishDeploy
  BY <1>1, <1>8 DEF SkipMarket, FinishDeploy, InLoop, save_progress_state, Ends, IInv,
       MemoryOK, chain
<1>9. ASSUME NEW i \in DOMAIN out, ExecuteBundle(i) \/ InterruptedBuild(i) PROVE SilosOK'
  BY <1>1, <1>9 DEF ExecuteBundle, InterruptedBuild, chain
<1>10. CASE BuildBundles \/ Crash
  BY <1>1, <1>10 DEF BuildBundles, Crash, Ends, chain
<1>11. CASE UNCHANGED vars
  BY <1>1, <1>11 DEF vars, chain, deployVars
<1> QED
  BY <1>2, <1>3, <1>4, <1>5, <1>6, <1>7, <1>8, <1>9, <1>10, <1>11 DEF Next, Deploying

\* All silos of the records are whole, in every rollout.
LEMMA SilosInvariance == Spec => []SilosOK
<1>1. Init => SilosOK
  <2> SUFFICES ASSUME Init PROVE SilosOK
    OBVIOUS
  <2>1. created = << >> /\ registry = [t \in Token |-> NoGauge] /\ Recorded = {} /\ pc = "idle"
    BY DEF Init, Recorded
  <2>2. \A t \in Token : registry[t] = NoGauge /\ ~Exists(registry[t])
    BY <2>1 DEF Exists
  <2> QED
    BY <2>1, <2>2 DEF SilosOK, RegistryOK
<1> QED
  BY <1>1, SilosKept, Invariance, PTL DEF Spec

\* What the test has established of the records, with whole silos, is what it is run for.
LEMMA TestedIsReal == IInv /\ SilosOK => TestedMeansReal
<1> SUFFICES ASSUME IInv, SilosOK, lastTest = "pass", NEW m \in Recorded
             PROVE  /\ Succeeded(progress[m]) /\ Real(m, progress[m])
                    /\ progress[m].entries # {} /\ WholeSilos(progress[m])
                    /\ \A e \in progress[m].entries :
                           e.version = ExpectedVersion /\ e.gauge \in FoundGauges
                    /\ commands \cap {"sync", "crash"} = {} => Complete(m, progress[m])
  BY DEF TestedMeansReal
<1>1. Real(m, progress[m])
  BY TestedRecord
<1>2. WholeSilos(progress[m])
  BY <1>1 DEF SilosOK, WholeOrForeign, Real
<1> QED
  BY <1>2, TestedRecord

\* A passing test (6_test exits 0) means real gauges with the expected version that are
\* in a bundle, for whole silos also after a synchronisation, and for every share token
\* unless a script was interrupted or entries were synchronised.
THEOREM TestedMeansRealAlways == Spec => []TestedMeansReal
BY TestedIsReal, Invariance, SilosInvariance, PTL

\* When 8_qa passes after the test, every market of the list has a gauge of its own on
\* chain that is in a bundle, however often scripts were interrupted; and unless they
\* were, or entries were synchronised, it has one for each of its share tokens.
THEOREM NoMarketForgotten ==
  Spec => [](QAPasses /\ lastTest = "pass" =>
               \A m \in Markets :
                 LET OnChain(e) == Exists(e.gauge) /\ e.gauge \in FoundGauges IN
                 /\ m \in Recorded
                 /\ \E e \in progress[m].entries : OnChain(e) /\ created[e.gauge].market = m
                 /\ commands \cap {"sync", "crash"} = {} =>
                      \A t \in Range(TokensOf(m)) :
                        \E e \in progress[m].entries : OnChain(e) /\ created[e.gauge] = t)
<1> DEFINE OnChain(e) == Exists(e.gauge) /\ e.gauge \in FoundGauges
           RolledOut(m) ==
             /\ m \in Recorded
             /\ \E e \in progress[m].entries : OnChain(e) /\ created[e.gauge].market = m
             /\ commands \cap {"sync", "crash"} = {} =>
                  \A t \in Range(TokensOf(m)) :
                    \E e \in progress[m].entries : OnChain(e) /\ created[e.gauge] = t
<1>1. IInv /\ QAPasses /\ lastTest = "pass" => \A m \in Markets : RolledOut(m)
  <2> SUFFICES ASSUME IInv, QAPasses, lastTest = "pass", NEW m \in Markets
               PROVE  RolledOut(m)
    OBVIOUS
  <2>1. m \in Recorded
    BY DEF QAPasses, expected_markets_from_v3, Markets
  <2>2. progress[m].entries # {} /\ GaugesOf(progress[m]) \subseteq FoundGauges /\ Real(m, progress[m])
    BY <2>1 DEF IInv, TestOK, Bundled
  <2>3. \E e \in progress[m].entries : OnChain(e) /\ created[e.gauge].market = m
    BY <2>2 DEF GaugesOf, Real
  <2>4. commands \cap {"sync", "crash"} = {} => Complete(m, progress[m])
    BY <2>1, TestedRecord
  <2>5. ASSUME Complete(m, progress[m]), NEW t \in Range(TokensOf(m))
        PROVE  \E e \in progress[m].entries : OnChain(e) /\ created[e.gauge] = t
    BY <2>2, <2>5 DEF Complete, GaugesOf, Real
  <2> QED
    BY <2>1, <2>3, <2>4, <2>5
<1> QED
  BY <1>1, Invariance, PTL

\* No step writes a progress file in which a recorded market is missing.
LEMMA StepKeepsRecords ==
  ASSUME IInv, [Next]_vars
  PROVE  \A m \in Markets : progress[m] # NoRecord => progress'[m] # NoRecord
<1> SUFFICES ASSUME NEW m \in Markets, progress[m] # NoRecord PROVE progress'[m] # NoRecord
  OBVIOUS
<1>1. progress \in Progress /\ m \in Recorded
  BY DEF IInv, TypeOK, Recorded
<1>2. ASSUME progress' = progress PROVE progress'[m] # NoRecord
  BY <1>2
<1>3. CASE Deploying
  <2>1. CASE SkipMarket \/ ForgeReverts
    BY <1>2, <2>1 DEF SkipMarket, ForgeReverts, Forged
  <2>2. CASE RecordRun
    <3> DEFINE rec == [success |-> forged.rc = 0 \/ forged.entries # {}, entries |-> forged.entries]
    <3>1. /\ mem = [k \in Markets |-> IF k = Current THEN NoRecord ELSE progress[k]]
          /\ forged \in ForgeRun
      BY <2>2 DEF IInv, TypeOK, MemoryOK, RecordRun
    <3>2. progress' = [mem EXCEPT ![Current] = rec]
      BY <2>2 DEF RecordRun, save_progress_state
    <3>3. rec \in Record
      BY <3>1 DEF Record, ForgeRun
    <3> HIDE DEF rec
    <3> QED
      BY <3>1, <3>2, <3>3, ConstantsOK
  <2>3. CASE FinishDeploy
    BY <1>2, <2>3 DEF FinishDeploy, save_progress_state, IInv, MemoryOK
  <2>4. ASSUME NEW n \in 0 .. 4, NEW rc \in {0, 1}, ForgeSends(n, rc) PROVE progress'[m] # NoRecord
    BY <1>2, <2>4 DEF ForgeSends, Forged
  <2> QED
    BY <1>3, <2>1, <2>2, <2>3, <2>4 DEF Deploying
<1>4. CASE run_step_1 \/ Testing
  BY <1>1, <1>4, TestsKeepGauges DEF SameGauges
<1>5. CASE Sync
  <2>1. progress'[m] = Synced(m)
    BY <1>5 DEF Sync
  <2> QED
    BY <2>1, SyncedType, ConstantsOK DEF IInv
<1>6. CASE Crash \/ BuildBundles \/ UNCHANGED vars
  BY <1>2, <1>6 DEF Crash, BuildBundles, vars
<1>7. ASSUME NEW i \in DOMAIN out, ExecuteBundle(i) \/ InterruptedBuild(i)
      PROVE  progress'[m] # NoRecord
  BY <1>2, <1>7 DEF ExecuteBundle, InterruptedBuild
<1>8. ASSUME NEW b \in BOOLEAN, NEW rpc \in BOOLEAN, StartDeploy(b, rpc) PROVE progress'[m] # NoRecord
  BY <1>2, <1>8 DEF StartDeploy
<1> QED
  BY <1>3, <1>4, <1>5, <1>6, <1>7, <1>8 DEF Next

\* No recorded market is lost from the file, whenever 4_deploy is interrupted.
THEOREM RecordsKeptAlways == Spec => RecordsKept
<1>1. IInv /\ [Next]_vars =>
        [\A m \in Markets : progress[m] # NoRecord => progress'[m] # NoRecord]_vars
  BY StepKeepsRecords
<1> QED
  BY <1>1, Invariance, PTL DEF Spec, RecordsKept

\* A market whose record says success, with real gauges for all its share tokens, gets no
\* second set.
THEOREM NoSecondSetAlways == Spec => NoSecondSet
<1> DEFINE Kept(m) == Succeeded(progress[m]) /\ Real(m, progress[m]) /\ Complete(m, progress[m])
           Another(m) == \E i \in DOMAIN created' \ DOMAIN created : created'[i].market = m
<1>1. ASSUME IInv, Next, NEW m \in Markets, Kept(m), Another(m)
      PROVE  FALSE
  <2>1. created' # created
    BY <1>1
  <2>2. PICK n \in 0 .. 4, rc \in {0, 1} : ForgeSends(n, rc)
    BY <1>1, <2>1 DEF Next, Deploying, Testing, StartDeploy, SkipMarket, ForgeReverts, RecordRun,
         FinishDeploy, BuildBundles, run_step_1, run_step_2, run_step_3_update_gauge_versions,
         run_step_4_validate_gauge_version, run_step_5_validate_gauge_share_token, TestStep, Sync,
         ExecuteBundle, InterruptedBuild, Crash, chain
  <2>3. m = Current
    BY <1>1, <2>2, SendsCreate DEF IInv
  <2>4. mem = progress /\ (Failed(mem[Current]) \/ mem[Current] = NoRecord)
    BY <1>1, <2>2 DEF IInv, MemoryOK, ForgeSends, NeedsForge, InLoop
  <2> QED
    BY <1>1, <2>3, <2>4 DEF Succeeded, Failed
<1>2. IInv /\ [Next]_vars =>
        [\A m \in Markets :
           /\ Succeeded(progress[m]) /\ Real(m, progress[m]) /\ Complete(m, progress[m])
           => ~ \E i \in DOMAIN created' \ DOMAIN created : created'[i].market = m]_vars
  BY <1>1
<1> HIDE DEF Kept, Another
<1> QED
  BY <1>2, Invariance, PTL DEF Spec, NoSecondSet

-----------------------------------------------------------------------------
(* The bundles.  A forge run of a market prints lines for its first share  *)
(* tokens, with the gauges from the next one on, so the pair of a gauge    *)
(* and a share token tells how many gauges there were when the run began.  *)

Place(t) == 2 * t.silo + (IF t.kind = "collateral" THEN 1 ELSE 2)
Size(m) == Len(TokensOf(m))
Base(x) == x[1] - Place(x[2])
Lines(m, b, n) == {<<b + i, TokensOf(m)[i]>> : i \in 1 .. n}
Pairs(es) == {<<e.gauge, e.token>> : e \in es}

Held(m) == IF m \in Recorded THEN Pairs(progress[m].entries) ELSE {}
Fresh == IF pc = "forged" THEN Pairs(forged.entries) ELSE {}
Bundles == UNION Range(out)
Gauges(S) == {x[1] : x \in S}
OfMarket(m, S) == {x \in S : x[2].market = m}
Known == Bundles \cup Fresh \cup BundleEntries
AllTokens == UNION {Range(TokensOf(m)) : m \in Markets}
Genuine(x) == Exists(x[1]) /\ ShareToken(x[1]) = x[2]

\* S is what one forge run of the market printed: the lines of none, one or two silos.
Run(m, S) ==
    \E b \in 0 .. Len(created), n \in {0, 2, 4} : n <= Size(m) /\ S = Lines(m, b, n)

\* Records and unnumbered file hold one run of each market.
RunsOK ==
    /\ out \in [0 .. 4 * Len(MarketList) -> SUBSET (Nat \X AllTokens)]
    /\ \A m \in Markets : Run(m, Held(m)) /\ Run(m, OfMarket(m, out[0]))
    /\ pc = "forged" => Run(Current, Fresh)
    /\ \A x \in Bundles : Base(x) \in 0 .. Len(created)

\* No run began between the first and the last gauge of another one that exist.
Apart ==
    \A x, y \in Known : Genuine(x) => Base(y) <= Base(x) \/ x[1] <= Base(y)

\* What the bundles say is no later than the record of the market, and what is
\* not recorded yet is the latest of all.
Latest ==
    /\ \A x \in Fresh, y \in Known : Base(y) <= Base(x)
    /\ \A y \in Bundles, m \in Markets : \A x \in Held(m) :
         /\ y[2].market = m => Base(y) <= Base(x)
         /\ Base(x) < Base(y) => x \in Bundles
         /\ Base(x) < Base(y) /\ y \in out[0] => x \in out[0]

\* No numbered file beyond those that as many gauges as there are tokens fill.
Filled ==
    /\ GaugesPerFile = 0 \/ Cardinality(Gauges(out[0])) <= GaugesPerFile
    /\ \A i \in DOMAIN out \ {0} : out[i] # {} =>
         /\ GaugesPerFile > 0 /\ GaugesPerFile < Cardinality(AllTokens)
         /\ (i - 1) * GaugesPerFile < Cardinality(AllTokens)

Deployed(m, b) == Held(m) = Lines(m, b, Size(m)) /\ \A x \in Held(m) : Genuine(x)

\* z is the last line of a run that began when all other markets had their gauges.
Newest(z) ==
    /\ z \in Bundles /\ Place(z[2]) = Size(z[2].market)
    /\ \A m \in Markets \ {z[2].market} : \E b \in 0 .. Len(created) : b < Base(z) /\ Deployed(m, b)

\* With such a line the lines of the market's earlier runs are in the unnumbered
\* file at most, and a gauge they share with its run is in a line of this run too.
Shadowed ==
    \A z, y \in Bundles :
        Newest(z) /\ y[2].market = z[2].market /\ Base(y) < Base(z) =>
            /\ \A i \in DOMAIN out \ {0} : y \notin out[i]
            /\ y[1] > Base(z) =>
                 \E x \in Bundles : x[2].market = z[2].market /\ Base(x) = Base(z) /\ x[1] = y[1]

BundlesOK ==
    commands \cap {"sync", "crash"} = {} =>
        RunsOK /\ Apart /\ Latest /\ Filled /\ Shadowed

-----------------------------------------------------------------------------
(* Runs *)

\* Two or four, each at its place.
LEMMA PlacesOf ==
  ASSUME NEW m \in Markets
  PROVE  /\ Size(m) \in {2, 4} /\ DOMAIN TokensOf(m) = 1 .. Size(m)
         /\ \A i \in 1 .. Size(m) : /\ TokensOf(m)[i] \in AllTokens
                                    /\ TokensOf(m)[i].market = m
                                    /\ Place(TokensOf(m)[i]) = i
<1> DEFINE token(s, k) == [market |-> m, silo |-> s, kind |-> k]
           one == << token(0, "collateral"), token(0, "protected") >>
           two == << token(0, "collateral"), token(0, "protected"),
                     token(1, "collateral"), token(1, "protected") >>
<1>1. TokensOf(m) = two \/ TokensOf(m) = one
  BY TokensListed
<1>2. /\ Place(token(0, "collateral")) = 1 /\ Place(token(0, "protected")) = 2
      /\ Place(token(1, "collateral")) = 3 /\ Place(token(1, "protected")) = 4
  BY DEF Place
<1>3. Size(m) \in {2, 4} /\ DOMAIN TokensOf(m) = 1 .. Size(m)
  BY <1>1 DEF Size
<1>4. \A i \in 1 .. Size(m) : TokensOf(m)[i].market = m /\ Place(TokensOf(m)[i]) = i
  <2> HIDE DEF one, two
  <2>1. CASE TokensOf(m) = one
    <3>1. Len(one) = 2 /\ one[1] = token(0, "collateral") /\ one[2] = token(0, "protected")
      BY DEF one
    <3> QED
      BY <1>2, <2>1, <3>1 DEF Size
  <2>2. CASE TokensOf(m) = two
    <3>1. /\ Len(two) = 4 /\ two[1] = token(0, "collateral") /\ two[2] = token(0, "protected")
          /\ two[3] = token(1, "collateral") /\ two[4] = token(1, "protected")
      BY DEF two
    <3> QED
      BY <1>2, <2>2, <3>1 DEF Size
  <2> QED
    BY <1>1, <2>1, <2>2
<1>5. \A i \in 1 .. Size(m) : TokensOf(m)[i] \in AllTokens
  BY <1>3 DEF AllTokens, Range
<1> QED
  BY <1>3, <1>4, <1>5

\* A pair of a gauge and a share token is determined by market, beginning and place.
LEMMA PairOf ==
  ASSUME NEW x \in Nat \X AllTokens
  PROVE  /\ x[1] \in Nat /\ x[2] \in AllTokens /\ x[2].market \in Markets /\ Base(x) \in Int
         /\ Place(x[2]) \in 1 .. Size(x[2].market)
         /\ x[1] = Base(x) + Place(x[2]) /\ x[2] = TokensOf(x[2].market)[Place(x[2])]
         /\ x = <<x[1], x[2]>>
<1>1. PICK m \in Markets : x[2] \in Range(TokensOf(m))
  BY DEF AllTokens
<1>2. PICK i \in 1 .. Size(m) : x[2] = TokensOf(m)[i]
  BY <1>1, PlacesOf DEF Range
<1>3. Size(m) \in {2, 4} /\ x[2].market = m /\ Place(x[2]) = i
  BY <1>2, PlacesOf
<1> QED
  BY <1>2, <1>3 DEF Base

\* What the lines of a run are.
LEMMA LineOf ==
  ASSUME NEW m \in Markets, NEW b \in Nat, NEW n \in 0 .. Size(m)
  PROVE  /\ \A x \in Lines(m, b, n) :
              /\ x \in Nat \X AllTokens /\ x[2].market = m /\ Base(x) = b
              /\ Place(x[2]) \in 1 .. n /\ x[1] = b + Place(x[2])
         /\ \A i \in 1 .. n :
              /\ <<b + i, TokensOf(m)[i]>> \in Lines(m, b, n)
              /\ Place(TokensOf(m)[i]) = i
         /\ \A x \in Nat \X AllTokens :
              x[2].market = m /\ Base(x) = b /\ Place(x[2]) <= n => x \in Lines(m, b, n)
<1>1. /\ Size(m) \in {2, 4}
      /\ \A i \in 1 .. Size(m) : /\ TokensOf(m)[i] \in AllTokens
                                 /\ TokensOf(m)[i].market = m
                                 /\ Place(TokensOf(m)[i]) = i
  BY PlacesOf
<1>2. ASSUME NEW x \in Lines(m, b, n)
      PROVE  /\ x \in Nat \X AllTokens /\ x[2].market = m /\ Base(x) = b
             /\ Place(x[2]) \in 1 .. n /\ x[1] = b + Place(x[2])
  <2>1. PICK i \in 1 .. n : x = <<b + i, TokensOf(m)[i]>>
    BY DEF Lines
  <2>2. i \in 1 .. Size(m) /\ b + i \in Nat
    BY <1>1
  <2> QED
    BY <1>1, <2>1, <2>2 DEF Base
<1>3. ASSUME NEW x \in Nat \X AllTokens, x[2].market = m, Base(x) = b, Place(x[2]) <= n
      PROVE  x \in Lines(m, b, n)
  <2>1. /\ Place(x[2]) \in 1 .. n
        /\ x = <<b + Place(x[2]), TokensOf(m)[Place(x[2])]>>
    BY <1>1, <1>3, PairOf
  <2> QED
    BY <2>1 DEF Lines
<1> QED
  BY <1>1, <1>2, <1>3 DEF Lines

\* One line of a run tells where the run began; with a line it has the silo's other one.
LEMMA RunOf ==
  ASSUME created \in Seq(Token), NEW m \in Markets, NEW S, Run(m, S), NEW x \in S
  PROVE  /\ x \in Nat \X AllTokens /\ x[2].market = m
         /\ Base(x) \in 0 .. Len(created) /\ Base(x) \in Nat
         /\ \E n \in {2, 4} : n <= Size(m) /\ Place(x[2]) <= n /\ S = Lines(m, Base(x), n)
<1>1. PICK b \in 0 .. Len(created), n \in {0, 2, 4} : n <= Size(m) /\ S = Lines(m, b, n)
  BY DEF Run
<1>2. b \in Nat /\ n \in 0 .. Size(m) /\ Len(created) \in Nat
  BY <1>1, PlacesOf
<1>3. /\ x \in Nat \X AllTokens /\ x[2].market = m /\ Base(x) = b
      /\ Place(x[2]) \in 1 .. n
  BY <1>1, <1>2, LineOf
<1> QED
  BY <1>1, <1>2, <1>3

\* All lines of a market's run have the same beginning, and each its own gauge.
LEMMA RunBase ==
  ASSUME created \in Seq(Token), NEW m \in Markets, NEW S, Run(m, S), NEW x \in S, NEW y \in S
  PROVE  Base(x) = Base(y) /\ (x[1] = y[1] => x = y) /\ (x[2] = y[2] => x = y)
<1>1. PICK b \in 0 .. Len(created), n \in {0, 2, 4} : n <= Size(m) /\ S = Lines(m, b, n)
  BY DEF Run
<1>2. b \in Nat /\ n \in 0 .. Size(m) /\ Len(created) \in Nat
  BY <1>1, PlacesOf
<1>3. /\ x \in Nat \X AllTokens /\ x[2].market = m /\ Base(x) = b
      /\ y \in Nat \X AllTokens /\ y[2].market = m /\ Base(y) = b
  BY <1>1, <1>2, LineOf
<1>4. /\ x[1] = b + Place(x[2]) /\ x[2] = TokensOf(m)[Place(x[2])] /\ x = <<x[1], x[2]>>
      /\ Place(x[2]) \in 1 .. Size(m)
  BY <1>3, PairOf
<1>5. /\ y[1] = b + Place(y[2]) /\ y[2] = TokensOf(m)[Place(y[2])] /\ y = <<y[1], y[2]>>
      /\ Place(y[2]) \in 1 .. Size(m)
  BY <1>3, PairOf
<1>6. ASSUME x[1] = y[1] PROVE x = y
  <2>1. Place(x[2]) = Place(y[2])
    BY <1>2, <1>4, <1>5, <1>6
  <2> QED
    BY <1>4, <1>5, <1>6, <2>1
<1>7. ASSUME x[2] = y[2] PROVE x = y
  BY <1>4, <1>5, <1>7
<1> QED
  BY <1>3, <1>6, <1>7

-----------------------------------------------------------------------------
(* What a step does to records, run and bundles *)

\* The records hold what they held.
HeldSame == \A m \in Markets : Held(m)' = Held(m)

\* Nothing that matters here changes.
Quiet ==
    /\ created' = created /\ out' = out /\ HeldSame
    /\ Fresh' \subseteq Fresh
    /\ pc' = "forged" => pc = "forged" /\ Current' = Current /\ Fresh' = Fresh

\* A forge run prints lines, and may create gauges.
Forges ==
    /\ out' = out /\ HeldSame
    /\ pc' = "forged" /\ Current \in Markets /\ Current' = Current
    /\ \E n \in {0, 2, 4} : n <= Size(Current) /\ Fresh' = Lines(Current, Len(created), n)
    /\ \E k \in 0 .. Size(Current) : created' = created \o SubSeq(TokensOf(Current), 1, k)

\* The lines become the record of the market.
Records ==
    /\ created' = created /\ out' = out
    /\ pc = "forged" /\ pc' = "deploy" /\ Current \in Markets
    /\ \A m \in Markets : Held(m)' = IF m = Current THEN Fresh ELSE Held(m)

\* The bundles are written.
Builds == BuildBundles /\ created' = created /\ HeldSame /\ pc' = "idle"

\* Neither an unchanged file of records
LEMMA HeldUnchanged ==
  ASSUME progress' = progress
  PROVE  HeldSame
BY DEF HeldSame, Held, Recorded, Pairs

\* nor a test that keeps the gauges changes what the records hold.
LEMMA HeldKept ==
  ASSUME SameGauges(progress')
  PROVE  HeldSame
<1> SUFFICES ASSUME NEW m \in Markets PROVE Held(m)' = Held(m)
  BY DEF HeldSame
<1>1. CASE m \in Recorded
  <2>1. progress'[m] # NoRecord
    BY <1>1 DEF SameGauges, Recorded
  <2>2. /\ \A e \in progress'[m].entries : \E f \in progress[m].entries :
              e.gauge = f.gauge /\ e.token = f.token
        /\ \A f \in progress[m].entries : \E e \in progress'[m].entries :
              e.gauge = f.gauge /\ e.token = f.token
    BY <1>1 DEF SameGauges
  <2>3. Pairs(progress'[m].entries) = Pairs(progress[m].entries)
    BY <2>2 DEF Pairs
  <2> QED
    BY <1>1, <2>1, <2>3 DEF Held, Recorded, Pairs
<1>2. CASE m \notin Recorded
  BY <1>2 DEF SameGauges, Recorded, Held
<1> QED
  BY <1>1, <1>2

\* The pairs of what a forge run printed.
LEMMA ExtractedLines ==
  ASSUME created \in Seq(Token), NEW m \in Markets, NEW n \in 0 .. Size(m)
  PROVE  Pairs(extract_set_gauge_data(m, n)) = Lines(m, Len(created), n)
<1> DEFINE line(i) == Entry(Predicted(i), TokensOf(m)[i], "")
<1>1. \A i \in 1 .. n : line(i).gauge = Len(created) + i /\ line(i).token = TokensOf(m)[i]
  BY DEF Entry, Predicted
<1>2. extract_set_gauge_data(m, n) = {line(i) : i \in 1 .. n}
  BY DEF extract_set_gauge_data
<1> HIDE DEF line
<1>3. ASSUME NEW x \in Pairs(extract_set_gauge_data(m, n))
      PROVE  x \in Lines(m, Len(created), n)
  <2>1. PICK i \in 1 .. n : x = <<line(i).gauge, line(i).token>>
    BY <1>2 DEF Pairs
  <2> QED
    BY <1>1, <2>1 DEF Lines
<1>4. ASSUME NEW x \in Lines(m, Len(created), n)
      PROVE  x \in Pairs(extract_set_gauge_data(m, n))
  <2>1. PICK i \in 1 .. n : x = <<Len(created) + i, TokensOf(m)[i]>>
    BY DEF Lines
  <2>2. x = <<line(i).gauge, line(i).token>> /\ line(i) \in extract_set_gauge_data(m, n)
    BY <1>1, <1>2, <2>1
  <2> QED
    BY <2>2 DEF Pairs
<1> QED
  BY <1>3, <1>4

\* Every step is of one of the kinds.
LEMMA StepKinds ==
  ASSUME IInv, [Next]_vars, commands \cap {"sync", "crash"} = {}
  PROVE  commands' = commands /\ (Quiet \/ Forges \/ Records \/ Builds)
<1>1. created \in Seq(Token)
  BY DEF IInv, TypeOK
<1>2. ASSUME NEW b \in BOOLEAN, NEW rpc \in BOOLEAN, StartDeploy(b, rpc)
      PROVE  commands' = commands /\ Quiet
  <2>1. UNCHANGED <<created, out, progress, commands>> /\ pc' = "deploy"
    BY <1>2 DEF StartDeploy, NoFault, Fault, chain
  <2> QED
    BY <2>1, HeldUnchanged DEF Quiet, Fresh
<1>3. CASE SkipMarket
  <2>1. UNCHANGED <<created, out, progress, commands, pc>> /\ pc = "deploy"
    BY <1>3 DEF SkipMarket, InLoop, chain
  <2> QED
    BY <2>1, HeldUnchanged DEF Quiet, Fresh
<1>4. ASSUME NEW rc, NEW n \in {0, 2, 4}, n <= Size(Current), InLoop, Forged(rc, n),
             NEW k \in 0 .. Size(Current),
             created' = created \o SubSeq(TokensOf(Current), 1, k)
      PROVE  Forges
  <2>1. Current \in Markets
    BY <1>4, CurrentType DEF InLoop, IInv
  <2>2. /\ UNCHANGED <<progress, out>> /\ pc' = "forged" /\ Current' = Current
        /\ forged'.entries = extract_set_gauge_data(Current, n)
    BY <1>4 DEF Forged, run_with_live_output, Current
  <2>3. n \in 0 .. Size(Current)
    BY <1>4, <2>1, PlacesOf
  <2>4. Fresh' = Lines(Current, Len(created), n)
    BY <1>1, <2>1, <2>2, <2>3, ExtractedLines DEF Fresh, Pairs
  <2> QED
    BY <1>4, <2>1, <2>2, <2>4, HeldUnchanged DEF Forges
<1>5. CASE ForgeReverts
  <2>1. InLoop /\ commands' = commands /\ created' = created
    BY <1>5 DEF ForgeReverts, NeedsForge, Fault, NoFault
  <2>2. Current \in Markets
    BY <2>1, CurrentType DEF IInv, InLoop
  <2>3. \E n \in {0, 2, 4} : n <= Size(Current) /\ Forged(1, n)
    BY <1>5, <2>2, RevertedLines DEF Size
  <2>4. 0 \in 0 .. Size(Current)
    BY <2>2, PlacesOf
  <2>5. created' = created \o SubSeq(TokensOf(Current), 1, 0)
    <3>1. SubSeq(TokensOf(Current), 1, 0) = << >>
      BY <2>2, TokensOfType
    <3> QED
      BY <1>1, <2>1, <3>1
  <2> QED
    BY <1>4, <2>1, <2>3, <2>4, <2>5
<1>6. ASSUME NEW n \in 0 .. 4, NEW rc \in {0, 1}, ForgeSends(n, rc)
      PROVE  commands' = commands /\ Forges
  <2>1. InLoop /\ commands' = commands /\ Forged(rc, Size(Current))
    BY <1>6 DEF ForgeSends, NeedsForge, Fault, NoFault, Size
  <2>2. Current \in Markets
    BY <2>1, CurrentType DEF IInv, InLoop
  <2>3. Size(Current) \in {2, 4}
    BY <2>2, PlacesOf
  <2>4. n \in 0 .. Size(Current) /\ created' = created \o SubSeq(TokensOf(Current), 1, n)
    BY <1>6, <2>3 DEF ForgeSends, build_forge_command, Size
  <2>5. Size(Current) \in {0, 2, 4} /\ Size(Current) <= Size(Current)
    BY <2>3
  <2>6. Forges
    BY <1>4, <2>1, <2>4, <2>5
  <2> QED
    BY <2>1, <2>6
<1>7. CASE RecordRun
  <2> DEFINE rec == [success |-> forged.rc = 0 \/ forged.entries # {}, entries |-> forged.entries]
  <2>1. /\ next <= Len(MarketList) /\ forged \in ForgeRun
        /\ mem = [m \in Markets |-> IF m = Current THEN NoRecord ELSE progress[m]]
        /\ pc = "forged"
    BY <1>7 DEF IInv, TypeOK, MemoryOK, RecordRun
  <2>2. Current \in Markets
    BY <2>1, CurrentType DEF IInv
  <2>3. /\ mem' = [mem EXCEPT ![Current] = rec] /\ progress' = mem' /\ pc' = "deploy"
        /\ UNCHANGED <<created, out, commands>>
    BY <1>7 DEF RecordRun, save_progress_state, chain
  <2>4. rec # NoRecord /\ rec.entries = forged.entries
    <3>1. rec \in Record
      BY <2>1 DEF Record, ForgeRun
    <3> QED
      BY <3>1, ConstantsOK
  <2> HIDE DEF rec
  <2>5. progress' = [m \in Markets |-> IF m = Current THEN rec ELSE progress[m]]
    BY <2>1, <2>2, <2>3
  <2>6. ASSUME NEW m \in Markets
        PROVE  Held(m)' = IF m = Current THEN Fresh ELSE Held(m)
    BY <2>1, <2>4, <2>5 DEF Held, Recorded, Fresh, Pairs
  <2> QED
    BY <2>1, <2>2, <2>3, <2>6 DEF Records
<1>8. CASE FinishDeploy
  <2>1. UNCHANGED <<created, out, progress, commands>> /\ pc' = "idle"
    BY <1>8 DEF IInv, MemoryOK, FinishDeploy, save_progress_state, Ends, chain
  <2> QED
    BY <2>1, HeldUnchanged DEF Quiet, Fresh
<1>9. CASE BuildBundles
  <2>1. UNCHANGED <<created, progress, commands>> /\ pc' = "idle"
    BY <1>9 DEF BuildBundles, chain
  <2> QED
    BY <1>9, <2>1, HeldUnchanged DEF Builds
<1>10. CASE run_step_1 \/ Testing
  <2>1. UNCHANGED <<created, out, commands>> /\ pc' # "forged"
    BY <1>10 DEF run_step_1, Testing, run_step_2, run_step_3_update_gauge_versions,
         run_step_4_validate_gauge_version, run_step_5_validate_gauge_share_token, TestStep,
         chain, NoFault, Fault
  <2> QED
    BY <1>10, <2>1, TestsKeepGauges, HeldKept DEF Quiet, Fresh
<1>11. ASSUME NEW i \in DOMAIN out, ExecuteBundle(i)
       PROVE  commands' = commands /\ Quiet
  <2>1. UNCHANGED <<created, out, progress, commands, pc>> /\ pc = "idle"
    BY <1>11 DEF ExecuteBundle
  <2> QED
    BY <2>1, HeldUnchanged DEF Quiet, Fresh
<1>12. CASE UNCHANGED vars
  <2>1. UNCHANGED <<created, out, progress, commands, pc, forged, next>>
    BY <1>12 DEF vars, chain, deployVars
  <2> QED
    BY <2>1, HeldUnchanged DEF Quiet, Fresh, Current, Pairs
<1>13. ~Sync /\ ~Crash /\ ~ \E last \in DOMAIN out : InterruptedBuild(last)
  BY DEF Sync, Crash, InterruptedBuild
<1> QED
  BY <1>2, <1>3, <1>5, <1>6, <1>7, <1>8, <1>9, <1>10, <1>11, <1>12, <1>13 DEF Next, Deploying

-----------------------------------------------------------------------------
(* Counting gauges *)

\* A token of the markets is determined by market and place.
LEMMA TokenOf ==
  ASSUME NEW t \in AllTokens
  PROVE  /\ t.market \in Markets /\ Place(t) \in 1 .. Size(t.market)
         /\ Size(t.market) \in {2, 4} /\ t = TokensOf(t.market)[Place(t)]
<1> DEFINE x == <<0, t>>
<1>1. x \in Nat \X AllTokens /\ x[2] = t
  OBVIOUS
<1> HIDE DEF x
<1>2. t.market \in Markets /\ Place(t) \in 1 .. Size(t.market) /\ t = TokensOf(t.market)[Place(t)]
  BY <1>1, PairOf
<1> QED
  BY <1>2, PlacesOf

\* A market has four of them at most.
LEMMA TokenCount == IsFiniteSet(AllTokens) /\ Cardinality(AllTokens) <= 4 * Len(MarketList)
<1> DEFINE L == Len(MarketList)
           position(t) == CHOOSE i \in 1 .. L : MarketList[i] = t.market
           f == [t \in AllTokens |-> <<position(t), Place(t)>>]
           T == (1 .. L) \X (1 .. 4)
<1>1. L \in Nat /\ MarketList \in Seq(Markets) /\ Markets = {MarketList[i] : i \in 1 .. L}
  BY ConstantsOK DEF Markets, Range
<1>2. /\ IsFiniteSet(1 .. L) /\ Cardinality(1 .. L) = L
      /\ IsFiniteSet(1 .. 4) /\ Cardinality(1 .. 4) = 4
  <2>1. IsFiniteSet(1 .. L) /\ Cardinality(1 .. L) = IF 1 > L THEN 0 ELSE L - 1 + 1
    BY <1>1, FS_Interval
  <2> DEFINE four == 4
  <2>2. four \in Int /\ 1 \in Int
    OBVIOUS
  <2> HIDE DEF four
  <2>3. IsFiniteSet(1 .. four) /\ Cardinality(1 .. four) = IF 1 > four THEN 0 ELSE four - 1 + 1
    BY <2>2, FS_Interval
  <2> QED
    BY <1>1, <2>1, <2>3 DEF four
<1>3. IsFiniteSet(T) /\ Cardinality(T) = L * 4
  <2> DEFINE rows == 1 .. L
             columns == 1 .. 4
  <2>1. /\ IsFiniteSet(rows) /\ Cardinality(rows) = L
        /\ IsFiniteSet(columns) /\ Cardinality(columns) = 4
    BY <1>2
  <2>2. T = rows \X columns
    OBVIOUS
  <2> HIDE DEF rows, columns, T, L
  <2>3. IsFiniteSet(rows \X columns)
    BY <2>1, FS_Product
  <2>4. Cardinality(rows \X columns) = Cardinality(rows) * Cardinality(columns)
    BY <2>1, FS_Product
  <2> QED
    BY <2>1, <2>2, <2>3, <2>4
<1>4. ASSUME NEW t \in AllTokens
      PROVE  position(t) \in 1 .. L /\ MarketList[position(t)] = t.market /\ Place(t) \in 1 .. 4
  <2>1. t.market \in Markets /\ Place(t) \in 1 .. 4
    BY TokenOf
  <2>2. \E i \in 1 .. L : MarketList[i] = t.market
    BY <1>1, <2>1
  <2> QED
    BY <2>1, <2>2
<1> HIDE DEF position, T
<1>5. f \in [AllTokens -> T]
  BY <1>4 DEF T
<1>6. ASSUME NEW t \in AllTokens, NEW u \in AllTokens, f[t] = f[u]
      PROVE  t = u
  <2>1. position(t) = position(u) /\ Place(t) = Place(u)
    BY <1>6
  <2>2. t.market = u.market
    BY <1>4, <2>1
  <2> QED
    BY <2>1, <2>2, TokenOf
<1>7. f \in Injection(AllTokens, T)
  BY <1>5, <1>6 DEF Injection, IsInjective
<1> HIDE DEF f, L
<1>8. IsFiniteSet(AllTokens) /\ Cardinality(AllTokens) <= Cardinality(T)
  BY <1>3, <1>7, FS_Injection
<1>9. Cardinality(AllTokens) <= L * 4
  BY <1>3, <1>8
<1>10. L * 4 = 4 * L
  BY <1>1
<1> QED
  BY <1>8, <1>9, <1>10 DEF L

\* In a finite set of numbers each rank is taken.
LEMMA Ranked ==
  ASSUME NEW S \in SUBSET Nat, IsFiniteSet(S)
  PROVE  /\ \A g \in S : Cardinality({h \in S : h < g}) \in 0 .. Cardinality(S) - 1
         /\ \A k \in 0 .. Cardinality(S) - 1 : \E g \in S : Cardinality({h \in S : h < g}) = k
<1> DEFINE below(g) == {h \in S : h < g}
           N == Cardinality(S)
           T == 0 .. N - 1
           f == [g \in S |-> Cardinality(below(g))]
<1>1. N \in Nat
  BY FS_CardinalityType
<1>2. ASSUME NEW g \in S
      PROVE  /\ IsFiniteSet(below(g)) /\ Cardinality(below(g)) \in Nat
             /\ Cardinality(below(g)) + 1 <= N
  <2>1. IsFiniteSet(below(g)) /\ g \notin below(g) /\ below(g) \cup {g} \in SUBSET S
    BY FS_Subset
  <2>2. Cardinality(below(g) \cup {g}) = Cardinality(below(g)) + 1
    BY <2>1, FS_AddElement
  <2>3. Cardinality(below(g) \cup {g}) <= N
    BY <2>1, FS_Subset
  <2> QED
    BY <2>1, <2>2, <2>3, FS_CardinalityType
<1>3. ASSUME NEW g \in S, NEW h \in S, g < h
      PROVE  Cardinality(below(g)) < Cardinality(below(h))
  <2>1. below(g) \cup {g} \in SUBSET below(h) /\ g \notin below(g)
    <3>1. \A k \in S : k \in Nat
      OBVIOUS
    <3>2. \A k \in below(g) : k \in S /\ k < h /\ k # g
      BY <1>3, <3>1
    <3> QED
      BY <1>3, <3>2
  <2>2. Cardinality(below(g) \cup {g}) = Cardinality(below(g)) + 1
    BY <1>2, <2>1, FS_AddElement
  <2>3. Cardinality(below(g) \cup {g}) <= Cardinality(below(h))
    BY <1>2, <2>1, FS_Subset
  <2> QED
    BY <1>2, <2>2, <2>3
<1> HIDE DEF below
<1>4. f \in [S -> T]
  BY <1>1, <1>2
<1>5. f \in Injection(S, T)
  <2>1. ASSUME NEW g \in S, NEW h \in S, f[g] = f[h], g # h
        PROVE  FALSE
    <3>1. g < h \/ h < g
      BY <2>1
    <3>2. Cardinality(below(g)) = Cardinality(below(h)) /\ Cardinality(below(g)) \in Nat
      BY <1>2, <2>1
    <3> QED
      BY <1>3, <3>1, <3>2
  <2> QED
    BY <1>4, <2>1 DEF Injection, IsInjective
<1>6. IsFiniteSet(T) /\ Cardinality(T) = N
  <2>1. 0 \in Int /\ N - 1 \in Int
    BY <1>1
  <2>2. IsFiniteSet(T) /\ Cardinality(T) = IF 0 > N - 1 THEN 0 ELSE N - 1 - 0 + 1
    BY <2>1, FS_Interval
  <2> QED
    BY <1>1, <2>2
<1>7. f \in Surjection(S, T)
  <2> HIDE DEF f, T
  <2> QED
    BY <1>5, <1>6, FS_Injection
<1>8. \A k \in T : \E g \in S : f[g] = k
  BY <1>7 DEF Surjection
<1> QED
  BY <1>1, <1>2, <1>8 DEF below

\* So one of them is the greatest.
LEMMA Greatest ==
  ASSUME NEW S \in SUBSET Nat, IsFiniteSet(S), S # {}
  PROVE  \E g \in S : \A h \in S : h <= g
<1>1. Cardinality(S) \in Nat /\ Cardinality(S) # 0
  BY FS_CardinalityType, FS_EmptySet
<1>2. PICK g \in S : Cardinality({h \in S : h < g}) = Cardinality(S) - 1
  <2>1. Cardinality(S) - 1 \in 0 .. Cardinality(S) - 1
    BY <1>1
  <2> QED
    BY <2>1, Ranked
<1>3. ASSUME NEW h \in S, ~(h <= g)
      PROVE  FALSE
  <2>1. Cardinality({k \in S : k < h}) \in 0 .. Cardinality(S) - 1
    BY Ranked
  <2>2. {k \in S : k < g} \cup {g} \in SUBSET {k \in S : k < h} /\ g \notin {k \in S : k < g}
    <3>1. g < h /\ \A k \in S : k \in Nat
      BY <1>3
    <3>2. \A k \in {k \in S : k < g} : k \in S /\ k < h /\ k # g
      BY <3>1
    <3> QED
      BY <3>1, <3>2
  <2>3. IsFiniteSet({k \in S : k < g}) /\ IsFiniteSet({k \in S : k < h})
    BY FS_Subset
  <2>4. Cardinality({k \in S : k < g} \cup {g}) = Cardinality({k \in S : k < g}) + 1
    BY <2>2, <2>3, FS_AddElement
  <2>5. Cardinality({k \in S : k < g} \cup {g}) <= Cardinality({k \in S : k < h})
    BY <2>2, <2>3, FS_Subset
  <2> QED
    BY <1>1, <1>2, <2>1, <2>4, <2>5
<1> QED
  BY <1>3

\* The bundles take the pairs of all records, those of a market from its own.
LEMMA EntriesHeld ==
  /\ BundleEntries = UNION {Held(m) : m \in Markets}
  /\ created \in Seq(Token) /\ RunsOK => \A x \in BundleEntries : x \in Held(x[2].market)
<1>1. BundleEntries = UNION {Held(m) : m \in Markets}
  BY DEF BundleEntries, Held, Pairs, Recorded
<1>2. ASSUME created \in Seq(Token), RunsOK, NEW x \in BundleEntries
      PROVE  x \in Held(x[2].market)
  <2>1. PICK m \in Markets : x \in Held(m)
    BY <1>1
  <2>2. x[2].market = m
    BY <1>2, <2>1, RunOf DEF RunsOK
  <2> QED
    BY <2>1, <2>2
<1> QED
  BY <1>1, <1>2

\* All pairs are of gauges and share tokens, of runs that have begun.
LEMMA KnownType ==
  ASSUME created \in Seq(Token), pc = "forged" => Current \in Markets, RunsOK
  PROVE  /\ \A x \in Known : x \in Nat \X AllTokens /\ Base(x) \in 0 .. Len(created)
         /\ \A i \in DOMAIN out : out[i] \subseteq Bundles
         /\ Bundles \subseteq Known /\ Fresh \subseteq Known
         /\ BundleEntries \subseteq Known /\ \A m \in Markets : Held(m) \subseteq BundleEntries
         /\ 0 \in DOMAIN out /\ DOMAIN out = 0 .. 4 * Len(MarketList)
<1>1. /\ out \in [0 .. 4 * Len(MarketList) -> SUBSET (Nat \X AllTokens)]
      /\ Len(MarketList) \in Nat
  BY ConstantsOK DEF RunsOK
<1>2. \A i \in DOMAIN out : out[i] \subseteq Bundles
  BY DEF Bundles, Range
<1>3. ASSUME NEW x \in Bundles
      PROVE  x \in Nat \X AllTokens /\ Base(x) \in 0 .. Len(created)
  <2>1. PICK i \in DOMAIN out : x \in out[i]
    BY DEF Bundles, Range
  <2> QED
    BY <1>1, <2>1 DEF RunsOK
<1>4. ASSUME NEW x \in Fresh
      PROVE  x \in Nat \X AllTokens /\ Base(x) \in 0 .. Len(created)
  <2>1. pc = "forged"
    BY <1>4 DEF Fresh
  <2> QED
    BY <2>1, RunOf DEF RunsOK
<1>5. ASSUME NEW x \in BundleEntries
      PROVE  x \in Nat \X AllTokens /\ Base(x) \in 0 .. Len(created)
  <2>1. PICK m \in Markets : x \in Held(m)
    BY EntriesHeld
  <2> QED
    BY <2>1, RunOf DEF RunsOK
<1>6. /\ Bundles \subseteq Known /\ Fresh \subseteq Known /\ BundleEntries \subseteq Known
      /\ \A x \in Known : x \in Bundles \/ x \in Fresh \/ x \in BundleEntries
  BY DEF Known
<1>7. \A m \in Markets : Held(m) \subseteq BundleEntries
  BY EntriesHeld
<1>8. 0 \in DOMAIN out
  BY <1>1
<1> QED
  BY <1>1, <1>2, <1>3, <1>4, <1>5, <1>6, <1>7, <1>8

\* There are no more gauges in the records than share tokens, and as many when each
\* token has one of its own.
LEMMA GaugesCounted ==
  ASSUME created \in Seq(Token), RunsOK
  PROVE  LET G == Gauges(BundleEntries) IN
         /\ G \in SUBSET Nat /\ IsFiniteSet(G) /\ Cardinality(G) \in Nat
         /\ Cardinality(G) <= Cardinality(AllTokens)
         /\ /\ \A t \in AllTokens : \E x \in BundleEntries : x[2] = t
            /\ \A x, y \in BundleEntries : x[1] = y[1] => x = y
            => Cardinality(G) = Cardinality(AllTokens)
<1> DEFINE G == Gauges(BundleEntries)
           lineOf(g) == CHOOSE x \in BundleEntries : x[1] = g
           pairOf(t) == CHOOSE x \in BundleEntries : x[2] = t
           f == [g \in G |-> lineOf(g)[2]]
           h == [t \in AllTokens |-> pairOf(t)[1]]
<1>1. \A x \in BundleEntries :
        x \in Nat \X AllTokens /\ x \in Held(x[2].market) /\ x[2].market \in Markets
  <2> TAKE x \in BundleEntries
  <2>1. x \in Held(x[2].market)
    BY EntriesHeld
  <2>2. PICK m \in Markets : x \in Held(m)
    BY EntriesHeld
  <2>3. x \in Nat \X AllTokens /\ x[2].market = m
    BY <2>2, RunOf DEF RunsOK
  <2> QED
    BY <2>1, <2>3
<1>2. ASSUME NEW x \in BundleEntries, NEW y \in BundleEntries, x[2] = y[2]
      PROVE  x = y
  <2>1. x \in Held(x[2].market) /\ y \in Held(x[2].market) /\ x[2].market \in Markets
    BY <1>1, <1>2
  <2>2. Run(x[2].market, Held(x[2].market))
    BY <2>1 DEF RunsOK
  <2> QED
    BY <1>2, <2>1, <2>2, RunBase
<1>3. IsFiniteSet(AllTokens)
  BY TokenCount
<1>4. \A g \in G : lineOf(g) \in BundleEntries /\ lineOf(g)[1] = g
  BY DEF Gauges
<1>5. G \in SUBSET Nat
  BY <1>1 DEF Gauges
<1> HIDE DEF lineOf, G
<1>6. f \in Injection(G, AllTokens)
  <2>1. f \in [G -> AllTokens]
    BY <1>1, <1>4
  <2>2. ASSUME NEW g1 \in G, NEW g2 \in G, f[g1] = f[g2]
        PROVE  g1 = g2
    BY <1>2, <1>4, <2>2
  <2> QED
    BY <2>1, <2>2 DEF Injection, IsInjective
<1> HIDE DEF f
<1>7. IsFiniteSet(G) /\ Cardinality(G) <= Cardinality(AllTokens)
  BY <1>3, <1>6, FS_Injection
<1>8. Cardinality(G) \in Nat /\ Cardinality(AllTokens) \in Nat
  BY <1>3, <1>7, FS_CardinalityType
<1>9. ASSUME \A t \in AllTokens : \E x \in BundleEntries : x[2] = t,
             \A x, y \in BundleEntries : x[1] = y[1] => x = y
      PROVE  Cardinality(G) = Cardinality(AllTokens)
  <2>1. \A t \in AllTokens : pairOf(t) \in BundleEntries /\ pairOf(t)[2] = t
    BY <1>9
  <2> HIDE DEF pairOf
  <2>2. h \in [AllTokens -> G]
    BY <2>1 DEF G, Gauges
  <2>3. ASSUME NEW t1 \in AllTokens, NEW t2 \in AllTokens, h[t1] = h[t2]
        PROVE  t1 = t2
    BY <1>9, <2>1, <2>3
  <2>4. h \in Injection(AllTokens, G)
    BY <2>2, <2>3 DEF Injection, IsInjective
  <2> HIDE DEF h
  <2>5. Cardinality(AllTokens) <= Cardinality(G)
    BY <1>7, <2>4, FS_Injection
  <2> QED
    BY <1>7, <1>8, <2>5
<1> QED
  BY <1>5, <1>7, <1>8, <1>9 DEF G

-----------------------------------------------------------------------------
(* The files that 5_build writes *)

\* Without a split the unnumbered file takes everything and the others stay.
LEMMA WrittenWhole ==
  ASSUME created \in Seq(Token), RunsOK, BuildBundles,
         GaugesPerFile = 0 \/ Cardinality(Gauges(BundleEntries)) <= GaugesPerFile
  PROVE  /\ DOMAIN out' = DOMAIN out /\ out'[0] = BundleEntries
         /\ \A i \in DOMAIN out \ {0} : out'[i] = out[i]
<1> DEFINE part(i) == {x \in BundleEntries : PartOf(x[1], {y[1] : y \in BundleEntries}) = i}
<1>1. /\ BundleEntries # {}
      /\ out' = [i \in DOMAIN out |-> IF part(i) # {} THEN part(i) ELSE out[i]]
  BY DEF BuildBundles, Bundle
<1>2. \A x \in BundleEntries : PartOf(x[1], {y[1] : y \in BundleEntries}) = 0
  BY DEF PartOf, Gauges
<1>3. part(0) = BundleEntries
  BY <1>2
<1>4. \A i \in DOMAIN out \ {0} : part(i) = {}
  BY <1>2
<1>5. 0 \in DOMAIN out
  BY ConstantsOK DEF RunsOK
<1> HIDE DEF part
<1> QED
  BY <1>1, <1>3, <1>4, <1>5

\* With a split it stays, and as many numbered files as the gauges need are rewritten.
LEMMA WrittenParts ==
  ASSUME created \in Seq(Token), RunsOK, BuildBundles,
         GaugesPerFile > 0, Cardinality(Gauges(BundleEntries)) > GaugesPerFile
  PROVE  LET N == Cardinality(Gauges(BundleEntries)) IN
         /\ DOMAIN out' = DOMAIN out /\ out'[0] = out[0]
         /\ \A i \in DOMAIN out \ {0} :
              /\ (i - 1) * GaugesPerFile < N => out'[i] # {} /\ out'[i] \subseteq BundleEntries
              /\ (i - 1) * GaugesPerFile >= N => out'[i] = out[i]
         /\ \A x \in BundleEntries : \E i \in DOMAIN out \ {0} : x \in out'[i]
<1> DEFINE S == Gauges(BundleEntries)
           N == Cardinality(S)
           F == GaugesPerFile
           rank(g) == Cardinality({h \in S : h < g})
           part(i) == {x \in BundleEntries : PartOf(x[1], S) = i}
<1>1. /\ DOMAIN out = 0 .. 4 * Len(MarketList) /\ Len(MarketList) \in Nat
      /\ F \in Nat \ {0}
  BY ConstantsOK DEF RunsOK
<1>2. /\ S \in SUBSET Nat /\ IsFiniteSet(S) /\ N \in Nat /\ N <= 4 * Len(MarketList)
  <2>1. S \in SUBSET Nat /\ IsFiniteSet(S) /\ N \in Nat /\ N <= Cardinality(AllTokens)
    BY GaugesCounted
  <2>2. Cardinality(AllTokens) \in Nat /\ Cardinality(AllTokens) <= 4 * Len(MarketList)
    BY TokenCount, FS_CardinalityType
  <2> QED
    BY <1>1, <2>1, <2>2
<1>3. out' = [i \in DOMAIN out |-> IF part(i) # {} THEN part(i) ELSE out[i]]
  BY DEF BuildBundles, Bundle, Gauges
<1>4. /\ \A g \in S : rank(g) \in 0 .. N - 1
      /\ \A k \in 0 .. N - 1 : \E g \in S : rank(g) = k
  BY <1>2, Ranked
<1>5. \A g \in S : PartOf(g, S) = (rank(g) \div F) + 1
  BY <1>1, <1>2 DEF PartOf
<1>6. \A x \in BundleEntries : x[1] \in S
  BY DEF Gauges
<1>7. \A g \in S : \E x \in BundleEntries : x[1] = g
  BY DEF Gauges
<1> HIDE DEF rank, S
<1>8. ASSUME NEW g \in S
      PROVE  /\ (rank(g) \div F) + 1 \in 1 .. 4 * Len(MarketList)
             /\ (rank(g) \div F) * F <= rank(g)
             /\ rank(g) \in Nat /\ rank(g) < N /\ rank(g) \div F \in Nat
  <2>1. rank(g) \in Nat /\ rank(g) < N
    BY <1>2, <1>4
  <2> DEFINE q == rank(g) \div F
  <2>2. q \in Nat /\ q * F <= rank(g)
    BY <1>1, <2>1
  <2>3. q <= rank(g)
    BY <1>1, <2>1
  <2> HIDE DEF q
  <2>4. q + 1 \in 1 .. 4 * Len(MarketList)
    BY <1>1, <1>2, <2>1, <2>2, <2>3
  <2> QED
    BY <2>1, <2>2, <2>4 DEF q
<1>9. ASSUME NEW i \in DOMAIN out \ {0}
      PROVE  /\ (i - 1) * F < N => out'[i] # {} /\ out'[i] \subseteq BundleEntries
             /\ (i - 1) * F >= N => out'[i] = out[i]
  <2>1. i \in Nat /\ i - 1 \in Nat
    BY <1>1
  <2>2. ASSUME (i - 1) * F < N PROVE part(i) # {}
    <3> DEFINE k == (i - 1) * F
    <3>1. k \in 0 .. N - 1
      BY <1>1, <1>2, <2>1, <2>2
    <3>2. PICK g \in S : rank(g) = k
      BY <1>4, <3>1
    <3>3. k \div F = i - 1
      BY <1>1, <2>1
    <3>4. PartOf(g, S) = i
      BY <1>5, <2>1, <3>2, <3>3
    <3> QED
      BY <1>7, <3>4
  <2>3. ASSUME (i - 1) * F >= N, NEW x \in part(i) PROVE FALSE
    <3>1. x[1] \in S /\ (rank(x[1]) \div F) + 1 = i
      BY <1>5, <1>6
    <3>2. /\ (rank(x[1]) \div F) * F <= rank(x[1]) /\ rank(x[1]) < N /\ rank(x[1]) \in Nat
          /\ rank(x[1]) \div F \in Nat
      BY <1>8, <3>1
    <3>3. rank(x[1]) \div F = i - 1
      BY <2>1, <3>1, <3>2
    <3>4. (i - 1) * F <= rank(x[1])
      BY <3>2, <3>3
    <3>5. (i - 1) * F \in Nat
      BY <1>1, <2>1
    <3> QED
      BY <1>2, <2>3, <3>2, <3>4, <3>5
  <2>4. part(i) \subseteq BundleEntries
    OBVIOUS
  <2> HIDE DEF part
  <2> QED
    BY <1>3, <2>2, <2>3, <2>4
<1>10. out'[0] = out[0] /\ DOMAIN out' = DOMAIN out
  <2>1. \A x \in BundleEntries : PartOf(x[1], S) # 0
    BY <1>5, <1>6, <1>8
  <2>2. part(0) = {}
    BY <2>1
  <2> HIDE DEF part
  <2> QED
    BY <1>1, <1>3, <2>2
<1>11. ASSUME NEW x \in BundleEntries
       PROVE  \E i \in DOMAIN out \ {0} : x \in out'[i]
  <2> DEFINE i == PartOf(x[1], S)
  <2>1. i \in DOMAIN out \ {0}
    BY <1>1, <1>5, <1>6, <1>8
  <2>2. x \in part(i)
    OBVIOUS
  <2> HIDE DEF part, i
  <2>3. x \in out'[i]
    BY <1>3, <2>1, <2>2
  <2> QED
    BY <2>1, <2>3
<1> QED
  BY <1>9, <1>10, <1>11 DEF S

\* However they are split, all pairs of the records are in the files.
LEMMA Written ==
  ASSUME created \in Seq(Token), RunsOK, BuildBundles
  PROVE  /\ DOMAIN out' = DOMAIN out
         /\ \A i \in DOMAIN out : out'[i] \subseteq BundleEntries \/ out'[i] = out[i]
         /\ BundleEntries \subseteq Bundles' /\ Bundles' \subseteq Bundles \cup BundleEntries
         /\ out'[0] = BundleEntries \/ out'[0] = out[0]
<1> DEFINE N == Cardinality(Gauges(BundleEntries))
<1>1. 0 \in DOMAIN out
  BY ConstantsOK DEF RunsOK
<1>2. /\ DOMAIN out' = DOMAIN out
      /\ out'[0] = BundleEntries \/ out'[0] = out[0]
      /\ \A i \in DOMAIN out : out'[i] \subseteq BundleEntries \/ out'[i] = out[i]
      /\ \A x \in BundleEntries : \E i \in DOMAIN out : x \in out'[i]
  <2>1. CASE GaugesPerFile = 0 \/ N <= GaugesPerFile
    BY <1>1, <2>1, WrittenWhole
  <2>2. CASE GaugesPerFile > 0 /\ N > GaugesPerFile
    <3>1. DOMAIN out' = DOMAIN out /\ out'[0] = out[0]
      BY <2>2, WrittenParts
    <3>2. \A i \in DOMAIN out \ {0} :
            /\ (i - 1) * GaugesPerFile < N => out'[i] \subseteq BundleEntries
            /\ (i - 1) * GaugesPerFile >= N => out'[i] = out[i]
      BY <2>2, WrittenParts
    <3>3. \A x \in BundleEntries : \E i \in DOMAIN out \ {0} : x \in out'[i]
      BY <2>2, WrittenParts
    <3>4. \A i \in DOMAIN out \ {0} : (i - 1) * GaugesPerFile \in Int
      <4>1. /\ DOMAIN out = 0 .. 4 * Len(MarketList)
            /\ Len(MarketList) \in Nat /\ GaugesPerFile \in Nat
        BY ConstantsOK DEF RunsOK
      <4> QED
        BY <4>1
    <3>5. N \in Nat
      BY GaugesCounted
    <3> HIDE DEF N
    <3> QED
      BY <3>1, <3>2, <3>3, <3>4, <3>5
  <2>3. N \in Nat /\ GaugesPerFile \in Nat
    BY GaugesCounted, ConstantsOK
  <2> QED
    BY <2>1, <2>2, <2>3
<1>3. BundleEntries \subseteq Bundles'
  BY <1>2 DEF Bundles, Range
<1>4. ASSUME NEW x \in Bundles'
      PROVE  x \in Bundles \cup BundleEntries
  <2>1. PICK i \in DOMAIN out' : x \in out'[i]
    BY DEF Bundles, Range
  <2> QED
    BY <1>2, <2>1 DEF Bundles, Range
<1> QED
  BY <1>2, <1>3, <1>4

-----------------------------------------------------------------------------
(* The invariant of the bundles, part by part *)

\* What the first invariant says of the chain and of the run.
Typed == created \in Seq(Token) /\ (pc = "forged" => Current \in Markets)

\* A forge run appends share tokens of its market.
LEMMA ForgesCreate ==
  ASSUME Typed, Forges
  PROVE  /\ created' \in Seq(Token) /\ Len(created) \in Nat /\ Len(created') \in Nat
         /\ Len(created) <= Len(created')
         /\ \A g \in 1 .. Len(created) : created'[g] = created[g]
         /\ \A g \in (Len(created) + 1) .. Len(created') :
              /\ g - Len(created) \in 1 .. Size(Current)
              /\ created'[g] = TokensOf(Current)[g - Len(created)]
<1> DEFINE all == TokensOf(Current)
<1>1. PICK k \in 0 .. Size(Current) : created' = created \o SubSeq(all, 1, k)
  BY DEF Forges
<1> DEFINE new == SubSeq(all, 1, k)
<1>2. all \in Seq(Token) /\ Size(Current) \in Nat /\ Len(all) = Size(Current)
  BY TokensOfType, PlacesOf DEF Forges, Size
<1>3. new \in Seq(Token) /\ Len(new) = k /\ \A i \in 1 .. k : new[i] = all[i]
  BY <1>2
<1>4. created' = created \o new
  BY <1>1
<1> HIDE DEF new, all
<1>5. /\ created' \in Seq(Token) /\ Len(created') = Len(created) + Len(new)
      /\ Len(created) \in Nat
      /\ \A g \in 1 .. Len(created) + Len(new) :
           created'[g] = IF g <= Len(created) THEN created[g] ELSE new[g - Len(created)]
  <2>1. created \in Seq(Token)
    BY DEF Typed
  <2>2. /\ created \o new \in Seq(Token) /\ Len(created \o new) = Len(created) + Len(new)
        /\ \A g \in 1 .. Len(created) + Len(new) :
             (created \o new)[g] = IF g <= Len(created) THEN created[g]
                                                         ELSE new[g - Len(created)]
    BY <1>3, <2>1, Joined
  <2>3. Len(created) \in Nat
    BY <2>1
  <2> QED
    BY <1>4, <2>2, <2>3
<1>6. \A g \in 1 .. Len(created) : created'[g] = created[g]
  BY <1>3, <1>5
<1>7. ASSUME NEW g \in (Len(created) + 1) .. Len(created')
      PROVE  g - Len(created) \in 1 .. Size(Current) /\ created'[g] = all[g - Len(created)]
  <2>1. g - Len(created) \in 1 .. k
    BY <1>3, <1>5
  <2>2. created'[g] = new[g - Len(created)]
    BY <1>3, <1>5
  <2> QED
    BY <1>2, <1>3, <2>1, <2>2
<1> QED
  BY <1>2, <1>3, <1>5, <1>6, <1>7 DEF all

\* Only a forge run brings pairs that were in no file and no record.
LEMMA KnownKept ==
  ASSUME Typed, RunsOK, Quiet \/ Forges \/ Records \/ Builds
  PROVE  /\ Known' \subseteq Known \cup Fresh'
         /\ ~Forges => Known' \subseteq Known /\ created' = created
         /\ BundleEntries' = UNION {Held(m)' : m \in Markets}
<1>1. BundleEntries' = UNION {Held(m)' : m \in Markets}
  BY DEF BundleEntries, Held, Pairs, Recorded
<1>2. Known' = Bundles' \cup Fresh' \cup BundleEntries'
  BY DEF Known
<1>3. BundleEntries = UNION {Held(m) : m \in Markets}
  BY EntriesHeld
<1>4. CASE Quiet \/ Forges
  <2>1. Bundles' = Bundles
    BY <1>4 DEF Quiet, Forges, Bundles
  <2>2. BundleEntries' = BundleEntries
    BY <1>1, <1>3, <1>4 DEF Quiet, Forges, HeldSame
  <2> QED
    BY <1>1, <1>2, <1>4, <2>1, <2>2 DEF Quiet, Known
<1>5. CASE Records
  <2>1. Bundles' = Bundles /\ Fresh' = {} /\ created' = created
    BY <1>5 DEF Records, Bundles, Fresh
  <2>2. BundleEntries' \subseteq BundleEntries \cup Fresh
    BY <1>1, <1>3, <1>5 DEF Records
  <2> QED
    BY <1>1, <1>2, <2>1, <2>2 DEF Known
<1>6. CASE Builds
  <2>1. Bundles' \subseteq Bundles \cup BundleEntries
    BY <1>6, Written DEF Builds, Typed
  <2>2. BundleEntries' = BundleEntries /\ Fresh' = {} /\ created' = created
    BY <1>1, <1>3, <1>6 DEF Builds, HeldSame, Fresh
  <2> QED
    BY <1>1, <1>2, <2>1, <2>2 DEF Known
<1> QED
  BY <1>4, <1>5, <1>6

\* Records, run and unnumbered file hold one run of each market.
LEMMA RunsKept ==
  ASSUME Typed, RunsOK, Quiet \/ Forges \/ Records \/ Builds
  PROVE  RunsOK'
<1>1. Len(created) \in Nat /\ Len(created') \in Nat /\ Len(created) <= Len(created')
  <2>1. CASE Forges
    BY <2>1, ForgesCreate
  <2>2. CASE ~Forges
    BY <2>2, KnownKept DEF Typed
  <2> QED
    BY <2>1, <2>2
<1>2. ASSUME NEW m \in Markets, NEW S, Run(m, S)
      PROVE  \E b \in 0 .. Len(created'), n \in {0, 2, 4} : n <= Size(m) /\ S = Lines(m, b, n)
  BY <1>1, <1>2 DEF Run
<1>3. ASSUME NEW m \in Markets
      PROVE  Run(m, Held(m))'
  <2>1. Held(m)' = Held(m) \/ (Records /\ m = Current /\ Held(m)' = Fresh)
    BY DEF Quiet, Forges, Builds, Records, HeldSame
  <2>2. Run(m, Held(m)')
    BY <2>1 DEF RunsOK, Records
  <2> QED
    BY <1>2, <2>2 DEF Run
<1>4. ASSUME NEW m \in Markets
      PROVE  Run(m, OfMarket(m, out'[0]))
  <2>1. CASE out' = out
    BY <2>1 DEF RunsOK
  <2>2. CASE Builds
    <3>1. out'[0] = BundleEntries \/ out'[0] = out[0]
      BY <2>2, Written DEF Builds, Typed
    <3>2. OfMarket(m, BundleEntries) = Held(m)
      <4>1. \A x \in BundleEntries : x[2].market = m => x \in Held(m)
        BY EntriesHeld DEF Typed
      <4>2. \A x \in Held(m) : x \in BundleEntries /\ x[2].market = m
        BY EntriesHeld, RunOf DEF RunsOK, Typed
      <4> QED
        BY <4>1, <4>2 DEF OfMarket
    <3> QED
      BY <3>1, <3>2 DEF RunsOK
  <2> QED
    BY <2>1, <2>2 DEF Quiet, Forges, Records
<1>5. ASSUME NEW m \in Markets
      PROVE  Run(m, OfMarket(m, out[0]))'
  <2>1. OfMarket(m, out[0])' = OfMarket(m, out'[0])
    BY DEF OfMarket
  <2> QED
    BY <1>2, <1>4, <2>1 DEF Run
<1>6. ASSUME pc' = "forged"
      PROVE  Run(Current, Fresh)'
  <2>1. CASE Quiet
    <3>1. /\ pc = "forged" /\ Current' = Current /\ created' = created /\ Fresh' = Fresh
      BY <1>6, <2>1 DEF Quiet
    <3>2. Run(Current, Fresh')
      BY <3>1 DEF RunsOK
    <3> QED
      BY <3>1, <3>2 DEF Run
  <2>2. CASE Forges
    <3>1. PICK n \in {0, 2, 4} : n <= Size(Current) /\ Fresh' = Lines(Current, Len(created), n)
      BY <2>2 DEF Forges
    <3>2. Current' = Current /\ Len(created) \in 0 .. Len(created')
      BY <1>1, <2>2 DEF Forges
    <3> QED
      BY <3>1, <3>2 DEF Run
  <2> QED
    BY <1>6, <2>1, <2>2 DEF Records, Builds
<1>7. out' \in [0 .. 4 * Len(MarketList) -> SUBSET (Nat \X AllTokens)]
  <2>1. CASE Builds
    <3>1. /\ DOMAIN out' = DOMAIN out
          /\ \A i \in DOMAIN out : out'[i] \subseteq BundleEntries \/ out'[i] = out[i]
      BY <2>1, Written DEF Builds, Typed
    <3>2. \A x \in BundleEntries : x \in Nat \X AllTokens
      BY KnownType DEF Typed
    <3>3. out' = [i \in DOMAIN out' |-> out'[i]]
      BY <2>1 DEF Builds, BuildBundles
    <3> QED
      BY <3>1, <3>2, <3>3 DEF RunsOK
  <2> QED
    BY <2>1 DEF RunsOK, Quiet, Forges, Records
<1>8. \A x \in Bundles' : Base(x) \in 0 .. Len(created')
  <2>1. Bundles' \subseteq Bundles \cup BundleEntries
    BY Written DEF Quiet, Forges, Records, Builds, Bundles, Typed
  <2>2. \A x \in Bundles \cup BundleEntries : Base(x) \in 0 .. Len(created)
    BY KnownType DEF Typed
  <2> QED
    BY <1>1, <2>1, <2>2
<1> QED
  BY <1>3, <1>5, <1>6, <1>7, <1>8 DEF RunsOK

\* The lines of a new run begin where the gauges end.
LEMMA FreshLines ==
  ASSUME Typed, Forges, NEW x \in Fresh'
  PROVE  /\ x \in Nat \X AllTokens /\ x[2].market = Current
         /\ Base(x) = Len(created) /\ x[1] > Len(created)
<1>1. PICK n \in {0, 2, 4} : n <= Size(Current) /\ Fresh' = Lines(Current, Len(created), n)
  BY DEF Forges
<1>2. Current \in Markets /\ Len(created) \in Nat
  BY DEF Forges, Typed
<1>3. n \in 0 .. Size(Current)
  BY <1>1, <1>2, PlacesOf
<1>4. /\ x \in Nat \X AllTokens /\ x[2].market = Current /\ Base(x) = Len(created)
      /\ Place(x[2]) \in 1 .. n /\ x[1] = Len(created) + Place(x[2])
  BY <1>1, <1>2, <1>3, LineOf
<1> QED
  BY <1>2, <1>4

\* No run begins between the first and the last gauge of another one.
LEMMA ApartKept ==
  ASSUME Typed, RunsOK, Apart, Quiet \/ Forges \/ Records \/ Builds
  PROVE  Apart'
<1>1. CASE ~Forges
  <2>1. Known' \subseteq Known /\ created' = created
    BY <1>1, KnownKept
  <2> QED
    BY <2>1 DEF Apart, Genuine, Exists, ShareToken
<1>2. CASE Forges
  <2> DEFINE L == Len(created)
  <2>1. /\ L \in Nat /\ Len(created') \in Nat
        /\ DOMAIN created = 1 .. L /\ DOMAIN created' = 1 .. Len(created')
        /\ \A g \in 1 .. L : created'[g] = created[g]
        /\ \A g \in (L + 1) .. Len(created') :
             g - L \in 1 .. Size(Current) /\ created'[g] = TokensOf(Current)[g - L]
    BY <1>2, ForgesCreate DEF Typed
  <2>2. Known' \subseteq Known \cup Fresh'
    BY KnownKept
  <2>3. \A x \in Known : x \in Nat \X AllTokens /\ Base(x) \in 0 .. L /\ x[1] \in Nat
    BY KnownType, PairOf DEF Typed
  <2>4. \A x \in Fresh' : x \in Nat \X AllTokens /\ Base(x) = L /\ x[1] > L /\ x[1] \in Nat
    BY <1>2, FreshLines, PairOf
  <2>5. ASSUME NEW x \in Known', NEW y \in Known', Genuine(x)'
        PROVE  Base(y) <= Base(x) \/ x[1] <= Base(y)
    <3>1. /\ x[1] \in Nat /\ x \in Nat \X AllTokens /\ Base(y) \in 0 .. L
          /\ x \in Known \/ x[1] > L
          /\ y \in Known \/ Base(y) = L
      BY <2>1, <2>2, <2>3, <2>4
    <3>2. x[1] \in DOMAIN created' /\ created'[x[1]] = x[2]
      BY <2>5 DEF Genuine, Exists, ShareToken
    <3>3. CASE x[1] <= L
      <4>1. x \in Known /\ x[1] \in 1 .. L
        BY <2>1, <3>1, <3>2, <3>3
      <4>2. Genuine(x)
        BY <2>1, <3>2, <4>1 DEF Genuine, Exists, ShareToken
      <4> QED
        BY <3>1, <3>3, <4>1, <4>2 DEF Apart
    <3>4. CASE x[1] > L
      <4>1. x[1] - L \in 1 .. Size(Current) /\ x[2] = TokensOf(Current)[x[1] - L]
        BY <2>1, <3>1, <3>2, <3>4
      <4>2. Place(x[2]) = x[1] - L
        BY <1>2, <4>1, PlacesOf DEF Forges
      <4>3. Base(x) = L
        BY <2>1, <3>1, <4>2 DEF Base
      <4> QED
        BY <2>1, <3>1, <4>3
    <3> QED
      BY <2>1, <3>1, <3>3, <3>4
  <2> QED
    BY <2>5 DEF Apart
<1> QED
  BY <1>1, <1>2

\* The bundles lag behind the records, and both behind the run.
LEMMA LatestKept ==
  ASSUME Typed, RunsOK, Latest, Quiet \/ Forges \/ Records \/ Builds
  PROVE  Latest'
<1>1. \A x \in Known : x \in Nat \X AllTokens /\ Base(x) \in 0 .. Len(created) /\ Base(x) \in Nat
  BY KnownType DEF Typed
<1>2. ASSUME NEW x \in Fresh', NEW y \in Known'
      PROVE  Base(y) <= Base(x)
  <2>1. CASE Forges
    <3>1. y \in Known \cup Fresh'
      BY KnownKept
    <3>2. Base(x) = Len(created) /\ (y \in Fresh' => Base(y) = Len(created)) /\ Len(created) \in Nat
      BY <2>1, FreshLines DEF Typed
    <3> QED
      BY <1>1, <3>1, <3>2
  <2>2. CASE Quiet
    <3>1. CASE Forges
      BY <2>1, <3>1
    <3>2. CASE ~Forges
      BY <2>2, <3>2, KnownKept DEF Quiet, Latest
    <3> QED
      BY <3>1, <3>2
  <2>3. CASE Records \/ Builds
    BY <2>3 DEF Records, Builds, Fresh
  <2> QED
    BY <2>1, <2>2, <2>3
<1>3. ASSUME NEW y \in Bundles', NEW m \in Markets, NEW x \in Held(m)'
      PROVE  /\ y[2].market = m => Base(y) <= Base(x)
             /\ Base(x) < Base(y) => x \in Bundles'
             /\ Base(x) < Base(y) /\ y \in out'[0] => x \in out'[0]
  <2>1. CASE Quiet \/ Forges
    <3>1. out' = out /\ Bundles' = Bundles /\ Held(m)' = Held(m)
      BY <2>1 DEF Quiet, Forges, HeldSame, Bundles
    <3> QED
      BY <1>3, <3>1 DEF Latest
  <2>2. CASE Records
    <3>1. out' = out /\ Bundles' = Bundles
      BY <2>2 DEF Records, Bundles
    <3>2. CASE m # Current
      <4>1. x \in Held(m)
        BY <1>3, <2>2, <3>2 DEF Records
      <4> QED
        BY <1>3, <3>1, <4>1 DEF Latest
    <3>3. CASE m = Current
      <4>1. x \in Fresh /\ x \in Known /\ y \in Known
        BY <1>3, <2>2, <3>1, <3>3 DEF Records, Known
      <4>2. Base(y) <= Base(x) /\ Base(x) \in Nat /\ Base(y) \in Nat
        BY <1>1, <4>1 DEF Latest
      <4> QED
        BY <4>2
    <3> QED
      BY <3>2, <3>3
  <2>3. CASE Builds
    <3>1. /\ BundleEntries \subseteq Bundles' /\ Bundles' \subseteq Bundles \cup BundleEntries
          /\ out'[0] = BundleEntries \/ out'[0] = out[0]
      BY <2>3, Written DEF Builds, Typed
    <3>2. x \in Held(m)
      BY <1>3, <2>3 DEF Builds, HeldSame
    <3>3. x \in BundleEntries
      BY <3>2, EntriesHeld
    <3>4. y[2].market = m => Base(y) <= Base(x)
      <4>1. CASE y \in Bundles
        BY <3>2, <4>1 DEF Latest
      <4>2. CASE y \in BundleEntries /\ y[2].market = m
        <5>1. y \in Held(m)
          BY <4>2, EntriesHeld DEF Typed
        <5>2. Base(y) = Base(x)
          BY <3>2, <5>1, RunBase DEF RunsOK, Typed
        <5>3. Base(x) \in Nat
          BY <1>1, <3>3 DEF Known
        <5> QED
          BY <5>2, <5>3
      <4> QED
        BY <3>1, <4>1, <4>2
    <3>5. ASSUME Base(x) < Base(y), y \in out'[0]
          PROVE  x \in out'[0]
      <4>1. CASE out'[0] = BundleEntries
        BY <3>3, <4>1
      <4>2. CASE out'[0] = out[0]
        <5>1. y \in out[0] /\ y \in Bundles
          BY <3>5, <4>2, KnownType DEF Typed
        <5> QED
          BY <3>2, <3>5, <4>2, <5>1 DEF Latest
      <4> QED
        BY <3>1, <4>1, <4>2
    <3> QED
      BY <3>1, <3>3, <3>4, <3>5
  <2> QED
    BY <2>1, <2>2, <2>3
<1> QED
  BY <1>2, <1>3 DEF Latest

\* The files hold no more gauges than they may, and none is numbered too high.
LEMMA FilledKept ==
  ASSUME Typed, RunsOK, Filled, Quiet \/ Forges \/ Records \/ Builds
  PROVE  Filled'
<1>1. CASE out' = out
  BY <1>1 DEF Filled, Gauges
<1>2. CASE Builds
  <2> DEFINE N == Cardinality(Gauges(BundleEntries))
             F == GaugesPerFile
             A == Cardinality(AllTokens)
  <2>1. BuildBundles /\ created \in Seq(Token)
    BY <1>2 DEF Builds, Typed
  <2>2. N \in Nat /\ F \in Nat /\ A \in Nat /\ N <= A
    BY <2>1, GaugesCounted, TokenCount, FS_CardinalityType, ConstantsOK
  <2>3. CASE F = 0 \/ N <= F
    <3>1. /\ DOMAIN out' = DOMAIN out /\ out'[0] = BundleEntries
          /\ \A i \in DOMAIN out \ {0} : out'[i] = out[i]
      BY <2>1, <2>3, WrittenWhole
    <3> QED
      BY <2>3, <3>1 DEF Filled, Gauges
  <2>4. CASE F > 0 /\ N > F
    <3>1. /\ DOMAIN out' = DOMAIN out /\ out'[0] = out[0]
          /\ \A i \in DOMAIN out \ {0} : (i - 1) * F >= N => out'[i] = out[i]
      BY <2>1, <2>4, WrittenParts
    <3>2. \A i \in DOMAIN out \ {0} : (i - 1) * F \in Nat
      <4>1. DOMAIN out = 0 .. 4 * Len(MarketList) /\ Len(MarketList) \in Nat
        BY ConstantsOK DEF RunsOK
      <4> QED
        BY <2>2, <4>1
    <3> HIDE DEF N, A
    <3>3. ASSUME NEW i \in DOMAIN out \ {0}, out'[i] # {}
          PROVE  F > 0 /\ F < A /\ (i - 1) * F < A
      <4>1. CASE (i - 1) * F >= N
        BY <3>1, <3>3, <4>1 DEF Filled, A
      <4>2. CASE (i - 1) * F < N
        BY <2>2, <2>4, <3>2, <4>2
      <4> QED
        BY <2>2, <3>2, <4>1, <4>2
    <3>4. Cardinality(Gauges(out'[0])) = Cardinality(Gauges(out[0]))
      BY <3>1
    <3> QED
      BY <3>1, <3>3, <3>4 DEF Filled, Gauges, A
  <2> QED
    BY <2>2, <2>3, <2>4
<1> QED
  BY <1>1, <1>2 DEF Quiet, Forges, Records

\* A line that is the last one after a step that writes no bundles has been before.
LEMMA NewestBefore ==
  ASSUME Typed, RunsOK, Latest, Quiet \/ Forges \/ Records, NEW z, Newest(z)'
  PROVE  Newest(z)
<1> DEFINE L == Len(created)
<1>1. out' = out /\ Bundles' = Bundles
  BY DEF Quiet, Forges, Records, Bundles
<1>2. /\ z \in Bundles /\ z \in Known /\ Place(z[2]) = Size(z[2].market)
      /\ Base(z) \in 0 .. L /\ L \in Nat
  BY <1>1, KnownType DEF Newest, Typed
<1>3. ASSUME NEW m \in Markets \ {z[2].market}
      PROVE  \E b \in 0 .. L : b < Base(z) /\ Deployed(m, b)
  <2>1. PICK b \in 0 .. Len(created') : b < Base(z) /\ Deployed(m, b)'
    BY DEF Newest
  <2>2. Held(m)' = Lines(m, b, Size(m)) /\ \A x \in Held(m)' : Genuine(x)'
    BY <2>1 DEF Deployed
  <2>3. b \in Nat /\ b < L /\ b \in 0 .. L
    BY <1>2, <2>1
  <2>4. \A x \in Held(m)' : x \in Nat \X AllTokens /\ Base(x) = b /\ x[2].market = m
    BY <2>2, <2>3, LineOf, PlacesOf
  <2>5. Held(m) = Held(m)'
    <3>1. CASE Records /\ m = Current
      <4>1. Size(m) \in {2, 4}
        BY PlacesOf
      <4>2. 1 \in 1 .. Size(m) /\ Size(m) \in 0 .. Size(m)
        BY <4>1
      <4> DEFINE x == <<b + 1, TokensOf(m)[1]>>
      <4>3. x \in Held(m)'
        BY <2>2, <4>2 DEF Lines
      <4> HIDE DEF x
      <4>4. x \in Fresh
        BY <3>1, <4>3 DEF Records
      <4>5. Base(z) <= Base(x)
        BY <1>2, <4>4 DEF Latest
      <4> QED
        BY <1>2, <2>1, <2>3, <2>4, <4>3, <4>5
    <3> QED
      BY <3>1 DEF Quiet, Forges, Records, HeldSame
  <2>6. ASSUME NEW x \in Held(m)
        PROVE  Genuine(x)
    <3>1. Genuine(x)' /\ x \in Nat \X AllTokens /\ Base(x) = b
      BY <2>2, <2>4, <2>5
    <3>2. CASE created' = created
      BY <3>1, <3>2 DEF Genuine, Exists, ShareToken
    <3>3. CASE Forges
      <4>1. /\ Len(created') \in Nat
            /\ DOMAIN created = 1 .. L /\ DOMAIN created' = 1 .. Len(created')
            /\ \A g \in 1 .. L : created'[g] = created[g]
            /\ \A g \in (L + 1) .. Len(created') :
                 g - L \in 1 .. Size(Current) /\ created'[g] = TokensOf(Current)[g - L]
        BY <3>3, ForgesCreate DEF Typed
      <4>2. x[1] \in DOMAIN created' /\ created'[x[1]] = x[2] /\ x[1] \in Nat
        BY <3>1, PairOf DEF Genuine, Exists, ShareToken
      <4>3. CASE x[1] <= L
        <5>1. x[1] \in 1 .. L
          BY <1>2, <4>1, <4>2, <4>3
        <5> QED
          BY <4>1, <4>2, <5>1 DEF Genuine, Exists, ShareToken
      <4>4. CASE x[1] > L
        <5>1. x[1] - L \in 1 .. Size(Current) /\ x[2] = TokensOf(Current)[x[1] - L]
          <6>1. x[1] \in (L + 1) .. Len(created')
            BY <1>2, <4>1, <4>2, <4>4
          <6> QED
            BY <4>1, <4>2, <6>1
        <5>2. Place(x[2]) = x[1] - L
          BY <3>3, <5>1, PlacesOf DEF Forges
        <5>3. Base(x) = L
          BY <1>2, <4>2, <5>2 DEF Base
        <5> QED
          BY <1>2, <2>3, <3>1, <5>3
      <4> QED
        BY <1>2, <4>2, <4>3, <4>4
    <3> QED
      BY <3>2, <3>3 DEF Quiet, Records
  <2> QED
    BY <2>1, <2>2, <2>3, <2>5, <2>6 DEF Deployed
<1> QED
  BY <1>2, <1>3 DEF Newest

\* What the bundles shadow they still shadow after every step but a build.
LEMMA ShadowedStays ==
  ASSUME Typed, RunsOK, Latest, Shadowed, Quiet \/ Forges \/ Records
  PROVE  Shadowed'
<1>1. out' = out /\ Bundles' = Bundles
  BY DEF Quiet, Forges, Records, Bundles
<1> QED
  BY <1>1, NewestBefore DEF Shadowed

-----------------------------------------------------------------------------
(* The bundles are written *)

\* Two pairs of gauges on chain are the same when the gauges are, and a gauge on chain
\* is not later than the beginning of a later run.
LEMMA ApartGauges ==
  ASSUME Apart, NEW x \in Known, NEW y \in Known, Genuine(x)
  PROVE  /\ Genuine(y) /\ x[1] = y[1] /\ x \in Nat \X AllTokens /\ y \in Nat \X AllTokens => x = y
         /\ Base(x) \in Int /\ Base(y) \in Int /\ Base(x) < Base(y) => x[1] <= Base(y)
<1>1. Genuine(y) /\ x[1] = y[1] => x[2] = y[2]
  BY DEF Genuine, ShareToken
<1>2. Base(y) <= Base(x) \/ x[1] <= Base(y)
  BY DEF Apart
<1> QED
  BY <1>1, <1>2, PairOf

\* When the record of a market has not all its gauges, and the unnumbered file still
\* has a line of an earlier run with a gauge that a later run took, the gauges of all
\* records fit one file: those up to the earlier run are in the file, and the few others
\* are not more than the lines of that run.
LEMMA FewGauges ==
  ASSUME Typed, RunsOK, Apart, Latest, Filled, NEW z \in Bundles, Newest(z),
         ~ \E b \in Nat : Held(z[2].market) = Lines(z[2].market, b, Size(z[2].market)),
         NEW y \in out[0], y[2].market = z[2].market, Base(y) < Base(z), y[1] > Base(z)
  PROVE  GaugesPerFile = 0 \/ Cardinality(Gauges(BundleEntries)) <= GaugesPerFile
<1> DEFINE m == z[2].market
           S == Gauges(BundleEntries)
           F0 == Gauges(out[0])
           B == Base(y)
           Z == Base(z)
           p == Place(y[2])
           old == {g \in S : g <= B}
           new == {g \in S : g > B}
           k0 == IF p <= 2 THEN 2 ELSE 4
           run == (B + 1) .. (B + k0)
<1>1. /\ \A x \in Known : x \in Nat \X AllTokens /\ x[2].market \in Markets
                          /\ Base(x) \in Nat /\ Base(x) <= Len(created)
                          /\ Place(x[2]) \in 1 .. 4 /\ x[1] \in Nat /\ x[1] = Base(x) + Place(x[2])
      /\ z \in Known /\ y \in Known /\ y \in Bundles /\ out[0] \subseteq Known
      /\ Len(created) \in Nat
  <2>1. /\ z \in Known /\ y \in Known /\ y \in Bundles /\ out[0] \subseteq Known
        /\ Len(created) \in Nat
    BY KnownType DEF Typed
  <2>2. ASSUME NEW x \in Known
        PROVE  /\ x \in Nat \X AllTokens /\ x[2].market \in Markets
               /\ Base(x) \in Nat /\ Base(x) <= Len(created)
               /\ Place(x[2]) \in 1 .. 4 /\ x[1] \in Nat /\ x[1] = Base(x) + Place(x[2])
    <3>1. x \in Nat \X AllTokens /\ Base(x) \in 0 .. Len(created)
      BY KnownType DEF Typed
    <3>2. /\ x[1] \in Nat /\ x[2].market \in Markets /\ x[1] = Base(x) + Place(x[2])
          /\ Place(x[2]) \in 1 .. Size(x[2].market)
      BY <3>1, PairOf
    <3>3. Size(x[2].market) \in {2, 4}
      BY <3>2, PlacesOf
    <3> QED
      BY <2>1, <3>1, <3>2, <3>3
  <2> QED
    BY <2>1, <2>2
<1>2. /\ m \in Markets /\ B \in Nat /\ Z \in Nat /\ B < Z
      /\ p \in 2 .. 4 /\ Z <= B + p - 1
  BY <1>1
<1>3. S \in SUBSET Nat /\ IsFiniteSet(S) /\ Cardinality(S) \in Nat
  BY GaugesCounted DEF Typed
<1>4. IsFiniteSet(F0) /\ Cardinality(F0) \in Nat
  <2>1. F0 \in SUBSET Nat /\ \A g \in F0 : g <= Len(created) + 4
    <3>1. ASSUME NEW x \in out[0] PROVE x[1] \in Nat /\ x[1] <= Len(created) + 4
      <4>1. /\ Base(x) \in Nat /\ Base(x) <= Len(created) /\ Place(x[2]) \in 1 .. 4
            /\ x[1] = Base(x) + Place(x[2]) /\ Len(created) \in Nat
        BY <1>1
      <4> QED
        BY <4>1
    <3> QED
      BY <3>1 DEF Gauges
  <2>2. Len(created) + 4 \in Nat
    BY <1>1
  <2> QED
    BY <2>1, <2>2, FS_BoundedSetOfNaturals, FS_CardinalityType
<1>5. old \subseteq F0
  <2>1. ASSUME NEW g \in old PROVE g \in F0
    <3>1. PICK x \in BundleEntries : x[1] = g
      BY DEF Gauges
    <3>2. x[2].market \in Markets /\ x \in Held(x[2].market) /\ x \in Known
      BY <1>1, EntriesHeld DEF Typed, Known
    <3>3. Base(x) < B
      <4>1. Base(x) \in Nat /\ Place(x[2]) \in 1 .. 4 /\ x[1] = Base(x) + Place(x[2])
        BY <1>1, <3>2
      <4>2. x[1] <= B
        BY <2>1, <3>1
      <4> QED
        BY <1>2, <4>1, <4>2
    <3>4. x \in out[0]
      BY <1>1, <3>2, <3>3 DEF Latest
    <3> QED
      BY <3>1, <3>4 DEF Gauges
  <2> QED
    BY <2>1
<1>6. run \subseteq F0
  <2>1. y \in OfMarket(m, out[0]) /\ Run(m, OfMarket(m, out[0]))
    BY <1>2 DEF OfMarket, RunsOK
  <2>2. PICK n \in {2, 4} : n <= Size(m) /\ p <= n /\ OfMarket(m, out[0]) = Lines(m, B, n)
    BY <1>2, <2>1, RunOf DEF Typed
  <2>3. n \in 0 .. Size(m) /\ k0 <= n
    BY <1>2, <2>2, PlacesOf
  <2>4. ASSUME NEW g \in run PROVE g \in F0
    <3>1. g - B \in 1 .. n
      BY <1>2, <2>3
    <3>2. <<B + (g - B), TokensOf(m)[g - B]>> \in Lines(m, B, n)
      BY <1>2, <2>3, <3>1, LineOf
    <3>3. B + (g - B) = g
      BY <1>2
    <3>4. <<g, TokensOf(m)[g - B]>> \in out[0]
      BY <2>2, <3>2, <3>3 DEF OfMarket
    <3> QED
      BY <3>4 DEF Gauges
  <2> QED
    BY <2>4
<1>7. PICK b \in Nat : \A x \in Held(m) : x[1] \in (b + 1) .. (b + 2)
  <2>1. PICK b \in 0 .. Len(created), n \in {0, 2, 4} : n <= Size(m) /\ Held(m) = Lines(m, b, n)
    BY <1>2 DEF RunsOK, Run
  <2>2. b \in Nat /\ n \in 0 .. Size(m)
    BY <1>1, <1>2, <2>1, PlacesOf
  <2>3. n # Size(m)
    BY <2>1, <2>2
  <2>4. n \in 0 .. 2
    BY <1>2, <2>1, <2>3, PlacesOf
  <2>5. \A x \in Held(m) : Place(x[2]) \in 1 .. n /\ x[1] = b + Place(x[2])
    BY <1>2, <2>1, <2>2, LineOf
  <2>6. ASSUME NEW x \in Held(m)
        PROVE  x[1] \in (b + 1) .. (b + 2)
    <3>1. Place(x[2]) \in 1 .. n /\ x[1] = b + Place(x[2])
      BY <2>5
    <3> QED
      BY <2>2, <2>4, <3>1
  <2> QED
    BY <2>2, <2>6
<1>8. ASSUME NEW k \in Markets, k # m, NEW x \in Held(k), x[1] > B
      PROVE  /\ x \in Known /\ Genuine(x) /\ Base(x) \in B .. (B + 1) /\ p > 2
             /\ x[1] \in (Base(x) + 1) .. (Base(x) + 2)
             /\ \E w \in Known : Genuine(w) /\ Base(w) = Base(x) /\ w[1] = Base(x) + 2
  <2>1. PICK c \in 0 .. Len(created) : c < Z /\ Deployed(k, c)
    BY <1>8 DEF Newest
  <2>2. /\ Held(k) = Lines(k, c, Size(k)) /\ \A w \in Held(k) : Genuine(w)
        /\ c \in Nat /\ Size(k) \in {2, 4} /\ Size(k) \in 0 .. Size(k)
    BY <1>1, <2>1, PlacesOf DEF Deployed
  <2>3. /\ x[2].market = k /\ Base(x) = c /\ Place(x[2]) \in 1 .. Size(k) /\ x[1] = c + Place(x[2])
        /\ \A i \in 1 .. Size(k) : <<c + i, TokensOf(k)[i]>> \in Held(k)
        /\ \A w \in Held(k) : Base(w) = c
    BY <1>8, <2>2, LineOf
  <2>4. \A w \in Held(k) : w \in Known
    BY KnownType DEF Typed
  <2>5. B <= c
    <3>1. B <= Base(x) \/ x[1] <= B
      BY <1>1, <1>8, <2>2, <2>4 DEF Apart
    <3> QED
      BY <1>1, <1>2, <1>8, <2>3, <2>4, <3>1
  <2> DEFINE w == <<c + Size(k), TokensOf(k)[Size(k)]>>
  <2>6. w \in Held(k) /\ w[1] = c + Size(k)
    BY <2>2, <2>3
  <2> HIDE DEF w
  <2>7. Genuine(w) /\ w \in Known /\ Base(w) = c
    BY <2>2, <2>3, <2>4, <2>6
  <2>8. w[1] <= Z
    <3>1. Z <= Base(w) \/ w[1] <= Z
      BY <1>1, <2>7 DEF Apart
    <3> QED
      BY <1>2, <2>1, <2>2, <2>7, <3>1
  <2>9. Size(k) = 2 /\ c \in B .. (B + 1) /\ p > 2
    BY <1>2, <2>2, <2>5, <2>6, <2>8
  <2> QED
    BY <1>8, <2>2, <2>3, <2>4, <2>6, <2>7, <2>9
<1>9. IsFiniteSet(old) /\ IsFiniteSet(new) /\ Cardinality(S) = Cardinality(old) + Cardinality(new)
      /\ Cardinality(old) \in Nat /\ Cardinality(new) \in Nat
  <2>1. IsFiniteSet(old) /\ IsFiniteSet(new)
    BY <1>3, FS_Subset
  <2>2. old \cup new = S /\ old \cap new = {}
    BY <1>2, <1>3
  <2>3. Cardinality(old \cup new) = Cardinality(old) + Cardinality(new) - Cardinality(old \cap new)
    BY <2>1, FS_Union
  <2>4. Cardinality(old) \in Nat /\ Cardinality(new) \in Nat
    BY <2>1, FS_CardinalityType
  <2>5. Cardinality(old \cap new) = 0
    BY <2>2, FS_EmptySet
  <2> HIDE DEF old, new, S
  <2>6. Cardinality(S) = Cardinality(old \cup new)
    BY <2>2, Zenon
  <2> QED
    BY <2>1, <2>3, <2>4, <2>5, <2>6
<1>10. \A a \in Nat : IsFiniteSet((a + 1) .. (a + 2)) /\ Cardinality((a + 1) .. (a + 2)) = 2
  <2> TAKE a \in Nat
  <2> DEFINE lo == a + 1
             hi == a + 2
  <2>1. lo \in Int /\ hi \in Int /\ hi - lo + 1 = 2 /\ ~(lo > hi)
    OBVIOUS
  <2> HIDE DEF lo, hi
  <2>2. IsFiniteSet(lo .. hi) /\ Cardinality(lo .. hi) = IF lo > hi THEN 0 ELSE hi - lo + 1
    BY <2>1, FS_Interval
  <2>3. IsFiniteSet(lo .. hi) /\ Cardinality(lo .. hi) = 2
    BY <2>1, <2>2
  <2> QED
    BY <2>3 DEF lo, hi
<1>11. Cardinality(new) <= k0
  <2>1. ASSUME NEW g \in new
        PROVE  \E k \in Markets : \E x \in Held(k) : x[1] = g /\ x[1] > B
    <3>1. PICK x \in BundleEntries : x[1] = g
      BY DEF Gauges
    <3>2. x[1] > B
      BY <2>1, <3>1
    <3> QED
      BY <3>1, <3>2, EntriesHeld
  <2>2. CASE \A k \in Markets : \A x \in Held(k) : x[1] > B => k = m
    <3>1. new \in SUBSET ((b + 1) .. (b + 2))
      BY <1>7, <2>1, <2>2
    <3>2. Cardinality(new) <= 2
      BY <1>10, <3>1, FS_Subset
    <3> QED
      BY <1>2, <1>9, <3>2
  <2>3. ASSUME NEW k \in Markets, NEW x \in Held(k), x[1] > B, k # m
        PROVE  Cardinality(new) <= k0
    <3> DEFINE c == Base(x)
    <3>1. c \in Nat /\ c \in B .. (B + 1) /\ k0 = 4 /\ x \in Known
      BY <1>1, <1>2, <1>8, <2>3
    <3>2. PICK w \in Known : Genuine(w) /\ Base(w) = c /\ w[1] = c + 2
      BY <1>8, <2>3
    <3>3. ASSUME NEW j \in Markets, j # m, NEW u \in Held(j), u[1] > B
          PROVE  u[1] \in (c + 1) .. (c + 2)
      <4>1. /\ u \in Known /\ Base(u) \in B .. (B + 1)
            /\ u[1] \in (Base(u) + 1) .. (Base(u) + 2)
        BY <1>8, <3>3
      <4>2. PICK v \in Known : Genuine(v) /\ Base(v) = Base(u) /\ v[1] = Base(u) + 2
        BY <1>8, <3>3
      <4>3. Base(u) <= c \/ c + 2 <= Base(u)
        BY <3>2, <4>1 DEF Apart
      <4>4. c <= Base(u) \/ Base(u) + 2 <= c
        BY <3>1, <4>2 DEF Apart
      <4>5. Base(u) = c
        BY <1>2, <3>1, <4>1, <4>3, <4>4
      <4> QED
        BY <4>1, <4>5
    <3> HIDE DEF c
    <3> DEFINE D == ((b + 1) .. (b + 2)) \cup ((c + 1) .. (c + 2))
    <3>4. \A g \in new : g \in D
      <4> TAKE g \in new
      <4>1. PICK j \in Markets : \E u \in Held(j) : u[1] = g /\ u[1] > B
        BY <2>1
      <4>2. PICK u \in Held(j) : u[1] = g /\ u[1] > B
        BY <4>1
      <4>3. CASE j = m
        BY <1>7, <4>2, <4>3
      <4>4. CASE j # m
        BY <3>3, <4>2, <4>4
      <4> QED
        BY <4>3, <4>4
    <3>5. IsFiniteSet(D) /\ Cardinality(D) <= 4
      <4> DEFINE D1 == (b + 1) .. (b + 2)
                 D2 == (c + 1) .. (c + 2)
      <4>1. /\ IsFiniteSet(D1) /\ Cardinality(D1) = 2
            /\ IsFiniteSet(D2) /\ Cardinality(D2) = 2
        BY <1>10, <3>1
      <4> HIDE DEF D1, D2
      <4>2. /\ IsFiniteSet(D1 \cup D2)
            /\ Cardinality(D1 \cup D2) = Cardinality(D1) + Cardinality(D2) - Cardinality(D1 \cap D2)
        BY <4>1, FS_Union
      <4>3. Cardinality(D1 \cap D2) \in Nat
        BY <4>1, FS_Intersection, FS_CardinalityType
      <4> QED
        BY <4>1, <4>2, <4>3 DEF D1, D2
    <3> HIDE DEF D
    <3>6. Cardinality(new) <= Cardinality(D) /\ Cardinality(D) \in Nat
      <4>1. new \in SUBSET D
        BY <3>4
      <4> QED
        BY <3>5, <4>1, FS_Subset, FS_CardinalityType
    <3> HIDE DEF new
    <3> QED
      BY <1>9, <3>1, <3>5, <3>6
  <2> QED
    BY <2>2, <2>3
<1>12. Cardinality(old) + k0 <= Cardinality(F0)
  <2>1. IsFiniteSet(run) /\ Cardinality(run) = k0
    <3> DEFINE lo == B + 1
               hi == B + k0
    <3>1. lo \in Int /\ hi \in Int /\ hi - lo + 1 = k0 /\ ~(lo > hi)
      BY <1>2
    <3> HIDE DEF lo, hi, k0
    <3>2. IsFiniteSet(lo .. hi) /\ Cardinality(lo .. hi) = IF lo > hi THEN 0 ELSE hi - lo + 1
      BY <3>1, FS_Interval
    <3> QED
      BY <3>1, <3>2 DEF lo, hi
  <2>2. old \cap run = {}
    BY <1>2
  <2>3. old \cup run \in SUBSET F0
    BY <1>5, <1>6
  <2> HIDE DEF old, run, F0, k0
  <2>4. Cardinality(old \cup run) = Cardinality(old) + Cardinality(run) - Cardinality(old \cap run)
    BY <1>9, <2>1, FS_Union
  <2>5. Cardinality(old \cup run) <= Cardinality(F0)
    BY <1>4, <2>3, FS_Subset
  <2>6. Cardinality(old \cap run) = 0
    BY <2>2, FS_EmptySet
  <2>7. k0 \in Nat
    BY DEF k0
  <2> QED
    BY <1>4, <1>9, <2>1, <2>4, <2>5, <2>6, <2>7
<1>13. GaugesPerFile = 0 \/ Cardinality(F0) <= GaugesPerFile
  BY DEF Filled
<1> HIDE DEF S, F0, old, new
<1>14. Cardinality(S) <= Cardinality(F0)
  BY <1>4, <1>9, <1>11, <1>12
<1>15. GaugesPerFile \in Nat
  BY ConstantsOK
<1> QED
  BY <1>3, <1>4, <1>13, <1>14, <1>15 DEF S

\* When the other markets have their gauges and the record of the market all of its own,
\* each share token has a gauge in the records.
LEMMA AllGauges ==
  ASSUME Typed, RunsOK, Apart, NEW m \in Markets, NEW b \in Nat,
         Held(m) = Lines(m, b, Size(m)),
         \A k \in Markets \ {m} : \E c \in 0 .. Len(created) : c < b /\ Deployed(k, c)
  PROVE  Cardinality(Gauges(BundleEntries)) = Cardinality(AllTokens)
<1>1. \A k \in Markets : Size(k) \in 0 .. Size(k)
  BY PlacesOf
<1>2. \A x \in Held(m) : x \in Nat \X AllTokens /\ x[2].market = m /\ Base(x) = b /\ x[1] > b
  BY <1>1, LineOf
<1>3. ASSUME NEW k \in Markets \ {m}
      PROVE  \E c \in 0 .. Len(created) : c < b /\ Held(k) = Lines(k, c, Size(k))
  BY DEF Deployed
<1>4. ASSUME NEW k \in Markets \ {m}, NEW x \in Held(k)
      PROVE  Genuine(x) /\ Base(x) < b /\ Base(x) \in Nat /\ x \in Nat \X AllTokens
  <2>1. PICK c \in 0 .. Len(created) : c < b /\ Deployed(k, c)
    OBVIOUS
  <2>2. c \in Nat /\ Held(k) = Lines(k, c, Size(k)) /\ Genuine(x)
    BY <1>4, <2>1 DEF Deployed
  <2>3. Base(x) = c /\ x \in Nat \X AllTokens
    BY <1>1, <1>4, <2>2, LineOf
  <2> QED
    BY <2>1, <2>2, <2>3
<1>5. \A x \in BundleEntries : x[2].market \in Markets /\ x \in Held(x[2].market) /\ x \in Known
  <2> TAKE x \in BundleEntries
  <2>1. PICK k \in Markets : x \in Held(k)
    BY EntriesHeld
  <2>2. x[2].market = k
    BY <2>1, RunOf DEF RunsOK, Typed
  <2> QED
    BY <2>1, <2>2 DEF Known
<1>6. ASSUME NEW t \in AllTokens
      PROVE  \E x \in BundleEntries : x[2] = t
  <2>1. /\ t.market \in Markets /\ Place(t) \in 1 .. Size(t.market)
        /\ t = TokensOf(t.market)[Place(t)]
    BY TokenOf
  <2>2. PICK c \in Nat : Held(t.market) = Lines(t.market, c, Size(t.market))
    <3>1. CASE t.market = m
      BY <3>1
    <3>2. CASE t.market # m
      BY <1>3, <2>1, <3>2
    <3> QED
      BY <3>1, <3>2
  <2> DEFINE x == <<c + Place(t), TokensOf(t.market)[Place(t)]>>
  <2>3. x \in Held(t.market) /\ x[2] = t
    BY <2>1, <2>2 DEF Lines
  <2> HIDE DEF x
  <2> QED
    BY <2>1, <2>3, EntriesHeld
<1>7. ASSUME NEW x \in BundleEntries, NEW y \in BundleEntries, x[1] = y[1],
             x[2].market = m, y[2].market # m
      PROVE  FALSE
  <2>1. Genuine(y) /\ Base(y) < b /\ Base(y) \in Nat
    BY <1>4, <1>5, <1>7
  <2>2. Base(x) = b /\ x[1] > b /\ x[1] \in Nat
    BY <1>2, <1>5, <1>7, PairOf
  <2>3. y[1] <= Base(x)
    BY <1>5, <2>1, <2>2, ApartGauges
  <2> QED
    BY <1>7, <2>2, <2>3
<1>8. ASSUME NEW x \in BundleEntries, NEW y \in BundleEntries, x[1] = y[1]
      PROVE  x = y
  <2>1. CASE x[2].market = m /\ y[2].market = m
    BY <1>5, <1>8, <2>1, RunBase DEF RunsOK, Typed
  <2>2. CASE x[2].market # m /\ y[2].market # m
    <3>1. Genuine(x) /\ Genuine(y) /\ x \in Nat \X AllTokens /\ y \in Nat \X AllTokens
      BY <1>4, <1>5, <2>2
    <3> QED
      BY <1>5, <1>8, <3>1, ApartGauges
  <2>3. CASE (x[2].market = m) # (y[2].market = m)
    BY <1>7, <1>8, <2>3
  <2> QED
    BY <2>1, <2>2, <2>3
<1> QED
  BY <1>6, <1>8, GaugesCounted DEF Typed

\* Writing the bundles leaves no line of an earlier run in a numbered file, nor the
\* only trace of a gauge in the unnumbered one.
LEMMA ShadowedBuilt ==
  ASSUME Typed, RunsOK, Apart, Latest, Filled, Shadowed, Builds
  PROVE  Shadowed'
<1> SUFFICES ASSUME NEW z, NEW y, z \in Bundles', y \in Bundles', Newest(z)',
                    y[2].market = z[2].market, Base(y) < Base(z)
             PROVE  /\ \A i \in DOMAIN out' \ {0} : y \notin out'[i]
                    /\ y[1] > Base(z) =>
                         \E x \in Bundles' :
                           x[2].market = z[2].market /\ Base(x) = Base(z) /\ x[1] = y[1]
  BY DEF Shadowed
<1> DEFINE m == z[2].market
           N == Cardinality(Gauges(BundleEntries))
           F == GaugesPerFile
           Full == \E b \in Nat : Held(m) = Lines(m, b, Size(m))
<1>1. /\ BuildBundles /\ created' = created /\ created \in Seq(Token) /\ HeldSame
      /\ DOMAIN out' = DOMAIN out
      /\ \A i \in DOMAIN out : out'[i] \subseteq BundleEntries \/ out'[i] = out[i]
      /\ BundleEntries \subseteq Bundles' /\ Bundles' \subseteq Bundles \cup BundleEntries
      /\ out'[0] = BundleEntries \/ out'[0] = out[0]
  BY Written DEF Builds, Typed
<1>2. /\ \A x \in Known : x \in Nat \X AllTokens /\ Base(x) \in Nat
      /\ z \in Known /\ y \in Known
  BY <1>1, KnownType DEF Typed, Known
<1>3. m \in Markets /\ Place(z[2]) = Size(m) /\ Size(m) \in {2, 4}
  BY <1>2, PairOf, PlacesOf DEF Newest
<1>4. \A k \in Markets \ {m} : \E c \in 0 .. Len(created) : c < Base(z) /\ Deployed(k, c)
  <2> TAKE k \in Markets \ {m}
  <2>1. PICK c \in 0 .. Len(created') : c < Base(z) /\ Deployed(k, c)'
    BY DEF Newest
  <2>2. Deployed(k, c)
    BY <1>1, <2>1 DEF Deployed, HeldSame, Genuine, Exists, ShareToken
  <2> QED
    BY <1>1, <2>1, <2>2
<1>5. \A x \in BundleEntries : x[2].market = m => x \in Held(m)
  BY EntriesHeld DEF Typed
<1>6. \A x \in Held(m) : Base(z) <= Base(x)
  <2> TAKE x \in Held(m)
  <2>1. CASE z \in Bundles
    BY <1>3, <2>1 DEF Latest
  <2>2. CASE z \in BundleEntries
    <3>1. z \in Held(m)
      BY <1>5, <2>2
    <3>2. Base(z) = Base(x)
      BY <1>3, <3>1, RunBase DEF RunsOK, Typed
    <3> QED
      BY <1>2, <3>2
  <2> QED
    BY <1>1, <2>1, <2>2
<1>7. y \notin BundleEntries /\ y \in Bundles
  <2>1. y \notin Held(m)
    BY <1>2, <1>6
  <2> QED
    BY <1>1, <1>5, <2>1
<1>8. \A i \in DOMAIN out : y \in out'[i] => out'[i] = out[i]
  BY <1>1, <1>7
<1>9. N \in Nat /\ F \in Nat /\ Cardinality(AllTokens) \in Nat /\ 0 \in DOMAIN out
      /\ DOMAIN out = 0 .. 4 * Len(MarketList) /\ Len(MarketList) \in Nat
  BY <1>1, GaugesCounted, TokenCount, FS_CardinalityType, ConstantsOK, KnownType DEF Typed
<1>10. F = 0 \/ N <= F => /\ out'[0] = BundleEntries
                          /\ \A i \in DOMAIN out \ {0} : out'[i] = out[i]
  BY <1>1, WrittenWhole
<1>11. CASE Full
  <2>1. PICK b \in Nat : Held(m) = Lines(m, b, Size(m))
    BY <1>11
  <2>2. /\ Size(m) \in 0 .. Size(m) /\ 1 \in 1 .. Size(m)
        /\ \A x \in Held(m) : Base(x) = b
    BY <1>3, <2>1, LineOf
  <2>3. Base(z) <= b
    <3>1. <<b + 1, TokensOf(m)[1]>> \in Held(m)
      BY <2>1, <2>2 DEF Lines
    <3> QED
      BY <1>6, <2>2, <3>1
  <2>4. N = Cardinality(AllTokens)
    <3>1. \A k \in Markets \ {m} : \E c \in 0 .. Len(created) : c < b /\ Deployed(k, c)
      <4> TAKE k \in Markets \ {m}
      <4>1. PICK c \in 0 .. Len(created) : c < Base(z) /\ Deployed(k, c)
        BY <1>4
      <4>2. c < b
        BY <1>2, <2>3, <4>1
      <4> QED
        BY <4>1, <4>2
    <3> QED
      BY <1>3, <2>1, <3>1, AllGauges
  <2>5. \A i \in DOMAIN out \ {0} : out'[i] \subseteq BundleEntries
    <3> TAKE i \in DOMAIN out \ {0}
    <3>1. out[i] # {} => F > 0 /\ F < N /\ (i - 1) * F < N
      BY <2>4 DEF Filled
    <3>2. CASE F = 0 \/ N <= F
      BY <1>9, <1>10, <3>1, <3>2
    <3>3. CASE F > 0 /\ N > F
      <4>1. /\ (i - 1) * F < N => out'[i] \subseteq BundleEntries
            /\ (i - 1) * F >= N => out'[i] = out[i]
        BY <1>1, <3>3, WrittenParts
      <4>2. (i - 1) * F \in Nat
        BY <1>9
      <4> QED
        BY <1>9, <3>1, <4>1, <4>2
    <3> QED
      BY <1>9, <3>2, <3>3
  <2>6. \A i \in DOMAIN out' \ {0} : y \notin out'[i]
    BY <1>1, <1>7, <2>5
  <2>7. y \in out'[0] /\ out'[0] = out[0]
    <3>1. y \in out'[0]
      BY <1>1, <2>6 DEF Bundles, Range
    <3> QED
      BY <1>8, <1>9, <3>1
  <2>8. z \in Held(m)
    <3>1. ASSUME z \in out[0] PROVE FALSE
      <4>1. z \in OfMarket(m, out[0]) /\ y \in OfMarket(m, out[0]) /\ Run(m, OfMarket(m, out[0]))
        BY <1>3, <2>7, <3>1 DEF OfMarket, RunsOK
      <4>2. Base(z) = Base(y)
        BY <1>3, <4>1, RunBase DEF Typed
      <4> QED
        BY <1>2, <4>2
    <3>2. PICK i \in DOMAIN out' : z \in out'[i]
      BY DEF Bundles, Range
    <3>3. z \in BundleEntries
      BY <1>1, <2>5, <2>7, <3>1, <3>2
    <3> QED
      BY <1>5, <3>3
  <2>9. ASSUME y[1] > Base(z)
        PROVE  \E x \in Bundles' : x[2].market = m /\ Base(x) = Base(z) /\ x[1] = y[1]
    <3> DEFINE i == y[1] - b
               x == <<b + i, TokensOf(m)[i]>>
    <3>1. b = Base(z)
      BY <2>2, <2>8
    <3>2. y[1] \in Nat /\ y[1] = Base(y) + Place(y[2]) /\ Place(y[2]) \in 1 .. Size(m)
      BY <1>2, PairOf
    <3>3. i \in 1 .. Size(m) /\ b + i = y[1]
      BY <1>2, <1>3, <2>9, <3>1, <3>2
    <3>4. x \in Held(m) /\ x[1] = y[1]
      BY <2>1, <3>3 DEF Lines
    <3> HIDE DEF x, i
    <3>5. x[2].market = m /\ Base(x) = Base(z)
      BY <2>1, <2>2, <3>1, <3>4, LineOf, <1>3
    <3>6. x \in Bundles'
      BY <1>1, <1>3, <3>4, EntriesHeld
    <3> QED
      BY <3>4, <3>5, <3>6
  <2> QED
    BY <2>6, <2>9
<1>12. CASE ~Full
  <2>1. z \notin BundleEntries
    <3>1. ASSUME z \in Held(m) PROVE FALSE
      <4>1. PICK n \in {2, 4} : n <= Size(m) /\ Place(z[2]) <= n /\ Held(m) = Lines(m, Base(z), n)
        BY <1>3, <3>1, RunOf DEF RunsOK, Typed
      <4>2. n = Size(m)
        BY <1>3, <4>1
      <4> QED
        BY <1>2, <1>12, <4>1, <4>2
    <3> QED
      BY <1>5, <3>1
  <2>2. z \in Bundles /\ Newest(z)
    BY <1>1, <1>3, <1>4, <2>1 DEF Newest
  <2>3. \A i \in DOMAIN out \ {0} : y \notin out[i]
    BY <1>7, <2>2 DEF Shadowed
  <2>4. \A i \in DOMAIN out' \ {0} : y \notin out'[i]
    BY <1>1, <1>8, <2>3
  <2>5. y \in out'[0] /\ out'[0] = out[0]
    <3>1. y \in out'[0]
      BY <1>1, <2>4 DEF Bundles, Range
    <3> QED
      BY <1>8, <1>9, <3>1
  <2>6. ~(F = 0 \/ N <= F)
    BY <1>7, <1>10, <2>5
  <2>7. ~(y[1] > Base(z))
    BY <1>12, <2>2, <2>5, <2>6, FewGauges
  <2> QED
    BY <2>4, <2>7
<1> QED
  BY <1>11, <1>12

\* The invariant of the bundles holds when there are none,
LEMMA BundlesInit == Init => BundlesOK
<1> SUFFICES ASSUME Init PROVE RunsOK /\ Apart /\ Latest /\ Filled /\ Shadowed
  BY DEF BundlesOK
<1>1. /\ created = << >> /\ pc = "idle" /\ out = [i \in 0 .. 4 * Len(MarketList) |-> {}]
      /\ progress = [m \in Markets |-> NoRecord] /\ Len(MarketList) \in Nat
  BY ConstantsOK DEF Init
<1>2. \A m \in Markets : Held(m) = {}
  BY <1>1 DEF Held, Recorded
<1>3. /\ 0 \in DOMAIN out /\ \A i \in DOMAIN out : out[i] = {}
      /\ Bundles = {} /\ Fresh = {}
  BY <1>1 DEF Bundles, Range, Fresh
<1>4. RunsOK
  <2>1. ASSUME NEW m \in Markets
        PROVE  Run(m, {})
    <3>1. Lines(m, 0, 0) = {} /\ 0 <= Size(m)
      BY PlacesOf DEF Lines
    <3>2. 0 \in 0 .. Len(created)
      BY <1>1
    <3> QED
      BY <3>1, <3>2 DEF Run
  <2>2. \A m \in Markets : OfMarket(m, out[0]) = {}
    BY <1>3 DEF OfMarket
  <2> QED
    BY <1>1, <1>2, <1>3, <2>1, <2>2 DEF RunsOK
<1>5. BundleEntries = {}
  BY <1>2, EntriesHeld
<1>6. Apart /\ Latest /\ Shadowed
  BY <1>3, <1>5 DEF Apart, Latest, Shadowed, Known
<1>7. Filled
  <2>1. Gauges(out[0]) = {}
    BY <1>3 DEF Gauges
  <2>2. Cardinality(Gauges(out[0])) = 0
    BY <2>1, FS_EmptySet
  <2> QED
    BY <1>3, <2>2, ConstantsOK DEF Filled
<1> QED
  BY <1>4, <1>6, <1>7

\* ... and every step keeps it.
LEMMA BundlesKept == IInv /\ BundlesOK /\ [Next]_vars => BundlesOK'
<1> SUFFICES ASSUME IInv, BundlesOK, [Next]_vars, commands' \cap {"sync", "crash"} = {}
             PROVE  RunsOK' /\ Apart' /\ Latest' /\ Filled' /\ Shadowed'
  BY DEF BundlesOK
<1>1. commands' = commands
  BY DEF Next, vars, chain, deployVars, StartDeploy, Deploying, SkipMarket, ForgeReverts, RecordRun,
     FinishDeploy, ForgeSends, BuildBundles, run_step_1, Testing, run_step_2,
     run_step_3_update_gauge_versions, run_step_4_validate_gauge_version,
     run_step_5_validate_gauge_share_token, Sync, ExecuteBundle, InterruptedBuild, Crash,
     Fault, NoFault
<1>2. RunsOK /\ Apart /\ Latest /\ Filled /\ Shadowed
  BY <1>1 DEF BundlesOK
<1>3. Quiet \/ Forges \/ Records \/ Builds
  BY <1>1, StepKinds
<1>4. Typed
  BY CurrentType DEF IInv, TypeOK, Typed
<1>5. RunsOK' /\ Apart' /\ Latest' /\ Filled'
  BY <1>2, <1>3, <1>4, RunsKept, ApartKept, LatestKept, FilledKept
<1>6. Shadowed'
  BY <1>2, <1>3, <1>4, ShadowedStays, ShadowedBuilt
<1> QED
  BY <1>5, <1>6

\* A record of real gauges for all share tokens holds one run with all its lines.
LEMMA RolledOutRecord ==
  ASSUME Typed, RunsOK, NEW m \in Recorded, Real(m, progress[m]), Complete(m, progress[m])
  PROVE  \E b \in 0 .. Len(created) : Deployed(m, b)
<1>1. m \in Markets /\ Held(m) = Pairs(progress[m].entries)
  BY DEF Recorded, Held
<1>2. \A x \in Held(m) : Genuine(x)
  BY <1>1 DEF Pairs, Real, Genuine, Exists, ShareToken
<1>3. PICK b \in 0 .. Len(created), n \in {0, 2, 4} : n <= Size(m) /\ Held(m) = Lines(m, b, n)
  BY <1>1 DEF RunsOK, Run
<1>4. /\ b \in Nat /\ n \in 0 .. Size(m) /\ Size(m) \in {2, 4} /\ DOMAIN TokensOf(m) = 1 .. Size(m)
      /\ Place(TokensOf(m)[Size(m)]) = Size(m)
  BY <1>1, <1>3, PlacesOf DEF Typed
<1>5. TokensOf(m)[Size(m)] \in Range(TokensOf(m))
  BY <1>4 DEF Range
<1>6. PICK e \in progress[m].entries : e.token = TokensOf(m)[Size(m)]
  BY <1>5 DEF Complete
<1>7. <<e.gauge, e.token>> \in Held(m)
  BY <1>1 DEF Pairs
<1>8. Size(m) \in 1 .. n
  <2> DEFINE x == <<e.gauge, e.token>>
  <2>1. x \in Lines(m, b, n) /\ x[2] = e.token
    BY <1>3, <1>7
  <2> HIDE DEF x
  <2>2. Place(x[2]) \in 1 .. n
    BY <1>1, <1>4, <2>1, LineOf
  <2> QED
    BY <1>4, <1>6, <2>1, <2>2
<1>9. n = Size(m)
  BY <1>4, <1>8
<1> QED
  BY <1>2, <1>3, <1>9 DEF Deployed

\* When all markets have their gauges and all gauges are found in the bundles, each pair
\* of the records is in the bundles.
LEMMA FoundIsBundled ==
  ASSUME Typed, RunsOK, Apart, Latest, Shadowed,
         \A m \in Markets : \E b \in 0 .. Len(created) : Deployed(m, b),
         \A m \in Markets : Gauges(Held(m)) \subseteq Gauges(Bundles),
         NEW m \in Markets, NEW e \in Held(m)
  PROVE  e \in Bundles
<1> DEFINE bases == {Base(x) : x \in BundleEntries}
<1>1. /\ \A x \in Known : /\ x \in Nat \X AllTokens /\ x[2].market \in Markets
                          /\ Base(x) \in Nat /\ Base(x) <= Len(created)
                          /\ x[1] \in Nat /\ x[1] = Base(x) + Place(x[2])
                          /\ Place(x[2]) \in 1 .. Size(x[2].market)
      /\ \A k \in Markets : Held(k) \subseteq BundleEntries /\ Held(k) \subseteq Known
      /\ Bundles \subseteq Known /\ BundleEntries \subseteq Known /\ Len(created) \in Nat
  BY KnownType, PairOf DEF Typed
<1>2. ASSUME NEW k \in Markets, NEW x \in Held(k)
      PROVE  /\ Deployed(k, Base(x)) /\ Genuine(x) /\ x[2].market = k
             /\ \A i \in 1 .. Size(k) : <<Base(x) + i, TokensOf(k)[i]>> \in Held(k)
             /\ Size(k) \in {2, 4}
  <2>1. PICK b \in 0 .. Len(created) : Deployed(k, b)
    OBVIOUS
  <2>2. b \in Nat /\ Held(k) = Lines(k, b, Size(k)) /\ Size(k) \in 0 .. Size(k) /\ Genuine(x)
        /\ Size(k) \in {2, 4}
    BY <1>2, <2>1, PlacesOf DEF Deployed
  <2>3. Base(x) = b /\ x[2].market = k
    BY <1>2, <2>2, LineOf
  <2> QED
    BY <2>1, <2>2, <2>3 DEF Lines
<1>3. PICK w \in BundleEntries : \A x \in BundleEntries : Base(x) <= Base(w)
  <2>1. bases \in SUBSET Nat /\ bases # {}
    BY <1>1
  <2>2. IsFiniteSet(bases)
    <3>1. \A g \in bases : g <= Len(created)
      BY <1>1
    <3> QED
      BY <1>1, <2>1, <3>1, FS_BoundedSetOfNaturals
  <2> QED
    BY <2>1, <2>2, Greatest
<1> DEFINE top == w[2].market
           B == Base(w)
           z == <<B + Size(top), TokensOf(top)[Size(top)]>>
<1>4. top \in Markets /\ w \in Held(top) /\ Size(top) \in {2, 4} /\ B \in Nat
  <2>1. top \in Markets /\ w \in Held(top) /\ B \in Nat
    BY <1>1, EntriesHeld DEF Typed
  <2> QED
    BY <1>2, <2>1
<1>5. /\ z \in Held(top) /\ z[1] = B + Size(top) /\ z[2].market = top
      /\ Base(z) = B /\ Place(z[2]) = Size(top)
  <2>1. Size(top) \in 1 .. Size(top)
    BY <1>4
  <2>2. z \in Held(top)
    BY <1>2, <1>4, <2>1
  <2>3. z[1] = B + Size(top) /\ z[2] = TokensOf(top)[Size(top)]
    OBVIOUS
  <2> HIDE DEF z
  <2>4. z[2].market = top /\ Place(z[2]) = Size(top)
    BY <1>4, <2>1, <2>3, PlacesOf
  <2>5. Base(z) = B
    BY <1>4, <2>2, RunBase DEF RunsOK, Typed
  <2> QED
    BY <2>2, <2>3, <2>4, <2>5
<1> HIDE DEF z, top, B
<1>6. ASSUME NEW k \in Markets \ {top}, NEW x \in Held(k)
      PROVE  Base(x) < B /\ Base(x) + Size(k) <= B
  <2>1. /\ Base(x) \in Nat /\ Base(x) <= B /\ Size(k) \in {2, 4}
        /\ \A i \in 1 .. Size(k) : <<Base(x) + i, TokensOf(k)[i]>> \in Held(k)
    BY <1>1, <1>2, <1>3, <1>6 DEF B
  <2>2. Base(x) # B
    <3>1. ASSUME Base(x) = B PROVE FALSE
      <4> DEFINE u == <<B + 1, TokensOf(k)[1]>>
                 v == <<B + 1, TokensOf(top)[1]>>
      <4>1. u \in Held(k) /\ v \in Held(top)
        BY <1>2, <1>4, <2>1, <3>1 DEF B
      <4>2. u[1] = v[1]
        OBVIOUS
      <4> HIDE DEF u, v
      <4>3. /\ Genuine(u) /\ Genuine(v) /\ u \in Known /\ v \in Known
            /\ u \in Nat \X AllTokens /\ v \in Nat \X AllTokens
            /\ u[2].market = k /\ v[2].market = top
        BY <1>1, <1>2, <1>4, <4>1
      <4>4. u = v
        BY <4>2, <4>3, ApartGauges
      <4> QED
        BY <1>6, <4>3, <4>4
    <3> QED
      BY <3>1
  <2> DEFINE last == <<Base(x) + Size(k), TokensOf(k)[Size(k)]>>
  <2>3. last \in Held(k) /\ last[1] = Base(x) + Size(k)
    BY <2>1
  <2> HIDE DEF last
  <2>4. Genuine(last) /\ last \in Known /\ Base(last) = Base(x)
    BY <1>1, <1>2, <1>6, <2>3, RunBase DEF RunsOK, Typed
  <2>5. z \in Known
    BY <1>1, <1>4, <1>5
  <2>6. B <= Base(x) \/ last[1] <= B
    BY <1>5, <2>4, <2>5 DEF Apart
  <2> QED
    BY <1>4, <2>1, <2>2, <2>3, <2>6
<1>7. ASSUME NEW y \in Bundles, y[1] > B
      PROVE  y[2].market = top /\ Base(y) <= B
  <2> DEFINE k == y[2].market
  <2>1. /\ k \in Markets /\ Base(y) \in Nat /\ y[1] = Base(y) + Place(y[2])
        /\ Place(y[2]) \in 1 .. Size(k)
    BY <1>1
  <2>2. CASE k = top
    <3>1. Base(y) <= Base(w)
      BY <1>4, <2>2 DEF Latest
    <3> QED
      BY <2>2, <3>1 DEF B
  <2>3. CASE k # top
    <3>1. PICK b \in 0 .. Len(created) : Deployed(k, b)
      BY <2>1
    <3>2. Size(k) \in {2, 4} /\ Held(k) = Lines(k, b, Size(k))
      BY <2>1, <3>1, PlacesOf DEF Deployed
    <3>3. <<b + 1, TokensOf(k)[1]>> \in Held(k)
      BY <3>2 DEF Lines
    <3>4. PICK x \in Held(k) : TRUE
      BY <3>3
    <3>5. Base(y) <= Base(x) /\ Base(x) \in Nat
      BY <1>1, <2>1, <3>4 DEF Latest
    <3>6. Base(x) + Size(k) <= B
      BY <1>6, <2>1, <2>3, <3>4
    <3> QED
      BY <1>4, <1>7, <2>1, <3>2, <3>5, <3>6
  <2> QED
    BY <2>2, <2>3
<1>8. ASSUME NEW x \in Held(top)
      PROVE  /\ x[1] > B /\ Base(x) = B /\ x[2].market = top /\ x \in Known
             /\ \E y \in Bundles : y[1] = x[1]
  <2>1. Base(x) = B
    BY <1>4, RunBase DEF RunsOK, Typed, B
  <2>2. x \in Known /\ x[2].market = top /\ x[1] > B
    <3>1. x \in Known /\ x[2].market = top
      BY <1>1, <1>2, <1>4
    <3>2. x[1] = Base(x) + Place(x[2]) /\ Place(x[2]) \in 1 .. Size(top)
      BY <1>1, <3>1
    <3> QED
      BY <1>4, <2>1, <3>1, <3>2
  <2>3. \E y \in Bundles : y[1] = x[1]
    BY <1>4 DEF Gauges
  <2> QED
    BY <2>1, <2>2, <2>3
<1>9. ASSUME NEW x \in Held(top), NEW y \in Bundles, y[1] = x[1], Base(y) = B, y[2].market = top
      PROVE  x = y
  <2>1. /\ x \in Nat \X AllTokens /\ y \in Nat \X AllTokens
        /\ Place(x[2]) = Place(y[2])
    <3>1. x \in Known /\ y \in Known /\ x[2].market = top /\ Base(x) = B
      BY <1>1, <1>8
    <3>2. /\ x[1] = B + Place(x[2]) /\ Place(x[2]) \in 1 .. Size(top)
          /\ x \in Nat \X AllTokens
      BY <1>1, <3>1
    <3>3. /\ y[1] = B + Place(y[2]) /\ Place(y[2]) \in 1 .. Size(top)
          /\ y \in Nat \X AllTokens
      BY <1>1, <1>9, <3>1
    <3> QED
      BY <1>4, <1>9, <3>2, <3>3
  <2> QED
    BY <1>8, <1>9, <2>1, PairOf
<1>10. z \in Bundles
  <2>1. PICK y \in Bundles : y[1] = z[1]
    BY <1>5, <1>8
  <2>2. y[2].market = top /\ Base(y) <= B
    BY <1>5, <1>7, <1>8, <2>1
  <2>3. Base(y) = B
    <3>1. /\ Base(y) \in Nat /\ y[1] = Base(y) + Place(y[2])
          /\ Place(y[2]) \in 1 .. Size(top)
      BY <1>1, <2>2
    <3> QED
      BY <1>4, <1>5, <2>1, <2>2, <3>1
  <2> QED
    BY <1>5, <1>9, <2>1, <2>2, <2>3
<1>11. Newest(z)
  <2>1. ASSUME NEW k \in Markets \ {top}
        PROVE  \E b \in 0 .. Len(created) : b < B /\ Deployed(k, b)
    <3>1. PICK b \in 0 .. Len(created) : Deployed(k, b)
      OBVIOUS
    <3>2. /\ b \in Nat /\ Size(k) \in {2, 4} /\ Size(k) \in 0 .. Size(k)
          /\ Held(k) = Lines(k, b, Size(k))
      BY <1>1, <3>1, PlacesOf DEF Deployed
    <3>3. PICK x \in Held(k) : TRUE
      <4>1. <<b + 1, TokensOf(k)[1]>> \in Held(k)
        BY <3>2 DEF Lines
      <4> QED
        BY <4>1
    <3>4. Base(x) = b
      BY <3>2, <3>3, LineOf
    <3> QED
      BY <1>6, <3>1, <3>3, <3>4
  <2> QED
    BY <1>5, <1>10, <2>1 DEF Newest
<1>12. CASE m # top
  <2>1. Base(e) < B
    BY <1>6, <1>12
  <2> QED
    BY <1>5, <1>10, <2>1 DEF Latest
<1>13. CASE m = top
  <2>1. PICK y \in Bundles : y[1] = e[1]
    BY <1>8, <1>13
  <2>2. y[2].market = top /\ Base(y) <= B /\ y[1] > B /\ Base(y) \in Nat
    BY <1>1, <1>7, <1>8, <1>13, <2>1
  <2>3. CASE Base(y) = B
    BY <1>9, <1>13, <2>1, <2>2, <2>3
  <2>4. CASE Base(y) < B
    <3>1. PICK x \in Bundles : x[2].market = top /\ Base(x) = B /\ x[1] = y[1]
      BY <1>5, <1>10, <1>11, <2>2, <2>4 DEF Shadowed
    <3> QED
      BY <1>9, <1>13, <2>1, <3>1
  <2> QED
    BY <1>4, <2>2, <2>3, <2>4
<1> QED
  BY <1>12, <1>13

\* With the invariant a passing QA after a passing test means what it is run for.
LEMMA QAIsRolledOut == IInv /\ BundlesOK => QAMeansRolledOut
<1> SUFFICES ASSUME IInv, BundlesOK, QAPasses, lastTest = "pass", NEW m \in Markets
             PROVE  /\ m \in Recorded
                    /\ \E e \in progress[m].entries :
                         Exists(e.gauge) /\ created[e.gauge].market = m /\ e.gauge \in FoundGauges
                    /\ commands \cap {"sync", "crash"} = {} =>
                         \A t \in Range(TokensOf(m)) :
                           \E x \in UNION Range(out) :
                             x[2] = t /\ Exists(x[1]) /\ created[x[1]] = t
  BY DEF QAMeansRolledOut
<1>1. \A k \in Markets : k \in Recorded
  BY DEF QAPasses, expected_markets_from_v3, Markets
<1>2. ASSUME NEW k \in Markets
      PROVE  /\ progress[k].entries # {} /\ GaugesOf(progress[k]) \subseteq FoundGauges
             /\ Real(k, progress[k])
  BY <1>1 DEF IInv, TestOK, Bundled
<1>3. \E e \in progress[m].entries :
        Exists(e.gauge) /\ created[e.gauge].market = m /\ e.gauge \in FoundGauges
  BY <1>2 DEF GaugesOf, Real
<1>4. ASSUME commands \cap {"sync", "crash"} = {}, NEW t \in Range(TokensOf(m))
      PROVE  \E x \in UNION Range(out) : x[2] = t /\ Exists(x[1]) /\ created[x[1]] = t
  <2>1. RunsOK /\ Apart /\ Latest /\ Shadowed
    BY <1>4 DEF BundlesOK
  <2>2. Typed
    BY CurrentType DEF IInv, TypeOK, Typed
  <2>3. \A k \in Markets : Complete(k, progress[k])
    BY <1>1, <1>4, TestedRecord
  <2>4. \A k \in Markets : \E b \in 0 .. Len(created) : Deployed(k, b)
    BY <1>1, <1>2, <2>1, <2>2, <2>3, RolledOutRecord
  <2>5. ASSUME NEW k \in Markets
        PROVE  Gauges(Held(k)) \subseteq Gauges(Bundles)
    <3>1. Held(k) = Pairs(progress[k].entries)
      BY <1>1 DEF Held
    <3>2. \A x \in Pairs(progress[k].entries) : x[1] \in GaugesOf(progress[k])
      BY DEF Pairs, GaugesOf
    <3>3. \A x \in Held(k) : x[1] \in FoundGauges
      BY <1>2, <3>1, <3>2
    <3>4. FoundGauges = Gauges(Bundles)
      BY DEF FoundGauges, Gauges, Bundles
    <3> QED
      BY <3>3, <3>4 DEF Gauges
  <2>6. PICK e \in progress[m].entries : e.token = t
    BY <1>4, <2>3 DEF Complete
  <2> DEFINE x == <<e.gauge, e.token>>
  <2>7. x \in Held(m) /\ x[2] = t
    BY <1>1, <2>6 DEF Held, Pairs
  <2> HIDE DEF x
  <2>8. x \in Bundles
    BY <2>1, <2>2, <2>4, <2>5, <2>7, FoundIsBundled
  <2>9. Genuine(x)
    BY <2>4, <2>7 DEF Deployed
  <2> QED
    BY <2>7, <2>8, <2>9 DEF Genuine, ShareToken, Bundles
<1> QED
  BY <1>1, <1>3, <1>4

\* When 8_qa passes after the test, each market has a gauge of its own on chain that the
\* bundles name, and unless entries were synchronised or a script was interrupted some
\* bundle sets for each share token of the market a gauge created for it: a bundle that
\* 5_build has left from earlier records never hides a pair that is missing.
THEOREM QAMeansRolledOutAlways == Spec => []QAMeansRolledOut
BY InitOK, NextKeeps, BundlesInit, BundlesKept, QAIsRolledOut, PTL DEF Spec

=============================================================================
