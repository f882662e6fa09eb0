------------------------ MODULE ExplorerReport_proofs ------------------------
(***************************************************************************)
(* Theorems about the explorer checks and their report, for any chains,    *)
(* explorers, contracts and files, whatever the explorers answer, and any  *)
(* number of runs of the workflow: what a job hands in is complete and     *)
(* true, and what the comment says follows from it.                        *)
(***************************************************************************)
EXTENDS ExplorerReport, FiniteSetTheorems, SequenceTheorems, WellFoundedInduction, TLAPS

-----------------------------------------------------------------------------
(* Lists                                                                   *)

Elements(t) == {t[i] : i \in DOMAIN t}
Distinct(t) == \A i, j \in DOMAIN t : t[i] = t[j] => i = j

LEMMA NoElements == Elements(<<>>) = {}
<1>1. DOMAIN <<>> = {}
  OBVIOUS
<1> QED
  BY <1>1 DEF Elements

\* Taking the first element off a list without repetitions
LEMMA TakeFirst ==
  ASSUME NEW S, NEW t \in Seq(S), t # <<>>, Distinct(t)
  PROVE  /\ Head(t) \in S /\ Tail(t) \in Seq(S) /\ Distinct(Tail(t))
         /\ Head(t) \in Elements(t)
         /\ Elements(Tail(t)) = Elements(t) \ {Head(t)}
<1>1. Len(t) \in Nat \ {0} /\ Head(t) = t[1]
  OBVIOUS
<1>2. /\ Tail(t) \in Seq(S) /\ Len(Tail(t)) = Len(t) - 1
      /\ \A i \in 1 .. (Len(t) - 1) : Tail(t)[i] = t[i + 1]
  BY <1>1
<1>3. Distinct(Tail(t))
  <2> SUFFICES ASSUME NEW i \in DOMAIN Tail(t), NEW j \in DOMAIN Tail(t), Tail(t)[i] = Tail(t)[j]
               PROVE  i = j
    BY DEF Distinct
  <2>1. /\ i \in 1 .. (Len(t) - 1) /\ j \in 1 .. (Len(t) - 1)
        /\ i + 1 \in DOMAIN t /\ j + 1 \in DOMAIN t
    BY <1>1, <1>2
  <2>2. t[i + 1] = t[j + 1]
    BY <1>2, <2>1
  <2>3. i + 1 = j + 1
    BY <2>1, <2>2 DEF Distinct
  <2> QED
    BY <2>1, <2>3
<1>4. ASSUME NEW i \in DOMAIN Tail(t) PROVE Tail(t)[i] \in Elements(t) /\ Tail(t)[i] # Head(t)
  <2>1. i \in Nat /\ i \in 1 .. (Len(t) - 1) /\ i + 1 \in DOMAIN t /\ 1 \in DOMAIN t /\ i + 1 # 1
    BY <1>1, <1>2
  <2> QED
    BY <1>1, <1>2, <2>1 DEF Distinct, Elements
<1>5. ASSUME NEW i \in DOMAIN t, t[i] # Head(t) PROVE t[i] \in Elements(Tail(t))
  <2>1. i \in 1 .. Len(t) /\ i # 1
    BY <1>1, <1>5
  <2>2. i - 1 \in 1 .. (Len(t) - 1) /\ (i - 1) + 1 = i
    BY <1>1, <2>1
  <2>3. i - 1 \in DOMAIN Tail(t) /\ Tail(t)[i - 1] = t[i]
    BY <1>1, <1>2, <2>2
  <2> QED
    BY <2>3 DEF Elements
<1>6. 1 \in DOMAIN t
  BY <1>1
<1> QED
  BY <1>1, <1>2, <1>3, <1>4, <1>5, <1>6 DEF Elements

\* The set of a list without repetitions is as large as the list is long.
LEMMA DistinctLength ==
  ASSUME NEW S, NEW t \in Seq(S), Distinct(t)
  PROVE  IsFiniteSet(Elements(t)) /\ Cardinality(Elements(t)) = Len(t)
<1>1. IsFiniteSet(1 .. Len(t)) /\ Cardinality(1 .. Len(t)) = Len(t)
  <2>1. Len(t) \in Nat /\ (1 > Len(t) => Len(t) = 0) /\ Len(t) - 1 + 1 = Len(t)
    OBVIOUS
  <2>2. 1 \in Int /\ Len(t) \in Int
    BY <2>1
  <2> QED
    BY <2>1, <2>2, FS_Interval
<1>2. t \in Surjection(1 .. Len(t), Elements(t))
  BY DEF Surjection, Elements
<1>3. /\ IsFiniteSet(Elements(t))
      /\ Cardinality(Elements(t)) = Cardinality(1 .. Len(t))
         <=> t \in Injection(1 .. Len(t), Elements(t))
  BY <1>1, <1>2, FS_Surjection
<1>4. t \in Injection(1 .. Len(t), Elements(t))
  BY <1>2 DEF Distinct, Injection, IsInjective, Surjection
<1> QED
  BY <1>1, <1>3, <1>4

\* SetToSeq lists every element of a finite set once.
LEMMA SetToSeqFacts ==
  ASSUME NEW S, IsFiniteSet(S)
  PROVE  /\ SetToSeq(S) \in Seq(S) /\ Distinct(SetToSeq(S)) /\ Elements(SetToSeq(S)) = S
         /\ Len(SetToSeq(S)) = Cardinality(S)
<1> DEFINE n == Cardinality(S)
           s == SetToSeq(S)
<1>1. n \in Nat /\ ExistsBijection(1 .. n, S)
  BY FS_CardinalityType
<1>2. \E f \in [1 .. n -> S] : IsInjective(f)
  BY <1>1 DEF ExistsBijection, Bijection, Injection
<1>3. s \in [1 .. n -> S] /\ IsInjective(s)
  BY <1>2 DEF SetToSeq
<1>4. IsFiniteSet(1 .. n) /\ Cardinality(1 .. n) = n
  <2>1. (1 > n => n = 0) /\ n - 1 + 1 = n /\ 1 \in Int /\ n \in Int
    BY <1>1
  <2> QED
    BY <2>1, FS_Interval
<1>5. s \in Surjection(1 .. n, S)
  <2>1. s \in Injection(1 .. n, S)
    BY <1>3 DEF Injection
  <2> QED
    BY <1>4, <2>1, FS_Injection
<1> HIDE DEF n, s
<1>6. DOMAIN s = 1 .. n /\ s = [i \in 1 .. n |-> s[i]] /\ \A i \in 1 .. n : s[i] \in S
  BY <1>3
<1>7. s \in Seq(S) /\ Len(s) = n
  BY <1>1, <1>6
<1>8. Elements(s) = S
  BY <1>5, <1>6 DEF Elements, Surjection
<1>9. Distinct(s)
  BY <1>3 DEF Distinct, IsInjective
<1> QED
  BY <1>7, <1>8, <1>9 DEF n, s

\* Induction, with the numbers it holds for as a set: the library's induction theorems
\* have an operator as parameter.
LEMMA Induction ==
  ASSUME NEW F, 0 \in F, \A n \in F \cap Nat : n + 1 \in F
  PROVE  Nat \subseteq F
<1> DEFINE Bad == Nat \ F
<1> SUFFICES ASSUME Bad # {} PROVE FALSE
  OBVIOUS
<1>1. PICK n \in Bad : \A k \in Bad : <<k, n>> \notin OpToRel(<, Nat)
  <2>1. Bad \subseteq Nat
    OBVIOUS
  <2> HIDE DEF Bad
  <2> QED
    BY <2>1, NatLessThanWellFounded, WFMin
<1>2. \A k \in Bad : ~(k < n)
  BY <1>1 DEF OpToRel
<1>3. n \in Nat /\ n # 0 /\ n - 1 \in Nat /\ n - 1 < n
  OBVIOUS
<1>4. n - 1 \in F
  BY <1>2, <1>3
<1>5. (n - 1) + 1 = n
  BY <1>3
<1> QED
  BY <1>3, <1>4, <1>5

\* A nonempty set of places has a first and a last one.
LEMMA FirstAndLast ==
  ASSUME NEW n \in Nat, NEW S \in SUBSET (1 .. n), S # {}
  PROVE  (\E x \in S : \A y \in S : x <= y) /\ (\E x \in S : \A y \in S : y <= x)
<1> DEFINE Found(T) == (\E x \in T : \A y \in T : x <= y) /\ (\E x \in T : \A y \in T : y <= x)
           F == {k \in Nat : \A T \in SUBSET (1 .. k) : T # {} => Found(T)}
<1>1. 0 \in F
  <2>1. \A T \in SUBSET (1 .. 0) : T = {}
    OBVIOUS
  <2> QED
    BY <2>1
<1>2. ASSUME NEW k \in F \cap Nat PROVE k + 1 \in F
  <2>1. ASSUME NEW T \in SUBSET (1 .. (k + 1)), T # {} PROVE Found(T)
    <3> DEFINE U == T \ {k + 1}
    <3>1. U \in SUBSET (1 .. k) /\ (U # {} => Found(U))
      <4>1. U \in SUBSET (1 .. k)
        OBVIOUS
      <4> HIDE DEF Found, U
      <4> QED
        BY <4>1
    <3>2. CASE U = {}
      <4>1. k \in Nat
        OBVIOUS
      <4>2. T = {k + 1}
        <5>1. \A x \in T : x = k + 1
          BY <3>2
        <5> HIDE DEF F, Found, U
        <5> QED
          BY <2>1, <5>1
      <4>3. k + 1 <= k + 1
        BY <4>1
      <4> HIDE DEF U, F
      <4> QED
        BY <4>2, <4>3
    <3>3. CASE U # {} /\ k + 1 \in T
      <4>1. PICK x \in U : \A y \in U : x <= y
        BY <3>1, <3>3
      <4>2. x \in T /\ \A y \in T : x <= y
        BY <3>1, <4>1
      <4>3. \A y \in T : y <= k + 1
        OBVIOUS
      <4>4. k + 1 \in T
        BY <3>3
      <4> HIDE DEF U, F
      <4> QED
        BY <4>2, <4>3, <4>4
    <3>4. CASE U # {} /\ k + 1 \notin T
      <4>1. U = T
        BY <3>4
      <4> HIDE DEF Found, U
      <4> QED
        BY <3>1, <3>4, <4>1
    <3> QED
      BY <3>2, <3>3, <3>4
  <2> HIDE DEF Found
  <2> QED
    BY <2>1
<1>3. n \in F
  <2> HIDE DEF F
  <2> QED
    BY <1>1, <1>2, Induction
<1> QED
  BY <1>3

\* Min and Max of places
LEMMA MinAndMax ==
  ASSUME NEW n \in Nat, NEW S \in SUBSET (1 .. n), S # {}
  PROVE  /\ Min(S) \in S /\ \A y \in S : Min(S) <= y
         /\ Max(S) \in S /\ \A y \in S : Max(S) >= y
<1>1. (\E x \in S : \A y \in S : x <= y) /\ (\E x \in S : \A y \in S : y <= x)
  BY FirstAndLast
<1>2. \E x \in S : \A y \in S : x >= y
  BY <1>1
<1> QED
  BY <1>1, <1>2 DEF Min, Max

LEMMA ConcatElements ==
  ASSUME NEW S, NEW s \in Seq(S), NEW t \in Seq(S)
  PROVE  Elements(s \o t) = Elements(s) \cup Elements(t)
<1>1. /\ Len(s) \in Nat /\ Len(t) \in Nat /\ Len(s \o t) = Len(s) + Len(t)
      /\ DOMAIN s = 1 .. Len(s) /\ DOMAIN t = 1 .. Len(t)
      /\ DOMAIN (s \o t) = 1 .. (Len(s) + Len(t))
      /\ \A i \in 1 .. (Len(s) + Len(t)) :
            (s \o t)[i] = IF i <= Len(s) THEN s[i] ELSE t[i - Len(s)]
  OBVIOUS
<1>2. ASSUME NEW i \in DOMAIN (s \o t) PROVE (s \o t)[i] \in Elements(s) \cup Elements(t)
  <2>1. i \in 1 .. Len(s) \/ (~(i <= Len(s)) /\ i - Len(s) \in 1 .. Len(t))
    BY <1>1
  <2> QED
    BY <1>1, <2>1 DEF Elements
<1>3. ASSUME NEW i \in DOMAIN s PROVE s[i] \in Elements(s \o t)
  <2>1. i \in 1 .. (Len(s) + Len(t)) /\ i <= Len(s)
    BY <1>1
  <2> QED
    BY <1>1, <2>1 DEF Elements
<1>4. ASSUME NEW i \in DOMAIN t PROVE t[i] \in Elements(s \o t)
  <2>1. /\ Len(s) + i \in 1 .. (Len(s) + Len(t)) /\ ~(Len(s) + i <= Len(s))
        /\ (Len(s) + i) - Len(s) = i
    BY <1>1
  <2>2. (s \o t)[Len(s) + i] = t[i]
    BY <1>1, <2>1
  <2> QED
    BY <1>1, <2>1, <2>2 DEF Elements
<1> QED
  BY <1>2, <1>3, <1>4 DEF Elements

-----------------------------------------------------------------------------
(* The job of a chain: its invariant                                       *)

JobSection ==
    [explorer : Range(Job!Explorers) \cup {"default"}, error : {"", "config", "none"},
     verified : SUBSET Addresses, unverified : SUBSET Addresses, errors : SUBSET Addresses]

JobTypeOK ==
    /\ chain \in Chains /\ noFail \in BOOLEAN /\ hasFailures \in BOOLEAN
    /\ files \in Seq(Job!Entries) /\ broadcast \in Seq(Job!Entries)
    /\ isVerified \in [Range(Job!Explorers) -> SUBSET Addresses]
    /\ early \in [Range(Job!Explorers) -> SUBSET Addresses]
    /\ pc \in {"start", "explorer", "asking", "done", "crashed"}
    /\ explorer \in Nat \ {0} /\ sections \in Seq(JobSection)

\* Three lists that have each of the contracts in S once
InLists(S, v, u, e) ==
    /\ v \cup u \cup e = S
    /\ v \cap u = {} /\ v \cap e = {} /\ u \cap e = {}

\* What an explorer is said to have verified, and okx not to have, is so.
True(x, v, u) == v \subseteq isVerified[x] /\ (Job!UseOklink => u \cap early[x] = {})

\* A section of the i-th explorer
Finished(s, i) ==
    /\ i <= Len(Job!Explorers) /\ s.error = "" /\ s.explorer = Job!Explorers[i]
    /\ InLists(Job!Deployed, s.verified, s.unverified, s.errors)
    /\ True(s.explorer, s.verified, s.unverified)

AllClean == \A i \in DOMAIN sections : sections[i].unverified = {} /\ sections[i].errors = {}

AddressesOf(list) == [i \in DOMAIN list |-> list[i].address]

JobStarts ==
    pc = "start" =>
        /\ explorer = 1 /\ sections = <<>> /\ ~hasFailures /\ artifact = <<>>
        /\ verified = {} /\ unverified = {} /\ errors = {}

JobRuns ==
    pc \in {"explorer", "asking"} =>
        /\ artifact = <<>> /\ Len(sections) = explorer - 1
        /\ \A i \in DOMAIN sections : Finished(sections[i], i)
        /\ ~hasFailures => AllClean
        /\ AddressesOf(contracts) \in Seq(Addresses) /\ Distinct(AddressesOf(contracts))
        /\ Elements(AddressesOf(contracts)) = Job!Deployed

JobAsks ==
    pc = "asking" =>
        /\ explorer <= Len(Job!Explorers) /\ todo \in Seq(Addresses) /\ Distinct(todo)
        /\ Elements(todo) \subseteq Job!Deployed
        /\ InLists(Job!Deployed \ Elements(todo), verified, unverified, errors)
        /\ True(Job!Here, verified, unverified)

\* A job without sections of its explorers has one that says why.
JobEnded ==
    pc \in {"done", "crashed"} =>
        /\ artifact = sections
        /\ \/ \A i \in DOMAIN sections : Finished(sections[i], i)
           \/ Len(sections) = 1 /\ sections[1].error \in {"config", "none"}

JobInv ==
    /\ JobTypeOK /\ JobStarts /\ JobRuns /\ JobAsks /\ JobEnded
    /\ early \in [DOMAIN isVerified -> SUBSET Addresses]
    /\ \A x \in DOMAIN isVerified : early[x] \subseteq isVerified[x]
    /\ Job!NamesAreKept /\ Job!ZeroMeansVerified

\* The operators of the library that the modules of the workflow use
LEMMA SameOperators ==
  /\ \A S : Job!Cardinality(S) = Cardinality(S) /\ Report!Cardinality(S) = Cardinality(S)
  /\ \A f : Job!Range(f) = Elements(f) /\ Report!Range(f) = Elements(f) /\ Range(f) = Elements(f)
  /\ \A f : /\ Job!IsInjective(f) <=> Distinct(f)
            /\ Report!IsInjective(f) <=> Distinct(f)
            /\ IsInjective(f) <=> Distinct(f)
  /\ \A S : Job!SetToSeq(S) = SetToSeq(S) /\ Report!SetToSeq(S) = SetToSeq(S)
  /\ \A S : Report!Max(S) = Max(S) /\ Report!Min(S) = Min(S)
  /\ \A S : (Job!IsFiniteSet(S) <=> IsFiniteSet(S)) /\ (Report!IsFiniteSet(S) <=> IsFiniteSet(S))
<1>1. \A S : Job!Cardinality(S) = Cardinality(S) /\ Report!Cardinality(S) = Cardinality(S)
  BY DEF Job!Cardinality, Report!Cardinality, Cardinality
<1>2. \A f : Job!Range(f) = Elements(f) /\ Report!Range(f) = Elements(f) /\ Range(f) = Elements(f)
  BY DEF Job!Range, Report!Range, Range, Elements
<1>3. \A f : /\ Job!IsInjective(f) <=> Distinct(f)
             /\ Report!IsInjective(f) <=> Distinct(f)
             /\ IsInjective(f) <=> Distinct(f)
  BY DEF Job!IsInjective, Report!IsInjective, IsInjective, Distinct
<1>4. \A S : Job!SetToSeq(S) = SetToSeq(S) /\ Report!SetToSeq(S) = SetToSeq(S)
  BY Zenon DEF Job!SetToSeq, Report!SetToSeq, SetToSeq,
     Job!Cardinality, Report!Cardinality, Cardinality,
               Job!IsInjective, Report!IsInjective, IsInjective
<1>5. \A S : Report!Max(S) = Max(S) /\ Report!Min(S) = Min(S)
  BY Zenon DEF Report!Max, Report!Min, Max, Min
<1>6. \A S : (Job!IsFiniteSet(S) <=> IsFiniteSet(S)) /\ (Report!IsFiniteSet(S) <=> IsFiniteSet(S))
  BY DEF Job!IsFiniteSet, Report!IsFiniteSet, IsFiniteSet
<1> QED
  BY <1>1, <1>2, <1>3, <1>4, <1>5, <1>6

\* The explorers of a chain
LEMMA ExplorersFacts ==
  ASSUME chain \in Chains
  PROVE  /\ Job!Explorers \in Seq(Range(Job!Explorers)) /\ Distinct(Job!Explorers)
         /\ Len(Job!Explorers) \in Nat \ {0} /\ IsFiniteSet(Addresses)
         /\ \A i \in 1 .. Len(Job!Explorers) : Job!Explorers[i] \in Range(Job!Explorers)
<1>1. /\ Job!Explorers \in Seq(Range(Job!Explorers)) /\ Distinct(Job!Explorers)
      /\ Job!Explorers # <<>> /\ IsFiniteSet(Addresses)
  BY ExplorerReportAssumption, SameOperators DEF Job!ExplorerAssumption, Job!Explorers
<1> QED
  BY <1>1

\* The contracts of a chain
LEMMA DeployedFacts ==
  ASSUME JobTypeOK
  PROVE  Job!Deployed \in SUBSET Addresses /\ IsFiniteSet(Job!Deployed)
<1>1. \A e \in Job!Entries : e.address \in Addresses
  BY DEF Job!Entries
<1>2. Elements(files) \subseteq Job!Entries /\ Elements(broadcast) \subseteq Job!Entries
  <2>1. files \in Seq(Job!Entries) /\ broadcast \in Seq(Job!Entries)
    BY DEF JobTypeOK
  <2> QED
    BY <2>1 DEF Elements
<1>3. Job!Deployed \in SUBSET Addresses
  BY <1>1, <1>2, SameOperators DEF Job!Deployed
<1>4. IsFiniteSet(Addresses)
  BY ExplorersFacts DEF JobTypeOK
<1> QED
  BY <1>3, <1>4, FS_Subset

\* The lists are as long as their contracts are many.
LEMMA ListsCount ==
  ASSUME JobTypeOK, NEW v, NEW u, NEW e, InLists(Job!Deployed, v, u, e)
  PROVE  Cardinality(v) + Cardinality(u) + Cardinality(e) = Cardinality(Job!Deployed)
<1>1. IsFiniteSet(Job!Deployed) /\ v \subseteq Job!Deployed /\ u \subseteq Job!Deployed
      /\ e \subseteq Job!Deployed /\ v \cup u \subseteq Job!Deployed
  BY DeployedFacts DEF InLists
<1>2. IsFiniteSet(v) /\ IsFiniteSet(u) /\ IsFiniteSet(e) /\ IsFiniteSet(v \cup u)
  BY <1>1, FS_Subset
<1>3. /\ Cardinality(v) \in Nat /\ Cardinality(u) \in Nat /\ Cardinality(e) \in Nat
      /\ Cardinality(v \cup u) \in Nat
  BY <1>2, FS_CardinalityType
<1>4. v \cap u = {} /\ (v \cup u) \cap e = {} /\ (v \cup u) \cup e = Job!Deployed
  BY DEF InLists
<1>5. Cardinality({}) = 0
  BY FS_EmptySet
<1>6. Cardinality(v \cup u) = Cardinality(v) + Cardinality(u) - 0
  BY <1>2, <1>4, <1>5, FS_Union
<1>7. Cardinality(Job!Deployed) = Cardinality(v \cup u) + Cardinality(e) - 0
  BY <1>2, <1>4, <1>5, FS_Union
<1> QED
  BY <1>3, <1>6, <1>7

\* What the job knows of an address is an entry of the files for it.  It has no name
\* only if no broadcast file has one.
LEMMA CollectedFacts ==
  ASSUME JobTypeOK, NEW a \in Job!Deployed
  PROVE  /\ Job!Collected(a) \in Job!Entries /\ Job!Collected(a).address = a
         /\ Job!Nameless(Job!Collected(a)) =>
              \A d \in Job!Range(broadcast) : d.address = a => Job!Nameless(d)
<1> DEFINE fromFiles == Job!Positions(files, a)
           fromBroadcast == Job!Positions(broadcast, a)
           named == {i \in fromBroadcast : ~Job!Nameless(broadcast[i])}
<1>1. /\ \A i \in fromFiles : files[i] \in Job!Entries /\ files[i].address = a
      /\ \A i \in fromBroadcast : broadcast[i] \in Job!Entries /\ broadcast[i].address = a
  BY DEF JobTypeOK, Job!Positions
<1>2. fromFiles # {} \/ fromBroadcast # {}
  BY SameOperators DEF Job!Deployed, Elements, Job!Positions
<1>3. /\ Len(files) \in Nat /\ fromFiles \in SUBSET (1 .. Len(files))
      /\ Len(broadcast) \in Nat /\ fromBroadcast \in SUBSET (1 .. Len(broadcast))
      /\ named \in SUBSET (1 .. Len(broadcast))
  BY DEF JobTypeOK, Job!Positions
<1>4. \A d \in Job!Range(broadcast) : d.address = a => \E i \in fromBroadcast : broadcast[i] = d
  BY SameOperators DEF Elements, Job!Positions
<1>5. /\ fromFiles # {} => Job!LastOf(fromFiles) \in fromFiles
      /\ fromBroadcast # {} => Job!LastOf(fromBroadcast) \in fromBroadcast
      /\ named # {} => Job!FirstOf(named) \in named
  <2> HIDE DEF fromFiles, fromBroadcast, named
  <2>1. fromFiles # {} => \E i \in fromFiles : \A j \in fromFiles : j <= i
    BY <1>3, FirstAndLast
  <2>2. fromBroadcast # {} => \E i \in fromBroadcast : \A j \in fromBroadcast : j <= i
    BY <1>3, FirstAndLast
  <2>3. named # {} => \E i \in named : \A j \in named : i <= j
    BY <1>3, FirstAndLast
  <2> QED
    BY <2>1, <2>2, <2>3 DEF Job!LastOf, Job!FirstOf
<1>6. Job!Collected(a) =
        IF fromFiles # {} /\ ~Job!Nameless(files[Job!LastOf(fromFiles)])
        THEN files[Job!LastOf(fromFiles)]
        ELSE IF named # {} THEN broadcast[Job!FirstOf(named)]
        ELSE IF fromBroadcast # {} THEN broadcast[Job!LastOf(fromBroadcast)]
        ELSE files[Job!LastOf(fromFiles)]
  BY DEF Job!Collected
<1>7. named \subseteq fromBroadcast /\ \A i \in named : ~Job!Nameless(broadcast[i])
  OBVIOUS
<1>8. \A i \in fromBroadcast : i \notin named => Job!Nameless(broadcast[i])
  OBVIOUS
<1> HIDE DEF fromFiles, fromBroadcast, named
<1>9. Job!Collected(a) \in Job!Entries /\ Job!Collected(a).address = a
  BY <1>1, <1>2, <1>5, <1>6, <1>7
<1>10. Job!Nameless(Job!Collected(a)) => named = {}
  BY <1>5, <1>6, <1>7
<1> QED
  BY <1>4, <1>8, <1>9, <1>10

\* The world is the same after a step.
LEMMA WorldKept ==
  ASSUME UNCHANGED <<chain, files, broadcast>>
  PROVE  /\ Job!Deployed' = Job!Deployed /\ Job!Explorers' = Job!Explorers
         /\ Job!UseOklink' = Job!UseOklink /\ JobSection' = JobSection
BY DEF Job!Deployed, Job!Explorers, Job!UseOklink, JobSection

LEMMA JobInit == Job!Init => JobInv
<1> SUFFICES ASSUME Job!Init PROVE JobInv
  OBVIOUS
<1>1. /\ chain \in Chains /\ noFail \in BOOLEAN /\ hasFailures = FALSE /\ pc = "start"
      /\ explorer = 1 /\ sections = <<>> /\ contracts = <<>> /\ artifact = <<>>
      /\ isVerified \in [Range(Job!Explorers) -> SUBSET Addresses] /\ early = isVerified
      /\ verified = {} /\ unverified = {} /\ errors = {}
      /\ files \in Job!collect_from_deployments /\ broadcast \in Job!collect_from_broadcast
  BY SameOperators DEF Job!Init, Elements
<1>2. files \in Seq(Job!Entries) /\ broadcast \in Seq(Job!Entries)
  <2>1. ASSUME NEW S, NEW n \in Nat, NEW s \in Job!SeqOf(S, n) PROVE s \in Seq(S)
    <3>1. PICK m \in 0 .. n : s \in [1 .. m -> S]
      BY DEF Job!SeqOf
    <3>2. m \in Nat /\ s = [i \in 1 .. m |-> s[i]] /\ \A i \in 1 .. m : s[i] \in S
      BY <3>1
    <3> QED
      BY <3>2
  <2>2. MaxEntriesOf[chain] \in Nat
    BY <1>1, ExplorerReportAssumption DEF Job!ExplorerAssumption
  <2>3. files \in Seq({e \in Job!Entries : e.name # ""}) /\ broadcast \in Seq(Job!Entries)
    BY <1>1, <2>1, <2>2 DEF Job!collect_from_deployments, Job!collect_from_broadcast
  <2>4. {e \in Job!Entries : e.name # ""} \subseteq Job!Entries
    OBVIOUS
  <2>5. files \in Seq(Job!Entries)
    BY <2>3, <2>4, SeqMonotonic, Zenon
  <2> QED
    BY <2>3, <2>5
<1>3. JobTypeOK
  <2>1. <<>> \in Seq(JobSection) /\ 1 \in Nat \ {0}
    OBVIOUS
  <2>2. sections \in Seq(JobSection) /\ explorer \in Nat \ {0} /\ hasFailures \in BOOLEAN
    BY <1>1, <2>1, Zenon
  <2> QED
    BY <1>1, <1>2, <2>2, Zenon DEF JobTypeOK
<1>4. Job!NamesAreKept
  BY <1>1, SameOperators DEF Job!NamesAreKept, Elements
<1> QED
  BY <1>1, <1>3, <1>4
  DEF JobInv, JobStarts, JobRuns, JobAsks, JobEnded, Job!ZeroMeansVerified

-----------------------------------------------------------------------------
(* ... is kept by its actions                                              *)

\* Of an explorer nothing is unverified again.
LEMMA FinishedKept ==
  ASSUME JobTypeOK, UNCHANGED <<chain, files, broadcast, early>>,
         \A x \in DOMAIN isVerified : isVerified[x] \subseteq isVerified'[x]
  PROVE  /\ \A x \in DOMAIN isVerified : \A v, u : True(x, v, u) => True(x, v, u)'
         /\ \A s : \A i \in Nat \ {0} : Finished(s, i) => Finished(s, i)'
<1>1. /\ Job!Deployed' = Job!Deployed /\ Job!Explorers' = Job!Explorers
      /\ Job!UseOklink' = Job!UseOklink
  BY WorldKept
<1>2. ASSUME NEW x \in DOMAIN isVerified, NEW v, NEW u, True(x, v, u) PROVE True(x, v, u)'
  BY <1>1, <1>2 DEF True
<1>3. ASSUME NEW s, NEW i \in Nat \ {0}, Finished(s, i) PROVE Finished(s, i)'
  <2>1. i \in 1 .. Len(Job!Explorers)
    <3>1. i <= Len(Job!Explorers) /\ chain \in Chains
      BY <1>3 DEF Finished, JobTypeOK
    <3>2. Len(Job!Explorers) \in Nat
      BY <3>1, ExplorersFacts
    <3> QED
      BY <3>1, <3>2
  <2>2. s.explorer \in DOMAIN isVerified
    BY <1>3, <2>1, ExplorersFacts DEF Finished, JobTypeOK
  <2>3. True(s.explorer, s.verified, s.unverified)'
    <3>1. True(s.explorer, s.verified, s.unverified)
      BY <1>3 DEF Finished
    <3> DEFINE x == s.explorer
               v == s.verified
               u == s.unverified
    <3>2. x \in DOMAIN isVerified /\ True(x, v, u)
      BY <2>2, <3>1
    <3> HIDE DEF x, v, u
    <3>3. True(x, v, u)'
      BY <1>2, <3>2
    <3> QED
      BY <3>3 DEF x, v, u
  <2> QED
    BY <1>1, <1>3, <2>3 DEF Finished, InLists
<1> QED
  BY <1>2, <1>3

\* A step that leaves what the job does and knows
LEMMA JobStutters ==
  ASSUME JobInv, UNCHANGED Job!vars
  PROVE  JobInv'
<1>1. UNCHANGED <<chain, files, broadcast, isVerified, early, noFail, pc, contracts, explorer, todo,
                  attempt, verified, unverified, errors, sections, hasFailures, exit, artifact>>
  BY DEF Job!vars, Job!world, Job!counts
<1>2. /\ Job!Deployed' = Job!Deployed /\ Job!Explorers' = Job!Explorers
      /\ Job!UseOklink' = Job!UseOklink /\ JobSection' = JobSection /\ Job!Here' = Job!Here
  BY <1>1, WorldKept DEF Job!Here
<1>3. JobTypeOK' /\ JobStarts'
  BY <1>1, <1>2 DEF JobInv, JobTypeOK, JobStarts
<1>4. JobRuns' /\ JobEnded'
  BY <1>1, <1>2 DEF JobInv, JobRuns, JobEnded, Finished, InLists, True, AllClean
<1>5. JobAsks'
  BY <1>1, <1>2 DEF JobInv, JobAsks, InLists, True
<1>6. Job!NamesAreKept' /\ Job!ZeroMeansVerified'
  BY <1>1, <1>2 DEF JobInv, Job!NamesAreKept, Job!ZeroMeansVerified
<1> QED
  BY <1>1, <1>3, <1>4, <1>5, <1>6 DEF JobInv

LEMMA JobGetVerified ==
  ASSUME JobInv, Job!GetVerified
  PROVE  JobInv'
<1>1. PICK a \in Addresses : isVerified' = [isVerified EXCEPT ![Job!Here] = @ \cup {a}]
  BY DEF Job!GetVerified
<1>2. /\ pc = "asking"
      /\ UNCHANGED <<chain, files, broadcast, early, noFail, pc, contracts, explorer, todo,
                     attempt, verified, unverified, errors, sections, hasFailures, exit, artifact>>
  BY DEF Job!GetVerified, Job!counts
<1>3. /\ Job!Deployed' = Job!Deployed /\ Job!Explorers' = Job!Explorers
      /\ Job!UseOklink' = Job!UseOklink /\ JobSection' = JobSection /\ Job!Here' = Job!Here
  BY <1>2, WorldKept DEF Job!Here
<1>4. JobTypeOK /\ JobRuns /\ JobAsks
  BY DEF JobInv
<1>5. Job!Here \in DOMAIN isVerified /\ DOMAIN isVerified = Range(Job!Explorers)
  BY <1>2, <1>4, ExplorersFacts DEF JobTypeOK, JobAsks, Job!Here
<1>6. /\ isVerified' \in [DOMAIN isVerified -> SUBSET Addresses]
      /\ \A x \in DOMAIN isVerified : isVerified[x] \subseteq isVerified'[x]
  BY <1>1, <1>4, <1>5 DEF JobTypeOK
<1>7. /\ \A x \in DOMAIN isVerified : \A v, u : True(x, v, u) => True(x, v, u)'
      /\ \A s : \A i \in Nat \ {0} : Finished(s, i) => Finished(s, i)'
  BY <1>2, <1>4, <1>6, FinishedKept
<1>8. JobTypeOK'
  BY <1>2, <1>3, <1>4, <1>5, <1>6 DEF JobTypeOK
<1>9. JobStarts' /\ JobEnded' /\ Job!ZeroMeansVerified'
  BY <1>2 DEF JobStarts, JobEnded, Job!ZeroMeansVerified
<1>10. JobRuns'
  <2>1. \A i \in DOMAIN sections : Finished(sections[i], i)
    BY <1>2, <1>4 DEF JobRuns
  <2>2. DOMAIN sections \subseteq Nat \ {0}
    BY <1>4 DEF JobTypeOK
  <2>3. \A i \in DOMAIN sections' : Finished(sections[i], i)'
    BY <1>2, <1>7, <2>1, <2>2
  <2> QED
    BY <1>2, <1>3, <1>4, <2>3 DEF JobRuns, AllClean, AddressesOf
<1>11. JobAsks'
  <2>1. True(Job!Here, verified, unverified)'
    <3>1. True(Job!Here, verified, unverified)
      BY <1>2, <1>4 DEF JobAsks
    <3> QED
      BY <1>2, <1>3, <1>5, <1>6, <3>1 DEF True
  <2> QED
    BY <1>2, <1>3, <1>4, <2>1 DEF JobAsks, InLists
<1>12. Job!NamesAreKept'
  BY <1>2 DEF JobInv, Job!NamesAreKept
<1>13. \A x \in DOMAIN isVerified' : early'[x] \subseteq isVerified'[x]
  BY <1>2, <1>6 DEF JobInv
<1> QED
  BY <1>2, <1>6, <1>8, <1>9, <1>10, <1>11, <1>12, <1>13 DEF JobInv

\* What every other step leaves alone
LEMMA WorldStays ==
  ASSUME JobInv, UNCHANGED Job!world
  PROVE  /\ UNCHANGED <<chain, files, broadcast, isVerified, early, noFail>>
         /\ Job!Deployed' = Job!Deployed /\ Job!Explorers' = Job!Explorers
         /\ Job!UseOklink' = Job!UseOklink /\ JobSection' = JobSection
         /\ \A x, v, u : True(x, v, u)' <=> True(x, v, u)
         /\ \A s, i : Finished(s, i)' <=> Finished(s, i)
         /\ early' \in [DOMAIN isVerified' -> SUBSET Addresses]
         /\ \A x \in DOMAIN isVerified' : early'[x] \subseteq isVerified'[x]
<1>1. UNCHANGED <<chain, files, broadcast, isVerified, early, noFail>>
  BY DEF Job!world
<1>2. /\ Job!Deployed' = Job!Deployed /\ Job!Explorers' = Job!Explorers
      /\ Job!UseOklink' = Job!UseOklink /\ JobSection' = JobSection
  BY <1>1, WorldKept
<1>3. \A x, v, u : True(x, v, u)' <=> True(x, v, u)
  BY <1>1, <1>2 DEF True
<1>4. \A s, i : Finished(s, i)' <=> Finished(s, i)
  BY <1>1, <1>2, <1>3 DEF Finished, InLists
<1> QED
  BY <1>1, <1>2, <1>3, <1>4 DEF JobInv

\* A section and its fields
LEMMA SectionRecord ==
  ASSUME NEW x \in Range(Job!Explorers) \cup {"default"}, NEW why \in {"", "config", "none"},
         NEW v \in SUBSET Addresses, NEW u \in SUBSET Addresses, NEW e \in SUBSET Addresses
  PROVE  [explorer |-> x, error |-> why, verified |-> v, unverified |-> u, errors |-> e]
            \in JobSection
BY DEF JobSection

\* A chain without a section of an explorer: it is told why.
LEMMA JobWithout ==
  ASSUME JobInv, Job!NoConfig \/ Job!NoDeployments
  PROVE  JobInv'
<1>1. PICK why \in {"config", "none"} : sections' = <<Job!Section(why)>>
  BY DEF Job!NoConfig, Job!NoDeployments, Job!resolve_api_config
<1>2. /\ UNCHANGED Job!world /\ UNCHANGED <<contracts, explorer>> /\ pc = "start" /\ pc' = "done"
      /\ artifact' = sections' /\ hasFailures' \in BOOLEAN
      /\ (exit' = 0 /\ ~noFail => Job!Deployed = {})
  <2>1. hasFailures \in BOOLEAN
    BY DEF JobInv, JobTypeOK
  <2>2. CASE Job!NoConfig
    BY <2>2 DEF Job!NoConfig, Job!resolve_api_config, Job!write_json_artifact
  <2>3. CASE Job!NoDeployments
    BY <2>1, <2>3 DEF Job!NoDeployments, Job!write_json_artifact
  <2> QED
    BY <2>2, <2>3
<1>3. JobTypeOK /\ verified = {} /\ unverified = {} /\ errors = {}
  BY <1>2 DEF JobInv, JobStarts
<1>4. sections' \in Seq(JobSection) /\ Len(sections') = 1 /\ sections'[1].error = why
  <2>1. Job!Section(why) =
          [explorer |-> "default", error |-> why, verified |-> {}, unverified |-> {}, errors |-> {}]
    BY <1>1, <1>3 DEF Job!Section
  <2>2. Job!Section(why) \in JobSection /\ Job!Section(why).error = why
    <3>1. /\ why \in {"", "config", "none"} /\ {} \in SUBSET Addresses
          /\ "default" \in Range(Job!Explorers) \cup {"default"}
      BY <1>1
    <3>2. Job!Section(why) \in JobSection
      BY <2>1, <3>1, SectionRecord, Zenon
    <3> QED
      BY <2>1, <3>2
  <2> QED
    BY <1>1, <2>2
<1>5. JobTypeOK'
  BY <1>2, <1>3, <1>4, WorldStays DEF JobTypeOK
<1>6. JobEnded'
  BY <1>1, <1>2, <1>4 DEF JobEnded
<1>7. Job!ZeroMeansVerified'
  BY <1>2, WorldStays DEF Job!ZeroMeansVerified
<1>8. Job!NamesAreKept'
  BY <1>2, WorldStays DEF JobInv, Job!NamesAreKept
<1> QED
  BY <1>2, <1>5, <1>6, <1>7, <1>8, WorldStays DEF JobInv, JobStarts, JobRuns, JobAsks

LEMMA JobStart ==
  ASSUME JobInv, Job!Start
  PROVE  JobInv'
<1>1. /\ UNCHANGED Job!world /\ pc = "start" /\ pc' = "explorer"
      /\ UNCHANGED <<explorer, sections, hasFailures, artifact>>
      /\ contracts' = SetToSeq({Job!Collected(a) : a \in Job!Deployed})
  BY SameOperators DEF Job!Start
<1>2. /\ JobTypeOK /\ explorer = 1 /\ sections = <<>> /\ ~hasFailures /\ artifact = <<>>
  BY <1>1 DEF JobInv, JobStarts
<1> DEFINE f == [a \in Job!Deployed |-> Job!Collected(a)]
           S == {Job!Collected(a) : a \in Job!Deployed}
<1>3. IsFiniteSet(S)
  <2>1. f \in Surjection(Job!Deployed, S)
    BY DEF Surjection
  <2> QED
    BY <1>2, <2>1, DeployedFacts, FS_Surjection
<1>4. /\ contracts' \in Seq(S) /\ Distinct(contracts') /\ Elements(contracts') = S
  BY <1>1, <1>3, SetToSeqFacts
<1>5. \A e \in S : e.address \in Job!Deployed /\ e = Job!Collected(e.address)
  BY <1>2, CollectedFacts
<1>6. \A a \in Job!Deployed : Job!Collected(a) \in S /\ Job!Collected(a).address = a
  BY <1>2, CollectedFacts
<1>7. \A i \in DOMAIN contracts' : contracts'[i] \in S
  BY <1>4
<1> DEFINE list == AddressesOf(contracts)'
<1>8. DOMAIN list = DOMAIN contracts' /\ \A i \in DOMAIN list : list[i] = contracts'[i].address
  BY DEF AddressesOf
<1>9. list \in Seq(Addresses)
  <2>1. Job!Deployed \subseteq Addresses
    BY <1>2, DeployedFacts
  <2>2. \A i \in DOMAIN list : list[i] \in Addresses
    BY <1>5, <1>7, <1>8, <2>1
  <2>3. Len(contracts') \in Nat /\ DOMAIN contracts' = 1 .. Len(contracts')
    BY <1>4
  <2>4. list = [i \in 1 .. Len(contracts') |-> list[i]]
    BY <2>3 DEF AddressesOf
  <2> HIDE DEF list
  <2> QED
    BY <1>8, <2>2, <2>3, <2>4
<1>10. Distinct(list)
  <2> SUFFICES ASSUME NEW i \in DOMAIN list, NEW j \in DOMAIN list, list[i] = list[j] PROVE i = j
    BY DEF Distinct
  <2>1. i \in DOMAIN contracts' /\ j \in DOMAIN contracts'
    BY <1>8
  <2>2. contracts'[i] = contracts'[j]
    BY <1>5, <1>7, <1>8, <2>1
  <2> QED
    BY <1>4, <2>1, <2>2 DEF Distinct
<1>11. Elements(list) = Job!Deployed
  <2>1. \A i \in DOMAIN list : list[i] \in Job!Deployed
    BY <1>5, <1>7, <1>8
  <2>2. ASSUME NEW a \in Job!Deployed PROVE a \in Elements(list)
    <3>1. PICK i \in DOMAIN contracts' : contracts'[i] = Job!Collected(a)
      BY <1>4, <1>6 DEF Elements
    <3>2. list[i] = a
      BY <1>6, <1>8, <3>1
    <3> QED
      BY <1>8, <3>1, <3>2 DEF Elements
  <2> QED
    BY <2>1, <2>2 DEF Elements
<1> HIDE DEF f, S, list
<1>12. JobTypeOK'
  BY <1>1, <1>2, WorldStays DEF JobTypeOK
<1>13. JobRuns'
  <2>1. Len(sections') = explorer' - 1 /\ DOMAIN sections' = {}
    BY <1>1, <1>2
  <2> QED
    BY <1>1, <1>2, <1>9, <1>10, <1>11, <2>1, WorldStays DEF JobRuns, AllClean, list
<1>14. Job!NamesAreKept'
  <2>1. \A e \in Elements(contracts') : Job!Nameless(e) =>
           \A d \in Job!Range(broadcast) : d.address = e.address => Job!Nameless(d)
    BY <1>2, <1>4, <1>5, CollectedFacts
  <2> QED
    BY <1>1, <2>1, WorldStays, SameOperators DEF Job!NamesAreKept
<1>15. JobStarts' /\ JobAsks' /\ JobEnded' /\ Job!ZeroMeansVerified'
  BY <1>1 DEF JobStarts, JobAsks, JobEnded, Job!ZeroMeansVerified
<1> QED
  BY <1>1, <1>12, <1>13, <1>14, <1>15, WorldStays DEF JobInv

LEMMA JobStartExplorer ==
  ASSUME JobInv, Job!StartExplorer
  PROVE  JobInv'
<1>1. /\ UNCHANGED Job!world /\ pc = "explorer" /\ pc' = "asking"
      /\ explorer <= Len(Job!Explorers) /\ todo' = AddressesOf(contracts)
      /\ verified' = {} /\ unverified' = {} /\ errors' = {}
      /\ UNCHANGED <<contracts, explorer, sections, hasFailures, artifact>>
  BY DEF Job!StartExplorer, AddressesOf
<1>2. JobTypeOK /\ JobRuns
  BY DEF JobInv
<1>3. JobTypeOK'
  BY <1>1, <1>2, WorldStays DEF JobTypeOK
<1>4. JobRuns'
  BY <1>1, <1>2, WorldStays DEF JobRuns, AllClean, AddressesOf
<1>5. JobAsks'
  <2>1. /\ todo' \in Seq(Addresses) /\ Distinct(todo') /\ Elements(todo') = Job!Deployed
    BY <1>1, <1>2 DEF JobRuns
  <2>2. InLists(Job!Deployed \ Elements(todo'), {}, {}, {})
    BY <2>1 DEF InLists
  <2>3. True(Job!Here, {}, {})'
    BY DEF True
  <2> QED
    BY <1>1, <2>1, <2>2, <2>3, WorldStays DEF JobAsks, InLists, True
<1>6. JobStarts' /\ JobEnded' /\ Job!ZeroMeansVerified'
  BY <1>1 DEF JobStarts, JobEnded, Job!ZeroMeansVerified
<1>7. Job!NamesAreKept'
  BY <1>1, WorldStays DEF JobInv, Job!NamesAreKept
<1> QED
  BY <1>1, <1>3, <1>4, <1>5, <1>6, <1>7, WorldStays DEF JobInv

\* What is learned of the next contract goes into one of the lists.
LEMMA JobRecord ==
  ASSUME JobInv, Job!Asking, NEW v, NEW u, NEW e, Job!Record(v, u, e),
         True(Job!Here, v, u),
         \/ v = {Head(todo)} /\ u = {} /\ e = {}
         \/ v = {} /\ u = {Head(todo)} /\ e = {}
         \/ v = {} /\ u = {} /\ e = {Head(todo)}
  PROVE  JobInv'
<1>1. /\ UNCHANGED Job!world /\ pc = "asking" /\ pc' = pc /\ todo # <<>> /\ todo' = Tail(todo)
      /\ verified' = verified \cup v /\ unverified' = unverified \cup u /\ errors' = errors \cup e
      /\ UNCHANGED <<contracts, explorer, sections, hasFailures, exit, artifact>>
  BY DEF Job!Asking, Job!Record
<1>2. JobTypeOK /\ JobRuns /\ JobAsks
  BY DEF JobInv
<1>3. JobTypeOK'
  BY <1>1, <1>2, WorldStays DEF JobTypeOK
<1>4. JobRuns'
  BY <1>1, <1>2, WorldStays DEF JobRuns, AllClean, AddressesOf
<1>5. JobAsks'
  <2>1. /\ explorer <= Len(Job!Explorers) /\ todo \in Seq(Addresses) /\ Distinct(todo)
        /\ Elements(todo) \subseteq Job!Deployed
        /\ InLists(Job!Deployed \ Elements(todo), verified, unverified, errors)
        /\ True(Job!Here, verified, unverified)
    BY <1>1, <1>2 DEF JobAsks
  <2>2. /\ Tail(todo) \in Seq(Addresses) /\ Distinct(Tail(todo)) /\ Head(todo) \in Elements(todo)
        /\ Elements(Tail(todo)) = Elements(todo) \ {Head(todo)}
    BY <1>1, <2>1, TakeFirst
  <2>3. InLists(Job!Deployed \ Elements(Tail(todo)),
                verified \cup v, unverified \cup u, errors \cup e)
    BY <2>1, <2>2 DEF InLists
  <2>4. True(Job!Here, verified \cup v, unverified \cup u)
    BY <2>1 DEF True
  <2>5. Job!Here' = Job!Here
    BY <1>1, WorldStays DEF Job!Here
  <2> HIDE DEF Job!Here
  <2>6. True(Job!Here, verified, unverified)'
    BY <1>1, <2>4, <2>5, WorldStays DEF True
  <2> QED
    BY <1>1, <2>1, <2>2, <2>3, <2>6, WorldStays DEF JobAsks, InLists
<1>6. JobStarts' /\ JobEnded' /\ Job!ZeroMeansVerified'
  BY <1>1 DEF JobStarts, JobEnded, Job!ZeroMeansVerified
<1>7. Job!NamesAreKept'
  BY <1>1, WorldStays DEF JobInv, Job!NamesAreKept
<1> QED
  BY <1>1, <1>3, <1>4, <1>5, <1>6, <1>7, WorldStays DEF JobInv

\* Only the number of the attempt changes.
LEMMA JobRetry ==
  ASSUME JobInv, Job!Retry
  PROVE  JobInv'
<1>1. /\ UNCHANGED Job!world
      /\ UNCHANGED <<pc, contracts, explorer, todo, verified, unverified, errors, sections,
                     hasFailures, exit, artifact>>
  BY DEF Job!Retry, Job!counts
<1>2. Job!Here' = Job!Here
  BY <1>1, WorldStays DEF Job!Here
<1>3. JobTypeOK' /\ JobStarts'
  BY <1>1, WorldStays DEF JobInv, JobTypeOK, JobStarts
<1>4. JobRuns'
  BY <1>1, WorldStays DEF JobInv, JobRuns, AllClean, AddressesOf
<1>5. JobAsks'
  BY <1>1, <1>2, WorldStays DEF JobInv, JobAsks, InLists
<1>6. JobEnded' /\ Job!NamesAreKept' /\ Job!ZeroMeansVerified'
  BY <1>1, WorldStays DEF JobInv, JobEnded, Job!NamesAreKept, Job!ZeroMeansVerified
<1> QED
  BY <1>1, <1>3, <1>4, <1>5, <1>6, WorldStays DEF JobInv

\* A request: whatever comes of it
LEMMA JobRequest ==
  ASSUME JobInv,
         Job!Answer \/ Job!Timeout \/ Job!Refused \/ Job!RateLimited \/ Job!ApiError
  PROVE  JobInv'
<1> DEFINE a == Head(todo)
<1>1. Job!Asking
  BY DEF Job!Answer, Job!Timeout, Job!Refused, Job!RateLimited, Job!ApiError
<1>2. Job!Here \in DOMAIN early /\ early[Job!Here] \subseteq isVerified[Job!Here]
  BY <1>1, ExplorersFacts DEF Job!Asking, JobInv, JobAsks, JobTypeOK, Job!Here
<1>3. \/ Job!Retry
      \/ Job!Record({a}, {}, {}) /\ a \in isVerified[Job!Here]
      \/ Job!Record({}, {a}, {}) /\ (a \notin isVerified[Job!Here] \/ ~Job!UseOklink)
      \/ Job!Record({}, {}, {a})
  BY DEF Job!Answer, Job!Timeout, Job!Refused, Job!RateLimited, Job!ApiError, Job!ErrorPayload
<1>4. CASE Job!Retry
  BY <1>4, JobRetry
<1>5. CASE Job!Record({a}, {}, {}) /\ a \in isVerified[Job!Here]
  <2>1. True(Job!Here, {a}, {})
    BY <1>5 DEF True
  <2> HIDE DEF Job!Here
  <2> QED
    BY <1>1, <1>5, <2>1, JobRecord
<1>6. CASE Job!Record({}, {a}, {}) /\ (a \notin isVerified[Job!Here] \/ ~Job!UseOklink)
  <2>1. True(Job!Here, {}, {a})
    BY <1>2, <1>6 DEF True
  <2> QED
    BY <1>1, <1>6, <2>1, JobRecord
<1>7. CASE Job!Record({}, {}, {a})
  <2>1. True(Job!Here, {}, {})
    BY DEF True
  <2> QED
    BY <1>1, <1>7, <2>1, JobRecord
<1> QED
  BY <1>3, <1>4, <1>5, <1>6, <1>7

LEMMA JobCrash ==
  ASSUME JobInv, Job!Crash
  PROVE  JobInv'
<1>1. /\ UNCHANGED Job!world /\ pc \in {"explorer", "asking"} /\ pc' = "crashed"
      /\ artifact' = sections
      /\ UNCHANGED <<contracts, explorer, sections, hasFailures>>
  BY DEF Job!Crash, Job!write_json_artifact
<1>2. JobTypeOK /\ JobRuns
  BY DEF JobInv
<1>3. JobTypeOK'
  BY <1>1, <1>2, WorldStays DEF JobTypeOK
<1>4. JobEnded'
  BY <1>1, <1>2, WorldStays DEF JobRuns, JobEnded
<1>5. JobStarts' /\ JobRuns' /\ JobAsks' /\ Job!ZeroMeansVerified'
  BY <1>1 DEF JobStarts, JobRuns, JobAsks, Job!ZeroMeansVerified
<1>6. Job!NamesAreKept'
  BY <1>1, WorldStays DEF JobInv, Job!NamesAreKept
<1> QED
  BY <1>1, <1>3, <1>4, <1>5, <1>6, WorldStays DEF JobInv

LEMMA JobFinishExplorer ==
  ASSUME JobInv, Job!FinishExplorer
  PROVE  JobInv'
<1> DEFINE s == Job!Section("")
<1>1. /\ UNCHANGED Job!world /\ pc = "asking" /\ todo = <<>> /\ pc' = "explorer"
      /\ explorer' = explorer + 1 /\ sections' = Append(sections, s)
      /\ hasFailures' = (hasFailures \/ unverified # {} \/ errors # {})
      /\ UNCHANGED <<contracts, artifact>>
  BY DEF Job!FinishExplorer
<1>2. JobTypeOK /\ JobRuns /\ JobAsks
  BY DEF JobInv
<1>3. /\ explorer \in Nat \ {0} /\ sections \in Seq(JobSection) /\ Len(sections) = explorer - 1
      /\ explorer <= Len(Job!Explorers) /\ chain \in Chains
  BY <1>1, <1>2 DEF JobTypeOK, JobRuns, JobAsks
<1>4. /\ InLists(Job!Deployed, verified, unverified, errors)
      /\ True(Job!Here, verified, unverified)
  <2>1. Elements(todo) = {}
    BY <1>1, NoElements
  <2> QED
    BY <1>1, <1>2, <2>1 DEF JobAsks, InLists
<1>5. /\ s = [explorer |-> Job!Here, error |-> "", verified |-> verified,
              unverified |-> unverified, errors |-> errors]
      /\ s.explorer = Job!Here /\ s.error = ""
      /\ s.verified = verified /\ s.unverified = unverified /\ s.errors = errors
  BY DEF Job!Section
<1>6. Job!Here = Job!Explorers[explorer] /\ Job!Here \in Range(Job!Explorers)
  <2>1. explorer \in 1 .. Len(Job!Explorers)
    BY <1>3, ExplorersFacts
  <2> QED
    BY <1>3, <2>1, ExplorersFacts DEF Job!Here
<1>7. s \in JobSection
  <2>1. /\ verified \in SUBSET Addresses /\ unverified \in SUBSET Addresses
        /\ errors \in SUBSET Addresses
    BY <1>2, <1>4, DeployedFacts DEF InLists
  <2>2. Job!Here \in Range(Job!Explorers) \cup {"default"} /\ "" \in {"", "config", "none"}
    BY <1>6
  <2>3. [explorer |-> Job!Here, error |-> "", verified |-> verified,
          unverified |-> unverified, errors |-> errors] \in JobSection
    BY <2>1, <2>2, SectionRecord
  <2> QED
    BY <2>3 DEF Job!Section
<1>8. Finished(s, explorer)
  BY <1>3, <1>4, <1>5, <1>6 DEF Finished
<1> HIDE DEF s
<1>9. /\ sections' \in Seq(JobSection) /\ Len(sections') = explorer
      /\ DOMAIN sections' = 1 .. explorer /\ sections'[explorer] = s
      /\ \A i \in 1 .. (explorer - 1) : i \in DOMAIN sections /\ sections'[i] = sections[i]
  BY <1>1, <1>3, <1>7
<1>10. JobTypeOK'
  <2>1. hasFailures' \in BOOLEAN /\ explorer' \in Nat \ {0}
    BY <1>1, <1>3
  <2> QED
    BY <1>1, <1>2, <1>9, <2>1, WorldStays DEF JobTypeOK
<1>11. JobRuns'
  <2>1. ASSUME NEW i \in DOMAIN sections' PROVE Finished(sections'[i], i)
    <3>1. i = explorer \/ i \in 1 .. (explorer - 1)
      BY <1>3, <1>9
    <3> QED
      BY <1>1, <1>2, <1>8, <1>9, <3>1 DEF JobRuns
  <2>2. ASSUME ~hasFailures', NEW i \in DOMAIN sections'
        PROVE  sections'[i].unverified = {} /\ sections'[i].errors = {}
    <3>1. i = explorer \/ i \in 1 .. (explorer - 1)
      BY <1>3, <1>9
    <3>2. ~hasFailures /\ unverified = {} /\ errors = {}
      BY <1>1, <2>2
    <3>3. CASE i = explorer
      BY <1>5, <1>9, <3>2, <3>3
    <3>4. CASE i \in 1 .. (explorer - 1)
      BY <1>1, <1>2, <1>9, <3>2, <3>4 DEF JobRuns, AllClean
    <3> QED
      BY <3>1, <3>3, <3>4
  <2>3. Len(sections') = explorer' - 1
    BY <1>1, <1>3, <1>9
  <2>4. \A i \in DOMAIN sections' : Finished(sections[i], i)'
    BY <1>1, <2>1, WorldStays
  <2> QED
    BY <1>1, <1>2, <2>2, <2>3, <2>4, WorldStays DEF JobRuns, AllClean, AddressesOf
<1>12. JobStarts' /\ JobAsks' /\ JobEnded' /\ Job!ZeroMeansVerified'
  BY <1>1 DEF JobStarts, JobAsks, JobEnded, Job!ZeroMeansVerified
<1>13. Job!NamesAreKept'
  BY <1>1, WorldStays DEF JobInv, Job!NamesAreKept
<1> QED
  BY <1>1, <1>10, <1>11, <1>12, <1>13, WorldStays DEF JobInv

LEMMA JobFinish ==
  ASSUME JobInv, Job!Finish
  PROVE  JobInv'
<1>1. /\ UNCHANGED Job!world /\ pc = "explorer" /\ pc' = "done"
      /\ explorer > Len(Job!Explorers) /\ artifact' = sections
      /\ exit' = (IF hasFailures /\ ~noFail THEN 1 ELSE 0)
      /\ UNCHANGED <<contracts, explorer, sections, hasFailures>>
  BY DEF Job!Finish, Job!write_json_artifact
<1>2. JobTypeOK /\ JobRuns
  BY DEF JobInv
<1>3. JobTypeOK'
  BY <1>1, <1>2, WorldStays DEF JobTypeOK
<1>4. JobEnded'
  BY <1>1, <1>2, WorldStays DEF JobRuns, JobEnded
<1>5. Job!ZeroMeansVerified'
  <2> SUFFICES ASSUME ~hasFailures, NEW x \in Range(Job!Explorers)
               PROVE  Job!Deployed \subseteq isVerified[x]
    BY <1>1, SameOperators, WorldStays DEF Job!ZeroMeansVerified
  <2>1. /\ Len(sections) = explorer - 1 /\ AllClean
        /\ \A i \in DOMAIN sections : Finished(sections[i], i)
    BY <1>1, <1>2 DEF JobRuns
  <2>2. /\ Len(Job!Explorers) \in Nat /\ Job!Explorers \in Seq(Range(Job!Explorers))
        /\ explorer \in Nat /\ sections \in Seq(JobSection)
    BY <1>2, ExplorersFacts DEF JobTypeOK
  <2>3. PICK i \in 1 .. Len(Job!Explorers) : x = Job!Explorers[i]
    BY <2>2 DEF Range
  <2>4. i \in DOMAIN sections
    BY <1>1, <2>1, <2>2
  <2>5. Job!Deployed \subseteq sections[i].verified /\ sections[i].explorer = x
    BY <2>1, <2>3, <2>4 DEF Finished, InLists, AllClean
  <2> QED
    BY <2>1, <2>4, <2>5 DEF Finished, True
<1>6. JobStarts' /\ JobRuns' /\ JobAsks'
  BY <1>1 DEF JobStarts, JobRuns, JobAsks
<1>7. Job!NamesAreKept'
  BY <1>1, WorldStays DEF JobInv, Job!NamesAreKept
<1> QED
  BY <1>1, <1>3, <1>4, <1>5, <1>6, <1>7, WorldStays DEF JobInv

LEMMA JobNext == JobInv /\ [Job!Next]_Job!vars => JobInv'
BY JobStutters, JobGetVerified, JobWithout, JobStart, JobStartExplorer, JobRequest, JobCrash,
   JobFinishExplorer, JobFinish DEF Job!Next, Job!Step

-----------------------------------------------------------------------------
(* ... and says what a job hands in                                        *)

\* A section with results is that of an explorer.
LEMMA ReportedFacts ==
  ASSUME JobInv, NEW s \in Job!Reported
  PROVE  /\ pc \in {"done", "crashed"}
         /\ \E i \in DOMAIN sections : s = sections[i] /\ Finished(s, i)
<1>1. s \in Elements(artifact) /\ s.error = ""
  BY SameOperators DEF Job!Reported
<1>2. pc \in {"done", "crashed"}
  <2>1. artifact # <<>>
    BY <1>1, NoElements
  <2>2. JobTypeOK /\ JobStarts /\ JobRuns
    BY DEF JobInv
  <2> QED
    BY <2>1, <2>2 DEF JobTypeOK, JobStarts, JobRuns
<1>3. artifact = sections /\ sections \in Seq(JobSection)
  BY <1>2 DEF JobInv, JobEnded, JobTypeOK
<1>4. PICK i \in DOMAIN sections : s = sections[i]
  BY <1>1, <1>3 DEF Elements
<1>5. ~(Len(sections) = 1 /\ sections[1].error \in {"config", "none"})
  <2> SUFFICES ASSUME Len(sections) = 1, sections[1].error \in {"config", "none"} PROVE FALSE
    OBVIOUS
  <2>1. i = 1
    BY <1>3, <1>4
  <2> QED
    BY <1>1, <1>4, <2>1
<1> QED
  BY <1>2, <1>4, <1>5 DEF JobInv, JobEnded

LEMMA JobSays ==
  ASSUME JobInv
  PROVE  /\ Job!SectionsAreComplete /\ Job!VerifiedIsTrue /\ Job!UnverifiedIsTrue
         /\ Job!ZeroMeansVerified /\ Job!NamesAreKept
<1>1. ASSUME NEW s \in Job!Reported
      PROVE  /\ InLists(Job!Deployed, s.verified, s.unverified, s.errors)
             /\ True(s.explorer, s.verified, s.unverified)
  BY <1>1, ReportedFacts DEF Finished
<1>2. Job!SectionsAreComplete
  <2>1. ASSUME NEW s \in Job!Reported
        PROVE  Cardinality(s.verified) + Cardinality(s.unverified) + Cardinality(s.errors)
                 = Cardinality(Job!Deployed)
    BY <1>1, ListsCount DEF JobInv
  <2> QED
    BY <1>1, <2>1, SameOperators DEF Job!SectionsAreComplete, InLists
<1>3. Job!VerifiedIsTrue /\ Job!UnverifiedIsTrue
  BY <1>1 DEF Job!VerifiedIsTrue, Job!UnverifiedIsTrue, True
<1> QED
  BY <1>2, <1>3 DEF JobInv

-----------------------------------------------------------------------------
(* Sequences put one after the other                                       *)

\* FlattenSeq is the value at the last place of a function defined by this equation.
Flattened(f, seqs) ==
    f = [i \in 1 .. Len(seqs) |-> IF i = 1 THEN seqs[i] ELSE f[i - 1] \o seqs[i]]

LEMMA FlattenIs ==
  ASSUME NEW seqs
  PROVE  Report!FlattenSeq(seqs) =
           IF Len(seqs) = 0 THEN seqs ELSE (CHOOSE f : Flattened(f, seqs))[Len(seqs)]
BY DEF Report!FlattenSeq, Flattened

\* It has a solution, built from the front.
LEMMA FlattenExists ==
  ASSUME NEW S, NEW seqs \in Seq(Seq(S))
  PROVE  \E f \in [1 .. Len(seqs) -> Seq(S)] : Flattened(f, seqs)
<1> DEFINE N == Len(seqs)
           Solves(f, n) == f = [i \in 1 .. n |-> IF i = 1 THEN seqs[i] ELSE f[i - 1] \o seqs[i]]
           F == {n \in Nat : n <= N => \E f \in [1 .. n -> Seq(S)] : Solves(f, n)}
<1>1. N \in Nat /\ \A i \in 1 .. N : seqs[i] \in Seq(S)
  OBVIOUS
<1>2. 0 \in F
  <2> DEFINE f == [i \in 1 .. 0 |-> <<>>]
  <2>1. f \in [1 .. 0 -> Seq(S)]
    OBVIOUS
  <2>2. DOMAIN f = {} /\ 1 .. 0 = {}
    OBVIOUS
  <2>3. Solves(f, 0)
    BY <2>2
  <2> QED
    BY <2>1, <2>3
<1>3. ASSUME NEW n \in F \cap Nat PROVE n + 1 \in F
  <2>0. n \in Nat /\ n + 1 \in Nat /\ (n + 1 <= N => n <= N /\ n + 1 \in 1 .. N)
    <3> HIDE DEF F
    <3> QED
      BY <1>1
  <2> SUFFICES ASSUME n + 1 <= N PROVE \E f \in [1 .. (n + 1) -> Seq(S)] : Solves(f, n + 1)
    <3> HIDE DEF Solves
    <3> QED
      BY <2>0
  <2>1. PICK f \in [1 .. n -> Seq(S)] : Solves(f, n)
    <3> HIDE DEF Solves
    <3> QED
      BY <2>0
  <2> DEFINE next == IF n = 0 THEN seqs[1] ELSE f[n] \o seqs[n + 1]
             g == [i \in 1 .. (n + 1) |-> IF i = n + 1 THEN next ELSE f[i]]
  <2> HIDE DEF F
  <2>2. next \in Seq(S)
    <3>1. CASE n = 0
      BY <1>1, <2>0, <3>1
    <3>2. CASE n # 0
      <4>1. f[n] \in Seq(S) /\ seqs[n + 1] \in Seq(S)
        BY <1>1, <2>0, <2>1, <3>2
      <4> QED
        BY <3>2, <4>1
    <3> QED
      BY <3>1, <3>2
  <2>3. \A i \in 1 .. (n + 1) : i = n + 1 \/ i \in 1 .. n
    BY <2>0
  <2>4. g \in [1 .. (n + 1) -> Seq(S)]
    <3> HIDE DEF next
    <3> QED
      BY <2>1, <2>2, <2>3
  <2>5. ASSUME NEW i \in 1 .. (n + 1) PROVE g[i] = IF i = 1 THEN seqs[i] ELSE g[i - 1] \o seqs[i]
    <3>1. CASE i = n + 1 /\ n = 0
      BY <3>1
    <3>2. CASE i = n + 1 /\ n # 0
      <4>1. i # 1 /\ i - 1 = n /\ n \in 1 .. (n + 1) /\ n # n + 1
        BY <2>0, <3>2
      <4> QED
        BY <3>2, <4>1
    <3>3. CASE i \in 1 .. n
      <4>0. i \in 1 .. (n + 1) /\ i # n + 1 /\ i \in DOMAIN f
        BY <2>0, <2>1, <3>3
      <4>a. g[i] = f[i]
        BY <4>0
      <4>b. f = [h \in 1 .. n |-> IF h = 1 THEN seqs[h] ELSE f[h - 1] \o seqs[h]]
        BY <2>1
      <4>1. g[i] = f[i] /\ f[i] = IF i = 1 THEN seqs[i] ELSE f[i - 1] \o seqs[i]
        <5> HIDE DEF g, Solves
        <5> QED
          BY <3>3, <4>a, <4>b, Zenon
      <4>2. i # 1 => i - 1 \in 1 .. (n + 1) /\ i - 1 # n + 1
        BY <2>0, <3>3
      <4>3. i # 1 => g[i - 1] = f[i - 1]
        BY <4>2
      <4> HIDE DEF g
      <4> QED
        BY <4>1, <4>3
    <3> QED
      BY <2>3, <3>1, <3>2, <3>3
  <2>6. g = [i \in 1 .. (n + 1) |-> g[i]]
    OBVIOUS
  <2> HIDE DEF g
  <2>7. Solves(g, n + 1)
    BY <2>5, <2>6
  <2> QED
    BY <2>4, <2>7
<1>4. N \in F
  <2> HIDE DEF F
  <2> QED
    BY <1>1, <1>2, <1>3, Induction
<1>5. PICK f \in [1 .. N -> Seq(S)] : Solves(f, N)
  <2>1. N <= N
    BY <1>1
  <2> HIDE DEF N, Solves
  <2> QED
    BY <1>4, <2>1
<1>6. Flattened(f, seqs)
  BY <1>5, Zenon DEF Flattened
<1> QED
  BY <1>5, <1>6

\* The elements of the whole are those of its parts.
LEMMA FlattenFacts ==
  ASSUME NEW S, NEW seqs \in Seq(Seq(S))
  PROVE  /\ Report!FlattenSeq(seqs) \in Seq(S)
         /\ Elements(Report!FlattenSeq(seqs)) = UNION {Elements(seqs[i]) : i \in DOMAIN seqs}
<1> DEFINE N == Len(seqs)
           f == CHOOSE g : Flattened(g, seqs)
<1>1. N \in Nat /\ DOMAIN seqs = 1 .. N /\ \A i \in 1 .. N : seqs[i] \in Seq(S)
  OBVIOUS
<1>2. Flattened(f, seqs)
  BY FlattenExists
<1> HIDE DEF f
<1> DEFINE F == {n \in Nat : n \in 1 .. N =>
                   f[n] \in Seq(S) /\ Elements(f[n]) = UNION {Elements(seqs[i]) : i \in 1 .. n}}
<1>3. 0 \in F
  BY <1>1
<1>4. ASSUME NEW n \in F \cap Nat PROVE n + 1 \in F
  <2>0. n \in Nat /\ n + 1 \in Nat
    OBVIOUS
  <2> SUFFICES ASSUME n + 1 \in 1 .. N
               PROVE  /\ f[n + 1] \in Seq(S)
                      /\ Elements(f[n + 1]) = UNION {Elements(seqs[i]) : i \in 1 .. (n + 1)}
    BY <2>0
  <2>1. f[n + 1] = IF n + 1 = 1 THEN seqs[n + 1] ELSE f[(n + 1) - 1] \o seqs[n + 1]
    BY <1>2 DEF Flattened
  <2>2. seqs[n + 1] \in Seq(S)
    BY <1>1
  <2>3. CASE n = 0
    <3>1. 1 .. (n + 1) = {1} /\ n + 1 = 1
      BY <2>3
    <3> QED
      BY <2>1, <2>2, <3>1
  <2>4. CASE n # 0
    <3>1. n \in 1 .. N /\ n + 1 # 1 /\ (n + 1) - 1 = n
      BY <1>1, <2>0, <2>4
    <3>2. f[n] \in Seq(S) /\ Elements(f[n]) = UNION {Elements(seqs[i]) : i \in 1 .. n}
      BY <3>1
    <3>3. f[n + 1] = f[n] \o seqs[n + 1]
      BY <2>1, <3>1
    <3> HIDE DEF F
    <3>4. 1 .. (n + 1) = (1 .. n) \cup {n + 1}
      BY <2>0
    <3>5. Elements(f[n] \o seqs[n + 1]) = Elements(f[n]) \cup Elements(seqs[n + 1])
      BY <2>2, <3>2, ConcatElements
    <3> QED
      BY <2>2, <3>2, <3>3, <3>4, <3>5
  <2> QED
    BY <2>3, <2>4
<1>5. N \in F
  <2> HIDE DEF F
  <2> QED
    BY <1>1, <1>3, <1>4, Induction
<1>6. CASE N = 0
  <2>1. seqs = <<>> /\ DOMAIN seqs = {}
    BY <1>6
  <2>2. Report!FlattenSeq(seqs) = <<>>
    BY <1>6, <2>1, FlattenIs
  <2>3. UNION {Elements(seqs[i]) : i \in DOMAIN seqs} = {}
    BY <2>1
  <2> QED
    BY <2>2, <2>3, NoElements
<1>7. CASE N # 0
  <2>1. N \in 1 .. N
    BY <1>1, <1>7
  <2>2. Report!FlattenSeq(seqs) = f[N]
    BY <1>7, FlattenIs DEF f
  <2>3. f[N] \in Seq(S) /\ Elements(f[N]) = UNION {Elements(seqs[i]) : i \in 1 .. N}
    BY <1>5, <2>1
  <2> HIDE DEF F
  <2>4. DOMAIN seqs = 1 .. N
    BY <1>1
  <2> HIDE DEF N
  <2>5. {Elements(seqs[i]) : i \in 1 .. N} = {Elements(seqs[i]) : i \in DOMAIN seqs}
    BY <2>4
  <2>6. Report!FlattenSeq(seqs) \in Seq(S)
    BY <2>2, <2>3
  <2> QED
    BY <2>2, <2>3, <2>5, <2>6, Zenon
<1> QED
  BY <1>6, <1>7

-----------------------------------------------------------------------------
(* The report                                                              *)

Known == Elements(SectionOrder)

ReportTypeOK ==
    /\ run \in 0 .. MaxRuns /\ missed \in BOOLEAN /\ reported \in SUBSET Report!Keys
    /\ comment \in [kind : {"none", "clear", "sections"}, items : Seq(Report!Item)]
    /\ latest \in [Report!Keys -> [run : 0 .. MaxRuns, clean : BOOLEAN]]
    /\ comment.kind # "sections" => comment.items = <<>>

ReportInv ==
    /\ ReportTypeOK /\ Report!ClearMeansVerified
    /\ Report!FreshIsShown /\ Report!FailuresAreKept /\ Report!FailuresAreCurrent

\* The keys of the sections
LEMMA KeysFacts ==
  /\ SectionOrder \in Seq(Report!Keys) /\ Distinct(SectionOrder) /\ Known \subseteq Report!Keys
  /\ IsFiniteSet(Known) /\ Cardinality(Known) = Len(SectionOrder)
  /\ IsFiniteSet(Report!Keys) /\ MaxRuns \in Nat /\ Chains # {}
  /\ \A c \in Chains : /\ KeysOf[c] \in Seq(Known) /\ KeysOf[c] # <<>> /\ Distinct(KeysOf[c])
                       /\ ErrorKey[c] \in Report!Keys
  /\ \A k \in Report!Keys : /\ ParsedKey[k] \in Report!Keys
                            /\ ParsedKey[k] \in Known => ParsedKey[k] = k
  /\ \A k \in Known : ParsedKey[k] = k
<1>1. Report!Range(SectionOrder) = Known
  BY SameOperators DEF Known
<1>2. /\ SectionOrder \in Seq(Report!Keys) /\ Distinct(SectionOrder)
      /\ IsFiniteSet(Report!Keys) /\ MaxRuns \in Nat /\ Chains # {}
      /\ DOMAIN ParsedKey = Report!Keys
      /\ \A k \in Known : ParsedKey[k] = k
      /\ \A k \in Report!Keys : ParsedKey[k] \in Known => ParsedKey[k] = k
      /\ \A c \in Chains : /\ KeysOf[c] \in Seq(Known) /\ KeysOf[c] # <<>> /\ Distinct(KeysOf[c])
  BY <1>1, ExplorerReportAssumption, SameOperators DEF Report!ReportAssumption
<1>3. Known \subseteq Report!Keys /\ \A c \in Chains : ErrorKey[c] \in Report!Keys
  BY <1>1 DEF Report!Keys
<1>4. \A k \in Report!Keys : ParsedKey[k] \in Report!Keys
  <2>1. Elements(ParsedKey) \subseteq Report!Keys
    BY SameOperators DEF Report!Keys
  <2> QED
    BY <1>2, <2>1 DEF Elements
<1>5. IsFiniteSet(Known) /\ Cardinality(Known) = Len(SectionOrder)
  BY <1>2, DistinctLength DEF Known
<1> QED
  BY <1>2, <1>3, <1>4, <1>5

\* Every key has its place.
LEMMA OrderFacts ==
  Report!Order \in Seq(Report!Keys) /\ Elements(Report!Order) = Report!Keys
<1> DEFINE others == SetToSeq(Report!Keys \ Known)
<1>1. Report!Order = SectionOrder \o others
  BY SameOperators DEF Report!Order, Known
<1>2. others \in Seq(Report!Keys \ Known) /\ Elements(others) = Report!Keys \ Known
  <2>1. IsFiniteSet(Report!Keys \ Known)
    BY KeysFacts, FS_Difference
  <2> QED
    BY <2>1, SetToSeqFacts
<1> HIDE DEF others
<1>3. others \in Seq(Report!Keys) /\ SectionOrder \in Seq(Report!Keys)
  BY <1>2, KeysFacts, SeqMonotonic
<1>4. Elements(SectionOrder \o others) = Known \cup (Report!Keys \ Known)
  BY <1>2, <1>3, ConcatElements DEF Known
<1>5. SectionOrder \o others \in Seq(Report!Keys)
  BY <1>3
<1> QED
  BY <1>1, <1>4, <1>5, KeysFacts

\* What the jobs hand in is of keys of sections; only a section of an explorer is clean.
LEMMA NewFacts ==
  ASSUME NEW of, \A c \in Chains : of[c] \in Report!Artifacts(c)
  PROVE  LET new == Report!LoadArtifacts(of)
         IN  /\ DOMAIN new \subseteq Report!Keys /\ new \in [DOMAIN new -> BOOLEAN]
             /\ \A k \in DOMAIN new : new[k] => k \in Known
<1>1. ASSUME NEW c \in Chains, NEW k \in DOMAIN of[c]
      PROVE  k \in Report!Keys /\ of[c][k] \in BOOLEAN /\ (of[c][k] => k \in Known)
  <2>1. CASE of[c] = [h \in {} |-> FALSE]
    BY <2>1
  <2>2. CASE of[c] = [h \in {ErrorKey[c]} |-> FALSE]
    BY <2>2, KeysFacts
  <2>3. CASE of[c] \in UNION {[{KeysOf[c][i] : i \in 1 .. n} -> BOOLEAN] :
                                 n \in 1 .. Len(KeysOf[c])}
    <3>1. PICK n \in 1 .. Len(KeysOf[c]) : of[c] \in [{KeysOf[c][i] : i \in 1 .. n} -> BOOLEAN]
      BY <2>3
    <3>2. PICK i \in 1 .. n : k = KeysOf[c][i]
      BY <3>1
    <3>3. KeysOf[c] \in Seq(Known) /\ n \in 1 .. Len(KeysOf[c]) /\ Len(KeysOf[c]) \in Nat
      BY KeysFacts
    <3>4. i \in 1 .. Len(KeysOf[c])
      BY <3>3
    <3>5. k \in Known
      BY <3>2, <3>3, <3>4
    <3> QED
      BY <3>1, <3>5, KeysFacts
  <2>4. of[c] \in {[h \in {} |-> FALSE], [h \in {ErrorKey[c]} |-> FALSE]} \cup
          UNION {[{KeysOf[c][i] : i \in 1 .. n} -> BOOLEAN] : n \in 1 .. Len(KeysOf[c])}
    BY DEF Report!Artifacts
  <2> QED
    BY <2>1, <2>2, <2>3, <2>4
<1> DEFINE new == Report!LoadArtifacts(of)
           from(k) == CHOOSE c \in Chains : k \in DOMAIN of[c]
<1>2. /\ DOMAIN new = UNION {DOMAIN of[c] : c \in Chains}
      /\ new = [k \in DOMAIN new |-> of[from(k)][k]]
  BY DEF Report!LoadArtifacts
<1>3. ASSUME NEW k \in DOMAIN new PROVE from(k) \in Chains /\ k \in DOMAIN of[from(k)]
  <2>1. \E c \in Chains : k \in DOMAIN of[c]
    BY <1>2
  <2> QED
    BY <2>1
<1> HIDE DEF new, from
<1>4. ASSUME NEW k \in DOMAIN new
      PROVE  k \in Report!Keys /\ new[k] \in BOOLEAN /\ (new[k] => k \in Known)
  <2>1. new[k] = of[from(k)][k]
    BY <1>2
  <2> QED
    BY <1>1, <1>3, <2>1
<1>5. new \in [DOMAIN new -> BOOLEAN]
  BY <1>2, <1>4
<1> QED
  BY <1>4, <1>5 DEF new

\* The text under a heading begins with its section; the others in it have no heading.
LEMMA RawFacts ==
  ASSUME ReportTypeOK, NEW m \in Report!Headings
  PROVE  /\ Report!Raw(m) \in Seq(Report!Item)
         /\ comment.items[m] \in Elements(Report!Raw(m))
         /\ \A x \in Elements(Report!Raw(m)) : x.clean \/ x = comment.items[m]
<1> DEFINE items == comment.items
           n == Len(items)
           later == {j \in Report!Headings : j > m}
           e == Report!End(m)
<1>1. items \in Seq(Report!Item) /\ n \in Nat /\ DOMAIN items = 1 .. n
  BY DEF ReportTypeOK
<1>2. Report!Headings = {i \in 1 .. n : ~items[i].clean}
  BY <1>1 DEF Report!Headings
<1>3. m \in 1 .. n /\ later \in SUBSET (1 .. n)
  BY <1>2
<1>4. e = IF later = {} THEN n ELSE Min(later) - 1
  BY SameOperators DEF Report!End
<1> HIDE DEF items, n, e
<1>5. e \in m .. n /\ \A j \in 1 .. n : j > m /\ j <= e => j \notin Report!Headings
  <2>1. CASE later = {}
    BY <1>1, <1>3, <1>4, <2>1
  <2>2. CASE later # {}
    <3>1. Min(later) \in later /\ \A y \in later : Min(later) <= y
      BY <1>1, <1>3, <2>2, MinAndMax
    <3>2. Min(later) \in 1 .. n /\ Min(later) > m
      BY <1>3, <3>1
    <3>3. e = Min(later) - 1
      BY <1>4, <2>2
    <3>4. e \in m .. n
      BY <1>1, <1>3, <3>2, <3>3
    <3>5. ASSUME NEW j \in 1 .. n, j > m, j <= e, j \in Report!Headings PROVE FALSE
      <4>1. j \in later
        BY <3>5
      <4>2. Min(later) <= j
        BY <3>1, <4>1
      <4> HIDE DEF later
      <4> QED
        BY <1>1, <3>2, <3>3, <3>5, <4>2
    <3> QED
      BY <3>4, <3>5
  <2> QED
    BY <2>1, <2>2
<1> HIDE DEF later
<1> DEFINE raw == SubSeq(items, m, e)
<1>6. /\ raw \in Seq(Report!Item) /\ Len(raw) = e - m + 1
      /\ \A i \in 1 .. (e - m + 1) : raw[i] = items[m + i - 1]
  <2>1. m \in Int /\ e \in Int /\ \A i \in m .. e : items[i] \in Report!Item
    BY <1>1, <1>3, <1>5
  <2> QED
    BY <1>3, <1>5, <2>1, SubSeqProperties
<1>7. Report!Raw(m) = raw
  BY DEF Report!Raw, items, e
<1> HIDE DEF raw
<1>8. items[m] \in Elements(raw)
  <2>1. 1 \in 1 .. (e - m + 1) /\ m + 1 - 1 = m /\ DOMAIN raw = 1 .. (e - m + 1)
    BY <1>3, <1>5, <1>6
  <2>2. raw[1] = items[m]
    BY <1>6, <2>1
  <2> QED
    BY <2>1, <2>2 DEF Elements
<1>9. ASSUME NEW x \in Elements(raw) PROVE x.clean \/ x = items[m]
  <2>1. PICK i \in 1 .. (e - m + 1) : x = items[m + i - 1]
    BY <1>6 DEF Elements
  <2>2. i = 1 \/ (m + i - 1 \in 1 .. n /\ m + i - 1 > m /\ m + i - 1 <= e)
    BY <1>1, <1>3, <1>5
  <2>3. CASE i = 1
    <3>1. m + i - 1 = m
      BY <1>3, <2>3
    <3> QED
      BY <2>1, <3>1
  <2>4. CASE m + i - 1 \in 1 .. n /\ m + i - 1 > m /\ m + i - 1 <= e
    <3>1. m + i - 1 \notin Report!Headings
      BY <1>5, <2>4
    <3> QED
      BY <1>2, <2>1, <2>4, <3>1
  <2> QED
    BY <2>2, <2>3, <2>4
<1> QED
  BY <1>6, <1>7, <1>8, <1>9 DEF items

\* What is read from the comment: for every heading there is the section of the last
\* heading with the same key.
LEMMA OldFacts ==
  ASSUME ReportTypeOK
  PROVE  LET old == Report!ParseExistingComment
         IN  /\ DOMAIN old \subseteq Report!Keys
             /\ \A i \in Report!Headings : ParsedKey[comment.items[i].key] \in DOMAIN old
             /\ \A k \in DOMAIN old :
                  /\ old[k] \in Seq(Report!Item)
                  /\ \E m \in Report!Headings :
                       /\ ParsedKey[comment.items[m].key] = k
                       /\ comment.items[m] \in Elements(old[k])
                       /\ \A x \in Elements(old[k]) : x.clean \/ x = comment.items[m]
<1> DEFINE old == Report!ParseExistingComment
           items == comment.items
           of(k) == {i \in Report!Headings : ParsedKey[items[i].key] = k}
<1>1. /\ items \in Seq(Report!Item) /\ Len(items) \in Nat
      /\ Report!Headings \in SUBSET (1 .. Len(items))
  BY DEF ReportTypeOK, Report!Headings
<1>2. /\ DOMAIN old = {ParsedKey[items[i].key] : i \in Report!Headings}
      /\ \A k \in DOMAIN old : old[k] = Report!Raw(Max(of(k)))
  BY SameOperators DEF Report!ParseExistingComment, Report!normalize_section_key
<1> HIDE DEF old
<1>3. ASSUME NEW i \in Report!Headings PROVE ParsedKey[items[i].key] \in Report!Keys
  <2>1. items[i] \in Report!Item
    BY <1>1
  <2>2. items[i].key \in Report!Keys
    BY <2>1 DEF Report!Item
  <2> QED
    BY <2>2, KeysFacts
<1>4. ASSUME NEW k \in DOMAIN old
      PROVE  Max(of(k)) \in Report!Headings /\ ParsedKey[items[Max(of(k))].key] = k
  <2>1. of(k) # {} /\ of(k) \in SUBSET (1 .. Len(items))
    BY <1>1, <1>2
  <2>2. Max(of(k)) \in of(k)
    <3> HIDE DEF of
    <3> QED
      BY <1>1, <2>1, MinAndMax
  <2> QED
    BY <2>2
<1> HIDE DEF of
<1>5. ASSUME NEW k \in DOMAIN old
      PROVE  /\ old[k] \in Seq(Report!Item)
             /\ items[Max(of(k))] \in Elements(old[k])
             /\ \A x \in Elements(old[k]) : x.clean \/ x = items[Max(of(k))]
  BY <1>2, <1>4, RawFacts
<1>6. \A k \in DOMAIN old :
        /\ old[k] \in Seq(Report!Item)
        /\ \E m \in Report!Headings :
             /\ ParsedKey[items[m].key] = k
             /\ items[m] \in Elements(old[k])
             /\ \A x \in Elements(old[k]) : x.clean \/ x = items[m]
  BY <1>4, <1>5
<1>7. /\ DOMAIN old \subseteq Report!Keys
      /\ \A i \in Report!Headings : ParsedKey[items[i].key] \in DOMAIN old
  BY <1>2, <1>3
<1> QED
  BY <1>6, <1>7 DEF old

\* A run of the workflow keeps the invariant.
LEMMA ReportRun ==
  ASSUME ReportInv, NEW of, \A c \in Chains : of[c] \in Report!Artifacts(c),
         NEW fetched \in BOOLEAN, Report!Run(of, fetched)
  PROVE  ReportInv'
<1> DEFINE new == Report!LoadArtifacts(of)
           old == Report!FetchPrComment(fetched)
           items == comment.items
           fresh(k) == [key |-> k, run |-> run + 1, clean |-> new[k]]
           merged == [k \in DOMAIN old \cup DOMAIN new |->
                         IF k \in DOMAIN new THEN <<fresh(k)>> ELSE old[k]]
           parts == [i \in DOMAIN Report!Order |->
                       IF Report!Order[i] \in DOMAIN merged THEN merged[Report!Order[i]] ELSE <<>>]
           all == /\ \A k \in DOMAIN merged : k \in DOMAIN new /\ new[k]
                  /\ Cardinality(DOMAIN merged) >= Len(SectionOrder)
<1>1. /\ run < MaxRuns /\ run' = run + 1 /\ reported' = DOMAIN new
      /\ comment' =
           IF DOMAIN merged = {} THEN (IF fetched THEN comment ELSE Report!None)
           ELSE IF all THEN [kind |-> "clear", items |-> <<>>]
           ELSE [kind |-> "sections", items |-> Report!FlattenSeq(parts)]
      /\ latest' = [k \in Report!Keys |->
            IF k \in DOMAIN new THEN [run |-> run + 1, clean |-> new[k]] ELSE latest[k]]
      /\ missed' = (missed \/ (~fetched /\ comment # Report!None))
  BY SameOperators DEF Report!Run, Report!Merged, Report!AllVerified, Report!Ordered
<1>2. ReportTypeOK /\ items \in Seq(Report!Item) /\ run \in Nat /\ run + 1 \in 1 .. MaxRuns
  BY <1>1, KeysFacts DEF ReportInv, ReportTypeOK
<1>3. /\ DOMAIN new \subseteq Report!Keys /\ new \in [DOMAIN new -> BOOLEAN]
      /\ \A k \in DOMAIN new : new[k] => k \in Known
  BY NewFacts
<1>4. /\ DOMAIN old \subseteq Report!Keys
      /\ \A k \in DOMAIN old :
           /\ old[k] \in Seq(Report!Item)
           /\ \E m \in Report!Headings :
                /\ ParsedKey[items[m].key] = k
                /\ items[m] \in Elements(old[k])
                /\ \A x \in Elements(old[k]) : x.clean \/ x = items[m]
      /\ fetched => \A i \in Report!Headings : ParsedKey[items[i].key] \in DOMAIN old
  <2>1. CASE fetched
    BY <1>2, <2>1, OldFacts DEF Report!FetchPrComment
  <2>2. CASE ~fetched
    <3>1. DOMAIN old = {}
      BY <2>2 DEF Report!FetchPrComment
    <3> QED
      BY <2>2, <3>1
  <2> QED
    BY <2>1, <2>2
<1>5. /\ DOMAIN merged = DOMAIN old \cup DOMAIN new
      /\ \A k \in DOMAIN merged : merged[k] = IF k \in DOMAIN new THEN <<fresh(k)>> ELSE old[k]
  OBVIOUS
<1>6. \A k \in DOMAIN new : fresh(k) \in Report!Item
  <2>1. \A k \in DOMAIN new : k \in Report!Keys /\ new[k] \in BOOLEAN
    BY <1>3
  <2> HIDE DEF new
  <2> QED
    BY <1>2, <2>1 DEF Report!Item
<1>7. \A i \in Report!Headings : i \in DOMAIN items /\ items[i] \in Report!Item /\ ~items[i].clean
  BY <1>2 DEF Report!Headings
<1> HIDE DEF new, old
<1>8. \A k \in DOMAIN new : Elements(<<fresh(k)>>) = {fresh(k)} /\ <<fresh(k)>> \in Seq(Report!Item)
  <2> HIDE DEF fresh
  <2>1. \A x : DOMAIN <<x>> = {1} /\ <<x>>[1] = x
    OBVIOUS
  <2>2. \A x : Elements(<<x>>) = {x}
    BY <2>1 DEF Elements
  <2> QED
    BY <1>6, <2>2
<1> HIDE DEF merged
<1>9. /\ parts \in Seq(Seq(Report!Item))
      /\ DOMAIN parts = DOMAIN Report!Order
  <2>1. Report!Order \in Seq(Report!Keys)
    BY OrderFacts
  <2>2. ASSUME NEW i \in DOMAIN Report!Order
        PROVE  (IF Report!Order[i] \in DOMAIN merged THEN merged[Report!Order[i]] ELSE <<>>)
                  \in Seq(Report!Item)
    <3>1. CASE Report!Order[i] \in DOMAIN merged
      <4> DEFINE k == Report!Order[i]
      <4> HIDE DEF k
      <4>1. k \in DOMAIN merged => merged[k] \in Seq(Report!Item)
        <5>1. CASE k \in DOMAIN new
          BY <1>5, <1>8, <5>1
        <5>2. CASE k \notin DOMAIN new
          BY <1>4, <1>5, <5>2
        <5> QED
          BY <5>1, <5>2
      <4> QED
        BY <3>1, <4>1 DEF k
    <3>2. CASE Report!Order[i] \notin DOMAIN merged
      BY <3>2
    <3> QED
      BY <3>1, <3>2
  <2>3. DOMAIN Report!Order = 1 .. Len(Report!Order) /\ Len(Report!Order) \in Nat
    BY <2>1
  <2>4. \A i \in 1 .. Len(Report!Order) : parts[i] \in Seq(Report!Item)
    BY <2>2, <2>3
  <2>5. DOMAIN parts = 1 .. Len(Report!Order) /\ parts = [i \in 1 .. Len(Report!Order) |-> parts[i]]
    BY <2>3
  <2> HIDE DEF parts
  <2> QED
    BY <2>3, <2>4, <2>5
\* The elements of the new comment are those of what was merged.
<1>10. /\ Report!FlattenSeq(parts) \in Seq(Report!Item)
       /\ \A x : x \in Elements(Report!FlattenSeq(parts))
                 <=> \E k \in DOMAIN merged : x \in Elements(merged[k])
  <2>1. /\ Report!FlattenSeq(parts) \in Seq(Report!Item)
        /\ Elements(Report!FlattenSeq(parts)) = UNION {Elements(parts[i]) : i \in DOMAIN parts}
    BY <1>9, FlattenFacts
  <2>2. ASSUME NEW i \in DOMAIN parts, NEW x \in Elements(parts[i])
        PROVE  \E k \in DOMAIN merged : x \in Elements(merged[k])
    <3>1. parts[i] = IF Report!Order[i] \in DOMAIN merged THEN merged[Report!Order[i]] ELSE <<>>
      BY <1>9
    <3>2. Report!Order[i] \in DOMAIN merged
      BY <2>2, <3>1, NoElements
    <3> QED
      BY <2>2, <3>1, <3>2
  <2>3. ASSUME NEW k \in DOMAIN merged, NEW x \in Elements(merged[k])
        PROVE  \E i \in DOMAIN parts : x \in Elements(parts[i])
    <3>1. k \in Elements(Report!Order)
      BY <1>3, <1>4, <1>5, OrderFacts
    <3>2. PICK i \in DOMAIN Report!Order : Report!Order[i] = k
      BY <3>1 DEF Elements
    <3>3. parts[i] = merged[k]
      BY <3>2
    <3> QED
      BY <1>9, <2>3, <3>2, <3>3
  <2> HIDE DEF parts
  <2> QED
    BY <2>1, <2>2, <2>3
<1> HIDE DEF parts
<1> DEFINE sections2 == DOMAIN merged # {} /\ ~all
<1>11. /\ DOMAIN merged # {} /\ all => comment' = [kind |-> "clear", items |-> <<>>]
       /\ sections2 => comment'.kind = "sections" /\ comment'.items = Report!FlattenSeq(parts)
       /\ comment'.kind = "sections" /\ ~sections2 => DOMAIN merged = {} /\ comment' = comment
       /\ ~sections2 /\ ~(DOMAIN merged # {} /\ all) =>
            DOMAIN new = {} /\ (comment' = comment \/ comment' = Report!None)
  <2>1. DOMAIN merged = {} => DOMAIN new = {}
    BY <1>5
  <2>2. CASE DOMAIN merged = {}
    <3>1. Report!None.kind = "none"
      BY DEF Report!None
    <3>2. comment' = comment \/ comment' = Report!None
      BY <1>1, <2>2
    <3> HIDE DEF all
    <3> QED
      BY <2>1, <2>2, <3>1, <3>2
  <2>3. CASE DOMAIN merged # {} /\ all
    <3> HIDE DEF all
    <3>1. comment' = [kind |-> "clear", items |-> <<>>]
      BY <1>1, <2>3
    <3> QED
      BY <2>3, <3>1
  <2>4. CASE DOMAIN merged # {} /\ ~all
    <3> HIDE DEF all
    <3>1. comment' = [kind |-> "sections", items |-> Report!FlattenSeq(parts)]
      BY <1>1, <2>4
    <3> QED
      BY <2>4, <3>1
  <2> QED
    BY <2>2, <2>3, <2>4
<1>12. ReportTypeOK'
  <2>1. /\ comment' \in [kind : {"none", "clear", "sections"}, items : Seq(Report!Item)]
        /\ comment'.kind # "sections" => comment'.items = <<>>
    <3>0. ASSUME NEW kind \in {"none", "clear", "sections"}, NEW list \in Seq(Report!Item)
          PROVE  [kind |-> kind, items |-> list] \in
                   [kind : {"none", "clear", "sections"}, items : Seq(Report!Item)]
      OBVIOUS
    <3>1. CASE DOMAIN merged = {}
      <4>1. comment' = comment \/ comment' = [kind |-> "none", items |-> <<>>]
        BY <1>1, <3>1 DEF Report!None
      <4>2. CASE comment' = comment
        BY <1>2, <4>2 DEF ReportTypeOK
      <4>3. CASE comment' = [kind |-> "none", items |-> <<>>]
        <5>1. <<>> \in Seq(Report!Item) /\ "none" \in {"none", "clear", "sections"}
          OBVIOUS
        <5>2. [kind |-> "none", items |-> <<>>] \in
                [kind : {"none", "clear", "sections"}, items : Seq(Report!Item)]
          BY <3>0, <5>1
        <5>3. comment'.items = <<>>
          BY <4>3
        <5> QED
          BY <4>3, <5>2, <5>3, Zenon
      <4> QED
        BY <4>1, <4>2, <4>3
    <3>2. CASE DOMAIN merged # {} /\ all
      <4>1. comment' = [kind |-> "clear", items |-> <<>>]
        <5> HIDE DEF all
        <5> QED
          BY <1>11, <3>2
      <4>2. <<>> \in Seq(Report!Item) /\ "clear" \in {"none", "clear", "sections"}
        OBVIOUS
      <4>3. comment'.items = <<>>
        BY <4>1
      <4>4. [kind |-> "clear", items |-> <<>>] \in
              [kind : {"none", "clear", "sections"}, items : Seq(Report!Item)]
        BY <3>0, <4>2
      <4> QED
        BY <4>1, <4>3, <4>4, Zenon
    <3>3. CASE sections2
      <4>1. comment' = [kind |-> "sections", items |-> Report!FlattenSeq(parts)]
        <5> HIDE DEF all
        <5> QED
          BY <1>1, <3>3
      <4>2. comment'.kind = "sections"
        BY <4>1
      <4> QED
        BY <1>10, <3>0, <4>1, <4>2
    <3> HIDE DEF all
    <3> QED
      BY <3>1, <3>2, <3>3
  <2>2. latest' \in [Report!Keys -> [run : 0 .. MaxRuns, clean : BOOLEAN]]
    <3>1. ASSUME NEW k \in DOMAIN new
          PROVE  [run |-> run + 1, clean |-> new[k]] \in [run : 0 .. MaxRuns, clean : BOOLEAN]
      BY <1>2, <1>3, KeysFacts
    <3> QED
      BY <1>1, <1>2, <3>1 DEF ReportTypeOK
  <2>3. run' \in 0 .. MaxRuns /\ missed' \in BOOLEAN
    BY <1>1, <1>2, KeysFacts DEF ReportTypeOK
  <2>4. Report!Keys' = Report!Keys /\ Report!Item' = Report!Item
    BY DEF Report!Keys, Report!Item
  <2> QED
    BY <1>1, <1>3, <2>1, <2>2, <2>3, <2>4 DEF ReportTypeOK
<1>13. /\ \A k \in DOMAIN new : latest'[k].run = run + 1 /\ latest'[k].clean = new[k]
       /\ \A k \in Report!Keys : k \notin DOMAIN new => latest'[k] = latest[k]
  BY <1>1, <1>3
<1>14. SectionOrder # <<>> /\ Head(SectionOrder) \in Known
  <2>1. PICK c \in Chains : KeysOf[c] \in Seq(Known) /\ KeysOf[c] # <<>>
    BY KeysFacts
  <2>2. KeysOf[c][1] \in Known
    BY <2>1
  <2>3. SectionOrder # <<>>
    BY <2>2, NoElements DEF Known
  <2>4. 1 \in DOMAIN SectionOrder /\ Head(SectionOrder) = SectionOrder[1]
    BY <2>3, KeysFacts
  <2> QED
    BY <2>3, <2>4 DEF Known, Elements
<1>15. Report!ClearMeansVerified'
  <2>1. CASE DOMAIN merged # {} /\ all
    <3>1. /\ DOMAIN merged = DOMAIN new /\ \A k \in DOMAIN new : new[k] /\ k \in Known
      BY <1>3, <1>5, <2>1
    <3>2. DOMAIN merged \subseteq Known /\ Cardinality(DOMAIN merged) >= Cardinality(Known)
      BY <2>1, <3>1, KeysFacts
    <3>3. DOMAIN merged = Known
      <4>1. IsFiniteSet(DOMAIN merged) /\ Cardinality(DOMAIN merged) <= Cardinality(Known)
        BY <3>2, KeysFacts, FS_Subset
      <4>2. Cardinality(DOMAIN merged) \in Nat /\ Cardinality(Known) \in Nat
        BY <4>1, KeysFacts, FS_CardinalityType
      <4>3. Cardinality(DOMAIN merged) = Cardinality(Known)
        BY <3>2, <4>1, <4>2
      <4> QED
        BY <3>2, <4>3, KeysFacts, FS_Subset
    <3>4. \A k \in Known : latest'[k].clean /\ latest'[k].run = run + 1
      BY <1>13, <3>1, <3>3
    <3> QED
      BY <1>14, <3>4, SameOperators DEF Report!ClearMeansVerified, Known
  <2>2. CASE sections2
    BY <1>11, <2>2 DEF Report!ClearMeansVerified
  <2>3. CASE ~sections2 /\ ~(DOMAIN merged # {} /\ all)
    <3>1. DOMAIN new = {} /\ (comment' = comment \/ comment' = Report!None)
      <4> HIDE DEF sections2, all
      <4> QED
        BY <1>11, <2>3
    <3>2. \A k \in Known : latest'[k] = latest[k]
      BY <1>13, <3>1, KeysFacts
    <3>3. comment'.kind = "clear" => comment.kind = "clear"
      BY <3>1 DEF Report!None
    <3> QED
      BY <1>14, <3>2, <3>3, SameOperators DEF ReportInv, Report!ClearMeansVerified, Known
  <2> QED
    BY <2>1, <2>2, <2>3
<1>16. Report!FreshIsShown'
  <2>1. CASE sections2
    <3>1. ASSUME NEW k \in DOMAIN new
          PROVE  [key |-> k, run |-> run', clean |-> latest'[k].clean] \in Elements(comment'.items)
      <4>1. [key |-> k, run |-> run', clean |-> latest'[k].clean] = fresh(k)
        BY <1>1, <1>13
      <4>2. fresh(k) \in Elements(merged[k]) /\ k \in DOMAIN merged
        BY <1>5, <1>8
      <4> QED
        BY <1>10, <1>11, <2>1, <4>1, <4>2
    <3> QED
      BY <1>1, <3>1, SameOperators DEF Report!FreshIsShown, Report!Items
  <2>2. CASE ~sections2
    <3>1. comment'.kind = "sections" => reported' = {}
      <4> HIDE DEF sections2
      <4> QED
        BY <1>1, <1>5, <1>11, <2>2
    <3> QED
      BY <3>1 DEF Report!FreshIsShown
  <2> QED
    BY <2>1, <2>2
<1>17. Report!FailuresAreKept'
  <2> SUFFICES ASSUME ~missed', NEW k \in Known, latest'[k].run > 0, ~latest'[k].clean
               PROVE  [key |-> k, run |-> latest'[k].run, clean |-> FALSE]
                         \in Elements(comment'.items)
    BY SameOperators DEF Report!FailuresAreKept, Report!Items, Known
  <2>1. CASE k \in DOMAIN new
    <3>1. ~new[k] /\ latest'[k].run = run + 1
      BY <1>13, <2>1
    <3>2. sections2
      BY <1>5, <2>1, <3>1
    <3>3. fresh(k) \in Elements(merged[k]) /\ k \in DOMAIN merged
      BY <1>5, <1>8, <2>1
    <3>4. new[k] \in BOOLEAN
      BY <1>3, <2>1
    <3>5. fresh(k) = [key |-> k, run |-> latest'[k].run, clean |-> FALSE]
      BY <3>1, <3>4
    <3> QED
      BY <1>10, <1>11, <3>2, <3>3, <3>5
  <2>2. CASE k \notin DOMAIN new
    <3> DEFINE x == [key |-> k, run |-> latest[k].run, clean |-> FALSE]
    <3>1. latest'[k] = latest[k] /\ ~missed
      BY <1>1, <1>13, <2>2, KeysFacts
    <3>2. x \in Elements(items)
      BY <3>1, SameOperators DEF ReportInv, Report!FailuresAreKept, Report!Items, Known
    <3>3. PICK i \in DOMAIN items : items[i] = x
      BY <3>2 DEF Elements
    <3>4. items # <<>> /\ fetched
      <4>1. items # <<>>
        BY <3>2, NoElements
      <4>2. comment # Report!None
        BY <4>1 DEF Report!None
      <4> QED
        BY <1>1, <4>1, <4>2
    <3>5. i \in Report!Headings /\ items[i].key = k
      BY <3>3 DEF Report!Headings
    <3>6. k \in DOMAIN old
      BY <1>4, <3>4, <3>5, KeysFacts
    <3>7. PICK m \in Report!Headings :
            /\ ParsedKey[items[m].key] = k
            /\ items[m] \in Elements(old[k])
      BY <1>4, <3>6
    <3>8. items[m].key = k
      <4>1. items[m].key \in Report!Keys
        BY <1>7 DEF Report!Item
      <4> QED
        BY <3>7, <4>1, KeysFacts
    <3>9. items[m] \in Report!Item /\ ~items[m].clean /\ items[m] \in Elements(items)
      BY <1>7 DEF Elements
    <3>10. items[m].run = latest[k].run
      BY <3>8, <3>9, SameOperators DEF ReportInv, Report!FailuresAreCurrent, Report!Items, Known
    <3>11. items[m] = x
      BY <3>8, <3>9, <3>10 DEF Report!Item
    <3>12. x \in Elements(merged[k]) /\ k \in DOMAIN merged
      BY <1>5, <2>2, <3>6, <3>7, <3>11
    <3>13. sections2
      BY <2>2, <3>12
    <3> HIDE DEF sections2
    <3> QED
      BY <1>10, <1>11, <3>1, <3>12, <3>13
  <2> QED
    BY <2>1, <2>2
<1>18. Report!FailuresAreCurrent'
  <2> SUFFICES ASSUME NEW x \in Elements(comment'.items), ~x.clean, x.key \in Known
               PROVE  x.run = latest'[x.key].run
    BY SameOperators DEF Report!FailuresAreCurrent, Report!Items, Known
  <2>1. CASE sections2
    <3>1. PICK k \in DOMAIN merged : x \in Elements(merged[k])
      BY <1>10, <1>11, <2>1
    <3>2. CASE k \in DOMAIN new
      <4>1. x = fresh(k)
        BY <1>5, <1>8, <3>1, <3>2
      <4>2. x.key = k /\ x.run = run + 1
        BY <4>1
      <4>3. latest'[k].run = run + 1
        BY <1>13, <3>2
      <4> QED
        BY <4>2, <4>3
    <3>3. CASE k \notin DOMAIN new
      <4>1. k \in DOMAIN old /\ x \in Elements(old[k])
        BY <1>5, <3>1, <3>3
      <4>2. PICK m \in Report!Headings :
              ParsedKey[items[m].key] = k /\ \A y \in Elements(old[k]) : y.clean \/ y = items[m]
        BY <1>4, <4>1
      <4>3. x = items[m]
        BY <4>1, <4>2
      <4>4. x.key = k
        BY <4>2, <4>3, KeysFacts
      <4>5. x \in Elements(items)
        BY <1>7, <4>3 DEF Elements
      <4>6. x.run = latest[x.key].run
        BY <4>5, SameOperators DEF ReportInv, Report!FailuresAreCurrent, Report!Items, Known
      <4>7. latest'[k] = latest[k]
        BY <1>13, <3>3, <4>4, KeysFacts
      <4> QED
        BY <4>4, <4>6, <4>7
    <3> QED
      BY <3>2, <3>3
  <2>2. CASE DOMAIN merged # {} /\ all
    <3>1. comment'.items = <<>>
      BY <1>11, <2>2
    <3> QED
      BY <3>1, NoElements
  <2>3. CASE ~sections2 /\ ~(DOMAIN merged # {} /\ all)
    <3>1. DOMAIN new = {} /\ (comment' = comment \/ comment' = Report!None)
      <4> HIDE DEF sections2, all
      <4> QED
        BY <1>11, <2>3
    <3>2. Report!None.items = <<>>
      BY DEF Report!None
    <3>3. x \in Elements(items)
      BY <3>1, <3>2, NoElements
    <3>4. x.run = latest[x.key].run
      BY <3>3, SameOperators DEF ReportInv, Report!FailuresAreCurrent, Report!Items, Known
    <3>5. latest'[x.key] = latest[x.key]
      BY <1>13, <3>1, KeysFacts
    <3> QED
      BY <3>4, <3>5
  <2> QED
    BY <2>1, <2>2, <2>3
<1> QED
  BY <1>12, <1>15, <1>16, <1>17, <1>18 DEF ReportInv

LEMMA ReportInit == Report!Init => ReportInv
<1> SUFFICES ASSUME Report!Init PROVE ReportInv
  OBVIOUS
<1>1. /\ run = 0 /\ comment = [kind |-> "none", items |-> <<>>] /\ reported = {} /\ missed = FALSE
      /\ latest = [k \in Report!Keys |-> [run |-> 0, clean |-> FALSE]]
  BY DEF Report!Init, Report!None
<1>2. 0 \in 0 .. MaxRuns /\ <<>> \in Seq(Report!Item)
  BY KeysFacts
<1>3. ReportTypeOK
  BY <1>1, <1>2 DEF ReportTypeOK
<1>4. Report!ClearMeansVerified /\ Report!FreshIsShown
  BY <1>1 DEF Report!ClearMeansVerified, Report!FreshIsShown
<1>5. Report!FailuresAreKept
  <2>1. \A k \in Known : ~(latest[k].run > 0)
    BY <1>1, KeysFacts
  <2> QED
    BY <2>1, SameOperators DEF Report!FailuresAreKept, Known
<1>6. Report!FailuresAreCurrent
  BY <1>1, NoElements, SameOperators DEF Report!FailuresAreCurrent, Report!Items
<1> QED
  BY <1>3, <1>4, <1>5, <1>6 DEF ReportInv

LEMMA ReportNext == ReportInv /\ [Report!Next]_Report!vars => ReportInv'
<1>1. ASSUME ReportInv, Report!Next PROVE ReportInv'
  BY <1>1, ReportRun DEF Report!Next
<1>2. ASSUME ReportInv, UNCHANGED Report!vars PROVE ReportInv'
  <2>1. UNCHANGED <<run, comment, reported, latest, missed>>
    BY <1>2 DEF Report!vars
  <2>2. /\ ReportTypeOK /\ Report!ClearMeansVerified
        /\ Report!FreshIsShown /\ Report!FailuresAreKept /\ Report!FailuresAreCurrent
    BY <1>2 DEF ReportInv
  <2>3. ReportTypeOK'
    BY <2>1, <2>2 DEF ReportTypeOK
  <2>4. Report!Items' = Report!Items
    BY <2>1 DEF Report!Items
  <2>5. Report!ClearMeansVerified' /\ Report!FreshIsShown'
    BY <2>1, <2>2, <2>4 DEF Report!ClearMeansVerified, Report!FreshIsShown
  <2>6. Report!FailuresAreKept' /\ Report!FailuresAreCurrent'
    BY <2>1, <2>2, <2>4 DEF Report!FailuresAreKept, Report!FailuresAreCurrent
  <2> QED
    BY <2>3, <2>5, <2>6 DEF ReportInv
<1> QED
  BY <1>1, <1>2

-----------------------------------------------------------------------------
(* What the jobs hand in, and the report takes                             *)

\* The key of a section of an explorer is that of the explorer.
LEMMA KeyOfFinished ==
  ASSUME JobInv, NEW s, NEW i \in Nat \ {0}, Finished(s, i)
  PROVE  i \in 1 .. Len(KeysOf[chain]) /\ KeyOf(s) = KeysOf[chain][i]
<1>1. chain \in Chains /\ s.error = "" /\ s.explorer = Job!Explorers[i] /\ i <= Len(Job!Explorers)
  BY DEF JobInv, JobTypeOK, Finished
<1>2. /\ Job!Explorers \in Seq(Range(Job!Explorers)) /\ Distinct(Job!Explorers)
      /\ Len(Job!Explorers) \in Nat
  BY <1>1, ExplorersFacts
<1>3. Len(KeysOf[chain]) = Len(Job!Explorers)
  BY <1>1, ExplorerReportAssumption DEF Job!Explorers
<1>4. i \in 1 .. Len(Job!Explorers) /\ i \in DOMAIN Job!Explorers
  <2> DEFINE n == Len(Job!Explorers)
  <2>0. i <= n /\ n \in Nat
    BY <1>1, <1>2
  <2> HIDE DEF n
  <2>a. i \in 1 .. n
    BY <2>0
  <2>1. i \in 1 .. Len(Job!Explorers)
    BY <2>a DEF n
  <2>2. DOMAIN Job!Explorers = 1 .. Len(Job!Explorers)
    BY <1>2
  <2> QED
    BY <2>1, <2>2
<1>5. \A j \in DOMAIN Job!Explorers : Job!Explorers[j] = s.explorer => j = i
  BY <1>1, <1>2, <1>4 DEF Distinct
<1>6. (CHOOSE j \in DOMAIN Job!Explorers : Job!Explorers[j] = s.explorer) = i
  BY <1>1, <1>4, <1>5
<1>7. i \in 1 .. Len(KeysOf[chain])
  BY <1>3, <1>4
<1> QED
  BY <1>1, <1>6, <1>7 DEF KeyOf

LEMMA HandedIsArtifact ==
  ASSUME JobInv, pc \in {"done", "crashed"}
  PROVE  Handed \in Report!Artifacts(chain)
<1> DEFINE n == Len(sections)
           c == chain
           keys == {KeyOf(s) : s \in Elements(sections)}
           clean(k) == \E s \in Elements(sections) : KeyOf(s) = k /\ Clean(s)
<1>1. /\ artifact = sections /\ chain \in Chains /\ sections \in Seq(JobSection)
      /\ n \in Nat /\ DOMAIN sections = 1 .. n
  BY DEF JobInv, JobEnded, JobTypeOK
<1>2. Handed = [k \in keys |-> clean(k)]
  BY <1>1, SameOperators DEF Handed
<1>3. Report!Artifacts(c) =
        {[k \in {} |-> FALSE], [k \in {ErrorKey[c]} |-> FALSE]} \cup
        UNION {[{KeysOf[c][i] : i \in 1 .. m} -> BOOLEAN] : m \in 1 .. Len(KeysOf[c])}
  BY DEF Report!Artifacts
<1>4. CASE \A i \in DOMAIN sections : Finished(sections[i], i)
  <2>1. \A i \in 1 .. n : i \in 1 .. Len(KeysOf[c]) /\ KeyOf(sections[i]) = KeysOf[c][i]
    BY <1>1, <1>4, KeyOfFinished
  <2>2. keys = {KeysOf[c][i] : i \in 1 .. n}
    BY <1>1, <2>1 DEF Elements
  <2>3. CASE n = 0
    <3>1. keys = {}
      BY <2>2, <2>3
    <3>2. Handed = [k \in {} |-> FALSE]
      <4> HIDE DEF keys, clean
      <4> QED
        BY <1>2, <3>1
    <3> QED
      BY <1>3, <3>2
  <2>4. CASE n # 0
    <3>1. n \in 1 .. n
      BY <1>1, <2>4
    <3>2. n \in 1 .. Len(KeysOf[c])
      BY <2>1, <3>1
    <3>3. \A k \in keys : clean(k) \in BOOLEAN
      OBVIOUS
    <3>4. Handed \in [keys -> BOOLEAN]
      <4> HIDE DEF keys, clean
      <4> QED
        BY <1>2, <3>3
    <3>5. Handed \in [{KeysOf[c][i] : i \in 1 .. n} -> BOOLEAN]
      BY <2>2, <3>4, Zenon
    <3>6. Handed \in UNION {[{KeysOf[c][i] : i \in 1 .. m} -> BOOLEAN] : m \in 1 .. Len(KeysOf[c])}
      <4> HIDE DEF n
      <4> QED
        BY <3>2, <3>5, Zenon
    <3> QED
      BY <1>3, <3>6, Zenon
  <2> QED
    BY <2>3, <2>4
<1>5. CASE n = 1 /\ sections[1].error \in {"config", "none"}
  <2>1. Elements(sections) = {sections[1]}
    BY <1>1, <1>5 DEF Elements
  <2>2. KeyOf(sections[1]) = ErrorKey[c] /\ ~Clean(sections[1])
    BY <1>5 DEF KeyOf, Clean
  <2>3. keys = {ErrorKey[c]}
    BY <2>1, <2>2
  <2>4. \A k \in keys : clean(k) = FALSE
    BY <2>1, <2>2
  <2>5. Handed = [k \in {ErrorKey[c]} |-> FALSE]
    <3> HIDE DEF keys, clean
    <3> QED
      BY <1>2, <2>3, <2>4
  <2> HIDE DEF keys, clean, n, c
  <2> QED
    BY <1>3, <2>5 DEF c
<1> QED
  BY <1>4, <1>5 DEF JobInv, JobEnded

LEMMA CleanIsVerified ==
  ASSUME JobInv, pc \in {"done", "crashed"}, NEW s \in Range(artifact), Clean(s)
  PROVE  Job!Deployed \subseteq isVerified[s.explorer]
<1>1. s \in Job!Reported
  BY SameOperators DEF Job!Reported, Clean
<1>2. PICK i \in DOMAIN sections : Finished(s, i)
  BY <1>1, ReportedFacts
<1> QED
  BY <1>2 DEF Finished, InLists, True, Clean

-----------------------------------------------------------------------------
(* The workflow                                                            *)

WorkflowInv ==
    \/ part = "job" /\ JobInv
    \/ part = "report" /\ ReportInv

\* A job keeps its invariant, and the report its own, over any number of runs.
THEOREM WorkflowInvariance == Spec => []WorkflowInv
<1>1. Init => WorkflowInv
  BY JobInit, ReportInit DEF Init, WorkflowInv
<1>2. WorkflowInv /\ [Next]_vars => WorkflowInv'
  <2> SUFFICES ASSUME WorkflowInv, [Next]_vars PROVE WorkflowInv'
    OBVIOUS
  <2>1. part' = part
    BY DEF Next, JobStep, vars
  <2>2. CASE part = "job" /\ JobInv
    <3>1. [Job!Next]_Job!vars
      BY <2>2 DEF Next, JobStep, vars, jobVars, Job!Next, Job!vars, Job!world, Job!counts
    <3> QED
      BY <2>1, <2>2, <3>1, JobNext DEF WorkflowInv
  <2>3. CASE part = "report" /\ ReportInv
    <3>1. [Report!Next]_Report!vars
      BY <2>3 DEF Next, JobStep, vars, reportVars, Report!vars
    <3> QED
      BY <2>1, <2>3, <3>1, ReportNext DEF WorkflowInv
  <2> QED
    BY <2>2, <2>3 DEF WorkflowInv
<1> QED
  BY <1>1, <1>2, PTL DEF Spec

\* The section of an explorer in an artifact has each contract of the chain in exactly
\* one of its lists, whatever the explorer answered and even if the job crashed later.
THEOREM SectionsAreCompleteAlways == Spec => []SectionsAreComplete
<1>1. WorkflowInv => SectionsAreComplete
  BY JobSays DEF WorkflowInv, SectionsAreComplete
<1> QED
  BY <1>1, WorkflowInvariance, PTL

\* Verified means verified on that explorer, a job that ends with 0 though it may fail
\* has verified everything, okx calls unverified only what was, and a contract that has
\* a name keeps one.
THEOREM ResultsAreTrueAlways == Spec => []ResultsAreTrue
<1>1. WorkflowInv => ResultsAreTrue
  BY JobSays DEF WorkflowInv, ResultsAreTrue
<1> QED
  BY <1>1, WorkflowInvariance, PTL

\* What a job has handed in when it ends, or is ended, is one of the artifacts that the
\* report is shown to be right about, and a clean section is verified on chain.
THEOREM ArtifactsFitReportAlways == Spec => []ArtifactsFitReport
<1>1. WorkflowInv => ArtifactsFitReport
  BY HandedIsArtifact, CleanIsVerified DEF WorkflowInv, ArtifactsFitReport
<1> QED
  BY <1>1, WorkflowInvariance, PTL

\* The comment that all is verified is written only after the latest results of every
\* section were clean, all of the same run.
THEOREM ClearMeansVerifiedAlways == Spec => []ClearMeansVerified
<1>1. WorkflowInv => ClearMeansVerified
  BY DEF WorkflowInv, ReportInv, ClearMeansVerified
<1> QED
  BY <1>1, WorkflowInvariance, PTL

\* The comment shows what the last run learned, keeps a failed section until there is a
\* later result of it, though it is read back from its own text, and no longer.
THEOREM CommentIsCurrentAlways == Spec => []CommentIsCurrent
<1>1. WorkflowInv => CommentIsCurrent
  BY DEF WorkflowInv, ReportInv, CommentIsCurrent
<1> QED
  BY <1>1, WorkflowInvariance, PTL

=============================================================================
