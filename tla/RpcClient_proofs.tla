-------------------------- MODULE RpcClient_proofs --------------------------
(***************************************************************************)
(* What a request ends with, for all endpoints and all their answers, and  *)
(* whatever the configured URL and the fallbacks have in common.           *)
(***************************************************************************)
EXTENDS RpcClient, WellFoundedInduction, TLAPS

Entry(k) == [node : Urls, answer : Answers(k) \cup {Uncaught}]

TypeOK ==
    /\ kind \in {"single", "batch"} /\ pc \in {"idle", "send", "wait", "ended"}
    /\ idx \in Nat /\ requests \in Nat
    /\ log \in Seq(Entry(kind))
    /\ outcome \in [node : Urls, body : Bodies] \cup {NoOutcome, Failed, Raised}

\* The log is the candidates that have been asked, in their order.
LogFollowsCandidates ==
    Len(log) <= Len(Candidates) /\ \A i \in 1 .. Len(log) : log[i].node = Candidates[i]

Asking == pc \in {"send", "wait"}

\* An answer that is not worth returning, be it the last one or not
Refusal(k, a, last) == a \in Answers(k) /\ ~Accepted(k, a, last)

\* A request goes on only while nothing it was given is worth returning.
OnlyRefusals ==
    Asking =>
        /\ idx = Len(log) + 1 /\ idx <= Len(Candidates) /\ outcome = NoOutcome
        /\ \A i \in 1 .. Len(log) : Refusal(kind, log[i].answer, FALSE)

\* An answer or an exception ends it, with what was refused before, or the last
\* refusal does.
EndsForAReason ==
    ~Asking =>
        /\ outcome \notin {NoOutcome, Failed} =>
              \A i \in 1 .. Len(log) - 1 : Refusal(kind, log[i].answer, FALSE)
        /\ outcome = Failed /\ Candidates # <<>> =>
              /\ Len(log) = Len(Candidates)
              /\ Refusal(kind, log[Len(log)].answer, TRUE)

\* After an exception there is no other request.
RaisedIsLast == outcome = Raised => pc = "ended"

\* The inductive invariant
IInv == TypeOK /\ LogFollowsCandidates /\ OnlyRefusals /\ EndsForAReason /\ RaisedIsLast

-----------------------------------------------------------------------------
(* Candidates *)

\* Induction, with the numbers it holds for as a set
LEMMA Induction ==
    ASSUME NEW F, 0 \in F, \A n \in F \cap Nat : n + 1 \in F
    PROVE  Nat \subseteq F
<1> DEFINE Bad == Nat \ F
<1> SUFFICES ASSUME Bad # {} PROVE FALSE
  OBVIOUS
<1>1. PICK n \in Bad : \A k \in Bad : <<k, n>> \notin OpToRel(<, Nat)
  <2>1. Bad \subseteq Nat
    OBVIOUS
  <2> HIDE DEF Bad
  <2> QED
    BY <2>1, NatLessThanWellFounded, WFMin
<1>2. \A k \in Bad : ~(k < n)
  BY <1>1 DEF OpToRel
<1>3. n \in Nat /\ n # 0 /\ n - 1 \in Nat /\ n - 1 < n
  OBVIOUS
<1>4. n - 1 \in F
  BY <1>2, <1>3
<1>5. (n - 1) + 1 = n
  BY <1>3
<1> QED
  BY <1>3, <1>4, <1>5

\* One more endpoint is looked at.
Considered(urls, u) == IF u = NoUrl \/ Contains(urls, u) THEN urls ELSE Append(urls, u)

\* Lists of different endpoints
CandidateLists == {s \in Seq(Urls) : IsInjective(s)}

\* A URL that is considered joins the candidates only if it is not among them.
LEMMA ConsideredOnce ==
    ASSUME NEW urls \in CandidateLists, NEW u \in Urls \cup {NoUrl}
    PROVE  Considered(urls, u) \in CandidateLists
<1> SUFFICES ASSUME u # NoUrl, ~Contains(urls, u) PROVE Append(urls, u) \in CandidateLists
  BY DEF Considered
<1>1. urls \in Seq(Urls) /\ u \in Urls /\ Append(urls, u) \in Seq(Urls)
  BY DEF CandidateLists
<1>2. \A i \in 1 .. Len(urls) : Append(urls, u)[i] = urls[i] /\ urls[i] # u
  BY <1>1 DEF Contains
<1>3. /\ Len(urls) \in Nat /\ DOMAIN urls = 1 .. Len(urls)
      /\ DOMAIN Append(urls, u) = 1 .. (Len(urls) + 1) /\ Append(urls, u)[Len(urls) + 1] = u
  BY <1>1
<1>4. \A i, j \in 1 .. Len(urls) : urls[i] = urls[j] => i = j
  BY <1>3 DEF CandidateLists, IsInjective
<1>5. ASSUME NEW i \in 1 .. (Len(urls) + 1), NEW j \in 1 .. (Len(urls) + 1),
             Append(urls, u)[i] = Append(urls, u)[j]
      PROVE  i = j
  <2>1. \A n \in 1 .. (Len(urls) + 1) : n \in 1 .. Len(urls) \/ n = Len(urls) + 1
    BY <1>3
  <2> QED
    BY <1>2, <1>3, <1>4, <1>5, <2>1
<1> QED
  BY <1>1, <1>3, <1>5 DEF CandidateLists, IsInjective

\* The equation of the walk through the first n endpoints
Walk(h, all, n) == h = [i \in 0 .. n |-> IF i = 0 THEN <<>> ELSE Considered(h[i - 1], all[i])]

\* It has a solution.
LEMMA WalkExists ==
    ASSUME NEW all \in Seq(Urls \cup {NoUrl})
    PROVE  \E h \in [0 .. Len(all) -> CandidateLists] : Walk(h, all, Len(all))
<1> DEFINE Solved(n) == \E h \in [0 .. n -> CandidateLists] : Walk(h, all, n)
           F == {n \in Nat : n <= Len(all) => Solved(n)}
<1>0. Len(all) \in Nat
  OBVIOUS
<1>1. 0 \in F
  <2> DEFINE h == [i \in 0 .. 0 |-> <<>>]
  <2>1. <<>> \in CandidateLists
    BY DEF CandidateLists, IsInjective
  <2>2. h \in [0 .. 0 -> CandidateLists] /\ Walk(h, all, 0)
    BY <2>1 DEF Walk
  <2> QED
    BY <2>2
<1>2. ASSUME NEW n \in F \cap Nat PROVE n + 1 \in F
  <2>0. n \in Nat /\ n + 1 \in Nat /\ (n + 1 <= Len(all) => n <= Len(all))
    BY <1>0
  <2> SUFFICES ASSUME n + 1 <= Len(all) PROVE Solved(n + 1)
    <3> HIDE DEF Solved
    <3> QED
      BY <2>0
  <2>1. Solved(n)
    <3> HIDE DEF Solved
    <3> QED
      BY <2>0
  <2>2. PICK h \in [0 .. n -> CandidateLists] : Walk(h, all, n)
    BY <2>1
  <2> DEFINE g == [i \in 0 .. (n + 1) |-> IF i = n + 1 THEN Considered(h[n], all[n + 1]) ELSE h[i]]
  <2>3. all[n + 1] \in Urls \cup {NoUrl} /\ h[n] \in CandidateLists
    BY <1>0, <2>0
  <2>4. Considered(h[n], all[n + 1]) \in CandidateLists
    BY <2>3, ConsideredOnce
  <2>5. g \in [0 .. (n + 1) -> CandidateLists]
    <3>1. \A i \in 0 .. (n + 1) : i = n + 1 \/ i \in 0 .. n
      BY <2>0
    <3> QED
      BY <2>4, <3>1
  <2>6. ASSUME NEW i \in 0 .. (n + 1)
        PROVE  g[i] = IF i = 0 THEN <<>> ELSE Considered(g[i - 1], all[i])
    <3>1. CASE i = n + 1
      <4>1. i - 1 = n /\ i # 0 /\ n \in 0 .. (n + 1) /\ n # n + 1
        BY <2>0, <3>1
      <4>2. g[n] = h[n]
        BY <4>1
      <4> QED
        BY <3>1, <4>1, <4>2
    <3>2. CASE i # n + 1
      <4>1. i \in 0 .. n /\ (i # 0 => i - 1 \in 0 .. (n + 1) /\ i - 1 # n + 1)
        BY <2>0, <3>2
      <4>2. g[i] = h[i] /\ (i # 0 => g[i - 1] = h[i - 1])
        BY <3>2, <4>1
      <4>3. h[i] = IF i = 0 THEN <<>> ELSE Considered(h[i - 1], all[i])
        BY <2>2, <4>1 DEF Walk
      <4> QED
        BY <4>2, <4>3
    <3> QED
      BY <3>1, <3>2
  <2>7. Walk(g, all, n + 1)
    <3>1. g = [i \in 0 .. (n + 1) |-> g[i]]
      OBVIOUS
    <3> HIDE DEF g
    <3> QED
      BY <2>6, <3>1 DEF Walk
  <2> QED
    BY <2>5, <2>7
<1>3. Len(all) \in F
  <2> HIDE DEF F
  <2> QED
    BY <1>0, <1>1, <1>2, Induction
<1> QED
  BY <1>0, <1>3

\* Each endpoint is a candidate once.
LEMMA CandidatesOnce ==
    ASSUME RpcAssumption
    PROVE  Candidates \in Seq(Urls) /\ IsInjective(Candidates)
<1> DEFINE all == <<Primary>> \o Fallbacks
           urls == CHOOSE h : Walk(h, all, Len(all))
<1>1. Primary \in Urls \cup {NoUrl} /\ Fallbacks \in Seq(Urls \cup {NoUrl})
  BY DEF RpcAssumption, Primary
<1>2. all \in Seq(Urls \cup {NoUrl})
  BY <1>1
<1>3. Candidates = urls[Len(all)]
  BY DEF Candidates, Walk, Considered
<1> HIDE DEF all
<1>4. PICK h \in [0 .. Len(all) -> CandidateLists] : Walk(h, all, Len(all))
  BY <1>2, WalkExists
<1>5. Walk(urls, all, Len(all))
  BY <1>4
<1> HIDE DEF urls
<1> DEFINE F == {n \in Nat : n <= Len(all) => urls[n] \in CandidateLists}
<1>6. 0 \in F
  <2>1. <<>> \in CandidateLists
    BY DEF CandidateLists, IsInjective
  <2> QED
    BY <1>2, <1>5, <2>1 DEF Walk
<1>7. ASSUME NEW n \in F \cap Nat PROVE n + 1 \in F
  <2> SUFFICES ASSUME n + 1 <= Len(all) PROVE urls[n + 1] \in CandidateLists
    OBVIOUS
  <2>1. n \in Nat /\ n + 1 \in 1 .. Len(all) /\ n + 1 # 0 /\ (n + 1) - 1 = n /\ n <= Len(all)
    BY <1>2
  <2>2. urls[n] \in CandidateLists /\ all[n + 1] \in Urls \cup {NoUrl}
    BY <1>2, <2>1
  <2>3. urls[n + 1] = Considered(urls[n], all[n + 1])
    <3>1. n + 1 \in 0 .. Len(all)
      BY <2>1
    <3> QED
      BY <1>5, <2>1, <3>1 DEF Walk
  <2> QED
    BY <2>2, <2>3, ConsideredOnce
<1>8. Len(all) \in F
  <2> HIDE DEF F
  <2>1. Len(all) \in Nat
    BY <1>2
  <2> QED
    BY <1>6, <1>7, <2>1, Induction
<1>9. urls[Len(all)] \in CandidateLists
  BY <1>2, <1>8
<1> QED
  BY <1>3, <1>9 DEF CandidateLists

-----------------------------------------------------------------------------
(* The steps of a request *)

\* No outcome is to be taken for another.
LEMMA OutcomesDiffer ==
    /\ NoOutcome # Failed /\ NoOutcome # Raised /\ Failed # Raised
    /\ {NoOutcome, Failed, Raised} \cap [node : Urls, body : Bodies] = {}
BY RpcAssumption DEF RpcAssumption

\* The invariant holds before the first request,
LEMMA InitHolds == Init => IInv
<1> SUFFICES ASSUME Init PROVE IInv
  OBVIOUS
<1>1. Len(Candidates) \in Nat => LogFollowsCandidates
  BY DEF Init, LogFollowsCandidates
<1>2. Len(Candidates) \in Nat
  BY RpcAssumption, CandidatesOnce
<1>3. TypeOK
  BY DEF Init, TypeOK
<1>4. OnlyRefusals /\ EndsForAReason
  BY OutcomesDiffer DEF Init, OnlyRefusals, EndsForAReason, Asking
<1> QED
  BY <1>1, <1>2, <1>3, <1>4, OutcomesDiffer DEF Init, IInv, RaisedIsLast

\* ... when a request starts,
LEMMA RequestKeeps ==
    ASSUME IInv, NEW k \in {"single", "batch"}, Request(k)
    PROVE  IInv'
<1>1. Candidates \in Seq(Urls) /\ Len(Candidates) \in Nat
  BY RpcAssumption, CandidatesOnce
<1>2. NoOutcome # Failed
  BY OutcomesDiffer
<1>3. kind' = k /\ idx' = 1 /\ log' = <<>> /\ requests' = requests + 1
  BY DEF Request
<1>4. \/ Candidates = <<>> /\ pc' = "idle" /\ outcome' = Failed
      \/ Candidates # <<>> /\ pc' = "send" /\ outcome' = NoOutcome
  BY DEF Request
<1>5. TypeOK'
  BY <1>3, <1>4 DEF IInv, TypeOK
<1>6. LogFollowsCandidates'
  BY <1>1, <1>3 DEF LogFollowsCandidates
<1>7. OnlyRefusals'
  <2>1. Candidates # <<>> => 1 <= Len(Candidates)
    BY <1>1
  <2> QED
    BY <1>3, <1>4, <2>1 DEF OnlyRefusals, Asking
<1>8. EndsForAReason'
  BY <1>2, <1>3, <1>4 DEF EndsForAReason, Asking
<1>9. RaisedIsLast'
  BY <1>4, OutcomesDiffer DEF RaisedIsLast
<1> QED
  BY <1>5, <1>6, <1>7, <1>8, <1>9 DEF IInv

\* ... when it asks a candidate,
LEMMA SendKeeps == ASSUME IInv, Send PROVE IInv'
<1>1. pc = "send" /\ pc' = "wait" /\ UNCHANGED <<kind, idx, log, outcome, requests>>
  BY DEF Send
<1>2. TypeOK'
  BY <1>1 DEF IInv, TypeOK
<1>3. LogFollowsCandidates' /\ OnlyRefusals' /\ EndsForAReason'
  BY <1>1 DEF IInv, LogFollowsCandidates, OnlyRefusals, EndsForAReason, Asking
<1>4. RaisedIsLast'
  BY <1>1, OutcomesDiffer DEF IInv, OnlyRefusals, RaisedIsLast, Asking
<1> QED
  BY <1>2, <1>3, <1>4 DEF IInv

\* ... when an answer comes, whether it ends the request or not,
LEMMA AnswerKeeps ==
    ASSUME IInv, NEW a \in Answers(kind), Answer(a)
    PROVE  IInv'
<1> DEFINE entry == [node |-> Candidates[idx], answer |-> a]
           last == idx = Len(Candidates)
<1>1. Candidates \in Seq(Urls) /\ Len(Candidates) \in Nat
  BY RpcAssumption, CandidatesOnce
<1>2. NoOutcome # Failed
  BY OutcomesDiffer
<1>3. /\ kind \in {"single", "batch"} /\ idx \in Nat /\ requests \in Nat
      /\ log \in Seq(Entry(kind)) /\ Len(log) \in Nat
  BY DEF IInv, TypeOK
<1>4. pc = "wait" /\ kind' = kind /\ requests' = requests /\ log' = Append(log, entry)
  BY DEF Answer
<1>5. /\ idx = Len(log) + 1 /\ idx <= Len(Candidates) /\ outcome = NoOutcome
      /\ \A i \in 1 .. Len(log) : Refusal(kind, log[i].answer, FALSE)
  BY <1>4 DEF IInv, OnlyRefusals, Asking
<1>6. Candidates[idx] \in Urls /\ entry \in Entry(kind)
  <2>1. Candidates[idx] \in Urls
    BY <1>1, <1>3, <1>5
  <2> QED
    BY <2>1 DEF Entry
<1>7. /\ entry.node = Candidates[idx] /\ entry.answer = a
  OBVIOUS
<1>8. \/ Accepted(kind, a, last) /\ pc' = "idle" /\ idx' = idx
         /\ outcome' = [node |-> Candidates[idx], body |-> a]
      \/ ~Accepted(kind, a, last) /\ last /\ pc' = "idle" /\ outcome' = Failed /\ idx' = idx
      \/ ~Accepted(kind, a, last) /\ ~last /\ pc' = "send" /\ outcome' = outcome /\ idx' = idx + 1
  BY DEF Answer
<1>9. ~Accepted(kind, a, last) => Refusal(kind, a, FALSE) /\ (last => Refusal(kind, a, TRUE))
  BY DEF Accepted, Refusal
<1>10. Accepted(kind, a, last) => [node |-> Candidates[idx], body |-> a] \in [node : Urls, body : Bodies]
  <2>1. Accepted(kind, a, last) => a \in Bodies
    BY DEF Accepted, Bodies
  <2> QED
    BY <1>6, <2>1
<1> HIDE DEF entry, last
<1>11. /\ log' \in Seq(Entry(kind)) /\ Len(log') = Len(log) + 1 /\ log'[Len(log) + 1] = entry
       /\ \A i \in 1 .. Len(log) : log'[i] = log[i]
  BY <1>3, <1>4, <1>6
<1>12. \A i \in 1 .. (Len(log) + 1) : i \in 1 .. Len(log) \/ i = Len(log) + 1
  BY <1>3
<1>13. TypeOK'
  <2>1. log' \in Seq(Entry(kind'))
    BY <1>4, <1>11
  <2> QED
    BY <1>3, <1>4, <1>5, <1>8, <1>10, <2>1 DEF TypeOK
<1>14. LogFollowsCandidates'
  <2>1. \A i \in 1 .. Len(log) : log[i].node = Candidates[i]
    BY DEF IInv, LogFollowsCandidates
  <2>2. \A i \in 1 .. (Len(log) + 1) : log'[i].node = Candidates[i]
    BY <1>5, <1>7, <1>11, <1>12, <2>1
  <2> QED
    BY <1>5, <1>11, <2>2 DEF LogFollowsCandidates
<1>15. OnlyRefusals'
  <2> SUFFICES ASSUME Asking' PROVE OnlyRefusals'
    BY DEF OnlyRefusals
  <2>1. ~Accepted(kind, a, last) /\ ~last /\ outcome' = outcome /\ idx' = idx + 1
    BY <1>8 DEF Asking
  <2>2. idx' = Len(log') + 1 /\ outcome' = NoOutcome
    BY <1>5, <1>11, <2>1
  <2>3. idx' <= Len(Candidates)
    BY <1>1, <1>3, <1>5, <2>1 DEF last
  <2>4. \A i \in 1 .. Len(log') : Refusal(kind', log'[i].answer, FALSE)
    <3>1. Refusal(kind, entry.answer, FALSE)
      BY <1>7, <1>9, <2>1
    <3> QED
      BY <1>4, <1>5, <1>11, <1>12, <3>1
  <2> QED
    BY <2>2, <2>3, <2>4 DEF OnlyRefusals
<1>16. EndsForAReason'
  <2>1. \A i \in 1 .. Len(log') - 1 : Refusal(kind', log'[i].answer, FALSE)
    <3>1. 1 .. Len(log') - 1 = 1 .. Len(log)
      BY <1>3, <1>11
    <3> QED
      BY <1>4, <1>5, <1>11, <3>1
  <2>2. ASSUME outcome' = Failed, ~Asking'
        PROVE  Len(log') = Len(Candidates) /\ Refusal(kind', log'[Len(log')].answer, TRUE)
    <3>1. ~Accepted(kind, a, last) /\ last
      BY <1>2, <1>5, <1>8, <1>10, <2>2, OutcomesDiffer DEF Asking
    <3>2. Len(log') = Len(Candidates)
      BY <1>5, <1>11, <3>1 DEF last
    <3>3. Refusal(kind', log'[Len(log')].answer, TRUE)
      BY <1>4, <1>7, <1>9, <1>11, <3>1
    <3> QED
      BY <3>2, <3>3
  <2> QED
    BY <2>1, <2>2 DEF EndsForAReason
<1>17. RaisedIsLast'
  BY <1>5, <1>8, <1>10, OutcomesDiffer DEF RaisedIsLast
<1> QED
  BY <1>13, <1>14, <1>15, <1>16, <1>17 DEF IInv

\* ... when an exception ends the script,
LEMMA RaiseKeeps == ASSUME IInv, Raise PROVE IInv'
<1> DEFINE entry == [node |-> Candidates[idx], answer |-> Uncaught]
<1>1. Candidates \in Seq(Urls) /\ Len(Candidates) \in Nat
  BY RpcAssumption, CandidatesOnce
<1>2. /\ kind \in {"single", "batch"} /\ idx \in Nat /\ requests \in Nat
      /\ log \in Seq(Entry(kind)) /\ Len(log) \in Nat
  BY DEF IInv, TypeOK
<1>3. /\ pc = "wait" /\ pc' = "ended" /\ outcome' = Raised /\ log' = Append(log, entry)
      /\ UNCHANGED <<kind, idx, requests>>
  BY DEF Raise
<1>4. /\ idx = Len(log) + 1 /\ idx <= Len(Candidates)
      /\ \A i \in 1 .. Len(log) : Refusal(kind, log[i].answer, FALSE)
  BY <1>3 DEF IInv, OnlyRefusals, Asking
<1>5. entry \in Entry(kind) /\ entry.node = Candidates[idx]
  <2>1. Candidates[idx] \in Urls
    BY <1>1, <1>2, <1>4
  <2> QED
    BY <2>1 DEF Entry
<1> HIDE DEF entry
<1>6. /\ log' \in Seq(Entry(kind)) /\ Len(log') = Len(log) + 1 /\ log'[Len(log) + 1] = entry
      /\ \A i \in 1 .. Len(log) : log'[i] = log[i]
  BY <1>2, <1>3, <1>5
<1>7. TypeOK'
  <2>1. log' \in Seq(Entry(kind'))
    BY <1>3, <1>6
  <2> QED
    BY <1>2, <1>3, <2>1 DEF TypeOK
<1>8. LogFollowsCandidates'
  <2>1. \A i \in 1 .. Len(log) : log[i].node = Candidates[i]
    BY DEF IInv, LogFollowsCandidates
  <2>2. \A i \in 1 .. (Len(log) + 1) : i \in 1 .. Len(log) \/ i = Len(log) + 1
    BY <1>2
  <2>3. \A i \in 1 .. (Len(log) + 1) : log'[i].node = Candidates[i]
    BY <1>4, <1>5, <1>6, <2>1, <2>2
  <2> QED
    BY <1>4, <1>6, <2>3 DEF LogFollowsCandidates
<1>9. OnlyRefusals'
  BY <1>3 DEF OnlyRefusals, Asking
<1>10. EndsForAReason'
  <2>1. 1 .. Len(log') - 1 = 1 .. Len(log)
    BY <1>2, <1>6
  <2>2. \A i \in 1 .. Len(log') - 1 : Refusal(kind', log'[i].answer, FALSE)
    BY <1>3, <1>4, <1>6, <2>1
  <2> QED
    BY <1>3, <2>2, OutcomesDiffer DEF EndsForAReason
<1>11. RaisedIsLast'
  BY <1>3 DEF RaisedIsLast
<1> QED
  BY <1>7, <1>8, <1>9, <1>10, <1>11 DEF IInv

\* ... while nothing happens,
LEMMA StutterKeeps == ASSUME IInv, UNCHANGED vars PROVE IInv'
<1>1. UNCHANGED <<kind, pc, idx, log, outcome, requests>>
  BY DEF vars
<1>2. TypeOK'
  BY <1>1 DEF IInv, TypeOK
<1>3. LogFollowsCandidates' /\ OnlyRefusals' /\ EndsForAReason'
  BY <1>1 DEF IInv, LogFollowsCandidates, OnlyRefusals, EndsForAReason, Asking
<1>4. RaisedIsLast'
  BY <1>1, OutcomesDiffer DEF IInv, OnlyRefusals, RaisedIsLast, Asking
<1> QED
  BY <1>2, <1>3, <1>4 DEF IInv

\* ... and so after every step.
LEMMA NextKeeps == IInv /\ [Next]_vars => IInv'
BY RequestKeeps, SendKeeps, AnswerKeeps, RaiseKeeps, StutterKeeps DEF Next, Return

-----------------------------------------------------------------------------
(* What follows from the invariant *)

\* No endpoint is asked twice, because the candidates are distinct.
LEMMA OnceFollows == IInv => EachNodeOnce
<1> SUFFICES ASSUME IInv PROVE EachNodeOnce
  OBVIOUS
<1>1. Candidates \in Seq(Urls) /\ IsInjective(Candidates)
  BY RpcAssumption, CandidatesOnce
<1>2. DOMAIN log = 1 .. Len(log) /\ Len(log) \in Nat
  BY DEF IInv, TypeOK
<1>3. Len(log) <= Len(Candidates) /\ \A i \in 1 .. Len(log) : log[i].node = Candidates[i]
  BY DEF IInv, LogFollowsCandidates
<1>4. \A i, j \in 1 .. Len(Candidates) : Candidates[i] = Candidates[j] => i = j
  BY <1>1 DEF IsInjective
<1>5. 1 .. Len(log) \subseteq 1 .. Len(Candidates)
  BY <1>1, <1>2, <1>3
<1>6. ASSUME NEW i \in 1 .. Len(log), NEW j \in 1 .. Len(log), log[i].node = log[j].node
      PROVE  i = j
  BY <1>3, <1>4, <1>5, <1>6
<1> QED
  BY <1>2, <1>6 DEF EachNodeOnce, IsInjective

\* The answer returned is the last one of the log, and the first good one.
LEMMA FirstGoodFollows == IInv => FirstGoodAnswer
<1> SUFFICES ASSUME IInv, outcome \notin {NoOutcome, Failed}, NEW i \in 1 .. Len(log) - 1
             PROVE  \/ log[i].answer \in Junk \cup {Transport}
                    \/ kind = "single" /\ log[i].answer = "retryable"
  BY DEF FirstGoodAnswer
<1>1. Refusal(kind, log[i].answer, FALSE)
  BY DEF IInv, OnlyRefusals, EndsForAReason
<1>2. kind \in {"single", "batch"}
  BY DEF IInv, TypeOK
<1> QED
  BY <1>1, <1>2 DEF Refusal, Accepted, Answers

\* A failed request has asked all candidates.
LEMMA ExhaustedFollows == IInv => FailsOnlyExhausted
<1> SUFFICES ASSUME IInv, outcome = Failed, Candidates # <<>>
             PROVE  /\ {log[i].node : i \in DOMAIN log} = Urls \cap Range(Candidates)
                    /\ log[Len(log)].answer \in Junk \cup {Transport}
  BY DEF FailsOnlyExhausted
<1>1. Candidates \in Seq(Urls) /\ Len(Candidates) \in Nat /\ Len(Candidates) # 0
  BY RpcAssumption, CandidatesOnce
<1>2. ~Asking
  BY OutcomesDiffer DEF IInv, OnlyRefusals
<1>3. Len(log) = Len(Candidates) /\ Refusal(kind, log[Len(log)].answer, TRUE)
  BY <1>2 DEF IInv, EndsForAReason
<1>4. /\ kind \in {"single", "batch"} /\ log \in Seq(Entry(kind)) /\ DOMAIN log = 1 .. Len(log)
      /\ \A i \in 1 .. Len(log) : log[i].node = Candidates[i]
  BY DEF IInv, TypeOK, LogFollowsCandidates
<1>5. {log[i].node : i \in DOMAIN log} = Range(Candidates)
  <2>1. DOMAIN Candidates = DOMAIN log
    BY <1>1, <1>3, <1>4
  <2> QED
    BY <1>4, <2>1 DEF Range
<1>6. Range(Candidates) \subseteq Urls
  BY <1>1 DEF Range
<1>7. log[Len(log)].answer \in Junk \cup {Transport}
  BY <1>3, <1>4 DEF Refusal, Accepted, Answers
<1> QED
  BY <1>5, <1>6, <1>7

\* At every moment no endpoint has been asked twice by the request, an answer that is
\* returned comes after refusals only, and a request that fails has asked everyone
\* (rpc_request, rpc_batch_request).
THEOREM OutcomeJustifiedAlways == Spec => []OutcomeJustified
<1>1. IInv => OutcomeJustified
  BY OnceFollows, FirstGoodFollows, ExhaustedFollows DEF OutcomeJustified
<1> QED
  BY InitHolds, NextKeeps, <1>1, PTL DEF Spec

-----------------------------------------------------------------------------
(* The call its users expect *)

\* Every step is one of the abstract call, or leaves it alone.
LEMMA StepMaps == IInv /\ [Next]_vars => [Abstract!Next]_<<pc \in {"send", "wait"}, outcome>>
<1> SUFFICES ASSUME IInv, [Next]_vars
             PROVE  Abstract!Next \/ UNCHANGED <<pc \in {"send", "wait"}, outcome>>
  OBVIOUS
<1>1. ASSUME NEW k \in {"single", "batch"}, Request(k)
      PROVE  Abstract!Next
  <2>1. pc = "idle" /\ outcome # Raised
    BY <1>1 DEF Request, IInv, RaisedIsLast
  <2> QED
    BY <1>1, <2>1 DEF Request, Abstract!Next, Abstract!Ask, Abstract!Refuse
<1>2. CASE Send
  BY <1>2 DEF Send
<1>3. ASSUME NEW a \in Answers(kind), Answer(a)
      PROVE  Abstract!Next \/ UNCHANGED <<pc \in {"send", "wait"}, outcome>>
  <2>1. IInv'
    BY <1>3, AnswerKeeps
  <2>2. pc = "wait" /\ pc' \in {"idle", "send"} /\ (pc' = "send" => outcome' = outcome)
    BY <1>3 DEF Answer
  <2>3. CASE pc' = "send"
    BY <2>2, <2>3
  <2>4. CASE pc' = "idle"
    <3>1. outcome' \in Abstract!Outcomes
      <4>1. idx \in 1 .. Len(Candidates) /\ Candidates \in Seq(Urls)
        BY <2>2, RpcAssumption, CandidatesOnce DEF IInv, TypeOK, OnlyRefusals, Asking
      <4>2. \/ outcome' = Failed
            \/ outcome' = [node |-> Candidates[idx], body |-> a] /\ a \in Bodies
        BY <1>3, <2>4 DEF Answer, Accepted, Bodies
      <4> QED
        BY <4>1, <4>2 DEF Abstract!Outcomes
    <3> QED
      BY <2>2, <2>4, <3>1 DEF Abstract!Next, Abstract!Return
  <2> QED
    BY <2>2, <2>3, <2>4
<1>4. CASE Raise
  BY <1>4 DEF Raise, Abstract!Next, Abstract!Raise
<1>5. CASE UNCHANGED vars
  BY <1>5 DEF vars
<1> QED
  BY <1>1, <1>2, <1>3, <1>4, <1>5 DEF Next, Return

\* The client implements what a caller may see of a call: one request after the other,
\* and each ends in a failure, in a body that a node has sent or, as the last one, in
\* an exception.  (That it does end takes fairness, and is for TLC.)
THEOREM RpcCallSafety == Spec => Abstract!Safety
<1>1. Init => Abstract!Init
  BY DEF Init, Abstract!Init
<1> QED
  BY InitHolds, NextKeeps, StepMaps, <1>1, PTL DEF Spec, Abstract!Safety

=============================================================================
