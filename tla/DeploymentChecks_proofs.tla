------------------------ MODULE DeploymentChecks_proofs ------------------------
(***************************************************************************)
(* Theorems about the checks of deployments, for any contracts, addresses, *)
(* accounts and deployment scripts, any number of changes on chain while   *)
(* they run, and whichever reads fail: what a contract that passes was     *)
(* found to be, and when the verdicts are exact.                           *)
(***************************************************************************)
EXTENDS DeploymentChecks, FiniteSetTheorems, WellFoundedInduction, TLAPS

-----------------------------------------------------------------------------
(* Lists of contracts                                                      *)

Elements(t) == {t[i] : i \in DOMAIN t}
Distinct(t) == \A i, j \in DOMAIN t : t[i] = t[j] => i = j

\* The contracts of a list without repetitions are as many as its length.
LEMMA DistinctLength ==
  ASSUME NEW S, NEW t \in Seq(S)
  PROVE  /\ IsFiniteSet(Elements(t))
         /\ Distinct(t) => Cardinality(Elements(t)) = Len(t)
<1>1. IsFiniteSet(1 .. Len(t)) /\ Cardinality(1 .. Len(t)) = Len(t)
  <2>1. Len(t) \in Nat /\ (1 > Len(t) => Len(t) = 0) /\ Len(t) - 1 + 1 = Len(t)
    OBVIOUS
  <2>2. 1 \in Int /\ Len(t) \in Int
    BY <2>1
  <2> QED
    BY <2>1, <2>2, FS_Interval
<1>2. t \in Surjection(1 .. Len(t), Elements(t))
  BY DEF Surjection, Elements
<1>3. /\ IsFiniteSet(Elements(t))
      /\ Cardinality(Elements(t)) = Cardinality(1 .. Len(t)) <=> t \in Injection(1 .. Len(t), Elements(t))
  BY <1>1, <1>2, FS_Surjection
<1>4. Distinct(t) => t \in Injection(1 .. Len(t), Elements(t))
  BY <1>2 DEF Distinct, Injection, IsInjective, Surjection
<1> QED
  BY <1>1, <1>3, <1>4

\* Taking the first contract off a list without repetitions
LEMMA TakeFirst ==
  ASSUME NEW S, NEW t \in Seq(S), t # <<>>, Distinct(t)
  PROVE  /\ Head(t) \in S /\ Tail(t) \in Seq(S) /\ Distinct(Tail(t))
         /\ Len(Tail(t)) = Len(t) - 1
         /\ Head(t) \in Elements(t) /\ Head(t) \notin Elements(Tail(t))
         /\ Elements(t) = Elements(Tail(t)) \cup {Head(t)}
<1>1. Len(t) \in Nat \ {0} /\ Head(t) = t[1]
  OBVIOUS
<1>2. /\ Tail(t) \in Seq(S) /\ Len(Tail(t)) = Len(t) - 1
      /\ \A i \in 1 .. (Len(t) - 1) : Tail(t)[i] = t[i + 1]
  BY <1>1
<1>3. Distinct(Tail(t))
  <2> SUFFICES ASSUME NEW i \in DOMAIN Tail(t), NEW j \in DOMAIN Tail(t), Tail(t)[i] = Tail(t)[j]
               PROVE  i = j
    BY DEF Distinct
  <2>1. i \in 1 .. (Len(t) - 1) /\ j \in 1 .. (Len(t) - 1) /\ i + 1 \in DOMAIN t /\ j + 1 \in DOMAIN t
    BY <1>1, <1>2
  <2>2. t[i + 1] = t[j + 1]
    BY <1>2, <2>1
  <2>3. i + 1 = j + 1
    BY <2>1, <2>2 DEF Distinct
  <2> QED
    BY <2>1, <2>3
<1>4. \A i \in 1 .. (Len(t) - 1) : Tail(t)[i] # t[1]
  <2> SUFFICES ASSUME NEW i \in 1 .. (Len(t) - 1), t[i + 1] = t[1] PROVE FALSE
    BY <1>2
  <2>1. i + 1 \in DOMAIN t /\ 1 \in DOMAIN t /\ i + 1 # 1
    BY <1>1
  <2> QED
    BY <2>1 DEF Distinct
<1>5. Elements(t) = Elements(Tail(t)) \cup {t[1]}
  <2>1. ASSUME NEW i \in DOMAIN t PROVE t[i] \in Elements(Tail(t)) \cup {t[1]}
    <3>1. CASE i = 1
      BY <3>1
    <3>2. CASE i # 1
      <4>1. i - 1 \in 1 .. (Len(t) - 1) /\ (i - 1) + 1 = i /\ i - 1 \in DOMAIN Tail(t)
        BY <1>1, <1>2, <3>2
      <4>2. Tail(t)[i - 1] = t[i]
        BY <1>2, <4>1
      <4> QED
        BY <4>1, <4>2 DEF Elements
    <3> QED
      BY <3>1, <3>2
  <2>2. ASSUME NEW i \in DOMAIN Tail(t) PROVE Tail(t)[i] \in Elements(t)
    <3>1. i \in 1 .. (Len(t) - 1) /\ i + 1 \in DOMAIN t
      BY <1>1, <1>2
    <3> QED
      BY <1>2, <3>1 DEF Elements
  <2>3. t[1] \in Elements(t)
    BY <1>1 DEF Elements
  <2> QED
    BY <2>1, <2>2, <2>3 DEF Elements
<1>6. t[1] \notin Elements(Tail(t)) /\ t[1] \in S
  BY <1>1, <1>2, <1>4 DEF Elements
<1> QED
  BY <1>1, <1>2, <1>3, <1>5, <1>6

-----------------------------------------------------------------------------
(* The owner check                                                         *)

OwnerTypes ==
  /\ owner \in [Owner!Checked -> OwnerAccounts \cup {Zero}]
  /\ pending \in [Owner!Checked -> OwnerAccounts \cup {Zero}]
  /\ slots \in [SiloHooks -> SUBSET Owner!Slots]
  /\ held \in [Owner!Checked -> SUBSET (OwnerAccounts \cup {Zero})]
  /\ ownerResult \in [Owner!Checked -> OwnerAccounts \cup {Zero, NotRead}]
  /\ pendingResult \in [Owner!Checked -> OwnerAccounts \cup {NotRead}]
  /\ transfers \in Nat /\ readFailed \in BOOLEAN /\ mode \in Owner!Modes
  /\ pc \in {"start", "owners", "pending", "verdicts", "done"} /\ exit \in {0, 1, 2}

\* Owners that were read owned the contract during the run; if all went well and
\* nothing changed, what was read is what is.
OwnerReads ==
  /\ \A c \in Owner!Checked :
       /\ owner[c] \in held[c]
       /\ ownerResult[c] # NotRead => ownerResult[c] \in held[c]
       /\ pendingResult[c] # NotRead => c \in Owner!Candidates
       /\ transfers = 0 => held[c] = {owner[c]}
       /\ (pc \in {"pending", "verdicts"} \/ Owner!Finished) /\ ~readFailed => ownerResult[c] # NotRead
       /\ pc \in {"start", "owners", "pending"} => pendingResult[c] = NotRead
       /\ (pc = "verdicts" \/ Owner!Finished) /\ ~readFailed /\ transfers = 0 /\ c \in Owner!Candidates
            => pendingResult[c] = IF pending[c] = Zero THEN NotRead ELSE pending[c]

\* The list of the contracts without a verdict
OwnerTodo ==
  /\ todo \in Seq(Owner!Contracts) /\ Distinct(todo)
  /\ pc \in {"start", "owners", "pending"} => todo = Deployments
  /\ Owner!Finished => todo = <<>>

OwnerPasses(c) ==
  \/ ownerResult[c] \in Owner!DaoAddresses
  \/ ownerResult[c] = Zero /\ c \in SiloHooks

\* The verdicts so far: each one is counted, and is the one that the answers call for.
OwnerVerdicts ==
  /\ skipped \in Nat /\ ok \in Nat /\ fail = Cardinality(failedContracts)
  /\ failedContracts \subseteq Owner!Checked \ Elements(todo)
  /\ mode # "dry_run" =>
       /\ skipped + ok + fail + Len(todo) = Len(Deployments)
       /\ skipped = Cardinality((Owner!Contracts \ Owner!Checked) \ Elements(todo))
       /\ \A c \in Owner!Checked \ Elements(todo) :
            /\ c \notin failedContracts => OwnerPasses(c)
            /\ ~readFailed => (c \in failedContracts <=>
                 ~OwnerPasses(c) \/ (ownerResult[c] \notin Owner!DaoAddresses /\ slots[c] # {}))
  /\ pendingContracts =
       {<<c, pendingResult[c]>> : c \in {d \in failedContracts : pendingResult[d] # NotRead}}

OwnerEnd ==
  Owner!Finished =>
    /\ hasFailure <=> failedContracts # {}
    /\ exit = 0 <=> mode = "no_fail" \/ failedContracts = {}

OwnerInv == OwnerTypes /\ OwnerReads /\ OwnerTodo /\ OwnerVerdicts /\ OwnerEnd

\* What is known of the contracts and accounts
LEMMA OwnerFacts ==
  /\ Deployments \in Seq(Owner!Contracts) /\ Distinct(Deployments)
  /\ Elements(Deployments) = Owner!Contracts
  /\ IsFiniteSet(Owner!Contracts) /\ Owner!Checked \subseteq Owner!Contracts
  /\ SiloHooks \subseteq Owner!Contracts
  /\ Owner!DaoAddresses \subseteq OwnerAccounts
  /\ Zero \notin OwnerAccounts /\ NotRead \notin OwnerAccounts /\ NotRead # Zero
<1>1. /\ Deployments \in Seq(Owner!Contracts) /\ Distinct(Deployments)
      /\ Elements(Deployments) = Owner!Contracts
  BY ChecksAssumption DEF Owner!OwnerAssumption, Owner!IsInjective, Owner!Contracts, Owner!Range,
     Distinct, Elements
<1>2. IsFiniteSet(Owner!Contracts)
  BY <1>1, DistinctLength
<1>3. Owner!DaoAddresses \subseteq OwnerAccounts
  BY ChecksAssumption DEF Owner!OwnerAssumption, Owner!DaoAddresses, Owner!Range
<1> QED
  BY <1>1, <1>2, <1>3, ChecksAssumption DEF Owner!OwnerAssumption, Owner!Checked

\* Before the check starts
LEMMA OwnerInit == Owner!Init => OwnerInv
<1> SUFFICES ASSUME Owner!Init PROVE OwnerInv
  OBVIOUS
<1>1. pc = "start" /\ ~Owner!Finished
  BY DEF Owner!Init, Owner!Finished
<1>2. OwnerTypes
  BY DEF Owner!Init, OwnerTypes
<1>3. OwnerReads
  BY <1>1, <1>2 DEF Owner!Init, OwnerReads, OwnerTypes
<1>4. OwnerTodo
  BY <1>1, OwnerFacts DEF Owner!Init, OwnerTodo
<1>5. OwnerVerdicts
  <2>1. Owner!Checked \ Elements(todo) = {} /\ (Owner!Contracts \ Owner!Checked) \ Elements(todo) = {}
    BY OwnerFacts DEF Owner!Init
  <2>2. Len(Deployments) \in Nat
    BY OwnerFacts
  <2>3. 0 + 0 + 0 + Len(todo) = Len(Deployments)
    BY <2>2 DEF Owner!Init
  <2>4. Cardinality({}) = 0
    BY FS_EmptySet
  <2> QED
    BY <2>1, <2>3, <2>4 DEF Owner!Init, OwnerVerdicts
<1> QED
  BY <1>1, <1>2, <1>3, <1>4, <1>5 DEF OwnerInv, OwnerEnd

\* The chain goes on: what was read does not change, nor do the verdicts.
LEMMA OwnerChain ==
  ASSUME OwnerInv, Owner!TransferOwnership \/ Owner!AcceptOwnership
  PROVE  OwnerInv'
<1>1. /\ pc' = pc /\ transfers' = transfers + 1 /\ slots' = slots
      /\ UNCHANGED <<ownerResult, pendingResult, todo, skipped, ok, fail, failedContracts, pendingContracts,
                     hasFailure, exit, mode, readFailed>>
  BY DEF Owner!TransferOwnership, Owner!AcceptOwnership, Owner!results, Owner!report
<1>2. transfers \in Nat /\ transfers' \in Nat /\ transfers' # 0
  BY <1>1 DEF OwnerInv, OwnerTypes
<1>3. /\ owner' \in [Owner!Checked -> OwnerAccounts \cup {Zero}]
      /\ pending' \in [Owner!Checked -> OwnerAccounts \cup {Zero}]
      /\ held' \in [Owner!Checked -> SUBSET (OwnerAccounts \cup {Zero})]
      /\ \A c \in Owner!Checked : held[c] \subseteq held'[c] /\ owner'[c] \in held'[c]
  <2>1. CASE Owner!TransferOwnership
    BY <2>1 DEF Owner!TransferOwnership, OwnerInv, OwnerTypes, OwnerReads
  <2>2. CASE Owner!AcceptOwnership
    BY <2>2 DEF Owner!AcceptOwnership, Owner!Pass, OwnerInv, OwnerTypes, OwnerReads
  <2> QED
    BY <2>1, <2>2
<1>4. Owner!Finished' = Owner!Finished /\ Owner!Candidates' = Owner!Candidates
  BY <1>1 DEF Owner!Finished, Owner!Candidates
<1>5. OwnerTypes'
  BY <1>1, <1>2, <1>3 DEF OwnerInv, OwnerTypes
<1>6. OwnerReads'
  BY <1>1, <1>2, <1>3, <1>4 DEF OwnerInv, OwnerReads
<1>7. OwnerTodo' /\ OwnerVerdicts' /\ OwnerEnd'
  BY <1>1, <1>4 DEF OwnerInv, OwnerTodo, OwnerVerdicts, OwnerPasses, OwnerEnd, Elements, Distinct
<1> QED
  BY <1>5, <1>6, <1>7 DEF OwnerInv

\* The verdicts are about the answers of the contracts that have one already.
LEMMA OwnerVerdictsKept ==
  ASSUME OwnerVerdicts,
         UNCHANGED <<todo, skipped, ok, fail, failedContracts, pendingContracts, mode, slots>>,
         \/ todo = Deployments
         \/ UNCHANGED <<ownerResult, pendingResult, readFailed>>
  PROVE  OwnerVerdicts'
<1>1. CASE todo = Deployments
  <2>1. Owner!Checked \ Elements(todo) = {}
    BY <1>1, OwnerFacts
  <2>2. Owner!Checked \ Elements(todo') = {} /\ failedContracts = {}
    BY <2>1 DEF OwnerVerdicts
  <2> QED
    BY <2>2 DEF OwnerVerdicts
<1>2. CASE UNCHANGED <<ownerResult, pendingResult, readFailed>>
  BY <1>2 DEF OwnerVerdicts, OwnerPasses
<1> QED
  BY <1>1, <1>2

\* Starting, or not, leaves everything as it is.
LEMMA OwnerStart ==
  ASSUME OwnerInv, Owner!Stop \/ Owner!DryRun \/ Owner!Start
  PROVE  OwnerInv'
<1>1. /\ pc = "start" /\ todo = Deployments
      /\ UNCHANGED <<owner, pending, slots, transfers, held, ownerResult, pendingResult, mode>>
      /\ UNCHANGED <<skipped, ok, fail, failedContracts, pendingContracts>>
      /\ ~Owner!Finished' /\ pc' \in {"done", "owners"} /\ exit' \in {0, 1, 2} /\ readFailed' \in BOOLEAN
  BY DEF Owner!Stop, Owner!DryRun, Owner!Start, Owner!chain, Owner!results, Owner!report, Owner!Finished,
         OwnerInv, OwnerTypes, OwnerTodo
<1>2. OwnerTypes'
  BY <1>1 DEF OwnerInv, OwnerTypes
<1>3. OwnerReads'
  BY <1>1 DEF OwnerInv, OwnerReads, Owner!Candidates
<1>4. OwnerEnd'
  BY <1>1 DEF OwnerEnd
<1>5. CASE Owner!DryRun
  <2>1. todo' = <<>> /\ mode' = "dry_run" /\ pc' = "done"
    BY <1>5 DEF Owner!DryRun
  <2>2. OwnerTodo'
    BY <1>1, <2>1 DEF OwnerTodo, Distinct
  <2>3. Elements(todo') = {}
    BY <2>1 DEF Elements
  <2>4. OwnerVerdicts'
    BY <1>1, <2>1, <2>3 DEF OwnerInv, OwnerVerdicts
  <2> QED
    BY <1>2, <1>3, <1>4, <2>2, <2>4 DEF OwnerInv
<1>6. CASE Owner!Stop \/ Owner!Start
  <2>1. todo' = todo
    BY <1>6 DEF Owner!Stop, Owner!Start
  <2>2. OwnerTodo'
    BY <1>1, <2>1 DEF OwnerInv, OwnerTodo, Distinct
  <2>3. OwnerVerdicts'
    BY <1>1, <2>1, OwnerVerdictsKept DEF OwnerInv
  <2> QED
    BY <1>2, <1>3, <1>4, <2>2, <2>3 DEF OwnerInv
<1> QED
  BY <1>5, <1>6

\* The answers are those of the chain.
LEMMA OwnerRead ==
  ASSUME OwnerInv, Owner!ReadOwners \/ Owner!ReadPending
  PROVE  OwnerInv'
<1>1. /\ pc \in {"owners", "pending"} /\ pc' \in {"pending", "verdicts"} /\ todo = Deployments /\ todo' = todo
      /\ UNCHANGED <<owner, pending, slots, transfers, held, mode, hasFailure, exit>>
      /\ UNCHANGED <<skipped, ok, fail, failedContracts, pendingContracts>>
      /\ ~Owner!Finished' /\ readFailed' \in BOOLEAN
  BY DEF Owner!ReadOwners, Owner!ReadPending, Owner!chain, Owner!report, Owner!Finished,
         OwnerInv, OwnerTypes, OwnerTodo
<1>2. OwnerTypes' /\ OwnerReads'
  <2>1. CASE Owner!ReadOwners
    <3>1. PICK answered \in SUBSET Owner!Checked :
            /\ ownerResult' = [c \in Owner!Checked |-> Owner!decoded(owner[c], c \in answered)]
            /\ readFailed' = (answered # Owner!Checked)
            /\ pc' = "pending" /\ pendingResult' = pendingResult /\ pc = "owners"
      BY <2>1 DEF Owner!ReadOwners
    <3>2. \A c \in Owner!Checked :
            /\ ownerResult'[c] = IF c \in answered THEN owner[c] ELSE NotRead
            /\ ~readFailed' => ownerResult'[c] = owner[c] /\ owner[c] # NotRead
            /\ pendingResult[c] = NotRead
      <4>1. \A c \in Owner!Checked : ownerResult'[c] = IF c \in answered THEN owner[c] ELSE NotRead
        BY <3>1 DEF Owner!decoded
      <4>2. \A c \in Owner!Checked : owner[c] # NotRead
        BY OwnerFacts DEF OwnerInv, OwnerTypes
      <4>3. \A c \in Owner!Checked : pendingResult[c] = NotRead
        BY <3>1 DEF OwnerInv, OwnerReads
      <4>4. ~readFailed' => \A c \in Owner!Checked : c \in answered
        BY <3>1
      <4> QED
        BY <4>1, <4>2, <4>3, <4>4
    <3>3. ownerResult' \in [Owner!Checked -> OwnerAccounts \cup {Zero, NotRead}]
      BY <3>1 DEF Owner!decoded, OwnerInv, OwnerTypes
    <3> QED
      BY <1>1, <3>1, <3>2, <3>3 DEF OwnerInv, OwnerTypes, OwnerReads
  <2>2. CASE Owner!ReadPending
    <3>1. PICK answered \in SUBSET Owner!Candidates :
            /\ pendingResult' = [c \in Owner!Checked |->
                 Owner!decoded(pending[c], c \in answered /\ pending[c] # Zero)]
            /\ readFailed' = (readFailed \/ answered # Owner!Candidates)
            /\ pc' = "verdicts" /\ ownerResult' = ownerResult /\ pc = "pending"
      BY <2>2 DEF Owner!ReadPending
    <3>2. Owner!Candidates' = Owner!Candidates
      BY <3>1 DEF Owner!Candidates
    <3>3. \A c \in Owner!Checked :
            /\ pendingResult'[c] = IF c \in answered /\ pending[c] # Zero THEN pending[c] ELSE NotRead
            /\ ~readFailed' /\ c \in Owner!Candidates => c \in answered
      BY <3>1 DEF Owner!decoded
    <3>4. pendingResult' \in [Owner!Checked -> OwnerAccounts \cup {NotRead}]
      BY <3>1 DEF Owner!decoded, OwnerInv, OwnerTypes
    <3>5. OwnerTypes'
      BY <1>1, <3>1, <3>4 DEF OwnerInv, OwnerTypes
    <3>6. OwnerReads'
      BY <1>1, <3>1, <3>2, <3>3 DEF OwnerInv, OwnerReads, OwnerTypes
    <3> QED
      BY <3>5, <3>6
  <2> QED
    BY <2>1, <2>2
<1>3. OwnerTodo' /\ OwnerEnd'
  BY <1>1 DEF OwnerInv, OwnerTodo, OwnerEnd, Distinct
<1>4. OwnerVerdicts'
  BY <1>1, OwnerVerdictsKept DEF OwnerInv
<1> QED
  BY <1>2, <1>3, <1>4 DEF OwnerInv

\* A verdict is about the first contract of the list, and is counted once.
LEMMA OwnerCount ==
  ASSUME OwnerInv, Owner!Take, NEW verdict \in {"skip", "ok", "fail"}, NEW waiting,
         Owner!Count(verdict, waiting), readFailed' \in BOOLEAN, readFailed => readFailed',
         verdict = "skip" <=> Owner!Current \notin Owner!Checked,
         verdict = "ok" => OwnerPasses(Owner!Current),
         ~readFailed' => (verdict = "fail" => ~OwnerPasses(Owner!Current)
               \/ (ownerResult[Owner!Current] \notin Owner!DaoAddresses /\ slots[Owner!Current] # {})),
         ~readFailed' => (verdict = "ok" =>
               ~(ownerResult[Owner!Current] \notin Owner!DaoAddresses /\ slots[Owner!Current] # {})),
         waiting = IF verdict = "fail" /\ pendingResult[Owner!Current] # NotRead
                   THEN {<<Owner!Current, pendingResult[Owner!Current]>>} ELSE {}
  PROVE  OwnerInv'
<1> DEFINE x == Owner!Current
           rest == Elements(todo')
<1>1. /\ pc = "verdicts" /\ pc' = pc /\ todo # <<>> /\ todo' = Tail(todo)
      /\ UNCHANGED <<owner, pending, slots, transfers, held, ownerResult, pendingResult, mode, hasFailure, exit>>
  BY DEF Owner!Take, Owner!chain, Owner!results
<1>2. skipped \in Nat /\ ok \in Nat
  BY DEF OwnerInv, OwnerVerdicts
<1>3. /\ x \in Owner!Contracts /\ todo' \in Seq(Owner!Contracts) /\ Distinct(todo')
      /\ Len(todo') = Len(todo) - 1 /\ Len(todo) \in Nat
      /\ x \in Elements(todo) /\ x \notin rest /\ Elements(todo) = rest \cup {x}
  BY <1>1, TakeFirst DEF OwnerInv, OwnerTodo, Owner!Current
<1>4. ~Owner!Finished' /\ ~Owner!Finished
  BY <1>1 DEF Owner!Finished
<1>5. OwnerTypes' /\ OwnerTodo' /\ OwnerEnd'
  BY <1>1, <1>3, <1>4 DEF OwnerInv, OwnerTypes, OwnerTodo, OwnerEnd
<1>6. OwnerReads'
  BY <1>1, <1>4 DEF OwnerInv, OwnerReads, OwnerTypes, Owner!Candidates
<1>7. /\ skipped' = skipped + (IF verdict = "skip" THEN 1 ELSE 0)
      /\ ok' = ok + (IF verdict = "ok" THEN 1 ELSE 0)
      /\ fail' = fail + (IF verdict = "fail" THEN 1 ELSE 0)
      /\ failedContracts' = failedContracts \cup (IF verdict = "fail" THEN {x} ELSE {})
      /\ pendingContracts' = pendingContracts \cup waiting
  BY DEF Owner!Count
<1>8. /\ failedContracts \subseteq Owner!Checked \ Elements(todo) /\ x \notin failedContracts
      /\ IsFiniteSet(failedContracts) /\ fail = Cardinality(failedContracts)
  <2>1. failedContracts \subseteq Owner!Checked \ Elements(todo) /\ fail = Cardinality(failedContracts)
    BY DEF OwnerInv, OwnerVerdicts
  <2> QED
    BY <1>3, <2>1, OwnerFacts, FS_Subset
<1>9. fail \in Nat /\ fail' = Cardinality(failedContracts')
  <2>1. fail \in Nat
    BY <1>8, FS_CardinalityType
  <2>2. CASE verdict = "fail"
    <3>1. Cardinality(failedContracts \cup {x}) = Cardinality(failedContracts) + 1
      BY <1>8, FS_AddElement
    <3> QED
      BY <1>7, <1>8, <2>1, <2>2, <3>1
  <2>3. CASE verdict # "fail"
    BY <1>7, <1>8, <2>1, <2>3
  <2> QED
    BY <2>1, <2>2, <2>3
<1>10. failedContracts' \subseteq Owner!Checked \ rest
  BY <1>3, <1>7, <1>8
<1>11. ASSUME mode # "dry_run"
       PROVE  /\ skipped' + ok' + fail' + Len(todo') = Len(Deployments)
              /\ skipped' = Cardinality((Owner!Contracts \ Owner!Checked) \ rest)
              /\ \A c \in Owner!Checked \ rest :
                   /\ c \notin failedContracts' => OwnerPasses(c)
                   /\ ~readFailed' => (c \in failedContracts' <=>
                        ~OwnerPasses(c) \/ (ownerResult[c] \notin Owner!DaoAddresses /\ slots[c] # {}))
  <2> DEFINE others == (Owner!Contracts \ Owner!Checked) \ Elements(todo)
  <2>1. /\ skipped + ok + fail + Len(todo) = Len(Deployments)
        /\ skipped = Cardinality(others)
        /\ \A c \in Owner!Checked \ Elements(todo) :
             /\ c \notin failedContracts => OwnerPasses(c)
             /\ ~readFailed => (c \in failedContracts <=>
                  ~OwnerPasses(c) \/ (ownerResult[c] \notin Owner!DaoAddresses /\ slots[c] # {}))
    BY <1>11 DEF OwnerInv, OwnerVerdicts
  <2>2. skipped' + ok' + fail' + Len(todo') = Len(Deployments)
    <3>1. skipped' + ok' + fail' = skipped + ok + fail + 1
      BY <1>2, <1>7, <1>9
    <3>2. skipped + ok + fail + Len(todo) = Len(Deployments)
      BY <2>1
    <3>3. Len(todo') = Len(todo) - 1 /\ Len(todo) \in Nat
      BY <1>3
    <3>4. skipped + ok + fail \in Nat
      BY <1>2, <1>9
    <3> HIDE DEF others, rest, x
    <3> QED
      BY <3>1, <3>2, <3>3, <3>4
  <2>3. skipped' = Cardinality((Owner!Contracts \ Owner!Checked) \ rest)
    <3>1. CASE verdict = "skip"
      <4>1. (Owner!Contracts \ Owner!Checked) \ rest = others \cup {x} /\ x \notin others
        BY <1>3, <3>1
      <4>2. IsFiniteSet(others)
        BY OwnerFacts, FS_Subset
      <4>3. Cardinality(others \cup {x}) = Cardinality(others) + 1
        BY <4>1, <4>2, FS_AddElement
      <4> QED
        BY <1>7, <2>1, <3>1, <4>1, <4>3
    <3>2. CASE verdict # "skip"
      <4>1. (Owner!Contracts \ Owner!Checked) \ rest = others
        BY <1>3, <3>2
      <4>2. skipped' = skipped
        BY <1>2, <1>7, <3>2
      <4>3. skipped = Cardinality(others)
        BY <2>1
      <4> HIDE DEF others, rest
      <4> QED
        BY <4>1, <4>2, <4>3
    <3> QED
      BY <3>1, <3>2
  <2>4. \A c \in Owner!Checked \ rest : c # x => c \in Owner!Checked \ Elements(todo)
    BY <1>3
  <2>5. \A c \in Owner!Checked \ rest : c # x => (c \in failedContracts' <=> c \in failedContracts)
    BY <1>7
  <2>6. x \in Owner!Checked => (x \in failedContracts' <=> verdict = "fail") /\ verdict # "skip"
    BY <1>7, <1>8
  <2> HIDE DEF x, rest
  <2> QED
    BY <2>1, <2>2, <2>3, <2>4, <2>5, <2>6 DEF x
<1>12. pendingContracts' =
         {<<c, pendingResult'[c]>> : c \in {d \in failedContracts' : pendingResult'[d] # NotRead}}
  <2>1. pendingContracts =
          {<<c, pendingResult[c]>> : c \in {d \in failedContracts : pendingResult[d] # NotRead}}
    BY DEF OwnerInv, OwnerVerdicts
  <2>2. CASE verdict = "fail" /\ pendingResult[x] # NotRead
    BY <1>1, <1>7, <2>1, <2>2
  <2>3. CASE verdict = "fail" /\ pendingResult[x] = NotRead
    BY <1>1, <1>7, <2>1, <2>3
  <2>4. CASE verdict # "fail"
    BY <1>1, <1>7, <2>1, <2>4
  <2> QED
    BY <2>2, <2>3, <2>4
<1>13. OwnerVerdicts'
  <2>1. skipped' \in Nat /\ ok' \in Nat
    BY <1>2, <1>7
  <2>2. UNCHANGED <<ownerResult, slots, mode>>
    BY <1>1
  <2> QED
    BY <1>9, <1>10, <1>11, <1>12, <2>1, <2>2 DEF OwnerVerdicts, OwnerPasses
<1> QED
  BY <1>5, <1>6, <1>13 DEF OwnerInv

\* The verdict is the one that the answers call for.
LEMMA OwnerJudge ==
  ASSUME OwnerInv, Owner!Skip \/ Owner!Verdict
  PROVE  OwnerInv'
<1> DEFINE x == Owner!Current
<1>1. Owner!Take /\ readFailed \in BOOLEAN
  BY DEF Owner!Skip, Owner!Verdict, OwnerInv, OwnerTypes
<1>2. CASE Owner!Skip
  <2>1. x \notin Owner!Checked /\ Owner!Count("skip", {}) /\ readFailed' = readFailed
    BY <1>2 DEF Owner!Skip
  <2> QED
    BY <1>1, <2>1, OwnerCount
<1>3. CASE Owner!Verdict
  <2>1. x \in Owner!Checked
    BY <1>3 DEF Owner!Verdict
  <2>2. pendingResult[x] # NotRead => ownerResult[x] \notin Owner!DaoAddresses \cup {Zero, NotRead}
    BY <2>1 DEF OwnerInv, OwnerReads, Owner!Candidates
  <2>3. CASE ownerResult[x] = Zero /\ x \in SiloHooks
    <3>1. PICK answered \in SUBSET Owner!Slots :
            /\ readFailed' = (readFailed \/ answered # Owner!Slots)
            /\ Owner!Count(IF Owner!detect_proxy_info(x, answered) THEN "fail" ELSE "ok", {})
      BY <1>3, <2>3 DEF Owner!Verdict, Owner!Probe
    <3>2. ownerResult[x] \notin Owner!DaoAddresses /\ OwnerPasses(x) /\ slots[x] \subseteq Owner!Slots
      BY <2>3, OwnerFacts DEF OwnerPasses, OwnerInv, OwnerTypes
    <3>3. readFailed' \in BOOLEAN /\ (readFailed => readFailed') /\ (~readFailed' => answered = Owner!Slots)
      BY <1>1, <3>1
    <3>4. pendingResult[x] = NotRead
      BY <2>2, <2>3
    <3>5. CASE Owner!detect_proxy_info(x, answered)
      <4>1. slots[x] # {} /\ Owner!Count("fail", {})
        BY <3>1, <3>5 DEF Owner!detect_proxy_info
      <4> QED
        BY <1>1, <2>1, <3>2, <3>3, <3>4, <4>1, OwnerCount
    <3>6. CASE ~Owner!detect_proxy_info(x, answered)
      <4>1. Owner!Count("ok", {})
        BY <3>1, <3>6
      <4>2. ~readFailed' => slots[x] = {}
        BY <3>2, <3>3, <3>6 DEF Owner!detect_proxy_info, Owner!Slots
      <4> QED
        BY <1>1, <2>1, <3>2, <3>3, <4>1, <4>2, OwnerCount
    <3> QED
      BY <3>5, <3>6
  <2>4. CASE ~(ownerResult[x] = Zero /\ x \in SiloHooks)
    <3>1. /\ readFailed' = readFailed
          /\ IF ownerResult[x] \in Owner!DaoAddresses THEN Owner!Count("ok", {})
             ELSE Owner!Count("fail", IF pendingResult[x] = NotRead THEN {} ELSE {<<x, pendingResult[x]>>})
      BY <1>3, <2>4 DEF Owner!Verdict
    <3>2. CASE ownerResult[x] \in Owner!DaoAddresses
      <4>1. Owner!Count("ok", {}) /\ OwnerPasses(x)
        BY <3>1, <3>2 DEF OwnerPasses
      <4> QED
        BY <1>1, <2>1, <3>1, <3>2, <4>1, OwnerCount
    <3>3. CASE ownerResult[x] \notin Owner!DaoAddresses
      <4>1. ~OwnerPasses(x)
        BY <2>4, <3>3 DEF OwnerPasses
      <4>2. Owner!Count("fail", IF pendingResult[x] # NotRead THEN {<<x, pendingResult[x]>>} ELSE {})
        BY <3>1, <3>3
      <4> QED
        BY <1>1, <2>1, <3>1, <4>1, <4>2, OwnerCount
    <3> QED
      BY <3>2, <3>3
  <2> QED
    BY <2>3, <2>4
<1> QED
  BY <1>2, <1>3

\* The report and the exit code follow the number of failures.
LEMMA OwnerFinish ==
  ASSUME OwnerInv, Owner!Finish
  PROVE  OwnerInv'
<1>1. /\ pc = "verdicts" /\ todo = <<>> /\ pc' = "done"
      /\ exit' = IF fail > 0 /\ mode # "no_fail" THEN 1 ELSE 0
      /\ hasFailure' = (fail > 0)
      /\ UNCHANGED <<owner, pending, slots, transfers, held, ownerResult, pendingResult, todo, mode, readFailed>>
      /\ UNCHANGED <<skipped, ok, fail, failedContracts, pendingContracts>>
  BY DEF Owner!Finish, Owner!write_json_report, Owner!chain, Owner!results, Owner!report
<1>2. OwnerTypes' /\ OwnerTodo'
  BY <1>1 DEF OwnerInv, OwnerTypes, OwnerTodo, Distinct
<1>3. OwnerReads'
  BY <1>1 DEF OwnerInv, OwnerReads, Owner!Candidates
<1>4. OwnerVerdicts'
  BY <1>1, OwnerVerdictsKept DEF OwnerInv
<1>5. fail \in Nat /\ (fail > 0 <=> failedContracts # {})
  <2>1. IsFiniteSet(failedContracts) /\ fail = Cardinality(failedContracts)
    <3>1. failedContracts \subseteq Owner!Contracts /\ fail = Cardinality(failedContracts)
      BY OwnerFacts DEF OwnerInv, OwnerVerdicts
    <3> QED
      BY <3>1, OwnerFacts, FS_Subset
  <2>2. fail \in Nat /\ (fail = 0 <=> failedContracts = {})
    BY <2>1, FS_EmptySet, FS_CardinalityType
  <2> QED
    BY <2>2
<1>6. OwnerEnd'
  <2>1. (hasFailure' <=> failedContracts' # {}) /\ failedContracts' = failedContracts /\ mode' = mode
    BY <1>1, <1>5
  <2>2. exit' = 0 <=> mode = "no_fail" \/ failedContracts = {}
    BY <1>1, <1>5
  <2> QED
    BY <2>1, <2>2 DEF OwnerEnd
<1> QED
  BY <1>2, <1>3, <1>4, <1>6 DEF OwnerInv

\* Every step of the owner check keeps what is known of it.
LEMMA OwnerNext ==
  ASSUME OwnerInv, Owner!Next
  PROVE  OwnerInv'
BY OwnerChain, OwnerStart, OwnerRead, OwnerJudge, OwnerFinish DEF Owner!Next

\* What the owner check says at its end
LEMMA OwnerSays ==
  ASSUME OwnerInv
  PROVE  Owner!TypeOK /\ Owner!PassedHadDao /\ Owner!ExactWhenQuiet /\ Owner!ReportAgrees
<1>1. Owner!TypeOK
  <2>1. /\ skipped \in Nat /\ ok \in Nat /\ fail = Cardinality(failedContracts)
        /\ failedContracts \subseteq Owner!Checked
    BY DEF OwnerInv, OwnerVerdicts
  <2>2. Owner!Cardinality(failedContracts) = Cardinality(failedContracts)
    BY DEF Owner!Cardinality, Cardinality
  <2> QED
    BY <2>1, <2>2 DEF OwnerInv, OwnerTypes, Owner!TypeOK
<1>2. ASSUME Owner!Finished PROVE Elements(todo) = {} /\ mode # "dry_run" /\ Len(todo) = 0
  BY <1>2 DEF OwnerInv, OwnerTodo, Elements, Owner!Finished
<1>3. ASSUME Owner!Finished, NEW c \in Owner!Passed
      PROVE  \/ held[c] \cap Owner!DaoAddresses # {}
             \/ c \in SiloHooks /\ Zero \in held[c]
  <2>1. c \in Owner!Checked /\ OwnerPasses(c)
    BY <1>2, <1>3 DEF OwnerInv, OwnerVerdicts, Owner!Passed
  <2>2. ownerResult[c] # NotRead
    BY <2>1, OwnerFacts DEF OwnerPasses
  <2>3. ownerResult[c] \in held[c]
    BY <2>1, <2>2 DEF OwnerInv, OwnerReads
  <2> QED
    BY <2>1, <2>3 DEF OwnerPasses
<1>4. ASSUME Owner!Finished, ~readFailed, transfers = 0
      PROVE  /\ failedContracts = {c \in Owner!Checked :
                  /\ owner[c] \notin Owner!DaoAddresses
                  /\ ~(owner[c] = Zero /\ c \in SiloHooks /\ slots[c] = {})}
             /\ pendingContracts = {<<c, pending[c]>> : c \in
                  {d \in failedContracts : owner[d] # Zero /\ pending[d] # Zero}}
  <2>1. \A c \in Owner!Checked : ownerResult[c] = owner[c]
    BY <1>4 DEF OwnerInv, OwnerReads
  <2>2. failedContracts \subseteq Owner!Checked
    BY DEF OwnerInv, OwnerVerdicts
  <2>3. \A c \in Owner!Checked :
          c \in failedContracts <=> ~OwnerPasses(c) \/ (ownerResult[c] \notin Owner!DaoAddresses /\ slots[c] # {})
    BY <1>2, <1>4 DEF OwnerInv, OwnerVerdicts
  <2>4. \A c \in Owner!Checked :
          c \in failedContracts <=> /\ owner[c] \notin Owner!DaoAddresses
                                    /\ ~(owner[c] = Zero /\ c \in SiloHooks /\ slots[c] = {})
    BY <2>1, <2>3 DEF OwnerPasses
  <2>5. \A c \in failedContracts : owner[c] \notin Owner!DaoAddresses /\ owner[c] # NotRead /\ pending[c] # NotRead
    BY <2>2, <2>4, OwnerFacts DEF OwnerInv, OwnerTypes
  <2>6. \A c \in failedContracts :
          pendingResult[c] = IF owner[c] # Zero /\ pending[c] # Zero THEN pending[c] ELSE NotRead
    <3> SUFFICES ASSUME NEW c \in failedContracts
                 PROVE  pendingResult[c] = IF owner[c] # Zero /\ pending[c] # Zero THEN pending[c] ELSE NotRead
      OBVIOUS
    <3>1. c \in Owner!Checked
      BY <2>2
    <3>2. c \in Owner!Candidates <=> owner[c] # Zero
      BY <2>1, <2>5, <3>1 DEF Owner!Candidates
    <3> QED
      BY <1>4, <3>1, <3>2 DEF OwnerInv, OwnerReads
  <2>7. {d \in failedContracts : pendingResult[d] # NotRead}
          = {d \in failedContracts : owner[d] # Zero /\ pending[d] # Zero}
    BY <2>5, <2>6
  <2>8. pendingContracts = {<<c, pendingResult[c]>> : c \in {d \in failedContracts : pendingResult[d] # NotRead}}
    BY DEF OwnerInv, OwnerVerdicts
  <2>9. pendingContracts = {<<c, pending[c]>> : c \in
                  {d \in failedContracts : owner[d] # Zero /\ pending[d] # Zero}}
    BY <2>6, <2>7, <2>8
  <2> QED
    BY <2>2, <2>4, <2>9
<1>5. ASSUME Owner!Finished
      PROVE  /\ skipped + ok + fail = Len(Deployments)
             /\ skipped = Cardinality(Owner!Contracts \ Owner!Checked)
             /\ hasFailure <=> failedContracts # {}
             /\ exit = 0 <=> mode = "no_fail" \/ failedContracts = {}
  <2>1. /\ skipped + ok + fail + Len(todo) = Len(Deployments) /\ skipped \in Nat /\ ok \in Nat
        /\ skipped = Cardinality((Owner!Contracts \ Owner!Checked) \ Elements(todo))
        /\ fail = Cardinality(failedContracts) /\ failedContracts \subseteq Owner!Contracts
    BY <1>2, <1>5, OwnerFacts DEF OwnerInv, OwnerVerdicts
  <2>2. fail \in Nat
    BY <2>1, OwnerFacts, FS_Subset, FS_CardinalityType
  <2>3. (Owner!Contracts \ Owner!Checked) \ Elements(todo) = Owner!Contracts \ Owner!Checked
    BY <1>2, <1>5
  <2>4. skipped + ok + fail = Len(Deployments)
    BY <1>2, <1>5, <2>1, <2>2
  <2> QED
    BY <1>5, <2>1, <2>3, <2>4 DEF OwnerInv, OwnerEnd
<1>6. Owner!PassedHadDao
  BY <1>3 DEF Owner!PassedHadDao
<1>7. Owner!ExactWhenQuiet
  BY <1>4 DEF Owner!ExactWhenQuiet
<1>8. Owner!ReportAgrees
  <2>1. \A S : Owner!Cardinality(S) = Cardinality(S)
    BY DEF Owner!Cardinality, Cardinality
  <2> QED
    BY <1>5, <2>1 DEF Owner!ReportAgrees
<1> QED
  BY <1>1, <1>6, <1>7, <1>8

-----------------------------------------------------------------------------
(* The admin check                                                         *)

AdminTypes ==
  /\ members \in [Admin!Checked -> Seq(AdminAccounts)]
  /\ \A c \in Admin!Checked : Distinct(members[c])
  /\ slots \in [SiloHooks -> SUBSET Admin!Slots]
  /\ first \in [Admin!Checked -> SUBSET (AdminAccounts \cup {NoAdmin})]
  /\ toFetch \subseteq Admin!Checked
  /\ admin \in [Admin!Checked -> AdminAccounts \cup {NoAdmin, NotRead}]
  /\ readFailed \in BOOLEAN /\ mode \in Admin!Modes
  /\ pc \in {"start", "counts", "members", "verdicts", "done"} /\ exit \in {0, 1, 2}

\* Admins that were read were the first ones at some moment of the run; if all went
\* well each contract has an answer.
AdminReads ==
  \A c \in Admin!Checked :
    /\ Admin!First(members[c]) \in first[c]
    /\ admin[c] # NotRead => admin[c] \in first[c]
    /\ pc \in {"members", "verdicts"} /\ admin[c] = NoAdmin => c \notin toFetch
    /\ pc = "members" /\ ~readFailed => c \in toFetch \/ admin[c] = NoAdmin
    /\ (pc = "verdicts" \/ Admin!Finished) /\ ~readFailed => admin[c] # NotRead

\* The list of the contracts without a verdict
AdminTodo ==
  /\ todo \in Seq(Admin!Contracts) /\ Distinct(todo)
  /\ pc \in {"start", "counts", "members"} => todo = Deployments
  /\ Admin!Finished => todo = <<>>

AdminPasses(c) ==
  \/ admin[c] \in Admin!DaoAddresses
  \/ admin[c] = NoAdmin /\ c \in SiloHooks

\* The verdicts so far: each one is counted, and is the one that the answers call for.
AdminVerdicts ==
  /\ skipped \in Nat /\ ok \in Nat /\ fail = Cardinality(failedContracts)
  /\ failedContracts \subseteq Admin!Checked \ Elements(todo)
  /\ mode # "dry_run" =>
       /\ skipped + ok + fail + Len(todo) = Len(Deployments)
       /\ skipped = Cardinality((Admin!Contracts \ Admin!Checked) \ Elements(todo))
       /\ \A c \in Admin!Checked \ Elements(todo) :
            /\ c \notin failedContracts => AdminPasses(c)
            /\ ~readFailed => (c \in failedContracts <=>
                 ~AdminPasses(c) \/ (admin[c] \notin Admin!DaoAddresses /\ slots[c] # {}))

AdminEnd ==
  Admin!Finished =>
    /\ hasFailure <=> failedContracts # {}
    /\ exit = 0 <=> mode = "no_fail" \/ failedContracts = {}

AdminInv == AdminTypes /\ AdminReads /\ AdminTodo /\ AdminVerdicts /\ AdminEnd

\* What is known of the contracts and accounts
LEMMA AdminFacts ==
  /\ Deployments \in Seq(Admin!Contracts) /\ Distinct(Deployments)
  /\ Elements(Deployments) = Admin!Contracts
  /\ IsFiniteSet(Admin!Contracts) /\ Admin!Checked \subseteq Admin!Contracts
  /\ SiloHooks \subseteq Admin!Contracts
  /\ Admin!DaoAddresses \subseteq AdminAccounts
  /\ NoAdmin \notin AdminAccounts /\ NotRead \notin AdminAccounts /\ NotRead # NoAdmin
<1>1. /\ Deployments \in Seq(Admin!Contracts) /\ Distinct(Deployments)
      /\ Elements(Deployments) = Admin!Contracts
  BY ChecksAssumption DEF Admin!AdminAssumption, Admin!IsInjective, Admin!Contracts, Admin!Range,
     Distinct, Elements
<1>2. IsFiniteSet(Admin!Contracts)
  BY <1>1, DistinctLength
<1>3. Admin!DaoAddresses \subseteq AdminAccounts
  BY ChecksAssumption DEF Admin!AdminAssumption, Admin!DaoAddresses, Admin!Range
<1> QED
  BY <1>1, <1>2, <1>3, ChecksAssumption DEF Admin!AdminAssumption, Admin!Checked

\* The first of a list of holders is an account, or there is none.
LEMMA FirstHolder ==
  ASSUME NEW list \in Seq(AdminAccounts)
  PROVE  /\ Admin!First(list) \in AdminAccounts \cup {NoAdmin}
         /\ list # <<>> <=> Admin!First(list) \in AdminAccounts
         /\ list # <<>> <=> Len(list) > 0
BY AdminFacts DEF Admin!First

\* Before the check starts
LEMMA AdminInit == Admin!Init => AdminInv
<1> SUFFICES ASSUME Admin!Init PROVE AdminInv
  OBVIOUS
<1>1. pc = "start" /\ ~Admin!Finished
  BY DEF Admin!Init, Admin!Finished
<1>2. /\ members \in [Admin!Checked -> Seq(AdminAccounts)]
      /\ \A c \in Admin!Checked : Distinct(members[c])
  <2>1. ASSUME NEW list \in Admin!MemberLists PROVE list \in Seq(AdminAccounts) /\ Distinct(list)
    <3>1. PICK m \in 0 .. 2 : list \in [1 .. m -> AdminAccounts]
      BY <2>1 DEF Admin!MemberLists, Admin!SeqOf
    <3>2. list \in Seq(AdminAccounts)
      BY <3>1
    <3> QED
      BY <2>1, <3>2 DEF Admin!MemberLists, Admin!IsInjective, Distinct
  <2>2. members \in [Admin!Checked -> Admin!MemberLists]
    BY DEF Admin!Init
  <2> QED
    BY <2>1, <2>2
<1>3. /\ first \in [Admin!Checked -> SUBSET (AdminAccounts \cup {NoAdmin})]
      /\ \A c \in Admin!Checked : first[c] = {Admin!First(members[c])}
  <2>1. first = [c \in Admin!Checked |-> {Admin!First(members[c])}]
    BY DEF Admin!Init
  <2>2. \A c \in Admin!Checked : Admin!First(members[c]) \in AdminAccounts \cup {NoAdmin}
    BY <1>2, FirstHolder
  <2> QED
    BY <2>1, <2>2
<1>4. AdminTypes
  BY <1>2, <1>3 DEF Admin!Init, AdminTypes
<1>5. AdminReads
  BY <1>1, <1>3 DEF Admin!Init, AdminReads
<1>6. AdminTodo
  BY <1>1, AdminFacts DEF Admin!Init, AdminTodo
<1>7. AdminVerdicts
  <2>1. Admin!Checked \ Elements(todo) = {} /\ (Admin!Contracts \ Admin!Checked) \ Elements(todo) = {}
    BY AdminFacts DEF Admin!Init
  <2>2. Len(Deployments) \in Nat
    BY AdminFacts
  <2>3. 0 + 0 + 0 + Len(todo) = Len(Deployments)
    BY <2>2 DEF Admin!Init
  <2>4. Cardinality({}) = 0
    BY FS_EmptySet
  <2> QED
    BY <2>1, <2>3, <2>4 DEF Admin!Init, AdminVerdicts
<1> QED
  BY <1>1, <1>4, <1>5, <1>6, <1>7 DEF AdminInv, AdminEnd

\* EnumerableSet appends a holder that is not one yet,
LEMMA Granted ==
  ASSUME NEW list \in Seq(AdminAccounts), Distinct(list), NEW a \in AdminAccounts, ~Admin!Contains(list, a)
  PROVE  Append(list, a) \in Seq(AdminAccounts) /\ Distinct(Append(list, a))
<1>1. /\ Append(list, a) \in Seq(AdminAccounts) /\ Len(list) \in Nat
      /\ DOMAIN Append(list, a) = 1 .. (Len(list) + 1) /\ DOMAIN list = 1 .. Len(list)
      /\ \A i \in 1 .. Len(list) : Append(list, a)[i] = list[i]
      /\ Append(list, a)[Len(list) + 1] = a
  OBVIOUS
<1>2. \A i \in 1 .. Len(list) : list[i] # a
  BY DEF Admin!Contains
<1>3. \A i \in 1 .. (Len(list) + 1) : i \in 1 .. Len(list) \/ i = Len(list) + 1
  BY <1>1
<1> QED
  BY <1>1, <1>2, <1>3 DEF Distinct

\* ... and removes one by putting the last one into his place.
LEMMA Revoked ==
  ASSUME NEW list \in Seq(AdminAccounts), Distinct(list), NEW i \in DOMAIN list
  PROVE  LET left == Admin!Front([list EXCEPT ![i] = Admin!Last(list)])
         IN  left \in Seq(AdminAccounts) /\ Distinct(left)
<1> DEFINE n == Len(list)
           moved == [list EXCEPT ![i] = list[n]]
           left == SubSeq(moved, 1, n - 1)
<1>1. n \in Nat \ {0} /\ DOMAIN list = 1 .. n /\ n \in DOMAIN list /\ i \in 1 .. n
  OBVIOUS
<1>2. moved \in Seq(AdminAccounts) /\ Len(moved) = n
  BY <1>1
<1>3. \A k \in 1 .. n : moved[k] = IF k = i THEN list[n] ELSE list[k]
  BY <1>1
<1> HIDE DEF moved
<1>4. /\ left \in Seq(AdminAccounts) /\ DOMAIN left = 1 .. (n - 1)
      /\ \A k \in 1 .. (n - 1) : left[k] = moved[k]
  BY <1>1, <1>2
<1>5. \A k \in 1 .. (n - 1) : k \in 1 .. n /\ k # n
  <2> HIDE DEF n, left
  <2> QED
    BY <1>1
<1>6. Distinct(left)
  <2> SUFFICES ASSUME NEW j \in 1 .. (n - 1), NEW k \in 1 .. (n - 1), left[j] = left[k]
               PROVE  j = k
    BY <1>4 DEF Distinct
  <2>1. moved[j] = moved[k]
    BY <1>4
  <2>2. (IF j = i THEN n ELSE j) = (IF k = i THEN n ELSE k)
    BY <1>1, <1>3, <1>5, <2>1 DEF Distinct
  <2> QED
    BY <1>5, <2>2
<1>7. Admin!Front([list EXCEPT ![i] = Admin!Last(list)]) = left
  BY <1>2 DEF Admin!Front, Admin!Last, moved
<1> QED
  BY <1>4, <1>6, <1>7

\* The chain goes on: what was read does not change, nor do the verdicts.
LEMMA AdminChain ==
  ASSUME AdminInv, Admin!GrantRole \/ Admin!RevokeRole
  PROVE  AdminInv'
<1>1. PICK c \in Admin!Checked, list \in Seq(AdminAccounts) : Distinct(list) /\ Admin!SetMembers(c, list)
  <2>0. \A c \in Admin!Checked : members[c] \in Seq(AdminAccounts) /\ Distinct(members[c])
    BY DEF AdminInv, AdminTypes
  <2>1. CASE Admin!GrantRole
    <3>1. PICK c \in Admin!Checked, a \in AdminAccounts :
            ~Admin!Contains(members[c], a) /\ Admin!SetMembers(c, Append(members[c], a))
      BY <2>1 DEF Admin!GrantRole
    <3> QED
      BY <2>0, <3>1, Granted
  <2>2. CASE Admin!RevokeRole
    <3>1. PICK c \in Admin!Checked : \E i \in DOMAIN members[c] :
            Admin!SetMembers(c, Admin!Front([members[c] EXCEPT ![i] = Admin!Last(members[c])]))
      BY <2>2 DEF Admin!RevokeRole
    <3>2. PICK i \in DOMAIN members[c] :
            Admin!SetMembers(c, Admin!Front([members[c] EXCEPT ![i] = Admin!Last(members[c])]))
      BY <3>1
    <3> QED
      BY <2>0, <3>2, Revoked
  <2> QED
    BY <2>1, <2>2
<1>2. /\ UNCHANGED <<slots, pc, toFetch, admin, todo, skipped, ok, fail, failedContracts, hasFailure, exit,
                     mode, readFailed>>
      /\ members' = [members EXCEPT ![c] = list]
      /\ first' = [first EXCEPT ![c] = @ \cup {Admin!First(list)}]
  BY <1>1 DEF Admin!SetMembers, Admin!report
<1>3. Admin!Finished' = Admin!Finished
  BY <1>2 DEF Admin!Finished
<1>4. Admin!First(list) \in AdminAccounts \cup {NoAdmin}
  BY <1>1, FirstHolder
<1>5. AdminTypes'
  BY <1>1, <1>2, <1>4 DEF AdminInv, AdminTypes
<1>6. \A d \in Admin!Checked : first[d] \subseteq first'[d] /\ Admin!First(members'[d]) \in first'[d]
  BY <1>1, <1>2 DEF AdminInv, AdminTypes, AdminReads
<1>7. AdminReads'
  BY <1>2, <1>3, <1>6 DEF AdminInv, AdminReads
<1>8. AdminTodo' /\ AdminVerdicts' /\ AdminEnd'
  BY <1>2, <1>3 DEF AdminInv, AdminTodo, AdminVerdicts, AdminPasses, AdminEnd, Elements, Distinct
<1> QED
  BY <1>5, <1>7, <1>8 DEF AdminInv

\* The verdicts are about the answers of the contracts that have one already.
LEMMA AdminVerdictsKept ==
  ASSUME AdminVerdicts,
         UNCHANGED <<todo, skipped, ok, fail, failedContracts, mode, slots>>,
         todo = Deployments \/ UNCHANGED <<admin, readFailed>>
  PROVE  AdminVerdicts'
<1>1. CASE todo = Deployments
  <2>1. Admin!Checked \ Elements(todo) = {}
    BY <1>1, AdminFacts
  <2>2. Admin!Checked \ Elements(todo') = {} /\ failedContracts = {}
    BY <2>1 DEF AdminVerdicts
  <2> QED
    BY <2>2 DEF AdminVerdicts
<1>2. CASE UNCHANGED <<admin, readFailed>>
  BY <1>2 DEF AdminVerdicts, AdminPasses
<1> QED
  BY <1>1, <1>2

\* Starting, or not, leaves everything as it is.
LEMMA AdminStart ==
  ASSUME AdminInv, Admin!Stop \/ Admin!DryRun \/ Admin!Start
  PROVE  AdminInv'
<1>1. /\ pc = "start" /\ todo = Deployments
      /\ UNCHANGED <<members, slots, first, toFetch, admin, mode>>
      /\ UNCHANGED <<skipped, ok, fail, failedContracts>>
      /\ ~Admin!Finished' /\ pc' \in {"done", "counts"} /\ exit' \in {0, 1, 2} /\ readFailed' \in BOOLEAN
  BY DEF Admin!Stop, Admin!DryRun, Admin!Start, Admin!chain, Admin!report, Admin!Finished,
         AdminInv, AdminTypes, AdminTodo
<1>2. AdminTypes'
  BY <1>1 DEF AdminInv, AdminTypes
<1>3. AdminReads'
  BY <1>1 DEF AdminInv, AdminReads
<1>4. AdminEnd'
  BY <1>1 DEF AdminEnd
<1>5. CASE Admin!DryRun
  <2>1. todo' = <<>> /\ mode' = "dry_run" /\ pc' = "done"
    BY <1>5 DEF Admin!DryRun
  <2>2. AdminTodo'
    BY <1>1, <2>1 DEF AdminTodo, Distinct
  <2>3. Elements(todo') = {}
    BY <2>1 DEF Elements
  <2>4. AdminVerdicts'
    BY <1>1, <2>1, <2>3 DEF AdminInv, AdminVerdicts
  <2> QED
    BY <1>2, <1>3, <1>4, <2>2, <2>4 DEF AdminInv
<1>6. CASE Admin!Stop \/ Admin!Start
  <2>1. todo' = todo
    BY <1>6 DEF Admin!Stop, Admin!Start
  <2>2. AdminTodo'
    BY <1>1, <2>1 DEF AdminInv, AdminTodo, Distinct
  <2>3. AdminVerdicts'
    BY <1>1, <2>1, AdminVerdictsKept DEF AdminInv
  <2> QED
    BY <1>2, <1>3, <1>4, <2>2, <2>3 DEF AdminInv
<1> QED
  BY <1>5, <1>6

\* The answers are those of the chain, each of the two at its moment.
LEMMA AdminRead ==
  ASSUME AdminInv, Admin!ReadCounts \/ Admin!ReadMembers
  PROVE  AdminInv'
<1>1. /\ pc \in {"counts", "members"} /\ pc' \in {"members", "verdicts"} /\ todo = Deployments /\ todo' = todo
      /\ UNCHANGED <<members, slots, first, mode, hasFailure, exit>>
      /\ UNCHANGED <<skipped, ok, fail, failedContracts>>
      /\ ~Admin!Finished' /\ readFailed' \in BOOLEAN
  BY DEF Admin!ReadCounts, Admin!ReadMembers, Admin!chain, Admin!report, Admin!Finished,
         AdminInv, AdminTypes, AdminTodo
<1>2. \A c \in Admin!Checked :
        /\ members[c] \in Seq(AdminAccounts) /\ Admin!First(members[c]) \in first[c]
        /\ members[c] = <<>> <=> ~(Len(members[c]) > 0)
        /\ members[c] = <<>> => Admin!First(members[c]) = NoAdmin
        /\ members[c] # <<>> => Admin!First(members[c]) \in AdminAccounts
  BY FirstHolder DEF AdminInv, AdminTypes, AdminReads, Admin!First
<1>3. AdminTypes' /\ AdminReads'
  <2>1. CASE Admin!ReadCounts
    <3>1. PICK answered \in SUBSET Admin!Checked :
            /\ toFetch' = Admin!withHolders(answered)
            /\ admin' = [c \in Admin!Checked |-> IF c \in answered \ toFetch' THEN NoAdmin ELSE NotRead]
            /\ readFailed' = (answered # Admin!Checked)
            /\ pc' = "members"
      BY <2>1 DEF Admin!ReadCounts
    <3>2. \A c \in Admin!Checked : c \in toFetch' <=> c \in answered /\ members[c] # <<>>
      BY <1>2, <3>1 DEF Admin!withHolders
    <3>3. /\ toFetch' \subseteq Admin!Checked
          /\ admin' \in [Admin!Checked -> AdminAccounts \cup {NoAdmin, NotRead}]
      BY <3>1 DEF Admin!withHolders
    <3>4. \A c \in Admin!Checked :
            /\ admin'[c] # NotRead => c \in answered /\ members[c] = <<>> /\ admin'[c] = NoAdmin
            /\ admin'[c] = NoAdmin => c \notin toFetch'
            /\ ~readFailed' => c \in toFetch' \/ admin'[c] = NoAdmin
      BY <3>1, <3>2, AdminFacts
    <3>5. AdminTypes'
      BY <1>1, <3>3 DEF AdminInv, AdminTypes
    <3>6. AdminReads'
      BY <1>1, <1>2, <3>1, <3>4 DEF AdminReads
    <3> QED
      BY <3>5, <3>6
  <2>2. CASE Admin!ReadMembers
    <3>1. PICK answered \in SUBSET {c \in toFetch : members[c] # <<>>} :
            /\ admin' = [c \in Admin!Checked |-> IF c \in answered THEN Admin!First(members[c]) ELSE admin[c]]
            /\ readFailed' = (readFailed \/ answered # toFetch)
            /\ pc' = "verdicts" /\ toFetch' = toFetch /\ pc = "members"
      BY <2>2 DEF Admin!ReadMembers
    <3>2. \A c \in Admin!Checked :
            /\ admin'[c] = IF c \in answered THEN Admin!First(members[c]) ELSE admin[c]
            /\ c \in answered => c \in toFetch /\ Admin!First(members[c]) \in AdminAccounts
            /\ ~readFailed' /\ c \in toFetch => c \in answered
      BY <1>2, <3>1
    <3>3. \A c \in Admin!Checked : admin'[c] \in AdminAccounts \cup {NoAdmin, NotRead}
      BY <3>2 DEF AdminInv, AdminTypes
    <3>4. AdminTypes'
      BY <1>1, <3>1, <3>3 DEF AdminInv, AdminTypes
    <3>5. \A c \in Admin!Checked :
            /\ admin'[c] # NotRead => admin'[c] \in first[c]
            /\ admin'[c] = NoAdmin => c \notin toFetch
            /\ ~readFailed' => admin'[c] # NotRead
      <4> SUFFICES ASSUME NEW c \in Admin!Checked
                   PROVE  /\ admin'[c] # NotRead => admin'[c] \in first[c]
                          /\ admin'[c] = NoAdmin => c \notin toFetch
                          /\ ~readFailed' => admin'[c] # NotRead
        OBVIOUS
      <4>1. /\ admin[c] # NotRead => admin[c] \in first[c]
            /\ admin[c] = NoAdmin => c \notin toFetch
            /\ ~readFailed => c \in toFetch \/ admin[c] = NoAdmin
        BY <3>1 DEF AdminInv, AdminReads
      <4>2. ~readFailed' => ~readFailed
        BY <3>1
      <4> QED
        BY <1>2, <3>2, <4>1, <4>2, AdminFacts
    <3>6. AdminReads'
      BY <1>1, <1>2, <3>1, <3>5 DEF AdminReads
    <3> QED
      BY <3>4, <3>6
  <2> QED
    BY <2>1, <2>2
<1>4. AdminTodo' /\ AdminEnd'
  BY <1>1 DEF AdminInv, AdminTodo, AdminEnd, Distinct
<1>5. AdminVerdicts'
  BY <1>1, AdminVerdictsKept DEF AdminInv
<1> QED
  BY <1>3, <1>4, <1>5 DEF AdminInv

\* A verdict is about the first contract of the list, and is counted once.
LEMMA AdminCount ==
  ASSUME AdminInv, Admin!Take, NEW verdict \in {"skip", "ok", "fail"},
         Admin!Count(verdict), readFailed' \in BOOLEAN, readFailed => readFailed',
         verdict = "skip" <=> Admin!Current \notin Admin!Checked,
         verdict = "ok" => AdminPasses(Admin!Current),
         ~readFailed' => (verdict = "fail" => ~AdminPasses(Admin!Current)
               \/ (admin[Admin!Current] \notin Admin!DaoAddresses /\ slots[Admin!Current] # {})),
         ~readFailed' => (verdict = "ok" =>
               ~(admin[Admin!Current] \notin Admin!DaoAddresses /\ slots[Admin!Current] # {}))
  PROVE  AdminInv'
<1> DEFINE x == Admin!Current
           rest == Elements(todo')
<1>1. /\ pc = "verdicts" /\ pc' = pc /\ todo # <<>> /\ todo' = Tail(todo)
      /\ UNCHANGED <<members, slots, first, toFetch, admin, mode, hasFailure, exit>>
  BY DEF Admin!Take, Admin!chain
<1>2. skipped \in Nat /\ ok \in Nat
  BY DEF AdminInv, AdminVerdicts
<1>3. /\ x \in Admin!Contracts /\ todo' \in Seq(Admin!Contracts) /\ Distinct(todo')
      /\ Len(todo') = Len(todo) - 1 /\ Len(todo) \in Nat
      /\ x \in Elements(todo) /\ x \notin rest /\ Elements(todo) = rest \cup {x}
  BY <1>1, TakeFirst DEF AdminInv, AdminTodo, Admin!Current
<1>4. ~Admin!Finished' /\ ~Admin!Finished
  BY <1>1 DEF Admin!Finished
<1>5. AdminTypes' /\ AdminTodo' /\ AdminEnd'
  BY <1>1, <1>3, <1>4 DEF AdminInv, AdminTypes, AdminTodo, AdminEnd
<1>6. AdminReads'
  BY <1>1, <1>4 DEF AdminInv, AdminReads, AdminTypes
<1>7. /\ skipped' = skipped + (IF verdict = "skip" THEN 1 ELSE 0)
      /\ ok' = ok + (IF verdict = "ok" THEN 1 ELSE 0)
      /\ fail' = fail + (IF verdict = "fail" THEN 1 ELSE 0)
      /\ failedContracts' = failedContracts \cup (IF verdict = "fail" THEN {x} ELSE {})
  BY DEF Admin!Count
<1>8. /\ failedContracts \subseteq Admin!Checked \ Elements(todo) /\ x \notin failedContracts
      /\ IsFiniteSet(failedContracts) /\ fail = Cardinality(failedContracts)
  <2>1. failedContracts \subseteq Admin!Checked \ Elements(todo) /\ fail = Cardinality(failedContracts)
    BY DEF AdminInv, AdminVerdicts
  <2> QED
    BY <1>3, <2>1, AdminFacts, FS_Subset
<1>9. fail \in Nat /\ fail' = Cardinality(failedContracts')
  <2>1. fail \in Nat
    BY <1>8, FS_CardinalityType
  <2>2. CASE verdict = "fail"
    <3>1. Cardinality(failedContracts \cup {x}) = Cardinality(failedContracts) + 1
      BY <1>8, FS_AddElement
    <3> QED
      BY <1>7, <1>8, <2>1, <2>2, <3>1
  <2>3. CASE verdict # "fail"
    BY <1>7, <1>8, <2>1, <2>3
  <2> QED
    BY <2>1, <2>2, <2>3
<1>10. failedContracts' \subseteq Admin!Checked \ rest
  BY <1>3, <1>7, <1>8
<1>11. ASSUME mode # "dry_run"
       PROVE  /\ skipped' + ok' + fail' + Len(todo') = Len(Deployments)
              /\ skipped' = Cardinality((Admin!Contracts \ Admin!Checked) \ rest)
              /\ \A c \in Admin!Checked \ rest :
                   /\ c \notin failedContracts' => AdminPasses(c)
                   /\ ~readFailed' => (c \in failedContracts' <=>
                        ~AdminPasses(c) \/ (admin[c] \notin Admin!DaoAddresses /\ slots[c] # {}))
  <2> DEFINE others == (Admin!Contracts \ Admin!Checked) \ Elements(todo)
  <2>1. /\ skipped + ok + fail + Len(todo) = Len(Deployments)
        /\ skipped = Cardinality(others)
        /\ \A c \in Admin!Checked \ Elements(todo) :
             /\ c \notin failedContracts => AdminPasses(c)
             /\ ~readFailed => (c \in failedContracts <=>
                  ~AdminPasses(c) \/ (admin[c] \notin Admin!DaoAddresses /\ slots[c] # {}))
    BY <1>11 DEF AdminInv, AdminVerdicts
  <2>2. skipped' + ok' + fail' + Len(todo') = Len(Deployments)
    <3>1. skipped' + ok' + fail' = skipped + ok + fail + 1
      BY <1>2, <1>7, <1>9
    <3>2. skipped + ok + fail + Len(todo) = Len(Deployments)
      BY <2>1
    <3>3. Len(todo') = Len(todo) - 1 /\ Len(todo) \in Nat
      BY <1>3
    <3>4. skipped + ok + fail \in Nat
      BY <1>2, <1>9
    <3> HIDE DEF others, rest, x
    <3> QED
      BY <3>1, <3>2, <3>3, <3>4
  <2>3. skipped' = Cardinality((Admin!Contracts \ Admin!Checked) \ rest)
    <3>1. CASE verdict = "skip"
      <4>1. (Admin!Contracts \ Admin!Checked) \ rest = others \cup {x} /\ x \notin others
        BY <1>3, <3>1
      <4>2. IsFiniteSet(others)
        BY AdminFacts, FS_Subset
      <4>3. Cardinality(others \cup {x}) = Cardinality(others) + 1
        BY <4>1, <4>2, FS_AddElement
      <4> QED
        BY <1>7, <2>1, <3>1, <4>1, <4>3
    <3>2. CASE verdict # "skip"
      <4>1. (Admin!Contracts \ Admin!Checked) \ rest = others
        BY <1>3, <3>2
      <4>2. skipped' = skipped
        BY <1>2, <1>7, <3>2
      <4>3. skipped = Cardinality(others)
        BY <2>1
      <4> HIDE DEF others, rest
      <4> QED
        BY <4>1, <4>2, <4>3
    <3> QED
      BY <3>1, <3>2
  <2>4. \A c \in Admin!Checked \ rest : c # x => c \in Admin!Checked \ Elements(todo)
    BY <1>3
  <2>5. \A c \in Admin!Checked \ rest : c # x => (c \in failedContracts' <=> c \in failedContracts)
    BY <1>7
  <2>6. x \in Admin!Checked => (x \in failedContracts' <=> verdict = "fail") /\ verdict # "skip"
    BY <1>7, <1>8
  <2> HIDE DEF x, rest
  <2> QED
    BY <2>1, <2>2, <2>3, <2>4, <2>5, <2>6 DEF x
<1>12. AdminVerdicts'
  <2>1. skipped' \in Nat /\ ok' \in Nat
    BY <1>2, <1>7
  <2>2. UNCHANGED <<admin, slots, mode>>
    BY <1>1
  <2> QED
    BY <1>9, <1>10, <1>11, <2>1, <2>2 DEF AdminVerdicts, AdminPasses
<1> QED
  BY <1>5, <1>6, <1>12 DEF AdminInv

\* The verdict is the one that the answers call for.
LEMMA AdminJudge ==
  ASSUME AdminInv, Admin!Skip \/ Admin!Verdict
  PROVE  AdminInv'
<1> DEFINE x == Admin!Current
<1>1. Admin!Take /\ readFailed \in BOOLEAN
  BY DEF Admin!Skip, Admin!Verdict, AdminInv, AdminTypes
<1>2. CASE Admin!Skip
  <2>1. x \notin Admin!Checked /\ Admin!Count("skip") /\ readFailed' = readFailed
    BY <1>2 DEF Admin!Skip
  <2> QED
    BY <1>1, <2>1, AdminCount
<1>3. CASE Admin!Verdict
  <2>1. x \in Admin!Checked
    BY <1>3 DEF Admin!Verdict
  <2>2. CASE admin[x] = NoAdmin /\ x \in SiloHooks
    <3>1. PICK answered \in SUBSET Admin!Slots :
            /\ readFailed' = (readFailed \/ answered # Admin!Slots)
            /\ Admin!Count(IF Admin!detect_proxy_info(x, answered) THEN "fail" ELSE "ok")
      BY <1>3, <2>2 DEF Admin!Verdict, Admin!Probe
    <3>2. admin[x] \notin Admin!DaoAddresses /\ AdminPasses(x) /\ slots[x] \subseteq Admin!Slots
      BY <2>2, AdminFacts DEF AdminPasses, AdminInv, AdminTypes
    <3>3. readFailed' \in BOOLEAN /\ (readFailed => readFailed') /\ (~readFailed' => answered = Admin!Slots)
      BY <1>1, <3>1
    <3>4. CASE Admin!detect_proxy_info(x, answered)
      <4>1. slots[x] # {} /\ Admin!Count("fail")
        BY <3>1, <3>4 DEF Admin!detect_proxy_info
      <4> QED
        BY <1>1, <2>1, <3>2, <3>3, <4>1, AdminCount
    <3>5. CASE ~Admin!detect_proxy_info(x, answered)
      <4>1. Admin!Count("ok")
        BY <3>1, <3>5
      <4>2. ~readFailed' => slots[x] = {}
        BY <3>2, <3>3, <3>5 DEF Admin!detect_proxy_info, Admin!Slots
      <4> QED
        BY <1>1, <2>1, <3>2, <3>3, <4>1, <4>2, AdminCount
    <3> QED
      BY <3>4, <3>5
  <2>3. CASE ~(admin[x] = NoAdmin /\ x \in SiloHooks)
    <3>1. /\ readFailed' = readFailed
          /\ Admin!Count(IF admin[x] \in Admin!DaoAddresses THEN "ok" ELSE "fail")
      BY <1>3, <2>3 DEF Admin!Verdict
    <3>2. CASE admin[x] \in Admin!DaoAddresses
      <4>1. Admin!Count("ok") /\ AdminPasses(x)
        BY <3>1, <3>2 DEF AdminPasses
      <4> QED
        BY <1>1, <2>1, <3>1, <3>2, <4>1, AdminCount
    <3>3. CASE admin[x] \notin Admin!DaoAddresses
      <4>1. ~AdminPasses(x)
        BY <2>3, <3>3 DEF AdminPasses
      <4>2. Admin!Count("fail")
        BY <3>1, <3>3
      <4> QED
        BY <1>1, <2>1, <3>1, <4>1, <4>2, AdminCount
    <3> QED
      BY <3>2, <3>3
  <2> QED
    BY <2>2, <2>3
<1> QED
  BY <1>2, <1>3

\* The report and the exit code follow the number of failures.
LEMMA AdminFinish ==
  ASSUME AdminInv, Admin!Finish
  PROVE  AdminInv'
<1>1. /\ pc = "verdicts" /\ todo = <<>> /\ pc' = "done"
      /\ exit' = IF fail > 0 /\ mode # "no_fail" THEN 1 ELSE 0
      /\ hasFailure' = (fail > 0)
      /\ UNCHANGED <<members, slots, first, toFetch, admin, todo, mode, readFailed>>
      /\ UNCHANGED <<skipped, ok, fail, failedContracts>>
  BY DEF Admin!Finish, Admin!write_json_report, Admin!chain, Admin!report
<1>2. AdminTypes' /\ AdminTodo'
  BY <1>1 DEF AdminInv, AdminTypes, AdminTodo, Distinct
<1>3. AdminReads'
  BY <1>1 DEF AdminInv, AdminReads
<1>4. AdminVerdicts'
  BY <1>1, AdminVerdictsKept DEF AdminInv
<1>5. fail \in Nat /\ (fail > 0 <=> failedContracts # {})
  <2>1. IsFiniteSet(failedContracts) /\ fail = Cardinality(failedContracts)
    <3>1. failedContracts \subseteq Admin!Contracts /\ fail = Cardinality(failedContracts)
      BY AdminFacts DEF AdminInv, AdminVerdicts
    <3> QED
      BY <3>1, AdminFacts, FS_Subset
  <2>2. fail \in Nat /\ (fail = 0 <=> failedContracts = {})
    BY <2>1, FS_EmptySet, FS_CardinalityType
  <2> QED
    BY <2>2
<1>6. AdminEnd'
  <2>1. (hasFailure' <=> failedContracts' # {}) /\ failedContracts' = failedContracts /\ mode' = mode
    BY <1>1, <1>5
  <2>2. exit' = 0 <=> mode = "no_fail" \/ failedContracts = {}
    BY <1>1, <1>5
  <2> QED
    BY <2>1, <2>2 DEF AdminEnd
<1> QED
  BY <1>2, <1>3, <1>4, <1>6 DEF AdminInv

\* Every step of the admin check keeps what is known of it.
LEMMA AdminNext ==
  ASSUME AdminInv, Admin!Next
  PROVE  AdminInv'
BY AdminChain, AdminStart, AdminRead, AdminJudge, AdminFinish DEF Admin!Next

\* What the admin check says at its end
LEMMA AdminSays ==
  ASSUME AdminInv
  PROVE  Admin!TypeOK /\ Admin!PassedHadDao /\ Admin!SteadyIsExact /\ Admin!ReportAgrees
<1>1. Admin!TypeOK
  <2>1. \A c \in Admin!Checked : Admin!IsInjective(members[c])
    BY DEF AdminInv, AdminTypes, Distinct, Admin!IsInjective
  <2>2. failedContracts \subseteq Admin!Checked
    BY DEF AdminInv, AdminVerdicts
  <2> QED
    BY <2>1, <2>2 DEF AdminInv, AdminTypes, AdminReads, Admin!TypeOK
<1>2. ASSUME Admin!Finished PROVE Elements(todo) = {} /\ mode # "dry_run" /\ Len(todo) = 0
  BY <1>2 DEF AdminInv, AdminTodo, Elements, Admin!Finished
<1>3. ASSUME Admin!Finished, NEW c \in Admin!Passed
      PROVE  \/ first[c] \cap Admin!DaoAddresses # {}
             \/ c \in SiloHooks /\ NoAdmin \in first[c]
  <2>1. c \in Admin!Checked /\ AdminPasses(c)
    BY <1>2, <1>3 DEF AdminInv, AdminVerdicts, Admin!Passed
  <2>2. admin[c] # NotRead
    BY <2>1, AdminFacts DEF AdminPasses
  <2>3. admin[c] \in first[c]
    BY <2>1, <2>2 DEF AdminInv, AdminReads
  <2> QED
    BY <2>1, <2>3 DEF AdminPasses
<1>4. ASSUME Admin!Finished, ~readFailed, NEW c \in Admin!Checked
      PROVE  /\ first[c] \subseteq Admin!DaoAddresses => c \in Admin!Passed
             /\ first[c] \cap Admin!DaoAddresses = {} /\ NoAdmin \notin first[c] => c \in failedContracts
             /\ first[c] = {NoAdmin} => (c \in Admin!Passed <=> c \in SiloHooks /\ slots[c] = {})
  <2>1. admin[c] \in first[c]
    BY <1>4 DEF AdminInv, AdminReads
  <2>2. c \in failedContracts <=>
          ~AdminPasses(c) \/ (admin[c] \notin Admin!DaoAddresses /\ slots[c] # {})
    BY <1>2, <1>4 DEF AdminInv, AdminVerdicts
  <2>3. c \in Admin!Passed <=> c \notin failedContracts
    BY DEF Admin!Passed
  <2>4. NoAdmin \notin Admin!DaoAddresses
    BY AdminFacts
  <2> QED
    BY <2>1, <2>2, <2>3, <2>4 DEF AdminPasses
<1>5. ASSUME Admin!Finished
      PROVE  /\ skipped + ok + fail = Len(Deployments)
             /\ skipped = Cardinality(Admin!Contracts \ Admin!Checked)
             /\ fail = Cardinality(failedContracts)
             /\ hasFailure <=> failedContracts # {}
             /\ exit = 0 <=> mode = "no_fail" \/ failedContracts = {}
  <2>1. /\ skipped + ok + fail + Len(todo) = Len(Deployments) /\ skipped \in Nat /\ ok \in Nat
        /\ skipped = Cardinality((Admin!Contracts \ Admin!Checked) \ Elements(todo))
        /\ fail = Cardinality(failedContracts) /\ failedContracts \subseteq Admin!Contracts
    BY <1>2, <1>5, AdminFacts DEF AdminInv, AdminVerdicts
  <2>2. fail \in Nat
    BY <2>1, AdminFacts, FS_Subset, FS_CardinalityType
  <2>3. (Admin!Contracts \ Admin!Checked) \ Elements(todo) = Admin!Contracts \ Admin!Checked
    BY <1>2, <1>5
  <2>4. skipped + ok + fail = Len(Deployments)
    BY <1>2, <1>5, <2>1, <2>2
  <2> QED
    BY <1>5, <2>1, <2>3, <2>4 DEF AdminInv, AdminEnd
<1>6. Admin!PassedHadDao
  BY <1>3 DEF Admin!PassedHadDao
<1>7. Admin!SteadyIsExact
  BY <1>4 DEF Admin!SteadyIsExact
<1>8. Admin!ReportAgrees
  <2>1. \A S : Admin!Cardinality(S) = Cardinality(S)
    BY DEF Admin!Cardinality, Cardinality
  <2> QED
    BY <1>5, <2>1 DEF Admin!ReportAgrees
<1> QED
  BY <1>1, <1>6, <1>7, <1>8

-----------------------------------------------------------------------------
(* The version check                                                       *)

VersionList == DeployedList \o GetterList

\* The versions read are those of the contracts they are given to, and of a contract
\* behind a getter only if the getter was read.
VersionReads ==
  /\ address \in [Version!Contracts -> VersionAddresses \cup {NoAddress}]
  /\ \A c \in Version!Deployed : address[c] # NoAddress
  /\ actual \in [VersionAddresses -> Versions]
  /\ found \in [Version!Getters -> VersionAddresses \cup {NoAddress}]
  /\ \A g \in Version!Getters : found[g] \in {address[g], NoAddress}
  /\ onChain \in [Version!Contracts -> Versions \cup {NoVersion}]
  /\ pc \in {"start", "prefetch", "versions"} => \A c \in Version!Contracts : onChain[c] = NoVersion
  /\ \A c \in Version!Contracts : onChain[c] # NoVersion =>
       /\ c \in Version!Getters => found[c] # NoAddress
       /\ address[c] # NoAddress /\ onChain[c] \in {actual[address[c]], "legacy"}

\* The list of the contracts without a verdict
VersionTodo ==
  /\ mode \in Version!Modes /\ exit \in {0, 1, 2}
  /\ pc \in {"start", "prefetch", "versions", "verdicts", "done"}
  /\ todo \in Seq(Version!Contracts) /\ Distinct(todo)
  /\ pc \in {"start", "prefetch", "versions"} => todo = VersionList
  /\ pc = "done" /\ exit # 2 => todo = <<>>

\* The verdicts so far
VersionVerdicts ==
  /\ ok \in Nat /\ fail \in Nat /\ failedContracts \subseteq Version!Contracts
  /\ mode # "dry_run" => ok + fail + Len(todo) = Cardinality(Version!Contracts)
  /\ \A c \in failedContracts : c \notin Elements(todo) /\ onChain[c] # Expected[c]
  /\ \A c \in Version!Contracts \ Elements(todo) :
       /\ fail = 0 /\ mode # "dry_run" => onChain[c] = Expected[c]
       /\ onChain[c] \notin {NoVersion, Expected[c]} => c \in failedContracts

VersionEnd ==
  pc = "done" /\ mode # "dry_run" /\ ((exit = 0 /\ mode = "check") \/ ~hasFailure)
    => fail = 0 /\ exit # 2

VersionInv == VersionReads /\ VersionTodo /\ VersionVerdicts /\ VersionEnd

\* Two lists, one after the other
LEMMA Joined ==
  ASSUME NEW S, NEW T, NEW s \in Seq(S), NEW t \in Seq(T)
  PROVE  /\ Len(s \o t) = Len(s) + Len(t) /\ Len(s) \in Nat /\ Len(t) \in Nat
         /\ DOMAIN (s \o t) = 1 .. (Len(s) + Len(t))
         /\ \A i \in 1 .. Len(s) : (s \o t)[i] = s[i]
         /\ \A i \in 1 .. Len(t) : (s \o t)[Len(s) + i] = t[i]
<1>1. s \in Seq(S \cup T) /\ t \in Seq(S \cup T)
  OBVIOUS
<1>2. Len(s) \in Nat /\ Len(t) \in Nat
  OBVIOUS
<1>3. Len(s \o t) = Len(s) + Len(t) /\ DOMAIN (s \o t) = 1 .. (Len(s) + Len(t))
  BY <1>1
<1>4. \A i \in 1 .. Len(s) : i \in 1 .. (Len(s) + Len(t)) /\ (s \o t)[i] = s[i]
  BY <1>1, <1>2
<1>5. ASSUME NEW i \in 1 .. Len(t) PROVE (s \o t)[Len(s) + i] = t[i]
  <2>1. Len(s) + i \in 1 .. (Len(s) + Len(t)) /\ ~(Len(s) + i <= Len(s)) /\ (Len(s) + i) - Len(s) = i
    BY <1>2
  <2> QED
    BY <1>1, <2>1
<1> QED
  BY <1>2, <1>3, <1>4, <1>5

\* What is known of the contracts
LEMMA VersionFacts ==
  /\ DeployedList \in Seq(Version!Deployed) /\ GetterList \in Seq(Version!Getters)
  /\ Elements(DeployedList) = Version!Deployed /\ Elements(GetterList) = Version!Getters
  /\ Version!Deployed \cap Version!Getters = {}
  /\ VersionList \in Seq(Version!Contracts) /\ Distinct(VersionList)
  /\ Elements(VersionList) = Version!Contracts /\ Len(VersionList) = Cardinality(Version!Contracts)
  /\ Expected \in [Version!Contracts -> Versions \ {"legacy"}] /\ NoAddress \notin VersionAddresses
  /\ "legacy" \in Versions /\ NoVersion \notin Versions
<1>1. /\ DeployedList \in Seq(Version!Deployed) /\ GetterList \in Seq(Version!Getters)
      /\ Elements(DeployedList) = Version!Deployed /\ Elements(GetterList) = Version!Getters
  BY ChecksAssumption DEF Version!VersionAssumption, Version!Deployed, Version!Getters, Version!Range, Elements
<1>2. Distinct(VersionList)
  BY ChecksAssumption DEF Version!VersionAssumption, Version!IsInjective, VersionList, Distinct
<1>3. VersionList \in Seq(Version!Contracts)
  BY <1>1 DEF Version!Contracts, VersionList
<1>4. /\ Len(VersionList) = Len(DeployedList) + Len(GetterList)
      /\ Len(DeployedList) \in Nat /\ Len(GetterList) \in Nat
      /\ \A i \in 1 .. Len(DeployedList) : VersionList[i] = DeployedList[i]
      /\ \A i \in 1 .. Len(GetterList) : VersionList[Len(DeployedList) + i] = GetterList[i]
  BY <1>1, Joined DEF VersionList, Version!Contracts
<1>5. /\ DOMAIN VersionList = 1 .. (Len(DeployedList) + Len(GetterList))
      /\ DOMAIN DeployedList = 1 .. Len(DeployedList) /\ DOMAIN GetterList = 1 .. Len(GetterList)
  BY <1>1, <1>3, <1>4
<1>6. Version!Contracts \subseteq Elements(VersionList)
  <2>1. ASSUME NEW i \in 1 .. Len(DeployedList) PROVE DeployedList[i] \in Elements(VersionList)
    <3>1. i \in DOMAIN VersionList
      BY <1>4, <1>5
    <3> QED
      BY <1>4, <3>1 DEF Elements
  <2>2. ASSUME NEW i \in 1 .. Len(GetterList) PROVE GetterList[i] \in Elements(VersionList)
    <3>1. Len(DeployedList) + i \in DOMAIN VersionList
      BY <1>4, <1>5
    <3> QED
      BY <1>4, <3>1 DEF Elements
  <2> QED
    BY <1>1, <1>5, <2>1, <2>2 DEF Version!Contracts, Elements
<1>7. Elements(VersionList) = Version!Contracts
  BY <1>3, <1>6 DEF Elements
<1>8. Version!Deployed \cap Version!Getters = {}
  <2> SUFFICES ASSUME NEW i \in 1 .. Len(DeployedList), NEW j \in 1 .. Len(GetterList),
                      DeployedList[i] = GetterList[j]
               PROVE  FALSE
    BY <1>1, <1>5 DEF Elements
  <2>1. i \in DOMAIN VersionList /\ Len(DeployedList) + j \in DOMAIN VersionList /\ i # Len(DeployedList) + j
    BY <1>4, <1>5
  <2>2. VersionList[i] = VersionList[Len(DeployedList) + j]
    BY <1>4
  <2> QED
    BY <1>2, <2>1, <2>2 DEF Distinct
<1>9. Len(VersionList) = Cardinality(Version!Contracts)
  BY <1>2, <1>3, <1>7, DistinctLength
<1> QED
  BY <1>1, <1>2, <1>3, <1>7, <1>8, <1>9, ChecksAssumption DEF Version!VersionAssumption

\* Induction, with the numbers it holds for as a set
LEMMA Induction ==
  ASSUME NEW F, 0 \in F, \A n \in F \cap Nat : n + 1 \in F
  PROVE  Nat \subseteq F
<1> DEFINE Bad == Nat \ F
<1> SUFFICES ASSUME Bad # {} PROVE FALSE
  OBVIOUS
<1>1. PICK n \in Bad : \A k \in Bad : <<k, n>> \notin OpToRel(<, Nat)
  <2>1. Bad \subseteq Nat
    OBVIOUS
  <2> HIDE DEF Bad
  <2> QED
    BY <2>1, NatLessThanWellFounded, WFMin
<1>2. \A k \in Bad : ~(k < n)
  BY <1>1 DEF OpToRel
<1>3. n \in Nat /\ n # 0 /\ n - 1 \in Nat /\ n - 1 < n /\ (n - 1) + 1 = n
  OBVIOUS
<1>4. n - 1 \in F
  BY <1>2, <1>3
<1> QED
  BY <1>3, <1>4

\* ReachedOf is what its definition says it is.
LEMMA ReachedStep ==
  \A n \in 0 .. Len(GetterList) : Version!ReachedOf[n] =
    IF n = 0 THEN <<>>
    ELSE IF found[GetterList[n]] = NoAddress THEN Version!ReachedOf[n - 1]
    ELSE Append(Version!ReachedOf[n - 1], GetterList[n])
<1> DEFINE N == Len(GetterList)
           next(f, n) == IF n = 0 THEN <<>>
                         ELSE IF found[GetterList[n]] = NoAddress THEN f[n - 1]
                         ELSE Append(f[n - 1], GetterList[n])
           Good(f, m) == f = [n \in 0 .. m |-> next(f, n)]
           F == {m \in Nat : \E f : Good(f, m)}
<1>1. N \in Nat
  BY VersionFacts
<1>2. 0 \in F
  <2> DEFINE f == [n \in {0} |-> <<>>]
  <2>1. 0 .. 0 = {0}
    OBVIOUS
  <2>2. Good(f, 0)
    BY <2>1
  <2> QED
    BY <2>2
<1>3. ASSUME NEW m \in F PROVE m + 1 \in F
  <2>1. m \in Nat
    OBVIOUS
  <2>2. PICK f : Good(f, m)
    OBVIOUS
  <2> DEFINE g == [n \in 0 .. (m + 1) |-> IF n = m + 1 THEN next(f, n) ELSE f[n]]
  <2>3. ASSUME NEW n \in 0 .. (m + 1) PROVE g[n] = next(g, n)
    <3>1. n # 0 => n - 1 \in 0 .. m /\ n - 1 # m + 1 /\ n - 1 \in 0 .. (m + 1)
      BY <2>1
    <3>2. next(g, n) = next(f, n)
      BY <3>1
    <3>3. CASE n = m + 1
      BY <3>2, <3>3
    <3>4. CASE n # m + 1
      <4>1. n \in 0 .. m
        BY <2>1, <3>4
      <4>2. g[n] = f[n]
        BY <3>4
      <4>3. f[n] = next(f, n)
        <5> HIDE DEF next
        <5> QED
          BY <2>2, <4>1
      <4> QED
        BY <3>2, <4>2, <4>3
    <3> QED
      BY <3>3, <3>4
  <2>4. Good(g, m + 1)
    <3> HIDE DEF next
    <3> QED
      BY <2>3
  <2> HIDE DEF g, Good
  <2> QED
    BY <2>1, <2>4
<1>4. PICK f : Good(f, N)
  <2>1. N \in F
    <3> HIDE DEF F, N
    <3> QED
      BY <1>1, <1>2, <1>3, Induction
  <2> HIDE DEF Good, N
  <2> QED
    BY <2>1
<1>5. Version!ReachedOf = CHOOSE h : Good(h, N)
  BY DEF Version!ReachedOf
<1>6. Good(Version!ReachedOf, N)
  <2> HIDE DEF Good, N
  <2> QED
    BY <1>4, <1>5
<1>7. \A n \in 0 .. N : Version!ReachedOf[n] = next(Version!ReachedOf, n)
  <2> HIDE DEF next, N
  <2> QED
    BY <1>6
<1> QED
  BY <1>7

\* Putting one more at the end
LEMMA AppendElements ==
  ASSUME NEW S, NEW s \in Seq(S), NEW g \in S
  PROVE  Append(s, g) \in Seq(S) /\ Elements(Append(s, g)) = Elements(s) \cup {g}
<1>1. /\ Append(s, g) \in Seq(S) /\ Len(s) \in Nat /\ DOMAIN s = 1 .. Len(s)
      /\ DOMAIN Append(s, g) = 1 .. (Len(s) + 1)
      /\ \A i \in 1 .. Len(s) : Append(s, g)[i] = s[i]
      /\ Append(s, g)[Len(s) + 1] = g
  OBVIOUS
<1>2. 1 .. (Len(s) + 1) = (1 .. Len(s)) \cup {Len(s) + 1}
  BY <1>1
<1> QED
  BY <1>1, <1>2 DEF Elements

\* The getters reached are those that were read.
LEMMA ReachedFacts ==
  /\ Version!Reached \in Seq(Version!Getters)
  /\ Elements(Version!Reached) = {g \in Version!Getters : found[g] # NoAddress}
<1> DEFINE N == Len(GetterList)
           of(n) == {GetterList[i] : i \in {j \in 1 .. n : found[GetterList[j]] # NoAddress}}
           F == {n \in Nat : n <= N =>
                   Version!ReachedOf[n] \in Seq(Version!Getters) /\ Elements(Version!ReachedOf[n]) = of(n)}
<1>1. N \in Nat /\ DOMAIN GetterList = 1 .. N /\ GetterList \in Seq(Version!Getters)
      /\ Elements(GetterList) = Version!Getters
  BY VersionFacts
<1>2. 0 \in F
  <2>1. Version!ReachedOf[0] = <<>>
    BY <1>1, ReachedStep
  <2>2. <<>> \in Seq(Version!Getters) /\ Elements(<<>>) = {} /\ of(0) = {}
    BY DEF Elements
  <2> HIDE DEF of
  <2> QED
    BY <2>1, <2>2
<1>3. ASSUME NEW n \in F PROVE n + 1 \in F
  <2>1. n \in Nat /\ (n + 1) - 1 = n /\ n + 1 # 0
    OBVIOUS
  <2> SUFFICES ASSUME n + 1 <= N
               PROVE  /\ Version!ReachedOf[n + 1] \in Seq(Version!Getters)
                      /\ Elements(Version!ReachedOf[n + 1]) = of(n + 1)
    BY <2>1
  <2>2. Version!ReachedOf[n] \in Seq(Version!Getters) /\ Elements(Version!ReachedOf[n]) = of(n)
    BY <1>1, <2>1
  <2>3. n + 1 \in 0 .. N /\ n + 1 \in 1 .. N /\ GetterList[n + 1] \in Version!Getters
    BY <1>1, <2>1
  <2>4. Version!ReachedOf[n + 1] =
          IF found[GetterList[n + 1]] = NoAddress THEN Version!ReachedOf[n]
          ELSE Append(Version!ReachedOf[n], GetterList[n + 1])
    BY <2>1, <2>3, ReachedStep
  <2>5. 1 .. (n + 1) = (1 .. n) \cup {n + 1}
    BY <2>1
  <2>6. CASE found[GetterList[n + 1]] = NoAddress
    <3>1. of(n + 1) = of(n)
      BY <2>5, <2>6
    <3> HIDE DEF of
    <3> QED
      BY <2>2, <2>4, <2>6, <3>1
  <2>7. CASE found[GetterList[n + 1]] # NoAddress
    <3>1. of(n + 1) = of(n) \cup {GetterList[n + 1]}
      BY <2>5, <2>7
    <3>2. \A s \in Seq(Version!Getters), g \in Version!Getters :
            Append(s, g) \in Seq(Version!Getters) /\ Elements(Append(s, g)) = Elements(s) \cup {g}
      BY AppendElements
    <3> HIDE DEF of
    <3> QED
      BY <2>2, <2>3, <2>4, <2>7, <3>1, <3>2
  <2> QED
    BY <2>6, <2>7
<1>4. N \in F
  <2> HIDE DEF F, N
  <2> QED
    BY <1>1, <1>2, <1>3, Induction
<1>5. Version!Reached \in Seq(Version!Getters) /\ Elements(Version!Reached) = of(N)
  BY <1>1, <1>4 DEF Version!Reached
<1>6. of(N) = {g \in Version!Getters : found[g] # NoAddress}
  BY <1>1 DEF Elements
<1> QED
  BY <1>5, <1>6

\* The answer at a contract's position is the one for its address.
LEMMA OwnPosition ==
  ASSUME VersionReads, NEW c \in Version!Contracts,
         c \in Version!Deployed \/ found[c] # NoAddress,
         Version!Position(c) \in DOMAIN Version!Asked
  PROVE  address[c] \in VersionAddresses /\ Version!Asked[Version!Position(c)] = address[c]
<1> DEFINE s == [i \in DOMAIN DeployedList |-> address[DeployedList[i]]]
           t == [i \in DOMAIN Version!Reached |-> found[Version!Reached[i]]]
<1>1. /\ \A g \in Version!Getters : found[g] # NoAddress => found[g] = address[g] /\ address[g] \in VersionAddresses
      /\ \A d \in Version!Deployed : address[d] \in VersionAddresses
  BY DEF VersionReads, Version!Contracts
<1>2. /\ DOMAIN DeployedList = 1 .. Len(DeployedList) /\ Len(DeployedList) \in Nat
      /\ \A i \in DOMAIN DeployedList : DeployedList[i] \in Version!Deployed
  BY VersionFacts
<1>3. /\ DOMAIN Version!Reached = 1 .. Len(Version!Reached) /\ Len(Version!Reached) \in Nat
      /\ \A i \in DOMAIN Version!Reached :
           Version!Reached[i] \in Version!Getters /\ found[Version!Reached[i]] # NoAddress
  BY ReachedFacts DEF Elements
<1>4. s \in Seq(VersionAddresses) /\ Len(s) = Len(DeployedList)
  BY <1>1, <1>2
<1>5. t \in Seq(VersionAddresses) /\ Len(t) = Len(Version!Reached)
  BY <1>1, <1>3
<1>6. /\ \A i \in DOMAIN DeployedList : Version!Asked[i] = address[DeployedList[i]]
      /\ \A i \in DOMAIN Version!Reached : Version!Asked[Len(DeployedList) + i] = address[Version!Reached[i]]
  <2>1. Version!Asked = s \o t
    BY DEF Version!Asked
  <2>2. /\ \A i \in DOMAIN DeployedList : s[i] = address[DeployedList[i]]
        /\ \A i \in DOMAIN Version!Reached : t[i] = address[Version!Reached[i]]
    BY <1>1, <1>3
  <2> HIDE DEF s, t
  <2> QED
    BY <1>2, <1>3, <1>4, <1>5, <2>1, <2>2, Joined
<1>7. CASE c \in Version!Deployed
  <2>1. \E i \in DOMAIN DeployedList : DeployedList[i] = c
    BY <1>7, VersionFacts DEF Elements
  <2>2. Version!Position(c) \in DOMAIN DeployedList /\ DeployedList[Version!Position(c)] = c
    BY <1>7, <2>1 DEF Version!Position
  <2> QED
    BY <1>1, <1>6, <1>7, <2>2
<1>8. CASE c \notin Version!Deployed
  <2>1. c \in Version!Getters /\ found[c] # NoAddress
    BY <1>8 DEF Version!Contracts
  <2>2. \E i \in DOMAIN Version!Reached : Version!Reached[i] = c
    BY <2>1, ReachedFacts DEF Elements
  <2>3. PICK i \in DOMAIN Version!Reached :
          Version!Reached[i] = c /\ Version!Position(c) = Len(DeployedList) + i
    BY <1>8, <2>2 DEF Version!Position
  <2> QED
    BY <1>1, <1>6, <2>1, <2>3
<1> QED
  BY <1>7, <1>8

\* Before the check starts
LEMMA VersionInit == Version!Init => VersionInv
<1> SUFFICES ASSUME Version!Init PROVE VersionInv
  OBVIOUS
<1>1. VersionReads
  BY DEF Version!Init, VersionReads, Version!Contracts
<1>2. VersionTodo
  BY VersionFacts DEF Version!Init, VersionTodo, VersionList
<1>3. VersionVerdicts
  <2>1. Version!Contracts \ Elements(todo) = {} /\ Len(todo) = Cardinality(Version!Contracts)
    BY VersionFacts DEF Version!Init, VersionList
  <2>2. Len(todo) \in Nat
    BY <1>2 DEF VersionTodo
  <2> QED
    BY <2>1, <2>2 DEF Version!Init, VersionVerdicts
<1>4. VersionEnd
  BY DEF Version!Init, VersionEnd
<1> QED
  BY <1>1, <1>2, <1>3, <1>4 DEF VersionInv

\* Starting, or not, reads nothing.
LEMMA VersionStart ==
  ASSUME VersionInv, Version!Stop \/ Version!DryRun \/ Version!Start
  PROVE  VersionInv'
<1>1. /\ pc = "start" /\ todo = VersionList
      /\ UNCHANGED <<address, actual, found, onChain, ok, fail, failedContracts, mode>>
      /\ pc' \in {"done", "prefetch"} /\ exit' \in {0, 1, 2}
  BY DEF Version!Stop, Version!DryRun, Version!Start, Version!chain, Version!report, Version!result,
         VersionInv, VersionTodo
<1>2. VersionReads'
  BY <1>1 DEF VersionInv, VersionReads
<1>3. CASE Version!DryRun
  <2>1. todo' = <<>> /\ mode = "dry_run" /\ pc' = "done"
    BY <1>3 DEF Version!DryRun
  <2>2. VersionTodo'
    BY <1>1, <2>1 DEF VersionInv, VersionTodo, Distinct
  <2>3. Elements(todo') = {} /\ failedContracts = {} /\ \A c \in Version!Contracts : onChain[c] = NoVersion
    BY <1>1, <2>1, VersionFacts DEF Elements, VersionInv, VersionVerdicts, VersionReads
  <2>4. VersionVerdicts'
    BY <1>1, <2>1, <2>3 DEF VersionInv, VersionVerdicts
  <2>5. VersionEnd'
    BY <1>1, <2>1 DEF VersionEnd
  <2> QED
    BY <1>2, <2>2, <2>4, <2>5 DEF VersionInv
<1>4. CASE Version!Stop \/ Version!Start
  <2>1. todo' = todo /\ (pc' = "done" => exit' = 2 /\ hasFailure')
    BY <1>4 DEF Version!Stop, Version!Start, Version!write_json_report
  <2>2. VersionTodo' /\ VersionVerdicts'
    BY <1>1, <2>1 DEF VersionInv, VersionTodo, VersionVerdicts, Distinct, Elements
  <2>3. VersionEnd'
    BY <2>1 DEF VersionEnd
  <2> QED
    BY <1>2, <2>2, <2>3 DEF VersionInv
<1> QED
  BY <1>3, <1>4

\* The getters and the versions that are read
LEMMA VersionRead ==
  ASSUME VersionInv, Version!Prefetch \/ Version!GetVersions
  PROVE  VersionInv'
<1>1. /\ pc \in {"prefetch", "versions"} /\ todo = VersionList /\ pc' \in {"versions", "verdicts"}
      /\ UNCHANGED <<address, actual, todo, ok, fail, failedContracts, mode, exit>>
  BY DEF Version!Prefetch, Version!GetVersions, Version!chain, Version!report, Version!result,
         VersionInv, VersionTodo
<1>2. VersionTodo' /\ VersionEnd'
  BY <1>1 DEF VersionInv, VersionTodo, VersionEnd, Distinct
<1>3. VersionVerdicts'
  <2>1. Version!Contracts \ Elements(todo') = {} /\ failedContracts' = {}
    BY <1>1, VersionFacts DEF VersionInv, VersionVerdicts, Elements
  <2> QED
    BY <1>1, <2>1 DEF VersionInv, VersionVerdicts
<1>4. VersionReads'
  <2>1. CASE Version!Prefetch
    <3>1. PICK answered \in SUBSET Version!Getters :
            found' = [g \in Version!Getters |-> IF g \in answered THEN address[g] ELSE NoAddress]
      BY <2>1 DEF Version!Prefetch
    <3>2. onChain' = onChain
      BY <2>1 DEF Version!Prefetch
    <3>3. \A c \in Version!Contracts : onChain[c] = NoVersion
      BY <1>1 DEF VersionInv, VersionReads
    <3>4. \A g \in Version!Getters : address[g] \in VersionAddresses \cup {NoAddress}
      BY DEF VersionInv, VersionReads, Version!Contracts
    <3>5. /\ found' \in [Version!Getters -> VersionAddresses \cup {NoAddress}]
          /\ \A g \in Version!Getters : found'[g] \in {address[g], NoAddress}
      BY <3>1, <3>4
    <3> QED
      BY <1>1, <3>2, <3>3, <3>5 DEF VersionInv, VersionReads
  <2>2. CASE Version!GetVersions
    <3>1. found' = found /\ pc' = "verdicts"
      BY <2>2 DEF Version!GetVersions
    <3>2. CASE onChain' = [c \in Version!Contracts |-> NoVersion]
      BY <1>1, <3>1, <3>2 DEF VersionInv, VersionReads
    <3>3. CASE \E broken \in SUBSET DOMAIN Version!Asked :
            onChain' = [c \in Version!Contracts |->
                IF (c \in Version!Deployed \/ found[c] # NoAddress) /\ Version!Position(c) \in DOMAIN Version!Asked
                THEN Version!decoded(broken)[Version!Position(c)] ELSE NoVersion]
      <4>1. PICK broken \in SUBSET DOMAIN Version!Asked :
              onChain' = [c \in Version!Contracts |->
                IF (c \in Version!Deployed \/ found[c] # NoAddress) /\ Version!Position(c) \in DOMAIN Version!Asked
                THEN Version!decoded(broken)[Version!Position(c)] ELSE NoVersion]
        BY <3>3
      <4>2. ASSUME NEW c \in Version!Contracts
            PROVE  \/ onChain'[c] = NoVersion
                   \/ /\ c \in Version!Deployed \/ found[c] # NoAddress
                      /\ address[c] \in VersionAddresses /\ onChain'[c] \in {actual[address[c]], "legacy"}
        <5>1. CASE (c \in Version!Deployed \/ found[c] # NoAddress) /\ Version!Position(c) \in DOMAIN Version!Asked
          <6>1. address[c] \in VersionAddresses /\ Version!Asked[Version!Position(c)] = address[c]
            BY <5>1, OwnPosition DEF VersionInv
          <6>2. Version!decoded(broken)[Version!Position(c)] \in {actual[address[c]], "legacy"}
            BY <5>1, <6>1 DEF Version!decoded
          <6> QED
            BY <4>1, <5>1, <6>1, <6>2
        <5>2. CASE ~((c \in Version!Deployed \/ found[c] # NoAddress) /\ Version!Position(c) \in DOMAIN Version!Asked)
          BY <4>1, <5>2
        <5> QED
          BY <5>1, <5>2
      <4>3. onChain' \in [Version!Contracts -> Versions \cup {NoVersion}]
        <5>1. \A a \in VersionAddresses : actual[a] \in Versions
          BY DEF VersionInv, VersionReads
        <5>2. \A c \in Version!Contracts : onChain'[c] \in Versions \cup {NoVersion}
          BY <4>2, <5>1, VersionFacts
        <5>3. DOMAIN onChain' = Version!Contracts /\ onChain' = [c \in DOMAIN onChain' |-> onChain'[c]]
          BY <4>1
        <5> QED
          BY <5>2, <5>3
      <4>4. \A c \in Version!Contracts : onChain'[c] # NoVersion =>
              /\ c \in Version!Getters => found[c] # NoAddress
              /\ address[c] # NoAddress /\ onChain'[c] \in {actual[address[c]], "legacy"}
        BY <4>2, VersionFacts
      <4> QED
        BY <1>1, <3>1, <4>3, <4>4 DEF VersionInv, VersionReads
    <3> QED
      BY <2>2, <3>2, <3>3 DEF Version!GetVersions
  <2> QED
    BY <2>1, <2>2
<1> QED
  BY <1>2, <1>3, <1>4 DEF VersionInv

\* A verdict counts one contract, as up to date exactly if its version was read and is.
LEMMA VersionVerdict ==
  ASSUME VersionInv, Version!Verdict
  PROVE  VersionInv'
<1> DEFINE x == Version!Current
           rest == Elements(todo')
           good == onChain[x] = Expected[x]
<1>1. /\ pc = "verdicts" /\ pc' = pc /\ todo # <<>> /\ todo' = Tail(todo)
      /\ UNCHANGED <<address, actual, found, onChain, mode, hasFailure, exit>>
  BY DEF Version!Verdict, Version!Take, Version!chain, Version!result
<1>2. /\ x \in Version!Contracts /\ todo' \in Seq(Version!Contracts) /\ Distinct(todo')
      /\ Len(todo') = Len(todo) - 1 /\ Len(todo) \in Nat
      /\ x \in Elements(todo) /\ x \notin rest /\ Elements(todo) = rest \cup {x}
  BY <1>1, TakeFirst DEF VersionInv, VersionTodo, Version!Current
<1>3. VersionReads' /\ VersionTodo' /\ VersionEnd'
  BY <1>1, <1>2 DEF VersionInv, VersionReads, VersionTodo, VersionEnd
<1>4. /\ ok \in Nat /\ fail \in Nat
      /\ ok' = ok + (IF good THEN 1 ELSE 0) /\ fail' = fail + (IF good THEN 0 ELSE 1)
      /\ failedContracts' = failedContracts \cup (IF good \/ Version!NoAddressRead THEN {} ELSE {x})
  BY DEF VersionInv, VersionVerdicts, Version!Verdict, Version!Count
<1>5. ok' \in Nat /\ fail' \in Nat /\ ok' + fail' = ok + fail + 1 /\ (fail' = 0 => fail = 0 /\ good)
  BY <1>4
<1>6. Version!NoAddressRead => onChain[x] = NoVersion
  BY <1>2 DEF Version!NoAddressRead, VersionInv, VersionReads
<1>7. mode' # "dry_run" => ok' + fail' + Len(todo') = Cardinality(Version!Contracts)
  BY <1>1, <1>2, <1>4, <1>5 DEF VersionInv, VersionVerdicts
<1>8. /\ failedContracts' \subseteq Version!Contracts
      /\ \A c \in failedContracts' : c \notin rest /\ onChain'[c] # Expected[c]
  <2> HIDE DEF rest
  <2> QED
    BY <1>1, <1>2, <1>4 DEF VersionInv, VersionVerdicts
<1>9. ASSUME NEW c \in Version!Contracts \ rest
      PROVE  /\ fail' = 0 /\ mode' # "dry_run" => onChain'[c] = Expected[c]
             /\ onChain'[c] \notin {NoVersion, Expected[c]} => c \in failedContracts'
  <2>1. CASE c = x
    BY <1>1, <1>4, <1>5, <1>6, <2>1
  <2>2. CASE c # x
    <3>1. c \in Version!Contracts \ Elements(todo)
      BY <1>2, <2>2
    <3> QED
      BY <1>1, <1>4, <1>5, <3>1 DEF VersionInv, VersionVerdicts
  <2> QED
    BY <2>1, <2>2
<1>10. VersionVerdicts'
  BY <1>5, <1>7, <1>8, <1>9 DEF VersionVerdicts
<1> QED
  BY <1>3, <1>10 DEF VersionInv

\* The report and the exit code follow the number of failures.
LEMMA VersionFinish ==
  ASSUME VersionInv, Version!Finish
  PROVE  VersionInv'
<1>1. /\ pc = "verdicts" /\ todo = <<>> /\ pc' = "done"
      /\ exit' = IF fail > 0 /\ mode # "no_fail" THEN 1 ELSE 0
      /\ hasFailure' <=> fail > 0
      /\ UNCHANGED <<address, actual, found, onChain, todo, ok, fail, failedContracts, mode>>
  BY DEF Version!Finish, Version!write_json_report, Version!chain, Version!report
<1>2. VersionReads' /\ VersionTodo' /\ VersionVerdicts'
  BY <1>1 DEF VersionInv, VersionReads, VersionTodo, VersionVerdicts, Distinct, Elements
<1>3. VersionEnd'
  <2>1. fail \in Nat /\ exit' \in {0, 1} /\ fail' = fail /\ mode' = mode
    BY <1>1 DEF VersionInv, VersionVerdicts
  <2>2. exit' = 0 /\ mode = "check" => fail = 0
    BY <1>1, <2>1
  <2>3. ~hasFailure' => fail = 0
    <3>1. fail > 0 \/ fail = 0
      BY <2>1
    <3> QED
      BY <1>1, <3>1
  <2> QED
    BY <2>1, <2>2, <2>3 DEF VersionEnd
<1> QED
  BY <1>2, <1>3 DEF VersionInv

\* Every step of the version check keeps what is known of it.
LEMMA VersionNext ==
  ASSUME VersionInv, Version!Next
  PROVE  VersionInv'
BY VersionStart, VersionRead, VersionVerdict, VersionFinish DEF Version!Next

\* What the version check says
LEMMA VersionSays ==
  ASSUME VersionInv
  PROVE  /\ Version!TypeOK /\ Version!VersionsOfOwnAddress
         /\ Version!CleanMeansCurrent /\ Version!OutdatedListed
<1>1. Version!TypeOK
  <2>1. \A S : Version!Cardinality(S) = Cardinality(S)
    BY DEF Version!Cardinality, Cardinality
  <2> QED
    BY <2>1 DEF VersionInv, VersionReads, VersionTodo, VersionVerdicts, Version!TypeOK
<1>2. Version!VersionsOfOwnAddress
  BY DEF VersionInv, VersionReads, Version!VersionsOfOwnAddress
<1>3. ASSUME pc = "done", exit # 2 PROVE Elements(todo) = {}
  BY <1>3 DEF VersionInv, VersionTodo, Elements
<1>4. Version!CleanMeansCurrent
  <2> SUFFICES ASSUME pc = "done", mode # "dry_run", (exit = 0 /\ mode = "check") \/ ~hasFailure,
                      NEW c \in Version!Contracts
               PROVE  address[c] # NoAddress /\ actual[address[c]] = Expected[c]
    BY DEF Version!CleanMeansCurrent
  <2>1. fail = 0 /\ exit # 2
    BY DEF VersionInv, VersionEnd
  <2>2. onChain[c] = Expected[c]
    BY <1>3, <2>1 DEF VersionInv, VersionVerdicts
  <2>3. Expected[c] # NoVersion /\ Expected[c] # "legacy"
    BY VersionFacts
  <2> QED
    BY <2>2, <2>3 DEF VersionInv, VersionReads
<1>5. Version!OutdatedListed
  BY <1>3 DEF VersionInv, VersionVerdicts, Version!OutdatedListed
<1> QED
  BY <1>1, <1>2, <1>4, <1>5

-----------------------------------------------------------------------------
(* The check of ages                                                       *)

AllScripts == Freshness!Range(Scripts)

FreshTypes ==
  /\ clock \in 1 .. MaxTime /\ minedAt \in [BroadcastAddresses -> 0 .. MaxTime]
  /\ file \in [Freshness!Contracts -> BroadcastAddresses \cup {NoAddress}]
  /\ runLatest \in [AllScripts -> Seq([creates : SUBSET BroadcastAddresses, block : 0 .. MaxTime])]
  /\ pc \in {"idle", "blocks", "ages", "code", "done"} /\ now \in Nat
  /\ entries \subseteq Freshness!Contracts /\ \A c \in entries : file[c] # NoAddress
  /\ pc = "idle" => entries = {}
  /\ timestamp \in [1 .. MaxTime -> 0 .. MaxTime]
  /\ \A b \in 1 .. MaxTime : timestamp[b] \in {b, NoBlock}

\* What a file says was mined was mined in that block; a run creates an address once.
FreshRuns ==
  \A s \in AllScripts : \A i \in DOMAIN runLatest[s] : \A a \in runLatest[s][i].creates :
    /\ runLatest[s][i].block # NoBlock => minedAt[a] = runLatest[s][i].block
    /\ \A j \in DOMAIN runLatest[s] : a \in runLatest[s][j].creates => j = i

IsDeployed(c) == minedAt[file[c]] # NoBlock
IsYoung(c) == now <= minedAt[file[c]] + MaxAge

\* What passed so far passed for a reason;
FreshPassed ==
  /\ ok \subseteq Freshness!InBroadcast /\ \A c \in ok : IsYoung(c)
  /\ okCodeOnly \subseteq entries \ Freshness!InBroadcast /\ \A c \in okCodeOnly : IsDeployed(c)

\* ... and once every read was answered, what fails, too.
FreshVerdicts ==
  /\ exit \in {0, 1}
  /\ pc \in {"idle", "blocks", "ages"} => ok = {} /\ okCodeOnly = {} /\ fail = {} /\ exit = 0
  /\ pc = "ages" /\ ~readFailed =>
       \A c \in Freshness!InBroadcast : timestamp[Freshness!BlockOf(c)] # NoBlock
  /\ pc = "code" =>
       /\ okCodeOnly = {} /\ exit = 0 /\ ok \cup fail = Freshness!InBroadcast
       /\ ~readFailed => \A c \in fail : ~IsYoung(c)
  /\ pc = "done" /\ entries # {} /\ ~(exit = 1 /\ readFailed) =>
       /\ ok \cup okCodeOnly \cup fail = entries /\ (exit = 1 <=> fail # {})
       /\ ~readFailed => \A c \in fail :
            ~IsDeployed(c) \/ (c \in Freshness!InBroadcast /\ ~IsYoung(c))

FreshInv == FreshTypes /\ FreshRuns /\ FreshPassed /\ FreshVerdicts

\* What is known of the scripts and addresses
LEMMA FreshFacts ==
  /\ NoBlock = 0 /\ MaxAge \in Nat /\ MaxTime \in Nat \ {0} /\ NoAddress \notin BroadcastAddresses
  /\ \A s \in AllScripts : ContractsOf[s] \subseteq Freshness!Contracts
  /\ Scripts \in Seq(AllScripts) /\ AllScripts = {Scripts[i] : i \in DOMAIN Scripts}
BY ChecksAssumption DEF Freshness!FreshnessAssumption, Freshness!Contracts, AllScripts, Freshness!Range

\* Of some scripts, the first one is one of them.
LEMMA FirstIsOne ==
  ASSUME NEW some \in SUBSET AllScripts, some # {}
  PROVE  Freshness!FirstOf(some) \in some
<1> DEFINE positions == {i \in DOMAIN Scripts : Scripts[i] \in some}
<1>1. positions \subseteq Nat /\ positions # {}
  BY FreshFacts
<1>2. PICK n \in positions : \A k \in positions : <<k, n>> \notin OpToRel(<, Nat)
  <2> HIDE DEF positions
  <2> QED
    BY <1>1, NatLessThanWellFounded, WFMin
<1>3. \A k \in positions : n <= k
  <2> SUFFICES ASSUME NEW k \in positions PROVE n <= k
    OBVIOUS
  <2>1. k \in Nat /\ n \in Nat
    BY <1>1
  <2>2. ~(k < n)
    BY <1>2, <2>1 DEF OpToRel
  <2> QED
    BY <2>1, <2>2
<1>4. (CHOOSE i \in positions : \A j \in positions : i <= j) \in positions
  <2> HIDE DEF positions
  <2> QED
    BY <1>3
<1>5. Freshness!FirstOf(some) = Scripts[CHOOSE i \in positions : \A j \in positions : i <= j]
  BY DEF Freshness!FirstOf
<1> QED
  BY <1>4, <1>5

\* A creation that is found stands in a file; if none is found, no file has one.
LEMMA Found ==
  ASSUME NEW a
  PROVE  /\ Freshness!FindDeploy(a) # NoBlock =>
              \E s \in AllScripts : \E i \in DOMAIN runLatest[s] :
                 a \in runLatest[s][i].creates /\ runLatest[s][i].block = Freshness!FindDeploy(a)
         /\ Freshness!FindDeploy(a) = NoBlock =>
              \A s \in AllScripts : Freshness!FindCreation(runLatest[s], a) = NoBlock
<1> DEFINE found1 == {s \in AllScripts : Freshness!FindCreation(runLatest[s], a) # NoBlock}
<1>1. Freshness!FindDeploy(a) =
        IF found1 = {} THEN NoBlock ELSE Freshness!FindCreation(runLatest[Freshness!FirstOf(found1)], a)
  BY DEF Freshness!FindDeploy, AllScripts
<1>2. CASE found1 = {}
  BY <1>1, <1>2
<1>3. CASE found1 # {}
  <2>1. PICK s \in AllScripts : /\ Freshness!FindCreation(runLatest[s], a) # NoBlock
                                /\ Freshness!FindDeploy(a) = Freshness!FindCreation(runLatest[s], a)
    <3>1. Freshness!FirstOf(found1) \in found1
      <4>1. found1 \in SUBSET AllScripts
        OBVIOUS
      <4> HIDE DEF found1
      <4> QED
        BY <1>3, <4>1, FirstIsOne
    <3> QED
      BY <1>1, <1>3, <3>1
  <2>2. \E i \in DOMAIN runLatest[s] :
          a \in runLatest[s][i].creates /\ runLatest[s][i].block = Freshness!FindCreation(runLatest[s], a)
    <3> DEFINE hits == {i \in DOMAIN runLatest[s] : a \in runLatest[s][i].creates}
    <3>1. Freshness!FindCreation(runLatest[s], a) =
            IF hits = {} THEN NoBlock ELSE runLatest[s][CHOOSE i \in hits : TRUE].block
      BY DEF Freshness!FindCreation
    <3>2. hits # {}
      BY <2>1, <3>1
    <3>3. (CHOOSE i \in hits : TRUE) \in hits
      <4> HIDE DEF hits
      <4> QED
        BY <3>2
    <3> QED
      BY <3>1, <3>2, <3>3
  <2> QED
    BY <2>1, <2>2
<1> QED
  BY <1>2, <1>3

\* The block of a contract in the files is the one in which it was created.
LEMMA BlockIsMined ==
  ASSUME FreshTypes, FreshRuns, NEW c \in Freshness!InBroadcast
  PROVE  /\ Freshness!BlockOf(c) = minedAt[file[c]] /\ IsDeployed(c)
         /\ Freshness!BlockOf(c) \in 1 .. MaxTime /\ c \in entries
<1>1. c \in entries /\ Freshness!FindDeploy(file[c]) # NoBlock
  BY DEF Freshness!InBroadcast, Freshness!BlockOf
<1>2. file[c] \in BroadcastAddresses
  BY <1>1 DEF FreshTypes
<1>3. Freshness!FindDeploy(file[c]) = minedAt[file[c]]
  BY <1>1, Found DEF FreshRuns
<1>4. minedAt[file[c]] \in 0 .. MaxTime
  BY <1>2 DEF FreshTypes
<1> QED
  BY <1>1, <1>3, <1>4, FreshFacts DEF Freshness!BlockOf, IsDeployed

\* The contracts of an address that was mined but is not in the files have no run
\* that says so.
LEMMA NotInFiles ==
  ASSUME FreshTypes, FreshRuns, NEW c \in entries \ Freshness!InBroadcast, IsDeployed(c),
         NEW s \in AllScripts, NEW i \in DOMAIN runLatest[s], file[c] \in runLatest[s][i].creates
  PROVE  runLatest[s][i].block # minedAt[file[c]]
<1> DEFINE a == file[c]
           hits == {j \in DOMAIN runLatest[s] : a \in runLatest[s][j].creates}
<1>1. Freshness!FindDeploy(a) = NoBlock
  BY DEF Freshness!InBroadcast, Freshness!BlockOf
<1>2. Freshness!FindCreation(runLatest[s], a) = NoBlock
  BY <1>1, Found
<1>3. Freshness!FindCreation(runLatest[s], a) =
        IF hits = {} THEN NoBlock ELSE runLatest[s][CHOOSE j \in hits : TRUE].block
  BY DEF Freshness!FindCreation
<1>4. hits = {i}
  BY DEF FreshRuns
<1>5. (CHOOSE j \in hits : TRUE) = i
  <2> HIDE DEF hits
  <2> QED
    BY <1>4
<1>6. runLatest[s][i].block = NoBlock
  BY <1>2, <1>3, <1>4, <1>5
<1> QED
  BY <1>6 DEF IsDeployed

\* Before the check starts
LEMMA FreshInit == Freshness!Init => FreshInv
<1> SUFFICES ASSUME Freshness!Init PROVE FreshInv
  OBVIOUS
<1>1. runLatest = [s \in AllScripts |-> <<>>] /\ entries = {} /\ pc = "idle"
  BY DEF Freshness!Init, AllScripts
<1>2. FreshTypes
  <2>1. runLatest \in [AllScripts -> Seq([creates : SUBSET BroadcastAddresses, block : 0 .. MaxTime])]
    BY <1>1
  <2>2. clock = 1 /\ 1 \in 1 .. MaxTime /\ 0 \in 0 .. MaxTime
    BY FreshFacts DEF Freshness!Init
  <2> QED
    BY <1>1, <2>1, <2>2, FreshFacts DEF Freshness!Init, FreshTypes
<1>3. FreshRuns
  BY <1>1 DEF FreshRuns
<1>4. Freshness!InBroadcast = {}
  BY <1>1 DEF Freshness!InBroadcast
<1>5. FreshPassed /\ FreshVerdicts
  BY <1>1, <1>4 DEF Freshness!Init, FreshPassed, FreshVerdicts
<1> QED
  BY <1>2, <1>3, <1>5 DEF FreshInv

\* Transactions of a run, each with the addresses that it creates
Transactions == [creates : SUBSET BroadcastAddresses, mined : BOOLEAN]

\* A run is a list of transactions, of which none creates what another one does.
LEMMA Runs ==
  ASSUME NEW s \in AllScripts, NEW new \in [ContractsOf[s] -> BroadcastAddresses],
         Freshness!IsInjective(new), \A c \in ContractsOf[s] : file'[c] = new[c],
         NEW run \in Freshness!RunOf(s)
  PROVE  /\ run \in Seq(Transactions)
         /\ \A i, j \in DOMAIN run : run[i].creates \cap run[j].creates # {} => i = j
<1> DEFINE K == ContractsOf[s]
           single == {<<Freshness!Transaction({file'[c] : c \in K}, m)>> : m \in BOOLEAN}
           each == {[i \in DOMAIN order |-> Freshness!Transaction({file'[order[i]]}, mined[i])] :
                      order \in Freshness!SetToSeqs(K), mined \in [1 .. Freshness!Cardinality(K) -> BOOLEAN]}
<1>1. IsFiniteSet(K)
  <2>1. Freshness!IsFiniteSet(K)
    BY ChecksAssumption DEF Freshness!FreshnessAssumption, AllScripts
  <2> QED
    BY <2>1 DEF Freshness!IsFiniteSet, IsFiniteSet
<1>2. \A c, d \in K : file'[c] \in BroadcastAddresses /\ (file'[c] = file'[d] => c = d)
  BY DEF Freshness!IsInjective
<1>3. CASE run \in single
  <2>1. PICK m \in BOOLEAN : run = <<[creates |-> {file'[c] : c \in K}, mined |-> m]>>
    BY <1>3 DEF Freshness!Transaction
  <2>2. [creates |-> {file'[c] : c \in K}, mined |-> m] \in Transactions
    BY <1>2 DEF Transactions
  <2>3. run \in Seq(Transactions) /\ DOMAIN run = {1}
    BY <2>1, <2>2
  <2> QED
    BY <2>3
<1>4. CASE run \in each
  <2>1. PICK order \in Freshness!SetToSeqs(K), mined \in [1 .. Freshness!Cardinality(K) -> BOOLEAN] :
          run = [i \in DOMAIN order |-> [creates |-> {file'[order[i]]}, mined |-> mined[i]]]
    BY <1>4 DEF Freshness!Transaction
  <2> DEFINE n == Cardinality(K)
  <2>2. Freshness!Cardinality(K) = n /\ n \in Nat
    <3>1. Freshness!Cardinality(K) = n
      BY DEF Freshness!Cardinality, Cardinality
    <3> QED
      BY <1>1, <3>1, FS_CardinalityType
  <2>3. /\ order \in [1 .. n -> K] /\ \A i, j \in 1 .. n : i # j => order[i] # order[j]
        /\ mined \in [1 .. n -> BOOLEAN] /\ DOMAIN order = 1 .. n
    BY <2>1, <2>2 DEF Freshness!SetToSeqs
  <2> HIDE DEF n, K, single, each
  <2>4. /\ DOMAIN run = 1 .. n
        /\ \A i \in 1 .. n : run[i] = [creates |-> {file'[order[i]]}, mined |-> mined[i]]
    BY <2>1, <2>3
  <2>5. ASSUME NEW i \in 1 .. n PROVE run[i] \in Transactions
    <3>1. order[i] \in K /\ mined[i] \in BOOLEAN
      BY <2>3
    <3>2. {file'[order[i]]} \in SUBSET BroadcastAddresses
      BY <1>2, <3>1
    <3> QED
      BY <2>4, <3>1, <3>2 DEF Transactions
  <2>6. run = [i \in 1 .. n |-> run[i]]
    BY <2>1, <2>3
  <2>7. run \in Seq(Transactions)
    BY <2>2, <2>5, <2>6
  <2>8. ASSUME NEW i \in 1 .. n, NEW j \in 1 .. n, run[i].creates \cap run[j].creates # {} PROVE i = j
    <3>1. file'[order[i]] = file'[order[j]]
      BY <2>4, <2>8
    <3>2. order[i] \in K /\ order[j] \in K
      BY <2>3
    <3> QED
      BY <1>2, <2>3, <3>1, <3>2
  <2> QED
    BY <2>4, <2>7, <2>8
<1>5. Freshness!RunOf(s) = single \cup each
  BY DEF Freshness!RunOf
<1> HIDE DEF single, each
<1> QED
  BY <1>3, <1>4, <1>5

\* A deployment keeps what the files say true: those of before it for what was created
\* before, its own for what is new.
LEMMA FreshDeploy ==
  ASSUME FreshInv, Freshness!Deploy
  PROVE  FreshInv'
<1>1. /\ pc = "idle" /\ pc' = pc /\ entries = {} /\ entries' = {}
      /\ UNCHANGED <<now, timestamp, ok, okCodeOnly, fail, exit, readFailed>>
  BY DEF Freshness!Deploy, Freshness!verdicts, FreshInv, FreshTypes
<1> DEFINE Mines(run, i) == run[i].mined /\ \A a \in run[i].creates : minedAt[a] = NoBlock
           Block(run, i) == IF Mines(run, i) THEN clock + i - 1 ELSE NoBlock
<1>2. PICK s \in AllScripts :
         /\ \E new \in [ContractsOf[s] -> BroadcastAddresses] :
              /\ Freshness!IsInjective(new)
              /\ file' = [c \in Freshness!Contracts |-> IF c \in DOMAIN new THEN new[c] ELSE file[c]]
         /\ \E run \in Freshness!RunOf(s) :
              /\ clock + Len(run) <= MaxTime /\ clock' = clock + Len(run)
              /\ runLatest' = [runLatest EXCEPT ![s] =
                   [i \in DOMAIN run |-> [creates |-> run[i].creates, block |-> Block(run, i)]]]
              /\ minedAt' = [a \in BroadcastAddresses |->
                   IF \E i \in DOMAIN run : a \in run[i].creates /\ Mines(run, i)
                   THEN Block(run, CHOOSE i \in DOMAIN run : a \in run[i].creates)
                   ELSE minedAt[a]]
  BY DEF Freshness!Deploy, AllScripts
<1>3. PICK new \in [ContractsOf[s] -> BroadcastAddresses] :
        /\ Freshness!IsInjective(new)
        /\ file' = [c \in Freshness!Contracts |-> IF c \in DOMAIN new THEN new[c] ELSE file[c]]
  BY <1>2
<1>4. PICK run \in Freshness!RunOf(s) :
        /\ clock + Len(run) <= MaxTime /\ clock' = clock + Len(run)
        /\ runLatest' = [runLatest EXCEPT ![s] =
             [i \in DOMAIN run |-> [creates |-> run[i].creates, block |-> Block(run, i)]]]
        /\ minedAt' = [a \in BroadcastAddresses |->
             IF \E i \in DOMAIN run : a \in run[i].creates /\ Mines(run, i)
             THEN Block(run, CHOOSE i \in DOMAIN run : a \in run[i].creates)
             ELSE minedAt[a]]
  BY <1>2
<1>5. /\ run \in Seq(Transactions) /\ Len(run) \in Nat /\ DOMAIN run = 1 .. Len(run)
      /\ \A i, j \in DOMAIN run : run[i].creates \cap run[j].creates # {} => i = j
      /\ \A i \in DOMAIN run : run[i].creates \subseteq BroadcastAddresses
  <2>1. \A c \in ContractsOf[s] : file'[c] = new[c]
    BY <1>3, FreshFacts
  <2>2. /\ run \in Seq(Transactions)
        /\ \A i, j \in DOMAIN run : run[i].creates \cap run[j].creates # {} => i = j
    BY <1>3, <2>1, Runs
  <2>3. Len(run) \in Nat /\ DOMAIN run = 1 .. Len(run) /\ \A i \in DOMAIN run : run[i] \in Transactions
    BY <2>2
  <2> QED
    BY <2>2, <2>3 DEF Transactions
<1>6. clock \in 1 .. MaxTime /\ MaxTime \in Nat /\ NoBlock = 0
  BY FreshFacts DEF FreshInv, FreshTypes
<1>7. \A i \in DOMAIN run : clock + i - 1 \in 1 .. MaxTime
  BY <1>4, <1>5, <1>6
<1> HIDE DEF Mines
<1>8. \A i \in DOMAIN run : Block(run, i) \in 0 .. MaxTime /\ (Block(run, i) # NoBlock => Mines(run, i))
  <2>1. \A i \in DOMAIN run : clock + i - 1 \in 0 .. MaxTime
    BY <1>6, <1>7
  <2>2. 0 \in 0 .. MaxTime
    BY <1>6
  <2> QED
    BY <1>6, <2>1, <2>2
<1> HIDE DEF Block
<1>9. \A a \in BroadcastAddresses :
        /\ \A i \in DOMAIN run : a \in run[i].creates /\ Mines(run, i) => minedAt'[a] = Block(run, i)
        /\ (\A i \in DOMAIN run : ~(a \in run[i].creates /\ Mines(run, i))) => minedAt'[a] = minedAt[a]
  <2> SUFFICES ASSUME NEW a \in BroadcastAddresses
               PROVE  /\ \A i \in DOMAIN run : a \in run[i].creates /\ Mines(run, i) => minedAt'[a] = Block(run, i)
                      /\ (\A i \in DOMAIN run : ~(a \in run[i].creates /\ Mines(run, i))) => minedAt'[a] = minedAt[a]
    OBVIOUS
  <2>1. minedAt'[a] = IF \E i \in DOMAIN run : a \in run[i].creates /\ Mines(run, i)
                      THEN Block(run, CHOOSE i \in DOMAIN run : a \in run[i].creates)
                      ELSE minedAt[a]
    BY <1>4
  <2>2. ASSUME NEW i \in DOMAIN run, a \in run[i].creates
        PROVE  (CHOOSE j \in DOMAIN run : a \in run[j].creates) = i
    <3>1. \A j \in DOMAIN run : a \in run[j].creates => j = i
      BY <1>5, <2>2
    <3> QED
      BY <2>2, <3>1
  <2> QED
    BY <2>1, <2>2
<1>10. \A a \in BroadcastAddresses : minedAt[a] # NoBlock => minedAt'[a] = minedAt[a]
  <2>1. \A a \in BroadcastAddresses, i \in DOMAIN run : a \in run[i].creates /\ Mines(run, i) => minedAt[a] = NoBlock
    BY DEF Mines
  <2> QED
    BY <1>9, <2>1
<1>11. FreshTypes'
  <2>1. clock' \in 1 .. MaxTime
    BY <1>4, <1>5, <1>6
  <2>2. minedAt' \in [BroadcastAddresses -> 0 .. MaxTime]
    <3>1. \A a \in BroadcastAddresses : minedAt[a] \in 0 .. MaxTime
      BY DEF FreshInv, FreshTypes
    <3>2. \A a \in BroadcastAddresses : minedAt'[a] \in 0 .. MaxTime
      BY <1>8, <1>9, <3>1
    <3>3. minedAt' = [a \in BroadcastAddresses |-> minedAt'[a]]
      BY <1>4
    <3> QED
      BY <3>2, <3>3
  <2>3. file' \in [Freshness!Contracts -> BroadcastAddresses \cup {NoAddress}]
    BY <1>3 DEF FreshInv, FreshTypes
  <2>4. runLatest' \in [AllScripts -> Seq([creates : SUBSET BroadcastAddresses, block : 0 .. MaxTime])]
    <3> DEFINE last == [i \in DOMAIN run |-> [creates |-> run[i].creates, block |-> Block(run, i)]]
    <3>1. \A i \in 1 .. Len(run) : [creates |-> run[i].creates, block |-> Block(run, i)] \in
                                     [creates : SUBSET BroadcastAddresses, block : 0 .. MaxTime]
      BY <1>5, <1>8
    <3>2. last \in Seq([creates : SUBSET BroadcastAddresses, block : 0 .. MaxTime])
      BY <1>5, <3>1
    <3> HIDE DEF last
    <3>3. runLatest' = [runLatest EXCEPT ![s] = last]
      BY <1>4 DEF last
    <3> QED
      BY <3>2, <3>3 DEF FreshInv, FreshTypes
  <2> QED
    BY <1>1, <2>1, <2>2, <2>3, <2>4 DEF FreshInv, FreshTypes
<1>12. FreshRuns'
  <2> SUFFICES ASSUME NEW t \in AllScripts, NEW i \in DOMAIN runLatest'[t], NEW a \in runLatest'[t][i].creates
               PROVE  /\ runLatest'[t][i].block # NoBlock => minedAt'[a] = runLatest'[t][i].block
                      /\ \A j \in DOMAIN runLatest'[t] : a \in runLatest'[t][j].creates => j = i
    BY DEF FreshRuns
  <2>1. CASE t = s
    <3>1. runLatest'[t] = [k \in DOMAIN run |-> [creates |-> run[k].creates, block |-> Block(run, k)]]
      BY <1>4, <2>1 DEF FreshInv, FreshTypes
    <3>2. /\ DOMAIN runLatest'[t] = DOMAIN run
          /\ \A k \in DOMAIN run : runLatest'[t][k].creates = run[k].creates /\ runLatest'[t][k].block = Block(run, k)
      BY <3>1
    <3>3. i \in DOMAIN run /\ a \in run[i].creates /\ a \in BroadcastAddresses
      BY <1>5, <3>2
    <3> QED
      BY <1>5, <1>8, <1>9, <3>2, <3>3
  <2>2. CASE t # s
    <3>1. runLatest'[t] = runLatest[t]
      BY <1>4, <2>2 DEF FreshInv, FreshTypes
    <3>2. a \in BroadcastAddresses
      <4>1. runLatest[t] \in Seq([creates : SUBSET BroadcastAddresses, block : 0 .. MaxTime])
        BY DEF FreshInv, FreshTypes
      <4>2. \A R : runLatest[t] \in Seq(R) => runLatest[t][i] \in R
        BY <3>1
      <4>3. runLatest[t][i] \in [creates : SUBSET BroadcastAddresses, block : 0 .. MaxTime]
        BY <4>1, <4>2
      <4> QED
        BY <3>1, <4>3
    <3> QED
      BY <1>10, <3>1, <3>2 DEF FreshInv, FreshRuns
  <2> QED
    BY <2>1, <2>2
<1>13. FreshPassed' /\ FreshVerdicts'
  <2>1. ok' = {} /\ okCodeOnly' = {} /\ fail' = {} /\ exit' = 0 /\ pc' = "idle"
    BY <1>1 DEF FreshInv, FreshVerdicts
  <2> QED
    BY <2>1 DEF FreshPassed, FreshVerdicts
<1> QED
  BY <1>11, <1>12, <1>13 DEF FreshInv

\* Time passes, or the check does not start: nothing was checked.
LEMMA FreshOutside ==
  ASSUME FreshInv, Freshness!Tick \/ Freshness!Refuse
  PROVE  FreshInv'
<1>1. /\ pc = "idle" /\ entries = {} /\ pc' \in {"idle", "done"} /\ clock' \in 1 .. MaxTime
      /\ UNCHANGED <<minedAt, file, runLatest, entries, now, timestamp, ok, okCodeOnly, fail>>
      /\ exit' \in {0, 1} /\ (pc' = "idle" => exit' = exit)
  <2>1. pc = "idle" /\ clock \in 1 .. MaxTime /\ MaxTime \in Nat /\ entries = {} /\ exit \in {0, 1}
    BY FreshFacts DEF Freshness!Tick, Freshness!Refuse, FreshInv, FreshTypes, FreshVerdicts
  <2>2. CASE Freshness!Tick
    BY <2>1, <2>2 DEF Freshness!Tick, Freshness!verdicts
  <2>3. CASE Freshness!Refuse
    BY <2>1, <2>3 DEF Freshness!Refuse, Freshness!chain
  <2> QED
    BY <2>2, <2>3
<1>2. FreshTypes' /\ FreshRuns'
  <2>1. FreshTypes'
    BY <1>1 DEF FreshInv, FreshTypes
  <2>2. FreshRuns'
    BY <1>1 DEF FreshInv, FreshRuns
  <2> QED
    BY <2>1, <2>2
<1>3. ok = {} /\ okCodeOnly = {} /\ fail = {} /\ exit = 0
  BY <1>1 DEF FreshInv, FreshVerdicts
<1>4. FreshPassed' /\ FreshVerdicts'
  BY <1>1, <1>3 DEF FreshPassed, FreshVerdicts
<1> QED
  BY <1>2, <1>4 DEF FreshInv

\* The check starts, and may end there.
LEMMA FreshStart ==
  ASSUME FreshInv, Freshness!Start \/ Freshness!DryRun
  PROVE  FreshInv'
<1>1. /\ pc \in {"idle", "blocks"} /\ UNCHANGED <<clock, minedAt, file, runLatest, timestamp, readFailed>>
      /\ UNCHANGED <<ok, okCodeOnly, fail, exit>>
  BY DEF Freshness!Start, Freshness!DryRun, Freshness!chain, Freshness!verdicts
<1>2. ok = {} /\ okCodeOnly = {} /\ fail = {} /\ exit = 0
  BY <1>1 DEF FreshInv, FreshVerdicts
<1>3. /\ pc' \in {"blocks", "done"} /\ (pc' = "done" => entries' = {}) /\ now' \in Nat
      /\ entries' \subseteq Freshness!Contracts /\ \A c \in entries' : file[c] # NoAddress
  <2>1. CASE Freshness!Start
    <3>1. entries' \subseteq {c \in Freshness!Contracts : file[c] # NoAddress}
      BY <2>1 DEF Freshness!Start, Freshness!collect_deployment_addresses,
                  Freshness!collect_deployment_addresses_from_files
    <3>2. clock \in Nat /\ now' = clock /\ pc' = IF entries' = {} THEN "done" ELSE "blocks"
      BY <2>1, FreshFacts DEF Freshness!Start, FreshInv, FreshTypes
    <3> QED
      BY <3>1, <3>2
  <2>2. CASE Freshness!DryRun
    BY <2>2 DEF Freshness!DryRun, FreshInv, FreshTypes
  <2> QED
    BY <2>1, <2>2
<1>4. FreshTypes' /\ FreshRuns'
  <2>1. FreshTypes'
    BY <1>1, <1>3 DEF FreshInv, FreshTypes
  <2>2. FreshRuns'
    BY <1>1 DEF FreshInv, FreshRuns
  <2> QED
    BY <2>1, <2>2
<1>5. FreshPassed' /\ FreshVerdicts'
  BY <1>1, <1>2, <1>3 DEF FreshPassed, FreshVerdicts
<1> QED
  BY <1>4, <1>5 DEF FreshInv

\* While the check runs, the chain and the files are those of its start.
LEMMA FreshKept ==
  ASSUME FreshTypes, FreshRuns, pc' \in {"ages", "code", "done"},
         UNCHANGED <<clock, minedAt, file, runLatest, entries, now>>,
         timestamp' \in [1 .. MaxTime -> 0 .. MaxTime],
         \A b \in 1 .. MaxTime : timestamp'[b] \in {b, NoBlock}
  PROVE  /\ FreshTypes' /\ FreshRuns' /\ Freshness!InBroadcast' = Freshness!InBroadcast
         /\ \A c : Freshness!BlockOf(c)' = Freshness!BlockOf(c)
         /\ \A c : IsDeployed(c)' = IsDeployed(c) /\ IsYoung(c)' = IsYoung(c)
<1>1. FreshTypes'
  BY DEF FreshTypes
<1>2. FreshRuns'
  BY DEF FreshRuns
<1>3. \A c : Freshness!BlockOf(c)' = Freshness!BlockOf(c)
  BY DEF Freshness!BlockOf, Freshness!FindDeploy
<1>4. Freshness!InBroadcast' = Freshness!InBroadcast
  BY <1>3 DEF Freshness!InBroadcast
<1> QED
  BY <1>1, <1>2, <1>3, <1>4 DEF IsDeployed, IsYoung

\* The times of the blocks that are read are theirs.
LEMMA FreshReadBlocks ==
  ASSUME FreshInv, Freshness!ReadBlocks
  PROVE  FreshInv'
<1> DEFINE blocks == {Freshness!BlockOf(c) : c \in Freshness!InBroadcast}
<1>1. PICK answered \in SUBSET blocks :
        /\ timestamp' = [b \in 1 .. MaxTime |-> IF b \in answered THEN b ELSE NoBlock]
        /\ readFailed' = (answered # blocks)
  BY DEF Freshness!ReadBlocks, Freshness!decode_block_timestamp_from_response
<1>2. /\ pc = "blocks" /\ pc' = "ages"
      /\ UNCHANGED <<clock, minedAt, file, runLatest, entries, now, ok, okCodeOnly, fail, exit>>
  BY DEF Freshness!ReadBlocks, Freshness!chain, Freshness!verdicts
<1>3. /\ timestamp' \in [1 .. MaxTime -> 0 .. MaxTime]
      /\ \A b \in 1 .. MaxTime : timestamp'[b] \in {b, NoBlock}
  BY <1>1, FreshFacts
<1>4. /\ FreshTypes' /\ FreshRuns' /\ Freshness!InBroadcast' = Freshness!InBroadcast
      /\ \A c : Freshness!BlockOf(c)' = Freshness!BlockOf(c)
  BY <1>2, <1>3, FreshKept DEF FreshInv
<1>5. ok = {} /\ okCodeOnly = {} /\ fail = {} /\ exit = 0
  BY <1>2 DEF FreshInv, FreshVerdicts
<1>6. ~readFailed' => \A c \in Freshness!InBroadcast : timestamp'[Freshness!BlockOf(c)] # NoBlock
  <2> SUFFICES ASSUME ~readFailed', NEW c \in Freshness!InBroadcast
               PROVE  timestamp'[Freshness!BlockOf(c)] # NoBlock
    OBVIOUS
  <2>1. Freshness!BlockOf(c) \in answered
    BY <1>1
  <2>2. Freshness!BlockOf(c) \in 1 .. MaxTime
    BY BlockIsMined DEF FreshInv
  <2>3. timestamp'[Freshness!BlockOf(c)] = Freshness!BlockOf(c)
    BY <1>1, <2>1, <2>2
  <2> QED
    BY <2>2, <2>3, FreshFacts
<1>7. FreshPassed' /\ FreshVerdicts'
  BY <1>2, <1>4, <1>5, <1>6 DEF FreshPassed, FreshVerdicts
<1> QED
  BY <1>4, <1>7 DEF FreshInv

\* A contract whose time is known is judged by its age, one whose is not fails.
LEMMA FreshAges ==
  ASSUME FreshInv, Freshness!Ages
  PROVE  FreshInv'
<1> DEFINE T(c) == timestamp[Freshness!BlockOf(c)]
           young == {c \in Freshness!InBroadcast : T(c) # NoBlock /\ now <= T(c) + MaxAge}
<1>1. /\ pc = "ages" /\ pc' = "code" /\ ok' = young /\ fail' = Freshness!InBroadcast \ young
      /\ UNCHANGED <<clock, minedAt, file, runLatest, entries, now, timestamp, okCodeOnly, exit, readFailed>>
  BY DEF Freshness!Ages, Freshness!chain
<1>2. okCodeOnly = {} /\ exit = 0
  BY <1>1 DEF FreshInv, FreshVerdicts
<1>3. /\ FreshTypes' /\ FreshRuns' /\ Freshness!InBroadcast' = Freshness!InBroadcast
      /\ \A c : IsDeployed(c)' = IsDeployed(c) /\ IsYoung(c)' = IsYoung(c)
  <2>1. /\ timestamp' \in [1 .. MaxTime -> 0 .. MaxTime]
        /\ \A b \in 1 .. MaxTime : timestamp'[b] \in {b, NoBlock}
    BY <1>1 DEF FreshInv, FreshTypes
  <2> QED
    BY <1>1, <2>1, FreshKept DEF FreshInv
<1>4. \A c \in Freshness!InBroadcast :
        /\ T(c) \in {minedAt[file[c]], NoBlock} /\ (T(c) # NoBlock => (c \in young <=> IsYoung(c)))
  <2> SUFFICES ASSUME NEW c \in Freshness!InBroadcast
               PROVE  T(c) \in {minedAt[file[c]], NoBlock} /\ (T(c) # NoBlock => (c \in young <=> IsYoung(c)))
    OBVIOUS
  <2>1. Freshness!BlockOf(c) = minedAt[file[c]] /\ Freshness!BlockOf(c) \in 1 .. MaxTime
    BY BlockIsMined DEF FreshInv
  <2>2. T(c) \in {minedAt[file[c]], NoBlock}
    BY <2>1 DEF FreshInv, FreshTypes
  <2> QED
    BY <2>2 DEF IsYoung
<1>5. \A c \in young : c \in Freshness!InBroadcast /\ IsYoung(c)
  BY <1>4
<1>6. ~readFailed => \A c \in Freshness!InBroadcast \ young : ~IsYoung(c)
  <2>1. ~readFailed => \A c \in Freshness!InBroadcast : T(c) # NoBlock
    BY <1>1 DEF FreshInv, FreshVerdicts
  <2> QED
    BY <1>4, <2>1
<1> HIDE DEF young
<1>7. FreshPassed'
  BY <1>1, <1>2, <1>3, <1>5 DEF FreshPassed
<1>8. ok' \cup fail' = Freshness!InBroadcast
  BY <1>1, <1>5
<1>9. FreshVerdicts'
  BY <1>1, <1>2, <1>3, <1>6, <1>8 DEF FreshVerdicts
<1> QED
  BY <1>3, <1>7, <1>9 DEF FreshInv

\* The rest is judged by the code at its address, and decides with the ages.
LEMMA FreshCode ==
  ASSUME FreshInv, Freshness!Code
  PROVE  FreshInv'
<1> DEFINE rest == entries \ Freshness!InBroadcast
<1>1. PICK answered \in SUBSET rest :
        /\ okCodeOnly' = {c \in answered : IsDeployed(c)}
        /\ readFailed' = (readFailed \/ answered # rest)
  BY DEF Freshness!Code, Freshness!HasCode, IsDeployed
<1>2. /\ pc = "code" /\ pc' = "done"
      /\ fail' = fail \cup (entries \ (Freshness!InBroadcast \cup okCodeOnly'))
      /\ exit' = IF fail' # {} THEN 1 ELSE 0
      /\ UNCHANGED <<clock, minedAt, file, runLatest, entries, now, timestamp, ok>>
  BY DEF Freshness!Code, Freshness!chain
<1>3. /\ FreshTypes' /\ FreshRuns' /\ Freshness!InBroadcast' = Freshness!InBroadcast
      /\ \A c : IsDeployed(c)' = IsDeployed(c) /\ IsYoung(c)' = IsYoung(c)
  <2>1. /\ timestamp' \in [1 .. MaxTime -> 0 .. MaxTime]
        /\ \A b \in 1 .. MaxTime : timestamp'[b] \in {b, NoBlock}
    BY <1>2 DEF FreshInv, FreshTypes
  <2> QED
    BY <1>2, <2>1, FreshKept DEF FreshInv
<1>4. /\ ok \cup fail = Freshness!InBroadcast /\ Freshness!InBroadcast \subseteq entries
      /\ ~readFailed => \A c \in fail : ~IsYoung(c)
  BY <1>2 DEF FreshInv, FreshVerdicts, Freshness!InBroadcast
<1>5. FreshPassed'
  BY <1>1, <1>2, <1>3 DEF FreshInv, FreshPassed
<1>6. ok' \cup okCodeOnly' \cup fail' = entries'
  BY <1>1, <1>2, <1>4
<1>7. ~readFailed' => \A c \in fail' :
        ~IsDeployed(c) \/ (c \in Freshness!InBroadcast /\ ~IsYoung(c))
  BY <1>1, <1>2, <1>4
<1>8. FreshVerdicts'
  BY <1>2, <1>3, <1>6, <1>7 DEF FreshVerdicts
<1> QED
  BY <1>3, <1>5, <1>8 DEF FreshInv

\* A batch that fails ends the check, with the verdicts that it has.
LEMMA FreshGiveUp ==
  ASSUME FreshInv, Freshness!NoBlocks \/ Freshness!NoCode
  PROVE  FreshInv'
<1>1. /\ pc' = "done" /\ exit' = 1 /\ readFailed' = TRUE
      /\ UNCHANGED <<clock, minedAt, file, runLatest, entries, now, timestamp, ok, okCodeOnly, fail>>
  BY DEF Freshness!NoBlocks, Freshness!NoCode, Freshness!GiveUp, Freshness!chain
<1>2. /\ FreshTypes' /\ FreshRuns' /\ Freshness!InBroadcast' = Freshness!InBroadcast
      /\ \A c : IsDeployed(c)' = IsDeployed(c) /\ IsYoung(c)' = IsYoung(c)
  <2>1. /\ timestamp' \in [1 .. MaxTime -> 0 .. MaxTime]
        /\ \A b \in 1 .. MaxTime : timestamp'[b] \in {b, NoBlock}
    BY <1>1 DEF FreshInv, FreshTypes
  <2> QED
    BY <1>1, <2>1, FreshKept DEF FreshInv
<1>3. FreshPassed'
  BY <1>1, <1>2 DEF FreshInv, FreshPassed
<1>4. FreshVerdicts'
  BY <1>1 DEF FreshVerdicts
<1> QED
  BY <1>2, <1>3, <1>4 DEF FreshInv

\* Every step of the deployments and of the check of ages keeps what is known of them.
LEMMA FreshNext ==
  ASSUME FreshInv, Freshness!Next
  PROVE  FreshInv'
BY FreshDeploy, FreshOutside, FreshStart, FreshReadBlocks, FreshAges, FreshCode, FreshGiveUp
   DEF Freshness!Next

\* What the check of ages says
LEMMA FreshSays ==
  ASSUME FreshInv
  PROVE  /\ Freshness!TypeOK /\ Freshness!PassedIsDeployed /\ Freshness!FreshIsFresh
         /\ Freshness!OldPassesOnlyOverwritten /\ Freshness!ZeroMeansAllPassed /\ Freshness!ExactWhenRead
<1>1. \A c \in Freshness!InBroadcast : IsDeployed(c) /\ c \in entries
  BY BlockIsMined DEF FreshInv
<1>2. /\ ok \subseteq Freshness!InBroadcast /\ \A c \in ok : IsYoung(c)
      /\ okCodeOnly \subseteq entries \ Freshness!InBroadcast /\ \A c \in okCodeOnly : IsDeployed(c)
  BY DEF FreshInv, FreshPassed
<1>3. Freshness!TypeOK
  BY DEF FreshInv, FreshTypes, FreshVerdicts, Freshness!TypeOK, Freshness!Checked
<1>4. Freshness!PassedIsDeployed
  BY <1>1, <1>2 DEF Freshness!PassedIsDeployed, IsDeployed
<1>5. Freshness!FreshIsFresh
  BY <1>2 DEF Freshness!FreshIsFresh, IsYoung
<1>6. Freshness!OldPassesOnlyOverwritten
  BY <1>2, NotInFiles DEF FreshInv, Freshness!OldPassesOnlyOverwritten, AllScripts
<1>7. ASSUME Freshness!Checked, ~(exit = 1 /\ readFailed)
      PROVE  /\ ok \cup okCodeOnly \cup fail = entries /\ (exit = 1 <=> fail # {})
             /\ ~readFailed => \A c \in fail :
                  ~IsDeployed(c) \/ (c \in Freshness!InBroadcast /\ ~IsYoung(c))
  BY <1>7 DEF FreshInv, FreshVerdicts, Freshness!Checked
<1>8. Freshness!ZeroMeansAllPassed
  BY <1>7 DEF Freshness!ZeroMeansAllPassed
<1>9. Freshness!ExactWhenRead
  <2> SUFFICES ASSUME Freshness!Checked, ~readFailed
               PROVE  exit = 1 <=> \E c \in entries :
                        ~IsDeployed(c) \/ (c \in Freshness!InBroadcast /\ now > minedAt[file[c]] + MaxAge)
    BY DEF Freshness!ExactWhenRead, IsDeployed
  <2>1. \A c \in Freshness!InBroadcast : now > minedAt[file[c]] + MaxAge <=> ~IsYoung(c)
    <3> SUFFICES ASSUME NEW c \in Freshness!InBroadcast
                 PROVE  now > minedAt[file[c]] + MaxAge <=> ~(now <= minedAt[file[c]] + MaxAge)
      BY DEF IsYoung
    <3>1. now \in Nat /\ MaxAge \in Nat /\ MaxTime \in Nat
      BY FreshFacts DEF FreshInv, FreshTypes
    <3>2. Freshness!BlockOf(c) = minedAt[file[c]] /\ Freshness!BlockOf(c) \in 1 .. MaxTime
      BY BlockIsMined DEF FreshInv
    <3>3. minedAt[file[c]] \in Nat
      BY <3>1, <3>2
    <3> QED
      BY <3>1, <3>3
  <2>2. \A c \in fail : c \in entries /\ (~IsDeployed(c) \/ (c \in Freshness!InBroadcast /\ ~IsYoung(c)))
    BY <1>7
  <2>3. ASSUME NEW c \in entries, ~IsDeployed(c) \/ (c \in Freshness!InBroadcast /\ ~IsYoung(c))
        PROVE  c \in fail
    BY <1>1, <1>2, <1>7, <2>3
  <2> QED
    BY <1>7, <2>1, <2>2, <2>3
<1> QED
  BY <1>3, <1>4, <1>5, <1>6, <1>8, <1>9

-----------------------------------------------------------------------------
(* Whichever check runs                                                    *)

ChecksInv ==
  /\ script = "owners" => OwnerInv
  /\ script = "admins" => AdminInv
  /\ script = "versions" => VersionInv
  /\ script = "ages" => FreshInv

\* A step that changes nothing keeps all that is known.
LEMMA Stutter ==
  ASSUME ChecksInv, UNCHANGED vars
  PROVE  ChecksInv'
<1>1. /\ UNCHANGED <<script, pc, todo, skipped, ok, fail, failedContracts, hasFailure, exit, mode, readFailed, slots>>
      /\ UNCHANGED <<owner, pending, transfers, held, ownerResult, pendingResult, pendingContracts>>
      /\ UNCHANGED <<members, changes, toFetch, admin, first>>
      /\ UNCHANGED <<address, actual, found, onChain>>
      /\ UNCHANGED <<clock, minedAt, file, runLatest, entries, now, timestamp, okCodeOnly>>
  BY DEF vars, ownVars, adminVars, versionVars, ageVars
<1>2. ASSUME OwnerInv PROVE OwnerInv'
  <2>1. OwnerTypes' /\ OwnerReads'
    BY <1>1, <1>2 DEF OwnerInv, OwnerTypes, OwnerReads, Owner!Candidates, Owner!Finished
  <2>2. OwnerTodo' /\ OwnerVerdicts' /\ OwnerEnd'
    BY <1>1, <1>2 DEF OwnerInv, OwnerTodo, OwnerVerdicts, OwnerPasses, OwnerEnd, Owner!Finished, Elements, Distinct
  <2> QED
    BY <2>1, <2>2 DEF OwnerInv
<1>3. ASSUME AdminInv PROVE AdminInv'
  <2>1. AdminTypes' /\ AdminReads'
    BY <1>1, <1>3 DEF AdminInv, AdminTypes, AdminReads, Distinct, Admin!Finished
  <2>2. AdminTodo' /\ AdminVerdicts' /\ AdminEnd'
    BY <1>1, <1>3 DEF AdminInv, AdminTodo, AdminVerdicts, AdminPasses, AdminEnd, Admin!Finished, Elements, Distinct
  <2> QED
    BY <2>1, <2>2 DEF AdminInv
<1>4. ASSUME VersionInv PROVE VersionInv'
  <2>1. VersionReads' /\ VersionTodo'
    BY <1>1, <1>4 DEF VersionInv, VersionReads, VersionTodo, Distinct
  <2>2. VersionVerdicts' /\ VersionEnd'
    BY <1>1, <1>4 DEF VersionInv, VersionVerdicts, VersionEnd, Elements
  <2> QED
    BY <2>1, <2>2 DEF VersionInv
<1>5. ASSUME FreshInv PROVE FreshInv'
  <2>1. FreshTypes'
    BY <1>1, <1>5 DEF FreshInv, FreshTypes
  <2>2. FreshRuns'
    BY <1>1, <1>5 DEF FreshInv, FreshRuns
  <2>3. \A c : Freshness!BlockOf(c)' = Freshness!BlockOf(c)
    BY <1>1 DEF Freshness!BlockOf, Freshness!FindDeploy
  <2>4. Freshness!InBroadcast' = Freshness!InBroadcast
    BY <1>1, <2>3 DEF Freshness!InBroadcast
  <2>5. FreshPassed' /\ FreshVerdicts'
    BY <1>1, <1>5, <2>3, <2>4 DEF FreshInv, FreshPassed, FreshVerdicts, IsDeployed, IsYoung
  <2> QED
    BY <2>1, <2>2, <2>5 DEF FreshInv
<1> QED
  BY <1>1, <1>2, <1>3, <1>4, <1>5 DEF ChecksInv

\* What is known of each check holds before it and is kept by each step.
THEOREM ChecksInductive == Spec => []ChecksInv
<1>1. Init => ChecksInv
  BY OwnerInit, AdminInit, VersionInit, FreshInit DEF Init, ChecksInv
<1>2. ChecksInv /\ [Next]_vars => ChecksInv'
  <2> SUFFICES ASSUME ChecksInv, [Next]_vars PROVE ChecksInv'
    OBVIOUS
  <2>1. CASE script = "owners" /\ Owner!Next /\ script' = script
    BY <2>1, OwnerNext DEF ChecksInv
  <2>2. CASE script = "admins" /\ Admin!Next /\ script' = script
    BY <2>2, AdminNext DEF ChecksInv
  <2>3. CASE script = "versions" /\ Version!Next /\ script' = script
    BY <2>3, VersionNext DEF ChecksInv
  <2>4. CASE script = "ages" /\ Freshness!Next /\ script' = script
    BY <2>4, FreshNext DEF ChecksInv
  <2>5. CASE UNCHANGED vars
    BY <2>5, Stutter
  <2> QED
    BY <2>1, <2>2, <2>3, <2>4, <2>5 DEF Next
<1> QED
  BY <1>1, <1>2, PTL DEF Spec

\* The state of the running script has its type, and where verdicts are counted every
\* contract is counted once (count_verdict and the summaries of the scripts).
THEOREM ChecksTypeCorrect == Spec => []TypeOK
<1>1. ChecksInv => TypeOK
  BY OwnerSays, AdminSays, VersionSays, FreshSays DEF ChecksInv, TypeOK
<1> QED
  BY <1>1, ChecksInductive, PTL

\* A contract that passes the owner or the admin check was owned by the DAO, or had it
\* as its first admin, at some moment of the run, whichever reads failed and however
\* owners and roles moved meanwhile.
THEOREM PassedHadDaoAlways == Spec => []PassedHadDao
<1>1. ChecksInv => PassedHadDao
  BY OwnerSays, AdminSays DEF ChecksInv, PassedHadDao
<1> QED
  BY <1>1, ChecksInductive, PTL

\* If every read is answered and nobody interferes, the verdicts on owners, admins and
\* ages are exact.
THEOREM ExactWhenQuietAlways == Spec => []ExactWhenQuiet
<1>1. ChecksInv => ExactWhenQuiet
  BY OwnerSays, AdminSays, FreshSays DEF ChecksInv, ExactWhenQuiet
<1> QED
  BY <1>1, ChecksInductive, PTL

\* A clean check of versions has read every contract, each at its own address, and found
\* it up to date; an outdated contract that was read is listed.
THEOREM CleanMeansCurrentAlways == Spec => []CleanMeansCurrent
<1>1. ChecksInv => CleanMeansCurrent
  BY VersionSays DEF ChecksInv, CleanMeansCurrent
<1> QED
  BY <1>1, ChecksInductive, PTL

\* A contract that passes the check of ages is deployed, passes as fresh only if it is,
\* and without an age only if the run that deployed it was overwritten; a check that ends
\* with 0 has passed all its contracts.
THEOREM AgesAreTrueAlways == Spec => []AgesAreTrue
<1>1. ChecksInv => AgesAreTrue
  BY FreshSays DEF ChecksInv, AgesAreTrue
<1> QED
  BY <1>1, ChecksInductive, PTL

=============================================================================
