--------------------------- MODULE SiloVault_proofs ---------------------------
(***************************************************************************)
(* What the vault promises, for all markets, timelocks, caps and reports   *)
(* of the markets: its settings change after notice only, its queue is the *)
(* enabled markets, and what it puts into a market stays within the cap.   *)
(***************************************************************************)
EXTENDS SiloVault, WellFoundedInduction, TLAPS

PendingNumber == [value : Nat, validAt : Nat]
PendingAddress == [value : Guardians \cup {NoGuardian}, validAt : Nat]
Config == [cap : Nat, enabled : BOOLEAN, removableAt : Nat]
Fund == [shares : Nat, balanceTracker : Nat, principal : Nat]

SettingsTyped ==
    /\ clock \in Nat \ {0}
    /\ timelock \in Nat /\ pendingTimelock \in PendingNumber
    /\ guardian \in Guardians \cup {NoGuardian} /\ pendingGuardian \in PendingAddress
    /\ config \in [Markets -> Config] /\ pendingCap \in [Markets -> PendingNumber]
    /\ withdrawQueue \in Seq(Markets) /\ announced \in [Markets -> Nat]

\* No timelock below the least is in force or pending.
TimelockOK ==
    /\ timelock >= MinTimelock
    /\ pendingTimelock.validAt # 0 => pendingTimelock.value >= MinTimelock

\* A removal that is due was announced for the least timelock.
AnnouncedOK ==
    \A m \in Markets : config[m].removableAt # 0 =>
        announced[m] # 0 /\ config[m].removableAt >= announced[m] + MinTimelock

SettingsOK == SettingsTyped /\ TimelockOK /\ AnnouncedOK /\ QueueMatchesConfig

\* What went into a market is counted, whatever the market reported in between.
PrincipalCounted(f) == \A m \in Markets : f[m].principal <= f[m].balanceTracker

FundsOK ==
    /\ funds \in [Markets -> Fund] /\ rate \in [Markets -> Nat]
    /\ supplyQueue \in Seq(Markets)
    /\ PrincipalCounted(funds)

\* The inductive invariant
IInv == SettingsOK /\ FundsOK

-----------------------------------------------------------------------------
(* Settings: the guardian, the timelock, the markets and their queue        *)

\* A change is pending for the timelock in force, and at least the shortest.
LEMMA Updated_ ==
    ASSUME SettingsOK, VaultAssumption
    PROVE  /\ clock + timelock \in Nat \ {0}
           /\ clock + timelock >= clock + MinTimelock
BY DEF SettingsOK, SettingsTyped, TimelockOK, VaultAssumption

\* The settings of a new vault are as described,
LEMMA InitSettings == VaultAssumption /\ Init => SettingsOK
<1> SUFFICES ASSUME VaultAssumption, Init PROVE SettingsOK
  OBVIOUS
<1>1. timelock \in Nat /\ timelock >= MinTimelock
  BY DEF VaultAssumption, Init
<1>2. SettingsTyped
  BY <1>1 DEF SettingsTyped, Init, NoPending, NoPendingGuardian, NoConfig, PendingNumber, PendingAddress, Config
<1>3. TimelockOK /\ AnnouncedOK
  BY <1>1 DEF TimelockOK, AnnouncedOK, Init, NoPending, NoConfig
<1>4. QueueMatchesConfig
  BY DEF QueueMatchesConfig, Init, NoConfig, NoPending, IsInjective, Range
<1> QED
  BY <1>2, <1>3, <1>4 DEF SettingsOK

\* Timelock and guardian
LEMMA RolesSettings ==
    ASSUME VaultAssumption, SettingsOK,
           \/ \E t \in Timelocks : submitTimelock(t)
           \/ acceptTimelock \/ revokePendingTimelock
           \/ \E g \in Guardians \cup {NoGuardian} : submitGuardian(g)
           \/ acceptGuardian \/ revokePendingGuardian
    PROVE  SettingsOK'
<1>1. UNCHANGED <<clock, config, pendingCap, withdrawQueue, announced>>
  BY DEF submitTimelock, acceptTimelock, revokePendingTimelock, submitGuardian, acceptGuardian,
         revokePendingGuardian, markets
<1>2. AnnouncedOK' /\ QueueMatchesConfig'
  BY <1>1 DEF SettingsOK, AnnouncedOK, QueueMatchesConfig
<1>3. clock + timelock \in Nat
  BY Updated_
<1>4. NoPending \in PendingNumber /\ NoPending.validAt = 0 /\ NoPendingGuardian \in PendingAddress
  BY DEF NoPending, PendingNumber, NoPendingGuardian, PendingAddress
<1>5. /\ timelock' \in Nat /\ pendingTimelock' \in PendingNumber /\ TimelockOK'
      /\ guardian' \in Guardians \cup {NoGuardian} /\ pendingGuardian' \in PendingAddress
  <2>1. ASSUME NEW t \in Timelocks, submitTimelock(t) PROVE <1>5
    <3>1. t \in Nat /\ t >= MinTimelock /\ UNCHANGED <<guardian, pendingGuardian>>
      BY <2>1 DEF VaultAssumption, submitTimelock
    <3>2. CASE t > timelock
      BY <1>4, <2>1, <3>1, <3>2 DEF submitTimelock, _setTimelock, SettingsOK, SettingsTyped, TimelockOK
    <3>3. CASE ~(t > timelock)
      <4>1. timelock' = timelock /\ pendingTimelock' = [value |-> t, validAt |-> clock + timelock]
        BY <2>1, <3>3 DEF submitTimelock, update
      <4> QED
        BY <1>3, <3>1, <4>1 DEF SettingsOK, SettingsTyped, TimelockOK, PendingNumber
    <3> QED
      BY <3>2, <3>3
  <2>2. ASSUME acceptTimelock \/ revokePendingTimelock PROVE <1>5
    BY <1>4, <2>2 DEF acceptTimelock, revokePendingTimelock, _setTimelock, afterTimelock,
                      SettingsOK, SettingsTyped, TimelockOK, PendingNumber
  <2>3. ASSUME NEW g \in Guardians \cup {NoGuardian}, submitGuardian(g) PROVE <1>5
    <3>1. UNCHANGED <<timelock, pendingTimelock>>
      BY <2>3 DEF submitGuardian
    <3>2. TimelockOK'
      BY <3>1 DEF SettingsOK, TimelockOK
    <3>3. CASE guardian = NoGuardian
      BY <1>4, <2>3, <3>1, <3>2, <3>3 DEF submitGuardian, _setGuardian, SettingsOK, SettingsTyped
    <3>4. CASE guardian # NoGuardian
      <4>1. guardian' = guardian /\ pendingGuardian' = [value |-> g, validAt |-> clock + timelock]
        BY <2>3, <3>4 DEF submitGuardian, update
      <4> QED
        BY <1>3, <3>1, <3>2, <4>1 DEF SettingsOK, SettingsTyped, PendingAddress
    <3> QED
      BY <3>3, <3>4
  <2>4. ASSUME acceptGuardian \/ revokePendingGuardian PROVE <1>5
    BY <1>4, <2>4 DEF acceptGuardian, revokePendingGuardian, _setGuardian, SettingsOK, SettingsTyped,
                      TimelockOK, PendingAddress
  <2> QED
    BY <2>1, <2>2, <2>3, <2>4
<1> QED
  BY <1>1, <1>2, <1>5 DEF SettingsOK, SettingsTyped


\* A market that is not in a queue yet can be appended to it.
LEMMA Appended ==
    ASSUME NEW q \in Seq(Markets), NEW m \in Markets, IsInjective(q), m \notin Range(q)
    PROVE  /\ Append(q, m) \in Seq(Markets) /\ IsInjective(Append(q, m))
           /\ Range(Append(q, m)) = Range(q) \cup {m}
<1> DEFINE r == Append(q, m)
           n == Len(q)
<1>1. /\ r \in Seq(Markets) /\ n \in Nat /\ DOMAIN q = 1 .. n /\ DOMAIN r = 1 .. (n + 1)
      /\ r[n + 1] = m /\ \A i \in 1 .. n : r[i] = q[i]
  OBVIOUS
<1>2. \A i \in 1 .. n : q[i] # m
  BY <1>1 DEF Range
<1> HIDE DEF r, n
<1>3. \A i \in 1 .. (n + 1) : i \in 1 .. n \/ i = n + 1
  BY <1>1
<1>4. IsInjective(r)
  BY <1>1, <1>2, <1>3 DEF IsInjective
<1>5. Range(r) = Range(q) \cup {m}
  <2>1. \A i \in 1 .. n : i \in 1 .. (n + 1)
    BY <1>1
  <2>2. n + 1 \in 1 .. (n + 1)
    BY <1>1
  <2> QED
    BY <1>1, <1>3, <2>1, <2>2 DEF Range
<1> QED
  BY <1>1, <1>4, <1>5 DEF r

\* A cap that is set clears what was pending, and a first one enables the market.
LEMMA SetCapSettings ==
    ASSUME SettingsOK, NEW m \in Markets, NEW c \in Nat, _setCap(m, c),
           config[m].removableAt = 0, UNCHANGED <<clock, delayed>>
    PROVE  SettingsOK'
<1> DEFINE new == IF c > 0 THEN [cap |-> c, enabled |-> TRUE, removableAt |-> 0]
                  ELSE [config[m] EXCEPT !.cap = 0]
<1>1. /\ config \in [Markets -> Config] /\ pendingCap \in [Markets -> PendingNumber]
      /\ announced \in [Markets -> Nat] /\ withdrawQueue \in Seq(Markets)
  BY DEF SettingsOK, SettingsTyped
<1>2. /\ config' = [config EXCEPT ![m] = new]
      /\ pendingCap' = [pendingCap EXCEPT ![m] = NoPending]
      /\ announced' = IF c > 0 THEN [announced EXCEPT ![m] = 0] ELSE announced
      /\ withdrawQueue' = IF c > 0 /\ ~config[m].enabled THEN Append(withdrawQueue, m) ELSE withdrawQueue
  BY DEF _setCap
<1>3. /\ new \in Config /\ new.removableAt = 0 /\ (new.cap # 0 => new.enabled)
      /\ new.enabled = (c > 0 \/ config[m].enabled)
  BY <1>1 DEF Config
<1>4. NoPending \in PendingNumber
  BY DEF NoPending, PendingNumber
<1> HIDE DEF new
<1>5. /\ config' \in [Markets -> Config] /\ config'[m] = new
      /\ \A x \in Markets \ {m} : config'[x] = config[x] /\ pendingCap'[x] = pendingCap[x]
      /\ \A x \in Markets \ {m} : announced'[x] = announced[x]
      /\ announced' \in [Markets -> Nat] /\ pendingCap' \in [Markets -> PendingNumber]
  BY <1>1, <1>2, <1>3, <1>4
<1>6. AnnouncedOK'
  BY <1>3, <1>5 DEF SettingsOK, AnnouncedOK
<1>7. /\ withdrawQueue' \in Seq(Markets) /\ IsInjective(withdrawQueue')
      /\ Range(withdrawQueue') = {x \in Markets : config'[x].enabled}
  <2>1. /\ IsInjective(withdrawQueue)
        /\ Range(withdrawQueue) = {x \in Markets : config[x].enabled}
    BY DEF SettingsOK, QueueMatchesConfig
  <2>2. CASE c > 0 /\ ~config[m].enabled
    <3>1. m \notin Range(withdrawQueue)
      BY <2>1, <2>2
    <3>2. /\ withdrawQueue' \in Seq(Markets) /\ IsInjective(withdrawQueue')
          /\ Range(withdrawQueue') = Range(withdrawQueue) \cup {m}
      BY <1>1, <1>2, <2>1, <2>2, <3>1, Appended
    <3>3. new.enabled
      BY <1>3, <2>2
    <3> QED
      BY <1>5, <2>1, <3>2, <3>3
  <2>3. CASE ~(c > 0 /\ ~config[m].enabled)
    <3>1. withdrawQueue' = withdrawQueue
      BY <1>2, <2>3
    <3>2. config'[m].enabled <=> config[m].enabled
      <4>1. config[m].enabled \in BOOLEAN
        BY <1>1 DEF Config
      <4> QED
        BY <1>3, <1>5, <2>3, <4>1
    <3> QED
      BY <1>1, <1>5, <2>1, <3>1, <3>2
  <2> QED
    BY <2>2, <2>3
<1>8. \A x \in Markets :
         /\ config'[x].cap # 0 => config'[x].enabled
         /\ config'[x].removableAt # 0 =>
                config'[x].enabled /\ config'[x].cap = 0 /\ pendingCap'[x].validAt = 0
  BY <1>3, <1>5 DEF SettingsOK, QueueMatchesConfig
<1>9. SettingsTyped' /\ TimelockOK'
  BY <1>5, <1>7 DEF SettingsOK, SettingsTyped, TimelockOK, delayed
<1> QED
  BY <1>6, <1>7, <1>8, <1>9 DEF SettingsOK, QueueMatchesConfig

\* A market has one thing pending at most: a cap, or its removal.
LEMMA CapSettings ==
    ASSUME VaultAssumption, SettingsOK, NEW m \in Markets,
           \/ \E c \in Caps : submitCap(m, c)
           \/ acceptCap(m) \/ revokePendingCap(m)
    PROVE  SettingsOK'
<1>1. /\ config \in [Markets -> Config] /\ pendingCap \in [Markets -> PendingNumber]
      /\ clock + timelock \in Nat
  BY Updated_ DEF SettingsOK, SettingsTyped
<1>2. ASSUME NEW c \in Caps, submitCap(m, c) PROVE SettingsOK'
  <2>1. c \in Nat /\ config[m].removableAt = 0 /\ UNCHANGED <<clock, delayed>>
    BY <1>2 DEF VaultAssumption, submitCap
  <2>2. CASE c < config[m].cap
    BY <1>2, <2>1, <2>2, SetCapSettings DEF submitCap
  <2>3. CASE ~(c < config[m].cap)
    <3>1. /\ pendingCap' = [pendingCap EXCEPT ![m] = [value |-> c, validAt |-> clock + timelock]]
          /\ UNCHANGED <<config, withdrawQueue, announced>>
      BY <1>2, <2>3 DEF submitCap, update
    <3>2. [value |-> c, validAt |-> clock + timelock] \in PendingNumber
      BY <1>1, <2>1 DEF PendingNumber
    <3>3. /\ pendingCap' \in [Markets -> PendingNumber]
          /\ \A x \in Markets \ {m} : pendingCap'[x] = pendingCap[x]
      BY <1>1, <3>1, <3>2
    <3>4. SettingsTyped' /\ TimelockOK' /\ AnnouncedOK'
      BY <2>1, <3>1, <3>3 DEF SettingsOK, SettingsTyped, TimelockOK, AnnouncedOK, delayed
    <3>5. QueueMatchesConfig'
      BY <2>1, <3>1, <3>3 DEF SettingsOK, QueueMatchesConfig
    <3> QED
      BY <3>4, <3>5 DEF SettingsOK
  <2> QED
    BY <2>2, <2>3
<1>3. ASSUME acceptCap(m) PROVE SettingsOK'
  <2>1. pendingCap[m].value \in Nat
    BY <1>1 DEF PendingNumber
  <2>2. config[m].removableAt = 0
    BY <1>3 DEF acceptCap, afterTimelock, SettingsOK, QueueMatchesConfig
  <2> QED
    BY <1>3, <2>1, <2>2, SetCapSettings DEF acceptCap
<1>4. ASSUME revokePendingCap(m) PROVE SettingsOK'
  <2>1. /\ pendingCap' = [pendingCap EXCEPT ![m] = NoPending]
        /\ UNCHANGED <<clock, delayed, config, withdrawQueue, announced>>
    BY <1>4 DEF revokePendingCap
  <2>2. NoPending \in PendingNumber /\ NoPending.validAt = 0
    BY DEF NoPending, PendingNumber
  <2>3. /\ pendingCap' \in [Markets -> PendingNumber] /\ pendingCap'[m].validAt = 0
        /\ \A x \in Markets \ {m} : pendingCap'[x] = pendingCap[x]
    BY <1>1, <2>1, <2>2
  <2>4. SettingsTyped' /\ TimelockOK' /\ AnnouncedOK'
    BY <2>1, <2>3 DEF SettingsOK, SettingsTyped, TimelockOK, AnnouncedOK, delayed
  <2>5. QueueMatchesConfig'
    BY <2>1, <2>3 DEF SettingsOK, QueueMatchesConfig
  <2> QED
    BY <2>4, <2>5 DEF SettingsOK
<1> QED
  BY <1>2, <1>3, <1>4

\* An announcement is due after the timelock; a revocation forgets it.
LEMMA RemovalSettings ==
    ASSUME VaultAssumption, SettingsOK, NEW m \in Markets,
           submitMarketRemoval(m) \/ revokePendingMarketRemoval(m)
    PROVE  SettingsOK'
<1>1. /\ config \in [Markets -> Config] /\ announced \in [Markets -> Nat]
      /\ clock \in Nat \ {0} /\ clock + timelock \in Nat /\ clock + timelock >= clock + MinTimelock
      /\ config[m] \in Config
  BY Updated_ DEF SettingsOK, SettingsTyped
<1>2. ASSUME NEW r \in Nat, NEW a \in Nat,
             config' = [config EXCEPT ![m].removableAt = r],
             announced' = [announced EXCEPT ![m] = a],
             UNCHANGED <<clock, delayed, pendingCap, withdrawQueue>>,
             r # 0 => /\ a # 0 /\ r >= a + MinTimelock
                      /\ config[m].cap = 0 /\ config[m].enabled /\ pendingCap[m].validAt = 0
      PROVE  SettingsOK'
  <2>1. /\ config'[m].removableAt = r /\ config'[m].cap = config[m].cap
        /\ config'[m].enabled = config[m].enabled /\ config'[m] \in Config
    BY <1>1, <1>2 DEF Config
  <2>2. /\ config' \in [Markets -> Config] /\ announced' \in [Markets -> Nat] /\ announced'[m] = a
        /\ \A x \in Markets \ {m} : config'[x] = config[x] /\ announced'[x] = announced[x]
    <3>1. [config[m] EXCEPT !.removableAt = r] \in Config
      BY <1>1, <1>2 DEF Config
    <3> QED
      BY <1>1, <1>2, <3>1
  <2>3. AnnouncedOK'
    BY <1>2, <2>1, <2>2 DEF SettingsOK, AnnouncedOK
  <2>4. QueueMatchesConfig'
    BY <1>2, <2>1, <2>2 DEF SettingsOK, QueueMatchesConfig
  <2>5. SettingsTyped' /\ TimelockOK'
    BY <1>2, <2>2 DEF SettingsOK, SettingsTyped, TimelockOK, delayed
  <2> QED
    BY <2>3, <2>4, <2>5 DEF SettingsOK
<1>3. CASE submitMarketRemoval(m)
  <2> DEFINE r == clock + timelock
  <2>1. /\ config' = [config EXCEPT ![m].removableAt = r]
        /\ announced' = [announced EXCEPT ![m] = clock]
        /\ UNCHANGED <<clock, delayed, pendingCap, withdrawQueue>>
        /\ config[m].cap = 0 /\ config[m].enabled /\ pendingCap[m].validAt = 0
    BY <1>3 DEF submitMarketRemoval
  <2>2. r \in Nat /\ clock \in Nat /\ clock # 0 /\ r >= clock + MinTimelock
    BY <1>1
  <2> HIDE DEF r
  <2> QED
    BY <1>2, <2>1, <2>2
<1>4. CASE revokePendingMarketRemoval(m)
  BY <1>2, <1>4 DEF revokePendingMarketRemoval
<1> QED
  BY <1>3, <1>4

\* The markets that are left out of the queue are no longer enabled.
LEMMA QueueSettings ==
    ASSUME SettingsOK, updateWithdrawQueue
    PROVE  SettingsOK'
<1>1. PICK q \in SeqOf(Range(withdrawQueue), Len(withdrawQueue)) :
         /\ IsInjective(q) /\ \A m \in Range(withdrawQueue) \ Range(q) : Removable(m)
         /\ withdrawQueue' = q
         /\ config' = [m \in Markets |-> IF m \in Range(withdrawQueue) \ Range(q) THEN NoConfig ELSE config[m]]
         /\ announced' = [m \in Markets |-> IF m \in Range(withdrawQueue) \ Range(q) THEN 0 ELSE announced[m]]
  BY DEF updateWithdrawQueue
<1>2. /\ config \in [Markets -> Config] /\ announced \in [Markets -> Nat]
      /\ withdrawQueue \in Seq(Markets)
      /\ Range(withdrawQueue) = {x \in Markets : config[x].enabled}
      /\ UNCHANGED <<clock, delayed, pendingCap>>
  BY DEF SettingsOK, SettingsTyped, QueueMatchesConfig, updateWithdrawQueue
<1>3. q \in Seq(Markets) /\ Range(q) \subseteq Range(withdrawQueue)
  <2> DEFINE S == Range(withdrawQueue)
  <2>1. PICK k \in 0 .. Len(withdrawQueue) : q \in [1 .. k -> S]
    BY <1>1 DEF SeqOf
  <2>2. k \in Nat /\ S \subseteq Markets
    BY <1>2
  <2> HIDE DEF S
  <2>3. q \in [1 .. k -> Markets]
    BY <2>1, <2>2
  <2>4. q \in Seq(Markets)
    BY <2>2, <2>3
  <2>5. Range(q) \subseteq S
    BY <2>1 DEF Range
  <2> QED
    BY <2>4, <2>5 DEF S
<1>4. NoConfig \in Config /\ ~NoConfig.enabled /\ NoConfig.cap = 0 /\ NoConfig.removableAt = 0
  BY DEF NoConfig, Config
<1> DEFINE removed == Range(withdrawQueue) \ Range(q)
<1>5. /\ config' \in [Markets -> Config] /\ announced' \in [Markets -> Nat]
      /\ \A m \in removed : config'[m] = NoConfig
      /\ \A m \in Markets \ removed : config'[m] = config[m] /\ announced'[m] = announced[m]
  <2>1. removed \subseteq Markets
    BY <1>2
  <2> HIDE DEF removed
  <2>2. /\ config' = [m \in Markets |-> IF m \in removed THEN NoConfig ELSE config[m]]
        /\ announced' = [m \in Markets |-> IF m \in removed THEN 0 ELSE announced[m]]
    BY <1>1 DEF removed
  <2> QED
    BY <1>2, <1>4, <2>1, <2>2
<1>6. Range(q) = {x \in Markets : config'[x].enabled}
  BY <1>2, <1>3, <1>4, <1>5
<1>7. AnnouncedOK'
  BY <1>2, <1>4, <1>5 DEF SettingsOK, AnnouncedOK
<1>8. \A x \in Markets :
         /\ config'[x].cap # 0 => config'[x].enabled
         /\ config'[x].removableAt # 0 =>
                config'[x].enabled /\ config'[x].cap = 0 /\ pendingCap'[x].validAt = 0
  BY <1>2, <1>4, <1>5 DEF SettingsOK, QueueMatchesConfig
<1>9. QueueMatchesConfig'
  BY <1>1, <1>6, <1>8 DEF QueueMatchesConfig
<1>10. SettingsTyped' /\ TimelockOK'
  BY <1>1, <1>2, <1>3, <1>5 DEF SettingsOK, SettingsTyped, TimelockOK, delayed
<1> QED
  BY <1>7, <1>9, <1>10 DEF SettingsOK

\* Allocators, markets and time leave the settings as they are.
LEMMA OtherSettings ==
    ASSUME VaultAssumption, SettingsOK,
           setSupplyQueue \/ Allocation \/ Report \/ Gift \/ Tick \/ UNCHANGED vars
    PROVE  SettingsOK'
<1>1. UNCHANGED <<delayed, markets>> /\ (UNCHANGED clock \/ clock' = clock + 1)
  BY DEF setSupplyQueue, Allocation, Deposit, Withdraw, reallocate, syncBalanceTracker, Report, Gift, Tick, vars
<1>2. clock' \in Nat \ {0}
  BY <1>1 DEF SettingsOK, SettingsTyped
<1> QED
  BY <1>1, <1>2 DEF SettingsOK, SettingsTyped, TimelockOK, AnnouncedOK, QueueMatchesConfig, delayed, markets

\* ... and every function keeps them so.
LEMMA SettingsKept ==
    ASSUME VaultAssumption, SettingsOK, [Next]_vars
    PROVE  SettingsOK'
BY RolesSettings, CapSettings, RemovalSettings, QueueSettings, OtherSettings DEF Next, Governance

-----------------------------------------------------------------------------
(* What is pending is announced, in the terms of Timelock                  *)

\* A pending value is an announced one of Timelock, an empty one is none.
LEMMA PendingIsAnnounced ==
    ASSUME VaultAssumption, NEW p, p \in PendingNumber \/ p \in PendingAddress
    PROVE  /\ p.validAt = 0 => Pending(p) = Nothing
           /\ p.validAt # 0 => Pending(p) = p /\ Pending(p) # Nothing
<1>1. p \in [value : Nat \cup Guardians \cup {NoGuardian}, validAt : Nat]
  BY DEF PendingNumber, PendingAddress
<1> QED
  BY <1>1 DEF Pending, VaultAssumption

\* The clock does not run back, and the notice is never below the least.
LEMMA NoticeKept ==
    ASSUME VaultAssumption, SettingsOK, SettingsOK', [Next]_vars
    PROVE  clock' >= clock /\ timelock' >= MinTimelock
<1>1. clock' = clock \/ clock' = clock + 1
  BY DEF Next, Governance, Allocation, vars, submitTimelock, acceptTimelock, revokePendingTimelock,
         submitGuardian, acceptGuardian, revokePendingGuardian, submitCap, acceptCap, revokePendingCap,
         submitMarketRemoval, revokePendingMarketRemoval, setSupplyQueue, updateWithdrawQueue,
         Deposit, Withdraw, reallocate, syncBalanceTracker, Report, Gift, Tick
<1> QED
  BY <1>1 DEF SettingsOK, SettingsTyped, TimelockOK

\* Every step is one of the Timelock of the timelock itself,
LEMMA TimelockStep ==
    ASSUME VaultAssumption, SettingsOK, SettingsOK', [Next]_vars
    PROVE  TimelockNotice!Next
<1>1. clock' >= clock /\ timelock' >= MinTimelock /\ clock \in Nat /\ timelock \in Nat
  BY NoticeKept DEF SettingsOK, SettingsTyped
<1>2. /\ pendingTimelock.validAt = 0 => Pending(pendingTimelock) = Nothing
      /\ pendingTimelock.validAt # 0 =>
             Pending(pendingTimelock) = pendingTimelock /\ Pending(pendingTimelock) # Nothing
  BY PendingIsAnnounced DEF SettingsOK, SettingsTyped
<1>3. /\ pendingTimelock'.validAt = 0 => Pending(pendingTimelock') = Nothing
      /\ pendingTimelock'.validAt # 0 =>
             Pending(pendingTimelock') = pendingTimelock' /\ Pending(pendingTimelock') # Nothing
  BY PendingIsAnnounced DEF SettingsOK, SettingsTyped
<1>4. NoPending.validAt = 0
  BY DEF NoPending
<1>5. ASSUME NEW t \in Timelocks, submitTimelock(t) PROVE TimelockNotice!Next
  <2>1. pendingTimelock.validAt = 0 /\ clock' = clock /\ t \in Nat
    BY <1>5 DEF submitTimelock, VaultAssumption
  <2>2. CASE t > timelock
    <3>1. timelock' = t /\ pendingTimelock'.validAt = 0
      BY <1>4, <1>5, <2>2 DEF submitTimelock, _setTimelock
    <3>2. TimelockNotice!Immediately
      BY <1>1, <1>2, <1>3, <2>1, <2>2, <3>1 DEF TimelockNotice!Immediately, Longer
    <3> QED
      BY <1>1, <3>2 DEF TimelockNotice!Next
  <2>3. CASE ~(t > timelock)
    <3>1. timelock' = timelock /\ pendingTimelock'.validAt = clock + timelock
      BY <1>5, <2>3 DEF submitTimelock, update
    <3>2. clock + timelock # 0 /\ clock + timelock >= clock + timelock
      BY Updated_
    <3>3. TimelockNotice!Announce
      BY <1>2, <1>3, <2>1, <3>1, <3>2 DEF TimelockNotice!Announce
    <3> QED
      BY <1>1, <3>3 DEF TimelockNotice!Next
  <2> QED
    BY <2>2, <2>3
<1>6. CASE acceptTimelock
  <2>1. /\ pendingTimelock.validAt # 0 /\ clock' = clock /\ clock >= pendingTimelock.validAt
        /\ timelock' = pendingTimelock.value /\ pendingTimelock'.validAt = 0
    BY <1>4, <1>6 DEF acceptTimelock, afterTimelock, _setTimelock
  <2>2. TimelockNotice!TakeEffect
    BY <1>2, <1>3, <2>1 DEF TimelockNotice!TakeEffect
  <2> QED
    BY <1>1, <2>2 DEF TimelockNotice!Next
<1>7. CASE revokePendingTimelock
  <2>1. pendingTimelock'.validAt = 0 /\ timelock' = timelock
    BY <1>4, <1>7 DEF revokePendingTimelock
  <2>2. CASE pendingTimelock.validAt = 0
    BY <1>1, <1>2, <1>3, <2>1, <2>2 DEF TimelockNotice!Next
  <2>3. CASE pendingTimelock.validAt # 0
    <3>1. TimelockNotice!Withdraw
      BY <1>2, <1>3, <2>1, <2>3 DEF TimelockNotice!Withdraw
    <3> QED
      BY <1>1, <3>1 DEF TimelockNotice!Next
  <2> QED
    BY <2>2, <2>3
<1>8. ASSUME UNCHANGED <<timelock, pendingTimelock>> PROVE TimelockNotice!Next
  BY <1>1, <1>8 DEF TimelockNotice!Next
<1>9. \/ \E t \in Timelocks : submitTimelock(t)
      \/ acceptTimelock \/ revokePendingTimelock
      \/ UNCHANGED <<timelock, pendingTimelock>>
  BY DEF Next, Governance, Allocation, vars, delayed,
         submitGuardian, acceptGuardian, revokePendingGuardian, submitCap, acceptCap, revokePendingCap,
         submitMarketRemoval, revokePendingMarketRemoval, setSupplyQueue, updateWithdrawQueue,
         Deposit, Withdraw, reallocate, syncBalanceTracker, Report, Gift, Tick
<1> QED
  BY <1>5, <1>6, <1>7, <1>8, <1>9

\* ... of the one of the guardian,
LEMMA GuardianStep ==
    ASSUME VaultAssumption, SettingsOK, SettingsOK', [Next]_vars
    PROVE  GuardianNotice!Next
<1>1. clock' >= clock /\ timelock' >= MinTimelock /\ clock \in Nat /\ timelock \in Nat
  BY NoticeKept DEF SettingsOK, SettingsTyped
<1>2. /\ pendingGuardian.validAt = 0 => Pending(pendingGuardian) = Nothing
      /\ pendingGuardian.validAt # 0 =>
             Pending(pendingGuardian) = pendingGuardian /\ Pending(pendingGuardian) # Nothing
  BY PendingIsAnnounced DEF SettingsOK, SettingsTyped
<1>3. /\ pendingGuardian'.validAt = 0 => Pending(pendingGuardian') = Nothing
      /\ pendingGuardian'.validAt # 0 =>
             Pending(pendingGuardian') = pendingGuardian' /\ Pending(pendingGuardian') # Nothing
  BY PendingIsAnnounced DEF SettingsOK, SettingsTyped
<1>4. NoPendingGuardian.validAt = 0
  BY DEF NoPendingGuardian
<1>5. ASSUME NEW g \in Guardians \cup {NoGuardian}, submitGuardian(g) PROVE GuardianNotice!Next
  <2>1. pendingGuardian.validAt = 0 /\ clock' = clock
    BY <1>5 DEF submitGuardian
  <2>2. CASE guardian = NoGuardian
    <3>1. pendingGuardian'.validAt = 0
      BY <1>4, <1>5, <2>2 DEF submitGuardian, _setGuardian
    <3>2. GuardianNotice!Immediately
      BY <1>2, <1>3, <2>1, <2>2, <3>1 DEF GuardianNotice!Immediately, Appoints
    <3> QED
      BY <1>1, <3>2 DEF GuardianNotice!Next
  <2>3. CASE guardian # NoGuardian
    <3>1. guardian' = guardian /\ pendingGuardian'.validAt = clock + timelock
      BY <1>5, <2>3 DEF submitGuardian, update
    <3>2. clock + timelock # 0 /\ clock + timelock >= clock + timelock
      BY Updated_
    <3>3. GuardianNotice!Announce
      BY <1>2, <1>3, <2>1, <3>1, <3>2 DEF GuardianNotice!Announce
    <3> QED
      BY <1>1, <3>3 DEF GuardianNotice!Next
  <2> QED
    BY <2>2, <2>3
<1>6. CASE acceptGuardian
  <2>1. /\ pendingGuardian.validAt # 0 /\ clock' = clock /\ clock >= pendingGuardian.validAt
        /\ guardian' = pendingGuardian.value /\ pendingGuardian'.validAt = 0
    BY <1>4, <1>6 DEF acceptGuardian, afterTimelock, _setGuardian
  <2>2. GuardianNotice!TakeEffect
    BY <1>2, <1>3, <2>1 DEF GuardianNotice!TakeEffect
  <2> QED
    BY <1>1, <2>2 DEF GuardianNotice!Next
<1>7. CASE revokePendingGuardian
  <2>1. pendingGuardian'.validAt = 0 /\ guardian' = guardian
    BY <1>4, <1>7 DEF revokePendingGuardian
  <2>2. CASE pendingGuardian.validAt = 0
    BY <1>1, <1>2, <1>3, <2>1, <2>2 DEF GuardianNotice!Next
  <2>3. CASE pendingGuardian.validAt # 0
    <3>1. GuardianNotice!Withdraw
      BY <1>2, <1>3, <2>1, <2>3 DEF GuardianNotice!Withdraw
    <3> QED
      BY <1>1, <3>1 DEF GuardianNotice!Next
  <2> QED
    BY <2>2, <2>3
<1>8. ASSUME UNCHANGED <<guardian, pendingGuardian>> PROVE GuardianNotice!Next
  BY <1>1, <1>8 DEF GuardianNotice!Next
<1>9. \/ \E g \in Guardians \cup {NoGuardian} : submitGuardian(g)
      \/ acceptGuardian \/ revokePendingGuardian
      \/ UNCHANGED <<guardian, pendingGuardian>>
  BY DEF Next, Governance, Allocation, vars, delayed,
         submitTimelock, acceptTimelock, revokePendingTimelock, submitCap, acceptCap, revokePendingCap,
         submitMarketRemoval, revokePendingMarketRemoval, setSupplyQueue, updateWithdrawQueue,
         Deposit, Withdraw, reallocate, syncBalanceTracker, Report, Gift, Tick
<1> QED
  BY <1>5, <1>6, <1>7, <1>8, <1>9

\* The cap of a market and what is pending for it
LEMMA CapSet ==
    ASSUME SettingsOK, NEW x \in Markets, NEW c \in Nat, _setCap(x, c)
    PROVE  /\ config'[x].cap = c /\ pendingCap'[x].validAt = 0
           /\ \A m \in Markets \ {x} : config'[m] = config[m] /\ pendingCap'[m] = pendingCap[m]
<1>1. config \in [Markets -> Config] /\ pendingCap \in [Markets -> PendingNumber]
  BY DEF SettingsOK, SettingsTyped
<1>2. /\ config' = [config EXCEPT ![x] = IF c > 0 THEN [cap |-> c, enabled |-> TRUE, removableAt |-> 0]
                                         ELSE [config[x] EXCEPT !.cap = 0]]
      /\ pendingCap' = [pendingCap EXCEPT ![x] = NoPending]
  BY DEF _setCap
<1>3. CASE c > 0
  BY <1>1, <1>2, <1>3 DEF NoPending
<1>4. CASE ~(c > 0)
  <2>1. c = 0 /\ config[x] \in Config
    BY <1>1, <1>4
  <2>2. config'[x] = [config[x] EXCEPT !.cap = 0]
    BY <1>1, <1>2, <1>4
  <2>3. config'[x].cap = 0
    BY <2>1, <2>2 DEF Config
  <2> QED
    BY <1>1, <1>2, <2>1, <2>3 DEF NoPending
<1> QED
  BY <1>3, <1>4

\* What is not a change of its cap leaves the cap of a market as it is.
LEMMA CapUntouched ==
    ASSUME SettingsOK, NEW m \in Markets,
           \/ \E x \in Markets : \/ submitMarketRemoval(x) \/ revokePendingMarketRemoval(x)
           \/ updateWithdrawQueue
    PROVE  config'[m].cap = config[m].cap /\ UNCHANGED pendingCap
<1>1. config \in [Markets -> Config]
  BY DEF SettingsOK, SettingsTyped
<1>2. ASSUME NEW x \in Markets, NEW r, config' = [config EXCEPT ![x].removableAt = r]
      PROVE  config'[m].cap = config[m].cap
  <2>1. config[x] \in Config
    BY <1>1
  <2>2. CASE m = x
    <3>1. config'[m] = [config[m] EXCEPT !.removableAt = r]
      BY <1>1, <1>2, <2>2
    <3> QED
      BY <2>1, <2>2, <3>1 DEF Config
  <2>3. CASE m # x
    BY <1>1, <1>2, <2>3
  <2> QED
    BY <2>2, <2>3
<1>3. ASSUME NEW x \in Markets, submitMarketRemoval(x) \/ revokePendingMarketRemoval(x)
      PROVE  config'[m].cap = config[m].cap /\ UNCHANGED pendingCap
  <2>1. PICK r : config' = [config EXCEPT ![x].removableAt = r]
    BY <1>3 DEF submitMarketRemoval, revokePendingMarketRemoval
  <2> QED
    BY <1>2, <1>3, <2>1 DEF submitMarketRemoval, revokePendingMarketRemoval
<1>4. CASE updateWithdrawQueue
  <2>1. PICK removed : /\ \A y \in removed : Removable(y)
                       /\ config' = [y \in Markets |-> IF y \in removed THEN NoConfig ELSE config[y]]
    BY <1>4 DEF updateWithdrawQueue
  <2>2. config'[m] = IF m \in removed THEN NoConfig ELSE config[m]
    BY <2>1
  <2>3. config'[m].cap = config[m].cap
    BY <2>1, <2>2 DEF NoConfig, Removable
  <2> QED
    BY <1>4, <2>3 DEF updateWithdrawQueue
<1> QED
  BY <1>3, <1>4

\* ... and of the one of each cap.
LEMMA CapStep ==
    ASSUME VaultAssumption, SettingsOK, SettingsOK', [Next]_vars, NEW m \in Markets
    PROVE  CapNotice(m)!Next
<1>1. clock' >= clock /\ timelock' >= MinTimelock /\ clock \in Nat /\ timelock \in Nat
  BY NoticeKept DEF SettingsOK, SettingsTyped
<1>2. /\ pendingCap[m].validAt = 0 => Pending(pendingCap[m]) = Nothing
      /\ pendingCap[m].validAt # 0 =>
             Pending(pendingCap[m]) = pendingCap[m] /\ Pending(pendingCap[m]) # Nothing
  BY PendingIsAnnounced DEF SettingsOK, SettingsTyped
<1>3. /\ pendingCap'[m].validAt = 0 => Pending(pendingCap'[m]) = Nothing
      /\ pendingCap'[m].validAt # 0 =>
             Pending(pendingCap'[m]) = pendingCap'[m] /\ Pending(pendingCap'[m]) # Nothing
  BY PendingIsAnnounced DEF SettingsOK, SettingsTyped
<1>4. /\ pendingCap \in [Markets -> PendingNumber] /\ NoPending.validAt = 0
      /\ config[m].cap \in Nat /\ pendingCap[m].value \in Nat
  BY DEF SettingsOK, SettingsTyped, NoPending, PendingNumber, Config
<1>5. ASSUME config'[m].cap = config[m].cap, pendingCap'[m] = pendingCap[m]
      PROVE  CapNotice(m)!Next
  BY <1>1, <1>5 DEF CapNotice!Next
<1>6. ASSUME NEW c \in Caps, submitCap(m, c) PROVE CapNotice(m)!Next
  <2>1. pendingCap[m].validAt = 0 /\ clock' = clock /\ c \in Nat
    BY <1>6 DEF submitCap, VaultAssumption
  <2>2. CASE c < config[m].cap
    <3>1. config'[m].cap = c /\ pendingCap'[m].validAt = 0
      BY <1>6, <2>1, <2>2, CapSet DEF submitCap
    <3>2. CapNotice(m)!Immediately
      BY <1>2, <1>3, <1>4, <2>1, <2>2, <3>1 DEF CapNotice!Immediately, Lower
    <3> QED
      BY <1>1, <3>2 DEF CapNotice!Next
  <2>3. CASE ~(c < config[m].cap)
    <3>1. /\ config' = config
          /\ pendingCap' = [pendingCap EXCEPT ![m] = [value |-> c, validAt |-> clock + timelock]]
      BY <1>6, <2>3 DEF submitCap, update
    <3>2. pendingCap'[m].validAt = clock + timelock
      BY <1>4, <3>1
    <3>3. clock + timelock # 0 /\ clock + timelock >= clock + timelock
      BY Updated_
    <3>4. CapNotice(m)!Announce
      BY <1>2, <1>3, <2>1, <3>1, <3>2, <3>3 DEF CapNotice!Announce
    <3> QED
      BY <1>1, <3>4 DEF CapNotice!Next
  <2> QED
    BY <2>2, <2>3
<1>7. CASE acceptCap(m)
  <2>1. pendingCap[m].validAt # 0 /\ clock' = clock /\ clock >= pendingCap[m].validAt
    BY <1>7 DEF acceptCap, afterTimelock
  <2>2. config'[m].cap = pendingCap[m].value /\ pendingCap'[m].validAt = 0
    BY <1>4, <1>7, CapSet DEF acceptCap
  <2>3. CapNotice(m)!TakeEffect
    BY <1>2, <1>3, <2>1, <2>2 DEF CapNotice!TakeEffect
  <2> QED
    BY <1>1, <2>3 DEF CapNotice!Next
<1>8. CASE revokePendingCap(m)
  <2>1. config' = config /\ pendingCap'[m].validAt = 0
    BY <1>4, <1>8 DEF revokePendingCap
  <2>2. CASE pendingCap[m].validAt = 0
    BY <1>1, <1>2, <1>3, <2>1, <2>2 DEF CapNotice!Next
  <2>3. CASE pendingCap[m].validAt # 0
    <3>1. CapNotice(m)!Withdraw
      BY <1>2, <1>3, <2>1, <2>3 DEF CapNotice!Withdraw
    <3> QED
      BY <1>1, <3>1 DEF CapNotice!Next
  <2> QED
    BY <2>2, <2>3
<1>9. ASSUME NEW x \in Markets \ {m},
             (\E c \in Caps : submitCap(x, c)) \/ acceptCap(x) \/ revokePendingCap(x)
      PROVE  CapNotice(m)!Next
  <2>1. ASSUME NEW c \in Nat, _setCap(x, c) PROVE CapNotice(m)!Next
    BY <1>5, <2>1, CapSet
  <2>2. ASSUME config' = config, NEW p, pendingCap' = [pendingCap EXCEPT ![x] = p]
        PROVE  CapNotice(m)!Next
    <3>1. pendingCap'[m] = pendingCap[m]
      BY <1>4, <2>2
    <3> QED
      BY <1>5, <2>2, <3>1
  <2>3. ASSUME NEW c \in Caps, submitCap(x, c) PROVE CapNotice(m)!Next
    <3>1. c \in Nat
      BY DEF VaultAssumption
    <3> QED
      BY <2>1, <2>2, <2>3, <3>1 DEF submitCap
  <2>4. CASE acceptCap(x)
    <3>1. pendingCap[x].value \in Nat
      BY <1>4 DEF PendingNumber
    <3> QED
      BY <2>1, <2>4, <3>1 DEF acceptCap
  <2>5. CASE revokePendingCap(x)
    BY <2>2, <2>5 DEF revokePendingCap
  <2> QED
    BY <1>9, <2>3, <2>4, <2>5
<1>10. CASE \/ \E x \in Markets : submitMarketRemoval(x) \/ revokePendingMarketRemoval(x)
            \/ updateWithdrawQueue
  BY <1>5, <1>10, CapUntouched
<1>11. CASE UNCHANGED <<config, pendingCap>>
  BY <1>5, <1>11
<1>12. \/ \E x \in Markets : \/ \E c \in Caps : submitCap(x, c)
                             \/ acceptCap(x) \/ revokePendingCap(x)
       \/ \E x \in Markets : submitMarketRemoval(x) \/ revokePendingMarketRemoval(x)
       \/ updateWithdrawQueue
       \/ UNCHANGED <<config, pendingCap>>
  BY DEF Next, Governance, Allocation, vars, markets,
         submitTimelock, acceptTimelock, revokePendingTimelock, submitGuardian, acceptGuardian,
         revokePendingGuardian, setSupplyQueue, Deposit, Withdraw, reallocate, syncBalanceTracker,
         Report, Gift, Tick
<1> QED
  BY <1>6, <1>7, <1>8, <1>9, <1>10, <1>11, <1>12

-----------------------------------------------------------------------------
(* Folds over a queue.  The library's induction theorems have an operator as    *)
(* parameter; these are about sets of numbers instead.                          *)

\* Induction, with the numbers it holds for as a set
LEMMA Induction ==
    ASSUME NEW F, 0 \in F, \A n \in F \cap Nat : n + 1 \in F
    PROVE  Nat \subseteq F
<1> DEFINE Bad == Nat \ F
<1> SUFFICES ASSUME Bad # {} PROVE FALSE
  OBVIOUS
<1>1. PICK n \in Bad : \A k \in Bad : <<k, n>> \notin OpToRel(<, Nat)
  <2>1. Bad \subseteq Nat
    OBVIOUS
  <2> HIDE DEF Bad
  <2> QED
    BY <2>1, NatLessThanWellFounded, WFMin
<1>2. \A k \in Bad : ~(k < n)
  BY <1>1 DEF OpToRel
<1>3. n \in Nat /\ n # 0 /\ n - 1 \in Nat /\ n - 1 < n
  OBVIOUS
<1>4. n - 1 \in F
  BY <1>2, <1>3
<1>5. (n - 1) + 1 = n
  BY <1>3
<1> QED
  BY <1>3, <1>4, <1>5

\* A nonempty set of places has a last one.
LEMMA LastPlace ==
    ASSUME NEW n \in Nat, NEW S \in SUBSET (1 .. n), S # {}
    PROVE  Max(S) \in S /\ \A y \in S : Max(S) >= y
<1> DEFINE F == {k \in Nat : \A T \in SUBSET (1 .. k) : T # {} => \E x \in T : \A y \in T : x >= y}
<1>1. 0 \in F
  <2>1. \A T \in SUBSET (1 .. 0) : T = {}
    OBVIOUS
  <2> QED
    BY <2>1
<1>2. ASSUME NEW k \in F \cap Nat PROVE k + 1 \in F
  <2>1. ASSUME NEW T \in SUBSET (1 .. (k + 1)), T # {} PROVE \E x \in T : \A y \in T : x >= y
    <3>1. CASE k + 1 \in T
      BY <2>1, <3>1
    <3>2. CASE k + 1 \notin T
      <4>1. T \in SUBSET (1 .. k)
        BY <3>2
      <4> QED
        BY <2>1, <4>1
    <3> QED
      BY <3>1, <3>2
  <2> QED
    BY <2>1
<1>3. n \in F
  <2> HIDE DEF F
  <2> QED
    BY <1>1, <1>2, Induction
<1>4. \E x \in S : \A y \in S : x >= y
  BY <1>3
<1> QED
  BY <1>4 DEF Max

\* The last of the first places
LEMMA LastOfFirst ==
    ASSUME NEW k \in Nat, k # 0
    PROVE  Max(1 .. k) = k /\ (1 .. k) \ {Max(1 .. k)} = 1 .. (k - 1)
<1>1. 1 .. k \in SUBSET (1 .. k) /\ 1 .. k # {} /\ k \in 1 .. k
  OBVIOUS
<1>2. Max(1 .. k) \in 1 .. k /\ \A y \in 1 .. k : Max(1 .. k) >= y
  BY <1>1, LastPlace
<1>3. Max(1 .. k) = k
  BY <1>1, <1>2
<1> QED
  BY <1>3

\* The equation of a fold over the places 1 .. n, with step as a function
Folded(h, n, base, step) ==
    h = [S \in SUBSET (1 .. n) |-> IF S = {} THEN base ELSE step[<<h[S \ {Max(S)}], Max(S)>>]]

\* It has a solution, built from the front.
LEMMA FoldExists ==
    ASSUME NEW A, NEW base \in A, NEW N \in Nat, NEW step \in [A \X (1 .. N) -> A]
    PROVE  \E h \in [SUBSET (1 .. N) -> A] : Folded(h, N, base, step)
<1> DEFINE Solved(n) == \E h \in [SUBSET (1 .. n) -> A] : Folded(h, n, base, step)
           F == {n \in Nat : n <= N => Solved(n)}
<1>1. 0 \in F
  <2> DEFINE h == [S \in SUBSET (1 .. 0) |-> base]
  <2>1. \A S \in SUBSET (1 .. 0) : S = {}
    OBVIOUS
  <2>2. h \in [SUBSET (1 .. 0) -> A] /\ Folded(h, 0, base, step)
    BY <2>1 DEF Folded
  <2> QED
    BY <2>2
<1>2. ASSUME NEW n \in F \cap Nat PROVE n + 1 \in F
  <2>0. n \in Nat /\ n + 1 \in Nat /\ (n + 1 <= N => n <= N)
    OBVIOUS
  <2> SUFFICES ASSUME n + 1 <= N PROVE Solved(n + 1)
    <3> HIDE DEF Solved
    <3> QED
      BY <2>0
  <2>a. Solved(n)
    <3> HIDE DEF Solved
    <3> QED
      BY <2>0
  <2>1. PICK h \in [SUBSET (1 .. n) -> A] : Folded(h, n, base, step)
    BY <2>a
  <2> DEFINE g == [S \in SUBSET (1 .. (n + 1)) |->
                     IF n + 1 \in S THEN step[<<h[S \ {n + 1}], n + 1>>] ELSE h[S]]
  <2>2. ASSUME NEW S \in SUBSET (1 .. (n + 1))
        PROVE  S \ {n + 1} \in SUBSET (1 .. n) /\ (n + 1 \notin S => S \in SUBSET (1 .. n))
    OBVIOUS
  <2>3. n + 1 \in 1 .. N
    OBVIOUS
  <2>4. g \in [SUBSET (1 .. (n + 1)) -> A]
    BY <2>2, <2>3
  <2>5. ASSUME NEW S \in SUBSET (1 .. n) PROVE S \in SUBSET (1 .. (n + 1)) /\ n + 1 \notin S /\ g[S] = h[S]
    OBVIOUS
  <2>6. ASSUME NEW S \in SUBSET (1 .. (n + 1))
        PROVE  g[S] = IF S = {} THEN base ELSE step[<<g[S \ {Max(S)}], Max(S)>>]
    <3>1. CASE n + 1 \in S
      <4>1. Max(S) \in S /\ \A y \in S : Max(S) >= y
        BY <2>0, <3>1, LastPlace
      <4>2. Max(S) = n + 1
        <5>1. \A y \in S : y \in Nat /\ y <= n + 1
          BY <2>0
        <5>2. Max(S) \in Nat /\ Max(S) <= n + 1 /\ Max(S) >= n + 1
          BY <3>1, <4>1, <5>1
        <5> HIDE DEF g, F, Solved
        <5> QED
          BY <2>0, <5>2
      <4>3. g[S \ {Max(S)}] = h[S \ {n + 1}]
        BY <2>2, <2>5, <4>2
      <4> QED
        BY <3>1, <4>2, <4>3
    <3>2. CASE n + 1 \notin S
      <4>1. S \in SUBSET (1 .. n) /\ g[S] = h[S]
        BY <2>2, <3>2
      <4>2. h[S] = IF S = {} THEN base ELSE step[<<h[S \ {Max(S)}], Max(S)>>]
        BY <2>1, <4>1 DEF Folded
      <4>3. S \ {Max(S)} \in SUBSET (1 .. n)
        BY <4>1
      <4>4. g[S \ {Max(S)}] = h[S \ {Max(S)}]
        BY <2>5, <4>3
      <4> HIDE DEF g
      <4> QED
        BY <4>1, <4>2, <4>4
    <3> QED
      BY <3>1, <3>2
  <2> HIDE DEF g
  <2>7. Folded(g, n + 1, base, step)
    BY <2>4, <2>6 DEF Folded
  <2> QED
    BY <2>4, <2>7
<1>3. N \in F
  <2> HIDE DEF F
  <2> QED
    BY <1>1, <1>2, Induction
<1> QED
  BY <1>3

\* The two folds of the vault: what the queue takes, and what it pays.
Step(kind, chosen, acc, m) ==
    IF kind = "supply" THEN SupplyTo(acc, m, chosen) ELSE TakeFrom(acc, m, chosen)

Iteration(h, kind, chosen, base, q) ==
    h = [S \in SUBSET (DOMAIN q) |->
           IF S = {} THEN base ELSE Step(kind, chosen, h[S \ {Max(S)}], q[Max(S)])]

Result(kind, chosen, base, q) == (CHOOSE h : Iteration(h, kind, chosen, base, q))[DOMAIN q]

\* _supplyERC4626 is the result after the last market of the supply queue,
LEMMA SupplyIsFold ==
    ASSUME NEW assets, NEW open
    PROVE  _supplyERC4626(assets, open) =
             Result("supply", open, [funds |-> funds, left |-> assets, reverted |-> FALSE], supplyQueue)
BY DEF _supplyERC4626, FoldLeft, MapThenFoldSet, Result, Iteration, Step

\* ... and _withdrawERC4626 that after the last one of the withdraw queue.
LEMMA WithdrawIsFold ==
    ASSUME NEW assets, NEW liquid
    PROVE  _withdrawERC4626(assets, liquid) =
             Result("take", liquid, [funds |-> funds, left |-> assets], withdrawQueue)
BY DEF _withdrawERC4626, FoldLeft, MapThenFoldSet, Result, Iteration, Step

\* What holds at first and is kept by every market of the queue holds of the result.
LEMMA FoldKeeps ==
    ASSUME NEW kind, NEW chosen, NEW q \in Seq(Markets), NEW G, NEW base \in G,
           \A a \in G, m \in Markets : Step(kind, chosen, a, m) \in G
    PROVE  Result(kind, chosen, base, q) \in G
<1> DEFINE N == Len(q)
           step == [p \in G \X (1 .. N) |-> Step(kind, chosen, p[1], q[p[2]])]
           g == CHOOSE h : Iteration(h, kind, chosen, base, q)
<1>1. N \in Nat /\ DOMAIN q = 1 .. N /\ \A i \in 1 .. N : q[i] \in Markets
  OBVIOUS
<1>2. Iteration(g, kind, chosen, base, q)
  <2>1. \A a \in G, i \in 1 .. N : step[<<a, i>>] = Step(kind, chosen, a, q[i])
    OBVIOUS
  <2>2. step \in [G \X (1 .. N) -> G]
    BY <1>1
  <2> HIDE DEF step, N
  <2>3. PICK h \in [SUBSET (1 .. N) -> G] : Folded(h, N, base, step)
    BY <1>1, <2>2, FoldExists
  <2>4. ASSUME NEW S \in SUBSET (1 .. N), S # {}
        PROVE  step[<<h[S \ {Max(S)}], Max(S)>>] = Step(kind, chosen, h[S \ {Max(S)}], q[Max(S)])
    <3>1. Max(S) \in 1 .. N
      BY <1>1, <2>4, LastPlace
    <3>2. h[S \ {Max(S)}] \in G
      BY <2>3
    <3> QED
      BY <2>1, <3>1, <3>2
  <2>5. h = [S \in SUBSET (DOMAIN q) |->
               IF S = {} THEN base ELSE Step(kind, chosen, h[S \ {Max(S)}], q[Max(S)])]
    BY <1>1, <2>3, <2>4 DEF Folded
  <2>6. Iteration(h, kind, chosen, base, q)
    BY <2>5 DEF Iteration
  <2> QED
    BY <2>6
<1> HIDE DEF g, N, step
<1> DEFINE F == {n \in Nat : n <= N => g[1 .. n] \in G}
<1>3. 0 \in F
  <2>1. 1 .. 0 = {} /\ {} \in SUBSET (1 .. N)
    OBVIOUS
  <2>2. g[{}] = base
    BY <1>1, <1>2, <2>1 DEF Iteration
  <2> QED
    BY <2>1, <2>2
<1>4. ASSUME NEW n \in F \cap Nat PROVE n + 1 \in F
  <2> SUFFICES ASSUME n + 1 <= N PROVE g[1 .. (n + 1)] \in G
    OBVIOUS
  <2>1. n \in Nat /\ g[1 .. n] \in G
    BY <1>1
  <2>2. /\ 1 .. (n + 1) \in SUBSET (1 .. N) /\ n + 1 \in 1 .. (n + 1) /\ n + 1 \in Nat /\ n + 1 # 0
        /\ (n + 1) - 1 = n /\ n + 1 \in 1 .. N
    <3> HIDE DEF F
    <3> QED
      BY <1>1, <2>1
  <2>3. Max(1 .. (n + 1)) = n + 1 /\ (1 .. (n + 1)) \ {Max(1 .. (n + 1))} = 1 .. n
    BY <2>2, LastOfFirst
  <2>4. g[1 .. (n + 1)] = Step(kind, chosen, g[1 .. n], q[n + 1])
    BY <1>1, <1>2, <2>2, <2>3 DEF Iteration
  <2> QED
    BY <1>1, <2>1, <2>2, <2>4
<1>5. N \in F
  <2> HIDE DEF F
  <2> QED
    BY <1>1, <1>3, <1>4, Induction
<1> QED
  BY <1>1, <1>5 DEF Result, g

-----------------------------------------------------------------------------
(* Funds                                                                   *)

\* A market pays for no more shares than the vault has there.
LEMMA SharesPaid ==
    ASSUME NEW s \in Nat, NEW r \in Nat, NEW a \in Nat, a # 0, a <= s * r
    PROVE  (a + r - 1) \div r \in Nat /\ (a + r - 1) \div r <= s
<1>1. r # 0
  BY SMT
<1>2. a + r - 1 \in Nat
  OBVIOUS
<1> DEFINE q == (a + r - 1) \div r
<1>3. q \in Nat /\ q * r <= a + r - 1
  BY <1>1, <1>2, SMT
<1> HIDE DEF q
<1>4. q <= s
  <2> SUFFICES ASSUME q >= s + 1 PROVE FALSE
    BY <1>3
  <2>1. q * r >= (s + 1) * r
    BY <1>3, SMT
  <2>2. (s + 1) * r = s * r + r
    BY SMT
  <2>3. s * r \in Nat /\ q * r \in Nat
    BY <1>3, SMT
  <2> DEFINE x == s * r
             y == q * r
             z == (s + 1) * r
  <2>4. y >= z /\ z = x + r /\ x \in Nat /\ y \in Nat /\ a <= x /\ y <= a + r - 1
    BY <1>3, <2>1, <2>2, <2>3
  <2> HIDE DEF x, y, z
  <2> QED
    BY <2>4
<1> QED
  BY <1>3, <1>4 DEF q

\* A deposit in a market gets a number of shares,
LEMMA SharesGot ==
    ASSUME NEW m \in Markets, rate \in [Markets -> Nat], NEW a \in Nat
    PROVE  SharesFor(m, a) \in Nat
<1>1. CASE rate[m] = 0
  BY <1>1 DEF SharesFor
<1>2. CASE rate[m] # 0
  <2>1. rate[m] \in Nat
    OBVIOUS
  <2> DEFINE r == rate[m]
  <2> HIDE DEF r
  <2>2. ASSUME NEW n \in Nat, n # 0 PROVE a \div n \in Nat
    BY <2>2, SMT
  <2>3. a \div rate[m] \in Nat
    BY <1>2, <2>1, <2>2
  <2> QED
    BY <1>2, <2>3 DEF SharesFor
<1> QED
  BY <1>1, <1>2

\* ... and the vault expects a number of assets for its shares.
LEMMA ExpectedNat ==
    ASSUME NEW f \in [Markets -> Fund], NEW m \in Markets, rate \in [Markets -> Nat]
    PROVE  Expected(f, m) \in Nat
<1>1. f[m].shares \in Nat /\ rate[m] \in Nat
  BY DEF Fund
<1>2. \A x, y \in Nat : x * y \in Nat
  BY SMT
<1> QED
  BY <1>1, <1>2 DEF Expected

\* The own count follows the report of the market when that is higher.
LEMMA UpdatedFund ==
    ASSUME NEW f \in [Markets -> Fund], NEW m \in Markets, rate \in [Markets -> Nat]
    PROVE  /\ Updated(f, m) \in [Markets -> Fund]
           /\ Updated(f, m)[m].shares = f[m].shares
           /\ Updated(f, m)[m].principal = f[m].principal
           /\ Updated(f, m)[m].balanceTracker >= f[m].balanceTracker
           /\ \A x \in Markets \ {m} : Updated(f, m)[x] = f[x]
<1> DEFINE n == Expected(f, m)
<1>1. n \in Nat /\ f[m] \in Fund
  BY ExpectedNat
<1>2. CASE n > f[m].balanceTracker
  <2>1. Updated(f, m) = [f EXCEPT ![m].balanceTracker = n]
    BY <1>2 DEF Updated
  <2> HIDE DEF n
  <2>2. [f[m] EXCEPT !.balanceTracker = n] = [shares |-> f[m].shares, balanceTracker |-> n, principal |-> f[m].principal]
    BY <1>1 DEF Fund
  <2>3. Updated(f, m) = [f EXCEPT ![m] = [shares |-> f[m].shares, balanceTracker |-> n, principal |-> f[m].principal]]
    BY <2>1, <2>2
  <2>4. [shares |-> f[m].shares, balanceTracker |-> n, principal |-> f[m].principal] \in Fund
    BY <1>1 DEF Fund
  <2>5. Updated(f, m)[m] = [shares |-> f[m].shares, balanceTracker |-> n, principal |-> f[m].principal]
    BY <2>3
  <2>6. n >= f[m].balanceTracker
    BY <1>1, <1>2 DEF Fund
  <2> QED
    BY <2>3, <2>4, <2>5, <2>6
<1>3. CASE ~(n > f[m].balanceTracker)
  <2>1. Updated(f, m) = f
    BY <1>3 DEF Updated
  <2>2. f[m].balanceTracker >= f[m].balanceTracker
    BY <1>1 DEF Fund
  <2> QED
    BY <2>1, <2>2
<1> QED
  BY <1>2, <1>3

\* A supply to a market is counted there and nowhere else,
LEMMA SuppliedFund ==
    ASSUME NEW f \in [Markets -> Fund], NEW m \in Markets, rate \in [Markets -> Nat], NEW a \in Nat
    PROVE  /\ Supplied(f, m, a) \in [Markets -> Fund]
           /\ Supplied(f, m, a)[m].principal = f[m].principal + a
           /\ Supplied(f, m, a)[m].balanceTracker = f[m].balanceTracker + a
           /\ \A x \in Markets \ {m} : Supplied(f, m, a)[x] = f[x]
<1> DEFINE new == [shares |-> f[m].shares + SharesFor(m, a), balanceTracker |-> f[m].balanceTracker + a,
                   principal |-> f[m].principal + a]
<1>1. new \in Fund
  <2>1. f[m] \in Fund /\ SharesFor(m, a) \in Nat
    BY SharesGot
  <2> QED
    BY <2>1 DEF Fund
<1>2. Supplied(f, m, a) = [f EXCEPT ![m] = new]
  BY DEF Supplied
<1>3. new.principal = f[m].principal + a /\ new.balanceTracker = f[m].balanceTracker + a
  OBVIOUS
<1> HIDE DEF new
<1> QED
  BY <1>1, <1>2, <1>3

\* ... and so is a withdrawal from it.
LEMMA TakenFund ==
    ASSUME NEW f \in [Markets -> Fund], NEW m \in Markets, rate \in [Markets -> Nat],
           NEW a \in Nat, a # 0, a <= Expected(f, m)
    PROVE  /\ Taken(f, m, a) \in [Markets -> Fund]
           /\ Taken(f, m, a)[m].principal = Above(f[m].principal, a)
           /\ Taken(f, m, a)[m].balanceTracker = Above(f[m].balanceTracker, a)
           /\ \A x \in Markets \ {m} : Taken(f, m, a)[x] = f[x]
<1> DEFINE new == [shares |-> f[m].shares - SharesOf(m, a), balanceTracker |-> Above(f[m].balanceTracker, a),
                   principal |-> Above(f[m].principal, a)]
<1>1. f[m] \in Fund /\ rate[m] \in Nat /\ a <= f[m].shares * rate[m] /\ f[m].shares \in Nat
  BY DEF Fund, Expected
<1>2. SharesOf(m, a) \in Nat /\ SharesOf(m, a) <= f[m].shares
  BY <1>1, SharesPaid DEF SharesOf
<1>3. \A x \in Nat : Above(x, a) \in Nat
  BY DEF Above
<1>4. new \in Fund
  BY <1>1, <1>2, <1>3 DEF Fund
<1>5. Taken(f, m, a) = [f EXCEPT ![m] = new]
  BY DEF Taken
<1>6. new.principal = Above(f[m].principal, a) /\ new.balanceTracker = Above(f[m].balanceTracker, a)
  OBVIOUS
<1> HIDE DEF new
<1> QED
  BY <1>4, <1>5, <1>6

\* What the vault relies on about f, the funds in the course of a call: they are
\* counted, and no principal that is above the cap is above what it was.
WithinCap(f) == \A m \in Markets : f[m].principal > funds[m].principal => f[m].principal <= config[m].cap
Good(f) == f \in [Markets -> Fund] /\ PrincipalCounted(f) /\ WithinCap(f)

\* An update of what the vault counts for a market exceeds no cap,
LEMMA UpdatedGood ==
    ASSUME NEW f, Good(f), NEW m \in Markets, rate \in [Markets -> Nat]
    PROVE  Good(Updated(f, m))
<1>1. f \in [Markets -> Fund]
  BY DEF Good
<1> DEFINE g == Updated(f, m)
<1>2. /\ g \in [Markets -> Fund] /\ g[m].principal = f[m].principal
      /\ g[m].balanceTracker >= f[m].balanceTracker /\ \A x \in Markets \ {m} : g[x] = f[x]
  BY <1>1, UpdatedFund
<1> HIDE DEF g
<1>3. f[m].principal <= f[m].balanceTracker
  BY DEF Good, PrincipalCounted
<1>4. f[m] \in Fund /\ g[m] \in Fund
  BY <1>1, <1>2
<1>5. g[m].principal <= g[m].balanceTracker
  BY <1>2, <1>3, <1>4 DEF Fund
<1>6. PrincipalCounted(g)
  BY <1>2, <1>5 DEF Good, PrincipalCounted
<1>7. WithinCap(g)
  BY <1>2 DEF Good, WithinCap
<1> QED
  BY <1>2, <1>6, <1>7 DEF Good, g

\* A deposit that leaves the own count within the cap
LEMMA SuppliedGood ==
    ASSUME NEW f, Good(f), NEW m \in Markets, rate \in [Markets -> Nat], NEW a \in Nat,
           NEW cap \in Nat, config[m].cap = cap, f[m].balanceTracker + a <= cap
    PROVE  Good(Supplied(f, m, a))
<1>1. f \in [Markets -> Fund]
  BY DEF Good
<1> DEFINE g == Supplied(f, m, a)
<1>2. /\ g \in [Markets -> Fund] /\ g[m].principal = f[m].principal + a
      /\ g[m].balanceTracker = f[m].balanceTracker + a /\ \A x \in Markets \ {m} : g[x] = f[x]
  BY <1>1, SuppliedFund
<1> HIDE DEF g
<1>3. f[m].principal <= f[m].balanceTracker /\ f[m].principal \in Nat /\ f[m].balanceTracker \in Nat
  BY <1>1 DEF Good, PrincipalCounted, Fund
<1>4. g[m].principal <= g[m].balanceTracker /\ g[m].principal <= cap
  BY <1>2, <1>3
<1>5. PrincipalCounted(g)
  BY <1>2, <1>4 DEF Good, PrincipalCounted
<1>6. WithinCap(g)
  BY <1>2, <1>4 DEF Good, WithinCap
<1> QED
  BY <1>2, <1>5, <1>6 DEF Good, g

\* ... and neither does a withdrawal.
LEMMA TakenGood ==
    ASSUME NEW f, Good(f), NEW m \in Markets, rate \in [Markets -> Nat], NEW a \in Nat, a # 0,
           a <= Expected(f, m), funds \in [Markets -> Fund], NEW cap \in Nat, config[m].cap = cap
    PROVE  Good(Taken(f, m, a))
<1>1. f \in [Markets -> Fund]
  BY DEF Good
<1> DEFINE g == Taken(f, m, a)
<1>2. /\ g \in [Markets -> Fund] /\ g[m].principal = Above(f[m].principal, a)
      /\ g[m].balanceTracker = Above(f[m].balanceTracker, a) /\ \A x \in Markets \ {m} : g[x] = f[x]
  BY <1>1, TakenFund
<1> HIDE DEF g
<1>3. /\ f[m].principal <= f[m].balanceTracker /\ f[m].principal \in Nat /\ f[m].balanceTracker \in Nat
      /\ funds[m].principal \in Nat
      /\ f[m].principal > funds[m].principal => f[m].principal <= cap
  BY <1>1 DEF Good, PrincipalCounted, WithinCap, Fund
<1>4. g[m].principal <= g[m].balanceTracker
  BY <1>2, <1>3 DEF Above
<1>5. g[m].principal > funds[m].principal => g[m].principal <= cap
  BY <1>2, <1>3 DEF Above
<1>6. PrincipalCounted(g)
  BY <1>2, <1>4 DEF Good, PrincipalCounted
<1>7. WithinCap(g)
  BY <1>2, <1>5 DEF Good, WithinCap
<1> QED
  BY <1>2, <1>6, <1>7 DEF Good, g

\* A cap is a number.
LEMMA ConfigCap ==
    ASSUME SettingsOK, NEW m \in Markets
    PROVE  config[m].cap \in Nat
BY DEF SettingsOK, SettingsTyped, Config

\* The smaller of two numbers is at most each of them.
LEMMA SmallerNat ==
    ASSUME NEW x \in Nat, NEW y \in Nat
    PROVE  SmallerOf(x, y) \in Nat /\ SmallerOf(x, y) <= x /\ SmallerOf(x, y) <= y
BY DEF SmallerOf

\* No deposit is above what the cap leaves by the own count.
LEMMA RoomFits ==
    ASSUME SettingsOK, NEW f \in [Markets -> Fund], NEW m \in Markets, rate \in [Markets -> Nat],
           NEW a \in Nat, a # 0, a <= Room(f, m)
    PROVE  f[m].balanceTracker + a <= config[m].cap
<1> DEFINE c == config[m].cap
           b == f[m].balanceTracker
           e == Expected(f, m)
<1>1. c \in Nat /\ b \in Nat /\ e \in Nat
  BY ConfigCap, ExpectedNat DEF Fund
<1>2. a <= SmallerOf(Above(c, e), Above(c, b))
  BY DEF Room
<1> HIDE DEF c, b, e
<1>3. Above(c, e) \in Nat /\ Above(c, b) \in Nat
  BY <1>1 DEF Above
<1>4. a <= Above(c, b)
  BY <1>2, <1>3 DEF SmallerOf
<1>5. b + a <= c
  BY <1>1, <1>4 DEF Above
<1> QED
  BY <1>5 DEF c, b

\* What fits below a cap is a number.
LEMMA RoomIsNat ==
    ASSUME SettingsOK, NEW f \in [Markets -> Fund], NEW m \in Markets, rate \in [Markets -> Nat]
    PROVE  Room(f, m) \in Nat
<1>1. config[m].cap \in Nat /\ f[m].balanceTracker \in Nat /\ Expected(f, m) \in Nat
  BY ConfigCap, ExpectedNat DEF Fund
<1>2. \A x, y \in Nat : Above(x, y) \in Nat
  BY DEF Above
<1> QED
  BY <1>1, <1>2, SmallerNat DEF Room

Supplying == {acc \in [funds : [Markets -> Fund], left : Nat, reverted : BOOLEAN] : Good(acc.funds)}
Taking == {acc \in [funds : [Markets -> Fund], left : Nat] : Good(acc.funds)}

\* One turn of the loop over the supply queue keeps all markets within their caps,
LEMMA SupplyStep ==
    ASSUME SettingsOK, FundsOK, NEW acc \in Supplying, NEW m \in Markets, NEW open
    PROVE  SupplyTo(acc, m, open) \in Supplying
<1> DEFINE f == Updated(acc.funds, m)
           a == IF m \in open THEN SmallerOf(Room(f, m), acc.left) ELSE 0
<1>1. rate \in [Markets -> Nat] /\ acc.left \in Nat /\ acc.reverted \in BOOLEAN /\ Good(acc.funds)
  BY DEF FundsOK, Supplying
<1>2. Good(f) /\ f \in [Markets -> Fund]
  BY <1>1, UpdatedGood DEF Good
<1>3. a \in Nat /\ a <= acc.left /\ (a # 0 => a <= Room(f, m))
  <2>1. Room(f, m) \in Nat
    BY <1>1, <1>2, RoomIsNat
  <2> HIDE DEF f
  <2>2. /\ SmallerOf(Room(f, m), acc.left) \in Nat /\ SmallerOf(Room(f, m), acc.left) <= acc.left
        /\ SmallerOf(Room(f, m), acc.left) <= Room(f, m)
    BY <1>1, <2>1, SmallerNat
  <2>3. 0 <= acc.left
    BY <1>1
  <2> QED
    BY <2>2, <2>3
<1>4. SupplyTo(acc, m, open) =
        IF acc.left = 0 \/ acc.reverted \/ config[m].cap = 0 THEN acc
        ELSE IF a = 0 \/ ~Worth(m, a) THEN [acc EXCEPT !.funds = f]
        ELSE [funds |-> Supplied(f, m, a), left |-> acc.left - a, reverted |-> ~NoLoss(m, a)]
  BY DEF SupplyTo
<1> HIDE DEF f, a
<1>5. [acc EXCEPT !.funds = f] \in Supplying
  <2>1. [acc EXCEPT !.funds = f] = [funds |-> f, left |-> acc.left, reverted |-> acc.reverted]
    BY DEF Supplying
  <2> QED
    BY <1>1, <1>2, <2>1 DEF Supplying
<1>6. ASSUME a # 0
      PROVE  [funds |-> Supplied(f, m, a), left |-> acc.left - a, reverted |-> ~NoLoss(m, a)] \in Supplying
  <2>1. f[m].balanceTracker + a <= config[m].cap /\ config[m].cap \in Nat
    BY <1>1, <1>2, <1>3, <1>6, RoomFits, ConfigCap
  <2>2. Good(Supplied(f, m, a))
    BY <1>1, <1>2, <1>3, <2>1, SuppliedGood
  <2>3. Supplied(f, m, a) \in [Markets -> Fund]
    BY <2>2 DEF Good
  <2>4. acc.left - a \in Nat
    BY <1>1, <1>3
  <2> DEFINE r == ~NoLoss(m, a)
  <2>5. r \in BOOLEAN
    OBVIOUS
  <2> HIDE DEF r
  <2>6. [funds |-> Supplied(f, m, a), left |-> acc.left - a, reverted |-> r] \in Supplying
    BY <2>2, <2>3, <2>4, <2>5 DEF Supplying
  <2> QED
    BY <2>6 DEF r
<1> QED
  BY <1>4, <1>5, <1>6

\* ... and so does one over the withdraw queue.
LEMMA TakeStep ==
    ASSUME SettingsOK, FundsOK, NEW acc \in Taking, NEW m \in Markets, NEW liquid
    PROVE  TakeFrom(acc, m, liquid) \in Taking
<1> DEFINE f == Updated(acc.funds, m)
           a == IF m \in liquid THEN SmallerOf(Expected(f, m), acc.left) ELSE 0
<1>1. /\ rate \in [Markets -> Nat] /\ funds \in [Markets -> Fund] /\ acc.left \in Nat
      /\ Good(acc.funds)
  BY DEF FundsOK, Taking
<1>2. Good(f) /\ f \in [Markets -> Fund]
  BY <1>1, UpdatedGood DEF Good
<1>3. a \in Nat /\ a <= acc.left /\ (a # 0 => a <= Expected(f, m))
  <2>1. Expected(f, m) \in Nat
    BY <1>1, <1>2, ExpectedNat
  <2> HIDE DEF f
  <2>2. /\ SmallerOf(Expected(f, m), acc.left) \in Nat /\ SmallerOf(Expected(f, m), acc.left) <= acc.left
        /\ SmallerOf(Expected(f, m), acc.left) <= Expected(f, m)
    BY <1>1, <2>1, SmallerNat
  <2>3. 0 <= acc.left
    BY <1>1
  <2> QED
    BY <2>2, <2>3
<1>4. TakeFrom(acc, m, liquid) =
        IF acc.left = 0 THEN acc
        ELSE IF a = 0 THEN [acc EXCEPT !.funds = f]
        ELSE [funds |-> Taken(f, m, a), left |-> acc.left - a]
  BY DEF TakeFrom
<1> HIDE DEF f, a
<1>5. [acc EXCEPT !.funds = f] \in Taking
  <2>1. [acc EXCEPT !.funds = f] = [funds |-> f, left |-> acc.left]
    BY DEF Taking
  <2> QED
    BY <1>1, <1>2, <2>1 DEF Taking
<1>6. ASSUME a # 0 PROVE [funds |-> Taken(f, m, a), left |-> acc.left - a] \in Taking
  <2>1. config[m].cap \in Nat
    BY ConfigCap
  <2>2. Good(Taken(f, m, a))
    BY <1>1, <1>2, <1>3, <1>6, <2>1, TakenGood
  <2>3. Taken(f, m, a) \in [Markets -> Fund]
    BY <2>2 DEF Good
  <2>4. acc.left - a \in Nat
    BY <1>1, <1>3
  <2> QED
    BY <2>2, <2>3, <2>4 DEF Taking
<1> QED
  BY <1>4, <1>5, <1>6

\* A call on the funds leaves them counted, and none above its cap that was not.
LEMMA FundsMoved ==
    ASSUME VaultAssumption, SettingsOK, FundsOK,
           Deposit \/ Withdraw \/ reallocate \/ syncBalanceTracker
    PROVE  Good(funds')
<1>1. /\ rate \in [Markets -> Nat] /\ funds \in [Markets -> Fund] /\ supplyQueue \in Seq(Markets)
      /\ withdrawQueue \in Seq(Markets) /\ Amounts \subseteq Nat /\ Syncs \subseteq Nat
  BY DEF FundsOK, SettingsOK, SettingsTyped, VaultAssumption
<1>2. Good(funds)
  <2>1. \A m \in Markets : ~(funds[m].principal > funds[m].principal)
    BY <1>1 DEF Fund
  <2> QED
    BY <1>1, <2>1 DEF Good, FundsOK, WithinCap
<1>3. CASE Deposit
  <2>1. PICK assets \in Amounts, open \in SUBSET Markets : funds' = _supplyERC4626(assets, open).funds
    BY <1>3 DEF Deposit
  <2> DEFINE base == [funds |-> funds, left |-> assets, reverted |-> FALSE]
  <2>2. base \in Supplying
    BY <1>1, <1>2 DEF Supplying
  <2>3. \A acc \in Supplying, m \in Markets : Step("supply", open, acc, m) \in Supplying
    BY SupplyStep DEF Step
  <2>4. Result("supply", open, base, supplyQueue) \in Supplying
    <3> HIDE DEF base
    <3> QED
      BY <1>1, <2>2, <2>3, FoldKeeps
  <2> QED
    BY <2>1, <2>4, SupplyIsFold DEF Supplying
<1>4. CASE Withdraw
  <2>1. PICK assets \in Amounts, liquid \in SUBSET Markets : funds' = _withdrawERC4626(assets, liquid).funds
    BY <1>4 DEF Withdraw
  <2> DEFINE base == [funds |-> funds, left |-> assets]
  <2>2. base \in Taking
    BY <1>1, <1>2 DEF Taking
  <2>3. \A acc \in Taking, m \in Markets : Step("take", liquid, acc, m) \in Taking
    BY TakeStep DEF Step
  <2>4. Result("take", liquid, base, withdrawQueue) \in Taking
    <3> HIDE DEF base
    <3> QED
      BY <1>1, <2>2, <2>3, FoldKeeps
  <2> QED
    BY <2>1, <2>4, WithdrawIsFold DEF Taking
<1>5. CASE reallocate
  <2>1. PICK x \in Markets, y \in Markets, rest \in Amounts \cup {0} :
          LET f == Updated(funds, x)
              a == Above(Expected(f, x), rest)
              g == Updated(Taken(f, x, a), y)
          IN  a > 0 /\ g[y].balanceTracker + a <= config[y].cap /\ funds' = Supplied(g, y, a)
    BY <1>5 DEF reallocate
  <2> DEFINE f == Updated(funds, x)
             a == Above(Expected(f, x), rest)
             h == Taken(f, x, a)
             g == Updated(h, y)
  <2>2. Good(f) /\ f \in [Markets -> Fund]
    BY <1>1, <1>2, UpdatedGood DEF Good
  <2>3. a \in Nat /\ a <= Expected(f, x)
    <3>0. rest \in Nat
      BY <1>1
    <3>1. Expected(f, x) \in Nat
      <4> HIDE DEF f
      <4> QED
        BY <1>1, <2>2, ExpectedNat
    <3> HIDE DEF f
    <3> QED
      BY <3>0, <3>1 DEF Above
  <2>4. a # 0 /\ g[y].balanceTracker + a <= config[y].cap /\ funds' = Supplied(g, y, a)
    BY <2>1, <2>3
  <2>5. config[x].cap \in Nat /\ config[y].cap \in Nat
    BY ConfigCap
  <2> HIDE DEF f, a
  <2>6. Good(h)
    BY <1>1, <2>2, <2>3, <2>4, <2>5, TakenGood
  <2> HIDE DEF h
  <2>7. Good(g)
    BY <1>1, <2>6, UpdatedGood
  <2> HIDE DEF g
  <2> QED
    BY <1>1, <2>3, <2>4, <2>5, <2>7, SuppliedGood
<1>6. CASE syncBalanceTracker
  <2>0. PICK m \in Markets : \E n \in Syncs \cup {Expected(funds, m)} :
          funds' = [funds EXCEPT ![m].balanceTracker = n, ![m].principal = IF @ > n THEN n ELSE @]
    BY <1>6 DEF syncBalanceTracker
  <2>1. PICK n \in Syncs \cup {Expected(funds, m)} :
          funds' = [funds EXCEPT ![m].balanceTracker = n, ![m].principal = IF @ > n THEN n ELSE @]
    BY <2>0
  <2>2. n \in Nat /\ funds[m] \in Fund
    BY <1>1, ExpectedNat
  <2> DEFINE p == IF funds[m].principal > n THEN n ELSE funds[m].principal
             new == [shares |-> funds[m].shares, balanceTracker |-> n, principal |-> p]
  <2>3. funds' = [funds EXCEPT ![m] = new]
    <3> DEFINE r == [shares |-> funds[m].shares, balanceTracker |-> n, principal |-> funds[m].principal]
    <3>0. [funds[m] EXCEPT !.balanceTracker = n] = r
      <4> HIDE DEF p
      <4> QED
        BY <2>2 DEF Fund
    <3>1. [r EXCEPT !.principal = p] = new
      OBVIOUS
    <3>2. funds' = [funds EXCEPT ![m] = [r EXCEPT !.principal = p]]
      <4>1. r.principal = funds[m].principal
        OBVIOUS
      <4> HIDE DEF r
      <4> QED
        BY <1>1, <2>1, <3>0, <4>1
    <3> QED
      BY <3>1, <3>2
  <2>4. p \in Nat /\ p <= n /\ p <= funds[m].principal
    BY <2>2 DEF Fund
  <2> HIDE DEF p
  <2>5. new \in Fund /\ new.principal = p /\ new.balanceTracker = n
    BY <2>2, <2>4 DEF Fund
  <2> HIDE DEF new
  <2>6. /\ funds' \in [Markets -> Fund] /\ funds'[m].principal = p /\ funds'[m].balanceTracker = n
        /\ \A x \in Markets \ {m} : funds'[x] = funds[x]
    BY <1>1, <2>3, <2>5
  <2>7. PrincipalCounted(funds')
    BY <1>2, <2>4, <2>6 DEF Good, PrincipalCounted
  <2>8. ~(funds'[m].principal > funds[m].principal)
    BY <2>2, <2>4, <2>6 DEF Fund
  <2>9. WithinCap(funds')
    BY <1>2, <2>6, <2>8 DEF Good, WithinCap
  <2> QED
    BY <2>6, <2>7, <2>9 DEF Good
<1> QED
  BY <1>3, <1>4, <1>5, <1>6

\* A new vault has counted nothing,
LEMMA InitFunds == VaultAssumption /\ Init => FundsOK
<1> SUFFICES ASSUME VaultAssumption, Init PROVE FundsOK
  OBVIOUS
<1>1. /\ \A m \in Markets : funds[m] = [shares |-> 0, balanceTracker |-> 0, principal |-> 0]
      /\ funds \in [Markets -> Fund] /\ rate \in [Markets -> Nat] /\ supplyQueue = <<>>
  BY DEF Init, Fund
<1> QED
  BY <1>1 DEF FundsOK, PrincipalCounted

\* ... and no step puts more into a market than its cap or forgets to count it.
LEMMA FundsKept ==
    ASSUME VaultAssumption, SettingsOK, FundsOK, [Next]_vars
    PROVE  FundsOK' /\ (\A m \in Markets : funds'[m].principal > funds[m].principal
                                             => funds'[m].principal <= config[m].cap)
<1>1. funds \in [Markets -> Fund] /\ rate \in [Markets -> Nat] /\ supplyQueue \in Seq(Markets)
  BY DEF FundsOK
<1>2. \A m \in Markets : ~(funds[m].principal > funds[m].principal)
  BY <1>1 DEF Fund
<1>3. CASE Deposit \/ Withdraw \/ reallocate \/ syncBalanceTracker
  <2>1. Good(funds')
    BY <1>3, FundsMoved
  <2>2. UNCHANGED <<rate, supplyQueue>>
    BY <1>3 DEF Deposit, Withdraw, reallocate, syncBalanceTracker
  <2> QED
    BY <1>1, <2>1, <2>2 DEF Good, FundsOK, WithinCap, PrincipalCounted
<1>4. CASE Report
  <2>1. rate' \in [Markets -> Nat] /\ UNCHANGED <<funds, supplyQueue>>
    BY <1>1, <1>4 DEF Report, VaultAssumption
  <2> QED
    BY <1>1, <1>2, <2>1 DEF FundsOK, PrincipalCounted
<1>5. CASE Gift
  <2>1. PICK m \in Markets : funds' = [funds EXCEPT ![m].shares = @ + 1]
    BY <1>5 DEF Gift
  <2>2. funds[m] \in Fund
    BY <1>1
  <2> DEFINE new == [shares |-> funds[m].shares + 1, balanceTracker |-> funds[m].balanceTracker,
                     principal |-> funds[m].principal]
  <2>3. funds' = [funds EXCEPT ![m] = new]
    <3>1. [funds[m] EXCEPT !.shares = funds[m].shares + 1] = new
      BY <2>2 DEF Fund
    <3>2. funds' = [funds EXCEPT ![m] = [funds[m] EXCEPT !.shares = funds[m].shares + 1]]
      BY <1>1, <2>1
    <3> QED
      BY <3>1, <3>2
  <2>4. new \in Fund /\ new.principal = funds[m].principal /\ new.balanceTracker = funds[m].balanceTracker
    BY <2>2 DEF Fund
  <2> HIDE DEF new
  <2>5. /\ funds' \in [Markets -> Fund]
        /\ \A x \in Markets : /\ funds'[x].principal = funds[x].principal
                              /\ funds'[x].balanceTracker = funds[x].balanceTracker
    BY <1>1, <2>3, <2>4
  <2>6. UNCHANGED <<rate, supplyQueue>>
    BY <1>5 DEF Gift
  <2> QED
    BY <1>1, <1>2, <2>5, <2>6 DEF FundsOK, PrincipalCounted
<1>6. CASE setSupplyQueue
  <2> DEFINE S == {m \in Markets : config[m].cap # 0}
  <2>1. supplyQueue' \in SeqOf(S, MaxQueueLength) /\ UNCHANGED <<rate, funds>>
    BY <1>6 DEF setSupplyQueue
  <2>2. PICK n \in 0 .. MaxQueueLength : supplyQueue' \in [1 .. n -> S]
    BY <2>1 DEF SeqOf
  <2>3. n \in Nat /\ S \subseteq Markets
    BY DEF VaultAssumption
  <2> HIDE DEF S
  <2>4. supplyQueue' \in [1 .. n -> Markets]
    BY <2>2, <2>3
  <2>5. supplyQueue' \in Seq(Markets)
    BY <2>3, <2>4
  <2> QED
    BY <1>1, <1>2, <2>1, <2>5 DEF FundsOK, PrincipalCounted
<1>7. CASE UNCHANGED <<rate, funds, supplyQueue>>
  BY <1>1, <1>2, <1>7 DEF FundsOK, PrincipalCounted
<1>8. \/ Deposit \/ Withdraw \/ reallocate \/ syncBalanceTracker \/ Report \/ Gift \/ setSupplyQueue
      \/ UNCHANGED <<rate, funds, supplyQueue>>
  BY DEF Next, Governance, Allocation, vars,
         submitTimelock, acceptTimelock, revokePendingTimelock, submitGuardian, acceptGuardian,
         revokePendingGuardian, submitCap, acceptCap, revokePendingCap,
         submitMarketRemoval, revokePendingMarketRemoval, updateWithdrawQueue, Tick
<1> QED
  BY <1>3, <1>4, <1>5, <1>6, <1>7, <1>8

\* What leaves the withdraw queue with funds of the vault was announced: every other
\* function leaves it enabled.
LEMMA RemovedStep ==
    ASSUME VaultAssumption, SettingsOK, [Next]_vars
    PROVE  RemovedWithNotice
<1> SUFFICES ASSUME NEW m \in Markets, config[m].enabled, ~config'[m].enabled, funds[m].shares # 0
             PROVE  announced[m] # 0 /\ clock >= announced[m] + MinTimelock
  BY DEF RemovedWithNotice
<1>1. config \in [Markets -> Config] /\ announced \in [Markets -> Nat] /\ clock \in Nat
  BY DEF SettingsOK, SettingsTyped
<1>2. CASE updateWithdrawQueue
  <2>1. Removable(m)
    BY <1>1, <1>2 DEF updateWithdrawQueue
  <2>2. config[m].removableAt # 0 /\ clock >= config[m].removableAt
    BY <2>1 DEF Removable
  <2>3. announced[m] # 0 /\ config[m].removableAt >= announced[m] + MinTimelock
    BY <2>2 DEF SettingsOK, AnnouncedOK
  <2>4. config[m].removableAt \in Nat /\ announced[m] + MinTimelock \in Nat
    BY <1>1 DEF Config, VaultAssumption
  <2> QED
    BY <1>1, <2>2, <2>3, <2>4
<1>3. ASSUME NEW x \in Markets, NEW c \in Nat, _setCap(x, c) PROVE FALSE
  <2>1. CASE x = m
    <3>1. config'[m] = IF c > 0 THEN [cap |-> c, enabled |-> TRUE, removableAt |-> 0]
                       ELSE [config[m] EXCEPT !.cap = 0]
      BY <1>1, <1>3, <2>1 DEF _setCap
    <3>2. config'[m].enabled = (c > 0 \/ config[m].enabled)
      BY <1>1, <3>1 DEF Config
    <3> QED
      BY <3>2
  <2>2. CASE x # m
    BY <1>3, <2>2, CapSet
  <2> QED
    BY <2>1, <2>2
<1>4. ASSUME NEW x \in Markets, NEW r, config' = [config EXCEPT ![x].removableAt = r] PROVE FALSE
  <2>1. config'[m].enabled = config[m].enabled
    BY <1>1, <1>4 DEF Config
  <2> QED
    BY <2>1
<1>5. ASSUME NEW x \in Markets,
             \/ \E c \in Caps : submitCap(x, c)
             \/ acceptCap(x) \/ revokePendingCap(x)
             \/ submitMarketRemoval(x) \/ revokePendingMarketRemoval(x)
      PROVE  FALSE
  <2>1. ASSUME NEW c \in Caps, submitCap(x, c) PROVE FALSE
    <3>1. c \in Nat
      BY DEF VaultAssumption
    <3> QED
      BY <1>3, <2>1, <3>1 DEF submitCap
  <2>2. CASE acceptCap(x)
    <3>1. pendingCap[x].value \in Nat
      BY DEF SettingsOK, SettingsTyped, PendingNumber
    <3> QED
      BY <1>3, <2>2, <3>1 DEF acceptCap
  <2>3. CASE revokePendingCap(x)
    BY <2>3 DEF revokePendingCap
  <2>4. CASE submitMarketRemoval(x)
    BY <1>4, <2>4 DEF submitMarketRemoval
  <2>5. CASE revokePendingMarketRemoval(x)
    BY <1>4, <2>5 DEF revokePendingMarketRemoval
  <2> QED
    BY <1>5, <2>1, <2>2, <2>3, <2>4, <2>5
<1>6. CASE config' = config
  BY <1>6
<1>7. \/ \E x \in Markets : \/ \E c \in Caps : submitCap(x, c)
                            \/ acceptCap(x) \/ revokePendingCap(x)
                            \/ submitMarketRemoval(x) \/ revokePendingMarketRemoval(x)
      \/ updateWithdrawQueue \/ config' = config
  BY DEF Next, Governance, Allocation, markets,
         submitTimelock, acceptTimelock, revokePendingTimelock, submitGuardian, acceptGuardian,
         revokePendingGuardian, setSupplyQueue, Deposit, Withdraw, reallocate, syncBalanceTracker,
         Report, Gift, Tick, vars
<1> QED
  BY <1>2, <1>5, <1>6, <1>7

-----------------------------------------------------------------------------
(* Theorems                                                                *)

\* The settings keep their types, no timelock is below the least, a removal that is due
\* was announced for it, and the queue matches the configuration, in every state.
THEOREM SettingsAlways == ASSUME VaultAssumption PROVE Spec => []SettingsOK
BY InitSettings, SettingsKept, PTL DEF Spec

\* The withdraw queue is the enabled markets, each once, and no cap can come to a
\* market whose removal is announced (QueueMatchesConfig): over any number of markets
\* and in any order of proposals, acceptances, revocations and removals.
THEOREM QueueMatchesConfigAlways == ASSUME VaultAssumption PROVE Spec => []QueueMatchesConfig
<1>1. SettingsOK => QueueMatchesConfig
  BY DEF SettingsOK
<1> QED
  BY <1>1, SettingsAlways, PTL

\* A market with funds leaves the withdraw queue only after an announcement that was
\* out for the least timelock (RemovedWithNotice).
THEOREM RemovedWithNoticeAlways ==
    ASSUME VaultAssumption PROVE Spec => [][RemovedWithNotice]_vars
<1>1. SettingsOK /\ [Next]_vars => RemovedWithNotice
  BY RemovedStep
<1> QED
  BY <1>1, SettingsAlways, PTL DEF Spec

\* The timelock, the guardian and every cap are Timelocks: what changes them is
\* announced for the timelock in force, or harmless.
THEOREM VaultImplementsTimelocks == ASSUME VaultAssumption PROVE Spec => ImplementsTimelocks
<1>1. Spec => TimelockNotice!Spec
  <2>1. Init => TimelockNotice!Init
    BY DEF Init, TimelockNotice!Init, Pending, NoPending
  <2>2. SettingsOK /\ SettingsOK' /\ [Next]_vars => [TimelockNotice!Next]_(TimelockNotice!vars)
    BY TimelockStep
  <2> QED
    BY <2>1, <2>2, SettingsAlways, PTL DEF Spec, TimelockNotice!Spec
<1>2. Spec => GuardianNotice!Spec
  <2>1. Init => GuardianNotice!Init
    BY DEF Init, GuardianNotice!Init, Pending, NoPendingGuardian
  <2>2. SettingsOK /\ SettingsOK' /\ [Next]_vars => [GuardianNotice!Next]_(GuardianNotice!vars)
    BY GuardianStep
  <2> QED
    BY <2>1, <2>2, SettingsAlways, PTL DEF Spec, GuardianNotice!Spec
<1>3. ASSUME NEW m \in Markets PROVE Spec => CapNotice(m)!Spec
  <2>1. Init => CapNotice(m)!Init
    BY DEF Init, CapNotice!Init, Pending, NoPending
  <2>2. SettingsOK /\ SettingsOK' /\ [Next]_vars => [CapNotice(m)!Next]_(CapNotice(m)!vars)
    BY CapStep
  <2> QED
    BY <2>1, <2>2, SettingsAlways, PTL DEF Spec, CapNotice!Spec
<1> QED
  BY <1>1, <1>2, <1>3 DEF ImplementsTimelocks

\* Settings and funds keep the inductive invariant, whatever the markets report.
THEOREM VaultInvariance == ASSUME VaultAssumption PROVE Spec => []IInv
<1>1. Init => IInv
  BY InitSettings, InitFunds DEF IInv
<1>2. IInv /\ [Next]_vars => IInv'
  BY SettingsKept, FundsKept DEF IInv
<1> QED
  BY <1>1, <1>2, PTL DEF Spec

\* What the vault could lose in a market stays within the cap, whatever markets, of
\* any number and in any order of the queues, report, pay or take (LossWithinCap).
THEOREM LossWithinCapAlways == ASSUME VaultAssumption PROVE Spec => [][LossWithinCap]_vars
<1>1. IInv /\ [Next]_vars => LossWithinCap
  BY FundsKept DEF IInv, LossWithinCap
<1> QED
  BY <1>1, VaultInvariance, PTL DEF Spec

=============================================================================
