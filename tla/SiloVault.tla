------------------------------ MODULE SiloVault ------------------------------
(***************************************************************************)
(* silo-vaults SiloVault with SiloVaultActionsLib: a vault that spreads    *)
(* deposits over markets (ERC4626 vaults that others control).  Curator    *)
(* and owner let it into markets up to a cap, allocators order and move    *)
(* the funds, and what may harm the depositors waits for a timelock in     *)
(* which the guardian can revoke it.  The vault keeps its own count of     *)
(* what it has in a market, for a market may report anything.              *)
(*                                                                         *)
(* Every role has a holder who calls; who it is, the shares of the         *)
(* depositors and the fee are left out.                                    *)
(***************************************************************************)
EXTENDS Naturals, Sequences, FiniteSets, SequencesExt

CONSTANTS
    Markets,
    Guardians, NoGuardian,
    MinTimelock,    \* MIN_TIMELOCK
    Timelocks,      \* up to MAX_TIMELOCK
    MaxQueueLength, \* MAX_QUEUE_LENGTH
    LossThreshold,  \* arbitraryLossThreshold of each market
    Caps,           \* inputs: of submitCap
    Amounts,        \* inputs: of deposits, withdrawals and reallocations
    Rates,          \* inputs: what a market may say that a share is worth
    Syncs,          \* inputs: of syncBalanceTracker with _override
    Nothing,        \* no change is pending
    MaxShares,      \* bound: of the vault in a market
    MaxTime         \* bound of the clock

VaultAssumption ==
    /\ IsFiniteSet(Markets) /\ NoGuardian \notin Guardians
    /\ MinTimelock \in Nat \ {0} /\ Timelocks \subseteq Nat
    /\ Caps \cup Amounts \cup Rates \cup Syncs \subseteq Nat
    /\ {MaxQueueLength, LossThreshold, MaxShares, MaxTime} \subseteq Nat
    /\ Nothing \notin [value : Nat \cup Guardians \cup {NoGuardian}, validAt : Nat]

VARIABLES
    clock,                          \* block.timestamp
    timelock, pendingTimelock,
    guardian, pendingGuardian,
    config,                         \* by market, cap, enabled, removableAt
    pendingCap,                     \* by market
    supplyQueue, withdrawQueue,
    funds,      \* by market, the shares of the vault there, balanceTracker, and as
                \* history principal: what went in, less what came back (down to
                \* zero), less what syncBalanceTracker wrote off
    rate,       \* by market, what it says that a share is worth
    announced   \* history: by market, when its removal was announced, unless it
                \* was revoked or the market had a cap since

delayed == <<timelock, pendingTimelock, guardian, pendingGuardian>>
markets == <<config, pendingCap, withdrawQueue, announced>>
vars == <<clock, delayed, markets, supplyQueue, funds, rate>>

NoPending == [value |-> 0, validAt |-> 0]
NoPendingGuardian == [value |-> NoGuardian, validAt |-> 0]
NoConfig == [cap |-> 0, enabled |-> FALSE, removableAt |-> 0]

\* constructor
Init ==
    /\ clock = 1
    /\ timelock \in {t \in Timelocks : t >= MinTimelock} /\ pendingTimelock = NoPending
    /\ guardian = NoGuardian /\ pendingGuardian = NoPendingGuardian
    /\ config = [m \in Markets |-> NoConfig]
    /\ pendingCap = [m \in Markets |-> NoPending]
    /\ supplyQueue = <<>> /\ withdrawQueue = <<>>
    /\ funds = [m \in Markets |-> [shares |-> 0, balanceTracker |-> 0, principal |-> 0]]
    /\ rate = [m \in Markets |-> 1]
    /\ announced = [m \in Markets |-> 0]

-----------------------------------------------------------------------------
(* Timelock and guardian *)

\* PendingLib.update
update(v) == [value |-> v, validAt |-> clock + timelock]

afterTimelock(p) == p.validAt # 0 /\ clock >= p.validAt

_setTimelock(t) == timelock' = t /\ pendingTimelock' = NoPending

submitTimelock(t) ==
    /\ t # timelock /\ pendingTimelock.validAt = 0 /\ t >= MinTimelock
    /\ IF t > timelock THEN _setTimelock(t)
       ELSE pendingTimelock' = update(t) /\ UNCHANGED timelock
    /\ UNCHANGED <<clock, guardian, pendingGuardian, markets, supplyQueue, funds, rate>>

acceptTimelock ==
    /\ afterTimelock(pendingTimelock) /\ _setTimelock(pendingTimelock.value)
    /\ UNCHANGED <<clock, guardian, pendingGuardian, markets, supplyQueue, funds, rate>>

revokePendingTimelock ==
    /\ pendingTimelock' = NoPending
    /\ UNCHANGED <<clock, timelock, guardian, pendingGuardian, markets, supplyQueue, funds, rate>>

_setGuardian(g) == guardian' = g /\ pendingGuardian' = NoPendingGuardian

submitGuardian(g) ==
    /\ g # guardian /\ pendingGuardian.validAt = 0
    /\ IF guardian = NoGuardian THEN _setGuardian(g)
       ELSE pendingGuardian' = update(g) /\ UNCHANGED guardian
    /\ UNCHANGED <<clock, timelock, pendingTimelock, markets, supplyQueue, funds, rate>>

acceptGuardian ==
    /\ afterTimelock(pendingGuardian) /\ _setGuardian(pendingGuardian.value)
    /\ UNCHANGED <<clock, timelock, pendingTimelock, markets, supplyQueue, funds, rate>>

revokePendingGuardian ==
    /\ pendingGuardian' = NoPendingGuardian
    /\ UNCHANGED <<clock, timelock, pendingTimelock, guardian, markets, supplyQueue, funds, rate>>

-----------------------------------------------------------------------------
(* Markets *)

\* A market is enabled again whenever it gets a cap.
FaultySetCap(m, c) ==
    /\ withdrawQueue' = IF c > 0 THEN Append(withdrawQueue, m) ELSE withdrawQueue
    /\ Len(withdrawQueue') <= MaxQueueLength
    /\ config' = [config EXCEPT ![m] = IF c > 0 THEN [cap |-> c, enabled |-> TRUE, removableAt |-> 0]
                                       ELSE [@ EXCEPT !.cap = 0]]
    /\ pendingCap' = [pendingCap EXCEPT ![m] = NoPending]
    /\ announced' = IF c > 0 THEN [announced EXCEPT ![m] = 0] ELSE announced

\* setCap: a first cap enables the market.
_setCap(m, c) ==
    /\ withdrawQueue' =
         IF c > 0 /\ ~config[m].enabled THEN Append(withdrawQueue, m) ELSE withdrawQueue
    /\ Len(withdrawQueue') <= MaxQueueLength
    /\ config' = [config EXCEPT ![m] = IF c > 0 THEN [cap |-> c, enabled |-> TRUE, removableAt |-> 0]
                                       ELSE [@ EXCEPT !.cap = 0]]
    /\ pendingCap' = [pendingCap EXCEPT ![m] = NoPending]
    /\ announced' = IF c > 0 THEN [announced EXCEPT ![m] = 0] ELSE announced

\* A lower cap holds at once, a higher one is pending (submitCapValidate).
submitCap(m, c) ==
    /\ pendingCap[m].validAt = 0 /\ config[m].removableAt = 0 /\ c # config[m].cap
    /\ IF c < config[m].cap THEN _setCap(m, c)
       ELSE /\ pendingCap' = [pendingCap EXCEPT ![m] = update(c)]
            /\ UNCHANGED <<config, withdrawQueue, announced>>
    /\ UNCHANGED <<clock, delayed, supplyQueue, funds, rate>>

acceptCap(m) ==
    /\ afterTimelock(pendingCap[m]) /\ _setCap(m, pendingCap[m].value)
    /\ UNCHANGED <<clock, delayed, supplyQueue, funds, rate>>

revokePendingCap(m) ==
    /\ pendingCap' = [pendingCap EXCEPT ![m] = NoPending]
    /\ UNCHANGED <<clock, delayed, config, withdrawQueue, announced, supplyQueue, funds, rate>>

submitMarketRemoval(m) ==
    /\ config[m].removableAt = 0 /\ config[m].cap = 0 /\ config[m].enabled
    /\ pendingCap[m].validAt = 0
    /\ config' = [config EXCEPT ![m].removableAt = clock + timelock]
    /\ announced' = [announced EXCEPT ![m] = clock]
    /\ UNCHANGED <<clock, delayed, pendingCap, withdrawQueue, supplyQueue, funds, rate>>

revokePendingMarketRemoval(m) ==
    /\ config' = [config EXCEPT ![m].removableAt = 0]
    /\ announced' = [announced EXCEPT ![m] = 0]
    /\ UNCHANGED <<clock, delayed, pendingCap, withdrawQueue, supplyQueue, funds, rate>>

\* Markets may be repeated (validateSupplyQueueEmitEvent).
setSupplyQueue ==
    /\ supplyQueue' \in SeqOf({m \in Markets : config[m].cap # 0}, MaxQueueLength)
    /\ UNCHANGED <<clock, delayed, markets, funds, rate>>

\* The announcement is not asked for.
HastyRemovable(m) == config[m].cap = 0 /\ pendingCap[m].validAt = 0

\* A market may be left out once it has no cap, is to get none, and is empty or was
\* announced for the timelock; an empty one needs no announcement.
Removable(m) ==
    /\ config[m].cap = 0 /\ pendingCap[m].validAt = 0
    /\ funds[m].shares # 0 => config[m].removableAt # 0 /\ clock >= config[m].removableAt

updateWithdrawQueue ==
    /\ \E q \in SeqOf(Range(withdrawQueue), Len(withdrawQueue)) :
         LET removed == Range(withdrawQueue) \ Range(q)
         IN  /\ IsInjective(q) /\ \A m \in removed : Removable(m)
             /\ withdrawQueue' = q
             /\ config' = [m \in Markets |-> IF m \in removed THEN NoConfig ELSE config[m]]
             /\ announced' = [m \in Markets |-> IF m \in removed THEN 0 ELSE announced[m]]
    /\ UNCHANGED <<clock, delayed, pendingCap, supplyQueue, funds, rate>>

-----------------------------------------------------------------------------
(* Funds.  Operators on f, the funds in the course of a call.              *)

\* expectedSupplyAssets
Expected(f, m) == f[m].shares * rate[m]

Above(x, y) == IF x > y THEN x - y ELSE 0
SmallerOf(x, y) == IF x < y THEN x ELSE y

\* _updateInternalBalanceForMarket
Updated(f, m) ==
    IF Expected(f, m) > f[m].balanceTracker
    THEN [f EXCEPT ![m].balanceTracker = Expected(f, m)] ELSE f

\* previewDeposit, previewWithdraw of the market
SharesFor(m, a) == IF rate[m] = 0 THEN 0 ELSE a \div rate[m]
SharesOf(m, a) == (a + rate[m] - 1) \div rate[m]

\* _marketSupply: no shares, no deposit; _priceManipulationCheck
Worth(m, a) == SharesFor(m, a) # 0
NoLoss(m, a) == a - SharesFor(m, a) * rate[m] < LossThreshold

Supplied(f, m, a) ==
    [f EXCEPT ![m] = [shares |-> @.shares + SharesFor(m, a),
                      balanceTracker |-> @.balanceTracker + a,
                      principal |-> @.principal + a]]

Taken(f, m, a) ==
    [f EXCEPT ![m] = [shares |-> @.shares - SharesOf(m, a),
                      balanceTracker |-> Above(@.balanceTracker, a),
                      principal |-> Above(@.principal, a)]]

\* Only what the market reports counts against the cap.
FaultyRoom(f, m) == Above(config[m].cap, Expected(f, m))

\* What the cap leaves, by the report of the market and by the own count.
Room(f, m) ==
    SmallerOf(Above(config[m].cap, Expected(f, m)), Above(config[m].cap, f[m].balanceTracker))

\* _supplyERC4626: what the next market of the queue takes; those outside open take no
\* deposit.  reverted stands for a loss in one of them.
SupplyTo(acc, m, open) ==
    IF acc.left = 0 \/ acc.reverted \/ config[m].cap = 0 THEN acc
    ELSE LET f == Updated(acc.funds, m)
             a == IF m \in open THEN SmallerOf(Room(f, m), acc.left) ELSE 0
         IN  IF a = 0 \/ ~Worth(m, a) THEN [acc EXCEPT !.funds = f]
             ELSE [funds |-> Supplied(f, m, a), left |-> acc.left - a, reverted |-> ~NoLoss(m, a)]

_supplyERC4626(assets, open) ==
    FoldLeft(LAMBDA acc, m : SupplyTo(acc, m, open),
             [funds |-> funds, left |-> assets, reverted |-> FALSE], supplyQueue)

\* _withdrawERC4626: a market pays what it has, by its report, or nothing.
TakeFrom(acc, m, liquid) ==
    IF acc.left = 0 THEN acc
    ELSE LET f == Updated(acc.funds, m)
             a == IF m \in liquid THEN SmallerOf(Expected(f, m), acc.left) ELSE 0
         IN  IF a = 0 THEN [acc EXCEPT !.funds = f]
             ELSE [funds |-> Taken(f, m, a), left |-> acc.left - a]

_withdrawERC4626(assets, liquid) ==
    FoldLeft(LAMBDA acc, m : TakeFrom(acc, m, liquid),
             [funds |-> funds, left |-> assets], withdrawQueue)

Deposit ==
    /\ \E assets \in Amounts, open \in SUBSET Markets :
         LET done == _supplyERC4626(assets, open)
         IN  done.left = 0 /\ ~done.reverted /\ funds' = done.funds
    /\ \A m \in Markets : funds'[m].shares <= MaxShares
    /\ UNCHANGED <<clock, delayed, markets, supplyQueue, rate>>

Withdraw ==
    /\ \E assets \in Amounts, liquid \in SUBSET Markets :
         LET done == _withdrawERC4626(assets, liquid)
         IN  done.left = 0 /\ funds' = done.funds
    /\ UNCHANGED <<clock, delayed, markets, supplyQueue, rate>>

\* reallocate: x is withdrawn from until rest is left there, and y gets all of it.
reallocate ==
    /\ \E x, y \in Markets, rest \in Amounts \cup {0} :
         LET f == Updated(funds, x)
             a == Above(Expected(f, x), rest)
             g == Updated(Taken(f, x, a), y)
         IN  /\ config[x].enabled /\ a > 0
             /\ config[y].cap # 0 /\ Expected(g, y) + a <= config[y].cap
             /\ g[y].balanceTracker + a <= config[y].cap
             /\ Worth(y, a) /\ NoLoss(y, a)
             /\ funds' = Supplied(g, y, a)
    /\ \A m \in Markets : funds'[m].shares <= MaxShares
    /\ UNCHANGED <<clock, delayed, markets, supplyQueue, rate>>

\* With _override the guardian gives the count, or else the market does.
syncBalanceTracker ==
    /\ \E m \in Markets : \E n \in Syncs \cup {Expected(funds, m)} :
         funds' = [funds EXCEPT ![m].balanceTracker = n,
                                ![m].principal = IF @ > n THEN n ELSE @]
    /\ UNCHANGED <<clock, delayed, markets, supplyQueue, rate>>

-----------------------------------------------------------------------------
(* Outside of the vault: interest, losses and lies of a market; a gift of its *)
(* shares; time.                                                              *)

Report ==
    /\ \E m \in Markets, r \in Rates : rate' = [rate EXCEPT ![m] = r]
    /\ UNCHANGED <<clock, delayed, markets, supplyQueue, funds>>

Gift ==
    /\ \E m \in Markets : /\ funds[m].shares < MaxShares
                          /\ funds' = [funds EXCEPT ![m].shares = @ + 1]
    /\ UNCHANGED <<clock, delayed, markets, supplyQueue, rate>>

Tick ==
    /\ clock < MaxTime /\ clock' = clock + 1
    /\ UNCHANGED <<delayed, markets, supplyQueue, funds, rate>>

Governance ==
    \/ \E t \in Timelocks : submitTimelock(t)
    \/ acceptTimelock \/ revokePendingTimelock
    \/ \E g \in Guardians \cup {NoGuardian} : submitGuardian(g)
    \/ acceptGuardian \/ revokePendingGuardian
    \/ \E m \in Markets, c \in Caps : submitCap(m, c)
    \/ \E m \in Markets : \/ acceptCap(m) \/ revokePendingCap(m)
                          \/ submitMarketRemoval(m) \/ revokePendingMarketRemoval(m)
    \/ setSupplyQueue \/ updateWithdrawQueue

Allocation == Deposit \/ Withdraw \/ reallocate \/ syncBalanceTracker

Next == Governance \/ Allocation \/ Report \/ Gift \/ Tick

Spec == Init /\ [][Next]_vars

-----------------------------------------------------------------------------
\* The timelock may only grow at once, the guardian only be appointed, and a cap
\* only be lowered (submitTimelock, submitGuardian, submitCap); every other change
\* waits for the timelock that was in force when it was submitted, and the guardian
\* can revoke it until then.
Longer(old, new) == new >= old
Appoints(old, new) == old = NoGuardian
Lower(old, new) == new <= old
Pending(p) == IF p.validAt = 0 THEN Nothing ELSE p

TimelockNotice == INSTANCE Timelock WITH
    MinNotice <- MinTimelock, Harmless <- Longer,
    notice <- timelock, value <- timelock, pending <- Pending(pendingTimelock)
GuardianNotice == INSTANCE Timelock WITH
    MinNotice <- MinTimelock, Harmless <- Appoints,
    notice <- timelock, value <- guardian, pending <- Pending(pendingGuardian)
CapNotice(m) == INSTANCE Timelock WITH
    MinNotice <- MinTimelock, Harmless <- Lower,
    notice <- timelock, value <- config[m].cap, pending <- Pending(pendingCap[m])

ImplementsTimelocks ==
    TimelockNotice!Spec /\ GuardianNotice!Spec /\ \A m \in Markets : CapNotice(m)!Spec

\* A market with funds of the vault leaves the withdraw queue, and its funds the
\* total assets, only after an announcement that was out for the least timelock
\* and was neither revoked nor overtaken by a new cap (updateWithdrawQueue).
RemovedWithNotice ==
    \A m \in Markets :
        config[m].enabled /\ ~config'[m].enabled /\ funds[m].shares # 0
        => announced[m] # 0 /\ clock >= announced[m] + MinTimelock

\* The withdraw queue, over which the vault counts its assets, is the enabled
\* markets, each once, also after markets were removed and came back; what has a
\* cap is in it; and no cap can come to a market whose removal is announced.
QueueMatchesConfig ==
    /\ IsInjective(withdrawQueue)
    /\ Range(withdrawQueue) = {m \in Markets : config[m].enabled}
    /\ \A m \in Markets :
         /\ config[m].cap # 0 => config[m].enabled
         /\ config[m].removableAt # 0 =>
                config[m].enabled /\ config[m].cap = 0 /\ pendingCap[m].validAt = 0

\* What the vault could lose in a market is bounded by the cap whatever the market
\* reports: no step puts more in than leaves the principal within it (balanceTracker:
\* "max loss == supplyCap + un accrued interest").
LossWithinCap ==
    \A m \in Markets :
        funds'[m].principal > funds[m].principal => funds'[m].principal <= config[m].cap

=============================================================================
