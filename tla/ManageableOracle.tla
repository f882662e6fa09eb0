--------------------------- MODULE ManageableOracle ---------------------------
(***************************************************************************)
(* silo-oracles ManageableOracle: an oracle that forwards to another one.  *)
(* Its owner replaces that oracle, the timelock and himself, each in two   *)
(* calls with the timelock between them; the three changes may be pending  *)
(* at the same time and are accepted or cancelled one by one.              *)
(***************************************************************************)
EXTENDS Naturals

CONSTANTS
    Oracles,        \* that pass oracleVerification
    Accounts,
    NoAddress,      \* address(0)
    MinTimelock,    \* MIN_TIMELOCK
    Timelocks,      \* up to MAX_TIMELOCK
    MaxTime         \* bound of the clock

OracleAssumption ==
    /\ NoAddress \notin Oracles \cup Accounts
    /\ NoAddress \notin [value : Nat \cup Oracles \cup Accounts \cup {NoAddress}, validAt : Nat]
    /\ Timelocks \subseteq Nat /\ MinTimelock \in Nat \ {0} /\ MaxTime \in Nat

VARIABLES
    clock,          \* block.timestamp
    owner, oracle, timelock,
    pendingOracle, pendingTimelock, pendingOwnership  \* value and validAt

vars == <<clock, owner, oracle, timelock, pendingOracle, pendingTimelock, pendingOwnership>>

NoAddressPending == [value |-> NoAddress, validAt |-> 0]
NoTimelockPending == [value |-> 0, validAt |-> 0]

\* initialize
Init ==
    /\ clock = 1
    /\ owner \in Accounts /\ oracle \in Oracles
    /\ timelock \in {t \in Timelocks : t >= MinTimelock}
    /\ pendingOracle = NoAddressPending /\ pendingOwnership = NoAddressPending
    /\ pendingTimelock = NoTimelockPending

-----------------------------------------------------------------------------
\* PendingLib.update
update(v) == [value |-> v, validAt |-> clock + timelock]

whenNotPending(p) == p.validAt = 0
whenPending(p) == p.validAt # 0
afterTimelock(p) == p.validAt # 0 /\ clock >= p.validAt

\* Somebody is the owner and calls.
onlyOwner == owner # NoAddress

proposeOracle ==
    /\ onlyOwner /\ whenNotPending(pendingOracle)
    /\ \E o \in Oracles \ {oracle} : pendingOracle' = update(o)
    /\ UNCHANGED <<clock, owner, oracle, timelock, pendingTimelock, pendingOwnership>>

proposeTimelock ==
    /\ onlyOwner /\ whenNotPending(pendingTimelock)
    /\ \E t \in Timelocks \ {timelock} : t >= MinTimelock /\ pendingTimelock' = update(t)
    /\ UNCHANGED <<clock, owner, oracle, timelock, pendingOracle, pendingOwnership>>

proposeTransferOwnership ==
    /\ onlyOwner /\ whenNotPending(pendingOwnership)
    /\ \E a \in Accounts \ {owner} : pendingOwnership' = update(a)
    /\ UNCHANGED <<clock, owner, oracle, timelock, pendingOracle, pendingTimelock>>

proposeRenounceOwnership ==
    /\ onlyOwner /\ whenNotPending(pendingOwnership)
    /\ pendingOwnership' = update(NoAddress)
    /\ UNCHANGED <<clock, owner, oracle, timelock, pendingOracle, pendingTimelock>>

acceptOracle ==
    /\ onlyOwner /\ afterTimelock(pendingOracle)
    /\ oracle' = pendingOracle.value /\ pendingOracle' = NoAddressPending
    /\ UNCHANGED <<clock, owner, timelock, pendingTimelock, pendingOwnership>>

acceptTimelock ==
    /\ onlyOwner /\ afterTimelock(pendingTimelock)
    /\ timelock' = pendingTimelock.value /\ pendingTimelock' = NoTimelockPending
    /\ UNCHANGED <<clock, owner, oracle, pendingOracle, pendingOwnership>>

\* By the new owner.
acceptOwnership ==
    /\ afterTimelock(pendingOwnership) /\ pendingOwnership.value # NoAddress
    /\ owner' = pendingOwnership.value /\ pendingOwnership' = NoAddressPending
    /\ UNCHANGED <<clock, oracle, timelock, pendingOracle, pendingTimelock>>

\* Changes that are still pending are not asked for.
FaultyAcceptRenounceOwnership ==
    /\ onlyOwner /\ afterTimelock(pendingOwnership) /\ pendingOwnership.value = NoAddress
    /\ whenNotPending(pendingOracle)
    /\ owner' = NoAddress /\ pendingOwnership' = NoAddressPending
    /\ UNCHANGED <<clock, oracle, timelock, pendingOracle, pendingTimelock>>

acceptRenounceOwnership ==
    /\ onlyOwner /\ afterTimelock(pendingOwnership) /\ pendingOwnership.value = NoAddress
    /\ whenNotPending(pendingOracle) /\ whenNotPending(pendingTimelock)
    /\ owner' = NoAddress /\ pendingOwnership' = NoAddressPending
    /\ UNCHANGED <<clock, oracle, timelock, pendingOracle, pendingTimelock>>

cancelOracle ==
    /\ onlyOwner /\ whenPending(pendingOracle) /\ pendingOracle' = NoAddressPending
    /\ UNCHANGED <<clock, owner, oracle, timelock, pendingTimelock, pendingOwnership>>

cancelTimelock ==
    /\ onlyOwner /\ whenPending(pendingTimelock) /\ pendingTimelock' = NoTimelockPending
    /\ UNCHANGED <<clock, owner, oracle, timelock, pendingOracle, pendingOwnership>>

\* cancelTransferOwnership or cancelRenounceOwnership, whichever is pending
cancelOwnership ==
    /\ onlyOwner /\ whenPending(pendingOwnership) /\ pendingOwnership' = NoAddressPending
    /\ UNCHANGED <<clock, owner, oracle, timelock, pendingOracle, pendingTimelock>>

Tick ==
    /\ clock < MaxTime /\ clock' = clock + 1
    /\ UNCHANGED <<owner, oracle, timelock, pendingOracle, pendingTimelock, pendingOwnership>>

Next ==
    \/ proposeOracle \/ proposeTimelock \/ proposeTransferOwnership \/ proposeRenounceOwnership
    \/ acceptOracle \/ acceptTimelock \/ acceptOwnership \/ acceptRenounceOwnership
    \/ cancelOracle \/ cancelTimelock \/ cancelOwnership
    \/ Tick

Spec == Init /\ [][Next]_vars

-----------------------------------------------------------------------------
\* Each of the three settings is a Timelock of its own: it changes only after the
\* timelock that was in force when the change was proposed, whatever happened to the
\* timelock and the owner since (modifier afterTimelock).
Never(old, new) == FALSE
OraclePending == IF pendingOracle.validAt = 0 THEN NoAddress ELSE pendingOracle
TimelockPending == IF pendingTimelock.validAt = 0 THEN NoAddress ELSE pendingTimelock
OwnerPending == IF pendingOwnership.validAt = 0 THEN NoAddress ELSE pendingOwnership

OracleNotice == INSTANCE Timelock WITH
    MinNotice <- MinTimelock, Harmless <- Never, Nothing <- NoAddress,
    notice <- timelock, value <- oracle, pending <- OraclePending
TimelockNotice == INSTANCE Timelock WITH
    MinNotice <- MinTimelock, Harmless <- Never, Nothing <- NoAddress,
    notice <- timelock, value <- timelock, pending <- TimelockPending
OwnerNotice == INSTANCE Timelock WITH
    MinNotice <- MinTimelock, Harmless <- Never, Nothing <- NoAddress,
    notice <- timelock, value <- owner, pending <- OwnerPending

ImplementsTimelock == OracleNotice!Spec /\ TimelockNotice!Spec /\ OwnerNotice!Spec

\* Without an owner nothing is pending any more, so that nothing can ever change:
\* acceptRenounceOwnership asks for it, and nothing is proposed afterwards.
RenouncedIsFinal ==
    owner = NoAddress =>
        \A p \in {pendingOracle, pendingTimelock, pendingOwnership} : whenNotPending(p)

=============================================================================
