------------------------------- MODULE Timelock -------------------------------
(***************************************************************************)
(* A value that changes only after notice: what the vault, the manageable  *)
(* oracle and the interest rate model promise of the settings they delay.  *)
(* A new value is announced, may be withdrawn until it takes effect, and   *)
(* takes effect no sooner than the notice that was required when it was    *)
(* announced.                                                              *)
(***************************************************************************)
EXTENDS Naturals

CONSTANTS
    MinNotice,          \* no shorter notice is ever required
    Harmless(_, _),     \* changes from one value to another that need none
    Nothing             \* there is no announcement

VARIABLES
    clock,
    notice,     \* required now
    value,      \* in force
    pending     \* Nothing, or the value announced and when it becomes valid

vars == <<clock, notice, value, pending>>

Init == notice >= MinNotice /\ pending = Nothing

Announce ==
    /\ pending = Nothing /\ pending' # Nothing
    /\ pending'.validAt >= clock + notice
    /\ value' = value

Withdraw == pending # Nothing /\ pending' = Nothing /\ value' = value

TakeEffect ==
    /\ pending # Nothing /\ pending' = Nothing
    /\ clock' >= pending.validAt
    /\ value' = pending.value

Immediately ==
    /\ pending = Nothing /\ pending' = Nothing
    /\ Harmless(value, value') \/ notice = 0

Next ==
    /\ clock' >= clock /\ notice' >= MinNotice
    /\ \/ Announce \/ Withdraw \/ TakeEffect \/ Immediately
       \/ UNCHANGED <<value, pending>>

Spec == Init /\ [][Next]_vars

=============================================================================
