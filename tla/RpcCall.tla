------------------------------ MODULE RpcCall ------------------------------
(***************************************************************************)
(* What the scripts expect of rpc_multicall.py: a request is answered once, *)
(* with a body that a node has sent, or it fails, or it raises an exception *)
(* and is the last one; and it does come back.                              *)
(* Which nodes are asked, and how often, is not the caller's business.      *)
(***************************************************************************)
CONSTANTS
    Nodes,      \* the RPC endpoints
    Bodies,     \* what a caller may be given
    NoOutcome, Failed, Raised

VARIABLES
    asked,      \* a request is under way
    outcome     \* of the last request

Outcomes == [node : Nodes, body : Bodies] \cup {Failed}

Init == ~asked /\ outcome = NoOutcome

\* Nothing is asked after an exception.
Ask == ~asked /\ outcome # Raised /\ asked' /\ outcome' = NoOutcome

Return == asked /\ ~asked' /\ outcome' \in Outcomes

Raise == asked /\ ~asked' /\ outcome' = Raised

\* Without an endpoint there is nothing to wait for.
Refuse == ~asked /\ outcome # Raised /\ ~asked' /\ outcome' = Failed

Next == Ask \/ Return \/ Raise \/ Refuse

Safety == Init /\ [][Next]_<<asked, outcome>>

\* Every request comes back.
Returns == asked ~> ~asked

Spec == Safety /\ Returns

=============================================================================
