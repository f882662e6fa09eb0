----------------------------- MODULE RpcClient -----------------------------
(***************************************************************************)
(* rpc_multicall.py: JSON-RPC requests with fallback endpoints.  A request *)
(* goes to the candidate endpoints one after the other until one of them   *)
(* gives an answer that is worth returning.  Single requests also pass over *)
(* an error that another endpoint may not have (rate limits, 5xx, ...); a  *)
(* batch takes the first list, whatever the errors of its entries.  An     *)
(* exception that the client does not catch ends the script.               *)
(***************************************************************************)
EXTENDS Naturals, Sequences, FiniteSets, SequencesExt

CONSTANTS
    Urls,           \* the RPC endpoints
    Configured,     \* the URL given by option or environment, or NoUrl
    Fallbacks,      \* INTERNAL_FALLBACK_RPCS_BY_CHAIN of the chain
    MaxRequests,    \* bound on the requests of a script run
    NoUrl, NoOutcome, Failed, Raised

VARIABLES
    kind,       \* of the request under way: "single" or "batch"
    pc,         \* "idle", "send", "wait" or, after an exception, "ended"
    idx,        \* the candidate to ask next, or being asked
    log,        \* what the candidates of this request answered so far
    outcome,    \* of the last request: node and body, Failed or Raised
    requests    \* how many there were

vars == <<kind, pc, idx, log, outcome, requests>>

-----------------------------------------------------------------------------
(* Answers.  A single request gets a JSON object with a result or an error, *)
(* or something else; a batch a list of them, complete and free of errors   *)
(* or not.                                                                  *)

Objects == {"result", "error", "retryable"}
Lists == {"list", "listWithErrors"}
Junk == {"null", "other"}
Bodies == Objects \cup Lists
Transport == "transport"    \* connection, HTTP or JSON error, or timeout
Uncaught == "uncaught"      \* an exception of another kind: a bad URL, bytes that are
                            \* not UTF-8, an HTTP body that breaks off

Answers(k) == (IF k = "single" THEN Objects ELSE Lists) \cup Junk \cup {Transport}

ASSUME RpcAssumption ==
    /\ NoUrl \notin Urls /\ Configured \in Urls \cup {NoUrl}
    /\ Fallbacks \in Seq(Urls) /\ MaxRequests \in Nat
    /\ NoOutcome # Failed /\ NoOutcome # Raised /\ Failed # Raised
    /\ {NoOutcome, Failed, Raised} \cap [node : Urls, body : Bodies] = {}

-----------------------------------------------------------------------------
(* Endpoints *)

\* resolve_primary_rpc_url
Primary ==
    IF Configured # NoUrl THEN Configured
    ELSE IF Fallbacks # <<>> THEN Fallbacks[1] ELSE NoUrl

\* _rpc_candidate_urls: each endpoint once, where it comes first.
Candidates ==
    LET all == <<Primary>> \o Fallbacks
        urls[i \in 0..Len(all)] ==
            IF i = 0 THEN <<>>
            ELSE IF all[i] = NoUrl \/ Contains(urls[i - 1], all[i]) THEN urls[i - 1]
            ELSE Append(urls[i - 1], all[i])
    IN  urls[Len(all)]

-----------------------------------------------------------------------------
(* What ends a request *)

\* A batch looks at its entries like a single request.
FaultyAccepted(k, a, last) ==
    IF k = "single" THEN a \in Objects
    ELSE a \in Lists /\ (a # "listWithErrors" \/ last)

\* Whether an answer ends the request.
Accepted(k, a, last) ==
    IF k = "single" THEN a \in Objects /\ (a # "retryable" \/ last)
    ELSE a \in Lists

-----------------------------------------------------------------------------
Init ==
    /\ kind = "single" /\ pc = "idle" /\ idx = 1 /\ log = <<>>
    /\ outcome = NoOutcome /\ requests = 0

\* rpc_request and rpc_batch_request, up to the loop.
Request(k) ==
    /\ pc = "idle" /\ requests < MaxRequests
    /\ requests' = requests + 1 /\ kind' = k /\ idx' = 1 /\ log' = <<>>
    /\ IF Candidates = <<>>
       THEN pc' = "idle" /\ outcome' = Failed      \* rpc_url_not_set
       ELSE pc' = "send" /\ outcome' = NoOutcome

Send == pc = "send" /\ pc' = "wait" /\ UNCHANGED <<kind, idx, log, outcome, requests>>

\* Nothing is returned when no candidate has answered.
FaultyAnswer(a) ==
    /\ pc = "wait" /\ a \in Answers(kind)
    /\ log' = Append(log, [node |-> Candidates[idx], answer |-> a])
    /\ IF Accepted(kind, a, idx = Len(Candidates))
       THEN pc' = "idle" /\ outcome' = [node |-> Candidates[idx], body |-> a] /\ idx' = idx
       ELSE IF idx = Len(Candidates)
       THEN pc' = "idle" /\ outcome' = outcome /\ idx' = idx
       ELSE pc' = "send" /\ outcome' = outcome /\ idx' = idx + 1
    /\ UNCHANGED <<kind, requests>>

\* One turn of the loop: the candidate answers, or its timeout passes.
Answer(a) ==
    /\ pc = "wait" /\ a \in Answers(kind)
    /\ log' = Append(log, [node |-> Candidates[idx], answer |-> a])
    /\ IF Accepted(kind, a, idx = Len(Candidates))
       THEN pc' = "idle" /\ outcome' = [node |-> Candidates[idx], body |-> a] /\ idx' = idx
       ELSE IF idx = Len(Candidates)
       THEN pc' = "idle" /\ outcome' = Failed /\ idx' = idx
       ELSE pc' = "send" /\ outcome' = outcome /\ idx' = idx + 1
    /\ UNCHANGED <<kind, requests>>

\* No endpoint is asked any more, by this request or another.
Raise ==
    /\ pc = "wait" /\ pc' = "ended" /\ outcome' = Raised
    /\ log' = Append(log, [node |-> Candidates[idx], answer |-> Uncaught])
    /\ UNCHANGED <<kind, idx, requests>>

Return == Raise \/ \E a \in Answers(kind) : Answer(a)

Next == Send \/ Return \/ \E k \in {"single", "batch"} : Request(k)

\* Every request is sent with a timeout, so a turn of the loop ends.
Spec == Init /\ [][Next]_vars /\ WF_vars(Send) /\ WF_vars(Return)

-----------------------------------------------------------------------------
\* A request asks an endpoint at most once, also when the configured URL is one
\* of the fallbacks or there is none.
EachNodeOnce == IsInjective([i \in DOMAIN log |-> log[i].node])

\* The answer returned is the first good one, and an exception ends the script only
\* before one: every endpoint asked before the last had a transport error, an unusable
\* body or, if single, a retryable error.
FirstGoodAnswer ==
    outcome \notin {NoOutcome, Failed} =>
        \A i \in 1..Len(log) - 1 :
            \/ log[i].answer \in Junk \cup {Transport}
            \/ kind = "single" /\ log[i].answer = "retryable"

\* A request fails only after every endpoint was asked, and the last one gave
\* no object (list) at all: an error that the last endpoint reports is the
\* caller's answer.
FailsOnlyExhausted ==
    outcome = Failed /\ Candidates # <<>> =>
        /\ {log[i].node : i \in DOMAIN log} = Urls \cap Range(Candidates)
        /\ log[Len(log)].answer \in Junk \cup {Transport}

\* Whatever a request ends with, the answers of the endpoints justify it, and it has
\* put no endpoint to the question twice.
OutcomeJustified == EachNodeOnce /\ FirstGoodAnswer /\ FailsOnlyExhausted

\* The client implements the call its users expect.
Abstract == INSTANCE RpcCall WITH Nodes <- Urls, asked <- pc \in {"send", "wait"}
ImplementsRpcCall == Abstract!Spec

=============================================================================
