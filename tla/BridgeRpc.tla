------------------------------ MODULE BridgeRpc ------------------------------
(***************************************************************************)
(* What the language server may assume of BridgeTransport::request         *)
(* (isabelle-lsp/src/main.rs 102-207), with sockets, locks and retries     *)
(* left out: a request reaches the bridge at most twice, is answered only  *)
(* if it reached it, and comes to exactly one outcome.                     *)
(***************************************************************************)
EXTENDS Naturals

CONSTANT Requests

VARIABLES
    outcome,    \* "unused", "open", then "answered" or "failed"
    reached     \* times the request was handed to the bridge in one piece

rpcVars == <<outcome, reached>>

Init ==
    /\ outcome = [r \in Requests |-> "unused"]
    /\ reached = [r \in Requests |-> 0]

Issue(r) ==
    /\ outcome[r] = "unused"
    /\ outcome' = [outcome EXCEPT ![r] = "open"]
    /\ UNCHANGED reached

Reach(r) ==
    /\ outcome[r] = "open" /\ reached[r] < 2
    /\ reached' = [reached EXCEPT ![r] = @ + 1]
    /\ UNCHANGED outcome

Answer(r) ==
    /\ outcome[r] = "open" /\ reached[r] > 0
    /\ outcome' = [outcome EXCEPT ![r] = "answered"]
    /\ UNCHANGED reached

Fail(r) ==
    /\ outcome[r] = "open"
    /\ outcome' = [outcome EXCEPT ![r] = "failed"]
    /\ UNCHANGED reached

Next == \E r \in Requests : Issue(r) \/ Reach(r) \/ Answer(r) \/ Fail(r)

Spec == Init /\ [][Next]_rpcVars
=============================================================================
