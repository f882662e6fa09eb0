---------------------------- MODULE MCRpcClient ----------------------------
(* Instances of RpcClient for TLC. *)
EXTENDS RpcClient

CONSTANTS a, b, c

\* The configured URL is one of the three fallbacks.
ThreeFallbacks == <<a, b, c>>

=============================================================================
