-------------------------- MODULE MCBridgeTransport --------------------------
(* The push worker, whose requests run to their end, and a hover handler,   *)
(* which the editor may cancel.                                             *)
EXTENDS BridgeTransport

CONSTANTS worker, hover

MCCallers == {worker, hover}
MCCancellable == {hover}
=============================================================================
