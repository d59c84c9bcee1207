---------------------------- MODULE MCSupervisor ----------------------------
(* An instance of Supervisor for the model checker.                        *)
EXTENDS Supervisor

CONSTANTS w1, w2, w3
=============================================================================
