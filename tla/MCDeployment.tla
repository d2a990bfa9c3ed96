---------------------------- MODULE MCDeployment ----------------------------
(* A small deployment for TLC. *)
EXTENDS Deployment, TLC

CONSTANTS release, branch, server, sweep, f, g

Commands ==
  [p \in Processes |->
    CASE p = server -> "serve" [] p = sweep -> "reconcile" [] OTHER -> "migrate"]

(* The second migration builds an index, and both jobs carry it; under the *)
(* third number somebody's branch has another file.                        *)
Carries == [p \in Processes |-> IF p = branch THEN <<f, f, g>> ELSE <<f, f, f>>]
=============================================================================
