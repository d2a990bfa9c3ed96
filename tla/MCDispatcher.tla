---------------------------- MODULE MCDispatcher ----------------------------
(* A small instance of the writer pool for TLC. *)
EXTENDS Dispatcher, TLC

CONSTANTS c1, c2, c3, t1, t2, k1, k2, d1, d2

Plain(t, k) == [tenant |-> t, key |-> k, alone |-> FALSE]

(* Two calls that ride together, and a third of another tenant, which is   *)
(* stepped over, or under a key that is taken.                             *)
ThreeCallers ==
  c1 :> {Plain(t1, k1)} @@ c2 :> {Plain(t1, k2)} @@
  c3 :> {Plain(t2, k1), Plain(t1, k1)}
=============================================================================
