--------------------------- MODULE MCReconciler ---------------------------
(* Values of the constants of Reconciler for TLC.                          *)
EXTENDS Reconciler, TLC

(* The accounting runs: plans that no purge touches.                       *)
Unlimited == {[enable |-> TRUE, limit |-> 0, days |-> 0]}

(* The enforcement runs: a quota, days, both, neither, and a disabled row. *)
Limited == {[enable |-> TRUE, limit |-> 2, days |-> 1],
            [enable |-> TRUE, limit |-> 0, days |-> 0],
            [enable |-> FALSE, limit |-> 0, days |-> 0]}

Symmetry == Permutations(User)
===========================================================================
