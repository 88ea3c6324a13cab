-------------------------- MODULE MCProvisioning --------------------------
(* Values of the constants of Provisioning for TLC.                        *)
EXTENDS Provisioning, TLC

Symmetry == Permutations(Handler) \cup Permutations(User) \cup Permutations(Page)

AtWork == {p \in Process : job[p].at # "idle"} \cup {r \in Page : apply[r].at # "idle"}

(* Bounds: of the handlers, the goroutine of main() and the Transports     *)
(* requests, at most two are at work at a time; two Transports requests,   *)
(* or one and a failure; beside and after the second, nobody else works.   *)
InPairs ==
  /\ Cardinality(AtWork) + (IF Starting THEN 1 ELSE 0) <= 2
  /\ applies + faults <= 2
  /\ applies = 2 => \A p \in Process : job[p].at = "idle"
===========================================================================
