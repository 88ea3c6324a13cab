-------------------------- MODULE MCSubscription --------------------------
(* Values of the constants of Subscription for TLC.                        *)
EXTENDS Subscription, TLC

Symmetry == Permutations(User) \cup Permutations(Host)

(* A bound: a Transports request or a failure.                             *)
OneOfBoth == applies + faults <= 1
===========================================================================
