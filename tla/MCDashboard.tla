---------------------------- MODULE MCDashboard ----------------------------
EXTENDS Dashboard, TLC

CONSTANTS r1, r2

MCSymmetry == Permutations({r1, r2})

Filled(e, p, t, s) == [enabled |-> e, port |-> p, target |-> t, sid |-> s]

(* What install.sh seeds.                                                  *)
MCInstalled == Filled("true", "443", "t1", "s1")

(* Switching on, with and without a short id; off, with a port that is     *)
(* none, and with nothing filled in; and on without a target, which is     *)
(* refused.                                                                *)
MCSent == {Filled("true", "443", "t2", "s1"), Filled("true", "443", "t1", ""),
           Filled("false", "x", "t1", "s1"), Filled("false", "", "", ""),
           Filled("true", "443", "", "s1")}
===========================================================================
