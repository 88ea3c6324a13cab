---------------------------- MODULE MCLiveUsage ----------------------------
(* Values of the constants of LiveUsage for TLC: plans no purge touches.   *)
EXTENDS LiveUsage

Unlimited == {[enable |-> TRUE, limit |-> 0, days |-> 0]}

(* What the properties can still tell apart.  They say nothing of a        *)
(* request whose row has gone, and need the books at the reading only of a *)
(* quiet one; nothing here depends on the day's total, on what observes it *)
(* or, with these plans, on a date.                                        *)
Request ==
  IF same
  THEN <<view, asked, stored, seen, shown, truth, IF quiet THEN <<spare, lost>> ELSE <<>> >>
  ELSE <<view, asked>>

RequestView ==
  <<counter, listed, rows, usage, cursor, pc, snap, todo, held, prev, grow, boundVars,
    carried, applied, forfeit, hidden, surplus, Request>>

(* A bound: two of a restart, a failure and an edit.                       *)
TwoMishaps == restarts + faults + edits <= 2
===========================================================================
