----------------------------- MODULE MCHelpers -----------------------------
(* Helpers for TLC.                                                        *)
EXTENDS Helpers, FiniteSets

(* What may matter later.  It does not matter which request is which; no   *)
(* action reads the last answer, and no property of this run asks for it   *)
(* or for a login that is not sure to work.                                *)
HelpersView ==
  LET under == {helper[r] : r \in Req}
  IN <<[h \in under |-> Cardinality({r \in Req : helper[r] = h})],
       conf, mem, servedVars, timers, cookie, applies, faults, restarts, debt,
       IF shown.sure THEN shown ELSE NoCookie>>

(* Bounds: a failure or a crash, not both, for timers kill helpers         *)
(* besides; and two helpers at once only until then.                       *)
OneMishap ==
  /\ faults + restarts <= 1
  /\ faults + restarts = 1 => Cardinality({r \in Req : InFlight(r)}) <= 1
===========================================================================
