------------------------------- MODULE Meter -------------------------------
(***************************************************************************)
(* What a traffic meter promises, without saying how.  Every open account  *)
(* has the bytes its user moved and the bytes it was charged; a charge     *)
(* only grows while the account is open and never passes what was moved    *)
(* plus a tolerance.  The tolerance is there because lightxray's books are *)
(* not transactional: it may grow at any time, and an implementation has   *)
(* to say when it does (Reconciler: its variable surplus).                 *)
(***************************************************************************)
EXTENDS Integers

CONSTANT Account

VARIABLES open, moved, charged, tolerance

mvars == <<open, moved, charged, tolerance>>

Init ==
  /\ open \in SUBSET Account
  /\ moved = [a \in Account |-> 0]
  /\ charged = [a \in Account |-> 0]
  /\ tolerance = [a \in Account |-> 0]

(* One account moves bytes.                                                *)
Carry(a) ==
  /\ a \in open
  /\ moved' = [moved EXCEPT ![a] = moved'[a]]
  /\ moved'[a] > moved[a]
  /\ UNCHANGED <<open, charged, tolerance>>

(* One account is charged, within what it moved.                           *)
Charge(a) ==
  /\ a \in open
  /\ charged' = [charged EXCEPT ![a] = charged'[a]]
  /\ charged[a] < charged'[a] /\ charged'[a] <= moved[a] + tolerance[a]
  /\ UNCHANGED <<open, moved, tolerance>>

(* An account opens with what a backup says of it.                         *)
OpenAccount(a) ==
  /\ a \notin open
  /\ open' = open \cup {a}
  /\ moved' = [moved EXCEPT ![a] = moved'[a]]
  /\ charged' = [charged EXCEPT ![a] = moved'[a]]
  /\ tolerance' = [tolerance EXCEPT ![a] = tolerance'[a]]

(* Accounts close and leave nothing behind.                                *)
Close ==
  /\ open' \subseteq open
  /\ \A a \in Account :
       IF a \in open \ open'
       THEN moved'[a] = 0 /\ charged'[a] = 0 /\ tolerance'[a] = 0
       ELSE moved'[a] = moved[a] /\ charged'[a] = charged[a]
            /\ tolerance'[a] = tolerance[a]

(* A mishap widens the tolerance of some accounts.                         *)
Mishap ==
  /\ \A a \in Account : tolerance'[a] >= tolerance[a]
  /\ UNCHANGED <<open, moved, charged>>

Next ==
  \/ \E a \in Account : Carry(a) \/ Charge(a) \/ OpenAccount(a)
  \/ Close
  \/ Mishap

Spec == Init /\ [][Next]_mvars
===========================================================================
