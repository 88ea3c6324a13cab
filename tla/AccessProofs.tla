---------------------------- MODULE AccessProofs ----------------------------
(***************************************************************************)
(* The abstract access list keeps its promise: MembershipProofs shows that *)
(* Provisioning implements the list.                                       *)
(***************************************************************************)
EXTENDS Access, TLAPS

(* Out of hand, every user is listed as it is entitled, up to its excuses. *)
Promise == \A u \in User \ inHand : Settled(u)

(* An excuse outlives what it excuses, so that a user left alone stays as  *)
(* settled as it was.                                                      *)
LEMMA LeftAloneSettled ==
  ASSUME NEW u \in User, Settled(u), LeftAlone(u), inUse' = inUse
  PROVE  Settled(u)'
BY DEF Settled, LeftAlone, Due

(* Whoever implements the list never has a user at rest who is entitled    *)
(* and missing, or listed without a right, without an excuse in force.     *)
THEOREM PromiseKept == Spec => []Promise
<1>1. Init => Promise
  BY DEF Init, Promise
<1>2. Promise /\ [Next]_avars => Promise'
  <2> SUFFICES ASSUME Promise, [Next]_avars, NEW u \in User, u \notin inHand'
               PROVE  Settled(u)'
    BY DEF Promise
  <2>1. CASE UNCHANGED avars
    BY <2>1 DEF avars, Promise, Settled, Due
  <2>2. CASE Next
    <3>1. CASE Handled(u)
      BY <3>1 DEF Handled
    <3>2. CASE LeftAlone(u)
      BY <2>2, <3>2, LeftAloneSettled DEF Next, LeftAlone, Promise
    <3> QED BY <2>2, <3>1, <3>2 DEF Next
  <2> QED BY <2>1, <2>2
<1> QED BY <1>1, <1>2, PTL DEF Spec
=============================================================================
