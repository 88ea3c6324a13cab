------------------------------- MODULE Access -------------------------------
(***************************************************************************)
(* What provisioning promises a customer, without saying how.              *)
(*                                                                         *)
(* Some users are entitled to connect; the proxy lists users on inbounds,  *)
(* some of which are in use.  A user in hand is being worked on and may be *)
(* in any state.  Out of hand it is listed exactly where it is entitled to *)
(* be, up to two excuses: it may be missing somewhere, or stay somewhere   *)
(* it should not.  An implementation has to say when it takes an excuse    *)
(* (Provisioning: mayLack and mayGhost), and may not drop one while the    *)
(* user is out of hand unless it has become void.                          *)
(***************************************************************************)

CONSTANTS User, Inbound

VARIABLES
  entitled,   \* users who may connect
  inUse,      \* inbounds offered to them
  listed,     \* [User -> SUBSET Inbound] where the proxy admits a user
  inHand,     \* users somebody is working on
  mayMiss,    \* users who may be missing on an inbound in use
  mayStay     \* users who may be listed without a right to

avars == <<entitled, inUse, listed, inHand, mayMiss, mayStay>>

Due(u) == IF u \in entitled THEN inUse ELSE {}

Settled(u) ==
  /\ u \notin mayMiss => Due(u) \subseteq listed[u]
  /\ u \notin mayStay => listed[u] \subseteq Due(u)

Init ==
  /\ entitled \in SUBSET User
  /\ inUse \in SUBSET Inbound
  /\ listed = [u \in User |-> {}]
  /\ inHand = User
  /\ mayMiss = {} /\ mayStay = {}

(* Work on u begins, goes on, or ends, and then leaves it settled.         *)
Handled(u) ==
  /\ u \in inHand \cup inHand'
  /\ u \notin inHand' => Settled(u)'

(* Nobody works on u: its right changes, and it is dropped from a list,    *)
(* only with an excuse for what that leaves behind; nobody lists it.       *)
LeftAlone(u) ==
  /\ u \notin inHand \cup inHand'
  /\ u \in entitled' \ entitled => u \in mayMiss'
  /\ u \in entitled \ entitled' => u \in mayStay'
  /\ listed'[u] \subseteq listed[u]
  /\ listed'[u] # listed[u] => u \in mayMiss'
  /\ u \in mayMiss => u \in mayMiss'
  /\ u \in mayStay \ mayStay' => listed'[u] = {}

(* Inbounds come into and go out of use while everybody is in hand.        *)
Next ==
  /\ inUse' = inUse \/ inHand = User \/ inHand' = User
  /\ \A u \in User : Handled(u) \/ LeftAlone(u)

Spec == Init /\ [][Next]_avars
===========================================================================
