-------------------------- MODULE MembershipProofs --------------------------
(***************************************************************************)
(* Theorems about Provisioning: whatever interleaves, an enabled user at   *)
(* rest is registered on every inbound in use and a registered user at     *)
(* rest is enabled, unless an event the observation variables name stood   *)
(* in between.                                                             *)
(*                                                                         *)
(* Neither property is inductive: both speak of users at rest.  What holds *)
(* while processes are at work on a user is the subject of SoloInv (who    *)
(* can be at work on an unmarked user, and what he knows of its row),      *)
(* LackInv (which registrations it has or is about to get) and GhostInv    *)
(* (which registrations it may have, and who is about to take the rest).   *)
(*                                                                         *)
(* From the same invariant follows, step by step, that Provisioning        *)
(* implements the abstract specification Access.                           *)
(***************************************************************************)
EXTENDS ProvisioningProofs

(* Request r is at transport k.                                            *)
AtKey(r, k) == Switching(r, k) \/ Filling(r, k)

USE DEF Applied, Served, AtKey, Switching, Filling

Handles(p, u) == u \in job[p].queue \cup job[p].cur

(* A process may be about to register u.                                   *)
MayAdd(p, u) == Handles(p, u) /\ (job[p].add \/ job[p].at = "patch")

(* What a job looks like at each point, and which inbounds have no users.  *)
ShapeInv ==
  /\ \A p \in Process :
       /\ job[p].at = "idle" => job[p] = Idle
       /\ job[p].at = "patch" => job[p].cur = {} /\ \E u \in User : job[p].queue = {u}
       /\ job[p].cur = {} => job[p].tags = {}
       /\ job[p].cur # {} =>
            /\ job[p].at = "work"
            /\ \E u \in User : job[p].cur = {u} /\ u \notin job[p].queue
       /\ job[p].then = "rollback" => job[p].add
       /\ job[p].then = "delete" => ~job[p].add
  /\ \A r \in Page : apply[r].at = "bulk" => apply[r].queue \subseteq apply[r].ids
  /\ \A t \in NoInbound : member[t] = {}

(* Who is at work on u.  During Transports requests and during a start     *)
(* nobody is; beside somebody who may register u nobody else is.           *)
NoneBesideApply(u) == Applied => \A p \in Process : ~Handles(p, u)
NoneInStart(u) == Starting => ~Worked(u)
AddsAlone(u) == \A p, q \in Process : p # q /\ MayAdd(p, u) => ~Handles(q, u)

(* What has been read of its row, or done to the tag set, is still true.   *)
ReadIsTrue(u) ==
  \A p \in Process :
    job[p].at = "patch" /\ u \in job[p].queue => (job[p].add <=> row[u] = "on")
ListIsTrue(u) ==
  \A r \in Page :
    apply[r].at \in {"flip", "tag", "bulk"} => (u \in apply[r].ids <=> row[u] = "on")
TagIsSwitched ==
  \A r \in Page, k \in Toggle : Filling(r, k) => (k \in active <=> apply[r].want[k])

(* No two requests are at the same transport.                              *)
KeysApart == \A q, r \in Page, k \in Toggle : q # r => ~(AtKey(q, k) /\ AtKey(r, k))

Solo(u) ==
  /\ NoneBesideApply(u) /\ NoneInStart(u) /\ AddsAlone(u)
  /\ ReadIsTrue(u) /\ ListIsTrue(u) /\ TagIsSwitched /\ KeysApart

(* Two operations that met on a user have marked it twice.                 *)
SoloInv == \A u \in User : (u \in mayLack /\ u \in mayGhost) \/ Solo(u)

(* Somebody has u in hand or is about to register it.                      *)
InHand(u) ==
  \E p \in Process :
    u \in job[p].cur \/ (job[p].at = "work" /\ job[p].add /\ u \in job[p].queue)

(* A Transports request has yet to come to u, to evict it perhaps.         *)
ToFill(u, t) == \E r \in Page : t \in Toggle /\ Filling(r, t) /\ u \in apply[r].queue
ToEmpty(u, t) ==
  \E r \in Page :
    t \in Toggle /\ Filling(r, t) /\ u \in apply[r].queue /\ ~apply[r].want[t]

(* An eviction that keeps the row is of a user who is not enabled.         *)
EvictsOff(u) ==
  \A p \in Process :
    job[p].at = "work" /\ ~job[p].add /\ job[p].then # "delete" /\ Handles(p, u)
      => row[u] # "on"

(* A registration under way covers what is missing, unless it has failed   *)
(* and the row is about to go.                                             *)
Covered(u) ==
  phase = "run" /\ row[u] = "on" /\ ~InHand(u) =>
    \A t \in active \ NoInbound : u \in member[t] \/ ToFill(u, t)
CopyCovers(u) ==
  \A p \in Process : job[p].add /\ u \in job[p].cur =>
    \/ job[p].then = "rollback" /\ ~job[p].ok
    \/ \A t \in active \ NoInbound : t \in job[p].tags \/ u \in member[t]

Lack(u) == EvictsOff(u) /\ Covered(u) /\ CopyCovers(u)
LackInv == \A u \in User : u \in mayLack \/ Lack(u)

(* Somebody is about to evict u and leaves its row alone.                  *)
Evicting(u) ==
  \E p \in Process :
    job[p].at = "work" /\ ~job[p].add /\ job[p].then # "delete" /\ Handles(p, u)

(* Nobody registers a user who is not enabled, or on a tag not in use.     *)
AddsOn(u) ==
  \A p \in Process : job[p].at = "work" /\ job[p].add /\ Handles(p, u) => row[u] = "on"
CopyInUse(u) == \A p \in Process : job[p].add /\ u \in job[p].cur => job[p].tags \subseteq active
NoRollback(u) == \A p \in Process : job[p].then = "rollback" /\ u \in job[p].cur => job[p].ok

(* Who is registered and should not be is about to be evicted, and will be *)
(* evicted wherever it is registered.                                      *)
StrayEvicted(u) == \A t \in Tag : u \in member[t] /\ row[u] # "on" => Evicting(u)
EvictionCovers(u) ==
  \A p \in Process, t \in Tag :
    ~job[p].add /\ u \in job[p].cur /\ u \in member[t] => t \in job[p].tags
TagsInUse(u) ==
  phase = "run" => \A t \in Tag :
    u \in member[t] => t \in active \/ ToEmpty(u, t)

(* Across a restart the stored toggles stand for the tags in use.          *)
CleanStart(u) ==
  Starting => \A t \in Tag : u \in member[t] => row[u] = "on" /\ Wanted(t) /\ ~drift

Ghost(u) ==
  /\ AddsOn(u) /\ CopyInUse(u) /\ NoRollback(u)
  /\ StrayEvicted(u) /\ EvictionCovers(u) /\ TagsInUse(u) /\ CleanStart(u)
GhostInv == \A u \in User : u \in mayGhost \/ Ghost(u)

MembersInv == ShapeInv /\ SoloInv /\ LackInv /\ GhostInv
---------------------------------------------------------------------------
(* Requests *)

(* Process p, idle so far, takes on the users us; those among them whom    *)
(* somebody else is at work on are marked.  This is what every request and *)
(* the purge do.                                                           *)
Begins(p, us, j) ==
  /\ job[p].at = "idle" /\ job' = [job EXCEPT ![p] = j]
  /\ j.queue = us /\ j.cur = {} /\ j.tags = {} /\ j.at \in {"patch", "work"}
  /\ j.then = "rollback" => j.add
  /\ j.then = "delete" => ~j.add
  /\ UNCHANGED <<setting, member, active, phase, apply, drift>>
  /\ mayLack \subseteq mayLack' /\ mayGhost \subseteq mayGhost'
  /\ \A u \in User \ us : row'[u] = row[u]
  /\ \A u \in us : ~(u \in mayLack' /\ u \in mayGhost') =>
       ~Adding(u) /\ (j.add \/ j.at = "patch" => ~Busy(u))
  /\ j.at = "patch" =>
       \E u \in us : us = {u} /\ row'[u] = row[u] /\ (j.add <=> row[u] = "on")
  /\ j.at = "work" => \A u \in us :
       \/ j.add /\ (row'[u] = "on" \/ u \in mayGhost')
       \/ ~j.add /\ j.then # "delete" /\ row'[u] # "on"
       \/ j.then = "delete" /\ row'[u] = row[u]

LEMMA BeginStep ==
  ASSUME TypeOK, MembersInv,
         NEW p \in Process, NEW us \in SUBSET User, NEW j \in Job, Begins(p, us, j)
  PROVE  MembersInv'
<1> USE DEF MembersInv, Begins
<1>1. job'[p] = j /\ \A q \in Process : q # p => job'[q] = job[q]
  BY DEF TypeOK
<1>2. job[p].queue = {} /\ job[p].cur = {}
  BY DEF ShapeInv, Idle
<1>3. ShapeInv'
  BY <1>1 DEF ShapeInv
<1>4. ASSUME NEW u \in User, u \notin us
      PROVE  \A q \in Process : Handles(q, u)' <=> Handles(q, u)
  BY <1>1, <1>2, <1>4 DEF Handles
<1>5. ASSUME NEW u \in us, ~(u \in mayLack' /\ u \in mayGhost')
      PROVE  /\ phase = "run" /\ ~Applied
             /\ \A q \in Process : ~MayAdd(q, u)
             /\ j.add \/ j.at = "patch" => \A q \in Process : ~Handles(q, u)
  BY <1>5 DEF Busy, Adding, Worked, Starting, Handles, MayAdd
<1>6. ASSUME NEW u \in User, ~(u \in mayLack' /\ u \in mayGhost')
      PROVE  Solo(u)'
  <2>0. Solo(u)
    BY <1>6 DEF SoloInv
  <2>1. CASE u \notin us
    <3> USE <1>1, <1>2, <2>0, <2>1, <1>4 DEF Solo
    <3>1. NoneBesideApply(u)' /\ NoneInStart(u)'
      BY DEF NoneBesideApply, NoneInStart, Starting, Worked, Handles
    <3>2. AddsAlone(u)'
      BY DEF AddsAlone, MayAdd, Handles
    <3>3. ReadIsTrue(u)' /\ ListIsTrue(u)' /\ TagIsSwitched' /\ KeysApart'
      BY DEF ReadIsTrue, ListIsTrue, TagIsSwitched, KeysApart
    <3> QED BY <3>1, <3>2, <3>3
  <2>2. CASE u \in us
    <3> USE <1>1, <1>2, <2>0, <2>2, <1>5, <1>6 DEF Solo
    <3>1. NoneBesideApply(u)' /\ NoneInStart(u)'
      BY DEF NoneBesideApply, NoneInStart, Starting
    <3>2. AddsAlone(u)'
      BY DEF AddsAlone, MayAdd, Handles
    <3>3. ReadIsTrue(u)'
      BY DEF ReadIsTrue, MayAdd, Handles
    <3>4. ListIsTrue(u)' /\ TagIsSwitched' /\ KeysApart'
      BY DEF ListIsTrue, TagIsSwitched, KeysApart
    <3> QED BY <3>1, <3>2, <3>3, <3>4
  <2> QED BY <2>1, <2>2
<1>7. ASSUME NEW u \in User, u \notin mayLack'
      PROVE  Lack(u)'
  <2> USE <1>1, <1>2, <1>5, <1>7 DEF Lack, LackInv
  <2>1. EvictsOff(u)'
    <3>1. CASE u \notin us
      BY <1>4, <3>1 DEF EvictsOff, Handles
    <3>2. CASE u \in us /\ j.at = "patch"
      BY <3>2 DEF EvictsOff, Handles
    <3>3. CASE u \in us /\ j.at = "work"
      BY <3>3 DEF EvictsOff, Handles
    <3> QED BY <3>1, <3>2, <3>3 DEF Job
  <2>2. Covered(u)'
    <3>1. \A t \in Tag : ToFill(u, t)' <=> ToFill(u, t)
      BY DEF ToFill
    <3>2. CASE u \notin us
      BY <3>1, <3>2 DEF Covered, InHand, TypeOK
    <3>3. CASE u \in us /\ row'[u] = row[u]
      BY <3>1, <3>3 DEF Covered, InHand, TypeOK
    <3>4. CASE u \in us /\ j.at = "work"
      BY <3>1, <3>4 DEF Covered, InHand, TypeOK
    <3> QED BY <3>2, <3>3, <3>4 DEF Job
  <2>3. CopyCovers(u)'
    BY DEF CopyCovers
  <2> QED BY <2>1, <2>2, <2>3
<1>8. ASSUME NEW u \in User, u \notin mayGhost'
      PROVE  Ghost(u)'
  <2> USE <1>1, <1>2, <1>5, <1>8 DEF Ghost, GhostInv
  <2>1. AddsOn(u)'
    BY DEF AddsOn, Handles, MayAdd
  <2>2. CopyInUse(u)' /\ NoRollback(u)' /\ EvictionCovers(u)'
    BY DEF CopyInUse, NoRollback, EvictionCovers
  <2>3. StrayEvicted(u)'
    <3>1. ASSUME Evicting(u) PROVE Evicting(u)'
      BY <3>1 DEF Evicting, Handles
    <3>2. CASE row'[u] = row[u]
      BY <3>1, <3>2 DEF StrayEvicted
    <3>3. CASE u \in us /\ j.at = "work" /\ ~j.add
      BY <3>3 DEF StrayEvicted, Evicting, Handles
    <3>4. CASE row'[u] = "on"
      BY <3>4 DEF StrayEvicted
    <3> QED BY <3>2, <3>3, <3>4 DEF Job
  <2>4. TagsInUse(u)'
    BY DEF TagsInUse, ToEmpty
  <2>5. CleanStart(u)'
    BY DEF CleanStart, Starting, Wanted
  <2> QED BY <2>1, <2>2, <2>3, <2>4, <2>5
<1> QED BY <1>3, <1>6, <1>7, <1>8 DEF SoloInv, LackInv, GhostInv

(* Rows change and no process is told: those of users who are marked, and  *)
(* those that were not enabled and still are not.                          *)
RowsOnly(us) ==
  /\ \A u \in User \ us : row'[u] = row[u]
  /\ UNCHANGED <<setting, member, active, phase, job, apply, drift>>
  /\ mayLack \subseteq mayLack' /\ mayGhost \subseteq mayGhost'
  /\ \A u \in us : ~(u \in mayLack' /\ u \in mayGhost') => ~Adding(u)
  /\ \A u \in us :
       \/ row'[u] = row[u]
       \/ row'[u] = "on" /\ u \in mayLack'
       \/ row'[u] # "on" /\ (row[u] # "on" \/ u \in mayGhost')

LEMMA RowsOnlyStep ==
  ASSUME TypeOK, MembersInv, NEW us \in SUBSET User, RowsOnly(us)
  PROVE  MembersInv'
<1> USE DEF MembersInv, RowsOnly
<1>1. ShapeInv'
  BY DEF ShapeInv
<1>2. \A u \in User, p \in Process : Handles(p, u)' <=> Handles(p, u)
  BY DEF Handles
<1>3. ASSUME NEW u \in us, ~(u \in mayLack' /\ u \in mayGhost')
      PROVE  phase = "run" /\ ~Applied /\ \A q \in Process : ~MayAdd(q, u)
  BY <1>3 DEF Adding, Starting, Handles, MayAdd
<1>4. ASSUME NEW u \in User, ~(u \in mayLack' /\ u \in mayGhost')
      PROVE  Solo(u)'
  <2> USE <1>2, <1>3, <1>4 DEF Solo, SoloInv
  <2>1. NoneBesideApply(u)' /\ NoneInStart(u)'
    BY DEF NoneBesideApply, NoneInStart, Starting, Worked, Handles
  <2>2. AddsAlone(u)'
    BY DEF AddsAlone, MayAdd, Handles
  <2>3. ReadIsTrue(u)'
    BY DEF ReadIsTrue, MayAdd, Handles
  <2>4. ListIsTrue(u)' /\ TagIsSwitched' /\ KeysApart'
    BY DEF ListIsTrue, TagIsSwitched, KeysApart
  <2> QED BY <2>1, <2>2, <2>3, <2>4
<1>5. ASSUME NEW u \in User, u \notin mayLack'
      PROVE  Lack(u)'
  <2> USE <1>2, <1>5 DEF Lack, LackInv
  <2>1. EvictsOff(u)'
    BY DEF EvictsOff
  <2>2. Covered(u)'
    BY DEF Covered, InHand, ToFill
  <2>3. CopyCovers(u)'
    BY DEF CopyCovers
  <2> QED BY <2>1, <2>2, <2>3
<1>6. ASSUME NEW u \in User, u \notin mayGhost'
      PROVE  Ghost(u)'
  <2> USE <1>2, <1>3, <1>6 DEF Ghost, GhostInv
  <2>1. AddsOn(u)'
    BY DEF AddsOn, MayAdd
  <2>2. CopyInUse(u)' /\ NoRollback(u)' /\ EvictionCovers(u)'
    BY DEF CopyInUse, NoRollback, EvictionCovers
  <2>3. StrayEvicted(u)'
    BY DEF StrayEvicted, Evicting
  <2>4. TagsInUse(u)'
    BY DEF TagsInUse, ToEmpty
  <2>5. CleanStart(u)'
    BY DEF CleanStart, Starting, Wanted
  <2> QED BY <2>1, <2>2, <2>3, <2>4, <2>5
<1> QED BY <1>1, <1>4, <1>5, <1>6 DEF SoloInv, LackInv, GhostInv

(* Marks only grow while xray and the daemon live.                         *)
LEMMA MarkGrows ==
  ASSUME NEW lack, NEW ghost, NEW stay, Mark(lack, ghost, stay)
  PROVE  mayLack \subseteq mayLack' /\ mayGhost \subseteq mayGhost'
BY DEF Mark

LEMMA ClashMarks ==
  ASSUME NEW us \in SUBSET User, NEW add \in BOOLEAN, NEW lack, NEW ghost, NEW stay,
         Mark(lack, ghost, stay), Clash(us, add) \subseteq lack, Clash(us, add) \subseteq ghost
  PROVE  \A u \in us : ~(u \in mayLack' /\ u \in mayGhost') =>
           /\ ~Adding(u)
           /\ add => ~Busy(u)
BY DEF Mark, Clash, Adding, Busy, Worked

LEMMA RequestStep ==
  ASSUME TypeOK, MembersInv, NEW p \in Handler, Request(p)
  PROVE  MembersInv'
<1> USE DEF marks
<1>0. p \in Process
  BY DEF Process
<1>1. ASSUME NEW u \in User, NEW enable \in BOOLEAN, adminCreateUser(p, u, enable)
      PROVE  MembersInv'
  <2>1. /\ job[p].at = "idle" /\ UNCHANGED <<setting, member, active, phase, apply, drift>>
        /\ row' = IF row[u] = "none" THEN [row EXCEPT ![u] = Flag(enable)] ELSE row
    BY <1>1 DEF adminCreateUser
  <2>2. \A v \in User \ {u} : row'[v] = row[v]
    BY <2>1 DEF TypeOK
  <2>3. CASE enable
    <3> DEFINE then == IF row[u] = "none" THEN "rollback" ELSE "nothing"
               j == Work({u}, TRUE, then)
               clash == Clash({u}, TRUE)
               ghost == clash \cup IF row[u] = "off" THEN {u} ELSE {}
    <3>1. job' = [job EXCEPT ![p] = j] /\ Mark(clash, ghost, clash)
      BY <1>1, <2>3 DEF adminCreateUser
    <3>2. j \in Job /\ j.queue = {u} /\ j.cur = {} /\ j.tags = {}
        /\ j.at = "work" /\ j.add = TRUE /\ j.then # "delete"
      BY WorkIsJob DEF Work, Idle
    <3>3. row'[u] = "on" \/ u \in mayGhost'
      <4>1. CASE row[u] = "off"
        BY <3>1, <4>1 DEF Mark
      <4>2. CASE row[u] # "off"
        BY <2>1, <2>3, <4>2 DEF TypeOK, Flag
      <4> QED BY <4>1, <4>2
    <3>4. \A v \in {u} : ~(v \in mayLack' /\ v \in mayGhost') => ~Adding(v) /\ ~Busy(v)
      <4>1. clash \subseteq ghost
        OBVIOUS
      <4> HIDE DEF clash, ghost
      <4>2. Clash({u}, TRUE) \subseteq clash
        BY DEF clash
      <4> QED BY <3>1, <4>1, <4>2, ClashMarks
    <3>5. mayLack \subseteq mayLack' /\ mayGhost \subseteq mayGhost'
      BY <3>1, MarkGrows
    <3>6. Begins(p, {u}, j)
      <4> HIDE DEF j, then, clash, ghost
      <4> QED BY <2>1, <2>2, <3>1, <3>2, <3>3, <3>4, <3>5 DEF Begins
    <3> QED BY <1>0, <3>2, <3>6, BeginStep
  <2>4. CASE ~enable
    <3> DEFINE clash == Clash({u}, FALSE)
    <3>1. UNCHANGED job /\ Mark(clash, clash, clash)
      BY <1>1, <2>4 DEF adminCreateUser
    <3>2. row'[u] = row[u] \/ (row'[u] # "on" /\ row[u] # "on")
      BY <2>1, <2>4 DEF TypeOK, Flag
    <3>3. \A v \in {u} : ~(v \in mayLack' /\ v \in mayGhost') => ~Adding(v)
      BY <3>1, ClashMarks
    <3>4. mayLack \subseteq mayLack' /\ mayGhost \subseteq mayGhost'
      BY <3>1, MarkGrows
    <3>5. RowsOnly({u})
      BY <2>1, <2>2, <3>1, <3>2, <3>3, <3>4 DEF RowsOnly
    <3> QED BY <3>5, RowsOnlyStep
  <2> QED BY <2>3, <2>4
<1>2. ASSUME NEW u \in User, NEW enable \in BOOLEAN, backupRestore(p, u, enable)
      PROVE  MembersInv'
  <2> DEFINE clash == Clash({u}, enable)
             j == Work({u}, TRUE, "nothing")
  <2>1. /\ job[p].at = "idle" /\ UNCHANGED <<setting, member, active, phase, apply, drift>>
        /\ row[u] = "none" /\ row' = [row EXCEPT ![u] = Flag(enable)]
        /\ job' = IF enable THEN [job EXCEPT ![p] = j] ELSE job
        /\ Mark(clash, clash, clash)
    BY <1>2 DEF backupRestore, Clashed
  <2>2. row'[u] = Flag(enable) /\ \A v \in User \ {u} : row'[v] = row[v]
    BY <2>1 DEF TypeOK
  <2>3. \A v \in {u} : ~(v \in mayLack' /\ v \in mayGhost') => ~Adding(v) /\ (enable => ~Busy(v))
    BY <2>1, ClashMarks
  <2>4. mayLack \subseteq mayLack' /\ mayGhost \subseteq mayGhost'
    BY <2>1, MarkGrows
  <2>5. j \in Job /\ j.queue = {u} /\ j.cur = {} /\ j.tags = {}
        /\ j.at = "work" /\ j.add = TRUE /\ j.then = "nothing"
    BY WorkIsJob DEF Work, Idle
  <2> HIDE DEF clash, j
  <2>6. CASE enable
    <3>1. Begins(p, {u}, j)
      BY <2>1, <2>2, <2>3, <2>4, <2>5, <2>6 DEF Begins, Flag
    <3> QED BY <1>0, <2>5, <3>1, BeginStep
  <2>7. CASE ~enable
    <3>1. RowsOnly({u})
      BY <2>1, <2>2, <2>3, <2>4, <2>7 DEF RowsOnly, Flag
    <3> QED BY <3>1, RowsOnlyStep
  <2> QED BY <2>6, <2>7
<1>3. ASSUME NEW u \in User, NEW enable \in BOOLEAN, adminPatchUser(p, u, enable)
      PROVE  MembersInv'
  <2> DEFINE clash == Clash({u}, enable)
             j == Work({u}, enable, "patched")
  <2>1. /\ job[p].at = "idle" /\ UNCHANGED <<setting, member, active, phase, apply, drift>>
        /\ row' = [row EXCEPT ![u] = Flag(enable)]
        /\ job' = [job EXCEPT ![p] = j]
        /\ Mark(clash, clash, clash)
    BY <1>3 DEF adminPatchUser, Clashed
  <2>2. row'[u] = Flag(enable) /\ \A v \in User \ {u} : row'[v] = row[v]
    BY <2>1 DEF TypeOK
  <2>3. \A v \in {u} : ~(v \in mayLack' /\ v \in mayGhost') => ~Adding(v) /\ (enable => ~Busy(v))
    BY <2>1, ClashMarks
  <2>4. mayLack \subseteq mayLack' /\ mayGhost \subseteq mayGhost'
    BY <2>1, MarkGrows
  <2>5. j \in Job /\ j.queue = {u} /\ j.cur = {} /\ j.tags = {}
        /\ j.at = "work" /\ j.add = enable /\ j.then = "patched"
    BY WorkIsJob DEF Work, Idle
  <2> HIDE DEF clash, j
  <2>6. Begins(p, {u}, j)
    BY <2>1, <2>2, <2>3, <2>4, <2>5 DEF Begins, Flag
  <2> QED BY <1>0, <2>5, <2>6, BeginStep
<1>4. ASSUME NEW u \in User, usersRead(p, u)
      PROVE  MembersInv'
  <2> DEFINE clash == Clash({u}, TRUE)
             j == [Idle EXCEPT !.at = "patch", !.add = (row[u] = "on"), !.queue = {u}]
  <2>1. /\ job[p].at = "idle" /\ UNCHANGED <<row, setting, member, active, phase, apply, drift>>
        /\ job' = [job EXCEPT ![p] = j]
        /\ Mark(clash, clash, clash)
    BY <1>4 DEF usersRead, Clashed
  <2>2. \A v \in {u} : ~(v \in mayLack' /\ v \in mayGhost') => ~Adding(v) /\ ~Busy(v)
    BY <2>1, ClashMarks
  <2>3. mayLack \subseteq mayLack' /\ mayGhost \subseteq mayGhost'
    BY <2>1, MarkGrows
  <2>4. /\ j \in Job /\ j.queue = {u} /\ j.cur = {} /\ j.tags = {}
        /\ j.at = "patch" /\ j.then = "nothing"
        /\ j.add <=> row[u] = "on"
    BY DEF Idle, Job
  <2> HIDE DEF clash, j
  <2>5. Begins(p, {u}, j)
    BY <2>1, <2>2, <2>3, <2>4 DEF Begins
  <2> QED BY <1>0, <2>4, <2>5, BeginStep
<1>5. ASSUME NEW us \in SUBSET User, usersDelete(p, us)
      PROVE  MembersInv'
  <2> DEFINE clash == Clash(us, FALSE)
             j == Work(us, FALSE, "delete")
  <2>1. /\ job[p].at = "idle" /\ UNCHANGED <<row, setting, member, active, phase, apply, drift>>
        /\ job' = [job EXCEPT ![p] = j]
        /\ Mark(clash, clash, clash)
    BY <1>5 DEF usersDelete, Clashed
  <2>2. \A v \in us : ~(v \in mayLack' /\ v \in mayGhost') => ~Adding(v)
    BY <2>1, ClashMarks
  <2>3. mayLack \subseteq mayLack' /\ mayGhost \subseteq mayGhost'
    BY <2>1, MarkGrows
  <2>4. /\ j \in Job /\ j.queue = us /\ j.cur = {} /\ j.tags = {} /\ j.at = "work"
        /\ j.then = "delete" /\ j.add = FALSE
    BY WorkIsJob DEF Work, Idle
  <2> HIDE DEF clash, j
  <2>5. Begins(p, us, j)
    BY <2>1, <2>2, <2>3, <2>4 DEF Begins
  <2> QED BY <1>0, <2>4, <2>5, BeginStep
<1> QED BY <1>1, <1>2, <1>3, <1>4, <1>5 DEF Request

---------------------------------------------------------------------------
(* Calls to xray *)

(* The copy a process takes of the tag set is that of the tags in use, and *)
(* a user about to be evicted is registered on no other.                   *)
LEMMA NextUserStep ==
  ASSUME TypeOK, MembersInv, NEW p \in Process, NextUser(p)
  PROVE  MembersInv'
<1> USE DEF MembersInv
<1>1. PICK v \in job[p].queue :
        job' = [job EXCEPT ![p].cur = {v}, ![p].queue = @ \ {v},
                           ![p].tags = active, ![p].ok = TRUE]
  BY DEF NextUser, activeTags
<1>2. job[p].at = "work" /\ job[p].cur = {} /\ v \in User
  BY DEF NextUser, TypeOK, Job
<1>3. job'[p] = [job[p] EXCEPT !.cur = {v}, !.queue = @ \ {v}, !.tags = active, !.ok = TRUE]
  BY <1>1 DEF TypeOK, Job
<1>4. /\ job'[p].at = "work" /\ job'[p].cur = {v} /\ job'[p].queue = job[p].queue \ {v}
      /\ job'[p].tags = active /\ job'[p].ok = TRUE
      /\ job'[p].add = job[p].add /\ job'[p].then = job[p].then
  BY <1>2, <1>3 DEF TypeOK, Job
<1>5. \A q \in Process : q # p => job'[q] = job[q]
  BY <1>1 DEF TypeOK
<1>6. UNCHANGED <<row, setting, member, active, phase, apply, drift, mayLack, mayGhost>>
  BY DEF NextUser, marks
<1>7. ShapeInv'
  BY <1>2, <1>4, <1>5, <1>6 DEF ShapeInv
<1>8. \A u \in User, q \in Process : Handles(q, u)' <=> Handles(q, u)
  BY <1>1, <1>2, <1>4, <1>5 DEF Handles
<1>9. ASSUME NEW u \in User, ~(u \in mayLack' /\ u \in mayGhost')
      PROVE  Solo(u)'
  <2> USE <1>4, <1>5, <1>6, <1>8, <1>9 DEF Solo, SoloInv
  <2>1. NoneBesideApply(u)' /\ NoneInStart(u)'
    BY DEF NoneBesideApply, NoneInStart, Starting, Worked, Handles
  <2>2. AddsAlone(u)'
    BY DEF AddsAlone, MayAdd
  <2>3. ReadIsTrue(u)' /\ ListIsTrue(u)' /\ TagIsSwitched' /\ KeysApart'
    BY DEF ReadIsTrue, ListIsTrue, TagIsSwitched, KeysApart
  <2> QED BY <2>1, <2>2, <2>3
<1>10. ASSUME NEW u \in User, u \notin mayLack'
       PROVE  Lack(u)'
  <2> USE <1>2, <1>4, <1>5, <1>6, <1>8, <1>10 DEF Lack, LackInv
  <2>1. EvictsOff(u)'
    BY DEF EvictsOff
  <2>2. Covered(u)'
    BY DEF Covered, InHand, ToFill
  <2>3. CopyCovers(u)'
    BY DEF CopyCovers
  <2> QED BY <2>1, <2>2, <2>3
<1>11. ASSUME NEW u \in User, u \notin mayGhost'
       PROVE  Ghost(u)'
  <2> USE <1>2, <1>4, <1>5, <1>6, <1>8, <1>11 DEF Ghost, GhostInv, SoloInv, Solo
  <2>1. AddsOn(u)'
    BY DEF AddsOn
  <2>2. CopyInUse(u)' /\ NoRollback(u)'
    BY DEF CopyInUse, NoRollback
  <2>3. StrayEvicted(u)'
    BY DEF StrayEvicted, Evicting
  <2>4. EvictionCovers(u)'
    <3>1. Handles(p, u) => phase = "run" /\ ~Applied
      BY DEF NoneInStart, NoneBesideApply, Worked, Starting, Handles
    <3>2. Handles(p, u) => \A t \in Tag : u \in member[t] => t \in active
      BY <3>1 DEF TagsInUse, ToEmpty
    <3> QED BY <3>2 DEF EvictionCovers, Handles
  <2>5. TagsInUse(u)'
    BY DEF TagsInUse, ToEmpty
  <2>6. CleanStart(u)'
    BY DEF CleanStart, Starting, Wanted
  <2> QED BY <2>1, <2>2, <2>3, <2>4, <2>5, <2>6
<1> QED BY <1>7, <1>9, <1>10, <1>11 DEF SoloInv, LackInv, GhostInv

(* A call on tag t for the user v process p is at work on: it succeeds, or *)
(* may have had its effect, and v is marked accordingly.                   *)
Answers(p, t, v) ==
  /\ t \in job[p].tags /\ job[p].cur = {v}
  /\ \E ok \in BOOLEAN :
       /\ job' = [job EXCEPT ![p].tags = @ \ {t}, ![p].ok = ok]
       /\ \/ member' = Altered(t, {v}, job[p].add) /\ ok = job[p].ok
             /\ UNCHANGED <<mayLack, mayGhost>>
          \/ /\ member' \in {member, Altered(t, {v}, job[p].add)} /\ ~ok
             /\ IF job[p].add /\ job[p].then # "rollback"
                THEN mayLack' = mayLack \cup {v} /\ mayGhost' = mayGhost
                ELSE mayLack' = mayLack /\ mayGhost' = mayGhost \cup {v}
  /\ UNCHANGED <<row, setting, active, phase, apply, drift>>

LEMMA AnswersStep ==
  ASSUME TypeOK, MembersInv, NEW p \in Process, NEW t \in Tag, NEW v \in User, Answers(p, t, v)
  PROVE  MembersInv'
<1> USE DEF MembersInv
<1>1. /\ job[p].at = "work" /\ v \notin job[p].queue
      /\ job[p].cur = {v} /\ t \in job[p].tags /\ job[p].add \in BOOLEAN
  BY DEF Answers, ShapeInv, TypeOK, Job
<1>2. PICK ok \in BOOLEAN :
        /\ job' = [job EXCEPT ![p].tags = @ \ {t}, ![p].ok = ok]
        /\ \/ member' = Altered(t, {v}, job[p].add) /\ ok = job[p].ok
              /\ UNCHANGED <<mayLack, mayGhost>>
           \/ /\ member' \in {member, Altered(t, {v}, job[p].add)} /\ ~ok
              /\ IF job[p].add /\ job[p].then # "rollback"
                 THEN mayLack' = mayLack \cup {v} /\ mayGhost' = mayGhost
                 ELSE mayLack' = mayLack /\ mayGhost' = mayGhost \cup {v}
  BY DEF Answers
<1>3. job'[p] = [job[p] EXCEPT !.tags = @ \ {t}, !.ok = ok]
  BY <1>2 DEF TypeOK, Job
<1>4. /\ job'[p].at = "work" /\ job'[p].cur = {v} /\ job'[p].queue = job[p].queue
      /\ job'[p].tags = job[p].tags \ {t} /\ job'[p].ok = ok
      /\ job'[p].add = job[p].add /\ job'[p].then = job[p].then
      /\ job[p].cur = {v} /\ t \in job[p].tags
  BY <1>1, <1>3 DEF TypeOK, Job
<1>5. \A q \in Process : q # p => job'[q] = job[q]
  BY <1>2 DEF TypeOK
<1>6. /\ UNCHANGED <<row, setting, active, phase, apply, drift>>
      /\ mayLack \subseteq mayLack' /\ mayGhost \subseteq mayGhost'
  BY <1>2 DEF Answers
<1>7. \A s \in Tag, u \in User : (s # t \/ u # v) => (u \in member'[s] <=> u \in member[s])
  BY <1>2 DEF Altered, TypeOK
<1>8. \A s \in NoInbound : member'[s] = {}
  BY <1>2, TagAssumption DEF Altered, TypeOK, ShapeInv
<1>9. /\ v \in member'[t] /\ v \notin member[t] => job[p].add
      /\ v \notin member'[t] /\ v \in member[t] => ~job[p].add
      /\ v \notin mayLack' /\ job[p].add =>
           (job[p].then = "rollback" /\ ~ok) \/ t \in NoInbound \/ v \in member'[t]
      /\ v \notin mayGhost' /\ ~job[p].add => v \notin member'[t]
      /\ v \notin mayGhost' /\ job[p].then = "rollback" => ok = job[p].ok
  BY <1>1, <1>2, TagAssumption DEF Altered, TypeOK, ShapeInv
<1>10. ShapeInv'
  BY <1>1, <1>4, <1>5, <1>6, <1>8 DEF ShapeInv
<1>11. \A u \in User, q \in Process : Handles(q, u)' <=> Handles(q, u)
  BY <1>4, <1>5 DEF Handles
<1>12. Handles(p, v)
  BY <1>4 DEF Handles
<1>13. ASSUME NEW u \in User, ~(u \in mayLack' /\ u \in mayGhost')
       PROVE  Solo(u)'
  <2> USE <1>4, <1>5, <1>6, <1>11, <1>13 DEF Solo, SoloInv
  <2>1. NoneBesideApply(u)' /\ NoneInStart(u)'
    BY DEF NoneBesideApply, NoneInStart, Starting, Worked, Handles
  <2>2. AddsAlone(u)'
    BY DEF AddsAlone, MayAdd
  <2>3. ReadIsTrue(u)' /\ ListIsTrue(u)' /\ TagIsSwitched' /\ KeysApart'
    BY DEF ReadIsTrue, ListIsTrue, TagIsSwitched, KeysApart
  <2> QED BY <2>1, <2>2, <2>3
<1>14. ASSUME NEW q \in Process, q # p, ~(v \in mayLack /\ v \in mayGhost), Handles(q, v)
       PROVE  ~job[p].add /\ ~job[q].add
  BY <1>12, <1>14 DEF SoloInv, Solo, AddsAlone, MayAdd
<1>15. ASSUME NEW u \in User, u \notin mayLack'
       PROVE  Lack(u)'
  <2> USE <1>1, <1>4, <1>5, <1>6, <1>7, <1>11, <1>15 DEF Lack, LackInv
  <2>1. EvictsOff(u)'
    BY DEF EvictsOff
  <2>2. Covered(u)'
    <3>1. u = v => InHand(u)'
      BY DEF InHand
    <3>2. InHand(u) => InHand(u)'
      BY DEF InHand
    <3> QED BY <3>1, <3>2 DEF Covered, ToFill, TypeOK
  <2>3. CopyCovers(u)'
    <3> SUFFICES ASSUME NEW q \in Process, job'[q].add, u \in job'[q].cur
                 PROVE  \/ job'[q].then = "rollback" /\ ~job'[q].ok
                        \/ \A s \in active \ NoInbound : s \in job'[q].tags \/ u \in member'[s]
      BY DEF CopyCovers
    <3>1. \/ job[q].then = "rollback" /\ ~job[q].ok
          \/ \A s \in active \ NoInbound : s \in job[q].tags \/ u \in member[s]
      BY DEF CopyCovers
    <3>2. CASE q = p
      BY <1>2, <1>9, <3>1, <3>2 DEF TypeOK
    <3>3. CASE q # p
      <4>1. u # v
        BY <1>14, <3>3 DEF Handles
      <4> QED BY <3>1, <3>3, <4>1 DEF TypeOK
    <3> QED BY <3>2, <3>3
  <2> QED BY <2>1, <2>2, <2>3
<1>16. ASSUME NEW u \in User, u \notin mayGhost'
       PROVE  Ghost(u)'
  <2> USE <1>1, <1>4, <1>5, <1>6, <1>7, <1>9, <1>11, <1>12, <1>16 DEF Ghost, GhostInv
  <2>1. AddsOn(u)'
    BY DEF AddsOn
  <2>2. CopyInUse(u)' /\ NoRollback(u)'
    BY DEF CopyInUse, NoRollback
  <2>3. StrayEvicted(u)'
    <3>1. Evicting(u) => Evicting(u)'
      BY DEF Evicting
    <3> QED BY <3>1 DEF StrayEvicted, AddsOn
  <2>4. EvictionCovers(u)'
    BY <1>14 DEF EvictionCovers, Handles
  <2>5. TagsInUse(u)'
    BY DEF TagsInUse, ToEmpty, CopyInUse
  <2>6. CleanStart(u)'
    BY DEF CleanStart, Starting, Wanted, SoloInv, Solo, NoneInStart, Worked, Handles
  <2> QED BY <2>1, <2>2, <2>3, <2>4, <2>5, <2>6
<1> QED BY <1>10, <1>13, <1>15, <1>16 DEF SoloInv, LackInv, GhostInv

LEMMA AlterStep ==
  ASSUME TypeOK, MembersInv, NEW p \in Process, NEW t \in Tag,
         AlterInbound(p, t) \/ AlterInboundFails(p, t)
  PROVE  MembersInv'
<1>1. t \in job[p].tags /\ job[p].cur # {}
  BY DEF AlterInbound, AlterInboundFails, MembersInv, ShapeInv
<1>2. PICK v \in User : job[p].cur = {v}
  BY <1>1 DEF MembersInv, ShapeInv
<1>3. job[p].ok \in BOOLEAN /\ job[p] \in Job
  BY DEF TypeOK, Job
<1>4. CASE AlterInbound(p, t)
  <2>1. job' = [job EXCEPT ![p].tags = @ \ {t}, ![p].ok = job[p].ok]
    BY <1>3, <1>4 DEF AlterInbound, TypeOK, Job
  <2>2. Answers(p, t, v)
    BY <1>1, <1>2, <1>3, <1>4, <2>1 DEF Answers, AlterInbound, marks
  <2> QED BY <2>2, AnswersStep
<1>5. CASE AlterInboundFails(p, t)
  <2>1. Answers(p, t, v)
    BY <1>1, <1>2, <1>5 DEF Answers, AlterInboundFails, Mark, MembersInv, ShapeInv
  <2> QED BY <2>1, AnswersStep
<1> QED BY <1>4, <1>5

(* Process p is done with v: an evicted user is nowhere registered and a   *)
(* registered one everywhere, or the failure that kept it out costs the    *)
(* row.  If that fails too, v is marked.                                   *)
Settles(p, v) ==
  /\ job[p].cur = {v} /\ job[p].tags = {}
  /\ Leave(p)
  /\ \/ row' = [u \in User |-> IF u \in {v} /\ DropsRow(p) THEN "none" ELSE row[u]]
        /\ UNCHANGED <<mayLack, mayGhost>>
     \/ DropsRow(p) /\ row' = row /\ mayLack' = mayLack \cup {v} /\ mayGhost' = mayGhost
  /\ UNCHANGED <<setting, member, active, phase, apply, drift>>

LEMMA SettlesStep ==
  ASSUME TypeOK, MembersInv, NEW p \in Process, NEW v \in User, Settles(p, v)
  PROVE  MembersInv'
<1> USE DEF MembersInv
<1>a. job \in [Process -> Job] /\ job[p] \in Job /\ job[p].add \in BOOLEAN
  BY DEF TypeOK, Job
<1>1. /\ job[p].at = "work" /\ v \notin job[p].queue
      /\ job[p].cur = {v} /\ job[p].tags = {} /\ job[p].add \in BOOLEAN
  <2>1. job[p].cur = {v} /\ job[p].tags = {}
    BY DEF Settles
  <2>2. job[p].at = "work" /\ \E u \in User : job[p].cur = {u} /\ u \notin job[p].queue
    BY <2>1 DEF ShapeInv
  <2> QED BY <1>a, <2>1, <2>2
<1>2. \/ job[p].queue = {} /\ job'[p] = Idle
      \/ /\ job[p].queue # {} /\ job'[p].at = "work"
         /\ job'[p].add = job[p].add /\ job'[p].then = job[p].then
  BY <1>a, <1>1 DEF Settles, Leave, Job
<1>3. job'[p].queue = job[p].queue /\ job'[p].cur = {} /\ job'[p].tags = {}
  BY <1>a, <1>1 DEF Settles, Leave, Job, Idle
<1>4. \A q \in Process : q # p => job'[q] = job[q]
  BY DEF Settles, Leave, TypeOK
<1>5. /\ UNCHANGED <<setting, member, active, phase, apply, drift>>
      /\ mayLack \subseteq mayLack' /\ mayGhost = mayGhost'
      /\ \A u \in User \ {v} : row'[u] = row[u]
  BY DEF Settles, TypeOK
<1>6. /\ row'[v] = "on" => row[v] = "on"
      /\ row'[v] # "on" /\ row[v] = "on" => DropsRow(p)
      /\ v \in mayLack' \/ row'[v] = IF DropsRow(p) THEN "none" ELSE row[v]
  BY DEF Settles, TypeOK
<1>7. /\ Handles(p, v) /\ ~Handles(p, v)'
      /\ \A u \in User \ {v}, q \in Process : Handles(q, u)' <=> Handles(q, u)
      /\ \A u \in User, q \in Process : Handles(q, u)' => Handles(q, u)
  BY <1>1, <1>3, <1>4 DEF Handles
<1>8. \A q \in Process : job'[q].at = "patch" => job[q].at = "patch" /\ job'[q] = job[q]
  BY <1>1, <1>2, <1>4 DEF Idle
<1>9. ShapeInv'
  BY <1>2, <1>3, <1>4, <1>5 DEF ShapeInv, Idle
<1>10. ASSUME NEW u \in User, ~(u \in mayLack' /\ u \in mayGhost')
       PROVE  Solo(u)'
  <2> USE <1>4, <1>5, <1>7, <1>8, <1>10 DEF Solo, SoloInv
  <2>1. NoneBesideApply(u)' /\ NoneInStart(u)'
    BY DEF NoneBesideApply, NoneInStart, Starting, Worked, Handles
  <2>2. AddsAlone(u)'
    <3>1. \A q \in Process : MayAdd(q, u)' => MayAdd(q, u)
      BY <1>2, <1>3 DEF MayAdd, Handles, Idle
    <3> QED BY <3>1 DEF AddsAlone
  <2>3. ReadIsTrue(u)'
    BY DEF ReadIsTrue, AddsAlone, MayAdd, Handles
  <2>4. ListIsTrue(u)' /\ TagIsSwitched' /\ KeysApart'
    BY DEF ListIsTrue, TagIsSwitched, KeysApart, NoneBesideApply
  <2> QED BY <2>1, <2>2, <2>3, <2>4
<1>11. ASSUME NEW u \in User, u \notin mayLack'
       PROVE  Lack(u)'
  <2> USE <1>4, <1>5, <1>7, <1>11 DEF Lack, LackInv
  <2>1. EvictsOff(u)'
    BY <1>1, <1>2, <1>6 DEF EvictsOff, Idle
  <2>2. Covered(u)'
    <3>1. CASE u # v
      <4>1. InHand(u) => InHand(u)'
        BY <1>1, <1>2, <1>3, <3>1 DEF InHand, Handles
      <4> QED BY <3>1, <4>1 DEF Covered, ToFill
    <3>2. CASE u = v /\ row'[v] = "on"
      <4>1. job[p].add /\ ~DropsRow(p)
        BY <1>1, <1>6, <3>2 DEF EvictsOff, DropsRow
      <4>2. \A t \in active \ NoInbound : v \in member[t]
        BY <1>1, <3>2, <4>1 DEF CopyCovers, DropsRow
      <4> QED BY <3>2, <4>2 DEF Covered
    <3>3. CASE u = v /\ row'[v] # "on"
      BY <3>3 DEF Covered
    <3> QED BY <3>1, <3>2, <3>3
  <2>3. CopyCovers(u)'
    BY <1>3 DEF CopyCovers
  <2> QED BY <2>1, <2>2, <2>3
<1>12. ASSUME NEW u \in User, u \notin mayGhost'
       PROVE  Ghost(u)'
  <2> USE <1>4, <1>5, <1>7, <1>12 DEF Ghost, GhostInv
  <2>0. Solo(u)
    BY DEF SoloInv
  <2>1. AddsOn(u)'
    <3>1. \A q \in Process : job'[q].at = "work" /\ job'[q].add /\ Handles(q, u)' =>
                               job[q].at = "work" /\ job[q].add /\ Handles(q, u)
      BY <1>1, <1>2 DEF Idle
    <3>2. CASE u # v
      BY <3>1, <3>2 DEF AddsOn
    <3>3. CASE u = v
      <4>1. \A q \in Process : q # p /\ Handles(q, v) => ~job[q].add
        BY <2>0, <3>3 DEF Solo, AddsAlone, MayAdd
      <4> QED BY <3>1, <3>3, <4>1 DEF AddsOn
    <3> QED BY <3>2, <3>3
  <2>2. CopyInUse(u)' /\ NoRollback(u)' /\ EvictionCovers(u)'
    BY <1>3 DEF CopyInUse, NoRollback, EvictionCovers
  <2>3. StrayEvicted(u)'
    <3>1. CASE u # v
      <4>1. Evicting(u) => Evicting(u)'
        BY <1>2, <1>3, <3>1 DEF Evicting, Handles
      <4> QED BY <3>1, <4>1 DEF StrayEvicted
    <3>2. CASE u = v /\ job[p].add
      <4>1. ~DropsRow(p) /\ row[v] = "on"
        BY <1>1, <3>2 DEF DropsRow, NoRollback, AddsOn, ShapeInv
      <4> QED BY <1>6, <3>2, <4>1 DEF StrayEvicted
    <3>3. CASE u = v /\ ~job[p].add
      BY <1>1, <3>3 DEF StrayEvicted, EvictionCovers
    <3> QED BY <3>1, <3>2, <3>3
  <2>4. TagsInUse(u)'
    BY DEF TagsInUse, ToEmpty
  <2>5. CleanStart(u)'
    BY <2>0 DEF CleanStart, Starting, Wanted, Solo, NoneInStart, Worked, Handles
  <2> QED BY <2>1, <2>2, <2>3, <2>4, <2>5
<1> QED BY <1>9, <1>10, <1>11, <1>12 DEF SoloInv, LackInv, GhostInv

LEMMA SettleStep ==
  ASSUME TypeOK, MembersInv, NEW p \in Process, Settle(p) \/ SettleFails(p)
  PROVE  MembersInv'
<1>1. job[p].cur # {}
  BY DEF Settle, SettleFails
<1>2. PICK v \in User : job[p].cur = {v}
  BY <1>1 DEF MembersInv, ShapeInv
<1>3. Settles(p, v)
  BY <1>2 DEF Settles, Settle, SettleFails, Mark, marks
<1> QED BY <1>3, SettlesStep

(* Process p gives up: whom it had in hand or in its queue is marked,      *)
(* unless a user to be deleted has not been touched yet.                   *)
GivesUp(p) ==
  /\ job[p].at = "work" /\ job' = [job EXCEPT ![p] = Idle]
  /\ \/ UNCHANGED member
     \/ \E t \in job[p].tags : member' = Altered(t, job[p].cur, job[p].add)
  /\ mayLack \subseteq mayLack' /\ mayGhost \subseteq mayGhost'
  /\ \A u \in User : Handles(p, u) =>
       IF job[p].add THEN u \in mayLack'
       ELSE IF job[p].then = "delete" THEN u \in job[p].cur => u \in mayLack'
       ELSE u \in mayGhost'
  /\ UNCHANGED <<row, setting, active, phase, apply, drift>>

LEMMA GivesUpStep ==
  ASSUME TypeOK, MembersInv, NEW p \in Process, GivesUp(p)
  PROVE  MembersInv'
<1> USE DEF MembersInv
<1>1. job[p].at = "work" /\ job'[p] = Idle /\ job[p].add \in BOOLEAN
  BY DEF GivesUp, TypeOK, Job
<1>2. \A q \in Process : q # p => job'[q] = job[q]
  BY DEF GivesUp, TypeOK
<1>3. /\ UNCHANGED <<row, setting, active, phase, apply, drift>>
      /\ mayLack \subseteq mayLack' /\ mayGhost \subseteq mayGhost'
  BY DEF GivesUp
<1>4. /\ \A u \in User, t \in Tag : u \notin job[p].cur => (u \in member'[t] <=> u \in member[t])
      /\ \A u \in User, t \in Tag : u \in member[t] /\ u \notin member'[t] => ~job[p].add
      /\ \A u \in User, t \in Tag : u \in member'[t] /\ u \notin member[t] =>
           job[p].add /\ t \in job[p].tags
      /\ \A t \in NoInbound : member'[t] = {}
  <2>1. /\ member \in [Tag -> SUBSET User] /\ job[p].tags \subseteq Tag
        /\ job[p].cur \subseteq User /\ job[p].add \in BOOLEAN
    BY DEF TypeOK, Job
  <2>2. \A t \in NoInbound : member[t] = {}
    BY DEF ShapeInv
  <2>3. CASE UNCHANGED member
    BY <2>2, <2>3
  <2>4. ASSUME NEW s \in job[p].tags, member' = Altered(s, job[p].cur, job[p].add)
        PROVE  /\ \A u \in User, t \in Tag :
                    u \notin job[p].cur => (u \in member'[t] <=> u \in member[t])
               /\ \A u \in User, t \in Tag :
                    u \in member[t] /\ u \notin member'[t] => ~job[p].add
               /\ \A u \in User, t \in Tag : u \in member'[t] /\ u \notin member[t] =>
                    job[p].add /\ t \in job[p].tags
               /\ \A t \in NoInbound : member'[t] = {}
    BY <2>1, <2>2, <2>4, TagAssumption DEF Altered
  <2> QED BY <2>3, <2>4 DEF GivesUp
<1>5. \A u \in User, q \in Process : Handles(q, u)' <=> q # p /\ Handles(q, u)
  BY <1>1, <1>2 DEF Handles, Idle
<1>6. ShapeInv'
  BY <1>1, <1>2, <1>3, <1>4 DEF ShapeInv, Idle
<1>7. ASSUME NEW u \in User, ~(u \in mayLack' /\ u \in mayGhost')
      PROVE  Solo(u)'
  <2> USE <1>1, <1>2, <1>3, <1>5, <1>7 DEF Solo, SoloInv, Idle
  <2>1. NoneBesideApply(u)' /\ NoneInStart(u)'
    BY DEF NoneBesideApply, NoneInStart, Starting, Worked, Handles
  <2>2. AddsAlone(u)'
    BY DEF AddsAlone, MayAdd
  <2>3. ReadIsTrue(u)' /\ ListIsTrue(u)' /\ TagIsSwitched' /\ KeysApart'
    BY DEF ReadIsTrue, ListIsTrue, TagIsSwitched, KeysApart
  <2> QED BY <2>1, <2>2, <2>3
<1>8. ASSUME NEW u \in User, u \notin mayLack'
      PROVE  Lack(u)'
  <2> USE <1>1, <1>2, <1>3, <1>5, <1>8 DEF Lack, LackInv
  <2>1. EvictsOff(u)'
    BY DEF EvictsOff
  <2>2. Covered(u)'
    <3>1. CASE u \in job[p].cur /\ job[p].then # "delete" /\ ~job[p].add
      BY <3>1 DEF Covered, EvictsOff, Handles
    <3>2. CASE u \in job[p].cur /\ (job[p].then = "delete" \/ job[p].add)
      BY <3>2 DEF GivesUp, Handles
    <3>3. CASE u \notin job[p].cur
      <4>1. InHand(u) => InHand(u)'
        BY <3>3 DEF InHand, GivesUp, Handles
      <4>2. \A t \in Tag : ToFill(u, t)' <=> ToFill(u, t)
        BY DEF ToFill
      <4>3. active \subseteq Tag
        BY DEF TypeOK
      <4> QED BY <1>4, <3>3, <4>1, <4>2, <4>3 DEF Covered
    <3> QED BY <3>1, <3>2, <3>3
  <2>3. CopyCovers(u)'
    <3> SUFFICES ASSUME NEW q \in Process, q # p, job[q].add, u \in job[q].cur
                 PROVE  \/ job[q].then = "rollback" /\ ~job[q].ok
                        \/ \A t \in active \ NoInbound : t \in job[q].tags \/ u \in member'[t]
      BY DEF CopyCovers, Idle
    <3>1. u \notin job[p].cur
      BY DEF SoloInv, Solo, AddsAlone, MayAdd, Handles
    <3> QED BY <1>4, <3>1 DEF CopyCovers, TypeOK
  <2> QED BY <2>1, <2>2, <2>3
<1>9. ASSUME NEW u \in User, u \notin mayGhost'
      PROVE  Ghost(u)'
  <2> USE <1>1, <1>2, <1>3, <1>4, <1>5, <1>9 DEF Ghost, GhostInv
  <2>0. Solo(u)
    BY DEF SoloInv
  <2>1. AddsOn(u)'
    BY DEF AddsOn
  <2>2. CopyInUse(u)' /\ NoRollback(u)'
    BY DEF CopyInUse, NoRollback, Idle
  <2>3. StrayEvicted(u)'
    <3>1. Evicting(u) => Evicting(u)'
      BY DEF Evicting, GivesUp
    <3>2. u \in job[p].cur /\ job[p].add => row[u] = "on"
      BY DEF AddsOn, Handles
    <3> QED BY <3>1, <3>2 DEF StrayEvicted
  <2>4. EvictionCovers(u)'
    <3> SUFFICES ASSUME NEW q \in Process, NEW t \in Tag, q # p,
                        ~job[q].add, u \in job[q].cur, u \in member'[t]
                 PROVE  t \in job[q].tags
      BY DEF EvictionCovers, Idle
    <3>1. u \in job[p].cur => ~job[p].add
      BY <2>0 DEF Solo, AddsAlone, MayAdd, Handles
    <3> QED BY <3>1 DEF EvictionCovers
  <2>5. TagsInUse(u)'
    BY DEF TagsInUse, ToEmpty, CopyInUse
  <2>6. CleanStart(u)'
    BY <2>0 DEF CleanStart, Starting, Wanted, Solo, NoneInStart, Worked, Handles
  <2> QED BY <2>1, <2>2, <2>3, <2>4, <2>5, <2>6
<1> QED BY <1>6, <1>7, <1>8, <1>9 DEF SoloInv, LackInv, GhostInv

LEMMA DeadlineStep ==
  ASSUME TypeOK, MembersInv, NEW p \in Process, DeadlineExpires(p)
  PROVE  MembersInv'
<1>1. GivesUp(p)
  BY DEF DeadlineExpires, GivesUp, Mark, Handles
<1> QED BY <1>1, GivesUpStep

(* A handler that has read the row of v goes on to write it, and tells     *)
(* xray, or gives up.                                                      *)
Writes(p, v, j) ==
  /\ job[p].at = "patch" /\ job[p].queue = {v} /\ job' = [job EXCEPT ![p] = j]
  /\ j = Idle \/ (/\ j.at = "work" /\ j.queue = {v} /\ j.cur = {} /\ j.tags = {}
                  /\ j.then = "patched" /\ (j.add <=> row'[v] = "on"))
  /\ \A u \in User \ {v} : row'[u] = row[u]
  /\ mayLack \subseteq mayLack' /\ mayGhost \subseteq mayGhost'
  /\ j = Idle => \/ row'[v] = "on" /\ (row[v] = "on" \/ v \in mayLack')
                 \/ row'[v] # "on" /\ (row[v] # "on" \/ v \in mayGhost')
  /\ UNCHANGED <<setting, member, active, phase, apply, drift>>

LEMMA WritesStep ==
  ASSUME TypeOK, MembersInv, NEW p \in Process, NEW v \in User, NEW j \in Job, Writes(p, v, j)
  PROVE  MembersInv'
<1> USE DEF MembersInv
<1>1. job[p].at = "patch" /\ job[p].cur = {} /\ job[p].queue = {v} /\ job'[p] = j
  BY DEF Writes, ShapeInv, TypeOK
<1>2. \A q \in Process : q # p => job'[q] = job[q]
  BY DEF Writes, TypeOK
<1>3. \/ j = Idle /\ j.at = "idle" /\ j.queue = {} /\ ~j.add
      \/ j.at = "work" /\ j.queue = {v} /\ j.then = "patched" /\ (j.add <=> row'[v] = "on")
  BY DEF Writes, Idle
<1>4. j.cur = {} /\ j.tags = {} /\ j.then \in {"nothing", "patched"}
  BY DEF Writes, Idle
<1>5. /\ UNCHANGED <<setting, member, active, phase, apply, drift>>
      /\ mayLack \subseteq mayLack' /\ mayGhost \subseteq mayGhost'
      /\ \A u \in User \ {v} : row'[u] = row[u]
  BY DEF Writes
<1>6. /\ \A u \in User, q \in Process : Handles(q, u)' => Handles(q, u)
      /\ \A u \in User, q \in Process : MayAdd(q, u)' => MayAdd(q, u)
      /\ MayAdd(p, v)
  BY <1>1, <1>2, <1>3, <1>4 DEF Handles, MayAdd
<1>7. ASSUME ~(v \in mayLack /\ v \in mayGhost)
      PROVE  \A q \in Process : q # p => ~Handles(q, v)
  BY <1>6, <1>7 DEF SoloInv, Solo, AddsAlone
<1>8. ShapeInv'
  BY <1>1, <1>2, <1>3, <1>4, <1>5 DEF ShapeInv
<1>9. ASSUME NEW u \in User, ~(u \in mayLack' /\ u \in mayGhost')
      PROVE  Solo(u)'
  <2> USE <1>1, <1>2, <1>3, <1>5, <1>6, <1>9 DEF Solo, SoloInv
  <2>1. NoneBesideApply(u)' /\ NoneInStart(u)'
    BY DEF NoneBesideApply, NoneInStart, Starting, Worked, Handles
  <2>2. AddsAlone(u)'
    BY DEF AddsAlone
  <2>3. ReadIsTrue(u)'
    BY <1>7 DEF ReadIsTrue, Handles
  <2>4. ListIsTrue(u)' /\ TagIsSwitched' /\ KeysApart'
    BY DEF ListIsTrue, TagIsSwitched, KeysApart, NoneBesideApply, MayAdd
  <2> QED BY <2>1, <2>2, <2>3, <2>4
<1>10. ASSUME NEW u \in User, u \notin mayLack'
       PROVE  Lack(u)'
  <2> USE <1>1, <1>2, <1>3, <1>4, <1>5, <1>6, <1>10 DEF Lack, LackInv
  <2>1. EvictsOff(u)'
    BY <1>7 DEF EvictsOff, Handles
  <2>2. Covered(u)'
    <3>1. CASE u # v
      <4>1. InHand(u) => InHand(u)'
        BY <3>1 DEF InHand
      <4> QED BY <3>1, <4>1 DEF Covered, ToFill
    <3>2. CASE u = v /\ j = Idle
      <4>1. InHand(u) => InHand(u)'
        BY DEF InHand
      <4>2. row'[u] = "on" => row[u] = "on"
        BY <3>2 DEF Writes
      <4> QED BY <4>1, <4>2 DEF Covered, ToFill
    <3>3. CASE u = v /\ j.at = "work"
      <4>1. row'[u] = "on" => InHand(u)'
        BY <3>3 DEF InHand, Idle
      <4> QED BY <4>1 DEF Covered
    <3> QED BY <3>1, <3>2, <3>3
  <2>3. CopyCovers(u)'
    BY DEF CopyCovers
  <2> QED BY <2>1, <2>2, <2>3
<1>11. ASSUME NEW u \in User, u \notin mayGhost'
       PROVE  Ghost(u)'
  <2> USE <1>1, <1>2, <1>3, <1>4, <1>5, <1>6, <1>11 DEF Ghost, GhostInv
  <2>0. Solo(u)
    BY DEF SoloInv
  <2>1. AddsOn(u)'
    BY <1>7 DEF AddsOn, Handles
  <2>2. CopyInUse(u)' /\ NoRollback(u)' /\ EvictionCovers(u)'
    BY DEF CopyInUse, NoRollback, EvictionCovers
  <2>3. StrayEvicted(u)'
    <3>1. CASE u # v
      <4>1. Evicting(u) => Evicting(u)'
        BY <3>1 DEF Evicting, Handles
      <4> QED BY <3>1, <4>1 DEF StrayEvicted
    <3>2. CASE u = v
      <4>1. ~Evicting(u)
        BY <1>7, <3>2 DEF Evicting
      <4>2. j.at = "work" /\ ~j.add => Evicting(u)'
        BY <3>2 DEF Evicting, Handles, Idle
      <4>3. j = Idle /\ row'[u] # "on" => row[u] # "on"
        BY <3>2 DEF Writes
      <4> QED BY <3>2, <4>1, <4>2, <4>3 DEF StrayEvicted
    <3> QED BY <3>1, <3>2
  <2>4. TagsInUse(u)'
    BY DEF TagsInUse, ToEmpty
  <2>5. CleanStart(u)'
    BY <2>0 DEF CleanStart, Starting, Wanted, Solo, NoneInStart, Worked, MayAdd, Handles
  <2> QED BY <2>1, <2>2, <2>3, <2>4, <2>5
<1> QED BY <1>8, <1>9, <1>10, <1>11 DEF SoloInv, LackInv, GhostInv

LEMMA usersWriteStep ==
  ASSUME TypeOK, MembersInv, NEW p \in Process, NEW enable \in BOOLEAN, usersWrite(p, enable)
  PROVE  MembersInv'
<1>1. job[p].at = "patch" /\ job[p] \in Job
  BY DEF usersWrite, TypeOK
<1>2. PICK v \in User : job[p].queue = {v}
  BY <1>1 DEF MembersInv, ShapeInv
<1> DEFINE work == Work({v}, enable, "patched")
           j == IF row[v] = "none" \/ enable = job[p].add THEN Idle ELSE work
<1>3. work \in Job /\ work.at = "work" /\ work.queue = {v} /\ work.cur = {} /\ work.tags = {}
      /\ work.then = "patched" /\ work.add = enable
  BY WorkIsJob DEF Work, Idle
<1> HIDE DEF work
<1>4. j \in Job
  BY <1>3, IdleIsJob
<1>5. /\ job' = [job EXCEPT ![p] = j]
      /\ row' = IF row[v] = "none" THEN row ELSE [row EXCEPT ![v] = Flag(enable)]
      /\ UNCHANGED <<setting, member, active, phase, apply, drift, mayLack, mayGhost>>
  BY <1>2 DEF usersWrite, marks, work
<1>6. CASE v \in mayLack /\ v \in mayGhost
  <2>1. Writes(p, v, j)
    BY <1>1, <1>2, <1>3, <1>5, <1>6 DEF Writes, TypeOK, Flag
  <2> QED BY <1>4, <2>1, WritesStep
<1>7. CASE ~(v \in mayLack /\ v \in mayGhost)
  <2>1. job[p].add <=> row[v] = "on"
    BY <1>1, <1>2, <1>7 DEF MembersInv, SoloInv, Solo, ReadIsTrue
  <2>2. \/ j = Idle /\ (row'[v] = "on" <=> row[v] = "on")
        \/ j = work /\ (row'[v] = "on" <=> enable)
    <3>1. CASE row[v] = "none"
      BY <1>5, <3>1
    <3>2. CASE row[v] # "none"
      <4>1. row'[v] = "on" <=> enable
        BY <1>5, <3>2 DEF TypeOK, Flag
      <4>2. enable = job[p].add => (enable <=> row[v] = "on")
        BY <2>1
      <4> QED BY <3>2, <4>1, <4>2
    <3> QED BY <3>1, <3>2
  <2>3. \A u \in User \ {v} : row'[u] = row[u]
    BY <1>5 DEF TypeOK
  <2> HIDE DEF j
  <2>4. Writes(p, v, j)
    BY <1>1, <1>2, <1>3, <1>5, <2>2, <2>3 DEF Writes, Idle
  <2> QED BY <1>4, <2>4, WritesStep
<1> QED BY <1>6, <1>7

LEMMA RowAnswerLostStep ==
  ASSUME TypeOK, MembersInv, NEW p \in Process, NEW u \in User, NEW enable \in BOOLEAN,
         RowAnswerLost(p, u, enable)
  PROVE  MembersInv'
<1> DEFINE clash == IF job[p].at = "idle" THEN Clash({u}, enable) ELSE {}
           lack == clash \cup IF enable /\ row[u] # "on" THEN {u} ELSE {}
           ghost == clash \cup IF ~enable /\ row[u] = "on" THEN {u} ELSE {}
<1>1. /\ job' = [job EXCEPT ![p] = Idle] /\ row' = [row EXCEPT ![u] = Flag(enable)]
      /\ Mark(lack, ghost, clash)
      /\ UNCHANGED <<setting, member, active, phase, apply, drift>>
  BY DEF RowAnswerLost
<1>2. row'[u] = Flag(enable) /\ \A v \in User \ {u} : row'[v] = row[v]
  BY <1>1 DEF TypeOK
<1>3. mayLack \subseteq mayLack' /\ mayGhost \subseteq mayGhost'
  BY <1>1, MarkGrows
<1>4. \/ row'[u] = "on" /\ (row[u] = "on" \/ u \in mayLack')
      \/ row'[u] # "on" /\ (row[u] # "on" \/ u \in mayGhost')
  BY <1>1, <1>2 DEF Mark, Flag
<1>5. CASE job[p].at = "idle"
  <2>1. job' = job
    BY <1>1, <1>5 DEF MembersInv, ShapeInv, TypeOK
  <2>2. clash \subseteq lack /\ clash \subseteq ghost /\ Clash({u}, enable) \subseteq clash
    BY <1>5
  <2> HIDE DEF clash, lack, ghost
  <2>3. \A v \in {u} : ~(v \in mayLack' /\ v \in mayGhost') => ~Adding(v)
    BY <1>1, <2>2, ClashMarks
  <2>4. RowsOnly({u})
    BY <1>1, <1>2, <1>3, <1>4, <2>1, <2>3 DEF RowsOnly, TypeOK
  <2> QED BY <2>4, RowsOnlyStep
<1>6. CASE job[p].at = "patch"
  <2>1. job[p].queue = {u}
    BY <1>6 DEF RowAnswerLost, MembersInv, ShapeInv
  <2>2. Writes(p, u, Idle)
    BY <1>1, <1>2, <1>3, <1>4, <1>6, <2>1 DEF Writes
  <2> QED BY <2>2, IdleIsJob, WritesStep
<1> QED BY <1>5, <1>6 DEF RowAnswerLost

LEMMA ProceedStep ==
  ASSUME TypeOK, MembersInv, NEW p \in Process, Proceed(p)
  PROVE  MembersInv'
BY usersWriteStep, NextUserStep, AlterStep, SettleStep DEF Proceed

---------------------------------------------------------------------------
(* The start and the purge *)

(* Until the start is over nobody is at work on an unmarked user, and      *)
(* whatever changes the tag set leaves what users are registered on alone. *)
LEMMA StartingStep ==
  ASSUME TypeOK, MembersInv, Starting, Starting',
         UNCHANGED <<row, setting, member, job, apply>>,
         mayLack \subseteq mayLack', mayGhost \subseteq mayGhost',
         drift' => drift \/ mayGhost' = User
  PROVE  MembersInv'
<1> USE DEF MembersInv
<1>1. ShapeInv'
  BY DEF ShapeInv
<1>2. ASSUME NEW u \in User, ~(u \in mayLack' /\ u \in mayGhost')
      PROVE  Solo(u)' /\ ~Applied /\ \A p \in Process : ~Handles(p, u)
  <2>1. Solo(u) /\ ~Applied /\ \A p \in Process : ~Handles(p, u)
    BY <1>2 DEF SoloInv, Solo, NoneInStart, Worked, Handles
  <2> USE <2>1 DEF Solo, Handles, MayAdd
  <2>2. NoneBesideApply(u)' /\ NoneInStart(u)' /\ AddsAlone(u)'
    BY DEF NoneBesideApply, NoneInStart, Worked, AddsAlone
  <2>3. ReadIsTrue(u)' /\ ListIsTrue(u)' /\ TagIsSwitched' /\ KeysApart'
    BY DEF ReadIsTrue, ListIsTrue, TagIsSwitched, KeysApart
  <2> QED BY <2>2, <2>3
<1>3. ASSUME NEW u \in User, u \notin mayLack'
      PROVE  Lack(u)'
  <2> USE <1>2, <1>3 DEF Lack, LackInv, Handles
  <2>1. EvictsOff(u)' /\ CopyCovers(u)'
    BY DEF EvictsOff, CopyCovers
  <2>2. Covered(u)'
    BY DEF Covered, Starting
  <2> QED BY <2>1, <2>2
<1>4. ASSUME NEW u \in User, u \notin mayGhost'
      PROVE  Ghost(u)'
  <2> USE <1>2, <1>4 DEF Ghost, GhostInv, Handles
  <2>1. AddsOn(u)' /\ CopyInUse(u)' /\ NoRollback(u)' /\ EvictionCovers(u)'
    BY DEF AddsOn, CopyInUse, NoRollback, EvictionCovers
  <2>2. StrayEvicted(u)'
    BY DEF StrayEvicted, Evicting
  <2>3. TagsInUse(u)'
    BY DEF TagsInUse, Starting
  <2>4. CleanStart(u)'
    BY DEF CleanStart, Wanted
  <2> QED BY <2>1, <2>2, <2>3, <2>4
<1> QED BY <1>1, <1>2, <1>3, <1>4 DEF SoloInv, LackInv, GhostInv

(* The start is over: the tags in use are those of the settings, so who    *)
(* was registered before the daemon died is registered rightly; who is     *)
(* not is about to be, or marked.                                          *)
Hydrates ==
  /\ phase = "toggles" /\ phase' = "run" /\ boot = Unset
  /\ \/ job' = job /\ mayLack' = User /\ mayGhost' = mayGhost
     \/ /\ job' = [job EXCEPT ![Loop] = IF AllUUIDsEnabled = {} THEN Idle
                                        ELSE Work(AllUUIDsEnabled, TRUE, "nothing")]
        /\ mayLack' = {u \in User : Worked(u)}
        /\ mayGhost' = mayGhost \cup {u \in User : Worked(u)}
  /\ UNCHANGED <<row, setting, member, active, apply, drift>>

LEMMA HydratesStep ==
  ASSUME TypeOK, TagInv, MembersInv, Hydrates
  PROVE  MembersInv'
<1> USE DEF MembersInv
<1>1. /\ phase = "toggles" /\ phase' = "run" /\ Starting /\ ~Starting'
      /\ UNCHANGED <<row, setting, member, active, apply, drift>>
      /\ mayGhost \subseteq mayGhost'
  BY DEF Hydrates, Starting
<1>2. Loop \in Process /\ \A q \in Process : q # Loop => job'[q] = job[q]
  BY DEF Hydrates, TypeOK, Process
<1>3. \/ job'[Loop] = job[Loop] /\ mayLack' = User
      \/ /\ job'[Loop].cur = {} /\ job'[Loop].tags = {} /\ job'[Loop].then = "nothing"
         /\ \/ job'[Loop] = Idle /\ job'[Loop].at = "idle" /\ job'[Loop].queue = {}
               /\ AllUUIDsEnabled = {}
            \/ job'[Loop].at = "work" /\ job'[Loop].add = TRUE
               /\ job'[Loop].queue = AllUUIDsEnabled
  <2>1. CASE job' = job /\ mayLack' = User
    BY <2>1
  <2>2. CASE job' = [job EXCEPT ![Loop] = IF AllUUIDsEnabled = {} THEN Idle
                                          ELSE Work(AllUUIDsEnabled, TRUE, "nothing")]
    <3>1. job'[Loop] = IF AllUUIDsEnabled = {} THEN Idle
                       ELSE Work(AllUUIDsEnabled, TRUE, "nothing")
      BY <1>2, <2>2 DEF TypeOK
    <3> QED BY <3>1 DEF Work, Idle
  <2> QED BY <2>1, <2>2 DEF Hydrates
<1>4. ShapeInv'
  BY <1>1, <1>2, <1>3 DEF ShapeInv, Idle
(* Whoever is not marked now nobody was at work on.                        *)
<1>5. ASSUME NEW u \in User, ~(u \in mayLack' /\ u \in mayGhost')
      PROVE  ~Applied /\ \A p \in Process : ~Handles(p, u)
  <2>1. ~Worked(u)
    BY <1>1, <1>5 DEF Hydrates, SoloInv, Solo, NoneInStart
  <2> QED BY <2>1 DEF Worked, Handles
<1>6. ASSUME NEW u \in User, ~(u \in mayLack' /\ u \in mayGhost')
      PROVE  Solo(u)'
  <2> USE <1>1, <1>2, <1>3, <1>5, <1>6 DEF Solo
  <2>1. NoneBesideApply(u)' /\ NoneInStart(u)'
    BY DEF NoneBesideApply, NoneInStart
  <2>2. AddsAlone(u)' /\ ReadIsTrue(u)'
    BY DEF AddsAlone, ReadIsTrue, MayAdd, Handles
  <2>3. ListIsTrue(u)' /\ TagIsSwitched' /\ KeysApart'
    BY DEF ListIsTrue, TagIsSwitched, KeysApart
  <2> QED BY <2>1, <2>2, <2>3
<1>7. ASSUME NEW u \in User, u \notin mayLack'
      PROVE  Lack(u)'
  <2> USE <1>1, <1>2, <1>3, <1>5, <1>7 DEF Lack, Handles
  <2>1. EvictsOff(u)'
    BY DEF EvictsOff
  <2>2. CopyCovers(u)'
    BY DEF CopyCovers
  <2>3. Covered(u)'
    <3>1. row[u] = "on" => job'[Loop].at = "work" /\ job'[Loop].add /\ u \in job'[Loop].queue
      BY DEF AllUUIDsEnabled
    <3> QED BY <3>1 DEF Covered, InHand
  <2> QED BY <2>1, <2>2, <2>3
<1>8. ASSUME NEW u \in User, u \notin mayGhost'
      PROVE  Ghost(u)'
  <2> USE <1>1, <1>2, <1>3, <1>5, <1>8 DEF Handles
  <2>0. Ghost(u)
    BY DEF GhostInv
  <2>1. \A t \in Tag : u \in member[t] => row[u] = "on" /\ t \in active
    <3>1. ~drift => \A t \in Tag : Follows(t)
      BY DEF Hydrates, TagInv, BootInv, Unset
    <3> QED BY <2>0, <3>1 DEF Ghost, CleanStart, Follows
  <2>2. AddsOn(u)'
    BY DEF AddsOn, AllUUIDsEnabled
  <2>3. CopyInUse(u)' /\ NoRollback(u)' /\ EvictionCovers(u)'
    BY DEF CopyInUse, NoRollback, EvictionCovers
  <2>4. StrayEvicted(u)' /\ TagsInUse(u)' /\ CleanStart(u)'
    BY <2>1 DEF StrayEvicted, TagsInUse, CleanStart
  <2> QED BY <2>2, <2>3, <2>4 DEF Ghost
<1> QED BY <1>4, <1>6, <1>7, <1>8 DEF SoloInv, LackInv, GhostInv

LEMMA StartStep ==
  ASSUME TypeOK, TagInv, MembersInv, Startup \/ ReadTogglesFails \/ HydrateFails
  PROVE  MembersInv'
<1> USE DEF marks
<1>1. CASE ReadToggles \/ (\E k \in Toggle : LayToggle(k)) \/ ReadTogglesFails
  <2>1. /\ Starting /\ Starting' /\ UNCHANGED <<row, setting, member, job, apply>>
        /\ drift' => drift \/ mayGhost' = User
    <3>1. CASE ReadToggles \/ \E k \in Toggle : LayToggle(k)
      BY <3>1 DEF ReadToggles, LayToggle, Starting
    <3>2. CASE ReadTogglesFails
      <4>1. mayGhost' = User
        BY <3>2 DEF ReadTogglesFails, Mark, TypeOK
      <4> QED BY <3>2, <4>1 DEF ReadTogglesFails, Starting
    <3> QED BY <1>1, <3>1, <3>2
  <2>2. mayLack \subseteq mayLack' /\ mayGhost \subseteq mayGhost'
    BY <1>1 DEF ReadToggles, LayToggle, ReadTogglesFails, Mark
  <2> QED BY <2>1, <2>2, StartingStep
<1>2. CASE HydrateFromDB \/ HydrateFails
  <2>1. Hydrates
    BY <1>2 DEF HydrateFromDB, HydrateFails, Hydrates, Mark, TypeOK
  <2> QED BY <2>1, HydratesStep
<1> QED BY <1>1, <1>2 DEF Startup

LEMMA PurgeStep ==
  ASSUME TypeOK, MembersInv, DeleteDisabledOverLimitOrExpired \/ DeleteAnswerLost
  PROVE  MembersInv'
<1> USE DEF marks
<1>1. PICK due \in SUBSET AllUUIDsEnabled :
        LET gone == due \cup {u \in User : row[u] = "off"}
        IN  /\ row' = [u \in User |-> IF u \in gone THEN "none" ELSE row[u]]
            /\ \/ /\ job' = [job EXCEPT ![Loop] = Work(gone, FALSE, "nothing")]
                  /\ Mark(Clash(gone, FALSE), Clash(gone, FALSE), Clash(gone, FALSE))
               \/ job' = job /\ Mark(Clash(gone, FALSE), gone, gone)
  BY DEF DeleteDisabledOverLimitOrExpired, DeleteAnswerLost, Clashed
<1> DEFINE gone == due \cup {u \in User : row[u] = "off"}
           j == Work(gone, FALSE, "nothing")
           clash == Clash(gone, FALSE)
<1>2. gone \in SUBSET User
  BY DEF AllUUIDsEnabled
<1>3. /\ \A u \in User \ gone : row'[u] = row[u]
      /\ \A u \in gone : row'[u] = "none"
  BY <1>1, <1>2
<1>4. \/ job' = [job EXCEPT ![Loop] = j] /\ Mark(clash, clash, clash)
      \/ job' = job /\ Mark(clash, gone, gone)
  BY <1>1
<1>5. /\ job[Loop].at = "idle" /\ Loop \in Process
      /\ UNCHANGED <<setting, member, active, phase, apply, drift>>
  BY DEF DeleteDisabledOverLimitOrExpired, DeleteAnswerLost, Clashed, Process
<1> HIDE DEF gone
<1>6. j \in Job /\ j.queue = gone /\ j.cur = {} /\ j.tags = {} /\ j.at = "work"
      /\ j.add = FALSE /\ j.then = "nothing"
  BY <1>2, WorkIsJob DEF Work, Idle
<1>7. Clash(gone, FALSE) = clash /\ clash \subseteq gone
  BY DEF Clash
<1> HIDE DEF j, clash
<1>8. mayLack \subseteq mayLack' /\ mayGhost \subseteq mayGhost'
  BY <1>4, MarkGrows
<1>9. \A u \in gone : ~(u \in mayLack' /\ u \in mayGhost') => ~Adding(u)
  BY <1>2, <1>4, <1>7, ClashMarks
<1>10. CASE job' = job /\ Mark(clash, gone, gone)
  <2>1. gone \subseteq mayGhost'
    BY <1>10 DEF Mark
  <2>2. RowsOnly(gone)
    BY <1>3, <1>5, <1>8, <1>9, <1>10, <2>1 DEF RowsOnly
  <2> QED BY <1>2, <2>2, RowsOnlyStep
<1>11. CASE job' = [job EXCEPT ![Loop] = j]
  <2>1. Begins(Loop, gone, j)
    BY <1>3, <1>5, <1>6, <1>8, <1>9, <1>11 DEF Begins
  <2> QED BY <1>2, <1>5, <1>6, <2>1, BeginStep
<1> QED BY <1>4, <1>10, <1>11

---------------------------------------------------------------------------
(* The Transports page *)

(* While one is under way nobody is at work on an unmarked user.           *)
LEMMA UnderWay ==
  ASSUME TypeOK, MembersInv, Applied,
         NEW u \in User, ~(u \in mayLack /\ u \in mayGhost)
  PROVE  Solo(u) /\ phase = "run" /\ \A p \in Process : ~Handles(p, u)
BY DEF MembersInv, SoloInv, Solo, NoneBesideApply, NoneInStart, Worked, Starting

(* Steps of a request before and between the tags it switches.             *)
Prepares(r) ==
  /\ apply'[r].at \in {"idle", "list", "flip", "tag"}
  /\ apply[r].at = "bulk" => apply[r].queue = {}
  /\ apply'[r].at \in {"flip", "tag"} =>
       \/ apply[r].at = "list" /\ apply'[r].ids = AllUUIDsEnabled
       \/ apply[r].at \in {"flip", "bulk"} /\ apply'[r].ids = apply[r].ids
  /\ \A q \in Page \ {r} : apply'[q] = apply[q]
  /\ \A u \in User : ~(u \in mayLack' /\ u \in mayGhost') =>
       /\ Applied \/ (~Served(u) /\ ~Starting)
       /\ \A q \in Page \ {r}, k \in Toggle : AtKey(r, k)' => ~AtKey(q, k)
  /\ setting' # setting => apply[r].at = "flip"
  /\ mayLack \subseteq mayLack' /\ mayGhost \subseteq mayGhost'
  /\ drift' => drift \/ mayGhost' = User
  /\ UNCHANGED <<row, member, active, phase, job>>

LEMMA PreparesStep ==
  ASSUME TypeOK, MembersInv, NEW r \in Page, Prepares(r)
  PROVE  MembersInv'
<1> USE DEF MembersInv, Prepares
<1>1. ShapeInv'
  BY DEF ShapeInv
(* Whoever is unmarked is at rest, and nothing that matters changes.       *)
<1>2. ASSUME NEW u \in User, ~(u \in mayLack' /\ u \in mayGhost')
      PROVE  Solo(u) /\ phase = "run" /\ \A p \in Process : ~Handles(p, u)
  BY <1>2, UnderWay DEF SoloInv, Starting, Handles
<1>3. ASSUME NEW u \in User, ~(u \in mayLack' /\ u \in mayGhost')
      PROVE  Solo(u)'
  <2> USE <1>2, <1>3 DEF Solo
  <2>1. NoneBesideApply(u)' /\ NoneInStart(u)' /\ AddsAlone(u)'
    BY DEF NoneBesideApply, NoneInStart, Starting, AddsAlone, MayAdd, Handles
  <2>2. ReadIsTrue(u)'
    BY DEF ReadIsTrue
  <2>3. ListIsTrue(u)'
    BY DEF ListIsTrue, AllUUIDsEnabled
  <2>4. TagIsSwitched'
    BY DEF TagIsSwitched
  <2>5. KeysApart'
    BY DEF KeysApart
  <2> QED BY <2>1, <2>2, <2>3, <2>4, <2>5
(* A request whose queue is empty has nobody to come to.                   *)
<1>4. ASSUME NEW u \in User, NEW t \in Tag
      PROVE  (ToFill(u, t) => ToFill(u, t)') /\ (ToEmpty(u, t) => ToEmpty(u, t)')
  BY DEF ToFill, ToEmpty
<1>5. ASSUME NEW u \in User, u \notin mayLack'
      PROVE  Lack(u)'
  <2> USE <1>2, <1>5 DEF Lack, LackInv
  <2>1. EvictsOff(u)' /\ CopyCovers(u)'
    BY DEF EvictsOff, CopyCovers, Handles
  <2>2. Covered(u)'
    BY <1>4 DEF Covered, InHand, TypeOK
  <2> QED BY <2>1, <2>2
<1>6. ASSUME NEW u \in User, u \notin mayGhost'
      PROVE  Ghost(u)'
  <2> USE <1>2, <1>6 DEF Ghost, GhostInv
  <2>1. AddsOn(u)' /\ CopyInUse(u)' /\ NoRollback(u)' /\ EvictionCovers(u)'
    BY DEF AddsOn, CopyInUse, NoRollback, EvictionCovers, Handles
  <2>2. StrayEvicted(u)'
    BY DEF StrayEvicted, Evicting, Handles
  <2>3. TagsInUse(u)' /\ CleanStart(u)'
    BY <1>4 DEF TagsInUse, CleanStart, Starting
  <2> QED BY <2>1, <2>2, <2>3
<1> QED BY <1>1, <1>3, <1>5, <1>6 DEF SoloInv, LackInv, GhostInv

LEMMA PrepareStep ==
  ASSUME TypeOK, MembersInv, NEW r \in Page,
         \/ transportsApply(r) \/ ListEnabled(r) \/ ApplyFails(r) \/ NextKey(r)
         \/ \E k \in Toggle : SetSetting(r, k) \/ SetSettingFails(r, k)
  PROVE  MembersInv'
<1> USE DEF marks
<1>0. apply \in [Page -> Apply] /\ apply[r] \in Apply
  BY DEF TypeOK
<1>1. CASE transportsApply(r)
  <2>1. apply[r].at = "idle" /\ apply'[r].at = "list"
        /\ \A q \in Page \ {r} : apply'[q] = apply[q]
    <3>1. PICK want, keys : apply' = [apply EXCEPT ![r] = [NoApply EXCEPT
                              !.at = "list", !.want = want, !.keys = keys]]
      BY <1>1 DEF transportsApply
    <3>2. apply[r].at = "idle"
      BY <1>1 DEF transportsApply
    <3> QED BY <1>0, <3>1, <3>2 DEF NoApply
  <2>2. \A u \in User : ~(u \in mayLack' /\ u \in mayGhost') => ~Served(u) /\ ~Starting
    BY <1>1 DEF transportsApply, Mark
  <2>3. mayLack \subseteq mayLack' /\ mayGhost \subseteq mayGhost'
    BY <1>1 DEF transportsApply, Mark
  <2>4. drift' => drift \/ mayGhost' = User
    BY <1>1 DEF transportsApply, Mark, TypeOK
  <2>5. UNCHANGED <<row, setting, member, active, phase, job>>
    BY <1>1 DEF transportsApply
  <2>6. Prepares(r)
    BY <2>1, <2>2, <2>3, <2>4, <2>5 DEF Prepares
  <2> QED BY <2>6, PreparesStep
<1>2. CASE ListEnabled(r)
  <2>1. /\ apply[r].at = "list" /\ apply'[r].at = "flip" /\ apply'[r].ids = AllUUIDsEnabled
        /\ \A q \in Page \ {r} : apply'[q] = apply[q]
    BY <1>0, <1>2 DEF ListEnabled, Apply
  <2>2. Prepares(r)
    BY <1>2, <2>1 DEF ListEnabled, Prepares
  <2> QED BY <2>2, PreparesStep
<1>3. CASE ApplyFails(r)
  <2>1. /\ apply[r].at = "list" /\ apply'[r].at = "idle"
        /\ \A q \in Page \ {r} : apply'[q] = apply[q]
    BY <1>0, <1>3 DEF ApplyFails, NoApply
  <2>2. Prepares(r)
    BY <1>3, <2>1 DEF ApplyFails, Prepares
  <2> QED BY <2>2, PreparesStep
<1>4. CASE NextKey(r)
  <2>1. /\ apply[r].at \in {"bulk", "flip"} /\ (apply[r].at = "bulk" => apply[r].queue = {})
        /\ apply'[r].at \in {"idle", "flip"}
        /\ apply'[r].at = "flip" => apply'[r].ids = apply[r].ids
        /\ \A q \in Page \ {r} : apply'[q] = apply[q]
    BY <1>0, <1>4 DEF NextKey, NoApply, Apply
  <2>2. Prepares(r)
    BY <1>4, <2>1 DEF NextKey, Prepares
  <2> QED BY <2>2, PreparesStep
<1>5. ASSUME NEW k \in Toggle, SetSetting(r, k)
      PROVE  MembersInv'
  <2>1. /\ apply[r].at = "flip" /\ apply'[r].at = "tag" /\ apply'[r].key = {k}
        /\ apply'[r].ids = apply[r].ids
        /\ \A q \in Page \ {r} : apply'[q] = apply[q]
    BY <1>0, <1>5 DEF SetSetting, Apply
  <2>2. /\ mayLack \subseteq mayLack' /\ mayGhost \subseteq mayGhost' /\ drift' = drift
        /\ UNCHANGED <<row, member, active, phase, job>>
    BY <1>5 DEF SetSetting, Clashed, Mark
  <2>3. ASSUME NEW u \in User, ~(u \in mayLack' /\ u \in mayGhost'),
               NEW q \in Page \ {r}
        PROVE  ~AtKey(q, k)
    BY <1>5, <2>3 DEF SetSetting, Clashed, Mark
  <2>4. ASSUME NEW u \in User, ~(u \in mayLack' /\ u \in mayGhost'),
               NEW q \in Page \ {r}, NEW c \in Toggle, AtKey(r, c)'
        PROVE  ~AtKey(q, c)
    <3>1. c = k
      BY <2>1, <2>4
    <3> QED BY <2>3, <2>4, <3>1
  <2>5. Prepares(r)
    BY <2>1, <2>2, <2>4 DEF Prepares
  <2> QED BY <2>5, PreparesStep
<1>6. ASSUME NEW k \in Toggle, SetSettingFails(r, k)
      PROVE  MembersInv'
  <2>1. /\ apply[r].at = "flip" /\ apply'[r].at = "idle"
        /\ \A q \in Page \ {r} : apply'[q] = apply[q]
    BY <1>0, <1>6 DEF SetSettingFails, NoApply
  <2>2. /\ mayLack \subseteq mayLack' /\ mayGhost \subseteq mayGhost'
        /\ drift' => drift \/ mayGhost' = User
    <3>1. CASE UNCHANGED <<setting, marks>>
      BY <3>1
    <3>2. CASE Mark({}, User, User)
      BY <3>2 DEF Mark, TypeOK
    <3> QED BY <1>6, <3>1, <3>2 DEF SetSettingFails
  <2>3. UNCHANGED <<row, member, active, phase, job>>
    BY <1>6 DEF SetSettingFails
  <2>4. Prepares(r)
    BY <2>1, <2>2, <2>3 DEF Prepares
  <2> QED BY <2>4, PreparesStep
<1> QED BY <1>1, <1>2, <1>3, <1>4, <1>5, <1>6

(* A tag comes into use, and every enabled user has yet to be registered   *)
(* on it; or it goes out of use, and every user registered on it, all of   *)
(* them enabled, has yet to be evicted there.                              *)
LEMMA SwitchTagStep ==
  ASSUME TypeOK, MembersInv, NEW r \in Page, NEW k \in Toggle, SwitchTag(r, k)
  PROVE  MembersInv'
<1> USE DEF MembersInv
<1>0. apply[r].at = "tag" /\ apply[r].key = {k} /\ apply[r] \in Apply
  BY DEF SwitchTag, TypeOK
<1>1. /\ apply'[r].at = "bulk" /\ apply'[r].key = {k} /\ apply'[r].queue = apply[r].ids
      /\ apply'[r].ids = apply[r].ids /\ apply'[r].want = apply[r].want
      /\ apply[r].want[k] \in BOOLEAN
      /\ \A q \in Page \ {r} : apply'[q] = apply[q]
  BY <1>0 DEF SwitchTag, Apply, TypeOK
<1>2. \A t \in Tag : t \in active' <=> IF t = k THEN apply[r].want[k] ELSE t \in active
  BY <1>1, TagAssumption DEF SwitchTag
<1>3. UNCHANGED <<row, setting, member, phase, job, mayLack, mayGhost>>
  BY DEF SwitchTag
<1>4. ASSUME NEW u \in User, ~(u \in mayLack /\ u \in mayGhost)
      PROVE  Solo(u) /\ phase = "run" /\ \A p \in Process : ~Handles(p, u)
  BY <1>0, <1>4, UnderWay
<1>5. ShapeInv'
  BY <1>1, <1>3 DEF ShapeInv
<1>6. ASSUME NEW u \in User, ~(u \in mayLack' /\ u \in mayGhost')
      PROVE  Solo(u)'
  <2> USE <1>0, <1>1, <1>3, <1>4, <1>6 DEF Solo
  <2>1. NoneBesideApply(u)' /\ NoneInStart(u)' /\ AddsAlone(u)'
    BY DEF NoneBesideApply, NoneInStart, Starting, AddsAlone, MayAdd, Handles
  <2>2. ReadIsTrue(u)' /\ ListIsTrue(u)'
    BY DEF ReadIsTrue, ListIsTrue
  <2>3. KeysApart'
    BY DEF KeysApart
  <2>4. TagIsSwitched'
    BY <1>2, TagAssumption DEF TagIsSwitched, KeysApart
  <2> QED BY <2>1, <2>2, <2>3, <2>4
(* The other requests have as far to go as before.                         *)
<1>7. ASSUME NEW u \in User, NEW t \in Tag
      PROVE  (ToFill(u, t) => ToFill(u, t)') /\ (ToEmpty(u, t) => ToEmpty(u, t)')
  BY <1>0, <1>1 DEF ToFill, ToEmpty
<1>8. ASSUME NEW u \in User, u \notin mayLack'
      PROVE  Lack(u)'
  <2> USE <1>0, <1>1, <1>3, <1>4, <1>8 DEF Lack, LackInv
  <2>1. EvictsOff(u)' /\ CopyCovers(u)'
    BY DEF EvictsOff, CopyCovers, Handles
  <2>2. Covered(u)'
    <3>1. row[u] = "on" => ToFill(u, k)'
      BY DEF Solo, ListIsTrue, ToFill
    <3>2. active' \subseteq Tag
      BY TagAssumption DEF SwitchTag, TypeOK
    <3> QED BY <1>2, <1>7, <3>1, <3>2 DEF Covered, InHand
  <2> QED BY <2>1, <2>2
<1>9. ASSUME NEW u \in User, u \notin mayGhost'
      PROVE  Ghost(u)'
  <2> USE <1>0, <1>1, <1>3, <1>4, <1>9 DEF Ghost, GhostInv
  <2>1. AddsOn(u)' /\ CopyInUse(u)' /\ NoRollback(u)' /\ EvictionCovers(u)'
    BY DEF AddsOn, CopyInUse, NoRollback, EvictionCovers, Handles
  <2>2. StrayEvicted(u)'
    BY DEF StrayEvicted, Evicting, Handles
  <2>3. TagsInUse(u)'
    <3>1. \A t \in Tag : u \in member[t] => u \in apply[r].ids
      BY DEF Solo, ListIsTrue, StrayEvicted, Evicting
    <3>2. ~apply[r].want[k] /\ u \in apply[r].ids => ToEmpty(u, k)'
      BY DEF ToEmpty
    <3> QED BY <1>2, <1>7, <3>1, <3>2 DEF TagsInUse
  <2>4. CleanStart(u)'
    BY DEF CleanStart, Starting
  <2> QED BY <2>1, <2>2, <2>3, <2>4
<1> QED BY <1>5, <1>6, <1>8, <1>9 DEF SoloInv, LackInv, GhostInv

(* A request tells xray of one user on its tag and goes on, or ends and    *)
(* leaves its queue marked.                                                *)
Fills(r, k) ==
  /\ Filling(r, k)
  /\ \E v \in apply[r].queue :
       /\ \/ apply' = [apply EXCEPT ![r].queue = @ \ {v}]
          \/ apply' = [apply EXCEPT ![r] = NoApply]
       /\ member' \in {member, Altered(k, {v}, apply[r].want[k])}
       /\ \A u \in apply[r].queue :
            \/ u = v /\ member' = Altered(k, {v}, apply[r].want[k])
            \/ u # v /\ apply'[r].at = "bulk"
            \/ u \in IF apply[r].want[k] THEN mayLack' ELSE mayGhost'
  /\ mayLack \subseteq mayLack' /\ mayGhost \subseteq mayGhost'
  /\ UNCHANGED <<row, setting, active, phase, job, drift>>

LEMMA FillsStep ==
  ASSUME TypeOK, MembersInv, NEW r \in Page, NEW k \in Toggle, Fills(r, k)
  PROVE  MembersInv'
<1> USE DEF MembersInv
<1>1. PICK v \in apply[r].queue :
        /\ \/ apply' = [apply EXCEPT ![r].queue = @ \ {v}]
           \/ apply' = [apply EXCEPT ![r] = NoApply]
        /\ member' \in {member, Altered(k, {v}, apply[r].want[k])}
        /\ \A u \in apply[r].queue :
             \/ u = v /\ member' = Altered(k, {v}, apply[r].want[k])
             \/ u # v /\ apply'[r].at = "bulk"
             \/ u \in IF apply[r].want[k] THEN mayLack' ELSE mayGhost'
  BY DEF Fills
<1>2. /\ apply[r].at = "bulk" /\ apply[r].key = {k} /\ k \in Tag
      /\ v \in User /\ v \in apply[r].ids /\ apply[r].want[k] \in BOOLEAN
  BY TagAssumption DEF Fills, TypeOK, Apply, ShapeInv
<1>3. \/ /\ apply'[r].at = "bulk" /\ apply'[r].key = {k}
         /\ apply'[r].queue = apply[r].queue \ {v}
         /\ apply'[r].ids = apply[r].ids /\ apply'[r].want = apply[r].want
      \/ apply'[r].at = "idle"
  BY <1>1, <1>2 DEF NoApply, TypeOK, Apply
<1>a. \A q \in Page \ {r} : apply'[q] = apply[q]
  BY <1>1 DEF TypeOK
<1>4. /\ UNCHANGED <<row, setting, active, phase, job, drift>>
      /\ mayLack \subseteq mayLack' /\ mayGhost \subseteq mayGhost'
  BY DEF Fills
<1>5. /\ \A u \in User, t \in Tag : u # v \/ t # k => (u \in member'[t] <=> u \in member[t])
      /\ apply[r].want[k] => (v \in member[k] => v \in member'[k])
      /\ ~apply[r].want[k] => (v \in member'[k] => v \in member[k])
      /\ \A t \in NoInbound : member'[t] = {}
  BY <1>1, <1>2, TagAssumption DEF Altered, TypeOK, ShapeInv
<1>6. member' = Altered(k, {v}, apply[r].want[k]) =>
        /\ apply[r].want[k] => k \in NoInbound \/ v \in member'[k]
        /\ ~apply[r].want[k] => v \notin member'[k]
  BY <1>2 DEF Altered, TypeOK, ShapeInv
<1>7. ASSUME NEW u \in User, ~(u \in mayLack /\ u \in mayGhost)
      PROVE  Solo(u) /\ phase = "run" /\ \A p \in Process : ~Handles(p, u)
  BY <1>2, <1>7, UnderWay
<1>8. ASSUME NEW u \in User, ~(u \in mayLack /\ u \in mayGhost)
      PROVE  /\ k \in active <=> apply[r].want[k]
             /\ \A q \in Page \ {r} : ~AtKey(q, k)
  BY <1>2, <1>7, <1>8 DEF Solo, TagIsSwitched, KeysApart
<1>9. ShapeInv'
  <2>1. \A q \in Page : apply'[q].at = "bulk" => apply'[q].queue \subseteq apply'[q].ids
    BY <1>2, <1>3, <1>a DEF ShapeInv
  <2> QED BY <1>4, <1>5, <2>1 DEF ShapeInv
<1>10. ASSUME NEW u \in User, ~(u \in mayLack' /\ u \in mayGhost')
       PROVE  Solo(u)'
  <2> USE <1>2, <1>3, <1>a, <1>4, <1>7, <1>10 DEF Solo
  <2>1. NoneBesideApply(u)' /\ NoneInStart(u)' /\ AddsAlone(u)'
    BY DEF NoneBesideApply, NoneInStart, Starting, AddsAlone, MayAdd, Handles
  <2>2. ReadIsTrue(u)' /\ ListIsTrue(u)'
    BY DEF ReadIsTrue, ListIsTrue
  <2>3. TagIsSwitched' /\ KeysApart'
    BY DEF TagIsSwitched, KeysApart
  <2> QED BY <2>1, <2>2, <2>3
(* On the other tags everything is as before.                              *)
<1>b. ASSUME NEW u \in User, NEW t \in Tag, t # k
      PROVE  (ToFill(u, t) => ToFill(u, t)') /\ (ToEmpty(u, t) => ToEmpty(u, t)')
  BY <1>2, <1>a, <1>b DEF ToFill, ToEmpty
<1>11. ASSUME NEW u \in User, u \notin mayLack'
       PROVE  Lack(u)'
  <2> USE <1>2, <1>3, <1>4, <1>7, <1>11 DEF Lack, LackInv
  <2>1. EvictsOff(u)' /\ CopyCovers(u)'
    BY DEF EvictsOff, CopyCovers, Handles
  <2>2. Covered(u)'
    <3> SUFFICES ASSUME NEW t \in active \ NoInbound, row[u] = "on"
                 PROVE  u \in member'[t] \/ ToFill(u, t)'
      BY DEF Covered
    <3>0. t \in Tag
      BY DEF TypeOK
    <3>1. u \in member[t] \/ ToFill(u, t)
      BY DEF Covered, InHand, Handles
    <3>2. CASE t # k
      BY <1>5, <1>b, <3>0, <3>1, <3>2
    <3>3. CASE t = k
      <4>1. u \in member[k] \/ u \in apply[r].queue
        BY <1>8, <3>1, <3>3 DEF ToFill
      <4>2. apply'[r].at = "bulk" /\ u \in apply[r].queue /\ u # v => ToFill(u, k)'
        BY DEF ToFill
      <4> QED BY <1>1, <1>5, <1>6, <1>8, <3>0, <3>3, <4>1, <4>2
    <3> QED BY <3>2, <3>3
  <2> QED BY <2>1, <2>2
<1>12. ASSUME NEW u \in User, u \notin mayGhost'
       PROVE  Ghost(u)'
  <2> USE <1>2, <1>3, <1>4, <1>7, <1>12 DEF Ghost, GhostInv
  <2>1. AddsOn(u)' /\ CopyInUse(u)' /\ NoRollback(u)' /\ EvictionCovers(u)'
    BY DEF AddsOn, CopyInUse, NoRollback, EvictionCovers, Handles
  <2>2. StrayEvicted(u)'
    <3>1. \A t \in Tag : u \in member[t] => row[u] = "on"
      BY DEF StrayEvicted, Evicting
    <3>2. u = v => row[u] = "on"
      BY DEF Solo, ListIsTrue
    <3> QED BY <1>5, <3>1, <3>2 DEF StrayEvicted
  <2>3. TagsInUse(u)'
    <3> SUFFICES ASSUME NEW t \in Tag, u \in member'[t]
                 PROVE  t \in active \/ ToEmpty(u, t)'
      BY DEF TagsInUse
    <3>1. u \in member[t] => t \in active \/ ToEmpty(u, t)
      BY DEF TagsInUse
    <3>2. CASE t # k
      BY <1>5, <1>b, <3>1, <3>2
    <3>3. CASE t = k
      <4>1. u \in member[k] => k \in active \/ (u \in apply[r].queue /\ ~apply[r].want[k])
        BY <1>8, <3>1, <3>3 DEF ToEmpty
      <4>2. apply'[r].at = "bulk" /\ u \in apply[r].queue /\ u # v /\ ~apply[r].want[k]
              => ToEmpty(u, k)'
        BY DEF ToEmpty
      <4> QED BY <1>1, <1>5, <1>6, <1>8, <3>3, <4>1, <4>2
    <3> QED BY <3>2, <3>3
  <2>4. CleanStart(u)'
    BY DEF CleanStart, Starting
  <2> QED BY <2>1, <2>2, <2>3, <2>4
<1> QED BY <1>9, <1>10, <1>11, <1>12 DEF SoloInv, LackInv, GhostInv

LEMMA FillStep ==
  ASSUME TypeOK, MembersInv, NEW r \in Page, NEW k \in Toggle,
         ApplyTimesOut(r, k) \/ \E u \in User : Backfill(r, u, k) \/ BackfillFails(r, u, k)
  PROVE  MembersInv'
<1>0. apply \in [Page -> Apply] /\ apply[r] \in Apply /\ apply[r].want[k] \in BOOLEAN
  BY DEF TypeOK, Apply
<1>1. ASSUME NEW v \in User, Backfill(r, v, k)
      PROVE  Fills(r, k)
  <2>1. apply'[r].at = "bulk"
    BY <1>0, <1>1 DEF Backfill, Apply
  <2> QED BY <1>1, <2>1 DEF Backfill, Fills, marks
<1>2. ASSUME NEW v \in User, BackfillFails(r, v, k)
      PROVE  Fills(r, k)
  <2>1. apply'[r].at = "bulk"
    BY <1>0, <1>2 DEF BackfillFails, Apply
  <2> QED BY <1>2, <2>1 DEF BackfillFails, Fills, Mark
<1>3. ASSUME ApplyTimesOut(r, k)
      PROVE  Fills(r, k)
  <2>1. \E v \in apply[r].queue : member' \in {member, Altered(k, {v}, apply[r].want[k])}
    BY <1>3 DEF ApplyTimesOut
  <2>2. \A u \in apply[r].queue : u \in IF apply[r].want[k] THEN mayLack' ELSE mayGhost'
    BY <1>0, <1>3 DEF ApplyTimesOut, Mark
  <2> QED BY <1>3, <2>1, <2>2 DEF ApplyTimesOut, Fills, Mark
<1> QED BY <1>1, <1>2, <1>3, FillsStep

---------------------------------------------------------------------------
(* Restarts *)

LEMMA XrayRestartStep ==
  ASSUME TypeOK, MembersInv, XrayRestart
  PROVE  MembersInv'
<1> USE DEF MembersInv
<1>1. /\ UNCHANGED <<row, setting, active, phase, job, apply, drift>>
      /\ \A t \in Tag : member'[t] = {}
      /\ mayLack' = User /\ mayGhost' = {u \in mayGhost : Worked(u)}
  BY DEF XrayRestart
<1>2. ShapeInv'
  BY <1>1, TagAssumption DEF ShapeInv
<1>3. ASSUME NEW u \in User, u \notin mayGhost'
      PROVE  Solo(u)' /\ Ghost(u)'
  <2>1. CASE u \notin mayGhost
    <3> USE <1>1, <2>1 DEF SoloInv, Solo, GhostInv, Ghost
    <3>1. NoneBesideApply(u)' /\ NoneInStart(u)' /\ AddsAlone(u)'
      BY DEF NoneBesideApply, NoneInStart, Starting, Worked, AddsAlone, MayAdd, Handles
    <3>2. ReadIsTrue(u)' /\ ListIsTrue(u)' /\ TagIsSwitched' /\ KeysApart'
      BY DEF ReadIsTrue, ListIsTrue, TagIsSwitched, KeysApart
    <3>3. AddsOn(u)' /\ CopyInUse(u)' /\ NoRollback(u)'
      BY DEF AddsOn, CopyInUse, NoRollback, Handles
    <3>4. StrayEvicted(u)' /\ EvictionCovers(u)' /\ TagsInUse(u)' /\ CleanStart(u)'
      BY DEF StrayEvicted, EvictionCovers, TagsInUse, CleanStart
    <3> QED BY <3>1, <3>2, <3>3, <3>4
  <2>2. CASE ~Worked(u)
    <3>1. ~Applied /\ \A p \in Process : u \notin job[p].queue /\ u \notin job[p].cur
      BY <2>2 DEF Worked
    <3> USE <1>1, <3>1 DEF Solo, Ghost, Handles
    <3>2. NoneBesideApply(u)' /\ NoneInStart(u)' /\ AddsAlone(u)'
      BY DEF NoneBesideApply, NoneInStart, Worked, AddsAlone
    <3>3. ReadIsTrue(u)' /\ ListIsTrue(u)' /\ TagIsSwitched' /\ KeysApart'
      BY DEF ReadIsTrue, ListIsTrue, TagIsSwitched, KeysApart
    <3>4. AddsOn(u)' /\ CopyInUse(u)' /\ NoRollback(u)'
      BY DEF AddsOn, CopyInUse, NoRollback
    <3>5. StrayEvicted(u)' /\ EvictionCovers(u)' /\ TagsInUse(u)' /\ CleanStart(u)'
      BY DEF StrayEvicted, EvictionCovers, TagsInUse, CleanStart
    <3> QED BY <3>2, <3>3, <3>4, <3>5
  <2> QED BY <1>1, <1>3, <2>1, <2>2
<1> QED BY <1>1, <1>2, <1>3 DEF SoloInv, LackInv, GhostInv

(* Nobody is at work any more; who is registered and unmarked is enabled,  *)
(* and registered where the next start will register it.                   *)
LEMMA DaemonRestartStep ==
  ASSUME TypeOK, TagInv, MembersInv, DaemonRestart
  PROVE  MembersInv'
<1> USE DEF MembersInv
<1>1. /\ UNCHANGED <<row, setting, member>> /\ phase' = "wait" /\ ~drift'
      /\ \A r \in Page : apply'[r] = NoApply /\ apply'[r].at = "idle"
      /\ \A p \in Process : job'[p] = Idle
  BY DEF DaemonRestart, NoApply
<1>2. /\ mayLack' = mayLack \cup {u \in User : Worked(u)}
      /\ mayGhost' = mayGhost \cup IF drift THEN User ELSE {u \in User : Worked(u)}
  BY DEF DaemonRestart, Mark
<1>3. Idle.at = "idle" /\ Idle.queue = {} /\ Idle.cur = {} /\ Idle.tags = {}
      /\ ~Idle.add /\ Idle.then = "nothing"
  BY DEF Idle
<1>4. ShapeInv'
  BY <1>1, <1>3 DEF ShapeInv
<1>5. ASSUME NEW u \in User PROVE Solo(u)'
  <2> USE <1>1, <1>3 DEF Solo, Handles
  <2>1. NoneBesideApply(u)' /\ NoneInStart(u)' /\ AddsAlone(u)'
    BY DEF NoneBesideApply, NoneInStart, Worked, AddsAlone
  <2>2. ReadIsTrue(u)' /\ ListIsTrue(u)' /\ TagIsSwitched' /\ KeysApart'
    BY DEF ReadIsTrue, ListIsTrue, TagIsSwitched, KeysApart
  <2> QED BY <2>1, <2>2
<1>6. ASSUME NEW u \in User PROVE Lack(u)'
  BY <1>1, <1>3 DEF Lack, EvictsOff, Covered, CopyCovers
<1>7. ASSUME NEW u \in User, u \notin mayGhost'
      PROVE  Ghost(u)'
  <2>1. ~drift /\ ~Worked(u) /\ Ghost(u) /\ ~Applied /\ \A p \in Process : ~Handles(p, u)
    BY <1>2, <1>7 DEF GhostInv, Worked, Handles
  <2>2. \A t \in Tag : u \in member[t] => row[u] = "on"
    BY <2>1 DEF Ghost, StrayEvicted, Evicting
  <2>3. \A t \in Tag : u \in member[t] => Wanted(t)
    <3>1. CASE Starting
      BY <2>1, <3>1 DEF Ghost, CleanStart
    <3>2. CASE ~Starting
      <4>1. \A t \in Tag : Follows(t)
        BY <2>1, <3>2 DEF TagInv, Starting, WillFollow
      <4>2. \A t \in Tag : u \in member[t] => t \in active
        BY <2>1, <3>2 DEF Ghost, TagsInUse, ToEmpty, Starting
      <4> QED BY <4>1, <4>2 DEF Follows
    <3> QED BY <3>1, <3>2
  <2> USE <1>1, <1>3, <2>2, <2>3 DEF Ghost
  <2>4. AddsOn(u)' /\ CopyInUse(u)' /\ NoRollback(u)' /\ EvictionCovers(u)'
    BY DEF AddsOn, CopyInUse, NoRollback, EvictionCovers, Handles
  <2>5. StrayEvicted(u)' /\ TagsInUse(u)'
    BY DEF StrayEvicted, TagsInUse
  <2>6. CleanStart(u)'
    BY DEF CleanStart, Wanted
  <2> QED BY <2>4, <2>5, <2>6
<1> QED BY <1>4, <1>5, <1>6, <1>7 DEF SoloInv, LackInv, GhostInv

---------------------------------------------------------------------------
LEMMA MembersInit == Init => MembersInv
<1> SUFFICES ASSUME Init PROVE MembersInv
  OBVIOUS
<1>1. /\ ~Applied /\ phase = "wait" /\ \A t \in Tag : member[t] = {}
      /\ \A p \in Process : job[p] = Idle
  BY DEF Init, NoApply
<1>2. Idle.at = "idle" /\ Idle.queue = {} /\ Idle.cur = {} /\ Idle.tags = {}
      /\ ~Idle.add /\ Idle.then = "nothing"
  BY DEF Idle
<1>3. ShapeInv
  BY <1>1, <1>2, TagAssumption DEF ShapeInv
<1>4. ASSUME NEW u \in User PROVE Solo(u)
  BY <1>1, <1>2 DEF Solo, NoneBesideApply, NoneInStart, Worked, AddsAlone, ReadIsTrue,
     ListIsTrue, TagIsSwitched, KeysApart, Handles
<1>5. ASSUME NEW u \in User PROVE Lack(u)
  BY <1>1, <1>2 DEF Lack, EvictsOff, Covered, CopyCovers
<1>6. ASSUME NEW u \in User PROVE Ghost(u)
  BY <1>1, <1>2 DEF Ghost, AddsOn, CopyInUse, NoRollback, StrayEvicted, EvictionCovers,
     TagsInUse, CleanStart
<1> QED BY <1>3, <1>4, <1>5, <1>6 DEF MembersInv, SoloInv, LackInv, GhostInv

(* The bounds may be spent without any of this being touched.              *)
LEMMA MembersUnchanged ==
  ASSUME MembersInv, UNCHANGED <<row, setting, member, active, phase, job, apply, marks>>
  PROVE  MembersInv'
<1>1. ShapeInv'
  BY DEF marks, MembersInv, ShapeInv
<1>2. SoloInv'
  BY DEF marks, MembersInv, SoloInv, Solo, NoneBesideApply, NoneInStart, AddsAlone,
     ReadIsTrue, ListIsTrue, TagIsSwitched, KeysApart, Handles, MayAdd, Worked, Starting
<1>3. LackInv'
  BY DEF marks, MembersInv, LackInv, Lack, EvictsOff, Covered, CopyCovers, InHand, ToFill,
     Handles
<1>4. GhostInv'
  BY DEF marks, MembersInv, GhostInv, Ghost, AddsOn, CopyInUse, NoRollback, StrayEvicted,
     Evicting, EvictionCovers, TagsInUse, ToEmpty, CleanStart, Wanted, Starting, Handles
<1> QED BY <1>1, <1>2, <1>3, <1>4 DEF MembersInv

LEMMA MembersStep == TypeOK /\ TagInv /\ MembersInv /\ [Next]_vars => MembersInv'
<1> SUFFICES ASSUME TypeOK, TagInv, MembersInv, [Next]_vars PROVE MembersInv'
  OBVIOUS
<1>1. CASE UNCHANGED vars
  BY <1>1, MembersUnchanged DEF vars, marks
<1>2. CASE Failures
  BY <1>2, SettleStep, DeadlineStep, AlterStep, RowAnswerLostStep, StartStep, PurgeStep,
     PrepareStep, FillStep DEF Failures
<1>3. ASSUME NEW r \in Page, Applying(r)
      PROVE  MembersInv'
  BY <1>3, PrepareStep, SwitchTagStep, FillStep DEF Applying
<1>4. CASE Next /\ ~Failures /\ \A r \in Page : ~Applying(r)
  BY <1>4, RequestStep, ProceedStep, StartStep, PurgeStep, PrepareStep, XrayRestartStep,
     DaemonRestartStep DEF Next
<1> QED BY <1>1, <1>2, <1>3, <1>4

LEMMA MembersAlways == Spec => []MembersInv
<1>1. Init => TypeOK /\ TagInv /\ MembersInv
  BY InitType, TagInvInit, MembersInit
<1>2. Spec => []TypeOK
  BY TypeCorrectness
<1> QED BY <1>1, <1>2, TagInvStep, MembersStep, PTL DEF Spec

LEMMA NotLockedOut == MembersInv => NobodyLockedOut
BY DEF MembersInv, LackInv, Lack, Covered, InHand, ToFill, NobodyLockedOut, Registered,
   Busy, Worked, Starting

(* For any number of users, tags, inbounds and requests, and whatever      *)
(* fails or restarts: an enabled user nobody is at work on is registered   *)
(* on every inbound in use, unless a call for it failed, two operations on *)
(* it met or xray restarted since the last start of the daemon.            *)
THEOREM NobodyLockedOutAlways == Spec => []NobodyLockedOut
BY NotLockedOut, MembersAlways, PTL

LEMMA NoStrays == MembersInv => NoGhosts
<1> SUFFICES ASSUME MembersInv, NEW u \in User, ~Busy(u), u \notin mayGhost,
                    NEW t \in Tag, u \in member[t]
             PROVE  row[u] = "on" /\ t \in active
  BY DEF NoGhosts
<1>1. Ghost(u) /\ phase = "run" /\ ~Applied /\ \A p \in Process : ~Handles(p, u)
  BY DEF MembersInv, GhostInv, Busy, Worked, Starting, Handles
<1> QED BY <1>1 DEF Ghost, StrayEvicted, Evicting, TagsInUse, ToEmpty

(* ... and a user nobody is at work on is registered only if its row is    *)
(* enabled, and only on inbounds in use, unless an eviction of it failed,  *)
(* two operations on it met or the toggles and the tag set came apart.     *)
THEOREM NoGhostsAlways == Spec => []NoGhosts
BY NoStrays, MembersAlways, PTL

---------------------------------------------------------------------------
(* The refinement of Access.  Work that ends leaves a user settled because *)
(* of the two properties above; what is left is that a step does nothing   *)
(* to a user at rest without the mark that excuses it.                     *)

(* What a step may do to u behind the back of whoever works on it.         *)
MarksRow(u) ==
  /\ row[u] # "on" /\ row'[u] = "on" => u \in mayLack'
  /\ row[u] = "on" /\ row'[u] # "on" => u \in mayGhost'
MarksLists(u) ==
  \A t \in Tag : /\ u \in member'[t] => u \in member[t]
                 /\ u \in member[t] /\ u \notin member'[t] => u \in mayLack'
KeepsMarks(u) ==
  /\ u \in mayLack => u \in mayLack'
  /\ u \in mayGhost /\ u \notin mayGhost' => \A t \in Tag : u \notin member'[t]

LEMMA RestFacts ==
  ASSUME NEW u \in User, ~Busy(u)
  PROVE  /\ phase = "run" /\ ~Applied
         /\ \A p \in Process : u \notin job[p].queue /\ u \notin job[p].cur
BY DEF Busy, Worked, Starting

(* The row of a user at rest changes hands or is marked.                   *)
LEMMA RowMarked ==
  ASSUME TypeOK, MembersInv, [Next]_vars, NEW u \in User, ~Busy(u), ~Busy(u)'
  PROVE  MarksRow(u)
<1> DEFINE Q == \A p \in Process : u \notin job[p].queue /\ u \notin job[p].cur
           R == \A p \in Process : u \notin job'[p].queue
<1>0. /\ phase = "run" /\ ~Applied /\ Q /\ R
  BY RestFacts DEF Busy, Worked
<1>a. Loop \in Process /\ \A p \in Handler : p \in Process
  BY DEF Process
<1>b. ASSUME NEW p \in Process, NEW us, NEW add, NEW then,
             job' = [job EXCEPT ![p] = Work(us, add, then)]
      PROVE  job'[p].queue = us
  <2>1. job'[p] = Work(us, add, then)
    BY <1>b DEF TypeOK
  <2> QED BY <2>1 DEF Work, Idle
<1>1. CASE row' = row
  BY <1>1 DEF MarksRow
<1>2. ASSUME NEW p \in Handler, NEW v \in User, NEW enable \in BOOLEAN,
             adminCreateUser(p, v, enable) \/ backupRestore(p, v, enable)
                \/ adminPatchUser(p, v, enable)
      PROVE  MarksRow(u)
  <2>1. CASE u # v
    BY <1>2, <2>1 DEF adminCreateUser, backupRestore, adminPatchUser, TypeOK, MarksRow
  <2>2. CASE u = v /\ ~enable
    <3>1. CASE adminPatchUser(p, v, enable)
      <4>1. job'[p].queue = {u}
        BY <1>a, <1>b, <2>2, <3>1 DEF adminPatchUser
      <4> QED BY <1>0, <1>a, <4>1
    <3>2. CASE adminCreateUser(p, v, enable) \/ backupRestore(p, v, enable)
      BY <2>2, <3>2 DEF adminCreateUser, backupRestore, TypeOK, MarksRow, Flag
    <3> QED BY <1>2, <3>1, <3>2
  <2>3. CASE u = v /\ enable
    <3>1. \E then : job' = [job EXCEPT ![p] = Work({u}, TRUE, then)]
      <4>1. CASE adminCreateUser(p, v, enable)
        BY <2>3, <4>1 DEF adminCreateUser
      <4>2. CASE backupRestore(p, v, enable) \/ adminPatchUser(p, v, enable)
        BY <2>3, <4>2 DEF backupRestore, adminPatchUser
      <4> QED BY <1>2, <4>1, <4>2
    <3>2. job'[p].queue = {u}
      BY <1>a, <1>b, <3>1
    <3> QED BY <1>0, <1>a, <3>2
  <2> QED BY <2>1, <2>2, <2>3
<1>3. ASSUME NEW p \in Process, NEW enable \in BOOLEAN, usersWrite(p, enable)
      PROVE  MarksRow(u)
  BY <1>0, <1>3 DEF usersWrite, TypeOK, MarksRow
<1>4. ASSUME NEW p \in Process, Settle(p)
      PROVE  MarksRow(u)
  BY <1>0, <1>4 DEF Settle, MarksRow
<1>5. ASSUME NEW p \in Process, NEW v \in User, NEW enable \in BOOLEAN,
             RowAnswerLost(p, v, enable)
      PROVE  MarksRow(u)
  <2>1. CASE u # v
    BY <1>5, <2>1 DEF RowAnswerLost, TypeOK, MarksRow
  <2>2. CASE u = v
    <3>1. row'[u] = Flag(enable)
      BY <1>5, <2>2 DEF RowAnswerLost, TypeOK
    <3>2. /\ enable /\ row[u] # "on" => u \in mayLack'
          /\ ~enable /\ row[u] = "on" => u \in mayGhost'
      BY <1>5, <2>2 DEF RowAnswerLost, Mark
    <3> QED BY <3>1, <3>2 DEF MarksRow, Flag
  <2> QED BY <2>1, <2>2
<1>6. CASE DeleteDisabledOverLimitOrExpired
  <2>1. PICK gone \in SUBSET User :
          /\ row' = [v \in User |-> IF v \in gone THEN "none" ELSE row[v]]
          /\ job' = [job EXCEPT ![Loop] = Work(gone, FALSE, "nothing")]
    <3>1. \A due \in SUBSET AllUUIDsEnabled : due \cup {v \in User : row[v] = "off"} \in SUBSET User
      BY DEF AllUUIDsEnabled
    <3> QED BY <1>6, <3>1 DEF DeleteDisabledOverLimitOrExpired
  <2>2. job'[Loop].queue = gone
    BY <1>a, <1>b, <2>1
  <2> QED BY <1>0, <1>a, <2>1, <2>2 DEF MarksRow
<1>7. CASE DeleteAnswerLost
  <2>1. PICK gone \in SUBSET User :
          /\ row' = [v \in User |-> IF v \in gone THEN "none" ELSE row[v]]
          /\ gone \subseteq mayGhost'
    <3>1. \A due \in SUBSET AllUUIDsEnabled : due \cup {v \in User : row[v] = "off"} \in SUBSET User
      BY DEF AllUUIDsEnabled
    <3> QED BY <1>7, <3>1 DEF DeleteAnswerLost, Mark
  <2> QED BY <2>1 DEF MarksRow
<1>8. ASSUME row' # row
      PROVE  \/ \E p \in Handler, v \in User, enable \in BOOLEAN :
                   adminCreateUser(p, v, enable) \/ backupRestore(p, v, enable)
                     \/ adminPatchUser(p, v, enable)
             \/ \E p \in Process, enable \in BOOLEAN : usersWrite(p, enable)
             \/ \E p \in Process : Settle(p)
             \/ \E p \in Process, v \in User, enable \in BOOLEAN : RowAnswerLost(p, v, enable)
             \/ DeleteDisabledOverLimitOrExpired \/ DeleteAnswerLost
  <2>1. CASE UNCHANGED vars
    BY <1>8, <2>1 DEF vars
  <2>2. CASE Failures
    BY <1>8, <2>2 DEF Failures, SettleFails, DeadlineExpires, AlterInboundFails,
       ReadTogglesFails, HydrateFails, ApplyFails, SetSettingFails, ApplyTimesOut,
       BackfillFails
  <2>3. CASE Next /\ ~Failures
    BY <1>8, <2>3 DEF Next, Request, usersRead, usersDelete, Proceed, NextUser,
       AlterInbound, Startup, ReadToggles, LayToggle, HydrateFromDB, transportsApply,
       Applying, ListEnabled, SetSetting, SwitchTag, Backfill, NextKey, XrayRestart,
       DaemonRestart
  <2> QED BY <2>1, <2>2, <2>3
<1> QED BY <1>1, <1>2, <1>3, <1>4, <1>5, <1>6, <1>7, <1>8

(* Only calls to xray and its restart change its lists.  A call is made    *)
(* for a user in hand.                                                     *)
LEMMA ListsMarked ==
  ASSUME TypeOK, MembersInv, [Next]_vars, NEW u \in User, ~Busy(u), ~Busy(u)'
  PROVE  MarksLists(u)
<1>0. /\ ~Applied /\ \A p \in Process : u \notin job[p].cur
  BY RestFacts
<1>1. CASE member' = member
  BY <1>1 DEF MarksLists
<1>2. ASSUME NEW p \in Process, NEW t \in Tag,
             member' \in {member, Altered(t, job[p].cur, job[p].add)}
      PROVE  MarksLists(u)
  BY <1>0, <1>2 DEF Altered, TypeOK, MarksLists
<1>3. CASE XrayRestart
  BY <1>3 DEF XrayRestart, MarksLists
<1>4. ASSUME member' # member
      PROVE  \/ \E p \in Process, t \in Tag :
                   member' \in {member, Altered(t, job[p].cur, job[p].add)}
             \/ XrayRestart
  <2>1. \A r \in Page :
          /\ ~Applying(r)
          /\ \A k \in Toggle : ~ApplyTimesOut(r, k) /\ \A v \in User : ~BackfillFails(r, v, k)
    <3> TAKE r \in Page
    <3>1. apply[r].at = "idle"
      BY <1>0
    <3> QED BY <3>1 DEF Applying, ListEnabled, SetSetting, SwitchTag, Backfill, NextKey,
               ApplyTimesOut, BackfillFails
  <2>2. \A p \in Process : job[p].tags \subseteq Tag
    BY DEF TypeOK, Job
  <2>3. CASE UNCHANGED vars
    BY <1>4, <2>3 DEF vars
  <2>4. CASE Failures
    BY <1>4, <2>1, <2>2, <2>4 DEF Failures, SettleFails, DeadlineExpires, AlterInboundFails,
       RowAnswerLost, ReadTogglesFails, HydrateFails, DeleteAnswerLost, ApplyFails,
       SetSettingFails
  <2>5. CASE Next /\ ~Failures
    BY <1>4, <2>1, <2>5 DEF Next, Request, usersRead, adminCreateUser, backupRestore,
       adminPatchUser, usersDelete, Proceed, usersWrite, NextUser, AlterInbound, Settle,
       Startup, ReadToggles, LayToggle, HydrateFromDB, DeleteDisabledOverLimitOrExpired,
       transportsApply, DaemonRestart
  <2> QED BY <2>3, <2>4, <2>5
<1> QED BY <1>1, <1>2, <1>3, <1>4

(* Marks are wiped by a hydration, which has everybody in hand, and by a   *)
(* restart of xray, which leaves no list.                                  *)
LEMMA MarksKept ==
  ASSUME TypeOK, [Next]_vars, NEW u \in User, ~Busy(u), ~Busy(u)'
  PROVE  KeepsMarks(u)
<1>0. phase = "run" /\ ~Applied
  BY RestFacts
<1>1. CASE mayLack \subseteq mayLack' /\ mayGhost \subseteq mayGhost'
  BY <1>1 DEF KeepsMarks
<1>2. CASE XrayRestart
  BY <1>2 DEF XrayRestart, KeepsMarks
<1>3. ASSUME ~XrayRestart
      PROVE  mayLack \subseteq mayLack' /\ mayGhost \subseteq mayGhost'
  <2>1. CASE UNCHANGED vars
    BY <2>1 DEF vars, marks
  <2>2. ASSUME NEW p \in Process,
               \/ SettleFails(p) \/ DeadlineExpires(p)
               \/ \E t \in Tag : AlterInboundFails(p, t)
               \/ \E v \in User, enable \in BOOLEAN : RowAnswerLost(p, v, enable)
        PROVE  mayLack \subseteq mayLack' /\ mayGhost \subseteq mayGhost'
    BY <2>2 DEF SettleFails, DeadlineExpires, AlterInboundFails, RowAnswerLost, Mark
  <2>3. CASE ReadTogglesFails \/ HydrateFails \/ DeleteAnswerLost
    BY <2>3 DEF ReadTogglesFails, HydrateFails, DeleteAnswerLost, Mark, marks
  <2>4. ASSUME NEW r \in Page,
               \/ ApplyFails(r)
               \/ \E k \in Toggle : SetSettingFails(r, k) \/ ApplyTimesOut(r, k)
                                     \/ \E v \in User : BackfillFails(r, v, k)
        PROVE  mayLack \subseteq mayLack' /\ mayGhost \subseteq mayGhost'
    BY <2>4 DEF ApplyFails, SetSettingFails, ApplyTimesOut, BackfillFails, Mark, marks
  <2>5. ASSUME NEW p \in Handler, Request(p)
        PROVE  mayLack \subseteq mayLack' /\ mayGhost \subseteq mayGhost'
    BY <2>5 DEF Request, usersRead, adminCreateUser, backupRestore, adminPatchUser,
       usersDelete, Clashed, Mark
  <2>6. ASSUME NEW p \in Process, Proceed(p)
        PROVE  mayLack \subseteq mayLack' /\ mayGhost \subseteq mayGhost'
    BY <2>6 DEF Proceed, usersWrite, NextUser, AlterInbound, Settle, marks
  <2>7. CASE Startup \/ DeleteDisabledOverLimitOrExpired
    BY <1>0, <2>7 DEF Startup, ReadToggles, LayToggle, HydrateFromDB,
       DeleteDisabledOverLimitOrExpired, Clashed, Mark, marks
  <2>8. ASSUME NEW r \in Page, transportsApply(r) \/ Applying(r)
        PROVE  mayLack \subseteq mayLack' /\ mayGhost \subseteq mayGhost'
    BY <2>8 DEF transportsApply, Applying, ListEnabled, SetSetting, SwitchTag, Backfill,
       NextKey, Clashed, Mark, marks
  <2>10. CASE DaemonRestart
    BY <2>10 DEF DaemonRestart, Mark
  <2>9. CASE Failures
    BY <2>2, <2>3, <2>4, <2>9 DEF Failures
  <2> QED BY <1>3, <2>1, <2>5, <2>6, <2>7, <2>8, <2>9, <2>10 DEF Next
<1> QED BY <1>1, <1>2, <1>3

(* The tag set changes during a start, a Transports request or a restart.  *)
LEMMA TagsSwitched ==
  ASSUME [Next]_vars, active' # active
  PROVE  Starting \/ Applied \/ Starting'
<1>1. CASE UNCHANGED vars
  BY <1>1 DEF vars
<1>2. CASE Failures
  BY <1>2 DEF Failures, SettleFails, DeadlineExpires, AlterInboundFails, RowAnswerLost,
     ReadTogglesFails, HydrateFails, DeleteAnswerLost, ApplyFails, SetSettingFails,
     ApplyTimesOut, BackfillFails
<1>3. ASSUME NEW r \in Page, Applying(r)
      PROVE  Starting \/ Applied \/ Starting'
  BY <1>3 DEF Applying, ListEnabled, SetSetting, SwitchTag, Backfill, NextKey
<1>4. CASE Next /\ ~Failures /\ \A r \in Page : ~Applying(r)
  BY <1>4 DEF Next, Request, usersRead, adminCreateUser, backupRestore, adminPatchUser,
     usersDelete, Proceed, usersWrite, NextUser, AlterInbound, Settle, Startup,
     ReadToggles, LayToggle, HydrateFromDB, DeleteDisabledOverLimitOrExpired,
     transportsApply, XrayRestart, DaemonRestart, Starting
<1> QED BY <1>1, <1>2, <1>3, <1>4

(* Users at rest are settled, in the sense of the abstract list.           *)
RestInv == \A u \in User : ~Busy(u) => A!Settled(u)

LEMMA RestSettled == TypeOK /\ MembersInv => RestInv
<1> SUFFICES ASSUME TypeOK, MembersInv, NEW u \in User, ~Busy(u)
             PROVE  A!Settled(u)
  BY DEF RestInv
<1>1. \A t \in NoInbound : member[t] = {}
  BY DEF MembersInv, ShapeInv
<1>2. row[u] = "on" /\ u \notin mayLack => \A t \in active \ NoInbound : u \in member[t]
  BY NotLockedOut DEF NobodyLockedOut, Registered
<1>3. u \notin mayGhost => \A t \in Tag : u \in member[t] => row[u] = "on" /\ t \in active
  BY NoStrays DEF NoGhosts
<1> QED BY <1>1, <1>2, <1>3 DEF A!Settled, A!Due, AllUUIDsEnabled, TypeOK

LEMMA AccessInit == Init => A!Init
<1> SUFFICES ASSUME Init PROVE A!Init
  OBVIOUS
<1>1. \A u \in User : Busy(u)
  BY DEF Init, Busy, Starting
<1>2. \A t \in Tag : member[t] = {}
  BY DEF Init
<1> QED BY <1>1, <1>2, TagAssumption DEF Init, A!Init, AllUUIDsEnabled

LEMMA AccessStep == TypeOK /\ MembersInv /\ RestInv' /\ [Next]_vars => A!Next
<1> SUFFICES ASSUME TypeOK, MembersInv, RestInv', [Next]_vars
             PROVE  A!Next
  OBVIOUS
<1>1. active' = active \/ (\A u \in User : Busy(u)) \/ \A u \in User : Busy(u)'
  BY TagsSwitched DEF Busy, Worked
<1>2. ASSUME NEW u \in User, Busy(u) \/ Busy(u)'
      PROVE  A!Handled(u)
  <2>1. ~Busy(u)' => A!Settled(u)'
    BY DEF RestInv
  <2> QED BY <1>2, <2>1 DEF A!Handled
<1>3. ASSUME NEW u \in User, ~Busy(u), ~Busy(u)'
      PROVE  A!LeftAlone(u)
  <2>1. MarksRow(u) /\ MarksLists(u) /\ KeepsMarks(u)
    BY <1>3, RowMarked, ListsMarked, MarksKept
  <2> QED BY <1>3, <2>1 DEF A!LeftAlone, MarksRow, MarksLists, KeepsMarks, AllUUIDsEnabled
<1> QED BY <1>1, <1>2, <1>3 DEF A!Next

(* Provisioning, with every interleaving, failure and restart, implements  *)
(* the abstract access list.                                               *)
THEOREM AccessRefinement == Spec => ImplementsAccess
<1>1. Spec => [](TypeOK /\ MembersInv /\ RestInv)
  BY TypeCorrectness, MembersAlways, RestSettled, PTL
<1>2. TypeOK /\ MembersInv /\ RestInv' /\ [Next]_vars => [A!Next]_(A!avars)
  BY AccessStep
<1> QED BY <1>1, <1>2, AccessInit, PTL DEF Spec, ImplementsAccess, A!Spec
=============================================================================
