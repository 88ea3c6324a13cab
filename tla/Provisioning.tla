---------------------------- MODULE Provisioning ----------------------------
(***************************************************************************)
(* Who may connect: rows of table users against xray's user lists.         *)
(*                                                                         *)
(* xray keeps one list of UUIDs per inbound and forgets them when it       *)
(* restarts.  The daemon keeps the set of inbound tags in use, which the   *)
(* Transports page changes at run time and which every AddUser and         *)
(* RemoveUser goes through one gRPC call at a time.  HTTP handlers, the    *)
(* purge of each tick, the hydration after a start and the Transports page *)
(* all write to both sides, with no lock across them.  On start the tag    *)
(* set comes from the environment and the stored toggles are laid over it; *)
(* HTTP is served meanwhile.                                               *)
(*                                                                         *)
(* A call that fails may have taken effect.  Which rows are over quota or  *)
(* expired is decided in Reconciler: here the purge may pick any.          *)
(* The last group of variables observes the run and influences nothing: it *)
(* names the users for whom an event has excused a difference between the  *)
(* two sides.                                                              *)
(***************************************************************************)
EXTENDS FiniteSets, Integers

CONSTANTS
  User,         \* UUIDs
  Tag,          \* inbound tags
  Toggle,       \* those the Transports page switches
  Static,       \* those listed in LX_XRAY_INBOUND_TAG
  NoInbound,    \* tags whose inbound this node's xray was not configured with
  Handler,      \* HTTP requests that can be under way at once
  Loop,         \* the goroutine that hydrates and then runs the reconciler
  Page,         \* Transports requests that can be under way at once
  MaxApplies,   \* bound on Transports requests
  MaxFaults,    \* bound on failed calls
  MaxRestarts   \* bound on restarts of the daemon and of xray, together

ASSUME TagAssumption ==
  Toggle \subseteq Tag /\ Static \subseteq Tag /\ NoInbound \subseteq Tag
ASSUME LoopAssumption == Loop \notin Handler
ASSUME BoundAssumption ==
  MaxApplies \in Nat /\ MaxFaults \in Nat /\ MaxRestarts \in Nat

VARIABLES
  row,        \* [User -> {"none", "on", "off"}] table users, by column enable
  setting,    \* [Toggle -> {"unset", "true", "false"}] table settings
  member,     \* [Tag -> SUBSET User] xray's lists
  active,     \* Client.inboundTags
  phase,      \* the Loop goroutine: wait, toggles, run
  boot,       \* settings it read and has yet to lay over the tag set
  job,        \* what each process is doing to users, see Job
  apply,      \* the Transports requests, see Apply
  applies, faults, restarts,
  mayLack,    \* observation: users with a row who may be missing in xray
  mayGhost,   \* observation: users who may be in xray without a right to
  stuck,      \* observation: those of them no later tick will evict
  drift       \* observation: toggles and tag set may differ until the next start

marks == <<mayLack, mayGhost, stuck, drift>>
bounds == <<applies, faults, restarts>>
vars == <<row, setting, member, active, phase, boot, job, apply, bounds, marks>>

---------------------------------------------------------------------------
Process == Handler \cup {Loop}

(* A process works through a queue of users: for the current one it takes  *)
(* a copy of the active tags, adds or removes the user on each, then       *)
(* settles: "delete" drops the row, "rollback" drops it if a call failed,  *)
(* "patched" leaves what failed to others.                                 *)
(* At "patch" a handler has read the row's enable flag into add.           *)
Job == [at: {"idle", "patch", "work"}, add: BOOLEAN, queue: SUBSET User,
        cur: SUBSET User, tags: SUBSET Tag, ok: BOOLEAN,
        then: {"nothing", "patched", "delete", "rollback"}]

Idle == [at |-> "idle", add |-> FALSE, queue |-> {}, cur |-> {}, tags |-> {},
         ok |-> TRUE, then |-> "nothing"]

Work(us, add, then) ==
  [Idle EXCEPT !.at = "work", !.add = add, !.queue = us, !.then = then]

(* A Transports request: ids of the enabled users, the keys it has still   *)
(* to switch, the one it is switching and the users to go.                 *)
Apply == [at: {"idle", "list", "flip", "tag", "bulk"}, want: [Toggle -> BOOLEAN],
          ids: SUBSET User, keys: SUBSET Toggle, key: SUBSET Toggle, queue: SUBSET User]

NoApply == [at |-> "idle", want |-> [k \in Toggle |-> FALSE],
            ids |-> {}, keys |-> {}, key |-> {}, queue |-> {}]

Unset == [k \in Toggle |-> "unset"]
Stored(b) == IF b THEN "true" ELSE "false"
Flag(b) == IF b THEN "on" ELSE "off"

AllUUIDsEnabled == {u \in User : row[u] = "on"}

Starting == phase # "run"

(* Somebody is in the middle of changing u, or everybody.                  *)
Served(u) == \E p \in Process : u \in job[p].queue \cup job[p].cur
Applied == \E r \in Page : apply[r].at # "idle"
Worked(u) == Served(u) \/ Applied
Busy(u) == Worked(u) \/ Starting

(* ... and may yet add it to a list.                                       *)
Adding(u) ==
  \/ \E p \in Process : u \in job[p].queue \cup job[p].cur /\ (job[p].add \/ job[p].at = "patch")
  \/ Applied
  \/ Starting

(* Work on us begins beside work on some of them; two removals commute.    *)
Clash(us, add) == {u \in us : IF add THEN Busy(u) ELSE Adding(u)}

Mark(lack, ghost, stay) ==
  /\ mayLack' = mayLack \cup lack
  /\ mayGhost' = mayGhost \cup ghost
  /\ stuck' = stuck \cup stay
Clashed(us) == Mark(us, us, us) /\ UNCHANGED drift

(* The box has just booted: empty lists, the rows and toggles of before,   *)
(* all off even, when a Transports request died between two writes.        *)
Init ==
  /\ row \in [User -> {"none", "on", "off"}]
  /\ setting \in [Toggle -> {"unset", "true", "false"}]
  /\ member = [t \in Tag |-> {}]
  /\ active = Static
  /\ phase = "wait" /\ boot = Unset
  /\ job = [p \in Process |-> Idle]
  /\ apply = [r \in Page |-> NoApply]
  /\ applies = 0 /\ faults = 0 /\ restarts = 0
  /\ mayLack = {} /\ mayGhost = {} /\ stuck = {} /\ drift = FALSE

Fault == faults < MaxFaults /\ faults' = faults + 1 /\ UNCHANGED <<applies, restarts>>

---------------------------------------------------------------------------
(* Requests *)

(* The row is inserted if the UUID is new; an enabled request registers    *)
(* the user whether or not it was, and whatever the row it found says.     *)
adminCreateUser(p, u, enable) ==
  /\ job[p].at = "idle"
  /\ row' = IF row[u] = "none" THEN [row EXCEPT ![u] = Flag(enable)] ELSE row
  /\ IF enable
     THEN /\ job' = [job EXCEPT ![p] =
                       Work({u}, TRUE, IF row[u] = "none" THEN "rollback" ELSE "nothing")]
          /\ LET clash == Clash({u}, TRUE)
             IN  Mark(clash, clash \cup IF row[u] = "off" THEN {u} ELSE {}, clash)
     ELSE UNCHANGED job /\ LET clash == Clash({u}, FALSE) IN Mark(clash, clash, clash)
  /\ UNCHANGED drift
  /\ UNCHANGED <<setting, member, active, phase, boot, apply, bounds>>

(* One user of a backup: an existing row wins; nothing is rolled back.     *)
backupRestore(p, u, enable) ==
  /\ job[p].at = "idle"
  /\ row[u] = "none"
  /\ row' = [row EXCEPT ![u] = Flag(enable)]
  /\ IF enable
     THEN job' = [job EXCEPT ![p] = Work({u}, TRUE, "nothing")]
     ELSE UNCHANGED job
  /\ Clashed(Clash({u}, enable))
  /\ UNCHANGED <<setting, member, active, phase, boot, apply, bounds>>

(* Mutation: a disabled user is left for the purge to evict.               *)
adminPatchUserLazy(p, u, enable) ==
  /\ job[p].at = "idle"
  /\ row[u] # "none"
  /\ row' = [row EXCEPT ![u] = Flag(enable)]
  /\ job' = [job EXCEPT ![p] = IF enable THEN Work({u}, TRUE, "patched") ELSE @]
  /\ Clashed(Clash({u}, enable))
  /\ UNCHANGED <<setting, member, active, phase, boot, apply, bounds>>

adminPatchUser(p, u, enable) ==
  /\ job[p].at = "idle"
  /\ row[u] # "none"
  /\ row' = [row EXCEPT ![u] = Flag(enable)]
  /\ job' = [job EXCEPT ![p] = Work({u}, enable, "patched")]
  /\ Clashed(Clash({u}, enable))
  /\ UNCHANGED <<setting, member, active, phase, boot, apply, bounds>>

(* The dashboard's toggle and edit form first read the row ...             *)
usersRead(p, u) ==
  /\ job[p].at = "idle"
  /\ row[u] # "none"
  /\ job' = [job EXCEPT ![p] =
               [Idle EXCEPT !.at = "patch", !.add = (row[u] = "on"), !.queue = {u}]]
  /\ Clashed(Clash({u}, TRUE))
  /\ UNCHANGED <<row, setting, member, active, phase, boot, apply, bounds>>

(* ... and then write it: the toggle the opposite of what it read, the     *)
(* form what it was sent.  xray is told only if that differs from what was *)
(* read, by now perhaps no longer what the row held.                       *)
usersWrite(p, enable) ==
  /\ job[p].at = "patch"
  /\ \E u \in job[p].queue :
       IF row[u] = "none"
       THEN /\ job' = [job EXCEPT ![p] = Idle]
            /\ UNCHANGED row
       ELSE /\ row' = [row EXCEPT ![u] = Flag(enable)]
            /\ job' = [job EXCEPT ![p] =
                         IF enable = job[p].add THEN Idle ELSE Work({u}, enable, "patched")]
  /\ UNCHANGED <<setting, member, active, phase, boot, apply, bounds, marks>>

(* Single and bulk delete: xray first, so that no new bytes flow.          *)
usersDelete(p, us) ==
  /\ job[p].at = "idle"
  /\ job' = [job EXCEPT ![p] = Work(us, FALSE, "delete")]
  /\ Clashed(Clash(us, FALSE))
  /\ UNCHANGED <<row, setting, member, active, phase, boot, apply, bounds>>

---------------------------------------------------------------------------
(* Calls to xray *)

(* AddUser and RemoveUser go through a copy of the tag set.                *)
activeTags(p) == active

NextUser(p) ==
  /\ job[p].at = "work" /\ job[p].cur = {}
  /\ \E u \in job[p].queue :
       job' = [job EXCEPT ![p].cur = {u}, ![p].queue = @ \ {u},
                          ![p].tags = activeTags(p), ![p].ok = TRUE]
  /\ UNCHANGED <<row, setting, member, active, phase, boot, apply, bounds, marks>>

(* An inbound xray does not have takes no users.                           *)
Altered(t, us, add) ==
  IF t \in NoInbound THEN member
  ELSE [member EXCEPT ![t] = IF add THEN @ \cup us ELSE @ \ us]

(* Mutation: the fan-out returns after its first inbound.                  *)
AlterInboundFirst(p, t) ==
  /\ t \in job[p].tags
  /\ member' = Altered(t, job[p].cur, job[p].add)
  /\ job' = [job EXCEPT ![p].tags = {}]
  /\ UNCHANGED <<row, setting, active, phase, boot, apply, bounds, marks>>

(* "already exists" and "not found" count as success, be it the user that  *)
(* is not found or the inbound.                                            *)
AlterInbound(p, t) ==
  /\ t \in job[p].tags
  /\ member' = Altered(t, job[p].cur, job[p].add)
  /\ job' = [job EXCEPT ![p].tags = @ \ {t}]
  /\ UNCHANGED <<row, setting, active, phase, boot, apply, bounds, marks>>

(* The third attempt failed, or its answer was lost.  The loop over the    *)
(* tags goes on.                                                           *)
AlterInboundFails(p, t) ==
  /\ t \in job[p].tags
  /\ Fault
  /\ member' \in {member, Altered(t, job[p].cur, job[p].add)}
  /\ job' = [job EXCEPT ![p].tags = @ \ {t}, ![p].ok = FALSE]
  /\ IF job[p].add
     THEN IF job[p].then = "rollback" THEN Mark({}, job[p].cur, job[p].cur)
                                      ELSE Mark(job[p].cur, {}, {})
     ELSE Mark({}, job[p].cur, IF job[p].then = "patched" THEN {} ELSE job[p].cur)
  /\ UNCHANGED <<row, setting, active, phase, boot, apply, drift>>

(* Mutation: a failed registration is not rolled back.                     *)
DropsRowNever(p) == job[p].then = "delete"

DropsRow(p) == job[p].then = "delete" \/ (job[p].then = "rollback" /\ ~job[p].ok)

(* Mutation: the first user of a batch ends it.                            *)
LeaveAll(p) == job' = [job EXCEPT ![p] = Idle]

Leave(p) ==
  job' = [job EXCEPT ![p] = IF @.queue = {} THEN Idle
                            ELSE [@ EXCEPT !.cur = {}, !.ok = TRUE]]

(* All tags have been tried; a failure stops neither a delete nor a purge. *)
Settle(p) ==
  /\ job[p].cur # {} /\ job[p].tags = {}
  /\ row' = [u \in User |-> IF u \in job[p].cur /\ DropsRow(p) THEN "none" ELSE row[u]]
  /\ Leave(p)
  /\ UNCHANGED <<setting, member, active, phase, boot, apply, bounds, marks>>

SettleFails(p) ==
  /\ job[p].cur # {} /\ job[p].tags = {} /\ DropsRow(p)
  /\ Fault
  /\ Leave(p)
  /\ Mark(job[p].cur, {}, {})
  /\ UNCHANGED <<row, setting, member, active, phase, boot, apply, drift>>

(* The deadline of the request or tick passes, or the client of a request  *)
(* hangs up: the call under way may still take effect, every later one     *)
(* fails at once, and so does the rollback.  Hydration has no deadline.    *)
DeadlineExpires(p) ==
  /\ job[p].at = "work" /\ (p = Loop => ~job[p].add)
  /\ job[p].cur = {} \/ job[p].tags # {}
  /\ Fault
  /\ \/ UNCHANGED member
     \/ \E t \in job[p].tags : member' = Altered(t, job[p].cur, job[p].add)
  /\ job' = [job EXCEPT ![p] = Idle]
  /\ LET left == job[p].cur \cup job[p].queue
     IN  IF job[p].add THEN Mark(left, {}, {})
         ELSE IF job[p].then = "delete" THEN Mark(job[p].cur, {}, {})
         ELSE Mark({}, left, IF p = Loop THEN left ELSE {})
  /\ UNCHANGED <<row, setting, active, phase, boot, apply, drift>>

(* The statement that writes a row takes effect and its answer is lost:    *)
(* xray is not told.                                                       *)
RowAnswerLost(p, u, enable) ==
  /\ \/ job[p].at = "idle" /\ p # Loop
     \/ job[p].at = "patch" /\ u \in job[p].queue /\ row[u] # "none"
  /\ Fault
  /\ row' = [row EXCEPT ![u] = Flag(enable)]
  /\ job' = [job EXCEPT ![p] = Idle]
  /\ LET clash == IF job[p].at = "idle" THEN Clash({u}, enable) ELSE {}
     IN  Mark(clash \cup IF enable /\ row[u] # "on" THEN {u} ELSE {},
              clash \cup IF ~enable /\ row[u] = "on" THEN {u} ELSE {}, clash)
  /\ UNCHANGED <<setting, member, active, phase, boot, apply, drift>>

---------------------------------------------------------------------------
(* The goroutine of main(): toggles, hydration, reconciler *)

ReadToggles ==
  /\ phase = "wait"
  /\ phase' = "toggles"
  /\ boot' = setting
  /\ UNCHANGED <<row, setting, member, active, job, apply, bounds, marks>>

(* Without the settings it goes on with the tags of the environment.       *)
ReadTogglesFails ==
  /\ phase = "wait"
  /\ Fault
  /\ phase' = "toggles"
  /\ drift' = TRUE
  /\ Mark({}, User, User)
  /\ UNCHANGED <<row, setting, member, active, boot, job, apply>>

LayToggle(k) ==
  /\ phase = "toggles" /\ boot[k] # "unset"
  /\ boot' = [boot EXCEPT ![k] = "unset"]
  /\ active' = IF boot[k] = "true" THEN active \cup {k} ELSE active \ {k}
  /\ UNCHANGED <<row, setting, member, phase, job, apply, bounds, marks>>

(* Every enabled user is registered again, which makes up for whatever was *)
(* missing, unless somebody is at work on it at the same time.             *)
HydrateFromDB ==
  /\ phase = "toggles" /\ boot = Unset
  /\ phase' = "run"
  /\ LET ids == AllUUIDsEnabled
         clash == {u \in User : Worked(u)}
     IN  /\ job' = [job EXCEPT ![Loop] = IF ids = {} THEN Idle ELSE Work(ids, TRUE, "nothing")]
         /\ mayLack' = clash
         /\ mayGhost' = mayGhost \cup clash
         /\ stuck' = stuck \cup clash
  /\ UNCHANGED <<row, setting, member, active, boot, apply, bounds, drift>>

HydrateFails ==
  /\ phase = "toggles" /\ boot = Unset
  /\ Fault
  /\ phase' = "run"
  /\ Mark(User, {}, {})
  /\ UNCHANGED <<row, setting, member, active, boot, job, apply, drift>>

(* Mutation: the statement has no clause for disabled rows.                *)
DeleteOverLimitOrExpired ==
  /\ phase = "run" /\ job[Loop].at = "idle"
  /\ \E gone \in SUBSET AllUUIDsEnabled :
       /\ gone # {}
       /\ row' = [u \in User |-> IF u \in gone THEN "none" ELSE row[u]]
       /\ job' = [job EXCEPT ![Loop] = Work(gone, FALSE, "nothing")]
       /\ Clashed(Clash(gone, FALSE))
  /\ UNCHANGED <<setting, member, active, phase, boot, apply, bounds>>

(* A tick deletes the disabled rows, and those over quota or expired, in   *)
(* one statement, then evicts their users one by one.                      *)
DeleteDisabledOverLimitOrExpired ==
  /\ phase = "run" /\ job[Loop].at = "idle"
  /\ \E due \in SUBSET AllUUIDsEnabled :
       LET gone == due \cup {u \in User : row[u] = "off"}
       IN  /\ gone # {}
           /\ row' = [u \in User |-> IF u \in gone THEN "none" ELSE row[u]]
           /\ job' = [job EXCEPT ![Loop] = Work(gone, FALSE, "nothing")]
           /\ Clashed(Clash(gone, FALSE))
  /\ UNCHANGED <<setting, member, active, phase, boot, apply, bounds>>

(* The rows are gone, but the answer that names them is lost: the tick     *)
(* evicts nobody.  A statement that did nothing is no step.                *)
DeleteAnswerLost ==
  /\ phase = "run" /\ job[Loop].at = "idle"
  /\ Fault
  /\ \E due \in SUBSET AllUUIDsEnabled :
       LET gone == due \cup {u \in User : row[u] = "off"}
       IN  /\ gone # {}
           /\ row' = [u \in User |-> IF u \in gone THEN "none" ELSE row[u]]
           /\ Mark(Clash(gone, FALSE), gone, gone)
  /\ UNCHANGED <<setting, member, active, phase, boot, job, apply, drift>>

---------------------------------------------------------------------------
(* The Transports page *)

currentTransports(m) ==
  [k \in Toggle |-> IF m[k] = "unset" THEN k \in Static ELSE m[k] = "true"]

(* The settings as read: when that fails, the page takes those it did not  *)
(* get for never set.                                                      *)
GetSettings(m) ==
  \/ m = setting /\ UNCHANGED faults
  \/ /\ \A k \in Toggle : m[k] \in {setting[k], "unset"}
     /\ faults < MaxFaults /\ faults' = faults + 1

(* At least one transport has to stay, and a transport without an inbound  *)
(* cannot be switched on.  Other requests may be under way.                *)
transportsApply(r) ==
  /\ apply[r].at = "idle"
  /\ applies < MaxApplies /\ applies' = applies + 1
  /\ \E want \in [Toggle -> BOOLEAN], m \in [Toggle -> {"unset", "true", "false"}] :
       /\ GetSettings(m)
       /\ \E k \in Toggle : want[k]
       /\ \A k \in Toggle \cap NoInbound : ~want[k]
       /\ apply' = [apply EXCEPT ![r] = [NoApply EXCEPT
                      !.at = "list", !.want = want,
                      !.keys = {k \in Toggle : want[k] # currentTransports(m)[k]}]]
  /\ LET clash == {u \in User : Served(u) \/ Starting} IN Mark(clash, clash, clash)
  /\ drift' = (drift \/ Starting)
  /\ UNCHANGED <<row, setting, member, active, phase, boot, job, restarts>>

ListEnabled(r) ==
  /\ apply[r].at = "list"
  /\ apply' = [apply EXCEPT ![r].at = "flip", ![r].ids = AllUUIDsEnabled]
  /\ UNCHANGED <<row, setting, member, active, phase, boot, job, bounds, marks>>

(* Nothing has been changed yet when the users cannot be listed.           *)
ApplyFails(r) ==
  /\ apply[r].at = "list"
  /\ Fault
  /\ apply' = [apply EXCEPT ![r] = NoApply]
  /\ UNCHANGED <<row, setting, member, active, phase, boot, job, marks>>

Switching(r, k) == apply[r].at = "tag" /\ apply[r].key = {k}
Filling(r, k) == apply[r].at = "bulk" /\ apply[r].key = {k}

(* Two requests that are at the same transport register and evict the same *)
(* users side by side.                                                     *)
SetSetting(r, k) ==
  /\ apply[r].at = "flip" /\ k \in apply[r].keys
  /\ setting' = [setting EXCEPT ![k] = Stored(apply[r].want[k])]
  /\ apply' = [apply EXCEPT ![r].at = "tag", ![r].key = {k}, ![r].keys = @ \ {k}]
  /\ LET clash == IF \E q \in Page : Switching(q, k) \/ Filling(q, k) THEN User ELSE {}
     IN  Clashed(clash)
  /\ UNCHANGED <<row, member, active, phase, boot, job, bounds>>

(* The request ends at a failed write; if only its answer was lost, the    *)
(* toggle and the tag set differ until the next start.                     *)
SetSettingFails(r, k) ==
  /\ apply[r].at = "flip" /\ k \in apply[r].keys
  /\ Fault
  /\ apply' = [apply EXCEPT ![r] = NoApply]
  /\ \/ UNCHANGED <<setting, marks>>
     \/ /\ setting' = [setting EXCEPT ![k] = Stored(apply[r].want[k])]
        /\ drift' = TRUE
        /\ Mark({}, User, User)
  /\ UNCHANGED <<row, member, active, phase, boot, job>>

(* Another request has stored the opposite since, and was the first of the *)
(* two to switch the tag: setting and tag set differ until the next start. *)
Overtaken(r, k) ==
  /\ setting[k] # Stored(apply[r].want[k])
  /\ \A q \in Page \ {r} : Switching(q, k) => setting[k] # Stored(apply[q].want[k])

(* Mutation: a transport switched off stays in the client's tag set.       *)
SwitchTagOn(r, k) ==
  /\ Switching(r, k)
  /\ active' = IF apply[r].want[k] THEN active \cup {k} ELSE active
  /\ apply' = [apply EXCEPT ![r].at = "bulk", ![r].queue = apply[r].ids]
  /\ drift' = (drift \/ Overtaken(r, k))
  /\ UNCHANGED <<row, setting, member, phase, boot, job, bounds, mayLack, mayGhost, stuck>>

(* EnableTag or DisableTag, under the client's lock.                       *)
SwitchTag(r, k) ==
  /\ Switching(r, k)
  /\ active' = IF apply[r].want[k] THEN active \cup {k} ELSE active \ {k}
  /\ apply' = [apply EXCEPT ![r].at = "bulk", ![r].queue = apply[r].ids]
  /\ drift' = (drift \/ Overtaken(r, k))
  /\ UNCHANGED <<row, setting, member, phase, boot, job, bounds, mayLack, mayGhost, stuck>>

(* Mutation: a transport switched off keeps the users it has.              *)
BackfillOnly(r, u, k) ==
  /\ Filling(r, k) /\ u \in apply[r].queue
  /\ member' = IF apply[r].want[k] THEN Altered(k, {u}, TRUE) ELSE member
  /\ apply' = [apply EXCEPT ![r].queue = @ \ {u}]
  /\ UNCHANGED <<row, setting, active, phase, boot, job, bounds, marks>>

(* AddUserToTag or RemoveUserFromTag for every user listed before.         *)
Backfill(r, u, k) ==
  /\ Filling(r, k) /\ u \in apply[r].queue
  /\ member' = Altered(k, {u}, apply[r].want[k])
  /\ apply' = [apply EXCEPT ![r].queue = @ \ {u}]
  /\ UNCHANGED <<row, setting, active, phase, boot, job, bounds, marks>>

BackfillFails(r, u, k) ==
  /\ Filling(r, k) /\ u \in apply[r].queue
  /\ Fault
  /\ member' \in {member, Altered(k, {u}, apply[r].want[k])}
  /\ apply' = [apply EXCEPT ![r].queue = @ \ {u}]
  /\ IF apply[r].want[k] THEN Mark({u}, {}, {}) ELSE Mark({}, {u}, {u})
  /\ UNCHANGED <<row, setting, active, phase, boot, job, drift>>

(* After the two minutes of the request nobody else is told, no further    *)
(* key is stored, and the page says so only if one was left.               *)
ApplyTimesOut(r, k) ==
  /\ Filling(r, k) /\ apply[r].queue # {}
  /\ Fault
  /\ \/ UNCHANGED member
     \/ \E u \in apply[r].queue : member' = Altered(k, {u}, apply[r].want[k])
  /\ apply' = [apply EXCEPT ![r] = NoApply]
  /\ IF apply[r].want[k] THEN Mark(apply[r].queue, {}, {})
                         ELSE Mark({}, apply[r].queue, apply[r].queue)
  /\ UNCHANGED <<row, setting, active, phase, boot, job, drift>>

NextKey(r) ==
  /\ \/ apply[r].at = "bulk" /\ apply[r].queue = {}
     \/ apply[r].at = "flip" /\ apply[r].keys = {}
  /\ apply' = [apply EXCEPT ![r] = IF @.keys = {} THEN NoApply
                                   ELSE [@ EXCEPT !.at = "flip", !.key = {}]]
  /\ UNCHANGED <<row, setting, member, active, phase, boot, job, bounds, marks>>

---------------------------------------------------------------------------
(* Restarts *)

(* xray loses its lists.  Nobody tells the daemon.  Ghosts are gone unless *)
(* somebody is still at work.                                              *)
XrayRestart ==
  /\ restarts < MaxRestarts /\ restarts' = restarts + 1
  /\ member' = [t \in Tag |-> {}]
  /\ mayLack' = User
  /\ mayGhost' = {u \in mayGhost : Worked(u)}
  /\ stuck' = {u \in stuck : Worked(u)}
  /\ UNCHANGED <<row, setting, active, phase, boot, job, apply, applies, faults, drift>>

(* The daemon dies with whatever it was doing and is started again.  If    *)
(* toggles and tag set differed, the next start may lay other tags than    *)
(* those users were registered on meanwhile.                               *)
DaemonRestart ==
  /\ restarts < MaxRestarts /\ restarts' = restarts + 1
  /\ active' = Static
  /\ phase' = "wait" /\ boot' = Unset
  /\ job' = [p \in Process |-> Idle]
  /\ apply' = [r \in Page |-> NoApply]
  /\ LET clash == {u \in User : Worked(u)}
     IN  Mark(clash, IF drift THEN User ELSE clash, clash)
  /\ drift' = FALSE
  /\ UNCHANGED <<row, setting, member, applies, faults>>

---------------------------------------------------------------------------
Request(p) ==
  \/ \E u \in User : usersRead(p, u)
  \/ \E u \in User, enable \in BOOLEAN :
       \/ adminCreateUser(p, u, enable)
       \/ backupRestore(p, u, enable)
       \/ adminPatchUser(p, u, enable)
  \/ \E us \in (SUBSET User) \ {{}} : usersDelete(p, us)

Proceed(p) ==
  \/ \E enable \in BOOLEAN : usersWrite(p, enable)
  \/ NextUser(p)
  \/ \E t \in Tag : AlterInbound(p, t)
  \/ Settle(p)

Startup == ReadToggles \/ (\E k \in Toggle : LayToggle(k)) \/ HydrateFromDB

Applying(r) ==
  \/ ListEnabled(r)
  \/ \E k \in Toggle :
       SetSetting(r, k) \/ SwitchTag(r, k) \/ \E u \in User : Backfill(r, u, k)
  \/ NextKey(r)

Failures ==
  \/ \E p \in Process :
       \/ SettleFails(p) \/ DeadlineExpires(p)
       \/ \E t \in Tag : AlterInboundFails(p, t)
       \/ \E u \in User, enable \in BOOLEAN : RowAnswerLost(p, u, enable)
  \/ ReadTogglesFails \/ HydrateFails \/ DeleteAnswerLost
  \/ \E r \in Page :
       \/ ApplyFails(r)
       \/ \E k \in Toggle :
            \/ SetSettingFails(r, k) \/ ApplyTimesOut(r, k)
            \/ \E u \in User : BackfillFails(r, u, k)

Next ==
  \/ \E p \in Handler : Request(p)
  \/ \E p \in Process : Proceed(p)
  \/ Startup
  \/ DeleteDisabledOverLimitOrExpired
  \/ \E r \in Page : transportsApply(r) \/ Applying(r)
  \/ Failures
  \/ XrayRestart \/ DaemonRestart

Spec == Init /\ [][Next]_vars

(* Every call has a deadline, so whatever has been started goes on; the    *)
(* ticker keeps ticking and takes every disabled row.  Nobody has to make  *)
(* a request, run over a quota or expire.                                  *)
Enforce == DeleteDisabledOverLimitOrExpired /\ \E u \in User : row[u] = "off"

FairSpec ==
  /\ Spec
  /\ \A p \in Process : WF_vars(Proceed(p))
  /\ WF_vars(Startup)
  /\ \A r \in Page : WF_vars(Applying(r))
  /\ WF_vars(Enforce)

---------------------------------------------------------------------------
(* Properties *)

(* Every variable keeps its type, and a process holds what its step needs. *)
TypeOK ==
  /\ row \in [User -> {"none", "on", "off"}]
  /\ setting \in [Toggle -> {"unset", "true", "false"}]
  /\ member \in [Tag -> SUBSET User]
  /\ active \in SUBSET Tag
  /\ phase \in {"wait", "toggles", "run"}
  /\ boot \in [Toggle -> {"unset", "true", "false"}]
  /\ job \in [Process -> Job]
  /\ apply \in [Page -> Apply]
  /\ applies \in Nat /\ faults \in Nat /\ restarts \in Nat
  /\ mayLack \in SUBSET User /\ mayGhost \in SUBSET User /\ stuck \in SUBSET User
  /\ drift \in BOOLEAN

Registered(u) == \A t \in active \ NoInbound : u \in member[t]

(* An enabled user at rest is registered on every inbound in use, unless   *)
(* one of the events mayLack names stood in the way: a call that failed,   *)
(* two operations on the user at once, an xray restart.                    *)
NobodyLockedOut ==
  \A u \in User :
    (row[u] = "on" /\ ~Busy(u) /\ u \notin mayLack) => Registered(u)

(* A user at rest is registered only if its row is enabled, and only on    *)
(* inbounds in use, unless one of the events mayGhost names intervened.    *)
NoGhosts ==
  \A u \in User :
    (~Busy(u) /\ u \notin mayGhost)
      => \A t \in Tag : u \in member[t] => row[u] = "on" /\ t \in active

(* The tag set follows the stored toggles across restarts and failures; a  *)
(* toggle never set leaves the environment's choice.  It does so during    *)
(* Transports requests too, but for the transports being switched, unless  *)
(* an answer was lost or requests for the same one overtook each other.    *)
TagsFollowSettings ==
  (phase = "run" /\ ~drift) =>
    /\ active \ Toggle = Static \ Toggle
    /\ \A k \in Toggle :
         \/ \E r \in Page : Switching(r, k)
         \/ k \in active <=> currentTransports(setting)[k]

Evicted(u) == \A t \in active : u \notin member[t]

(* A start ends with every enabled user registered: hydration is complete. *)
HydrationCompletes ==
  \A u \in User :
    (Starting /\ row[u] = "on")
      ~> (row[u] # "on" \/ u \in mayLack \/ (~Starting /\ Registered(u)))

(* A disabled user loses its connection to every inbound in use, with      *)
(* nobody's help and even if the handler that disabled it failed to tell   *)
(* xray: the purge takes the row and evicts it.  It may stay only if two   *)
(* operations on it met or the eviction itself failed.                     *)
DisabledEvicted ==
  \A u \in User : row[u] = "off" ~> (Evicted(u) \/ u \in stuck \/ row[u] = "on")

---------------------------------------------------------------------------
(* Provisioning implements an abstract access list, whose excuses are the  *)
(* marks.  An inbound xray was not configured with is never in use.        *)
A == INSTANCE Access WITH
       Inbound <- Tag,
       entitled <- AllUUIDsEnabled,
       inUse <- active \ NoInbound,
       listed <- [u \in User |-> {t \in Tag : u \in member[t]}],
       inHand <- {u \in User : Busy(u)},
       mayMiss <- mayLack,
       mayStay <- mayGhost

(* Every behaviour, whatever interleaves, fails or restarts, is one of the *)
(* abstract list: a customer nobody works on is neither admitted nor       *)
(* dropped, nor does its row change, without a mark; work on it leaves it  *)
(* listed as its row says; tags change only while everybody is in hand.    *)
ImplementsAccess == A!Spec
===========================================================================
