---------------------------- MODULE Reconciler ----------------------------
(***************************************************************************)
(* The accounting and enforcement loop of lightxrayd.                      *)
(*                                                                         *)
(* xray keeps, per user, two byte counters that only grow and that start   *)
(* again from 0 with the xray process.  Every ReconcilePeriod the daemon   *)
(* takes one snapshot of all counters (QueryAllUserTraffic), and then, user *)
(* by user and one database call at a time, bills the growth since the     *)
(* cursor it stored on an earlier tick, moves the cursor, folds the sum    *)
(* into the day's total and purges the rows whose quota, days or enable    *)
(* flag say so.  Nothing is transactional: the HTTP handlers insert, patch *)
(* and delete rows between any two of those calls, xray restarts, calls    *)
(* fail, the daemon dies.                                                  *)
(*                                                                         *)
(* A user's two directions are summed where the code sums them.  Which     *)
(* inbounds a UUID is registered with is the business of Provisioning: here *)
(* a UUID may move bytes whether or not it has a row, as a purged user's   *)
(* open connection does.  The last group of variables observes the run and *)
(* influences nothing.                                                     *)
(***************************************************************************)
EXTENDS Integers

CONSTANTS
  User,         \* UUIDs the operator has ever provisioned
  Plan,         \* the [enable, limit, days] a create, restore or patch may store
  BackupUsage,  \* usage_bytes found in backup files
  Chunk,        \* bytes one Transfer moves
  MaxBytes,     \* bound on a counter (one xray lifetime)
  MaxRestarts,  \* bound on xray restarts
  MaxFaults,    \* bound on failed calls and daemon crashes
  MaxEdits,     \* bound on rows inserted, patched or deleted by handlers
  MaxDay        \* last day of the calendar

ASSUME PlanAssumption == Plan \subseteq [enable: BOOLEAN, limit: Nat, days: Nat]
ASSUME BytesAssumption == BackupUsage \subseteq Nat /\ Chunk \subseteq Nat \ {0}
ASSUME BoundAssumption ==
  /\ MaxBytes \in Nat
  /\ MaxRestarts \in Nat
  /\ MaxFaults \in Nat
  /\ MaxEdits \in Nat
  /\ MaxDay \in Nat \ {0}

VARIABLES
  \* xray
  counter,      \* [User -> Reading] bytes since xray started
  listed,       \* users that have a StatsService entry
  \* PostgreSQL
  rows,         \* users with a row in table users
  plan,         \* enable, usage_limit_bytes, package_days of each row
  start,        \* start_date of each row, NoDate for NULL
  usage,        \* usage_bytes of each row
  cursor,       \* stats_cursor, Zero where there is no row
  daily,        \* traffic_daily, up and down together
  today,        \* CURRENT_DATE
  \* locals of tick()
  pc,           \* where tick() stands, see Phase
  now,          \* the date it took with the snapshot
  snap,         \* the counters it read, Zero outside the loop over users
  todo,         \* users of the snapshot it has not visited
  held,         \* the user it is visiting, if any
  prev,         \* that user's cursor as it read it
  grow,         \* the delta it computed for that user
  batch,        \* sum of the deltas so far
  \* what has been spent of the bounds
  restarts, faults, edits,
  \* observation
  carried,      \* bytes moved for the current row, with what a backup brought
  applied,      \* bytes added to the held user's row and not yet covered by its cursor
  billed,       \* sum of all AddUsage
  astray,       \* bytes a tick counted for the day and stored in no row
  unlogged,     \* bytes a tick counted for the day and never added to its total
  forfeit,      \* bytes past the cursor at an xray restart
  hidden,       \* bytes skipped for any other reason
  surplus       \* bytes a row may be billed that are not its own or not new

xrayVars == <<counter, listed>>
dbVars   == <<rows, plan, start, usage, cursor, daily>>
tickVars == <<pc, now, snap, todo, held, prev, grow, batch>>
boundVars == <<restarts, faults, edits>>
bookVars == <<billed, astray, unlogged>>
obsVars  == <<carried, applied, bookVars, forfeit, hidden, surplus>>
vars == <<xrayVars, dbVars, today, tickVars, boundVars, obsVars>>

---------------------------------------------------------------------------
Reading == [up: Nat, down: Nat]
Zero == [up |-> 0, down |-> 0]
Total(r) == r.up + r.down

NoDate == 0
NoPlan == [enable |-> FALSE, limit |-> 0, days |-> 0]

(* A tick is idle, choosing a user (scan), between UserExists and GetCursor *)
(* (read), before AddUsage (bill), TouchLastOnline (touch), UpsertCursor    *)
(* (mark), AddDailyTraffic (daily) or the purge.                            *)
Phase == {"idle", "scan", "read", "bill", "touch", "mark", "daily", "purge"}

(* Mutations of delta: no thought of a restart; no thought of the cursor;  *)
(* a drop taken for no traffic.                                            *)
deltaNoReset(p, c) == c - p
deltaWhole(p, c) == c
deltaDropped(p, c) == IF c >= p THEN c - p ELSE 0

(* Growth of one counter since prev; a drop means xray restarted from 0.   *)
delta(p, c) == IF c >= p THEN c - p ELSE c

DeltaOf(p, c) == delta(p.up, c.up) + delta(p.down, c.down)

(* What the next undisturbed tick would bill user u.                       *)
Unbilled(u) == DeltaOf(cursor[u], counter[u])

(* Mutation: 0 read as a quota of nothing instead of unlimited.            *)
OverLimitZero(u) == usage[u] >= plan[u].limit

OverLimit(u) == plan[u].limit > 0 /\ usage[u] >= plan[u].limit

Expired(u) ==
  /\ plan[u].days > 0
  /\ start[u] # NoDate
  /\ start[u] + plan[u].days <= today

Due(u) == ~plan[u].enable \/ OverLimit(u) \/ Expired(u)

(* The tick holds a snapshot of u that it has yet to act on.               *)
InFlight(u) == u \in todo \cup held

Init ==
  /\ counter = [u \in User |-> Zero]
  /\ listed = {}
  /\ rows \in SUBSET User
  /\ plan \in [User -> Plan \cup {NoPlan}]
  /\ \A u \in User : plan[u] \in IF u \in rows THEN Plan ELSE {NoPlan}
  /\ start = [u \in User |-> NoDate]
  /\ usage = [u \in User |-> 0]
  /\ cursor = [u \in User |-> Zero]
  /\ daily = 0
  /\ today = 1
  /\ pc = "idle" /\ now = NoDate
  /\ snap = [u \in User |-> Zero]
  /\ todo = {} /\ held = {} /\ prev = Zero /\ grow = 0 /\ batch = 0
  /\ restarts = 0 /\ faults = 0 /\ edits = 0
  /\ carried = [u \in User |-> 0]
  /\ applied = 0
  /\ billed = 0 /\ astray = 0 /\ unlogged = 0
  /\ forfeit = [u \in User |-> 0]
  /\ hidden = [u \in User |-> 0]
  /\ surplus = [u \in User |-> 0]

---------------------------------------------------------------------------
(* xray *)

(* A first connection since xray started: the statistics entry appears.    *)
Connect(u) ==
  /\ u \notin listed
  /\ listed' = listed \cup {u}
  /\ UNCHANGED <<counter, dbVars, today, tickVars, boundVars, obsVars>>

(* A counter that had fallen behind its cursor and catches up with it hides *)
(* the restart from every later delta: the cursor's worth of bytes is       *)
(* never billed.                                                           *)
Overtaken(p, c, k) == IF c < p /\ p <= c + k THEN p ELSE 0

Moved(u, r, skipped) ==
  /\ counter' = [counter EXCEPT ![u] = r]
  /\ carried' = IF u \in rows
                THEN [carried EXCEPT ![u] = @ + Total(r) - Total(counter[u])]
                ELSE carried
  /\ hidden' = IF u \in rows THEN [hidden EXCEPT ![u] = @ + skipped] ELSE hidden
  /\ UNCHANGED <<listed, dbVars, today, tickVars, boundVars,
                 applied, bookVars, forfeit, surplus>>

(* k bytes pass through an open connection of u.                           *)
Transfer(u, k) ==
  /\ u \in listed
  /\ Total(counter[u]) + k <= MaxBytes
  /\ \/ Moved(u, [counter[u] EXCEPT !.up = @ + k],
              Overtaken(cursor[u].up, counter[u].up, k))
     \/ Moved(u, [counter[u] EXCEPT !.down = @ + k],
              Overtaken(cursor[u].down, counter[u].down, k))

(* The xray process restarts; its counters and entries are gone.           *)
XrayRestart ==
  /\ restarts < MaxRestarts
  /\ restarts' = restarts + 1
  /\ counter' = [u \in User |-> Zero]
  /\ listed' = {}
  /\ forfeit' = [u \in User |->
                   forfeit[u] + IF u \in rows THEN Unbilled(u) ELSE 0]
  /\ UNCHANGED <<dbVars, today, tickVars, faults, edits,
                 carried, applied, bookVars, hidden, surplus>>

---------------------------------------------------------------------------
(* Handlers, as the database sees them *)

Edit == edits < MaxEdits /\ edits' = edits + 1

(* A row appears for a UUID that had none: no cursor, whatever xray still  *)
(* counts for that UUID.  A tick that holds a snapshot of it, or of the    *)
(* row it replaces, will act on that snapshot.                             *)
OpenRow(u, p, s, used) ==
  /\ Edit
  /\ u \notin rows
  /\ rows' = rows \cup {u}
  /\ plan' = [plan EXCEPT ![u] = p]
  /\ start' = [start EXCEPT ![u] = s]
  /\ usage' = [usage EXCEPT ![u] = used]
  /\ carried' = [carried EXCEPT ![u] = used]
  /\ applied' = IF u \in held THEN 0 ELSE applied
  /\ forfeit' = [forfeit EXCEPT ![u] = 0]
  /\ hidden' = [hidden EXCEPT ![u] = IF u \in held THEN Total(snap[u]) ELSE 0]
  /\ surplus' = [surplus EXCEPT ![u] =
                   Total(counter[u]) + IF InFlight(u) THEN Total(snap[u]) ELSE 0]
  /\ UNCHANGED <<xrayVars, cursor, daily, today, tickVars, restarts, faults, bookVars>>

(* The clock of a created row starts on first traffic unless the pool sets *)
(* a date.                                                                 *)
CreateUser(u) ==
  \E p \in Plan, s \in NoDate .. today : OpenRow(u, p, s, 0)

(* A backup brings usage and a start date of its own, but no cursor.       *)
RestoreUser(u) ==
  \E p \in Plan, s \in NoDate .. today, used \in BackupUsage : OpenRow(u, p, s, used)

(* Any subset of the fields changes; the start date can move, not vanish.  *)
PatchUser(u) ==
  /\ Edit
  /\ u \in rows
  /\ \E p \in Plan : plan' = [plan EXCEPT ![u] = p]
  /\ \E s \in {start[u]} \cup 1 .. today : start' = [start EXCEPT ![u] = s]
  /\ UNCHANGED <<xrayVars, rows, usage, cursor, daily, today, tickVars,
                 restarts, faults, obsVars>>

(* Mutation: no ON DELETE CASCADE, the cursor outlives its row.            *)
DropKeepsCursor(gone) ==
  LET clear(f, v) == [u \in User |-> IF u \in gone THEN v ELSE f[u]]
  IN  /\ rows' = rows \ gone
      /\ plan' = clear(plan, NoPlan)
      /\ start' = clear(start, NoDate)
      /\ usage' = clear(usage, 0)
      /\ cursor' = cursor
      /\ carried' = clear(carried, 0)
      /\ forfeit' = clear(forfeit, 0)
      /\ hidden' = clear(hidden, 0)
      /\ surplus' = clear(surplus, 0)

(* Rows go with their cursors (ON DELETE CASCADE).                         *)
Drop(gone) ==
  LET clear(f, v) == [u \in User |-> IF u \in gone THEN v ELSE f[u]]
  IN  /\ rows' = rows \ gone
      /\ plan' = clear(plan, NoPlan)
      /\ start' = clear(start, NoDate)
      /\ usage' = clear(usage, 0)
      /\ cursor' = clear(cursor, Zero)
      /\ carried' = clear(carried, 0)
      /\ forfeit' = clear(forfeit, 0)
      /\ hidden' = clear(hidden, 0)
      /\ surplus' = clear(surplus, 0)

DeleteUser(u) ==
  /\ Edit
  /\ u \in rows
  /\ Drop({u})
  /\ UNCHANGED <<xrayVars, daily, today, tickVars, restarts, faults,
                 applied, bookVars>>

NextDay ==
  /\ today < MaxDay
  /\ today' = today + 1
  /\ UNCHANGED <<xrayVars, dbVars, tickVars, boundVars, obsVars>>

---------------------------------------------------------------------------
(* tick() *)

Fault == faults < MaxFaults /\ faults' = faults + 1

(* One snapshot of every counter.  A failed query ends the tick with       *)
(* nothing done, which is no step at all.                                  *)
QueryAllUserTraffic ==
  /\ pc = "idle"
  /\ pc' = "scan"
  /\ now' = today
  /\ snap' = [u \in User |-> IF u \in listed THEN counter[u] ELSE Zero]
  /\ todo' = listed
  /\ UNCHANGED <<xrayVars, dbVars, today, held, prev, grow, batch, boundVars, obsVars>>

(* The next UUID of the map.  One without a row, a ghost, is skipped.      *)
UserExists(u) ==
  /\ pc = "scan" /\ u \in todo
  /\ todo' = todo \ {u}
  /\ IF u \in rows THEN pc' = "read" /\ held' = {u}
                   ELSE UNCHANGED <<pc, held>>
  /\ UNCHANGED <<xrayVars, dbVars, today, now, snap, prev, grow, batch, boundVars, obsVars>>

UserExistsFails(u) ==
  /\ pc = "scan" /\ u \in todo
  /\ Fault
  /\ todo' = todo \ {u}
  /\ UNCHANGED <<xrayVars, dbVars, today, pc, now, snap, held, prev, grow, batch,
                 restarts, edits, obsVars>>

(* Mutation: the day's batch takes the raw counter, not its growth.        *)
GetCursorRawBatch(u) ==
  /\ pc = "read" /\ held = {u}
  /\ prev' = cursor[u]
  /\ grow' = DeltaOf(cursor[u], snap[u])
  /\ batch' = batch + Total(snap[u])
  /\ pc' = IF grow' > 0 THEN "bill" ELSE "mark"
  /\ UNCHANGED <<xrayVars, dbVars, today, now, snap, todo, held, boundVars, obsVars>>

(* The deltas enter the day's batch before any of them is stored.          *)
GetCursor(u) ==
  /\ pc = "read" /\ held = {u}
  /\ prev' = cursor[u]
  /\ grow' = DeltaOf(cursor[u], snap[u])
  /\ batch' = batch + grow'
  /\ pc' = IF grow' > 0 THEN "bill" ELSE "mark"
  /\ UNCHANGED <<xrayVars, dbVars, today, now, snap, todo, held, boundVars, obsVars>>

GetCursorFails(u) ==
  /\ pc = "read" /\ held = {u}
  /\ Fault
  /\ pc' = "scan" /\ held' = {}
  /\ UNCHANGED <<xrayVars, dbVars, today, now, snap, todo, prev, grow, batch,
                 restarts, edits, obsVars>>

(* Mutation: usage_bytes is set to the delta instead of raised by it.      *)
SetUsage(u) ==
  /\ pc = "bill" /\ held = {u}
  /\ pc' = "touch"
  /\ IF u \in rows
     THEN /\ usage' = [usage EXCEPT ![u] = grow]
          /\ billed' = billed + grow
          /\ applied' = grow
          /\ UNCHANGED astray
     ELSE /\ astray' = astray + grow
          /\ UNCHANGED <<usage, billed, applied>>
  /\ UNCHANGED <<xrayVars, rows, plan, start, cursor, daily, today,
                 now, snap, todo, held, prev, grow, batch, boundVars,
                 carried, unlogged, forfeit, hidden, surplus>>

(* The UPDATE finds no row when the user went away since UserExists.       *)
AddUsage(u) ==
  /\ pc = "bill" /\ held = {u}
  /\ pc' = "touch"
  /\ IF u \in rows
     THEN /\ usage' = [usage EXCEPT ![u] = @ + grow]
          /\ billed' = billed + grow
          /\ applied' = grow
          /\ UNCHANGED astray
     ELSE /\ astray' = astray + grow
          /\ UNCHANGED <<usage, billed, applied>>
  /\ UNCHANGED <<xrayVars, rows, plan, start, cursor, daily, today,
                 now, snap, todo, held, prev, grow, batch, boundVars,
                 carried, unlogged, forfeit, hidden, surplus>>

(* The error is logged and the tick goes on as if the bytes were stored.   *)
AddUsageFails(u) ==
  /\ pc = "bill" /\ held = {u}
  /\ Fault
  /\ pc' = "touch"
  /\ astray' = astray + grow
  /\ UNCHANGED <<xrayVars, dbVars, today, now, snap, todo, held, prev, grow, batch,
                 restarts, edits, carried, applied, billed, unlogged, forfeit, hidden,
                 surplus>>

(* The first traffic starts the clock; later traffic leaves it alone.      *)
TouchLastOnline(u) ==
  /\ pc = "touch" /\ held = {u}
  /\ pc' = "mark"
  /\ start' = IF u \in rows /\ start[u] = NoDate
              THEN [start EXCEPT ![u] = now] ELSE start
  /\ UNCHANGED <<xrayVars, rows, plan, usage, cursor, daily, today,
                 now, snap, todo, held, prev, grow, batch, boundVars, obsVars>>

TouchLastOnlineFails(u) ==
  /\ pc = "touch" /\ held = {u}
  /\ Fault
  /\ pc' = "mark"
  /\ UNCHANGED <<xrayVars, dbVars, today, now, snap, todo, held, prev, grow, batch,
                 restarts, edits, obsVars>>

LeaveUser ==
  /\ pc' = "scan" /\ held' = {} /\ prev' = Zero /\ grow' = 0
  /\ applied' = 0

(* Mutation: the cursor takes the counter as it is by now, not as billed.  *)
UpsertCursorFresh(u) ==
  /\ pc = "mark" /\ held = {u}
  /\ IF u \in rows
     THEN /\ cursor' = [cursor EXCEPT ![u] = counter[u]]
          /\ hidden' = [hidden EXCEPT ![u] = @ + grow - applied]
     ELSE UNCHANGED <<cursor, hidden>>
  /\ LeaveUser
  /\ UNCHANGED <<xrayVars, rows, plan, start, usage, daily, today,
                 now, snap, todo, batch, boundVars, carried, bookVars, forfeit, surplus>>

(* The cursor moves whether or not AddUsage succeeded.  Without a row the  *)
(* foreign key refuses it.                                                 *)
UpsertCursor(u) ==
  /\ pc = "mark" /\ held = {u}
  /\ IF u \in rows
     THEN /\ cursor' = [cursor EXCEPT ![u] = snap[u]]
          /\ hidden' = [hidden EXCEPT ![u] = @ + grow - applied]
     ELSE UNCHANGED <<cursor, hidden>>
  /\ LeaveUser
  /\ UNCHANGED <<xrayVars, rows, plan, start, usage, daily, today,
                 now, snap, todo, batch, boundVars, carried, bookVars, forfeit, surplus>>

(* What this tick billed above the old cursor will be billed again.        *)
BilledTwice ==
  surplus' = [u \in User |->
                surplus[u] + IF u \in held /\ u \in rows THEN applied ELSE 0]

UpsertCursorFails(u) ==
  /\ pc = "mark" /\ held = {u}
  /\ Fault
  /\ BilledTwice
  /\ LeaveUser
  /\ UNCHANGED <<xrayVars, dbVars, today, now, snap, todo, batch, restarts, edits,
                 carried, bookVars, forfeit, hidden>>

EndScan ==
  /\ pc = "scan" /\ todo = {}
  /\ pc' = "daily"
  /\ snap' = [u \in User |-> Zero]
  /\ UNCHANGED <<xrayVars, dbVars, today, now, todo, held, prev, grow, batch,
                 boundVars, obsVars>>

AddDailyTraffic ==
  /\ pc = "daily"
  /\ pc' = "purge"
  /\ daily' = daily + batch
  /\ batch' = 0
  /\ UNCHANGED <<xrayVars, rows, plan, start, usage, cursor, today,
                 now, snap, todo, held, prev, grow, boundVars, obsVars>>

AddDailyTrafficFails ==
  /\ pc = "daily"
  /\ Fault
  /\ pc' = "purge"
  /\ batch' = 0
  /\ unlogged' = unlogged + batch
  /\ UNCHANGED <<xrayVars, dbVars, today, now, snap, todo, held, prev, grow,
                 restarts, edits, carried, applied, billed, astray, forfeit, hidden,
                 surplus>>

(* Mutation: only users with traffic since xray started are looked at.     *)
PurgeActiveOnly ==
  /\ pc = "purge"
  /\ pc' = "idle" /\ now' = NoDate
  /\ Drop({u \in rows : Due(u) /\ u \in listed})
  /\ UNCHANGED <<xrayVars, daily, today, snap, todo, held, prev, grow, batch,
                 boundVars, applied, bookVars>>

(* One DELETE over the whole table.  The evictions that follow change only *)
(* what xray accepts, see Provisioning.                                    *)
DeleteDisabledOverLimitOrExpired ==
  /\ pc = "purge"
  /\ pc' = "idle" /\ now' = NoDate
  /\ Drop({u \in rows : Due(u)})
  /\ UNCHANGED <<xrayVars, daily, today, snap, todo, held, prev, grow, batch,
                 boundVars, applied, bookVars>>

PurgeFails ==
  /\ pc = "purge"
  /\ Fault
  /\ pc' = "idle" /\ now' = NoDate
  /\ UNCHANGED <<xrayVars, dbVars, today, snap, todo, held, prev, grow, batch,
                 restarts, edits, obsVars>>

(* The daemon dies and is started again: tick() loses its locals, the next *)
(* one starts at once.                                                     *)
Crash ==
  /\ pc # "idle"
  /\ Fault
  /\ BilledTwice
  /\ pc' = "idle" /\ now' = NoDate
  /\ snap' = [u \in User |-> Zero]
  /\ todo' = {} /\ held' = {} /\ prev' = Zero /\ grow' = 0 /\ batch' = 0
  /\ applied' = 0
  /\ unlogged' = unlogged + batch
  /\ astray' = astray + IF pc = "bill" THEN grow ELSE 0
  /\ UNCHANGED <<xrayVars, dbVars, today, restarts, edits,
                 carried, billed, forfeit, hidden>>

---------------------------------------------------------------------------
VisitUser(u) ==
  \/ UserExists(u)
  \/ GetCursor(u)
  \/ AddUsage(u)
  \/ TouchLastOnline(u)
  \/ UpsertCursor(u)

VisitFails(u) ==
  \/ UserExistsFails(u)
  \/ GetCursorFails(u)
  \/ AddUsageFails(u)
  \/ TouchLastOnlineFails(u)
  \/ UpsertCursorFails(u)

tick ==
  \/ QueryAllUserTraffic
  \/ \E u \in User : VisitUser(u)
  \/ EndScan
  \/ AddDailyTraffic
  \/ DeleteDisabledOverLimitOrExpired

tickFails ==
  \/ \E u \in User : VisitFails(u)
  \/ AddDailyTrafficFails
  \/ PurgeFails
  \/ Crash

Handlers == \E u \in User : CreateUser(u) \/ RestoreUser(u) \/ PatchUser(u) \/ DeleteUser(u)

Xray == XrayRestart \/ \E u \in User : Connect(u) \/ \E k \in Chunk : Transfer(u, k)

Next == tick \/ tickFails \/ Handlers \/ Xray \/ NextDay

Spec == Init /\ [][Next]_vars

(* The ticker never stops and every call of a tick has a deadline, so the  *)
(* loop keeps taking steps; nothing is promised of anybody else.           *)
FairSpec == Spec /\ WF_vars(tick)

---------------------------------------------------------------------------
(* Properties *)

(* Every variable keeps its type; in particular no delta is ever negative. *)
TypeOK ==
  /\ counter \in [User -> Reading]
  /\ listed \in SUBSET User
  /\ rows \in SUBSET User
  /\ plan \in [User -> Plan \cup {NoPlan}]
  /\ start \in [User -> Nat]
  /\ usage \in [User -> Nat]
  /\ cursor \in [User -> Reading]
  /\ daily \in Nat
  /\ today \in Nat
  /\ pc \in Phase
  /\ now \in Nat
  /\ snap \in [User -> Reading]
  /\ todo \in SUBSET User
  /\ held \in SUBSET User
  /\ prev \in Reading
  /\ grow \in Nat
  /\ batch \in Nat
  /\ restarts \in Nat /\ faults \in Nat /\ edits \in Nat
  /\ carried \in [User -> Nat]
  /\ applied \in Nat
  /\ billed \in Nat /\ astray \in Nat /\ unlogged \in Nat
  /\ forfeit \in [User -> Nat]
  /\ hidden \in [User -> Nat]
  /\ surplus \in [User -> Nat]

(* No user is billed for more than its row has moved, whatever fails or    *)
(* restarts, beyond what "surplus" names: bytes xray (or a tick under way) *)
(* already held for the UUID when its row was created, and bytes of a tick *)
(* whose cursor write failed or never came after AddUsage.                 *)
NeverOverbilled == \A u \in rows : usage[u] <= carried[u] + surplus[u]

(* No byte goes missing silently: what a row has moved is billed, waits    *)
(* for the next tick, was past the cursor when xray restarted, or was      *)
(* skipped by one of the events "hidden" names.                            *)
NeverForgotten ==
  \A u \in rows : carried[u] <= usage[u] + Unbilled(u) + forfeit[u] + hidden[u]

(* A row that met none of those events is billed to the byte: what it has  *)
(* moved is what the tick has billed and covered by a cursor, plus what    *)
(* the next tick will bill.                                                *)
ExactUnlessDisturbed ==
  \A u \in rows :
    (surplus[u] = 0 /\ forfeit[u] = 0 /\ hidden[u] = 0)
      => carried[u] = usage[u] + Unbilled(u) - (IF u \in held THEN applied ELSE 0)

(* The day's total against the books of the users, whatever fails and      *)
(* whatever handlers do: after every tick the total, with the batches that *)
(* a failed AddDailyTraffic or a crash kept from it, is what AddUsage has  *)
(* billed, with the growth that found no row, met an error or died with    *)
(* the daemon.  schema.sql:89 claims it of the total alone.                *)
DailyReconciles == pc = "idle" => daily + unlogged = billed + astray

(* What the operator sold, said without the code's own tests: days run     *)
(* from the start date, and no start date, no days or no quota is no end.  *)
InDays(u) == plan[u].days = 0 \/ start[u] = NoDate \/ today \in 0 .. start[u] + plan[u].days - 1
InQuota(u) == plan[u].limit = 0 \/ usage[u] \in 0 .. plan[u].limit - 1
Entitled(u) == plan[u].enable /\ InDays(u) /\ InQuota(u)

(* The purge takes an enabled user whose days are not over only once it    *)
(* has a quota and has really moved that many bytes (or was overbilled by  *)
(* a named event): the accounting never cuts a customer off early.         *)
NoEarlyCutoff ==
  [][DeleteDisabledOverLimitOrExpired =>
       \A u \in rows \ rows' :
         (plan[u].enable /\ InDays(u))
           => plan[u].limit \in 1 .. carried[u] + surplus[u]]_vars

(* reconciler.go:143: enforcement runs every tick regardless of traffic, so *)
(* a row that is due, idle or not, is purged unless a patch saves it.      *)
DuePurged ==
  \A u \in User : (u \in rows /\ ~Entitled(u)) ~> (u \notin rows \/ Entitled(u))

(* Moving the bytes is enough: a user whose traffic, less what was lost,   *)
(* has reached its quota is purged in the end, with nobody's help.         *)
Overran(u) ==
  /\ u \in rows
  /\ plan[u].limit > 0
  /\ carried[u] - forfeit[u] - hidden[u] >= plan[u].limit

OverrunPurged == \A u \in User : Overran(u) ~> ~Overran(u)
---------------------------------------------------------------------------
(* The inductive invariant behind the accounting properties *)

Claiming == pc \in {"bill", "touch", "mark"}
Visiting == pc = "read" \/ Claiming

(* What the tick at hand leaves of u's row if it ends undisturbed: the     *)
(* bytes it is about to bill, then those the counter gained since.         *)
Claim(u) ==
  IF u \in held /\ Claiming
  THEN usage[u] - applied + grow + DeltaOf(snap[u], counter[u])
  ELSE usage[u] + DeltaOf(cursor[u], snap[u]) + DeltaOf(snap[u], counter[u])

Covered(u) == usage[u] - IF u \in held THEN applied ELSE 0

(* The locals of tick() fit its program counter; no cursor outlives its    *)
(* row.                                                                    *)
Shape ==
  /\ pc \in {"idle", "daily", "purge"} => todo = {}
  /\ Visiting => \E u \in User : held = {u}
  /\ ~Visiting => held = {}
  /\ todo \cap held = {}
  /\ ~Claiming => applied = 0
  /\ pc = "bill" => applied = 0
  /\ applied <= grow
  /\ Claiming => \A u \in held : grow = DeltaOf(prev, snap[u])
  /\ \A u \in User \ rows : cursor[u] = Zero

(* Upper side: neither giving up now nor finishing the tick overbills u.   *)
NoExcess(u) ==
  /\ Covered(u) + Unbilled(u) <= carried[u] + surplus[u]
  /\ InFlight(u) => Claim(u) <= carried[u] + surplus[u]

(* Lower side; a row replaced while the tick visits the old one (its       *)
(* cursor is no longer the one that was read) has the snapshot in reserve. *)
NoShortage(u) ==
  LET known == Covered(u) + Unbilled(u) + forfeit[u] + hidden[u]
  IN  /\ carried[u] <= known
      /\ (u \in held /\ Claiming /\ cursor[u] # prev)
           => carried[u] + Total(snap[u]) <= known

Balanced == \A u \in rows : NoExcess(u) /\ NoShortage(u)

AccountInv == TypeOK /\ Shape /\ Balanced

---------------------------------------------------------------------------
(* The loop implements an abstract meter whose tolerance is the surplus.   *)
M == INSTANCE Meter WITH Account <- User, open <- rows, moved <- carried,
                         charged <- usage, tolerance <- surplus

(* Every behaviour of the loop, whatever fails, is one of the meter: usage *)
(* of a living row never shrinks and never passes what the meter allows.   *)
ImplementsMeter == M!Spec
===========================================================================
