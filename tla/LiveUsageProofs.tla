-------------------------- MODULE LiveUsageProofs --------------------------
(***************************************************************************)
(* Theorems about the live answer of GET /user/{uuid}/: for every number   *)
(* of users, every bound and every way the tick, xray, the other handlers  *)
(* and failures fall between its three calls.                              *)
(***************************************************************************)
EXTENDS LiveUsage, ReconcilerProofs

---------------------------------------------------------------------------
(* The inductive invariant *)

(* A counter without a statistics entry is at zero: what the handler reads *)
(* of an unlisted user is what xray holds.                                 *)
UnlistedIsZero == \A u \in User \ listed : counter[u] = Zero

(* What a tick has billed u and not yet covered by a cursor: nothing.      *)
BooksAtRest(u) == u \in held => applied = 0

(* A quiet request knows, before it reads xray, the row with its books at  *)
(* rest; before it reads the cursor, that stored value, cursor and counters *)
(* add up to what the row had moved, but for what its books lacked or had  *)
(* too much at that moment; and then has answered that.                    *)
KnowsTheTruth ==
  quiet =>
    /\ view = "counters" => asked \in rows /\ stored = usage[asked] /\ BooksAtRest(asked)
    /\ view = "cursor" =>
         stored + DeltaOf(cursor[asked], seen) \in truth - lost .. truth + spare
    /\ view = "answer" => shown \in truth - lost .. truth + spare

(* As long as the row lives what was stored is no more than was moved, and *)
(* the top-up no more than was read.                                       *)
StoredWithinMoved ==
  /\ (view # "none" /\ same) => /\ asked \in rows
                                /\ stored \in 0 .. usage[asked]
                                /\ stored <= carried[asked] + surplus[asked]
  /\ view = "answer" => shown <= stored + Total(seen)
  /\ view = "stored" => shown = stored

(* NoShortage of Reconciler with the bytes t and the counters c of one     *)
(* moment in place of those of now: the t bytes moved then are covered by  *)
(* a cursor, lie between the cursor and c, or are named as lost.           *)
Accounted(u, t, c) ==
  LET known == Covered(u) + DeltaOf(cursor[u], c) + forfeit[u] + hidden[u]
  IN  /\ t <= known
      /\ (u \in held /\ Claiming /\ cursor[u] # prev) => t + Total(snap[u]) <= known

(* What the handler read of xray stays accounted for until it reads the    *)
(* cursor, and what its answer then leaves out has been billed or named.   *)
NothingLost ==
  same =>
    /\ view = "cursor" => Accounted(asked, truth, seen)
    /\ view = "answer" =>
         truth + stored <= shown + usage[asked] + forfeit[asked] + hidden[asked]

LiveInv ==
  /\ AccountInv
  /\ LiveTypeOK
  /\ UnlistedIsZero
  /\ KnowsTheTruth
  /\ StoredWithinMoved
  /\ NothingLost

---------------------------------------------------------------------------
(* The server's delta is the loop's, and its clamp never bites.            *)
LEMMA PendingIsDelta ==
  ASSUME NEW p \in Reading, NEW c \in Reading
  PROVE  Pending(p, c) = DeltaOf(p, c)
<1>1. cursorDelta(p.up, c.up) + cursorDelta(p.down, c.down) = DeltaOf(p, c)
  BY DEF DeltaOf, cursorDelta, delta
<1>. QED
  BY <1>1, ReadingFacts DEF Pending

LEMMA LiveInitHolds == LiveInit => LiveInv
<1>. SUFFICES ASSUME LiveInit PROVE LiveInv
  OBVIOUS
<1>1. AccountInv
  BY InitBase, InitBalanced DEF LiveInit, AccountInv
<1>2. Zero \in Reading /\ Total(Zero) = 0
  BY DEF Zero, Reading, Total
<1>. QED
  BY <1>1, <1>2 DEF LiveInit, Init, LiveInv, LiveTypeOK, AccountInv, UnlistedIsZero,
     KnowsTheTruth, StoredWithinMoved, NothingLost

(* Spending from the failure bound leaves the books as they are.           *)
LEMMA FaultsAreNoBooks ==
  ASSUME AccountInv, faults' \in Nat,
         UNCHANGED <<xrayVars, dbVars, today, tickVars, restarts, edits, obsVars>>
  PROVE  AccountInv'
<1>. USE DEF xrayVars, dbVars, tickVars, obsVars, bookVars
<1>1. TypeOK'
  BY DEF AccountInv, TypeOK
<1>2. Shape'
  BY DEF AccountInv, Shape, Visiting, Claiming
<1>3. Balanced'
  BY DEF AccountInv, Balanced, NoExcess, NoShortage, Covered, Unbilled, InFlight,
     Claim, Claiming
<1>. QED
  BY <1>1, <1>2, <1>3 DEF AccountInv

(* Statistics entries appear at zero and go with their counters.           *)
LEMMA UnlistedStep ==
  ASSUME TypeOK, UnlistedIsZero, [Next]_vars
  PROVE  UnlistedIsZero'
<1>1. CASE UNCHANGED <<counter, listed>>
  BY <1>1 DEF UnlistedIsZero
<1>2. ASSUME NEW u \in User, Connect(u) PROVE UnlistedIsZero'
  BY <1>2 DEF Connect, UnlistedIsZero
<1>3. ASSUME NEW u \in User, NEW k \in Chunk, Transfer(u, k) PROVE UnlistedIsZero'
  BY <1>3 DEF Transfer, Moved, UnlistedIsZero, TypeOK
<1>4. CASE XrayRestart
  BY <1>4 DEF XrayRestart, UnlistedIsZero
<1>5. CASE tick
  BY <1>1, <1>5 DEF tick, VisitUser, QueryAllUserTraffic, UserExists, GetCursor, AddUsage,
     TouchLastOnline, UpsertCursor, EndScan, AddDailyTraffic,
     DeleteDisabledOverLimitOrExpired, xrayVars
<1>6. CASE tickFails
  BY <1>1, <1>6 DEF tickFails, VisitFails, UserExistsFails, GetCursorFails, AddUsageFails,
     TouchLastOnlineFails, UpsertCursorFails, AddDailyTrafficFails, PurgeFails, Crash, xrayVars
<1>7. CASE Handlers
  BY <1>1, <1>7 DEF Handlers, CreateUser, RestoreUser, OpenRow, PatchUser, DeleteUser, xrayVars
<1>8. CASE NextDay \/ UNCHANGED vars
  BY <1>1, <1>8 DEF NextDay, vars, xrayVars
<1>. QED
  BY <1>2, <1>3, <1>4, <1>5, <1>6, <1>7, <1>8 DEF Next, Xray

(* A row that lives on has moved no less, been billed no less and been     *)
(* allowed no less than before.                                            *)
LEMMA MovedOnlyGrows ==
  ASSUME AccountInv, [Next]_vars, NEW u \in rows, u \in rows'
  PROVE  /\ carried[u] <= carried'[u] /\ surplus[u] <= surplus'[u]
         /\ usage[u] <= usage'[u]
<1>1. [M!Next]_<<rows, carried, usage, surplus>>
  BY StepMaps
<1>2. AccountInv'
  BY BaseStep, BalanceStep DEF AccountInv
<1>3. /\ u \in User
      /\ carried[u] \in Nat /\ surplus[u] \in Nat /\ usage[u] \in Nat
      /\ carried'[u] \in Nat /\ surplus'[u] \in Nat /\ usage'[u] \in Nat
      /\ carried \in [User -> Nat] /\ surplus \in [User -> Nat] /\ usage \in [User -> Nat]
  BY <1>2 DEF AccountInv, TypeOK
<1>4. ASSUME NEW a \in User, M!Carry(a)
      PROVE  carried[u] <= carried'[u] /\ surplus[u] <= surplus'[u] /\ usage[u] <= usage'[u]
  <2>1. /\ carried' = [carried EXCEPT ![a] = carried'[a]]
        /\ carried'[a] > carried[a] /\ surplus' = surplus /\ usage' = usage
    BY <1>4 DEF M!Carry
  <2>2. u # a => carried'[u] = carried[u]
    BY <1>3, <2>1
  <2> QED BY <1>3, <2>1, <2>2
<1>5. ASSUME NEW a \in User, M!Charge(a)
      PROVE  carried[u] <= carried'[u] /\ surplus[u] <= surplus'[u] /\ usage[u] <= usage'[u]
  <2>1. /\ usage' = [usage EXCEPT ![a] = usage'[a]]
        /\ usage[a] < usage'[a] /\ surplus' = surplus /\ carried' = carried
    BY <1>5 DEF M!Charge
  <2>2. u # a => usage'[u] = usage[u]
    BY <1>3, <2>1
  <2> QED BY <1>3, <2>1, <2>2
<1>6. ASSUME NEW a \in User, M!OpenAccount(a)
      PROVE  carried[u] <= carried'[u] /\ surplus[u] <= surplus'[u] /\ usage[u] <= usage'[u]
  <2>1. /\ u # a
        /\ carried' = [carried EXCEPT ![a] = carried'[a]]
        /\ usage' = [usage EXCEPT ![a] = carried'[a]]
        /\ surplus' = [surplus EXCEPT ![a] = surplus'[a]]
    BY <1>6 DEF M!OpenAccount
  <2>2. carried'[u] = carried[u] /\ usage'[u] = usage[u] /\ surplus'[u] = surplus[u]
    BY <1>3, <2>1
  <2> QED BY <1>3, <2>2
<1>7. CASE M!Close
  BY <1>3, <1>7 DEF M!Close
<1>8. CASE M!Mishap
  BY <1>3, <1>8 DEF M!Mishap
<1>9. CASE UNCHANGED <<rows, carried, usage, surplus>>
  BY <1>3, <1>9
<1>. QED
  BY <1>1, <1>4, <1>5, <1>6, <1>7, <1>8, <1>9 DEF M!Next

(* Nor is anything unsaid of what the row has lost.                        *)
LEMMA LossOnlyGrows ==
  ASSUME TypeOK, Shape, [Next]_vars, NEW u \in rows, u \in rows'
  PROVE  forfeit[u] <= forfeit'[u] /\ hidden[u] <= hidden'[u]
<1>. USE DEF xrayVars, dbVars, tickVars, boundVars, obsVars, bookVars
<1>1. /\ u \in User /\ TypeOK' /\ applied \in Nat /\ grow \in Nat /\ applied <= grow
      /\ forfeit \in [User -> Nat] /\ hidden \in [User -> Nat]
      /\ forfeit[u] \in Nat /\ hidden[u] \in Nat
  BY BaseStep DEF TypeOK, Shape
<1>2. CASE UNCHANGED <<forfeit, hidden>>
  BY <1>1, <1>2
<1>3. ASSUME NEW v \in User, NEW k \in Chunk, Transfer(v, k)
      PROVE  forfeit[u] <= forfeit'[u] /\ hidden[u] <= hidden'[u]
  <2>1. PICK r \in Reading, h \in Nat : Moved(v, r, h)
    BY <1>3, TransferFacts
  <2>2. /\ forfeit' = forfeit
        /\ hidden' = IF v \in rows THEN [hidden EXCEPT ![v] = @ + h] ELSE hidden
    BY <2>1 DEF Moved
  <2>3. CASE u = v
    BY <1>1, <2>2, <2>3
  <2>4. CASE u # v
    BY <1>1, <2>2, <2>4
  <2> QED BY <2>3, <2>4
<1>4. CASE XrayRestart
  <2>1. /\ hidden' = hidden
        /\ forfeit'[u] = forfeit[u] + Unbilled(u)
    BY <1>1, <1>4 DEF XrayRestart
  <2>2. Unbilled(u) \in Nat
    BY <1>1, UserFacts DEF Unbilled
  <2> QED BY <1>1, <2>1, <2>2
<1>5. ASSUME NEW v \in User, CreateUser(v) \/ RestoreUser(v)
      PROVE  forfeit[u] <= forfeit'[u] /\ hidden[u] <= hidden'[u]
  <2>1. v # u /\ forfeit'[u] = forfeit[u] /\ hidden'[u] = hidden[u]
    BY <1>1, <1>5 DEF CreateUser, RestoreUser, OpenRow
  <2> QED BY <1>1, <2>1
<1>6. ASSUME NEW v \in User, DeleteUser(v)
      PROVE  forfeit[u] <= forfeit'[u] /\ hidden[u] <= hidden'[u]
  BY <1>1, <1>6 DEF DeleteUser, Drop
<1>7. CASE DeleteDisabledOverLimitOrExpired
  BY <1>1, <1>7 DEF DeleteDisabledOverLimitOrExpired, Drop
<1>8. ASSUME NEW v \in User, UpsertCursor(v)
      PROVE  forfeit[u] <= forfeit'[u] /\ hidden[u] <= hidden'[u]
  <2>1. /\ forfeit' = forfeit
        /\ hidden' = IF v \in rows THEN [hidden EXCEPT ![v] = @ + grow - applied] ELSE hidden
    BY <1>8 DEF UpsertCursor
  <2>2. CASE u = v
    BY <1>1, <2>1, <2>2
  <2>3. CASE u # v
    BY <1>1, <2>1, <2>3
  <2> QED BY <2>2, <2>3
<1>9. ASSUME NEW v \in User,
             \/ Connect(v) \/ PatchUser(v) \/ UserExists(v) \/ GetCursor(v) \/ AddUsage(v)
             \/ TouchLastOnline(v)
      PROVE  UNCHANGED <<forfeit, hidden>>
  BY <1>9 DEF Connect, PatchUser, UserExists, GetCursor, AddUsage, TouchLastOnline
<1>10. CASE tickFails
  BY <1>2, <1>10 DEF tickFails, VisitFails, UserExistsFails, GetCursorFails, AddUsageFails,
     TouchLastOnlineFails, UpsertCursorFails, AddDailyTrafficFails, PurgeFails, Crash
<1>11. CASE \/ QueryAllUserTraffic \/ EndScan \/ AddDailyTraffic \/ NextDay \/ UNCHANGED vars
  BY <1>2, <1>11 DEF QueryAllUserTraffic, EndScan, AddDailyTraffic, NextDay, vars
<1>. QED
  BY <1>2, <1>3, <1>4, <1>5, <1>6, <1>7, <1>8, <1>9, <1>10, <1>11
     DEF Next, tick, VisitUser, Handlers, Xray

(* Books at rest stay so under every step that does not bill the row.      *)
LEMMA StaysAtRest ==
  ASSUME TypeOK, Shape, [Next]_vars, NEW u \in rows, BooksAtRest(u), usage'[u] = usage[u]
  PROVE  BooksAtRest(u)'
<1>. USE DEF xrayVars, dbVars, tickVars, boundVars, obsVars, bookVars
<1>1. /\ u \in User /\ applied \in Nat /\ grow \in Nat /\ usage[u] \in Nat
      /\ usage \in [User -> Nat] /\ (u \in held => applied = 0)
  BY DEF TypeOK, BooksAtRest
<1>2. CASE UNCHANGED <<held, applied>>
  BY <1>1, <1>2 DEF BooksAtRest
<1>3. CASE Xray \/ NextDay \/ UNCHANGED vars
  BY <1>2, <1>3 DEF Xray, XrayRestart, Connect, Transfer, Moved, NextDay, vars
<1>4. ASSUME NEW v \in User, CreateUser(v) \/ RestoreUser(v) PROVE BooksAtRest(u)'
  BY <1>1, <1>4 DEF CreateUser, RestoreUser, OpenRow, BooksAtRest
<1>5. ASSUME NEW v \in User, PatchUser(v) \/ DeleteUser(v) PROVE BooksAtRest(u)'
  BY <1>2, <1>5 DEF PatchUser, DeleteUser
<1>6. ASSUME NEW v \in User, UserExists(v) PROVE BooksAtRest(u)'
  <2>1. applied = 0
    BY <1>6 DEF UserExists, Shape, Claiming
  <2> QED BY <1>1, <1>6, <2>1 DEF UserExists, BooksAtRest
<1>7. ASSUME NEW v \in User, AddUsage(v) PROVE BooksAtRest(u)'
  <2>1. CASE v = u
    <3>1. usage'[u] = usage[u] + grow /\ applied' = grow
      BY <1>1, <1>7, <2>1 DEF AddUsage
    <3>2. applied' = 0
      BY <1>1, <3>1
    <3> QED BY <3>2 DEF BooksAtRest
  <2>2. CASE v # u
    BY <1>7, <2>2 DEF AddUsage, BooksAtRest
  <2> QED BY <2>1, <2>2
<1>8. ASSUME NEW v \in User,
             \/ GetCursor(v) \/ TouchLastOnline(v) \/ UserExistsFails(v)
             \/ AddUsageFails(v) \/ TouchLastOnlineFails(v)
      PROVE  BooksAtRest(u)'
  BY <1>2, <1>8 DEF GetCursor, TouchLastOnline, UserExistsFails, AddUsageFails,
     TouchLastOnlineFails
<1>9. ASSUME NEW v \in User, GetCursorFails(v) \/ UpsertCursor(v) \/ UpsertCursorFails(v)
      PROVE  BooksAtRest(u)'
  BY <1>9 DEF GetCursorFails, UpsertCursor, UpsertCursorFails, LeaveUser, BooksAtRest
<1>10. CASE Crash
  BY <1>10 DEF Crash, BooksAtRest
<1>11. CASE \/ QueryAllUserTraffic \/ EndScan \/ AddDailyTraffic \/ AddDailyTrafficFails
            \/ PurgeFails \/ DeleteDisabledOverLimitOrExpired
  BY <1>2, <1>11 DEF QueryAllUserTraffic, EndScan, AddDailyTraffic, AddDailyTrafficFails,
     PurgeFails, DeleteDisabledOverLimitOrExpired
<1>. QED
  BY <1>3, <1>4, <1>5, <1>6, <1>7, <1>8, <1>9, <1>10, <1>11
     DEF Next, tick, tickFails, VisitUser, VisitFails, Handlers

(* The bytes and counters of a past moment stay accounted for, whatever    *)
(* the loop does, as long as the row lives: billing, giving up and moving  *)
(* the cursor only shift them from one term to another.                    *)
LEMMA AccountedStep ==
  ASSUME TypeOK, Shape, [Next]_vars, NEW u \in rows, u \in rows',
         NEW t \in Nat, NEW c \in Reading, Accounted(u, t, c)
  PROVE  Accounted(u, t, c)'
<1>. USE DEF xrayVars, dbVars, tickVars, boundVars, obsVars, bookVars
<1>1. /\ u \in User /\ TypeOK' /\ Shape'
      /\ applied \in Nat /\ grow \in Nat /\ applied <= grow
      /\ usage[u] \in Nat /\ forfeit[u] \in Nat /\ hidden[u] \in Nat
      /\ cursor[u] \in Reading /\ snap[u] \in Reading /\ prev \in Reading
      /\ DeltaOf(cursor[u], c) \in Nat /\ Total(snap[u]) \in Nat
      /\ (u \in held /\ Claiming => grow = DeltaOf(prev, snap[u]))
  BY BaseStep, UserFacts, ReadingFacts DEF TypeOK, Shape
<1>2. forfeit[u] <= forfeit'[u] /\ hidden[u] <= hidden'[u]
  BY LossOnlyGrows
<1>3. /\ forfeit'[u] \in Nat /\ hidden'[u] \in Nat /\ usage'[u] \in Nat /\ applied' \in Nat
  BY <1>1 DEF TypeOK
(* Steps that leave the visit, the row's usage and its cursor alone.       *)
<1>4. ASSUME UNCHANGED <<held, applied, prev, snap, pc>>,
             usage'[u] = usage[u], cursor'[u] = cursor[u]
      PROVE  Accounted(u, t, c)'
  <2>1. Covered(u)' = Covered(u) /\ Claiming' = Claiming
    BY <1>4 DEF Covered, Claiming
  <2>2. Covered(u) \in Int
    BY <1>1 DEF Covered
  <2> QED BY <1>1, <1>2, <1>3, <1>4, <2>1, <2>2 DEF Accounted
<1>5. CASE Xray \/ NextDay \/ UNCHANGED vars
  BY <1>4, <1>5 DEF Xray, XrayRestart, Connect, Transfer, Moved, NextDay, vars
<1>6. ASSUME NEW v \in User, CreateUser(v) \/ RestoreUser(v) PROVE Accounted(u, t, c)'
  <2>1. /\ v # u /\ usage'[u] = usage[u] /\ UNCHANGED <<cursor, held, prev, snap, pc>>
        /\ applied' = IF v \in held THEN 0 ELSE applied
    BY <1>1, <1>6 DEF CreateUser, RestoreUser, OpenRow, TypeOK
  <2>2. u \in held => v \notin held
    BY <2>1 DEF Shape
  <2>3. Covered(u)' = Covered(u) /\ Claiming' = Claiming
    BY <2>1, <2>2 DEF Covered, Claiming
  <2>4. Covered(u) \in Int
    BY <1>1 DEF Covered
  <2> QED BY <1>1, <1>2, <1>3, <2>1, <2>3, <2>4 DEF Accounted
<1>7. ASSUME NEW v \in User, PatchUser(v) \/ DeleteUser(v) PROVE Accounted(u, t, c)'
  <2>1. CASE PatchUser(v)
    BY <1>4, <2>1 DEF PatchUser
  <2>2. CASE DeleteUser(v)
    BY <1>1, <1>4, <2>2 DEF DeleteUser, Drop
  <2> QED BY <1>7, <2>1, <2>2
<1>8. CASE DeleteDisabledOverLimitOrExpired
  <2>1. /\ usage'[u] = usage[u] /\ cursor'[u] = cursor[u] /\ held = {} /\ held' = {}
    BY <1>1, <1>8 DEF DeleteDisabledOverLimitOrExpired, Drop, Shape, Visiting, Claiming
  <2> QED BY <1>1, <1>2, <1>3, <2>1 DEF Accounted, Covered
<1>9. CASE QueryAllUserTraffic \/ EndScan
  <2>1. held = {} /\ held' = {} /\ usage' = usage /\ cursor' = cursor
    BY <1>9 DEF QueryAllUserTraffic, EndScan, Shape, Visiting, Claiming
  <2> QED BY <1>1, <1>2, <1>3, <2>1 DEF Accounted, Covered
<1>10. CASE AddDailyTraffic \/ AddDailyTrafficFails \/ PurgeFails
  <2>1. held = {} /\ held' = {} /\ usage' = usage /\ cursor' = cursor
    BY <1>10 DEF AddDailyTraffic, AddDailyTrafficFails, PurgeFails, Shape, Visiting, Claiming
  <2> QED BY <1>1, <1>2, <1>3, <2>1 DEF Accounted, Covered
<1>11. ASSUME NEW v \in User, UserExists(v) \/ UserExistsFails(v) \/ GetCursorFails(v)
       PROVE  Accounted(u, t, c)'
  <2>1. /\ applied = 0 /\ applied' = 0 /\ usage' = usage /\ cursor' = cursor /\ ~Claiming'
    BY <1>11 DEF UserExists, UserExistsFails, GetCursorFails, Shape, Claiming
  <2> QED BY <1>1, <1>2, <1>3, <2>1 DEF Accounted, Covered
<1>12. ASSUME NEW v \in User, GetCursor(v) PROVE Accounted(u, t, c)'
  <2>1. /\ held = {v} /\ held' = held /\ prev' = cursor[v] /\ usage' = usage
        /\ cursor' = cursor /\ applied' = applied
    BY <1>12 DEF GetCursor
  <2> QED BY <1>1, <1>2, <1>3, <2>1 DEF Accounted, Covered
<1>13. ASSUME NEW v \in User, AddUsage(v) PROVE Accounted(u, t, c)'
  <2>1. /\ held = {v} /\ held' = held /\ pc = "bill" /\ Claiming /\ applied = 0
        /\ UNCHANGED <<cursor, prev, snap>> /\ usage \in [User -> Nat]
    BY <1>13 DEF AddUsage, Claiming, Shape, TypeOK
  <2>2. CASE v = u
    <3>1. usage'[u] = usage[u] + grow /\ applied' = grow
      BY <1>1, <1>13, <2>1, <2>2 DEF AddUsage
    <3>2. Covered(u)' = Covered(u) /\ Covered(u) \in Nat
      BY <1>1, <2>1, <2>2, <3>1 DEF Covered
    <3> QED BY <1>1, <1>2, <1>3, <2>1, <2>2, <3>2 DEF Accounted
  <2>3. CASE v # u
    <3>1. usage'[u] = usage[u]
      BY <1>1, <1>13, <2>1, <2>3 DEF AddUsage
    <3> QED BY <1>1, <1>2, <1>3, <2>1, <2>3, <3>1 DEF Accounted, Covered
  <2> QED BY <2>2, <2>3
<1>14. ASSUME NEW v \in User, AddUsageFails(v) \/ TouchLastOnline(v) \/ TouchLastOnlineFails(v)
       PROVE  Accounted(u, t, c)'
  <2>1. /\ UNCHANGED <<held, applied, prev, snap, usage, cursor>> /\ Claiming /\ Claiming'
    BY <1>14 DEF AddUsageFails, TouchLastOnline, TouchLastOnlineFails, Claiming
  <2>2. Covered(u)' = Covered(u) /\ Covered(u) \in Int
    BY <1>1, <2>1 DEF Covered
  <2> QED BY <1>1, <1>2, <1>3, <2>1, <2>2 DEF Accounted
(* The cursor passes from the reading of the last tick to that of this one, *)
(* and the growth between the two is in the row or in "hidden".            *)
<1>15. ASSUME NEW v \in User, UpsertCursor(v) PROVE Accounted(u, t, c)'
  <2>1. held = {v} /\ held' = {} /\ Claiming /\ applied' = 0 /\ usage' = usage
    BY <1>15 DEF UpsertCursor, LeaveUser, Claiming
  <2>2. CASE v # u
    <3>1. cursor'[u] = cursor[u]
      BY <1>1, <1>15, <2>2 DEF UpsertCursor, TypeOK
    <3> QED BY <1>1, <1>2, <1>3, <2>1, <2>2, <3>1 DEF Accounted, Covered
  <2>3. CASE v = u
    <3>1. /\ cursor'[u] = snap[u] /\ hidden'[u] = hidden[u] + grow - applied
          /\ forfeit'[u] = forfeit[u]
      BY <1>1, <1>15, <2>3 DEF UpsertCursor, TypeOK
    <3>2. /\ DeltaOf(snap[u], c) \in Nat
          /\ DeltaOf(cursor[u], c) <= DeltaOf(cursor[u], snap[u]) + DeltaOf(snap[u], c)
          /\ DeltaOf(cursor[u], snap[u]) \in Nat
          /\ DeltaOf(cursor[u], snap[u]) <= Total(snap[u])
      BY <1>1, ReadingFacts, ReadingTriangle
    <3>3. /\ t <= usage[u] - applied + DeltaOf(cursor[u], c) + forfeit[u] + hidden[u]
          /\ cursor[u] # prev =>
               t + Total(snap[u])
                 <= usage[u] - applied + DeltaOf(cursor[u], c) + forfeit[u] + hidden[u]
      BY <2>1, <2>3 DEF Accounted, Covered
    <3>4. t <= usage[u] + DeltaOf(snap[u], c) + forfeit[u] + hidden[u] + grow - applied
      <4>1. CASE cursor[u] = prev
        <5>1. grow = DeltaOf(cursor[u], snap[u])
          BY <1>1, <2>1, <2>3, <4>1
        <5> QED BY <1>1, <3>2, <3>3, <5>1
      <4>2. CASE cursor[u] # prev
        BY <1>1, <3>2, <3>3, <4>2
      <4> QED BY <4>1, <4>2
    <3> QED BY <1>1, <2>1, <3>1, <3>2, <3>4 DEF Accounted, Covered
  <2> QED BY <2>2, <2>3
(* A tick that gives the row up leaves all it billed in the row.           *)
<1>16. CASE Crash \/ \E v \in User : UpsertCursorFails(v)
  <2>1. held' = {} /\ usage' = usage /\ cursor' = cursor
    BY <1>16 DEF Crash, UpsertCursorFails, LeaveUser
  <2>2. /\ Covered(u) \in Int /\ Covered(u) <= usage[u]
        /\ Covered(u)' = usage[u]
    BY <1>1, <2>1 DEF Covered
  <2> QED BY <1>1, <1>2, <1>3, <2>1, <2>2 DEF Accounted
<1>. QED
  BY <1>5, <1>6, <1>7, <1>8, <1>9, <1>10, <1>11, <1>12, <1>13, <1>14, <1>15, <1>16
     DEF Next, tick, tickFails, VisitUser, VisitFails, Handlers

---------------------------------------------------------------------------
(* The handler's own steps, then the steps around them *)

(* The loop and the database stand still while the handler takes a step.   *)
LEMMA BooksStandStill ==
  ASSUME LiveInv, UNCHANGED vars
  PROVE  AccountInv' /\ UnlistedIsZero' /\ TypeOK'
BY DEF LiveInv, AccountInv, vars, xrayVars, dbVars, tickVars, boundVars, obsVars, bookVars,
   TypeOK, Shape, Visiting, Claiming, Balanced, NoExcess, NoShortage, Covered, Unbilled,
   InFlight, Claim, UnlistedIsZero

LEMMA GetUserStep ==
  ASSUME LiveInv, NEW u \in User, GetUser(u)
  PROVE  LiveInv'
<1>1. /\ AccountInv' /\ UnlistedIsZero' /\ TypeOK'
      /\ usage[u] \in Nat /\ usage[u] <= carried[u] + surplus[u]
      /\ Zero \in Reading
  <2>1. AccountInv' /\ UnlistedIsZero' /\ TypeOK'
    BY BooksStandStill DEF GetUser
  <2>2. usage[u] <= carried[u] + surplus[u]
    BY BilledWithinMoved DEF LiveInv, GetUser, NeverOverbilled
  <2> QED BY <2>1, <2>2 DEF LiveInv, AccountInv, TypeOK, Zero, Reading
<1>2. /\ view' = "counters" /\ asked' = u /\ stored' = usage[u] /\ seen' = Zero
      /\ shown' = 0 /\ truth' = 0 /\ spare' = 0 /\ lost' = 0
      /\ same' = TRUE /\ quiet' = BooksAtRest(u) /\ u \in rows
      /\ UNCHANGED <<rows, usage, carried, surplus, held, applied>>
  BY DEF GetUser, BooksAtRest, vars, dbVars, tickVars, obsVars, bookVars
<1>3. quiet' \in BOOLEAN
  BY <1>2 DEF BooksAtRest
<1>4. LiveTypeOK'
  BY <1>1, <1>2, <1>3 DEF LiveInv, LiveTypeOK
<1>5. StoredWithinMoved' /\ NothingLost'
  BY <1>1, <1>2 DEF StoredWithinMoved, NothingLost
<1>6. KnowsTheTruth'
  <2>1. BooksAtRest(u)' = BooksAtRest(u)
    BY <1>2 DEF BooksAtRest
  <2> QED BY <1>2, <2>1 DEF KnowsTheTruth, BooksAtRest
<1>. QED
  BY <1>1, <1>4, <1>5, <1>6 DEF LiveInv

(* What is read of xray against a row at rest is, with what is stored and  *)
(* past the cursor, all the row has moved; against any row it is accounted *)
(* for.                                                                    *)
LEMMA PerUserTrafficStep ==
  ASSUME LiveInv, PerUserTraffic
  PROVE  LiveInv'
<1>1. AccountInv' /\ UnlistedIsZero' /\ TypeOK'
  BY BooksStandStill DEF PerUserTraffic
<1>2. /\ view = "counters" /\ view' = "cursor"
      /\ seen' = IF asked \in listed THEN counter[asked] ELSE Zero
      /\ truth' = carried[asked] /\ spare' = surplus[asked]
      /\ lost' = forfeit[asked] + hidden[asked]
      /\ UNCHANGED <<asked, stored, shown, same, quiet, rows, usage, cursor, carried, surplus,
                     forfeit, hidden, held, applied, pc, prev, snap>>
  BY DEF PerUserTraffic, vars, dbVars, tickVars, obsVars, bookVars
<1>3. /\ seen' = counter[asked] /\ asked \in User /\ counter[asked] \in Reading
      /\ forfeit[asked] \in Nat /\ hidden[asked] \in Nat
      /\ carried[asked] \in Nat /\ surplus[asked] \in Nat /\ usage[asked] \in Nat
      /\ stored \in Nat
  BY <1>2 DEF LiveInv, LiveTypeOK, UnlistedIsZero, TypeOK
<1>4. LiveTypeOK'
  BY <1>1, <1>2, <1>3 DEF LiveInv, LiveTypeOK, TypeOK
<1>5. ASSUME quiet
      PROVE  stored + DeltaOf(cursor[asked], seen') \in truth' - lost' .. truth' + spare'
  <2>1. asked \in rows /\ stored = usage[asked] /\ BooksAtRest(asked)
    BY <1>2, <1>5 DEF LiveInv, KnowsTheTruth
  <2>2. Covered(asked) = stored
    BY <1>3, <2>1 DEF BooksAtRest, Covered
  <2>3. DeltaOf(cursor[asked], seen') = Unbilled(asked) /\ Unbilled(asked) \in Nat
    BY <1>3, UserFacts DEF LiveInv, AccountInv, Unbilled
  <2>4. /\ stored + Unbilled(asked) <= carried[asked] + surplus[asked]
        /\ carried[asked] <= stored + Unbilled(asked) + forfeit[asked] + hidden[asked]
    BY <2>1, <2>2 DEF LiveInv, AccountInv, Balanced, NoExcess, NoShortage
  <2> QED BY <1>2, <1>3, <2>3, <2>4
<1>6. ASSUME same PROVE Accounted(asked, truth, seen)'
  <2>1. asked \in rows
    BY <1>2, <1>6 DEF LiveInv, StoredWithinMoved
  <2>2. NoShortage(asked)
    BY <2>1 DEF LiveInv, AccountInv, Balanced
  <2>3. Covered(asked)' = Covered(asked) /\ Claiming' = Claiming
    BY <1>2 DEF Covered, Claiming
  <2> QED BY <1>2, <1>3, <2>2, <2>3 DEF Accounted, NoShortage, Unbilled
<1>. QED
  BY <1>1, <1>2, <1>4, <1>5, <1>6 DEF LiveInv, KnowsTheTruth, StoredWithinMoved, NothingLost

LEMMA AnswerStep ==
  ASSUME LiveInv, liveUsageBytes
  PROVE  LiveInv'
<1>1. AccountInv' /\ UnlistedIsZero' /\ TypeOK'
  BY BooksStandStill DEF liveUsageBytes
<1>2. /\ view = "cursor" /\ view' = "answer"
      /\ shown' = stored + Pending(cursor[asked], seen)
      /\ UNCHANGED <<asked, stored, seen, truth, spare, lost, same, quiet,
                     rows, usage, carried, surplus, forfeit, hidden>>
  BY DEF liveUsageBytes, vars, dbVars, obsVars, bookVars
<1>3. /\ asked \in User /\ cursor[asked] \in Reading /\ seen \in Reading
      /\ stored \in Nat /\ truth \in Nat /\ applied \in Nat /\ usage[asked] \in Nat
      /\ forfeit[asked] \in Nat /\ hidden[asked] \in Nat
  BY DEF LiveInv, LiveTypeOK, TypeOK
<1>4. /\ shown' = stored + DeltaOf(cursor[asked], seen)
      /\ DeltaOf(cursor[asked], seen) \in Nat
      /\ DeltaOf(cursor[asked], seen) <= Total(seen) /\ Total(seen) \in Nat
  BY <1>2, <1>3, PendingIsDelta, ReadingFacts
<1>5. LiveTypeOK'
  BY <1>1, <1>2, <1>3, <1>4 DEF LiveInv, LiveTypeOK
<1>6. KnowsTheTruth' /\ StoredWithinMoved'
  BY <1>2, <1>3, <1>4 DEF LiveInv, KnowsTheTruth, StoredWithinMoved
<1>7. NothingLost'
  <2>. SUFFICES ASSUME same
                PROVE  truth + stored <= shown' + usage[asked] + forfeit[asked] + hidden[asked]
    BY <1>2 DEF NothingLost
  <2>1. truth <= Covered(asked) + DeltaOf(cursor[asked], seen) + forfeit[asked] + hidden[asked]
    BY <1>2 DEF LiveInv, NothingLost, Accounted
  <2>2. Covered(asked) \in Int /\ Covered(asked) <= usage[asked]
    BY <1>3 DEF Covered
  <2> QED BY <1>3, <1>4, <2>1, <2>2
<1>. QED
  BY <1>1, <1>5, <1>6, <1>7 DEF LiveInv

LEMMA FallBackStep ==
  ASSUME LiveInv, FallBack
  PROVE  LiveInv'
<1>1. /\ faults' \in Nat
      /\ UNCHANGED <<xrayVars, dbVars, today, tickVars, restarts, edits, obsVars>>
  BY DEF FallBack, Fault, LiveInv, AccountInv, TypeOK
<1>2. AccountInv'
  BY <1>1, FaultsAreNoBooks DEF LiveInv
<1>3. UnlistedIsZero'
  BY <1>1 DEF LiveInv, UnlistedIsZero, xrayVars
<1>4. /\ view \in {"counters", "cursor"} /\ view' = "stored" /\ shown' = stored
      /\ UNCHANGED <<asked, stored, seen, truth, spare, lost, same, quiet,
                     rows, usage, carried, surplus>>
  BY DEF FallBack, dbVars, obsVars, bookVars
<1>5. LiveTypeOK'
  BY <1>2, <1>4 DEF LiveInv, AccountInv, LiveTypeOK
<1>6. KnowsTheTruth' /\ StoredWithinMoved' /\ NothingLost'
  BY <1>4 DEF LiveInv, KnowsTheTruth, StoredWithinMoved, NothingLost
<1>. QED
  BY <1>2, <1>3, <1>5, <1>6 DEF LiveInv

(* A step of anybody else, with the request where it was.                  *)
LEMMA AroundStep ==
  ASSUME LiveInv, Around
  PROVE  LiveInv'
<1>1. TypeOK /\ Shape /\ Balanced /\ [Next]_vars
  BY DEF LiveInv, AccountInv, Around
<1>2. AccountInv'
  BY <1>1, BaseStep, BalanceStep DEF AccountInv
<1>3. UnlistedIsZero'
  BY <1>1, UnlistedStep DEF LiveInv
<1>4. /\ UNCHANGED <<view, asked, stored, seen, shown, truth, spare, lost>>
      /\ same' = (same /\ asked \in rows')
  BY DEF Around
<1>5. LiveTypeOK'
  <2>1. quiet' \in BOOLEAN /\ same' \in BOOLEAN
    BY DEF Around, LiveInv, LiveTypeOK
  <2> QED BY <1>2, <1>4, <2>1 DEF AccountInv, LiveInv, LiveTypeOK
<1>6. KnowsTheTruth'
  <2>. SUFFICES ASSUME quiet' PROVE KnowsTheTruth'
    BY DEF KnowsTheTruth
  <2>1. /\ quiet /\ asked \in rows' /\ usage'[asked] = usage[asked]
        /\ cursor'[asked] = cursor[asked]
    BY DEF Around
  <2>2. CASE view = "counters"
    <3>1. asked \in rows /\ stored = usage[asked] /\ BooksAtRest(asked)
      BY <2>1, <2>2 DEF LiveInv, KnowsTheTruth
    <3>2. BooksAtRest(asked)'
      <4>1. ASSUME NEW u \in rows, u = asked PROVE BooksAtRest(u)'
        BY <1>1, <2>1, <3>1, <4>1, StaysAtRest
      <4> QED BY <1>4, <3>1, <4>1 DEF BooksAtRest
    <3> QED BY <1>4, <2>1, <2>2, <3>1, <3>2 DEF KnowsTheTruth
  <2>3. CASE view # "counters"
    BY <1>4, <2>1, <2>3 DEF LiveInv, KnowsTheTruth
  <2> QED BY <2>2, <2>3
<1>7. ASSUME view # "none", same'
      PROVE  /\ asked \in rows /\ asked \in rows' /\ same /\ asked \in User
             /\ carried[asked] <= carried'[asked] /\ surplus[asked] <= surplus'[asked]
             /\ usage[asked] <= usage'[asked]
             /\ forfeit[asked] <= forfeit'[asked] /\ hidden[asked] <= hidden'[asked]
  <2>1. /\ asked \in rows /\ asked \in rows' /\ same /\ asked \in User
    BY <1>4, <1>7 DEF LiveInv, StoredWithinMoved, LiveTypeOK
  <2> QED BY <1>1, <2>1, MovedOnlyGrows, LossOnlyGrows DEF LiveInv
<1>8. /\ stored \in Nat /\ truth \in Nat /\ shown \in Nat /\ seen \in Reading
      /\ carried[asked] \in Nat /\ surplus[asked] \in Nat /\ usage[asked] \in Nat
      /\ forfeit[asked] \in Nat /\ hidden[asked] \in Nat
      /\ carried'[asked] \in Nat /\ surplus'[asked] \in Nat /\ usage'[asked] \in Nat
      /\ forfeit'[asked] \in Nat /\ hidden'[asked] \in Nat
  BY <1>2 DEF LiveInv, AccountInv, LiveTypeOK, TypeOK
<1>9. StoredWithinMoved'
  <2>1. ASSUME view # "none", same'
        PROVE  /\ asked \in rows' /\ stored \in 0 .. usage'[asked]
               /\ stored <= carried'[asked] + surplus'[asked]
    <3>1. stored \in 0 .. usage[asked] /\ stored <= carried[asked] + surplus[asked]
      BY <1>7, <2>1 DEF LiveInv, StoredWithinMoved
    <3> QED BY <1>7, <1>8, <2>1, <3>1
  <2>2. /\ view = "answer" => shown <= stored + Total(seen)
        /\ view = "stored" => shown = stored
    BY DEF LiveInv, StoredWithinMoved
  <2> QED BY <1>4, <2>1, <2>2 DEF StoredWithinMoved
<1>10. NothingLost'
  <2>1. ASSUME same', view = "cursor" PROVE Accounted(asked, truth, seen)'
    <3>1. same /\ asked \in rows /\ asked \in rows' /\ Accounted(asked, truth, seen)
      BY <1>7, <2>1 DEF LiveInv, NothingLost
    <3>2. ASSUME NEW u \in rows, NEW t \in Nat, NEW c \in Reading,
                 u = asked, t = truth, c = seen
          PROVE  Accounted(u, t, c)'
      BY <1>1, <3>1, <3>2, AccountedStep
    <3> QED BY <1>4, <1>8, <3>1, <3>2 DEF Accounted, Covered
  <2>2. ASSUME same', view = "answer"
        PROVE  truth + stored <= shown + usage'[asked] + forfeit'[asked] + hidden'[asked]
    <3>1. truth + stored <= shown + usage[asked] + forfeit[asked] + hidden[asked]
      BY <1>7, <2>2 DEF LiveInv, NothingLost
    <3> QED BY <1>7, <1>8, <2>2, <3>1
  <2> QED BY <1>4, <2>1, <2>2 DEF NothingLost
<1>. QED
  BY <1>2, <1>3, <1>5, <1>6, <1>9, <1>10 DEF LiveInv

LEMMA LiveUnchanged ==
  ASSUME LiveInv, UNCHANGED liveVars
  PROVE  LiveInv'
<1>1. /\ UNCHANGED vars
      /\ UNCHANGED <<view, asked, stored, seen, shown, truth, spare, lost, same, quiet>>
  BY DEF liveVars, viewVars
<1>2. AccountInv' /\ UnlistedIsZero' /\ TypeOK'
  BY <1>1, BooksStandStill
<1>3. UNCHANGED <<rows, usage, cursor, carried, surplus, forfeit, hidden, held, applied,
                  pc, prev, snap>>
  BY <1>1 DEF vars, dbVars, tickVars, obsVars, bookVars
<1>. QED
  BY <1>1, <1>2, <1>3 DEF LiveInv, LiveTypeOK, KnowsTheTruth, StoredWithinMoved, NothingLost,
     BooksAtRest, Accounted, Covered, Claiming

---------------------------------------------------------------------------
(* Theorems *)

(* Books, types and what a request under way knows, in every reachable     *)
(* state of the loop with a live request beside it.                        *)
THEOREM LiveInvariant == LiveSpec => []LiveInv
<1>1. LiveInv /\ [LiveNext]_liveVars => LiveInv'
  <2>1. LiveInv /\ LiveNext => LiveInv'
    BY GetUserStep, PerUserTrafficStep, AnswerStep, FallBackStep, AroundStep
       DEF LiveNext, adminGetUser
  <2> QED BY <2>1, LiveUnchanged
<1>. QED
  BY <1>1, LiveInitHolds, PTL DEF LiveSpec

(* Types: no answer is ever negative.                                      *)
THEOREM LiveTypeCorrectness == LiveSpec => []LiveTypeOK
<1>1. LiveInv => LiveTypeOK
  BY DEF LiveInv
<1>. QED
  BY <1>1, LiveInvariant, PTL

(* A request that begins with the row's books at rest, and under which no  *)
(* tick writes to the row, answers what the row had moved when xray was    *)
(* read, but for what restarts and failures had taken from or added to its *)
(* books by then, though it made three calls and held no lock.             *)
THEOREM ExactWhenQuietTheorem == LiveSpec => []ExactWhenQuiet
<1>1. LiveInv => ExactWhenQuiet
  BY DEF LiveInv, KnowsTheTruth, ExactWhenQuiet
<1>. QED
  BY <1>1, LiveInvariant, PTL

(* Whatever interleaves, the answer exceeds what the row may be billed by  *)
(* less than one xray lifetime of its traffic.                             *)
THEOREM OvershootTheorem == LiveSpec => []OvershootBounded
<1>1. LiveInv => OvershootBounded
  <2>. SUFFICES ASSUME LiveInv, view \in {"answer", "stored"}, same
                PROVE  shown <= carried[asked] + surplus[asked] + Total(seen)
    BY DEF OvershootBounded
  <2>1. /\ stored <= carried[asked] + surplus[asked]
        /\ shown <= stored + Total(seen) \/ shown = stored
    BY DEF LiveInv, StoredWithinMoved
  <2>2. /\ stored \in Nat /\ shown \in Nat /\ Total(seen) \in Nat
        /\ carried[asked] \in Nat /\ surplus[asked] \in Nat
    BY ReadingFacts DEF LiveInv, LiveTypeOK, TypeOK
  <2>. QED
    BY <2>1, <2>2
<1>. QED
  BY <1>1, LiveInvariant, PTL

(* Whatever interleaves, a byte moved when xray was read and missing in    *)
(* the answer has been billed since the row was read, or is named as lost. *)
THEOREM UndershootTheorem == LiveSpec => []UndershootBounded
<1>1. LiveInv => UndershootBounded
  <2>. SUFFICES ASSUME LiveInv, view = "answer", same
                PROVE  truth - shown <= usage[asked] - stored + forfeit[asked] + hidden[asked]
    BY DEF UndershootBounded
  <2>1. truth + stored <= shown + usage[asked] + forfeit[asked] + hidden[asked]
    BY DEF LiveInv, NothingLost
  <2>2. /\ stored \in Nat /\ shown \in Nat /\ truth \in Nat /\ usage[asked] \in Nat
        /\ forfeit[asked] \in Nat /\ hidden[asked] \in Nat
    BY DEF LiveInv, LiveTypeOK, TypeOK
  <2>. QED
    BY <2>1, <2>2
<1>. QED
  BY <1>1, LiveInvariant, PTL
===========================================================================
