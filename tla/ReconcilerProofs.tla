------------------------- MODULE ReconcilerProofs -------------------------
(***************************************************************************)
(* Proofs about Reconciler for every set of users, every plan, every bound *)
(* and every pattern of failures.                                          *)
(***************************************************************************)
EXTENDS Reconciler, TLAPS

---------------------------------------------------------------------------
(* Arithmetic of a reset-detecting delta *)

LEMMA DeltaFacts ==
  ASSUME NEW p \in Nat, NEW c \in Nat
  PROVE  /\ delta(p, c) \in Nat
         /\ delta(p, c) <= c
         /\ delta(p, 0) = 0
         /\ delta(0, c) = c
         /\ delta(p, p) = 0
BY DEF delta

(* Passing through an intermediate reading never bills less.               *)
LEMMA DeltaTriangle ==
  ASSUME NEW p \in Nat, NEW m \in Nat, NEW c \in Nat
  PROVE  delta(p, c) <= delta(p, m) + delta(m, c)
BY DEF delta

(* k more bytes are either billable or hidden by an overtaken cursor.      *)
LEMMA DeltaGrows ==
  ASSUME NEW p \in Nat, NEW c \in Nat, NEW k \in Nat \ {0}
  PROVE  /\ Overtaken(p, c, k) \in Nat
         /\ delta(p, c + k) + Overtaken(p, c, k) = delta(p, c) + k
<1>1. CASE c >= p
  BY <1>1 DEF delta, Overtaken
<1>2. CASE c < p /\ p <= c + k
  BY <1>2 DEF delta, Overtaken
<1>3. CASE c < p /\ p > c + k
  BY <1>3 DEF delta, Overtaken
<1>. QED
  BY <1>1, <1>2, <1>3

(* The same facts for readings, which is all the steps below use.          *)
LEMMA ReadingFacts ==
  ASSUME NEW p \in Reading, NEW c \in Reading
  PROVE  /\ DeltaOf(p, c) \in Nat
         /\ Total(c) \in Nat
         /\ DeltaOf(p, c) <= Total(c)
         /\ DeltaOf(p, Zero) = 0
         /\ DeltaOf(Zero, c) = Total(c)
         /\ DeltaOf(p, p) = 0
         /\ Zero \in Reading
<1>1. /\ p.up \in Nat /\ p.down \in Nat /\ c.up \in Nat /\ c.down \in Nat
      /\ Zero \in Reading /\ Zero.up = 0 /\ Zero.down = 0
  BY DEF Reading, Zero
<1>2. /\ delta(p.up, c.up) \in Nat /\ delta(p.up, c.up) <= c.up
      /\ delta(p.up, 0) = 0 /\ delta(0, c.up) = c.up /\ delta(p.up, p.up) = 0
  BY <1>1, DeltaFacts
<1>3. /\ delta(p.down, c.down) \in Nat /\ delta(p.down, c.down) <= c.down
      /\ delta(p.down, 0) = 0 /\ delta(0, c.down) = c.down
      /\ delta(p.down, p.down) = 0
  BY <1>1, DeltaFacts
<1>. QED
  BY <1>1, <1>2, <1>3 DEF Total, DeltaOf

LEMMA ReadingTriangle ==
  ASSUME NEW p \in Reading, NEW m \in Reading, NEW c \in Reading
  PROVE  DeltaOf(p, c) <= DeltaOf(p, m) + DeltaOf(m, c)
<1>1. delta(p.up, c.up) <= delta(p.up, m.up) + delta(m.up, c.up)
  BY DeltaTriangle DEF Reading
<1>2. delta(p.down, c.down) <= delta(p.down, m.down) + delta(m.down, c.down)
  BY DeltaTriangle DEF Reading
<1>3. /\ delta(p.up, c.up) \in Nat /\ delta(p.up, m.up) \in Nat
      /\ delta(m.up, c.up) \in Nat /\ delta(p.down, c.down) \in Nat
      /\ delta(p.down, m.down) \in Nat /\ delta(m.down, c.down) \in Nat
  BY DeltaFacts DEF Reading
<1>. QED
  BY <1>1, <1>2, <1>3 DEF DeltaOf

(* What a transfer does to the delta against any earlier reading, and, with *)
(* what it hides, to the delta against the cursor.                         *)
LEMMA TransferFacts ==
  ASSUME TypeOK, NEW u \in User, NEW k \in Chunk, Transfer(u, k)
  PROVE  \E r \in Reading, h \in Nat :
           /\ Moved(u, r, h)
           /\ Total(r) = Total(counter[u]) + k
           /\ DeltaOf(cursor[u], r) + h = DeltaOf(cursor[u], counter[u]) + k
           /\ \A p \in Reading : DeltaOf(p, r) <= DeltaOf(p, counter[u]) + k
<1>. DEFINE c == counter[u]
            p0 == cursor[u]
<1>. USE BytesAssumption
<1>1. /\ c \in Reading /\ p0 \in Reading /\ k \in Nat \ {0}
      /\ c.up \in Nat /\ c.down \in Nat /\ p0.up \in Nat /\ p0.down \in Nat
  BY DEF TypeOK, Reading
<1>1a. c.up + k \in Nat /\ c.down + k \in Nat
  BY <1>1
<1>2. CASE Moved(u, [c EXCEPT !.up = @ + k], Overtaken(p0.up, c.up, k))
  <2>. DEFINE r == [c EXCEPT !.up = @ + k]
              h == Overtaken(p0.up, c.up, k)
  <2>1. r \in Reading /\ r.up = c.up + k /\ r.down = c.down
    BY <1>1 DEF Reading
  <2>2. \A p \in Reading : DeltaOf(p, r) <= DeltaOf(p, c) + k
    <3>. SUFFICES ASSUME NEW p \in Reading PROVE DeltaOf(p, r) <= DeltaOf(p, c) + k
      OBVIOUS
    <3>1. p.up \in Nat /\ p.down \in Nat
      BY DEF Reading
    <3>2. Overtaken(p.up, c.up, k) \in Nat
          /\ delta(p.up, c.up + k) + Overtaken(p.up, c.up, k) = delta(p.up, c.up) + k
      BY <1>1, <3>1, DeltaGrows
    <3>3. /\ delta(p.up, c.up + k) \in Nat /\ delta(p.up, c.up) \in Nat
          /\ delta(p.down, c.down) \in Nat
      BY <1>1a, <1>1, <3>1, DeltaFacts
    <3>. QED
      BY <1>1, <2>1, <3>2, <3>3 DEF DeltaOf
  <2>3. h \in Nat /\ delta(p0.up, c.up + k) + h = delta(p0.up, c.up) + k
    BY <1>1, DeltaGrows
  <2>4. /\ delta(p0.up, c.up + k) \in Nat /\ delta(p0.up, c.up) \in Nat
        /\ delta(p0.down, c.down) \in Nat
    BY <1>1a, <1>1, DeltaFacts
  <2>5. DeltaOf(p0, r) + h = DeltaOf(p0, c) + k
    BY <1>1, <2>1, <2>3, <2>4 DEF DeltaOf
  <2>6. Total(r) = Total(c) + k
    BY <1>1, <2>1 DEF Total
  <2>. QED
    BY <1>2, <2>1, <2>2, <2>3, <2>5, <2>6
<1>3. CASE Moved(u, [c EXCEPT !.down = @ + k], Overtaken(p0.down, c.down, k))
  <2>. DEFINE r == [c EXCEPT !.down = @ + k]
              h == Overtaken(p0.down, c.down, k)
  <2>1. r \in Reading /\ r.up = c.up /\ r.down = c.down + k
    BY <1>1 DEF Reading
  <2>2. \A p \in Reading : DeltaOf(p, r) <= DeltaOf(p, c) + k
    <3>. SUFFICES ASSUME NEW p \in Reading PROVE DeltaOf(p, r) <= DeltaOf(p, c) + k
      OBVIOUS
    <3>1. p.up \in Nat /\ p.down \in Nat
      BY DEF Reading
    <3>2. Overtaken(p.down, c.down, k) \in Nat
          /\ delta(p.down, c.down + k) + Overtaken(p.down, c.down, k)
               = delta(p.down, c.down) + k
      BY <1>1, <3>1, DeltaGrows
    <3>3. /\ delta(p.down, c.down + k) \in Nat /\ delta(p.down, c.down) \in Nat
          /\ delta(p.up, c.up) \in Nat
      BY <1>1a, <1>1, <3>1, DeltaFacts
    <3>. QED
      BY <1>1, <2>1, <3>2, <3>3 DEF DeltaOf
  <2>3. h \in Nat /\ delta(p0.down, c.down + k) + h = delta(p0.down, c.down) + k
    BY <1>1, DeltaGrows
  <2>4. /\ delta(p0.down, c.down + k) \in Nat /\ delta(p0.down, c.down) \in Nat
        /\ delta(p0.up, c.up) \in Nat
    BY <1>1a, <1>1, DeltaFacts
  <2>5. DeltaOf(p0, r) + h = DeltaOf(p0, c) + k
    BY <1>1, <2>1, <2>3, <2>4 DEF DeltaOf
  <2>6. Total(r) = Total(c) + k
    BY <1>1, <2>1 DEF Total
  <2>. QED
    BY <1>3, <2>1, <2>2, <2>3, <2>5, <2>6
<1>. QED
  BY <1>2, <1>3 DEF Transfer

---------------------------------------------------------------------------
(* Types and the shape of a tick *)

LEMMA InitBase == Init => TypeOK /\ Shape
<1>. SUFFICES ASSUME Init PROVE TypeOK /\ Shape
  OBVIOUS
<1>1. Zero \in Reading
  BY DEF Zero, Reading
<1>2. TypeOK
  BY <1>1, BoundAssumption DEF Init, TypeOK, Phase, NoDate
<1>3. Shape
  BY DEF Init, Shape, Visiting, Claiming
<1>. QED
  BY <1>2, <1>3

LEMMA BaseStep == TypeOK /\ Shape /\ [Next]_vars => TypeOK' /\ Shape'
<1>. SUFFICES ASSUME TypeOK, Shape, [Next]_vars PROVE TypeOK' /\ Shape'
  OBVIOUS
<1>. USE BoundAssumption, BytesAssumption, ReadingFacts
         DEF TypeOK, Shape, Visiting, Claiming, Phase,
             xrayVars, dbVars, tickVars, boundVars, obsVars, bookVars
<1>1. ASSUME NEW u \in User, Connect(u) PROVE TypeOK' /\ Shape'
  BY <1>1 DEF Connect
<1>2. ASSUME NEW u \in User, NEW k \in Chunk, Transfer(u, k) PROVE TypeOK' /\ Shape'
  <2>1. TypeOK'
    <3>1. PICK r \in Reading, h \in Nat :
            Moved(u, r, h) /\ Total(r) = Total(counter[u]) + k
      BY <1>2, TransferFacts
    <3>2. carried[u] + Total(r) - Total(counter[u]) \in Nat
      BY <3>1
    <3>. QED
      BY <3>1, <3>2 DEF Moved
  <2>2. Shape'
    BY <1>2 DEF Transfer, Moved
  <2>. QED
    BY <2>1, <2>2
<1>3. ASSUME XrayRestart PROVE TypeOK' /\ Shape'
  BY <1>3 DEF XrayRestart, Unbilled
<1>4. ASSUME NEW u \in User, CreateUser(u) PROVE TypeOK' /\ Shape'
  BY <1>4 DEF CreateUser, OpenRow, Edit, NoDate, Total, InFlight
<1>5. ASSUME NEW u \in User, RestoreUser(u) PROVE TypeOK' /\ Shape'
  BY <1>5 DEF RestoreUser, OpenRow, Edit, NoDate, Total, InFlight
<1>6. ASSUME NEW u \in User, PatchUser(u) PROVE TypeOK' /\ Shape'
  BY <1>6 DEF PatchUser, Edit
<1>7. ASSUME NEW u \in User, DeleteUser(u) PROVE TypeOK' /\ Shape'
  BY <1>7 DEF DeleteUser, Drop, Edit, NoDate
<1>8. ASSUME NextDay PROVE TypeOK' /\ Shape'
  BY <1>8 DEF NextDay
<1>9. ASSUME QueryAllUserTraffic PROVE TypeOK' /\ Shape'
  BY <1>9 DEF QueryAllUserTraffic
<1>10. ASSUME NEW u \in User, UserExists(u) PROVE TypeOK' /\ Shape'
  BY <1>10 DEF UserExists
<1>11. ASSUME NEW u \in User, GetCursor(u) PROVE TypeOK' /\ Shape'
  BY <1>11 DEF GetCursor
<1>12. ASSUME NEW u \in User, AddUsage(u) PROVE TypeOK' /\ Shape'
  BY <1>12 DEF AddUsage
<1>13. ASSUME NEW u \in User, TouchLastOnline(u) PROVE TypeOK' /\ Shape'
  BY <1>13 DEF TouchLastOnline
<1>14. ASSUME NEW u \in User, UpsertCursor(u) PROVE TypeOK' /\ Shape'
  <2>1. TypeOK'
    <3>1. grow - applied \in Nat
      BY <1>14
    <3>2. \A n \in Nat : n + grow - applied \in Nat
      BY <3>1
    <3>3. hidden' \in [User -> Nat]
      <4>1. hidden' = IF u \in rows THEN [hidden EXCEPT ![u] = @ + grow - applied]
                      ELSE hidden
        BY <1>14 DEF UpsertCursor
      <4>2. hidden \in [User -> Nat] /\ hidden[u] + grow - applied \in Nat
        BY <3>2
      <4>. QED
        BY <4>1, <4>2
    <3>. QED
      BY <1>14, <3>3 DEF UpsertCursor, LeaveUser
  <2>2. Shape'
    BY <1>14 DEF UpsertCursor, LeaveUser
  <2>. QED
    BY <2>1, <2>2
<1>15. ASSUME EndScan PROVE TypeOK' /\ Shape'
  BY <1>15 DEF EndScan
<1>16. ASSUME AddDailyTraffic PROVE TypeOK' /\ Shape'
  BY <1>16 DEF AddDailyTraffic
<1>17. ASSUME DeleteDisabledOverLimitOrExpired PROVE TypeOK' /\ Shape'
  BY <1>17 DEF DeleteDisabledOverLimitOrExpired, Drop, NoDate
<1>18. ASSUME NEW u \in User, UserExistsFails(u) PROVE TypeOK' /\ Shape'
  BY <1>18 DEF UserExistsFails, Fault
<1>19. ASSUME NEW u \in User, GetCursorFails(u) PROVE TypeOK' /\ Shape'
  BY <1>19 DEF GetCursorFails, Fault
<1>20. ASSUME NEW u \in User, AddUsageFails(u) PROVE TypeOK' /\ Shape'
  BY <1>20 DEF AddUsageFails, Fault
<1>21. ASSUME NEW u \in User, TouchLastOnlineFails(u) PROVE TypeOK' /\ Shape'
  BY <1>21 DEF TouchLastOnlineFails, Fault
<1>22. ASSUME NEW u \in User, UpsertCursorFails(u) PROVE TypeOK' /\ Shape'
  BY <1>22 DEF UpsertCursorFails, LeaveUser, BilledTwice, Fault
<1>23. ASSUME AddDailyTrafficFails PROVE TypeOK' /\ Shape'
  BY <1>23 DEF AddDailyTrafficFails, Fault
<1>24. ASSUME PurgeFails PROVE TypeOK' /\ Shape'
  BY <1>24 DEF PurgeFails, Fault, NoDate
<1>25. ASSUME Crash PROVE TypeOK' /\ Shape'
  BY <1>25 DEF Crash, BilledTwice, Fault, NoDate
<1>26. ASSUME UNCHANGED vars PROVE TypeOK' /\ Shape'
  BY <1>26 DEF vars
<1>. QED
  BY <1>1, <1>2, <1>3, <1>4, <1>5, <1>6, <1>7, <1>8, <1>9, <1>10, <1>11, <1>12, <1>13,
     <1>14, <1>15, <1>16, <1>17, <1>18, <1>19, <1>20, <1>21, <1>22, <1>23, <1>24, <1>25, <1>26
     DEF Next, tick, tickFails, VisitUser, VisitFails, Handlers, Xray

---------------------------------------------------------------------------
(* The books balance *)

LEMMA InitBalanced == Init => Balanced
<1>. SUFFICES ASSUME Init, NEW v \in rows PROVE NoExcess(v) /\ NoShortage(v)
  BY DEF Balanced
<1>1. Zero \in Reading
  BY DEF Zero, Reading
<1>2. DeltaOf(Zero, Zero) = 0
  BY <1>1, ReadingFacts
<1>. QED
  BY <1>2 DEF Init, NoExcess, NoShortage, Covered, Unbilled, InFlight

(* The arithmetic of one user's readings, gathered for the steps below.    *)
LEMMA UserFacts ==
  ASSUME TypeOK, NEW v \in User
  PROVE  /\ cursor[v] \in Reading /\ snap[v] \in Reading /\ counter[v] \in Reading
         /\ prev \in Reading
         /\ usage[v] \in Nat /\ carried[v] \in Nat /\ surplus[v] \in Nat
         /\ forfeit[v] \in Nat /\ hidden[v] \in Nat
         /\ applied \in Nat /\ grow \in Nat
         /\ DeltaOf(cursor[v], counter[v]) \in Nat
         /\ DeltaOf(snap[v], counter[v]) \in Nat
         /\ DeltaOf(cursor[v], snap[v]) \in Nat
         /\ DeltaOf(prev, snap[v]) \in Nat /\ DeltaOf(prev, counter[v]) \in Nat
         /\ Total(snap[v]) \in Nat /\ Total(counter[v]) \in Nat
         /\ DeltaOf(prev, counter[v])
              <= DeltaOf(prev, snap[v]) + DeltaOf(snap[v], counter[v])
         /\ DeltaOf(cursor[v], counter[v])
              <= DeltaOf(cursor[v], snap[v]) + DeltaOf(snap[v], counter[v])
         /\ DeltaOf(cursor[v], snap[v]) <= Total(snap[v])
         /\ DeltaOf(prev, snap[v]) <= Total(snap[v])
         /\ DeltaOf(snap[v], counter[v]) <= Total(counter[v])
         /\ DeltaOf(Zero, snap[v]) = Total(snap[v])
         /\ DeltaOf(Zero, counter[v]) = Total(counter[v])
<1>1. /\ cursor[v] \in Reading /\ snap[v] \in Reading /\ counter[v] \in Reading
      /\ prev \in Reading
  BY DEF TypeOK
<1>2. /\ usage[v] \in Nat /\ carried[v] \in Nat /\ surplus[v] \in Nat
      /\ forfeit[v] \in Nat /\ hidden[v] \in Nat
      /\ applied \in Nat /\ grow \in Nat
  BY DEF TypeOK
<1>3. /\ DeltaOf(cursor[v], counter[v]) \in Nat
      /\ DeltaOf(snap[v], counter[v]) \in Nat
      /\ DeltaOf(cursor[v], snap[v]) \in Nat
      /\ DeltaOf(prev, snap[v]) \in Nat /\ DeltaOf(prev, counter[v]) \in Nat
      /\ Total(snap[v]) \in Nat /\ Total(counter[v]) \in Nat
  BY <1>1, ReadingFacts
<1>4. /\ DeltaOf(cursor[v], snap[v]) <= Total(snap[v])
      /\ DeltaOf(prev, snap[v]) <= Total(snap[v])
      /\ DeltaOf(snap[v], counter[v]) <= Total(counter[v])
      /\ DeltaOf(Zero, snap[v]) = Total(snap[v])
      /\ DeltaOf(Zero, counter[v]) = Total(counter[v])
  BY <1>1, ReadingFacts
<1>5. /\ DeltaOf(prev, counter[v])
           <= DeltaOf(prev, snap[v]) + DeltaOf(snap[v], counter[v])
      /\ DeltaOf(cursor[v], counter[v])
           <= DeltaOf(cursor[v], snap[v]) + DeltaOf(snap[v], counter[v])
  BY <1>1, ReadingTriangle
<1>. QED
  BY <1>1, <1>2, <1>3, <1>4, <1>5

(* A row opened now owes nothing, and whatever the tick at hand may still  *)
(* do to it is within its surplus and its reserve.                         *)
LEMMA OpenBalanced ==
  ASSUME TypeOK, Shape, Balanced,
         NEW u \in User, NEW p \in Plan, NEW s \in Nat, NEW used \in Nat,
         OpenRow(u, p, s, used), NEW v \in rows'
  PROVE  (NoExcess(v) /\ NoShortage(v))'
<1>. v \in User
  BY DEF TypeOK, OpenRow
<1>1. UNCHANGED <<counter, snap, todo, held, prev, grow, pc>>
  BY DEF OpenRow, xrayVars, tickVars
<1>2. CASE v # u
  <2>1. /\ v \in rows /\ UNCHANGED <<usage[v], cursor[v], carried[v], forfeit[v],
                                     hidden[v], surplus[v]>>
    BY <1>2 DEF TypeOK, OpenRow
  <2>2. v \in held => applied' = applied
    BY <1>2 DEF Shape, Visiting, OpenRow
  <2>. QED
    BY <1>1, <2>1, <2>2 DEF Balanced, NoExcess, NoShortage, Covered, Unbilled,
       InFlight, Claim, Claiming
<1>3. CASE v = u
  <2>1. /\ usage'[v] = used /\ carried'[v] = used /\ cursor'[v] = Zero
        /\ forfeit'[v] = 0
        /\ hidden'[v] = IF v \in held THEN Total(snap[v]) ELSE 0
        /\ surplus'[v] = Total(counter[v]) + IF InFlight(v) THEN Total(snap[v]) ELSE 0
        /\ v \in held => applied' = 0
    BY <1>3 DEF TypeOK, Shape, OpenRow
  <2>2. v \in held /\ Claiming => grow <= Total(snap[v])
    BY UserFacts DEF Shape
  <2>. QED
    BY <1>1, <2>1, <2>2, UserFacts DEF NoExcess, NoShortage, Covered, Unbilled,
       InFlight, Claim, Claiming
<1>. QED
  BY <1>2, <1>3

LEMMA BalanceStep ==
  ASSUME TypeOK, Shape, Balanced, [Next]_vars
  PROVE  Balanced'
<1>. SUFFICES ASSUME NEW v \in User, v \in rows'
              PROVE  (NoExcess(v) /\ NoShortage(v))'
  BY BaseStep DEF TypeOK, Balanced
<1>1. /\ cursor[v] \in Reading /\ snap[v] \in Reading /\ counter[v] \in Reading
      /\ prev \in Reading
      /\ usage[v] \in Nat /\ carried[v] \in Nat /\ surplus[v] \in Nat
      /\ forfeit[v] \in Nat /\ hidden[v] \in Nat
      /\ applied \in Nat /\ grow \in Nat
      /\ DeltaOf(cursor[v], counter[v]) \in Nat
      /\ DeltaOf(snap[v], counter[v]) \in Nat
      /\ DeltaOf(cursor[v], snap[v]) \in Nat
      /\ DeltaOf(prev, snap[v]) \in Nat /\ DeltaOf(prev, counter[v]) \in Nat
      /\ Total(snap[v]) \in Nat /\ Total(counter[v]) \in Nat
      /\ DeltaOf(prev, counter[v])
           <= DeltaOf(prev, snap[v]) + DeltaOf(snap[v], counter[v])
      /\ DeltaOf(cursor[v], counter[v])
           <= DeltaOf(cursor[v], snap[v]) + DeltaOf(snap[v], counter[v])
      /\ DeltaOf(cursor[v], snap[v]) <= Total(snap[v])
      /\ DeltaOf(prev, snap[v]) <= Total(snap[v])
      /\ DeltaOf(snap[v], counter[v]) <= Total(counter[v])
      /\ DeltaOf(Zero, snap[v]) = Total(snap[v])
      /\ DeltaOf(Zero, counter[v]) = Total(counter[v])
  BY UserFacts
<1>2. ASSUME NEW u \in User, Connect(u)
      PROVE  (NoExcess(v) /\ NoShortage(v))'
  BY <1>1, <1>2 DEF TypeOK, Shape, Balanced, NoExcess, NoShortage, Covered, Unbilled,
     InFlight, Claim, Claiming, Visiting, xrayVars, dbVars, tickVars, obsVars, bookVars,
     Connect
<1>3. ASSUME NEW u \in User, NEW k \in Chunk, Transfer(u, k)
      PROVE  (NoExcess(v) /\ NoShortage(v))'
  <2>1. PICK r \in Reading, h \in Nat :
          /\ Moved(u, r, h)
          /\ Total(r) = Total(counter[u]) + k
          /\ DeltaOf(cursor[u], r) + h = DeltaOf(cursor[u], counter[u]) + k
          /\ \A p \in Reading : DeltaOf(p, r) <= DeltaOf(p, counter[u]) + k
    BY <1>3, TransferFacts
  <2>2. CASE v # u
    BY <1>1, <2>1, <2>2 DEF TypeOK, Balanced, NoExcess, NoShortage, Covered, Unbilled,
       InFlight, Claim, Claiming, dbVars, tickVars, Moved
  <2>3. CASE v = u
    <3>1. /\ counter'[v] = r
          /\ carried'[v] = carried[v] + k
          /\ hidden'[v] = hidden[v] + h
          /\ UNCHANGED <<rows, usage, cursor, tickVars, applied, forfeit, surplus>>
      BY <1>1, <2>1, <2>3, BytesAssumption DEF TypeOK, dbVars, Moved
    <3>2. /\ DeltaOf(cursor[v], r) + h = DeltaOf(cursor[v], counter[v]) + k
          /\ DeltaOf(snap[v], r) <= DeltaOf(snap[v], counter[v]) + k
          /\ DeltaOf(cursor[v], r) \in Nat /\ DeltaOf(snap[v], r) \in Nat
          /\ k \in Nat
      BY <1>1, <2>1, <2>3, ReadingFacts, BytesAssumption
    <3>. QED
      BY <1>1, <3>1, <3>2 DEF TypeOK, Balanced, NoExcess, NoShortage, Covered,
         Unbilled, InFlight, Claim, Claiming, tickVars
  <2>. QED
    BY <2>2, <2>3
<1>4. ASSUME XrayRestart
      PROVE  (NoExcess(v) /\ NoShortage(v))'
  <2>1. /\ counter'[v] = Zero
        /\ forfeit'[v] = forfeit[v] + DeltaOf(cursor[v], counter[v])
        /\ UNCHANGED <<rows, usage, cursor, carried, tickVars, applied, hidden, surplus>>
    BY <1>4 DEF dbVars, XrayRestart, Unbilled
  <2>2. DeltaOf(cursor[v], Zero) = 0 /\ DeltaOf(snap[v], Zero) = 0
    BY <1>1, ReadingFacts
  <2>. QED
    BY <1>1, <2>1, <2>2 DEF TypeOK, Balanced, NoExcess, NoShortage, Covered,
       Unbilled, InFlight, Claim, Claiming, tickVars
<1>5. ASSUME NEW u \in User, CreateUser(u)
      PROVE  (NoExcess(v) /\ NoShortage(v))'
  <2>1. PICK p \in Plan, s \in Nat, used \in Nat : OpenRow(u, p, s, used)
    BY <1>5, BytesAssumption DEF TypeOK, CreateUser, NoDate
  <2>. QED
    BY <1>1, <2>1, OpenBalanced
<1>6. ASSUME NEW u \in User, RestoreUser(u)
      PROVE  (NoExcess(v) /\ NoShortage(v))'
  <2>1. PICK p \in Plan, s \in Nat, used \in Nat : OpenRow(u, p, s, used)
    BY <1>6, BytesAssumption DEF TypeOK, RestoreUser, NoDate
  <2>. QED
    BY <1>1, <2>1, OpenBalanced
<1>7. ASSUME NEW u \in User, PatchUser(u)
      PROVE  (NoExcess(v) /\ NoShortage(v))'
  BY <1>1, <1>7 DEF TypeOK, Shape, Balanced, NoExcess, NoShortage, Covered, Unbilled,
     InFlight, Claim, Claiming, Visiting, xrayVars, dbVars, tickVars, obsVars, bookVars,
     PatchUser
<1>8. ASSUME NEW u \in User, DeleteUser(u)
      PROVE  (NoExcess(v) /\ NoShortage(v))'
  BY <1>1, <1>8 DEF TypeOK, Shape, Balanced, NoExcess, NoShortage, Covered, Unbilled,
     InFlight, Claim, Claiming, Visiting, xrayVars, dbVars, tickVars, obsVars, bookVars,
     DeleteUser, Drop
<1>9. ASSUME NextDay
      PROVE  (NoExcess(v) /\ NoShortage(v))'
  BY <1>1, <1>9 DEF TypeOK, Shape, Balanced, NoExcess, NoShortage, Covered, Unbilled,
     InFlight, Claim, Claiming, Visiting, xrayVars, dbVars, tickVars, obsVars, bookVars,
     NextDay
<1>10. ASSUME QueryAllUserTraffic
      PROVE  (NoExcess(v) /\ NoShortage(v))'
  <2>1. /\ UNCHANGED <<counter, rows, usage, cursor, held, carried, applied,
                       forfeit, hidden, surplus>>
        /\ held = {} /\ ~Claiming' /\ applied = 0
        /\ v \in todo' => snap'[v] = counter[v]
    BY <1>10 DEF TypeOK, Shape, Visiting, Claiming, xrayVars, dbVars, obsVars, bookVars,
                QueryAllUserTraffic
  <2>2. DeltaOf(counter[v], counter[v]) = 0
    BY <1>1, ReadingFacts
  <2>. QED
    BY <1>1, <2>1, <2>2 DEF TypeOK, Balanced, NoExcess, NoShortage, Covered,
       Unbilled, InFlight, Claim
<1>11. ASSUME NEW u \in User, UserExists(u)
      PROVE  (NoExcess(v) /\ NoShortage(v))'
  BY <1>1, <1>11 DEF TypeOK, Shape, Balanced, NoExcess, NoShortage, Covered, Unbilled,
     InFlight, Claim, Claiming, Visiting, xrayVars, dbVars, tickVars, obsVars, bookVars,
     UserExists
<1>12. ASSUME NEW u \in User, GetCursor(u)
      PROVE  (NoExcess(v) /\ NoShortage(v))'
  <2>1. /\ UNCHANGED <<xrayVars, dbVars, obsVars, snap, todo, held>>
        /\ ~Claiming /\ applied = 0 /\ held = {u}
        /\ prev' = cursor[u] /\ grow' = DeltaOf(cursor[u], snap[u])
        /\ Claiming'
    BY <1>12 DEF TypeOK, Shape, Claiming, GetCursor
  <2>. QED
    BY <1>1, <2>1 DEF TypeOK, Balanced, NoExcess, NoShortage, Covered,
       Unbilled, InFlight, Claim, xrayVars, dbVars, obsVars, bookVars
<1>13. ASSUME NEW u \in User, AddUsage(u)
      PROVE  (NoExcess(v) /\ NoShortage(v))'
  <2>1. /\ UNCHANGED <<counter, rows, cursor, carried, forfeit, hidden, surplus,
                       snap, todo, held, prev, grow>>
        /\ held = {u} /\ applied = 0 /\ Claiming /\ Claiming'
        /\ v # u => usage'[v] = usage[v]
        /\ v = u => usage'[v] = usage[v] + grow /\ applied' = grow
    BY <1>13, <1>1 DEF TypeOK, Shape, Claiming, xrayVars, AddUsage
  <2>2. grow \in Nat
    BY DEF TypeOK
  <2>3. CASE v # u
    BY <1>1, <2>1, <2>3 DEF Balanced, NoExcess, NoShortage, Covered,
       Unbilled, InFlight, Claim
  <2>4. CASE v = u
    BY <1>1, <2>1, <2>2, <2>4 DEF Balanced, NoExcess, NoShortage, Covered,
       Unbilled, InFlight, Claim
  <2>. QED
    BY <2>3, <2>4
<1>14. ASSUME NEW u \in User, TouchLastOnline(u)
      PROVE  (NoExcess(v) /\ NoShortage(v))'
  BY <1>1, <1>14 DEF TypeOK, Shape, Balanced, NoExcess, NoShortage, Covered, Unbilled,
     InFlight, Claim, Claiming, Visiting, xrayVars, dbVars, tickVars, obsVars, bookVars,
     TouchLastOnline
<1>15. ASSUME NEW u \in User, UpsertCursor(u)
      PROVE  (NoExcess(v) /\ NoShortage(v))'
  <2>1. /\ UNCHANGED <<counter, rows, usage, carried, forfeit, surplus, snap, todo>>
        /\ held = {u} /\ held' = {} /\ Claiming /\ ~Claiming' /\ applied' = 0
        /\ applied \in Nat /\ grow \in Nat /\ applied <= grow
        /\ grow = DeltaOf(prev, snap[u])
    BY <1>15 DEF TypeOK, Shape, Claiming, xrayVars, UpsertCursor, LeaveUser
  <2>2. CASE v # u
    <3>1. cursor'[v] = cursor[v] /\ hidden'[v] = hidden[v]
      BY <1>15, <2>2 DEF TypeOK, UpsertCursor
    <3>. QED
      BY <1>1, <2>1, <2>2, <3>1 DEF Balanced, NoExcess, NoShortage, Covered,
         Unbilled, InFlight, Claim
  <2>3. CASE v = u
    <3>1. cursor'[v] = snap[v] /\ hidden'[v] = hidden[v] + grow - applied
      BY <1>15, <2>1, <2>3 DEF TypeOK, UpsertCursor
    <3>2. DeltaOf(snap[v], snap[v]) = 0
      BY <1>1, ReadingFacts
    <3>3. NoExcess(v)'
      BY <1>1, <2>1, <2>3, <3>1, <3>2 DEF Balanced, NoExcess, Covered,
         Unbilled, InFlight, Claim
    <3>4. /\ carried[v] <= usage[v] - applied + DeltaOf(cursor[v], counter[v])
                             + forfeit[v] + hidden[v]
          /\ cursor[v] # prev =>
               carried[v] + Total(snap[v])
                 <= usage[v] - applied + DeltaOf(cursor[v], counter[v])
                      + forfeit[v] + hidden[v]
      BY <2>1, <2>3 DEF Balanced, NoShortage, Covered, Unbilled
    <3>5. carried[v] <= usage[v] + DeltaOf(snap[v], counter[v])
                          + forfeit[v] + hidden[v] + grow - applied
      <4>1. CASE cursor[v] = prev
        <5>1. DeltaOf(cursor[v], counter[v]) <= grow + DeltaOf(snap[v], counter[v])
          BY <1>1, <2>1, <2>3, <4>1
        <5>. QED
          BY <1>1, <3>4, <5>1
      <4>2. CASE cursor[v] # prev
        <5>1. DeltaOf(cursor[v], counter[v])
                <= Total(snap[v]) + DeltaOf(snap[v], counter[v])
          BY <1>1
        <5>. QED
          BY <1>1, <3>4, <4>2, <5>1
      <4>. QED
        BY <4>1, <4>2
    <3>6. NoShortage(v)'
      BY <1>1, <2>1, <3>1, <3>5 DEF NoShortage, Covered, Unbilled
    <3>. QED
      BY <3>3, <3>6
  <2>. QED
    BY <2>2, <2>3
<1>16. ASSUME EndScan
      PROVE  (NoExcess(v) /\ NoShortage(v))'
  BY <1>1, <1>16 DEF TypeOK, Shape, Balanced, NoExcess, NoShortage, Covered, Unbilled,
     InFlight, Claim, Claiming, Visiting, xrayVars, dbVars, tickVars, obsVars, bookVars,
     EndScan
<1>17. ASSUME AddDailyTraffic
      PROVE  (NoExcess(v) /\ NoShortage(v))'
  BY <1>1, <1>17 DEF TypeOK, Shape, Balanced, NoExcess, NoShortage, Covered, Unbilled,
     InFlight, Claim, Claiming, Visiting, xrayVars, dbVars, tickVars, obsVars, bookVars,
     AddDailyTraffic
<1>18. ASSUME DeleteDisabledOverLimitOrExpired
      PROVE  (NoExcess(v) /\ NoShortage(v))'
  BY <1>1, <1>18 DEF TypeOK, Shape, Balanced, NoExcess, NoShortage, Covered, Unbilled,
     InFlight, Claim, Claiming, Visiting, xrayVars, dbVars, tickVars, obsVars, bookVars,
     DeleteDisabledOverLimitOrExpired, Drop
<1>19. ASSUME NEW u \in User, UserExistsFails(u)
      PROVE  (NoExcess(v) /\ NoShortage(v))'
  BY <1>1, <1>19 DEF TypeOK, Shape, Balanced, NoExcess, NoShortage, Covered, Unbilled,
     InFlight, Claim, Claiming, Visiting, xrayVars, dbVars, tickVars, obsVars, bookVars,
     UserExistsFails
<1>20. ASSUME NEW u \in User, GetCursorFails(u)
      PROVE  (NoExcess(v) /\ NoShortage(v))'
  BY <1>1, <1>20 DEF TypeOK, Shape, Balanced, NoExcess, NoShortage, Covered, Unbilled,
     InFlight, Claim, Claiming, Visiting, xrayVars, dbVars, tickVars, obsVars, bookVars,
     GetCursorFails
<1>21. ASSUME NEW u \in User, AddUsageFails(u)
      PROVE  (NoExcess(v) /\ NoShortage(v))'
  BY <1>1, <1>21 DEF TypeOK, Shape, Balanced, NoExcess, NoShortage, Covered, Unbilled,
     InFlight, Claim, Claiming, Visiting, xrayVars, dbVars, tickVars, obsVars, bookVars,
     AddUsageFails
<1>22. ASSUME NEW u \in User, TouchLastOnlineFails(u)
      PROVE  (NoExcess(v) /\ NoShortage(v))'
  BY <1>1, <1>22 DEF TypeOK, Shape, Balanced, NoExcess, NoShortage, Covered, Unbilled,
     InFlight, Claim, Claiming, Visiting, xrayVars, dbVars, tickVars, obsVars, bookVars,
     TouchLastOnlineFails
<1>23. ASSUME NEW u \in User, UpsertCursorFails(u)
      PROVE  (NoExcess(v) /\ NoShortage(v))'
  <2>1. /\ UNCHANGED <<xrayVars, dbVars, carried, forfeit, hidden, snap, todo>>
        /\ u \notin todo /\ held = {u} /\ held' = {} /\ Claiming /\ ~Claiming' /\ applied' = 0
        /\ applied \in Nat
        /\ surplus'[v] = surplus[v] + IF v = u THEN applied ELSE 0
    BY <1>23 DEF TypeOK, Shape, Claiming, dbVars, UpsertCursorFails, LeaveUser,
                      BilledTwice
  <2>2. UNCHANGED <<counter, rows, usage, cursor, carried, forfeit, hidden>>
    BY <2>1 DEF xrayVars, dbVars
  <2>3. CASE v # u
    BY <1>1, <2>1, <2>2, <2>3 DEF Balanced, NoExcess, NoShortage, Covered,
       Unbilled, InFlight, Claim
  <2>4. CASE v = u
    <3>1. /\ v \notin todo' /\ v \in held /\ NoExcess(v) /\ NoShortage(v)
          /\ surplus'[v] = surplus[v] + applied
      BY <2>1, <2>2, <2>4 DEF Balanced
    <3>2. NoExcess(v)'
      BY <1>1, <2>1, <2>2, <3>1 DEF NoExcess, Covered, Unbilled, InFlight, Claim
    <3>3. NoShortage(v)'
      BY <1>1, <2>1, <2>2, <3>1 DEF NoShortage, Covered, Unbilled
    <3>. QED
      BY <3>2, <3>3
  <2>. QED
    BY <2>3, <2>4
<1>24. ASSUME AddDailyTrafficFails
      PROVE  (NoExcess(v) /\ NoShortage(v))'
  BY <1>1, <1>24 DEF TypeOK, Shape, Balanced, NoExcess, NoShortage, Covered, Unbilled,
     InFlight, Claim, Claiming, Visiting, xrayVars, dbVars, tickVars, obsVars, bookVars,
     AddDailyTrafficFails
<1>25. ASSUME PurgeFails
      PROVE  (NoExcess(v) /\ NoShortage(v))'
  BY <1>1, <1>25 DEF TypeOK, Shape, Balanced, NoExcess, NoShortage, Covered, Unbilled,
     InFlight, Claim, Claiming, Visiting, xrayVars, dbVars, tickVars, obsVars, bookVars,
     PurgeFails
<1>26. ASSUME Crash
      PROVE  (NoExcess(v) /\ NoShortage(v))'
  BY <1>1, <1>26 DEF TypeOK, Shape, Balanced, NoExcess, NoShortage, Covered, Unbilled,
     InFlight, Claim, Claiming, Visiting, xrayVars, dbVars, tickVars, obsVars, bookVars,
     Crash, BilledTwice
<1>27. ASSUME UNCHANGED vars
      PROVE  (NoExcess(v) /\ NoShortage(v))'
  BY <1>1, <1>27 DEF TypeOK, Shape, Balanced, NoExcess, NoShortage, Covered, Unbilled,
     InFlight, Claim, Claiming, Visiting, xrayVars, dbVars, tickVars, obsVars, bookVars,
     vars
<1>. QED
  BY <1>2, <1>3, <1>4, <1>5, <1>6, <1>7, <1>8, <1>9, <1>10, <1>11, <1>12, <1>13, <1>14,
     <1>15, <1>16, <1>17, <1>18, <1>19, <1>20, <1>21, <1>22, <1>23, <1>24, <1>25, <1>26, <1>27
     DEF Next, tick, tickFails, VisitUser, VisitFails, Handlers, Xray

---------------------------------------------------------------------------
(* Theorems *)

(* AccountInv holds in every reachable state: types, the shape of a tick   *)
(* under way, and both sides of the balance of every row.                  *)
THEOREM AccountingInvariant == Spec => []AccountInv
<1>1. Init => AccountInv
  BY InitBase, InitBalanced DEF AccountInv
<1>2. AccountInv /\ [Next]_vars => AccountInv'
  BY BaseStep, BalanceStep DEF AccountInv
<1>. QED
  BY <1>1, <1>2, PTL DEF Spec

(* The variables of the loop, the database and xray keep their types.      *)
THEOREM TypeCorrectness == Spec => []TypeOK
<1>1. AccountInv => TypeOK
  BY DEF AccountInv
<1>. QED
  BY <1>1, AccountingInvariant, PTL

(* The upper side of the balance, read for one row at a time.             *)
LEMMA BilledWithinMoved == AccountInv => NeverOverbilled
<1>. SUFFICES ASSUME AccountInv, NEW u \in rows
              PROVE  usage[u] <= carried[u] + surplus[u]
  BY DEF NeverOverbilled
<1>1. u \in User /\ TypeOK /\ NoExcess(u)
  BY DEF AccountInv, TypeOK, Balanced
<1>2. CASE u \notin held
  BY <1>1, <1>2, UserFacts DEF NoExcess, Covered, Unbilled
<1>3. CASE u \in held
  <2>1. CASE Claiming
    BY <1>1, <1>3, <2>1, UserFacts
       DEF AccountInv, Shape, NoExcess, InFlight, Claim
  <2>2. CASE ~Claiming
    BY <1>1, <2>2, UserFacts DEF AccountInv, Shape, NoExcess, Covered, Unbilled
  <2>. QED
    BY <2>1, <2>2
<1>. QED
  BY <1>2, <1>3

(* usage_bytes never passes what the row has moved plus its surplus,       *)
(* whatever fails, restarts or interleaves with the tick.                  *)
THEOREM NeverOverbilledTheorem == Spec => []NeverOverbilled
BY BilledWithinMoved, AccountingInvariant, PTL

(* The lower side.                                                         *)
LEMMA MovedIsAccounted == AccountInv => NeverForgotten
<1>. SUFFICES ASSUME AccountInv, NEW u \in rows
              PROVE  carried[u] <= usage[u] + Unbilled(u) + forfeit[u] + hidden[u]
  BY DEF NeverForgotten
<1>1. u \in User /\ TypeOK /\ NoShortage(u)
  BY DEF AccountInv, TypeOK, Balanced
<1>. QED
  BY <1>1, UserFacts DEF NoShortage, Covered, Unbilled

(* Every byte a row has moved is billed, pending, forfeited at a restart   *)
(* or hidden by a named event.                                             *)
THEOREM NeverForgottenTheorem == Spec => []NeverForgotten
BY MovedIsAccounted, AccountingInvariant, PTL

(* Both sides together.                                                    *)
LEMMA ExactBooks == AccountInv => ExactUnlessDisturbed
<1>. SUFFICES ASSUME AccountInv, NEW u \in rows,
                     surplus[u] = 0, forfeit[u] = 0, hidden[u] = 0
              PROVE  carried[u] = usage[u] + Unbilled(u)
                                    - (IF u \in held THEN applied ELSE 0)
  BY DEF ExactUnlessDisturbed
<1>1. u \in User /\ TypeOK /\ NoExcess(u) /\ NoShortage(u)
  BY DEF AccountInv, TypeOK, Balanced
<1>2. Covered(u) + Unbilled(u) = carried[u]
  BY <1>1, UserFacts DEF NoExcess, NoShortage, Covered, Unbilled
<1>3. Unbilled(u) \in Nat /\ usage[u] \in Nat /\ applied \in Nat
  BY <1>1, UserFacts DEF Unbilled
<1>. QED
  BY <1>2, <1>3 DEF Covered

(* A row none of those events met is billed to the byte.                   *)
THEOREM ExactTheorem == Spec => []ExactUnlessDisturbed
BY ExactBooks, AccountingInvariant, PTL

(* The purge never cuts a paying customer off before the quota was really  *)
(* used, up to the surplus.                                                *)
THEOREM NoEarlyCutoffTheorem == Spec => NoEarlyCutoff
<1>. DEFINE A == DeleteDisabledOverLimitOrExpired =>
                   \A u \in rows \ rows' :
                     (plan[u].enable /\ InDays(u))
                       => plan[u].limit \in 1 .. carried[u] + surplus[u]
<1>1. AccountInv /\ NeverOverbilled /\ [Next]_vars => [A]_vars
  <2>. SUFFICES ASSUME AccountInv, NeverOverbilled, DeleteDisabledOverLimitOrExpired,
                       NEW u \in rows \ rows', plan[u].enable, InDays(u)
                PROVE  plan[u].limit \in 1 .. carried[u] + surplus[u]
    OBVIOUS
  <2>2. plan[u] \in [enable: BOOLEAN, limit: Nat, days: Nat] /\ u \in User
    BY PlanAssumption DEF AccountInv, TypeOK, NoPlan
  <2>5. ~Expired(u)
    BY <2>2 DEF AccountInv, TypeOK, InDays, Expired, NoDate
  <2>1. OverLimit(u)
    BY <2>5 DEF DeleteDisabledOverLimitOrExpired, Drop, Due
  <2>3. usage[u] <= carried[u] + surplus[u]
    BY DEF NeverOverbilled
  <2>4. plan[u].limit \in Nat /\ usage[u] \in Nat /\ carried[u] \in Nat /\ surplus[u] \in Nat
    BY <2>2 DEF AccountInv, TypeOK
  <2>. QED
    BY <2>1, <2>3, <2>4 DEF OverLimit
<1>. QED
  BY <1>1, AccountingInvariant, NeverOverbilledTheorem, PTL DEF Spec, NoEarlyCutoff
---------------------------------------------------------------------------
(* The day's total.  DailyReconciles is not inductive: within a tick the   *)
(* batch is still to be added, and runs ahead of what is billed by the     *)
(* growth of the one user between GetCursor and AddUsage.                  *)
DailyInv ==
  /\ daily + batch + unlogged = billed + astray + IF pc = "bill" THEN grow ELSE 0
  /\ pc \in {"idle", "purge"} => batch = 0

LEMMA DailyStep ==
  ASSUME TypeOK, Shape, DailyInv, [Next]_vars
  PROVE  DailyInv'
<1>. USE DEF xrayVars, dbVars, tickVars, boundVars, obsVars, bookVars
<1>1. /\ daily \in Nat /\ batch \in Nat /\ billed \in Nat /\ grow \in Nat
      /\ astray \in Nat /\ unlogged \in Nat
  BY DEF TypeOK
(* A step that touches neither the books nor a visit.                      *)
<1>2. ASSUME UNCHANGED <<daily, batch, bookVars, grow, pc>> PROVE DailyInv'
  BY <1>2 DEF DailyInv
<1>3. ASSUME NEW u \in User, Connect(u) PROVE DailyInv'
  BY <1>2, <1>3 DEF Connect
<1>4. ASSUME NEW u \in User, NEW k \in Chunk, Transfer(u, k) PROVE DailyInv'
  BY <1>2, <1>4 DEF Transfer, Moved
<1>5. CASE XrayRestart
  BY <1>2, <1>5 DEF XrayRestart
<1>6. CASE NextDay
  BY <1>2, <1>6 DEF NextDay
<1>7. ASSUME NEW u \in User, CreateUser(u) \/ RestoreUser(u) PROVE DailyInv'
  BY <1>2, <1>7 DEF CreateUser, RestoreUser, OpenRow
<1>8. ASSUME NEW u \in User, PatchUser(u) PROVE DailyInv'
  BY <1>2, <1>8 DEF PatchUser
<1>9. ASSUME NEW u \in User, DeleteUser(u) PROVE DailyInv'
  BY <1>2, <1>9 DEF DeleteUser
<1>10. CASE QueryAllUserTraffic
  BY <1>10 DEF QueryAllUserTraffic, DailyInv
<1>11. ASSUME NEW u \in User, UserExists(u) PROVE DailyInv'
  BY <1>11 DEF UserExists, DailyInv
<1>12. ASSUME NEW u \in User, GetCursor(u) PROVE DailyInv'
  <2>1. grow' \in Nat
    BY <1>12, BaseStep DEF TypeOK
  <2>2. /\ batch' = batch + grow' /\ pc = "read" /\ UNCHANGED <<daily, bookVars>>
        /\ pc' = IF grow' > 0 THEN "bill" ELSE "mark"
    BY <1>12 DEF GetCursor
  <2>3. daily + batch + unlogged = billed + astray
    BY <1>1, <2>2 DEF DailyInv
  <2>4. daily' + batch' + unlogged' = billed' + astray' + grow'
    BY <1>1, <2>1, <2>2, <2>3
  <2>5. CASE grow' > 0
    BY <2>2, <2>4, <2>5 DEF DailyInv
  <2>6. CASE grow' = 0
    BY <1>1, <2>2, <2>3, <2>6 DEF DailyInv
  <2> QED BY <2>1, <2>5, <2>6
<1>13. ASSUME NEW u \in User, AddUsage(u) PROVE DailyInv'
  <2>1. CASE u \in rows
    BY <1>1, <1>13, <2>1 DEF AddUsage, DailyInv
  <2>2. CASE u \notin rows
    BY <1>1, <1>13, <2>2 DEF AddUsage, DailyInv
  <2> QED BY <2>1, <2>2
<1>14. ASSUME NEW u \in User, AddUsageFails(u) PROVE DailyInv'
  BY <1>1, <1>14 DEF AddUsageFails, DailyInv
<1>15. ASSUME NEW u \in User, TouchLastOnline(u) \/ TouchLastOnlineFails(u) PROVE DailyInv'
  BY <1>15 DEF TouchLastOnline, TouchLastOnlineFails, DailyInv
<1>16. ASSUME NEW u \in User, UpsertCursor(u) PROVE DailyInv'
  BY <1>16 DEF UpsertCursor, LeaveUser, DailyInv
<1>17. ASSUME NEW u \in User, UpsertCursorFails(u) PROVE DailyInv'
  BY <1>17 DEF UpsertCursorFails, LeaveUser, DailyInv
<1>18. ASSUME NEW u \in User, UserExistsFails(u) \/ GetCursorFails(u) PROVE DailyInv'
  BY <1>18 DEF UserExistsFails, GetCursorFails, DailyInv
<1>19. CASE EndScan
  BY <1>19 DEF EndScan, DailyInv
<1>20. CASE AddDailyTraffic
  BY <1>1, <1>20 DEF AddDailyTraffic, DailyInv
<1>21. CASE AddDailyTrafficFails
  BY <1>1, <1>21 DEF AddDailyTrafficFails, DailyInv
<1>22. CASE DeleteDisabledOverLimitOrExpired
  BY <1>22 DEF DeleteDisabledOverLimitOrExpired, DailyInv
<1>23. CASE PurgeFails
  BY <1>23 DEF PurgeFails, DailyInv
(* The batch dies with the daemon, the growth not yet stored with it.      *)
<1>24. CASE Crash
  <2>1. /\ daily' = daily /\ billed' = billed /\ batch' = 0 /\ pc' = "idle"
        /\ unlogged' = unlogged + batch
        /\ astray' = astray + IF pc = "bill" THEN grow ELSE 0
    BY <1>24 DEF Crash
  <2> QED BY <1>1, <2>1 DEF DailyInv
<1>25. CASE UNCHANGED vars
  BY <1>2, <1>25 DEF vars
<1>. QED
  BY <1>3, <1>4, <1>5, <1>6, <1>7, <1>8, <1>9, <1>10, <1>11, <1>12, <1>13, <1>14, <1>15,
     <1>16, <1>17, <1>18, <1>19, <1>20, <1>21, <1>22, <1>23, <1>24, <1>25
     DEF Next, tick, tickFails, VisitUser, VisitFails, Handlers, Xray

(* After every tick, however many users, restarts, failures, crashes and   *)
(* requests, the day's total and the users' books differ by exactly the    *)
(* bytes a named event kept from one of them.                              *)
THEOREM DailyTheorem == Spec => []DailyReconciles
<1>1. Init => DailyInv
  BY DEF Init, DailyInv
<1>2. AccountInv /\ DailyInv /\ [Next]_vars => DailyInv'
  BY DailyStep DEF AccountInv
<1>3. AccountInv /\ DailyInv => DailyReconciles
  BY DEF AccountInv, TypeOK, DailyInv, DailyReconciles
<1>. QED
  BY <1>1, <1>2, <1>3, AccountingInvariant, PTL DEF Spec

---------------------------------------------------------------------------
(* Refinement *)

LEMMA InitMaps == Init => M!Init
BY DEF Init, M!Init

(* A step of the loop is one step of the meter or leaves it alone: traffic *)
(* of a row is a Carry, AddUsage a Charge within the tolerance, a create   *)
(* or restore opens an account, a delete or purge closes some, a lost      *)
(* cursor write is a Mishap.                                               *)
LEMMA StepMaps ==
  ASSUME AccountInv, [Next]_vars
  PROVE  [M!Next]_<<rows, carried, usage, surplus>>
<1>. USE DEF AccountInv
<1>1. ASSUME UNCHANGED <<rows, carried, usage, surplus>>
      PROVE  [M!Next]_<<rows, carried, usage, surplus>>
  BY <1>1
<1>2. ASSUME NEW u \in User,
             \/ Connect(u) \/ PatchUser(u) \/ UserExists(u)
             \/ GetCursor(u) \/ TouchLastOnline(u) \/ UpsertCursor(u)
             \/ UserExistsFails(u) \/ GetCursorFails(u) \/ AddUsageFails(u)
             \/ TouchLastOnlineFails(u)
      PROVE  UNCHANGED <<rows, carried, usage, surplus>>
  BY <1>2 DEF Connect, PatchUser, UserExists, GetCursor, TouchLastOnline,
     UpsertCursor, UserExistsFails, GetCursorFails, AddUsageFails, TouchLastOnlineFails,
     dbVars, obsVars, bookVars
<1>3. ASSUME \/ XrayRestart \/ NextDay \/ QueryAllUserTraffic
             \/ EndScan \/ AddDailyTraffic \/ AddDailyTrafficFails
             \/ PurgeFails \/ UNCHANGED vars
      PROVE  UNCHANGED <<rows, carried, usage, surplus>>
  BY <1>3 DEF XrayRestart, NextDay, QueryAllUserTraffic, EndScan, AddDailyTraffic,
     AddDailyTrafficFails, PurgeFails, vars,
     dbVars, obsVars, bookVars
<1>4. ASSUME NEW u \in User, NEW k \in Chunk, Transfer(u, k)
      PROVE  [M!Next]_<<rows, carried, usage, surplus>>
  <2>1. PICK r \in Reading, h \in Nat :
          Moved(u, r, h) /\ Total(r) = Total(counter[u]) + k
    BY <1>4, TransferFacts
  <2>2. CASE u \notin rows
    BY <1>1, <2>1, <2>2 DEF Moved, dbVars
  <2>3. CASE u \in rows
    <3>1. Total(counter[u]) \in Nat /\ k \in Nat \ {0} /\ carried[u] \in Nat
      BY UserFacts, BytesAssumption
    <3>2. carried' = [carried EXCEPT ![u] = @ + k]
      <4>1. carried[u] + Total(r) - Total(counter[u]) = carried[u] + k
        BY <2>1, <3>1
      <4>2. carried' = [carried EXCEPT ![u] = carried[u] + Total(r) - Total(counter[u])]
        BY <2>1, <2>3 DEF Moved
      <4>. QED
        BY <4>1, <4>2
    <3>3. M!Carry(u)
      BY <2>1, <2>3, <3>1, <3>2 DEF M!Carry, Moved, dbVars, TypeOK
    <3>. QED
      BY <3>3 DEF M!Next
  <2>. QED
    BY <2>2, <2>3
<1>5. ASSUME NEW u \in User, NEW p, NEW s, NEW used, OpenRow(u, p, s, used)
      PROVE  M!OpenAccount(u)
  BY <1>5 DEF OpenRow, M!OpenAccount, TypeOK
<1>6. ASSUME NEW gone, Drop(gone), gone \subseteq rows
      PROVE  M!Close
  BY <1>6 DEF Drop, M!Close, TypeOK
<1>7. ASSUME NEW u \in User, AddUsage(u)
      PROVE  [M!Next]_<<rows, carried, usage, surplus>>
  <2>1. CASE u \notin rows \/ grow = 0
    <3>1. UNCHANGED <<rows, carried, usage, surplus>>
      BY <1>7, <2>1 DEF AddUsage, TypeOK
    <3>. QED
      BY <1>1, <3>1
  <2>2. CASE u \in rows /\ grow # 0
    <3>1. /\ usage' = [usage EXCEPT ![u] = @ + grow]
          /\ UNCHANGED <<rows, carried, surplus>>
          /\ u \in held /\ Claiming /\ applied = 0
      BY <1>7, <2>2 DEF AddUsage, Shape, Claiming
    <3>2. Claim(u) <= carried[u] + surplus[u]
      BY <2>2, <3>1 DEF Balanced, NoExcess, InFlight
    <3>3. usage[u] < usage[u] + grow /\ usage[u] + grow <= carried[u] + surplus[u]
      BY <2>2, <3>1, <3>2, UserFacts DEF Claim
    <3>4. M!Charge(u)
      BY <2>2, <3>1, <3>3 DEF M!Charge, TypeOK
    <3>. QED
      BY <3>4 DEF M!Next
  <2>. QED
    BY <2>1, <2>2
<1>8. ASSUME BilledTwice, UNCHANGED <<rows, carried, usage>>
      PROVE  M!Mishap
  BY <1>8 DEF BilledTwice, M!Mishap, TypeOK
<1>9. ASSUME NEW u \in User,
             CreateUser(u) \/ RestoreUser(u) \/ DeleteUser(u) \/ UpsertCursorFails(u)
      PROVE  M!Next
  <2>1. CASE CreateUser(u) \/ RestoreUser(u)
    BY <1>5, <2>1 DEF CreateUser, RestoreUser, M!Next
  <2>2. CASE DeleteUser(u)
    BY <1>6, <2>2 DEF DeleteUser, M!Next
  <2>3. CASE UpsertCursorFails(u)
    BY <1>8, <2>3 DEF UpsertCursorFails, dbVars, M!Next
  <2>. QED
    BY <1>9, <2>1, <2>2, <2>3
<1>10. ASSUME DeleteDisabledOverLimitOrExpired \/ Crash
       PROVE  M!Next
  <2>1. CASE DeleteDisabledOverLimitOrExpired
    BY <1>6, <2>1 DEF DeleteDisabledOverLimitOrExpired, M!Next
  <2>2. CASE Crash
    BY <1>8, <2>2 DEF Crash, dbVars, M!Next
  <2>. QED
    BY <1>10, <2>1, <2>2
<1>. QED
  BY <1>1, <1>2, <1>3, <1>4, <1>7, <1>9, <1>10
     DEF Next, tick, tickFails, VisitUser, VisitFails, Handlers, Xray

(* The loop implements the meter: usage of a living row only grows, and    *)
(* only up to what the row has moved plus its surplus.                     *)
THEOREM Refinement == Spec => ImplementsMeter
<1>1. AccountInv /\ [Next]_vars => [M!Next]_<<rows, carried, usage, surplus>>
  BY StepMaps
<1>. QED
  BY <1>1, InitMaps, AccountingInvariant, PTL DEF Spec, ImplementsMeter, M!Spec, M!mvars
===========================================================================
