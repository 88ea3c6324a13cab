----------------------------- MODULE LiveUsage -----------------------------
(***************************************************************************)
(* GET /api/v2/admin/user/{uuid}/ beside the accounting loop.              *)
(*                                                                         *)
(* The handler answers the stored usage topped up with what xray counts    *)
(* past the cursor.  It makes three calls and holds no lock: it reads the  *)
(* row, then xray's counters, then the cursor, and every step of the loop, *)
(* of xray and of the other handlers may fall between them.  The pool reads *)
(* this answer right before it deletes a rotated key, so the answer is     *)
(* what the customer is finally billed.                                    *)
(***************************************************************************)
EXTENDS Reconciler

VARIABLES
  view,     \* where adminGetUser stands: none, counters, cursor, answer, stored
  asked,    \* the UUID in the path
  stored,   \* usage_bytes as GetUser returned it
  seen,     \* the counters PerUserTraffic returned
  shown,    \* the usage in the answer
  \* observation
  truth,    \* bytes the row had moved when xray was read
  spare,    \* its surplus at that moment
  lost,     \* what a restart had forfeited or an event hidden of it by then
  same,     \* the row that was read is still in the table
  quiet     \* and nobody has written its usage or its cursor since

viewVars == <<view, asked, stored, seen, shown, truth, spare, lost, same, quiet>>
liveVars == <<vars, viewVars>>

LiveInit ==
  /\ Init
  /\ view = "none"
  /\ asked \in User
  /\ stored = 0 /\ seen = Zero /\ shown = 0
  /\ truth = 0 /\ spare = 0 /\ lost = 0 /\ same = FALSE /\ quiet = FALSE

(* Mutation: no thought of a restart.                                      *)
cursorDeltaNoReset(p, c) == c - p

(* Mutation: what a restarted counter holds is lost.                       *)
cursorDeltaDropped(p, c) == IF c >= p THEN c - p ELSE 0

(* The loop's delta, written a second time in the server.                  *)
cursorDelta(p, c) == IF c >= p THEN c - p ELSE c

Pending(p, c) ==
  LET pending == cursorDelta(p.up, c.up) + cursorDelta(p.down, c.down)
  IN  IF pending < 0 THEN 0 ELSE pending

(* A UUID without a row is answered 404, which is no step.  A request that *)
(* finds the tick between billing the row and moving its cursor does not   *)
(* begin in quiet.                                                         *)
GetUser(u) ==
  /\ view \in {"none", "answer", "stored"}
  /\ u \in rows
  /\ view' = "counters"
  /\ asked' = u
  /\ stored' = usage[u]
  /\ seen' = Zero /\ shown' = 0
  /\ truth' = 0 /\ spare' = 0 /\ lost' = 0
  /\ same' = TRUE
  /\ quiet' = (u \in held => applied = 0)
  /\ UNCHANGED vars

PerUserTraffic ==
  /\ view = "counters"
  /\ view' = "cursor"
  /\ seen' = IF asked \in listed THEN counter[asked] ELSE Zero
  /\ truth' = carried[asked]
  /\ spare' = surplus[asked]
  /\ lost' = forfeit[asked] + hidden[asked]
  /\ UNCHANGED <<vars, asked, stored, shown, same, quiet>>

(* A UUID that has no cursor (any more) is read as one at zero.            *)
liveUsageBytes ==
  /\ view = "cursor"
  /\ view' = "answer"
  /\ shown' = stored + Pending(cursor[asked], seen)
  /\ UNCHANGED <<vars, asked, stored, seen, truth, spare, lost, same, quiet>>

(* xray or the database does not answer: the stored value is shown as is.  *)
FallBack ==
  /\ view \in {"counters", "cursor"}
  /\ Fault
  /\ view' = "stored"
  /\ shown' = stored
  /\ UNCHANGED <<xrayVars, dbVars, today, tickVars, restarts, edits, obsVars,
                 asked, stored, seen, truth, spare, lost, same, quiet>>

adminGetUser == (\E u \in User : GetUser(u)) \/ PerUserTraffic \/ liveUsageBytes \/ FallBack

(* The rest of the daemon and xray take a step.  Restarts, failures and    *)
(* other requests leave the quiet of this one alone: only a write to the   *)
(* row's usage or to its cursor ends it.                                   *)
Around ==
  /\ Next
  /\ UNCHANGED <<view, asked, stored, seen, shown, truth, spare, lost>>
  /\ same' = (same /\ asked \in rows')
  /\ quiet' = /\ quiet
              /\ asked \in rows'
              /\ usage'[asked] = usage[asked]
              /\ cursor'[asked] = cursor[asked]

LiveNext == adminGetUser \/ Around

LiveSpec == LiveInit /\ [][LiveNext]_liveVars

---------------------------------------------------------------------------
(* Every variable keeps its type; the answer is never negative.            *)
LiveTypeOK ==
  /\ TypeOK
  /\ view \in {"none", "counters", "cursor", "answer", "stored"}
  /\ asked \in User
  /\ stored \in Nat /\ shown \in Nat
  /\ seen \in Reading
  /\ truth \in Nat /\ spare \in Nat /\ lost \in Nat
  /\ same \in BOOLEAN /\ quiet \in BOOLEAN

(* The comment's "authoritative-to-the-second", under the two conditions   *)
(* it really needs: the request does not begin between a tick's AddUsage   *)
(* and its cursor write for this row, and no tick makes either write under *)
(* it.  Then the answer is what the row had moved when xray was read, less *)
(* the bytes restarts and failures had already lost by that moment and     *)
(* plus at most its surplus: to the byte for a row that met none of them.  *)
(* Restarts, failures and requests between the three reads change nothing. *)
ExactWhenQuiet ==
  (view = "answer" /\ quiet) => shown \in truth - lost .. truth + spare

(* However ticks, restarts, failures and edits interleave, an answer about *)
(* a row that is still there errs upwards by less than one xray lifetime   *)
(* of traffic: what was stored was no more than was moved, and the top-up  *)
(* is never more than the counters read.                                   *)
OvershootBounded ==
  (view \in {"answer", "stored"} /\ same)
     => shown <= carried[asked] + surplus[asked] + Total(seen)

(* And what an answer topped up from xray leaves out of the bytes moved    *)
(* when xray was read is not lost to the pool's settlement unseen: a tick  *)
(* has billed it to the row since the row was read, or a restart or one of *)
(* the events "hidden" names has taken it.                                 *)
UndershootBounded ==
  (view = "answer" /\ same)
     => truth - shown <= usage[asked] - stored + forfeit[asked] + hidden[asked]

(* admin_users.go:105-107: the reconciler stays the sole writer and there  *)
(* is no double-count race with a concurrent tick: with no restart, crash, *)
(* failure or edit an answer is never above what the user has moved.  It   *)
(* is when the reads fall between a tick's AddUsage and its UpsertCursor,  *)
(* so that stored usage and top-up hold the same bytes.                    *)
NoDoubleCount ==
  (view \in {"answer", "stored"} /\ restarts = 0 /\ faults = 0 /\ edits = 0)
     => shown <= carried[asked]
===========================================================================
