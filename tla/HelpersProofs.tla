--------------------------- MODULE HelpersProofs ---------------------------
(***************************************************************************)
(* Theorems about Helpers: for any number of pages submitted at once, any  *)
(* values and any bounds, and wherever scripts fail, overrun, run beside   *)
(* each other or are killed by a restart.                                  *)
(*                                                                         *)
(* CopiesAgree and ShownLoginWorks speak of a node at rest.  What holds    *)
(* while scripts run is the subject of the invariant: how far a script     *)
(* that runs alone has brought the copies it rewrites (WorkInv), and who   *)
(* answers for each copy that is not as config.env says (PartInv).         *)
(***************************************************************************)
EXTENDS Helpers, TLAPS

---------------------------------------------------------------------------
(* Types *)

Step == {"client", "path", "stub", "backup", "ws", "uuid", "certbot", "tune", "source",
         "fullchain", "render", "privkey", "install", "host", "xhttp", "sni", "xrender",
         "xinstall", "psql", "test", "reload", "timer", "save"}

Conf == {c \in [Key -> Value \cup {Unset}] : \A k \in Key \ {"xhttp"} : c[k] \in Value}
Fields == UNION {[K -> Value] : K \in SUBSET (Key \cup {"conns"})}

Helper ==
  [at: {"idle", "asked", "runs"}, page: {"none", "paths", "admin", "domain", "perf"},
   ask: Fields, set: Fields, todo: SUBSET Step,
   env: Conf \cup {Nothing}, draft: Conf \cup {Nothing},
   late: BOOLEAN, wrote: BOOLEAN, alone: BOOLEAN, fresh: BOOLEAN]

HttpFile == [HttpKey -> Value]
XrayFile == [{"ws", "xhttp"} -> Value \cup {Unset}]

CopyTypes ==
  /\ conf \in Conf
  /\ http \in [file: HttpFile, new: HttpFile \cup {Unset}]
  /\ xray \in [file: XrayFile, new: XrayFile \cup {Unset}, run: XrayFile]
  /\ token \in Value
  /\ cert \in [{"fullchain", "privkey"} -> Value]
  /\ live \in [Value -> {"none", "stub", "issued"}]
  /\ conns \in [file: Value, saved: Value, bak: Value \cup {Unset}]
  /\ nginx \in [http: HttpFile, conns: Value, cert: [{"fullchain", "privkey"} -> Value]]

TypeInv ==
  /\ CopyTypes
  /\ mem \in Conf
  /\ helper \in [Req -> Helper]
  /\ timers \in [Service -> Nat]
  /\ last \in {"none", "no change", "applied", "failed", "cut off"}
  /\ shown \in [path: Value, uuid: Value, sure: BOOLEAN]
  /\ debt \subseteq Part

(* What a helper looks like at each point.  Its script is done in order,   *)
(* and ends with the step that ends it.                                    *)
Full(h) == Script(h.page, DOMAIN h.set)
Done(h) == Full(h) \ h.todo

Shaped(h) ==
  /\ h.at = "idle" => h = Idle
  /\ h.at # "idle" => /\ h.page # "none"
                      /\ DOMAIN h.ask # {} /\ DOMAIN h.ask \subseteq Field(h.page)
  /\ h.at = "asked" => DOMAIN h.set = {} /\ h.todo = {} /\ ~h.wrote
  /\ h.at = "runs" =>
       /\ DOMAIN h.set # {} /\ h.todo \subseteq Full(h)
       /\ \A s \in Done(h), t \in h.todo : Rank(s) <= Rank(t)
       /\ (IF h.page = "perf" THEN "save" ELSE "timer") \in h.todo
       /\ h.page \in {"paths", "admin"} => DOMAIN h.set \subseteq Field(h.page)
       /\ h.page \in {"paths", "admin"} => DOMAIN h.set \subseteq DOMAIN h.ask
       /\ h.page \in {"paths", "admin"} => \A k \in DOMAIN h.set : h.set[k] = h.ask[k]
       /\ h.page = "domain" => DOMAIN h.set = {"host", "sni"} /\ h.set["host"] = h.set["sni"]
       /\ h.page = "perf" => DOMAIN h.set = {"conns"}
       /\ "source" \in Done(h) => h.env \in Conf
       /\ Done(h) \cap {"install", "backup"} # {} => h.wrote

ShapeInv == \A r \in Req : Shaped(helper[r])

(* Nobody is beside a helper that runs alone.                              *)
AloneInv ==
  \A r, q \in Req : r # q /\ InFlight(r) /\ helper[r].alone => ~InFlight(q)

(* How far a script that runs alone has come.                              *)
Worked(h) ==
  /\ \A k \in DOMAIN h.set \cap Key : k \in Done(h) => conf[k] = h.set[k]
  /\ "source" \in Done(h) => h.env = conf
  /\ "render" \in Done(h) /\ "install" \in h.todo => http.new = HttpOf(conf)
  /\ "install" \in Done(h) => http.file = HttpOf(conf)
  /\ "xrender" \in Done(h) /\ "xinstall" \in h.todo => xray.new = XrayOf(conf)
  /\ "xinstall" \in Done(h) => xray.file = XrayOf(conf)
  /\ "psql" \in Done(h) => token = conf["ws"]
  /\ "certbot" \in Done(h) => live[h.set["host"]] # "none"
  /\ "fullchain" \in Done(h) => cert.fullchain = h.set["host"]
  /\ "privkey" \in Done(h) => cert.privkey = h.set["host"]
  /\ "tune" \in Done(h) => conns.file = h.set["conns"]
  /\ "reload" \in Done(h) =>
       /\ nginx.http = http.file /\ nginx.cert = cert /\ nginx.conns = conns.file

(* ... and what the Performance helper would go back to.                   *)
Revertible(h) ==
  h.page = "perf" /\ h.wrote /\ "reload" \in h.todo /\ "conns" \notin debt =>
    /\ conns.saved = nginx.conns /\ conns.bak = nginx.conns
    /\ "tune" \in h.todo => conns.file = nginx.conns

WorkInv ==
  \A r \in Req : helper[r].at = "runs" /\ helper[r].alone =>
    Worked(helper[r]) /\ Revertible(helper[r])

(* Who answers for a copy that is not as it should be: the debt, a script  *)
(* that has begun to rewrite it, or a restart that is due.                 *)
Writer(p) == \E r \in Req : helper[r].wrote /\ p \in Touched(helper[r])

DaemonPart ==
  \/ "daemon" \in debt \/ mem = conf \/ timers # NoTimers
  \/ \E r \in Req : helper[r].wrote /\ helper[r].page # "perf"

XrayPart ==
  \/ "xray" \in debt \/ Writer("xray")
  \/ xray.file = XrayOf(conf) /\ (xray.run = xray.file \/ timers["xray"] > 0)

Other == {"http", "xhttp", "token", "cert", "conns"}

OtherParts == \A p \in Other : p \in debt \/ Writer(p) \/ Agrees(p)

PartInv == DaemonPart /\ XrayPart /\ OtherParts

(* What the Admin page will show is what config.env says, or will say.     *)
LoginKnown(h) ==
  h.page = "admin" /\ h.alone /\ h.fresh =>
    \A k \in {"path", "uuid"} :
      /\ k \notin DOMAIN h.ask => conf[k] = mem[k]
      /\ h.at = "runs" /\ k \in DOMAIN h.ask => conf[k] = h.ask[k] \/ k \in h.todo

LoginInv ==
  /\ \A r \in Req : LoginKnown(helper[r])
  /\ shown.sure =>
       \/ shown.path = conf["path"] /\ shown.uuid = conf["uuid"]
       \/ \E r \in Req : helper[r].wrote /\ helper[r].page = "admin"

(* sed's copy of config.env is the line that is being written and the rest *)
(* as it is now, unless another helper has written meanwhile; the copies   *)
(* that this leaves behind are answered for.                               *)
Copies(k) ==
  CASE k \in {"client", "path"} -> {"http"}
    [] k = "ws"    -> {"http", "xray", "token"}
    [] k = "xhttp" -> {"xray", "xhttp"}
    [] k \in {"host", "sni"} -> {"cert"}
    [] k = "uuid"  -> {}

Blamed(k) ==
  /\ \A p \in Copies(k) : p \in debt \/ Writer(p)
  /\ k \in {"path", "uuid"} =>
       ~shown.sure \/ \E r \in Req : helper[r].wrote /\ helper[r].page = "admin"

Drafted(r, k) ==
  /\ At(r, k) /\ Due(r, k)
  /\ helper[r].draft[k] = Line(r, k)
  /\ \A j \in Key \ {k} :
       helper[r].draft[j] = conf[j] \/ (~helper[r].alone /\ Blamed(j))

DraftInv == \A r \in Req : helper[r].draft # Nothing => \E k \in Key : Drafted(r, k)

HelpersInv ==
  TypeInv /\ ShapeInv /\ AloneInv /\ WorkInv /\ PartInv /\ LoginInv /\ DraftInv

---------------------------------------------------------------------------
(* Fields, ranks and touched copies *)

LEMMA FieldsFacts ==
  ASSUME NEW f \in Fields
  PROVE  DOMAIN f \subseteq Key \cup {"conns"} /\ \A k \in DOMAIN f : f[k] \in Value
BY DEF Fields

LEMMA NothingIsNoFields == Nothing \in Fields /\ DOMAIN Nothing = {}
<1>1. Nothing \in [{} -> Value] /\ DOMAIN Nothing = {}
  BY DEF Nothing
<1> QED BY <1>1 DEF Fields

LEMMA IdleIsHelper == Idle \in Helper
BY NothingIsNoFields DEF Idle, Helper

LEMMA RankIsNat == \A s \in Step : Rank(s) \in Nat
BY DEF Step, Rank

LEMMA ScriptIsSteps ==
  ASSUME NEW h \in Helper, Shaped(h), h.at = "runs"
  PROVE  Full(h) \subseteq Step
BY DEF Shaped, Full, Script, Step, Field, Helper

(* Scripts are done in order: at step x those of a lower rank are done and *)
(* those of a higher rank are not.                                         *)
LEMMA InOrder ==
  ASSUME NEW r \in Req, helper[r] \in Helper, Shaped(helper[r]), NEW x \in Step, At(r, x),
         NEW s \in Full(helper[r])
  PROVE  /\ Rank(s) < Rank(x) => s \in Done(helper[r])
         /\ Rank(x) < Rank(s) => s \in helper[r].todo
<1>1. s \in Step /\ Rank(s) \in Nat /\ Rank(x) \in Nat
  BY RankIsNat, ScriptIsSteps DEF At
<1>2. s \in helper[r].todo => Rank(x) <= Rank(s)
  BY DEF At
<1>3. s \in Done(helper[r]) => Rank(s) <= Rank(x)
  BY DEF At, Shaped
<1> QED BY <1>1, <1>2, <1>3 DEF Done

(* Which copies a helper rewrites, by its page.                            *)
LEMMA TouchedFacts ==
  ASSUME NEW h \in Helper, Shaped(h), h.at = "runs"
  PROVE  /\ Touched(h) \subseteq Part \ {"daemon"}
         /\ h.page = "paths" =>
              /\ "http" \in Touched(h)
              /\ "ws" \in DOMAIN h.set <=> "xray" \in Touched(h)
              /\ "ws" \in DOMAIN h.set <=> "token" \in Touched(h)
              /\ "cert" \notin Touched(h) /\ "conns" \notin Touched(h)
         /\ h.page = "admin" =>
              Touched(h) = IF "path" \in DOMAIN h.set THEN {"http"} ELSE {}
         /\ h.page = "domain" => Touched(h) = {"cert"}
         /\ h.page = "perf" => Touched(h) = {"conns"}
BY DEF Shaped, Touched, Part, HttpKey, Field, Helper

(* A script is at one step at a time.                                      *)
LEMMA RankInjective ==
  ASSUME NEW p \in {"paths", "admin", "domain", "perf"}, NEW D,
         p \in {"paths", "admin"} => D \subseteq Field(p),
         NEW x \in Script(p, D), NEW y \in Script(p, D), Rank(x) = Rank(y)
  PROVE  x = y
<1>1. CASE p = "paths"
  BY <1>1 DEF Script, Field, Rank
<1>2. CASE p = "admin"
  BY <1>2 DEF Script, Field, Rank
<1>3. CASE p = "domain"
  BY <1>3 DEF Script, Rank
<1>4. CASE p = "perf"
  BY <1>4 DEF Script, Rank
<1> QED BY <1>1, <1>2, <1>3, <1>4

LEMMA OneStep ==
  ASSUME NEW r \in Req, helper[r] \in Helper, Shaped(helper[r]), NEW x, NEW y, At(r, x), At(r, y)
  PROVE  x = y
<1>1. /\ helper[r].at = "runs" /\ {x, y} \subseteq Full(helper[r])
      /\ helper[r].page \in {"paths", "admin", "domain", "perf"}
      /\ helper[r].page \in {"paths", "admin"} =>
           DOMAIN helper[r].set \subseteq Field(helper[r].page)
  BY DEF At, Shaped, Helper
<1>2. {x, y} \subseteq Step
  BY <1>1, ScriptIsSteps
<1>3. Rank(x) \in Nat /\ Rank(y) \in Nat
  BY <1>2, RankIsNat
<1>4. Rank(x) = Rank(y)
  BY <1>3 DEF At
<1> QED BY <1>1, <1>4, RankInjective DEF Full

---------------------------------------------------------------------------
(* A script advances by one step that does not end it *)

Advances(r, x, w, e) ==
  /\ x \in Step \ {"timer", "save"} /\ At(r, x)
  /\ helper' \in [Req -> Helper] /\ \A q \in Req : q # r => helper'[q] = helper[q]
  /\ helper'[r].todo = helper[r].todo \ {x}
  /\ helper'[r].wrote = w /\ (helper[r].wrote \/ x \in {"install", "backup"} => w)
  /\ helper'[r].env = e /\ ("source" \in Done(helper[r]) \cup {x} => e \in Conf)
  /\ helper'[r].at = helper[r].at /\ helper'[r].page = helper[r].page
  /\ helper'[r].ask = helper[r].ask /\ helper'[r].set = helper[r].set
  /\ helper'[r].late = helper[r].late /\ helper'[r].draft = Nothing
  /\ helper'[r].alone = helper[r].alone /\ helper'[r].fresh = helper[r].fresh
  /\ UNCHANGED <<mem, timers, last, shown>> /\ debt \subseteq debt' /\ debt' \subseteq Part

(* A draft is of a line of config.env.                                     *)
LEMMA NoDraft ==
  ASSUME TypeInv, ShapeInv, DraftInv, NEW r \in Req, NEW x, At(r, x), x \notin Key \/ ~Due(r, x)
  PROVE  helper[r].draft = Nothing
<1>1. helper[r] \in Helper /\ Shaped(helper[r])
  BY DEF TypeInv, ShapeInv
<1>2. ASSUME NEW k \in Key, Drafted(r, k) PROVE FALSE
  <2>1. At(r, k) /\ Due(r, k)
    BY <1>2 DEF Drafted
  <2>2. x = k
    BY <1>1, <2>1, OneStep
  <2> QED BY <2>1, <2>2
<1> QED BY <1>2 DEF DraftInv

LEMMA ProceedAdvances ==
  ASSUME TypeInv, ShapeInv, DraftInv, NEW r \in Req,
         NEW x \in Step \ (Key \cup {"timer", "save", "source"}),
         At(r, x), Proceed(r, x), UNCHANGED frame
  PROVE  Advances(r, x, TRUE, helper[r].env)
<1>1. helper \in [Req -> Helper] /\ helper[r] \in Helper
  BY DEF TypeInv
<1>2. helper' = [helper EXCEPT ![r] = [helper[r] EXCEPT !.todo = @ \ {x}, !.wrote = TRUE]]
  BY <1>1 DEF Proceed
<1>3. [helper[r] EXCEPT !.todo = @ \ {x}, !.wrote = TRUE] \in Helper
  BY <1>1 DEF Helper
<1>4. "source" \in Done(helper[r]) => helper[r].env \in Conf
  BY DEF ShapeInv, Shaped, At
<1>5. helper[r].draft = Nothing /\ debt \subseteq Part
  BY NoDraft DEF TypeInv
<1> QED BY <1>1, <1>2, <1>3, <1>4, <1>5 DEF Advances, frame, obsVars, Helper

(* The script and its owner keep their shape.                              *)
LEMMA AdvanceShape ==
  ASSUME TypeInv, ShapeInv, AloneInv, NEW r \in Req, NEW x, NEW w, NEW e, Advances(r, x, w, e)
  PROVE  /\ ShapeInv' /\ AloneInv'
         /\ Full(helper'[r]) = Full(helper[r])
         /\ Done(helper'[r]) = Done(helper[r]) \cup {x}
         /\ Touched(helper'[r]) = Touched(helper[r])
<1>1. /\ helper[r] \in Helper /\ Shaped(helper[r]) /\ helper[r].at = "runs"
      /\ x \in helper[r].todo /\ helper[r].todo \subseteq Full(helper[r])
  BY DEF TypeInv, ShapeInv, Advances, At, Shaped
<1>2. Full(helper'[r]) = Full(helper[r])
  BY DEF Full, Advances
<1>3. Done(helper'[r]) = Done(helper[r]) \cup {x}
  BY <1>1, <1>2 DEF Done, Advances
<1>4. Touched(helper'[r]) = Touched(helper[r])
  BY DEF Touched, Advances
<1>5. Shaped(helper'[r])
  <2>1. \A s \in Done(helper'[r]), t \in helper'[r].todo : Rank(s) <= Rank(t)
    BY <1>1, <1>3 DEF Shaped, Advances, At
  <2>2. helper'[r].todo \subseteq Full(helper'[r])
    BY <1>1, <1>2 DEF Advances
  <2>3. (IF helper'[r].page = "perf" THEN "save" ELSE "timer") \in helper'[r].todo
    BY <1>1 DEF Shaped, Advances
  <2>4. "source" \in Done(helper'[r]) => helper'[r].env \in Conf
    BY <1>3 DEF Advances
  <2>5. Done(helper'[r]) \cap {"install", "backup"} # {} => helper'[r].wrote
    BY <1>1, <1>3 DEF Shaped, Advances
  <2> QED BY <1>1, <2>1, <2>2, <2>3, <2>4, <2>5 DEF Shaped, Advances
<1>6. \A q \in Req : helper'[q].at = helper[q].at /\ helper'[q].alone = helper[q].alone
  BY DEF Advances
<1>7. ShapeInv'
  BY <1>5 DEF ShapeInv, Advances
<1> QED BY <1>2, <1>3, <1>4, <1>6, <1>7 DEF AloneInv, InFlight

(* The login on show is disturbed only by an Admin helper's own edits.     *)
LEMMA AdvanceLogin ==
  ASSUME TypeInv, ShapeInv, AloneInv, LoginInv,
         NEW r \in Req, NEW x, NEW w, NEW e, Advances(r, x, w, e),
         \A k \in {"path", "uuid"} :
            IF x = k THEN helper[r].page = "admin" /\ w = TRUE /\ conf'[k] = helper[r].ask[k]
                     ELSE conf'[k] = conf[k] \/ (~helper[r].alone /\ Blamed(k))
  PROVE  LoginInv'
<1> DEFINE h == helper[r]
<1>1. h.at = "runs"
  BY DEF Advances, At
<1>2. LoginKnown(helper[r])'
  <2> SUFFICES ASSUME h.page = "admin", h.alone, h.fresh, NEW k \in {"path", "uuid"}
               PROVE  /\ k \notin DOMAIN h.ask => conf'[k] = mem[k]
                      /\ k \in DOMAIN h.ask => conf'[k] = h.ask[k] \/ k \in helper'[r].todo
    BY DEF LoginKnown, Advances
  <2>1. /\ k \notin DOMAIN h.ask => conf[k] = mem[k]
        /\ k \in DOMAIN h.ask => conf[k] = h.ask[k] \/ k \in h.todo
    BY <1>1 DEF LoginInv, LoginKnown
  <2>2. x = k => k \in DOMAIN h.ask
    <3>1. x \in Full(h)
      BY <1>1 DEF ShapeInv, Shaped, Advances, At
    <3> QED BY <1>1, <3>1 DEF ShapeInv, Shaped, Full, Script
  <2> QED BY <2>1, <2>2 DEF Advances
<1>3. ASSUME NEW q \in Req, q # r PROVE LoginKnown(helper[q])'
  <2>1. ~(helper[q].page = "admin" /\ helper[q].alone)
    BY <1>1, <1>3 DEF AloneInv, InFlight, ShapeInv, Shaped, Idle
  <2> QED BY <1>3, <2>1 DEF LoginKnown, Advances
<1>4. ASSUME shown.sure
      PROVE  \/ shown.path = conf'["path"] /\ shown.uuid = conf'["uuid"]
             \/ \E q \in Req : helper'[q].wrote /\ helper'[q].page = "admin"
  <2>1. CASE \E q \in Req : helper[q].wrote /\ helper[q].page = "admin"
    BY <2>1 DEF Advances
  <2>2. CASE shown.path = conf["path"] /\ shown.uuid = conf["uuid"]
    <3>1. CASE \E k \in {"path", "uuid"} : Blamed(k)
      BY <1>4, <2>1, <3>1 DEF Blamed
    <3>2. CASE ~\E k \in {"path", "uuid"} : Blamed(k)
      BY <2>2, <3>2 DEF Advances
    <3> QED BY <3>1, <3>2
  <2> QED BY <1>4, <2>1, <2>2 DEF LoginInv
<1> QED BY <1>2, <1>3, <1>4 DEF LoginInv, Advances

(* A script answers for the copies it touches from its first write; it     *)
(* leaves the others agreeing if they did.                                 *)
Spares(r, w) ==
  /\ conf' = conf \/ (w /\ helper[r].page # "perf")
  /\ \/ "xray" \in debt' \/ Writer("xray")
     \/ w /\ "xray" \in Touched(helper[r])
     \/ UNCHANGED xray /\ XrayOf(conf)' = XrayOf(conf)
  /\ \A p \in Other :
       \/ p \in debt' \/ Writer(p)
       \/ w /\ p \in Touched(helper[r])
       \/ Agrees(p) => Agrees(p)'

LEMMA AdvanceParts ==
  ASSUME TypeInv, ShapeInv, AloneInv, PartInv, NEW r \in Req, NEW x, NEW w, NEW e,
         Advances(r, x, w, e), Spares(r, w)
  PROVE  PartInv'
<1>1. Touched(helper'[r]) = Touched(helper[r])
  BY AdvanceShape
<1>2. ASSUME NEW p, Writer(p) \/ (w /\ p \in Touched(helper[r])) PROVE Writer(p)'
  BY <1>1, <1>2 DEF Writer, Advances, Touched
<1>3. DaemonPart'
  <2>1. CASE \E q \in Req : helper[q].wrote /\ helper[q].page # "perf"
    BY <2>1 DEF DaemonPart, Advances
  <2>2. CASE "daemon" \in debt \/ timers # NoTimers
    BY <2>2 DEF DaemonPart, Advances
  <2>3. CASE mem = conf
    BY <2>3 DEF DaemonPart, Advances, Spares
  <2> QED BY <2>1, <2>2, <2>3 DEF PartInv, DaemonPart
<1>4. XrayPart'
  BY <1>2 DEF PartInv, XrayPart, Spares, Advances
<1>5. OtherParts'
  <2> SUFFICES ASSUME NEW p \in Other
               PROVE  p \in debt' \/ Writer(p)' \/ Agrees(p)'
    BY DEF OtherParts
  <2>1. p \in debt \/ Writer(p) \/ Agrees(p)
    BY DEF PartInv, OtherParts
  <2> QED BY <1>2, <2>1 DEF Spares, Advances
<1> QED BY <1>3, <1>4, <1>5 DEF PartInv

(* Nobody else is at work beside a script that runs alone.                 *)
LEMMA AdvanceWork ==
  ASSUME TypeInv, ShapeInv, AloneInv, NEW r \in Req, NEW x, NEW w, NEW e, Advances(r, x, w, e),
         helper[r].alone => Worked(helper[r])' /\ Revertible(helper[r])'
  PROVE  WorkInv'
<1> SUFFICES ASSUME NEW q \in Req, helper'[q].at = "runs", helper'[q].alone
             PROVE  Worked(helper[q])' /\ Revertible(helper[q])'
  BY DEF WorkInv
<1>1. CASE q = r
  BY <1>1 DEF Advances
<1>2. CASE q # r
  BY <1>2 DEF Advances, At, AloneInv, InFlight
<1> QED BY <1>1, <1>2

(* A line of config.env may change if its copies are answered for.         *)
Excused(r, w, k) ==
  /\ \A p \in Copies(k) : p \in debt' \/ (w /\ p \in Touched(helper[r]))
  /\ k \in {"path", "uuid"} => w /\ helper[r].page = "admin"

LEMMA AdvanceDrafts ==
  ASSUME TypeInv, ShapeInv, AloneInv, DraftInv, NEW r \in Req, NEW x, NEW w, NEW e,
         Advances(r, x, w, e),
         \A k \in Key : conf'[k] = conf[k] \/ Blamed(k) \/ Excused(r, w, k)
  PROVE  DraftInv'
<1> SUFFICES ASSUME NEW q \in Req, helper'[q].draft # Nothing
             PROVE  \E k \in Key : Drafted(q, k)'
  BY DEF DraftInv
<1>1. q # r /\ helper'[q] = helper[q]
  BY DEF Advances
<1>2. PICK k \in Key : Drafted(q, k)
  BY <1>1 DEF DraftInv
<1>3. ~helper[q].alone
  BY <1>1, <1>2 DEF Drafted, At, Advances, AloneInv, InFlight
<1>4. \A p : Writer(p) \/ (w /\ p \in Touched(helper[r])) => Writer(p)'
  BY AdvanceShape DEF Writer, Advances, Touched
<1>5. (\E i \in Req : helper[i].wrote /\ helper[i].page = "admin") =>
        \E i \in Req : helper'[i].wrote /\ helper'[i].page = "admin"
  BY DEF Advances
<1>6. (w /\ helper[r].page = "admin") =>
        \E i \in Req : helper'[i].wrote /\ helper'[i].page = "admin"
  BY DEF Advances
<1>7. \A j \in Key : Blamed(j) \/ Excused(r, w, j) => Blamed(j)'
  BY <1>4, <1>5, <1>6 DEF Blamed, Excused, Advances
<1>8. \A j \in Key \ {k} : helper'[q].draft[j] = conf'[j] \/ Blamed(j)'
  BY <1>1, <1>2, <1>7 DEF Drafted
<1> QED BY <1>1, <1>2, <1>3, <1>8 DEF Drafted, At, Due, Line

(* The step keeps the invariant if it keeps the types of the copies, spares*)
(* what it does not answer for, does the script's work and touches no      *)
(* login but its own.                                                      *)
LEMMA AdvanceInv ==
  ASSUME HelpersInv, NEW r \in Req, NEW x, NEW w, NEW e, Advances(r, x, w, e),
         CopyTypes', Spares(r, w),
         helper[r].alone => Worked(helper[r])' /\ Revertible(helper[r])',
         \A k \in {"path", "uuid"} :
            IF x = k THEN helper[r].page = "admin" /\ w = TRUE /\ conf'[k] = helper[r].ask[k]
                     ELSE conf'[k] = conf[k] \/ (~helper[r].alone /\ Blamed(k)),
         \A k \in Key : conf'[k] = conf[k] \/ Blamed(k) \/ Excused(r, w, k)
  PROVE  HelpersInv'
<1>1. TypeInv'
  BY DEF HelpersInv, TypeInv, Advances
<1>2. ShapeInv' /\ AloneInv'
  BY AdvanceShape DEF HelpersInv
<1>3. PartInv'
  BY AdvanceParts DEF HelpersInv
<1>4. WorkInv'
  BY AdvanceWork DEF HelpersInv
<1>5. LoginInv'
  BY AdvanceLogin DEF HelpersInv
<1>6. DraftInv'
  BY AdvanceDrafts DEF HelpersInv
<1> QED BY <1>1, <1>2, <1>3, <1>4, <1>5, <1>6 DEF HelpersInv

(* Which page runs a step, and what it has to set then.                    *)
LEMMA StepPage ==
  ASSUME NEW h \in Helper, Shaped(h), h.at = "runs", NEW x \in Full(h)
  PROVE  /\ x \in {"client", "ws", "xhttp", "xrender", "xinstall", "psql"} => h.page = "paths"
         /\ x \in {"xhttp", "xrender", "xinstall", "psql"} => "ws" \in DOMAIN h.set
         /\ x \in {"path", "uuid"} => h.page = "admin"
         /\ x \in {"source", "render", "install"} =>
              h.page = "paths" \/ (h.page = "admin" /\ "path" \in DOMAIN h.set)
         /\ x \in {"stub", "certbot", "fullchain", "privkey", "host", "sni"} =>
              h.page = "domain"
         /\ x \in {"backup", "tune", "save"} => h.page = "perf"
         /\ x = "timer" => h.page # "perf"
         /\ x \in Key \ {"xhttp"} => x \in DOMAIN h.set
BY DEF Shaped, Full, Script, Field, Helper, Key, HttpKey

(* What every step starts from.                                            *)
LEMMA AtStep ==
  ASSUME HelpersInv, NEW r \in Req, NEW x \in Step, At(r, x)
  PROVE  /\ helper[r] \in Helper /\ Shaped(helper[r]) /\ helper[r].at = "runs"
         /\ x \in Full(helper[r]) /\ x \in helper[r].todo /\ x \notin Done(helper[r])
         /\ helper[r].todo \subseteq Full(helper[r])
         /\ \A s \in Full(helper[r]) :
              /\ Rank(s) < Rank(x) => s \in Done(helper[r])
              /\ Rank(x) < Rank(s) => s \notin Done(helper[r])
         /\ \A k \in DOMAIN helper[r].set : helper[r].set[k] \in Value
         /\ helper[r].alone => Worked(helper[r]) /\ Revertible(helper[r])
         /\ CopyTypes
<1>1. /\ helper[r] \in Helper /\ Shaped(helper[r]) /\ helper[r].at = "runs"
      /\ x \in Full(helper[r]) /\ x \in helper[r].todo /\ helper[r].todo \subseteq Full(helper[r])
  BY DEF HelpersInv, TypeInv, ShapeInv, Shaped, At
<1>2. \A s \in Full(helper[r]) :
        /\ Rank(s) < Rank(x) => s \in Done(helper[r])
        /\ Rank(x) < Rank(s) => s \notin Done(helper[r])
  BY <1>1, InOrder DEF Done
<1>3. \A k \in DOMAIN helper[r].set : helper[r].set[k] \in Value
  BY <1>1, FieldsFacts DEF Helper
<1> QED BY <1>1, <1>2, <1>3 DEF HelpersInv, TypeInv, WorkInv, Done

---------------------------------------------------------------------------
(* The steps of the scripts *)

(* sed's copy holds the new line and, if nobody else wrote, the rest as it *)
(* is; the others' lines that it takes back are answered for.              *)
LEMMA EditConfFacts ==
  ASSUME HelpersInv, NEW r \in Req, NEW k \in Key, EditConf(r, k)
  PROVE  /\ k \in Step \ {"timer", "save", "source"} /\ At(r, k) /\ Due(r, k)
         /\ conf' \in Conf /\ conf'[k] = Line(r, k) /\ Line(r, k) \in Value
         /\ \A j \in Key \ {k} : conf'[j] = conf[j] \/ (~helper[r].alone /\ Blamed(j))
<1> DEFINE h == helper[r]
<1>1. At(r, k) /\ Due(r, k)
  BY DEF EditConf
<1>2. h \in Helper /\ Shaped(h) /\ conf \in Conf
  BY DEF HelpersInv, TypeInv, ShapeInv, CopyTypes
<1>3. k \in Full(h) /\ h.at = "runs"
  BY <1>1, <1>2 DEF At, Shaped
<1>4. k \in Step \ {"timer", "save", "source"}
  BY <1>2, <1>3, ScriptIsSteps DEF Key, HttpKey
<1>5. Line(r, k) \in Value
  <2>1. k # "xhttp" => k \in DOMAIN h.set
    BY <1>2, <1>3, StepPage
  <2>2. k # "xhttp" => h.set[k] \in Value
    BY <1>1, <1>4, <2>1, AtStep
  <2> QED BY <2>2, ValueAssumption DEF Line
<1>6. CASE h.draft = Nothing
  <2>1. conf[k] = Unset /\ conf' = [conf EXCEPT ![k] = Line(r, k)]
    BY <1>6 DEF EditConf
  <2>2. k = "xhttp"
    BY <1>2, <2>1, ValueAssumption DEF Conf
  <2>3. conf' \in [Key -> Value \cup {Unset}] /\ \A j \in Key \ {k} : conf'[j] = conf[j]
    BY <1>2, <1>5, <2>1 DEF Conf
  <2>4. conf'[k] = Line(r, k)
    BY <1>2, <2>1 DEF Conf
  <2>5. conf' \in Conf
    BY <1>2, <2>2, <2>3 DEF Conf
  <2> QED BY <1>1, <1>4, <1>5, <2>3, <2>4, <2>5
<1>7. CASE h.draft # Nothing
  <2>1. conf' = h.draft /\ conf' \in Conf
    BY <1>2, <1>7 DEF EditConf, Helper
  <2>2. PICK i \in Key : Drafted(r, i)
    BY <1>7 DEF HelpersInv, DraftInv
  <2>3. i = k
    <3>1. At(r, i)
      BY <2>2 DEF Drafted
    <3> QED BY <1>1, <1>2, <3>1, OneStep
  <2>4. /\ conf'[k] = Line(r, k)
        /\ \A j \in Key \ {k} : conf'[j] = conf[j] \/ (~h.alone /\ Blamed(j))
    BY <2>1, <2>2, <2>3 DEF Drafted
  <2> QED BY <1>1, <1>4, <1>5, <2>1, <2>4
<1> QED BY <1>6, <1>7

(* The copies of a line that has changed are those that it is rendered to. *)
LEMMA LinesSpare ==
  ASSUME CopyTypes, conf' \in Conf, NEW r \in Req,
         UNCHANGED <<http, xray, token, cert, live, conns, nginx>>, debt \subseteq debt',
         helper[r].page # "perf",
         \A k \in Key : conf'[k] = conf[k] \/ Blamed(k) \/ Excused(r, TRUE, k)
  PROVE  Spares(r, TRUE)
<1> DEFINE Answered(p) == p \in debt' \/ Writer(p) \/ p \in Touched(helper[r])
<1>1. \A k \in Key : conf'[k] = conf[k] \/ \A p \in Copies(k) : Answered(p)
  BY DEF Blamed, Excused
<1>2. Answered("http") \/ HttpOf(conf)' = HttpOf(conf)
  <2>1. \A k \in HttpKey : "http" \in Copies(k) /\ k \in Key
    BY DEF Copies, HttpKey, Key
  <2> HIDE DEF Answered
  <2> QED BY <1>1, <2>1 DEF HttpOf
<1>3. Answered("xray") \/ XrayOf(conf)' = XrayOf(conf)
  <2>1. \A k \in {"ws", "xhttp"} : "xray" \in Copies(k) /\ k \in Key
    BY DEF Copies, HttpKey, Key
  <2> HIDE DEF Answered
  <2> QED BY <1>1, <2>1 DEF XrayOf
<1>4. /\ Answered("token") \/ conf'["ws"] = conf["ws"]
      /\ Answered("xhttp") \/ conf'["xhttp"] = conf["xhttp"]
      /\ Answered("cert") \/ (conf'["host"] = conf["host"] /\ conf'["sni"] = conf["sni"])
  <2>1. /\ "token" \in Copies("ws") /\ "xhttp" \in Copies("xhttp")
        /\ "cert" \in Copies("host") /\ "cert" \in Copies("sni")
        /\ {"ws", "xhttp", "host", "sni"} \subseteq Key
    BY DEF Copies, HttpKey, Key
  <2> HIDE DEF Answered
  <2> QED BY <1>1, <2>1
<1>5. ASSUME NEW p \in Other PROVE Answered(p) \/ (Agrees(p) => Agrees(p)')
  <2>1. CASE p = "http"
    BY <1>2, <2>1 DEF Agrees
  <2>2. CASE p = "xhttp"
    BY <1>4, <2>2 DEF Agrees, Snippet
  <2>3. CASE p = "token"
    BY <1>4, <2>3 DEF Agrees
  <2>4. CASE p = "cert"
    BY <1>4, <2>4 DEF Agrees
  <2>5. CASE p = "conns"
    BY <2>5 DEF Agrees
  <2> QED BY <2>1, <2>2, <2>3, <2>4, <2>5 DEF Other
<1> QED BY <1>3, <1>5 DEF Spares

LEMMA EditConfKeeps ==
  ASSUME HelpersInv, NEW r \in Req, NEW k \in Key, EditConf(r, k)
  PROVE  HelpersInv'
<1> DEFINE h == helper[r]
           e == IF k = "xhttp" THEN [h.env EXCEPT !["xhttp"] = Base] ELSE h.env
<1>1. /\ k \in Step \ {"timer", "save", "source"} /\ At(r, k) /\ Due(r, k)
      /\ conf' \in Conf /\ conf'[k] = Line(r, k)
      /\ \A j \in Key \ {k} : conf'[j] = conf[j] \/ (~h.alone /\ Blamed(j))
  BY EditConfFacts
<1>2. /\ h \in Helper /\ Shaped(h) /\ h.at = "runs" /\ k \in Full(h) /\ CopyTypes
      /\ h.alone => Worked(h) /\ Revertible(h)
  BY <1>1, AtStep
<1>3. /\ UNCHANGED <<http, xray, token, cert, live, conns, nginx, mem, timers, last, shown>>
      /\ debt' = IF k = "xhttp" THEN debt \cup {"xhttp"} ELSE debt
  BY DEF EditConf, servedVars
<1>4. /\ k # "xhttp" => k \in DOMAIN h.set /\ Line(r, k) = h.set[k]
      /\ h.page # "perf"
  BY <1>2, StepPage DEF Line, Key, HttpKey
<1>5. k = "xhttp" =>
        /\ h.page = "paths" /\ {"source", "render", "install"} \subseteq Done(h)
        /\ h.env \in Conf /\ "xray" \in Touched(h)
  <2> SUFFICES ASSUME k = "xhttp"
               PROVE  /\ h.page = "paths" /\ {"source", "render", "install"} \subseteq Done(h)
                      /\ h.env \in Conf /\ "xray" \in Touched(h)
    OBVIOUS
  <2>1. h.page = "paths" /\ "xray" \in Touched(h)
    BY <1>2, StepPage, TouchedFacts
  <2>2. {"source", "render", "install"} \subseteq Full(h)
    BY <2>1 DEF Full, Script
  <2>3. {"source", "render", "install"} \subseteq Done(h)
    BY <1>1, <2>2, AtStep DEF Rank
  <2> QED BY <1>2, <2>1, <2>3 DEF Shaped
<1>6. k = "xhttp" =>
        e \in Conf /\ e["xhttp"] = Base /\ \A j \in Key \ {"xhttp"} : e[j] = h.env[j]
  BY <1>5, ValueAssumption DEF Conf, Key
<1>7. Advances(r, k, TRUE, e)
  <2>1. helper \in [Req -> Helper] /\ debt \subseteq Part
    BY DEF HelpersInv, TypeInv
  <2> DEFINE l == [h EXCEPT !.todo = @ \ {k}, !.draft = Nothing, !.wrote = TRUE, !.env = e]
  <2>2. helper' = [helper EXCEPT ![r] = l]
    BY DEF EditConf
  <2>3. l \in Helper
    BY <1>2, <1>6 DEF Helper
  <2>4. "source" \in Done(h) => e \in Conf
    BY <1>2, <1>6 DEF Shaped
  <2>5. debt \subseteq debt' /\ debt' \subseteq Part
    BY <1>3, <2>1 DEF Part
  <2>6. k # "source"
    BY <1>1
  <2> HIDE DEF e
  <2> QED BY <1>1, <1>2, <1>3, <2>1, <2>2, <2>3, <2>4, <2>5, <2>6 DEF Advances, Helper
<1>8. CopyTypes'
  BY <1>1, <1>2, <1>3 DEF CopyTypes
<1>9. Excused(r, TRUE, k)
  <2>1. \A p \in Copies(k) : p \in debt' \/ p \in Touched(h)
    <3>1. CASE k = "xhttp"
      BY <1>3, <1>5, <3>1 DEF Copies
    <3>2. CASE k = "client"
      BY <1>2, <3>2, StepPage, TouchedFacts DEF Copies
    <3>3. CASE k = "ws"
      BY <1>2, <1>4, <3>3, StepPage, TouchedFacts DEF Copies
    <3>4. CASE k = "path"
      BY <1>2, <1>4, <3>4, StepPage, TouchedFacts DEF Copies
    <3>5. CASE k = "uuid"
      BY <3>5 DEF Copies
    <3>6. CASE k \in {"host", "sni"}
      BY <1>2, <3>6, StepPage, TouchedFacts DEF Copies
    <3> QED BY <3>1, <3>2, <3>3, <3>4, <3>5, <3>6 DEF Key, HttpKey
  <2>2. k \in {"path", "uuid"} => h.page = "admin"
    BY <1>2, StepPage
  <2> QED BY <2>1, <2>2 DEF Excused
<1>10. \A j \in Key : conf'[j] = conf[j] \/ Blamed(j) \/ Excused(r, TRUE, j)
  BY <1>1, <1>9
<1>11. Spares(r, TRUE)
  BY <1>1, <1>2, <1>3, <1>4, <1>7, <1>10, LinesSpare DEF Advances
<1>12. ASSUME h.alone PROVE Worked(helper[r])' /\ Revertible(helper[r])'
  <2>1. Done(helper'[r]) = Done(h) \cup {k}
    BY <1>7, AdvanceShape DEF HelpersInv
  <2>2. conf'[k] = Line(r, k) /\ \A j \in Key \ {k} : conf'[j] = conf[j]
    BY <1>1, <1>12
  <2>3. {"xrender", "xinstall", "psql", "reload"} \cap Done(h) = {}
    <3>1. ASSUME NEW s \in {"xrender", "xinstall", "psql", "reload"}, s \in Done(h) PROVE FALSE
      <4>1. s \in Full(h)
        BY <3>1 DEF Done
      <4>2. Rank(k) < Rank(s)
        BY DEF Rank, Key, HttpKey
      <4> QED BY <1>1, <3>1, <4>1, <4>2, AtStep
    <3> QED BY <3>1
  <2>4. \A j \in DOMAIN h.set \cap Key : j \in Done(helper'[r]) => conf'[j] = h.set[j]
    <3>1. "xhttp" \notin DOMAIN h.set
      BY <1>2 DEF Shaped, Helper, Field
    <3> QED BY <1>2, <1>4, <1>12, <2>1, <2>2, <3>1 DEF Worked
  <2>5. "source" \in Done(helper'[r]) => e = conf'
    <3>1. CASE k = "xhttp"
      <4>1. h.env = conf
        BY <1>2, <1>5, <1>12, <3>1 DEF Worked
      <4>2. \A j \in Key : e[j] = conf'[j]
        BY <1>6, <2>2, <3>1, <4>1 DEF Line
      <4>3. e \in [Key -> Value \cup {Unset}] /\ conf' \in [Key -> Value \cup {Unset}]
        BY <1>1, <1>6, <3>1 DEF Conf
      <4> HIDE DEF e
      <4> QED BY <4>2, <4>3
    <3>2. CASE k # "xhttp"
      <4>1. "source" \notin Done(h)
        <5>1. "source" \in Full(h) => Rank(k) < Rank("source")
          BY <1>2, <3>2, StepPage DEF Rank, Key, HttpKey
        <5> QED BY <1>1, <5>1, AtStep DEF Done
      <4> QED BY <1>1, <2>1, <4>1
    <3> QED BY <3>1, <3>2
  <2>6. /\ "render" \in Done(h) /\ "install" \in h.todo => http.new = HttpOf(conf)'
        /\ "install" \in Done(h) => http.file = HttpOf(conf)'
    <3>1. CASE k = "xhttp"
      <4>1. HttpOf(conf)' = HttpOf(conf)
        BY <2>2, <3>1 DEF HttpOf, HttpKey, Key
      <4> QED BY <1>2, <1>12, <4>1 DEF Worked
    <3>2. CASE k # "xhttp"
      <4>1. ASSUME NEW s \in {"render", "install"}, s \in Done(h) PROVE FALSE
        <5>1. s \in Full(h)
          BY <4>1 DEF Done
        <5>2. Rank(k) < Rank(s)
          BY <1>2, <3>2, <5>1, StepPage DEF Rank, Key, HttpKey
        <5> QED BY <1>1, <4>1, <5>1, <5>2, AtStep
      <4> QED BY <4>1
    <3> QED BY <3>1, <3>2
  <2>7. k \notin {"render", "install", "xrender", "xinstall", "psql", "certbot", "fullchain",
                  "privkey", "tune", "reload"}
    BY DEF Key, HttpKey
  <2>8. /\ helper'[r].set = h.set /\ helper'[r].env = e
        /\ helper'[r].todo \subseteq h.todo /\ helper'[r].page = h.page
    BY <1>7 DEF Advances
  <2>9. Worked(helper[r])'
    <3> HIDE DEF e
    <3> QED BY <1>2, <1>3, <1>12, <2>1, <2>3, <2>4, <2>5, <2>6, <2>7, <2>8 DEF Worked
  <2>10. Revertible(helper[r])'
    BY <1>4, <2>8 DEF Revertible
  <2> QED BY <2>9, <2>10
<1>13. \A j \in {"path", "uuid"} :
         IF k = j THEN h.page = "admin" /\ conf'[j] = h.ask[j]
                  ELSE conf'[j] = conf[j] \/ (~h.alone /\ Blamed(j))
  <2>1. k \in {"path", "uuid"} => h.page = "admin" /\ conf'[k] = h.ask[k]
    BY <1>1, <1>2, <1>4, StepPage DEF Shaped
  <2> QED BY <1>1, <2>1 DEF Key, HttpKey
<1> HIDE DEF e
<1> QED BY <1>7, <1>8, <1>10, <1>11, <1>12, <1>13, AdvanceInv

(* config.env is what the rest of the script goes by.                      *)
LEMMA SourceKeeps ==
  ASSUME HelpersInv, NEW r \in Req, Source(r)
  PROVE  HelpersInv'
<1> DEFINE h == helper[r]
<1>1. "source" \in Step /\ At(r, "source")
  BY DEF Source, Step
<1>2. /\ h \in Helper /\ Shaped(h) /\ h.at = "runs" /\ "source" \in Full(h) /\ CopyTypes
      /\ h.alone => Worked(h) /\ Revertible(h)
  BY <1>1, AtStep
<1>3. /\ UNCHANGED <<conf, http, xray, token, cert, live, conns, nginx>>
      /\ UNCHANGED <<mem, timers, last, shown, debt>>
  BY DEF Source, servedVars, frame, obsVars
<1>4. Advances(r, "source", h.wrote, conf)
  <2>1. helper \in [Req -> Helper] /\ conf \in Conf /\ debt \subseteq Part
    BY DEF HelpersInv, TypeInv, CopyTypes
  <2>2. helper' = [helper EXCEPT ![r] = [h EXCEPT !.todo = @ \ {"source"}, !.env = conf]]
    BY <2>1 DEF Source
  <2>3. [h EXCEPT !.todo = @ \ {"source"}, !.env = conf] \in Helper
    BY <2>1 DEF Helper
  <2>4. h.draft = Nothing
    BY <1>1, NoDraft DEF HelpersInv, Key, HttpKey
  <2> QED BY <1>1, <1>3, <2>1, <2>2, <2>3, <2>4 DEF Advances, Helper
<1>5. Spares(r, h.wrote)
  BY <1>3 DEF Spares, Agrees, Snippet, XrayOf, HttpOf
<1>6. ASSUME h.alone PROVE Worked(helper[r])' /\ Revertible(helper[r])'
  <2>1. "render" \notin Done(h) /\ "xrender" \notin Done(h)
    BY <1>1, AtStep DEF Rank, Done
  <2>2. Done(helper'[r]) = Done(h) \cup {"source"}
    BY <1>4, AdvanceShape DEF HelpersInv
  <2>3. Worked(helper[r])'
    BY <1>2, <1>3, <1>4, <1>6, <2>1, <2>2 DEF Worked, Advances, Key, HttpKey
  <2>4. Revertible(helper[r])'
    BY <1>2, <1>3, <1>4, <1>6 DEF Revertible, Advances
  <2> QED BY <2>3, <2>4
<1> QED BY <1>2, <1>3, <1>4, <1>5, <1>6, AdvanceInv DEF CopyTypes

(* The steps that write nothing that anybody goes by.                      *)
LEMMA SkipAdvances ==
  ASSUME HelpersInv, NEW r \in Req, NEW x \in {"xhttp", "stub", "certbot"},
         At(r, x), x = "xhttp" => ~Due(r, x),
         helper' = [helper EXCEPT ![r].todo = @ \ {x}], UNCHANGED frame
  PROVE  /\ Advances(r, x, helper[r].wrote, helper[r].env)
         /\ Done(helper'[r]) = Done(helper[r]) \cup {x}
<1> DEFINE h == helper[r]
           l == [h EXCEPT !.todo = @ \ {x}]
<1>1. helper \in [Req -> Helper] /\ h \in Helper /\ Shaped(h) /\ debt \subseteq Part
  BY DEF HelpersInv, TypeInv, ShapeInv
<1>2. helper' = [helper EXCEPT ![r] = l] /\ l \in Helper
  BY <1>1 DEF Helper
<1>3. h.draft = Nothing
  BY NoDraft DEF HelpersInv, Key, HttpKey
<1>4. x \in Step \ {"timer", "save", "source", "install", "backup"}
  BY DEF Step
<1>5. "source" \in Done(h) => h.env \in Conf
  BY <1>1 DEF Shaped, At
<1>6. Advances(r, x, h.wrote, h.env)
  BY <1>1, <1>2, <1>3, <1>4, <1>5 DEF Advances, frame, obsVars, Helper
<1> QED BY <1>6, AdvanceShape DEF HelpersInv

LEMMA SkipKeeps ==
  ASSUME HelpersInv, NEW r \in Req, NEW x \in {"xhttp", "stub"},
         At(r, x), x = "xhttp" => ~Due(r, x),
         helper' = [helper EXCEPT ![r].todo = @ \ {x}], UNCHANGED <<conf, servedVars, frame>>
  PROVE  HelpersInv'
<1> DEFINE h == helper[r]
<1>1. x \in Step /\ At(r, x)
  BY DEF Step
<1>2. /\ h \in Helper /\ Shaped(h) /\ h.at = "runs" /\ x \in Full(h) /\ CopyTypes
      /\ h.alone => Worked(h) /\ Revertible(h)
  BY <1>1, AtStep
<1>3. /\ UNCHANGED <<conf, http, xray, token, cert, live, conns, nginx>>
      /\ UNCHANGED <<mem, timers, last, shown, debt>>
  BY DEF servedVars, frame, obsVars
<1>4. Advances(r, x, h.wrote, h.env) /\ Done(helper'[r]) = Done(h) \cup {x}
  BY SkipAdvances
<1>5. Spares(r, h.wrote)
  BY <1>3 DEF Spares, Agrees, Snippet, XrayOf, HttpOf
<1>6. ASSUME h.alone PROVE Worked(helper[r])' /\ Revertible(helper[r])'
  <2>1. "xhttp" \notin DOMAIN h.set /\ "stub" \notin DOMAIN h.set
    BY <1>2 DEF Shaped, Helper, Field
  <2>2. \A j \in DOMAIN h.set \cap Key : j \in Done(helper'[r]) => conf'[j] = h.set[j]
    BY <1>2, <1>3, <1>4, <1>6, <2>1 DEF Worked
  <2>3. /\ helper'[r].set = h.set /\ helper'[r].env = h.env /\ helper'[r].todo \subseteq h.todo
        /\ HttpOf(conf)' = HttpOf(conf) /\ XrayOf(conf)' = XrayOf(conf)
    BY <1>3, <1>4 DEF Advances, HttpOf, XrayOf
  <2>4. \A s \in {"source", "render", "install", "xrender", "xinstall", "psql", "certbot",
                 "fullchain", "privkey", "tune", "reload"} : s \in Done(helper'[r]) => s \in Done(h)
    BY <1>4
  <2>5. Worked(helper[r])'
    BY <1>2, <1>3, <1>6, <2>2, <2>3, <2>4 DEF Worked
  <2>6. Revertible(helper[r])'
    BY <1>2, <1>3, <1>4, <1>6 DEF Revertible, Advances
  <2> QED BY <2>5, <2>6
<1>7. \A k \in {"path", "uuid"} : x # k /\ conf'[k] = conf[k]
  BY <1>3
<1>8. CopyTypes'
  BY <1>2, <1>3 DEF CopyTypes
<1> QED BY <1>3, <1>4, <1>5, <1>6, <1>7, <1>8, AdvanceInv

LEMMA KeepXHTTPKeeps ==
  ASSUME HelpersInv, NEW r \in Req, KeepXHTTP(r)
  PROVE  HelpersInv'
BY SkipKeeps DEF KeepXHTTP

(* certbot leaves a certificate where there was none.                      *)
LEMMA CertbotKeeps ==
  ASSUME HelpersInv, NEW r \in Req, Certbot(r)
  PROVE  HelpersInv'
<1> DEFINE h == helper[r]
           x == "certbot"
           host == h.set["host"]
<1>1. x \in Step /\ At(r, x)
  BY DEF Certbot, Step
<1>2. /\ h \in Helper /\ Shaped(h) /\ h.at = "runs" /\ x \in Full(h) /\ CopyTypes
      /\ h.alone => Worked(h) /\ Revertible(h)
  BY <1>1, AtStep
<1>3. /\ UNCHANGED <<conf, frame>> /\ UNCHANGED <<http, xray, token, cert, conns, nginx>>
      /\ live' = [live EXCEPT ![host] = "issued"]
  BY DEF Certbot
<1>4. Advances(r, x, h.wrote, h.env) /\ Done(helper'[r]) = Done(h) \cup {x}
  BY <1>3, SkipAdvances DEF Certbot
<1>5. host \in Value
  <2>1. "host" \in DOMAIN h.set
    BY <1>2, StepPage DEF Shaped
  <2> QED BY <1>1, <2>1, AtStep
<1>6. CopyTypes'
  BY <1>2, <1>3 DEF CopyTypes
<1>7. live'[host] # "none" /\ \A v \in Value : live[v] # "none" => live'[v] # "none"
  BY <1>2, <1>3, <1>5 DEF CopyTypes
<1>8. Spares(r, h.wrote)
  <2>1. \A p \in Other : Agrees(p) => Agrees(p)'
    <3>1. cert.fullchain \in Value
      BY <1>2 DEF CopyTypes
    <3>2. Agrees("cert") => Agrees("cert")'
      BY <1>3, <1>7, <3>1 DEF Agrees
    <3>3. \A p \in Other \ {"cert"} : Agrees(p) => Agrees(p)'
      BY <1>3 DEF Agrees, Snippet, HttpOf, Other
    <3> QED BY <3>2, <3>3
  <2> QED BY <1>3, <2>1 DEF Spares, XrayOf
<1>9. ASSUME h.alone PROVE Worked(helper[r])' /\ Revertible(helper[r])'
  <2>1. Worked(helper[r])'
    BY <1>2, <1>3, <1>4, <1>7, <1>9 DEF Worked, Advances, Key, HttpKey, HttpOf, XrayOf
  <2>2. Revertible(helper[r])'
    BY <1>2, <1>3, <1>4, <1>9 DEF Revertible, Advances, frame, obsVars
  <2> QED BY <2>1, <2>2
<1>10. \A k \in {"path", "uuid"} : x # k /\ conf'[k] = conf[k]
  BY <1>3
<1> QED BY <1>3, <1>4, <1>6, <1>8, <1>9, <1>10, AdvanceInv

LEMMA RenderKeeps ==
  ASSUME HelpersInv, NEW r \in Req, Render(r)
  PROVE  HelpersInv'
<1> DEFINE h == helper[r]
<1>1. "render" \in Step \ (Key \cup {"timer", "save", "source"}) /\ At(r, "render")
  BY DEF Render, Step, Key, HttpKey
<1>2. /\ h \in Helper /\ Shaped(h) /\ h.at = "runs" /\ "render" \in Full(h) /\ CopyTypes
      /\ h.alone => Worked(h) /\ Revertible(h)
  BY <1>1, AtStep
<1>3. /\ UNCHANGED <<conf, xray, token, cert, live, conns, nginx>>
      /\ http.file' = http.file /\ http.new' = HttpOf(h.env)
  BY <1>2 DEF Render, CopyTypes
<1>4. Advances(r, "render", TRUE, h.env)
  BY <1>1, ProceedAdvances DEF HelpersInv, Render
<1>5. h.page \in {"paths", "admin"} /\ "source" \in Full(h) /\ "http" \in Touched(h)
  <2>1. h.page = "paths" \/ (h.page = "admin" /\ "path" \in DOMAIN h.set)
    BY <1>2, StepPage
  <2>2. "source" \in Full(h)
    BY <2>1 DEF Full, Script
  <2> QED BY <1>2, <2>1, <2>2, TouchedFacts
<1>6. "source" \in Done(h) /\ h.env \in Conf
  BY <1>1, <1>2, <1>5, AtStep DEF Rank, Shaped
<1>7. CopyTypes'
  <2>1. HttpOf(h.env) \in HttpFile
    BY <1>6 DEF HttpOf, HttpFile, Conf, Key, HttpKey
  <2> QED BY <1>2, <1>3, <2>1 DEF Render, CopyTypes
<1>8. Spares(r, TRUE)
  BY <1>3, <1>5 DEF Spares, Agrees, Snippet, Other, XrayOf
<1>9. ASSUME h.alone PROVE Worked(helper[r])' /\ Revertible(helper[r])'
  <2>1. "install" \notin Done(h) /\ "reload" \notin Done(h)
    BY <1>1, AtStep DEF Rank, Done
  <2>2. Done(helper'[r]) = Done(h) \cup {"render"}
    BY <1>4, AdvanceShape DEF HelpersInv
  <2>3. Worked(helper[r])'
    BY <1>2, <1>3, <1>4, <1>6, <1>9, <2>1, <2>2 DEF Worked, Advances, Key, HttpKey, HttpOf, XrayOf
  <2>4. Revertible(helper[r])'
    BY <1>4, <1>5 DEF Revertible, Advances
  <2> QED BY <2>3, <2>4
<1>10. \A k \in {"path", "uuid"} : "render" # k /\ conf'[k] = conf[k]
  BY <1>3
<1> QED BY <1>3, <1>4, <1>7, <1>8, <1>9, <1>10, AdvanceInv

(* The steps that leave config.env alone.                                  *)
LEMMA ProceedKeeps ==
  ASSUME HelpersInv, NEW r \in Req,
         NEW x \in Step \ (Key \cup {"timer", "save", "source"}),
         At(r, x), Proceed(r, x), UNCHANGED <<conf, frame>>,
         CopyTypes', Spares(r, TRUE),
         Advances(r, x, TRUE, helper[r].env) /\ Done(helper'[r]) = Done(helper[r]) \cup {x}
           /\ helper[r].alone => Worked(helper[r])' /\ Revertible(helper[r])'
  PROVE  HelpersInv'
<1>1. Advances(r, x, TRUE, helper[r].env)
  BY ProceedAdvances DEF HelpersInv
<1>2. Done(helper'[r]) = Done(helper[r]) \cup {x}
  BY <1>1, AdvanceShape DEF HelpersInv
<1>3. \A k \in {"path", "uuid"} : x # k /\ conf'[k] = conf[k]
  BY DEF Key, HttpKey
<1> QED BY <1>1, <1>2, <1>3, AdvanceInv

LEMMA InstallKeeps ==
  ASSUME HelpersInv, NEW r \in Req, Install(r)
  PROVE  HelpersInv'
<1> DEFINE h == helper[r]
           x == "install"
<1>1. x \in Step \ (Key \cup {"timer", "save", "source"}) /\ At(r, x)
  BY DEF Install, Step, Key, HttpKey
<1>2. /\ h \in Helper /\ Shaped(h) /\ h.at = "runs" /\ x \in Full(h) /\ CopyTypes
      /\ h.alone => Worked(h) /\ Revertible(h)
  BY <1>1, AtStep
<1>3. /\ Proceed(r, x) /\ UNCHANGED <<conf, frame>>
      /\ UNCHANGED <<xray, token, cert, live, conns, nginx>>
      /\ http.new # Unset /\ http' = [file |-> http.new, new |-> Unset]
  BY DEF Install
<1>4. h.page \in {"paths", "admin"} /\ "render" \in Full(h) /\ "http" \in Touched(h)
  <2>1. h.page = "paths" \/ (h.page = "admin" /\ "path" \in DOMAIN h.set)
    BY <1>2, StepPage
  <2>2. "render" \in Full(h)
    BY <2>1 DEF Full, Script
  <2> QED BY <1>2, <2>1, <2>2, TouchedFacts
<1>5. CopyTypes'
  BY <1>2, <1>3 DEF CopyTypes
<1>6. Spares(r, TRUE)
  BY <1>3, <1>4 DEF Spares, Agrees, Snippet, Other, XrayOf
<1>7. ASSUME h.alone, Advances(r, x, TRUE, h.env), Done(helper'[r]) = Done(h) \cup {x}
      PROVE  Worked(helper[r])' /\ Revertible(helper[r])'
  <2>1. "render" \in Done(h) /\ x \in h.todo /\ "reload" \notin Done(h)
    BY <1>1, <1>4, AtStep DEF Rank, Done
  <2>2. http.new = HttpOf(conf)
    BY <1>2, <1>7, <2>1 DEF Worked
  <2>3. Worked(helper[r])'
    BY <1>2, <1>3, <1>7, <2>1, <2>2 DEF Worked, Advances, Key, HttpKey, HttpOf, XrayOf
  <2>4. Revertible(helper[r])'
    BY <1>4, <1>7 DEF Revertible, Advances
  <2> QED BY <2>3, <2>4
<1> QED BY <1>1, <1>3, <1>5, <1>6, <1>7, ProceedKeeps

LEMMA RenderXrayKeeps ==
  ASSUME HelpersInv, NEW r \in Req, RenderXray(r)
  PROVE  HelpersInv'
<1> DEFINE h == helper[r]
           x == "xrender"
<1>1. x \in Step \ (Key \cup {"timer", "save", "source"}) /\ At(r, x)
  BY DEF RenderXray, Step, Key, HttpKey
<1>2. /\ h \in Helper /\ Shaped(h) /\ h.at = "runs" /\ x \in Full(h) /\ CopyTypes
      /\ h.alone => Worked(h) /\ Revertible(h)
  BY <1>1, AtStep
<1>3. /\ Proceed(r, x) /\ UNCHANGED <<conf, frame>>
      /\ UNCHANGED <<http, token, cert, live, conns, nginx>>
      /\ xray' = [xray EXCEPT !.new = XrayOf(h.env)]
  BY DEF RenderXray
<1>4. h.page = "paths" /\ "source" \in Full(h) /\ "xray" \in Touched(h)
  BY <1>2, StepPage, TouchedFacts DEF Full, Script
<1>5. "source" \in Done(h) /\ h.env \in Conf
  BY <1>1, <1>2, <1>4, AtStep DEF Rank, Shaped
<1>6. CopyTypes'
  <2>1. XrayOf(h.env) \in XrayFile
    BY <1>5 DEF XrayOf, XrayFile, Conf, Key, HttpKey
  <2> QED BY <1>2, <1>3, <2>1 DEF CopyTypes
<1>7. Spares(r, TRUE)
  BY <1>3, <1>4 DEF Spares, Agrees, Snippet, Other, HttpOf
<1>8. ASSUME h.alone, Advances(r, x, TRUE, h.env), Done(helper'[r]) = Done(h) \cup {x}
      PROVE  Worked(helper[r])' /\ Revertible(helper[r])'
  <2>1. "xinstall" \notin Done(h) /\ "reload" \notin Done(h)
    BY <1>1, AtStep DEF Rank, Done
  <2>2. h.env = conf /\ xray'.new = XrayOf(conf) /\ xray'.file = xray.file
    BY <1>2, <1>3, <1>5, <1>8 DEF Worked, CopyTypes
  <2>3. Worked(helper[r])'
    BY <1>2, <1>3, <1>8, <2>1, <2>2 DEF Worked, Advances, Key, HttpKey, HttpOf, XrayOf
  <2>4. Revertible(helper[r])'
    BY <1>4, <1>8 DEF Revertible, Advances
  <2> QED BY <2>3, <2>4
<1> QED BY <1>1, <1>3, <1>6, <1>7, <1>8, ProceedKeeps

LEMMA InstallXrayKeeps ==
  ASSUME HelpersInv, NEW r \in Req, InstallXray(r)
  PROVE  HelpersInv'
<1> DEFINE h == helper[r]
           x == "xinstall"
<1>1. x \in Step \ (Key \cup {"timer", "save", "source"}) /\ At(r, x)
  BY DEF InstallXray, Step, Key, HttpKey
<1>2. /\ h \in Helper /\ Shaped(h) /\ h.at = "runs" /\ x \in Full(h) /\ CopyTypes
      /\ h.alone => Worked(h) /\ Revertible(h)
  BY <1>1, AtStep
<1>3. /\ Proceed(r, x) /\ UNCHANGED <<conf, frame>>
      /\ UNCHANGED <<http, token, cert, live, conns, nginx>>
      /\ xray.new # Unset /\ xray' = [xray EXCEPT !.file = xray.new, !.new = Unset]
  BY DEF InstallXray
<1>4. h.page = "paths" /\ "xrender" \in Full(h) /\ "xray" \in Touched(h)
  BY <1>2, StepPage, TouchedFacts DEF Full, Script
<1>5. CopyTypes'
  BY <1>2, <1>3 DEF CopyTypes
<1>6. Spares(r, TRUE)
  BY <1>3, <1>4 DEF Spares, Agrees, Snippet, Other, HttpOf
<1>7. ASSUME h.alone, Advances(r, x, TRUE, h.env), Done(helper'[r]) = Done(h) \cup {x}
      PROVE  Worked(helper[r])' /\ Revertible(helper[r])'
  <2>1. "xrender" \in Done(h) /\ x \in h.todo /\ "reload" \notin Done(h)
    BY <1>1, <1>4, AtStep DEF Rank, Done
  <2>2. xray'.file = XrayOf(conf)
    BY <1>2, <1>3, <1>7, <2>1 DEF Worked, CopyTypes
  <2>3. Worked(helper[r])'
    BY <1>2, <1>3, <1>7, <2>1, <2>2 DEF Worked, Advances, Key, HttpKey, HttpOf, XrayOf
  <2>4. Revertible(helper[r])'
    BY <1>4, <1>7 DEF Revertible, Advances
  <2> QED BY <2>3, <2>4
<1> QED BY <1>1, <1>3, <1>5, <1>6, <1>7, ProceedKeeps

LEMMA UpdateTokenKeeps ==
  ASSUME HelpersInv, NEW r \in Req, UpdateToken(r)
  PROVE  HelpersInv'
<1> DEFINE h == helper[r]
           x == "psql"
<1>1. x \in Step \ (Key \cup {"timer", "save", "source"}) /\ At(r, x)
  BY DEF UpdateToken, Step, Key, HttpKey
<1>2. /\ h \in Helper /\ Shaped(h) /\ h.at = "runs" /\ x \in Full(h) /\ CopyTypes
      /\ h.alone => Worked(h) /\ Revertible(h)
  BY <1>1, AtStep
<1>3. /\ Proceed(r, x) /\ UNCHANGED <<conf, frame>>
      /\ UNCHANGED <<http, xray, cert, live, conns, nginx>>
      /\ token' = h.env["ws"]
  BY DEF UpdateToken
<1>4. h.page = "paths" /\ "source" \in Full(h) /\ "token" \in Touched(h)
  BY <1>2, StepPage, TouchedFacts DEF Full, Script
<1>5. "source" \in Done(h) /\ h.env \in Conf
  <2>1. "source" \in Done(h)
    BY <1>1, <1>4, AtStep DEF Rank
  <2> QED BY <1>2, <2>1 DEF Shaped
<1>6. CopyTypes'
  BY <1>2, <1>3, <1>5 DEF CopyTypes, Conf, Key, HttpKey
<1>7. Spares(r, TRUE)
  BY <1>3, <1>4 DEF Spares, Agrees, Snippet, Other, XrayOf, HttpOf
<1>8. ASSUME h.alone, Advances(r, x, TRUE, h.env), Done(helper'[r]) = Done(h) \cup {x}
      PROVE  Worked(helper[r])' /\ Revertible(helper[r])'
  <2>1. token' = conf["ws"]
    BY <1>2, <1>3, <1>5, <1>8 DEF Worked
  <2>2. Worked(helper[r])'
    BY <1>2, <1>3, <1>8, <2>1 DEF Worked, Advances, Key, HttpKey, HttpOf, XrayOf
  <2>3. Revertible(helper[r])'
    BY <1>4, <1>8 DEF Revertible, Advances
  <2> QED BY <2>2, <2>3
<1> QED BY <1>1, <1>3, <1>6, <1>7, <1>8, ProceedKeeps

LEMMA LinkKeeps ==
  ASSUME HelpersInv, NEW r \in Req, NEW x \in {"fullchain", "privkey"}, Link(r, x)
  PROVE  HelpersInv'
<1> DEFINE h == helper[r]
<1>1. x \in Step \ (Key \cup {"timer", "save", "source"}) /\ At(r, x)
  BY DEF Link, Step, Key, HttpKey
<1>2. /\ h \in Helper /\ Shaped(h) /\ h.at = "runs" /\ x \in Full(h) /\ CopyTypes
      /\ h.alone => Worked(h) /\ Revertible(h)
  BY <1>1, AtStep
<1>3. /\ Proceed(r, x) /\ UNCHANGED <<conf, frame>>
      /\ UNCHANGED <<http, xray, token, live, conns, nginx>>
      /\ cert' = [cert EXCEPT ![x] = h.set["host"]]
  BY DEF Link
<1>4. h.page = "domain" /\ "cert" \in Touched(h) /\ "reload" \in Full(h) /\ h.set["host"] \in Value
  <2>1. h.page = "domain"
    BY <1>2, StepPage
  <2>2. "host" \in DOMAIN h.set /\ "reload" \in Full(h)
    BY <1>2, <2>1 DEF Shaped, Full, Script
  <2> QED BY <1>1, <1>2, <2>1, <2>2, AtStep, TouchedFacts
<1>5. CopyTypes'
  BY <1>2, <1>3, <1>4 DEF CopyTypes
<1>6. Spares(r, TRUE)
  BY <1>3, <1>4 DEF Spares, Agrees, Snippet, Other, XrayOf, HttpOf
<1>7. ASSUME h.alone, Advances(r, x, TRUE, h.env), Done(helper'[r]) = Done(h) \cup {x}
      PROVE  Worked(helper[r])' /\ Revertible(helper[r])'
  <2>1. "reload" \notin Done(h)
    BY <1>1, <1>4, AtStep DEF Rank
  <2>2. /\ cert'[x] = h.set["host"]
        /\ \A file \in {"fullchain", "privkey"} : file # x => cert'[file] = cert[file]
    BY <1>2, <1>3 DEF CopyTypes
  <2>3. Worked(helper[r])'
    BY <1>2, <1>3, <1>7, <2>1, <2>2 DEF Worked, Advances, Key, HttpKey, HttpOf, XrayOf
  <2>4. Revertible(helper[r])'
    BY <1>4, <1>7 DEF Revertible, Advances
  <2> QED BY <2>3, <2>4
<1> QED BY <1>1, <1>3, <1>5, <1>6, <1>7, ProceedKeeps

(* Only a helper that is not idle has written, so beside one that runs     *)
(* alone nobody has.                                                       *)
LEMMA OnlyWriter ==
  ASSUME HelpersInv, NEW q \in Req, helper[q].wrote
  PROVE  /\ InFlight(q)
         /\ \A r \in Req : InFlight(r) /\ helper[r].alone => q = r
<1>1. InFlight(q)
  BY DEF HelpersInv, ShapeInv, Shaped, Idle, InFlight
<1> QED BY <1>1 DEF HelpersInv, AloneInv

LEMMA BackUpConnsKeeps ==
  ASSUME HelpersInv, NEW r \in Req, BackUpConns(r)
  PROVE  HelpersInv'
<1> DEFINE h == helper[r]
           x == "backup"
<1>1. x \in Step \ (Key \cup {"timer", "save", "source"}) /\ At(r, x)
  BY DEF BackUpConns, Step, Key, HttpKey
<1>2. /\ h \in Helper /\ Shaped(h) /\ h.at = "runs" /\ x \in Full(h) /\ x \in h.todo /\ CopyTypes
      /\ h.alone => Worked(h) /\ Revertible(h)
  BY <1>1, AtStep
<1>3. /\ Proceed(r, x) /\ UNCHANGED <<conf, frame>>
      /\ UNCHANGED <<http, xray, token, cert, live, nginx>>
      /\ conns' = [conns EXCEPT !.bak = conns.file]
  BY DEF BackUpConns
<1>4. h.page = "perf" /\ "conns" \in Touched(h) /\ {"reload", "tune"} \subseteq Full(h)
  BY <1>2, StepPage, TouchedFacts DEF Full, Script
<1>5. CopyTypes'
  BY <1>2, <1>3 DEF CopyTypes
<1>6. Spares(r, TRUE)
  BY <1>3, <1>4 DEF Spares, Agrees, Snippet, Other, XrayOf, HttpOf
<1>7. ASSUME h.alone, Advances(r, x, TRUE, h.env), Done(helper'[r]) = Done(h) \cup {x}
      PROVE  Worked(helper[r])' /\ Revertible(helper[r])'
  <2>1. "reload" \notin Done(h) /\ "tune" \notin Done(h)
    BY <1>1, <1>4, AtStep DEF Rank
  <2>2. conns'.file = conns.file /\ conns'.bak = conns.file /\ conns'.saved = conns.saved
    BY <1>2, <1>3 DEF CopyTypes
  <2>3. Worked(helper[r])'
    BY <1>2, <1>3, <1>7, <2>1, <2>2 DEF Worked, Advances, Key, HttpKey, HttpOf, XrayOf
  <2>4. "conns" \in debt \/ (conns.saved = nginx.conns /\ conns.file = nginx.conns)
    <3>1. CASE h.wrote
      BY <1>2, <1>4, <1>7, <2>1, <3>1 DEF Revertible, Done
    <3>2. CASE ~h.wrote
      <4>1. ~Writer("conns")
        BY <1>2, <1>7, <3>2, OnlyWriter DEF Writer, InFlight
      <4>2. "conns" \in debt \/ Agrees("conns")
        BY <4>1 DEF HelpersInv, PartInv, OtherParts, Other
      <4> QED BY <4>2 DEF Agrees
    <3> QED BY <3>1, <3>2
  <2>5. Revertible(helper[r])'
    BY <1>3, <1>7, <2>2, <2>4 DEF Revertible, Advances
  <2> QED BY <2>3, <2>5
<1> QED BY <1>1, <1>3, <1>5, <1>6, <1>7, ProceedKeeps

LEMMA EditConnsKeeps ==
  ASSUME HelpersInv, NEW r \in Req, EditConns(r)
  PROVE  HelpersInv'
<1> DEFINE h == helper[r]
           x == "tune"
<1>1. x \in Step \ (Key \cup {"timer", "save", "source"}) /\ At(r, x)
  BY DEF EditConns, Step, Key, HttpKey
<1>2. /\ h \in Helper /\ Shaped(h) /\ h.at = "runs" /\ x \in Full(h) /\ x \in h.todo /\ CopyTypes
      /\ h.alone => Worked(h) /\ Revertible(h)
  BY <1>1, AtStep
<1>3. /\ Proceed(r, x) /\ UNCHANGED <<conf, frame>>
      /\ UNCHANGED <<http, xray, token, cert, live, nginx>>
      /\ conns' = [conns EXCEPT !.file = h.set["conns"]]
  BY DEF EditConns
<1>4. /\ h.page = "perf" /\ "conns" \in Touched(h) /\ {"reload", "backup"} \subseteq Full(h)
      /\ h.set["conns"] \in Value
  <2>1. h.page = "perf"
    BY <1>2, StepPage
  <2>2. "conns" \in DOMAIN h.set /\ {"reload", "backup"} \subseteq Full(h)
    BY <1>2, <2>1 DEF Shaped, Full, Script
  <2> QED BY <1>1, <1>2, <2>1, <2>2, AtStep, TouchedFacts
<1>5. CopyTypes'
  BY <1>2, <1>3, <1>4 DEF CopyTypes
<1>6. Spares(r, TRUE)
  BY <1>3, <1>4 DEF Spares, Agrees, Snippet, Other, XrayOf, HttpOf
<1>7. ASSUME h.alone, Advances(r, x, TRUE, h.env), Done(helper'[r]) = Done(h) \cup {x}
      PROVE  Worked(helper[r])' /\ Revertible(helper[r])'
  <2>1. "reload" \notin Done(h) /\ "backup" \in Done(h) /\ h.wrote
    BY <1>1, <1>2, <1>4, AtStep DEF Rank, Shaped
  <2>2. conns'.file = h.set["conns"] /\ conns'.bak = conns.bak /\ conns'.saved = conns.saved
    BY <1>2, <1>3 DEF CopyTypes
  <2>3. Worked(helper[r])'
    BY <1>2, <1>3, <1>7, <2>1, <2>2 DEF Worked, Advances, Key, HttpKey, HttpOf, XrayOf
  <2>4. "conns" \in debt \/ (conns.saved = nginx.conns /\ conns.bak = nginx.conns)
    BY <1>2, <1>4, <1>7, <2>1 DEF Revertible, Done
  <2>5. Revertible(helper[r])'
    BY <1>3, <1>7, <2>2, <2>4 DEF Revertible, Advances
  <2> QED BY <2>3, <2>5
<1> QED BY <1>1, <1>3, <1>5, <1>6, <1>7, ProceedKeeps

LEMMA TestPassesKeeps ==
  ASSUME HelpersInv, NEW r \in Req, TestPasses(r)
  PROVE  HelpersInv'
<1> DEFINE h == helper[r]
           x == "test"
<1>1. x \in Step \ (Key \cup {"timer", "save", "source"}) /\ At(r, x)
  BY DEF TestPasses, Step, Key, HttpKey
<1>2. /\ h \in Helper /\ Shaped(h) /\ h.at = "runs" /\ x \in Full(h) /\ x \in h.todo /\ CopyTypes
      /\ h.alone => Worked(h) /\ Revertible(h)
  BY <1>1, AtStep
<1>3. /\ Proceed(r, x) /\ UNCHANGED <<conf, frame>>
      /\ UNCHANGED <<http, xray, token, cert, live, conns, nginx>>
  BY DEF TestPasses, servedVars
<1>4. CopyTypes'
  BY <1>2, <1>3 DEF CopyTypes
<1>5. Spares(r, TRUE)
  BY <1>3 DEF Spares, Agrees, Snippet, Other, XrayOf, HttpOf
<1>6. ASSUME h.alone, Advances(r, x, TRUE, h.env), Done(helper'[r]) = Done(h) \cup {x}
      PROVE  Worked(helper[r])' /\ Revertible(helper[r])'
  <2>1. Worked(helper[r])'
    BY <1>2, <1>3, <1>6 DEF Worked, Advances, Key, HttpKey, HttpOf, XrayOf
  <2>2. h.page = "perf" => h.wrote
    <3>1. h.page = "perf" => "backup" \in Full(h)
      BY DEF Full, Script
    <3> QED BY <1>1, <1>2, <3>1, AtStep DEF Rank, Shaped
  <2>3. Revertible(helper[r])'
    BY <1>2, <1>3, <1>6, <2>2 DEF Revertible, Advances
  <2> QED BY <2>1, <2>3
<1> QED BY <1>1, <1>3, <1>4, <1>5, <1>6, ProceedKeeps

LEMMA ReloadKeeps ==
  ASSUME HelpersInv, NEW r \in Req, Reload(r)
  PROVE  HelpersInv'
<1> DEFINE h == helper[r]
           x == "reload"
<1>1. x \in Step \ (Key \cup {"timer", "save", "source"}) /\ At(r, x)
  BY DEF Reload, Step, Key, HttpKey
<1>2. /\ h \in Helper /\ Shaped(h) /\ h.at = "runs" /\ x \in Full(h) /\ x \in h.todo /\ CopyTypes
      /\ h.alone => Worked(h) /\ Revertible(h)
  BY <1>1, AtStep
<1>3. /\ Proceed(r, x) /\ UNCHANGED <<conf, frame>>
      /\ UNCHANGED <<http, xray, token, cert, live>>
      /\ conns' = IF h.page = "perf" THEN [conns EXCEPT !.bak = Unset] ELSE conns
  BY DEF Reload
<1>4. nginx'.http = http.file /\ nginx'.cert = cert /\ nginx'.conns = conns.file
  BY DEF Reload, Loaded
<1>5. conns'.file = conns.file /\ conns'.saved = conns.saved
  BY <1>2, <1>3 DEF CopyTypes
<1>6. CopyTypes'
  BY <1>2, <1>3 DEF CopyTypes, Reload, Loaded
<1>7. Spares(r, TRUE)
  <2>1. \A p \in Other : Agrees(p) => Agrees(p)'
    BY <1>3, <1>4, <1>5 DEF Agrees, Snippet, Other, HttpOf
  <2> QED BY <1>3, <2>1 DEF Spares, XrayOf
<1>8. ASSUME h.alone, Advances(r, x, TRUE, h.env), Done(helper'[r]) = Done(h) \cup {x}
      PROVE  Worked(helper[r])' /\ Revertible(helper[r])'
  <2>1. Worked(helper[r])'
    BY <1>2, <1>3, <1>4, <1>5, <1>8 DEF Worked, Advances, Key, HttpKey, HttpOf, XrayOf
  <2>2. Revertible(helper[r])'
    BY <1>8 DEF Revertible, Advances
  <2> QED BY <2>1, <2>2
<1> QED BY <1>1, <1>3, <1>6, <1>7, <1>8, ProceedKeeps

(* Whoever removes a lineage answers for the certificate.                  *)
LEMMA RemoveStubKeeps ==
  ASSUME HelpersInv, NEW r \in Req, RemoveStub(r)
  PROVE  HelpersInv'
<1> DEFINE h == helper[r]
           x == "stub"
           host == h.set["host"]
<1>1. x \in Step \ (Key \cup {"timer", "save", "source"}) /\ At(r, x)
  BY DEF RemoveStub, Step, Key, HttpKey
<1>2. /\ h \in Helper /\ Shaped(h) /\ h.at = "runs" /\ x \in Full(h) /\ x \in h.todo /\ CopyTypes
      /\ h.alone => Worked(h) /\ Revertible(h)
  BY <1>1, AtStep
<1>3. CASE live[host] # "stub"
  BY <1>1, <1>3, SkipKeeps DEF RemoveStub, servedVars
<1>4. CASE live[host] = "stub"
  <2>1. /\ Proceed(r, x) /\ UNCHANGED <<conf, frame>>
        /\ UNCHANGED <<http, xray, token, cert, conns, nginx>>
        /\ live' = [live EXCEPT ![host] = "none"]
    BY <1>4 DEF RemoveStub
  <2>2. h.page = "domain" /\ "cert" \in Touched(h) /\ "certbot" \in Full(h)
    BY <1>2, StepPage, TouchedFacts DEF Full, Script
  <2>3. CopyTypes'
    BY <1>2, <2>1 DEF CopyTypes
  <2>4. Spares(r, TRUE)
    BY <2>1, <2>2 DEF Spares, Agrees, Snippet, Other, XrayOf, HttpOf
  <2>5. ASSUME h.alone, Advances(r, x, TRUE, h.env), Done(helper'[r]) = Done(h) \cup {x}
        PROVE  Worked(helper[r])' /\ Revertible(helper[r])'
    <3>1. "certbot" \notin Done(h)
      BY <1>1, <2>2, AtStep DEF Rank
    <3>2. Worked(helper[r])'
      BY <1>2, <2>1, <2>5, <3>1 DEF Worked, Advances, Key, HttpKey, HttpOf, XrayOf
    <3>3. Revertible(helper[r])'
      BY <2>2, <2>5 DEF Revertible, Advances
    <3> QED BY <3>2, <3>3
  <2> QED BY <1>1, <2>1, <2>3, <2>4, <2>5, ProceedKeeps
<1> QED BY <1>3, <1>4

---------------------------------------------------------------------------
(* A script stops *)

(* Of a stopped script nothing is left that answers for anything.          *)
LEMMA StopWriters ==
  ASSUME HelpersInv, NEW r \in Req, InFlight(r), Stop(r)
  PROVE  /\ \A p : Writer(p) => Writer(p)' \/ (helper[r].wrote /\ p \in Touched(helper[r]))
         /\ (\E q \in Req : helper[q].wrote /\ helper[q].page # "perf") =>
              \/ \E q \in Req : helper'[q].wrote /\ helper'[q].page # "perf"
              \/ helper[r].wrote /\ helper[r].page # "perf"
         /\ helper[r].alone => \A q \in Req : helper[q].wrote => q = r
<1>1. \A q \in Req \ {r} : helper'[q] = helper[q]
  BY DEF Stop, HelpersInv, TypeInv
<1>2. helper[r].alone => \A q \in Req : helper[q].wrote => q = r
  BY OnlyWriter
<1> QED BY <1>1, <1>2 DEF Writer, Touched

LEMMA TouchedIsPart ==
  ASSUME NEW h PROVE Touched(h) \subseteq Part \ {"daemon"}
BY DEF Touched, Part

(* What remains to be shown then: that what it has written is accounted    *)
(* for, and that the login on show is the one that config.env holds.       *)
LEMMA StopKeeps ==
  ASSUME HelpersInv, NEW r \in Req, InFlight(r), Stop(r),
         CopyTypes', UNCHANGED mem, timers' \in [Service -> Nat],
         last' \in {"none", "no change", "applied", "failed", "cut off"},
         shown' \in [path: Value, uuid: Value, sure: BOOLEAN], debt' \subseteq Part,
         PartInv', UNCHANGED conf,
         \/ helper[r].alone
         \/ /\ debt \cup Spoilt(helper[r]) \subseteq debt'
            /\ shown'.sure => shown.sure /\ ~(helper[r].page = "admin" /\ helper[r].wrote),
         shown'.sure =>
           \/ shown'.path = conf'["path"] /\ shown'.uuid = conf'["uuid"]
           \/ \E q \in Req \ {r} : helper[q].wrote /\ helper[q].page = "admin"
  PROVE  HelpersInv'
<1>1. helper \in [Req -> Helper]
  BY DEF HelpersInv, TypeInv
<1>2. helper'[r] = Idle /\ \A q \in Req \ {r} : helper'[q] = helper[q]
  BY <1>1 DEF Stop
<1>3. helper' \in [Req -> Helper]
  BY <1>1, IdleIsHelper DEF Stop
<1>4. \A q \in Req : ~(helper'[q].at # "idle" /\ helper'[q].alone)
  <2>1. Idle.at = "idle"
    BY DEF Idle
  <2>2. \A q \in Req \ {r} : ~(helper[q].at # "idle" /\ helper[q].alone)
    BY DEF HelpersInv, AloneInv, InFlight
  <2> QED BY <1>2, <2>1, <2>2
<1>5. TypeInv'
  BY <1>3 DEF HelpersInv, TypeInv
<1>6. Shaped(Idle)
  BY DEF Shaped, Idle
<1>7. ShapeInv'
  BY <1>2, <1>6 DEF HelpersInv, ShapeInv
<1>8. AloneInv' /\ WorkInv'
  BY <1>4 DEF AloneInv, WorkInv, InFlight
<1>9. \A q \in Req : helper'[q].page = "admin" => helper'[q].at # "idle"
  <2>1. Idle.page = "none"
    BY DEF Idle
  <2> QED BY <1>7, <2>1 DEF ShapeInv, Shaped
<1>10. LoginInv'
  <2>1. \A q \in Req : LoginKnown(helper[q])'
    BY <1>4, <1>9 DEF LoginKnown
  <2> QED BY <1>2, <2>1 DEF LoginInv
<1>11. DraftInv'
  <2> SUFFICES ASSUME NEW q \in Req, helper'[q].draft # Nothing
               PROVE  \E k \in Key : Drafted(q, k)'
    BY DEF DraftInv
  <2>1. q # r /\ helper'[q] = helper[q]
    <3>1. Idle.draft = Nothing
      BY DEF Idle
    <3> QED BY <1>2, <3>1
  <2>2. PICK k \in Key : Drafted(q, k)
    BY <2>1 DEF HelpersInv, DraftInv
  <2>3. ~helper[r].alone
    BY <2>1, <2>2 DEF Drafted, At, HelpersInv, AloneInv, InFlight
  <2>4. \A p : p \in debt \/ Writer(p) => p \in debt' \/ Writer(p)'
    BY <2>3, StopWriters DEF Spoilt
  <2>5. (~shown.sure \/ \E i \in Req : helper[i].wrote /\ helper[i].page = "admin") =>
           \/ ~shown'.sure
           \/ \E i \in Req : helper'[i].wrote /\ helper'[i].page = "admin"
    BY <1>2, <2>3
  <2>6. \A j \in Key : Blamed(j) => Blamed(j)'
    BY <2>4, <2>5 DEF Blamed
  <2> QED BY <2>1, <2>2, <2>6 DEF Drafted, At, Due, Line
<1> QED BY <1>5, <1>7, <1>8, <1>10, <1>11 DEF HelpersInv

(* With the blame for whatever it has touched, a script may stop anywhere. *)
LEMMA BlamedParts ==
  ASSUME HelpersInv, NEW r \in Req, InFlight(r), Stop(r),
         UNCHANGED <<conf, mem, http, token, cert, live, nginx>>,
         xray'.file = xray.file, xray'.run = xray.run,
         "conns" \in debt' \/ UNCHANGED conns,
         Spoilt(helper[r]) \subseteq debt', debt \subseteq debt',
         timers \in [Service -> Nat], timers' \in [Service -> Nat],
         timers'["xray"] >= timers["xray"],
         timers # NoTimers => timers' # NoTimers,
         \/ "daemon" \in debt' \/ timers' # NoTimers
         \/ ~(helper[r].wrote /\ helper[r].page # "perf")
  PROVE  PartInv'
<1>1. \A p : Writer(p) => Writer(p)' \/ p \in debt'
  BY StopWriters DEF Spoilt
<1>2. DaemonPart'
  BY StopWriters DEF HelpersInv, PartInv, DaemonPart
<1>3. XrayPart'
  BY <1>1 DEF HelpersInv, PartInv, XrayPart, XrayOf, Service
<1>4. OtherParts'
  <2> SUFFICES ASSUME NEW p \in Other
               PROVE  p \in debt' \/ Writer(p)' \/ Agrees(p)'
    BY DEF OtherParts
  <2>1. p \in debt \/ Writer(p) \/ Agrees(p)
    BY DEF HelpersInv, PartInv, OtherParts
  <2>2. p \in debt' \/ (Agrees(p) => Agrees(p)')
    BY DEF Agrees, Snippet, Other, HttpOf
  <2> QED BY <1>1, <2>1, <2>2
<1> QED BY <1>2, <1>3, <1>4 DEF PartInv

(* A script that ran alone is quit of what it has touched if that agrees.  *)
LEMMA AgreedParts ==
  ASSUME HelpersInv, NEW r \in Req, InFlight(r), Stop(r), helper[r].alone,
         UNCHANGED <<conf, mem, http, xray, token, cert, live, nginx>>,
         "conns" \in Touched(helper[r]) \/ UNCHANGED conns,
         debt' = debt \ Touched(helper[r]),
         timers \in [Service -> Nat], timers' \in [Service -> Nat],
         timers'["xray"] >= timers["xray"],
         timers # NoTimers => timers' # NoTimers,
         timers' # NoTimers \/ ~(helper[r].wrote /\ helper[r].page # "perf"),
         \A p \in Touched(helper[r]) \cap Other : Agrees(p)',
         "xray" \in Touched(helper[r]) => xray.file = XrayOf(conf) /\ timers'["xray"] > 0
  PROVE  PartInv'
<1>1. \A p : Writer(p) => p \in Touched(helper[r])
  BY StopWriters DEF Writer
<1>2. DaemonPart'
  <2>1. "daemon" \in debt => "daemon" \in debt'
    BY TouchedIsPart
  <2> QED BY <2>1, StopWriters DEF HelpersInv, PartInv, DaemonPart
<1>3. XrayPart'
  <2>1. CASE "xray" \in Touched(helper[r])
    BY <2>1 DEF XrayPart, XrayOf
  <2>2. CASE "xray" \notin Touched(helper[r])
    BY <1>1, <2>2 DEF HelpersInv, PartInv, XrayPart, XrayOf, Service
  <2> QED BY <2>1, <2>2
<1>4. OtherParts'
  <2> SUFFICES ASSUME NEW p \in Other
               PROVE  p \in debt' \/ Writer(p)' \/ Agrees(p)'
    BY DEF OtherParts
  <2>1. CASE p \in Touched(helper[r])
    BY <2>1
  <2>2. CASE p \notin Touched(helper[r])
    <3>1. p \in debt \/ Agrees(p)
      BY <1>1, <2>2 DEF HelpersInv, PartInv, OtherParts
    <3>2. p = "conns" => UNCHANGED conns
      BY <2>2
    <3>3. Agrees(p) => Agrees(p)'
      BY <3>2 DEF Agrees, Snippet, Other, HttpOf
    <3> QED BY <2>2, <3>1, <3>3
  <2> QED BY <2>1, <2>2
<1> QED BY <1>2, <1>3, <1>4 DEF PartInv

(* Exit 0: alone, the copies and the login on show are as config.env says. *)
LEMMA ExitOKKeeps ==
  ASSUME HelpersInv, NEW r \in Req, InFlight(r), ExitOK(r),
         CopyTypes', UNCHANGED <<conf, mem, http, xray, token, cert, live, nginx>>,
         "conns" \in Touched(helper[r]) \/ UNCHANGED conns,
         timers'["xray"] >= timers["xray"], timers' \in [Service -> Nat],
         timers # NoTimers => timers' # NoTimers,
         timers' # NoTimers \/ ~(helper[r].wrote /\ helper[r].page # "perf"),
         helper[r].alone =>
           /\ \A p \in Touched(helper[r]) \cap Other : Agrees(p)'
           /\ "xray" \in Touched(helper[r]) => xray.file = XrayOf(conf) /\ timers'["xray"] > 0,
         helper[r].page = "admin" /\ helper[r].alone /\ helper[r].fresh =>
           \A k \in {"path", "uuid"} : NewLogin(helper[r])[k] = conf[k]
  PROVE  HelpersInv'
<1> DEFINE h == helper[r]
<1>1. /\ h \in Helper /\ mem \in Conf /\ timers \in [Service -> Nat] /\ debt \subseteq Part
      /\ shown \in [path: Value, uuid: Value, sure: BOOLEAN]
  BY DEF HelpersInv, TypeInv
<1>2. Stop(r) /\ last' \in {"none", "no change", "applied", "failed", "cut off"}
  BY DEF ExitOK
<1>3. PartInv'
  <2>1. CASE h.alone
    <3>1. debt' = debt \ Touched(h)
      BY <2>1 DEF ExitOK
    <3> QED BY <1>1, <1>2, <2>1, <3>1, AgreedParts
  <2>2. CASE ~h.alone
    <3>1. debt' = debt \cup Touched(h) /\ Spoilt(h) \subseteq debt'
      BY <2>2 DEF ExitOK, Spoilt
    <3> QED BY <1>1, <1>2, <3>1, BlamedParts
  <2> QED BY <2>1, <2>2
<1>4. debt' \subseteq Part
  BY <1>1, TouchedIsPart DEF ExitOK
<1>5. \A k \in {"path", "uuid"} : NewLogin(h)[k] \in Value
  <2>1. \A k \in DOMAIN h.ask : h.ask[k] \in Value
    BY <1>1, FieldsFacts DEF Helper
  <2> QED BY <1>1, <2>1 DEF NewLogin, Field, Conf, Key, HttpKey
<1>6. shown' \in [path: Value, uuid: Value, sure: BOOLEAN]
  BY <1>1, <1>5 DEF ExitOK, Helper
<1>7. shown'.sure =>
        \/ shown'.path = conf'["path"] /\ shown'.uuid = conf'["uuid"]
        \/ \E q \in Req \ {r} : helper[q].wrote /\ helper[q].page = "admin"
  <2>1. CASE h.page = "admin" /\ ~h.late
    BY <2>1 DEF ExitOK
  <2>2. CASE h.page = "admin" /\ h.late
    BY <1>1, <2>2 DEF ExitOK
  <2>3. CASE h.page # "admin"
    BY <2>3 DEF ExitOK, HelpersInv, LoginInv
  <2> QED BY <2>1, <2>2, <2>3
<1>8. ~h.alone => /\ debt \cup Spoilt(h) \subseteq debt'
                  /\ shown'.sure => shown.sure /\ ~(h.page = "admin" /\ h.wrote)
  <2> SUFFICES ASSUME ~h.alone
               PROVE  /\ debt \cup Spoilt(h) \subseteq debt'
                      /\ shown'.sure => shown.sure /\ ~(h.page = "admin" /\ h.wrote)
    OBVIOUS
  <2>1. debt \cup Spoilt(h) \subseteq debt'
    BY DEF ExitOK, Spoilt
  <2>2. CASE h.page = "admin"
    BY <1>1, <2>1, <2>2 DEF ExitOK
  <2>3. CASE h.page # "admin"
    BY <2>1, <2>3 DEF ExitOK
  <2> QED BY <2>2, <2>3
<1> QED BY <1>2, <1>3, <1>4, <1>6, <1>7, <1>8, StopKeeps

LEMMA ScheduleKeeps ==
  ASSUME HelpersInv, NEW r \in Req, Schedule(r)
  PROVE  HelpersInv'
<1> DEFINE h == helper[r]
           first == IF h.page = "paths" /\ "ws" \in DOMAIN h.set THEN "xray" ELSE "daemon"
<1>1. "timer" \in Step /\ At(r, "timer") /\ InFlight(r)
  BY DEF Schedule, Step, At, InFlight
<1>2. /\ h \in Helper /\ Shaped(h) /\ h.at = "runs" /\ "timer" \in Full(h) /\ CopyTypes
      /\ h.alone => Worked(h) /\ Revertible(h)
  BY <1>1, AtStep
<1>3. /\ UNCHANGED <<conf, mem, http, xray, token, cert, live, conns, nginx>> /\ ExitOK(r)
      /\ timers' = [timers EXCEPT ![first] = @ + 1]
  BY DEF Schedule, servedVars
<1>4. timers \in [Service -> Nat]
  BY DEF HelpersInv, TypeInv
<1>5. /\ timers' \in [Service -> Nat] /\ timers'["xray"] >= timers["xray"] /\ timers'[first] > 0
      /\ first \in Service
  BY <1>3, <1>4 DEF Service
<1>6. timers' # NoTimers
  BY <1>5 DEF NoTimers
<1>7. \A s \in Full(h) : s # "timer" /\ s # "save" => s \in Done(h)
  <2>1. \A s \in Full(h) : s # "timer" /\ s # "save" => Rank(s) < Rank("timer")
    BY <1>2, ScriptIsSteps DEF Step, Rank
  <2> QED BY <1>1, <2>1, AtStep
<1>8. h.page \in {"paths", "admin", "domain"}
  BY <1>2, StepPage DEF Helper, Shaped
<1>9. ASSUME h.alone
      PROVE  /\ \A p \in Touched(h) \cap Other : Agrees(p)'
             /\ "xray" \in Touched(h) => xray.file = XrayOf(conf) /\ timers'["xray"] > 0
  <2>1. CASE h.page = "paths"
    <3>1. {"install", "reload"} \subseteq Done(h)
      BY <1>7, <2>1 DEF Full, Script
    <3>2. "ws" \in DOMAIN h.set => {"xinstall", "psql"} \subseteq Done(h)
      BY <1>7, <2>1 DEF Full, Script
    <3>3. http.file = HttpOf(conf) /\ nginx.http = http.file
      BY <1>2, <1>9, <3>1 DEF Worked
    <3>4. "ws" \in DOMAIN h.set =>
            xray.file = XrayOf(conf) /\ token = conf["ws"] /\ timers'["xray"] > 0
      BY <1>2, <1>5, <1>9, <2>1, <3>2 DEF Worked
    <3>5. Agrees("http")' /\ ("ws" \in DOMAIN h.set => Agrees("token")')
      BY <1>3, <3>3, <3>4 DEF Agrees, HttpOf
    <3>6. /\ Touched(h) \cap Other \subseteq {"http", "token"}
          /\ "ws" \in DOMAIN h.set <=> "xray" \in Touched(h)
          /\ "ws" \in DOMAIN h.set <=> "token" \in Touched(h)
      BY <1>2, <2>1, TouchedFacts DEF Other, Touched
    <3> QED BY <3>4, <3>5, <3>6
  <2>2. CASE h.page = "admin"
    <3>1. "path" \in DOMAIN h.set => {"install", "reload"} \subseteq Done(h)
      BY <1>7, <2>2 DEF Full, Script
    <3>2. "path" \in DOMAIN h.set => http.file = HttpOf(conf) /\ nginx.http = http.file
      BY <1>2, <1>9, <3>1 DEF Worked
    <3>3. "path" \in DOMAIN h.set => Agrees("http")'
      BY <1>3, <3>2 DEF Agrees, HttpOf
    <3>4. Touched(h) = IF "path" \in DOMAIN h.set THEN {"http"} ELSE {}
      BY <1>2, <2>2, TouchedFacts
    <3> QED BY <3>3, <3>4
  <2>3. CASE h.page = "domain"
    <3>1. {"certbot", "fullchain", "privkey", "host", "sni", "reload"} \subseteq Done(h)
      BY <1>7, <2>3 DEF Full, Script
    <3>2. /\ live[h.set["host"]] # "none"
          /\ cert.fullchain = h.set["host"] /\ cert.privkey = h.set["host"] /\ nginx.cert = cert
          /\ conf["host"] = h.set["host"] /\ conf["sni"] = h.set["host"]
      BY <1>2, <1>9, <2>3, <3>1 DEF Worked, Shaped, Key
    <3>3. Agrees("cert")'
      BY <1>3, <3>2 DEF Agrees
    <3>4. Touched(h) = {"cert"}
      BY <1>2, <2>3, TouchedFacts
    <3> QED BY <3>3, <3>4
  <2> QED BY <1>8, <2>1, <2>2, <2>3
<1>10. ASSUME h.page = "admin", h.alone, h.fresh, NEW k \in {"path", "uuid"}
       PROVE  NewLogin(h)[k] = conf[k]
  <2>1. /\ k \notin DOMAIN h.ask => conf[k] = mem[k]
        /\ k \in DOMAIN h.ask => conf[k] = h.ask[k] \/ k \in h.todo
    BY <1>2, <1>10 DEF HelpersInv, LoginInv, LoginKnown
  <2>2. k \notin h.todo
    BY <1>1 DEF At, Rank
  <2> QED BY <2>1, <2>2 DEF NewLogin, Field
<1>11. CopyTypes'
  BY <1>2, <1>3 DEF CopyTypes
<1> QED BY <1>1, <1>3, <1>5, <1>6, <1>9, <1>10, <1>11, ExitOKKeeps

LEMMA SaveConnsKeeps ==
  ASSUME HelpersInv, NEW r \in Req, SaveConns(r)
  PROVE  HelpersInv'
<1> DEFINE h == helper[r]
<1>1. "save" \in Step /\ At(r, "save") /\ InFlight(r)
  BY DEF SaveConns, Step, At, InFlight
<1>2. /\ h \in Helper /\ Shaped(h) /\ h.at = "runs" /\ "save" \in Full(h) /\ CopyTypes
      /\ h.alone => Worked(h) /\ Revertible(h)
  BY <1>1, AtStep
<1>3. /\ UNCHANGED <<conf, mem, http, xray, token, cert, live, nginx, timers>> /\ ExitOK(r)
      /\ conns' = [conns EXCEPT !.saved = h.set["conns"]]
  BY DEF SaveConns
<1>4. timers \in [Service -> Nat]
  BY DEF HelpersInv, TypeInv
<1>9. timers' \in [Service -> Nat] /\ timers'["xray"] >= timers["xray"]
  BY <1>3, <1>4 DEF Service
<1>5. h.page = "perf" /\ Touched(h) = {"conns"} /\ {"tune", "reload"} \subseteq Full(h)
  BY <1>2, StepPage, TouchedFacts DEF Full, Script
<1>6. h.set["conns"] \in Value
  BY <1>1, <1>2, <1>5, AtStep DEF Shaped
<1>7. CopyTypes'
  BY <1>2, <1>3, <1>6 DEF CopyTypes
<1>8. ASSUME h.alone PROVE Agrees("conns")'
  <2>1. {"tune", "reload"} \subseteq Done(h)
    BY <1>1, <1>5, AtStep DEF Rank
  <2>2. conns.file = h.set["conns"] /\ nginx.conns = conns.file
    BY <1>2, <1>8, <2>1 DEF Worked
  <2> QED BY <1>2, <1>3, <2>2 DEF Agrees, CopyTypes
<1> QED BY <1>1, <1>3, <1>5, <1>7, <1>8, <1>9, ExitOKKeeps

(* The Performance page gives up, or cannot record the value.              *)
LEMMA SaveConnsLostKeeps ==
  ASSUME HelpersInv, NEW r \in Req, SaveConnsFails(r) \/ SaveConnsSkipped(r)
  PROVE  HelpersInv'
<1> DEFINE h == helper[r]
<1>1. "save" \in Step /\ At(r, "save") /\ InFlight(r)
  BY DEF SaveConnsFails, SaveConnsSkipped, Step, At, InFlight
<1>2. h \in Helper /\ Shaped(h) /\ h.at = "runs" /\ "save" \in Full(h) /\ CopyTypes
  BY <1>1, AtStep
<1>3. /\ UNCHANGED <<conf, mem, http, xray, token, cert, live, conns, nginx, timers, shown>>
      /\ Stop(r)
      /\ last' \in {"applied", "failed"} /\ debt' = debt \cup {"conns"}
  BY DEF SaveConnsFails, SaveConnsSkipped, servedVars
<1>4. h.page = "perf" /\ Touched(h) = {"conns"}
  BY <1>2, StepPage, TouchedFacts
<1>5. /\ timers \in [Service -> Nat] /\ debt \subseteq Part
      /\ shown \in [path: Value, uuid: Value, sure: BOOLEAN]
  BY DEF HelpersInv, TypeInv
<1>9. timers["xray"] >= timers["xray"]
  BY <1>5 DEF Service
<1>6. PartInv'
  BY <1>1, <1>3, <1>4, <1>5, <1>9, BlamedParts DEF Spoilt
<1>7. CopyTypes'
  BY <1>2, <1>3 DEF CopyTypes
<1>8. shown'.sure =>
        \/ shown'.path = conf'["path"] /\ shown'.uuid = conf'["uuid"]
        \/ \E q \in Req \ {r} : helper[q].wrote /\ helper[q].page = "admin"
  BY <1>3, <1>4 DEF HelpersInv, LoginInv
<1>10. debt \cup Spoilt(h) \subseteq debt' /\ ~(h.page = "admin" /\ h.wrote)
  BY <1>3, <1>4 DEF Spoilt
<1> QED BY <1>1, <1>3, <1>5, <1>6, <1>7, <1>8, <1>10, StopKeeps DEF Part

LEMMA FailKeeps ==
  ASSUME HelpersInv, NEW r \in Req, Fail(r)
  PROVE  HelpersInv'
<1> DEFINE h == helper[r]
<1>1. /\ InFlight(r) /\ Stop(r) /\ last' = "failed"
      /\ UNCHANGED <<conf, mem, http, token, cert, live, nginx, timers>>
      /\ xray' = IF At(r, "xrender") THEN [xray EXCEPT !.new = Unset] ELSE xray
  BY DEF Fail, ExitFailed
<1>2. /\ h \in Helper /\ Shaped(h) /\ CopyTypes
      /\ timers \in [Service -> Nat] /\ debt \subseteq Part
      /\ shown \in [path: Value, uuid: Value, sure: BOOLEAN]
  BY DEF HelpersInv, TypeInv, ShapeInv
<1>3. /\ xray'.file = xray.file /\ xray'.run = xray.run
      /\ xray' \in [file: XrayFile, new: XrayFile \cup {Unset}, run: XrayFile]
  BY <1>1, <1>2 DEF CopyTypes
<1>4. timers["xray"] >= timers["xray"]
  BY <1>2 DEF Service
<1>5. CASE Reverts(r)
  <2>1. "test" \in Step /\ At(r, "test") /\ h.page = "perf" /\ conns.bak # Unset
    BY <1>5 DEF Reverts, Step
  <2>2. /\ conns' = [conns EXCEPT !.file = conns.bak, !.bak = Unset] /\ UNCHANGED shown
        /\ debt' = IF h.alone THEN debt ELSE debt \cup {"conns"}
    BY <1>5 DEF Fail
  <2>3. /\ h.at = "runs"
        /\ h.alone => Revertible(h)
        /\ {"backup", "reload"} \subseteq Full(h)
    BY <2>1, AtStep DEF Full, Script
  <2>4. "backup" \in Done(h) /\ "reload" \in h.todo /\ h.wrote
    BY <1>2, <2>1, <2>3, AtStep DEF Rank, Shaped, Done
  <2>5. Touched(h) = {"conns"}
    BY <1>2, <2>1, <2>3, TouchedFacts
  <2>6. PartInv'
    <3>1. CASE h.alone /\ "conns" \notin debt
      <4>1. conns.saved = nginx.conns /\ conns.bak = nginx.conns
        BY <2>1, <2>3, <2>4, <3>1 DEF Revertible
      <4>2. Agrees("conns")'
        BY <1>1, <1>2, <2>2, <4>1 DEF Agrees, CopyTypes
      <4>3. debt' = debt \ Touched(h)
        BY <2>2, <2>5, <3>1
      <4>4. xray' = xray
        BY <1>1, <2>1 DEF At, Rank
      <4> QED BY <1>1, <1>2, <1>4, <2>1, <2>5, <3>1, <4>2, <4>3, <4>4, AgreedParts
    <3>2. CASE ~(h.alone /\ "conns" \notin debt)
      <4>1. "conns" \in debt' /\ debt \subseteq debt'
        BY <2>2, <3>2
      <4>2. Spoilt(h) \subseteq debt'
        BY <2>5, <4>1 DEF Spoilt
      <4> QED BY <1>1, <1>2, <1>3, <1>4, <2>1, <4>1, <4>2, BlamedParts
    <3> QED BY <3>1, <3>2
  <2>7. CopyTypes'
    BY <1>1, <1>2, <1>3, <2>1, <2>2 DEF CopyTypes
  <2>8. shown'.sure =>
           \/ shown'.path = conf'["path"] /\ shown'.uuid = conf'["uuid"]
           \/ \E q \in Req \ {r} : helper[q].wrote /\ helper[q].page = "admin"
    BY <1>1, <2>1, <2>2 DEF HelpersInv, LoginInv
  <2>9. debt' \subseteq Part
    BY <1>2, <2>2 DEF Part
  <2>10. h.alone \/ debt \cup Spoilt(h) \subseteq debt'
    BY <2>2, <2>5 DEF Spoilt
  <2> QED BY <1>1, <1>2, <2>1, <2>2, <2>6, <2>7, <2>8, <2>9, <2>10, StopKeeps
<1>6. CASE ~Reverts(r)
  <2>1. /\ UNCHANGED conns
        /\ debt' = debt \cup Spoilt(h) \cup (IF h.wrote /\ h.page # "perf" THEN {"daemon"} ELSE {})
        /\ shown' = [shown EXCEPT !.sure = @ /\ ~(h.page = "admin" /\ h.wrote)]
    BY <1>6 DEF Fail, ExitFailed
  <2>2. PartInv'
    BY <1>1, <1>2, <1>3, <1>4, <2>1, BlamedParts
  <2>3. CopyTypes'
    BY <1>1, <1>2, <1>3, <2>1 DEF CopyTypes
  <2>4. shown' \in [path: Value, uuid: Value, sure: BOOLEAN]
    BY <1>2, <2>1
  <2>5. shown'.sure =>
           \/ shown'.path = conf'["path"] /\ shown'.uuid = conf'["uuid"]
           \/ \E q \in Req \ {r} : helper[q].wrote /\ helper[q].page = "admin"
    BY <1>1, <1>2, <2>1 DEF HelpersInv, LoginInv
  <2>6. debt' \subseteq Part
    BY <1>2, <2>1, TouchedIsPart DEF Spoilt, Part
  <2>7. /\ debt \cup Spoilt(h) \subseteq debt'
        /\ shown'.sure => shown.sure /\ ~(h.page = "admin" /\ h.wrote)
    BY <1>2, <2>1
  <2> QED BY <1>1, <1>2, <2>2, <2>3, <2>4, <2>5, <2>6, <2>7, StopKeeps
<1> QED BY <1>5, <1>6

---------------------------------------------------------------------------
(* Pages and deadlines *)

(* Nothing moves but the helpers, and those that have written go on        *)
(* answering for it.                                                       *)
LEMMA CopiesStay ==
  ASSUME HelpersInv,
         UNCHANGED <<conf, mem, http, xray, token, cert, live, conns, nginx, timers, shown, debt>>,
         helper' \in [Req -> Helper],
         last' \in {"none", "no change", "applied", "failed", "cut off"},
         \A q \in Req : helper[q].wrote =>
            /\ helper'[q].wrote /\ helper'[q].page = helper[q].page
            /\ helper'[q].set = helper[q].set
  PROVE  /\ TypeInv' /\ PartInv'
         /\ shown'.sure =>
              \/ shown'.path = conf'["path"] /\ shown'.uuid = conf'["uuid"]
              \/ \E q \in Req : helper'[q].wrote /\ helper'[q].page = "admin"
<1>1. TypeInv'
  BY DEF HelpersInv, TypeInv, CopyTypes
<1>2. \A p : Writer(p) => Writer(p)'
  BY DEF Writer, Touched
<1>3. DaemonPart'
  BY DEF HelpersInv, PartInv, DaemonPart
<1>4. XrayPart'
  BY <1>2 DEF HelpersInv, PartInv, XrayPart, XrayOf
<1>5. \A p \in Other : Agrees(p) => Agrees(p)'
  BY DEF Agrees, Snippet, Other, HttpOf
<1>6. OtherParts'
  BY <1>2, <1>5 DEF HelpersInv, PartInv, OtherParts
<1>7. shown'.sure =>
        \/ shown'.path = conf'["path"] /\ shown'.uuid = conf'["uuid"]
        \/ \E q \in Req : helper'[q].wrote /\ helper'[q].page = "admin"
  BY DEF HelpersInv, LoginInv
<1> QED BY <1>1, <1>3, <1>4, <1>6, <1>7 DEF PartInv

(* A draft is good for as long as its script stays where it is.            *)
LEMMA DraftsStay ==
  ASSUME HelpersInv, UNCHANGED conf, debt \subseteq debt', shown'.sure => shown.sure,
         \A q \in Req : helper[q].wrote =>
            /\ helper'[q].wrote /\ helper'[q].page = helper[q].page
            /\ helper'[q].set = helper[q].set,
         NEW r \in Req, helper[r].draft # Nothing, helper'[r].draft = helper[r].draft,
         helper'[r].at = helper[r].at, helper'[r].todo = helper[r].todo,
         helper'[r].set = helper[r].set, helper'[r].env = helper[r].env,
         helper'[r].alone => helper[r].alone
  PROVE  \E k \in Key : Drafted(r, k)'
<1>1. PICK k \in Key : Drafted(r, k)
  BY DEF HelpersInv, DraftInv
<1>2. \A p : p \in debt \/ Writer(p) => p \in debt' \/ Writer(p)'
  BY DEF Writer, Touched
<1>3. (\E i \in Req : helper[i].wrote /\ helper[i].page = "admin") =>
         \E i \in Req : helper'[i].wrote /\ helper'[i].page = "admin"
  OBVIOUS
<1>4. \A j \in Key : Blamed(j) => Blamed(j)'
  BY <1>2, <1>3 DEF Blamed
<1>5. (At(r, k) /\ Due(r, k))' /\ Line(r, k)' = Line(r, k)
  BY <1>1 DEF Drafted, At, Due, Line
<1> QED BY <1>1, <1>4, <1>5 DEF Drafted

LEMMA StutterKeeps ==
  ASSUME HelpersInv,
         UNCHANGED <<conf, mem, http, xray, token, cert, live, conns, nginx>>,
         UNCHANGED <<helper, timers, shown, debt>>,
         last' \in {"none", "no change", "applied", "failed", "cut off"}
  PROVE  HelpersInv'
<1>1. helper' \in [Req -> Helper]
  BY DEF HelpersInv, TypeInv
<1>2. TypeInv' /\ PartInv'
  BY <1>1, CopiesStay
<1>3. ShapeInv' /\ AloneInv'
  BY DEF HelpersInv, ShapeInv, AloneInv, InFlight
<1>4. WorkInv'
  BY DEF HelpersInv, WorkInv, Worked, Revertible, HttpOf, XrayOf
<1>5. LoginInv'
  BY DEF HelpersInv, LoginInv, LoginKnown
<1>6. DraftInv'
  BY DraftsStay DEF DraftInv
<1> QED BY <1>2, <1>3, <1>4, <1>5, <1>6 DEF HelpersInv

(* A script stays where it is: its deadline passes, or sed makes a copy.   *)
LEMMA ScriptStays ==
  ASSUME HelpersInv, NEW r \in Req, InFlight(r), NEW l \in Helper,
         helper' = [helper EXCEPT ![r] = l],
         UNCHANGED <<conf, mem, http, xray, token, cert, live, conns, nginx>>,
         UNCHANGED <<timers, last, shown, debt>>,
         l.at = helper[r].at, l.page = helper[r].page, l.ask = helper[r].ask,
         l.set = helper[r].set, l.todo = helper[r].todo, l.env = helper[r].env,
         l.wrote = helper[r].wrote, l.alone = helper[r].alone, l.fresh = helper[r].fresh,
         l.draft = helper[r].draft \/ \E k \in Key : Drafted(r, k)'
  PROVE  HelpersInv'
<1> DEFINE h == helper[r]
<1>1. /\ helper \in [Req -> Helper]
      /\ last \in {"none", "no change", "applied", "failed", "cut off"}
  BY DEF HelpersInv, TypeInv
<1>2. /\ helper' = [helper EXCEPT ![r] = l]
      /\ UNCHANGED <<conf, mem, http, xray, token, cert, live, conns, nginx>>
      /\ UNCHANGED <<timers, last, shown, debt>>
  OBVIOUS
<1>3. l \in Helper /\ InFlight(r)
  OBVIOUS
<1>4. /\ l.at = h.at /\ l.page = h.page /\ l.ask = h.ask /\ l.set = h.set /\ l.todo = h.todo
      /\ l.env = h.env /\ l.wrote = h.wrote /\ l.alone = h.alone /\ l.fresh = h.fresh
  OBVIOUS
<1>5. helper' \in [Req -> Helper] /\ helper'[r] = l /\ \A q \in Req \ {r} : helper'[q] = helper[q]
  BY <1>1, <1>2, <1>3
<1>6. Full(l) = Full(h) /\ Done(l) = Done(h)
  BY <1>4 DEF Full, Done
<1>7. /\ TypeInv' /\ PartInv'
      /\ shown'.sure =>
           \/ shown'.path = conf'["path"] /\ shown'.uuid = conf'["uuid"]
           \/ \E q \in Req : helper'[q].wrote /\ helper'[q].page = "admin"
  BY <1>1, <1>2, <1>4, <1>5, CopiesStay
<1>8. ShapeInv'
  <2>1. Shaped(h) /\ h.at # "idle"
    BY <1>3 DEF HelpersInv, ShapeInv, InFlight
  <2>2. Shaped(l)
    BY <1>4, <1>6, <2>1 DEF Shaped
  <2> QED BY <1>5, <2>2 DEF HelpersInv, ShapeInv
<1>9. AloneInv'
  <2>1. \A q \in Req : helper'[q].at = helper[q].at /\ helper'[q].alone = helper[q].alone
    BY <1>4, <1>5
  <2> QED BY <2>1 DEF HelpersInv, AloneInv, InFlight
<1>10. WorkInv'
  <2> SUFFICES ASSUME NEW q \in Req, helper'[q].at = "runs", helper'[q].alone
               PROVE  Worked(helper[q])' /\ Revertible(helper[q])'
    BY DEF WorkInv
  <2>1. Worked(helper[q]) /\ Revertible(helper[q])
    BY <1>4, <1>5 DEF HelpersInv, WorkInv
  <2>2. /\ helper'[q].set = helper[q].set /\ Done(helper'[q]) = Done(helper[q])
        /\ helper'[q].todo = helper[q].todo /\ helper'[q].env = helper[q].env
        /\ helper'[q].page = helper[q].page /\ helper'[q].wrote = helper[q].wrote
    BY <1>4, <1>5, <1>6
  <2> QED BY <1>2, <2>1, <2>2 DEF Worked, Revertible, HttpOf, XrayOf
<1>11. LoginInv'
  <2>1. \A q \in Req : LoginKnown(helper[q])'
    BY <1>2, <1>4, <1>5 DEF HelpersInv, LoginInv, LoginKnown
  <2> QED BY <1>7, <2>1 DEF LoginInv
<1>12. DraftInv'
  <2>1. \A q \in Req : helper[q].wrote =>
           helper'[q].wrote /\ helper'[q].page = helper[q].page /\ helper'[q].set = helper[q].set
    BY <1>4, <1>5
  <2>2. ASSUME NEW q \in Req \ {r}, helper'[q].draft # Nothing
        PROVE  \E k \in Key : Drafted(q, k)'
    BY <1>2, <1>5, <2>1, <2>2, DraftsStay
  <2>3. ASSUME helper'[r].draft # Nothing PROVE \E k \in Key : Drafted(r, k)'
    BY <1>2, <1>4, <1>5, <2>1, <2>3, DraftsStay
  <2> QED BY <2>2, <2>3 DEF DraftInv
<1> QED BY <1>7, <1>8, <1>9, <1>10, <1>11, <1>12 DEF HelpersInv

LEMMA OvertimeKeeps ==
  ASSUME HelpersInv, NEW r \in Req, Overtime(r)
  PROVE  HelpersInv'
<1> DEFINE l == [helper[r] EXCEPT !.late = TRUE]
<1>1. helper[r] \in Helper
  BY DEF HelpersInv, TypeInv
<1>2. l \in Helper
  BY <1>1 DEF Helper
<1>3. helper' = [helper EXCEPT ![r] = l] /\ InFlight(r)
  BY DEF Overtime
<1>4. /\ UNCHANGED <<conf, mem, http, xray, token, cert, live, conns, nginx>>
      /\ UNCHANGED <<timers, last, shown, debt>>
  BY DEF Overtime, servedVars, obsVars
<1> QED BY <1>1, <1>2, <1>3, <1>4, ScriptStays DEF Helper

LEMMA DraftKeeps ==
  ASSUME HelpersInv, NEW r \in Req, NEW k \in Key, Draft(r, k)
  PROVE  HelpersInv'
<1> DEFINE h == helper[r]
           copy == [conf EXCEPT ![k] = Line(r, k)]
           l == [h EXCEPT !.draft = copy]
<1>1. /\ helper \in [Req -> Helper] /\ h \in Helper /\ Shaped(h) /\ conf \in Conf
      /\ At(r, k) /\ Due(r, k) /\ h.at = "runs" /\ InFlight(r)
  BY DEF HelpersInv, TypeInv, ShapeInv, CopyTypes, Draft, At, InFlight
<1>2. k \in Full(h)
  BY <1>1 DEF At, Shaped
<1>3. k \in Step
  BY <1>1, <1>2, ScriptIsSteps
<1>4. Line(r, k) \in Value
  <2>1. k # "xhttp" => k \in DOMAIN h.set
    BY <1>1, <1>2, StepPage
  <2>2. k # "xhttp" => h.set[k] \in Value
    BY <1>1, <1>3, <2>1, AtStep
  <2> QED BY <2>2, ValueAssumption DEF Line
<1>5. copy \in Conf /\ copy[k] = Line(r, k) /\ \A j \in Key \ {k} : copy[j] = conf[j]
  BY <1>1, <1>4 DEF Conf
<1>6. l \in Helper
  BY <1>1, <1>5 DEF Helper
<1>7. /\ helper' = [helper EXCEPT ![r] = l]
      /\ UNCHANGED <<conf, mem, http, xray, token, cert, live, conns, nginx>>
      /\ UNCHANGED <<timers, last, shown, debt>>
  BY DEF Draft, servedVars, frame, obsVars
<1>8. /\ l.at = h.at /\ l.page = h.page /\ l.ask = h.ask /\ l.set = h.set /\ l.todo = h.todo
      /\ l.env = h.env /\ l.wrote = h.wrote /\ l.alone = h.alone /\ l.fresh = h.fresh
      /\ l.draft = copy
  BY <1>1 DEF Helper
<1>9. helper'[r] = l
  BY <1>1, <1>7
<1>10. Drafted(r, k)'
  <2>1. (At(r, k) /\ Due(r, k))' /\ Line(r, k)' = Line(r, k)
    BY <1>1, <1>8, <1>9 DEF At, Due, Line
  <2>2. helper'[r].draft[k] = Line(r, k) /\ \A j \in Key \ {k} : helper'[r].draft[j] = conf[j]
    BY <1>5, <1>8, <1>9
  <2> QED BY <1>7, <2>1, <2>2 DEF Drafted
<1> HIDE DEF l
<1> QED BY <1>1, <1>6, <1>7, <1>8, <1>10, ScriptStays

LEMMA ChangesFacts ==
  ASSUME NEW K \in SUBSET (Key \cup {"conns"}), NEW f \in [K -> Value], NEW g
  PROVE  /\ Changes(f, g) \in Fields /\ DOMAIN Changes(f, g) \subseteq K
         /\ \A k \in DOMAIN Changes(f, g) : Changes(f, g)[k] = f[k]
         /\ \A k \in K \ DOMAIN Changes(f, g) : g[k] = f[k]
<1> DEFINE D == {k \in K : k \notin DOMAIN g \/ f[k] # g[k]}
<1>1. Changes(f, g) = [k \in D |-> f[k]]
  BY DEF Changes
<1>2. Changes(f, g) \in [D -> Value] /\ D \in SUBSET (Key \cup {"conns"})
  BY <1>1
<1> QED BY <1>1, <1>2 DEF Fields

LEMMA SubmitKeeps ==
  ASSUME HelpersInv, NEW r \in Req, NEW p \in Page, NEW form \in [Field(p) -> Value],
         NEW unread \in BOOLEAN, Submit(r, p, form, unread)
  PROVE  HelpersInv'
<1> DEFINE ask == Changes(form, Current(p, unread))
           others == \E q \in Req : InFlight(q)
           fresh == timers = NoTimers /\ mem = conf /\ ~others
           asked == [Idle EXCEPT !.at = "asked", !.page = p, !.ask = ask, !.alone = ~others,
                                 !.fresh = (timers = NoTimers /\ mem = conf /\ ~others)]
<1>1. /\ helper \in [Req -> Helper]
      /\ last \in {"none", "no change", "applied", "failed", "cut off"}
  BY DEF HelpersInv, TypeInv
<1>2. UNCHANGED <<conf, mem, http, xray, token, cert, live, conns, nginx, timers, shown, debt>>
  BY DEF Submit, servedVars
<1>3. CASE DOMAIN ask = {}
  BY <1>2, <1>3, StutterKeeps DEF Submit
<1>4. CASE DOMAIN ask # {}
  <2>1. /\ last' = "none" /\ ~InFlight(r)
        /\ helper' = [q \in Req |-> IF q = r THEN asked
                                    ELSE [helper[q] EXCEPT !.alone = @ /\ ~InFlight(q)]]
    BY <1>4 DEF Submit
  <2>2. p \in {"paths", "admin", "domain", "perf"} /\ Field(p) \subseteq Key \cup {"conns"}
    BY PageAssumption DEF Field, Key, HttpKey
  <2>3. ask \in Fields /\ DOMAIN ask \subseteq Field(p)
    BY <2>2, ChangesFacts
  <2>4. /\ asked \in Helper /\ asked.at = "asked" /\ asked.page = p /\ asked.ask = ask
        /\ DOMAIN asked.set = {} /\ asked.todo = {} /\ asked.wrote = FALSE
        /\ asked.alone = ~others /\ asked.fresh = fresh /\ asked.draft = Nothing
    BY <2>2, <2>3, NothingIsNoFields DEF Idle, Helper
  <2>5. \A q \in Req \ {r} :
          /\ helper'[q] \in Helper
          /\ helper'[q].at = helper[q].at /\ helper'[q].page = helper[q].page
          /\ helper'[q].set = helper[q].set /\ helper'[q].wrote = helper[q].wrote
          /\ helper'[q].ask = helper[q].ask /\ helper'[q].todo = helper[q].todo
          /\ helper'[q].env = helper[q].env /\ helper'[q].draft = helper[q].draft
          /\ helper'[q].alone => helper[q].alone /\ ~InFlight(q)
    <3> HIDE DEF asked
    <3> SUFFICES ASSUME NEW q \in Req \ {r}, NEW g,
                        g = [helper[q] EXCEPT !.alone = @ /\ ~InFlight(q)]
                 PROVE  /\ g \in Helper
                        /\ g.at = helper[q].at /\ g.page = helper[q].page
                        /\ g.set = helper[q].set /\ g.wrote = helper[q].wrote
                        /\ g.ask = helper[q].ask /\ g.todo = helper[q].todo
                        /\ g.env = helper[q].env /\ g.draft = helper[q].draft
                        /\ g.alone => helper[q].alone /\ ~InFlight(q)
      BY <2>1
    <3> QED BY <1>1 DEF Helper
  <2>6. helper'[r] = asked /\ helper[r].wrote = FALSE
    <3>1. helper[r] = Idle
      BY <2>1 DEF HelpersInv, ShapeInv, Shaped, InFlight
    <3>2. Idle.wrote = FALSE
      BY DEF Idle
    <3> HIDE DEF asked
    <3> QED BY <2>1, <3>1, <3>2
  <2>7. helper' \in [Req -> Helper]
    BY <2>1, <2>4, <2>5, <2>6
  <2>8. /\ TypeInv' /\ PartInv'
        /\ shown'.sure =>
             \/ shown'.path = conf'["path"] /\ shown'.uuid = conf'["uuid"]
             \/ \E q \in Req : helper'[q].wrote /\ helper'[q].page = "admin"
    <3>1. \A q \in Req : helper[q].wrote =>
             /\ helper'[q].wrote /\ helper'[q].page = helper[q].page
             /\ helper'[q].set = helper[q].set
      BY <2>5, <2>6
    <3>2. last' \in {"none", "no change", "applied", "failed", "cut off"}
      BY <2>1
    <3> QED BY <1>2, <2>7, <3>1, <3>2, CopiesStay
  <2>9. ShapeInv'
    <3>1. Shaped(asked)
      BY <1>4, <2>2, <2>3, <2>4 DEF Shaped
    <3>2. ASSUME NEW q \in Req \ {r}, InFlight(q) PROVE Shaped(helper'[q])
      <4>1. Shaped(helper[q]) /\ helper[q].at # "idle"
        BY <3>2 DEF HelpersInv, ShapeInv, InFlight
      <4>2. Done(helper'[q]) = Done(helper[q]) /\ Full(helper'[q]) = Full(helper[q])
        BY <2>5 DEF Done, Full
      <4> QED BY <2>5, <4>1, <4>2 DEF Shaped
    <3>3. ASSUME NEW q \in Req \ {r}, ~InFlight(q) PROVE Shaped(helper'[q])
      <4>1. helper[q] = Idle
        BY <3>3 DEF HelpersInv, ShapeInv, Shaped, InFlight
      <4>2. helper'[q] = Idle
        <5>1. helper'[q] = [Idle EXCEPT !.alone = @ /\ ~InFlight(q)]
          BY <2>1, <4>1
        <5>2. [Idle EXCEPT !.alone = @ /\ ~InFlight(q)] = [Idle EXCEPT !.alone = TRUE]
          BY <3>3 DEF Idle
        <5>3. [Idle EXCEPT !.alone = TRUE] = Idle
          <6>1. Idle.alone = TRUE
            BY DEF Idle
          <6> QED BY <6>1, IdleIsHelper DEF Helper
        <5> QED BY <5>1, <5>2, <5>3
      <4> QED BY <4>2 DEF Shaped, Idle
    <3> QED BY <2>6, <3>1, <3>2, <3>3 DEF ShapeInv
  <2>10. \A q \in Req \ {r} : ~(helper'[q].at # "idle" /\ helper'[q].alone)
    BY <2>5 DEF InFlight
  <2>11. AloneInv'
    <3>1. asked.alone => \A q \in Req \ {r} : helper'[q].at = "idle"
      BY <2>4, <2>5 DEF InFlight
    <3> QED BY <2>6, <2>10, <3>1 DEF AloneInv, InFlight
  <2>12. WorkInv'
    BY <2>4, <2>6, <2>10 DEF WorkInv
  <2>13. LoginInv'
    <3>1. LoginKnown(helper[r])'
      BY <1>2, <2>4, <2>6 DEF LoginKnown
    <3>2. \A q \in Req \ {r} : helper'[q].page = "admin" => helper'[q].at # "idle"
      BY <2>9 DEF ShapeInv, Shaped, Idle
    <3>3. \A q \in Req \ {r} : LoginKnown(helper[q])'
      BY <2>10, <3>2 DEF LoginKnown
    <3> QED BY <2>8, <3>1, <3>3 DEF LoginInv
  <2>14. DraftInv'
    <3>1. \A q \in Req : helper[q].wrote =>
             helper'[q].wrote /\ helper'[q].page = helper[q].page /\ helper'[q].set = helper[q].set
      BY <2>5, <2>6
    <3>2. ASSUME NEW q \in Req, helper'[q].draft # Nothing PROVE \E k \in Key : Drafted(q, k)'
      <4>1. q # r
        BY <2>4, <2>6, <3>2
      <4> QED BY <1>2, <2>5, <3>1, <3>2, <4>1, DraftsStay
    <3> QED BY <3>2 DEF DraftInv
  <2> QED BY <2>8, <2>9, <2>11, <2>12, <2>13, <2>14 DEF HelpersInv
<1> QED BY <1>3, <1>4

(* What a helper has to set.                                               *)
LEMMA ToSetFacts ==
  ASSUME NEW h \in Helper, Shaped(h), h.at = "asked"
  PROVE  /\ ToSet(h) \in Fields
         /\ h.page \in {"paths", "admin"} =>
              /\ DOMAIN ToSet(h) \subseteq DOMAIN h.ask /\ DOMAIN h.ask \subseteq Field(h.page)
              /\ \A k \in DOMAIN ToSet(h) : ToSet(h)[k] = h.ask[k]
              /\ \A k \in DOMAIN h.ask \ DOMAIN ToSet(h) : conf[k] = h.ask[k]
         /\ h.page = "domain" =>
              DOMAIN ToSet(h) = {"host", "sni"} /\ ToSet(h)["host"] = ToSet(h)["sni"]
         /\ h.page = "perf" => DOMAIN ToSet(h) = {"conns"}
<1> DEFINE K == DOMAIN h.ask
<1>1. /\ h.ask \in Fields /\ h.page \in {"paths", "admin", "domain", "perf"}
      /\ K # {} /\ K \subseteq Field(h.page)
  BY DEF Helper, Shaped
<1>2. K \in SUBSET (Key \cup {"conns"}) /\ h.ask \in [K -> Value]
  BY <1>1 DEF Fields
<1>3. CASE h.page \in {"paths", "admin"}
  <2>1. ToSet(h) = Changes(h.ask, conf)
    BY <1>3 DEF ToSet
  <2> QED BY <1>1, <1>2, <1>3, <2>1, ChangesFacts
<1>4. CASE h.page = "domain"
  <2>1. ToSet(h) = [k \in {"host", "sni"} |-> h.ask["host"]]
    BY <1>4 DEF ToSet
  <2>2. h.ask["host"] \in Value
    BY <1>1, <1>2, <1>4 DEF Field
  <2>3. ToSet(h) \in [{"host", "sni"} -> Value] /\ {"host", "sni"} \in SUBSET (Key \cup {"conns"})
    BY <2>1, <2>2 DEF Key
  <2> QED BY <1>4, <2>1, <2>3 DEF Fields
<1>5. CASE h.page = "perf"
  BY <1>1, <1>5 DEF ToSet, Field
<1> QED BY <1>1, <1>3, <1>4, <1>5

LEMMA StartKeeps ==
  ASSUME HelpersInv, NEW r \in Req, Start(r)
  PROVE  HelpersInv'
<1> DEFINE h == helper[r]
           set == ToSet(h)
           l == [h EXCEPT !.at = "runs", !.set = set, !.todo = Script(h.page, DOMAIN set)]
<1>1. /\ helper \in [Req -> Helper] /\ h \in Helper /\ Shaped(h) /\ h.at = "asked" /\ CopyTypes
      /\ last \in {"none", "no change", "applied", "failed", "cut off"}
      /\ timers \in [Service -> Nat]
  BY DEF HelpersInv, TypeInv, ShapeInv, Start
<1>2. InFlight(r) /\ h.wrote = FALSE /\ DOMAIN h.set = {}
  BY <1>1 DEF InFlight, Shaped, Helper
<1>3. UNCHANGED <<conf, mem, http, xray, token, cert, live, conns, nginx, timers>>
  BY DEF Start, servedVars
<1>4. CASE DOMAIN set = {}
  <2>1. ExitOK(r)
    BY <1>4 DEF Start
  <2>2. Touched(h) = {}
    BY <1>2 DEF Touched
  <2>3. h.page = "admin" => \A k \in DOMAIN h.ask : conf[k] = h.ask[k]
    BY <1>1, <1>4, ToSetFacts
  <2>4. ASSUME h.page = "admin", h.alone, h.fresh, NEW k \in {"path", "uuid"}
        PROVE  NewLogin(h)[k] = conf[k]
    <3>1. k \notin DOMAIN h.ask => conf[k] = mem[k]
      BY <2>4 DEF HelpersInv, LoginInv, LoginKnown
    <3> QED BY <2>3, <2>4, <3>1 DEF NewLogin, Field
  <2>5. CopyTypes'
    BY <1>1, <1>3 DEF CopyTypes
  <2>6. timers' \in [Service -> Nat] /\ timers'["xray"] >= timers["xray"]
    <3>1. timers \in [Service -> Nat]
      BY <1>1
    <3> QED BY <1>3, <3>1 DEF Service
  <2> QED BY <1>2, <1>3, <2>1, <2>2, <2>4, <2>5, <2>6, ExitOKKeeps
<1>5. CASE DOMAIN set # {}
  <2>1. helper' = [helper EXCEPT ![r] = l] /\ UNCHANGED <<last, shown, debt>>
    BY <1>1, <1>5 DEF Start, obsVars
  <2>2. h.page \in {"paths", "admin", "domain", "perf"} /\ set \in Fields
    BY <1>1, ToSetFacts DEF Shaped, Helper
  <2>3. Script(h.page, DOMAIN set) \subseteq Step
    BY <1>1, <2>2, ToSetFacts DEF Script, Step, Field
  <2>4. l \in Helper
    BY <1>1, <2>2, <2>3 DEF Helper
  <2>5. /\ l.at = "runs" /\ l.page = h.page /\ l.ask = h.ask /\ l.set = set
        /\ l.todo = Full(l) /\ l.wrote = FALSE /\ l.alone = h.alone /\ l.fresh = h.fresh
        /\ l.draft = h.draft
    BY <1>1, <1>2 DEF Helper, Full
  <2>6. Done(l) = {}
    BY <2>5 DEF Done
  <2>7. helper' \in [Req -> Helper] /\ helper'[r] = l /\ \A q \in Req \ {r} : helper'[q] = helper[q]
    BY <1>1, <2>1, <2>4
  <2>8. /\ TypeInv' /\ PartInv'
        /\ shown'.sure =>
             \/ shown'.path = conf'["path"] /\ shown'.uuid = conf'["uuid"]
             \/ \E q \in Req : helper'[q].wrote /\ helper'[q].page = "admin"
    <3>1. \A q \in Req : helper[q].wrote =>
             /\ helper'[q].wrote /\ helper'[q].page = helper[q].page
             /\ helper'[q].set = helper[q].set
      BY <1>2, <2>7
    <3> QED BY <1>1, <1>3, <2>1, <2>7, <3>1, CopiesStay
  <2>9. ShapeInv'
    <3>1. (IF l.page = "perf" THEN "save" ELSE "timer") \in Full(l)
      BY <2>2, <2>5 DEF Full, Script
    <3>2. Shaped(l)
      <4>1. /\ h.page \in {"paths", "admin"} =>
                 /\ DOMAIN set \subseteq DOMAIN h.ask /\ DOMAIN h.ask \subseteq Field(h.page)
                 /\ \A k \in DOMAIN set : set[k] = h.ask[k]
            /\ h.page = "domain" => DOMAIN set = {"host", "sni"} /\ set["host"] = set["sni"]
            /\ h.page = "perf" => DOMAIN set = {"conns"}
        BY <1>1, ToSetFacts
      <4>2. DOMAIN h.ask # {} /\ DOMAIN h.ask \subseteq Field(h.page)
        BY <1>1 DEF Shaped
      <4> HIDE DEF set, l
      <4> QED BY <1>5, <2>2, <2>5, <2>6, <3>1, <4>1, <4>2 DEF Shaped
    <3> QED BY <2>7, <3>2 DEF HelpersInv, ShapeInv
  <2>10. AloneInv'
    <3>1. \A q \in Req : helper'[q].alone = helper[q].alone
                         /\ (helper'[q].at # "idle" <=> helper[q].at # "idle")
      BY <1>1, <2>5, <2>7
    <3> QED BY <3>1 DEF HelpersInv, AloneInv, InFlight
  <2>11. WorkInv'
    <3>1. Worked(helper[r])' /\ Revertible(helper[r])'
      BY <2>5, <2>6, <2>7 DEF Worked, Revertible
    <3>2. \A q \in Req \ {r} : ~(helper'[q].at = "runs" /\ helper'[q].alone)
      BY <1>2, <2>7 DEF HelpersInv, AloneInv, InFlight
    <3> QED BY <3>1, <3>2 DEF WorkInv
  <2>12. LoginInv'
    <3>1. LoginKnown(helper[r])'
      <4> SUFFICES ASSUME h.page = "admin", h.alone, h.fresh, NEW k \in {"path", "uuid"}
                   PROVE  /\ k \notin DOMAIN h.ask => conf[k] = mem[k]
                          /\ k \in DOMAIN h.ask => conf[k] = h.ask[k] \/ k \in l.todo
        BY <1>3, <2>5, <2>7 DEF LoginKnown
      <4>1. k \notin DOMAIN h.ask => conf[k] = mem[k]
        BY DEF HelpersInv, LoginInv, LoginKnown
      <4>2. k \in DOMAIN set => k \in l.todo
        BY <2>5 DEF Full, Script
      <4>3. k \in DOMAIN h.ask \ DOMAIN set => conf[k] = h.ask[k]
        BY <1>1, ToSetFacts
      <4> QED BY <4>1, <4>2, <4>3
    <3>2. \A q \in Req \ {r} : LoginKnown(helper[q])'
      BY <1>3, <2>7 DEF HelpersInv, LoginInv, LoginKnown
    <3> QED BY <2>8, <3>1, <3>2 DEF LoginInv
  <2>13. DraftInv'
    <3>1. h.draft = Nothing
      BY <1>1 DEF HelpersInv, DraftInv, Drafted, At
    <3>2. \A q \in Req : helper[q].wrote =>
             helper'[q].wrote /\ helper'[q].page = helper[q].page /\ helper'[q].set = helper[q].set
      BY <1>2, <2>7
    <3>3. ASSUME NEW q \in Req, helper'[q].draft # Nothing PROVE \E k \in Key : Drafted(q, k)'
      <4>1. q # r
        BY <2>5, <2>7, <3>1, <3>3
      <4> QED BY <1>3, <2>1, <2>7, <3>2, <3>3, <4>1, DraftsStay
    <3> QED BY <3>3 DEF DraftInv
  <2> QED BY <2>8, <2>9, <2>10, <2>11, <2>12, <2>13 DEF HelpersInv
<1> QED BY <1>4, <1>5

---------------------------------------------------------------------------
(* Restarts *)

(* Every script dies with the daemon; the debt says what they have spoilt. *)
LEMMA RebornKeeps ==
  ASSUME HelpersInv, Reborn, timers' \in [Service -> Nat], timers'["xray"] = timers["xray"]
  PROVE  HelpersInv'
<1>1. /\ UNCHANGED <<conf, http, xray, token, cert, live, conns, nginx>> /\ mem' = conf
      /\ helper' = [r \in Req |-> Idle]
      /\ debt' = (debt \ {"daemon"}) \cup UNION {Spoilt(helper[r]) : r \in Req}
      /\ shown' = [shown EXCEPT !.sure =
                     @ /\ ~\E r \in Req : helper[r].page = "admin" /\ helper[r].wrote]
  BY DEF Reborn, servedVars
<1>2. /\ CopyTypes /\ debt \subseteq Part /\ shown \in [path: Value, uuid: Value, sure: BOOLEAN]
      /\ last \in {"none", "no change", "applied", "failed", "cut off"}
  BY DEF HelpersInv, TypeInv
<1>3. TypeInv'
  <2>1. debt' \subseteq Part
    <3>1. \A r \in Req : Spoilt(helper[r]) \subseteq Part
      BY TouchedIsPart DEF Spoilt
    <3> QED BY <1>1, <1>2, <3>1
  <2>2. shown' \in [path: Value, uuid: Value, sure: BOOLEAN]
    BY <1>1, <1>2
  <2>3. last' \in {"none", "no change", "applied", "failed", "cut off"}
    BY <1>2 DEF Reborn
  <2>4. CopyTypes'
    BY <1>1, <1>2 DEF CopyTypes
  <2>5. mem' \in Conf
    BY <1>1, <1>2 DEF CopyTypes
  <2>6. helper' \in [Req -> Helper]
    BY <1>1, IdleIsHelper
  <2> QED BY <2>1, <2>2, <2>3, <2>4, <2>5, <2>6 DEF TypeInv
<1>4. Idle.at = "idle" /\ Idle.wrote = FALSE /\ Idle.page = "none" /\ Idle.draft = Nothing
  BY DEF Idle
<1>5. \A r \in Req : helper'[r] = Idle
  BY <1>1
<1>6. ShapeInv'
  BY <1>4, <1>5 DEF ShapeInv, Shaped
<1>7. AloneInv' /\ WorkInv'
  BY <1>4, <1>5 DEF AloneInv, WorkInv, InFlight
<1>8. \A p \in Part \ {"daemon"} : Writer(p) \/ p \in debt => p \in debt'
  BY <1>1 DEF Writer, Spoilt
<1>9. DaemonPart'
  BY <1>1 DEF DaemonPart
<1>10. XrayPart'
  BY <1>1, <1>8 DEF HelpersInv, PartInv, XrayPart, XrayOf, Part
<1>11. OtherParts'
  <2> SUFFICES ASSUME NEW p \in Other
               PROVE  p \in debt' \/ Agrees(p)'
    BY DEF OtherParts
  <2>1. p \in debt \/ Writer(p) \/ Agrees(p)
    BY DEF HelpersInv, PartInv, OtherParts
  <2>2. Agrees(p) => Agrees(p)'
    BY <1>1 DEF Agrees, Snippet, Other, HttpOf
  <2> QED BY <1>8, <2>1, <2>2 DEF Other, Part
<1>12. LoginInv'
  <2>1. \A r \in Req : LoginKnown(helper[r])'
    BY <1>4, <1>5 DEF LoginKnown
  <2>2. shown'.sure => shown'.path = conf'["path"] /\ shown'.uuid = conf'["uuid"]
    BY <1>1, <1>2 DEF HelpersInv, LoginInv
  <2> QED BY <2>1, <2>2 DEF LoginInv
<1>13. DraftInv'
  BY <1>4, <1>5 DEF DraftInv
<1> QED BY <1>3, <1>6, <1>7, <1>9, <1>10, <1>11, <1>12, <1>13 DEF HelpersInv, PartInv

LEMMA RestartDaemonKeeps ==
  ASSUME HelpersInv, RestartDaemon \/ Crash
  PROVE  HelpersInv'
<1>1. timers \in [Service -> Nat]
  BY DEF HelpersInv, TypeInv
<1>2. timers' \in [Service -> Nat] /\ timers'["xray"] = timers["xray"]
  BY <1>1 DEF RestartDaemon, Crash, Pending, Service
<1> QED BY <1>2, RebornKeeps DEF RestartDaemon, Crash

(* The scripts go on while xray restarts, or does not.                     *)
LEMMA RestartXrayKeeps ==
  ASSUME HelpersInv, RestartXray \/ RestartXrayFails
  PROVE  HelpersInv'
<1>1. /\ timers \in [Service -> Nat] /\ CopyTypes /\ debt \subseteq Part
  BY DEF HelpersInv, TypeInv
<1>2. /\ UNCHANGED <<conf, mem, http, token, cert, live, conns, nginx, helper, last, shown>>
      /\ xray'.file = xray.file /\ xray'.new = xray.new
      /\ debt \subseteq debt' /\ debt' \subseteq Part
      /\ debt' \subseteq debt \cup {"xray", "daemon"}
  BY <1>1 DEF RestartXray, RestartXrayFails, servedVars, obsVars, CopyTypes, Part
<1>3. timers' \in [Service -> Nat]
  BY <1>1 DEF RestartXray, RestartXrayFails, Pending, Service
<1>4. CopyTypes'
  BY <1>1 DEF RestartXray, RestartXrayFails, servedVars, CopyTypes
<1>5. TypeInv'
  BY <1>2, <1>3, <1>4 DEF HelpersInv, TypeInv
<1>6. ShapeInv' /\ AloneInv'
  BY <1>2 DEF HelpersInv, ShapeInv, AloneInv, InFlight
<1>7. WorkInv'
  BY <1>2 DEF HelpersInv, WorkInv, Worked, Revertible, HttpOf, XrayOf
<1>8. LoginInv'
  BY <1>2 DEF HelpersInv, LoginInv, LoginKnown
<1>9. DaemonPart'
  <2>1. CASE RestartXray
    <3>1. timers'["daemon"] > 0
      BY <1>1, <2>1 DEF RestartXray, Service
    <3> QED BY <3>1 DEF DaemonPart, NoTimers, Service
  <2>2. CASE RestartXrayFails
    BY <2>2 DEF RestartXrayFails, DaemonPart
  <2> QED BY <2>1, <2>2
<1>10. XrayPart'
  <2>1. CASE RestartXray
    <3>1. xray'.run = xray'.file
      BY <1>1, <2>1 DEF RestartXray, CopyTypes
    <3>2. Writer("xray") => Writer("xray")'
      BY <1>2 DEF Writer, Touched
    <3> QED BY <1>2, <3>1, <3>2 DEF HelpersInv, PartInv, XrayPart, XrayOf
  <2>2. CASE RestartXrayFails
    BY <2>2 DEF RestartXrayFails, XrayPart
  <2> QED BY <2>1, <2>2
<1>11. OtherParts'
  <2>1. \A p \in Other : Agrees(p) => Agrees(p)'
    BY <1>2 DEF Agrees, Snippet, Other, HttpOf
  <2> QED BY <1>2, <2>1 DEF HelpersInv, PartInv, OtherParts, Writer, Touched
<1>12. DraftInv'
  BY <1>2, DraftsStay DEF DraftInv
<1> QED BY <1>5, <1>6, <1>7, <1>8, <1>9, <1>10, <1>11, <1>12 DEF HelpersInv, PartInv

---------------------------------------------------------------------------
(* The theorems *)

LEMMA InitHolds ==
  ASSUME Init PROVE HelpersInv
<1>1. conf \in Conf /\ \A k \in Key \ {"xhttp"} : conf[k] = Base
  BY ValueAssumption DEF Init, Conf
<1>2. HttpOf(conf) \in HttpFile /\ XrayOf(conf) \in XrayFile
  BY <1>1 DEF HttpOf, XrayOf, HttpFile, XrayFile, Conf, Key, HttpKey
<1>3. /\ conf["xhttp"] = BaseXHTTP
      /\ mem = conf /\ http = [file |-> HttpOf(conf), new |-> Unset]
      /\ xray = [file |-> XrayOf(conf), new |-> Unset, run |-> XrayOf(conf)]
      /\ token = Base /\ cert = [fullchain |-> Base, privkey |-> Base]
      /\ conns = [file |-> Base, bak |-> Unset, saved |-> Base]
      /\ nginx = [http |-> HttpOf(conf), cert |-> cert, conns |-> Base]
      /\ helper = [r \in Req |-> Idle] /\ timers = NoTimers /\ last = "none"
      /\ shown = [path |-> Base, uuid |-> Base, sure |-> TRUE] /\ debt = {}
  BY DEF Init, Loaded, Key
<1>12. live \in [Value -> {"none", "stub", "issued"}] /\ live[Base] # "none"
  BY ValueAssumption DEF Init
<1>4. CopyTypes
  BY <1>1, <1>2, <1>3, <1>12, ValueAssumption DEF CopyTypes
<1>5. NoTimers \in [Service -> Nat]
  BY DEF NoTimers
<1>6. TypeInv
  BY <1>1, <1>3, <1>4, <1>5, IdleIsHelper, ValueAssumption DEF TypeInv
<1>7. Idle.at = "idle" /\ Idle.wrote = FALSE /\ Idle.page = "none" /\ Idle.draft = Nothing
  BY DEF Idle
<1>13. DraftInv
  BY <1>3, <1>7 DEF DraftInv
<1>8. ShapeInv /\ AloneInv /\ WorkInv
  BY <1>3, <1>7 DEF ShapeInv, Shaped, AloneInv, WorkInv, InFlight
<1>9. LoginInv
  BY <1>1, <1>3, <1>7 DEF LoginInv, LoginKnown, Key, HttpKey
<1>10. DaemonPart /\ XrayPart
  BY <1>3 DEF DaemonPart, XrayPart
<1>11. OtherParts
  <2>1. conf["ws"] = Base /\ conf["host"] = Base /\ conf["sni"] = Base
    BY <1>1 DEF Key, HttpKey
  <2>2. Agrees("http") /\ Agrees("xhttp") /\ Agrees("token") /\ Agrees("conns")
    BY <1>3, <2>1 DEF Agrees, Snippet
  <2>3. Agrees("cert")
    BY <1>3, <1>12, <2>1 DEF Agrees
  <2> QED BY <2>2, <2>3 DEF OtherParts, Other
<1> QED BY <1>6, <1>8, <1>9, <1>10, <1>11, <1>13 DEF HelpersInv, PartInv

LEMMA StepKeeps ==
  ASSUME HelpersInv, [Next]_vars PROVE HelpersInv'
<1>1. /\ helper \in [Req -> Helper]
      /\ last \in {"none", "no change", "applied", "failed", "cut off"}
  BY DEF HelpersInv, TypeInv
<1>2. ASSUME loginSubmit \/ logout \/ UNCHANGED vars PROVE HelpersInv'
  BY <1>1, <1>2, StutterKeeps DEF loginSubmit, logout, vars, servedVars, obsVars
<1>3. ASSUME NEW r \in Req, Steps(r) PROVE HelpersInv'
  BY <1>3, StartKeeps, DraftKeeps, EditConfKeeps, SourceKeeps, RenderKeeps, InstallKeeps,
     KeepXHTTPKeeps, RenderXrayKeeps, InstallXrayKeeps, UpdateTokenKeeps, RemoveStubKeeps,
     CertbotKeeps, LinkKeeps, BackUpConnsKeeps, EditConnsKeeps, TestPassesKeeps, ReloadKeeps,
     ScheduleKeeps, SaveConnsKeeps, SaveConnsLostKeeps DEF Steps
<1>4. ASSUME NEW r \in Req, Fail(r) \/ SaveConnsFails(r) \/ Overtime(r) PROVE HelpersInv'
  BY <1>4, FailKeeps, SaveConnsLostKeeps, OvertimeKeeps
<1>5. ASSUME Operator PROVE HelpersInv'
  BY <1>2, <1>5, SubmitKeeps DEF Operator
<1>6. ASSUME Restarts \/ RestartXrayFails \/ Crash PROVE HelpersInv'
  BY <1>6, RestartXrayKeeps, RestartDaemonKeeps DEF Restarts
<1> QED BY <1>2, <1>3, <1>4, <1>5, <1>6 DEF Next

(* However scripts overlap, fail and are killed, what has been written and *)
(* is not yet, or no longer, as config.env says is accounted for.          *)
THEOREM HelpersInvariant == Spec => []HelpersInv
<1>1. Init => HelpersInv
  BY InitHolds
<1>2. HelpersInv /\ [Next]_vars => HelpersInv'
  BY StepKeeps
<1> QED BY <1>1, <1>2, PTL DEF Spec

(* HelpersTypeOK: every variable keeps its type, and a script that runs    *)
(* has a step to run.                                                      *)
THEOREM HelpersTypeCorrectness == Spec => []HelpersTypeOK
<1>1. HelpersInv => HelpersTypeOK
  <2> SUFFICES ASSUME HelpersInv PROVE HelpersTypeOK
    OBVIOUS
  <2>1. \A r \in Req : helper[r].at = "runs" <=> helper[r].todo # {}
    <3> SUFFICES ASSUME NEW r \in Req PROVE helper[r].at = "runs" <=> helper[r].todo # {}
      OBVIOUS
    <3>1. Shaped(helper[r]) /\ helper[r].at \in {"idle", "asked", "runs"}
      BY DEF HelpersInv, TypeInv, ShapeInv, Helper
    <3>2. Idle.todo = {}
      BY DEF Idle
    <3> QED BY <3>1, <3>2 DEF Shaped
  <2>2. CopyTypes /\ {conf, mem} \subseteq [Key -> Value \cup {Unset}]
    BY DEF HelpersInv, TypeInv, CopyTypes, Conf
  <2> QED BY <2>1, <2>2 DEF HelpersInv, TypeInv, CopyTypes, HttpFile, XrayFile, HelpersTypeOK
<1> QED BY <1>1, HelpersInvariant, PTL

LEMMA RestIsClean ==
  ASSUME HelpersInv, Settled
  PROVE  \A r \in Req : helper[r].wrote = FALSE
<1>1. \A r \in Req : helper[r] = Idle
  BY DEF HelpersInv, ShapeInv, Shaped, Settled, InFlight
<1>2. Idle.wrote = FALSE
  BY DEF Idle
<1> QED BY <1>1, <1>2

(* At rest nobody writes: the copies agree but for those in debt.          *)
LEMMA AtRest ==
  ASSUME HelpersInv, Settled
  PROVE  \A p \in Part \ debt : Agrees(p)
<1>1. \A r \in Req : helper[r].wrote = FALSE
  BY RestIsClean
<1>2. timers = NoTimers /\ timers["xray"] = 0
  BY DEF Settled, NoTimers, Service
<1>3. "daemon" \in debt \/ Agrees("daemon")
  BY <1>1, <1>2 DEF HelpersInv, PartInv, DaemonPart, Agrees
<1>4. "xray" \in debt \/ Agrees("xray")
  BY <1>1, <1>2 DEF HelpersInv, PartInv, XrayPart, Writer, Agrees
<1>5. \A p \in Other : p \in debt \/ Agrees(p)
  BY <1>1 DEF HelpersInv, PartInv, OtherParts, Writer
<1> QED BY <1>3, <1>4, <1>5 DEF Part, Other

(* CopiesAgree: the paths live in the data plane, not just in the database *)
(* (applypaths:6, 13).                                                     *)
THEOREM CopiesAgreeAlways == Spec => []CopiesAgree
<1>1. HelpersInv => CopiesAgree
  BY AtRest DEF CopiesAgree
<1> QED BY <1>1, HelpersInvariant, PTL

(* ShownLoginWorks: the login the Admin page showed last opens the         *)
(* dashboard once the restarts are over (admin.html).                      *)
THEOREM ShownLoginWorksAlways == Spec => []ShownLoginWorks
<1>1. HelpersInv => ShownLoginWorks
  <2> SUFFICES ASSUME HelpersInv, Settled, shown.sure, debt \cap {"http", "daemon"} = {}
               PROVE  /\ shown.path = nginx.http["path"] /\ shown.path = mem["path"]
                      /\ shown.uuid = mem["uuid"]
    BY DEF ShownLoginWorks
  <2>1. \A r \in Req : helper[r].wrote = FALSE
    BY RestIsClean
  <2>2. shown.path = conf["path"] /\ shown.uuid = conf["uuid"]
    BY <2>1 DEF HelpersInv, LoginInv
  <2>3. mem = conf /\ nginx.http = HttpOf(conf)
    <3>1. Agrees("daemon") /\ Agrees("http")
      BY AtRest DEF Part
    <3> QED BY <3>1 DEF Agrees
  <2> QED BY <2>2, <2>3 DEF HttpOf, HttpKey
<1> QED BY <1>1, HelpersInvariant, PTL
===========================================================================
