------------------------------ MODULE Helpers ------------------------------
(***************************************************************************)
(* Reconfiguring a running node: the dashboard's Paths, Admin access,      *)
(* Domains and Performance pages and the four root helpers behind them.    *)
(*                                                                         *)
(* What the operator sets lives in several copies: config.env, nginx's     *)
(* files and what nginx has loaded, xray's file and what xray has loaded,  *)
(* a token in the database, and the daemon's memory.  A page runs a shell  *)
(* script that rewrites the copies one after the other, under set -e and   *)
(* with no lock and no way back, and leaves a timer behind that restarts   *)
(* the services two seconds later.  The restart kills whatever other       *)
(* helper the daemon is running at that moment.                            *)
(*                                                                         *)
(* A script is the set of its steps that are still to be run, of which the *)
(* one of least rank is next; each step is an action, and any may fail.    *)
(***************************************************************************)
EXTENDS Naturals

CONSTANTS
  Req,          \* dashboard requests that may be under way at once
  Page,         \* the pages the operator uses
  Value,        \* paths, credentials, hostnames, worker_connections
  Base,         \* what the installation chose
  BaseXHTTP,    \* the XHTTP path it chose, Unset on a node older than XHTTP
  Stub,         \* the hosts with a self-signed lineage
  Unset,        \* a path that was never generated; no file
  MaxApplies,   \* bounds: forms submitted,
  MaxFaults,    \* failures of a step,
  MaxRestarts   \* crashes of the daemon

ASSUME PageAssumption == Page \subseteq {"paths", "admin", "domain", "perf"}
ASSUME ValueAssumption ==
  Base \in Value /\ Unset \notin Value /\ BaseXHTTP \in Value \cup {Unset}
ASSUME BoundAssumption == {MaxApplies, MaxFaults, MaxRestarts} \subseteq Nat

HttpKey == {"client", "ws", "path"}                    \* in nginx's http file
Key == HttpKey \cup {"xhttp", "uuid", "host", "sni"}   \* in config.env

VARIABLES
  conf,     \* config.env
  mem,      \* the configuration lightxrayd has loaded
  http,     \* lightxray-http.conf: file, and new, the copy being written
  xray,     \* xray's config.json: file, new, and run, what xray has loaded
  token,    \* settings.ws_path_token, the WebSocket path customers are told
  cert,     \* the hosts whose lineages fullchain.pem and privkey.pem link to
  live,     \* certbot's lineage of each host
  conns,    \* worker_connections: file, bak (.lxbak), saved in the database
  nginx,    \* what nginx has loaded
  helper,   \* [Req -> Helper]
  timers,   \* restarts under way: how many have each service to restart next
  cookie,   \* the operator's session
  applies, faults, restarts,
  last,     \* observation: what the last page said
  shown,    \* observation: the login the Admin page gave last
  debt      \* observation: copies a disturbed apply may have left behind

servedVars == <<http, xray, token, cert, live, conns, nginx>>
obsVars == <<last, shown, debt>>
vars == <<conf, mem, servedVars, helper, timers, cookie, applies, faults, restarts, obsVars>>

---------------------------------------------------------------------------
(* What is rendered into nginx's and xray's files.                         *)
HttpOf(c) == [k \in HttpKey |-> c[k]]
XrayOf(c) == [k \in {"ws", "xhttp"} |-> c[k]]

Loaded(h, c, n) == [http |-> h, cert |-> c, conns |-> n]

(* nginx's route to XHTTP is in a file of its own, which no helper writes; *)
(* nodes older than XHTTP do not have it.                                  *)
Snippet == BaseXHTTP

NoCookie == [sig |-> Unset, scope |-> Unset]

(* No fields at all.                                                       *)
Nothing == [k \in {} |-> Unset]

(* at: idle, asked or runs; ask: what the page passes, by key; set: what   *)
(* the helper has to change; todo: the rest of its script; env: config.env *)
(* as sourced; draft: sed's copy of it; late: the page has given up on it. *)
(* Observed: wrote, it has changed something; alone, no other helper ran   *)
(* meanwhile; fresh, the daemon was up to date at submission.              *)
Idle == [at |-> "idle", page |-> "none", ask |-> Nothing, set |-> Nothing, todo |-> {},
         env |-> Nothing, draft |-> Nothing, late |-> FALSE,
         wrote |-> FALSE, alone |-> TRUE, fresh |-> TRUE]

InFlight(r) == helper[r].at # "idle"
(* A timer with xray to restart first restarts the daemon after it.        *)
Service == {"xray", "daemon"}
NoTimers == [s \in Service |-> 0]

Settled == timers = NoTimers /\ \A r \in Req : ~InFlight(r)

Init ==
  /\ conf = [k \in Key |-> IF k = "xhttp" THEN BaseXHTTP ELSE Base]
  /\ mem = conf
  /\ http = [file |-> HttpOf(conf), new |-> Unset]
  /\ xray = [file |-> XrayOf(conf), new |-> Unset, run |-> XrayOf(conf)]
  /\ token = Base
  /\ cert = [fullchain |-> Base, privkey |-> Base]
  /\ live = [v \in Value |-> IF v \in Stub THEN "stub" ELSE IF v = Base THEN "issued" ELSE "none"]
  /\ conns = [file |-> Base, bak |-> Unset, saved |-> Base]
  /\ nginx = Loaded(HttpOf(conf), cert, Base)
  /\ helper = [r \in Req |-> Idle]
  /\ timers = NoTimers
  /\ cookie = [sig |-> Base, scope |-> Base]
  /\ applies = 0 /\ faults = 0 /\ restarts = 0
  /\ last = "none"
  /\ shown = [path |-> Base, uuid |-> Base, sure |-> TRUE]
  /\ debt = {}

---------------------------------------------------------------------------
(* The operator's session *)

(* nginx routes the page and the cookie, sent below its path, is signed    *)
(* with today's UUID.                                                      *)
Accepted == cookie.sig = mem["uuid"] /\ cookie.scope = nginx.http["path"]

(* By form or by URL: the UUID is the password.                            *)
loginSubmit ==
  /\ cookie' = [sig |-> mem["uuid"], scope |-> mem["path"]]
  /\ UNCHANGED <<conf, mem, servedVars, helper, timers, applies, faults, restarts, obsVars>>

logout ==
  /\ applies < MaxApplies
  /\ cookie' = NoCookie
  /\ UNCHANGED <<conf, mem, servedVars, helper, timers, applies, faults, restarts, obsVars>>

---------------------------------------------------------------------------
(* The pages *)

(* What a page takes for the current values: the daemon's memory, but for  *)
(* the WebSocket path the token, when there is one and it can be read.     *)
currentPaths(unread) ==
  [client |-> mem["client"], ws |-> IF unread \/ token = Unset THEN mem["ws"] ELSE token]
currentAdmin == [path |-> mem["path"], uuid |-> mem["uuid"]]

Current(p, unread) ==
  CASE p = "paths" -> currentPaths(unread)
    [] p = "admin" -> currentAdmin
    [] OTHER -> Nothing

Field(p) ==
  CASE p = "paths"  -> {"client", "ws"}
    [] p = "admin"  -> {"path", "uuid"}
    [] p = "domain" -> {"host"}
    [] p = "perf"   -> {"conns"}

(* f restricted to the keys on which it differs from g.                    *)
Changes(f, g) == [k \in {k \in DOMAIN f : k \notin DOMAIN g \/ f[k] # g[k]} |-> f[k]]

Fault == faults < MaxFaults /\ faults' = faults + 1

(* Only the fields that differ from the current ones are passed on ("-"    *)
(* stands for the others); with none the page refuses.                     *)
Submit(r, p, form, unread) ==
  /\ ~InFlight(r)
  /\ Accepted
  /\ applies < MaxApplies
  /\ applies' = applies + 1
  /\ LET ask == Changes(form, Current(p, unread))
         others == \E q \in Req : InFlight(q)
     IN IF DOMAIN ask = {}
        THEN last' = "no change" /\ UNCHANGED helper
        ELSE /\ helper' = [q \in Req |->
                  IF q = r
                  THEN [Idle EXCEPT !.at = "asked", !.page = p, !.ask = ask, !.alone = ~others,
                                    !.fresh = (timers = NoTimers /\ mem = conf /\ ~others)]
                  ELSE [helper[q] EXCEPT !.alone = @ /\ ~InFlight(q)]]
             /\ last' = "none"
  /\ IF unread THEN p = "paths" /\ Fault ELSE UNCHANGED faults
  /\ UNCHANGED <<conf, mem, servedVars, timers, cookie, restarts, shown, debt>>

---------------------------------------------------------------------------
(* The helpers *)

(* The steps of each page's script, given the fields it has to set; a key  *)
(* stands for the sed that writes it to config.env.                        *)
Script(p, set) ==
  CASE p = "paths" ->
         set \cup {"source", "render", "install", "test", "reload", "timer"}
             \cup IF "ws" \in set THEN {"xhttp", "xrender", "xinstall", "psql"} ELSE {}
    [] p = "admin" ->
         set \cup {"timer"}
             \cup IF "path" \in set THEN {"source", "render", "install", "test", "reload"} ELSE {}
    [] p = "domain" -> {"stub", "certbot", "fullchain", "privkey", "host", "sni",
                        "test", "reload", "timer"}
    [] p = "perf"   -> {"backup", "tune", "test", "reload", "save"}

(* The place of a step in the script of its page.                          *)
Rank(s) ==
  CASE s \in {"client", "path", "stub", "backup"} -> 1
    [] s \in {"ws", "uuid", "certbot", "tune"} -> 2
    [] s \in {"source", "fullchain"} -> 3
    [] s \in {"render", "privkey"} -> 4
    [] s \in {"install", "host"} -> 5
    [] s \in {"xhttp", "sni"} -> 6
    [] s = "xrender"  -> 7
    [] s = "xinstall" -> 8
    [] s = "psql"     -> 9
    [] s = "test"     -> 10
    [] s = "reload"   -> 11
    [] s \in {"timer", "save"} -> 12

(* The copies a helper rewrites.                                           *)
Touched(h) ==
  (IF DOMAIN h.set \cap HttpKey # {} THEN {"http"} ELSE {})
    \cup (IF "ws" \in DOMAIN h.set THEN {"xray", "token"} ELSE {})
    \cup (IF "host" \in DOMAIN h.set THEN {"cert"} ELSE {})
    \cup (IF "conns" \in DOMAIN h.set THEN {"conns"} ELSE {})

(* What is left behind when h stops half-way.                              *)
Spoilt(h) == IF h.wrote THEN Touched(h) ELSE {}

Stop(r) == helper' = [helper EXCEPT ![r] = Idle]

(* Mutation: the old values win over the new ones.                         *)
OldLogin(h) == currentAdmin

(* The login the Admin page shows: the form's values, be they new or not.  *)
NewLogin(h) ==
  [k \in Field("admin") |-> IF k \in DOMAIN h.ask THEN h.ask[k] ELSE mem[k]]

(* Exit 0: the page says "Applied", the Admin page with the new login; or  *)
(* "Apply failed" and the old values, when its deadline has passed.        *)
ExitOK(r) ==
  LET h == helper[r] IN
  /\ Stop(r)
  /\ last' = IF h.late THEN "failed" ELSE "applied"
  /\ debt' = IF h.alone THEN debt \ Touched(h) ELSE debt \cup Touched(h)
  /\ shown' = IF h.page # "admin" THEN shown
              ELSE IF h.late THEN [shown EXCEPT !.sure = FALSE]
              ELSE [path |-> NewLogin(h)["path"], uuid |-> NewLogin(h)["uuid"],
                    sure |-> h.alone /\ h.fresh]

(* Exit 1: the page says "Apply failed" and shows the old values.          *)
ExitFailed(r) ==
  LET h == helper[r] IN
  /\ Stop(r)
  /\ last' = "failed"
  /\ debt' = debt \cup Spoilt(h) \cup (IF h.wrote /\ h.page # "perf" THEN {"daemon"} ELSE {})
  /\ shown' = [shown EXCEPT !.sure = @ /\ ~(h.page = "admin" /\ h.wrote)]

(* What the script finds to be different from config.env; without any, it  *)
(* is content.  The Domains and Performance helpers do not compare.        *)
ToSet(h) ==
  CASE h.page \in {"paths", "admin"} -> Changes(h.ask, conf)
    [] h.page = "domain" -> [k \in {"host", "sni"} |-> h.ask["host"]]
    [] h.page = "perf"   -> h.ask

Start(r) ==
  /\ helper[r].at = "asked"
  /\ LET set == ToSet(helper[r])
     IN IF DOMAIN set = {}
        THEN ExitOK(r)
        ELSE /\ helper' = [helper EXCEPT ![r].at = "runs", ![r].set = set,
                                         ![r].todo = Script(helper[r].page, DOMAIN set)]
             /\ UNCHANGED obsVars
  /\ UNCHANGED <<conf, mem, servedVars, timers, cookie, applies, faults, restarts>>

(* The next step of r's script.                                            *)
At(r, step) ==
  /\ helper[r].at = "runs" /\ step \in helper[r].todo
  /\ \A s \in helper[r].todo : Rank(step) <= Rank(s)

Proceed(r, step) == helper' = [helper EXCEPT ![r].todo = @ \ {step}, ![r].wrote = TRUE]

frame == <<mem, timers, cookie, applies, faults, restarts, obsVars>>

(* The value of a line.  On a node without an XHTTP path one is generated. *)
Line(r, k) == IF k = "xhttp" THEN Base ELSE helper[r].set[k]
Due(r, k) == k = "xhttp" => helper[r].env["xhttp"] = Unset

(* sed -i: the whole of config.env is copied, and the copy moved into its  *)
(* place.  Only the XHTTP path may have no line yet, and gets one at the   *)
(* end.                                                                    *)
Draft(r, k) ==
  /\ At(r, k) /\ Due(r, k)
  /\ helper[r].draft = Nothing /\ conf[k] # Unset
  /\ helper' = [helper EXCEPT ![r].draft = [conf EXCEPT ![k] = Line(r, k)]]
  /\ UNCHANGED <<conf, servedVars, frame>>

EditConf(r, k) ==
  LET h == helper[r]
      env == IF k = "xhttp" THEN [h.env EXCEPT !["xhttp"] = Base] ELSE h.env
  IN
  /\ At(r, k) /\ Due(r, k)
  /\ IF h.draft # Nothing THEN conf' = h.draft
     ELSE conf[k] = Unset /\ conf' = [conf EXCEPT ![k] = Line(r, k)]
  /\ helper' = [helper EXCEPT ![r] = [h EXCEPT !.todo = @ \ {k}, !.draft = Nothing,
                                              !.wrote = TRUE, !.env = env]]
  /\ debt' = IF k = "xhttp" THEN debt \cup {"xhttp"} ELSE debt
  /\ UNCHANGED <<servedVars, mem, timers, cookie, applies, faults, restarts, last, shown>>

Source(r) ==
  /\ At(r, "source")
  /\ helper' = [helper EXCEPT ![r].todo = @ \ {"source"}, ![r].env = conf]
  /\ UNCHANGED <<conf, servedVars, frame>>

Render(r) ==
  /\ At(r, "render")
  /\ http' = [http EXCEPT !.new = HttpOf(helper[r].env)]
  /\ Proceed(r, "render")
  /\ UNCHANGED <<conf, xray, token, cert, live, conns, nginx, frame>>

(* mv: the copy may be another helper's, or already gone.                  *)
Install(r) ==
  /\ At(r, "install") /\ http.new # Unset
  /\ http' = [file |-> http.new, new |-> Unset]
  /\ Proceed(r, "install")
  /\ UNCHANGED <<conf, xray, token, cert, live, conns, nginx, frame>>

(* A node that has an XHTTP path keeps it.                                 *)
KeepXHTTP(r) ==
  /\ At(r, "xhttp") /\ ~Due(r, "xhttp")
  /\ helper' = [helper EXCEPT ![r].todo = @ \ {"xhttp"}]
  /\ UNCHANGED <<conf, servedVars, frame>>

RenderXray(r) ==
  /\ At(r, "xrender")
  /\ xray' = [xray EXCEPT !.new = XrayOf(helper[r].env)]
  /\ Proceed(r, "xrender")
  /\ UNCHANGED <<conf, http, token, cert, live, conns, nginx, frame>>

InstallXray(r) ==
  /\ At(r, "xinstall") /\ xray.new # Unset
  /\ xray' = [xray EXCEPT !.file = xray.new, !.new = Unset]
  /\ Proceed(r, "xinstall")
  /\ UNCHANGED <<conf, http, token, cert, live, conns, nginx, frame>>

UpdateToken(r) ==
  /\ At(r, "psql")
  /\ token' = helper[r].env["ws"]
  /\ Proceed(r, "psql")
  /\ UNCHANGED <<conf, http, xray, cert, live, conns, nginx, frame>>

(* A self-signed lineage is removed, whether or not it is in use.          *)
RemoveStub(r) ==
  /\ At(r, "stub")
  /\ LET host == helper[r].set["host"]
     IN IF live[host] = "stub"
        THEN live' = [live EXCEPT ![host] = "none"] /\ Proceed(r, "stub")
        ELSE helper' = [helper EXCEPT ![r].todo = @ \ {"stub"}] /\ UNCHANGED live
  /\ UNCHANGED <<conf, http, xray, token, cert, conns, nginx, frame>>

(* A lineage that certbot has issued is kept.                              *)
Certbot(r) ==
  /\ At(r, "certbot")
  /\ live' = [live EXCEPT ![helper[r].set["host"]] = "issued"]
  /\ helper' = [helper EXCEPT ![r].todo = @ \ {"certbot"}]
  /\ UNCHANGED <<conf, http, xray, token, cert, conns, nginx, frame>>

(* ln -sf.                                                                 *)
Link(r, file) ==
  /\ At(r, file)
  /\ cert' = [cert EXCEPT ![file] = helper[r].set["host"]]
  /\ Proceed(r, file)
  /\ UNCHANGED <<conf, http, xray, token, live, conns, nginx, frame>>

BackUpConns(r) ==
  /\ At(r, "backup")
  /\ conns' = [conns EXCEPT !.bak = conns.file]
  /\ Proceed(r, "backup")
  /\ UNCHANGED <<conf, http, xray, token, cert, live, nginx, frame>>

EditConns(r) ==
  /\ At(r, "tune")
  /\ conns' = [conns EXCEPT !.file = helper[r].set["conns"]]
  /\ Proceed(r, "tune")
  /\ UNCHANGED <<conf, http, xray, token, cert, live, nginx, frame>>

(* nginx refuses a certificate that is gone or does not fit its key.       *)
Sound == cert.fullchain = cert.privkey /\ live[cert.fullchain] # "none"

TestPasses(r) ==
  /\ At(r, "test") /\ Sound
  /\ Proceed(r, "test")
  /\ UNCHANGED <<conf, servedVars, frame>>

Reload(r) ==
  /\ At(r, "reload") /\ Sound
  /\ nginx' = Loaded(http.file, cert, conns.file)
  /\ conns' = IF helper[r].page = "perf" THEN [conns EXCEPT !.bak = Unset] ELSE conns
  /\ Proceed(r, "reload")
  /\ UNCHANGED <<conf, http, xray, token, cert, live, frame>>

(* Mutation: xray is never restarted.                                      *)
ScheduleDaemon(r) ==
  /\ At(r, "timer")
  /\ timers' = [timers EXCEPT !["daemon"] = @ + 1]
  /\ ExitOK(r)
  /\ UNCHANGED <<conf, mem, servedVars, cookie, applies, faults, restarts>>

(* Mutation: a new UUID alone restarts nothing.                            *)
ScheduleForPaths(r) ==
  /\ At(r, "timer")
  /\ timers' = IF DOMAIN helper[r].set = {"uuid"} THEN timers
                ELSE [timers EXCEPT !["daemon"] = @ + 1]
  /\ ExitOK(r)
  /\ UNCHANGED <<conf, mem, servedVars, cookie, applies, faults, restarts>>

(* systemd-run, then exit: the timer fires two seconds later.              *)
Schedule(r) ==
  /\ At(r, "timer")
  /\ LET first == IF helper[r].page = "paths" /\ "ws" \in DOMAIN helper[r].set
                  THEN "xray" ELSE "daemon"
     IN  timers' = [timers EXCEPT ![first] = @ + 1]
  /\ ExitOK(r)
  /\ UNCHANGED <<conf, mem, servedVars, cookie, applies, faults, restarts>>

(* The Performance page records the value itself, and does not mind when   *)
(* it cannot.                                                              *)
SaveConns(r) ==
  /\ At(r, "save") /\ ~helper[r].late
  /\ conns' = [conns EXCEPT !.saved = helper[r].set["conns"]]
  /\ ExitOK(r)
  /\ UNCHANGED <<conf, mem, http, xray, token, cert, live, nginx, timers, cookie, applies,
                 faults, restarts>>

SaveConnsFails(r) ==
  /\ At(r, "save") /\ ~helper[r].late /\ Fault
  /\ Stop(r)
  /\ last' = "applied" /\ debt' = debt \cup {"conns"}
  /\ UNCHANGED <<conf, mem, servedVars, timers, cookie, applies, restarts, shown>>

(* A page whose deadline has passed takes the helper for failed.           *)
SaveConnsSkipped(r) ==
  /\ At(r, "save") /\ helper[r].late
  /\ Stop(r)
  /\ last' = "failed" /\ debt' = debt \cup {"conns"}
  /\ UNCHANGED <<conf, mem, servedVars, timers, cookie, applies, faults, restarts, shown>>

Steps(r) ==
  \/ Start(r)
  \/ \E k \in Key : Draft(r, k) \/ EditConf(r, k)
  \/ Source(r) \/ Render(r) \/ Install(r)
  \/ KeepXHTTP(r) \/ RenderXray(r) \/ InstallXray(r) \/ UpdateToken(r)
  \/ RemoveStub(r) \/ Certbot(r) \/ \E file \in {"fullchain", "privkey"} : Link(r, file)
  \/ BackUpConns(r) \/ EditConns(r)
  \/ TestPasses(r) \/ Reload(r) \/ Schedule(r) \/ SaveConns(r) \/ SaveConnsSkipped(r)

---------------------------------------------------------------------------
(* Failures *)

(* Nothing there to be moved; a certificate gone or without its key.       *)
MustFail(r) ==
  \/ At(r, "install") /\ http.new = Unset
  \/ At(r, "xinstall") /\ xray.new = Unset
  \/ (At(r, "test") \/ At(r, "reload")) /\ ~Sound

(* The Performance helper takes its edit back when nginx -t refuses it,    *)
(* though another helper may have loaded it meanwhile; mv fails when       *)
(* another run has used up the backup.                                     *)
Reverts(r) == At(r, "test") /\ helper[r].page = "perf" /\ conns.bak # Unset

(* set -e ends the script and leaves what it has done; so does the check   *)
(* of xray's new file, after removing it.                                  *)
Fail(r) ==
  /\ InFlight(r) /\ ~At(r, "save")
  /\ IF MustFail(r) THEN UNCHANGED faults ELSE Fault
  /\ IF Reverts(r)
     THEN /\ conns' = [conns EXCEPT !.file = conns.bak, !.bak = Unset]
          /\ Stop(r) /\ last' = "failed"
          /\ debt' = IF helper[r].alone THEN debt ELSE debt \cup {"conns"}
          /\ UNCHANGED shown
     ELSE ExitFailed(r) /\ UNCHANGED conns
  /\ xray' = IF At(r, "xrender") THEN [xray EXCEPT !.new = Unset] ELSE xray
  /\ UNCHANGED <<conf, mem, http, token, cert, live, nginx, timers, cookie, applies, restarts>>

(* The page's deadline passes.  It may not kill sudo, which is root's, so  *)
(* it goes on waiting and the helper goes on running.                      *)
Overtime(r) ==
  /\ InFlight(r) /\ ~helper[r].late
  /\ Fault
  /\ helper' = [helper EXCEPT ![r].late = TRUE]
  /\ UNCHANGED <<conf, mem, servedVars, timers, cookie, applies, restarts, obsVars>>

---------------------------------------------------------------------------
(* Restarts *)

(* lightxrayd loads config.env; the helpers it was running die with it.    *)
Reborn ==
  /\ mem' = conf
  /\ helper' = [r \in Req |-> Idle]
  /\ debt' = (debt \ {"daemon"}) \cup UNION {Spoilt(helper[r]) : r \in Req}
  /\ shown' = [shown EXCEPT !.sure =
                 @ /\ ~\E r \in Req : helper[r].page = "admin" /\ helper[r].wrote]
  /\ last' = IF \E r \in Req : InFlight(r) THEN "cut off" ELSE last
  /\ UNCHANGED <<conf, servedVars, cookie, applies, faults>>

Pending(service) == timers[service] > 0

RestartDaemon ==
  /\ Pending("daemon")
  /\ Reborn
  /\ timers' = [timers EXCEPT !["daemon"] = @ - 1]
  /\ UNCHANGED restarts

RestartXray ==
  /\ Pending("xray")
  /\ xray' = [xray EXCEPT !.run = xray.file]
  /\ timers' = [timers EXCEPT !["xray"] = @ - 1, !["daemon"] = @ + 1]
  /\ UNCHANGED <<conf, mem, http, token, cert, live, conns, nginx, helper, cookie, applies,
                 faults, restarts, obsVars>>

(* "&&": without xray the daemon is not restarted either.                  *)
RestartXrayFails ==
  /\ Pending("xray")
  /\ Fault
  /\ timers' = [timers EXCEPT !["xray"] = @ - 1]
  /\ debt' = debt \cup {"xray", "daemon"}
  /\ UNCHANGED <<conf, mem, servedVars, helper, cookie, applies, restarts, last, shown>>

Restarts == RestartXray \/ RestartDaemon

Crash ==
  /\ restarts < MaxRestarts
  /\ restarts' = restarts + 1
  /\ Reborn
  /\ UNCHANGED timers

---------------------------------------------------------------------------
Operator ==
  \/ loginSubmit \/ logout
  \/ \E r \in Req, p \in Page : \E form \in [Field(p) -> Value] :
       \E unread \in BOOLEAN : Submit(r, p, form, unread)

Next ==
  \/ Operator
  \/ \E r \in Req : Steps(r) \/ Fail(r) \/ SaveConnsFails(r) \/ Overtime(r)
  \/ Restarts
  \/ RestartXrayFails
  \/ Crash

Spec == Init /\ [][Next]_vars

(* Some running script goes on, and timers fire.                           *)
FairSpec == Spec /\ WF_vars(\E r \in Req : Steps(r) \/ Fail(r)) /\ WF_vars(Restarts)

---------------------------------------------------------------------------
Part == {"daemon", "http", "xray", "xhttp", "token", "cert", "conns"}

(* When every copy of a part says the same.                                *)
Agrees(p) ==
  CASE p = "daemon" -> mem = conf
    [] p = "http"   -> http.file = HttpOf(conf) /\ nginx.http = http.file
    [] p = "xray"   -> xray.file = XrayOf(conf) /\ xray.run = xray.file
    [] p = "xhttp"  -> Snippet = conf["xhttp"]
    [] p = "token"  -> token = conf["ws"]
    [] p = "cert"   -> /\ {cert.fullchain, cert.privkey, conf["sni"]} = {conf["host"]}
                       /\ nginx.cert = cert /\ live[cert.fullchain] # "none"
    [] p = "conns"  -> conns.saved = conns.file /\ nginx.conns = conns.file

(* Every variable keeps its type; a script that runs has a step to run.    *)
HelpersTypeOK ==
  /\ {conf, mem} \subseteq [Key -> Value \cup {Unset}]
  /\ http.file \in [HttpKey -> Value] /\ http.new \in [HttpKey -> Value] \cup {Unset}
  /\ {xray.file, xray.run} \subseteq [{"ws", "xhttp"} -> Value \cup {Unset}]
  /\ token \in Value
  /\ cert \in [{"fullchain", "privkey"} -> Value]
  /\ live \in [Value -> {"none", "stub", "issued"}]
  /\ conns \in [file: Value, saved: Value, bak: Value \cup {Unset}]
  /\ nginx \in [http: [HttpKey -> Value], conns: Value, cert: [{"fullchain", "privkey"} -> Value]]
  /\ \A r \in Req : helper[r].at = "runs" <=> helper[r].todo # {}
  /\ timers \in [Service -> Nat]
  /\ last \in {"none", "no change", "applied", "failed", "cut off"}
  /\ shown \in [path: Value, uuid: Value, sure: BOOLEAN]
  /\ debt \subseteq Part

(* applypaths:6, 13: the paths live in the data plane, not just in the     *)
(* database.  When no helper runs and no restart is due, nginx, xray, the  *)
(* token customers are told, the certificate and the daemon all go by      *)
(* config.env, but for the copies of an apply that failed, was killed or   *)
(* ran beside another since they were last rewritten in peace.  The one    *)
(* exception is nginx's route to XHTTP on a node older than XHTTP: a path  *)
(* that a helper has generated there is never routed.                      *)
CopiesAgree == Settled => \A p \in Part \ debt : Agrees(p)

(* admin.html: "you'll need them to get back in".  The login the Admin     *)
(* page showed after the last change is the one that opens the dashboard   *)
(* once the restarts are over, if the form was sent to a daemon that was   *)
(* up to date and no other helper interfered.                              *)
ShownLoginWorks ==
  (Settled /\ shown.sure /\ debt \cap {"http", "daemon"} = {})
     => /\ shown.path = nginx.http["path"] /\ shown.path = mem["path"]
        /\ shown.uuid = mem["uuid"]

(* auth.go:5: rotating the UUID ends every session signed with the old     *)
(* one, at the latest with the restart, unless that restart failed.        *)
RotationEndsSessions ==
  (Accepted /\ conf["uuid"] # mem["uuid"])
     ~> (cookie.sig # mem["uuid"] \/ conf["uuid"] = mem["uuid"] \/ "daemon" \in debt)

(* paths.html: "Applied. nginx reloaded and lightxray is restarting":      *)
(* once a page has said so and the restarts are over, every copy agrees,   *)
(* whatever went wrong in an earlier attempt.                              *)
AppliedMeansInEffect == (last = "applied" /\ Settled) => \A p \in Part : Agrees(p)
============================================================================
