# A TLA+ model of lightxray

lightxrayd is the control plane of a VPN node. xray-core moves the bytes, PostgreSQL
holds the customers, and the daemon keeps the two in agreement: it registers and evicts
users over gRPC, bills what they move, enforces quotas and days, and hands out
subscriptions. Nothing it does is a transaction across the two, and nothing is behind a
lock that spans more than one call. What the operator changes in the dashboard beyond
users (paths, the admin login, the domain, Reality, CDN hosts) is spread over files,
services and tables in the same way. This directory models that, checks it with TLC and
proves every safety property the runs check, for all values of the constants, with TLAPS.

Line numbers refer to the sources in `src/`.

## Inventory

| component | state it keeps | operations | what is hard | what makes it correct |
|---|---|---|---|---|
| reconciler (`internal/reconciler`) | locals of `tick()`; cursors in the database | one tick per period: snapshot, per user bill / touch / move cursor, day's total, purge, evict | a crash or an error between any two calls; a snapshot that ages while handlers replace rows; xray restarting its counters | every byte billed once, or accounted for by a named event; whoever is due is purged, nobody else |
| store (`internal/db`) | tables users, stats_cursor, traffic_daily, settings, cdn_hosts | one SQL statement per function | nothing is grouped in transactions; cascades | a cursor belongs to the row it was made for |
| xray client (`internal/xray`) | the active tag set, under a mutex | AddUser, RemoveUser over all tags, per-tag forms, hydration, statistics | fan-out that fails in part, answers that are lost, tags changed meanwhile, inbounds that do not exist | xray's lists are those of the enabled rows |
| start-up (`cmd/lightxrayd`) | none | serve HTTP; beside it wait for xray, lay the toggles, hydrate, reconcile | requests are served before the toggles are laid and the rows replayed | every start ends with every enabled user registered |
| admin API (`internal/server`) | none | create, patch, delete, live usage of a user | requests beside each other and beside the tick | an answer is true or off by what can be named; a disabled user cannot connect |
| dashboard (`internal/ui`) | none besides the store's | users, Transports, CDN, backup, Reality, paths, performance, domains, admin | flags read in one call and used in another; a Transports request that stops half-way or overlaps another | settings, tag set and lists agree |
| subscription (`internal/sub`, `customer_sub.go`) | none | base64 bundle, Clash profile, preview | hosts, toggles and users read by separate queries | a link works, and every way in has its link |
| Reality, Backup, CDN pages (`internal/ui`) | rows of settings and cdn_hosts | save five keys, add hosts by name, add / toggle / delete a host | keys are written one by one in map order; a start and a restore write the same rows | the link is one form's; what was switched off stays off |
| Paths, Admin, Domains, Performance pages | none besides a running helper | pass the changed fields to a root helper, say what became of it | the daemon's memory is old until a restart two seconds later | what the page says is true |
| sessions (`ui/auth.go`) | none (signed cookie) | mint, validate, clear | the signing key rotates | a rotation ends the old sessions |
| root helpers (`deploy/lightxray-apply*`) | config.env, nginx's and xray's files, certificate links, a token in settings | rewrite the copies one after the other, reload nginx, leave a timer | no way back after a failure; no lock, so one puts back the file another has edited; one helper's restart kills another | in the end all copies agree |
| installers (`deploy/`) | the same files | write them, seed settings, restart | runs beside a live daemon | |


The parts meet in six places: the users table (handlers, tick, hydration), xray's user lists
(handlers, tick, hydration, Transports), the tag set (start-up, Transports, every AddUser),
xray's counters (tick, live usage), the tables settings and cdn_hosts (pages, installer,
start-up, subscriptions) and config.env (helpers, every start). `PROJECT.json` lists the
hazards of each with the properties that would catch them.

## Modules

| module | what it is | extends |
|---|---|---|
| `Reconciler` | billing, enforcement and everything that writes users, stats_cursor or traffic_daily | |
| `Meter` | what a traffic meter promises, without a mechanism | |
| `ReconcilerProofs` | theorems about `Reconciler`, among them that it implements `Meter` | `Reconciler` |
| `LiveUsage` | GET of one user beside the whole of `Reconciler` | `Reconciler` |
| `LiveUsageProofs` | theorems about `LiveUsage` | `LiveUsage`, `ReconcilerProofs` |
| `Provisioning` | rows against xray's lists: requests, tick, start-up, Transports | |
| `Access` | what provisioning promises a customer, without a mechanism | |
| `AccessProofs` | what every implementation of `Access` keeps | `Access` |
| `ProvisioningProofs` | theorems about `Provisioning` | `Provisioning` |
| `CDN` | table cdn_hosts and the statements that change it | |
| `MembershipProofs` | theorems about rows and lists, among them that `Provisioning` implements `Access` | `ProvisioningProofs` |
| `Subscription` | the links a customer is told, beside the whole of `Provisioning` | `Provisioning`, `CDN` |
| `SubscriptionProofs` | theorems about `Subscription` | `Subscription`, `MembershipProofs` |
| `Dashboard` | the Reality page, restored and seeded hosts, the installer, the CDN page | `CDN` |
| `DashboardProofs` | theorems about `Dashboard` | `Dashboard` |
| `Helpers` | the four root helpers, the pages that run them, sessions, restarts | |
| `HelpersProofs` | theorems about `Helpers` | `Helpers` |
| `MC...` | values of constants and the symmetry sets for TLC | the module they are named after |

`Reconciler` and `Provisioning` cut the daemon in two. The first has the numbers and no
user lists, so that a UUID may move bytes whether or not it has a row (a purged user's
open connection does). The second has the lists and no numbers, so its purge may take any
enabled row besides the disabled ones: `Reconciler` says which ones it really takes.

### Reconciler

Each of `tick()`'s calls to xray or the database is an action with the function's name,
and each has a twin `...Fails`. The program counter `pc` and the variables after it are
`tick()`'s locals. Up and down counters are kept apart, since each direction detects a
restart on its own, and are summed where the code sums them. Handlers appear as the one
statement each of them sends to users. `DeleteDisabledOverLimitOrExpired` is the
`DELETE ... RETURNING` of `users.go:373` with its three clauses.

The failing actions are those of a statement that did nothing. A statement that took
effect but whose answer was lost leaves the same state as one that succeeded, because the
tick logs the error of AddUsage, TouchLastOnline, UpsertCursor and AddDailyTraffic and goes
on in the same way.

Some variables observe and influence nothing; four of them are about a row:

* `carried[u]`: what u's row has moved since it was made (with what its backup said);
* `surplus[u]`: what u may be billed too much, each time with its cause: counters left
  from before the row was made, a snapshot a tick still holds at that moment, and bytes of
  a tick whose cursor was not written;
* `forfeit[u]`: what lay past the cursor when xray restarted;
* `hidden[u]`: what a counter that overtook its cursor between two ticks, a failed
  AddUsage, or a snapshot of the previous row under a new one skipped;

and two about the day: `astray`, what a tick counted for the day although AddUsage failed or
found no row, and `unlogged`, batches that a failed AddDailyTraffic or a crash kept from the
day's total.

So `NeverOverbilled` and `NeverForgotten` are two one-sided bounds that hold always, and
`ExactUnlessDisturbed` says that without such an event the books are exact. `DailyReconciles`
relates the day's total to the sum of what was billed, at every moment between ticks and
whatever failed or was edited before: the two differ by `unlogged` and `astray` and nothing
else. These variables have to be justified as much as the properties: each is raised by a few
actions, whose comments name the line of code that does it.

What the purge owes the operator is said without its own tests: `Entitled` counts days from
the start date as an interval, a quota as what is below it, and a NULL start date, 0 days or a
quota of 0 as no end at all. `NoEarlyCutoff` and `DuePurged` use it, so a wrong day boundary in
`Expired` violates them.

`Meter` is the promise: an account is charged in steps, never beyond what it moved and its
tolerance, and its charge never shrinks while it is open. `ImplementsMeter` maps rows,
`carried`, `usage_bytes` and `surplus` to it.

### LiveUsage

`adminGetUser` makes three calls, GetUser, PerUserTraffic and GetCursor, and each is an
action; between them `Around` takes any step of `Reconciler`. `FallBack` is the answer
when xray or the database does not. `Pending` has the clamp at 0 of the code, which
never bites (`PendingIsDelta`).

The observation is what the row had moved when xray was read (`truth`), with its surplus
(`spare`) and what it had lost (`lost`) at that moment, whether the row is still the one that
was read (`same`), and `quiet`: the request did not begin between a tick's AddUsage and its
cursor write for this row, and nobody has written usage or cursor of the row since. Under
`quiet` the answer is exact up to `lost` and `spare` for every row, whatever befell it before,
and restarts, failures and other requests between the reads change nothing
(`ExactWhenQuiet`). Without it two bounds are left: it errs upwards by less than one xray
lifetime of traffic, and what it leaves out has been billed since or was lost by a named event.

### Provisioning

xray's lists (`member`), the tag set (`active`), the rows by their enable flag, the toggles in
settings. `job[p]` is the state of a process, that is of an HTTP handler or of the goroutine
of `main()`: the users it works on, the copy of the tag set it took for the current one
(`activeTags` copies under the lock, AddUser then loops over the copy), the tags left, whether
a call failed, and what follows. The third attempt of `alterWithRetry` decides: the model has
one attempt that may fail and, failing, may or may not have taken effect. `apply[r]` is the
state of a Transports request, and any number of them (`Page`) are under way side by side,
each key by key: `SetSetting`, `SwitchTag`, `Backfill`. What a request takes for the current
toggles may be wrong, because the error of GetSettings is dropped (`transports.go:41`): the
settings it did not get count as never set.

`DeadlineExpires` and `ApplyTimesOut` end all that a process had still to do at once: a
request's 15 seconds (`server.go:80`), a tick's 30 (`reconciler.go:58`) and a Transports
request's 120 (`transports.go:102`) are one context for all of its calls, the rollback
among them, and the dashboard's handlers use the context of the connection, which ends when
the browser leaves. The call under way may have taken effect. `RowAnswerLost` is the other
half of that: the row was written and the handler returned before it told xray. Hydration
runs under no deadline.

Again a few variables observe. `mayLack`, `mayGhost` and `stuck` hold the users for whom an
event excuses a difference between rows and lists: a failed call, two operations on one user
at once (two removals do not clash), an xray restart, a re-push of a disabled row. `drift` is
set when a Transports request meets a starting daemon, when toggles could not be read or
written, and when two Transports requests overtake each other: one stores a setting, the other
stores the opposite and switches the tag, and then the first switches it back (`Overtaken`).
Requests for different transports, or in any other order, leave no drift, and
`TagsFollowSettings` holds while they run, but for the transports they are switching.
Hydration clears `mayLack`, an xray restart clears `mayGhost` of users nobody works on: these
are the code's two ways of repair, and the properties would fail if they did not repair. A
daemon that starts with `drift` set may lay a toggle over the tag set that is not the stored
one, so such a restart raises `mayGhost` for every user; no run is large enough to need that,
and the attempt to prove `NoGhosts` showed that it was missing.

`Access` is the promise: a user in hand may be in any state, one out of hand is listed where
it is entitled to be, up to two excuses, and nothing happens to it without one. The excuses
may not be dropped while they are still needed. `ImplementsAccess` maps the enabled rows to
the entitled users, `active` without the missing inbounds to the inbounds in use, `member` to
the lists, `Busy` to "in hand" and the marks to the excuses. It says more than
`NobodyLockedOut` and `NoGhosts`, which are about single states: a step that moves the row or
the registration of a user nobody is working on has to mark it in the same step, a mark goes
only with a hydration (everybody is in hand) or with an xray restart (no list is left), and the
tag set changes only while a start or a Transports request has everybody in hand.

### Subscription

The CDN page as single statements, and a request as three: the user, the hosts, the
toggles. `buildLines`, `BuildClashMeta`, `effectiveTags` (of `effectiveCfg`) and the
preview's plain `envTags` are translated as sets of pairs (host, transport). A tag xray has
no inbound for stands for an unset LX_VLESS_XHTTP_PATH.

### CDN and Dashboard

`CDN` is the table and its four statements; `Subscription` reads it, `Dashboard` writes it.
In `Dashboard` a request of the Reality or the Backup page is a record with the keys or
hosts it has still to write, and every write is an action: `SetSetting` takes any remaining
key, for the order is that of a Go map. `boot` are the hosts a starting daemon has still to
add; it serves nothing before it is through. `Install` is the installer's one INSERT over
all keys, at any time. `LinkOf` is `lookupReality` with `HasValue`: a port that is no
positive number becomes 8443, a missing target means no link. The public key is left out
because nothing changes it.

Two variables observe. `whole` is the form of the last save that went through with no other
save or installer beside it; it is given up when a save begins, and by the installer when it
meets one. `off` are the hosts the operator switched off and has neither switched on again
nor deleted. So `RealityLinkWhole` is about what a successful save has to clear away, and
`OffStaysOff` about three writers that know nothing of the operator.

### Helpers

What the operator sets exists in several copies, and each is a variable (but for nginx's route
to XHTTP, a constant, since only the installation writes that snippet, `Snippet`): config.env
(`conf`), the daemon's memory (`mem`), nginx's http file with the `.new` copy scripts write
first (`http`), xray's file and what xray has loaded (`xray`), the WebSocket token in settings
(`token`), the two certificate links (`cert`) and the lineages they point to (`live`),
nginx.conf with its backup and the row the Performance page keeps (`conns`), and what nginx
has loaded (`nginx`). A helper is the set of the steps its script (`Script`) has still to run,
of which the one of least `Rank` is next; each step is an action named after what it does, and
`Fail` is `set -e`. A line of config.env is written in two steps, as `sed -i` does: `Draft`
copies the whole file, `EditConf` moves the copy into its place, so that two helpers lose each
other's lines. The helper sources config.env in a step of its own and renders from what it
sourced. The Domains helper removes a self-signed lineage (`RemoveStub`) before it asks
certbot for one (`Certbot`), so a failure in between leaves the links dangling, and nginx
refuses every reload (`Sound`). `timers` counts the restarts left behind by `systemd-run`, by
the service each has to restart next; a restart of the daemon loads config.env and kills every
helper that runs, as systemd kills the service's whole control group. A file's contents are
the values rendered into it; formats, and the values no page changes, are left out.

`currentPaths` takes the daemon's WebSocket path when the token cannot be read. On a node older
than XHTTP the Paths helper generates a path, for config.env and xray; nginx's snippet is not
written, so that path is never routed, and the part "xhttp" stays in debt for good.

A page gives its helper 30, 60 or 90 seconds. `Overtime` is that deadline: the daemon runs as
user lightxray and may not kill root's sudo, so it waits on, the helper finishes, and the
page then says "Apply failed", because the context's error wins over a zero exit status.

Three variables observe. `last` is what the page said. `shown` is the login the Admin page
gave last, with `sure` false when the form was sent to a daemon that still had a restart
before it or another helper ran at the same time. `debt` are the copies a helper that failed,
was killed or had company may have left apart, lines of config.env put back included; a helper
that runs alone to its end clears the copies it rewrites, a restart clears the daemon's.
`CopiesAgree` demands agreement of every copy without a debt, so it says which of the
disturbances are repaired by what; `AppliedMeansInEffect`, without the debts, is what the page
claims, and is a finding.

## Runs

| run | question | bounds |
|---|---|---|
| `Reconciler_books` | do the books survive failures, restarts, replaced rows; does the loop implement `Meter` | 1 user, counters up to 2, 1 xray restart, 1 failure or crash, 2 edits; 2.6 M states |
| `Reconciler_enforce` | is everyone who is due purged, nobody else | 1 user, 3 plans, 2 days, quota 2, 1 restart, 1 edit, a backup with usage; fair; 0.8 M states |
| `LiveUsage_quiet` | what a live answer is worth | 1 user, counters up to 2, 1 restart, 1 failure and 1 edit, two of the three (`TwoMishaps`); 2.3 M states |
| `LiveUsage_double_count` | finding | no restart, failure or edit |
| `Provisioning_requests` | do rows and lists agree after requests beside the purge and hydration; does it implement `Access` | 2 users, 1 tag, 1 handler, 1 failure, 1 restart; 1.1 M states |
| `Provisioning_transports` | the same beside the Transports page, with failures anywhere in it and two such requests at once; does the tag set follow the settings | 1 user, 2 toggled tags, 1 handler, two processes at work at a time, 2 Transports requests or 1 and a failure (`InPairs`); 0.5 M states |
| `Provisioning_liveness` | does hydration complete, are disabled users evicted, do rows and lists agree on the way | 1 user, 3 tags of which one without an inbound, 1 failure, 1 restart; fair; 0.2 M states |
| `Subscription_bundle` | does a bundle name what works | 1 user, 1 host, WS and XHTTP, 1 Transports request or 1 failure (`OneOfBoth`); 0.9 M states |
| `Subscription_switched_off` | finding | no failure, no Transports request but the initial toggles |
| `Helpers_apply` | do all copies agree, does the shown login work, do old sessions end | 2 requests, 4 pages, 2 values, 2 forms, 1 failure or crash, 2 helpers at once until then (`OneMishap`), a node without an XHTTP path and with a self-signed lineage; fair; 0.16 M states |
| `Helpers_retry` | finding | 1 request, the Paths page, 2 forms, 1 failure |
| `Dashboard_pages` | is the Reality link one form's, does off stay off | 2 requests, 5 forms of which 3 are sent, 1 host that is also in LX_CDN_HOSTS, 1 failure, 2 restarts or installations; 0.7 M states |

Why the bounds are enough. Users do not interact in billing except through the day's sum and
the order of visits; one user and the theorems below, which hold for any number, cover that.
In Provisioning they interact only through batches (bulk delete, purge, hydration), which is
what the two users of `Provisioning_requests` are for. Counters up to 2 are enough for a
counter to fall behind its cursor after a restart, to reach it, and to pass it. Two edits are
a deletion and a re-creation under one tick. One failure at a time hits every call in every
position; two failures matter only where a failure is answered by another call, the rollback,
and that both fail is what one passing deadline does. A partial fan-out needs two inbounds,
and the third of `Provisioning_liveness` shows that a missing one does not matter. One handler
at a time runs beside the reconciler, which does all a second handler could (it adds, removes
and drops rows), and beside a Transports request; two handlers, and a restart besides in
`Provisioning_transports`, were checked on occasion and are left out for their size (5 to 8 M
states). One Transports request overlaps the handler, the tick and the start in any way; two
overlap each other with nobody else at work then or later, and without a failing call.
`InPairs` excludes the rest for its size, and nothing in the proofs does. The initial states
have every combination of rows and toggles that a request cut short leaves, and `TagsFollow`
below is proved with restarts.

`LiveUsage_quiet` and `Helpers_apply` use a VIEW that leaves out what neither an action nor
a property of the run reads: what is known of a request whose row has gone, the day's total;
the last answer, which request is which, a login that is not sure.

Two helpers at a time are enough for each pair of scripts to meet at each pair of steps, and
two applies for a retry; a third would need a third request within seconds. Two values tell
old from new. Until a failure or a crash two helpers run at once, and one at a time after it,
where a second would only add to what is excused; the restarts that helpers schedule kill
others in every run, and the proofs have no such bound. In `Dashboard_pages` two requests
overlap or follow each other, and the third form finds the mixture they leave; hosts do not
interact. `DashboardProofs` shows that no bound matters there.

Handlers and xray may stop at any time and a request that finds nothing to do is no step; no
run needs deadlock checking switched off all the same, because some request is always
possible.

## Fairness

`Reconciler`'s `FairSpec` has weak fairness of `tick` alone: the ticker fires for as long as
the daemon runs, every call has a deadline (`reconciler.go:57`), and systemd starts a daemon
that died. `Provisioning` adds weak fairness of each process that is in the middle of
something, of start-up and of a Transports request: each is straight-line code whose calls end
by a deadline. `Enforce` is the reconciler's tick as far as it takes disabled rows. `Helpers`
has weak fairness of some running script going on (each is straight-line code under a deadline
of the page, `paths.go:102`; nothing is asked of which of two goes first), and of the timers,
which systemd fires. No request, no failure, no restart (but those scheduled) and no traffic
is ever promised. Failures and restarts are bounded, so "eventually" means: once they stop.

## Findings

Each has a run that TLC ends with a counterexample.

1. `LiveUsage_double_count`, `admin_users.go:109`: the comment says there is no double-count
   race with a concurrent tick. Within the run's bounds the handler's reads fall between the
   tick's two writes, GetUser after AddUsage and GetCursor before UpsertCursor: the stored
   usage holds the bytes and the cursor does not cover them yet, so they count twice. A second
   way takes 3 bytes: a tick that runs wholly between PerUserTraffic and GetCursor puts its
   cursor past what was read, which the handler takes for a restart and adds whole. A tick
   that bills wholly between the first read and the last otherwise leaves the answer exact or
   below.
2. `Subscription_switched_off`, `ui/users.go:209` and `clash.go:62`: the preview and the
   Clash profile ignore the Transports toggles.
3. `Helpers_retry`, `lightxray-applypaths:75`: after a helper failed half-way, the same form
   sent again is answered with "Applied", though nothing is: config.env, which the first
   attempt rewrote, is what the second compares with.

Noticed while modelling, each true of the model but without a run:

* `schema.sql:89` says the daily total always reconciles with the per-user counters; a
  failed AddUsage is logged, its bytes stay in the day's batch (`reconciler.go:110-116`), and
  so do those of a row deleted under the tick; a batch whose AddDailyTraffic fails is dropped.
  `DailyReconciles` therefore has the terms `astray` and `unlogged`; without either, TLC
  violates it.
* `reconciler.go:103` bounds what a restart loses by the bytes after the last persist; a
  counter that has overtaken its cursor by the next tick loses the cursor's worth too. It
  is the first cause of `hidden`: without that term `NeverForgotten` is violated.
* `cdn_hosts.go:113` says new rows default to ws; `schema.sql:58` makes it wsxhttp, and so
  does `AddCDNHost`.
* `admin_users.go:233`: POST of a known, disabled UUID with enable=true registers it in xray
  although the row stays disabled, until the next purge; `:232` says disabled users cannot
  connect. It is why `mayGhost` is raised by a re-push.
* `admin_users.go:318-320` says a PATCH whose xray half failed converges; nobody but
  hydration ever adds a user again, so it does not while the daemon runs (`mayLack`).
* When xray hangs, POST of a user is answered 502 while the enabled row stays: AddUser has
  used up the 15 seconds, and the rollback (`admin_users.go:238`) has no other context. The
  next start registers the user; until then the customer exists and cannot connect
  (`mayLack`).
* Two Transports requests for one transport can store the setting in one order and switch the
  tag in the other (`transports.go:117-130`, no lock): setting, subscriptions and the next
  start then say one thing and the tag set the other, without any failure (`Overtaken`).
* A Transports request whose GetSettings fails (`transports.go:41`) compares the form with the
  environment's tags: a toggle on which the two agree stays as it is stored, and the page may
  answer "No change" (`transports.go:148`).
* On a node older than XHTTP, `lightxray-applypaths:112-123` generates an XHTTP path for
  config.env and xray; nginx routes XHTTP through a snippet that only the installation
  (`install.sh:243-261`) and the updater write, so the path does not work until then, while the
  restarted daemon takes the inbound for configured.
* Two helpers at once lose lines of config.env: `sed -i` moves a copy of the whole file into
  place. The loser's page says "Applied", and the next restart loads the old value.
* A Domains apply for a host with a self-signed lineage removes it before certbot is asked
  (`lightxray-applydomain:36`); when certbot then fails and the lineage was in use, nginx
  cannot reload, whatever page asks, until a certificate is issued.
* The Transports page says "Took effect immediately for all" its users (`transports.go:150`)
  also when its two minutes passed in the middle of them; the errors are only logged.
* `main.go:81-84` says a transport disabled in the database stays empty across restarts; a
  request served before the toggles are laid over the tag set registers its user there.
* `install.sh:344` seeds reality_enabled=true while `install.sh:182` leaves vless-reality-in
  out of the tags users are registered for: a fresh node hands out a Reality link that
  nobody is registered for. `schema.sql:65` says Reality is off until the operator confirms.
* The Reality page changes port, target and short id in the database alone; xray and nginx
  know those of config.env. `reality.html:34` says "will include the Reality URL" also when
  Reality was switched off. While a save is under way customers are handed the mixture.
* `main.go:54-57` says LX_CDN_HOSTS may stay set without affecting behaviour; a host deleted
  in the dashboard comes back at the next start.
* A restore ignores the `enabled` the export wrote (`backup.go:45`, `:203`), and retrying a
  restore whose AddUser failed skips the rows that are there, so nobody registers them.
* `auth.go:5-6` says rotating the UUID instantly ends all sessions; it is the restart two
  seconds later that does. A failed Admin apply takes effect at the next restart, whatever
  its cause.
* `perf.go:125` says nginx was left unchanged; that is untrue when the reload failed, or when
  another helper reloaded between the edit and `nginx -t`.
* "Apply failed" is also what a page says of a helper that was only slow. The Admin page then
  shows the old login although the new one is in effect two seconds later, and says that
  nothing changed if it failed validation (`admin.go:92`).
* A form of the Admin page sent within the two seconds before a restart is compared with the
  old memory, and the login it then shows may be wrong (`sure`).
* `customer_sub.go:106` says that without hosts the bundle falls back to PublicHost;
  `builder.go:43-49` never emits it, and neither does `buildLines`.

## Proofs

`ReconcilerProofs` proves, for every set of users, plans, backups and every bound:

| theorem | property |
|---|---|
| `AccountingInvariant` | `AccountInv`, the inductive invariant |
| `TypeCorrectness` | `TypeOK` |
| `NeverOverbilledTheorem`, `NeverForgottenTheorem`, `ExactTheorem` | the properties of the same names |
| `NoEarlyCutoffTheorem` | the purge is never early |
| `DailyTheorem` | `DailyReconciles` |
| `Refinement` | the loop implements `Meter` |

The assumptions are the module's: plans are records with natural limits and days, chunks
are positive, backups bring naturals, bounds are naturals.

Why an inductive invariant is needed: `NeverOverbilled` says nothing of a tick that is
under way. What a tick will bill is fixed when it reads the cursor, from a snapshot taken
earlier, and by the time it bills, the row, its cursor and the counters may all be others.
`AccountInv` adds, beside the types and the shape of the locals (`Shape`), what the tick
at hand may still do (`Claim`): with the delta it holds, or will compute from the
snapshot, the row stays within `carried + surplus`; and the same holds when the tick is
given up (`Covered(u) + Unbilled(u)`). The lower side (`NoShortage`) needs one thing more:
a row replaced while the tick was visiting the old one has the snapshot in reserve,
because that snapshot will become its cursor. The proof has one step per action. The
arithmetic all rests on `DeltaFacts`: delta is never negative, delta from p to c is at
most delta from p to q plus delta from q to c, and equal to it when the middle reading
lies on the way. `DailyTheorem` needs an invariant of its own, which says of a tick under way
that the day's total, the batch in hand and `unlogged` together are what was billed and went
astray, but for the growth of the one user it is about to bill.

`LiveUsageProofs` proves, for the same constants and however the tick, xray, handlers and
failures fall between the three calls of a request:

| theorem | property |
|---|---|
| `LiveTypeCorrectness` | `LiveTypeOK` (no run lists it) |
| `ExactWhenQuietTheorem` | `ExactWhenQuiet` |
| `OvershootTheorem` | `OvershootBounded` |
| `UndershootTheorem` | `UndershootBounded` |

`LiveInv` puts on top of `AccountInv` what a request knows at each of its calls:
`KnowsTheTruth` that, as long as the request is quiet, stored value, cursor and the counters
read add up to what the row had moved, between `lost` below and `spare` above;
`StoredWithinMoved` that what it read is not above it in any case; `NothingLost` that what was
moved when xray was read stays accounted for (`Accounted`, the lower side of `AccountInv` with
the counters of that moment) until the cursor is read. A quiet request starts from the books
of a row no tick is in the middle of (`BooksAtRest`), and each step of `Reconciler` is shown to
leave its knowledge true.

`ProvisioningProofs` proves, for every set of users, tags, toggles and handlers:

| theorem | property |
|---|---|
| `TypeCorrectness` | `TypeOK` (no run lists it) |
| `TagsFollow` | `TagsFollowSettings` |

`TagsFollowSettings` speaks of a daemon whose start is over, and that is not inductive.
`TagInv` adds how far a start has come (a toggle read and not yet laid over the tag set still
has its stored value, every other tag is where the settings want it), that no Transports
request is under way during an undisturbed start, and of the requests side by side that a tag
which is not where its setting wants it has one (`WillFollow`) that stored this setting and is
about to switch the tag. Of two that switch one tag, the one whose setting was stored over
may go first and the invariant stands; if it goes last, that is `Overtaken`. The assumptions
are the module's: toggles, static tags and missing inbounds are tags.

`MembershipProofs` proves, for the same constants, what is at the heart of Provisioning:

| theorem | property |
|---|---|
| `NobodyLockedOutAlways` | `NobodyLockedOut` |
| `NoGhostsAlways` | `NoGhosts` |
| `AccessRefinement` | `ImplementsAccess` |

Both speak of users nobody is working on. What holds of the others is `MembersInv`, in four
parts. `ShapeInv`: what a job looks like, and that inbounds which do not exist have no users.
`SoloInv`: on a user that is not marked, nobody works during a start or a Transports request,
nobody beside a registration, and what a process has read of the row or of the settings is
still true. `LackInv`: what such a user lacks is in the copy of a registration under way or
still before it, and no eviction of an enabled row is under way. `GhostInv`: where such a
user should not be, an eviction is at work that will come there, and no copy of the tag set
is wider than the tag set. Every request and the purge begin in the same way (`BeginStep`) and
work through their users in the same way (`NextUserStep`, `AlterStep`, `SettlesStep`,
`GivesUpStep`), so the proof has a lemma for each of these and one for each action on top.

The refinement rests on these. That work which ends leaves a user settled is `MembersInv` in
the state after the step (`RestSettled`); that a step leaves alone whom nobody has in hand is
proved for the row (`RowMarked`), the lists (`ListsMarked`), the marks (`MarksKept`) and the
tag set (`TagsSwitched`), each time from the few actions that touch it. `AccessProofs` closes
the circle: `PromiseKept` derives from `Access` alone, by induction over its steps, that users
out of hand are settled, so the abstract steps are strong enough to carry the promise without
the mechanism.

`SubscriptionProofs` proves, for every set of users, hosts, tags and toggles:

| theorem | property |
|---|---|
| `SubTypeCorrectness` | `SubTypeOK` |
| `BundleWorksAlways` | `BundleWorks` |
| `ClashNamesHostsAlways` | `ClashNamesHosts` |

`BundleWorks` joins three results (`SteadyIsServed`): the tag set is that of the settings
(`TagInv`), nobody is locked out and there are no ghosts (`MembersInv`). What the proof adds is
`ReadInPeace`: until its answer, a request during which nothing has moved holds what the store
still says.

`DashboardProofs` proves, for every set of requests, hosts, forms and texts, whatever the
installer writes, and for every bound:

| theorem | property |
|---|---|
| `TypeCorrectness` | `DashTypeOK` |
| `LinkWhole` | `RealityLinkWhole` |
| `OffHosts` | `OffStaysOff` |

`RealityLinkWhole` is about the rest after a save; what carries it through the save is
`SaveInv`: nothing counts as whole while a save is under way; a save that has been alone so
far is the only one, and the keys it has written hold its values. When its last key is
written all of `Written` does, and the link depends on nothing else (`LinkFollowsForm`): an
empty field is not stored, but then the form does not switch Reality on, and there is no
link either way. An optional short id that is empty is the exception the code makes, and
without it the lemma and the run fail. The assumptions are the module's: the installer
writes an acceptable form, valid ports are positive numbers, no text is the empty one.

`HelpersProofs` proves, for any number of requests at once, any pages, values and bounds:

| theorem | property |
|---|---|
| `HelpersInvariant` | `HelpersInv`, the inductive invariant |
| `HelpersTypeCorrectness` | `HelpersTypeOK` (no run lists it) |
| `CopiesAgreeAlways` | `CopiesAgree` |
| `ShownLoginWorksAlways` | `ShownLoginWorks` |

`CopiesAgree` and `ShownLoginWorks` speak of a node at rest. `PartInv` says who answers for a
copy that is not as config.env says at any other time: the debt, a script that has begun to
rewrite it, or a restart that is due. For a script that stops half-way this is enough, because
the debt takes over what it has spoilt. One that reaches its end alone is released from the
debt, and for that it must really have brought the copies it touched in line: `WorkInv` says
how far a script that runs alone has come (each value written is still there, what it sourced
is still config.env, the copies it rendered and installed are those of config.env, what nginx
has loaded is what lies there), and what the Performance helper would go back to
(`Revertible`). `AloneInv` is what makes that stable: nobody is beside it. `ShapeInv` says
that scripts are done in order; `DraftInv` that the copy of config.env a `sed -i` is about to
put in place is the line it writes and otherwise the file as it is, unless the helper has
company and every copy that depends on a line it takes back is answered for; `LoginInv` that
the login a page will show is in config.env or about to be written there. There is one lemma
for each step of the scripts, one for each way to stop, and one for each restart. The
assumptions are the module's: the four pages, and that the installation chose values.
`HelpersInv` was checked with TLC first.

Only model-checked: liveness (`DuePurged`, `OverrunPurged`, `HydrationCompletes`,
`DisabledEvicted`, `RotationEndsSessions`), which depends on fairness and ENABLED. The three
findings are counterexamples.

## Not modelled, and why

* Names, comments, modes, languages, last_online and every read-only page and count:
  nothing depends on them.
* The wording of links, YAML and JSON; base64. `Subscription` has which links there are.
* The flow Reality needs and the text of its link; the per-user form of the WebSocket path,
  which no script and no page ever sets (`ws_path_mode` is always shared).
* Backup export: two reads. A restore may bring any file.
* The three attempts of `alterWithRetry` and all deadlines, as times: a call fails, or the
  deadline of the whole request passes, at any moment.
* Integer width: usage_bytes is a BIGINT and Go adds int64; a node would have to move 8
  EiB for one user.
* The expiry of a session, the API key, templates.
* What a helper does to a file it does not own alone: the text around the values. nginx and
  xray accept what they are given, except that nginx refuses a certificate that is gone or
  whose key is another's.
* The 30 seconds after which the server stops writing an answer (`main.go:112`): the operator
  then sees neither "Applied" nor "Apply failed".
* The installers and maintenance scripts besides what install.sh leaves and seeds: they
  drive a remote host, and nothing runs beside them but what is modelled.
* Host metrics, version, unit and date conversion: read-only or pure.

## Plan

Done in this order: `Reconciler` and `Meter`, `ReconcilerProofs`, `LiveUsage`, `Provisioning`,
`Subscription`, `ProvisioningProofs`, `Helpers`, `CDN` and `Dashboard`, `DashboardProofs`,
`MembershipProofs`, `LiveUsageProofs`, `SubscriptionProofs`, `HelpersProofs`, `Access` and
`AccessProofs`. Next:

1. Step properties of `Helpers` worth a theorem: that a disturbance never spreads beyond the
   copies its scripts touch.
2. A step property of the subscription: what an undisturbed customer is told changes only with
   the CDN and Transports pages.
