---------------------------- MODULE Subscription ----------------------------
(***************************************************************************)
(* What a customer is told: the subscription bundle against what xray      *)
(* really serves.                                                          *)
(*                                                                         *)
(* A bundle has one link per enabled CDN host and transport the host is    *)
(* set to, as far as the transport is switched on.  The handler looks up   *)
(* the user, then the hosts, then the toggles, with a query each, while    *)
(* the CDN page, the Transports page and everything in Provisioning go on  *)
(* changing them.  The dashboard's user page shows a preview of the bundle; *)
(* the Clash profile is built from the same reads by other code.           *)
(*                                                                         *)
(* Reality's extra link and the WebSocket path are left out.               *)
(***************************************************************************)
EXTENDS Provisioning, CDN

CONSTANTS
  WSTag, GRPCTag, XHTTPTag    \* vless-ws-in, vless-grpc-in, vless-xhttp-in

ASSUME ToggleAssumption ==
  Toggle \subseteq {WSTag, GRPCTag, XHTTPTag} /\ NoInbound \subseteq {XHTTPTag}

VARIABLES
  view,     \* the request under way, see View
  links,    \* the links of its answer
  quiet     \* observation: nothing the answer depends on has changed meanwhile

viewVars == <<view, links, quiet>>
subVars == <<vars, cdn, viewVars>>

---------------------------------------------------------------------------
(* The settings of a host that make it offer transport t.                  *)
Carries(t) ==
  CASE t = WSTag    -> {"ws", "both", "wsxhttp"}
    [] t = GRPCTag  -> {"grpc", "both"}
    [] t = XHTTPTag -> {"xhttp", "wsxhttp"}

(* hosts: the enabled hosts as read, each with its transport.              *)
View == [at: {"none", "hosts", "settings", "answer"}, kind: {"sub", "clash", "preview"},
         user: SUBSET User, hosts: SUBSET (Host \X Transport)]
NoView == [at |-> "none", kind |-> "sub", user |-> {}, hosts |-> {}]

SubInit ==
  /\ Init
  /\ cdn \in [Host -> {c \in CDNHost : c.known /\ c.transport \in Pick} \cup {NoHost}]
  /\ view = NoView /\ links = {} /\ quiet = FALSE

---------------------------------------------------------------------------
(* The CDN page *)

cdnPage ==
  /\ \E h \in Host :
       \/ AddCDNHost(h) \/ ToggleCDNHost(h) \/ DeleteCDNHost(h)
       \/ \E t \in Pick : SetCDNHostTransport(h, t)
  /\ quiet' = (quiet /\ cdn' = cdn)
  /\ UNCHANGED <<vars, view, links>>

---------------------------------------------------------------------------
(* A request *)

Steady(u) ==
  /\ ~Busy(u) /\ ~drift
  /\ u \notin mayLack /\ u \notin mayGhost

(* Unknown and disabled users are answered 404, which is no step; the      *)
(* dashboard shows disabled users too.                                     *)
subLookup(u, kind) ==
  /\ view.at \in {"none", "answer"}
  /\ row[u] = "on" \/ (kind = "preview" /\ row[u] = "off")
  /\ view' = [NoView EXCEPT !.at = "hosts", !.kind = kind, !.user = {u}]
  /\ links' = {}
  /\ quiet' = Steady(u)
  /\ UNCHANGED <<vars, cdn>>

(* Mutation: hosts switched off are listed too.                            *)
AnyHosts == {<<h, cdn[h].transport>> : h \in {h \in Host : cdn[h].known}}

EnabledHosts == {<<h, cdn[h].transport>> : h \in {h \in Host : cdn[h].enabled}}

lookupCDNHosts ==
  /\ view.at = "hosts"
  /\ view' = [view EXCEPT !.at = "settings", !.hosts = EnabledHosts]
  /\ UNCHANGED <<vars, cdn, links, quiet>>

(* Without the table there are no links.                                   *)
lookupCDNHostsFails ==
  /\ view.at = "hosts"
  /\ Fault
  /\ view' = [view EXCEPT !.at = "settings"]
  /\ quiet' = FALSE
  /\ UNCHANGED <<row, setting, member, active, phase, boot, job, apply, marks, cdn, links>>

(* The tags whose transport is on: toggles, or else the environment's      *)
(* list.  XHTTP also needs its path configured.                            *)
envTags == Toggle \cap Static

(* Mutation: toggles never reach the bundle.                               *)
effectiveTagsEnv == envTags

effectiveTags == {k \in Toggle : currentTransports(setting)[k]}

buildLines(tags, hosts) ==
  {l \in Host \X (tags \ NoInbound) : \E c \in Carries(l[2]) : <<l[1], c>> \in hosts}

(* The Clash profile asks the host alone and omits XHTTP.                  *)
BuildClashMeta(hosts) == buildLines(Toggle \ {XHTTPTag}, hosts)

Answer(tags) ==
  /\ view.at = "settings"
  /\ view' = [view EXCEPT !.at = "answer"]
  /\ links' = CASE view.kind = "sub"     -> buildLines(tags, view.hosts)
                [] view.kind = "clash"   -> BuildClashMeta(view.hosts)
                [] view.kind = "preview" -> buildLines(envTags, view.hosts)

Build == Answer(effectiveTags) /\ UNCHANGED <<vars, cdn, quiet>>

(* Without the settings the environment's list decides.                    *)
BuildBlind ==
  /\ Answer(envTags)
  /\ Fault
  /\ quiet' = FALSE
  /\ UNCHANGED <<row, setting, member, active, phase, boot, job, apply, marks, cdn>>

customerSub ==
  \/ \E u \in User, kind \in {"sub", "clash", "preview"} : subLookup(u, kind)
  \/ lookupCDNHosts \/ lookupCDNHostsFails
  \/ Build \/ BuildBlind

(* Meanwhile, in Provisioning.                                             *)
Around ==
  /\ Next
  /\ UNCHANGED <<cdn, view, links>>
  /\ quiet' = /\ quiet
              /\ setting' = setting
              /\ \A u \in view.user : row'[u] = row[u] /\ Steady(u)'

SubNext == customerSub \/ cdnPage \/ Around

SubSpec == SubInit /\ [][SubNext]_subVars

---------------------------------------------------------------------------
(* Every variable keeps its type; no host gets a transport the column's    *)
(* CHECK would refuse.                                                     *)
SubTypeOK ==
  /\ TypeOK
  /\ cdn \in [Host -> CDNHost]
  /\ view \in View
  /\ links \in SUBSET (Host \X Toggle)
  /\ quiet \in BOOLEAN

Answered(kind) == view.at = "answer" /\ view.kind = kind /\ quiet

Offers(h, t) == cdn[h].enabled /\ cdn[h].transport \in Carries(t)

(* The links xray would accept this user on, through the hosts in use.     *)
Working(u) ==
  {l \in Host \X Toggle : Offers(l[1], l[2]) /\ u \in member[l[2]]}

(* builder.go:51: a bundle names every way in that works for the user and  *)
(* none that does not: toggles, tag set, xray's lists and hosts agree,     *)
(* unless something changed during the request or an event of Provisioning *)
(* stood in the way.                                                       *)
BundleWorks == Answered("sub") => \A u \in view.user : links = Working(u)

(* The profile for Clash names every enabled host that offers WS or gRPC   *)
(* and no other, each once per transport it offers.                        *)
ClashNamesHosts ==
  Answered("clash") =>
    links = {l \in Host \X (Toggle \ {XHTTPTag}) : Offers(l[1], l[2])}

(* settings.go:34: when a transport is off, its URL is dropped from the     *)
(* subscription bundle, whatever form that takes: the base64 bundle, the   *)
(* Clash profile or the dashboard's preview of it.                         *)
OffMeansUnlisted ==
  (view.at = "answer" /\ quiet) => \A l \in links : setting[l[2]] # "false"
===========================================================================
