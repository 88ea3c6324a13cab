------------------------ MODULE SubscriptionProofs ------------------------
(***************************************************************************)
(* Theorems about Subscription: for every set of users, hosts, tags and    *)
(* toggles, and whatever requests, starts, restarts and failures do in     *)
(* between, a bundle read in peace names exactly the ways in that work.    *)
(***************************************************************************)
EXTENDS Subscription, MembershipProofs

---------------------------------------------------------------------------
(* The inductive invariant *)

(* Until its last query is answered a quiet request is about a user who    *)
(* may have a bundle and whom nobody is at work on; what it has read of    *)
(* the hosts still holds, and so does what it has made of it.              *)
ReadInPeace ==
  quiet =>
    /\ view.at # "none" => \A u \in view.user :
         Steady(u) /\ (view.kind # "preview" => row[u] = "on")
    /\ view.at = "settings" => view.hosts = EnabledHosts
    /\ view.at = "answer" /\ view.kind = "sub" => links = buildLines(effectiveTags, EnabledHosts)
    /\ view.at = "answer" /\ view.kind = "clash" => links = BuildClashMeta(EnabledHosts)

SubInv == TagInv /\ MembersInv /\ SubTypeOK /\ ReadInPeace

---------------------------------------------------------------------------
(* Hosts and links *)

LEMMA HostsType ==
  ASSUME cdn \in [Host -> CDNHost]
  PROVE  EnabledHosts \in SUBSET (Host \X Transport)
BY DEF EnabledHosts, CDNHost

LEMMA NoHostType == NoHost \in CDNHost
BY DEF NoHost, CDNHost, Transport

LEMMA LinksType ==
  ASSUME NEW tags \in SUBSET Toggle, NEW hosts
  PROVE  buildLines(tags, hosts) \in SUBSET (Host \X Toggle)
BY DEF buildLines

(* A host carries a transport's links if and only if it is switched on and *)
(* set to a value that stands for that transport.                          *)
LEMMA LinkIsServed ==
  ASSUME NEW tags, NEW h \in Host, NEW t \in tags \ NoInbound
  PROVE  <<h, t>> \in buildLines(tags, EnabledHosts)
           <=> Offers(h, t)
<1>1. \A c : <<h, c>> \in EnabledHosts <=> cdn[h].enabled /\ c = cdn[h].transport
  BY DEF EnabledHosts
<1> QED BY <1>1 DEF buildLines, Offers

(* Between two operations, and unless marked, a user with an enabled row   *)
(* is registered for just the transports that the toggles switch on and    *)
(* that xray has an inbound for.  This joins the three results about       *)
(* Provisioning.                                                           *)
LEMMA SteadyIsServed ==
  ASSUME TypeOK, TagInv, MembersInv, NEW u \in User, Steady(u), row[u] = "on",
         NEW t \in Toggle
  PROVE  u \in member[t] <=> t \in effectiveTags \ NoInbound
<1>1. /\ ~Busy(u) /\ ~drift /\ u \notin mayLack /\ u \notin mayGhost
      /\ phase = "run" /\ ~Applied /\ t \in Tag
  BY TagAssumption DEF Steady, Busy, Worked, Starting
<1>2. t \in active <=> t \in effectiveTags
  BY <1>1, TagInvSuffices DEF TagsFollowSettings, effectiveTags, Applied, Switching
<1>3. t \in active \ NoInbound => u \in member[t]
  BY <1>1, NotLockedOut DEF NobodyLockedOut, Registered
<1>4. u \in member[t] => t \in active
  BY <1>1, NoStrays DEF NoGhosts
<1>5. t \in NoInbound => u \notin member[t]
  BY DEF MembersInv, ShapeInv
<1> QED BY <1>2, <1>3, <1>4, <1>5

---------------------------------------------------------------------------
(* Steps *)

LEMMA SubInitHolds == SubInit => SubInv
<1> SUFFICES ASSUME SubInit PROVE SubInv
  OBVIOUS
<1>1. TypeOK /\ TagInv /\ MembersInv
  BY InitType, TagInvInit, MembersInit DEF SubInit
<1>2. cdn \in [Host -> CDNHost]
  BY NoHostType DEF SubInit
<1>3. view \in View
  BY DEF SubInit, View, NoView
<1> QED BY <1>1, <1>2, <1>3 DEF SubInit, SubInv, SubTypeOK, ReadInPeace

(* A query of the bundle's handler changes nothing in Provisioning.        *)
LEMMA ServedUnchanged ==
  ASSUME SubInv, faults' \in Nat, applies' = applies, restarts' = restarts,
         UNCHANGED <<row, setting, member, active, phase, boot, job, apply, marks>>
  PROVE  /\ TypeOK' /\ TagInv' /\ MembersInv'
         /\ \A u \in User : Steady(u)' <=> Steady(u)
         /\ effectiveTags' = effectiveTags
<1>1. TypeOK' /\ TagInv' /\ MembersInv'
  BY TagInvUnchanged, MembersUnchanged DEF SubInv, SubTypeOK, TypeOK, marks, tagVars
<1>2. \A u \in User : Steady(u)' <=> Steady(u)
  BY DEF Steady, Busy, Worked, Served, Applied, Starting, marks
<1>3. effectiveTags' = effectiveTags
  BY DEF effectiveTags, currentTransports
<1> QED BY <1>1, <1>2, <1>3

(* The CDN page leaves a request undisturbed only by changing nothing.     *)
LEMMA cdnPageStep ==
  ASSUME SubInv, cdnPage
  PROVE  SubInv'
<1>1. /\ quiet' = (quiet /\ cdn' = cdn) /\ UNCHANGED <<view, links>>
      /\ UNCHANGED <<row, setting, member, active, phase, boot, job, apply, marks>>
      /\ UNCHANGED <<applies, faults, restarts>>
  BY DEF cdnPage, vars, bounds
<1>2. /\ TypeOK' /\ TagInv' /\ MembersInv'
      /\ \A u \in User : Steady(u)' <=> Steady(u)
      /\ effectiveTags' = effectiveTags
  BY <1>1, ServedUnchanged DEF SubInv, SubTypeOK, TypeOK
<1>3. cdn' \in [Host -> CDNHost]
  <2>1. cdn \in [Host -> CDNHost]
    BY DEF SubInv, SubTypeOK
  <2>2. PICK h \in Host :
          \/ AddCDNHost(h) \/ ToggleCDNHost(h) \/ DeleteCDNHost(h)
          \/ \E t \in Pick : SetCDNHostTransport(h, t)
    BY DEF cdnPage
  <2>3. \E c \in CDNHost : cdn' = cdn \/ cdn' = [cdn EXCEPT ![h] = c]
    <3>1. CASE AddCDNHost(h)
      <4>1. [known |-> TRUE, enabled |-> TRUE, transport |-> "wsxhttp"] \in CDNHost
        BY DEF CDNHost, Transport
      <4> QED BY <2>1, <3>1, <4>1 DEF AddCDNHost
    <3>2. CASE ToggleCDNHost(h)
      BY <2>1, <3>2 DEF ToggleCDNHost, CDNHost
    <3>3. CASE DeleteCDNHost(h)
      BY <3>3, NoHostType DEF DeleteCDNHost
    <3>4. ASSUME NEW t \in Pick, SetCDNHostTransport(h, t)
          PROVE  \E c \in CDNHost : cdn' = cdn \/ cdn' = [cdn EXCEPT ![h] = c]
      <4>1. [cdn[h] EXCEPT !.transport = t] \in CDNHost
        BY <2>1, PickAssumption DEF CDNHost
      <4> QED BY <2>1, <3>4, <4>1 DEF SetCDNHostTransport
    <3> QED BY <2>2, <3>1, <3>2, <3>3, <3>4
  <2> QED BY <2>1, <2>3
<1>4. SubTypeOK'
  BY <1>1, <1>2, <1>3 DEF SubInv, SubTypeOK
<1>5. ReadInPeace'
  <2> SUFFICES ASSUME quiet, cdn' = cdn PROVE ReadInPeace'
    BY <1>1 DEF ReadInPeace
  <2>1. EnabledHosts' = EnabledHosts
    BY DEF EnabledHosts
  <2>2. \A u \in view.user : u \in User
    BY DEF SubInv, SubTypeOK, View
  <2> QED BY <1>1, <1>2, <2>1, <2>2
          DEF SubInv, ReadInPeace, buildLines, BuildClashMeta
<1> QED BY <1>2, <1>4, <1>5 DEF SubInv

LEMMA customerSubStep ==
  ASSUME SubInv, customerSub
  PROVE  SubInv'
<1>1. /\ cdn' = cdn /\ faults' \in Nat /\ applies' = applies /\ restarts' = restarts
      /\ UNCHANGED <<row, setting, member, active, phase, boot, job, apply, marks>>
  <2>1. UNCHANGED <<vars, cdn>> \/ lookupCDNHostsFails \/ BuildBlind
    BY DEF customerSub, subLookup, lookupCDNHosts, Build
  <2>2. faults \in Nat
    BY DEF SubInv, SubTypeOK, TypeOK
  <2> QED BY <2>1, <2>2 DEF lookupCDNHostsFails, BuildBlind, Fault, vars, bounds
<1>2. /\ TypeOK' /\ TagInv' /\ MembersInv'
      /\ \A u \in User : Steady(u)' <=> Steady(u)
      /\ effectiveTags' = effectiveTags
  BY <1>1, ServedUnchanged
<1>3. EnabledHosts' = EnabledHosts /\ EnabledHosts \in SUBSET (Host \X Transport)
  BY <1>1, HostsType DEF EnabledHosts, SubInv, SubTypeOK
<1>4. cdn \in [Host -> CDNHost] /\ view \in View /\ view.user \subseteq User
  BY DEF SubInv, SubTypeOK, View
<1> USE <1>1, <1>2, <1>3, <1>4
<1>5. ASSUME NEW u \in User, NEW kind \in {"sub", "clash", "preview"}, subLookup(u, kind)
      PROVE  SubInv'
  <2>1. /\ view' = [at |-> "hosts", kind |-> kind, user |-> {u}, hosts |-> {}]
        /\ links' = {} /\ quiet' = Steady(u)
        /\ row[u] = "on" \/ kind = "preview"
    BY <1>5 DEF subLookup, NoView
  <2>2. view' \in View /\ quiet' \in BOOLEAN
    BY <2>1 DEF View, Steady
  <2>3. ReadInPeace'
    BY <2>1 DEF ReadInPeace
  <2> QED BY <2>1, <2>2, <2>3 DEF SubInv, SubTypeOK
<1>6. CASE lookupCDNHosts
  <2>1. /\ view.at = "hosts" /\ view' = [view EXCEPT !.at = "settings", !.hosts = EnabledHosts]
        /\ UNCHANGED <<links, quiet>>
    BY <1>6 DEF lookupCDNHosts
  <2>2. view' \in View /\ view'.at = "settings" /\ view'.hosts = EnabledHosts
        /\ view'.user = view.user /\ view'.kind = view.kind
    BY <2>1 DEF View
  <2>3. ReadInPeace'
    BY <2>1, <2>2 DEF SubInv, ReadInPeace
  <2> QED BY <2>1, <2>2, <2>3 DEF SubInv, SubTypeOK
<1>7. CASE lookupCDNHostsFails
  <2>1. /\ view' = [view EXCEPT !.at = "settings"] /\ quiet' = FALSE /\ links' = links
    BY <1>7 DEF lookupCDNHostsFails
  <2>2. view' \in View
    BY <2>1 DEF View
  <2> QED BY <2>1, <2>2 DEF SubInv, SubTypeOK, ReadInPeace
<1>8. ASSUME NEW tags \in SUBSET Toggle, Answer(tags)
      PROVE  /\ view' \in View /\ view'.at = "answer" /\ view'.kind = view.kind
             /\ view'.user = view.user
             /\ view.at = "settings"
             /\ links' \in SUBSET (Host \X Toggle)
             /\ view.kind = "sub" => links' = buildLines(tags, view.hosts)
             /\ view.kind = "clash" => links' = BuildClashMeta(view.hosts)
  <2>1. /\ view.at = "settings" /\ view' = [view EXCEPT !.at = "answer"]
        /\ view.kind \in {"sub", "clash", "preview"}
    BY <1>8 DEF Answer, View
  <2>2. /\ view.kind = "sub" => links' = buildLines(tags, view.hosts)
        /\ view.kind = "clash" => links' = BuildClashMeta(view.hosts)
        /\ view.kind = "preview" => links' = buildLines(envTags, view.hosts)
    BY <1>8, <2>1 DEF Answer
  <2>3. /\ buildLines(tags, view.hosts) \in SUBSET (Host \X Toggle)
        /\ BuildClashMeta(view.hosts) \in SUBSET (Host \X Toggle)
        /\ buildLines(envTags, view.hosts) \in SUBSET (Host \X Toggle)
    BY LinksType DEF BuildClashMeta, envTags
  <2>4. /\ view' \in View /\ view'.at = "answer" /\ view'.kind = view.kind
        /\ view'.user = view.user
    BY <2>1 DEF View
  <2> QED BY <2>1, <2>2, <2>3, <2>4
<1>9. CASE Build
  <2>1. effectiveTags \in SUBSET Toggle /\ Answer(effectiveTags) /\ quiet' = quiet
    BY <1>9 DEF Build, effectiveTags
  <2>2. ReadInPeace'
    BY <1>8, <2>1 DEF SubInv, ReadInPeace, buildLines, BuildClashMeta
  <2> QED BY <1>8, <2>1, <2>2 DEF SubInv, SubTypeOK
<1>10. CASE BuildBlind
  <2>1. envTags \in SUBSET Toggle /\ Answer(envTags) /\ quiet' = FALSE
    BY <1>10 DEF BuildBlind, envTags
  <2> QED BY <1>8, <2>1 DEF SubInv, SubTypeOK, ReadInPeace
<1> QED BY <1>5, <1>6, <1>7, <1>9, <1>10 DEF customerSub

(* Whatever Provisioning does, a request stays quiet only if its user has  *)
(* the same row, is again at rest and unmarked, and the toggles are as     *)
(* they were.                                                              *)
LEMMA SubAroundStep ==
  ASSUME SubInv, Around
  PROVE  SubInv'
<1>1. TypeOK' /\ TagInv' /\ MembersInv'
  BY TypeStep, TagInvStep, MembersStep DEF Around, SubInv, SubTypeOK
<1>2. UNCHANGED <<cdn, view, links>> /\ quiet' \in BOOLEAN
  BY DEF Around, SubInv, SubTypeOK
<1>3. ReadInPeace'
  <2> SUFFICES ASSUME quiet' PROVE ReadInPeace'
    BY DEF ReadInPeace
  <2>1. /\ quiet /\ setting' = setting
        /\ \A u \in view.user : row'[u] = row[u] /\ Steady(u)'
    BY DEF Around
  <2>2. EnabledHosts' = EnabledHosts /\ effectiveTags' = effectiveTags
    BY <1>2, <2>1 DEF EnabledHosts, effectiveTags, currentTransports
  <2> QED BY <1>2, <2>1, <2>2 DEF SubInv, ReadInPeace, buildLines, BuildClashMeta
<1> QED BY <1>1, <1>2, <1>3 DEF SubInv, SubTypeOK

LEMMA SubUnchanged ==
  ASSUME SubInv, UNCHANGED subVars
  PROVE  SubInv'
<1>1. /\ UNCHANGED <<row, setting, member, active, phase, boot, job, apply, marks>>
      /\ UNCHANGED <<applies, faults, restarts>>
      /\ UNCHANGED <<cdn, view, links, quiet>>
  BY DEF subVars, vars, bounds, viewVars
<1>2. /\ TypeOK' /\ TagInv' /\ MembersInv'
      /\ \A u \in User : Steady(u)' <=> Steady(u)
      /\ effectiveTags' = effectiveTags
  BY <1>1, ServedUnchanged DEF SubInv, SubTypeOK, TypeOK
<1>3. EnabledHosts' = EnabledHosts /\ \A u \in view.user : u \in User
  BY <1>1 DEF EnabledHosts, SubInv, SubTypeOK, View
<1>4. ReadInPeace'
  BY <1>1, <1>2, <1>3 DEF SubInv, ReadInPeace, buildLines, BuildClashMeta
<1> QED BY <1>1, <1>2, <1>4 DEF SubInv, SubTypeOK

---------------------------------------------------------------------------
(* Theorems *)

(* SubInv holds in every reachable state of the node with a subscription   *)
(* request and a CDN page beside it.                                       *)
THEOREM SubInvariant == SubSpec => []SubInv
<1>1. SubInv /\ [SubNext]_subVars => SubInv'
  <2>1. SubInv /\ SubNext => SubInv'
    BY customerSubStep, cdnPageStep, SubAroundStep DEF SubNext
  <2> QED BY <2>1, SubUnchanged
<1> QED BY <1>1, SubInitHolds, PTL DEF SubSpec

(* Types; no host ever gets a transport the column refuses.                *)
THEOREM SubTypeCorrectness == SubSpec => []SubTypeOK
<1>1. SubInv => SubTypeOK
  BY DEF SubInv
<1> QED BY <1>1, SubInvariant, PTL

(* The bundle of an enabled user, read in peace, has a link for every      *)
(* enabled host and transport that xray would accept this user on, and no  *)
(* link that would be refused.                                             *)
THEOREM BundleWorksAlways == SubSpec => []BundleWorks
<1>1. SubInv => BundleWorks
  <2> SUFFICES ASSUME SubInv, view.at = "answer", view.kind = "sub", quiet,
                      NEW u \in view.user
               PROVE  links = Working(u)
    BY DEF BundleWorks, Answered
  <2>1. /\ u \in User /\ Steady(u) /\ row[u] = "on"
        /\ links = buildLines(effectiveTags, EnabledHosts)
    BY DEF SubInv, SubTypeOK, View, ReadInPeace
  <2>2. \A t \in Toggle : u \in member[t] <=> t \in effectiveTags \ NoInbound
    BY <2>1, SteadyIsServed DEF SubInv, SubTypeOK
  <2>3. effectiveTags \subseteq Toggle
    BY DEF effectiveTags
  <2>4. ASSUME NEW h \in Host, NEW t \in Toggle
        PROVE  <<h, t>> \in buildLines(effectiveTags, EnabledHosts) <=> <<h, t>> \in Working(u)
    <3>1. CASE t \in effectiveTags \ NoInbound
      BY <2>2, <3>1, LinkIsServed DEF Working
    <3>2. CASE t \notin effectiveTags \ NoInbound
      BY <2>2, <3>2 DEF Working, buildLines
    <3> QED BY <3>1, <3>2
  <2>5. links \subseteq Host \X Toggle /\ Working(u) \subseteq Host \X Toggle
    BY DEF Working, SubInv, SubTypeOK
  <2> QED BY <2>1, <2>4, <2>5
<1> QED BY <1>1, SubInvariant, PTL

(* A Clash profile read in peace names the enabled hosts and WS or gRPC    *)
(* transports as they are.                                                 *)
THEOREM ClashNamesHostsAlways == SubSpec => []ClashNamesHosts
<1>1. SubInv => ClashNamesHosts
  <2> SUFFICES ASSUME SubInv, view.at = "answer", view.kind = "clash", quiet
               PROVE  links = {l \in Host \X (Toggle \ {XHTTPTag}) : Offers(l[1], l[2])}
    BY DEF ClashNamesHosts, Answered
  <2> DEFINE tags == Toggle \ {XHTTPTag}
  <2>1. links = buildLines(tags, EnabledHosts)
    BY DEF SubInv, ReadInPeace, BuildClashMeta
  <2>2. tags \ NoInbound = tags
    BY ToggleAssumption
  <2>3. ASSUME NEW h \in Host, NEW t \in tags
        PROVE  <<h, t>> \in links <=> Offers(h, t)
    BY <2>1, <2>2, <2>3, LinkIsServed
  <2>4. links \subseteq Host \X tags
    BY <2>1 DEF buildLines
  <2> QED BY <2>3, <2>4
<1> QED BY <1>1, SubInvariant, PTL
===========================================================================
