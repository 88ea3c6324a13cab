----------------------------- MODULE Dashboard -----------------------------
(***************************************************************************)
(* The Reality page, the Backup page's hosts, and what else writes to the  *)
(* same rows: the installer, which may be run again, and every start of    *)
(* the daemon, which adds the hosts of LX_CDN_HOSTS.                       *)
(*                                                                         *)
(* None of it is a transaction.  The Reality page writes its settings one  *)
(* by one, in the order Go's map happens to give; a restore adds its hosts *)
(* one by one; two requests may be at it at once; and a restart ends them  *)
(* where they are.  Meanwhile customers are handed a Reality link made of  *)
(* the settings and sent to the hosts that are switched on.                *)
(***************************************************************************)
EXTENDS Naturals, CDN

CONSTANTS
  Req,            \* requests of the Reality and Backup pages under way at once
  Seeded,         \* LX_CDN_HOSTS
  Text,           \* what is typed as a port; of that,
  Number, Valid,  \*   the positive numbers, and those that are ports
  DefaultPort,    \* 8443
  Target,         \* sites to mimic
  ShortID,
  Empty,          \* an empty field, or no row
  Sent,           \* the forms operators send
  Installed,      \* what the installer writes
  MaxForms, MaxFaults, MaxRestarts    \* bounds

RealityKey == {"enabled", "port", "target", "sid"}

(* The rows, and the Reality page's form.                                  *)
Rows == [enabled: {"true", "false", Empty}, port: Text \cup {Empty},
         target: Target \cup {Empty}, sid: ShortID \cup {Empty}]
Form == {f \in Rows : f.enabled # Empty}

ASSUME DashAssumption ==
  /\ Seeded \subseteq Host
  /\ Valid \subseteq Number /\ Number \subseteq Text
  /\ Empty \notin Text \cup Target \cup ShortID \cup {"true", "false"}
  /\ Sent \subseteq Form
  /\ {MaxForms, MaxFaults, MaxRestarts} \subseteq Nat

VARIABLES
  setting,    \* the Reality rows of table settings but the public key
  req,        \* [Req -> Request]
  boot,       \* hosts the starting daemon has still to add; it serves after
  forms, faults, restarts,
  whole,      \* observation: the form whose save was the last to touch the
              \*   settings, NoForm if a save was disturbed or cut short
  off         \* observation: hosts the operator switched off

dashVars == <<setting, req, boot, cdn, forms, faults, restarts, whole, off>>

---------------------------------------------------------------------------
NoForm == [k \in RealityKey |-> Empty]

(* at: idle, saving with the keys of form still to be written, restoring   *)
(* with the hosts still to be added.  Observed: alone, no one else wrote   *)
(* the settings since the save began.                                      *)
Request == [at: {"idle", "saving", "restoring"}, form: Rows,
            todo: (SUBSET RealityKey) \cup (SUBSET Host), alone: BOOLEAN]
Idle == [at |-> "idle", form |-> NoForm, todo |-> {}, alone |-> TRUE]

Saving(r) == req[r].at = "saving"
Serving == boot = {}

(* A fresh database; the installer starts the daemon before it seeds.      *)
DashInit ==
  /\ setting = NoForm
  /\ req = [r \in Req |-> Idle]
  /\ boot = Seeded
  /\ cdn = [h \in Host |-> NoHost]
  /\ forms = 0 /\ faults = 0 /\ restarts = 0
  /\ whole = NoForm
  /\ off = {}

Fault == faults < MaxFaults /\ faults' = faults + 1

---------------------------------------------------------------------------
(* Reality *)

(* Empty fields are not stored, but for the short id, which is optional.   *)
(* Mutation: an empty short id is not stored either.                       *)
WrittenIfFilled(f) == {k \in RealityKey : f[k] # Empty}

Written(f) == {k \in RealityKey : f[k] # Empty \/ k = "sid"}

(* What is checked, and only of a form that switches Reality on.           *)
Acceptable(f) == f.enabled = "true" => f.target # Empty /\ f.port \in Valid

ASSUME InstalledAssumption == Installed \in Form /\ Acceptable(Installed)

realitySave(r, f) ==
  /\ Serving /\ req[r].at = "idle"
  /\ forms < MaxForms
  /\ Acceptable(f)
  /\ req' = [q \in Req |->
       IF q = r THEN [at |-> "saving", form |-> f, todo |-> Written(f),
                      alone |-> \A p \in Req : ~Saving(p)]
       ELSE [req[q] EXCEPT !.alone = @ /\ ~Saving(q)]]
  /\ whole' = NoForm
  /\ forms' = forms + 1
  /\ UNCHANGED <<setting, boot, cdn, faults, restarts, off>>

SetSetting(r, k) ==
  /\ Saving(r) /\ k \in req[r].todo
  /\ setting' = [setting EXCEPT ![k] = req[r].form[k]]
  /\ IF req[r].todo = {k}
     THEN /\ req' = [req EXCEPT ![r] = Idle]
          /\ whole' = IF req[r].alone THEN req[r].form ELSE whole
     ELSE /\ req' = [req EXCEPT ![r].todo = @ \ {k}]
          /\ UNCHANGED whole
  /\ UNCHANGED <<boot, cdn, forms, faults, restarts, off>>

(* The page shows the error and leaves what is written.                    *)
SetSettingFails(r) ==
  /\ Saving(r)
  /\ Fault
  /\ req' = [req EXCEPT ![r] = Idle]
  /\ UNCHANGED <<setting, boot, cdn, forms, restarts, whole, off>>

(* install.sh, run again as often as the bound on restarts allows: one     *)
(* statement for all the rows.                                             *)
Install ==
  /\ restarts < MaxRestarts
  /\ restarts' = restarts + 1
  /\ setting' = Installed
  /\ req' = [r \in Req |-> [req[r] EXCEPT !.alone = @ /\ ~Saving(r)]]
  /\ whole' = IF \E r \in Req : Saving(r) THEN NoForm ELSE Installed
  /\ UNCHANGED <<boot, cdn, forms, faults, off>>

(* A port that is no positive number is taken for the default.             *)
PortOf(text) == IF text \in Number THEN text ELSE DefaultPort

NoLink == [port |-> Empty, target |-> Empty, sid |-> Empty]

(* lookupReality, one query, and HasValue.                                 *)
LinkOf(s) ==
  IF s.enabled # "true" \/ s.target = Empty THEN NoLink
  ELSE [port |-> PortOf(s.port), target |-> s.target, sid |-> s.sid]

---------------------------------------------------------------------------
(* Hosts *)

cdnPage ==
  /\ Serving
  /\ \E h \in Host :
       \/ AddCDNHost(h) /\ UNCHANGED off
       \/ ToggleCDNHost(h) /\ off' = IF cdn[h].enabled THEN off \cup {h} ELSE off \ {h}
       \/ \E t \in Pick : SetCDNHostTransport(h, t) /\ UNCHANGED off
       \/ DeleteCDNHost(h) /\ off' = off \ {h}
  /\ UNCHANGED <<setting, req, boot, forms, faults, restarts, whole>>

(* Any file may come, with any hosts: this node's of any day, or another's.*)
backupRestore(r) ==
  /\ Serving /\ req[r].at = "idle"
  /\ forms < MaxForms
  /\ forms' = forms + 1
  /\ \E file \in (SUBSET Host) \ {{}} :
       req' = [req EXCEPT ![r] = [at |-> "restoring", form |-> NoForm, todo |-> file,
                                  alone |-> TRUE]]
  /\ UNCHANGED <<setting, boot, cdn, faults, restarts, whole, off>>

Restored(r, h) ==
  req' = IF req[r].todo = {h} THEN [req EXCEPT ![r] = Idle]
         ELSE [req EXCEPT ![r].todo = @ \ {h}]

(* By name alone: whether the file has the host enabled does not matter.   *)
RestoreHost(r, h) ==
  /\ req[r].at = "restoring" /\ h \in req[r].todo
  /\ AddCDNHost(h)
  /\ Restored(r, h)
  /\ UNCHANGED <<setting, boot, forms, faults, restarts, whole, off>>

RestoreHostFails(r, h) ==
  /\ req[r].at = "restoring" /\ h \in req[r].todo
  /\ Fault
  /\ Restored(r, h)
  /\ UNCHANGED <<setting, boot, cdn, forms, restarts, whole, off>>

---------------------------------------------------------------------------
(* The daemon *)

SeedHost(h) ==
  /\ h \in boot
  /\ AddCDNHost(h)
  /\ boot' = boot \ {h}
  /\ UNCHANGED <<setting, req, forms, faults, restarts, whole, off>>

SeedHostFails(h) ==
  /\ h \in boot
  /\ Fault
  /\ boot' = boot \ {h}
  /\ UNCHANGED <<setting, req, cdn, forms, restarts, whole, off>>

Restart ==
  /\ restarts < MaxRestarts
  /\ restarts' = restarts + 1
  /\ req' = [r \in Req |-> Idle]
  /\ boot' = Seeded
  /\ UNCHANGED <<setting, cdn, forms, faults, whole, off>>

DashNext ==
  \/ \E r \in Req, f \in Sent : realitySave(r, f)
  \/ \E r \in Req, k \in RealityKey : SetSetting(r, k)
  \/ \E r \in Req : SetSettingFails(r) \/ backupRestore(r)
  \/ \E r \in Req, h \in Host : RestoreHost(r, h) \/ RestoreHostFails(r, h)
  \/ cdnPage
  \/ \E h \in Host : SeedHost(h) \/ SeedHostFails(h)
  \/ Install \/ Restart

DashSpec == DashInit /\ [][DashNext]_dashVars

---------------------------------------------------------------------------
(* Every variable keeps its type; a request under way has work left, and   *)
(* no host gets a transport the column's CHECK would refuse.               *)
DashTypeOK ==
  /\ setting \in Rows
  /\ req \in [Req -> Request]
  /\ \A r \in Req : req[r].at = "idle" <=> req[r].todo = {}
  /\ boot \subseteq Seeded
  /\ cdn \in [Host -> CDNHost]
  /\ whole \in Rows
  /\ off \subseteq Host

(* reality.html: "Saved. New subscription fetches will include the Reality *)
(* URL."  The link is all of the last form, and none if that switched      *)
(* Reality off: nothing of an older form, of a save that failed or of one  *)
(* that was killed shines through, once a save has gone through alone.     *)
RealityLinkWhole == whole # NoForm => LinkOf(setting) = LinkOf(whole)

(* cdn_list.html: disabled hosts do not appear in new fetches.  Neither a  *)
(* start with the host in LX_CDN_HOSTS, nor a backup that has it enabled,  *)
(* nor adding it once more brings back a host the operator switched off.   *)
OffStaysOff == \A h \in off : cdn[h].known /\ ~cdn[h].enabled

(* What makes RealityLinkWhole inductive.  While a save is under way       *)
(* nothing counts as whole; one that has been alone so far is the only     *)
(* one, and the keys it has written still hold its values.                 *)
Kept(s, f, left) == \A k \in Written(f) \ left : s[k] = f[k]
SaveInv ==
  /\ \A r \in Req : Saving(r) =>
       /\ whole = NoForm
       /\ req[r].form \in Form /\ Acceptable(req[r].form)
       /\ req[r].todo \subseteq RealityKey
       /\ req[r].alone => /\ Kept(setting, req[r].form, req[r].todo)
                          /\ \A q \in Req : Saving(q) => q = r
  /\ \A r \in Req : req[r].at = "restoring" => req[r].todo \subseteq Host
  /\ whole # NoForm => whole \in Form /\ Acceptable(whole) /\ Kept(setting, whole, {})
============================================================================
