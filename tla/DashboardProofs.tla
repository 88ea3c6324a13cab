-------------------------- MODULE DashboardProofs --------------------------
(***************************************************************************)
(* Theorems about Dashboard: type correctness, that a save that went       *)
(* through alone is what customers are handed, and that hosts switched off *)
(* stay off.                                                               *)
(***************************************************************************)
EXTENDS Dashboard, TLAPS

(* A form fills the rows; without it they are empty.                       *)
LEMMA FormFacts ==
  /\ NoForm \in Rows
  /\ NoForm \notin Form
  /\ Idle \in Request
  /\ Idle.at = "idle" /\ Idle.todo = {}
<1>1. NoForm \in Rows
  BY DEF NoForm, RealityKey, Rows
<1>2. NoForm.enabled = Empty
  BY DEF NoForm, RealityKey
<1>3. Idle \in Request
  BY <1>1 DEF Idle, Request
<1>4. Idle.at = "idle" /\ Idle.todo = {}
  BY DEF Idle
<1> QED
  BY <1>1, <1>2, <1>3, <1>4 DEF Form

(* One row written from a form leaves rows.                                *)
LEMMA RowWritten ==
  ASSUME NEW s \in Rows, NEW f \in Rows, NEW k \in RealityKey
  PROVE  [s EXCEPT ![k] = f[k]] \in Rows
<1>1. CASE k = "enabled"
  BY <1>1 DEF Rows
<1>2. CASE k = "port"
  BY <1>2 DEF Rows
<1>3. CASE k = "target"
  BY <1>3 DEF Rows
<1>4. CASE k = "sid"
  BY <1>4 DEF Rows
<1> QED
  BY <1>1, <1>2, <1>3, <1>4 DEF RealityKey

(* The flag and the short id are always written.                           *)
LEMMA WrittenFacts ==
  ASSUME NEW f \in Form
  PROVE  /\ {"enabled", "sid"} \subseteq Written(f)
         /\ Written(f) \subseteq RealityKey
BY DEF Written, Form, RealityKey

(* Rows that hold an acceptable form make its link.                        *)
LEMMA LinkFollowsForm ==
  ASSUME NEW s \in Rows, NEW f \in Form, Acceptable(f),
         \A k \in Written(f) : s[k] = f[k]
  PROVE  LinkOf(s) = LinkOf(f)
<1>1. s.enabled = f.enabled /\ s.sid = f.sid
  BY WrittenFacts
<1>2. CASE f.enabled # "true"
  BY <1>1, <1>2 DEF LinkOf
<1>3. CASE f.enabled = "true"
  <2>1. f.target # Empty /\ f.port # Empty
    BY <1>3, DashAssumption DEF Acceptable
  <2>2. "target" \in Written(f) /\ "port" \in Written(f)
    BY <2>1 DEF Written, RealityKey
  <2> QED
    BY <1>1, <2>2 DEF LinkOf
<1> QED
  BY <1>2, <1>3

(* What the CDN page, a restore and a start do to the hosts.               *)
LEMMA HostAdded ==
  ASSUME cdn \in [Host -> CDNHost], NEW h \in Host, AddCDNHost(h)
  PROVE  /\ cdn' \in [Host -> CDNHost]
         /\ \A g \in Host : cdn[g].known => cdn'[g] = cdn[g]
BY DEF AddCDNHost, CDNHost, Transport

---------------------------------------------------------------------------
LEMMA InitInv == DashInit => DashTypeOK /\ SaveInv /\ OffStaysOff
<1> SUFFICES ASSUME DashInit PROVE DashTypeOK /\ SaveInv /\ OffStaysOff
  OBVIOUS
<1>1. \A r \in Req : req[r] = Idle
  BY DEF DashInit
<1>2. DashTypeOK
  <2>1. cdn \in [Host -> CDNHost]
    BY DEF DashInit, NoHost, CDNHost, Transport
  <2> QED
    BY <2>1, FormFacts, DashAssumption DEF DashInit, DashTypeOK, Idle
<1>3. SaveInv
  BY <1>1, FormFacts DEF DashInit, SaveInv, Saving, Idle
<1>4. OffStaysOff
  BY DEF DashInit, OffStaysOff
<1> QED
  BY <1>2, <1>3, <1>4

---------------------------------------------------------------------------
(* Types *)

(* Others notice that a save has begun.                                    *)
LEMMA AloneType ==
  ASSUME req \in [Req -> Request], NEW q \in Req
  PROVE  [req[q] EXCEPT !.alone = @ /\ ~Saving(q)] \in Request
<1>1. req[q] \in Request
  OBVIOUS
<1>2. (req[q].alone /\ ~Saving(q)) \in BOOLEAN
  OBVIOUS
<1>3. \A b \in BOOLEAN : [req[q] EXCEPT !.alone = b] \in Request
  BY <1>1 DEF Request
<1>4. [req[q] EXCEPT !.alone = (req[q].alone /\ ~Saving(q))] \in Request
  BY <1>2, <1>3
<1> QED
  BY <1>4

LEMMA NextType == DashTypeOK /\ SaveInv /\ [DashNext]_dashVars => DashTypeOK'
<1> SUFFICES ASSUME DashTypeOK, SaveInv, [DashNext]_dashVars PROVE DashTypeOK'
  OBVIOUS
<1> USE DEF DashTypeOK
<1>1. ASSUME NEW r \in Req, NEW f \in Sent, realitySave(r, f) PROVE DashTypeOK'
  <2>1. f \in Form /\ f \in Rows
    BY DashAssumption DEF Form
  <2>2. Written(f) \subseteq RealityKey /\ Written(f) # {}
    BY <2>1, WrittenFacts
  <2> DEFINE new == [at |-> "saving", form |-> f, todo |-> Written(f),
                     alone |-> \A p \in Req : ~Saving(p)]
  <2>3. new \in Request
    BY <2>1, <2>2 DEF Request
  <2>4. \A q \in Req : [req[q] EXCEPT !.alone = @ /\ ~Saving(q)] \in Request
    BY AloneType
  <2>5. req' = [q \in Req |-> IF q = r THEN new ELSE [req[q] EXCEPT !.alone = @ /\ ~Saving(q)]]
    BY <1>1 DEF realitySave
  <2>6. req' \in [Req -> Request]
    BY <2>3, <2>4, <2>5
  <2>7. \A q \in Req : req'[q].at = "idle" <=> req'[q].todo = {}
    BY <2>2, <2>5 DEF Request
  <2> QED
    BY <1>1, <2>6, <2>7, FormFacts, DashAssumption DEF realitySave
<1>2. ASSUME NEW r \in Req, NEW k \in RealityKey, SetSetting(r, k) PROVE DashTypeOK'
  <2>1. Saving(r) /\ k \in req[r].todo /\ req[r].todo \subseteq RealityKey /\ req[r].form \in Rows
    BY <1>2 DEF SetSetting, SaveInv, Form
  <2>2. setting' \in Rows
    BY <1>2, <2>1, RowWritten DEF SetSetting
  <2>3. CASE req[r].todo = {k}
    BY <1>2, <2>1, <2>2, <2>3, FormFacts DEF SetSetting
  <2>4. CASE req[r].todo # {k}
    <3>1. req' = [req EXCEPT ![r].todo = @ \ {k}]
      BY <1>2, <2>4 DEF SetSetting
    <3>2. req' \in [Req -> Request]
      BY <3>1, <2>1 DEF Request
    <3>3. \A q \in Req : req'[q].at = "idle" <=> req'[q].todo = {}
      BY <3>1, <2>1, <2>4 DEF Request, Saving
    <3> QED
      BY <1>2, <2>2, <2>4, <3>2, <3>3 DEF SetSetting
  <2> QED
    BY <2>3, <2>4
<1>3. ASSUME NEW r \in Req, SetSettingFails(r) PROVE DashTypeOK'
  BY <1>3, FormFacts DEF SetSettingFails, Idle, Fault
<1>4. ASSUME NEW r \in Req, backupRestore(r) PROVE DashTypeOK'
  <2> DEFINE new(file) == [at |-> "restoring", form |-> NoForm, todo |-> file, alone |-> TRUE]
  <2>1. PICK file \in (SUBSET Host) \ {{}} : req' = [req EXCEPT ![r] = new(file)]
    BY <1>4 DEF backupRestore
  <2>2. new(file) \in Request
    BY <2>1, FormFacts DEF Request
  <2>3. req' \in [Req -> Request]
    BY <2>1, <2>2
  <2>4. \A q \in Req : req'[q].at = "idle" <=> req'[q].todo = {}
    BY <2>1
  <2> QED
    BY <1>4, <2>3, <2>4 DEF backupRestore
<1>5. ASSUME NEW r \in Req, NEW h \in Host, req[r].at = "restoring", h \in req[r].todo,
             Restored(r, h)
      PROVE  /\ req' \in [Req -> Request]
             /\ \A q \in Req : req'[q].at = "idle" <=> req'[q].todo = {}
  <2>1. req[r].todo \subseteq Host
    BY <1>5 DEF SaveInv
  <2>2. CASE req[r].todo = {h}
    BY <1>5, <2>2, FormFacts DEF Restored
  <2>3. CASE req[r].todo # {h}
    <3>1. req' = [req EXCEPT ![r].todo = @ \ {h}]
      BY <1>5, <2>3 DEF Restored
    <3>2. req' \in [Req -> Request]
      BY <3>1, <2>1 DEF Request
    <3> QED
      BY <3>1, <3>2, <1>5, <2>3 DEF Request
  <2> QED
    BY <2>2, <2>3
<1>6. ASSUME NEW r \in Req, NEW h \in Host, RestoreHost(r, h) PROVE DashTypeOK'
  BY <1>5, <1>6, HostAdded DEF RestoreHost
<1>7. ASSUME NEW r \in Req, NEW h \in Host, RestoreHostFails(r, h) PROVE DashTypeOK'
  BY <1>5, <1>7 DEF RestoreHostFails, Fault
<1>8. CASE cdnPage
  <2>1. PICK h \in Host :
          \/ AddCDNHost(h) /\ UNCHANGED off
          \/ ToggleCDNHost(h) /\ off' = IF cdn[h].enabled THEN off \cup {h} ELSE off \ {h}
          \/ \E t \in Pick : SetCDNHostTransport(h, t) /\ UNCHANGED off
          \/ DeleteCDNHost(h) /\ off' = off \ {h}
    BY <1>8 DEF cdnPage
  <2>2. off' \subseteq Host
    BY <2>1
  <2>3. cdn' \in [Host -> CDNHost]
    <3>1. CASE AddCDNHost(h)
      BY <3>1, HostAdded
    <3>2. CASE ToggleCDNHost(h)
      BY <3>2 DEF ToggleCDNHost, CDNHost
    <3>3. ASSUME NEW t \in Pick, SetCDNHostTransport(h, t) PROVE cdn' \in [Host -> CDNHost]
      BY <3>3, PickAssumption DEF SetCDNHostTransport, CDNHost
    <3>4. CASE DeleteCDNHost(h)
      BY <3>4 DEF DeleteCDNHost, NoHost, CDNHost, Transport
    <3> QED
      BY <2>1, <3>1, <3>2, <3>3, <3>4
  <2> QED
    BY <1>8, <2>2, <2>3 DEF cdnPage
<1>9. ASSUME NEW h \in Host, SeedHost(h) PROVE DashTypeOK'
  BY <1>9, HostAdded DEF SeedHost
<1>10. ASSUME NEW h \in Host, SeedHostFails(h) PROVE DashTypeOK'
  BY <1>10 DEF SeedHostFails, Fault
<1>11. CASE Install
  <2>1. \A r \in Req : [req[r] EXCEPT !.alone = @ /\ ~Saving(r)] \in Request
    BY AloneType
  <2>2. req' \in [Req -> Request]
    BY <1>11, <2>1 DEF Install
  <2>3. \A q \in Req : req'[q].at = "idle" <=> req'[q].todo = {}
    BY <1>11 DEF Install, Request
  <2> QED
    BY <1>11, <2>2, <2>3, FormFacts, InstalledAssumption DEF Install, Form
<1>12. CASE Restart
  BY <1>12, FormFacts, DashAssumption DEF Restart, Idle
<1>13. CASE UNCHANGED dashVars
  BY <1>13 DEF dashVars
<1> QED
  BY <1>1, <1>2, <1>3, <1>4, <1>6, <1>7, <1>8, <1>9, <1>10, <1>11, <1>12, <1>13
     DEF DashNext

---------------------------------------------------------------------------
(* Saves *)

(* A save that is alone stays the only one and keeps what it has written;  *)
(* the last row of such a save makes the settings whole.                   *)
LEMMA NextSave == DashTypeOK /\ SaveInv /\ [DashNext]_dashVars => SaveInv'
<1> SUFFICES ASSUME DashTypeOK, SaveInv, [DashNext]_dashVars PROVE SaveInv'
  OBVIOUS
<1>1. ASSUME NEW r \in Req, NEW f \in Sent, realitySave(r, f) PROVE SaveInv'
  <2>1. f \in Form /\ Acceptable(f) /\ ~Saving(r)
    BY <1>1, DashAssumption DEF realitySave, Saving
  <2>2. Written(f) \subseteq RealityKey
    BY <2>1, WrittenFacts
  <2>3. /\ req'[r].at = "saving" /\ req'[r].form = f /\ req'[r].todo = Written(f)
        /\ req'[r].alone <=> \A p \in Req : ~Saving(p)
    BY <1>1 DEF realitySave, DashTypeOK
  <2>4. \A q \in Req \ {r} :
          /\ req'[q].at = req[q].at /\ req'[q].form = req[q].form /\ req'[q].todo = req[q].todo
          /\ Saving(q) => ~req'[q].alone
    BY <1>1 DEF realitySave, DashTypeOK, Request, Saving
  <2>5. whole' = NoForm /\ setting' = setting
    BY <1>1 DEF realitySave
  <2>6. Kept(setting', f, Written(f))
    BY DEF Kept
  <2>7. req'[r].alone => Kept(setting', req'[r].form, req'[r].todo)
    BY <2>3, <2>6 DEF Kept
  <2>8. req'[r].alone => \A q \in Req : Saving(q)' => q = r
    BY <2>3, <2>4 DEF Saving
  <2>9. ASSUME NEW q \in Req, Saving(q)'
        PROVE  /\ whole' = NoForm
               /\ req'[q].form \in Form /\ Acceptable(req'[q].form)
               /\ req'[q].todo \subseteq RealityKey
               /\ req'[q].alone => /\ Kept(setting', req'[q].form, req'[q].todo)
                                   /\ \A p \in Req : Saving(p)' => p = q
    <3>1. CASE q = r
      BY <3>1, <2>1, <2>2, <2>3, <2>5, <2>7, <2>8
    <3>2. CASE q # r
      BY <3>2, <2>9, <2>4, <2>5 DEF SaveInv, Saving
    <3> QED
      BY <3>1, <3>2
  <2>10. \A q \in Req : req'[q].at = "restoring" => req'[q].todo \subseteq Host
    BY <2>3, <2>4 DEF SaveInv
  <2> QED
    BY <2>5, <2>9, <2>10 DEF SaveInv
<1>2. ASSUME NEW r \in Req, NEW k \in RealityKey, SetSetting(r, k) PROVE SaveInv'
  <2>1. /\ Saving(r) /\ k \in req[r].todo /\ whole = NoForm
        /\ req[r].form \in Form /\ Acceptable(req[r].form) /\ req[r].todo \subseteq RealityKey
    BY <1>2 DEF SetSetting, SaveInv
  <2>2. setting' = [setting EXCEPT ![k] = req[r].form[k]]
    BY <1>2 DEF SetSetting
  <2>3. setting'[k] = req[r].form[k] /\ \A j \in RealityKey \ {k} : setting'[j] = setting[j]
    BY <2>2 DEF DashTypeOK, Rows, RealityKey
  <2>4. req[r].alone => Kept(setting', req[r].form, req[r].todo \ {k})
    <3>1. Written(req[r].form) \subseteq RealityKey
      BY <2>1, WrittenFacts
    <3> QED
      BY <2>1, <2>3, <3>1 DEF SaveInv, Kept
  <2>5. \A q \in Req \ {r} : Saving(q) => ~req[q].alone
    BY <2>1 DEF SaveInv
  <2>6. CASE req[r].todo = {k}
    <3>1. req' = [req EXCEPT ![r] = Idle] /\ whole' = IF req[r].alone THEN req[r].form ELSE whole
      BY <1>2, <2>6 DEF SetSetting
    <3>2. ~Saving(r)' /\ \A q \in Req \ {r} : req'[q] = req[q]
      BY <3>1, FormFacts DEF DashTypeOK, Saving
    <3>3. req[r].alone => \A q \in Req : ~Saving(q)'
      BY <3>2, <2>1 DEF SaveInv, Saving
    <3>4. \A q \in Req : Saving(q)' => whole' = NoForm /\ ~req'[q].alone
                                        /\ req'[q].form \in Form /\ Acceptable(req'[q].form)
                                        /\ req'[q].todo \subseteq RealityKey
      BY <3>1, <3>2, <3>3, <2>1, <2>5 DEF SaveInv, Saving
    <3>5. \A q \in Req : req'[q].at = "restoring" => req'[q].todo \subseteq Host
      BY <3>1, <3>2, FormFacts DEF SaveInv, DashTypeOK
    <3>6. whole' # NoForm => whole' \in Form /\ Acceptable(whole') /\ Kept(setting', whole', {})
      BY <3>1, <2>1, <2>4, <2>6 DEF Kept
    <3> QED
      BY <3>4, <3>5, <3>6 DEF SaveInv
  <2>7. CASE req[r].todo # {k}
    <3>1. req' = [req EXCEPT ![r].todo = @ \ {k}] /\ whole' = NoForm
      BY <1>2, <2>1, <2>7 DEF SetSetting
    <3>2. /\ \A q \in Req : req'[q].at = req[q].at /\ req'[q].form = req[q].form
                            /\ req'[q].alone = req[q].alone
          /\ req'[r].todo = req[r].todo \ {k}
          /\ \A q \in Req \ {r} : req'[q] = req[q]
      BY <3>1 DEF DashTypeOK, Request
    <3>3. ASSUME NEW q \in Req, Saving(q)'
          PROVE  /\ whole' = NoForm
                 /\ req'[q].form \in Form /\ Acceptable(req'[q].form)
                 /\ req'[q].todo \subseteq RealityKey
                 /\ req'[q].alone => /\ Kept(setting', req'[q].form, req'[q].todo)
                                     /\ \A p \in Req : Saving(p)' => p = q
      <4>1. CASE q = r
        <5>1. req'[r].alone => Kept(setting', req'[r].form, req'[r].todo)
          BY <3>2, <2>4
        <5> QED
          BY <4>1, <5>1, <3>1, <3>2, <2>1 DEF SaveInv, Saving
      <4>2. CASE q # r
        BY <4>2, <3>1, <3>2, <3>3, <2>5 DEF SaveInv, Saving
      <4> QED
        BY <4>1, <4>2
    <3>4. \A q \in Req : req'[q].at = "restoring" => req'[q].todo \subseteq Host
      BY <3>2, <2>1 DEF SaveInv, Saving
    <3> QED
      BY <3>1, <3>3, <3>4 DEF SaveInv
  <2> QED
    BY <2>6, <2>7
<1>3. ASSUME UNCHANGED <<setting, whole>>,
             \A q \in Req : \/ req'[q] = req[q]
                            \/ req'[q] = Idle
                            \/ req'[q].at = "restoring" /\ req'[q].todo \subseteq Host
      PROVE  SaveInv'
  <2>1. \A q \in Req : Saving(q)' => Saving(q) /\ req'[q] = req[q]
    BY <1>3, FormFacts DEF Saving
  <2>3. \A q \in Req : req'[q].at = "restoring" => req'[q].todo \subseteq Host
    BY <1>3, FormFacts DEF SaveInv
  <2> QED
    BY <1>3, <2>1, <2>3 DEF SaveInv, Saving
<1>4. ASSUME NEW r \in Req, SetSettingFails(r) PROVE SaveInv'
  BY <1>3, <1>4 DEF SetSettingFails, DashTypeOK
<1>5. ASSUME NEW r \in Req, backupRestore(r) PROVE SaveInv'
  BY <1>3, <1>5 DEF backupRestore, DashTypeOK
<1>6. ASSUME NEW r \in Req, NEW h \in Host, req[r].at = "restoring", Restored(r, h),
             UNCHANGED <<setting, whole>>
      PROVE  SaveInv'
  <2>1. CASE req[r].todo = {h}
    BY <1>3, <1>6, <2>1 DEF Restored, DashTypeOK
  <2>2. CASE req[r].todo # {h}
    <3>1. req' = [req EXCEPT ![r].todo = @ \ {h}]
      BY <1>6, <2>2 DEF Restored
    <3>2. req'[r].at = "restoring" /\ req'[r].todo \subseteq Host
      BY <1>6, <3>1 DEF SaveInv, DashTypeOK, Request
    <3> QED
      BY <1>3, <1>6, <3>1, <3>2 DEF DashTypeOK
  <2> QED
    BY <2>1, <2>2
<1>7. ASSUME NEW r \in Req, NEW h \in Host, RestoreHost(r, h) PROVE SaveInv'
  BY <1>6, <1>7 DEF RestoreHost
<1>8. ASSUME NEW r \in Req, NEW h \in Host, RestoreHostFails(r, h) PROVE SaveInv'
  BY <1>6, <1>8 DEF RestoreHostFails
<1>9. CASE cdnPage
  BY <1>3, <1>9 DEF cdnPage
<1>10. ASSUME NEW h \in Host, SeedHost(h) PROVE SaveInv'
  BY <1>3, <1>10 DEF SeedHost
<1>11. ASSUME NEW h \in Host, SeedHostFails(h) PROVE SaveInv'
  BY <1>3, <1>11 DEF SeedHostFails
<1>12. CASE Install
  <2>1. setting' = Installed /\ whole' = IF \E r \in Req : Saving(r) THEN NoForm ELSE Installed
    BY <1>12 DEF Install
  <2>2. \A q \in Req : /\ req'[q].at = req[q].at /\ req'[q].form = req[q].form
                       /\ req'[q].todo = req[q].todo
                       /\ Saving(q) => ~req'[q].alone
    BY <1>12 DEF Install, DashTypeOK, Request, Saving
  <2>3. \A q \in Req : Saving(q)' => Saving(q)
    BY <2>2 DEF Saving
  <2>4. Kept(setting', Installed, {})
    BY <2>1 DEF Kept
  <2>5. whole' # NoForm => whole' \in Form /\ Acceptable(whole') /\ Kept(setting', whole', {})
    BY <2>1, <2>4, InstalledAssumption
  <2>6. \A q \in Req : Saving(q)' =>
          /\ whole' = NoForm /\ ~req'[q].alone
          /\ req'[q].form \in Form /\ Acceptable(req'[q].form)
          /\ req'[q].todo \subseteq RealityKey
    BY <2>1, <2>2, <2>3 DEF SaveInv
  <2>7. \A q \in Req : req'[q].at = "restoring" => req'[q].todo \subseteq Host
    BY <2>2 DEF SaveInv
  <2> QED
    BY <2>5, <2>6, <2>7 DEF SaveInv
<1>13. CASE Restart
  BY <1>3, <1>13 DEF Restart
<1>14. CASE UNCHANGED dashVars
  BY <1>3, <1>14 DEF dashVars
<1> QED
  BY <1>1, <1>2, <1>4, <1>5, <1>7, <1>8, <1>9, <1>10, <1>11, <1>12, <1>13, <1>14
     DEF DashNext

---------------------------------------------------------------------------
(* Hosts *)

LEMMA NextOff == DashTypeOK /\ OffStaysOff /\ [DashNext]_dashVars => OffStaysOff'
<1> SUFFICES ASSUME DashTypeOK, OffStaysOff, [DashNext]_dashVars PROVE OffStaysOff'
  OBVIOUS
<1>1. ASSUME NEW h \in Host, AddCDNHost(h), UNCHANGED off PROVE OffStaysOff'
  BY <1>1, HostAdded DEF DashTypeOK, OffStaysOff
<1>2. ASSUME UNCHANGED <<cdn, off>> PROVE OffStaysOff'
  BY <1>2 DEF OffStaysOff
<1>3. CASE cdnPage
  <2>1. PICK h \in Host :
          \/ AddCDNHost(h) /\ UNCHANGED off
          \/ ToggleCDNHost(h) /\ off' = IF cdn[h].enabled THEN off \cup {h} ELSE off \ {h}
          \/ \E t \in Pick : SetCDNHostTransport(h, t) /\ UNCHANGED off
          \/ DeleteCDNHost(h) /\ off' = off \ {h}
    BY <1>3 DEF cdnPage
  <2>2. CASE ToggleCDNHost(h) /\ off' = IF cdn[h].enabled THEN off \cup {h} ELSE off \ {h}
    BY <2>2 DEF ToggleCDNHost, DashTypeOK, CDNHost, OffStaysOff
  <2>3. ASSUME NEW t \in Pick, SetCDNHostTransport(h, t), UNCHANGED off PROVE OffStaysOff'
    BY <2>3 DEF SetCDNHostTransport, DashTypeOK, CDNHost, OffStaysOff
  <2>4. CASE DeleteCDNHost(h) /\ off' = off \ {h}
    BY <2>4 DEF DeleteCDNHost, DashTypeOK, OffStaysOff
  <2> QED
    BY <1>1, <2>1, <2>2, <2>3, <2>4
<1>4. CASE \E r \in Req, h \in Host : RestoreHost(r, h) \/ RestoreHostFails(r, h)
  BY <1>1, <1>2, <1>4 DEF RestoreHost, RestoreHostFails
<1>5. CASE \E h \in Host : SeedHost(h) \/ SeedHostFails(h)
  BY <1>1, <1>2, <1>5 DEF SeedHost, SeedHostFails
<1>6. CASE \/ \E r \in Req, f \in Sent : realitySave(r, f)
           \/ \E r \in Req, k \in RealityKey : SetSetting(r, k)
           \/ \E r \in Req : SetSettingFails(r) \/ backupRestore(r)
           \/ Install \/ Restart \/ UNCHANGED dashVars
  BY <1>2, <1>6
     DEF realitySave, SetSetting, SetSettingFails, backupRestore, Install, Restart, dashVars
<1> QED
  BY <1>3, <1>4, <1>5, <1>6 DEF DashNext

---------------------------------------------------------------------------
(* The inductive invariant: types, SaveInv and OffStaysOff together, for   *)
(* any requests, hosts, forms and bounds.                                  *)
THEOREM DashInvariant == DashSpec => [](DashTypeOK /\ SaveInv /\ OffStaysOff)
<1>1. DashInit => DashTypeOK /\ SaveInv /\ OffStaysOff
  BY InitInv
<1>2. DashTypeOK /\ SaveInv /\ OffStaysOff /\ [DashNext]_dashVars
        => (DashTypeOK /\ SaveInv /\ OffStaysOff)'
  BY NextType, NextSave, NextOff
<1> QED
  BY <1>1, <1>2, PTL DEF DashSpec

(* Rows, requests and hosts keep their types: reality.go:85 writes only    *)
(* the keys of the form.                                                   *)
THEOREM TypeCorrectness == DashSpec => []DashTypeOK
BY DashInvariant, PTL

(* reality.go:85-99: once a save went through alone, customers are handed  *)
(* its link, whatever earlier saves, failures and restarts left.           *)
THEOREM LinkWhole == DashSpec => []RealityLinkWhole
<1>1. DashTypeOK /\ SaveInv => RealityLinkWhole
  BY LinkFollowsForm DEF DashTypeOK, SaveInv, Kept, RealityLinkWhole
<1> QED
  BY <1>1, DashInvariant, PTL

(* cdn_hosts.go:111: neither a start nor a restore switches on what the    *)
(* operator switched off.                                                  *)
THEOREM OffHosts == DashSpec => []OffStaysOff
BY DashInvariant, PTL
============================================================================
