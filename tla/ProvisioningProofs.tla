------------------------ MODULE ProvisioningProofs ------------------------
(***************************************************************************)
(* Theorems about Provisioning: type correctness, and that the tag set     *)
(* follows the stored toggles.                                             *)
(***************************************************************************)
EXTENDS Provisioning, TLAPS

USE DEF Process

---------------------------------------------------------------------------
(* Jobs and flags are what their types say.                                *)
LEMMA IdleIsJob == Idle \in Job
BY DEF Idle, Job

LEMMA WorkIsJob ==
  ASSUME NEW us \in SUBSET User, NEW add \in BOOLEAN,
         NEW then \in {"nothing", "patched", "delete", "rollback"}
  PROVE  Work(us, add, then) \in Job
BY DEF Work, Idle, Job

LEMMA FlagType == \A b \in BOOLEAN : Flag(b) \in {"none", "on", "off"}
BY DEF Flag

LEMMA StoredType == \A b \in BOOLEAN : Stored(b) \in {"unset", "true", "false"}
BY DEF Stored

(* What an answer of xray leaves of its lists.                             *)
LEMMA AlteredType ==
  ASSUME member \in [Tag -> SUBSET User],
         NEW t \in Tag, NEW us \in SUBSET User, NEW add \in BOOLEAN
  PROVE  Altered(t, us, add) \in [Tag -> SUBSET User]
BY DEF Altered

LEMMA ClashType == \A us \in SUBSET User, add \in BOOLEAN : Clash(us, add) \in SUBSET User
BY DEF Clash

LEMMA MarkType ==
  ASSUME mayLack \in SUBSET User, mayGhost \in SUBSET User, stuck \in SUBSET User,
         NEW lack \in SUBSET User, NEW ghost \in SUBSET User, NEW stay \in SUBSET User,
         Mark(lack, ghost, stay)
  PROVE  mayLack' \in SUBSET User /\ mayGhost' \in SUBSET User /\ stuck' \in SUBSET User
BY DEF Mark

LEMMA NoApplyIsApply == NoApply \in Apply
BY DEF NoApply, Apply

LEMMA InitType == Init => TypeOK
<1> SUFFICES ASSUME Init PROVE TypeOK
  OBVIOUS
<1>1. apply \in [Page -> Apply]
  BY NoApplyIsApply DEF Init
<1>2. job \in [Process -> Job]
  BY IdleIsJob DEF Init
<1>3. member \in [Tag -> SUBSET User] /\ active \in SUBSET Tag
  BY TagAssumption DEF Init
<1>4. boot \in [Toggle -> {"unset", "true", "false"}]
  BY DEF Init, Unset
<1>5. /\ mayLack \in SUBSET User /\ mayGhost \in SUBSET User
      /\ stuck \in SUBSET User /\ drift \in BOOLEAN
  BY DEF Init
<1>6. applies \in Nat /\ faults \in Nat /\ restarts \in Nat
  BY DEF Init
<1> QED BY <1>1, <1>2, <1>3, <1>4, <1>5, <1>6 DEF Init, TypeOK

---------------------------------------------------------------------------
(* Requests keep the types.                                                *)
LEMMA RequestType ==
  ASSUME TypeOK, NEW p \in Handler, Request(p)
  PROVE  TypeOK'
<1> USE IdleIsJob, FlagType DEF TypeOK, bounds, marks
<1>1. ASSUME NEW u \in User, NEW enable \in BOOLEAN, adminCreateUser(p, u, enable)
      PROVE  TypeOK'
  <2> DEFINE c1 == Clash({u}, TRUE)
             c2 == Clash({u}, FALSE)
             g == c1 \cup IF row[u] = "off" THEN {u} ELSE {}
  <2>1. c1 \in SUBSET User /\ c2 \in SUBSET User /\ g \in SUBSET User
    BY ClashType
  <2>2. (mayLack \in SUBSET User)' /\ (mayGhost \in SUBSET User)' /\ (stuck \in SUBSET User)'
    <3>1. Mark(c1, g, c1) \/ Mark(c2, c2, c2)
      BY <1>1 DEF adminCreateUser
    <3> QED BY <3>1, <2>1, MarkType
  <2>3. job' \in [Process -> Job]
    <3>1. \A then \in {"rollback", "nothing"} : Work({u}, TRUE, then) \in Job
      BY WorkIsJob
    <3> QED BY <1>1, <3>1 DEF adminCreateUser
  <2> QED BY <1>1, <2>2, <2>3 DEF adminCreateUser
<1>2. ASSUME NEW u \in User, NEW enable \in BOOLEAN, backupRestore(p, u, enable)
      PROVE  TypeOK'
  <2>1. Work({u}, TRUE, "nothing") \in Job /\ Clash({u}, enable) \in SUBSET User
    BY WorkIsJob, ClashType
  <2>2. job' \in [Process -> Job]
    BY <1>2, <2>1 DEF backupRestore
  <2>3. mayLack' \in SUBSET User /\ mayGhost' \in SUBSET User /\ stuck' \in SUBSET User
    BY <1>2, <2>1, MarkType DEF backupRestore, Clashed
  <2> QED BY <1>2, <2>2, <2>3 DEF backupRestore, Clashed
<1>3. ASSUME NEW u \in User, NEW enable \in BOOLEAN, adminPatchUser(p, u, enable)
      PROVE  TypeOK'
  <2>1. Work({u}, enable, "patched") \in Job /\ Clash({u}, enable) \in SUBSET User
    BY WorkIsJob, ClashType
  <2>2. job' \in [Process -> Job]
    BY <1>3, <2>1 DEF adminPatchUser
  <2>3. mayLack' \in SUBSET User /\ mayGhost' \in SUBSET User /\ stuck' \in SUBSET User
    BY <1>3, <2>1, MarkType DEF adminPatchUser, Clashed
  <2> QED BY <1>3, <2>2, <2>3 DEF adminPatchUser, Clashed
<1>4. ASSUME NEW u \in User, usersRead(p, u)
      PROVE  TypeOK'
  <2>1. [Idle EXCEPT !.at = "patch", !.add = (row[u] = "on"), !.queue = {u}] \in Job
    BY DEF Idle, Job
  <2>2. job' \in [Process -> Job]
    BY <1>4, <2>1 DEF usersRead
  <2>3. mayLack' \in SUBSET User /\ mayGhost' \in SUBSET User /\ stuck' \in SUBSET User
    <3>1. Clash({u}, TRUE) \in SUBSET User
      BY ClashType
    <3> QED BY <1>4, <3>1, MarkType DEF usersRead, Clashed
  <2> QED BY <1>4, <2>2, <2>3 DEF usersRead, Clashed
<1>5. ASSUME NEW us \in SUBSET User, usersDelete(p, us)
      PROVE  TypeOK'
  <2>1. Work(us, FALSE, "delete") \in Job /\ Clash(us, FALSE) \in SUBSET User
    BY WorkIsJob, ClashType
  <2>2. job' \in [Process -> Job]
    BY <1>5, <2>1 DEF usersDelete
  <2>3. mayLack' \in SUBSET User /\ mayGhost' \in SUBSET User /\ stuck' \in SUBSET User
    BY <1>5, <2>1, MarkType DEF usersDelete, Clashed
  <2> QED BY <1>5, <2>2, <2>3 DEF usersDelete, Clashed
<1> QED BY <1>1, <1>2, <1>3, <1>4, <1>5 DEF Request

---------------------------------------------------------------------------
(* The calls to xray keep them.                                            *)
LEMMA ProceedType ==
  ASSUME TypeOK, NEW p \in Process, Proceed(p)
  PROVE  TypeOK'
<1> USE IdleIsJob, FlagType DEF TypeOK, bounds, marks
<1>0. job[p] \in Job
  OBVIOUS
<1>1. ASSUME NEW enable \in BOOLEAN, usersWrite(p, enable)
      PROVE  TypeOK'
  <2>1. PICK u \in job[p].queue :
          IF row[u] = "none"
          THEN job' = [job EXCEPT ![p] = Idle] /\ UNCHANGED row
          ELSE /\ row' = [row EXCEPT ![u] = Flag(enable)]
               /\ job' = [job EXCEPT ![p] =
                            IF enable = job[p].add THEN Idle ELSE Work({u}, enable, "patched")]
    BY <1>1 DEF usersWrite
  <2>2. u \in User
    BY <1>0, <2>1 DEF Job
  <2>3. Work({u}, enable, "patched") \in Job
    BY <2>2, WorkIsJob
  <2>4. job' \in [Process -> Job]
    BY <2>1, <2>3
  <2>5. row' \in [User -> {"none", "on", "off"}]
    BY <2>1, <2>2
  <2> QED BY <1>1, <2>4, <2>5 DEF usersWrite
<1>2. CASE NextUser(p)
  <2>1. PICK u \in job[p].queue :
          job' = [job EXCEPT ![p].cur = {u}, ![p].queue = @ \ {u},
                             ![p].tags = active, ![p].ok = TRUE]
    BY <1>2 DEF NextUser, activeTags
  <2>2. [job[p] EXCEPT !.cur = {u}, !.queue = @ \ {u}, !.tags = active, !.ok = TRUE] \in Job
    BY <1>0, <2>1 DEF Job
  <2>3. job' = [job EXCEPT ![p] = [job[p] EXCEPT !.cur = {u}, !.queue = @ \ {u},
                                                !.tags = active, !.ok = TRUE]]
    BY <2>1, <1>0 DEF Job
  <2>4. job' \in [Process -> Job]
    BY <2>2, <2>3
  <2> QED BY <1>2, <2>4 DEF NextUser
<1>3. ASSUME NEW t \in Tag, AlterInbound(p, t)
      PROVE  TypeOK'
  <2>1. Altered(t, job[p].cur, job[p].add) \in [Tag -> SUBSET User]
    BY <1>0, AlteredType DEF Job
  <2>2. job' \in [Process -> Job]
    BY <1>0, <1>3 DEF AlterInbound, Job
  <2> QED BY <1>3, <2>1, <2>2 DEF AlterInbound
<1>4. CASE Settle(p)
  <2>1. job' \in [Process -> Job]
    BY <1>0, <1>4 DEF Settle, Leave, Job
  <2>2. row' \in [User -> {"none", "on", "off"}]
    BY <1>4 DEF Settle
  <2> QED BY <1>4, <2>1, <2>2 DEF Settle
<1> QED BY <1>1, <1>2, <1>3, <1>4 DEF Proceed

(* So do the start and the purge.                                          *)
LEMMA StartupType ==
  ASSUME TypeOK, Startup
  PROVE  TypeOK'
<1> USE IdleIsJob DEF TypeOK, bounds, marks
<1>1. CASE ReadToggles
  BY <1>1 DEF ReadToggles
<1>2. ASSUME NEW k \in Toggle, LayToggle(k)
      PROVE  TypeOK'
  BY <1>2, TagAssumption DEF LayToggle
<1>3. CASE HydrateFromDB
  <2>1. AllUUIDsEnabled \in SUBSET User
    BY DEF AllUUIDsEnabled
  <2>2. Work(AllUUIDsEnabled, TRUE, "nothing") \in Job
    BY <2>1, WorkIsJob
  <2>3. job' \in [Process -> Job]
    BY <1>3, <2>2 DEF HydrateFromDB
  <2>4. mayLack' \in SUBSET User /\ mayGhost' \in SUBSET User /\ stuck' \in SUBSET User
    BY <1>3 DEF HydrateFromDB
  <2> QED BY <1>3, <2>3, <2>4 DEF HydrateFromDB
<1> QED BY <1>1, <1>2, <1>3 DEF Startup

LEMMA PurgeType ==
  ASSUME TypeOK, DeleteDisabledOverLimitOrExpired
  PROVE  TypeOK'
<1> USE DEF TypeOK, bounds, marks
<1>1. PICK due \in SUBSET AllUUIDsEnabled :
        LET gone == due \cup {u \in User : row[u] = "off"}
        IN  /\ row' = [u \in User |-> IF u \in gone THEN "none" ELSE row[u]]
            /\ job' = [job EXCEPT ![Loop] = Work(gone, FALSE, "nothing")]
            /\ Clashed(Clash(gone, FALSE))
  BY DEF DeleteDisabledOverLimitOrExpired
<1> DEFINE gone == due \cup {u \in User : row[u] = "off"}
<1>2. gone \in SUBSET User
  BY DEF AllUUIDsEnabled
<1>3. Work(gone, FALSE, "nothing") \in Job
  BY <1>2, WorkIsJob
<1>4. job' \in [Process -> Job]
  BY <1>1, <1>3
<1>5. mayLack' \in SUBSET User /\ mayGhost' \in SUBSET User /\ stuck' \in SUBSET User
  <2>1. Clash(gone, FALSE) \in SUBSET User
    BY <1>2, ClashType
  <2>2. Mark(Clash(gone, FALSE), Clash(gone, FALSE), Clash(gone, FALSE))
    BY <1>1 DEF Clashed
  <2> HIDE DEF gone
  <2> QED BY <2>1, <2>2, MarkType
<1>6. row' \in [User -> {"none", "on", "off"}]
  BY <1>1
<1> QED BY <1>1, <1>4, <1>5, <1>6 DEF DeleteDisabledOverLimitOrExpired, Clashed

---------------------------------------------------------------------------
(* So does the Transports page.                                            *)
LEMMA TransportsType ==
  ASSUME TypeOK, NEW r \in Page, transportsApply(r) \/ Applying(r)
  PROVE  TypeOK'
<1> USE NoApplyIsApply DEF TypeOK, bounds, marks
<1>a. apply[r] \in Apply
  OBVIOUS
<1>1. CASE transportsApply(r)
  <2>1. PICK want \in [Toggle -> BOOLEAN], m \in [Toggle -> {"unset", "true", "false"}] :
          /\ GetSettings(m)
          /\ apply' = [apply EXCEPT ![r] = [NoApply EXCEPT
                         !.at = "list", !.want = want,
                         !.keys = {k \in Toggle : want[k] # currentTransports(m)[k]}]]
    BY <1>1 DEF transportsApply
  <2>2. apply' \in [Page -> Apply]
    <3>1. [NoApply EXCEPT !.at = "list", !.want = want,
             !.keys = {k \in Toggle : want[k] # currentTransports(m)[k]}] \in Apply
      BY DEF NoApply, Apply
    <3> QED BY <2>1, <3>1
  <2>3. mayLack' \in SUBSET User /\ mayGhost' \in SUBSET User /\ stuck' \in SUBSET User
    BY <1>1 DEF transportsApply, Mark
  <2>4. drift' \in BOOLEAN
    <3>1. drift' = (drift \/ Starting)
      BY <1>1 DEF transportsApply
    <3>2. (drift \/ Starting) \in BOOLEAN
      BY Zenon
    <3> QED BY <3>1, <3>2, Zenon
  <2>5. applies' \in Nat /\ restarts' \in Nat
    <3>1. applies' = applies + 1 /\ restarts' = restarts
      BY <1>1, Zenon DEF transportsApply
    <3> QED BY <3>1
  <2>6. faults' \in Nat
    BY <2>1 DEF GetSettings
  <2>7. UNCHANGED <<row, setting, member, active, phase, boot, job>>
    BY <1>1 DEF transportsApply
  <2> QED BY <2>2, <2>3, <2>4, <2>5, <2>6, <2>7
<1>2. CASE ListEnabled(r)
  <2>1. apply' \in [Page -> Apply]
    BY <1>2, <1>a DEF ListEnabled, Apply, AllUUIDsEnabled
  <2> QED BY <1>2, <2>1 DEF ListEnabled
<1>3. ASSUME NEW k \in Toggle, SetSetting(r, k)
      PROVE  TypeOK'
  <2>1. apply' \in [Page -> Apply]
    BY <1>3, <1>a DEF SetSetting, Apply
  <2>2. apply[r].want[k] \in BOOLEAN
    BY DEF Apply
  <2>3. Stored(apply[r].want[k]) \in {"unset", "true", "false"}
    BY <2>2, StoredType
  <2>4. mayLack' \in SUBSET User /\ mayGhost' \in SUBSET User /\ stuck' \in SUBSET User
    BY <1>3 DEF SetSetting, Clashed, Mark
  <2> QED BY <1>3, <2>1, <2>3, <2>4 DEF SetSetting, Clashed
<1>4. ASSUME NEW k \in Toggle, SwitchTag(r, k)
      PROVE  TypeOK'
  <2>1. apply' \in [Page -> Apply]
    BY <1>4, <1>a DEF SwitchTag, Apply
  <2>2. active' \in SUBSET Tag
    BY <1>4, TagAssumption DEF SwitchTag
  <2>3. drift' \in BOOLEAN
    <3>1. drift' = (drift \/ Overtaken(r, k))
      BY <1>4 DEF SwitchTag
    <3>2. (drift \/ Overtaken(r, k)) \in BOOLEAN
      BY Zenon
    <3> QED BY <3>1, <3>2, Zenon
  <2>4. UNCHANGED <<row, setting, member, phase, boot, job, bounds, mayLack, mayGhost, stuck>>
    BY <1>4 DEF SwitchTag
  <2> QED BY <2>1, <2>2, <2>3, <2>4
<1>5. ASSUME NEW k \in Toggle, NEW u \in User, Backfill(r, u, k)
      PROVE  TypeOK'
  <2>1. apply' \in [Page -> Apply]
    BY <1>5, <1>a DEF Backfill, Apply
  <2>2. member' \in [Tag -> SUBSET User]
    <3>1. k \in Tag /\ apply[r].want[k] \in BOOLEAN /\ {u} \in SUBSET User
      BY TagAssumption DEF Apply
    <3> QED BY <1>5, <3>1, AlteredType DEF Backfill
  <2> QED BY <1>5, <2>1, <2>2 DEF Backfill
<1>6. CASE NextKey(r)
  <2>1. apply' \in [Page -> Apply]
    BY <1>6, <1>a DEF NextKey, Apply
  <2> QED BY <1>6, <2>1 DEF NextKey
<1> QED BY <1>1, <1>2, <1>3, <1>4, <1>5, <1>6 DEF Applying

---------------------------------------------------------------------------
(* So do the calls that fail.                                              *)
LEMMA FailuresType ==
  ASSUME TypeOK, Failures
  PROVE  TypeOK'
<1> USE NoApplyIsApply DEF TypeOK, bounds, marks, Fault
<1>1. ASSUME NEW p \in Process, SettleFails(p)
      PROVE  TypeOK'
  <2>0. job[p] \in Job /\ job[p].cur \in SUBSET User
    BY DEF Job
  <2>1. job' \in [Process -> Job]
    BY <1>1, <2>0, IdleIsJob DEF SettleFails, Leave, Job
  <2>2. mayLack' \in SUBSET User /\ mayGhost' \in SUBSET User /\ stuck' \in SUBSET User
    BY <1>1, <2>0, MarkType DEF SettleFails
  <2> QED BY <1>1, <2>1, <2>2 DEF SettleFails
<1>2. ASSUME NEW p \in Process, NEW t \in Tag, AlterInboundFails(p, t)
      PROVE  TypeOK'
  <2>0. job[p] \in Job /\ job[p].cur \in SUBSET User /\ job[p].add \in BOOLEAN
    BY DEF Job
  <2>1. Altered(t, job[p].cur, job[p].add) \in [Tag -> SUBSET User]
    BY <2>0, AlteredType
  <2>2. job' \in [Process -> Job]
    BY <2>0, <1>2 DEF AlterInboundFails, Job
  <2>3. mayLack' \in SUBSET User /\ mayGhost' \in SUBSET User /\ stuck' \in SUBSET User
    BY <1>2, <2>0 DEF AlterInboundFails, Mark
  <2> QED BY <1>2, <2>1, <2>2, <2>3 DEF AlterInboundFails
<1>3. CASE ReadTogglesFails
  BY <1>3 DEF ReadTogglesFails, Mark
<1>4. CASE HydrateFails
  BY <1>4 DEF HydrateFails, Mark
<1>5. CASE DeleteAnswerLost
  <2>1. PICK due \in SUBSET AllUUIDsEnabled :
          LET gone == due \cup {u \in User : row[u] = "off"}
          IN  /\ row' = [u \in User |-> IF u \in gone THEN "none" ELSE row[u]]
              /\ Mark(Clash(gone, FALSE), gone, gone)
    BY <1>5 DEF DeleteAnswerLost
  <2> DEFINE gone == due \cup {u \in User : row[u] = "off"}
  <2>2. gone \in SUBSET User
    BY DEF AllUUIDsEnabled
  <2>3. Clash(gone, FALSE) \in SUBSET User
    BY <2>2, ClashType
  <2>4. mayLack' \in SUBSET User /\ mayGhost' \in SUBSET User /\ stuck' \in SUBSET User
    <3>1. Mark(Clash(gone, FALSE), gone, gone)
      BY <2>1
    <3> HIDE DEF gone
    <3> QED BY <3>1, <2>2, <2>3, MarkType
  <2>5. row' \in [User -> {"none", "on", "off"}]
    BY <2>1
  <2> QED BY <1>5, <2>4, <2>5 DEF DeleteAnswerLost
<1>6. ASSUME NEW r \in Page, ApplyFails(r)
      PROVE  TypeOK'
  BY <1>6 DEF ApplyFails
<1>7. ASSUME NEW r \in Page, NEW k \in Toggle, SetSettingFails(r, k)
      PROVE  TypeOK'
  <2>1. Stored(apply[r].want[k]) \in {"unset", "true", "false"}
    BY StoredType DEF Apply
  <2>2. mayLack' \in SUBSET User /\ mayGhost' \in SUBSET User /\ stuck' \in SUBSET User
    BY <1>7 DEF SetSettingFails, Mark
  <2>3. setting' \in [Toggle -> {"unset", "true", "false"}] /\ drift' \in BOOLEAN
    BY <1>7, <2>1 DEF SetSettingFails
  <2>4. applies' \in Nat /\ faults' \in Nat /\ restarts' \in Nat
    BY <1>7 DEF SetSettingFails
  <2>5. apply' \in [Page -> Apply] /\ UNCHANGED <<row, member, active, phase, boot, job>>
    BY <1>7 DEF SetSettingFails
  <2> QED BY <2>2, <2>3, <2>4, <2>5
<1>8. ASSUME NEW r \in Page, NEW k \in Toggle, NEW u \in User, BackfillFails(r, u, k)
      PROVE  TypeOK'
  <2>1. apply' \in [Page -> Apply]
    BY <1>8 DEF BackfillFails, Apply
  <2>2. Altered(k, {u}, apply[r].want[k]) \in [Tag -> SUBSET User]
    <3>1. k \in Tag /\ apply[r].want[k] \in BOOLEAN /\ {u} \in SUBSET User
      BY TagAssumption DEF Apply
    <3> QED BY <3>1, AlteredType
  <2>3. mayLack' \in SUBSET User /\ mayGhost' \in SUBSET User /\ stuck' \in SUBSET User
    BY <1>8 DEF BackfillFails, Mark
  <2>4. member' \in [Tag -> SUBSET User]
    BY <1>8, <2>2 DEF BackfillFails
  <2>5. applies' \in Nat /\ faults' \in Nat /\ restarts' \in Nat
    BY <1>8 DEF BackfillFails
  <2>6. UNCHANGED <<row, setting, active, phase, boot, job, drift>>
    BY <1>8 DEF BackfillFails
  <2> QED BY <2>1, <2>3, <2>4, <2>5, <2>6
<1>9. ASSUME NEW p \in Process, DeadlineExpires(p)
      PROVE  TypeOK'
  <2>0. job[p] \in Job /\ job[p].cur \in SUBSET User /\ job[p].queue \in SUBSET User
        /\ job[p].add \in BOOLEAN /\ job[p].tags \in SUBSET Tag
    BY DEF Job
  <2>1. member' \in [Tag -> SUBSET User]
    <3>1. \A t \in job[p].tags : Altered(t, job[p].cur, job[p].add) \in [Tag -> SUBSET User]
      BY <2>0, AlteredType
    <3> QED BY <1>9, <3>1 DEF DeadlineExpires
  <2>2. job' \in [Process -> Job]
    BY <1>9, IdleIsJob DEF DeadlineExpires
  <2>3. mayLack' \in SUBSET User /\ mayGhost' \in SUBSET User /\ stuck' \in SUBSET User
    BY <1>9, <2>0 DEF DeadlineExpires, Mark
  <2> QED BY <1>9, <2>1, <2>2, <2>3 DEF DeadlineExpires
<1>10. ASSUME NEW p \in Process, NEW u \in User, NEW enable \in BOOLEAN,
              RowAnswerLost(p, u, enable)
       PROVE  TypeOK'
  <2>1. Clash({u}, enable) \in SUBSET User
    BY ClashType
  <2>2. mayLack' \in SUBSET User /\ mayGhost' \in SUBSET User /\ stuck' \in SUBSET User
    BY <1>10, <2>1 DEF RowAnswerLost, Mark
  <2>3. row' \in [User -> {"none", "on", "off"}] /\ job' \in [Process -> Job]
    BY <1>10, IdleIsJob, FlagType DEF RowAnswerLost
  <2> QED BY <1>10, <2>2, <2>3 DEF RowAnswerLost
<1>11. ASSUME NEW r \in Page, NEW k \in Toggle, ApplyTimesOut(r, k)
       PROVE  TypeOK'
  <2>1. k \in Tag /\ apply[r].want[k] \in BOOLEAN /\ apply[r].queue \in SUBSET User
    BY TagAssumption DEF Apply
  <2>2. member' \in [Tag -> SUBSET User]
    <3>1. \A u \in apply[r].queue : Altered(k, {u}, apply[r].want[k]) \in [Tag -> SUBSET User]
      BY <2>1, AlteredType
    <3> QED BY <1>11, <3>1 DEF ApplyTimesOut
  <2>3. mayLack' \in SUBSET User /\ mayGhost' \in SUBSET User /\ stuck' \in SUBSET User
    BY <1>11, <2>1 DEF ApplyTimesOut, Mark
  <2>4. apply' \in [Page -> Apply] /\ faults' \in Nat
    BY <1>11 DEF ApplyTimesOut
  <2> QED BY <1>11, <2>2, <2>3, <2>4 DEF ApplyTimesOut
<1> QED BY <1>1, <1>2, <1>3, <1>4, <1>5, <1>6, <1>7, <1>8, <1>9, <1>10, <1>11 DEF Failures

(* So do the restarts.                                                     *)
LEMMA RestartType ==
  ASSUME TypeOK, XrayRestart \/ DaemonRestart
  PROVE  TypeOK'
<1> USE DEF TypeOK, bounds, marks
<1>1. CASE XrayRestart
  BY <1>1 DEF XrayRestart
<1>2. CASE DaemonRestart
  <2>1. job' \in [Process -> Job] /\ apply' \in [Page -> Apply]
    BY <1>2, IdleIsJob, NoApplyIsApply DEF DaemonRestart
  <2>2. active' \in SUBSET Tag /\ boot' \in [Toggle -> {"unset", "true", "false"}]
    BY <1>2, TagAssumption DEF DaemonRestart, Unset
  <2>3. mayLack' \in SUBSET User /\ mayGhost' \in SUBSET User /\ stuck' \in SUBSET User
    BY <1>2, MarkType DEF DaemonRestart
  <2>4. /\ row' \in [User -> {"none", "on", "off"}]
        /\ setting' \in [Toggle -> {"unset", "true", "false"}]
        /\ member' \in [Tag -> SUBSET User]
        /\ phase' \in {"wait", "toggles", "run"} /\ drift' \in BOOLEAN
    BY <1>2 DEF DaemonRestart
  <2>5. applies' \in Nat /\ faults' \in Nat /\ restarts' \in Nat
    BY <1>2 DEF DaemonRestart
  <2> QED BY <2>1, <2>2, <2>3, <2>4, <2>5
<1> QED BY <1>1, <1>2

LEMMA TypeStep == TypeOK /\ [Next]_vars => TypeOK'
<1> SUFFICES ASSUME TypeOK, [Next]_vars PROVE TypeOK'
  OBVIOUS
<1>1. CASE Next
  BY <1>1, RequestType, ProceedType, StartupType, PurgeType, TransportsType,
     FailuresType, RestartType DEF Next
<1>2. CASE UNCHANGED vars
  BY <1>2 DEF TypeOK, vars, bounds, marks
<1> QED BY <1>1, <1>2

(* Whatever interleaves, and for any number of users, tags and requests,   *)
(* each variable keeps its type and each process holds what its next step  *)
(* needs.                                                                  *)
THEOREM TypeCorrectness == Spec => []TypeOK
BY InitType, TypeStep, PTL DEF Spec

---------------------------------------------------------------------------
(* The tag set and the toggles.  TagsFollowSettings is not inductive: it   *)
(* speaks of the time once the start is over, and of transports nobody is  *)
(* switching.  TagInv says what holds before, how far the start has come,  *)
(* and that where the two differ a request that stored the value of the    *)
(* setting has yet to switch the tag.                                      *)
Wanted(t) ==
  IF t \in Toggle /\ setting[t] # "unset" THEN setting[t] = "true" ELSE t \in Static

Follows(t) == t \in active <=> Wanted(t)

WillFollow(t) ==
  \E r \in Page : t \in Toggle /\ Switching(r, t) /\ setting[t] = Stored(apply[r].want[t])

BootInv ==
  \A t \in Tag :
    IF t \in Toggle /\ boot[t] # "unset" THEN boot[t] = setting[t] ELSE Follows(t)

TagInv ==
  ~drift =>
    /\ phase = "wait" => active = Static
    /\ Starting => ~Applied
    /\ phase = "toggles" => BootInv
    /\ phase = "run" => \A t \in Tag : Follows(t) \/ WillFollow(t)

LEMMA TagInvInit == Init => TagInv
BY DEF Init, TagInv, Starting, Applied, NoApply

tagVars == <<setting, active, phase, boot, apply, drift>>

LEMMA TagInvUnchanged ==
  ASSUME TagInv, UNCHANGED tagVars
  PROVE  TagInv'
BY DEF tagVars, TagInv, Starting, Applied, BootInv, Follows, Wanted, WillFollow, Switching

(* No step of a request on users, of a call to xray, of the purge or of an *)
(* xray restart touches the tag set or the toggles.                        *)
LEMMA OthersLeaveTags ==
  ASSUME \/ \E p \in Handler : Request(p)
         \/ \E p \in Process : Proceed(p)
         \/ DeleteDisabledOverLimitOrExpired \/ XrayRestart \/ DeleteAnswerLost
         \/ \E p \in Process :
              \/ SettleFails(p) \/ DeadlineExpires(p)
              \/ \E t \in Tag : AlterInboundFails(p, t)
              \/ \E u \in User, enable \in BOOLEAN : RowAnswerLost(p, u, enable)
  PROVE  UNCHANGED tagVars
<1> USE DEF tagVars, marks
<1>1. ASSUME NEW p \in Handler, Request(p) PROVE UNCHANGED tagVars
  BY <1>1 DEF Request, usersRead, adminCreateUser, backupRestore, adminPatchUser,
     usersDelete, Clashed
<1>2. ASSUME NEW p \in Process, Proceed(p) PROVE UNCHANGED tagVars
  BY <1>2 DEF Proceed, usersWrite, NextUser, AlterInbound, Settle
<1>3. CASE DeleteDisabledOverLimitOrExpired
  BY <1>3 DEF DeleteDisabledOverLimitOrExpired, Clashed
<1>4. CASE XrayRestart
  BY <1>4 DEF XrayRestart
<1>5. CASE DeleteAnswerLost
  BY <1>5 DEF DeleteAnswerLost
<1>6. ASSUME NEW p \in Process, SettleFails(p) PROVE UNCHANGED tagVars
  BY <1>6 DEF SettleFails
<1>7. ASSUME NEW p \in Process, NEW t \in Tag, AlterInboundFails(p, t) PROVE UNCHANGED tagVars
  BY <1>7 DEF AlterInboundFails
<1>8. ASSUME NEW p \in Process, DeadlineExpires(p) PROVE UNCHANGED tagVars
  BY <1>8 DEF DeadlineExpires
<1>9. ASSUME NEW p \in Process, NEW u \in User, NEW enable \in BOOLEAN,
             RowAnswerLost(p, u, enable)
      PROVE  UNCHANGED tagVars
  BY <1>9 DEF RowAnswerLost
<1> QED BY <1>1, <1>2, <1>3, <1>4, <1>5, <1>6, <1>7, <1>8, <1>9

(* A start lays the stored toggles over the tags of the environment.       *)
LEMMA StartKeepsTagInv ==
  ASSUME TypeOK, TagInv,
         Startup \/ ReadTogglesFails \/ HydrateFails \/ DaemonRestart
  PROVE  TagInv'
<1> USE DEF marks, TagInv, Starting, Applied, Follows, Wanted
<1>1. CASE ReadToggles
  <2>1. phase' = "toggles" /\ boot' = setting /\ UNCHANGED <<setting, active, apply, drift>>
    BY <1>1 DEF ReadToggles
  <2>2. ASSUME ~drift PROVE BootInv'
    <3>1. active = Static
      BY <1>1, <2>2 DEF ReadToggles
    <3> QED BY <2>1, <3>1 DEF BootInv
  <2> QED BY <1>1, <2>1, <2>2 DEF ReadToggles
<1>2. ASSUME NEW k \in Toggle, LayToggle(k)
      PROVE  TagInv'
  <2>1. phase = "toggles" /\ boot[k] # "unset" /\ UNCHANGED <<setting, phase, apply, drift>>
    BY <1>2 DEF LayToggle
  <2>2. ASSUME ~drift PROVE BootInv'
    <3>1. BootInv
      BY <2>1, <2>2
    <3>2. boot[k] = setting[k]
      BY <2>1, <3>1, TagAssumption DEF BootInv
    <3>3. boot'[k] = "unset" /\ (k \in active' <=> setting[k] = "true")
      BY <1>2, <3>2 DEF LayToggle, TypeOK
    <3>4. \A t \in Tag \ {k} :
            (t \in active' <=> t \in active) /\ (t \in Toggle => boot'[t] = boot[t])
      BY <1>2 DEF LayToggle, TypeOK
    <3>5. SUFFICES ASSUME NEW t \in Tag
                   PROVE  IF t \in Toggle /\ boot'[t] # "unset"
                          THEN boot'[t] = setting[t] ELSE Follows(t)'
      BY <2>1 DEF BootInv
    <3>6. CASE t = k
      BY <2>1, <3>2, <3>3, <3>6
    <3>7. CASE t # k
      BY <2>1, <3>1, <3>4, <3>7 DEF BootInv
    <3> QED BY <3>6, <3>7
  <2> QED BY <2>1, <2>2
<1>3. CASE HydrateFromDB \/ HydrateFails
  <2>1. /\ phase = "toggles" /\ boot = Unset /\ phase' = "run"
        /\ UNCHANGED <<setting, active, boot, apply, drift>>
    BY <1>3 DEF HydrateFromDB, HydrateFails
  <2>2. ASSUME ~drift, NEW t \in Tag PROVE Follows(t)
    BY <2>1, <2>2 DEF BootInv, Unset
  <2>3. \A t \in Tag : Follows(t)' <=> Follows(t)
    BY <2>1
  <2> QED BY <2>1, <2>2, <2>3
<1>4. CASE ReadTogglesFails
  BY <1>4 DEF ReadTogglesFails
<1>5. CASE DaemonRestart
  BY <1>5 DEF DaemonRestart, NoApply
<1> QED BY <1>1, <1>2, <1>3, <1>4, <1>5 DEF Startup

(* Whatever moves a request on that is not about to switch a tag, and does *)
(* not begin it, keeps the invariant; so does ending it.                   *)
LEMMA MovesOn ==
  ASSUME TypeOK, TagInv, NEW r \in Page,
         apply[r].at \notin {"idle", "tag"},
         \A q \in Page \ {r} : apply'[q] = apply[q],
         UNCHANGED <<setting, active, phase, boot, drift>>
  PROVE  TagInv'
<1> USE DEF TagInv, Starting, Applied, Follows, Wanted
<1>1. \A t : WillFollow(t) => WillFollow(t)'
  BY DEF WillFollow, Switching
<1>2. BootInv => BootInv'
  BY DEF BootInv
<1> QED BY <1>1, <1>2

(* A Transports request stores a key and then switches its tag.  If it was *)
(* overtaken, the other is about to switch it, or drift says so.           *)
LEMMA ApplyKeepsTagInv ==
  ASSUME TypeOK, TagInv, NEW r \in Page,
         \/ transportsApply(r) \/ Applying(r) \/ ApplyFails(r)
         \/ \E k \in Toggle :
              \/ SetSettingFails(r, k) \/ ApplyTimesOut(r, k)
              \/ \E u \in User : BackfillFails(r, u, k)
  PROVE  TagInv'
<1> USE DEF marks
<1>a. apply[r] \in Apply /\ apply[r].want \in [Toggle -> BOOLEAN]
  BY DEF TypeOK, Apply
<1>1. CASE transportsApply(r)
  <2>1. /\ apply[r].at = "idle" /\ UNCHANGED <<setting, active, phase, boot>>
        /\ \A q \in Page \ {r} : apply'[q] = apply[q]
    BY <1>1 DEF transportsApply, TypeOK
  <2>2. drift' <=> (drift \/ phase # "run")
    BY <1>1 DEF transportsApply, Starting
  <2>3. \A t : WillFollow(t) => WillFollow(t)'
    BY <2>1 DEF WillFollow, Switching
  <2> QED BY <2>1, <2>2, <2>3 DEF TagInv, Starting, Follows, Wanted
<1>2. CASE ListEnabled(r) \/ ApplyFails(r)
  <2>1. /\ apply[r].at = "list" /\ \A q \in Page \ {r} : apply'[q] = apply[q]
        /\ UNCHANGED <<setting, active, phase, boot, drift>>
    BY <1>2 DEF ListEnabled, ApplyFails, TypeOK
  <2> QED BY <2>1, MovesOn
<1>3. ASSUME NEW k \in Toggle, SetSetting(r, k)
      PROVE  TagInv'
  <2>1. /\ apply[r].at = "flip" /\ UNCHANGED <<active, phase, boot, drift>>
        /\ setting' = [setting EXCEPT ![k] = Stored(apply[r].want[k])]
        /\ \A q \in Page \ {r} : apply'[q] = apply[q]
    BY <1>3 DEF SetSetting, Clashed, TypeOK
  <2>2. apply'[r].at = "tag" /\ apply'[r].key = {k} /\ apply'[r].want = apply[r].want
    BY <1>3, <1>a DEF SetSetting, Apply, TypeOK
  <2>3. WillFollow(k)'
    BY <2>1, <2>2 DEF WillFollow, Switching, TypeOK
  <2>4. ASSUME NEW t \in Tag, t # k, Follows(t) \/ WillFollow(t)
        PROVE  Follows(t)' \/ WillFollow(t)'
    <3>1. t \in Toggle => setting'[t] = setting[t]
      BY <2>1, <2>4 DEF TypeOK
    <3>2. CASE Follows(t)
      BY <2>1, <3>1, <3>2 DEF Follows, Wanted
    <3>3. CASE WillFollow(t)
      BY <2>1, <3>1, <3>3 DEF WillFollow, Switching
    <3> QED BY <2>4, <3>2, <3>3
  <2> QED BY <2>1, <2>3, <2>4 DEF TagInv, Starting, Applied, TypeOK
<1>4. ASSUME NEW k \in Toggle, SetSettingFails(r, k)
      PROVE  TagInv'
  <2>1. /\ apply[r].at = "flip" /\ UNCHANGED <<active, phase, boot>>
        /\ \A q \in Page \ {r} : apply'[q] = apply[q]
    BY <1>4 DEF SetSettingFails, TypeOK
  <2>2. CASE UNCHANGED <<setting, drift>>
    BY <2>1, <2>2, MovesOn
  <2>3. CASE drift' = TRUE
    BY <2>3 DEF TagInv
  <2> QED BY <1>4, <2>2, <2>3 DEF SetSettingFails
<1>5. ASSUME NEW k \in Toggle, SwitchTag(r, k)
      PROVE  TagInv'
  <2>1. /\ Switching(r, k) /\ UNCHANGED <<setting, phase, boot>>
        /\ drift' <=> (drift \/ Overtaken(r, k))
        /\ \A q \in Page \ {r} : apply'[q] = apply[q]
        /\ active' = IF apply[r].want[k] THEN active \cup {k} ELSE active \ {k}
    BY <1>5 DEF SwitchTag, TypeOK
  <2>2. SUFFICES ASSUME ~drift' PROVE TagInv'
    BY DEF TagInv
  <2>3. phase = "run"
    BY <2>1, <2>2 DEF TagInv, Starting, Applied, Switching, TypeOK
  <2>4. Follows(k)' \/ WillFollow(k)'
    <3>1. CASE setting[k] = Stored(apply[r].want[k])
      BY <1>a, <2>1, <3>1 DEF Follows, Wanted, Stored
    <3>2. CASE setting[k] # Stored(apply[r].want[k])
      <4>1. PICK q \in Page \ {r} : Switching(q, k) /\ setting[k] = Stored(apply[q].want[k])
        BY <2>1, <2>2, <3>2 DEF Overtaken
      <4>2. WillFollow(k)'
        BY <2>1, <4>1 DEF WillFollow, Switching
      <4> QED BY <4>2
    <3> QED BY <3>1, <3>2
  <2>5. ASSUME NEW t \in Tag, t # k
        PROVE  Follows(t)' \/ WillFollow(t)'
    <3>1. Follows(t) \/ WillFollow(t)
      BY <2>1, <2>2, <2>3 DEF TagInv
    <3>2. CASE Follows(t)
      BY <2>1, <2>5, <3>2 DEF Follows, Wanted
    <3>3. CASE WillFollow(t)
      BY <2>1, <2>5, <3>3 DEF WillFollow, Switching
    <3> QED BY <3>1, <3>2, <3>3
  <2> QED BY <2>1, <2>3, <2>4, <2>5 DEF TagInv, Starting
<1>6. ASSUME NEW k \in Toggle, NEW u \in User, Backfill(r, u, k) \/ BackfillFails(r, u, k)
      PROVE  TagInv'
  <2>1. /\ apply[r].at = "bulk" /\ \A q \in Page \ {r} : apply'[q] = apply[q]
        /\ UNCHANGED <<setting, active, phase, boot, drift>>
    BY <1>6 DEF Backfill, BackfillFails, Filling, TypeOK
  <2> QED BY <2>1, MovesOn
<1>7. CASE NextKey(r)
  <2>1. /\ apply[r].at \in {"bulk", "flip"} /\ \A q \in Page \ {r} : apply'[q] = apply[q]
        /\ UNCHANGED <<setting, active, phase, boot, drift>>
    BY <1>7 DEF NextKey, TypeOK
  <2> QED BY <2>1, MovesOn
<1>8. ASSUME NEW k \in Toggle, ApplyTimesOut(r, k)
      PROVE  TagInv'
  <2>1. /\ apply[r].at = "bulk" /\ \A q \in Page \ {r} : apply'[q] = apply[q]
        /\ UNCHANGED <<setting, active, phase, boot, drift>>
    BY <1>8 DEF ApplyTimesOut, Filling, TypeOK
  <2> QED BY <2>1, MovesOn
<1> QED BY <1>1, <1>2, <1>3, <1>4, <1>5, <1>6, <1>7, <1>8 DEF Applying

LEMMA TagInvStep == TypeOK /\ TagInv /\ [Next]_vars => TagInv'
<1> SUFFICES ASSUME TypeOK, TagInv, [Next]_vars PROVE TagInv'
  OBVIOUS
<1>1. CASE UNCHANGED vars
  BY <1>1, TagInvUnchanged DEF vars, tagVars, marks
<1>2. CASE Next
  BY <1>2, OthersLeaveTags, TagInvUnchanged, StartKeepsTagInv, ApplyKeepsTagInv DEF Next, Failures
<1> QED BY <1>1, <1>2

LEMMA TagInvSuffices == TypeOK /\ TagInv => TagsFollowSettings
<1> SUFFICES ASSUME TypeOK, TagInv, phase = "run", ~drift
             PROVE  /\ active \ Toggle = Static \ Toggle
                    /\ \A k \in Toggle :
                         \/ \E r \in Page : Switching(r, k)
                         \/ k \in active <=> currentTransports(setting)[k]
  BY DEF TagsFollowSettings
<1>1. \A t \in Tag : (t \in active <=> Wanted(t)) \/ WillFollow(t)
  BY DEF TagInv, Follows
<1>2. active \ Toggle = Static \ Toggle
  BY <1>1, TagAssumption DEF Wanted, WillFollow, TypeOK
<1>3. \A k \in Toggle : currentTransports(setting)[k] <=> Wanted(k)
  BY DEF currentTransports, Wanted
<1>4. \A k \in Toggle : (\E r \in Page : Switching(r, k))
                         \/ (k \in active <=> currentTransports(setting)[k])
  BY <1>1, <1>3, TagAssumption DEF WillFollow
<1> QED BY <1>2, <1>4

(* For any set of transports, whatever fails or restarts and however many  *)
(* Transports requests are under way at once: after a start users are      *)
(* registered on the fixed tags and the transports the settings enable,    *)
(* and on no other.  Only a transport a request has stored and has yet to  *)
(* switch may differ, and after an event that drift names, any.            *)
THEOREM TagsFollow == Spec => []TagsFollowSettings
<1>1. Init => TypeOK /\ TagInv
  BY InitType, TagInvInit
<1>2. Spec => []TypeOK
  BY TypeCorrectness
<1>3. TypeOK /\ TagInv => TagsFollowSettings
  BY TagInvSuffices
<1> QED BY <1>1, <1>2, <1>3, TagInvStep, PTL DEF Spec
===========================================================================
