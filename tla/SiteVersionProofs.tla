------------------------- MODULE SiteVersionProofs --------------------------
(***************************************************************************)
(* What optimistic concurrency gives the two controllers, for any number   *)
(* of sites: copies of an EdgeSite are never mistaken for the object       *)
(* (CopiesAgree), hence no write-back of a cached copy clears or changes   *)
(* an N2 VIP (VipStable) or reverts an intent (IntentKept), every          *)
(* collision of two VIPs goes back to a List that could not show it        *)
(* (CollisionExplained), and the controllers implement module SiteLife     *)
(* (LifeImplemented).                                                      *)
(***************************************************************************)
EXTENDS SiteIntentProofs

\* n is what the API server may hold after o: the same version or the next one.
NextVersion(o, n) == n = o \/ n.rv = o.rv + 1

\* Nor does the step from o to n hand out a VIP, change one or take one away.
PlainWrite(o, n) ==
    /\ NextVersion(o, n)
    /\ n.live => n.vip = (IF o.live THEN o.vip ELSE Unset)

\* A step that writes at most one EdgeSite, and no VIP.
PlainStep ==
    \/ UNCHANGED siteVars
    \/ \E s \in Sites, es \in SiteObject : PutSite(s, es) /\ PlainWrite(site[s], es)

\* A copy stays a copy when its object gets a new version.
LEMMA VersionKept ==
    ASSUME NEW c \in SiteObject, NEW o \in SiteObject, NEW n \in SiteObject,
           IsVersionOf(c, o), NextVersion(o, n)
    PROVE  IsVersionOf(c, n)
  <1>1. c.rv \in Nat /\ o.rv \in Nat /\ n.rv \in Nat
    BY DEF SiteObject
  <1> QED
    BY <1>1 DEF IsVersionOf, NextVersion

\* A write of s makes its next version, and touches no other site.
LEMMA PutVersions ==
    ASSUME TypeOK, NEW s \in Sites, NEW es \in SiteObject,
           NextVersion(site[s], es), PutSite(s, es)
    PROVE  /\ \A t \in Sites : site'[t] \in SiteObject /\ NextVersion(site[t], site'[t])
           /\ site'[s] = es
           /\ \A t \in Sites \ {s} : site'[t] = site[t]
  <1>1. site \in [Sites -> SiteObject]
    BY DEF TypeOK
  <1>2. site' = [site EXCEPT ![s] = es]
    BY DEF PutSite
  <1> QED
    BY <1>1, <1>2 DEF NextVersion

\* Every step but SiteEvent and Restart, as far as the copies are concerned: the
\* cache is left alone and the watch only gets what was written.
SiteCopies ==
    /\ \A s \in Sites : IsVersionOf(siteCache[s], site[s])
    /\ \A i \in 1..Len(watch) : IsVersionOf(watch[i].es, site[watch[i].s])

\* The cache and the watch keep holding versions of the objects.
LEMMA PutCopies ==
    ASSUME TypeOK, SiteCopies, UNCHANGED siteCache,
           NEW s \in Sites, NEW es \in SiteObject,
           NextVersion(site[s], es), PutSite(s, es)
    PROVE  SiteCopies'
  <1>1. /\ \A t \in Sites : site'[t] \in SiteObject /\ NextVersion(site[t], site'[t])
        /\ site'[s] = es
    BY PutVersions
  <1>2. /\ \A t \in Sites : site[t] \in SiteObject /\ siteCache[t] \in SiteObject
        /\ watch \in Seq(SiteChange)
    BY DEF TypeOK
  <1>3. \A t \in Sites : IsVersionOf(siteCache[t], site'[t])
    BY <1>1, <1>2, VersionKept DEF SiteCopies
  <1>4. ASSUME NEW i \in 1..Len(watch)
        PROVE  watch[i].s \in Sites /\ IsVersionOf(watch[i].es, site'[watch[i].s])
    <2>1. watch[i] \in SiteChange
      BY <1>2
    <2>2. watch[i].s \in Sites /\ watch[i].es \in SiteObject
      BY <2>1 DEF SiteChange
    <2> QED
      BY <1>1, <1>2, <2>2, VersionKept DEF SiteCopies
  <1>5. IsVersionOf(es, site'[s])
    <2>1. es.rv \in Nat
      BY DEF SiteObject
    <2> QED
      BY <1>1, <2>1 DEF IsVersionOf
  <1>6. \A i \in 1..Len(watch') : IsVersionOf(watch'[i].es, site'[watch'[i].s])
    <2>1. CASE watch' = watch
      BY <1>4, <2>1
    <2>2. CASE watch' = Append(watch, [s |-> s, es |-> es])
      <3> SUFFICES ASSUME NEW i \in 1..Len(watch')
                   PROVE  IsVersionOf(watch'[i].es, site'[watch'[i].s])
        OBVIOUS
      <3>0. [s |-> s, es |-> es] \in SiteChange
        BY DEF SiteChange
      <3>1. /\ Len(watch') = Len(watch) + 1 /\ Len(watch) \in Nat
            /\ i = Len(watch) + 1 => watch'[i] = [s |-> s, es |-> es]
            /\ i \in 1..Len(watch) => watch'[i] = watch[i]
        BY <1>2, <2>2, <3>0
      <3>2. CASE i = Len(watch) + 1
        BY <1>5, <3>1, <3>2
      <3>3. CASE i \in 1..Len(watch)
        BY <1>4, <3>1, <3>3
      <3> QED
        BY <3>1, <3>2, <3>3
    <2> QED
      BY <2>1, <2>2 DEF PutSite
  <1> QED
    BY <1>3, <1>6 DEF SiteCopies

\* A version of the object that is still current is the object.
LEMMA CurrentIsSame ==
    ASSUME NEW s \in Sites, NEW c, IsVersionOf(c, site[s]), Current(s, c)
    PROVE  c = site[s] /\ site[s].live
  BY DEF IsVersionOf, Current

\* What a client that holds the current version may write back.
LEMMA StoredPlain ==
    ASSUME TypeOK, NEW s \in Sites, NEW es \in SiteObject,
           site[s].live, es.live = site[s].live, es.vip = site[s].vip
    PROVE  Stored(s, es) \in SiteObject /\ PlainWrite(site[s], Stored(s, es))
  <1>1. Stored(s, es) \in SiteObject
    BY StoredType
  <1>2. CASE es = site[s]
    BY <1>1, <1>2 DEF Stored, PlainWrite, NextVersion
  <1>3. CASE es # site[s]
    <2>1. Stored(s, es) = [es EXCEPT !.rv = site[s].rv + 1]
      BY <1>3 DEF Stored
    <2>2. /\ Stored(s, es).rv = site[s].rv + 1
          /\ Stored(s, es).vip = es.vip
      BY <2>1 DEF SiteObject
    <2> QED
      BY <1>1, <2>2 DEF PlainWrite, NextVersion
  <1> QED
    BY <1>2, <1>3

\* A status write touches neither liveness nor VIP.
LEMMA StatusPlain ==
    ASSUME TypeOK, NEW s \in Sites, NEW phase \in Phases, site[s].live,
           PutSite(s, Stored(s, [site[s] EXCEPT !.phase = phase]))
    PROVE  PlainStep
  <1> DEFINE es == [site[s] EXCEPT !.phase = phase]
  <1>1. es \in SiteObject /\ es.live = site[s].live /\ es.vip = site[s].vip
    BY SiteFields DEF SiteObject
  <1> QED
    BY <1>1, StoredPlain DEF PlainStep

\* The step that gives the site in progress its VIP.
Allocation ==
    /\ ew.s \in Sites
    /\ site[ew.s].live /\ site[ew.s].vip = Unset
    /\ \E es \in SiteObject :
          /\ PutSite(ew.s, es)
          /\ NextVersion(site[ew.s], es)
          /\ es.vip \in Pool => es.vip = Probe(ew.s, ew.taken)
    /\ missed' = [missed EXCEPT ![ew.s] =
                     {t \in Holders(ew.s) : site[t].vip \notin ew.taken}]
    /\ full' = [full EXCEPT ![ew.s] = Pool \subseteq ew.taken]

\* What deriveAddressing makes of the copy a reconcile holds.
LEMMA DerivedFacts ==
    ASSUME TypeOK, ew.pc = "update"
    PROVE  /\ Derived.live = ew.es.live
           /\ Derived.role = ew.es.role
           /\ Derived.labelled = ew.es.labelled
           /\ Derived.owned = ew.es.owned
           /\ ew.es.vip # Unset => Derived.vip = ew.es.vip
           /\ ew.es.vip = Unset /\ Derived.vip \in Pool
                => Derived.vip = Probe(ew.s, ew.taken)
  <1>1. ew.es \in SiteObject
    BY DEF TypeOK, EwState
  <1>2. Unset \notin Pool /\ MgmtVIP \notin Pool
    BY PoolAssumption DEF Unset, MgmtVIP, Pool
  <1> QED
    BY <1>1, <1>2 DEF Derived, deriveAddressing, allocateRanVIP, SiteObject

\* The EdgeSite controller writes no VIP but the one it allocates.
LEMMA EsWrites ==
    ASSUME TypeOK, CopiesAgree, EsNext
    PROVE  (PlainStep /\ UNCHANGED ghostVars) \/ Allocation
  <1> USE DEF apiVars, siteVars, ghostVars
  <1>1. ew.pc # "idle" => ew.s \in Sites
    BY DEF TypeOK
  <1>2. ASSUME NEW s \in Sites, EsGet(s) \/ EsGetListFault(s)
        PROVE  PlainStep /\ UNCHANGED ghostVars
    BY <1>2 DEF EsGet, EsGetListFault, StartReconcile, PlainStep
  <1>3. CASE EsDeriveConflict
    BY <1>3 DEF EsDeriveConflict, PlainStep
  <1>4. ASSUME WriteFailedStatus, ew.s \in Sites PROVE PlainStep
    <2>1. CASE Current(ew.s, ew.es)
      BY <1>4, <2>1, StatusPlain DEF WriteFailedStatus, Current, Phases
    <2>2. CASE ~Current(ew.s, ew.es)
      BY <1>4, <2>2 DEF WriteFailedStatus, PlainStep
    <2> QED
      BY <2>1, <2>2
  <1>5. CASE EsDeriveFault
    BY <1>1, <1>4, <1>5 DEF EsDeriveFault
  <1>6. CASE EsStepFault
    BY <1>1, <1>4, <1>6 DEF EsStepFault
  <1>7. CASE EsFinish
    <2>1. CASE Current(ew.s, ew.es)
      BY <1>1, <1>7, <2>1, StatusPlain DEF EsFinish, Current, Phases
    <2>2. CASE ~Current(ew.s, ew.es)
      BY <1>7, <2>2 DEF EsFinish, PlainStep
    <2> QED
      BY <1>7, <2>1, <2>2 DEF EsFinish
  <1>8. CASE EsDerive
    <2>1. CASE Derived = ew.es
      BY <1>8, <2>1 DEF EsDerive, PlainStep
    <2>2. CASE Derived # ew.es
      <3>1. /\ ew.pc = "update" /\ ew.s \in Sites
            /\ Current(ew.s, ew.es)
            /\ PutSite(ew.s, Stored(ew.s, Derived))
        BY <1>1, <1>8, <2>2 DEF EsDerive
      <3>2. ew.es = site[ew.s] /\ site[ew.s].live
        BY <3>1, CurrentIsSame DEF CopiesAgree
      <3>3. Derived \in SiteObject
        BY <3>1, DerivedType
      <3>4. CASE ew.es.vip # Unset
        <4>1. PlainStep
          BY <3>1, <3>2, <3>3, <3>4, DerivedFacts, StoredPlain DEF PlainStep
        <4> QED
          BY <1>8, <2>2, <3>4, <4>1 DEF EsDerive
      <3>5. CASE ew.es.vip = Unset
        <4>1. Stored(ew.s, Derived) = [Derived EXCEPT !.rv = site[ew.s].rv + 1]
          BY <2>2, <3>2 DEF Stored
        <4>2. /\ Stored(ew.s, Derived) \in SiteObject
              /\ Stored(ew.s, Derived).rv = site[ew.s].rv + 1
              /\ Stored(ew.s, Derived).vip = Derived.vip
          BY <3>1, <3>3, <4>1, StoredType DEF SiteObject
        <4>3. /\ missed' = [missed EXCEPT ![ew.s] =
                               {t \in Holders(ew.s) : site[t].vip \notin ew.taken}]
              /\ full' = [full EXCEPT ![ew.s] = Pool \subseteq ew.taken]
          BY <1>8, <2>2, <3>5 DEF EsDerive
        <4>4. NextVersion(site[ew.s], Stored(ew.s, Derived))
          BY <4>2 DEF NextVersion
        <4>5. Stored(ew.s, Derived).vip \in Pool
                => Stored(ew.s, Derived).vip = Probe(ew.s, ew.taken)
          BY <3>1, <3>5, <4>2, DerivedFacts
        <4> QED
          BY <3>1, <3>2, <3>5, <4>2, <4>3, <4>4, <4>5 DEF Allocation
      <3> QED
        BY <3>4, <3>5
    <2> QED
      BY <2>1, <2>2
  <1> QED
    BY <1>2, <1>3, <1>5, <1>6, <1>7, <1>8 DEF EsNext, EsStep, EsFaultStep

\* A deletion makes a version too.
LEMMA DeletePlain ==
    ASSUME TypeOK, NEW s \in Sites, DeleteSite(s)
    PROVE  PlainStep
  <1>1. site[s].rv + 1 \in Nat
    BY SiteFields
  <1>2. NoSite(site[s].rv + 1) \in SiteObject
    BY <1>1, NoSiteType
  <1>3. PlainWrite(site[s], NoSite(site[s].rv + 1))
    BY DEF PlainWrite, NextVersion, NoSite
  <1> QED
    BY <1>2, <1>3 DEF DeleteSite, PlainStep

\* The EdgeSite that the Fleet creates has no VIP.
LEMMA NewSiteFacts ==
    ASSUME NEW role \in Roles \cup {NoRole}
    PROVE  NewSite(role) \in SiteObject /\ NewSite(role).vip = Unset
  <1>1. NoSite(0) \in SiteObject
    BY NoSiteType
  <1>2. NewSite(role) \in SiteObject
    BY <1>1 DEF NewSite, SiteObject
  <1>3. NewSite(role).vip = Unset
    BY DEF NewSite, NoSite
  <1> QED
    BY <1>2, <1>3

\* The Fleet controller never writes a VIP: a create has none, an update writes
\* back the VIP of the version it read.
LEMMA FleetWrites ==
    ASSUME TypeOK, CopiesAgree, FleetNext
    PROVE  (PlainStep /\ UNCHANGED ghostVars) \/ \E s \in Sites : DeleteSite(s)
  <1> USE DEF apiVars, siteVars, ghostVars
  <1>1. CASE FleetGet \/ FleetGetSite \/ FleetWriteFault \/ FleetList \/ FleetStatus
             \/ FleetListFault \/ (\E s \in Sites : FleetDeleteFault(s))
    BY <1>1 DEF FleetGet, FleetGetSite, FleetWriteFault, FleetList, FleetStatus,
                FleetListFault, FleetDeleteFault, PlainStep
  <1>2. ASSUME NEW s \in Sites, FleetDelete(s)
        PROVE  (PlainStep /\ UNCHANGED ghostVars) \/ DeleteSite(s)
    BY <1>2 DEF FleetDelete, PlainStep
  <1>3. CASE FleetWriteSite
    <2> DEFINE s == fw.s
               role == fw.fleet.sites[s]
               created == [NewSite(role) EXCEPT !.rv = site[s].rv + 1]
    <2>1. s \in Sites /\ fw.es \in SiteObject /\ IsVersionOf(fw.es, site[s])
      BY <1>3 DEF FleetWriteSite, CopiesAgree, TypeOK, FwState
    <2>2. role \in Roles \cup {NoRole}
      BY <2>1 DEF TypeOK, FwState, FleetObject
    <2> HIDE DEF role
    <2>3. UNCHANGED ghostVars
      BY <1>3 DEF FleetWriteSite
    <2>4. CASE ~site[s].live /\ CreateSite(s, NewSite(role))
      <3>0. /\ NewSite(role) \in SiteObject /\ NewSite(role).vip = Unset
            /\ site[s].rv + 1 \in Nat
        BY <2>1, <2>2, NewSiteFacts, SiteFields
      <3>1. created \in SiteObject /\ created.rv = site[s].rv + 1 /\ created.vip = Unset
        BY <3>0 DEF SiteObject
      <3>2. PlainWrite(site[s], created)
        BY <2>4, <3>1 DEF PlainWrite, NextVersion
      <3> QED
        BY <2>1, <2>3, <2>4, <3>1, <3>2 DEF PlainStep, CreateSite
    <2>5. CASE Current(s, fw.es) /\ PutSite(s, Stored(s, Reasserted(fw.es, role)))
      <3>1. fw.es = site[s] /\ site[s].live
        BY <2>1, <2>5, CurrentIsSame
      <3>2. /\ Reasserted(fw.es, role) \in SiteObject
            /\ Reasserted(fw.es, role).live = fw.es.live
            /\ Reasserted(fw.es, role).vip = fw.es.vip
        BY <2>1, <2>2 DEF Reasserted, SiteObject
      <3> QED
        BY <2>1, <2>3, <2>5, <3>1, <3>2, StoredPlain DEF PlainStep
    <2>6. CASE UNCHANGED siteVars
      BY <2>3, <2>6 DEF PlainStep
    <2> QED
      BY <1>3, <2>4, <2>5, <2>6 DEF FleetWriteSite, role
  <1> QED
    BY <1>1, <1>2, <1>3 DEF FleetNext, FleetStep, FleetFaultStep

\* A user pins a VIP only when creating a site.
LEMMA UserWrites ==
    ASSUME TypeOK, UserNext
    PROVE  \/ PlainStep /\ UNCHANGED ghostVars
           \/ \E s \in Sites : DeleteSite(s)
           \/ \E s \in HandMade, role \in Roles, c \in BOOLEAN, v \in Pins \cup {Unset} :
                 UserCreateSite(s, role, c, v)
  <1> USE DEF apiVars, siteVars, ghostVars
  <1>1. CASE UserDeleteFleet
             \/ \E s \in Declarable, role \in Roles \cup {NoRole} : UserDeclare(s, role)
    BY <1>1 DEF UserDeleteFleet, UserDeclare, PlainStep
  <1>2. ASSUME NEW s \in Sites, NEW role \in Roles, UserEditSite(s, role)
        PROVE  PlainStep /\ UNCHANGED ghostVars
    <2> DEFINE es == [site[s] EXCEPT !.role = role]
    <2>1. es \in SiteObject /\ es.live = site[s].live /\ es.vip = site[s].vip
      BY SiteFields DEF SiteObject
    <2> QED
      BY <1>2, <2>1, StoredPlain DEF UserEditSite, PlainStep
  <1>3. ASSUME NEW s \in Sites, UserDeleteSite(s) PROVE DeleteSite(s)
    BY <1>3 DEF UserDeleteSite
  <1> QED
    BY <1>1, <1>2, <1>3 DEF UserNext

\* A step that writes at most one EdgeSite, as a new version of it.
VersionStep ==
    \/ UNCHANGED siteVars
    \/ \E s \in Sites, es \in SiteObject : PutSite(s, es) /\ NextVersion(site[s], es)

\* Copies outlive such a step.
LEMMA VersionStepCopies ==
    ASSUME TypeOK, CopiesAgree, UNCHANGED siteCache, VersionStep
    PROVE  /\ SiteCopies'
           /\ \A t \in Sites, c \in SiteObject :
                 IsVersionOf(c, site[t]) => IsVersionOf(c, site'[t])
  <1>1. SiteCopies
    BY DEF SiteCopies, CopiesAgree
  <1>2. CASE UNCHANGED siteVars
    BY <1>1, <1>2 DEF SiteCopies, siteVars
  <1>3. ASSUME NEW s \in Sites, NEW es \in SiteObject, PutSite(s, es),
               NextVersion(site[s], es)
        PROVE  /\ SiteCopies'
               /\ \A t \in Sites, c \in SiteObject :
                     IsVersionOf(c, site[t]) => IsVersionOf(c, site'[t])
    <2>1. SiteCopies'
      BY <1>1, <1>3, PutCopies
    <2>2. \A t \in Sites : /\ site[t] \in SiteObject /\ site'[t] \in SiteObject
                           /\ NextVersion(site[t], site'[t])
      BY <1>3, PutVersions DEF TypeOK
    <2> QED
      BY <2>1, <2>2, VersionKept
  <1> QED
    BY <1>2, <1>3 DEF VersionStep

\* The EdgeSite controller's steps, the Fleet controller's, the collector's and
\* the user's all are such steps.
LEMMA WritesAreVersions ==
    ASSUME TypeOK, CopiesAgree,
           EsNext \/ FleetNext \/ UserNext \/ \E s \in Sites : FleetGC(s)
    PROVE  VersionStep
  <1>1. ASSUME PlainStep PROVE VersionStep
    BY <1>1 DEF PlainStep, PlainWrite, VersionStep
  <1>2. ASSUME NEW s \in Sites, DeleteSite(s) PROVE VersionStep
    BY <1>1, <1>2, DeletePlain
  <1>3. ASSUME Allocation PROVE VersionStep
    BY <1>3 DEF Allocation, VersionStep
  <1>4. ASSUME NEW s \in HandMade, NEW role \in Roles, NEW c \in BOOLEAN,
               NEW v \in Pins \cup {Unset}, UserCreateSite(s, role, c, v)
        PROVE  VersionStep
    <2> DEFINE new == [NoSite(0) EXCEPT !.live = TRUE, !.role = role,
                                        !.colocated = c, !.vip = v]
               es == [new EXCEPT !.rv = site[s].rv + 1]
    <2>1. s \in Sites /\ NoSite(0) \in SiteObject /\ v \in Octets
      BY SitesAssumption, NoSiteType DEF Octets
    <2>2. new \in SiteObject
      BY <2>1 DEF SiteObject
    <2>3. site[s].rv + 1 \in Nat
      BY <2>1, SiteFields
    <2>4. PutSite(s, es)
      BY <1>4 DEF UserCreateSite, CreateSite
    <2> HIDE DEF new
    <2>5. es \in SiteObject /\ es.rv = site[s].rv + 1
      BY <2>2, <2>3 DEF SiteObject
    <2> HIDE DEF es
    <2> QED
      BY <2>1, <2>4, <2>5 DEF VersionStep, NextVersion
  <1>5. CASE EsNext
    BY <1>1, <1>3, <1>5, EsWrites
  <1>6. CASE FleetNext
    BY <1>1, <1>2, <1>6, FleetWrites
  <1>7. CASE UserNext
    BY <1>1, <1>2, <1>4, <1>7, UserWrites
  <1>8. CASE \E s \in Sites : FleetGC(s)
    BY <1>2, <1>8 DEF FleetGC
  <1> QED
    BY <1>5, <1>6, <1>7, <1>8

\* What a reconcile of either controller holds.
EwCopy == ew.pc # "idle" => IsVersionOf(ew.es, site[ew.s])
FwCopy == fw.pc = "write" => IsVersionOf(fw.es, site[fw.s])

\* A step of versions that leaves both workers alone keeps their copies versions.
LEMMA WorkerCopiesKept ==
    ASSUME TypeOK, CopiesAgree, UNCHANGED siteCache, VersionStep
    PROVE  /\ UNCHANGED ew => EwCopy'
           /\ UNCHANGED fw => FwCopy'
  <1>1. /\ ew.pc # "idle" => ew.s \in Sites /\ ew.es \in SiteObject
        /\ fw.pc = "write" => fw.s \in Sites /\ fw.es \in SiteObject
    BY DEF TypeOK, EwState, FwState
  <1>2. \A t \in Sites, c \in SiteObject :
            IsVersionOf(c, site[t]) => IsVersionOf(c, site'[t])
    BY VersionStepCopies
  <1> QED
    BY <1>1, <1>2 DEF CopiesAgree, EwCopy, FwCopy

\* The EdgeSite controller only ever holds versions of the object it reconciles.
LEMMA EsCopies ==
    ASSUME TypeOK, CopiesAgree, EsNext
    PROVE  CopiesAgree'
  <1> USE DEF apiVars, siteVars, cacheVars, ghostVars
  <1>1. UNCHANGED <<siteCache, fw>>
    BY DEF EsNext, EsStep, EsFaultStep, EsGet, EsGetListFault, StartReconcile, EsDerive,
           EsDeriveConflict, EsDeriveFault, EsFinish, EsStepFault
  <1>2. VersionStep
    BY WritesAreVersions
  <1>3. SiteCopies' /\ FwCopy' /\ (UNCHANGED ew => EwCopy')
    BY <1>1, <1>2, VersionStepCopies, WorkerCopiesKept
  <1>4. EwCopy'
    <2>1. ASSUME NEW s \in Sites, NEW taken, StartReconcile(s, taken) PROVE EwCopy'
      BY <1>3, <2>1 DEF StartReconcile, EwCopy, CopiesAgree
    <2>2. CASE ew' = IdleEw
      BY <2>2 DEF EwCopy, IdleEw
    <2>3. CASE EsDerive
      <3>1. /\ ew.pc # "idle" /\ ew.s \in Sites /\ ew.es \in SiteObject
            /\ ew \in EwState /\ IsVersionOf(ew.es, site[ew.s])
        BY <2>3 DEF EsDerive, TypeOK, EwState, CopiesAgree
      <3>2. CASE ew' = [ew EXCEPT !.pc = "finish"]
        <4>1. ew'.s = ew.s /\ ew'.es = ew.es
          BY <3>1, <3>2 DEF EwState
        <4>2. IsVersionOf(ew.es, site'[ew.s])
          BY <1>1, <1>2, <3>1, VersionStepCopies
        <4> QED
          BY <4>1, <4>2 DEF EwCopy
      <3>3. CASE /\ PutSite(ew.s, Stored(ew.s, Derived))
                 /\ ew' = [ew EXCEPT !.pc = "finish", !.es = Stored(ew.s, Derived)]
        <4> DEFINE es == Stored(ew.s, Derived)
        <4>1. es \in SiteObject
          BY <2>3, <3>1, DerivedType, StoredType DEF EsDerive
        <4>2. site'[ew.s] = es
          BY <3>1, <3>3 DEF PutSite, TypeOK
        <4> HIDE DEF es
        <4>3. ew'.s = ew.s /\ ew'.es = es
          BY <3>1, <3>3 DEF EwState, es
        <4>4. IsVersionOf(es, es)
          BY <4>1 DEF IsVersionOf, SiteObject
        <4> QED
          BY <4>2, <4>3, <4>4 DEF EwCopy
      <3> QED
        BY <2>3, <3>2, <3>3 DEF EsDerive
    <2> QED
      BY <2>1, <2>2, <2>3
         DEF EsNext, EsStep, EsFaultStep, EsGet, EsGetListFault,
             EsDeriveConflict, EsDeriveFault, EsFinish, EsStepFault, EsRequeue
  <1> QED
    BY <1>3, <1>4 DEF SiteCopies, EwCopy, FwCopy, CopiesAgree

\* So does the Fleet controller, from its Get to its write.
LEMMA FleetCopies ==
    ASSUME TypeOK, CopiesAgree, FleetNext
    PROVE  CopiesAgree'
  <1> USE DEF apiVars, siteVars, cacheVars, ghostVars
  <1>1. UNCHANGED <<siteCache, ew>>
    BY DEF FleetNext, FleetStep, FleetFaultStep, FleetGet, FleetGetSite, FleetWriteSite,
           FleetWriteFault, FleetList, FleetListFault, FleetDelete, FleetDeleteFault,
           FleetStatus
  <1>2. VersionStep
    BY WritesAreVersions
  <1>3. SiteCopies' /\ EwCopy' /\ (UNCHANGED fw => FwCopy')
    BY <1>1, <1>2, VersionStepCopies, WorkerCopiesKept
  <1>4. FwCopy'
    <2>1. CASE FleetGetSite
      <3>1. fw' = [fw EXCEPT !.pc = "write", !.s = First(fw.todo),
                             !.es = siteCache[First(fw.todo)]]
            /\ site' = site /\ fw.todo # {} /\ fw.todo \subseteq Sites /\ fw \in FwState
        BY <2>1 DEF FleetGetSite, TypeOK, FwState
      <3>2. First(fw.todo) \in Sites
        <4>1. \E k \in fw.todo : \A j \in fw.todo : k <= j
          BY <3>1, SitesAssumption, LeastNatural
        <4>2. First(fw.todo) \in fw.todo
          BY <4>1 DEF First
        <4> QED
          BY <3>1, <4>2
      <3>3. fw'.s = First(fw.todo) /\ fw'.es = siteCache[First(fw.todo)]
        BY <3>1 DEF FwState
      <3> QED
        BY <3>1, <3>2, <3>3 DEF FwCopy, CopiesAgree
    <2>2. CASE fw'.pc # "write"
      BY <2>2 DEF FwCopy
    <2>3. fw \in FwState
      BY DEF TypeOK
    <2>4. CASE FleetGet
      <3>1. IdleFw \in FwState
        BY IdleType
      <3>2. fw' = fw \/ fw'.pc = "apply"
        BY <2>4, <3>1 DEF FleetGet, FwState
      <3> QED
        BY <1>3, <2>2, <3>2
    <2>5. CASE FleetWriteSite \/ FleetWriteFault
      BY <2>2, <2>3, <2>5 DEF FleetWriteSite, FleetWriteFault, FleetApplied, FwState
    <2>6. CASE FleetList
      <3> DEFINE V == {s \in Sites : /\ siteCache[s].live
                                     /\ siteCache[s].labelled
                                     /\ fw.fleet.sites[s] = NoRole}
      <3>1. fw' = [fw EXCEPT !.pc = "delete", !.todo = V]
        BY <2>6 DEF FleetList
      <3> HIDE DEF V
      <3> QED
        BY <2>2, <2>3, <3>1 DEF FwState
    <2>7. CASE \E s \in Sites : FleetDelete(s) \/ FleetDeleteFault(s)
      BY <2>2, <2>3, <2>7 DEF FleetDelete, FleetDeleteFault, FwState
    <2>8. CASE FleetStatus \/ FleetListFault
      <3>1. fw' = IdleFw
        BY <2>8 DEF FleetStatus, FleetListFault
      <3> QED
        BY <2>2, <3>1, IdleType
    <2> QED
      BY <2>1, <2>4, <2>5, <2>6, <2>7, <2>8 DEF FleetNext, FleetStep, FleetFaultStep
  <1> QED
    BY <1>3, <1>4 DEF SiteCopies, EwCopy, FwCopy, CopiesAgree

\* Events, the collector, resyncs and restarts deliver versions of the objects.
LEMMA ClusterCopies ==
    ASSUME TypeOK, CopiesAgree, ClusterNext
    PROVE  CopiesAgree'
  <1> USE DEF apiVars, siteVars, cacheVars, ghostVars
  <1>1. CASE FleetEvent \/ Resync
    BY <1>1 DEF FleetEvent, Resync, CopiesAgree
  <1>2. CASE \E s \in Sites : FleetGC(s)
    <2>1. UNCHANGED <<siteCache, ew, fw>>
      BY <1>2 DEF FleetGC
    <2>2. VersionStep
      BY <1>2, WritesAreVersions
    <2>3. SiteCopies' /\ EwCopy' /\ FwCopy'
      BY <2>1, <2>2, VersionStepCopies, WorkerCopiesKept
    <2> QED
      BY <2>3 DEF SiteCopies, EwCopy, FwCopy, CopiesAgree
  <1>3. CASE SiteEvent
    <2> DEFINE s == Head(watch).s
               es == Head(watch).es
    <2>1. /\ watch \in Seq(SiteChange) /\ watch # <<>>
          /\ siteCache \in [Sites -> SiteObject]
      BY <1>3 DEF SiteEvent, TypeOK
    <2>2. /\ Len(watch) \in Nat /\ 1 \in 1..Len(watch) /\ Head(watch) = watch[1]
          /\ watch' \in Seq(SiteChange) /\ Len(watch') = Len(watch) - 1
          /\ \A i \in 1..Len(watch') : watch'[i] = watch[i + 1] /\ i + 1 \in 1..Len(watch)
      BY <1>3, <2>1 DEF SiteEvent
    <2>3. IsVersionOf(es, site[s]) /\ site' = site
      BY <1>3, <2>2 DEF CopiesAgree, SiteEvent
    <2>4. siteCache' = [siteCache EXCEPT ![s] = es]
      BY <1>3 DEF SiteEvent
    <2> HIDE DEF s, es
    <2>5. \A t \in Sites : IsVersionOf(siteCache'[t], site'[t])
      BY <2>1, <2>3, <2>4 DEF CopiesAgree
    <2>6. \A i \in 1..Len(watch') : IsVersionOf(watch'[i].es, site'[watch'[i].s])
      BY <2>2, <2>3 DEF CopiesAgree
    <2> QED
      BY <1>3, <2>3, <2>5, <2>6 DEF SiteEvent, CopiesAgree
  <1>4. CASE Restart
    <2>1. \A s \in Sites : site[s].rv \in Nat
      BY SiteFields
    <2>2. \A s \in Sites : IsVersionOf(site[s], site[s])
      BY <2>1 DEF IsVersionOf
    <2>3. Len(<<>>) = 0
      OBVIOUS
    <2> QED
      BY <1>4, <2>2, <2>3 DEF Restart, CopiesAgree, IdleEw, IdleFw
  <1> QED
    BY <1>1, <1>2, <1>3, <1>4 DEF ClusterNext

\* The user makes versions and holds none.
LEMMA UserCopies ==
    ASSUME TypeOK, CopiesAgree, UserNext
    PROVE  CopiesAgree'
  <1>1. UNCHANGED <<siteCache, ew, fw>>
    BY DEF UserNext, UserDeleteFleet, UserDeclare, UserEditSite, UserDeleteSite,
           UserCreateSite, cacheVars
  <1>2. VersionStep
    BY WritesAreVersions
  <1>3. SiteCopies' /\ EwCopy' /\ FwCopy'
    BY <1>1, <1>2, VersionStepCopies, WorkerCopiesKept
  <1> QED
    BY <1>3 DEF SiteCopies, EwCopy, FwCopy, CopiesAgree

\* Every copy of an EdgeSite, wherever it is held, is a version the API server
\* has had, and one whose resourceVersion is current is the object itself.
THEOREM CopiesCorrect == Spec => []CopiesAgree
  <1>1. Init => CopiesAgree
    <2> SUFFICES ASSUME Init PROVE CopiesAgree
      OBVIOUS
    <2>1. \A s \in Sites : IsVersionOf(NoSite(0), NoSite(0))
      BY DEF IsVersionOf, NoSite
    <2>2. Len(<<>>) = 0
      OBVIOUS
    <2> QED
      BY <2>1, <2>2 DEF Init, CopiesAgree, IdleEw, IdleFw
  <1>2. TypeOK /\ CopiesAgree /\ [Next]_vars => CopiesAgree'
    <2> SUFFICES ASSUME TypeOK, CopiesAgree, [Next]_vars PROVE CopiesAgree'
      OBVIOUS
    <2>1. CASE UNCHANGED vars
      BY <2>1 DEF vars, CopiesAgree
    <2> QED
      BY <2>1, EsCopies, FleetCopies, ClusterCopies, UserCopies DEF Next
  <1> QED
    BY <1>1, <1>2, TypeCorrect, PTL DEF Spec

-----------------------------------------------------------------------------
(* The N2 VIPs *)

\* What each step but the two that hand out a VIP does to the VIPs.
LEMMA PlainVips ==
    ASSUME TypeOK, PlainStep
    PROVE  \A s \in Sites : site'[s].live =>
               site'[s].vip = (IF site[s].live THEN site[s].vip ELSE Unset)
                 \/ site'[s] = site[s]
  <1>1. CASE UNCHANGED siteVars
    BY <1>1 DEF siteVars
  <1>2. ASSUME NEW t \in Sites, NEW es \in SiteObject, PutSite(t, es),
               PlainWrite(site[t], es)
        PROVE  \A s \in Sites : site'[s].live =>
                   site'[s].vip = (IF site[s].live THEN site[s].vip ELSE Unset)
                     \/ site'[s] = site[s]
    <2>1. site'[t] = es /\ \A s \in Sites \ {t} : site'[s] = site[s]
      BY <1>2, PutVersions DEF PlainWrite
    <2> QED
      BY <1>2, <2>1 DEF PlainWrite
  <1> QED
    BY <1>1, <1>2 DEF PlainStep

\* The cache, the queues and the workers may change; the objects do not.
LEMMA EventWrites ==
    ASSUME ClusterNext
    PROVE  (UNCHANGED site /\ UNCHANGED ghostVars) \/ \E s \in Sites : DeleteSite(s)
  BY DEF ClusterNext, FleetEvent, SiteEvent, FleetGC, Resync, Restart, apiVars, siteVars,
         ghostVars

\* A VIP handed out goes to a site that had none, or to one that did not exist.
LEMMA VipStep ==
    ASSUME TypeOK, CopiesAgree, [Next]_vars,
           NEW s \in Sites, site[s].live, site'[s].live, site[s].vip # Unset
    PROVE  site'[s].vip = site[s].vip
  <1>1. CASE PlainStep
    BY <1>1, PlainVips
  <1>2. CASE UNCHANGED site
    BY <1>2
  <1>3. CASE \E t \in Sites : DeleteSite(t)
    BY <1>1, <1>3, DeletePlain
  <1>4. CASE Allocation
    <2>1. PICK es \in SiteObject : PutSite(ew.s, es) /\ NextVersion(site[ew.s], es)
      BY <1>4 DEF Allocation
    <2>2. ew.s \in Sites /\ s # ew.s
      BY <1>4 DEF Allocation
    <2>3. site'[s] = site[s]
      BY <2>1, <2>2, PutVersions
    <2> QED
      BY <2>3
  <1>5. ASSUME NEW t \in HandMade, NEW role \in Roles, NEW c \in BOOLEAN,
               NEW v \in Pins \cup {Unset}, UserCreateSite(t, role, c, v)
        PROVE  site'[s].vip = site[s].vip
    <2>1. t # s
      BY <1>5 DEF UserCreateSite
    <2>2. site'[s] = site[s]
      BY <1>5, <2>1 DEF UserCreateSite, CreateSite, PutSite, TypeOK
    <2> QED
      BY <2>2
  <1>6. CASE UNCHANGED vars
    BY <1>6 DEF vars
  <1> QED
    BY <1>1, <1>2, <1>3, <1>4, <1>5, <1>6, EsWrites, FleetWrites, EventWrites, UserWrites
       DEF Next

\* Once a live site has an N2 VIP no step changes or clears it, however stale the
\* copies the two controllers write back.
THEOREM VipsAreStable == Spec => VipStable
  <1>1. TypeOK /\ CopiesAgree /\ [Next]_vars =>
            [\A s \in Sites :
                site[s].live /\ site'[s].live /\ site[s].vip # Unset
                    => site'[s].vip = site[s].vip]_site
    BY VipStep
  <1> QED
    BY <1>1, TypeCorrect, CopiesCorrect, PTL DEF Spec, VipStable

\* The declared part of a site, and who manages it.
SameIntent(o, n) ==
    o.live => n.live /\ n.role = o.role /\ n.labelled = o.labelled /\ n.owned = o.owned

\* A copy written back over the version it was made from changes no intent.
LEMMA StoredIntent ==
    ASSUME TypeOK, NEW t \in Sites, NEW es \in SiteObject, SameIntent(site[t], es),
           PutSite(t, Stored(t, es))
    PROVE  \A s \in Sites : SameIntent(site[s], site'[s])
  <1>1. site' = [site EXCEPT ![t] = Stored(t, es)] /\ site \in [Sites -> SiteObject]
    BY DEF PutSite, TypeOK
  <1>2. site'[t] = Stored(t, es) /\ \A s \in Sites \ {t} : site'[s] = site[s]
    BY <1>1
  <1>3. SameIntent(site[t], Stored(t, es))
    BY DEF Stored, SameIntent, SiteObject
  <1> QED
    BY <1>2, <1>3 DEF SameIntent

\* No step of the EdgeSite controller changes the intent of a live site.
LEMMA EsKeepsIntent ==
    ASSUME TypeOK, CopiesAgree, EsNext
    PROVE  \A s \in Sites : SameIntent(site[s], site'[s])
  <1> USE DEF apiVars, siteVars
  <1>1. ew.pc # "idle" => ew.s \in Sites
    BY DEF TypeOK
  <1>2. CASE UNCHANGED site
    BY <1>2 DEF SameIntent
  <1>3. ASSUME ew.s \in Sites, NEW phase \in Phases,
               PutSite(ew.s, Stored(ew.s, [site[ew.s] EXCEPT !.phase = phase]))
        PROVE  \A s \in Sites : SameIntent(site[s], site'[s])
    <2> DEFINE es == [site[ew.s] EXCEPT !.phase = phase]
    <2>1. es \in SiteObject /\ SameIntent(site[ew.s], es)
      BY <1>3, SiteFields DEF SiteObject, SameIntent
    <2> HIDE DEF es
    <2> QED
      BY <1>3, <2>1, StoredIntent DEF es
  <1>4. CASE EsDerive /\ Derived # ew.es
    <2>1. /\ ew.pc = "update" /\ ew.s \in Sites
          /\ Current(ew.s, ew.es)
          /\ PutSite(ew.s, Stored(ew.s, Derived))
      BY <1>1, <1>4 DEF EsDerive
    <2>2. ew.es = site[ew.s]
      BY <2>1, CurrentIsSame DEF CopiesAgree
    <2>3. Derived \in SiteObject /\ SameIntent(site[ew.s], Derived)
      BY <2>1, <2>2, DerivedType, DerivedFacts DEF SameIntent
    <2> QED
      BY <2>1, <2>3, StoredIntent
  <1>5. CASE (EsDerive /\ Derived = ew.es) \/ EsDeriveConflict
             \/ \E s \in Sites : EsGet(s) \/ EsGetListFault(s)
    BY <1>2, <1>5 DEF EsDerive, EsDeriveConflict, EsGet, EsGetListFault, StartReconcile
  <1>6. CASE EsDeriveFault \/ EsStepFault
    BY <1>1, <1>2, <1>3, <1>6 DEF EsDeriveFault, EsStepFault, WriteFailedStatus, Phases
  <1>7. CASE EsFinish
    BY <1>1, <1>2, <1>3, <1>7 DEF EsFinish, Phases
  <1> QED
    BY <1>4, <1>5, <1>6, <1>7 DEF EsNext, EsStep, EsFaultStep

\* The EdgeSite controller never reverts a role, a label or an owner.
THEOREM IntentIsKept == Spec => IntentKept
  <1>1. TypeOK /\ CopiesAgree /\ [Next]_vars =>
            [EsNext => \A s \in Sites :
                site[s].live =>
                    /\ site'[s].live
                    /\ site'[s].role = site[s].role
                    /\ site'[s].labelled = site[s].labelled
                    /\ site'[s].owned = site[s].owned]_vars
    BY EsKeepsIntent DEF SameIntent
  <1> QED
    BY <1>1, TypeCorrect, CopiesCorrect, PTL DEF Spec, IntentKept

\* Two live sites have the same VIP of the pool.
Collide(s, t) ==
    /\ s # t
    /\ site[s].live /\ site[t].live
    /\ site[s].vip = site[t].vip /\ site[s].vip \in Pool

\* A step that sets no VIP makes no new collision.
LEMMA PlainExplained ==
    ASSUME TypeOK, CollisionExplained, PlainStep, UNCHANGED ghostVars
    PROVE  CollisionExplained'
  <1>1. Unset \notin Pool
    BY PoolAssumption DEF Unset, Pool
  <1>2. ASSUME NEW s \in Sites, NEW t \in Sites, Collide(s, t)'
        PROVE  Collide(s, t)
    BY <1>1, <1>2, PlainVips DEF Collide
  <1> QED
    BY <1>2 DEF CollisionExplained, Collide, ghostVars

\* A deletion ends collisions only.
LEMMA DeleteExplained ==
    ASSUME TypeOK, CollisionExplained, NEW d \in Sites, DeleteSite(d)
    PROVE  CollisionExplained'
  <1>1. /\ site' = [site EXCEPT ![d] = NoSite(site[d].rv + 1)]
        /\ site \in [Sites -> SiteObject]
        /\ missed' = [t \in Sites |-> IF t = d THEN {} ELSE missed[t] \ {d}]
        /\ full' = [full EXCEPT ![d] = FALSE] /\ full \in [Sites -> BOOLEAN]
    BY DEF DeleteSite, PutSite, TypeOK
  <1>2. ~site'[d].live /\ \A s \in Sites \ {d} : site'[s] = site[s]
    BY <1>1 DEF NoSite
  <1>3. \A s \in Sites \ {d} : missed'[s] = missed[s] \ {d} /\ full'[s] = full[s]
    BY <1>1
  <1> QED
    BY <1>2, <1>3 DEF CollisionExplained

\* A user who creates a site pins a VIP that the history variables account for.
LEMMA CreateExplained ==
    ASSUME TypeOK, CollisionExplained,
           NEW d \in HandMade, NEW role \in Roles, NEW c \in BOOLEAN,
           NEW v \in Pins \cup {Unset}, UserCreateSite(d, role, c, v)
    PROVE  CollisionExplained'
  <1> DEFINE M == {t \in Holders(d) : v # Unset}
             new == [NoSite(0) EXCEPT !.live = TRUE, !.role = role,
                                      !.colocated = c, !.vip = v]
             es == [new EXCEPT !.rv = site[d].rv + 1]
  <1>1. d \in Sites /\ Unset \notin Pool
    BY SitesAssumption, PoolAssumption DEF Unset, Pool
  <1>2. /\ site' = [site EXCEPT ![d] = es] /\ site \in [Sites -> SiteObject]
        /\ missed' = [missed EXCEPT ![d] = M] /\ missed \in [Sites -> SUBSET Sites]
        /\ full' = full
    BY DEF UserCreateSite, CreateSite, PutSite, TypeOK
  <1>3. es.vip = v
    BY DEF NoSite
  <1> HIDE DEF es
  <1>4. \A t \in M \cup Sites : t \in M <=> t \in Holders(d) /\ v # Unset
    OBVIOUS
  <1> HIDE DEF M
  <1>5. /\ site'[d].vip = v /\ missed'[d] = M
        /\ \A s \in Sites \ {d} : site'[s] = site[s] /\ missed'[s] = missed[s]
    BY <1>1, <1>2, <1>3
  <1>6. ASSUME NEW t \in Sites, t # d, site[t].live, site[t].vip = v, v \in Pool
        PROVE  t \in missed'[d]
    BY <1>1, <1>4, <1>5, <1>6 DEF Holders
  <1> QED
    BY <1>1, <1>2, <1>5, <1>6 DEF CollisionExplained

\* The heart of the matter: a VIP that collides with one the List showed comes
\* from a full pool.
LEMMA AllocationExplained ==
    ASSUME TypeOK, CollisionExplained, Allocation
    PROVE  CollisionExplained'
  <1> DEFINE d == ew.s
             M == {t \in Holders(d) : site[t].vip \notin ew.taken}
  <1>1. PICK es \in SiteObject : /\ PutSite(d, es) /\ NextVersion(site[d], es)
                                 /\ es.vip \in Pool => es.vip = Probe(d, ew.taken)
    BY DEF Allocation
  <1>2. d \in Sites
    BY DEF Allocation
  <1>3. /\ missed' = [missed EXCEPT ![d] = M] /\ missed \in [Sites -> SUBSET Sites]
        /\ full' = [full EXCEPT ![d] = Pool \subseteq ew.taken]
        /\ full \in [Sites -> BOOLEAN]
    BY DEF Allocation, TypeOK
  <1>4. site'[d] = es /\ \A s \in Sites \ {d} : site'[s] = site[s]
    BY <1>1, <1>2, PutVersions
  <1>5. \A t \in Holders(d) : site[t].vip \notin ew.taken => t \in M
    OBVIOUS
  <1> HIDE DEF M
  <1>6. /\ missed'[d] = M /\ full'[d] = (Pool \subseteq ew.taken)
        /\ \A s \in Sites \ {d} : missed'[s] = missed[s] /\ full'[s] = full[s]
    BY <1>2, <1>3
  <1>7. ASSUME NEW t \in Sites, t # d, site[t].live, site[t].vip = es.vip, es.vip \in Pool
        PROVE  t \in missed'[d] \/ full'[d]
    <2>1. Unset \notin Pool
      BY PoolAssumption DEF Unset, Pool
    <2>2. t \in Holders(d)
      BY <1>7, <2>1 DEF Holders
    <2>3. CASE site[t].vip \notin ew.taken
      BY <1>5, <1>6, <2>2, <2>3
    <2>4. CASE site[t].vip \in ew.taken
      <3>1. Probe(d, ew.taken) \in ew.taken
        BY <1>1, <1>7, <2>4
      <3>2. Pool \subseteq ew.taken
        BY <1>2, <3>1, ProbeLemma
      <3> QED
        BY <1>6, <3>2
    <2> QED
      BY <2>3, <2>4
  <1> HIDE DEF d
  <1> QED
    BY <1>2, <1>4, <1>6, <1>7 DEF CollisionExplained

\* Two VIPs of the pool are equal only if the later allocation was not shown the
\* earlier one, or found the pool full.
THEOREM CollisionsAreExplained == Spec => []CollisionExplained
  <1>1. Init => CollisionExplained
    BY DEF Init, CollisionExplained, NoSite
  <1>2. TypeOK /\ CopiesAgree /\ CollisionExplained /\ [Next]_vars => CollisionExplained'
    <2> SUFFICES ASSUME TypeOK, CopiesAgree, CollisionExplained, [Next]_vars
                 PROVE  CollisionExplained'
      OBVIOUS
    <2>1. CASE UNCHANGED site /\ UNCHANGED ghostVars
      BY <2>1 DEF CollisionExplained, ghostVars
    <2>2. CASE UNCHANGED vars
      BY <2>1, <2>2 DEF vars, ghostVars
    <2> QED
      BY <2>1, <2>2, PlainExplained, DeleteExplained, CreateExplained, AllocationExplained,
         EsWrites, FleetWrites, EventWrites, UserWrites
         DEF Next
  <1> QED
    BY <1>1, <1>2, TypeCorrect, CopiesCorrect, PTL DEF Spec

-----------------------------------------------------------------------------
(* The life of a site *)

\* An object that is absent shows nothing; a live one has a role, and is never
\* addressed without a VIP.
Whole(es) ==
    IF es.live THEN es.role \in Roles /\ (es.derived => es.vip # Unset)
               ELSE Seen(es) = Seen(NoSite(0))

\* What n may show after o.
LifeWrite(o, n) ==
    \/ Seen(n) = Seen(o)
    \/ ~o.live /\ n.live /\ n.role \in Roles /\ ~n.derived /\ n.phase = "none"
    \/ /\ o.live /\ ~o.derived /\ n.vip # Unset /\ (o.vip # Unset => n.vip = o.vip)
       /\ n.live /\ n.derived /\ n.role = o.role /\ n.phase = o.phase
    \/ /\ o.live /\ (o.derived \/ n.phase = "Failed") /\ n.phase \in {"Failed", "Deploying"}
       /\ n.live /\ n.derived = o.derived /\ n.role = o.role /\ n.vip = o.vip
    \/ /\ o.live /\ n.role \in Roles
       /\ n.live /\ n.derived = o.derived /\ n.phase = o.phase /\ n.vip = o.vip
    \/ o.live /\ ~n.live /\ Seen(n) = Seen(NoSite(0))

\* A step that lets at most one site show something else.
LifeStep ==
    \/ UNCHANGED site
    \/ \E s \in Sites, es \in SiteObject : PutSite(s, es) /\ LifeWrite(site[s], es)

\* Every object is whole; an addressed copy is what a success status is written
\* from; and the Fleet controller works on declared names.
SitesWhole == \A s \in Sites : Whole(site[s])
EwAddressed == ew.pc = "finish" => ew.es.derived
FwDeclared ==
    /\ fw.pc \in {"apply", "write"} => fw.todo \subseteq Desired(fw.fleet.sites)
    /\ fw.pc = "write" => fw.s \in fw.todo
LifeInv == SitesWhole /\ EwAddressed /\ FwDeclared

\* What a user sees, field by field.
LEMMA SeenChange ==
    ASSUME NEW o, NEW n
    PROVE  /\ (n.live = o.live /\ n.derived = o.derived /\ n.vip = o.vip /\ n.role = o.role)
                 => Seen(n) = [Seen(o) EXCEPT !.phase = n.phase]
           /\ (n.live = o.live /\ n.derived = o.derived /\ n.vip = o.vip /\ n.phase = o.phase)
                 => Seen(n) = [Seen(o) EXCEPT !.role = n.role]
           /\ (n.live = o.live /\ n.derived = TRUE /\ n.role = o.role /\ n.phase = o.phase)
                 => Seen(n) = [Seen(o) EXCEPT !.addressed = TRUE, !.vip = n.vip]
           /\ (n.live = TRUE /\ n.derived = FALSE /\ n.phase = "none")
                 => Seen(n) = [Life!Absent EXCEPT !.live = TRUE, !.role = n.role, !.vip = n.vip]
  <1> DEFINE R(l, r, v, a, p) ==
                 [live |-> l, role |-> r, vip |-> v, addressed |-> a, phase |-> p]
  <1>1. \A x : Seen(x) = R(x.live, x.role, x.vip, x.derived, x.phase)
    BY DEF Seen
  <1>2. Life!Absent = R(FALSE, "none", Life!Unaddressed, FALSE, "none")
    BY DEF Life!Absent
  <1>3. \A l, r, v, a, p, x : [R(l, r, v, a, p) EXCEPT !.phase = x] = R(l, r, v, a, x)
    OBVIOUS
  <1>4. \A l, r, v, a, p, x : [R(l, r, v, a, p) EXCEPT !.role = x] = R(l, x, v, a, p)
    OBVIOUS
  <1>5. \A l, r, v, a, p, x : [R(l, r, v, a, p) EXCEPT !.vip = x] = R(l, r, x, a, p)
    OBVIOUS
  <1>6. \A l, r, v, a, p, x : [R(l, r, v, a, p) EXCEPT !.addressed = x] = R(l, r, v, x, p)
    OBVIOUS
  <1>7. \A l, r, v, a, p, x : [R(l, r, v, a, p) EXCEPT !.live = x] = R(x, r, v, a, p)
    OBVIOUS
  <1>8. ASSUME NEW f, NEW x, NEW y
        PROVE  [f EXCEPT !.addressed = x, !.vip = y]
                  = [[f EXCEPT !.addressed = x] EXCEPT !.vip = y]
    OBVIOUS
  <1>9. ASSUME NEW f, NEW x, NEW y, NEW z
        PROVE  [f EXCEPT !.live = x, !.role = y, !.vip = z]
                  = [[[f EXCEPT !.live = x] EXCEPT !.role = y] EXCEPT !.vip = z]
    OBVIOUS
  <1> HIDE DEF R
  <1>10. Seen(n) = R(n.live, n.role, n.vip, n.derived, n.phase)
         /\ Seen(o) = R(o.live, o.role, o.vip, o.derived, o.phase)
    BY <1>1
  <1>11. [Seen(o) EXCEPT !.phase = n.phase] = R(o.live, o.role, o.vip, o.derived, n.phase)
    BY <1>3, <1>10
  <1>12. [Seen(o) EXCEPT !.role = n.role] = R(o.live, n.role, o.vip, o.derived, o.phase)
    BY <1>4, <1>10
  <1>13. ASSUME NEW t
         PROVE  [Seen(o) EXCEPT !.addressed = t, !.vip = n.vip]
                   = R(o.live, o.role, n.vip, t, o.phase)
    <2> DEFINE g == [Seen(o) EXCEPT !.addressed = t]
    <2>1. g = R(o.live, o.role, o.vip, t, o.phase)
      BY <1>6, <1>10
    <2>2. [Seen(o) EXCEPT !.addressed = t, !.vip = n.vip] = [g EXCEPT !.vip = n.vip]
      BY <1>8
    <2> HIDE DEF g
    <2>3. [g EXCEPT !.vip = n.vip] = R(o.live, o.role, n.vip, t, o.phase)
      BY <1>5, <2>1
    <2> QED
      BY <2>2, <2>3
  <1>14. ASSUME NEW t, NEW f, Life!Absent = R(f, "none", Life!Unaddressed, f, "none")
         PROVE  [Life!Absent EXCEPT !.live = t, !.role = n.role, !.vip = n.vip]
                   = R(t, n.role, n.vip, f, "none")
    <2> DEFINE g == [Life!Absent EXCEPT !.live = t]
               h == [g EXCEPT !.role = n.role]
    <2>1. g = R(t, "none", Life!Unaddressed, f, "none")
      BY <1>7, <1>14
    <2>2. [Life!Absent EXCEPT !.live = t, !.role = n.role, !.vip = n.vip]
             = [h EXCEPT !.vip = n.vip]
      BY <1>9
    <2> HIDE DEF g
    <2>3. h = R(t, n.role, Life!Unaddressed, f, "none")
      BY <1>4, <2>1
    <2> HIDE DEF h
    <2>4. [h EXCEPT !.vip = n.vip] = R(t, n.role, n.vip, f, "none")
      BY <1>5, <2>3
    <2> QED
      BY <2>2, <2>4
  <1>15. (n.live = o.live /\ n.derived = o.derived /\ n.vip = o.vip /\ n.role = o.role)
            => Seen(n) = [Seen(o) EXCEPT !.phase = n.phase]
    BY <1>10, <1>11
  <1>16. (n.live = o.live /\ n.derived = o.derived /\ n.vip = o.vip /\ n.phase = o.phase)
            => Seen(n) = [Seen(o) EXCEPT !.role = n.role]
    BY <1>10, <1>12
  <1>17. (n.live = o.live /\ n.derived = TRUE /\ n.role = o.role /\ n.phase = o.phase)
            => Seen(n) = [Seen(o) EXCEPT !.addressed = TRUE, !.vip = n.vip]
    BY <1>10, <1>13, Zenon
  <1>18. (n.live = TRUE /\ n.derived = FALSE /\ n.phase = "none")
            => Seen(n) = [Life!Absent EXCEPT !.live = TRUE, !.role = n.role, !.vip = n.vip]
    <2>1. [Life!Absent EXCEPT !.live = TRUE, !.role = n.role, !.vip = n.vip]
             = R(TRUE, n.role, n.vip, FALSE, "none")
      BY <1>2, <1>14, Zenon
    <2> QED
      BY <1>10, <2>1, Zenon
  <1> QED
    BY <1>15, <1>16, <1>17, <1>18

\* A write of that kind is a step of the abstract life of a site, and leaves every
\* object whole.
LEMMA LifeWriteStep ==
    ASSUME TypeOK, SitesWhole, NEW s \in Sites, NEW es \in SiteObject,
           PutSite(s, es), LifeWrite(site[s], es)
    PROVE  /\ Life!Next \/ UNCHANGED [t \in Sites |-> Seen(site[t])]
           /\ SitesWhole'
  <1> DEFINE view == [t \in Sites |-> Seen(site[t])]
             o == site[s]
  <1>1. site' = [site EXCEPT ![s] = es] /\ site \in [Sites -> SiteObject] /\ o \in SiteObject
    BY DEF PutSite, TypeOK
  <1>2. view' = [view EXCEPT ![s] = Seen(es)]
    BY <1>1
  <1>3. view[s] = Seen(o) /\ view'[s] = Seen(es)
    BY <1>1
  <1>4. Whole(o)
    BY DEF SitesWhole
  <1>5. Whole(es)
    BY <1>1, <1>4 DEF LifeWrite, Whole, Seen, NoSite
  <1>6. SitesWhole'
    BY <1>1, <1>4, <1>5 DEF SitesWhole
  <1>7. ASSUME ~o.live PROVE Seen(o) = Life!Absent
    BY <1>4, <1>7 DEF Whole, Seen, NoSite, Life!Absent, Life!Unaddressed, Unset, NoRole
  <1>8. ASSUME NEW n, Seen(es) = n PROVE Life!Becomes(s, n)
    BY <1>2, <1>8 DEF Life!Becomes
  <1>9. Life!Next \/ UNCHANGED view
    <2>0. /\ o.live \in BOOLEAN /\ es.live \in BOOLEAN
          /\ o.derived \in BOOLEAN /\ es.derived \in BOOLEAN
      BY <1>1 DEF SiteObject
    <2>1. CASE Seen(es) = Seen(o)
      <3>1. \A t \in Sites : Seen(site'[t]) = Seen(site[t])
        BY <1>1, <2>1
      <3> QED
        BY <3>1
    <2>2. CASE ~o.live /\ es.live /\ es.role \in Roles /\ ~es.derived /\ es.phase = "none"
      <3> DEFINE n == [Life!Absent EXCEPT !.live = TRUE, !.role = es.role, !.vip = es.vip]
      <3>1. Seen(es) = n
        BY <2>0, <2>2, SeenChange
      <3>2. Seen(es).live /\ Seen(es).role = es.role /\ Seen(es).vip = es.vip
        BY <2>2 DEF Seen
      <3>3. Life!Becomes(s, n)
        BY <1>8, <3>1
      <3> HIDE DEF n
      <3>4. Life!Appear(s)
        BY <1>3, <1>7, <2>2, <3>2, <3>3 DEF Life!Appear, n
      <3> QED
        BY <3>4 DEF Life!Next
    <2>3. CASE /\ o.live /\ ~o.derived /\ es.vip # Unset /\ (o.vip # Unset => es.vip = o.vip)
               /\ es.live /\ es.derived /\ es.role = o.role /\ es.phase = o.phase
      <3> DEFINE n == [Seen(o) EXCEPT !.addressed = TRUE, !.vip = es.vip]
      <3>1. Seen(es) = n
        BY <2>0, <2>3, SeenChange
      <3>2. /\ Seen(o).live /\ ~Seen(o).addressed
            /\ Seen(o).vip = o.vip /\ Seen(es).vip = es.vip
        BY <2>3 DEF Seen
      <3>3. Life!Becomes(s, n)
        BY <1>8, <3>1
      <3>4. Life!Address(s)
        BY <1>3, <2>3, <3>2, <3>3 DEF Life!Address, Life!Unaddressed, Unset
      <3> QED
        BY <3>4 DEF Life!Next
    <2>4. CASE /\ o.live /\ (o.derived \/ es.phase = "Failed")
               /\ es.phase \in {"Failed", "Deploying"}
               /\ es.live /\ es.derived = o.derived /\ es.role = o.role /\ es.vip = o.vip
      <3>1. Seen(es) = [Seen(o) EXCEPT !.phase = es.phase]
        BY <2>0, <2>4, SeenChange
      <3>2. Seen(o).live /\ Seen(o).addressed = o.derived
        BY <2>4 DEF Seen
      <3>3. Life!Becomes(s, [Seen(o) EXCEPT !.phase = es.phase])
        BY <1>8, <3>1
      <3>4. Life!Deploy(s) \/ Life!Fail(s)
        BY <1>3, <2>4, <3>2, <3>3 DEF Life!Deploy, Life!Fail
      <3> QED
        BY <3>4 DEF Life!Next
    <2>5. CASE /\ o.live /\ es.role \in Roles
               /\ es.live /\ es.derived = o.derived /\ es.phase = o.phase /\ es.vip = o.vip
      <3>1. Seen(es) = [Seen(o) EXCEPT !.role = es.role]
        BY <2>0, <2>5, SeenChange
      <3>2. Seen(o).live /\ Seen(es).role = es.role
        BY <2>5 DEF Seen
      <3>3. Life!Becomes(s, [Seen(o) EXCEPT !.role = es.role])
        BY <1>8, <3>1
      <3>4. Life!Rerole(s)
        BY <1>3, <2>5, <3>2, <3>3 DEF Life!Rerole
      <3> QED
        BY <3>4 DEF Life!Next
    <2>6. CASE o.live /\ ~es.live /\ Seen(es) = Seen(NoSite(0))
      <3>1. Life!Remove(s)
        BY <1>2, <1>3, <2>6
           DEF Life!Remove, Life!Becomes, Life!Absent, Life!Unaddressed, Unset, NoRole,
               Seen, NoSite
      <3> QED
        BY <3>1 DEF Life!Next
    <2> QED
      BY <2>1, <2>2, <2>3, <2>4, <2>5, <2>6 DEF LifeWrite
  <1> QED
    BY <1>6, <1>9

\* A new resourceVersion shows nothing new.
LEMMA StoredLife ==
    ASSUME TypeOK, NEW s \in Sites, NEW es \in SiteObject, LifeWrite(site[s], es),
           PutSite(s, Stored(s, es))
    PROVE  LifeStep
  <1>1. Stored(s, es) \in SiteObject
    BY StoredType
  <1>2. /\ Stored(s, es).live = es.live /\ Stored(s, es).role = es.role
        /\ Stored(s, es).vip = es.vip /\ Stored(s, es).derived = es.derived
        /\ Stored(s, es).phase = es.phase
    BY DEF Stored, SiteObject
  <1>3. Seen(Stored(s, es)) = Seen(es)
    BY <1>2 DEF Seen
  <1>4. LifeWrite(site[s], Stored(s, es))
    BY <1>2, <1>3 DEF LifeWrite
  <1> QED
    BY <1>1, <1>4 DEF LifeStep

\* A status written over the current version fails the site, or deploys one that is
\* addressed.
LEMMA StatusLife ==
    ASSUME TypeOK, NEW s \in Sites, site[s].live, NEW phase \in {"Failed", "Deploying"},
           phase = "Failed" \/ site[s].derived,
           PutSite(s, Stored(s, [site[s] EXCEPT !.phase = phase]))
    PROVE  LifeStep
  <1> DEFINE es == [site[s] EXCEPT !.phase = phase]
  <1>1. es \in SiteObject
    BY SiteFields DEF SiteObject, Phases
  <1>2. LifeWrite(site[s], es)
    BY SiteFields DEF LifeWrite, SiteObject
  <1> HIDE DEF es
  <1> QED
    BY <1>1, <1>2, StoredLife DEF es

\* A deletion of a live site is the end of its life.
LEMMA DeleteLife ==
    ASSUME TypeOK, NEW s \in Sites, site[s].live, DeleteSite(s)
    PROVE  LifeStep
  <1> DEFINE es == NoSite(site[s].rv + 1)
  <1>1. es \in SiteObject
    BY SiteFields, NoSiteType
  <1>2. ~es.live /\ Seen(es) = Seen(NoSite(0))
    BY DEF NoSite, Seen
  <1>3. PutSite(s, es)
    BY DEF DeleteSite
  <1> HIDE DEF es
  <1> QED
    BY <1>1, <1>2, <1>3 DEF LifeStep, LifeWrite

\* The EdgeSite controller addresses a site that is not addressed yet, and deploys
\* only what it addressed.
LEMMA EsLife ==
    ASSUME TypeOK, CopiesAgree, LifeInv, EsNext
    PROVE  LifeStep /\ EwAddressed' /\ UNCHANGED fw
  <1> USE DEF apiVars, siteVars, cacheVars
  <1>1. /\ ew \in EwState /\ (ew.pc # "idle" => ew.s \in Sites)
        /\ ew.pc # "idle" => IsVersionOf(ew.es, site[ew.s])
        /\ IdleEw.pc = "idle"
    BY IdleType DEF TypeOK, CopiesAgree
  <1>2. CASE \E s \in Sites : EsGet(s) \/ EsGetListFault(s)
    BY <1>1, <1>2 DEF EsGet, EsGetListFault, StartReconcile, LifeStep, LifeInv, EwAddressed
  <1>3. CASE EsDeriveConflict
    BY <1>1, <1>3 DEF EsDeriveConflict, EsRequeue, LifeStep, EwAddressed
  <1>4. ASSUME WriteFailedStatus, ew.s \in Sites PROVE LifeStep
    BY <1>4, StatusLife DEF WriteFailedStatus, Current, LifeStep
  <1>5. CASE EsDeriveFault \/ EsStepFault
    BY <1>1, <1>4, <1>5 DEF EsDeriveFault, EsStepFault, EsRequeue, EwAddressed
  <1>6. CASE EsFinish
    <2>1. CASE Current(ew.s, ew.es)
      <3>1. ew.s \in Sites /\ ew.es = site[ew.s] /\ site[ew.s].live /\ site[ew.s].derived
        BY <1>1, <1>6, <2>1, CurrentIsSame DEF EsFinish, LifeInv, EwAddressed
      <3> QED
        BY <1>1, <1>6, <2>1, <3>1, StatusLife DEF EsFinish, EwAddressed
    <2>2. CASE ~Current(ew.s, ew.es)
      BY <1>1, <1>6, <2>2 DEF EsFinish, EsRequeue, LifeStep, EwAddressed
    <2> QED
      BY <2>1, <2>2
  <1>7. CASE EsDerive
    <2>1. ew.pc = "update" /\ ew.s \in Sites /\ ew.es \in SiteObject /\ UNCHANGED fw
      BY <1>1, <1>7 DEF EsDerive, EwState
    <2>2. /\ Derived \in SiteObject /\ Derived.derived
          /\ Derived.colocated = ew.es.colocated /\ Derived.phase = ew.es.phase
          /\ Derived.rv = ew.es.rv
          /\ ew.es.derived /\ ew.es.vip # Unset => Derived = ew.es
      BY <2>1, DerivedType DEF Derived, deriveAddressing, SiteObject
    <2>3. Derived.vip # Unset
      <3>1. Probe(ew.s, ew.taken) \in Pool /\ Unset \notin Pool /\ MgmtVIP # Unset
        BY <2>1, ProbeLemma, PoolAssumption DEF Unset, Pool, MgmtVIP
      <3> QED
        BY <2>1, <3>1 DEF Derived, deriveAddressing, allocateRanVIP, SiteObject
    <2>4. CASE Derived = ew.es
      <3>1. ew' = [ew EXCEPT !.pc = "finish"] /\ UNCHANGED site
        BY <1>7, <2>4 DEF EsDerive
      <3>2. ew'.es = ew.es
        BY <1>1, <3>1 DEF EwState
      <3> QED
        BY <2>1, <2>2, <2>4, <3>1, <3>2 DEF LifeStep, EwAddressed
    <2>5. CASE Derived # ew.es
      <3>1. /\ Current(ew.s, ew.es) /\ PutSite(ew.s, Stored(ew.s, Derived))
            /\ ew' = [ew EXCEPT !.pc = "finish", !.es = Stored(ew.s, Derived)]
        BY <1>7, <2>5 DEF EsDerive
      <3>2. ew.es = site[ew.s] /\ site[ew.s].live
        BY <1>1, <2>1, <3>1, CurrentIsSame
      <3>3. ~site[ew.s].derived
        BY <2>1, <2>2, <2>5, <3>2 DEF LifeInv, SitesWhole, Whole
      <3>4. LifeWrite(site[ew.s], Derived)
        BY <2>1, <2>2, <2>3, <3>2, <3>3, DerivedFacts DEF LifeWrite
      <3>5. LifeStep
        BY <2>1, <2>2, <3>1, <3>4, StoredLife
      <3>6. ew'.es = Stored(ew.s, Derived)
        BY <1>1, <3>1 DEF EwState
      <3>7. Stored(ew.s, Derived).derived
        BY <2>2 DEF Stored, SiteObject
      <3> QED
        BY <2>1, <3>5, <3>6, <3>7 DEF EwAddressed
    <2> QED
      BY <2>4, <2>5
  <1> QED
    BY <1>2, <1>3, <1>5, <1>6, <1>7
       DEF EsNext, EsStep, EsFaultStep, EsGet, EsGetListFault, StartReconcile,
           EsDeriveConflict, EsDeriveFault, EsStepFault, EsFinish

\* A new object without an address is the beginning of a life.
LEMMA CreateLife ==
    ASSUME TypeOK, SitesWhole, NEW s \in Sites, NEW es \in SiteObject, ~site[s].live,
           es.live, es.role \in Roles, ~es.derived, es.phase = "none", CreateSite(s, es)
    PROVE  LifeStep
  <1> DEFINE new == [es EXCEPT !.rv = site[s].rv + 1]
  <1>1. new \in SiteObject
    BY SiteFields, SetRvType
  <1>2. new.live /\ new.role \in Roles /\ ~new.derived /\ new.phase = "none"
    BY DEF SiteObject
  <1>3. PutSite(s, new)
    BY DEF CreateSite
  <1> HIDE DEF new
  <1> QED
    BY <1>1, <1>2, <1>3 DEF LifeStep, LifeWrite

\* The Fleet controller gives a life only to declared names, and ends lives.
LEMMA FleetLife ==
    ASSUME TypeOK, CopiesAgree, LifeInv, FleetNext
    PROVE  LifeStep /\ UNCHANGED ew
  <1> USE DEF apiVars, siteVars, cacheVars
  <1>1. CASE FleetGet \/ FleetGetSite \/ FleetWriteFault \/ FleetList \/ FleetStatus
             \/ FleetListFault \/ (\E s \in Sites : FleetDeleteFault(s))
    BY <1>1 DEF FleetGet, FleetGetSite, FleetWriteFault, FleetList, FleetStatus,
                FleetListFault, FleetDeleteFault, LifeStep
  <1>2. ASSUME NEW s \in Sites, FleetDelete(s)
        PROVE  LifeStep /\ UNCHANGED ew
    BY <1>2, DeleteLife DEF FleetDelete, LifeStep
  <1>3. CASE FleetWriteSite
    <2> DEFINE s == fw.s
               role == fw.fleet.sites[s]
    <2>1. /\ s \in Sites /\ fw.es \in SiteObject /\ IsVersionOf(fw.es, site[s])
          /\ UNCHANGED ew
      BY <1>3 DEF FleetWriteSite, CopiesAgree, TypeOK, FwState
    <2>2. role \in Roles
      <3>1. s \in Desired(fw.fleet.sites)
        BY <1>3 DEF FleetWriteSite, LifeInv, FwDeclared
      <3>2. role # NoRole /\ fw.fleet.sites \in [Sites -> Roles \cup {NoRole}]
        BY <3>1 DEF Desired, TypeOK, FwState, FleetObject
      <3> QED
        BY <2>1, <3>2
    <2> HIDE DEF role
    <2>3. CASE ~site[s].live /\ CreateSite(s, NewSite(role))
      <3>1. NewSite(role) \in SiteObject
        BY <2>2, NewSiteFacts
      <3>2. /\ NewSite(role).live /\ NewSite(role).role = role
            /\ ~NewSite(role).derived /\ NewSite(role).phase = "none"
        BY DEF NewSite, NoSite
      <3> QED
        BY <2>1, <2>2, <2>3, <3>1, <3>2, CreateLife DEF LifeInv
    <2>4. CASE Current(s, fw.es) /\ PutSite(s, Stored(s, Reasserted(fw.es, role)))
      <3>1. fw.es = site[s] /\ site[s].live
        BY <2>1, <2>4, CurrentIsSame
      <3>2. /\ Reasserted(fw.es, role) \in SiteObject
            /\ LifeWrite(site[s], Reasserted(fw.es, role))
        BY <2>1, <2>2, <3>1 DEF Reasserted, SiteObject, LifeWrite
      <3> QED
        BY <2>1, <2>4, <3>2, StoredLife
    <2>5. CASE UNCHANGED siteVars
      BY <2>1, <2>5 DEF LifeStep
    <2> QED
      BY <1>3, <2>1, <2>3, <2>4, <2>5 DEF FleetWriteSite, role
  <1> QED
    BY <1>1, <1>2, <1>3 DEF FleetNext, FleetStep, FleetFaultStep,
       FleetGet, FleetGetSite, FleetWriteFault, FleetList, FleetStatus,
       FleetListFault, FleetDeleteFault

\* From its Get to its last write the Fleet controller has only declared names to do.
LEMMA FleetDeclared ==
    ASSUME TypeOK, FwDeclared, FleetNext
    PROVE  FwDeclared'
  <1>1. fw \in FwState /\ IdleFw \in FwState /\ IdleFw.pc = "idle"
    BY IdleType DEF TypeOK
  <1>2. CASE FleetGet
    <2>1. CASE fleetCache.live
      <3> DEFINE D == Desired(fleetCache.sites)
      <3>1. fw' = [IdleFw EXCEPT !.pc = "apply", !.fleet = fleetCache, !.todo = D]
        BY <1>2, <2>1 DEF FleetGet
      <3> HIDE DEF D
      <3>2. fw'.pc = "apply" /\ fw'.todo = D /\ fw'.fleet = fleetCache
        BY <1>1, <3>1 DEF FwState
      <3> QED
        BY <3>2 DEF FwDeclared, D
    <2>2. CASE ~fleetCache.live
      BY <1>2, <2>2 DEF FleetGet, FwDeclared
    <2> QED
      BY <2>1, <2>2
  <1>3. CASE FleetGetSite
    <2>1. /\ fw.pc = "apply" /\ fw.todo # {} /\ fw.todo \subseteq Nat
          /\ fw' = [fw EXCEPT !.pc = "write", !.s = First(fw.todo),
                              !.es = siteCache[First(fw.todo)]]
      BY <1>1, <1>3, SitesAssumption DEF FleetGetSite, FwState
    <2>2. First(fw.todo) \in fw.todo
      BY <2>1, LeastNatural DEF First
    <2>3. fw'.s = First(fw.todo) /\ fw'.todo = fw.todo /\ fw'.fleet = fw.fleet
      BY <1>1, <2>1 DEF FwState
    <2> QED
      BY <2>1, <2>2, <2>3 DEF FwDeclared
  <1>4. CASE FleetWriteSite \/ FleetWriteFault
    <2>1. /\ fw.pc = "write"
          /\ fw'.pc = "apply" /\ fw'.todo = fw.todo \ {fw.s} /\ fw'.fleet = fw.fleet
      BY <1>1, <1>4 DEF FleetWriteSite, FleetWriteFault, FleetApplied, FwState
    <2> QED
      BY <2>1 DEF FwDeclared
  <1>5. CASE FleetList
    <2> DEFINE V == {s \in Sites : /\ siteCache[s].live
                                   /\ siteCache[s].labelled
                                   /\ fw.fleet.sites[s] = NoRole}
    <2>1. fw' = [fw EXCEPT !.pc = "delete", !.todo = V]
      BY <1>5 DEF FleetList
    <2> HIDE DEF V
    <2>2. fw'.pc = "delete"
      BY <1>1, <2>1 DEF FwState
    <2> QED
      BY <2>2 DEF FwDeclared
  <1>6. CASE \E s \in Sites : FleetDelete(s) \/ FleetDeleteFault(s)
    <2>1. fw'.pc = "delete"
      BY <1>1, <1>6 DEF FleetDelete, FleetDeleteFault, FwState
    <2> QED
      BY <2>1 DEF FwDeclared
  <1>7. CASE FleetStatus \/ FleetListFault
    <2>1. fw' = IdleFw
      BY <1>7 DEF FleetStatus, FleetListFault
    <2> QED
      BY <1>1, <2>1 DEF FwDeclared
  <1> QED
    BY <1>2, <1>3, <1>4, <1>5, <1>6, <1>7 DEF FleetNext, FleetStep, FleetFaultStep

\* The cluster delivers, restarts and collects.
LEMMA ClusterLife ==
    ASSUME TypeOK, LifeInv, ClusterNext
    PROVE  LifeStep /\ EwAddressed' /\ FwDeclared'
  <1>1. CASE FleetEvent \/ SiteEvent \/ Resync
    BY <1>1 DEF FleetEvent, SiteEvent, Resync, apiVars, siteVars, LifeStep, LifeInv,
                EwAddressed, FwDeclared
  <1>2. ASSUME NEW s \in Sites, FleetGC(s) PROVE LifeStep /\ EwAddressed' /\ FwDeclared'
    BY <1>2, DeleteLife DEF FleetGC, LifeInv, EwAddressed, FwDeclared
  <1>3. CASE Restart
    BY <1>3, IdleType DEF Restart, LifeStep, EwAddressed, FwDeclared
  <1> QED
    BY <1>1, <1>2, <1>3 DEF ClusterNext

\* The user begins lives, changes roles and ends lives.
LEMMA UserLife ==
    ASSUME TypeOK, LifeInv, UserNext
    PROVE  LifeStep /\ UNCHANGED <<ew, fw>>
  <1> USE DEF apiVars, siteVars
  <1>1. CASE UserDeleteFleet
             \/ \E s \in Declarable, role \in Roles \cup {NoRole} : UserDeclare(s, role)
    BY <1>1 DEF UserDeleteFleet, UserDeclare, LifeStep
  <1>2. ASSUME NEW s \in Sites, NEW role \in Roles, UserEditSite(s, role)
        PROVE  LifeStep /\ UNCHANGED <<ew, fw>>
    <2> DEFINE es == [site[s] EXCEPT !.role = role]
    <2>1. es \in SiteObject /\ LifeWrite(site[s], es)
      BY <1>2, SiteFields DEF UserEditSite, SiteObject, LifeWrite
    <2> QED
      BY <1>2, <2>1, StoredLife DEF UserEditSite
  <1>3. ASSUME NEW s \in Sites, UserDeleteSite(s)
        PROVE  LifeStep /\ UNCHANGED <<ew, fw>>
    BY <1>3, DeleteLife DEF UserDeleteSite
  <1>4. ASSUME NEW s \in HandMade, NEW role \in Roles, NEW c \in BOOLEAN,
               NEW v \in Pins \cup {Unset}, UserCreateSite(s, role, c, v)
        PROVE  LifeStep /\ UNCHANGED <<ew, fw>>
    <2> DEFINE new == [NoSite(0) EXCEPT !.live = TRUE, !.role = role,
                                        !.colocated = c, !.vip = v]
    <2>1. s \in Sites /\ NoSite(0) \in SiteObject /\ v \in Octets
      BY SitesAssumption, NoSiteType DEF Octets
    <2>2. new \in SiteObject
      BY <2>1 DEF SiteObject
    <2>3. new.live /\ new.role = role /\ ~new.derived /\ new.phase = "none"
      BY DEF NoSite
    <2>4. ~site[s].live /\ CreateSite(s, new) /\ UNCHANGED <<ew, fw>>
      BY <1>4 DEF UserCreateSite
    <2> HIDE DEF new
    <2> QED
      BY <2>1, <2>2, <2>3, <2>4, CreateLife DEF LifeInv
  <1> QED
    BY <1>1, <1>2, <1>3, <1>4 DEF UserNext

\* Every step keeps the objects whole and is a step of the abstract specification.
LEMMA LifeInvStep ==
    ASSUME TypeOK, CopiesAgree, LifeInv, [Next]_vars
    PROVE  /\ LifeInv'
           /\ [Life!Next]_([s \in Sites |-> Seen(site[s])])
  <1>1. ASSUME LifeStep
        PROVE  SitesWhole' /\ [Life!Next]_([s \in Sites |-> Seen(site[s])])
    <2>1. CASE UNCHANGED site
      BY <2>1 DEF LifeInv, SitesWhole
    <2>2. ASSUME NEW s \in Sites, NEW es \in SiteObject, PutSite(s, es),
                 LifeWrite(site[s], es)
          PROVE  SitesWhole' /\ [Life!Next]_([t \in Sites |-> Seen(site[t])])
      BY <2>2, LifeWriteStep DEF LifeInv
    <2> QED
      BY <1>1, <2>1, <2>2 DEF LifeStep
  <1>2. LifeStep /\ EwAddressed' /\ FwDeclared'
    <2>1. UNCHANGED ew => EwAddressed'
      BY DEF LifeInv, EwAddressed
    <2>2. UNCHANGED fw => FwDeclared'
      BY DEF LifeInv, FwDeclared
    <2>3. CASE EsNext
      BY <2>2, <2>3, EsLife
    <2>4. CASE FleetNext
      BY <2>1, <2>4, FleetLife, FleetDeclared DEF LifeInv
    <2>5. CASE ClusterNext
      BY <2>5, ClusterLife
    <2>6. CASE UserNext
      BY <2>1, <2>2, <2>6, UserLife
    <2>7. CASE UNCHANGED vars
      BY <2>1, <2>2, <2>7 DEF vars, LifeStep
    <2> QED
      BY <2>3, <2>4, <2>5, <2>6, <2>7 DEF Next
  <1> QED
    BY <1>1, <1>2 DEF LifeInv

\* The two controllers, for any number of sites and however stale their copies,
\* implement the life of a site as its user sees it: addressed once and as a whole,
\* deployed only after that, re-roled without losing its address.
THEOREM LifeIsImplemented == Spec => LifeImplemented
  <1>1. Init => LifeInv /\ Life!Init
    <2> SUFFICES ASSUME Init PROVE LifeInv /\ Life!Init
      OBVIOUS
    <2>1. site = [s \in Sites |-> NoSite(0)] /\ ew = IdleEw /\ fw = IdleFw
      BY DEF Init
    <2>2. LifeInv
      BY <2>1, IdleType DEF LifeInv, SitesWhole, Whole, NoSite, EwAddressed, FwDeclared
    <2>3. Seen(NoSite(0)) = Life!Absent
      BY DEF Seen, NoSite, Life!Absent, Life!Unaddressed, Unset, NoRole
    <2>4. [s \in Sites |-> Seen(site[s])] = [s \in Sites |-> Life!Absent]
      BY <2>1, <2>3
    <2> QED
      BY <2>2, <2>4 DEF Life!Init
  <1>2. TypeOK /\ CopiesAgree /\ LifeInv /\ [Next]_vars =>
            LifeInv' /\ [Life!Next]_([s \in Sites |-> Seen(site[s])])
    BY LifeInvStep
  <1> QED
    BY <1>1, <1>2, TypeCorrect, CopiesCorrect, PTL DEF Spec, LifeImplemented, Life!Spec
=============================================================================
