-------------------------- MODULE SiteIntentProofs --------------------------
(***************************************************************************)
(* Proofs about module SiteIntent, for any number of sites, any pool of at *)
(* most 14 octets, any hash starts, any pins and any bounds.               *)
(***************************************************************************)
EXTENDS SiteIntent, WellFoundedInduction, TLAPS

\* Every slot of the probe is an octet of the pool.
LEMMA SlotInPool ==
    ASSUME NEW s \in Sites, NEW k \in Nat
    PROVE  Slot(s, k) \in Pool
  BY PoolAssumption DEF Slot, Pool

\* The probe visits every octet of the pool.
LEMMA ProbeCoversPool ==
    ASSUME NEW s \in Sites, NEW v \in Pool
    PROVE  \E k \in 0..(PoolSize - 1) : Slot(s, k) = v
  <1> DEFINE d == v - 241
             k == IF d >= Start[s] THEN d - Start[s] ELSE d - Start[s] + PoolSize
  <1>1. /\ PoolSize \in Nat /\ PoolSize > 0
        /\ Start[s] \in Nat /\ Start[s] < PoolSize
        /\ d \in Nat /\ d < PoolSize
    BY PoolAssumption DEF Pool
  <1>2. k \in 0..(PoolSize - 1)
    BY <1>1
  <1>3. \A a, n \in Nat : a < n => a % n = a /\ (a + n) % n = a
    OBVIOUS
  <1>4. (Start[s] + k) % PoolSize = d
    BY <1>1, <1>3
  <1>5. Slot(s, k) = v
    BY <1>4, PoolAssumption DEF Slot, Pool
  <1> QED
    BY <1>2, <1>5

\* A non-empty set of naturals has a least element.
LEMMA LeastNatural ==
    ASSUME NEW T, T \subseteq Nat, T # {}
    PROVE  \E k \in T : \A j \in T : k <= j
  <1> DEFINE R == {ss \in Nat \X Nat : ss[1] < ss[2]}
  <1>1. IsWellFoundedOn(R, Nat)
    BY NatLessThanWellFounded DEF OpToRel
  <1> HIDE DEF R
  <1>2. \E x \in T : \A y \in T : <<y, x>> \notin R
    BY <1>1, WFMin
  <1>3. \A x, y \in Nat : <<y, x>> \notin R => x <= y
    <2> SUFFICES ASSUME NEW x \in Nat, NEW y \in Nat, y < x
                 PROVE  <<y, x>> \in R
      OBVIOUS
    <2>1. <<y, x>> \in Nat \X Nat /\ <<y, x>>[1] < <<y, x>>[2]
      OBVIOUS
    <2> QED
      BY <2>1, Zenon DEF R
  <1> QED
    BY <1>2, <1>3

\* The probe stays in the pool, and it returns an octet it was told is taken
\* only if the whole pool is.
LEMMA ProbeLemma ==
    ASSUME NEW s \in Sites, NEW taken
    PROVE  /\ Probe(s, taken) \in Pool
           /\ Probe(s, taken) \in taken => Pool \subseteq taken
  <1>1. CASE FreeSteps(s, taken) = {}
    <2>1. Pool \subseteq taken
      BY <1>1, ProbeCoversPool DEF FreeSteps
    <2>2. Probe(s, taken) = 240 + PoolSize
      BY <1>1 DEF Probe
    <2> QED
      BY <2>1, <2>2, PoolAssumption DEF Pool
  <1>2. CASE FreeSteps(s, taken) # {}
    <2> DEFINE F == FreeSteps(s, taken)
               k == CHOOSE i \in F : \A j \in F : i <= j
    <2>1. F \subseteq Nat
      BY PoolAssumption DEF FreeSteps
    <2>2. \E i \in F : \A j \in F : i <= j
      BY <1>2, <2>1, LeastNatural
    <2>3. k \in F
      BY <2>2
    <2>4. Probe(s, taken) = Slot(s, k)
      BY <1>2 DEF Probe
    <2>5. Slot(s, k) \notin taken
      BY <2>3 DEF FreeSteps
    <2>6. Slot(s, k) \in Pool
      BY <2>1, <2>3, SlotInPool
    <2> QED
      BY <2>4, <2>5, <2>6
  <1> QED
    BY <1>1, <1>2

-----------------------------------------------------------------------------
(* Types *)

\* The absent site is a site object.
LEMMA NoSiteType ==
    ASSUME NEW n \in Nat
    PROVE  NoSite(n) \in SiteObject
  BY DEF NoSite, SiteObject, Octets, Phases

\* What a site object has for fields, and what changing one gives.
LEMMA SiteFields ==
    ASSUME TypeOK, NEW s \in Sites
    PROVE  site[s] \in SiteObject /\ site[s].rv \in Nat
  <1>1. site[s] \in SiteObject
    BY DEF TypeOK
  <1> QED
    BY <1>1 DEF SiteObject

\* A new resourceVersion keeps a site object well-typed.
LEMMA SetRvType ==
    ASSUME NEW es \in SiteObject, NEW n \in Nat
    PROVE  [es EXCEPT !.rv = n] \in SiteObject
  BY DEF SiteObject

\* Storing a well-typed version keeps the store and the watch well-typed.
LEMMA PutSiteType ==
    ASSUME TypeOK, NEW s \in Sites, NEW es \in SiteObject, PutSite(s, es)
    PROVE  /\ site' \in [Sites -> SiteObject]
           /\ watch' \in Seq(SiteChange)
  <1>1. site \in [Sites -> SiteObject] /\ watch \in Seq(SiteChange)
    BY DEF TypeOK
  <1>2. [s |-> s, es |-> es] \in SiteChange
    BY DEF SiteChange
  <1> QED
    BY <1>1, <1>2 DEF PutSite

\* So does what the API server makes of a written object.
LEMMA StoredType ==
    ASSUME TypeOK, NEW s \in Sites, NEW es \in SiteObject
    PROVE  Stored(s, es) \in SiteObject
  BY SiteFields, SetRvType DEF Stored

\* A create keeps the store and the watch well-typed.
LEMMA CreateSiteType ==
    ASSUME TypeOK, NEW s \in Sites, NEW es \in SiteObject, CreateSite(s, es)
    PROVE  /\ site' \in [Sites -> SiteObject]
           /\ watch' \in Seq(SiteChange)
  <1>1. [es EXCEPT !.rv = site[s].rv + 1] \in SiteObject
    BY SiteFields, SetRvType
  <1> QED
    BY <1>1, PutSiteType DEF CreateSite

\* A delete does too.
LEMMA DeleteSiteType ==
    ASSUME TypeOK, NEW s \in Sites, DeleteSite(s)
    PROVE  /\ site' \in [Sites -> SiteObject]
           /\ watch' \in Seq(SiteChange)
           /\ missed' \in [Sites -> SUBSET Sites]
           /\ full' \in [Sites -> BOOLEAN]
  <1>1. NoSite(site[s].rv + 1) \in SiteObject
    BY NoSiteType, SiteFields
  <1>2. PutSite(s, NoSite(site[s].rv + 1))
    BY DEF DeleteSite
  <1> QED
    BY <1>1, <1>2, PutSiteType DEF DeleteSite, TypeOK

\* The VIPs allocateRanVIP finds taken are octets.
LEMMA TakenType ==
    ASSUME TypeOK, NEW s \in Sites
    PROVE  Taken(s) \in SUBSET Octets /\ {MgmtVIP} \in SUBSET Octets
  BY DEF TypeOK, Taken, Octets, SiteObject

\* deriveAddressing makes a well-typed object of a well-typed copy.
LEMMA DerivedType ==
    ASSUME TypeOK, ew.pc = "update"
    PROVE  Derived \in SiteObject
  <1>1. ew.s \in Sites /\ ew.es \in SiteObject
    BY DEF TypeOK, EwState
  <1>2. allocateRanVIP(ew.s, ew.es.vip, ew.taken) \in Octets
    BY <1>1, ProbeLemma DEF allocateRanVIP, Octets, SiteObject
  <1> QED
    BY <1>1, <1>2 DEF Derived, deriveAddressing, SiteObject, Octets

\* The values the two workers start from.
LEMMA IdleType ==
    /\ IdleEw \in EwState /\ IdleEw.pc = "idle"
    /\ IdleFw \in FwState /\ IdleFw.pc = "idle"
    /\ NoFleet \in FleetObject
  <1>1. NoSite(0) \in SiteObject
    BY NoSiteType
  <1>2. NoFleet \in FleetObject
    BY DEF NoFleet, FleetObject
  <1> QED
    BY <1>1, <1>2 DEF IdleEw, EwState, IdleFw, FwState

\* The initial state is well-typed.
LEMMA InitType == Init => TypeOK
  <1> SUFFICES ASSUME Init PROVE TypeOK
    OBVIOUS
  <1>1. NoSite(0) \in SiteObject
    BY NoSiteType
  <1>2. [NoFleet EXCEPT !.live = (Declarable # {})] \in FleetObject
    BY IdleType DEF FleetObject
  <1>3. fleet.live \in BOOLEAN
    BY DEF Init, NoFleet
  <1> QED
    BY <1>1, <1>2, <1>3, IdleType DEF Init, TypeOK

\* Each operation of the EdgeSite controller keeps the types.
LEMMA EsType ==
    ASSUME TypeOK, EsNext
    PROVE  TypeOK'
  <1> USE DEF apiVars, siteVars, cacheVars, queueVars, ghostVars
  <1>1. ASSUME NEW s \in Sites, NEW taken \in SUBSET Octets, StartReconcile(s, taken),
               faults' \in Nat
        PROVE  TypeOK'
    <2>1. siteCache[s] \in SiteObject
      BY DEF TypeOK
    <2>2. [pc |-> "update", s |-> s, es |-> siteCache[s], taken |-> taken] \in EwState
      BY <2>1 DEF EwState
    <2> QED
      BY <1>1, <2>2 DEF TypeOK, StartReconcile
  <1>2. ASSUME Fault PROVE faults' \in Nat
    BY <1>2 DEF Fault, TypeOK
  <1>3. ASSUME NEW s \in Sites, EsGet(s) PROVE TypeOK'
    BY <1>1, <1>3, TakenType DEF EsGet, TypeOK
  <1>4. ASSUME NEW s \in Sites, EsGetListFault(s) PROVE TypeOK'
    BY <1>1, <1>2, <1>4, TakenType DEF EsGetListFault
  <1>5. ASSUME EsRequeue, ew.pc # "idle"
        PROVE  /\ ew' \in EwState /\ ew'.pc = "idle"
               /\ esQueue' \in SUBSET Sites
    BY <1>5, IdleType DEF EsRequeue, TypeOK
  <1>6. CASE EsDerive
    <2>1. ew.s \in Sites /\ Derived \in SiteObject /\ ew \in EwState
      BY <1>6, DerivedType DEF EsDerive, TypeOK
    <2>2. CASE Derived = ew.es
      <3>1. [ew EXCEPT !.pc = "finish"] \in EwState
        BY <2>1 DEF EwState
      <3>2. [ew EXCEPT !.pc = "finish"].s = ew.s
        BY <2>1 DEF EwState
      <3> QED
        BY <1>6, <2>1, <2>2, <3>1, <3>2 DEF EsDerive, TypeOK
    <2>3. CASE Derived # ew.es
      <3>1. Stored(ew.s, Derived) \in SiteObject
        BY <2>1, StoredType
      <3>2. site' \in [Sites -> SiteObject] /\ watch' \in Seq(SiteChange)
        BY <1>6, <2>1, <2>3, <3>1, PutSiteType DEF EsDerive
      <3>3. ew' \in EwState /\ ew'.s = ew.s
        BY <1>6, <2>1, <2>3, <3>1 DEF EsDerive, EwState
      <3>4. missed' \in [Sites -> SUBSET Sites] /\ full' \in [Sites -> BOOLEAN]
        <4> DEFINE M == {t \in Holders(ew.s) : site[t].vip \notin ew.taken}
        <4>1. missed \in [Sites -> SUBSET Sites] /\ full \in [Sites -> BOOLEAN]
          BY DEF TypeOK
        <4>2. M \in SUBSET Sites
          BY DEF Holders
        <4>3. \/ missed' = [missed EXCEPT ![ew.s] = M]
              \/ missed' = missed
          BY <1>6, <2>3 DEF EsDerive
        <4>4. \/ full' = [full EXCEPT ![ew.s] = (Pool \subseteq ew.taken)]
              \/ full' = full
          BY <1>6, <2>3 DEF EsDerive
        <4> HIDE DEF M
        <4> QED
          BY <4>1, <4>2, <4>3, <4>4
      <3> QED
        BY <1>6, <2>1, <3>2, <3>3, <3>4 DEF EsDerive, TypeOK
    <2> QED
      BY <2>2, <2>3
  <1>7. CASE EsDeriveConflict
    BY <1>5, <1>7 DEF EsDeriveConflict, TypeOK
  <1>8. ASSUME ew.pc # "idle", NEW p \in Phases
        PROVE  Stored(ew.s, [site[ew.s] EXCEPT !.phase = p]) \in SiteObject
    <2>1. ew.s \in Sites /\ site[ew.s] \in SiteObject
      BY <1>8 DEF TypeOK
    <2>2. [site[ew.s] EXCEPT !.phase = p] \in SiteObject
      BY <1>8, <2>1 DEF SiteObject
    <2> QED
      BY <2>1, <2>2, StoredType
  <1>9. ASSUME ew.pc # "idle", WriteFailedStatus
        PROVE  site' \in [Sites -> SiteObject] /\ watch' \in Seq(SiteChange)
    <2>1. "Failed" \in Phases /\ ew.s \in Sites
      BY <1>9 DEF Phases, TypeOK
    <2> QED
      BY <1>8, <1>9, <2>1, PutSiteType DEF WriteFailedStatus, TypeOK
  <1>10. CASE EsDeriveFault
    BY <1>2, <1>5, <1>9, <1>10 DEF EsDeriveFault, TypeOK
  <1>11. CASE EsFinish
    <2>1. "Deploying" \in Phases /\ ew.s \in Sites /\ ew.pc # "idle"
      BY <1>11 DEF Phases, TypeOK, EsFinish
    <2>2. CASE Current(ew.s, ew.es)
      <3>1. site' \in [Sites -> SiteObject] /\ watch' \in Seq(SiteChange)
        BY <1>8, <1>11, <2>1, <2>2, PutSiteType DEF EsFinish
      <3> QED
        BY <1>11, <2>2, <3>1, IdleType DEF EsFinish, TypeOK
    <2>3. CASE ~Current(ew.s, ew.es)
      BY <1>5, <1>11, <2>1, <2>3 DEF EsFinish, TypeOK
    <2> QED
      BY <2>2, <2>3
  <1>12. CASE EsStepFault
    BY <1>2, <1>5, <1>9, <1>12 DEF EsStepFault, TypeOK
  <1> QED
    BY <1>3, <1>4, <1>6, <1>7, <1>10, <1>11, <1>12 DEF EsNext, EsStep, EsFaultStep

\* Each operation of the Fleet controller keeps the types.
LEMMA FleetType ==
    ASSUME TypeOK, FleetNext
    PROVE  TypeOK'
  <1> USE DEF apiVars, siteVars, cacheVars, queueVars, ghostVars
  <1>1. fw \in FwState /\ IdleFw \in FwState /\ IdleFw.pc = "idle"
    BY IdleType DEF TypeOK
  <1>2. CASE FleetGet
    <2>1. fleetCache \in FleetObject /\ Desired(fleetCache.sites) \in SUBSET Sites
      BY DEF TypeOK, Desired
    <2>2. fw' \in FwState /\ (fw'.pc = "write" => fw.pc = "write")
      BY <1>1, <1>2, <2>1 DEF FleetGet, FwState
    <2> QED
      BY <1>2, <2>2 DEF FleetGet, TypeOK
  <1>3. CASE FleetGetSite
    <2>1. First(fw.todo) \in Sites
      <3>1. fw.todo \subseteq Sites /\ fw.todo # {}
        BY <1>1, <1>3 DEF FleetGetSite, FwState
      <3>2. \E k \in fw.todo : \A j \in fw.todo : k <= j
        BY <3>1, SitesAssumption, LeastNatural
      <3> QED
        BY <3>1, <3>2 DEF First
    <2>2. siteCache[First(fw.todo)] \in SiteObject
      BY <2>1 DEF TypeOK
    <2>3. fw' \in FwState /\ fw'.s \in Sites
      BY <1>1, <1>3, <2>1, <2>2 DEF FleetGetSite, FwState
    <2> QED
      BY <1>3, <2>3 DEF FleetGetSite, TypeOK
  <1>4. ASSUME NEW err \in BOOLEAN, FleetApplied(err)
        PROVE  fw' \in FwState /\ fw'.pc = "apply"
    <2>1. NoSite(0) \in SiteObject
      BY NoSiteType
    <2> QED
      BY <1>1, <1>4, <2>1 DEF FleetApplied, FwState
  <1>5. CASE FleetWriteSite
    <2>1. fw.s \in Sites /\ fw.es \in SiteObject /\ fw.fleet.sites[fw.s] \in Roles \cup {NoRole}
      BY <1>1, <1>5 DEF FleetWriteSite, TypeOK, FwState, FleetObject
    <2>2. fw' \in FwState /\ fw'.pc = "apply"
      BY <1>4, <1>5 DEF FleetWriteSite
    <2>3. NewSite(fw.fleet.sites[fw.s]) \in SiteObject
      <3>1. NoSite(0) \in SiteObject
        BY NoSiteType
      <3> QED
        BY <2>1, <3>1 DEF NewSite, SiteObject
    <2>4. Stored(fw.s, Reasserted(fw.es, fw.fleet.sites[fw.s])) \in SiteObject
      <3>1. Reasserted(fw.es, fw.fleet.sites[fw.s]) \in SiteObject
        BY <2>1 DEF Reasserted, SiteObject
      <3> QED
        BY <2>1, <3>1, StoredType
    <2>5. site' \in [Sites -> SiteObject] /\ watch' \in Seq(SiteChange)
      <3>1. CASE CreateSite(fw.s, NewSite(fw.fleet.sites[fw.s]))
        BY <2>1, <2>3, <3>1, CreateSiteType
      <3>2. CASE PutSite(fw.s, Stored(fw.s, Reasserted(fw.es, fw.fleet.sites[fw.s])))
        BY <2>1, <2>4, <3>2, PutSiteType
      <3>3. CASE UNCHANGED siteVars
        BY <3>3 DEF TypeOK
      <3> QED
        BY <1>5, <3>1, <3>2, <3>3 DEF FleetWriteSite
    <2> QED
      BY <1>5, <2>2, <2>5 DEF FleetWriteSite, TypeOK
  <1>6. CASE FleetWriteFault
    <2>1. fw' \in FwState /\ fw'.pc = "apply"
      BY <1>4, <1>6 DEF FleetWriteFault
    <2> QED
      BY <1>6, <2>1 DEF FleetWriteFault, Fault, TypeOK
  <1>7. CASE FleetList
    <2> DEFINE V == {s \in Sites : /\ siteCache[s].live
                                   /\ siteCache[s].labelled
                                   /\ fw.fleet.sites[s] = NoRole}
    <2>1. fw' = [fw EXCEPT !.pc = "delete", !.todo = V] /\ V \in SUBSET Sites
      BY <1>7 DEF FleetList
    <2> HIDE DEF V
    <2>2. fw' \in FwState /\ fw'.pc = "delete"
      BY <1>1, <2>1 DEF FwState
    <2> QED
      BY <1>7, <2>2 DEF FleetList, TypeOK
  <1>8. ASSUME NEW s \in Sites, FleetDelete(s) PROVE TypeOK'
    <2>1. fw' \in FwState /\ fw'.pc = "delete"
      BY <1>1, <1>8 DEF FleetDelete, FwState
    <2>2. CASE site[s].live
      BY <1>8, <2>1, <2>2, DeleteSiteType DEF FleetDelete, TypeOK
    <2>3. CASE ~site[s].live
      BY <1>8, <2>1, <2>3 DEF FleetDelete, TypeOK
    <2> QED
      BY <2>2, <2>3
  <1>9. ASSUME NEW s \in Sites, FleetDeleteFault(s) PROVE TypeOK'
    <2>1. fw' \in FwState /\ fw'.pc = "delete"
      BY <1>1, <1>9 DEF FleetDeleteFault, FwState
    <2> QED
      BY <1>9, <2>1 DEF FleetDeleteFault, Fault, TypeOK
  <1>10. ASSUME NEW ready \in BOOLEAN, WriteFleetStatus(ready)
         PROVE  fleet' \in FleetObject
    <2>1. fleet \in FleetObject
      BY DEF TypeOK
    <2> QED
      BY <1>10, <2>1 DEF WriteFleetStatus, FleetObject
  <1>11. CASE FleetStatus
    <2>1. fw.errs \in BOOLEAN
      BY <1>1 DEF FwState
    <2>2. fleet' \in FleetObject
      BY <1>10, <1>11, <2>1 DEF FleetStatus
    <2> QED
      BY <1>1, <1>11, <2>1, <2>2 DEF FleetStatus, TypeOK
  <1>12. CASE FleetListFault
    <2>1. fleet' \in FleetObject
      BY <1>10, <1>12 DEF FleetListFault
    <2> QED
      BY <1>1, <1>12, <2>1 DEF FleetListFault, Fault, TypeOK
  <1> QED
    BY <1>2, <1>3, <1>5, <1>6, <1>7, <1>8, <1>9, <1>11, <1>12
       DEF FleetNext, FleetStep, FleetFaultStep

\* So do the watch, the collector, resyncs and restarts.
LEMMA ClusterType ==
    ASSUME TypeOK, ClusterNext
    PROVE  TypeOK'
  <1> USE DEF apiVars, siteVars, cacheVars, queueVars, ghostVars
  <1>1. CASE FleetEvent
    BY <1>1 DEF FleetEvent, TypeOK
  <1>2. CASE SiteEvent
    <2> DEFINE s == Head(watch).s
               es == Head(watch).es
    <2>1. watch \in Seq(SiteChange) /\ watch # <<>>
      BY <1>2 DEF SiteEvent, TypeOK
    <2>2. Head(watch) \in SiteChange /\ watch' \in Seq(SiteChange)
      BY <1>2, <2>1 DEF SiteEvent
    <2>3. s \in Sites /\ es \in SiteObject
      BY <2>2 DEF SiteChange
    <2>4. siteCache[s].owned \in BOOLEAN /\ es.owned \in BOOLEAN
      <3>1. siteCache[s] \in SiteObject
        BY <2>3 DEF TypeOK
      <3> QED
        BY <2>3, <3>1 DEF SiteObject
    <2>5. /\ siteCache' = [siteCache EXCEPT ![s] = es]
          /\ esQueue' = esQueue \cup {s}
          /\ fleetQueue' = (fleetQueue \/ siteCache[s].owned \/ es.owned)
      BY <1>2 DEF SiteEvent
    <2> HIDE DEF s, es
    <2> QED
      BY <1>2, <2>2, <2>3, <2>4, <2>5 DEF SiteEvent, TypeOK
  <1>3. ASSUME NEW s \in Sites, FleetGC(s) PROVE TypeOK'
    BY <1>3, DeleteSiteType DEF FleetGC, Fault, TypeOK
  <1>4. CASE Resync
    BY <1>4 DEF Resync, Fault, TypeOK
  <1>5. CASE Restart
    <2>1. fleet.live \in BOOLEAN
      BY DEF TypeOK, FleetObject
    <2> QED
      BY <1>5, <2>1, IdleType DEF Restart, Fault, TypeOK
  <1> QED
    BY <1>1, <1>2, <1>3, <1>4, <1>5 DEF ClusterNext

\* And the user.
LEMMA UserType ==
    ASSUME TypeOK, UserNext
    PROVE  TypeOK'
  <1> USE DEF apiVars, siteVars, cacheVars, queueVars, ghostVars
  <1>1. CASE UserDeleteFleet
    <2>1. fleet' \in FleetObject
      BY <1>1 DEF UserDeleteFleet, TypeOK, FleetObject
    <2> QED
      BY <1>1, <2>1 DEF UserDeleteFleet, Edit, TypeOK
  <1>2. ASSUME NEW s \in Declarable, NEW role \in Roles \cup {NoRole}, UserDeclare(s, role)
        PROVE  TypeOK'
    <2>1. fleet' \in FleetObject
      BY <1>2 DEF UserDeclare, TypeOK, FleetObject
    <2> QED
      BY <1>2, <2>1 DEF UserDeclare, Edit, TypeOK
  <1>3. ASSUME NEW s \in Sites, NEW role \in Roles, UserEditSite(s, role) PROVE TypeOK'
    <2>1. [site[s] EXCEPT !.role = role] \in SiteObject
      BY SiteFields DEF SiteObject
    <2>2. Stored(s, [site[s] EXCEPT !.role = role]) \in SiteObject
      BY <2>1, StoredType
    <2>3. site' \in [Sites -> SiteObject] /\ watch' \in Seq(SiteChange)
      BY <1>3, <2>2, PutSiteType DEF UserEditSite
    <2> QED
      BY <1>3, <2>3 DEF UserEditSite, Edit, TypeOK
  <1>4. ASSUME NEW s \in Sites, UserDeleteSite(s) PROVE TypeOK'
    BY <1>4, DeleteSiteType DEF UserDeleteSite, Edit, TypeOK
  <1>5. ASSUME NEW s \in HandMade, NEW role \in Roles, NEW c \in BOOLEAN,
               NEW v \in Pins \cup {Unset}, UserCreateSite(s, role, c, v)
        PROVE  TypeOK'
    <2> DEFINE es == [NoSite(0) EXCEPT !.live = TRUE, !.role = role,
                                       !.colocated = c, !.vip = v]
               M == {t \in Holders(s) : v # Unset}
    <2>1. s \in Sites /\ NoSite(0) \in SiteObject /\ v \in Octets
      BY SitesAssumption, NoSiteType DEF Octets
    <2>2. es \in SiteObject
      BY <2>1 DEF SiteObject
    <2>3. site' \in [Sites -> SiteObject] /\ watch' \in Seq(SiteChange)
      BY <1>5, <2>1, <2>2, CreateSiteType DEF UserCreateSite
    <2>4. M \in SUBSET Sites /\ missed' = [missed EXCEPT ![s] = M]
      BY <1>5 DEF UserCreateSite, Holders
    <2> HIDE DEF M
    <2>5. missed' \in [Sites -> SUBSET Sites]
      BY <2>1, <2>4 DEF TypeOK
    <2> QED
      BY <1>5, <2>3, <2>5 DEF UserCreateSite, Edit, TypeOK
  <1> QED
    BY <1>1, <1>2, <1>3, <1>4, <1>5 DEF UserNext

\* TypeOK is an invariant of the two controllers sharing the EdgeSites.
THEOREM TypeCorrect == Spec => []TypeOK
  <1>1. Init => TypeOK
    BY InitType
  <1>2. TypeOK /\ [Next]_vars => TypeOK'
    <2> SUFFICES ASSUME TypeOK, [Next]_vars PROVE TypeOK'
      OBVIOUS
    <2>1. CASE UNCHANGED vars
      BY <2>1 DEF vars, TypeOK
    <2> QED
      BY <2>1, EsType, FleetType, ClusterType, UserType DEF Next
  <1> QED
    BY <1>1, <1>2, PTL DEF Spec

=============================================================================
