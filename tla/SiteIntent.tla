----------------------------- MODULE SiteIntent -----------------------------
(***************************************************************************)
(* The EdgeSite objects of the management cluster and the two controllers  *)
(* that write them concurrently:                                           *)
(*                                                                         *)
(*   - the Fleet controller (fleet_controller.go) expands the entries of   *)
(*     one Fleet into EdgeSites and decommissions removed entries;         *)
(*   - the EdgeSite controller (edgesite_controller.go) derives a site's   *)
(*     addressing, allocates its N2 VIP, emits its packages and writes     *)
(*     its status.                                                         *)
(*                                                                         *)
(* Both read through a lagging informer cache and write to the API server, *)
(* which refuses an update whose resourceVersion is not the current one.   *)
(* Each controller runs one reconcile at a time (MaxConcurrentReconciles   *)
(* is left at 1), cut here at every API call it makes, so that the other   *)
(* controller, the user, the garbage collector and the watch may act in    *)
(* between.  What a site emits is the subject of module EdgeSite; here it  *)
(* is one step that may fail.                                              *)
(*                                                                         *)
(* An N2 VIP is represented by its last octet: every site of one RAN L2    *)
(* has the same three leading octets, and allocateRanVIP compares last     *)
(* octets only.                                                            *)
(***************************************************************************)
EXTENDS Integers, FiniteSets, Sequences

CONSTANTS
    Sites,      \* EdgeSite names, as numbers in the order sort.Strings gives them
    Declarable, \* the names the Fleet's entries may use
    HandMade,   \* the names a user may also create directly, without the Fleet
    Roles,      \* values of spec.role
    Pins,       \* last octets a user may write into spec.n2VIP of such a site
    PoolSize,   \* size of the standalone VIP pool (14 in the code)
    Start,      \* siteIndex(name) % PoolSize, for each site
    MaxEdits,   \* bound on user actions
    MaxFaults   \* bound on transient API errors, restarts, resyncs, early collections

VARIABLES
    site,       \* the EdgeSite of each name, in the API server
    siteCache,  \* the operator's informer cache of EdgeSites
    watch,      \* EdgeSite changes on their way to the cache, oldest first
    fleet,      \* the Fleet, in the API server
    fleetCache, \* the informer cache of the Fleet
    ew,         \* the EdgeSite controller's reconcile in progress
    fw,         \* the Fleet controller's reconcile in progress
    esQueue,    \* workqueue of the EdgeSite controller
    fleetQueue, \* is the Fleet in its controller's workqueue?
    edits,      \* user actions so far
    faults,     \* faults so far
    missed,     \* history: holders whose VIP was not seen when s got its VIP
    full        \* history: the pool had no free octet when s got its VIP

vars == <<site, siteCache, watch, fleet, fleetCache, ew, fw, esQueue, fleetQueue,
          edits, faults, missed, full>>
siteVars == <<site, watch>>
apiVars == <<siteVars, fleet>>
cacheVars == <<siteCache, fleetCache>>
queueVars == <<esQueue, fleetQueue>>
ghostVars == <<missed, full>>

-----------------------------------------------------------------------------
(* Addressing *)

Unset == 0
MgmtVIP == 240
Pool == 241..(240 + PoolSize)
Octets == {Unset, MgmtVIP} \cup Pool \cup Pins
NoRole == "none"

ASSUME SitesAssumption == Sites \subseteq Nat /\ Declarable \cup HandMade \subseteq Sites
ASSUME PoolAssumption ==
    /\ PoolSize \in 1..14
    /\ Start \in [Sites -> 0..(PoolSize - 1)]
ASSUME PinsAssumption == Pins \subseteq 1..255
ASSUME RolesAssumption == NoRole \notin Roles
ASSUME BoundsAssumption == MaxEdits \in Nat /\ MaxFaults \in Nat

\* The octet the linear probe visits at its k-th step.
Slot(s, k) == 241 + ((Start[s] + k) % PoolSize)

\* Mutant: the probe does not look at the octets that are taken.
FreeStepsMutant(s, taken) == 0..(PoolSize - 1)

\* The steps at which the probe finds a free octet.
FreeSteps(s, taken) == {k \in 0..(PoolSize - 1) : Slot(s, k) \notin taken}

\* Mutant: the fallback is one past the end of the pool.
ProbeMutant(s, taken) ==
    IF FreeSteps(s, taken) = {}
    THEN 241 + PoolSize
    ELSE Slot(s, CHOOSE k \in FreeSteps(s, taken) :
                    \A j \in FreeSteps(s, taken) : k <= j)

\* The probe stops at its first free octet; a full pool falls back to the last.
Probe(s, taken) ==
    IF FreeSteps(s, taken) = {}
    THEN 240 + PoolSize
    ELSE Slot(s, CHOOSE k \in FreeSteps(s, taken) :
                    \A j \in FreeSteps(s, taken) : k <= j)

\* An own VIP of the pool is returned verbatim.
allocateRanVIP(s, own, taken) == IF own \in Pool THEN own ELSE Probe(s, taken)

\* Every field is set only if empty.  "derived" stands for the twelve fields
\* other than n2VIP (podCIDR, uePool, ..., ranNic).
deriveAddressing(s, es, taken) ==
    [es EXCEPT !.derived = TRUE,
               !.vip = IF @ # Unset THEN @
                       ELSE IF es.colocated THEN MgmtVIP
                       ELSE allocateRanVIP(s, es.vip, taken)]

-----------------------------------------------------------------------------
(* Objects, and the API server's rules for writing them *)

Phases == {"none", "Failed", "Deploying"}
SiteObject == [live : BOOLEAN, rv : Nat, role : Roles \cup {NoRole},
               colocated : BOOLEAN, labelled : BOOLEAN, owned : BOOLEAN,
               vip : Octets, derived : BOOLEAN, phase : Phases]
FleetObject == [live : BOOLEAN, sites : [Sites -> Roles \cup {NoRole}],
                ready : BOOLEAN]
SiteChange == [s : Sites, es : SiteObject]

\* The absence of an object.  A name's resourceVersion only grows, so that no
\* version of a deleted object equals one of its successor.
NoSite(rv) == [live |-> FALSE, rv |-> rv, role |-> NoRole,
               colocated |-> FALSE, labelled |-> FALSE, owned |-> FALSE,
               vip |-> Unset, derived |-> FALSE, phase |-> "none"]

\* Mutant: a client writes without a resourceVersion, over any live object.
CurrentMutant(s, es) == site[s].live

\* Is es, as some client holds it, the version the API server has?
Current(s, es) == site[s].live /\ site[s].rv = es.rv

\* What a client holds after writing es: a write that changes nothing is
\* not a new version.
Stored(s, es) ==
    IF es = site[s] THEN es ELSE [es EXCEPT !.rv = site[s].rv + 1]

\* A new version of s is stored and sent to the watchers.
PutSite(s, es) ==
    /\ site' = [site EXCEPT ![s] = es]
    /\ watch' = IF es = site[s] THEN watch ELSE Append(watch, [s |-> s, es |-> es])

CreateSite(s, es) == PutSite(s, [es EXCEPT !.rv = site[s].rv + 1])

\* Deleting the object forgets the history of its VIP.
DeleteSite(s) ==
    /\ PutSite(s, NoSite(site[s].rv + 1))
    /\ missed' = [t \in Sites |-> IF t = s THEN {} ELSE missed[t] \ {s}]
    /\ full' = [full EXCEPT ![s] = FALSE]

\* The holders of a VIP other than s.
Holders(s) == {t \in Sites \ {s} : site[t].live /\ site[t].vip # Unset}

-----------------------------------------------------------------------------
(* The EdgeSite controller: one reconcile, cut at its API calls *)

NoName == -1
IdleEw == [pc |-> "idle", s |-> NoName, es |-> NoSite(0), taken |-> {}]

\* An error is returned: the request is put back in the workqueue.
EsRequeue ==
    /\ ew' = IdleEw
    /\ esQueue' = esQueue \cup {ew.s}

Fault ==
    /\ faults < MaxFaults
    /\ faults' = faults + 1

\* allocateRanVIP's cached List: the octets the other sites hold.
Taken(s) ==
    {MgmtVIP} \cup {siteCache[t].vip : t \in {u \in Sites \ {s} :
                       siteCache[u].live /\ siteCache[u].vip # Unset}}

\* Mutant: the addressing is set on the object that the cache shares.
StartReconcileMutant(s, taken) ==
    /\ ew.pc = "idle"
    /\ s \in esQueue
    /\ esQueue' = esQueue \ {s}
    /\ siteCache' = [siteCache EXCEPT ![s].derived = @ \/ siteCache[s].live]
    /\ ew' = IF siteCache[s].live
             THEN [pc |-> "update", s |-> s, es |-> siteCache[s], taken |-> taken]
             ELSE ew
    /\ UNCHANGED <<apiVars, fleetCache, fw, fleetQueue, edits, ghostVars>>

\* Reconcile starts with a cached Get; a missing site ends it.
StartReconcile(s, taken) ==
    /\ ew.pc = "idle"
    /\ s \in esQueue
    /\ esQueue' = esQueue \ {s}
    /\ ew' = IF siteCache[s].live
             THEN [pc |-> "update", s |-> s, es |-> siteCache[s], taken |-> taken]
             ELSE ew
    /\ UNCHANGED <<apiVars, cacheVars, fw, fleetQueue, edits, ghostVars>>

\* The Get and the List are both cache reads with no write between them.  They
\* are one step: were s to change in the cache between them, the copy from Get
\* would already be outdated and every write of this reconcile refused.
EsGet(s) ==
    /\ StartReconcile(s, Taken(s))
    /\ UNCHANGED faults

\* An error of List is ignored: only the reserved octet counts as taken.
EsGetListFault(s) ==
    /\ siteCache[s].live
    /\ StartReconcile(s, {MgmtVIP})
    /\ Fault

Derived == deriveAddressing(ew.s, ew.es, ew.taken)

\* The derived fields are written if any of them was empty.
EsDerive ==
    /\ ew.pc = "update"
    /\ \/ /\ Derived = ew.es
          /\ ew' = [ew EXCEPT !.pc = "finish"]
          /\ UNCHANGED <<siteVars, ghostVars>>
       \/ /\ Derived # ew.es
          /\ Current(ew.s, ew.es)
          /\ PutSite(ew.s, Stored(ew.s, Derived))
          /\ ew' = [ew EXCEPT !.pc = "finish", !.es = Stored(ew.s, Derived)]
          /\ IF ew.es.vip = Unset
             THEN /\ missed' = [missed EXCEPT ![ew.s] =
                        {t \in Holders(ew.s) : site[t].vip \notin ew.taken}]
                  /\ full' = [full EXCEPT ![ew.s] = Pool \subseteq ew.taken]
             ELSE UNCHANGED ghostVars
    /\ UNCHANGED <<fleet, cacheVars, fw, queueVars, edits, faults>>

\* The site changed or went away since the cached Get.  step() then tries to
\* write a Failed status with the same resourceVersion, which is refused too.
EsDeriveConflict ==
    /\ ew.pc = "update"
    /\ Derived # ew.es
    /\ ~Current(ew.s, ew.es)
    /\ EsRequeue
    /\ UNCHANGED <<apiVars, cacheVars, fw, fleetQueue, edits, faults, ghostVars>>

\* step() on any other error: a Failed status, whose own failure is ignored.
WriteFailedStatus ==
    IF Current(ew.s, ew.es)
    THEN PutSite(ew.s, Stored(ew.s, [site[ew.s] EXCEPT !.phase = "Failed"]))
    ELSE UNCHANGED siteVars

EsDeriveFault ==
    /\ ew.pc = "update"
    /\ Derived # ew.es
    /\ Fault
    /\ WriteFailedStatus
    /\ EsRequeue
    /\ UNCHANGED <<fleet, cacheVars, fw, fleetQueue, edits, ghostVars>>

\* Mutant: the success status is patched, whatever the site is by now.
EsFinishMutant ==
    /\ ew.pc = "finish"
    /\ IF site[ew.s].live
       THEN PutSite(ew.s, Stored(ew.s, [site[ew.s] EXCEPT !.phase = "Deploying"]))
       ELSE UNCHANGED siteVars
    /\ ew' = IdleEw
    /\ UNCHANGED <<fleet, cacheVars, fw, queueVars, edits, faults, ghostVars>>

\* Everything is emitted; the success status is written, or the reconcile
\* fails with the conflict.
EsFinish ==
    /\ ew.pc = "finish"
    /\ IF Current(ew.s, ew.es)
       THEN /\ PutSite(ew.s, Stored(ew.s, [site[ew.s] EXCEPT !.phase = "Deploying"]))
            /\ ew' = IdleEw
            /\ UNCHANGED esQueue
       ELSE /\ EsRequeue
            /\ UNCHANGED siteVars
    /\ UNCHANGED <<fleet, cacheVars, fw, fleetQueue, edits, faults, ghostVars>>

\* A step between the addressing and the status failed.
EsStepFault ==
    /\ ew.pc = "finish"
    /\ Fault
    /\ WriteFailedStatus
    /\ EsRequeue
    /\ UNCHANGED <<fleet, cacheVars, fw, fleetQueue, edits, ghostVars>>

-----------------------------------------------------------------------------
(* The Fleet controller *)

NoFleet == [live |-> FALSE, sites |-> [s \in Sites |-> NoRole], ready |-> FALSE]
IdleFw == [pc |-> "idle", fleet |-> NoFleet, todo |-> {}, s |-> NoName,
           es |-> NoSite(0), errs |-> FALSE]

Desired(f) == {s \in Sites : f[s] # NoRole}
First(S) == CHOOSE s \in S : \A t \in S : s <= t

FleetGet ==
    /\ fw.pc = "idle"
    /\ fleetQueue
    /\ fleetQueue' = FALSE
    /\ fw' = IF fleetCache.live
             THEN [IdleFw EXCEPT !.pc = "apply", !.fleet = fleetCache,
                                 !.todo = Desired(fleetCache.sites)]
             ELSE fw
    /\ UNCHANGED <<apiVars, cacheVars, ew, esQueue, edits, faults, ghostVars>>

\* applyEdgeSite's cached Get, for the next name in sorted order.
FleetGetSite ==
    /\ fw.pc = "apply"
    /\ fw.todo # {}
    /\ fw' = [fw EXCEPT !.pc = "write", !.s = First(fw.todo),
                        !.es = siteCache[First(fw.todo)]]
    /\ UNCHANGED <<apiVars, cacheVars, ew, queueVars, edits, faults, ghostVars>>

NewSite(role) ==
    [NoSite(0) EXCEPT !.live = TRUE, !.role = role, !.labelled = TRUE, !.owned = TRUE]

\* Mutant: the spec is rebuilt from the Fleet's entry.
ReassertedMutant(es, role) == [es EXCEPT !.labelled = TRUE, !.role = role, !.vip = Unset]

\* Update in place: the label and the declared intent, on the cached copy.
Reasserted(es, role) == [es EXCEPT !.labelled = TRUE, !.role = role]

\* The next name is tried whatever became of this one.
FleetApplied(err) ==
    fw' = [fw EXCEPT !.pc = "apply", !.todo = @ \ {fw.s}, !.s = NoName,
                     !.es = NoSite(0), !.errs = @ \/ err]

FleetWriteSite ==
    LET s == fw.s
        role == fw.fleet.sites[s]
    IN  /\ fw.pc = "write"
        /\ \/ /\ ~fw.es.live /\ ~site[s].live
              /\ CreateSite(s, NewSite(role))
              /\ FleetApplied(FALSE)
           \/ /\ fw.es.live /\ Current(s, fw.es)
              /\ PutSite(s, Stored(s, Reasserted(fw.es, role)))
              /\ FleetApplied(FALSE)
           \/ /\ IF fw.es.live THEN ~Current(s, fw.es) ELSE site[s].live
              /\ FleetApplied(TRUE)
              /\ UNCHANGED siteVars
        /\ UNCHANGED <<fleet, cacheVars, ew, queueVars, edits, faults, ghostVars>>

FleetWriteFault ==
    /\ fw.pc = "write"
    /\ Fault
    /\ FleetApplied(TRUE)
    /\ UNCHANGED <<apiVars, cacheVars, ew, queueVars, edits, ghostVars>>

\* Mutant: a Fleet without entries is not looked at for removed ones.
FleetListMutant ==
    /\ fw.pc = "apply"
    /\ fw.todo = {}
    /\ fw' = [fw EXCEPT !.pc = "delete",
                        !.todo = {s \in Sites : /\ siteCache[s].live
                                                /\ siteCache[s].labelled
                                                /\ Desired(fw.fleet.sites) # {}
                                                /\ fw.fleet.sites[s] = NoRole}]
    /\ UNCHANGED <<apiVars, cacheVars, ew, queueVars, edits, faults, ghostVars>>

\* The cached List of the labelled sites that no entry declares any more.
FleetList ==
    /\ fw.pc = "apply"
    /\ fw.todo = {}
    /\ fw' = [fw EXCEPT !.pc = "delete",
                        !.todo = {s \in Sites : /\ siteCache[s].live
                                                /\ siteCache[s].labelled
                                                /\ fw.fleet.sites[s] = NoRole}]
    /\ UNCHANGED <<apiVars, cacheVars, ew, queueVars, edits, faults, ghostVars>>

\* Delete is by name only: it removes whatever object has the name now.
FleetDelete(s) ==
    /\ fw.pc = "delete"
    /\ s \in fw.todo
    /\ fw' = [fw EXCEPT !.todo = @ \ {s}]
    /\ IF site[s].live THEN DeleteSite(s) ELSE UNCHANGED <<siteVars, ghostVars>>
    /\ UNCHANGED <<fleet, cacheVars, ew, queueVars, edits, faults>>

FleetDeleteFault(s) ==
    /\ fw.pc = "delete"
    /\ s \in fw.todo
    /\ Fault
    /\ fw' = [fw EXCEPT !.todo = @ \ {s}, !.errs = TRUE]
    /\ UNCHANGED <<apiVars, cacheVars, ew, queueVars, edits, ghostVars>>

\* The Ready condition is written only over the version that was read.
WriteFleetStatus(ready) ==
    fleet' = IF fleet = fw.fleet THEN [fleet EXCEPT !.ready = ready] ELSE fleet

\* Mutant: errors of single sites do not bring the Fleet back.
FleetStatusMutant ==
    /\ fw.pc = "delete"
    /\ fw.todo = {}
    /\ WriteFleetStatus(~fw.errs)
    /\ fw' = IdleFw
    /\ UNCHANGED <<siteVars, cacheVars, ew, queueVars, edits, faults, ghostVars>>

\* With errors the Fleet is looked at again after 15 seconds; a refused status
\* write is only logged.
FleetStatus ==
    /\ fw.pc = "delete"
    /\ fw.todo = {}
    /\ WriteFleetStatus(~fw.errs)
    /\ fleetQueue' = (fleetQueue \/ fw.errs)
    /\ fw' = IdleFw
    /\ UNCHANGED <<siteVars, cacheVars, ew, esQueue, edits, faults, ghostVars>>

\* List itself failed: fail() writes the status and returns the error.
FleetListFault ==
    /\ fw.pc = "apply"
    /\ fw.todo = {}
    /\ Fault
    /\ WriteFleetStatus(FALSE)
    /\ fleetQueue' = TRUE
    /\ fw' = IdleFw
    /\ UNCHANGED <<siteVars, cacheVars, ew, esQueue, edits, ghostVars>>

-----------------------------------------------------------------------------
(* The watch, the garbage collector, restarts (external to the repository) *)

\* The oldest EdgeSite change reaches the cache and the event handlers: the site
\* itself (For) and the Fleet that owns its old or its new version (Owns).
SiteEvent ==
    /\ watch # <<>>
    /\ LET s == Head(watch).s
           es == Head(watch).es
       IN  /\ siteCache' = [siteCache EXCEPT ![s] = es]
           /\ esQueue' = esQueue \cup {s}
           /\ fleetQueue' = (fleetQueue \/ siteCache[s].owned \/ es.owned)
    /\ watch' = Tail(watch)
    /\ UNCHANGED <<site, fleet, fleetCache, ew, fw, edits, faults, ghostVars>>

FleetEvent ==
    /\ fleetCache # fleet
    /\ fleetCache' = fleet
    /\ fleetQueue' = TRUE
    /\ UNCHANGED <<apiVars, siteCache, ew, fw, esQueue, edits, faults, ghostVars>>

\* The sites owned by a deleted Fleet are collected.  While the operator has
\* not seen the deletion it creates them again, as often as they are collected:
\* a collection that early is counted as a fault.
FleetGC(s) ==
    /\ ~fleet.live
    /\ site[s].live /\ site[s].owned
    /\ DeleteSite(s)
    /\ IF fleetCache.live THEN Fault ELSE UNCHANGED faults
    /\ UNCHANGED <<fleet, cacheVars, ew, fw, queueVars, edits>>

\* Every informer re-delivers its cache now and then (every 10 hours).
Resync ==
    /\ Fault
    /\ esQueue' = esQueue \cup {s \in Sites : siteCache[s].live}
    /\ fleetQueue' = (fleetQueue \/ fleetCache.live)
    /\ UNCHANGED <<apiVars, cacheVars, ew, fw, edits, ghostVars>>

\* The operator dies at any point; its successor lists everything anew.
Restart ==
    /\ Fault
    /\ ew' = IdleEw
    /\ fw' = IdleFw
    /\ siteCache' = site
    /\ watch' = <<>>
    /\ fleetCache' = fleet
    /\ esQueue' = {s \in Sites : site[s].live}
    /\ fleetQueue' = fleet.live
    /\ UNCHANGED <<site, fleet, edits, ghostVars>>

-----------------------------------------------------------------------------
(* The user *)

Edit ==
    /\ edits < MaxEdits
    /\ edits' = edits + 1

\* Add, change or remove the Fleet's entry for s.
UserDeclare(s, role) ==
    /\ Edit
    /\ fleet.live /\ fleet.sites[s] # role
    /\ fleet' = [fleet EXCEPT !.sites[s] = role]
    /\ UNCHANGED <<siteVars, cacheVars, ew, fw, queueVars, faults, ghostVars>>

UserDeleteFleet ==
    /\ Edit
    /\ fleet.live
    /\ fleet' = [fleet EXCEPT !.live = FALSE]
    /\ UNCHANGED <<siteVars, cacheVars, ew, fw, queueVars, faults, ghostVars>>

\* An EdgeSite applied by hand may be colocated and may pin its VIP.
UserCreateSite(s, role, colocated, vip) ==
    /\ Edit
    /\ ~site[s].live
    /\ CreateSite(s, [NoSite(0) EXCEPT !.live = TRUE, !.role = role,
                                       !.colocated = colocated, !.vip = vip])
    /\ missed' = [missed EXCEPT ![s] = {t \in Holders(s) : vip # Unset}]
    /\ UNCHANGED <<fleet, cacheVars, ew, fw, queueVars, faults, full>>

UserDeleteSite(s) ==
    /\ Edit
    /\ site[s].live
    /\ DeleteSite(s)
    /\ UNCHANGED <<fleet, cacheVars, ew, fw, queueVars, faults>>

\* An edit of the declared intent of a live site.
UserEditSite(s, role) ==
    /\ Edit
    /\ site[s].live /\ site[s].role # role
    /\ PutSite(s, Stored(s, [site[s] EXCEPT !.role = role]))
    /\ UNCHANGED <<fleet, cacheVars, ew, fw, queueVars, faults, ghostVars>>

-----------------------------------------------------------------------------
(* Specification *)

Init ==
    /\ site = [s \in Sites |-> NoSite(0)]
    /\ siteCache = site
    /\ watch = <<>>
    /\ fleet = [NoFleet EXCEPT !.live = (Declarable # {})]
    /\ fleetCache = fleet
    /\ ew = IdleEw
    /\ fw = IdleFw
    /\ esQueue = {}
    /\ fleetQueue = fleet.live
    /\ edits = 0
    /\ faults = 0
    /\ missed = [s \in Sites |-> {}]
    /\ full = [s \in Sites |-> FALSE]

EsStep == EsDerive \/ EsDeriveConflict \/ EsFinish
EsFaultStep == EsDeriveFault \/ EsStepFault \/ \E s \in Sites : EsGetListFault(s)
EsNext == EsStep \/ EsFaultStep \/ \E s \in Sites : EsGet(s)

FleetStep ==
    \/ FleetGetSite \/ FleetWriteSite \/ FleetList \/ FleetStatus
    \/ \E s \in Sites : FleetDelete(s)
FleetFaultStep ==
    FleetWriteFault \/ FleetListFault \/ \E s \in Sites : FleetDeleteFault(s)
FleetNext == FleetGet \/ FleetStep \/ FleetFaultStep

ClusterNext ==
    \/ FleetEvent \/ SiteEvent
    \/ \E s \in Sites : FleetGC(s)
    \/ Resync
    \/ Restart

UserNext ==
    \/ UserDeleteFleet
    \/ \E s \in Declarable, role \in Roles \cup {NoRole} : UserDeclare(s, role)
    \/ \E s \in Sites, role \in Roles : UserEditSite(s, role)
    \/ \E s \in Sites : UserDeleteSite(s)
    \/ \E s \in HandMade, role \in Roles, c \in BOOLEAN, v \in Pins \cup {Unset} :
          UserCreateSite(s, role, c, v)

Next == EsNext \/ FleetNext \/ ClusterNext \/ UserNext

Spec == Init /\ [][Next]_vars

\* The controllers and the watch keep running and a queued request is served;
\* users, faults and resyncs are not obliged to happen.
Fairness ==
    /\ WF_vars(EsStep)
    /\ WF_vars(FleetGet)
    /\ WF_vars(FleetStep)
    /\ WF_vars(FleetEvent)
    /\ WF_vars(SiteEvent)
    /\ \A s \in Sites : SF_vars(EsGet(s)) /\ WF_vars(FleetGC(s))

FairSpec == Spec /\ Fairness

-----------------------------------------------------------------------------
(* Properties *)

EwState == [pc : {"idle", "update", "finish"}, s : Sites \cup {NoName},
            es : SiteObject, taken : SUBSET Octets]
FwState == [pc : {"idle", "apply", "write", "delete"}, fleet : FleetObject, todo : SUBSET Sites,
            s : Sites \cup {NoName}, es : SiteObject, errs : BOOLEAN]

\* Every variable has its type, and a reconcile in progress has a name to work on.
TypeOK ==
    /\ site \in [Sites -> SiteObject] /\ siteCache \in [Sites -> SiteObject]
    /\ watch \in Seq(SiteChange)
    /\ fleet \in FleetObject /\ fleetCache \in FleetObject
    /\ ew \in EwState /\ (ew.pc # "idle" => ew.s \in Sites)
    /\ fw \in FwState /\ (fw.pc = "write" => fw.s \in Sites)
    /\ esQueue \in SUBSET Sites /\ fleetQueue \in BOOLEAN
    /\ edits \in Nat /\ faults \in Nat
    /\ missed \in [Sites -> SUBSET Sites] /\ full \in [Sites -> BOOLEAN]

\* c is some version of o, no newer than o is now.
IsVersionOf(c, o) == c.rv <= o.rv /\ (c.rv = o.rv => c = o)

\* Every copy of an EdgeSite that lives somewhere (in the cache, on the watch, in
\* a reconcile of either controller) is a version the API server has had, and a
\* copy whose resourceVersion is still current is the object itself.  It is what
\* lets a controller write back a whole cached object.
CopiesAgree ==
    /\ \A s \in Sites : IsVersionOf(siteCache[s], site[s])
    /\ \A i \in 1..Len(watch) : IsVersionOf(watch[i].es, site[watch[i].s])
    /\ ew.pc # "idle" => IsVersionOf(ew.es, site[ew.s])
    /\ fw.pc = "write" => IsVersionOf(fw.es, site[fw.s])

\* Two sites have the same N2 VIP of the pool only if the List of the one that
\* was allocated later did not show the other's VIP (a lagging cache, a failed
\* List, a VIP pinned by hand afterwards), or found no free octet: the probe of
\* allocateRanVIP itself never hands out an octet it can see.
CollisionExplained ==
    \A s, t \in Sites :
        (/\ s # t
         /\ site[s].live /\ site[t].live
         /\ site[s].vip = site[t].vip /\ site[s].vip \in Pool)
        => \/ t \in missed[s] \/ full[s]
           \/ s \in missed[t] \/ full[t]

\* The claim of allocateRanVIP's comment: any two sites of the pool have
\* distinct VIPs, while there are no more sites than octets.
CollisionFree ==
    Cardinality({s \in Sites : site[s].live}) <= PoolSize =>
        \A s, t \in Sites :
            s # t /\ site[s].live /\ site[t].live /\ site[s].vip \in Pool
                => site[s].vip # site[t].vip

\* Once a live site has an N2 VIP, no step of any controller changes or clears
\* it ("it never shifts when another site is added or deleted"): the Fleet's
\* update of a cached copy without a VIP never overwrites one just allocated.
VipStable ==
    [][\A s \in Sites :
          site[s].live /\ site'[s].live /\ site[s].vip # Unset
              => site'[s].vip = site[s].vip]_site

\* The EdgeSite controller never reverts what the Fleet or a user declared:
\* its updates leave role, label and owner of every live site as they are.
IntentKept ==
    [][EsNext => \A s \in Sites :
          site[s].live =>
              /\ site'[s].live
              /\ site'[s].role = site[s].role
              /\ site'[s].labelled = site[s].labelled
              /\ site'[s].owned = site[s].owned]_vars

\* What a user sees of a site.
Seen(es) == [live |-> es.live, role |-> es.role, vip |-> es.vip,
             addressed |-> es.derived, phase |-> es.phase]

Life == INSTANCE SiteLife WITH Names <- Sites, life <- [s \in Sites |-> Seen(site[s])]

\* The two controllers, each writing whole objects from copies that may be stale,
\* implement the life of a site as its user sees it: addressed once, as a whole, and
\* reported as deployed only after that, also when the site was deleted and created
\* again under a reconcile in progress.
LifeImplemented == Life!Spec

\* A site that stays declared ends up existing with the declared role, an N2
\* VIP and a Deploying status, whatever conflicts, faults, restarts and
\* deletions came before.
DeclaredConverges ==
    \A s \in Sites, role \in Roles :
        <>[](fleet.live /\ fleet.sites[s] = role)
            => <>[](/\ site[s].live /\ site[s].role = role
                    /\ site[s].vip # Unset /\ site[s].phase = "Deploying")

\* What the Fleet manages goes with its declaration: a site whose entry is removed
\* ends up deleted, one that was made by hand and adopted by an entry included, and
\* so do the sites of a deleted Fleet, except those it adopted: they have its label
\* and no owner.
RemovedConverges ==
    \A s \in Sites :
        /\ <>[](fleet.live /\ fleet.sites[s] = NoRole)
              => <>[](site[s].live => ~site[s].labelled /\ ~site[s].owned)
        /\ <>[](~fleet.live) => <>[](site[s].live => ~site[s].owned)
=============================================================================
