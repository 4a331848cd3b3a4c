------------------------------ MODULE EdgeSite ------------------------------
(***************************************************************************)
(* What the EdgeSite controller (edgesite_controller.go) emits for a site: *)
(* PackageVariants, IPClaims, a MeshLink and a NetworkSlice on the         *)
(* management cluster, owned by the EdgeSite, and manifests put into the   *)
(* site's Git deploy repo, owned by nobody.                                *)
(*                                                                         *)
(* Sites are created, edited, deleted and re-created under the same name;  *)
(* the garbage collector removes the objects whose owner (a name and a     *)
(* uid) is gone, at any time and in any order; the controller runs one     *)
(* reconcile at a time, one step at a time, from a lagging cache.          *)
(*                                                                         *)
(* The values the derived addressing gets are the subject of SiteIntent,   *)
(* the life of a MeshLink and its finalizer that of MeshLink: here both    *)
(* are one object that exists or not.  A manifest is known by the site     *)
(* and the kind of gNB it was rendered for.                                *)
(***************************************************************************)
EXTENDS Integers, Sequences, FiniteSets

CONSTANTS
    Names,      \* EdgeSite names; cluster-<n>, the deploy repo of n, is called n here
    Mgmt,       \* the deploy repo of the management cluster
    Intents,    \* the intents users declare
    ClaimKinds, \* the IPClaims of a site, in order (pod, access, core, uepool)
    MaxUpsets   \* bound on user actions, transient errors, restarts and resyncs together

VARIABLES
    site,       \* the EdgeSite of each name, in the API server
    siteCache,  \* the operator's informer cache of EdgeSites
    behind,     \* the names whose cached copy is not the current version
    child,      \* the objects emitted on the management cluster
    files,      \* the manifests in the deploy repos, each with the site it is for
    repos,      \* the deploy repos that exist
    w,          \* the reconcile in progress
    queue,      \* the workqueue
    events,     \* owners of the PackageVariants and MeshLinks that changed
    edits, faults

vars == <<site, siteCache, behind, child, files, repos, w, queue, events, edits, faults>>

-----------------------------------------------------------------------------
(* Intents, and what they are expanded into *)

Roles == {"cp+upf", "upf-only"}

\* The gNBs deliverRAN tells apart: none, the zmq simulator, a USRP, a USRP that
\* is reached through a radio NIC, an O-RU (split 7.2).
RanModes == {"none", "zmq", "uhd", "uhd-net", "ofh"}
Intent == [role : Roles, colocated : BOOLEAN, ran : RanModes]
Claims == {ClaimKinds[i] : i \in 1..Len(ClaimKinds)}
PackageVariants == {"cluster", "cp", "multus", "upf", "datapath"}
PerCluster == {"multus", "datapath"}
Typed == {"link", "slice"}
RanPaths == {"ran/configmap", "ran/detect", "ran/radio-net", "ran/deployment"}
Paths == {"n2-expose", "core-slice", "subscriber"} \cup RanPaths
Repos == Names \cup {Mgmt}

ASSUME NamesAssumption == Mgmt \notin Names
ASSUME IntentsAssumption == Intents \subseteq Intent
ASSUME ClaimsAssumption ==
    /\ ClaimKinds \in Seq(STRING)
    /\ Claims \cap (PackageVariants \cup Typed \cup Paths \cup {"derive"}) = {}
ASSUME BoundsAssumption == MaxUpsets \in Nat

\* A colocated site is deployed through the repo of the management cluster.
deployRepo(n, i) == IF i.colocated THEN Mgmt ELSE n

If(c, steps) == IF c THEN steps ELSE <<>>

\* What the gNB's pod needs of the repo: its config, the script of its init
\* container if there is a radio to set up, and the network of the radio NIC.
Mounts(m) ==
    {"ran/configmap"}
    \cup (IF m \in {"uhd", "uhd-net", "ofh"} THEN {"ran/detect"} ELSE {})
    \cup (IF m = "uhd-net" THEN {"ran/radio-net"} ELSE {})

\* Mutant: the Deployment is put before what it mounts.
deliverRANMutant(m) ==
    <<"ran/deployment", "ran/configmap">>
    \o If("ran/detect" \in Mounts(m), <<"ran/detect">>)
    \o If("ran/radio-net" \in Mounts(m), <<"ran/radio-net">>)

\* The manifests of the gNB in the order they are put; a put that fails ends the
\* step, and the next reconcile starts over.
deliverRAN(m) ==
    <<"ran/configmap">>
    \o If("ran/detect" \in Mounts(m), <<"ran/detect">>)
    \o If("ran/radio-net" \in Mounts(m), <<"ran/radio-net">>)
    \o <<"ran/deployment">>

\* Mutant: the manifests come before the cluster whose repo they go to.
StepsMutant(i) ==
    If(i.role = "cp+upf", <<"cp", "n2-expose", "core-slice", "subscriber">>
                          \o If(i.ran # "none", deliverRAN(i.ran)))
    \o If(~i.colocated, <<"cluster">>)
    \o ClaimKinds
    \o <<"multus", "upf", "datapath">>
    \o If(i.role = "upf-only", <<"link", "slice">>)

\* The steps of Reconcile after the addressing, in order.
Steps(i) ==
    If(~i.colocated, <<"cluster">>)
    \o ClaimKinds
    \o If(i.role = "cp+upf", <<"cp", "n2-expose", "core-slice", "subscriber">>
                             \o If(i.ran # "none", deliverRAN(i.ran)))
    \o <<"multus", "upf", "datapath">>
    \o If(i.role = "upf-only", <<"link", "slice">>)

StepSet(i) == {Steps(i)[k] : k \in 1..Len(Steps(i))}

\* The object a step applies: its key and its spec.  cp-<n> and upf-<n> are
\* cloned into the deploy repo, the cluster package into the management repo.
Key(n, i, st) == <<st, IF st \in PerCluster THEN deployRepo(n, i) ELSE n>>
Spec_(n, i, st) == IF st \in {"cp", "upf"} THEN deployRepo(n, i) ELSE "fixed"
Keys == (PackageVariants \cup Claims \cup Typed) \X Repos

\* Mutant: PackageVariants are not watched either.
WatchedMutant == {"link"}

\* Changes of these kinds are watched (Owns); IPClaims and NetworkSlices are not.
Watched == PackageVariants \cup {"link"}

-----------------------------------------------------------------------------
(* Objects *)

NoIntent == [role |-> "upf-only", colocated |-> FALSE, ran |-> "none"]
NoSite(uid) == [live |-> FALSE, uid |-> uid, intent |-> NoIntent,
                derived |-> FALSE, phase |-> "none", fresh |-> FALSE]
Site == [live : BOOLEAN, uid : Nat, intent : Intent,
         derived : BOOLEAN, phase : {"none", "Failed", "Deploying"}, fresh : BOOLEAN]

SiteCopy == [live : BOOLEAN, uid : Nat, intent : Intent, derived : BOOLEAN]

NoName == "none"

ASSUME NoNameAssumption == NoName \notin Names

NoChild == [live |-> FALSE, owner |-> NoName, uid |-> 0, spec |-> NoName]

\* A manifest: the site, and for those of the gNB its kind.
NoFile == [site |-> NoName, ran |-> "none"]
Manifest(n, i, p) == [site |-> n, ran |-> IF p \in RanPaths THEN i.ran ELSE "none"]

\* Instead of resourceVersions: a write of a site by anybody but the reconcile in
\* progress leaves that reconcile with an old version, and any write the cache.
Touch(n) ==
    /\ behind' = behind \cup {n}
    /\ w' = IF w.n = n THEN [w EXCEPT !.old = TRUE] ELSE w

\* The reconcile writes its site, by whose result it goes on; if nothing changes
\* there is no new version.  It holds the current version, or the write is refused.
WriteSite(es) ==
    /\ ~w.old
    /\ site' = [site EXCEPT ![w.n] = es]
    /\ behind' = IF es = site[w.n] THEN behind ELSE behind \cup {w.n}

\* All steps succeeded for the intent the site has now.
Ready(n) == site[n].live /\ site[n].phase = "Deploying" /\ site[n].fresh

\* What a reconcile reads of a cached site: not its status.
Read(es) == [live |-> es.live, uid |-> es.uid, intent |-> es.intent, derived |-> es.derived]

IdleW == [n |-> NoName, es |-> Read(NoSite(0)), old |-> FALSE, todo |-> <<>>]

Fault ==
    /\ edits + faults < MaxUpsets
    /\ faults' = faults + 1

-----------------------------------------------------------------------------
(* Reconcile *)

EsGet(n) ==
    /\ w.n = NoName
    /\ n \in queue
    /\ queue' = queue \ {n}
    /\ w' = IF siteCache[n].live
            THEN [n |-> n, es |-> siteCache[n], old |-> n \in behind,
                  todo |-> <<"derive">> \o Steps(siteCache[n].intent)]
            ELSE w
    /\ UNCHANGED <<site, siteCache, behind, child, files, repos, events, edits, faults>>

StepDone == w' = [w EXCEPT !.todo = Tail(@)]

\* deriveAddressing writes the spec back once.
EsDerive ==
    /\ w.todo # <<>> /\ Head(w.todo) = "derive"
    /\ \/ /\ w.es.derived
          /\ StepDone
          /\ UNCHANGED <<site, behind>>
       \/ /\ ~w.es.derived
          /\ WriteSite([site[w.n] EXCEPT !.derived = TRUE, !.fresh = FALSE])
          /\ w' = [w EXCEPT !.es.derived = TRUE, !.todo = Tail(@)]
    /\ UNCHANGED <<siteCache, child, files, repos, queue, events, edits, faults>>

\* Mutant: the controller reference is not set.
applyOwnedMutant(n, es, st) ==
    LET k == Key(n, es.intent, st)
        new == [live |-> TRUE, owner |-> NoName, uid |-> es.uid,
                spec |-> Spec_(n, es.intent, st)]
        same == child[k].live /\ child[k].spec = new.spec
    IN  /\ child' = IF same THEN child ELSE [child EXCEPT ![k] = new]
        /\ UNCHANGED events

\* applyOwned: an untyped object whose spec is as wanted is left alone, its owner
\* included; a typed one is replaced.  The Get of an untyped object is not
\* cached, and no other controller writes it between the Get and the write.
applyOwned(n, es, st) ==
    LET k == Key(n, es.intent, st)
        new == [live |-> TRUE, owner |-> n, uid |-> es.uid, spec |-> Spec_(n, es.intent, st)]
        same == child[k].live /\ (IF st \in Typed THEN child[k] = new
                                  ELSE child[k].spec = new.spec)
    IN  /\ child' = IF same THEN child ELSE [child EXCEPT ![k] = new]
        /\ events' = IF same \/ st \notin Watched THEN events ELSE events \cup {n}

EsApply ==
    /\ w.todo # <<>> /\ Head(w.todo) \in PackageVariants \cup Claims \cup Typed
    /\ applyOwned(w.n, w.es, Head(w.todo))
    /\ StepDone
    /\ UNCHANGED <<site, siteCache, behind, files, repos, queue, edits, faults>>

\* Mutant: a file that is there already is not replaced.
EsPutOnceMutant ==
    /\ w.todo # <<>> /\ Head(w.todo) \in Paths
    /\ deployRepo(w.n, w.es.intent) \in repos
    /\ LET f == <<deployRepo(w.n, w.es.intent), Head(w.todo)>>
       IN  files' = IF files[f] = NoFile
                    THEN [files EXCEPT ![f] = Manifest(w.n, w.es.intent, f[2])]
                    ELSE files
    /\ StepDone
    /\ UNCHANGED <<site, siteCache, behind, child, repos, queue, events, edits, faults>>

\* gitPut into a repo that exists.
EsPut ==
    /\ w.todo # <<>> /\ Head(w.todo) \in Paths
    /\ deployRepo(w.n, w.es.intent) \in repos
    /\ LET f == <<deployRepo(w.n, w.es.intent), Head(w.todo)>>
       IN  files' = [files EXCEPT ![f] = Manifest(w.n, w.es.intent, Head(w.todo))]
    /\ StepDone
    /\ UNCHANGED <<site, siteCache, behind, child, repos, queue, events, edits, faults>>

\* step() on an error: a Failed status, whose own failure is ignored, and a retry.
StepFailed ==
    /\ \/ WriteSite([site[w.n] EXCEPT !.phase = "Failed"])
       \/ w.old /\ UNCHANGED <<site, behind>>
    /\ w' = IdleW
    /\ queue' = queue \cup {w.n}
    /\ UNCHANGED <<siteCache, child, files, repos, events, edits>>

\* The write of the addressing conflicts, or the deploy repo is not there yet.
EsStepError ==
    /\ w.todo # <<>>
    /\ \/ Head(w.todo) = "derive" /\ ~w.es.derived /\ w.old
       \/ Head(w.todo) \in Paths /\ deployRepo(w.n, w.es.intent) \notin repos
    /\ StepFailed
    /\ UNCHANGED faults

\* Any step may also fail transiently (an API or Gitea error, a stale cached Get
\* of a typed object), with nothing written.
EsStepFault ==
    /\ w.todo # <<>>
    /\ Head(w.todo) = "derive" => ~w.es.derived
    /\ Fault
    /\ StepFailed

EsFinish ==
    /\ w.n # NoName /\ w.todo = <<>>
    /\ w' = IdleW
    /\ \/ /\ WriteSite([site[w.n] EXCEPT !.phase = "Deploying", !.fresh = TRUE])
          /\ UNCHANGED queue
       \/ /\ w.old
          /\ queue' = queue \cup {w.n}
          /\ UNCHANGED <<site, behind>>
    /\ UNCHANGED <<siteCache, child, files, repos, events, edits, faults>>

-----------------------------------------------------------------------------
(* The rest of the management cluster *)

\* An informer catches up with an EdgeSite.
SiteEvent(n) ==
    /\ n \in behind
    /\ siteCache' = [siteCache EXCEPT ![n] = Read(site[n])]
    /\ behind' = behind \ {n}
    /\ queue' = queue \cup {n}
    /\ UNCHANGED <<site, child, files, repos, w, events, edits, faults>>

\* The event of an owned object reaches the workqueue, under its owner's name.
OwnedEvent(n) ==
    /\ n \in events
    /\ events' = events \ {n}
    /\ queue' = queue \cup {n}
    /\ UNCHANGED <<site, siteCache, behind, child, files, repos, w, edits, faults>>

Orphan(k) ==
    /\ child[k].live
    /\ ~(site[child[k].owner].live /\ site[child[k].owner].uid = child[k].uid)

\* The garbage collector removes an object whose owner is gone.
GC(k) ==
    /\ Orphan(k)
    /\ child' = [child EXCEPT ![k] = NoChild]
    /\ events' = IF k[1] \in Watched THEN events \cup {child[k].owner} ELSE events
    /\ UNCHANGED <<site, siteCache, behind, files, repos, w, queue, edits, faults>>

\* install-edge-platform.sh waits for the cluster the cluster package provisions,
\* creates its deploy repo and annotates the EdgeSite.  A repo is never removed.
OpenRepo(n) ==
    /\ child[<<"cluster", n>>].live
    /\ n \notin repos
    /\ repos' = repos \cup {n}
    /\ IF site[n].live THEN Touch(n) ELSE UNCHANGED <<behind, w>>
    /\ UNCHANGED <<site, siteCache, child, files, queue, events, edits, faults>>

Resync ==
    /\ Fault
    /\ queue' = queue \cup {n \in Names : siteCache[n].live}
    /\ UNCHANGED <<site, siteCache, behind, child, files, repos, w, events, edits>>

\* The operator dies between any two steps; its successor lists everything anew.
Restart ==
    /\ Fault
    /\ w' = IdleW
    /\ siteCache' = [n \in Names |-> Read(site[n])]
    /\ behind' = {}
    /\ queue' = {n \in Names : site[n].live}
    /\ events' = {}
    /\ UNCHANGED <<site, child, files, repos, edits>>

-----------------------------------------------------------------------------
(* Users (and the Fleet controller on their behalf) *)

Edit(n, es) ==
    /\ edits + faults < MaxUpsets
    /\ edits' = edits + 1
    /\ site' = [site EXCEPT ![n] = es]
    /\ Touch(n)
    /\ UNCHANGED <<siteCache, child, files, repos, queue, events, faults>>

UserCreate(n, i) ==
    /\ ~site[n].live
    /\ Edit(n, [NoSite(site[n].uid + 1) EXCEPT !.live = TRUE, !.intent = i])

UserEdit(n, i) ==
    /\ site[n].live /\ site[n].intent # i
    /\ Edit(n, [site[n] EXCEPT !.intent = i, !.fresh = FALSE])

UserDelete(n) ==
    /\ site[n].live
    /\ Edit(n, NoSite(site[n].uid))

-----------------------------------------------------------------------------
(* Specification *)

Init ==
    /\ site = [n \in Names |-> NoSite(0)]
    /\ siteCache = [n \in Names |-> Read(site[n])]
    /\ behind = {}
    /\ child = [k \in Keys |-> NoChild]
    /\ files = [f \in Repos \X Paths |-> NoFile]
    /\ repos = {Mgmt}
    /\ w = IdleW
    /\ queue = {}
    /\ events = {}
    /\ edits = 0
    /\ faults = 0

EsStep == EsDerive \/ EsApply \/ EsPut \/ EsStepError \/ EsFinish
EsNext == EsStep \/ EsStepFault \/ \E n \in Names : EsGet(n)

ClusterNext ==
    \/ \E n \in Names : SiteEvent(n) \/ OwnedEvent(n) \/ OpenRepo(n)
    \/ \E k \in Keys : GC(k)
    \/ Resync
    \/ Restart

UserNext ==
    \/ \E n \in Names : UserDelete(n)
    \/ \E n \in Names, i \in Intents : UserCreate(n, i) \/ UserEdit(n, i)

Next == EsNext \/ ClusterNext \/ UserNext

Spec == Init /\ [][Next]_vars

\* The controller, the watches, the collector and the onboarding script keep
\* going; a site in the workqueue is served although others are put back too.
Fairness ==
    /\ WF_vars(EsStep)
    /\ \A n \in Names : /\ SF_vars(EsGet(n))
                        /\ WF_vars(SiteEvent(n))
                        /\ WF_vars(OwnedEvent(n))
                        /\ WF_vars(OpenRepo(n))
    /\ WF_vars(\E k \in Keys : GC(k))

FairSpec == Spec /\ Fairness

-----------------------------------------------------------------------------
(* Properties *)

Child == [live : BOOLEAN, owner : Names \cup {NoName}, uid : Nat,
          spec : Repos \cup {NoName, "fixed"}]

\* Every variable has its type, an emitted object has an owner, and a reconcile
\* that has steps to do is for a site.
TypeOK ==
    /\ site \in [Names -> Site] /\ siteCache \in [Names -> SiteCopy]
    /\ behind \in SUBSET Names
    /\ child \in [Keys -> Child] /\ \A k \in Keys : child[k].live => child[k].owner \in Names
    /\ files \in [Repos \X Paths -> [site : Names \cup {NoName}, ran : RanModes]]
    /\ repos \in SUBSET Repos
    /\ w.n \in Names \cup {NoName} /\ w.es \in SiteCopy /\ w.old \in BOOLEAN
    /\ w.todo \in Seq(PackageVariants \cup Claims \cup Typed \cup Paths \cup {"derive"})
    /\ w.n = NoName => w.todo = <<>>
    /\ queue \in SUBSET Names /\ events \in SUBSET Names
    /\ edits \in Nat /\ faults \in Nat

\* The PackageVariants of a site that no other site shares.
OwnVariants(n, i) ==
    {Key(n, i, st) : st \in (StepSet(i) \cap PackageVariants)
                            \ (IF i.colocated THEN PerCluster ELSE {})}

\* The controller has, or will get, a reason to look at n again.
WillReconcile(n) ==
    n \in queue \cup events \cup behind \/ w.n = n

\* No lost wake-up: whenever a PackageVariant of a site that reports Ready is
\* missing (the collector took one that a deleted site of the same name had
\* left), the controller is going to reconcile that site again.
MissingVariantNoticed ==
    \A n \in Names : Ready(n) =>
        \A k \in OwnVariants(n, site[n].intent) : child[k].live \/ WillReconcile(n)

\* Ready is not reported before every manifest of the site, for the gNB it
\* declares now, is in its own deploy repo, however late the repo appears and
\* whatever an earlier intent left there.
ReadyIsDelivered ==
    \A n \in Names : Ready(n) /\ ~site[n].intent.colocated =>
        \A p \in Paths \cap StepSet(site[n].intent) :
            files[<<n, p>>] = Manifest(n, site[n].intent, p)

\* Config Sync applies what is in the repo at any time, between two puts or after
\* a failed one: a gNB's Deployment is there only with all that its pod mounts.
GnbBacked ==
    \A r \in Repos : files[<<r, "ran/deployment">>] # NoFile =>
        \A p \in Mounts(files[<<r, "ran/deployment">>].ran) : files[<<r, p>>] # NoFile

\* A site that is there for good, its intent edited finitely often, ends up Ready
\* with all its PackageVariants, although its reconcile fails until the repo that
\* its own cluster package leads to exists, and whatever an earlier intent or an
\* earlier site of its name left behind.
SiteConverges ==
    \A n \in Names :
        <>[](site[n].live)
            => <>[](Ready(n) /\ \A k \in OwnVariants(n, site[n].intent) : child[k].live)

\* Nothing will happen any more without a user, a fault or the periodic resync.
AtRest ==
    /\ queue = {} /\ events = {} /\ behind = {} /\ w.n = NoName
    /\ \A k \in Keys : ~Orphan(k)

\* "the loop is self-healing": a Ready site at rest has every object it emitted, the
\* IPClaims, which are not watched, and the packages it shares with other sites of
\* its cluster, whose events go to the one owner, among them.
ObjectsAtRest ==
    AtRest => \A n \in Names : Ready(n) =>
        \A st \in StepSet(site[n].intent) \ Paths : child[Key(n, site[n].intent, st)].live
=============================================================================
