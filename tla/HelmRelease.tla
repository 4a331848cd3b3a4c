----------------------------- MODULE HelmRelease -----------------------------
(***************************************************************************)
(* A workload resource and the Helm release the operator makes of it: an   *)
(* SDCoreDeployment (sdcoredeployment_controller.go) or an NFDeployment    *)
(* (nfdeployment_controller.go).  Releases of different resources do not   *)
(* touch each other, so that one resource is enough; which kind it is is   *)
(* chosen at the start.                                                    *)
(*                                                                         *)
(* A reconcile installs the release or upgrades it.  Helm (external) keeps *)
(* the release's revisions in Secrets: it stores a pending revision,       *)
(* applies the objects and then marks the revision deployed or failed, and *)
(* it refuses to upgrade a release whose last revision is pending.  The    *)
(* operator may die between any two of these steps.                        *)
(*                                                                         *)
(* Chart values are the set of the settings in them: for an NFDeployment   *)
(* the interfaces that have an address.                                    *)
(***************************************************************************)
EXTENDS Integers, FiniteSets

CONSTANTS
    Settings,   \* what the values of an SDCoreDeployment may set
    Unusable,   \* settings that cannot be parsed, or that have no chart
    Namespaces, \* target namespaces
    MaxEdits,   \* bound on writes of the resource by others
    MaxFaults   \* bound on failed calls and restarts

VARIABLES
    kind,       \* "sd" or "nf"
    cr,         \* the resource, in the API server
    crCache,    \* what the informer cache shows of it
    old,        \* is the cached copy not the current version?
    rel,        \* the last revision of the release in each namespace
    w,          \* the reconcile in progress
    queued,     \* is the resource in its controller's workqueue?
    edits, faults

vars == <<kind, cr, crCache, old, rel, w, queued, edits, faults>>

Ifaces == {"n3", "n4", "n6"}
Providers == {"upf", "controlplane", "other"}
NoVals == {"none"}     \* no values, or objects of two revisions
Values == (SUBSET (Settings \cup Ifaces)) \cup {NoVals}

ASSUME SettingsAssumption == "none" \notin Settings /\ Unusable \subseteq Settings
ASSUME NamespacesAssumption == Namespaces # {} /\ IsFiniteSet(Namespaces)
ASSUME BoundsAssumption == MaxEdits \in Nat /\ MaxFaults \in Nat

-----------------------------------------------------------------------------
(* Resources and releases *)

\* The specs of either kind; an NFDeployment is released in its own namespace.
SdSpecs == [provider : {"sd"}, ns : Namespaces, vals : SUBSET Settings]
NfSpecs == [provider : Providers, ns : {CHOOSE ns \in Namespaces : TRUE}, vals : SUBSET Ifaces]
Specs(k) == IF k = "sd" THEN SdSpecs ELSE NfSpecs

\* A generation is of one object: that of a successor is another one.
NoCr(gen) == [live |-> FALSE, gen |-> gen,
              spec |-> CHOOSE s \in NfSpecs : s.provider = "other",
              phase |-> "none", observed |-> 0, rev |-> 0]
Cr == [live : BOOLEAN, gen : Nat, spec : SdSpecs \cup NfSpecs,
       phase : {"none", "Failed", "Deployed"}, observed : Nat, rev : 0..1]
Read(o) == [live |-> o.live, gen |-> o.gen, spec |-> o.spec]

\* A revision is told from the one before it, not from all others.
NoRelease == [status |-> "none", vals |-> NoVals, rev |-> 0]
Release == [status : {"none", "pending", "deployed", "failed"}, vals : Values, rev : 0..1]

IdleW == [pc |-> "idle", o |-> Read(NoCr(0)), old |-> FALSE]

Mine(spec) == spec.provider # "other"

\* The chart values of a spec.  A UPF needs the addresses of N3 and of N6; the N4
\* address of a control plane may be missing.
buildValues(spec) ==
    CASE spec.provider = "sd" -> IF spec.vals \cap Unusable # {} THEN NoVals ELSE spec.vals
      [] spec.provider = "upf" -> IF {"n3", "n6"} \subseteq spec.vals
                                  THEN spec.vals \cap {"n3", "n6"} ELSE NoVals
      [] OTHER -> spec.vals \cap {"n4"}

Fault ==
    /\ faults < MaxFaults
    /\ faults' = faults + 1

-----------------------------------------------------------------------------
(* Reconcile *)

\* Mutant: resources of other providers are taken for one's own.
HelmGetMutant ==
    /\ w.pc = "idle" /\ queued
    /\ queued' = FALSE
    /\ w' = IF crCache.live THEN [pc |-> "values", o |-> crCache, old |-> old] ELSE w
    /\ UNCHANGED <<kind, cr, crCache, old, rel, edits, faults>>

\* Mutant: a generation that has failed is not tried again.
HelmGetOnceMutant ==
    /\ w.pc = "idle" /\ queued
    /\ queued' = (cr.phase = "Failed" /\ cr.observed = crCache.gen)
    /\ w' = IF crCache.live /\ Mine(crCache.spec) /\ ~queued'
            THEN [pc |-> "values", o |-> crCache, old |-> old] ELSE w
    /\ UNCHANGED <<kind, cr, crCache, old, rel, edits, faults>>

\* The cached Get.  A resource that is gone, or of another provider, is left alone.
HelmGet ==
    /\ w.pc = "idle" /\ queued
    /\ queued' = FALSE
    /\ w' = IF crCache.live /\ Mine(crCache.spec)
            THEN [pc |-> "values", o |-> crCache, old |-> old] ELSE w
    /\ UNCHANGED <<kind, cr, crCache, old, rel, edits, faults>>

Goto(pc) == w' = [w EXCEPT !.pc = pc]
Target == w.o.spec.ns

\* The status of an SDCoreDeployment, over the version that was read.
WriteStatus(new) ==
    /\ ~w.old
    /\ cr' = new
    /\ old' = (old \/ new # cr)

\* An error: an SDCoreDeployment is marked Failed, unless that fails too; an
\* NFDeployment keeps its status.  Both are looked at again after 30 seconds.
fail ==
    /\ \/ kind = "sd" /\ WriteStatus([cr EXCEPT !.phase = "Failed", !.observed = w.o.gen])
       \/ (kind = "nf" \/ w.old) /\ UNCHANGED <<cr, old>>
    /\ w' = IdleW
    /\ queued' = TRUE
    /\ UNCHANGED <<kind, crCache, edits>>

\* The values, or the chart, cannot be had.
HelmNoValues ==
    /\ w.pc = "values" /\ buildValues(w.o.spec) = NoVals
    /\ fail
    /\ UNCHANGED <<rel, faults>>

\* Install or upgrade: a pending revision is stored.
HelmStart ==
    /\ w.pc = "values" /\ buildValues(w.o.spec) # NoVals
    /\ rel[Target].status # "pending"
    /\ rel' = [rel EXCEPT ![Target].status = "pending", ![Target].rev = 1 - @]
    /\ Goto("apply")
    /\ UNCHANGED <<kind, cr, crCache, old, queued, edits, faults>>

\* "another operation (install/upgrade/rollback) is in progress"
HelmRefused ==
    /\ w.pc = "values" /\ buildValues(w.o.spec) # NoVals
    /\ rel[Target].status = "pending"
    /\ fail
    /\ UNCHANGED <<rel, faults>>

HelmApply ==
    /\ w.pc = "apply"
    /\ rel' = [rel EXCEPT ![Target].vals = buildValues(w.o.spec)]
    /\ Goto("mark")
    /\ UNCHANGED <<kind, cr, crCache, old, queued, edits, faults>>

HelmMark ==
    /\ w.pc = "mark"
    /\ rel' = [rel EXCEPT ![Target].status = "deployed"]
    /\ Goto("status")
    /\ UNCHANGED <<kind, cr, crCache, old, queued, edits, faults>>

\* History, or the store of the pending revision, fails: nothing is changed.  (An
\* NFDeployment goes on to an upgrade after any error of History, which fails in
\* turn if there is no release.)
HelmStartFault ==
    /\ w.pc = "values" /\ buildValues(w.o.spec) # NoVals
    /\ Fault
    /\ fail
    /\ UNCHANGED rel

\* Some of the objects are refused, and the revision is marked failed.
HelmApplyFault ==
    /\ w.pc = "apply"
    /\ Fault
    /\ \E vals \in {rel[Target].vals, NoVals} :
          rel' = [rel EXCEPT ![Target].status = "failed", ![Target].vals = vals]
    /\ fail

\* Mutant: on a conflict the status is written to a fresh copy.
HelmStatusMutant ==
    /\ w.pc = "status"
    /\ cr' = IF cr.live THEN [cr EXCEPT !.phase = "Deployed", !.observed = cr.gen,
                                        !.rev = rel[Target].rev] ELSE cr
    /\ old' = (old \/ cr' # cr)
    /\ w' = IdleW
    /\ UNCHANGED <<kind, crCache, rel, queued, edits, faults>>

\* Mutant: a refused write is ignored for either kind.
HelmStatusIgnoredMutant ==
    /\ w.pc = "status"
    /\ \/ WriteStatus([cr EXCEPT !.phase = "Deployed", !.observed = w.o.gen,
                                 !.rev = rel[Target].rev])
       \/ w.old /\ UNCHANGED <<cr, old>>
    /\ w' = IdleW
    /\ UNCHANGED <<kind, crCache, rel, queued, edits, faults>>

\* The success is reported.  A refused write of an SDCoreDeployment is an error and
\* brings it back, that of an NFDeployment is ignored.
HelmStatus ==
    /\ w.pc = "status"
    /\ \/ /\ WriteStatus(IF kind = "sd"
                         THEN [cr EXCEPT !.phase = "Deployed", !.observed = w.o.gen,
                                         !.rev = rel[Target].rev]
                         ELSE [cr EXCEPT !.phase = "Deployed"])
          /\ UNCHANGED queued
       \/ /\ w.old
          /\ queued' = (queued \/ kind = "sd")
          /\ UNCHANGED <<cr, old>>
    /\ w' = IdleW
    /\ UNCHANGED <<kind, crCache, rel, edits, faults>>

-----------------------------------------------------------------------------
(* The cluster and its users *)

\* Mutant: every change of the resource is an event, its status included.
EnqueuedMutant == TRUE

\* GenerationChangedPredicate: a change of the status or the metadata is no event.
Enqueued == crCache.live # cr.live \/ crCache.gen # cr.gen

CrEvent ==
    /\ old
    /\ crCache' = Read(cr)
    /\ old' = FALSE
    /\ queued' = (queued \/ Enqueued)
    /\ UNCHANGED <<kind, cr, rel, w, edits, faults>>

\* The operator dies at any point, also in the middle of an upgrade.
Restart ==
    /\ Fault
    /\ w' = IdleW
    /\ crCache' = Read(cr)
    /\ old' = FALSE
    /\ queued' = cr.live
    /\ UNCHANGED <<kind, cr, rel, edits>>

Edit(new) ==
    /\ edits < MaxEdits
    /\ edits' = edits + 1
    /\ cr' = new
    /\ old' = TRUE
    /\ w' = [w EXCEPT !.old = TRUE]
    /\ UNCHANGED <<kind, crCache, rel, queued, faults>>

\* Config Sync, or a user, applies the resource.
Put(spec) ==
    /\ ~(cr.live /\ cr.spec = spec)
    /\ Edit(IF cr.live THEN [cr EXCEPT !.gen = @ + 1, !.spec = spec]
            ELSE [NoCr(cr.gen + 1) EXCEPT !.live = TRUE, !.spec = spec])

\* Somebody writes its metadata (a label, an annotation).
Annotate == cr.live /\ Edit(cr)

\* There is no finalizer: the releases stay.
Delete == cr.live /\ Edit(NoCr(cr.gen))

-----------------------------------------------------------------------------
(* Specification *)

Init ==
    /\ kind \in {"sd", "nf"}
    /\ cr = NoCr(0)
    /\ crCache = Read(cr)
    /\ old = FALSE
    /\ rel = [ns \in Namespaces |-> NoRelease]
    /\ w = IdleW
    /\ queued = FALSE
    /\ edits = 0 /\ faults = 0

HelmStep == HelmNoValues \/ HelmStart \/ HelmRefused \/ HelmApply \/ HelmMark \/ HelmStatus

Next ==
    \/ HelmGet \/ HelmStep \/ HelmStartFault \/ HelmApplyFault
    \/ CrEvent \/ Restart
    \/ Annotate \/ Delete
    \/ \E spec \in Specs(kind) : Put(spec)

Spec == Init /\ [][Next]_vars

\* The controller and the watch keep going; nobody else is obliged to act.
Fairness == WF_vars(HelmGet) /\ WF_vars(HelmStep) /\ WF_vars(CrEvent)

FairSpec == Spec /\ Fairness

-----------------------------------------------------------------------------
(* Properties *)

\* Every variable has its type, and a reconcile in progress is for a resource that
\* is to be released.
TypeOK ==
    /\ kind \in {"sd", "nf"}
    /\ cr \in Cr
    /\ crCache \in [live : BOOLEAN, gen : Nat, spec : SdSpecs \cup NfSpecs]
    /\ old \in BOOLEAN
    /\ rel \in [Namespaces -> Release]
    /\ w.pc \in {"idle", "values", "apply", "mark", "status"} /\ w.old \in BOOLEAN
    /\ w.pc # "idle" => w.o.live /\ Mine(w.o.spec)
    /\ queued \in BOOLEAN
    /\ edits \in Nat /\ faults \in Nat

\* Wanted: the resource is there and is to be released as these values.
Wanted == cr.live /\ Mine(cr.spec) /\ buildValues(cr.spec) # NoVals

\* The release of the resource is deployed and runs its values.
Running ==
    /\ rel[cr.spec.ns].status = "deployed"
    /\ rel[cr.spec.ns].vals = buildValues(cr.spec)

\* Nothing is in progress or due, and the cache has seen the resource.
AtRest == w.pc = "idle" /\ ~queued /\ ~old

\* No change is lost although only changes of the spec are events: when nothing is
\* left to do, the release runs the spec there is now, whatever failed, conflicted
\* or died before, and an SDCoreDeployment says so with the release's revision.
RestMeansRunning ==
    AtRest /\ cr.live /\ Mine(cr.spec) =>
        /\ Wanted /\ Running
        /\ kind = "sd" => /\ cr.phase = "Deployed" /\ cr.observed = cr.gen
                          /\ cr.rev = rel[cr.spec.ns].rev

\* "Deployed" for the current generation is never said of a release that runs other
\* values, however the resource is edited while Helm runs, unless another reconcile
\* is due that has not come to say otherwise.
DeployedIsRunning ==
    kind = "sd" /\ Wanted /\ cr.phase = "Deployed" /\ cr.observed = cr.gen
        => Running \/ queued \/ w.pc # "idle"

\* "only reconcile on SPEC changes, not our own status writes -> no helm-upgrade
\* loop": with a spec that can be released, there is a last revision.
NoUpgradeLoop ==
    <>[]Wanted => <>[][\A ns \in Namespaces : rel'[ns].rev = rel[ns].rev]_vars

\* A release that is wanted for good ends up running the last spec, whatever
\* failed before, unless the operator died in the middle of an upgrade of it.
ReleaseConverges ==
    <>[]Wanted => <>[](Wanted /\ Running) \/ <>[](Wanted /\ rel[cr.spec.ns].status = "pending")

\* "Because every step is a reconciler, the loop is self-healing": a release that is
\* wanted for good ends up running the last spec.
ReleaseHeals == <>[]Wanted => <>[](Wanted /\ Running)
=============================================================================
