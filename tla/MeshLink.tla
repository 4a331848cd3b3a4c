------------------------------ MODULE MeshLink ------------------------------
(***************************************************************************)
(* The MeshLink of an upf-only edge and the two controllers that write it: *)
(*                                                                         *)
(*   - the EdgeSite controller's step meshLink applies it, owned by the    *)
(*     EdgeSite, as a full update that carries no finalizers;              *)
(*   - the MeshLink controller (meshlink_controller.go) adds a finalizer,  *)
(*     wires N2 and N4 between the edge and the control-plane cluster, and *)
(*     tears the wiring down before it releases a deleted MeshLink.        *)
(*                                                                         *)
(* Every edge has the management cluster as its control plane (the default *)
(* of spec.controlPlane).  The wiring lives in other clusters than the     *)
(* MeshLink, so no garbage collector removes it.  The Service upf-<edge>   *)
(* and its EndpointSlice are one object here: its endpoint.                *)
(***************************************************************************)
EXTENDS Integers, FiniteSets

CONSTANTS
    Edges,      \* names of the edges: of the EdgeSite, the MeshLink and the cluster
    MaxEdits,   \* bound on creations and deletions of EdgeSites
    MaxMoves,   \* bound on changes of the edge clusters (pods, reachability)
    MaxFaults   \* bound on transient errors and restarts

VARIABLES
    site,       \* the EdgeSites: is there one, and its uid
    siteCache,  \* the informer cache of EdgeSites
    link,       \* the MeshLinks, in the API server
    linkCache,  \* the informer cache of MeshLinks
    behind,     \* the edges whose cached MeshLink is not the current version
    esQueue,    \* workqueue of the EdgeSite controller
    mlQueue,    \* workqueue of the MeshLink controller
    mw,         \* the MeshLink controller's reconcile in progress
    meshed,     \* edges whose deploy repo has the shared cilium-ca, and no repo has
                \* the cilium-clustermesh Secret that older releases put there
    amfCp,      \* is there an exported amf-cp Service in the control-plane cluster?
    amfEdge,    \* edges with a consumed amf-cp Service
    n4,         \* the endpoint of upf-<edge> in the control-plane cluster
    edge,       \* what there is of each edge cluster
    pod,        \* the address of the UPF pod of each edge
    edits, moves, faults

siteVars == <<site, siteCache>>
linkVars == <<link, linkCache, behind>>
wiring == <<meshed, amfCp, amfEdge, n4>>
edgeVars == <<edge, pod>>
bounds == <<edits, moves, faults>>
vars == <<siteVars, linkVars, esQueue, mlQueue, mw, wiring, edgeVars, bounds>>

\* "none": no kubeconfig Secret or no deploy repo yet; "down": both, but the API
\* server of the edge does not answer.
EdgeStates == {"none", "down", "up"}
NoEdge == "none"
ASSUME EdgesAssumption == NoEdge \notin Edges
ASSUME BoundsAssumption == {MaxEdits, MaxMoves, MaxFaults} \subseteq Nat

-----------------------------------------------------------------------------
(* Objects *)

\* Addresses of UPF pods: every pod gets a new one.
NoIP == 0
IPs == 1..MaxMoves

NoLink == [live |-> FALSE, uid |-> 0, finalizer |-> FALSE, deleting |-> FALSE,
           phase |-> "none"]
Link == [live : BOOLEAN, uid : Nat, finalizer : BOOLEAN, deleting : BOOLEAN,
         phase : {"none", "Failed", "N4Wired"}]

\* What a reconcile reads of a cached MeshLink.
LinkRead(l) == [live |-> l.live, finalizer |-> l.finalizer, deleting |-> l.deleting]

IdleMw == [pc |-> "idle", e |-> NoEdge, old |-> FALSE, ip |-> NoIP]

\* An object without finalizers goes away as soon as it is to be deleted.
Settled(l) == IF l.deleting /\ ~l.finalizer THEN NoLink ELSE l

\* Somebody else than the reconcile in progress writes the MeshLink of e: the
\* cache, and such a reconcile, then have an old version of it.
Write(e, l) ==
    /\ link' = [link EXCEPT ![e] = Settled(l)]
    /\ behind' = IF Settled(l) = link[e] THEN behind ELSE behind \cup {e}
    /\ mw' = [mw EXCEPT !.old = @ \/ (mw.e = e /\ Settled(l) # link[e])]
    /\ UNCHANGED linkCache

Fault ==
    /\ faults < MaxFaults
    /\ faults' = faults + 1
    /\ UNCHANGED <<edits, moves>>

-----------------------------------------------------------------------------
(* The EdgeSite controller's step meshLink *)

\* applyOwned: create the MeshLink that the cache does not show, replace the one
\* it shows, finalizers included; a write over an old version is refused and
\* retried.  A status is not written this way.
EsMeshLink(e) ==
    /\ e \in esQueue
    /\ \/ /\ ~siteCache[e].live
          /\ esQueue' = esQueue \ {e}
          /\ UNCHANGED <<linkVars, mw>>
       \/ /\ siteCache[e].live
          /\ IF linkCache[e].live THEN e \in behind ELSE link[e].live
          /\ UNCHANGED <<linkVars, mw, esQueue>>
       \/ /\ siteCache[e].live
          /\ IF linkCache[e].live THEN e \notin behind ELSE ~link[e].live
          /\ Write(e, [link[e] EXCEPT !.live = TRUE, !.uid = siteCache[e].uid,
                                      !.finalizer = FALSE])
          /\ esQueue' = esQueue \ {e}
    /\ UNCHANGED <<siteVars, mlQueue, wiring, edgeVars, bounds>>

-----------------------------------------------------------------------------
(* The MeshLink controller *)

MlGet(e) ==
    /\ mw.pc = "idle"
    /\ e \in mlQueue
    /\ mlQueue' = mlQueue \ {e}
    /\ LET l == linkCache[e]
           start(pc) == mw' = [pc |-> pc, e |-> e, old |-> e \in behind, ip |-> NoIP]
       IN  \/ /\ l.live /\ ~l.deleting /\ ~l.finalizer /\ start("finalize")
           \/ /\ l.live /\ ~l.deleting /\ l.finalizer /\ start("mesh")
           \/ /\ l.live /\ l.deleting /\ l.finalizer /\ start("cleanup")
           \/ /\ ~l.live \/ (l.deleting /\ ~l.finalizer)
              /\ UNCHANGED mw
    /\ UNCHANGED <<siteVars, linkVars, esQueue, wiring, edgeVars, bounds>>

\* The reconcile writes its own MeshLink, if it has the current version of it.
WriteOwn(l) ==
    /\ ~mw.old
    /\ link' = [link EXCEPT ![mw.e] = Settled(l)]
    /\ behind' = IF Settled(l) = link[mw.e] THEN behind ELSE behind \cup {mw.e}
    /\ UNCHANGED linkCache

Goto(pc) == mw' = [mw EXCEPT !.pc = pc]

\* The reconcile ends and e is looked at again: after an error, or in 20 seconds.
Again ==
    /\ mw' = IdleMw
    /\ mlQueue' = mlQueue \cup {mw.e}

MlAddFinalizer ==
    /\ mw.pc = "finalize"
    /\ \/ /\ WriteOwn([link[mw.e] EXCEPT !.finalizer = TRUE])
          /\ Goto("mesh")
          /\ UNCHANGED mlQueue
       \/ /\ mw.old
          /\ Again
          /\ UNCHANGED linkVars
    /\ UNCHANGED <<siteVars, esQueue, wiring, edgeVars, bounds>>

\* The status is written over the version read; a refused write is only logged.
WriteStatus(phase) ==
    \/ WriteOwn([link[mw.e] EXCEPT !.phase = phase])
    \/ mw.old /\ UNCHANGED linkVars

\* fail()
Failed ==
    /\ WriteStatus("Failed")
    /\ Again
    /\ UNCHANGED <<siteVars, esQueue, wiring, edgeVars>>

Wiring == {"mesh", "export", "consume", "n4"}

\* There is no way to the edge, or it does not answer when it is written to.
MlUnreachable ==
    /\ \/ mw.pc = "mesh" /\ edge[mw.e] = "none"
       \/ mw.pc = "consume" /\ edge[mw.e] # "up"
    /\ Failed
    /\ UNCHANGED bounds

MlFault ==
    /\ mw.pc \in Wiring
    /\ Fault
    /\ Failed

\* ensureClusterMesh: the shared CA goes into the edge's deploy repo, and the Secret
\* of older releases, if it is there, is removed from that repo and the control
\* plane's.
MlMesh ==
    /\ mw.pc = "mesh"
    /\ edge[mw.e] # "none"
    /\ meshed' = meshed \cup {mw.e}
    /\ Goto("export")
    /\ UNCHANGED <<siteVars, linkVars, esQueue, mlQueue, amfCp, amfEdge, n4, edgeVars, bounds>>

\* removeFromGit takes a lookup that fails for a file that is not there, which makes
\* a difference while the file is there.
MlMeshUnseen ==
    /\ mw.pc = "mesh"
    /\ edge[mw.e] # "none" /\ mw.e \notin meshed
    /\ Fault
    /\ Goto("export")
    /\ UNCHANGED <<siteVars, linkVars, esQueue, mlQueue, wiring, edgeVars>>

\* Mutant: the Service of a MeshLink that is wired already is not applied again.
MlExportMutant ==
    /\ mw.pc = "export"
    /\ amfCp' = (amfCp \/ link[mw.e].phase # "N4Wired")
    /\ Goto("consume")
    /\ UNCHANGED <<siteVars, linkVars, esQueue, mlQueue, meshed, amfEdge, n4, edgeVars, bounds>>

MlExport ==
    /\ mw.pc = "export"
    /\ amfCp' = TRUE
    /\ Goto("consume")
    /\ UNCHANGED <<siteVars, linkVars, esQueue, mlQueue, meshed, amfEdge, n4, edgeVars, bounds>>

MlConsume ==
    /\ mw.pc = "consume"
    /\ edge[mw.e] = "up"
    /\ amfEdge' = amfEdge \cup {mw.e}
    /\ Goto("pod")
    /\ UNCHANGED <<siteVars, linkVars, esQueue, mlQueue, meshed, amfCp, n4, edgeVars, bounds>>

\* Mutant: an address that could not be read is not told from one that was.
MlReadPodMutant ==
    /\ mw.pc = "pod"
    /\ mw' = [mw EXCEPT !.pc = "n4",
                        !.ip = IF edge[mw.e] = "up" /\ pod[mw.e] # NoIP THEN pod[mw.e] ELSE -1]
    /\ UNCHANGED <<siteVars, linkVars, esQueue, mlQueue, wiring, edgeVars, bounds>>

\* podIP: neither an error nor a missing pod or address is a failure.
MlReadPod ==
    /\ mw.pc = "pod"
    /\ mw' = IF edge[mw.e] = "up" /\ pod[mw.e] # NoIP
             THEN [mw EXCEPT !.pc = "n4", !.ip = pod[mw.e]]
             ELSE [mw EXCEPT !.pc = "status"]
    /\ UNCHANGED <<siteVars, linkVars, esQueue, mlQueue, wiring, edgeVars, bounds>>

\* Mutant: an endpoint that exists is not updated.
MlWireN4Mutant ==
    /\ mw.pc = "n4"
    /\ n4' = [n4 EXCEPT ![mw.e] = IF @ = NoIP THEN mw.ip ELSE @]
    /\ Goto("status")
    /\ UNCHANGED <<siteVars, linkVars, esQueue, mlQueue, meshed, amfCp, amfEdge, edgeVars, bounds>>

MlWireN4 ==
    /\ mw.pc = "n4"
    /\ n4' = [n4 EXCEPT ![mw.e] = mw.ip]
    /\ Goto("status")
    /\ UNCHANGED <<siteVars, linkVars, esQueue, mlQueue, meshed, amfCp, amfEdge, edgeVars, bounds>>

MlStatus ==
    /\ mw.pc = "status"
    /\ WriteStatus("N4Wired")
    /\ Again
    /\ UNCHANGED <<siteVars, esQueue, wiring, edgeVars, bounds>>

\* Mutant: the control-plane side of the wiring is left in place.
MlCleanCpMutant ==
    /\ mw.pc = "cleanup"
    /\ Goto("cleanEdge")
    /\ UNCHANGED <<siteVars, linkVars, esQueue, mlQueue, wiring, edgeVars, bounds>>

\* cleanupRemote on the control-plane cluster; the errors of its calls are ignored.
MlCleanCp ==
    /\ mw.pc = "cleanup"
    /\ \/ /\ n4' = [n4 EXCEPT ![mw.e] = NoIP]
          /\ amfCp' = FALSE
          /\ UNCHANGED bounds
       \/ /\ Fault
          /\ \/ n4' = [n4 EXCEPT ![mw.e] = NoIP] /\ UNCHANGED amfCp
             \/ amfCp' = FALSE /\ UNCHANGED n4
             \/ UNCHANGED <<n4, amfCp>>
    /\ Goto("cleanEdge")
    /\ UNCHANGED <<siteVars, linkVars, esQueue, mlQueue, meshed, amfEdge, edgeVars>>

\* Mutant: an edge that does not answer fails the cleanup.
MlCleanEdgeMutant ==
    /\ mw.pc = "cleanEdge"
    /\ IF edge[mw.e] = "up"
       THEN /\ amfEdge' = amfEdge \ {mw.e}
            /\ Goto("release")
            /\ UNCHANGED mlQueue
       ELSE /\ Again
            /\ UNCHANGED amfEdge
    /\ UNCHANGED <<siteVars, linkVars, esQueue, meshed, amfCp, n4, edgeVars, bounds>>

MlCleanEdge ==
    /\ mw.pc = "cleanEdge"
    /\ amfEdge' = IF edge[mw.e] = "up" THEN amfEdge \ {mw.e} ELSE amfEdge
    /\ Goto("release")
    /\ UNCHANGED <<siteVars, linkVars, esQueue, mlQueue, meshed, amfCp, n4, edgeVars, bounds>>

\* The finalizer is removed, and the MeshLink is gone.
MlRelease ==
    /\ mw.pc = "release"
    /\ \/ /\ WriteOwn([link[mw.e] EXCEPT !.finalizer = FALSE])
          /\ mw' = IdleMw
          /\ UNCHANGED mlQueue
       \/ /\ mw.old
          /\ Again
          /\ UNCHANGED linkVars
    /\ UNCHANGED <<siteVars, esQueue, wiring, edgeVars, bounds>>

-----------------------------------------------------------------------------
(* The clusters *)

\* A change of the MeshLink reaches both controllers (For and Owns).
LinkEvent(e) ==
    /\ e \in behind
    /\ linkCache' = [linkCache EXCEPT ![e] = LinkRead(link[e])]
    /\ behind' = behind \ {e}
    /\ esQueue' = esQueue \cup {e}
    /\ mlQueue' = mlQueue \cup {e}
    /\ UNCHANGED <<siteVars, link, mw, wiring, edgeVars, bounds>>

SiteEvent(e) ==
    /\ siteCache[e] # site[e]
    /\ siteCache' = [siteCache EXCEPT ![e] = site[e]]
    /\ esQueue' = esQueue \cup {e}
    /\ UNCHANGED <<site, linkVars, mlQueue, mw, wiring, edgeVars, bounds>>

\* The garbage collector deletes the MeshLink of a deleted EdgeSite.
GC(e) ==
    /\ link[e].live /\ ~link[e].deleting
    /\ ~(site[e].live /\ site[e].uid = link[e].uid)
    /\ Write(e, [link[e] EXCEPT !.deleting = TRUE])
    /\ UNCHANGED <<siteVars, esQueue, mlQueue, wiring, edgeVars, bounds>>

Restart ==
    /\ Fault
    /\ siteCache' = site
    /\ linkCache' = [e \in Edges |-> LinkRead(link[e])]
    /\ behind' = {}
    /\ esQueue' = {e \in Edges : site[e].live}
    /\ mlQueue' = {e \in Edges : link[e].live}
    /\ mw' = IdleMw
    /\ UNCHANGED <<site, link, wiring, edgeVars>>

\* The UPF pod of an edge, which comes with the deploy repo, is (re)started or stopped.
MovePod(e, ip) ==
    /\ moves < MaxMoves
    /\ moves' = moves + 1
    /\ edge[e] # "none" /\ pod[e] # ip
    /\ ip \in {NoIP, moves'}
    /\ pod' = [pod EXCEPT ![e] = ip]
    /\ UNCHANGED <<siteVars, linkVars, esQueue, mlQueue, mw, wiring, edge, edits, faults>>

\* An edge cluster is provisioned, stops answering or goes away with its pod.
MoveEdge(e, state) ==
    /\ moves < MaxMoves
    /\ moves' = moves + 1
    /\ edge[e] # state
    /\ edge' = [edge EXCEPT ![e] = state]
    /\ pod' = [pod EXCEPT ![e] = IF state = "none" THEN NoIP ELSE @]
    /\ UNCHANGED <<siteVars, linkVars, esQueue, mlQueue, mw, wiring, edits, faults>>

UserCreate(e) ==
    /\ edits < MaxEdits
    /\ edits' = edits + 1
    /\ ~site[e].live
    /\ site' = [site EXCEPT ![e] = [live |-> TRUE, uid |-> @.uid + 1]]
    /\ UNCHANGED <<siteCache, linkVars, esQueue, mlQueue, mw, wiring, edgeVars, moves, faults>>

UserDelete(e) ==
    /\ edits < MaxEdits
    /\ edits' = edits + 1
    /\ site[e].live
    /\ site' = [site EXCEPT ![e].live = FALSE]
    /\ UNCHANGED <<siteCache, linkVars, esQueue, mlQueue, mw, wiring, edgeVars, moves, faults>>

\* An edge beyond Edges is deleted: the same controller, between two reconciles of
\* these, tears its MeshLink down, and with it the amf-cp Service all edges share.
OtherRemoved ==
    /\ edits < MaxEdits
    /\ edits' = edits + 1
    /\ mw.pc = "idle"
    /\ amfCp /\ amfCp' = FALSE
    /\ UNCHANGED <<siteVars, linkVars, esQueue, mlQueue, mw, meshed, amfEdge, n4, edgeVars, moves, faults>>

-----------------------------------------------------------------------------
(* Specification *)

Init ==
    /\ site = [e \in Edges |-> [live |-> FALSE, uid |-> 0]]
    /\ siteCache = site
    /\ link = [e \in Edges |-> NoLink]
    /\ linkCache = [e \in Edges |-> LinkRead(NoLink)]
    /\ behind = {}
    /\ esQueue = {} /\ mlQueue = {}
    /\ mw = IdleMw
    /\ meshed = {} /\ amfCp = FALSE /\ amfEdge = {}
    /\ n4 = [e \in Edges |-> NoIP]
    /\ edge \in [Edges -> {"none", "up"}]
    /\ pod = [e \in Edges |-> NoIP]
    /\ edits = 0 /\ moves = 0 /\ faults = 0

MlStep ==
    \/ MlAddFinalizer \/ MlUnreachable
    \/ MlMesh \/ MlExport \/ MlConsume \/ MlReadPod \/ MlWireN4 \/ MlStatus
    \/ MlCleanCp \/ MlCleanEdge \/ MlRelease

Next ==
    \/ MlStep \/ MlFault \/ MlMeshUnseen \/ Restart \/ OtherRemoved
    \/ \E e \in Edges : \/ MlGet(e) \/ EsMeshLink(e)
                        \/ LinkEvent(e) \/ SiteEvent(e) \/ GC(e)
                        \/ UserCreate(e) \/ UserDelete(e)
                        \/ \E ip \in IPs \cup {NoIP} : MovePod(e, ip)
                        \/ \E state \in EdgeStates : MoveEdge(e, state)

Spec == Init /\ [][Next]_vars

\* Both controllers, the watches and the collector keep going; no edge in a
\* workqueue is passed over for ever.  Users and edge clusters owe nothing.
Fairness ==
    /\ WF_vars(MlStep)
    /\ \A e \in Edges : /\ SF_vars(MlGet(e)) /\ SF_vars(EsMeshLink(e))
                        /\ WF_vars(LinkEvent(e)) /\ WF_vars(SiteEvent(e)) /\ WF_vars(GC(e))

FairSpec == Spec /\ Fairness

-----------------------------------------------------------------------------
(* Properties *)

\* Every variable has its type, and a MeshLink being deleted still has its finalizer.
TypeOK ==
    /\ site \in [Edges -> [live : BOOLEAN, uid : Nat]]
    /\ siteCache \in [Edges -> [live : BOOLEAN, uid : Nat]]
    /\ link \in [Edges -> Link]
    /\ linkCache \in [Edges -> [live : BOOLEAN, finalizer : BOOLEAN, deleting : BOOLEAN]]
    /\ \A e \in Edges : link[e].deleting => link[e].live /\ link[e].finalizer
    /\ behind \in SUBSET Edges
    /\ esQueue \in SUBSET Edges /\ mlQueue \in SUBSET Edges
    /\ mw \in [pc : Wiring \cup {"idle", "finalize", "pod", "status", "cleanup",
                                  "cleanEdge", "release"},
               e : Edges \cup {NoEdge}, old : BOOLEAN, ip : IPs \cup {NoIP}]
    /\ mw.pc # "idle" => mw.e \in Edges
    /\ meshed \in SUBSET Edges /\ amfCp \in BOOLEAN /\ amfEdge \in SUBSET Edges
    /\ n4 \in [Edges -> IPs \cup {NoIP}]
    /\ edge \in [Edges -> EdgeStates] /\ pod \in [Edges -> IPs \cup {NoIP}]
    /\ {edits, moves, faults} \subseteq Nat

\* The finalizer is released by its controller only when both Services on the
\* control-plane side are gone: between their deletion and the release no other
\* edge's reconcile, create or delete of a site brings them back.
TornDownBeforeRelease ==
    [][(faults = 0 /\ mw.pc = "release" /\ mw'.pc = "idle" /\ ~link'[mw.e].live)
          => n4[mw.e] = NoIP /\ ~amfCp]_vars

\* The EndpointSlice of upf-<edge> tracks the live UPF pod: an edge that stays
\* declared and reachable, and whose pod stays put, ends up with its address.
N4Tracks ==
    \A e \in Edges, ip \in IPs :
        <>[](site[e].live /\ edge[e] = "up" /\ pod[e] = ip) => <>[](n4[e] = ip)

\* An edge that stays declared and reachable ends up meshed for N2: the amf-cp
\* Service that all edges share is exported again after the deletion of another
\* MeshLink has removed it, and the Secret of older releases is retired although a
\* failed lookup of its file was taken for success.
ExportHeals ==
    \A e \in Edges :
        <>[](site[e].live /\ edge[e] = "up") => <>[](amfCp /\ e \in amfEdge \cap meshed)

\* "deleting the MeshLink never wedges": the MeshLink of a deleted EdgeSite goes
\* away, whether or not its clusters answer.
DeletionCompletes ==
    \A e \in Edges : <>[](~site[e].live) => <>[](~link[e].live)

\* "meshFinalizer gates deletion so the remote N2/N4 Services are torn down before
\* the MeshLink object is removed": with the MeshLink gone, and no call having
\* failed, upf-<edge> is gone.
FinalizerGates ==
    faults = 0 =>
        \A e \in Edges : ~link[e].live /\ mw.e # e => n4[e] = NoIP
=============================================================================
