---------------------------- MODULE NetworkFabric ----------------------------
(***************************************************************************)
(* A NetworkFabric and the two databases its controller                    *)
(* (network_controller.go) keeps for it: the ipam NetworkInstance with the *)
(* fabric's pools and the VLANIndex, from which Nephio's specializer       *)
(* allocates.  The controller reads the fabric from a lagging cache and    *)
(* the databases from the API server.  It neither owns nor watches them:   *)
(* one that is deleted comes back with the next event of the fabric, at    *)
(* the latest with the informer's periodic resync.                         *)
(***************************************************************************)
EXTENDS Integers

CONSTANTS
    Plans,        \* the sets of pools a user may give the fabric
    MaxPlanEdits, \* bound on writes by users
    MaxApiFaults  \* bound on failed calls and restarts

VARIABLES
    fabric,       \* the NetworkFabric, in the API server
    fabricCache,  \* what the informer cache shows of it
    fabricOld,    \* is the cached copy not the current version?
    backend,      \* NetworkInstance and VLANIndex
    nw,           \* the reconcile in progress
    fabricQueued, \* is the fabric in its controller's workqueue?
    planEdits, apiFaults

fabricVars == <<fabric, fabricCache, fabricOld, backend, nw, fabricQueued,
                planEdits, apiFaults>>

ASSUME FabricBounds == MaxPlanEdits \in Nat /\ MaxApiFaults \in Nat

-----------------------------------------------------------------------------
(* Objects *)

\* A generation is of one object: that of a successor is another one.
NoFabric(gen) == [live |-> FALSE, gen |-> gen, pools |-> {}, ready |-> "none", observed |-> 0]
Fabric == [live : BOOLEAN, gen : Nat, pools : Plans \cup {{}},
           ready : {"none", "True", "False"}, observed : Nat]
FabricRead(o) == [live |-> o.live, gen |-> o.gen, pools |-> o.pools]

\* A database that is not there has no pools; "ni" and "vlan" say which are there.
\* "lost" remembers that somebody deleted one since it was last made.
Backend == [pools : Plans \cup {{}}, there : SUBSET {"ni", "vlan"}, lost : BOOLEAN]

IdleNw == [pc |-> "idle", o |-> FabricRead(NoFabric(0)), old |-> FALSE]

ApiFault ==
    /\ apiFaults < MaxApiFaults
    /\ apiFaults' = apiFaults + 1

-----------------------------------------------------------------------------
(* Reconcile *)

\* Mutant: a fabric that is gone is reconciled.
NetGetMutant ==
    /\ nw.pc = "idle" /\ fabricQueued
    /\ fabricQueued' = FALSE
    /\ nw' = [pc |-> "ni", o |-> fabricCache, old |-> fabricOld]
    /\ UNCHANGED <<fabric, fabricCache, fabricOld, backend, planEdits, apiFaults>>

NetGet ==
    /\ nw.pc = "idle" /\ fabricQueued
    /\ fabricQueued' = FALSE
    /\ nw' = IF fabricCache.live THEN [pc |-> "ni", o |-> fabricCache, old |-> fabricOld] ELSE nw
    /\ UNCHANGED <<fabric, fabricCache, fabricOld, backend, planEdits, apiFaults>>

\* Created, or updated if its prefixes differ.
ensureInstance ==
    /\ nw.pc = "ni"
    /\ backend' = [backend EXCEPT !.pools = nw.o.pools, !.there = @ \cup {"ni"}]
    /\ nw' = [nw EXCEPT !.pc = "vlan"]
    /\ UNCHANGED <<fabric, fabricCache, fabricOld, fabricQueued, planEdits, apiFaults>>

\* Created, or found: its spec is empty.
ensureVlanIndex ==
    /\ nw.pc = "vlan"
    /\ backend' = [backend EXCEPT !.there = @ \cup {"vlan"}, !.lost = @ /\ "ni" \notin backend.there]
    /\ nw' = [nw EXCEPT !.pc = "status"]
    /\ UNCHANGED <<fabric, fabricCache, fabricOld, fabricQueued, planEdits, apiFaults>>

\* The condition, written over the version that was read; an error is ignored.
\* LastReconcile has the resolution of a second: the same status within a second
\* is no new version, and no event.
WriteReady(ready) ==
    LET new == [fabric EXCEPT !.ready = ready, !.observed = nw.o.gen]
    IN  \/ ~nw.old /\ fabric' = new /\ fabricOld' \in {TRUE, fabricOld \/ new # fabric}
        \/ nw.old /\ UNCHANGED <<fabric, fabricOld>>

\* Mutant: the status is written whatever version was read.
NetStatusMutant ==
    /\ nw.pc = "status"
    /\ fabric' = IF fabric.live THEN [fabric EXCEPT !.ready = "True", !.observed = fabric.gen] ELSE fabric
    /\ fabricOld' = TRUE
    /\ nw' = IdleNw
    /\ UNCHANGED <<fabricCache, backend, fabricQueued, planEdits, apiFaults>>

NetStatus ==
    /\ nw.pc = "status"
    /\ WriteReady("True")
    /\ nw' = IdleNw
    /\ UNCHANGED <<fabricCache, backend, fabricQueued, planEdits, apiFaults>>

\* Mutant: an error ends the reconcile for good.
NetFailMutant ==
    /\ nw.pc \in {"ni", "vlan"}
    /\ ApiFault
    /\ UNCHANGED <<fabric, fabricOld>>
    /\ nw' = IdleNw
    /\ UNCHANGED <<fabricCache, backend, fabricQueued, planEdits>>

\* A database cannot be read or written: its CRD is not there yet, or the update
\* conflicts with the IPAM controller's status.  Looked at again after 15 seconds.
NetFail ==
    /\ nw.pc \in {"ni", "vlan"}
    /\ ApiFault
    /\ WriteReady("False")
    /\ nw' = IdleNw
    /\ fabricQueued' = TRUE
    /\ UNCHANGED <<fabricCache, backend, planEdits>>

-----------------------------------------------------------------------------
(* The cluster and its users *)

\* There is no predicate: a status write is an event as well.
FabricEvent ==
    /\ fabricOld
    /\ fabricCache' = FabricRead(fabric)
    /\ fabricOld' = FALSE
    /\ fabricQueued' = TRUE
    /\ UNCHANGED <<fabric, backend, nw, planEdits, apiFaults>>

NetRestart ==
    /\ ApiFault
    /\ nw' = IdleNw
    /\ fabricCache' = FabricRead(fabric)
    /\ fabricOld' = FALSE
    /\ fabricQueued' = fabric.live
    /\ UNCHANGED <<fabric, backend, planEdits>>

\* The informer's resync: what is in the cache is an event.
NetResync ==
    /\ fabricCache.live
    /\ fabricQueued' = TRUE
    /\ UNCHANGED <<fabric, fabricCache, fabricOld, backend, nw, planEdits, apiFaults>>

PlanEdit ==
    /\ planEdits < MaxPlanEdits
    /\ planEdits' = planEdits + 1

FabricWrite(new) ==
    /\ PlanEdit
    /\ fabric' = new
    /\ fabricOld' = TRUE
    /\ nw' = [nw EXCEPT !.old = TRUE]
    /\ UNCHANGED <<fabricCache, backend, fabricQueued, apiFaults>>

FabricPut(pools) ==
    /\ ~(fabric.live /\ fabric.pools = pools)
    /\ FabricWrite(IF fabric.live THEN [fabric EXCEPT !.gen = @ + 1, !.pools = pools]
                   ELSE [NoFabric(fabric.gen + 1) EXCEPT !.live = TRUE, !.pools = pools])

\* The databases stay.
FabricDelete == fabric.live /\ FabricWrite(NoFabric(fabric.gen))

\* Somebody deletes a database.
BackendLost(db) ==
    /\ db \in backend.there
    /\ PlanEdit
    /\ backend' = [backend EXCEPT !.there = @ \ {db}, !.lost = TRUE,
                                  !.pools = IF db = "ni" THEN {} ELSE @]
    /\ UNCHANGED <<fabric, fabricCache, fabricOld, nw, fabricQueued, apiFaults>>

-----------------------------------------------------------------------------
(* Specification *)

FabricInit ==
    /\ fabric = NoFabric(0)
    /\ fabricCache = FabricRead(fabric)
    /\ fabricOld = FALSE
    /\ backend = [pools |-> {}, there |-> {}, lost |-> FALSE]
    /\ nw = IdleNw
    /\ fabricQueued = FALSE
    /\ planEdits = 0 /\ apiFaults = 0

NetStep == NetGet \/ ensureInstance \/ ensureVlanIndex \/ NetStatus

FabricNext ==
    \/ NetGet \/ ensureInstance \/ ensureVlanIndex \/ NetStatus \/ NetFail
    \/ FabricEvent \/ NetRestart \/ NetResync
    \/ \E pools \in Plans : FabricPut(pools)
    \/ FabricDelete
    \/ \E db \in {"ni", "vlan"} : BackendLost(db)

-----------------------------------------------------------------------------
(* Properties *)

\* The fabric's variables have their types, and a reconcile in progress is for a
\* fabric that was there.
FabricTypeOK ==
    /\ fabric \in Fabric
    /\ fabricCache \in [live : BOOLEAN, gen : Nat, pools : Plans \cup {{}}]
    /\ backend \in Backend
    /\ nw.pc \in {"idle", "ni", "vlan", "status"} /\ nw.old \in BOOLEAN
    /\ nw.pc # "idle" => nw.o.live
    /\ fabricOld \in BOOLEAN /\ fabricQueued \in BOOLEAN
    /\ planEdits \in Nat /\ apiFaults \in Nat

\* The databases are those of the fabric.
Backed == backend.there = {"ni", "vlan"} /\ backend.pools = fabric.pools

\* "backend NetworkInstance + VLANIndex ready", said of the present generation, is
\* true however the fabric was edited, deleted or re-created while its reconcile
\* ran, failed or died half way, unless somebody deleted a database since.
ReadyMeansBacked ==
    fabric.ready = "True" /\ fabric.observed = fabric.gen => Backed \/ backend.lost

\* A fabric that stays has, in the end, the databases of its last version for good,
\* also after an error or a restart between the two, unless somebody deleted one:
\* that is made good at the next event only, which need not come.
FabricConverges == <>[]fabric.live => <>[](fabric.live /\ Backed) \/ <>[]backend.lost
=============================================================================
