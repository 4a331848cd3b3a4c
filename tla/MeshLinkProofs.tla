--------------------------- MODULE MeshLinkProofs ---------------------------
(***************************************************************************)
(* The MeshLink controller, for any set of edges and any bounds: the types *)
(* of its state (TypeOK), and the order of its teardown                    *)
(* (TornDownBeforeRelease).  What a reconcile tore down on the             *)
(* control-plane cluster stays torn down until it releases the MeshLink    *)
(* (CleanInv): only a reconcile brings the Services back, and there is one *)
(* reconcile at a time.                                                    *)
(***************************************************************************)
EXTENDS MeshLink, TLAPS

MwState == [pc : Wiring \cup {"idle", "finalize", "pod", "status", "cleanup",
                              "cleanEdge", "release"},
            e : Edges \cup {NoEdge}, old : BOOLEAN, ip : IPs \cup {NoIP}]

\* The parts of the type invariant.
SiteType ==
    /\ site \in [Edges -> [live : BOOLEAN, uid : Nat]]
    /\ siteCache \in [Edges -> [live : BOOLEAN, uid : Nat]]
LinkOK(l) == l \in Link /\ (l.deleting => l.live /\ l.finalizer)
LinkType ==
    /\ link \in [Edges -> Link]
    /\ \A e \in Edges : LinkOK(link[e])
    /\ linkCache \in [Edges -> [live : BOOLEAN, finalizer : BOOLEAN, deleting : BOOLEAN]]
    /\ behind \in SUBSET Edges
QueueType == esQueue \in SUBSET Edges /\ mlQueue \in SUBSET Edges
MwType == mw \in MwState /\ (mw.pc # "idle" => mw.e \in Edges)
WiringType ==
    /\ meshed \in SUBSET Edges /\ amfCp \in BOOLEAN /\ amfEdge \in SUBSET Edges
    /\ n4 \in [Edges -> IPs \cup {NoIP}]
EdgeType == edge \in [Edges -> EdgeStates] /\ pod \in [Edges -> IPs \cup {NoIP}]
BoundsType == edits \in Nat /\ moves \in Nat /\ faults \in Nat

\* The type invariant is the conjunction of its parts, before and after a step.
LEMMA TypeParts ==
    /\ TypeOK <=> /\ SiteType /\ LinkType /\ QueueType /\ MwType
                  /\ WiringType /\ EdgeType /\ BoundsType
    /\ TypeOK' <=> /\ SiteType' /\ LinkType' /\ QueueType' /\ MwType'
                   /\ WiringType' /\ EdgeType' /\ BoundsType'
  BY DEF TypeOK, SiteType, LinkType, LinkOK, QueueType, MwType, MwState, WiringType,
         EdgeType, BoundsType

\* A part whose variables do not change keeps its type.
LEMMA PartsKept ==
    /\ SiteType /\ UNCHANGED siteVars => SiteType'
    /\ LinkType /\ UNCHANGED linkVars => LinkType'
    /\ QueueType /\ UNCHANGED <<esQueue, mlQueue>> => QueueType'
    /\ MwType /\ UNCHANGED mw => MwType'
    /\ WiringType /\ UNCHANGED wiring => WiringType'
    /\ EdgeType /\ UNCHANGED edgeVars => EdgeType'
    /\ BoundsType /\ UNCHANGED bounds => BoundsType'
  BY DEF SiteType, siteVars, LinkType, linkVars, QueueType, MwType, WiringType, wiring,
         EdgeType, edgeVars, BoundsType, bounds

\* What is stored has a finalizer if it is being deleted.
LEMMA SettledType ==
    ASSUME NEW l \in Link, l.deleting => l.live
    PROVE  LinkOK(Settled(l))
  BY DEF LinkOK, Settled, Link, NoLink

\* What a client may write of a MeshLink.
LEMMA LinkWriteType ==
    ASSUME NEW l \in Link, NEW uid \in Nat, NEW phase \in {"none", "Failed", "N4Wired"}
    PROVE  /\ [l EXCEPT !.live = TRUE, !.uid = uid, !.finalizer = FALSE] \in Link
           /\ [l EXCEPT !.live = TRUE, !.uid = uid, !.finalizer = FALSE].live
           /\ [l EXCEPT !.phase = phase] \in Link
           /\ [l EXCEPT !.phase = phase].deleting = l.deleting
           /\ [l EXCEPT !.phase = phase].live = l.live
           /\ \A b \in BOOLEAN : /\ [l EXCEPT !.finalizer = b] \in Link
                                 /\ [l EXCEPT !.finalizer = b].deleting = l.deleting
                                 /\ [l EXCEPT !.finalizer = b].live = l.live
           /\ [l EXCEPT !.deleting = TRUE] \in Link
           /\ [l EXCEPT !.deleting = TRUE].live = l.live
  BY DEF Link

\* A stored MeshLink keeps the type of the store.
LEMMA StoreType ==
    ASSUME LinkType, NEW e \in Edges, NEW l \in Link, l.deleting => l.live,
           link' = [link EXCEPT ![e] = Settled(l)],
           behind' \in {behind, behind \cup {e}}, UNCHANGED linkCache
    PROVE  LinkType'
  <1>1. LinkOK(Settled(l))
    BY SettledType
  <1>2. /\ link \in [Edges -> Link] /\ Settled(l) \in Link
        /\ \A d \in Edges : LinkOK(link[d])
    BY <1>1 DEF LinkType, LinkOK
  <1>3. link' \in [Edges -> Link] /\ \A d \in Edges : LinkOK(link'[d])
    BY <1>1, <1>2
  <1> QED
    BY <1>3 DEF LinkType

\* The record of a reconcile after a change of one of its fields.
LEMMA MwChange ==
    ASSUME MwType
    PROVE  /\ \A o \in BOOLEAN : [mw EXCEPT !.old = o] \in MwState
           /\ \A o : /\ [mw EXCEPT !.old = o].pc = mw.pc
                     /\ [mw EXCEPT !.old = o].e = mw.e
           /\ \A pc : /\ [mw EXCEPT !.pc = pc].pc = pc
                      /\ [mw EXCEPT !.pc = pc].e = mw.e
           /\ \A pc \in Wiring \cup {"pod", "status", "cleanEdge", "release"} :
                 [mw EXCEPT !.pc = pc] \in MwState
           /\ \A ip \in IPs \cup {NoIP} :
                 /\ [mw EXCEPT !.pc = "n4", !.ip = ip] \in MwState
                 /\ [mw EXCEPT !.pc = "n4", !.ip = ip].pc = "n4"
                 /\ [mw EXCEPT !.pc = "n4", !.ip = ip].e = mw.e
           /\ IdleMw \in MwState /\ IdleMw.pc = "idle"
  <1>1. mw \in MwState
    BY DEF MwType
  <1> QED
    BY <1>1 DEF MwState, IdleMw, Wiring

\* Somebody else's write leaves the reconcile where it is.
LEMMA WriteKeepsMw ==
    ASSUME MwType, NEW e, NEW l, Write(e, l)
    PROVE  mw'.pc = mw.pc /\ mw'.e = mw.e
  <1> DEFINE o == mw.old \/ (mw.e = e /\ Settled(l) # link[e])
  <1>1. mw' = [mw EXCEPT !.old = o]
    BY DEF Write
  <1> HIDE DEF o
  <1> QED
    BY <1>1, MwChange

\* Somebody else's write.
LEMMA WriteType ==
    ASSUME LinkType, MwType, NEW e \in Edges, NEW l \in Link, l.deleting => l.live,
           Write(e, l)
    PROVE  LinkType' /\ MwType' /\ mw'.pc = mw.pc /\ mw'.e = mw.e
  <1>1. LinkType'
    BY StoreType DEF Write
  <1> DEFINE o == mw.old \/ (mw.e = e /\ Settled(l) # link[e])
  <1>2. mw' = [mw EXCEPT !.old = o] /\ o \in BOOLEAN
    BY DEF Write, MwType, MwState
  <1> HIDE DEF o
  <1>3. mw' \in MwState /\ mw'.pc = mw.pc /\ mw'.e = mw.e
    BY <1>2, MwChange
  <1> QED
    BY <1>1, <1>3 DEF MwType

\* The reconcile's own writes.
LEMMA OwnType ==
    ASSUME LinkType, MwType, mw.pc # "idle", NEW l \in Link, l.deleting => l.live,
           WriteOwn(l)
    PROVE  LinkType'
  BY StoreType DEF WriteOwn, MwType

\* A status, a finalizer.
LEMMA ReconcileWrites ==
    ASSUME LinkType, MwType, mw.pc # "idle"
    PROVE  /\ \A b \in BOOLEAN : WriteOwn([link[mw.e] EXCEPT !.finalizer = b]) => LinkType'
           /\ \A phase \in {"Failed", "N4Wired"} : WriteStatus(phase) => LinkType'
  <1>1. mw.e \in Edges /\ link[mw.e] \in Link /\ (link[mw.e].deleting => link[mw.e].live)
    BY DEF MwType, LinkType, LinkOK
  <1>2. ASSUME NEW b \in BOOLEAN, WriteOwn([link[mw.e] EXCEPT !.finalizer = b])
        PROVE  LinkType'
    <2> DEFINE l == [link[mw.e] EXCEPT !.finalizer = b]
    <2>1. l \in Link
      BY <1>1 DEF Link
    <2>2. l.deleting = link[mw.e].deleting /\ l.live = link[mw.e].live
      BY <1>1 DEF Link
    <2> HIDE DEF l
    <2> QED
      BY <1>1, <1>2, <2>1, <2>2, OwnType DEF l
  <1>3. ASSUME NEW phase \in {"Failed", "N4Wired"}, WriteStatus(phase)
        PROVE  LinkType'
    <2> DEFINE l == [link[mw.e] EXCEPT !.phase = phase]
    <2>1. l \in Link /\ (l.deleting => l.live)
      BY <1>1, LinkWriteType DEF Link
    <2>2. WriteOwn(l) \/ UNCHANGED linkVars
      BY <1>3 DEF WriteStatus
    <2> HIDE DEF l
    <2> QED
      BY <2>1, <2>2, OwnType, PartsKept
  <1> QED
    BY <1>2, <1>3

\* The reconcile in progress, at its next step or at its end.
LEMMA MwSteps ==
    ASSUME MwType, mw.pc # "idle"
    PROVE  /\ \A pc \in Wiring \cup {"pod", "status", "cleanEdge", "release"} :
                 Goto(pc) => MwType' /\ mw'.pc = pc /\ mw'.e = mw.e
           /\ mw' = IdleMw => MwType' /\ mw'.pc = "idle"
           /\ QueueType /\ Again /\ UNCHANGED esQueue => QueueType' /\ MwType' /\ mw'.pc = "idle"
  <1>1. mw.e \in Edges
    BY DEF MwType
  <1> QED
    BY <1>1, MwChange DEF Goto, Again, MwType, QueueType

\* A counted fault.
LEMMA FaultType ==
    ASSUME BoundsType, Fault
    PROVE  BoundsType'
  BY DEF BoundsType, Fault

\* Every step of a reconcile keeps the types.
LEMMA MlStepType ==
    ASSUME TypeOK, MlStep \/ MlFault \/ MlMeshUnseen
    PROVE  TypeOK'
  <1>0. /\ SiteType /\ LinkType /\ QueueType /\ MwType /\ WiringType /\ EdgeType /\ BoundsType
    BY TypeParts
  <1>1. /\ mw.pc # "idle" => mw.e \in Edges
        /\ n4 \in [Edges -> IPs \cup {NoIP}] /\ NoIP \in IPs \cup {NoIP}
        /\ pod \in [Edges -> IPs \cup {NoIP}]
    BY <1>0 DEF MwType, WiringType, EdgeType
  <1>2. CASE MlAddFinalizer
    <2>1. mw.pc # "idle" /\ UNCHANGED <<siteVars, esQueue, wiring, edgeVars, bounds>>
      BY <1>2 DEF MlAddFinalizer
    <2>2. LinkType' /\ MwType' /\ QueueType'
      BY <1>0, <1>2, <2>1, ReconcileWrites, MwSteps, PartsKept DEF MlAddFinalizer, Wiring
    <2> QED
      BY <1>0, <2>1, <2>2, PartsKept, TypeParts
  <1>3. ASSUME mw.pc # "idle", Failed, BoundsType' PROVE TypeOK'
    <2>1. LinkType' /\ MwType' /\ QueueType'
      BY <1>0, <1>3, ReconcileWrites, MwSteps DEF Failed
    <2> QED
      BY <1>0, <1>3, <2>1, PartsKept, TypeParts DEF Failed
  <1>4. CASE MlUnreachable
    <2>1. mw.pc # "idle" /\ Failed /\ BoundsType'
      BY <1>0, <1>4, PartsKept DEF MlUnreachable
    <2> QED
      BY <1>3, <2>1
  <1>5. CASE MlFault
    <2>1. mw.pc # "idle" /\ Failed /\ BoundsType'
      BY <1>0, <1>5, FaultType DEF MlFault, Wiring
    <2> QED
      BY <1>3, <2>1
  <1>6. CASE MlMesh \/ MlExport \/ MlConsume \/ MlWireN4 \/ MlCleanEdge
    <2>1. /\ mw.pc # "idle"
          /\ \E pc \in Wiring \cup {"pod", "status", "cleanEdge", "release"} : Goto(pc)
          /\ UNCHANGED <<siteVars, linkVars, esQueue, mlQueue, edgeVars, bounds>>
      BY <1>6 DEF MlMesh, MlExport, MlConsume, MlWireN4, MlCleanEdge, Wiring
    <2>2. MwType'
      BY <1>0, <2>1, MwSteps
    <2>3. mw.ip \in IPs \cup {NoIP}
      BY <1>0 DEF MwType, MwState
    <2>4. WiringType'
      BY <1>0, <1>1, <1>6, <2>1, <2>3
         DEF MlMesh, MlExport, MlConsume, MlWireN4, MlCleanEdge, WiringType
    <2> QED
      BY <1>0, <2>1, <2>2, <2>4, PartsKept, TypeParts
  <1>7. CASE MlMeshUnseen
    <2>1. /\ mw.pc # "idle" /\ Goto("export") /\ Fault
          /\ UNCHANGED <<siteVars, linkVars, esQueue, mlQueue, wiring, edgeVars>>
      BY <1>7 DEF MlMeshUnseen
    <2>2. MwType'
      BY <1>0, <2>1, MwSteps DEF Wiring
    <2> QED
      BY <1>0, <2>1, <2>2, FaultType, PartsKept, TypeParts
  <1>8. CASE MlReadPod
    <2>1. /\ mw.pc # "idle"
          /\ UNCHANGED <<siteVars, linkVars, esQueue, mlQueue, wiring, edgeVars, bounds>>
          /\ \/ mw' = [mw EXCEPT !.pc = "n4", !.ip = pod[mw.e]]
             \/ mw' = [mw EXCEPT !.pc = "status"]
      BY <1>8 DEF MlReadPod
    <2>2. mw.e \in Edges /\ pod[mw.e] \in IPs \cup {NoIP}
      BY <1>1, <2>1
    <2>3. ASSUME mw' = [mw EXCEPT !.pc = "n4", !.ip = pod[mw.e]] PROVE MwType'
      <3>1. mw' \in MwState /\ mw'.e = mw.e
        BY <1>0, <2>2, <2>3, MwChange
      <3> QED
        BY <2>2, <3>1 DEF MwType
    <2>4. ASSUME mw' = [mw EXCEPT !.pc = "status"] PROVE MwType'
      <3>1. mw' \in MwState /\ mw'.e = mw.e
        BY <1>0, <2>4, MwChange
      <3> QED
        BY <2>2, <3>1 DEF MwType
    <2> QED
      BY <1>0, <2>1, <2>3, <2>4, PartsKept, TypeParts
  <1>9. CASE MlStatus
    <2>1. /\ mw.pc # "idle" /\ WriteStatus("N4Wired") /\ Again
          /\ UNCHANGED <<siteVars, esQueue, wiring, edgeVars, bounds>>
      BY <1>9 DEF MlStatus
    <2>2. LinkType' /\ MwType' /\ QueueType'
      BY <1>0, <2>1, ReconcileWrites, MwSteps
    <2> QED
      BY <1>0, <2>1, <2>2, PartsKept, TypeParts
  <1>10. CASE MlCleanCp
    <2>1. /\ mw.pc # "idle" /\ Goto("cleanEdge")
          /\ UNCHANGED <<siteVars, linkVars, esQueue, mlQueue, meshed, amfEdge, edgeVars>>
          /\ n4' \in {n4, [n4 EXCEPT ![mw.e] = NoIP]} /\ amfCp' \in {amfCp, FALSE}
          /\ UNCHANGED bounds \/ Fault
      BY <1>10 DEF MlCleanCp
    <2>2. MwType' /\ WiringType' /\ BoundsType'
      BY <1>0, <1>1, <2>1, MwSteps, FaultType, PartsKept DEF WiringType
    <2> QED
      BY <1>0, <2>1, <2>2, PartsKept, TypeParts
  <1>11. CASE MlRelease
    <2>1. mw.pc # "idle" /\ UNCHANGED <<siteVars, esQueue, wiring, edgeVars, bounds>>
      BY <1>11 DEF MlRelease
    <2>2. LinkType' /\ MwType' /\ QueueType'
      BY <1>0, <1>11, <2>1, ReconcileWrites, MwSteps, PartsKept DEF MlRelease
    <2> QED
      BY <1>0, <2>1, <2>2, PartsKept, TypeParts
  <1> QED
    BY <1>2, <1>4, <1>5, <1>6, <1>7, <1>8, <1>9, <1>10, <1>11 DEF MlStep

\* So does every other step.
LEMMA OtherStepType ==
    ASSUME TypeOK,
           \/ Restart \/ OtherRemoved
           \/ \E e \in Edges : \/ MlGet(e) \/ EsMeshLink(e)
                               \/ LinkEvent(e) \/ SiteEvent(e) \/ GC(e)
                               \/ UserCreate(e) \/ UserDelete(e)
                               \/ \E ip \in IPs \cup {NoIP} : MovePod(e, ip)
                               \/ \E state \in EdgeStates : MoveEdge(e, state)
    PROVE  TypeOK'
  <1>0. /\ SiteType /\ LinkType /\ QueueType /\ MwType /\ WiringType /\ EdgeType /\ BoundsType
    BY TypeParts
  <1>1. \A e \in Edges : LinkRead(link[e]) \in [live : BOOLEAN, finalizer : BOOLEAN,
                                               deleting : BOOLEAN]
    BY <1>0 DEF LinkType, Link, LinkRead
  <1>2. CASE Restart
    <2>1. SiteType' /\ QueueType'
      BY <1>0, <1>2 DEF Restart, SiteType, QueueType
    <2>2. linkCache' \in [Edges -> [live : BOOLEAN, finalizer : BOOLEAN, deleting : BOOLEAN]]
      BY <1>1, <1>2 DEF Restart
    <2>3. LinkType'
      BY <1>0, <1>2, <2>2 DEF Restart, LinkType
    <2>4. MwType'
      BY <1>0, <1>2, MwChange DEF Restart, MwType
    <2> QED
      BY <1>0, <1>2, <2>1, <2>3, <2>4, FaultType, PartsKept, TypeParts DEF Restart
  <1>3. CASE OtherRemoved
    <2>1. BoundsType'
      BY <1>0, <1>3 DEF OtherRemoved, BoundsType
    <2>2. amfCp' \in BOOLEAN /\ UNCHANGED <<meshed, amfEdge, n4>>
      BY <1>3 DEF OtherRemoved
    <2>3. WiringType'
      BY <1>0, <2>2 DEF WiringType
    <2> QED
      BY <1>0, <1>3, <2>1, <2>3, PartsKept, TypeParts DEF OtherRemoved
  <1>4. ASSUME NEW e \in Edges, MlGet(e) PROVE TypeOK'
    <2>1. QueueType'
      BY <1>0, <1>4 DEF MlGet, QueueType
    <2>2. ASSUME NEW pc \in {"finalize", "mesh", "cleanup"},
                 mw' = [pc |-> pc, e |-> e, old |-> e \in behind, ip |-> NoIP]
          PROVE  MwType'
      BY <2>2 DEF MwType, MwState, Wiring
    <2>3. MwType'
      BY <1>0, <1>4, <2>2, PartsKept DEF MlGet
    <2> QED
      BY <1>0, <1>4, <2>1, <2>3, PartsKept, TypeParts DEF MlGet
  <1>5. ASSUME NEW e \in Edges, EsMeshLink(e) PROVE TypeOK'
    <2> DEFINE l == [link[e] EXCEPT !.live = TRUE, !.uid = siteCache[e].uid,
                                    !.finalizer = FALSE]
    <2>1. link[e] \in Link /\ siteCache[e].uid \in Nat
      BY <1>0 DEF LinkType, SiteType
    <2>2. l \in Link /\ l.live
      BY <2>1, LinkWriteType
    <2>3. Write(e, l) \/ UNCHANGED <<linkVars, mw>>
      BY <1>5 DEF EsMeshLink
    <2> HIDE DEF l
    <2>4. LinkType' /\ MwType'
      BY <1>0, <2>2, <2>3, WriteType, PartsKept
    <2>5. QueueType'
      BY <1>0, <1>5 DEF EsMeshLink, QueueType
    <2> QED
      BY <1>0, <1>5, <2>4, <2>5, PartsKept, TypeParts DEF EsMeshLink
  <1>6. ASSUME NEW e \in Edges, LinkEvent(e) PROVE TypeOK'
    <2>1. LinkType' /\ QueueType'
      BY <1>0, <1>1, <1>6 DEF LinkEvent, LinkType, QueueType
    <2> QED
      BY <1>0, <1>6, <2>1, PartsKept, TypeParts DEF LinkEvent
  <1>7. ASSUME NEW e \in Edges, SiteEvent(e) PROVE TypeOK'
    <2>1. SiteType' /\ QueueType'
      BY <1>0, <1>7 DEF SiteEvent, SiteType, QueueType
    <2> QED
      BY <1>0, <1>7, <2>1, PartsKept, TypeParts DEF SiteEvent
  <1>8. ASSUME NEW e \in Edges, GC(e) PROVE TypeOK'
    <2> DEFINE l == [link[e] EXCEPT !.deleting = TRUE]
    <2>1. link[e] \in Link /\ link[e].live /\ Write(e, l)
      BY <1>0, <1>8 DEF GC, LinkType
    <2>2. l \in Link /\ l.live
      BY <2>1 DEF Link
    <2> HIDE DEF l
    <2>3. LinkType' /\ MwType'
      BY <1>0, <2>1, <2>2, WriteType
    <2> QED
      BY <1>0, <1>8, <2>3, PartsKept, TypeParts DEF GC
  <1>9. ASSUME NEW e \in Edges, UserCreate(e) \/ UserDelete(e) PROVE TypeOK'
    <2>1. site[e] \in [live : BOOLEAN, uid : Nat]
      BY <1>0 DEF SiteType
    <2>2. [live |-> TRUE, uid |-> site[e].uid + 1] \in [live : BOOLEAN, uid : Nat]
      BY <2>1
    <2>3. [site[e] EXCEPT !.live = FALSE] \in [live : BOOLEAN, uid : Nat]
      BY <2>1
    <2>4. site' = [site EXCEPT ![e] = [live |-> TRUE, uid |-> site[e].uid + 1]]
          \/ site' = [site EXCEPT ![e] = [site[e] EXCEPT !.live = FALSE]]
      BY <1>9 DEF UserCreate, UserDelete
    <2>5. SiteType'
      BY <1>0, <1>9, <2>2, <2>3, <2>4 DEF UserCreate, UserDelete, SiteType
    <2>6. BoundsType'
      BY <1>0, <1>9 DEF UserCreate, UserDelete, BoundsType
    <2> QED
      BY <1>0, <1>9, <2>5, <2>6, PartsKept, TypeParts DEF UserCreate, UserDelete
  <1>10. ASSUME NEW e \in Edges, NEW ip \in IPs \cup {NoIP}, MovePod(e, ip) PROVE TypeOK'
    <2>1. EdgeType' /\ BoundsType'
      BY <1>0, <1>10 DEF MovePod, EdgeType, BoundsType
    <2> QED
      BY <1>0, <1>10, <2>1, PartsKept, TypeParts DEF MovePod
  <1>11. ASSUME NEW e \in Edges, NEW state \in EdgeStates, MoveEdge(e, state) PROVE TypeOK'
    <2>1. EdgeType' /\ BoundsType'
      BY <1>0, <1>11 DEF MoveEdge, EdgeType, BoundsType
    <2> QED
      BY <1>0, <1>11, <2>1, PartsKept, TypeParts DEF MoveEdge
  <1> QED
    BY <1>2, <1>3, <1>4, <1>5, <1>6, <1>7, <1>8, <1>9, <1>10, <1>11

\* The state of both controllers and of the clusters has its type throughout, and a
\* MeshLink that is being deleted still has the finalizer of meshlink_controller.go.
THEOREM MeshTypeCorrect == Spec => []TypeOK
  <1>1. Init => TypeOK
    <2> SUFFICES ASSUME Init PROVE TypeOK
      OBVIOUS
    <2>1. SiteType /\ QueueType /\ WiringType /\ EdgeType /\ BoundsType
      BY DEF Init, SiteType, QueueType, WiringType, EdgeType, EdgeStates, BoundsType
    <2>2. LinkType
      BY DEF Init, LinkType, LinkOK, Link, NoLink, LinkRead
    <2>3. MwType
      BY DEF Init, MwType, MwState, IdleMw
    <2> QED
      BY <2>1, <2>2, <2>3, TypeParts
  <1>2. TypeOK /\ [Next]_vars => TypeOK'
    <2> SUFFICES ASSUME TypeOK, [Next]_vars PROVE TypeOK'
      OBVIOUS
    <2>1. CASE UNCHANGED vars
      BY <2>1, PartsKept, TypeParts DEF vars
    <2> QED
      BY <2>1, MlStepType, OtherStepType DEF Next
  <1> QED
    BY <1>1, <1>2, PTL DEF Spec

-----------------------------------------------------------------------------
(* The teardown *)

\* What the reconcile of a deleted MeshLink has torn down, while no call failed.
CleanInv ==
    faults = 0 /\ mw.pc \in {"cleanEdge", "release"} => n4[mw.e] = NoIP /\ ~amfCp

\* Nobody but the reconcile in progress wires N2 or N4.
LEMMA CleanStep ==
    ASSUME TypeOK, CleanInv, [Next]_vars
    PROVE  CleanInv'
  <1>0. LinkType /\ MwType /\ WiringType /\ BoundsType /\ SiteType
    BY TypeParts
  <1>1. ASSUME UNCHANGED <<n4, amfCp>>, mw'.pc = mw.pc, mw'.e = mw.e,
               faults' = faults \/ faults' = faults + 1
        PROVE  CleanInv'
    BY <1>0, <1>1 DEF CleanInv, BoundsType
  <1>2. ASSUME mw'.pc \notin {"cleanEdge", "release"} PROVE CleanInv'
    BY <1>2 DEF CleanInv
  <1>3. ASSUME NEW pc, Goto(pc) PROVE mw'.pc = pc /\ mw'.e = mw.e
    BY <1>0, <1>3, MwChange DEF Goto
  <1>4. CASE MlAddFinalizer \/ MlMesh \/ MlExport \/ MlConsume \/ MlWireN4 \/ MlMeshUnseen
    <2>1. CASE mw' = IdleMw
      BY <1>2, <2>1 DEF IdleMw
    <2>2. CASE \E pc \in {"mesh", "export", "consume", "pod", "status"} : Goto(pc)
      BY <1>2, <1>3, <2>2
    <2> QED
      BY <1>4, <2>1, <2>2
         DEF MlAddFinalizer, MlMesh, MlExport, MlConsume, MlWireN4, MlMeshUnseen, Again
  <1>5. CASE MlUnreachable \/ MlFault \/ MlStatus \/ MlRelease \/ Restart
    <2>1. mw' = IdleMw
      BY <1>5 DEF MlUnreachable, MlFault, MlStatus, MlRelease, Failed, Again, Restart
    <2> QED
      BY <1>2, <2>1 DEF IdleMw
  <1>6. CASE MlReadPod
    <2>1. mw.e \in Edges
      BY <1>0, <1>6 DEF MlReadPod, MwType
    <2>2. pod[mw.e] \in IPs \cup {NoIP}
      BY <2>1, TypeParts DEF EdgeType
    <2>3. mw' = [mw EXCEPT !.pc = "n4", !.ip = pod[mw.e]] \/ mw' = [mw EXCEPT !.pc = "status"]
      BY <1>6 DEF MlReadPod
    <2>4. CASE mw' = [mw EXCEPT !.pc = "n4", !.ip = pod[mw.e]]
      <3>1. mw'.pc = "n4"
        BY <1>0, <2>2, <2>4, MwChange
      <3> QED
        BY <1>2, <3>1
    <2>5. CASE mw' = [mw EXCEPT !.pc = "status"]
      <3>1. mw'.pc = "status"
        BY <1>0, <2>5, MwChange
      <3> QED
        BY <1>2, <3>1
    <2> QED
      BY <2>3, <2>4, <2>5
  <1>7. CASE MlCleanCp
    <2>1. mw.e \in Edges /\ n4 \in [Edges -> IPs \cup {NoIP}]
      BY <1>0, <1>7 DEF MlCleanCp, MwType, WiringType
    <2>2. mw'.e = mw.e
      BY <1>3, <1>7 DEF MlCleanCp
    <2>3. CASE Fault
      BY <1>0, <2>3 DEF Fault, BoundsType, CleanInv
    <2>4. CASE n4' = [n4 EXCEPT ![mw.e] = NoIP] /\ amfCp' = FALSE
      BY <2>1, <2>2, <2>4 DEF CleanInv
    <2> QED
      BY <1>7, <2>3, <2>4 DEF MlCleanCp
  <1>8. CASE MlCleanEdge
    <2>1. mw'.e = mw.e /\ mw.pc = "cleanEdge" /\ UNCHANGED <<n4, amfCp, faults>>
      BY <1>3, <1>8 DEF MlCleanEdge, bounds
    <2> QED
      BY <2>1 DEF CleanInv
  <1>9. ASSUME NEW e \in Edges, MlGet(e) PROVE CleanInv'
    <2>1. mw.pc = "idle" /\ (mw' = mw \/ mw'.pc \in {"finalize", "mesh", "cleanup"})
      BY <1>9 DEF MlGet
    <2> QED
      BY <1>2, <2>1
  <1>10. ASSUME NEW e \in Edges, EsMeshLink(e) \/ GC(e) PROVE CleanInv'
    <2>1. mw'.pc = mw.pc /\ mw'.e = mw.e
      BY <1>0, <1>10, WriteKeepsMw DEF EsMeshLink, GC
    <2> QED
      BY <1>1, <1>10, <2>1 DEF EsMeshLink, GC, wiring, bounds
  <1>11. CASE \/ \E e \in Edges : \/ LinkEvent(e) \/ SiteEvent(e)
                                 \/ UserCreate(e) \/ UserDelete(e)
                                 \/ \E ip \in IPs \cup {NoIP} : MovePod(e, ip)
                                 \/ \E state \in EdgeStates : MoveEdge(e, state)
    BY <1>1, <1>11 DEF LinkEvent, SiteEvent, UserCreate, UserDelete, MovePod, MoveEdge,
                       wiring, bounds
  <1>12. CASE OtherRemoved
    BY <1>2, <1>12 DEF OtherRemoved
  <1>13. CASE UNCHANGED vars
    BY <1>1, <1>13 DEF vars, wiring, bounds
  <1> QED
    BY <1>4, <1>5, <1>6, <1>7, <1>8, <1>9, <1>10, <1>11, <1>12, <1>13 DEF Next, MlStep

\* While no call failed, the MeshLink controller releases the finalizer of a MeshLink
\* only when upf-<edge> and amf-cp are gone from the control-plane cluster, whatever
\* the EdgeSite controller, the collector and the users did since it removed them.
THEOREM TeardownOrdered == Spec => TornDownBeforeRelease
  <1>1. Init => CleanInv
    BY DEF Init, CleanInv, IdleMw
  <1>2. TypeOK /\ CleanInv /\ [Next]_vars => CleanInv'
    BY CleanStep
  <1>3. CleanInv => [(faults = 0 /\ mw.pc = "release" /\ mw'.pc = "idle" /\ ~link'[mw.e].live)
                        => n4[mw.e] = NoIP /\ ~amfCp]_vars
    BY DEF CleanInv
  <1> QED
    BY <1>1, <1>2, <1>3, MeshTypeCorrect, PTL DEF Spec, TornDownBeforeRelease
=============================================================================
