----------------------------- MODULE UPFDataPath -----------------------------
(***************************************************************************)
(* The UPFDataPath actuator (upfdatapath_controller.go): the agent of one  *)
(* node, which programs the host's bridges, routes, NAT and N2 VIPs, and   *)
(* heals the UPF pod, from one UPFDataPath.                                *)
(*                                                                         *)
(* A reconcile goes through a fixed list of steps.  A step that fails is   *)
(* noted and the next one runs; the reconcile comes back in any case.  The *)
(* steps interleave with the life of the pod, with lagging caches and with *)
(* the host.  Only the List of upf-heal and that of n2-vip are served by a *)
(* cache; the other steps ask the API server.                              *)
(***************************************************************************)
EXTENDS Integers, FiniteSets

CONSTANTS
    Nics,       \* the NICs of the node
    Preferred,  \* spec.egressNic, which the node may not have
    Vips,       \* addresses in the .240-.254 range; the node's own ones are not
    MaxEdits,   \* bound on changes of the intent, the Services and the default route
    MaxFaults   \* bound on failures, crashes and restarts

VARIABLES
    dp,         \* the UPFDataPath: absent, without a UE pool, or set
    ready,      \* its Ready condition
    host,       \* the host steps that are in effect
    nat,        \* the NICs with the MASQUERADE rule
    vips,       \* the /32 addresses of each NIC
    stale,      \* a stale neighbour entry for the UPF or the gNB
    egress,     \* the NIC of the default route
    exposed,    \* the load-balancer IPs of the exposed N2 Services
    exposedCache,
    multus,     \* multus is the node's CNI
    pod,        \* the UPF pod
    podCache,   \* what upf-heal sees of it
    w,          \* the reconcile in progress
    queued, edits, faults

hostVars == <<host, nat, vips, stale>>
world == <<egress, exposed, exposedCache, multus>>
podVars == <<pod, podCache>>
bounds == <<edits, faults>>
vars == <<dp, ready, hostVars, world, podVars, w, queued, bounds>>

NoNic == "none"

ASSUME NicsAssumption == NoNic \notin Nics \cup {Preferred}
ASSUME BoundsAssumption == {MaxEdits, MaxFaults} \subseteq Nat

-----------------------------------------------------------------------------
(* The steps, in their order *)

After == [bridges |-> "gateways", gateways |-> "forwarding", forwarding |-> "n6route",
          n6route |-> "n6nat", n6nat |-> "n2vip", n2vip |-> "upfHeal",
          upfHeal |-> "upfHarden", upfHarden |-> "accessRoute",
          accessRoute |-> "pfcpHeal", pfcpHeal |-> "arp", arp |-> "status"]

HostSteps == {"bridges", "gateways", "forwarding", "n6route"}

\* The steps whose errors are swallowed, by themselves or by what they call.
Silent == {"upfHeal", "upfHarden", "pfcpHeal", "arp"}

IdleW == [pc |-> "idle", nic |-> NoNic, failed |-> {}, old |-> FALSE]

Pod == [there : BOOLEAN, nets : BOOLEAN, loop : BOOLEAN, aged : BOOLEAN,
        started : BOOLEAN, ready : BOOLEAN, hardened : BOOLEAN,
        route : {"none", "added", "mac"}, pfcp : {"none", "down", "ok"}]
NoPod == [there |-> FALSE, nets |-> FALSE, loop |-> FALSE, aged |-> FALSE,
          started |-> FALSE, ready |-> FALSE, hardened |-> FALSE,
          route |-> "none", pfcp |-> "none"]

View(p) == [f \in {"there", "nets", "loop", "aged", "ready"} |-> p[f]]

\* A configured NIC that exists, else the one of the default route.
hostEgressNic == IF Preferred \in Nics THEN Preferred ELSE egress

-----------------------------------------------------------------------------
(* A reconcile *)

\* Nothing is done, and nothing brought up again, without a UE pool.
DpGet ==
    /\ w.pc = "idle"
    /\ queued
    /\ queued' = FALSE
    /\ w' = IF dp = "set"
            THEN [pc |-> "bridges", nic |-> hostEgressNic, failed |-> {}, old |-> FALSE] ELSE w
    /\ UNCHANGED <<dp, ready, hostVars, world, podVars, bounds>>

Done == w' = [w EXCEPT !.pc = After[@]]

\* Mutant: the reconcile stops at the first failure.
FailedMutant == w' = [w EXCEPT !.pc = "status", !.failed = @ \cup {w.pc}]

Failed == w' = [w EXCEPT !.pc = After[@], !.failed = @ \cup {w.pc}]

\* Gateways and the route to the UE pool need the bridges.
DpHostStep ==
    /\ w.pc \in HostSteps
    /\ \/ /\ w.pc \in {"bridges", "forwarding"} \/ "bridges" \in host
          /\ host' = host \cup {w.pc}
          /\ Done
       \/ /\ w.pc \in {"gateways", "n6route"} /\ "bridges" \notin host
          /\ Failed
          /\ UNCHANGED host
    /\ UNCHANGED <<dp, ready, nat, vips, stale, world, podVars, queued, bounds>>

\* Mutant: the rule is programmed whatever NIC was detected.
DpN6NatMutant ==
    /\ w.pc = "n6nat"
    /\ nat' = nat \cup {w.nic}
    /\ Done
    /\ UNCHANGED <<dp, ready, host, vips, stale, world, podVars, queued, bounds>>

DpN6Nat ==
    /\ w.pc = "n6nat"
    /\ \/ /\ w.nic # NoNic
          /\ nat' = nat \cup {w.nic}
          /\ Done
       \/ /\ w.nic = NoNic
          /\ Failed
          /\ UNCHANGED nat
    /\ UNCHANGED <<dp, ready, host, vips, stale, world, podVars, queued, bounds>>

\* Mutant: addresses are added and none is taken away.
DpN2VipMutant ==
    /\ w.pc = "n2vip"
    /\ vips' = IF w.nic = NoNic THEN vips ELSE [vips EXCEPT ![w.nic] = @ \cup exposedCache]
    /\ Done
    /\ UNCHANGED <<dp, ready, host, nat, stale, world, podVars, queued, bounds>>

\* The wanted addresses are put on the NIC, all others of the range taken off it.
DpN2Vip ==
    /\ w.pc = "n2vip"
    /\ vips' = IF w.nic = NoNic THEN vips ELSE [vips EXCEPT ![w.nic] = exposedCache]
    /\ Done
    /\ UNCHANGED <<dp, ready, host, nat, stale, world, podVars, queued, bounds>>

\* A pod that upf-heal deletes: not Ready, in a crash loop or without its networks.
Sick(p) == p.there /\ ~p.ready /\ (p.loop \/ (p.aged /\ ~p.nets))

\* The pod is deleted by its name, which its successor has too.
DpUpfHeal ==
    /\ w.pc = "upfHeal"
    /\ pod' = IF Sick(podCache) THEN NoPod ELSE pod
    /\ Done
    /\ UNCHANGED <<dp, ready, hostVars, world, podCache, queued, bounds>>

DpUpfHarden ==
    /\ w.pc = "upfHarden"
    /\ pod' = [pod EXCEPT !.hardened = @ \/ pod.started]
    /\ Done
    /\ UNCHANGED <<dp, ready, hostVars, world, podCache, queued, bounds>>

\* A pod whose bessd has not started is left for the next reconcile.
DpAccessRoute ==
    /\ w.pc = "accessRoute"
    /\ pod' = IF pod.started THEN [pod EXCEPT !.route = "mac"] ELSE pod
    /\ Done
    /\ UNCHANGED <<dp, ready, hostVars, world, podCache, queued, bounds>>

\* The MAC of the next hop could not be stamped; this is no failure.
DpNoMac ==
    /\ w.pc = "accessRoute"
    /\ pod.started
    /\ faults < MaxFaults
    /\ faults' = faults + 1
    /\ pod' = [pod EXCEPT !.route = "added"]
    /\ Done
    /\ UNCHANGED <<dp, ready, hostVars, world, podCache, queued, edits>>

\* pfcpiface is bounced if it says "datapath down", and attaches to a ready bessd.
DpPfcpHeal ==
    /\ w.pc = "pfcpHeal"
    /\ pod' = IF pod.pfcp = "down" /\ pod.ready THEN [pod EXCEPT !.pfcp = "ok"] ELSE pod
    /\ Done
    /\ UNCHANGED <<dp, ready, hostVars, world, podCache, queued, bounds>>

DpArp ==
    /\ w.pc = "arp"
    /\ stale' = (stale /\ "bridges" \notin host)
    /\ Done
    /\ UNCHANGED <<dp, ready, host, nat, vips, world, podVars, queued, bounds>>

\* Mutant: the step's error is dropped.
DpStepFaultMutant ==
    /\ w.pc \in DOMAIN After
    /\ faults < MaxFaults
    /\ faults' = faults + 1
    /\ Done
    /\ UNCHANGED <<dp, ready, hostVars, world, podVars, queued, edits>>

\* A step fails without having done anything.
DpStepFault ==
    /\ w.pc \in DOMAIN After
    /\ faults < MaxFaults
    /\ faults' = faults + 1
    /\ IF w.pc \in Silent THEN Done ELSE Failed
    /\ UNCHANGED <<dp, ready, hostVars, world, podVars, queued, edits>>

\* Mutant: only a reconcile that succeeded comes back.
DpStatusMutant ==
    /\ w.pc = "status"
    /\ ready' = IF w.old THEN ready ELSE w.failed = {}
    /\ w' = IdleW
    /\ queued' = (w.failed = {} \/ queued)
    /\ UNCHANGED <<dp, hostVars, world, podVars, bounds>>

\* The condition is written over the version read; a write that is refused, the
\* object having been changed or deleted, is ignored.  The reconcile comes back
\* either way.
DpStatus ==
    /\ w.pc = "status"
    /\ ready' = IF w.old THEN ready ELSE w.failed = {}
    /\ w' = IdleW
    /\ queued' = TRUE
    /\ UNCHANGED <<dp, hostVars, world, podVars, bounds>>

-----------------------------------------------------------------------------
(* The UPF pod, which its StatefulSet creates again *)

PodStays == UNCHANGED <<dp, ready, host, nat, vips, world, podCache, w, queued, edits>>

\* The pod gets its networks only if multus is the CNI by then; its MAC is new.
PodCreate ==
    /\ ~pod.there
    /\ pod' = [NoPod EXCEPT !.there = TRUE, !.nets = multus]
    /\ stale' = TRUE
    /\ PodStays /\ UNCHANGED faults

\* 45 s pass.  They only tell apart pods without networks.
PodAge ==
    /\ pod.there /\ ~pod.nets /\ ~pod.aged
    /\ pod' = [pod EXCEPT !.aged = TRUE]
    /\ PodStays /\ UNCHANGED <<stale, faults>>

CanStart == pod.nets /\ "bridges" \in host

\* bess-init fails for the third time.
PodLoop ==
    /\ pod.there /\ ~pod.started /\ ~pod.loop /\ ~CanStart
    /\ pod' = [pod EXCEPT !.loop = TRUE]
    /\ PodStays /\ UNCHANGED <<stale, faults>>

\* pfcpiface may start before bessd's pipeline is up, and never tries again.
PodStart ==
    /\ pod.there /\ ~pod.started /\ CanStart
    /\ \E pfcp \in {"down", "ok"} : pod' = [pod EXCEPT !.started = TRUE, !.pfcp = pfcp]
    /\ PodStays /\ UNCHANGED <<stale, faults>>

PodBecomesReady ==
    /\ pod.started /\ ~pod.ready
    /\ pod' = [pod EXCEPT !.ready = TRUE]
    /\ PodStays /\ UNCHANGED <<stale, faults>>

PodCrash ==
    /\ pod.started
    /\ faults < MaxFaults
    /\ faults' = faults + 1
    /\ pod' = [pod EXCEPT !.started = FALSE, !.ready = FALSE, !.route = "none", !.pfcp = "none"]
    /\ PodStays /\ UNCHANGED stale

PodEvent ==
    /\ podCache # View(pod)
    /\ podCache' = View(pod)
    /\ UNCHANGED <<dp, ready, hostVars, world, pod, w, queued, bounds>>

-----------------------------------------------------------------------------
(* The node, the Services and users *)

ExposedEvent ==
    /\ exposedCache # exposed
    /\ exposedCache' = exposed
    /\ UNCHANGED <<dp, ready, hostVars, egress, exposed, multus, podVars, w, queued, bounds>>

MultusUp ==
    /\ ~multus
    /\ multus' = TRUE
    /\ UNCHANGED <<dp, ready, hostVars, egress, exposed, exposedCache, podVars, w, queued, bounds>>

\* The node comes up with nothing programmed; the agent and the pod's containers
\* start again with it.
Reboot ==
    /\ faults < MaxFaults
    /\ faults' = faults + 1
    /\ host' = {} /\ nat' = {}
    /\ vips' = [n \in Nics |-> {}]
    /\ stale' = FALSE
    /\ pod' = [NoPod EXCEPT !.there = pod.there, !.nets = pod.there /\ multus,
                            !.aged = pod.aged /\ ~multus]
    /\ podCache' = View(pod')
    /\ exposedCache' = exposed
    /\ w' = IdleW
    /\ queued' = (dp # "absent")
    /\ UNCHANGED <<dp, ready, egress, exposed, multus, edits>>

Restart ==
    /\ faults < MaxFaults
    /\ faults' = faults + 1
    /\ w' = IdleW
    /\ queued' = (dp # "absent")
    /\ podCache' = View(pod)
    /\ exposedCache' = exposed
    /\ UNCHANGED <<dp, ready, hostVars, egress, exposed, multus, pod, edits>>

Edit ==
    /\ edits < MaxEdits
    /\ edits' = edits + 1
    /\ UNCHANGED <<hostVars, exposedCache, multus, podVars, faults>>

\* The UPFDataPath is applied, edited or deleted.
UserDp(new) ==
    /\ Edit
    /\ new # dp
    /\ dp' = new
    /\ ready' = (ready /\ new # "absent")
    /\ queued' = TRUE
    /\ w' = [w EXCEPT !.old = w.pc # "idle"]
    /\ UNCHANGED <<egress, exposed>>

MoveEgress(nic) ==
    /\ Edit
    /\ egress' = nic
    /\ UNCHANGED <<dp, ready, exposed, w, queued>>

Expose(set) ==
    /\ Edit
    /\ exposed' = set
    /\ UNCHANGED <<dp, ready, egress, w, queued>>

-----------------------------------------------------------------------------
(* Specification *)

\* The Services are exposed before the UPFDataPath is applied.
Init ==
    /\ dp = "absent" /\ ready = FALSE
    /\ host = {} /\ nat = {} /\ stale = FALSE
    /\ vips = [n \in Nics |-> {}]
    /\ egress \in Nics \cup {NoNic}
    /\ exposed = Vips /\ exposedCache = exposed
    /\ multus = FALSE
    /\ pod = NoPod /\ podCache = View(NoPod)
    /\ w = IdleW /\ queued = FALSE
    /\ edits = 0 /\ faults = 0

Step ==
    \/ DpHostStep \/ DpN6Nat \/ DpN2Vip \/ DpUpfHeal \/ DpUpfHarden
    \/ DpAccessRoute \/ DpPfcpHeal \/ DpArp \/ DpStatus

Faults == DpNoMac \/ DpStepFault \/ PodCrash \/ Reboot \/ Restart

UserNext ==
    \/ \E new \in {"absent", "noPool", "set"} : UserDp(new)
    \/ \E nic \in (Nics \cup {NoNic}) \ {egress} : MoveEgress(nic)
    \/ \E set \in SUBSET Vips \ {exposed} : Expose(set)

Next ==
    \/ DpGet \/ Step \/ Faults \/ UserNext
    \/ PodCreate \/ PodAge \/ PodLoop \/ PodStart \/ PodBecomesReady
    \/ PodEvent \/ ExposedEvent \/ MultusUp

Spec == Init /\ [][Next]_vars

\* The agent and the watches keep going; the StatefulSet creates its pod, whose
\* containers start and become ready, and time passes.
Fairness ==
    /\ WF_vars(DpGet) /\ WF_vars(Step)
    /\ WF_vars(PodCreate) /\ WF_vars(PodAge) /\ WF_vars(PodStart) /\ WF_vars(PodBecomesReady)
    /\ WF_vars(PodEvent) /\ WF_vars(ExposedEvent)

FairSpec == Spec /\ Fairness

-----------------------------------------------------------------------------
(* Properties *)

\* Every variable has its type; in particular NAT is only ever programmed on a
\* NIC the node has, never on a guessed one.
TypeOK ==
    /\ dp \in {"absent", "noPool", "set"} /\ ready \in BOOLEAN
    /\ host \in SUBSET HostSteps
    /\ nat \in SUBSET Nics
    /\ vips \in [Nics -> SUBSET Vips]
    /\ stale \in BOOLEAN
    /\ egress \in Nics \cup {NoNic}
    /\ exposed \in SUBSET Vips /\ exposedCache \in SUBSET Vips
    /\ multus \in BOOLEAN
    /\ pod \in Pod
    /\ podCache \in [{"there", "nets", "loop", "aged", "ready"} -> BOOLEAN]
    /\ w \in [pc : DOMAIN After \cup {"idle", "status"}, nic : Nics \cup {NoNic},
              failed : SUBSET DOMAIN After, old : BOOLEAN]
    /\ queued \in BOOLEAN
    /\ {edits, faults} \subseteq Nat

\* No "broken-but-Ready datapath": a reconcile that is about to report Ready has
\* the bridges, gateways, forwarding and route in effect, and NAT on its NIC.
ReadyIsProgrammed ==
    w.pc = "status" /\ w.failed = {} => host = HostSteps /\ w.nic \in nat

\* Aborting early "starves" the heals "behind any persistently-failing earlier
\* step": the UPF ends up served although n6-nat may fail for ever, and however
\* the pod and multus raced.
UpfConverges ==
    <>[](dp = "set" /\ multus)
        => <>[](/\ pod.ready /\ pod.hardened /\ pod.route = "mac" /\ pod.pfcp = "ok"
                /\ ~stale)

\* "self-healing: re-run periodically": what a reboot, a crash or a failed step has
\* undone on the host is programmed again.
HostHeals == <>[](dp = "set") => <>[](host = HostSteps)

\* The NIC ends up with the exposed VIPs of the range and no other.
VipsFollow ==
    \A set \in SUBSET Vips, nic \in Nics :
        <>[](dp = "set" /\ exposed = set /\ hostEgressNic = nic) => <>[](vips[nic] = set)
=============================================================================
