-------------------------- MODULE UPFDataPathProofs --------------------------
(***************************************************************************)
(* The datapath agent never reports Ready over a broken host, for any set  *)
(* of NICs and addresses: TypeOK and ReadyIsProgrammed are invariants.     *)
(*                                                                         *)
(* ReadyIsProgrammed speaks of the end of a reconcile only.  It follows    *)
(* from Programmed, which says of every point of a reconcile that the      *)
(* steps it has behind it and that did not fail are in effect.             *)
(***************************************************************************)
EXTENDS UPFDataPath, TLAPS

StepNames == {"bridges", "gateways", "forwarding", "n6route", "n6nat", "n2vip",
              "upfHeal", "upfHarden", "accessRoute", "pfcpHeal", "arp"}

\* The steps are the fields of After.
LEMMA AfterDomain == DOMAIN After = StepNames
  BY DEF After, StepNames

\* After a step there is another one, or the status.
LEMMA AfterType == \A pc \in StepNames : After[pc] \in StepNames \cup {"status"}
  BY DEF After, StepNames

PcType == StepNames \cup {"idle", "status"}

\* A reconcile in progress, by its fields.
WState == [pc : PcType, nic : Nics \cup {NoNic}, failed : SUBSET StepNames, old : BOOLEAN]

\* Where a reconcile is when the step x is not behind it.
Until == [bridges |-> {"idle", "bridges"},
          gateways |-> {"idle", "bridges", "gateways"},
          forwarding |-> {"idle", "bridges", "gateways", "forwarding"},
          n6route |-> {"idle", "bridges", "gateways", "forwarding", "n6route"},
          n6nat |-> {"idle", "bridges", "gateways", "forwarding", "n6route", "n6nat"}]

Past(x) == w.pc \notin Until[x] /\ x \notin w.failed

\* What a reconcile has behind it, and did not fail, is in effect.
Programmed ==
    /\ \A x \in HostSteps : Past(x) => x \in host
    /\ Past("n6nat") => w.nic \in nat

-----------------------------------------------------------------------------
(* Types *)

\* The type of w, in the terms the proofs use.
LEMMA WType == TypeOK => w \in WState
  BY AfterDomain DEF TypeOK, WState, PcType

\* An idle reconcile is one.
LEMMA IdleWType == IdleW \in WState
  BY DEF IdleW, WState, PcType, StepNames

\* Going on to the next step, after a success or a failure, gives one too.
LEMMA GoingOnType ==
    ASSUME TypeOK, w.pc \in StepNames, Done \/ Failed
    PROVE  w' \in WState
  <1>1. w \in WState
    BY WType
  <1>2. After[w.pc] \in PcType
    BY AfterType DEF PcType
  <1>3. CASE Done
    BY <1>1, <1>2, <1>3 DEF Done, WState
  <1>4. CASE Failed
    BY <1>1, <1>2, <1>4 DEF Failed, WState
  <1> QED
    BY <1>3, <1>4

Fields == {"there", "nets", "loop", "aged", "ready"}

\* What upf-heal sees of a pod.
LEMMA ViewType == \A p \in Pod : View(p) \in [Fields -> BOOLEAN]
  BY DEF View, Pod, Fields

\* The absent pod is a pod.
LEMMA NoPodType == NoPod \in Pod
  BY DEF NoPod, Pod

\* A pod that has not started anything is one too.
LEMMA NewPodType ==
    ASSUME NEW there \in BOOLEAN, NEW nets \in BOOLEAN, NEW aged \in BOOLEAN
    PROVE  [NoPod EXCEPT !.there = there, !.nets = nets, !.aged = aged] \in Pod
  BY DEF NoPod, Pod

\* TypeOK, with its record types folded.
Types ==
    /\ dp \in {"absent", "noPool", "set"} /\ ready \in BOOLEAN
    /\ host \in SUBSET HostSteps
    /\ nat \in SUBSET Nics
    /\ vips \in [Nics -> SUBSET Vips]
    /\ stale \in BOOLEAN
    /\ egress \in Nics \cup {NoNic}
    /\ exposed \in SUBSET Vips /\ exposedCache \in SUBSET Vips
    /\ multus \in BOOLEAN
    /\ pod \in Pod
    /\ podCache \in [Fields -> BOOLEAN]
    /\ w \in WState
    /\ queued \in BOOLEAN
    /\ edits \in Nat /\ faults \in Nat

\* They say the same.
LEMMA TypesLemma == TypeOK <=> Types
  <1>1. {edits, faults} \subseteq Nat <=> edits \in Nat /\ faults \in Nat
    OBVIOUS
  <1> QED
    BY <1>1, AfterDomain DEF TypeOK, Types, WState, PcType, Fields

\* The initial state is well-typed.
LEMMA InitTypes == Init => Types
  <1> SUFFICES ASSUME Init PROVE Types
    OBVIOUS
  <1>1. podCache \in [Fields -> BOOLEAN]
    BY ViewType, NoPodType DEF Init
  <1>2. vips \in [Nics -> SUBSET Vips]
    BY DEF Init
  <1> QED
    BY <1>1, <1>2, NoPodType, IdleWType DEF Init, Types, HostSteps

\* The reconcile's steps keep the types.
LEMMA StepTypes ==
    ASSUME Types, DpGet \/ Step \/ DpNoMac \/ DpStepFault
    PROVE  Types'
  <1> USE DEF hostVars, world, podVars, bounds
  <1>1. TypeOK
    BY TypesLemma
  <1>2. CASE DpGet
    <2>1. hostEgressNic \in Nics \cup {NoNic}
      BY DEF Types, hostEgressNic
    <2>2. [pc |-> "bridges", nic |-> hostEgressNic, failed |-> {}, old |-> FALSE] \in WState
      BY <2>1 DEF WState, PcType, StepNames
    <2>3. w' \in WState
      BY <1>2, <2>2 DEF DpGet, Types
    <2> QED
      BY <1>2, <2>3 DEF DpGet, Types
  <1>3. CASE DpHostStep
    <2>1. w' \in WState
      BY <1>1, <1>3, GoingOnType DEF DpHostStep, HostSteps, StepNames
    <2> QED
      BY <1>3, <2>1 DEF DpHostStep, Types
  <1>4. CASE DpN6Nat
    <2>1. w' \in WState /\ w.nic \in Nics \cup {NoNic}
      BY <1>1, <1>4, GoingOnType DEF DpN6Nat, StepNames, Types, WState
    <2> QED
      BY <1>4, <2>1 DEF DpN6Nat, Types
  <1>5. CASE DpN2Vip
    <2>1. w' \in WState /\ w.nic \in Nics \cup {NoNic}
      BY <1>1, <1>5, GoingOnType DEF DpN2Vip, StepNames, Types, WState
    <2>2. vips' \in [Nics -> SUBSET Vips]
      BY <1>5, <2>1 DEF DpN2Vip, Types
    <2> QED
      BY <1>5, <2>1, <2>2 DEF DpN2Vip, Types
  <1>6. CASE DpUpfHeal
    <2>1. w' \in WState
      BY <1>1, <1>6, GoingOnType DEF DpUpfHeal, StepNames
    <2> QED
      BY <1>6, <2>1, NoPodType DEF DpUpfHeal, Types
  <1>7. CASE DpUpfHarden
    <2>1. w' \in WState
      BY <1>1, <1>7, GoingOnType DEF DpUpfHarden, StepNames
    <2>2. pod' \in Pod
      BY <1>7 DEF DpUpfHarden, Types, Pod
    <2> QED
      BY <1>7, <2>1, <2>2 DEF DpUpfHarden, Types
  <1>8. CASE DpAccessRoute \/ DpNoMac
    <2>1. w' \in WState
      BY <1>1, <1>8, GoingOnType DEF DpAccessRoute, DpNoMac, StepNames
    <2>2. pod' \in Pod
      BY <1>8 DEF DpAccessRoute, DpNoMac, Types, Pod
    <2>3. faults' \in Nat
      BY <1>8 DEF DpAccessRoute, DpNoMac, Types
    <2> QED
      BY <1>8, <2>1, <2>2, <2>3 DEF DpAccessRoute, DpNoMac, Types
  <1>9. CASE DpPfcpHeal
    <2>1. w' \in WState
      BY <1>1, <1>9, GoingOnType DEF DpPfcpHeal, StepNames
    <2>2. pod' \in Pod
      BY <1>9 DEF DpPfcpHeal, Types, Pod
    <2> QED
      BY <1>9, <2>1, <2>2 DEF DpPfcpHeal, Types
  <1>10. CASE DpArp
    <2>1. w' \in WState
      BY <1>1, <1>10, GoingOnType DEF DpArp, StepNames
    <2> QED
      BY <1>10, <2>1 DEF DpArp, Types
  <1>11. CASE DpStepFault
    <2>1. w' \in WState
      BY <1>1, <1>11, GoingOnType, AfterDomain DEF DpStepFault
    <2> QED
      BY <1>11, <2>1 DEF DpStepFault, Types
  <1>12. CASE DpStatus
    BY <1>12, IdleWType DEF DpStatus, Types
  <1> QED
    BY <1>2, <1>3, <1>4, <1>5, <1>6, <1>7, <1>8, <1>9, <1>10, <1>11, <1>12 DEF Step

\* So does the life of the pod.
LEMMA PodTypes ==
    ASSUME Types,
           \/ PodCreate \/ PodAge \/ PodLoop \/ PodStart \/ PodBecomesReady
           \/ PodCrash \/ PodEvent
    PROVE  Types'
  <1> USE DEF hostVars, world, podVars, bounds
  <1>1. CASE PodEvent
    BY <1>1, ViewType DEF PodEvent, Types
  <1>2. CASE PodCreate \/ PodAge \/ PodLoop \/ PodStart \/ PodBecomesReady \/ PodCrash
    <2>1. pod' \in Pod
      <3>1. CASE PodCreate
        BY <3>1 DEF PodCreate, Types, Pod, NoPod
      <3>2. CASE PodStart
        BY <3>2 DEF PodStart, Types, Pod
      <3>3. CASE PodAge \/ PodLoop \/ PodBecomesReady
        BY <3>3 DEF PodAge, PodLoop, PodBecomesReady, Types, Pod
      <3>4. CASE PodCrash
        BY <3>4 DEF PodCrash, Types, Pod
      <3> QED
        BY <1>2, <3>1, <3>2, <3>3, <3>4
    <2>2. /\ stale' = TRUE \/ stale' = stale
          /\ faults' = faults + 1 \/ faults' = faults
      BY <1>2 DEF PodCreate, PodAge, PodLoop, PodStart, PodBecomesReady, PodCrash
    <2>3. stale' \in BOOLEAN
      BY <2>2 DEF Types
    <2>4. faults' \in Nat
      BY <2>2 DEF Types
    <2>5. PodStays
      BY <1>2 DEF PodCreate, PodAge, PodLoop, PodStart, PodBecomesReady, PodCrash
    <2> QED
      BY <2>1, <2>3, <2>4, <2>5 DEF PodStays, Types
  <1> QED
    BY <1>1, <1>2

\* And the node, the Services and users.
LEMMA WorldTypes ==
    ASSUME Types, Reboot \/ Restart \/ UserNext \/ ExposedEvent \/ MultusUp
    PROVE  Types'
  <1> USE DEF hostVars, world, podVars, bounds
  <1>1. CASE Reboot
    <2>1. pod' \in Pod
      <3>1. /\ pod.there \in BOOLEAN /\ (pod.aged /\ ~multus) \in BOOLEAN
            /\ (pod.there /\ multus) \in BOOLEAN
        BY DEF Types, Pod
      <3> QED
        BY <1>1, <3>1, NewPodType DEF Reboot
    <2>2. podCache' \in [Fields -> BOOLEAN]
      BY <1>1, <2>1, ViewType DEF Reboot
    <2>3. vips' \in [Nics -> SUBSET Vips]
      BY <1>1 DEF Reboot
    <2>4. queued' \in BOOLEAN /\ stale' \in BOOLEAN
      BY <1>1 DEF Reboot
    <2> QED
      BY <1>1, <2>1, <2>2, <2>3, <2>4, IdleWType DEF Reboot, Types
  <1>2. CASE Restart
    BY <1>2, ViewType, IdleWType DEF Restart, Types
  <1>3. CASE UserNext
    <2>1. CASE \E new \in {"absent", "noPool", "set"} : UserDp(new)
      <3>1. PICK new \in {"absent", "noPool", "set"} : UserDp(new)
        BY <2>1
      <3>2. w' \in WState
        BY <3>1 DEF UserDp, Types, WState
      <3>3. ready' \in BOOLEAN /\ queued' \in BOOLEAN
        BY <3>1 DEF UserDp, Types
      <3> QED
        BY <3>1, <3>2, <3>3 DEF UserDp, Edit, Types
    <2>2. CASE \E nic \in (Nics \cup {NoNic}) \ {egress} : MoveEgress(nic)
      BY <2>2 DEF MoveEgress, Edit, Types
    <2>3. CASE \E set \in SUBSET Vips \ {exposed} : Expose(set)
      BY <2>3 DEF Expose, Edit, Types
    <2> QED
      BY <1>3, <2>1, <2>2, <2>3 DEF UserNext
  <1>4. CASE ExposedEvent
    BY <1>4 DEF ExposedEvent, Types
  <1>5. CASE MultusUp
    BY <1>5 DEF MultusUp, Types
  <1> QED
    BY <1>1, <1>2, <1>3, <1>4, <1>5

\* Every variable of the agent keeps its type; NAT is only ever programmed on a
\* NIC of the node.
THEOREM TypeCorrect == Spec => []TypeOK
  <1>1. Init => Types
    BY InitTypes
  <1>2. Types /\ [Next]_vars => Types'
    <2> SUFFICES ASSUME Types, [Next]_vars PROVE Types'
      OBVIOUS
    <2>1. CASE Next
      BY <2>1, StepTypes, PodTypes, WorldTypes DEF Next, Faults
    <2>2. CASE UNCHANGED vars
      BY <2>2 DEF vars, hostVars, world, podVars, bounds, Types
    <2> QED
      BY <2>1, <2>2
  <1> QED
    BY <1>1, <1>2, TypesLemma, PTL DEF Spec

-----------------------------------------------------------------------------
(* Ready is programmed *)

\* The step a reconcile leaves behind is the one it was at.
LEMMA UntilLemma ==
    \A x \in HostSteps \cup {"n6nat"}, pc \in StepNames :
        After[pc] \notin Until[x] => pc \notin Until[x] \/ pc = x
  BY DEF After, Until, StepNames, HostSteps

\* Going on keeps Programmed, if a step that went well is in effect.
LEMMA GoingOnProgrammed ==
    ASSUME Types, Programmed, w.pc \in StepNames,
           host \subseteq host', nat \subseteq nat',
           \/ Failed
           \/ /\ Done
              /\ w.pc \in HostSteps => w.pc \in host'
              /\ w.pc = "n6nat" => w.nic \in nat'
    PROVE  Programmed'
  <1>1. w'.pc = After[w.pc] /\ w'.nic = w.nic /\ w.failed \subseteq w'.failed
    BY DEF Done, Failed, Types, WState
  <1>2. Failed => w.pc \in w'.failed
    BY DEF Failed, Types, WState
  <1>3. \A x \in HostSteps \cup {"n6nat"} : Past(x)' => Past(x) \/ (w.pc = x /\ ~Failed)
    BY <1>1, <1>2, UntilLemma DEF Past
  <1> QED
    BY <1>1, <1>3 DEF Programmed

\* Nothing is behind an idle reconcile.
LEMMA IdleProgrammed == w.pc = "idle" => Programmed
  BY DEF Programmed, Past, Until, HostSteps

\* A step that leaves the host, NAT and where the reconcile is alone keeps
\* Programmed.
LEMMA OtherProgrammed ==
    ASSUME Programmed, UNCHANGED <<w.pc, w.nic, w.failed, host, nat>>
    PROVE  Programmed'
  BY DEF Programmed, Past

\* Programmed is inductive, given the types.
LEMMA ProgrammedKept ==
    ASSUME Types, Programmed, [Next]_vars
    PROVE  Programmed'
  <1> USE DEF hostVars, world, podVars, bounds
  <1>1. CASE DpGet
    <2>1. CASE dp = "set"
      <3>1. w'.pc = "bridges" /\ w'.failed = {}
        BY <1>1, <2>1 DEF DpGet
      <3> QED
        BY <3>1 DEF Programmed, Past, Until, HostSteps
    <2>2. CASE dp # "set"
      BY <1>1, <2>2, OtherProgrammed DEF DpGet
    <2> QED
      BY <2>1, <2>2
  <1>2. CASE DpHostStep
    BY <1>2, GoingOnProgrammed DEF DpHostStep, HostSteps, StepNames, Failed, Done
  <1>3. CASE DpN6Nat
    BY <1>3, GoingOnProgrammed DEF DpN6Nat, HostSteps, StepNames
  <1>4. CASE \/ DpN2Vip \/ DpUpfHeal \/ DpUpfHarden \/ DpAccessRoute \/ DpNoMac
             \/ DpPfcpHeal \/ DpArp
    <2>1. w.pc \in StepNames \ (HostSteps \cup {"n6nat"}) /\ Done /\ UNCHANGED <<host, nat>>
      BY <1>4 DEF DpN2Vip, DpUpfHeal, DpUpfHarden, DpAccessRoute, DpNoMac, DpPfcpHeal,
                  DpArp, StepNames, HostSteps
    <2> QED
      BY <2>1, GoingOnProgrammed
  <1>5. CASE DpStepFault
    BY <1>5, GoingOnProgrammed, AfterDomain DEF DpStepFault, Silent, HostSteps
  <1>6. CASE DpStatus \/ Reboot \/ Restart
    <2>1. w'.pc = "idle"
      BY <1>6 DEF DpStatus, Reboot, Restart, IdleW
    <2> QED
      BY <2>1 DEF Programmed, Past, Until, HostSteps
  <1>7. CASE \/ PodCreate \/ PodAge \/ PodLoop \/ PodStart \/ PodBecomesReady \/ PodCrash
             \/ PodEvent \/ ExposedEvent \/ MultusUp \/ UNCHANGED vars
    <2>1. UNCHANGED <<w, host, nat>>
      BY <1>7 DEF PodCreate, PodAge, PodLoop, PodStart, PodBecomesReady, PodCrash, PodStays,
                  PodEvent, ExposedEvent, MultusUp, vars
    <2> QED
      BY <2>1, OtherProgrammed
  <1>8. CASE UserNext
    <2>1. UNCHANGED <<host, nat>>
      BY <1>8 DEF UserNext, UserDp, MoveEgress, Expose, Edit
    <2>2. w' = w \/ \E b : w' = [w EXCEPT !.old = b]
      BY <1>8 DEF UserNext, UserDp, MoveEgress, Expose
    <2>3. UNCHANGED <<w.pc, w.nic, w.failed>>
      BY <2>2 DEF Types, WState
    <2> QED
      BY <2>1, <2>3, OtherProgrammed
  <1> QED
    BY <1>1, <1>2, <1>3, <1>4, <1>5, <1>6, <1>7, <1>8 DEF Next, Step, Faults

\* A reconcile that is about to report Ready has the host programmed and NAT on a
\* NIC of the node.
THEOREM ReadyIsCorrect == Spec => []ReadyIsProgrammed
  <1>1. Init => Types /\ Programmed
    <2> SUFFICES ASSUME Init PROVE Programmed
      BY InitTypes
    <2>1. w.pc = "idle"
      BY DEF Init, IdleW
    <2> QED
      BY <2>1, IdleProgrammed
  <1>2. TypeOK /\ Programmed /\ [Next]_vars => Programmed'
    BY ProgrammedKept, TypesLemma
  <1>3. TypeOK /\ Programmed => ReadyIsProgrammed
    <2> SUFFICES ASSUME TypeOK, Programmed, w.pc = "status", w.failed = {}
                 PROVE  host = HostSteps /\ w.nic \in nat
      BY DEF ReadyIsProgrammed
    <2>1. \A x \in HostSteps \cup {"n6nat"} : Past(x)
      BY DEF Past, Until, HostSteps
    <2>2. HostSteps \subseteq host /\ w.nic \in nat
      BY <2>1 DEF Programmed
    <2> QED
      BY <2>2 DEF TypeOK
  <1> QED
    BY <1>1, <1>2, <1>3, TypeCorrect, PTL DEF Spec
=============================================================================
