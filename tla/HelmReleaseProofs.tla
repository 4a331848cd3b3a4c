-------------------------- MODULE HelmReleaseProofs --------------------------
(***************************************************************************)
(* The Helm release of a workload resource, for any settings, namespaces   *)
(* and bounds: when the controller is at rest the release runs the spec    *)
(* there is now (RestMeansRunning), and "Deployed" is not said of anything *)
(* else (DeployedIsRunning).                                               *)
(*                                                                         *)
(* Neither is inductive.  What makes them hold is what each copy of the    *)
(* resource stands for: the cache shows a generation once seen             *)
(* (CacheInv), a reconcile that is not outdated has the resource itself    *)
(* (WorkInv), the release is where the reconcile left it (StageInv), and   *)
(* with no reconcile running or due it runs the cached spec (QuietInv).    *)
(***************************************************************************)
EXTENDS HelmRelease, TLAPS

CrCopy == [live : BOOLEAN, gen : Nat, spec : SdSpecs \cup NfSpecs]
WState == [pc : {"idle", "values", "apply", "mark", "status"}, o : CrCopy, old : BOOLEAN]

\* A generation is of one object and of one spec.  An object that exists has no
\* status for a generation that the cache has not shown.
CacheInv ==
    /\ crCache.gen <= cr.gen
    /\ crCache.gen = cr.gen /\ (crCache.live <=> cr.live) => crCache = Read(cr)
    /\ crCache.gen = cr.gen /\ cr.live => crCache.live
    /\ ~old => crCache = Read(cr)
    /\ cr.live => /\ cr.gen > 0 /\ cr.observed <= cr.gen
                  /\ cr.observed = cr.gen => crCache = Read(cr)

\* What a reconcile holds: the resource itself, unless somebody wrote it since; what
\* the cache shows, unless there is another reconcile due.
WorkInv ==
    w.pc # "idle" => /\ ~w.old => w.o = Read(cr) /\ crCache = Read(cr)
                     /\ ~queued => w.o = crCache

\* How far the reconcile has brought the release.
StageInv ==
    /\ w.pc \in {"apply", "mark", "status"} => buildValues(w.o.spec) # NoVals
    /\ w.pc \in {"mark", "status"} => rel[Target].vals = buildValues(w.o.spec)
    /\ w.pc = "status" => rel[Target].status = "deployed"

\* With no reconcile running or due the release runs the cached spec, and the status
\* of an SDCoreDeployment of that generation says so.
QuietInv ==
    w.pc = "idle" /\ ~queued /\ crCache.live /\ Mine(crCache.spec) =>
        LET r == rel[crCache.spec.ns]
        IN  /\ buildValues(crCache.spec) # NoVals
            /\ r.status = "deployed" /\ r.vals = buildValues(crCache.spec)
            /\ kind = "sd" /\ cr.live /\ cr.gen = crCache.gen =>
                  cr.phase = "Deployed" /\ cr.observed = cr.gen /\ cr.rev = r.rev

HelmInv == TypeOK /\ w \in WState /\ CacheInv /\ WorkInv /\ StageInv /\ QuietInv

-----------------------------------------------------------------------------
(* Objects *)

\* What is read of a resource.
LEMMA ReadFields ==
    ASSUME NEW o
    PROVE  Read(o).live = o.live /\ Read(o).gen = o.gen /\ Read(o).spec = o.spec
  BY DEF Read

\* Two versions that differ in their status only read the same.
LEMMA ReadSame ==
    ASSUME NEW o, NEW n, n.live = o.live, n.gen = o.gen, n.spec = o.spec
    PROVE  Read(n) = Read(o)
  BY DEF Read

\* There is a namespace for an NFDeployment, and a spec that is not to be released.
LEMMA NoCrType ==
    ASSUME NEW n \in Nat
    PROVE  /\ NoCr(n) \in Cr /\ Read(NoCr(n)) \in CrCopy
           /\ ~NoCr(n).live /\ NoCr(n).gen = n /\ NoCr(n).observed = 0
  <1> DEFINE ns0 == CHOOSE ns \in Namespaces : TRUE
             s0 == [provider |-> "other", ns |-> ns0, vals |-> {}]
             spec0 == CHOOSE s \in NfSpecs : s.provider = "other"
  <1>1. s0 \in NfSpecs /\ s0.provider = "other"
    BY DEF NfSpecs, Providers
  <1>2. spec0 \in NfSpecs
    BY <1>1
  <1>3. NoCr(n) = [live |-> FALSE, gen |-> n, spec |-> spec0, phase |-> "none",
                   observed |-> 0, rev |-> 0]
    BY DEF NoCr
  <1> HIDE DEF spec0
  <1>4. NoCr(n) \in Cr /\ ~NoCr(n).live /\ NoCr(n).gen = n /\ NoCr(n).observed = 0
    BY <1>2, <1>3 DEF Cr
  <1>5. Read(NoCr(n)) \in CrCopy
    BY <1>2, <1>3 DEF Read, CrCopy
  <1> QED
    BY <1>4, <1>5

\* Every spec has a namespace and chart values.
LEMMA SpecTypes ==
    ASSUME NEW spec \in SdSpecs \cup NfSpecs
    PROVE  spec.ns \in Namespaces /\ buildValues(spec) \in Values
  <1> DEFINE ns0 == CHOOSE ns \in Namespaces : TRUE
  <1>1. ns0 \in Namespaces
    BY NamespacesAssumption
  <1>2. NfSpecs = [provider : Providers, ns : {ns0}, vals : SUBSET Ifaces]
    BY DEF NfSpecs
  <1> HIDE DEF ns0
  <1>3. spec.ns \in Namespaces
    BY <1>1, <1>2 DEF SdSpecs
  <1>4. spec.vals \in SUBSET (Settings \cup Ifaces)
    BY <1>2 DEF SdSpecs
  <1>5. buildValues(spec) \in {NoVals, spec.vals, spec.vals \cap {"n3", "n6"},
                              spec.vals \cap {"n4"}}
    BY DEF buildValues
  <1>6. buildValues(spec) \in Values
    BY <1>4, <1>5 DEF Values
  <1> QED
    BY <1>3, <1>6

\* What the reconcile in progress works on.
LEMMA WorkTypes ==
    ASSUME HelmInv
    PROVE  /\ Target \in Namespaces /\ buildValues(w.o.spec) \in Values
           /\ rel[Target] \in Release
           /\ IdleW \in WState /\ IdleW.pc = "idle" /\ IdleW.old = FALSE
           /\ Read(cr) \in CrCopy
  <1>1. w.o.spec \in SdSpecs \cup NfSpecs
    BY DEF HelmInv, WState, CrCopy
  <1>2. Target \in Namespaces /\ buildValues(w.o.spec) \in Values
    BY <1>1, SpecTypes DEF Target
  <1>3. Read(NoCr(0)) \in CrCopy
    BY NoCrType
  <1>4. IdleW \in WState /\ IdleW.pc = "idle" /\ IdleW.old = FALSE
    BY <1>3 DEF IdleW, WState
  <1>5. Read(cr) \in CrCopy
    BY DEF HelmInv, TypeOK, Cr, Read, CrCopy
  <1> QED
    BY <1>2, <1>4, <1>5 DEF HelmInv, TypeOK

-----------------------------------------------------------------------------
(* The steps of a reconcile *)

\* The record of the reconcile at its next step.
LEMMA GotoFacts ==
    ASSUME HelmInv, NEW pc \in {"values", "apply", "mark", "status"}, Goto(pc)
    PROVE  w' \in WState /\ w'.pc = pc /\ w'.o = w.o /\ w'.old = w.old
  <1>1. w \in WState
    BY DEF HelmInv
  <1> QED
    BY <1>1 DEF Goto, WState

\* A status is written over the version that was read, and read nothing like a new
\* one: the generation it is about is the one the cache shows.
LEMMA StatusFacts ==
    ASSUME HelmInv, w.pc # "idle", NEW new \in Cr, WriteStatus(new),
           new.live = cr.live, new.gen = cr.gen, new.spec = cr.spec,
           new.observed = w.o.gen \/ new.observed = cr.observed, UNCHANGED crCache
    PROVE  /\ cr' \in Cr /\ old' \in BOOLEAN /\ Read(cr') = Read(cr)
           /\ w.o = Read(cr) /\ crCache = Read(cr) /\ cr.live
           /\ CacheInv'
  <1>1. cr' = new /\ old' = (old \/ new # cr) /\ ~w.old
    BY DEF WriteStatus
  <1>2. w.o = Read(cr) /\ crCache = Read(cr)
    BY <1>1 DEF HelmInv, WorkInv
  <1>3. cr.live /\ w.o.gen = cr.gen
    BY <1>2, ReadFields DEF HelmInv, TypeOK
  <1>4. Read(cr') = Read(cr)
    BY <1>1, ReadSame
  <1>5. cr.gen \in Nat /\ cr.observed \in Nat /\ cr.gen > 0 /\ cr.observed <= cr.gen
    BY <1>3 DEF HelmInv, TypeOK, Cr, CacheInv
  <1>6. crCache.gen = cr.gen
    BY <1>2, ReadFields
  <1>7. CacheInv'
    BY <1>1, <1>2, <1>3, <1>4, <1>5, <1>6, ReadFields DEF CacheInv
  <1> QED
    BY <1>1, <1>2, <1>3, <1>4, <1>7 DEF HelmInv, TypeOK

\* An error leaves nothing but a reconcile that is due.
LEMMA FailInv ==
    ASSUME HelmInv, w.pc # "idle", fail, rel' \in [Namespaces -> Release], faults' \in Nat
    PROVE  HelmInv'
  <1>1. w' = IdleW /\ queued' = TRUE /\ UNCHANGED <<kind, crCache, edits>>
    BY DEF fail
  <1>2. w' \in WState /\ w'.pc = "idle"
    BY <1>1, WorkTypes
  <1>3. cr' \in Cr /\ old' \in BOOLEAN /\ CacheInv'
    <2>1. CASE UNCHANGED <<cr, old>>
      BY <1>1, <2>1 DEF HelmInv, TypeOK, CacheInv
    <2>2. CASE WriteStatus([cr EXCEPT !.phase = "Failed", !.observed = w.o.gen])
      <3> DEFINE new == [cr EXCEPT !.phase = "Failed", !.observed = w.o.gen]
      <3>1. cr \in Cr /\ w.o.gen \in Nat
        BY DEF HelmInv, TypeOK, WState, CrCopy
      <3>2. /\ new \in Cr /\ new.live = cr.live /\ new.gen = cr.gen /\ new.spec = cr.spec
            /\ new.observed = w.o.gen
        BY <3>1 DEF Cr
      <3> HIDE DEF new
      <3> QED
        BY <1>1, <2>2, <3>2, StatusFacts DEF new
    <2> QED
      BY <2>1, <2>2 DEF fail
  <1>4. WorkInv' /\ StageInv' /\ QuietInv'
    BY <1>1, <1>2 DEF WorkInv, StageInv, QuietInv
  <1>5. TypeOK'
    BY <1>1, <1>2, <1>3 DEF HelmInv, TypeOK, WState
  <1> QED
    BY <1>2, <1>3, <1>4, <1>5 DEF HelmInv

\* A counted fault.
LEMMA FaultNat ==
    ASSUME HelmInv, Fault
    PROVE  faults' \in Nat
  BY DEF HelmInv, TypeOK, Fault

\* The reconciles that end in an error, and what they leave of the release.
LEMMA ErrorInv ==
    ASSUME HelmInv, HelmNoValues \/ HelmRefused \/ HelmStartFault \/ HelmApplyFault
    PROVE  HelmInv'
  <1>1. rel \in [Namespaces -> Release] /\ faults \in Nat
    BY DEF HelmInv, TypeOK
  <1>2. CASE HelmNoValues \/ HelmRefused
    BY <1>1, <1>2, FailInv DEF HelmNoValues, HelmRefused
  <1>3. CASE HelmStartFault
    BY <1>1, <1>3, FailInv, FaultNat DEF HelmStartFault
  <1>4. CASE HelmApplyFault
    <2>1. PICK vals \in {rel[Target].vals, NoVals} :
             rel' = [rel EXCEPT ![Target].status = "failed", ![Target].vals = vals]
      BY <1>4 DEF HelmApplyFault
    <2>2. Target \in Namespaces /\ rel[Target] \in Release
      BY WorkTypes
    <2>3. vals \in Values
      BY <2>2 DEF Release, Values
    <2>4. rel' \in [Namespaces -> Release]
      BY <1>1, <2>1, <2>2, <2>3 DEF Release
    <2> QED
      BY <1>4, <2>4, FailInv, FaultNat DEF HelmApplyFault
  <1> QED
    BY <1>2, <1>3, <1>4

\* Helm's own steps bring the release one step further.
LEMMA ReleaseInv ==
    ASSUME HelmInv, HelmStart \/ HelmApply \/ HelmMark
    PROVE  HelmInv'
  <1>1. /\ rel \in [Namespaces -> Release] /\ Target \in Namespaces
        /\ rel[Target] \in Release /\ buildValues(w.o.spec) \in Values
    BY WorkTypes DEF HelmInv, TypeOK
  <1>2. /\ w.pc # "idle" /\ UNCHANGED <<kind, cr, crCache, old, queued, edits, faults>>
        /\ \E pc \in {"apply", "mark", "status"} : Goto(pc)
    BY DEF HelmStart, HelmApply, HelmMark
  <1>3. w' \in WState /\ w'.pc # "idle" /\ w'.o = w.o /\ w'.old = w.old /\ Target' = Target
    BY <1>2, GotoFacts DEF Target
  <1>4. CASE HelmStart
    <2>1. w'.pc = "apply" /\ buildValues(w.o.spec) # NoVals
      BY <1>4, GotoFacts DEF HelmStart
    <2>2. rel' \in [Namespaces -> Release]
      <3>1. rel' = [rel EXCEPT ![Target].status = "pending", ![Target].rev = 1 - @]
        BY <1>4 DEF HelmStart
      <3>2. 1 - rel[Target].rev \in 0..1
        BY <1>1 DEF Release
      <3> QED
        BY <1>1, <3>1, <3>2 DEF Release
    <2>3. StageInv'
      BY <1>3, <2>1 DEF StageInv
    <2> QED
      BY <1>2, <1>3, <2>2, <2>3
         DEF HelmInv, TypeOK, CacheInv, WorkInv, QuietInv, WState
  <1>5. CASE HelmApply
    <2>1. w'.pc = "mark" /\ buildValues(w.o.spec) # NoVals
      BY <1>5, GotoFacts DEF HelmApply, HelmInv, StageInv
    <2>2. rel' = [rel EXCEPT ![Target].vals = buildValues(w.o.spec)]
      BY <1>5 DEF HelmApply
    <2>3. rel' \in [Namespaces -> Release] /\ rel'[Target].vals = buildValues(w.o.spec)
      BY <1>1, <2>2 DEF Release
    <2>4. StageInv'
      BY <1>3, <2>1, <2>3 DEF StageInv
    <2> QED
      BY <1>2, <1>3, <2>3, <2>4
         DEF HelmInv, TypeOK, CacheInv, WorkInv, QuietInv, WState
  <1>6. CASE HelmMark
    <2>1. w'.pc = "status" /\ buildValues(w.o.spec) # NoVals
          /\ rel[Target].vals = buildValues(w.o.spec)
      BY <1>6, GotoFacts DEF HelmMark, HelmInv, StageInv
    <2>2. rel' = [rel EXCEPT ![Target].status = "deployed"]
      BY <1>6 DEF HelmMark
    <2>3. /\ rel' \in [Namespaces -> Release] /\ rel'[Target].vals = rel[Target].vals
          /\ rel'[Target].status = "deployed"
      BY <1>1, <2>2 DEF Release
    <2>4. StageInv'
      BY <1>3, <2>1, <2>3 DEF StageInv
    <2> QED
      BY <1>2, <1>3, <2>3, <2>4
         DEF HelmInv, TypeOK, CacheInv, WorkInv, QuietInv, WState
  <1> QED
    BY <1>4, <1>5, <1>6

\* A reconcile starts from what the cache shows.
LEMMA GetInv ==
    ASSUME HelmInv, HelmGet
    PROVE  HelmInv'
  <1>1. /\ w.pc = "idle" /\ queued' = FALSE /\ w \in WState
        /\ UNCHANGED <<kind, cr, crCache, old, rel, edits, faults>>
    BY DEF HelmGet, HelmInv
  <1>2. CASE crCache.live /\ Mine(crCache.spec)
    <2>1. w' = [pc |-> "values", o |-> crCache, old |-> old]
      BY <1>2 DEF HelmGet
    <2>2. crCache \in CrCopy /\ old \in BOOLEAN /\ (~old => crCache = Read(cr))
      BY DEF HelmInv, TypeOK, CrCopy, CacheInv
    <2>3. w' \in WState /\ w'.pc = "values" /\ w'.o = crCache /\ w'.old = old
      BY <2>1, <2>2 DEF WState
    <2>4. WorkInv' /\ StageInv' /\ QuietInv' /\ CacheInv'
      BY <1>1, <2>2, <2>3 DEF WorkInv, StageInv, QuietInv, CacheInv, HelmInv
    <2>5. TypeOK'
      BY <1>1, <1>2, <2>2, <2>3 DEF HelmInv, TypeOK
    <2> QED
      BY <2>3, <2>4, <2>5 DEF HelmInv
  <1>3. CASE ~(crCache.live /\ Mine(crCache.spec))
    <2>1. w' = w
      BY <1>3 DEF HelmGet
    <2>2. WorkInv' /\ StageInv' /\ QuietInv' /\ CacheInv'
      BY <1>1, <1>3, <2>1 DEF WorkInv, StageInv, QuietInv, CacheInv, HelmInv
    <2>3. TypeOK'
      BY <1>1, <2>1 DEF HelmInv, TypeOK
    <2> QED
      BY <1>1, <2>1, <2>2, <2>3 DEF HelmInv
  <1> QED
    BY <1>2, <1>3

\* The reconcile that succeeded leaves the release of what the cache shows, unless
\* there is another one due.
LEMMA StatusInv ==
    ASSUME HelmInv, HelmStatus
    PROVE  HelmInv'
  <1>1. /\ w.pc = "status" /\ w' = IdleW
        /\ UNCHANGED <<kind, crCache, rel, edits, faults>>
    BY DEF HelmStatus
  <1>2. w' \in WState /\ w'.pc = "idle"
    BY <1>1, WorkTypes
  <1>3. /\ buildValues(w.o.spec) # NoVals
        /\ rel[w.o.spec.ns].status = "deployed"
        /\ rel[w.o.spec.ns].vals = buildValues(w.o.spec)
        /\ ~queued => w.o = crCache
    BY <1>1 DEF HelmInv, StageInv, WorkInv, Target
  <1>4. cr \in Cr /\ w.o.gen \in Nat /\ rel[Target].rev \in 0..1
    BY WorkTypes DEF HelmInv, TypeOK, WState, CrCopy, Release
  <1>5. WorkInv' /\ StageInv'
    BY <1>2 DEF WorkInv, StageInv
  <1>6. /\ cr' \in Cr /\ old' \in BOOLEAN /\ queued' \in BOOLEAN /\ CacheInv'
        /\ ~queued' =>
              /\ ~queued
              /\ kind = "sd" /\ cr'.live /\ cr'.gen = crCache.gen =>
                    /\ cr'.phase = "Deployed" /\ cr'.observed = cr'.gen
                    /\ cr'.rev = rel[w.o.spec.ns].rev
    <2>1. CASE w.old /\ queued' = (queued \/ kind = "sd") /\ UNCHANGED <<cr, old>>
      <3>1. CacheInv'
        BY <1>1, <2>1 DEF HelmInv, CacheInv
      <3>2. cr' \in Cr /\ old' \in BOOLEAN /\ queued' \in BOOLEAN
        BY <2>1 DEF HelmInv, TypeOK
      <3> QED
        BY <2>1, <3>1, <3>2
    <2>2. CASE /\ kind = "sd" /\ UNCHANGED queued
               /\ WriteStatus([cr EXCEPT !.phase = "Deployed", !.observed = w.o.gen,
                                         !.rev = rel[Target].rev])
      <3> DEFINE new == [cr EXCEPT !.phase = "Deployed", !.observed = w.o.gen,
                                   !.rev = rel[Target].rev]
      <3>1. /\ new \in Cr /\ new.live = cr.live /\ new.gen = cr.gen /\ new.spec = cr.spec
            /\ new.observed = w.o.gen /\ new.phase = "Deployed" /\ new.rev = rel[Target].rev
        BY <1>4 DEF Cr
      <3>2. WriteStatus(new)
        BY <2>2
      <3> HIDE DEF new
      <3>3. /\ cr' \in Cr /\ old' \in BOOLEAN /\ CacheInv' /\ w.o = Read(cr)
        BY <1>1, <3>1, <3>2, StatusFacts
      <3>4. cr' = new /\ w.o.gen = cr.gen
        BY <3>2, <3>3, ReadFields DEF WriteStatus
      <3>5. queued' \in BOOLEAN
        BY <2>2 DEF HelmInv, TypeOK
      <3> QED
        BY <2>2, <3>1, <3>3, <3>4, <3>5 DEF Target
    <2>3. CASE /\ kind # "sd" /\ UNCHANGED queued
               /\ WriteStatus([cr EXCEPT !.phase = "Deployed"])
      <3> DEFINE new == [cr EXCEPT !.phase = "Deployed"]
      <3>1. /\ new \in Cr /\ new.live = cr.live /\ new.gen = cr.gen /\ new.spec = cr.spec
            /\ new.observed = cr.observed
        BY <1>4 DEF Cr
      <3>2. WriteStatus(new)
        BY <2>3
      <3> HIDE DEF new
      <3>3. cr' \in Cr /\ old' \in BOOLEAN /\ CacheInv'
        BY <1>1, <3>1, <3>2, StatusFacts
      <3>4. queued' \in BOOLEAN
        BY <2>3 DEF HelmInv, TypeOK
      <3> QED
        BY <2>3, <3>3, <3>4
    <2> QED
      BY <2>1, <2>2, <2>3 DEF HelmStatus
  <1>7. QuietInv'
    BY <1>1, <1>3, <1>6 DEF QuietInv
  <1>8. TypeOK'
    BY <1>1, <1>2, <1>6 DEF HelmInv, TypeOK, WState
  <1> QED
    BY <1>2, <1>5, <1>6, <1>7, <1>8 DEF HelmInv

-----------------------------------------------------------------------------
(* The cluster and its users *)

\* An event that is filtered out shows nothing new.
LEMMA EventInv ==
    ASSUME HelmInv, CrEvent
    PROVE  HelmInv'
  <1>1. /\ crCache' = Read(cr) /\ old' = FALSE /\ queued' = (queued \/ Enqueued)
        /\ UNCHANGED <<kind, cr, rel, w, edits, faults>>
    BY DEF CrEvent
  <1>2. ASSUME ~queued' PROVE ~queued /\ crCache' = crCache
    <2>1. ~queued /\ ~Enqueued
      BY <1>1, <1>2
    <2>2. crCache.live = cr.live /\ crCache.gen = cr.gen
      BY <2>1 DEF Enqueued
    <2>3. crCache = Read(cr)
      BY <2>2 DEF HelmInv, CacheInv
    <2> QED
      BY <1>1, <2>1, <2>3
  <1>3. Read(cr) \in CrCopy
    BY WorkTypes
  <1>4. CacheInv'
    <2>1. crCache'.gen = cr.gen /\ crCache'.live = cr.live
      BY <1>1, ReadFields
    <2>2. cr.gen \in Nat /\ (cr.live => cr.gen > 0 /\ cr.observed <= cr.gen)
      BY DEF HelmInv, TypeOK, Cr, CacheInv
    <2> QED
      BY <1>1, <2>1, <2>2 DEF CacheInv
  <1>5. WorkInv' /\ StageInv'
    BY <1>1, <1>2 DEF HelmInv, WorkInv, StageInv, Target
  <1>6. QuietInv'
    BY <1>1, <1>2 DEF HelmInv, QuietInv
  <1>7. Enqueued \in BOOLEAN
    BY DEF Enqueued
  <1>8. TypeOK'
    BY <1>1, <1>3, <1>7 DEF HelmInv, TypeOK, CrCopy
  <1> QED
    BY <1>1, <1>4, <1>5, <1>6, <1>8 DEF HelmInv

\* A successor looks at every resource anew.
LEMMA RestartInv ==
    ASSUME HelmInv, Restart
    PROVE  HelmInv'
  <1>1. /\ w' = IdleW /\ crCache' = Read(cr) /\ old' = FALSE /\ queued' = cr.live
        /\ UNCHANGED <<kind, cr, rel, edits>> /\ faults' \in Nat
    BY FaultNat DEF Restart
  <1>2. w' \in WState /\ w'.pc = "idle" /\ Read(cr) \in CrCopy
    BY <1>1, WorkTypes
  <1>3. crCache'.gen = cr.gen /\ crCache'.live = cr.live
    BY <1>1, ReadFields
  <1>4. cr.gen \in Nat /\ (cr.live => cr.gen > 0 /\ cr.observed <= cr.gen)
        /\ cr.live \in BOOLEAN
    BY DEF HelmInv, TypeOK, Cr, CacheInv
  <1>5. CacheInv'
    BY <1>1, <1>3, <1>4 DEF CacheInv
  <1>6. WorkInv' /\ StageInv' /\ QuietInv'
    BY <1>1, <1>2, <1>3 DEF WorkInv, StageInv, QuietInv
  <1>7. TypeOK'
    BY <1>1, <1>2, <1>4 DEF HelmInv, TypeOK, CrCopy, WState
  <1> QED
    BY <1>2, <1>5, <1>6, <1>7 DEF HelmInv

\* A write by others is a new generation, a deletion, or nothing a reconcile reads;
\* a reconcile in progress is outdated by it.
LEMMA EditInv ==
    ASSUME HelmInv, NEW new \in Cr, Edit(new),
           \/ new = cr
           \/ new.live /\ new.gen = cr.gen + 1 /\ new.observed < new.gen
           \/ cr.live /\ ~new.live /\ new.gen = cr.gen
    PROVE  HelmInv'
  <1>1. /\ cr' = new /\ old' = TRUE /\ w' = [w EXCEPT !.old = TRUE]
        /\ UNCHANGED <<kind, crCache, rel, queued, faults>>
        /\ edits' \in Nat
    BY DEF Edit, HelmInv, TypeOK
  <1>2. w \in WState
    BY DEF HelmInv
  <1>3. w' \in WState /\ w'.pc = w.pc /\ w'.o = w.o /\ w'.old = TRUE
    BY <1>1, <1>2 DEF WState
  <1>4. /\ cr.gen \in Nat /\ crCache.gen \in Nat /\ crCache.gen <= cr.gen
        /\ new.gen \in Nat /\ new.observed \in Nat
        /\ cr.live \in BOOLEAN /\ crCache.live \in BOOLEAN /\ new.live \in BOOLEAN
    BY DEF HelmInv, TypeOK, Cr, CacheInv
  <1>5. CacheInv'
    <2>1. CASE new = cr
      BY <1>1, <2>1 DEF HelmInv, CacheInv
    <2>2. CASE new.live /\ new.gen = cr.gen + 1 /\ new.observed < new.gen
      BY <1>1, <1>4, <2>2 DEF CacheInv
    <2>3. CASE cr.live /\ ~new.live /\ new.gen = cr.gen
      BY <1>1, <1>4, <2>3 DEF HelmInv, CacheInv
    <2> QED
      BY <2>1, <2>2, <2>3
  <1>6. WorkInv' /\ StageInv'
    BY <1>1, <1>3 DEF HelmInv, WorkInv, StageInv, Target
  <1>7. QuietInv'
    <2>1. cr'.live /\ cr'.gen = crCache.gen => cr' = cr
      BY <1>1, <1>4
    <2> QED
      BY <1>1, <1>3, <2>1 DEF HelmInv, QuietInv
  <1>8. TypeOK'
    BY <1>1, <1>3 DEF HelmInv, TypeOK, WState
  <1> QED
    BY <1>3, <1>5, <1>6, <1>7, <1>8 DEF HelmInv

\* Config Sync and the users write the resource in one of these ways.
LEMMA UserInv ==
    ASSUME HelmInv, Annotate \/ Delete \/ \E spec \in Specs(kind) : Put(spec)
    PROVE  HelmInv'
  <1>1. cr \in Cr /\ cr.gen \in Nat /\ cr.gen + 1 \in Nat
    BY DEF HelmInv, TypeOK, Cr
  <1>2. CASE Annotate
    BY <1>1, <1>2, EditInv DEF Annotate
  <1>3. CASE Delete
    <2>1. NoCr(cr.gen) \in Cr /\ ~NoCr(cr.gen).live /\ NoCr(cr.gen).gen = cr.gen
      BY <1>1, NoCrType
    <2> QED
      BY <1>3, <2>1, EditInv DEF Delete
  <1>4. ASSUME NEW spec \in Specs(kind), Put(spec) PROVE HelmInv'
    <2>1. spec \in SdSpecs \cup NfSpecs
      BY <1>4 DEF Specs
    <2>2. CASE cr.live
      <3> DEFINE new == [cr EXCEPT !.gen = @ + 1, !.spec = spec]
      <3>1. cr.observed \in Nat /\ cr.observed <= cr.gen
        BY <1>1, <2>2 DEF HelmInv, CacheInv, Cr
      <3>2. new \in Cr /\ new.live = cr.live /\ new.gen = cr.gen + 1 /\ new.observed = cr.observed
        BY <1>1, <2>1 DEF Cr
      <3>3. Edit(new)
        BY <1>4, <2>2 DEF Put
      <3> HIDE DEF new
      <3>4. new.live
        BY <2>2, <3>2
      <3>5. new.observed < new.gen
        BY <1>1, <3>1, <3>2
      <3> QED
        BY <3>2, <3>3, <3>4, <3>5, EditInv
    <2>3. CASE ~cr.live
      <3> DEFINE none == NoCr(cr.gen + 1)
                 new == [none EXCEPT !.live = TRUE, !.spec = spec]
      <3>1. none \in Cr /\ none.gen = cr.gen + 1 /\ none.observed = 0
        BY <1>1, NoCrType
      <3>2. Edit(new)
        BY <1>4, <2>3 DEF Put
      <3> HIDE DEF none
      <3>3. new \in Cr /\ new.live /\ new.gen = none.gen /\ new.observed = none.observed
        BY <2>1, <3>1 DEF Cr
      <3> HIDE DEF new
      <3> QED
        BY <1>1, <3>1, <3>2, <3>3, EditInv
    <2> QED
      BY <2>2, <2>3
  <1> QED
    BY <1>2, <1>3, <1>4

-----------------------------------------------------------------------------
(* The theorems *)

\* The copies of the resource, the stage of the reconcile and the release at rest
\* agree in every reachable state.
LEMMA HelmInvariant == Spec => []HelmInv
  <1>1. Init => HelmInv
    <2> SUFFICES ASSUME Init PROVE HelmInv
      OBVIOUS
    <2>1. /\ NoCr(0) \in Cr /\ Read(NoCr(0)) \in CrCopy /\ ~NoCr(0).live /\ NoCr(0).gen = 0
      BY NoCrType
    <2>2. /\ cr = NoCr(0) /\ crCache = Read(NoCr(0)) /\ w = IdleW /\ queued = FALSE
          /\ old = FALSE /\ rel = [ns \in Namespaces |-> NoRelease]
          /\ kind \in {"sd", "nf"} /\ edits = 0 /\ faults = 0
      BY DEF Init
    <2>3. NoRelease \in Release
      BY DEF NoRelease, Release, Values
    <2>4. w \in WState /\ w.pc = "idle"
      BY <2>1, <2>2 DEF IdleW, WState
    <2>5. crCache.gen = cr.gen /\ ~crCache.live /\ ~cr.live
      BY <2>1, <2>2, ReadFields
    <2>6. CacheInv
      BY <2>1, <2>2, <2>5 DEF CacheInv
    <2>7. WorkInv /\ StageInv /\ QuietInv
      BY <2>4, <2>5 DEF WorkInv, StageInv, QuietInv
    <2>8. TypeOK
      BY <2>1, <2>2, <2>3, <2>4 DEF TypeOK, CrCopy, WState
    <2> QED
      BY <2>4, <2>6, <2>7, <2>8 DEF HelmInv
  <1>2. HelmInv /\ [Next]_vars => HelmInv'
    <2> SUFFICES ASSUME HelmInv, [Next]_vars PROVE HelmInv'
      OBVIOUS
    <2>1. CASE UNCHANGED vars
      BY <2>1 DEF vars, HelmInv, TypeOK, CacheInv, WorkInv, StageInv, QuietInv, Target
    <2> QED
      BY <2>1, ErrorInv, ReleaseInv, GetInv, StatusInv, EventInv, RestartInv, UserInv
         DEF Next, HelmStep
  <1> QED
    BY <1>1, <1>2, PTL DEF Spec

\* The state of the controller, of the resource and of its releases has its type
\* throughout, and only resources of the operator's own providers are reconciled.
THEOREM HelmTypeCorrect == Spec => []TypeOK
  <1>1. HelmInv => TypeOK
    BY DEF HelmInv
  <1> QED
    BY <1>1, HelmInvariant, PTL

\* When no reconcile is running or due and the cache has seen the resource, its
\* release runs the spec there is now, although GenerationChangedPredicate drops
\* every other event, and an SDCoreDeployment reports it with its revision.
THEOREM RestIsRunning == Spec => []RestMeansRunning
  <1>1. HelmInv => RestMeansRunning
    <2> SUFFICES ASSUME HelmInv, AtRest, cr.live, Mine(cr.spec)
                 PROVE  /\ Wanted /\ Running
                        /\ kind = "sd" => /\ cr.phase = "Deployed" /\ cr.observed = cr.gen
                                          /\ cr.rev = rel[cr.spec.ns].rev
      BY DEF RestMeansRunning
    <2>1. crCache = Read(cr) /\ w.pc = "idle" /\ ~queued
      BY DEF AtRest, HelmInv, CacheInv
    <2>2. crCache.live /\ crCache.spec = cr.spec /\ crCache.gen = cr.gen
      BY <2>1, ReadFields
    <2> QED
      BY <2>1, <2>2 DEF HelmInv, QuietInv, Wanted, Running
  <1> QED
    BY <1>1, HelmInvariant, PTL

\* An SDCoreDeployment that reports its current generation as Deployed has a release
\* that runs it, or a reconcile that is running or due.
THEOREM DeployedRuns == Spec => []DeployedIsRunning
  <1>1. HelmInv => DeployedIsRunning
    <2> SUFFICES ASSUME HelmInv, kind = "sd", Wanted, cr.observed = cr.gen,
                        ~queued, w.pc = "idle"
                 PROVE  Running
      BY DEF DeployedIsRunning
    <2>1. crCache = Read(cr) /\ cr.live /\ Mine(cr.spec)
      BY DEF Wanted, HelmInv, CacheInv
    <2>2. crCache.live /\ crCache.spec = cr.spec
      BY <2>1, ReadFields
    <2> QED
      BY <2>1, <2>2 DEF HelmInv, QuietInv, Running
  <1> QED
    BY <1>1, HelmInvariant, PTL
=============================================================================
