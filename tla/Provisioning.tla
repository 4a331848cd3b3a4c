---------------------------- MODULE Provisioning ----------------------------
(***************************************************************************)
(* The Subscriber and NetworkSlice controllers (subscriber_controller.go)  *)
(* and what they provision into the SD-Core webconsole and its Mongo data  *)
(* base (mongo_helpers.go).                                                *)
(*                                                                         *)
(* A NetworkSlice is posted as a device-group, with the IMSIs of its       *)
(* Subscribers, and as a network-slice.  The webconsole drops the DNN      *)
(* configuration of the posted group, which is then restored in Mongo, and *)
(* the data of the Subscribers that have none is cloned from a Subscriber  *)
(* that has some.  Each controller runs one reconcile at a time, cut here  *)
(* at its calls; each comes back periodically, and on changes.             *)
(*                                                                         *)
(* A spec stands for all the fields of a NetworkSlice (sst, sd, DNN, pool, *)
(* gNBs, UPF, QoS), the five Mongo collections of a Subscriber for one.    *)
(***************************************************************************)
EXTENDS Integers, FiniteSets

CONSTANTS
    Slices,     \* names of NetworkSlices
    Imsis,      \* IMSIs, one Subscriber each
    Short,      \* the IMSIs that have no PLMN (fewer than 5 digits)
    Specs,      \* specs of NetworkSlices
    Seed,       \* the slice for whose Subscribers the webconsole itself keeps data
    MaxEdits,   \* bound on user actions
    MaxWipes,   \* bound on losses of the webconsole's data
    MaxFaults   \* bound on failed calls and restarts

VARIABLES
    slice,      \* the NetworkSlices, in the API server
    sliceCache, \* the informer cache of NetworkSlices
    sub,        \* the Subscribers, in the API server
    subCache,   \* the informer cache of Subscribers
    oldSlices,  \* the slices whose cached copy is not the current version
    oldSubs,    \* the IMSIs whose cached copy is not the current version
    group,      \* webconsole: the device-group of each slice
    net,        \* webconsole: the network-slice of each slice, by its spec
    auth,       \* webconsole: the IMSIs that can authenticate
    data,       \* Mongo: the provisioned data of each IMSI, by the spec in it
    w,          \* the NetworkSlice controller's reconcile in progress
    sliceQueue, subQueue,
    edits, wipes, faults

objects == <<slice, sliceCache, sub, subCache, oldSlices, oldSubs>>
console == <<group, net, auth, data>>
queues == <<sliceQueue, subQueue>>
bounds == <<edits, wipes, faults>>
vars == <<objects, console, w, queues, bounds>>

NoSpec == "none"
NoSlice == "none"

ASSUME NamesAssumption == NoSlice \notin Slices /\ NoSpec \notin Specs
ASSUME SeedAssumption == Seed \in Slices /\ Short \subseteq Imsis
ASSUME BoundsAssumption == {MaxEdits, MaxWipes, MaxFaults} \subseteq Nat

-----------------------------------------------------------------------------
(* Objects *)

Phases == {"none", "Failed", "Provisioned"}
Slice == [live : BOOLEAN, spec : Specs \cup {NoSpec}, phase : Phases]
Subscriber == [live : BOOLEAN, ref : Slices \cup {NoSlice}, phase : Phases]
Group == [there : BOOLEAN, imsis : SUBSET Imsis, dnn : Specs \cup {NoSpec}]

AbsentSlice == [live |-> FALSE, spec |-> NoSpec, phase |-> "none"]
AbsentSub == [live |-> FALSE, ref |-> NoSlice, phase |-> "none"]
AbsentGroup == [there |-> FALSE, imsis |-> {}, dnn |-> NoSpec]

\* What a reconcile reads of a cached object: not its status.
SliceRead(o) == [live |-> o.live, spec |-> o.spec]
SubRead(o) == [live |-> o.live, ref |-> o.ref]

IdleW == [pc |-> "idle", s |-> NoSlice, old |-> FALSE, spec |-> NoSpec,
          imsis |-> {}]

Fault ==
    /\ faults < MaxFaults
    /\ faults' = faults + 1
    /\ UNCHANGED <<edits, wipes>>

-----------------------------------------------------------------------------
(* The Subscriber controller *)

\* The status is written over the version read; a refused write is only logged.
\* The Subscriber is looked at again later, after a failure or a success.  (A new
\* message with the same phase is not told apart: its event brings up nothing that
\* is not brought up anyway.)
SubDone(i, phase) ==
    /\ i \in subQueue /\ subCache[i].live
    /\ \/ /\ i \notin oldSubs
          /\ sub' = [sub EXCEPT ![i].phase = phase]
          /\ oldSubs' = IF sub[i].phase = phase THEN oldSubs ELSE oldSubs \cup {i}
       \/ i \in oldSubs /\ UNCHANGED <<sub, oldSubs>>
    /\ UNCHANGED <<slice, sliceCache, subCache, oldSlices, group, net, data, w, queues>>

\* Mutant: a Subscriber that was provisioned is not looked at again.
SubProvisionMutant(i) ==
    /\ i \in subQueue /\ subCache[i].live /\ i \notin Short
    /\ auth' = auth \cup {i}
    /\ subQueue' = subQueue \ {i}
    /\ UNCHANGED <<objects, group, net, data, w, sliceQueue, bounds>>

\* A whole reconcile: the cached Get, the POST of the credentials, the status.  It
\* is one step: a write of the Subscriber between the Get and the status refuses
\* the status just as one that the cache does not show yet.
SubProvision(i) ==
    /\ i \notin Short
    /\ auth' = auth \cup {i}
    /\ SubDone(i, "Provisioned")
    /\ UNCHANGED bounds

\* subFail, for an IMSI that is too short.
SubRefuse(i) ==
    /\ i \in Short
    /\ SubDone(i, "Failed")
    /\ UNCHANGED <<auth, bounds>>

\* subFail, for a POST that failed.
SubFault(i) ==
    /\ i \notin Short
    /\ Fault
    /\ SubDone(i, "Failed")
    /\ UNCHANGED auth

\* The Subscriber is gone.
SubGone(i) ==
    /\ i \in subQueue /\ ~subCache[i].live
    /\ subQueue' = subQueue \ {i}
    /\ UNCHANGED <<objects, console, w, sliceQueue, bounds>>

-----------------------------------------------------------------------------
(* The NetworkSlice controller *)

\* The cached Get, and the cached List of the Subscribers that refer to s.
SliceGet(s) ==
    /\ w.pc = "idle"
    /\ s \in sliceQueue
    /\ sliceQueue' = sliceQueue \ {s}
    /\ LET imsis == {i \in Imsis : subCache[i].live /\ subCache[i].ref = s}
       IN  w' = IF sliceCache[s].live
                THEN [pc |-> "group", s |-> s, old |-> s \in oldSlices,
                      spec |-> sliceCache[s].spec, imsis |-> imsis]
                ELSE w
    /\ UNCHANGED <<objects, console, subQueue, bounds>>

Goto(pc) == w' = [w EXCEPT !.pc = pc]

\* Mutant: a device-group that exists is answered with 409 and left as it is.
SlicePostGroupMutant ==
    /\ w.pc = "group"
    /\ group' = IF group[w.s].there THEN group
                ELSE [group EXCEPT ![w.s] = [there |-> TRUE, imsis |-> w.imsis,
                                             dnn |-> NoSpec]]
    /\ Goto("slice")
    /\ UNCHANGED <<objects, net, auth, data, queues, bounds>>

\* The device-group replaces the one there was; its DNN configuration is dropped.
SlicePostGroup ==
    /\ w.pc = "group"
    /\ group' = [group EXCEPT ![w.s] = [there |-> TRUE, imsis |-> w.imsis, dnn |-> NoSpec]]
    /\ Goto("slice")
    /\ UNCHANGED <<objects, net, auth, data, queues, bounds>>

\* The webconsole itself keeps the data of the Subscribers of the seed slice.
SeedData ==
    data' = IF w.s # Seed THEN data
            ELSE [i \in Imsis |-> IF i \in group[w.s].imsis THEN w.spec ELSE data[i]]

\* Mutant: without a client for Mongo the repair is skipped.
SlicePostSliceMutant ==
    /\ w.pc = "slice"
    /\ net' = [net EXCEPT ![w.s] = w.spec]
    /\ SeedData
    /\ w' = [w EXCEPT !.pc = "data", !.imsis = {}]
    /\ UNCHANGED <<objects, group, auth, queues, bounds>>

SlicePostSlice ==
    /\ w.pc = "slice"
    /\ net' = [net EXCEPT ![w.s] = w.spec]
    /\ SeedData
    /\ Goto("dnn")
    /\ UNCHANGED <<objects, group, auth, queues, bounds>>

\* ensureDnnConfig updates the group if it is there.
SliceDnn ==
    /\ w.pc = "dnn"
    /\ group' = IF group[w.s].there THEN [group EXCEPT ![w.s].dnn = w.spec] ELSE group
    /\ Goto("data")
    /\ UNCHANGED <<objects, net, auth, data, queues, bounds>>

\* ensureProvisionedData: only for an IMSI without data, and only if there is
\* data of another one to clone; having nothing to clone is no error.
SliceData(i) ==
    /\ w.pc = "data"
    /\ i \in w.imsis
    /\ data' = IF data[i] = NoSpec /\ \E j \in Imsis : data[j] # NoSpec
               THEN [data EXCEPT ![i] = w.spec] ELSE data
    /\ w' = [w EXCEPT !.imsis = @ \ {i}]
    /\ UNCHANGED <<objects, group, net, auth, queues, bounds>>

\* Mutant: the reconcile that ends is not forgotten.
SliceDoneMutant(phase) ==
    /\ w' = [w EXCEPT !.pc = "idle"]
    /\ sliceQueue' = sliceQueue \cup {w.s}
    /\ UNCHANGED <<objects, console, subQueue>>

\* The status is written over the version read; a refused write is only logged.
\* It holds the time, so that it is a new version.  The slice is looked at again.
SliceDone(phase) ==
    /\ \/ /\ ~w.old
          /\ slice' = [slice EXCEPT ![w.s].phase = phase]
          /\ oldSlices' = oldSlices \cup {w.s}
       \/ w.old /\ UNCHANGED <<slice, oldSlices>>
    /\ w' = IdleW
    /\ sliceQueue' = sliceQueue \cup {w.s}
    /\ UNCHANGED <<sliceCache, sub, subCache, oldSubs, console, subQueue>>

SliceStatus ==
    /\ w.pc = "data"
    /\ w.imsis = {}
    /\ SliceDone("Provisioned")
    /\ UNCHANGED bounds

\* sliceFail, at any of the calls.
SliceFault ==
    /\ w.pc \in {"group", "slice", "dnn"} \/ (w.pc = "data" /\ w.imsis # {})
    /\ Fault
    /\ SliceDone("Failed")

-----------------------------------------------------------------------------
(* The cluster, the webconsole, users *)

SliceEvent(s) ==
    /\ s \in oldSlices
    /\ sliceCache' = [sliceCache EXCEPT ![s] = SliceRead(slice[s])]
    /\ oldSlices' = oldSlices \ {s}
    /\ sliceQueue' = sliceQueue \cup {s}
    /\ UNCHANGED <<slice, sub, subCache, oldSubs, console, w, subQueue, bounds>>

\* A change of a Subscriber also brings up the slices it refers or referred to.
SubEvent(i) ==
    /\ i \in oldSubs
    /\ subCache' = [subCache EXCEPT ![i] = SubRead(sub[i])]
    /\ oldSubs' = oldSubs \ {i}
    /\ subQueue' = subQueue \cup {i}
    /\ sliceQueue' = sliceQueue \cup ({sub[i].ref, subCache[i].ref} \cap Slices)
    /\ UNCHANGED <<slice, sliceCache, sub, oldSlices, console, w, bounds>>

\* The webconsole and Mongo start from an empty volume.
Wipe ==
    /\ wipes < MaxWipes
    /\ wipes' = wipes + 1
    /\ group' = [s \in Slices |-> AbsentGroup]
    /\ net' = [s \in Slices |-> NoSpec]
    /\ auth' = {}
    /\ data' = [i \in Imsis |-> NoSpec]
    /\ UNCHANGED <<objects, w, queues, edits, faults>>

Restart ==
    /\ Fault
    /\ w' = IdleW
    /\ sliceCache' = [s \in Slices |-> SliceRead(slice[s])]
    /\ subCache' = [i \in Imsis |-> SubRead(sub[i])]
    /\ oldSlices' = {} /\ oldSubs' = {}
    /\ sliceQueue' = {s \in Slices : slice[s].live \/ \E i \in Imsis : sub[i].ref = s}
    /\ subQueue' = {i \in Imsis : sub[i].live}
    /\ UNCHANGED <<slice, sub, console>>

Edit ==
    /\ edits < MaxEdits
    /\ edits' = edits + 1
    /\ UNCHANGED <<sliceCache, subCache, console, queues, wipes, faults>>

\* A slice is created, edited or deleted (by a user or the EdgeSite controller).
PutSlice(s, new) ==
    /\ Edit
    /\ new # slice[s]
    /\ slice' = [slice EXCEPT ![s] = new]
    /\ oldSlices' = oldSlices \cup {s}
    /\ w' = [w EXCEPT !.old = @ \/ w.s = s]
    /\ UNCHANGED <<sub, oldSubs>>

UserSlice(s, spec) == PutSlice(s, [slice[s] EXCEPT !.live = TRUE, !.spec = spec])
UserDeleteSlice(s) == slice[s].live /\ PutSlice(s, AbsentSlice)

PutSub(i, new) ==
    /\ Edit
    /\ new # sub[i]
    /\ sub' = [sub EXCEPT ![i] = new]
    /\ oldSubs' = oldSubs \cup {i}
    /\ UNCHANGED <<slice, oldSlices, w>>

UserSub(i, ref) == PutSub(i, [sub[i] EXCEPT !.live = TRUE, !.ref = ref])
UserDeleteSub(i) == sub[i].live /\ PutSub(i, AbsentSub)

-----------------------------------------------------------------------------
(* Specification *)

Init ==
    /\ slice = [s \in Slices |-> AbsentSlice]
    /\ sub = [i \in Imsis |-> AbsentSub]
    /\ sliceCache = [s \in Slices |-> SliceRead(slice[s])]
    /\ subCache = [i \in Imsis |-> SubRead(sub[i])]
    /\ oldSlices = {} /\ oldSubs = {}
    /\ group = [s \in Slices |-> AbsentGroup]
    /\ net = [s \in Slices |-> NoSpec]
    /\ auth = {}
    /\ data = [i \in Imsis |-> NoSpec]
    /\ w = IdleW
    /\ sliceQueue = {} /\ subQueue = {}
    /\ edits = 0 /\ wipes = 0 /\ faults = 0

SubStep(i) == SubProvision(i) \/ SubRefuse(i) \/ SubGone(i)
SliceStep ==
    SlicePostGroup \/ SlicePostSlice \/ SliceDnn \/ SliceStatus \/ \E i \in Imsis : SliceData(i)

UserNext ==
    \/ \E s \in Slices, spec \in Specs : UserSlice(s, spec)
    \/ \E i \in Imsis, ref \in Slices \cup {NoSlice} : UserSub(i, ref)
    \/ \E s \in Slices : UserDeleteSlice(s)
    \/ \E i \in Imsis : UserDeleteSub(i)

Next ==
    \/ SliceStep \/ SliceFault \/ Wipe \/ Restart \/ UserNext
    \/ \E s \in Slices : SliceGet(s) \/ SliceEvent(s)
    \/ \E i \in Imsis : SubStep(i) \/ SubFault(i) \/ SubEvent(i)

Spec == Init /\ [][Next]_vars

\* Both controllers and the watches keep going, and no request is passed over for
\* ever; users, wipes and faults are not obliged to happen.
Fairness ==
    /\ WF_vars(SliceStep)
    /\ \A s \in Slices : SF_vars(SliceGet(s)) /\ WF_vars(SliceEvent(s))
    /\ \A i \in Imsis : WF_vars(SubStep(i)) /\ WF_vars(SubEvent(i))

FairSpec == Spec /\ Fairness

-----------------------------------------------------------------------------
(* Properties *)

\* Every variable has its type, and a reconcile in progress has a slice.
TypeOK ==
    /\ slice \in [Slices -> Slice] /\ sliceCache \in [Slices -> {SliceRead(o) : o \in Slice}]
    /\ sub \in [Imsis -> Subscriber] /\ subCache \in [Imsis -> {SubRead(o) : o \in Subscriber}]
    /\ oldSlices \in SUBSET Slices /\ oldSubs \in SUBSET Imsis
    /\ group \in [Slices -> Group]
    /\ net \in [Slices -> Specs \cup {NoSpec}]
    /\ auth \in SUBSET Imsis
    /\ data \in [Imsis -> Specs \cup {NoSpec}]
    /\ w \in [pc : {"idle", "group", "slice", "dnn", "data"}, s : Slices \cup {NoSlice},
              old : BOOLEAN, spec : Specs \cup {NoSpec},
              imsis : SUBSET Imsis]
    /\ w.pc = "idle" <=> w.s = NoSlice
    /\ sliceQueue \in SUBSET Slices /\ subQueue \in SUBSET Imsis
    /\ {edits, wipes, faults} \subseteq Nat

\* A slice that says Provisioned is complete in the webconsole and in Mongo
\* whenever it is not just being refreshed, nothing having failed: the DNN that
\* every refresh drops is restored before the refresh ends.
CompleteBetweenRefreshes ==
    faults = 0 /\ wipes = 0 =>
        \A s \in Slices : slice[s].phase = "Provisioned" /\ w.s # s =>
            net[s] # NoSpec /\ group[s].dnn = net[s]

\* A slice and its Subscribers do not race: whatever order they are created,
\* moved and provisioned in, the device-group of a slice there is ends up with the
\* Subscribers that refer to it, and with no other.
MembersConverge ==
    \A i \in Imsis, s \in Slices :
        /\ <>[](slice[s].live /\ sub[i].live /\ sub[i].ref = s)
               => <>[](i \in group[s].imsis)
        /\ <>[](slice[s].live /\ ~(sub[i].live /\ sub[i].ref = s))
               => <>[](i \notin group[s].imsis)

\* "a webconsole/mongo wipe self-heals": a Subscriber ends up authenticated, and
\* its slice with a DNN again and again, whatever was lost.
ConsoleHeals ==
    /\ \A i \in Imsis \ Short : <>[](sub[i].live) => <>[](i \in auth)
    /\ \A s \in Slices : <>[](slice[s].live) => []<>(group[s].dnn = slice[s].spec)
=============================================================================
