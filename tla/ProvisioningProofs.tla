-------------------------- MODULE ProvisioningProofs --------------------------
(***************************************************************************)
(* Proofs about Provisioning: its variables keep their types, and a slice  *)
(* that says Provisioned is complete in the webconsole whenever it is not  *)
(* just being refreshed and nothing has failed.                            *)
(*                                                                         *)
(* The second is not inductive: that the status is written when the slice  *)
(* is complete is known only from what each call of the reconcile left to  *)
(* the next, the group it posted being still there, the slice being posted *)
(* with the spec that was read, and that spec being one at all.            *)
(***************************************************************************)
EXTENDS Provisioning, TLAPS

Pc == {"idle", "group", "slice", "dnn", "data"}
WState == [pc : Pc, s : Slices \cup {NoSlice}, old : BOOLEAN,
           spec : Specs \cup {NoSpec}, imsis : SUBSET Imsis]
SliceCopy == [live : BOOLEAN, spec : Specs \cup {NoSpec}]
SubCopy == [live : BOOLEAN, ref : Slices \cup {NoSlice}]

\* Everything that was read or can be read as a slice has a spec.
SpecInv ==
    /\ \A s \in Slices : slice[s].live => slice[s].spec # NoSpec
    /\ \A s \in Slices : sliceCache[s].live => sliceCache[s].spec # NoSpec
    /\ w.pc # "idle" => w.spec # NoSpec

\* What the calls of the reconcile in progress have left, nothing having failed.
StageInv ==
    faults = 0 /\ wipes = 0 =>
        /\ w.pc \in {"slice", "dnn", "data"} => group[w.s].there
        /\ w.pc \in {"dnn", "data"} => net[w.s] = w.spec
        /\ w.pc = "data" => group[w.s].dnn = w.spec

ProvInv == TypeOK /\ SpecInv /\ StageInv /\ CompleteBetweenRefreshes
-----------------------------------------------------------------------------
(* Types *)

SliceType == slice \in [Slices -> Slice] /\ oldSlices \in SUBSET Slices
CacheType == sliceCache \in [Slices -> SliceCopy]
SubType ==
    /\ sub \in [Imsis -> Subscriber] /\ subCache \in [Imsis -> SubCopy]
    /\ oldSubs \in SUBSET Imsis
GroupType == group \in [Slices -> Group]
NetType == net \in [Slices -> Specs \cup {NoSpec}]
MongoType == auth \in SUBSET Imsis /\ data \in [Imsis -> Specs \cup {NoSpec}]
WOK(x) == x \in WState /\ (x.pc = "idle" <=> x.s = NoSlice)
WType == WOK(w)
QueueType == sliceQueue \in SUBSET Slices /\ subQueue \in SUBSET Imsis
BoundsType == edits \in Nat /\ wipes \in Nat /\ faults \in Nat

\* What a reconcile reads of an object is a record of two of its fields.
LEMMA Copies ==
    /\ {SliceRead(o) : o \in Slice} = SliceCopy
    /\ {SubRead(o) : o \in Subscriber} = SubCopy
  <1>1. \A o \in Slice : SliceRead(o) \in SliceCopy
    BY DEF SliceRead, Slice, SliceCopy
  <1>2. ASSUME NEW c \in SliceCopy
        PROVE  \E o \in Slice : c = SliceRead(o)
    <2> DEFINE o == [live |-> c.live, spec |-> c.spec, phase |-> "none"]
    <2>1. o \in Slice /\ o.live = c.live /\ o.spec = c.spec
      BY DEF Slice, SliceCopy, Phases
    <2>2. c = [live |-> c.live, spec |-> c.spec]
      BY DEF SliceCopy
    <2> QED
      BY <2>1, <2>2 DEF SliceRead
  <1>3. \A o \in Subscriber : SubRead(o) \in SubCopy
    BY DEF SubRead, Subscriber, SubCopy
  <1>4. ASSUME NEW c \in SubCopy
        PROVE  \E o \in Subscriber : c = SubRead(o)
    <2> DEFINE o == [live |-> c.live, ref |-> c.ref, phase |-> "none"]
    <2>1. o \in Subscriber /\ o.live = c.live /\ o.ref = c.ref
      BY DEF Subscriber, SubCopy, Phases
    <2>2. c = [live |-> c.live, ref |-> c.ref]
      BY DEF SubCopy
    <2> QED
      BY <2>1, <2>2 DEF SubRead
  <1> QED
    BY <1>1, <1>2, <1>3, <1>4

\* The type invariant is the conjunction of its parts, before and after a step.
LEMMA TypeParts ==
    /\ TypeOK <=> /\ SliceType /\ CacheType /\ SubType /\ GroupType /\ NetType
                  /\ MongoType /\ WType /\ QueueType /\ BoundsType
    /\ TypeOK' <=> /\ SliceType' /\ CacheType' /\ SubType' /\ GroupType' /\ NetType'
                   /\ MongoType' /\ WType' /\ QueueType' /\ BoundsType'
  <1>1. {edits, wipes, faults} \subseteq Nat <=> BoundsType
    BY DEF BoundsType
  <1>2. ({edits, wipes, faults} \subseteq Nat)' <=> BoundsType'
    BY DEF BoundsType
  <1> QED
    BY <1>1, <1>2, Copies, Zenon
       DEF TypeOK, SliceType, CacheType, SubType, GroupType, NetType, MongoType, WType, WOK,
           WState, Pc, QueueType

\* A part whose variables do not change keeps its type.
LEMMA PartsKept ==
    /\ SliceType /\ UNCHANGED <<slice, oldSlices>> => SliceType'
    /\ CacheType /\ UNCHANGED sliceCache => CacheType'
    /\ SubType /\ UNCHANGED <<sub, subCache, oldSubs>> => SubType'
    /\ GroupType /\ UNCHANGED group => GroupType'
    /\ NetType /\ UNCHANGED net => NetType'
    /\ MongoType /\ UNCHANGED <<auth, data>> => MongoType'
    /\ WType /\ UNCHANGED w => WType'
    /\ QueueType /\ UNCHANGED queues => QueueType'
    /\ BoundsType /\ UNCHANGED bounds => BoundsType'
  BY DEF SliceType, CacheType, SubType, GroupType, NetType, MongoType, WType, WOK, QueueType,
         queues, BoundsType, bounds

\* The record of a reconcile after a change of one of its fields.
LEMMA WChange ==
    ASSUME WType
    PROVE  /\ \A o \in BOOLEAN : WOK([w EXCEPT !.old = o])
           /\ \A o : /\ [w EXCEPT !.old = o].pc = w.pc
                     /\ [w EXCEPT !.old = o].s = w.s
                     /\ [w EXCEPT !.old = o].spec = w.spec
           /\ \A m \in SUBSET Imsis : WOK([w EXCEPT !.imsis = m])
           /\ \A m : /\ [w EXCEPT !.imsis = m].pc = w.pc
                     /\ [w EXCEPT !.imsis = m].s = w.s
                     /\ [w EXCEPT !.imsis = m].spec = w.spec
           /\ w.pc # "idle" =>
                 \A pc \in Pc \ {"idle"} : /\ WOK([w EXCEPT !.pc = pc])
                                          /\ [w EXCEPT !.pc = pc].pc = pc
                                          /\ [w EXCEPT !.pc = pc].s = w.s
                                          /\ [w EXCEPT !.pc = pc].spec = w.spec
           /\ WOK(IdleW) /\ IdleW.pc = "idle" /\ IdleW.s = NoSlice
           /\ w.pc # "idle" => w.s \in Slices
  <1>1. w \in WState /\ (w.pc = "idle" <=> w.s = NoSlice)
    BY DEF WType, WOK
  <1>2. \A o : /\ [w EXCEPT !.old = o].pc = w.pc
               /\ [w EXCEPT !.old = o].s = w.s
               /\ [w EXCEPT !.old = o].spec = w.spec
    BY <1>1 DEF WState
  <1>3. \A o \in BOOLEAN : [w EXCEPT !.old = o] \in WState
    BY <1>1 DEF WState
  <1>4. \A m : /\ [w EXCEPT !.imsis = m].pc = w.pc
               /\ [w EXCEPT !.imsis = m].s = w.s
               /\ [w EXCEPT !.imsis = m].spec = w.spec
    BY <1>1 DEF WState
  <1>5. \A m \in SUBSET Imsis : [w EXCEPT !.imsis = m] \in WState
    BY <1>1 DEF WState
  <1>6. \A pc : /\ [w EXCEPT !.pc = pc].pc = pc
                /\ [w EXCEPT !.pc = pc].s = w.s
                /\ [w EXCEPT !.pc = pc].spec = w.spec
    BY <1>1 DEF WState
  <1>7. \A pc \in Pc \ {"idle"} : [w EXCEPT !.pc = pc] \in WState
    BY <1>1 DEF WState
  <1>8. IdleW \in WState /\ IdleW.pc = "idle" /\ IdleW.s = NoSlice
    BY DEF IdleW, WState, Pc
  <1>9. w.pc # "idle" => w.s \in Slices
    BY <1>1 DEF WState
  <1> QED
    BY <1>1, <1>2, <1>3, <1>4, <1>5, <1>6, <1>7, <1>8, <1>9 DEF WOK

LEMMA FaultType ==
    ASSUME BoundsType, Fault
    PROVE  BoundsType' /\ faults' # 0
  BY DEF BoundsType, Fault

\* The two Subscriber writes, and the end of a reconcile of a Subscriber.
LEMMA SubWriteType ==
    ASSUME SubType, NEW i \in Imsis, NEW o \in Subscriber,
           sub' = [sub EXCEPT ![i] = o], oldSubs' \in {oldSubs, oldSubs \cup {i}},
           UNCHANGED subCache
    PROVE  SubType'
  BY DEF SubType

LEMMA SubDoneType ==
    ASSUME SubType, NEW i \in Imsis, NEW phase \in Phases, SubDone(i, phase)
    PROVE  SubType'
  <1>1. CASE i \notin oldSubs /\ sub' = [sub EXCEPT ![i].phase = phase]
    <2> DEFINE o == [sub[i] EXCEPT !.phase = phase]
    <2>1. o \in Subscriber
      BY DEF SubType, Subscriber
    <2>2. sub' = [sub EXCEPT ![i] = o]
      BY <1>1
    <2>3. oldSubs' \in {oldSubs, oldSubs \cup {i}} /\ UNCHANGED subCache
      BY <1>1 DEF SubDone
    <2> HIDE DEF o
    <2> QED
      BY <2>1, <2>2, <2>3, SubWriteType
  <1>2. CASE UNCHANGED <<sub, oldSubs>>
    BY <1>2, PartsKept DEF SubDone
  <1> QED
    BY <1>1, <1>2 DEF SubDone

\* A slice that is written.
LEMMA SliceWriteType ==
    ASSUME SliceType, NEW s \in Slices, NEW o \in Slice,
           slice' = [slice EXCEPT ![s] = o], oldSlices' = oldSlices \cup {s}
    PROVE  SliceType'
  BY DEF SliceType
\* The end of a reconcile of a slice.
LEMMA SliceDoneType ==
    ASSUME SliceType, WType, QueueType, w.pc # "idle", NEW phase \in Phases,
           SliceDone(phase)
    PROVE  /\ SliceType' /\ WType' /\ QueueType'
           /\ w'.pc = "idle" /\ w'.s = NoSlice
           /\ \A s \in Slices : /\ slice'[s].live = slice[s].live
                                /\ slice'[s].spec = slice[s].spec
                                /\ slice'[s].phase = slice[s].phase \/ (s = w.s /\ slice'[s].phase = phase)
  <1>1. w.s \in Slices
    BY WChange
  <1>2. w' = IdleW /\ WType'
    BY WChange DEF SliceDone, WType
  <1>3. QueueType'
    BY <1>1 DEF QueueType, SliceDone
  <1>4. CASE slice' = [slice EXCEPT ![w.s].phase = phase] /\ oldSlices' = oldSlices \cup {w.s}
    <2> DEFINE o == [slice[w.s] EXCEPT !.phase = phase]
    <2>1. o \in Slice /\ o.live = slice[w.s].live /\ o.spec = slice[w.s].spec /\ o.phase = phase
      BY <1>1 DEF SliceType, Slice
    <2>2. slice' = [slice EXCEPT ![w.s] = o]
      BY <1>4
    <2> HIDE DEF o
    <2>3. SliceType'
      BY <1>1, <1>4, <2>1, <2>2, SliceWriteType
    <2>4. \A s \in Slices : slice'[s] = IF s = w.s THEN o ELSE slice[s]
      BY <1>1, <2>2 DEF SliceType
    <2> QED
      BY <1>2, <1>3, <2>1, <2>3, <2>4, WChange
  <1>5. CASE UNCHANGED <<slice, oldSlices>>
    BY <1>2, <1>3, <1>5, WChange, PartsKept
  <1> QED
    BY <1>4, <1>5 DEF SliceDone

\* A write of a slice by somebody else leaves the reconcile where it is.
LEMMA PutSliceType ==
    ASSUME SliceType, WType, BoundsType, NEW s \in Slices, NEW o \in Slice, PutSlice(s, o)
    PROVE  /\ SliceType' /\ WType' /\ BoundsType'
           /\ slice' = [slice EXCEPT ![s] = o]
           /\ w'.pc = w.pc /\ w'.s = w.s /\ w'.spec = w.spec
           /\ UNCHANGED <<sliceCache, sub, subCache, oldSubs, console, queues, wipes, faults>>
  <1>1. SliceType' /\ slice' = [slice EXCEPT ![s] = o]
    BY SliceWriteType DEF PutSlice
  <1>2. BoundsType' /\ UNCHANGED <<sliceCache, subCache, console, queues, wipes, faults>>
    BY DEF PutSlice, Edit, BoundsType
  <1> DEFINE b == w.old \/ w.s = s
  <1>3. w' = [w EXCEPT !.old = b] /\ b \in BOOLEAN
    BY DEF PutSlice, WType, WOK, WState
  <1> HIDE DEF b
  <1>4. WType' /\ w'.pc = w.pc /\ w'.s = w.s /\ w'.spec = w.spec
    BY <1>3, WChange DEF WType
  <1> QED
    BY <1>1, <1>2, <1>4 DEF PutSlice

\* What users write of a slice and of a Subscriber.
LEMMA UserWrites ==
    /\ AbsentSlice \in Slice /\ ~AbsentSlice.live /\ AbsentSlice.phase = "none"
    /\ \A o \in Slice : \A spec \in Specs :
          /\ [o EXCEPT !.live = TRUE, !.spec = spec] \in Slice
          /\ [o EXCEPT !.live = TRUE, !.spec = spec].spec = spec
          /\ [o EXCEPT !.live = TRUE, !.spec = spec].phase = o.phase
    /\ AbsentSub \in Subscriber
    /\ \A o \in Subscriber : \A ref \in Slices \cup {NoSlice} :
          [o EXCEPT !.live = TRUE, !.ref = ref] \in Subscriber
  BY DEF AbsentSlice, Slice, AbsentSub, Subscriber, Phases

LEMMA SubGroups ==
    /\ AbsentGroup \in Group
    /\ \A m \in SUBSET Imsis : [there |-> TRUE, imsis |-> m, dnn |-> NoSpec] \in Group
    /\ \A g \in Group : \A d \in Specs \cup {NoSpec} : [g EXCEPT !.dnn = d] \in Group
  BY DEF AbsentGroup, Group

LEMMA InitType == Init => TypeOK
  <1> SUFFICES ASSUME Init PROVE TypeOK
    OBVIOUS
  <1>1. SliceType /\ SubType
    BY DEF Init, SliceType, SubType, AbsentSlice, Slice, AbsentSub, Subscriber, Phases,
           SubRead, SubCopy
  <1>2. CacheType
    BY DEF Init, CacheType, AbsentSlice, SliceRead, SliceCopy
  <1>3. GroupType /\ NetType /\ MongoType /\ QueueType /\ BoundsType
    BY SubGroups DEF Init, GroupType, NetType, MongoType, QueueType, BoundsType
  <1>4. WType
    BY DEF Init, WType, WOK, IdleW, WState, Pc
  <1> QED
    BY <1>1, <1>2, <1>3, <1>4, TypeParts

LEMMA NextType == TypeOK /\ [Next]_vars => TypeOK'
  <1> SUFFICES ASSUME SliceType, CacheType, SubType, GroupType, NetType, MongoType, WType,
                      QueueType, BoundsType, [Next]_vars
               PROVE  TypeOK'
    BY TypeParts
  <1> USE TypeParts, PartsKept
  <1>1. CASE SlicePostGroup
    <2>1. w.s \in Slices /\ w.imsis \in SUBSET Imsis
      BY <1>1, WChange DEF SlicePostGroup, WType, WOK, WState
    <2>2. GroupType'
      BY <1>1, <2>1, SubGroups DEF SlicePostGroup, GroupType
    <2>3. WType'
      BY <1>1, WChange DEF SlicePostGroup, Goto, WType, Pc
    <2> QED
      BY <1>1, <2>2, <2>3 DEF SlicePostGroup, objects
  <1>2. CASE SlicePostSlice
    <2>1. w.s \in Slices /\ w.spec \in Specs \cup {NoSpec}
      BY <1>2, WChange DEF SlicePostSlice, WType, WOK, WState
    <2>2. NetType'
      BY <1>2, <2>1 DEF SlicePostSlice, NetType
    <2>3. MongoType'
      BY <1>2, <2>1 DEF SlicePostSlice, SeedData, MongoType
    <2>4. WType'
      BY <1>2, WChange DEF SlicePostSlice, Goto, WType, Pc
    <2> QED
      BY <1>2, <2>2, <2>3, <2>4 DEF SlicePostSlice, objects
  <1>3. CASE SliceDnn
    <2>1. w.s \in Slices /\ w.spec \in Specs \cup {NoSpec}
      BY <1>3, WChange DEF SliceDnn, WType, WOK, WState
    <2>2. GroupType'
      <3> DEFINE g == [group[w.s] EXCEPT !.dnn = w.spec]
      <3>1. g \in Group
        BY <2>1, SubGroups DEF GroupType
      <3>2. group' = [group EXCEPT ![w.s] = g] \/ group' = group
        BY <1>3 DEF SliceDnn
      <3> HIDE DEF g
      <3> QED
        BY <2>1, <3>1, <3>2 DEF GroupType
    <2>3. WType'
      BY <1>3, WChange DEF SliceDnn, Goto, WType, Pc
    <2> QED
      BY <1>3, <2>2, <2>3 DEF SliceDnn, objects
  <1>4. ASSUME NEW i \in Imsis, SliceData(i)
        PROVE  TypeOK'
    <2>1. w.spec \in Specs \cup {NoSpec} /\ w.imsis \ {i} \in SUBSET Imsis
      BY DEF WType, WOK, WState
    <2>2. MongoType'
      BY <1>4, <2>1 DEF SliceData, MongoType
    <2>3. WType'
      BY <1>4, <2>1, WChange DEF SliceData, WType
    <2> QED
      BY <1>4, <2>2, <2>3 DEF SliceData, objects
  <1>5. CASE SliceStatus
    <2>1. SliceType' /\ WType' /\ QueueType'
      BY <1>5, SliceDoneType DEF SliceStatus, Phases
    <2> QED
      BY <1>5, <2>1 DEF SliceStatus, SliceDone, console
  <1>6. CASE SliceFault
    <2>1. SliceType' /\ WType' /\ QueueType'
      BY <1>6, SliceDoneType DEF SliceFault, Phases
    <2> QED
      BY <1>6, <2>1, FaultType DEF SliceFault, SliceDone, console
  <1>7. CASE Wipe
    BY <1>7, SubGroups
       DEF Wipe, GroupType, NetType, MongoType, BoundsType, objects
  <1>8. CASE Restart
    <2>1. CacheType'
      BY <1>8 DEF Restart, CacheType, SliceType, Slice, SliceRead, SliceCopy
    <2>2. SubType'
      BY <1>8 DEF Restart, SubType, Subscriber, SubRead, SubCopy
    <2>3. SliceType' /\ QueueType'
      BY <1>8 DEF Restart, SliceType, QueueType
    <2>4. WType'
      BY <1>8, WChange DEF Restart, WType
    <2>5. BoundsType'
      BY <1>8, FaultType DEF Restart
    <2> QED
      BY <1>8, <2>1, <2>2, <2>3, <2>4, <2>5 DEF Restart, console
  <1>9. ASSUME NEW s \in Slices, NEW spec \in Specs, UserSlice(s, spec)
        PROVE  TypeOK'
    <2> DEFINE o == [slice[s] EXCEPT !.live = TRUE, !.spec = spec]
    <2>1. o \in Slice
      BY UserWrites DEF SliceType
    <2>2. PutSlice(s, o)
      BY <1>9 DEF UserSlice
    <2> HIDE DEF o
    <2> QED
      BY <2>1, <2>2, PutSliceType DEF console
  <1>10. ASSUME NEW s \in Slices, UserDeleteSlice(s)
         PROVE  TypeOK'
    BY <1>10, UserWrites, PutSliceType DEF console, UserDeleteSlice
  <1>11. ASSUME NEW i \in Imsis, NEW o \in Subscriber, PutSub(i, o)
         PROVE  TypeOK'
    <2>1. SubType'
      BY <1>11, SubWriteType DEF PutSub, Edit
    <2>2. BoundsType'
      BY <1>11 DEF PutSub, Edit, BoundsType
    <2> QED
      BY <1>11, <2>1, <2>2 DEF PutSub, Edit, console
  <1>12. ASSUME NEW i \in Imsis, UserDeleteSub(i) \/ \E ref \in Slices \cup {NoSlice} : UserSub(i, ref)
         PROVE  TypeOK'
    <2>1. CASE UserDeleteSub(i)
      BY <2>1, <1>11, UserWrites DEF UserDeleteSub
    <2>2. ASSUME NEW ref \in Slices \cup {NoSlice}, UserSub(i, ref)
          PROVE  TypeOK'
      <3>1. [sub[i] EXCEPT !.live = TRUE, !.ref = ref] \in Subscriber
        BY UserWrites DEF SubType
      <3> QED
        BY <2>2, <3>1, <1>11 DEF UserSub
    <2> QED
      BY <1>12, <2>1, <2>2
  <1>13. ASSUME NEW s \in Slices, SliceGet(s)
         PROVE  TypeOK'
    <2> DEFINE m == {i \in Imsis : subCache[i].live /\ subCache[i].ref = s}
               b == (s \in oldSlices)
               x == [pc |-> "group", s |-> s, old |-> b, spec |-> sliceCache[s].spec, imsis |-> m]
    <2>1. m \in SUBSET Imsis /\ b \in BOOLEAN /\ sliceCache[s].spec \in Specs \cup {NoSpec}
      BY DEF CacheType, SliceCopy
    <2>2. w' = x \/ w' = w
      BY <1>13 DEF SliceGet
    <2> HIDE DEF m, b
    <2>3. WOK(x)
      BY <2>1, NamesAssumption DEF WOK, WState, Pc
    <2>4. WType'
      BY <2>2, <2>3 DEF WType
    <2>5. QueueType'
      BY <1>13 DEF SliceGet, QueueType
    <2> QED
      BY <1>13, <2>4, <2>5 DEF SliceGet, objects, console
  <1>14. ASSUME NEW s \in Slices, SliceEvent(s)
         PROVE  TypeOK'
    <2>1. SliceRead(slice[s]) \in SliceCopy
      BY DEF SliceType, Slice, SliceRead, SliceCopy
    <2>2. CacheType' /\ SliceType' /\ QueueType'
      BY <1>14, <2>1 DEF SliceEvent, CacheType, SliceType, QueueType
    <2> QED
      BY <1>14, <2>2 DEF SliceEvent, console
  <1>15. ASSUME NEW i \in Imsis, SubProvision(i)
         PROVE  TypeOK'
    <2>1. SubType' /\ MongoType'
      BY <1>15, SubDoneType DEF SubProvision, SubDone, Phases, MongoType
    <2> QED
      BY <1>15, <2>1 DEF SubProvision, SubDone
  <1>16. ASSUME NEW i \in Imsis, SubRefuse(i)
         PROVE  TypeOK'
    <2>1. SubType'
      BY <1>16, SubDoneType DEF SubRefuse, Phases
    <2> QED
      BY <1>16, <2>1 DEF SubRefuse, SubDone
  <1>17. ASSUME NEW i \in Imsis, SubFault(i)
         PROVE  TypeOK'
    <2>1. SubType'
      BY <1>17, SubDoneType DEF SubFault, Phases
    <2> QED
      BY <1>17, <2>1, FaultType DEF SubFault, SubDone
  <1>18. ASSUME NEW i \in Imsis, SubGone(i)
         PROVE  TypeOK'
    BY <1>18 DEF SubGone, objects, console, QueueType
  <1>19. ASSUME NEW i \in Imsis, SubEvent(i)
         PROVE  TypeOK'
    <2>1. SubRead(sub[i]) \in SubCopy
      BY DEF SubType, Subscriber, SubRead, SubCopy
    <2>2. SubType' /\ QueueType'
      BY <1>19, <2>1 DEF SubEvent, SubType, QueueType
    <2> QED
      BY <1>19, <2>2 DEF SubEvent, console
  <1>20. CASE UNCHANGED vars
    BY <1>20 DEF vars, objects, console
  <1> QED
    BY <1>1, <1>2, <1>3, <1>4, <1>5, <1>6, <1>7, <1>8, <1>9, <1>10, <1>12, <1>13, <1>14,
       <1>15, <1>16, <1>17, <1>18, <1>19, <1>20
       DEF Next, SliceStep, UserNext, SubStep

\* The two controllers keep the types of all they write, for any sets of slices,
\* IMSIs and specs, and the reconcile in progress always has a slice.
THEOREM ProvisioningTypeCorrect == Spec => []TypeOK
  BY InitType, NextType, PTL DEF Spec
-----------------------------------------------------------------------------
(* Completeness between refreshes *)

\* The reconcile, the slices and the webconsole's groups and slices, as far as
\* ProvInv is about them.
SameW == w'.pc = w.pc /\ w'.s = w.s /\ w'.spec = w.spec
SameConsole == UNCHANGED <<group, net>>
SameBounds == faults' = faults /\ wipes' = wipes

\* A step that changes neither the reconcile nor the groups and slices of the
\* webconsole, and lets no slice become Provisioned, keeps StageInv and
\* CompleteBetweenRefreshes.
LEMMA CompleteKept ==
    ASSUME StageInv, CompleteBetweenRefreshes, SameW, SameConsole, SameBounds,
           \A s \in Slices : slice'[s].phase \in {slice[s].phase, "none"}
    PROVE  StageInv' /\ CompleteBetweenRefreshes'
  <1>1. StageInv'
    BY DEF StageInv, SameW, SameConsole, SameBounds
  <1>2. CompleteBetweenRefreshes'
    BY DEF CompleteBetweenRefreshes, SameW, SameConsole, SameBounds
  <1> QED
    BY <1>1, <1>2

\* After a failure or a loss nothing is claimed.
LEMMA CompleteVoid ==
    ASSUME faults' # 0 \/ wipes' # 0
    PROVE  StageInv' /\ CompleteBetweenRefreshes'
  BY DEF StageInv, CompleteBetweenRefreshes

\* The reconcile's own calls: the phases stay, and so does what the webconsole has
\* of the other slices.
LEMMA CompleteCall ==
    ASSUME CompleteBetweenRefreshes, w'.s = w.s, SameBounds, UNCHANGED slice,
           \A s \in Slices : s # w.s => group'[s] = group[s] /\ net'[s] = net[s]
    PROVE  CompleteBetweenRefreshes'
  BY DEF CompleteBetweenRefreshes, SameBounds

LEMMA SpecKept ==
    ASSUME SpecInv, UNCHANGED <<slice, sliceCache>>,
           w'.pc = "idle" \/ (w.pc # "idle" /\ w'.spec = w.spec)
    PROVE  SpecInv'
  BY DEF SpecInv

LEMMA InitComplete == Init => SpecInv /\ StageInv /\ CompleteBetweenRefreshes
  <1> SUFFICES ASSUME Init PROVE SpecInv /\ StageInv /\ CompleteBetweenRefreshes
    OBVIOUS
  <1>1. SpecInv
    BY DEF Init, SpecInv, AbsentSlice, SliceRead, IdleW
  <1>2. StageInv
    BY DEF Init, StageInv, IdleW
  <1>3. CompleteBetweenRefreshes
    BY DEF Init, CompleteBetweenRefreshes, AbsentSlice
  <1> QED
    BY <1>1, <1>2, <1>3

LEMMA NextComplete ==
    ASSUME TypeOK, SpecInv, StageInv, CompleteBetweenRefreshes, [Next]_vars
    PROVE  SpecInv' /\ StageInv' /\ CompleteBetweenRefreshes'
  <1>0. SliceType /\ CacheType /\ SubType /\ GroupType /\ NetType /\ WType
        /\ QueueType /\ BoundsType
    BY TypeParts
  <1> USE <1>0
  <1>1. CASE SlicePostGroup
    <2>1. w.s \in Slices /\ w'.pc = "slice" /\ w'.s = w.s /\ w'.spec = w.spec
      BY <1>1, WChange DEF SlicePostGroup, Goto, Pc
    <2>2. /\ group'[w.s].there
          /\ \A s \in Slices : s # w.s => group'[s] = group[s]
      BY <1>1, <2>1 DEF SlicePostGroup, GroupType
    <2>3. SpecInv'
      BY <1>1, <2>1, SpecKept DEF SlicePostGroup, objects
    <2>4. StageInv'
      BY <2>1, <2>2 DEF StageInv
    <2>5. CompleteBetweenRefreshes'
      BY <1>1, <2>1, <2>2, CompleteCall DEF SlicePostGroup, objects, bounds, SameBounds
    <2> QED
      BY <2>3, <2>4, <2>5
  <1>2. CASE SlicePostSlice
    <2>1. w.s \in Slices /\ w'.pc = "dnn" /\ w'.s = w.s /\ w'.spec = w.spec
      BY <1>2, WChange DEF SlicePostSlice, Goto, Pc
    <2>2. /\ net'[w.s] = w.spec
          /\ \A s \in Slices : s # w.s => net'[s] = net[s]
      BY <1>2, <2>1 DEF SlicePostSlice, NetType
    <2>3. SpecInv'
      BY <1>2, <2>1, SpecKept DEF SlicePostSlice, objects
    <2>4. StageInv'
      BY <1>2, <2>1, <2>2 DEF StageInv, SlicePostSlice, bounds
    <2>5. CompleteBetweenRefreshes'
      BY <1>2, <2>1, <2>2, CompleteCall DEF SlicePostSlice, objects, bounds, SameBounds
    <2> QED
      BY <2>3, <2>4, <2>5
  <1>3. CASE SliceDnn
    <2>1. w.s \in Slices /\ w'.pc = "data" /\ w'.s = w.s /\ w'.spec = w.spec
      BY <1>3, WChange DEF SliceDnn, Goto, Pc
    <2>2. SpecInv'
      BY <1>3, <2>1, SpecKept DEF SliceDnn, objects
    <2>3. \A s \in Slices : s # w.s => group'[s] = group[s]
      BY <1>3, <2>1 DEF SliceDnn, GroupType
    <2>4. ASSUME group[w.s].there
          PROVE  group'[w.s].there /\ group'[w.s].dnn = w.spec
      <3> DEFINE g == [group[w.s] EXCEPT !.dnn = w.spec]
      <3>1. g.there = group[w.s].there /\ g.dnn = w.spec
        BY <2>1 DEF GroupType, Group
      <3>2. group'[w.s] = g
        BY <1>3, <2>1, <2>4 DEF SliceDnn, GroupType
      <3> HIDE DEF g
      <3> QED
        BY <2>4, <3>1, <3>2
    <2>5. StageInv'
      BY <1>3, <2>1, <2>4 DEF StageInv, SliceDnn, bounds
    <2>6. CompleteBetweenRefreshes'
      BY <1>3, <2>1, <2>3, CompleteCall DEF SliceDnn, objects, bounds, SameBounds
    <2> QED
      BY <2>2, <2>5, <2>6
  <1>4. ASSUME NEW i \in Imsis, SliceData(i)
        PROVE  SpecInv' /\ StageInv' /\ CompleteBetweenRefreshes'
    <2>1. SameW
      BY <1>4, WChange DEF SliceData, SameW
    <2>2. SpecInv'
      BY <1>4, <2>1, SpecKept DEF SliceData, objects, SameW
    <2>3. StageInv' /\ CompleteBetweenRefreshes'
      BY <1>4, <2>1, CompleteKept DEF SliceData, objects, bounds, SameConsole, SameBounds
    <2> QED
      BY <2>2, <2>3
  <1>5. ASSUME w.pc # "idle", NEW phase \in Phases, SliceDone(phase)
        PROVE  SpecInv'
    BY <1>5, SliceDoneType DEF SpecInv, SliceDone
  <1>6. CASE SliceStatus
    <2>1. SpecInv'
      BY <1>5, <1>6 DEF SliceStatus, Phases
    <2>2. /\ w'.pc = "idle" /\ w'.s = NoSlice
          /\ \A s \in Slices : slice'[s].phase = slice[s].phase \/ s = w.s
      BY <1>6, SliceDoneType DEF SliceStatus, Phases
    <2>3. StageInv'
      BY <2>2 DEF StageInv
    <2>4. w.s \in Slices /\ w.pc = "data" /\ w.spec # NoSpec
      BY <1>6, WChange DEF SliceStatus, SpecInv
    <2>5. CompleteBetweenRefreshes'
      BY <1>6, <2>2, <2>4
         DEF CompleteBetweenRefreshes, StageInv, SliceStatus, SliceDone, console, bounds
    <2> QED
      BY <2>1, <2>3, <2>5
  <1>7. CASE SliceFault
    BY <1>5, <1>7, FaultType, CompleteVoid DEF SliceFault, Phases
  <1>8. CASE Wipe
    <2>1. wipes' # 0
      BY <1>8 DEF Wipe, BoundsType
    <2>2. SpecInv'
      BY <1>8 DEF Wipe, objects, SpecInv
    <2> QED
      BY <2>1, <2>2, CompleteVoid
  <1>9. CASE Restart
    <2>1. SpecInv'
      BY <1>9 DEF Restart, SpecInv, SliceRead, IdleW
    <2> QED
      BY <1>9, <2>1, FaultType, CompleteVoid DEF Restart
  <1>10. ASSUME NEW s \in Slices, NEW o \in Slice, PutSlice(s, o),
                o.live => o.spec # NoSpec, o.phase \in {slice[s].phase, "none"}
         PROVE  SpecInv' /\ StageInv' /\ CompleteBetweenRefreshes'
    <2>1. /\ slice' = [slice EXCEPT ![s] = o] /\ SameW
          /\ UNCHANGED <<sliceCache, console, wipes, faults>>
      BY <1>10, PutSliceType DEF SameW
    <2>2. \A t \in Slices : slice'[t] = IF t = s THEN o ELSE slice[t]
      BY <2>1 DEF SliceType
    <2>3. SpecInv'
      BY <1>10, <2>1, <2>2 DEF SpecInv, SameW
    <2>4. \A t \in Slices : slice'[t].phase \in {slice[t].phase, "none"}
      BY <1>10, <2>2
    <2> QED
      BY <2>1, <2>3, <2>4, CompleteKept DEF console, SameConsole, SameBounds
  <1>11. ASSUME NEW s \in Slices, NEW spec \in Specs, UserSlice(s, spec)
         PROVE  SpecInv' /\ StageInv' /\ CompleteBetweenRefreshes'
    <2> DEFINE o == [slice[s] EXCEPT !.live = TRUE, !.spec = spec]
    <2>1. o \in Slice /\ o.spec # NoSpec /\ o.phase = slice[s].phase
      BY UserWrites, NamesAssumption DEF SliceType
    <2>2. PutSlice(s, o)
      BY <1>11 DEF UserSlice
    <2> HIDE DEF o
    <2> QED
      BY <1>10, <2>1, <2>2
  <1>12. ASSUME NEW s \in Slices, UserDeleteSlice(s)
         PROVE  SpecInv' /\ StageInv' /\ CompleteBetweenRefreshes'
    BY <1>10, <1>12, UserWrites DEF UserDeleteSlice
  <1>13. ASSUME NEW s \in Slices, SliceGet(s)
         PROVE  SpecInv' /\ StageInv' /\ CompleteBetweenRefreshes'
    <2>1. w' = w \/ (w'.pc = "group" /\ w'.s = s /\ sliceCache[s].live /\ w'.spec = sliceCache[s].spec)
      BY <1>13 DEF SliceGet
    <2>2. UNCHANGED <<slice, sliceCache, group, net, faults, wipes>>
      BY <1>13 DEF SliceGet, objects, console, bounds
    <2>3. SpecInv'
      BY <2>1, <2>2 DEF SpecInv
    <2>4. StageInv'
      BY <2>1, <2>2 DEF StageInv
    <2>5. w.s = NoSlice
      BY <1>13 DEF SliceGet, WType, WOK
    <2>6. CompleteBetweenRefreshes'
      BY <2>2, <2>5, NamesAssumption DEF CompleteBetweenRefreshes
    <2> QED
      BY <2>3, <2>4, <2>6
  <1>14. ASSUME NEW s \in Slices, SliceEvent(s)
         PROVE  SpecInv' /\ StageInv' /\ CompleteBetweenRefreshes'
    <2>1. SpecInv'
      BY <1>14 DEF SliceEvent, SpecInv, SliceRead, CacheType
    <2> QED
      BY <1>14, <2>1, CompleteKept
         DEF SliceEvent, console, bounds, SameW, SameConsole, SameBounds
  <1>15. ASSUME UNCHANGED <<slice, sliceCache, group, net, w, faults, wipes>>
         PROVE  SpecInv' /\ StageInv' /\ CompleteBetweenRefreshes'
    BY <1>15, CompleteKept, SpecKept DEF SpecInv, SameW, SameConsole, SameBounds
  <1>16. ASSUME NEW i \in Imsis, SubProvision(i) \/ SubRefuse(i) \/ SubGone(i) \/ SubEvent(i)
         PROVE  SpecInv' /\ StageInv' /\ CompleteBetweenRefreshes'
    BY <1>15, <1>16
       DEF SubProvision, SubRefuse, SubGone, SubEvent, SubDone, objects, console, bounds
  <1>17. ASSUME NEW i \in Imsis, SubFault(i)
         PROVE  SpecInv' /\ StageInv' /\ CompleteBetweenRefreshes'
    <2>1. SpecInv'
      BY <1>17 DEF SubFault, SubDone, SpecInv
    <2> QED
      BY <1>17, <2>1, FaultType, CompleteVoid DEF SubFault
  <1>18. ASSUME NEW i \in Imsis, UserDeleteSub(i) \/ \E ref \in Slices \cup {NoSlice} : UserSub(i, ref)
         PROVE  SpecInv' /\ StageInv' /\ CompleteBetweenRefreshes'
    BY <1>15, <1>18 DEF UserDeleteSub, UserSub, PutSub, Edit, console
  <1>19. CASE UNCHANGED vars
    BY <1>15, <1>19 DEF vars, objects, console, bounds
  <1> QED
    BY <1>1, <1>2, <1>3, <1>4, <1>6, <1>7, <1>8, <1>9, <1>11, <1>12, <1>13, <1>14, <1>16,
       <1>17, <1>18, <1>19
       DEF Next, SliceStep, UserNext, SubStep

\* Every refresh of a slice drops the DNN of its device-group, and every refresh
\* restores it before it ends: a slice whose status says Provisioned, and that is
\* not just being refreshed, has its network-slice and the DNN that goes with it,
\* however its Subscribers, its cache and its edits interleave with the refresh, as
\* long as no call failed and the webconsole kept its data.
THEOREM SlicesComplete == Spec => []CompleteBetweenRefreshes
  <1>1. Init => ProvInv
    BY InitType, InitComplete DEF ProvInv
  <1>2. ProvInv /\ [Next]_vars => ProvInv'
    BY NextType, NextComplete DEF ProvInv
  <1> QED
    BY <1>1, <1>2, PTL DEF Spec, ProvInv
=============================================================================
