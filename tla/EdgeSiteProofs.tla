--------------------------- MODULE EdgeSiteProofs ---------------------------
(***************************************************************************)
(* Proofs about EdgeSite, for any sets of names and intents, any sequence  *)
(* of IPClaims and any bound: its variables keep their types (TypeOK), a   *)
(* gNB's Deployment is in a repo only with what its pod mounts             *)
(* (GnbBacked), Ready is reported only of manifests that are delivered     *)
(* (ReadyIsDelivered), and a missing PackageVariant of a Ready site is     *)
(* never forgotten (MissingVariantNoticed).                                *)
(*                                                                         *)
(* The inductive invariant says what a reconcile has done by how much of   *)
(* its steps it still has to do: todo is the rest of the steps of the      *)
(* intent it read, and the effect of each of those before it is still      *)
(* there.  It also says when what it read is still current.                *)
(***************************************************************************)
EXTENDS EdgeSite, SequenceTheorems, TLAPS

AllSteps == PackageVariants \cup Claims \cup Typed \cup Paths \cup {"derive"}

Full(i) == <<"derive">> \o Steps(i)

\* t is the rest of s.
Rest(t, s) ==
    /\ Len(t) <= Len(s)
    /\ \A k \in 1..Len(t) : t[k] = s[Len(s) - Len(t) + k]

\* The elements of s before its rest t.
Before(t, s) == {s[k] : k \in 1..(Len(s) - Len(t))}

Done == Before(w.todo, Full(w.es.intent))

TodoInv == w.n # NoName => Rest(w.todo, Full(w.es.intent))

\* The reconcile's site is written by nobody else, or was found complete.
Current(n) == site[n].fresh \/ (w.n = n /\ ~w.old)

\* What the controller reads, or has read, is the intent the site has now.
CopyInv ==
    /\ \A n \in Names \ behind : siteCache[n] = Read(site[n])
    /\ \A n \in Names : Current(n) => /\ site[n].live
                                      /\ siteCache[n].live
                                      /\ siteCache[n].intent = site[n].intent
                                      /\ w.n = n => w.es.intent = site[n].intent

\* The manifests that the reconcile in progress has put.
PutInv ==
    w.n # NoName => \A p \in Paths \cap Done :
        files[<<deployRepo(w.n, w.es.intent), p>>] = Manifest(w.n, w.es.intent, p)

\* A site that was complete for its present intent has the manifests of that intent.
DeliveredInv ==
    \A n \in Names : site[n].fresh /\ ~site[n].intent.colocated =>
        \A p \in Paths \cap StepSet(site[n].intent) :
            files[<<n, p>>] = Manifest(n, site[n].intent, p)

\* An object under a site's own name is owned by it.
OwnerInv == \A k \in Keys : child[k].live /\ k[2] \in Names => child[k].owner = k[2]

\* The controller is going to look at n again, whatever it is doing now.
Wake(n) == n \in queue \cup events \cup behind

\* The step st of a site is a PackageVariant under the site's own name.
Own(i, st) == st \in PackageVariants /\ ~(i.colocated /\ st \in PerCluster)

\* The PackageVariants that the reconcile in progress has applied.
AppliedInv ==
    w.n # NoName => \A st \in Done :
        Own(w.es.intent, st) => child[<<st, w.n>>].live \/ Wake(w.n)

NoticedInv ==
    \A n \in Names : site[n].fresh =>
        \A st \in StepSet(site[n].intent) :
            Own(site[n].intent, st) => child[<<st, n>>].live \/ Wake(n) \/ w.n = n

-----------------------------------------------------------------------------
(* Sequences of steps *)

\* Before q come all of P.
Ordered(s, P, q) ==
    \A k \in 1..Len(s) : s[k] = q => \A p \in P : \E j \in 1..(k - 1) : s[j] = p

Without(s, q) == \A k \in 1..Len(s) : s[k] # q

LEMMA RestStart ==
    ASSUME NEW S, NEW s \in Seq(S)
    PROVE  Rest(s, s) /\ Before(s, s) = {}
  BY LenProperties DEF Rest, Before

LEMMA RestTail ==
    ASSUME NEW S, NEW s \in Seq(S), NEW t \in Seq(S), t # <<>>, Rest(t, s)
    PROVE  /\ Rest(Tail(t), s)
           /\ Before(Tail(t), s) = Before(t, s) \cup {Head(t)}
  <1>1. /\ Len(t) \in Nat /\ Len(s) \in Nat /\ Len(t) > 0
        /\ Len(Tail(t)) = Len(t) - 1
        /\ \A k \in 1..Len(Tail(t)) : Tail(t)[k] = t[k + 1]
    BY LenProperties, EmptySeq, HeadTailProperties
  <1>2. Len(t) <= Len(s) /\ \A k \in 1..Len(t) : t[k] = s[Len(s) - Len(t) + k]
    BY DEF Rest
  <1>3. Rest(Tail(t), s)
    <2> SUFFICES ASSUME NEW k \in 1..Len(Tail(t))
                 PROVE  Tail(t)[k] = s[Len(s) - Len(Tail(t)) + k]
      BY <1>1, <1>2 DEF Rest
    <2>1. t[k + 1] = s[Len(s) - Len(t) + (k + 1)]
      BY <1>1, <1>2
    <2>2. Len(s) - Len(t) + (k + 1) = Len(s) - Len(Tail(t)) + k
      BY <1>1
    <2> QED
      BY <1>1, <2>1, <2>2
  <1>4. Head(t) = s[Len(s) - Len(Tail(t))]
    <2>1. Head(t) = t[1]
      OBVIOUS
    <2>2. t[1] = s[Len(s) - Len(t) + 1]
      BY <1>1, <1>2
    <2>3. Len(s) - Len(t) + 1 = Len(s) - Len(Tail(t))
      BY <1>1
    <2> QED
      BY <2>1, <2>2, <2>3
  <1>5. 1..(Len(s) - Len(Tail(t))) = 1..(Len(s) - Len(t)) \cup {Len(s) - Len(Tail(t))}
    BY <1>1, <1>2
  <1> QED
    BY <1>3, <1>4, <1>5 DEF Before

LEMMA RestEnd ==
    ASSUME NEW S, NEW s \in Seq(S)
    PROVE  Before(<<>>, s) = {s[k] : k \in 1..Len(s)}
  <1>1. Len(<<>>) = 0 /\ Len(s) \in Nat
    BY LenProperties, EmptySeq
  <1>2. Len(s) - Len(<<>>) = Len(s)
    BY <1>1
  <1> QED
    BY <1>2 DEF Before

\* Where the rest begins with q, all that is ordered before q is before the rest.
LEMMA RestOrdered ==
    ASSUME NEW S, NEW s \in Seq(S), NEW t \in Seq(S), t # <<>>, Rest(t, s),
           NEW P, Ordered(s, P, Head(t))
    PROVE  P \subseteq Before(t, s)
  <1>1. Len(t) \in Nat /\ Len(s) \in Nat /\ Len(t) > 0 /\ Len(t) <= Len(s)
    BY LenProperties, EmptySeq DEF Rest
  <1> DEFINE k == Len(s) - Len(t) + 1
  <1>2. k \in 1..Len(s) /\ k - 1 = Len(s) - Len(t)
    BY <1>1
  <1>3. s[k] = Head(t)
    BY <1>1 DEF Rest
  <1> HIDE DEF k
  <1>4. \A p \in P : \E j \in 1..(k - 1) : s[j] = p
    BY <1>2, <1>3 DEF Ordered
  <1> QED
    BY <1>2, <1>4 DEF Before

\* q is only in one part of a concatenation.
LEMMA OrderedConcat ==
    ASSUME NEW S, NEW a \in Seq(S), NEW b \in Seq(S), NEW P, NEW q
    PROVE  /\ Without(a, q) /\ Ordered(b, P, q) => Ordered(a \o b, P, q)
           /\ Without(b, q) /\ Ordered(a, P, q) => Ordered(a \o b, P, q)
           /\ Without(a, q) /\ Without(b, q) => Without(a \o b, q)
  <1>1. /\ Len(a) \in Nat /\ Len(b) \in Nat /\ Len(a \o b) = Len(a) + Len(b)
        /\ \A k \in 1..(Len(a) + Len(b)) :
              (a \o b)[k] = IF k <= Len(a) THEN a[k] ELSE b[k - Len(a)]
    BY LenProperties, ConcatProperties
  <1> DEFINE c == a \o b
  <1>2. /\ Len(c) = Len(a) + Len(b)
        /\ \A k \in 1..Len(a) : c[k] = a[k]
        /\ \A k \in (Len(a) + 1)..Len(c) : c[k] = b[k - Len(a)] /\ k - Len(a) \in 1..Len(b)
        /\ \A k \in 1..Len(b) : c[Len(a) + k] = b[k]
        /\ \A k \in 1..Len(c) : k \in 1..Len(a) \/ k \in (Len(a) + 1)..Len(c)
    BY <1>1
  <1> HIDE DEF c
  <1>3. ASSUME Without(a, q), Ordered(b, P, q)
        PROVE  Ordered(c, P, q)
    <2> SUFFICES ASSUME NEW k \in 1..Len(c), c[k] = q, NEW p \in P
                 PROVE  \E j \in 1..(k - 1) : c[j] = p
      BY DEF Ordered
    <2>1. k \in (Len(a) + 1)..Len(c) /\ b[k - Len(a)] = q /\ k - Len(a) \in 1..Len(b)
      BY <1>2, <1>3 DEF Without
    <2>2. PICK j \in 1..(k - Len(a) - 1) : b[j] = p
      BY <1>3, <2>1 DEF Ordered
    <2>3. Len(a) + j \in 1..(k - 1) /\ j \in 1..Len(b)
      BY <1>1, <2>1, <2>2
    <2>4. c[Len(a) + j] = p
      BY <1>2, <2>2, <2>3
    <2> QED
      BY <2>3, <2>4
  <1>4. ASSUME Without(b, q), Ordered(a, P, q)
        PROVE  Ordered(c, P, q)
    <2> SUFFICES ASSUME NEW k \in 1..Len(c), c[k] = q, NEW p \in P
                 PROVE  \E j \in 1..(k - 1) : c[j] = p
      BY DEF Ordered
    <2>1. k \in 1..Len(a) /\ a[k] = q
      BY <1>2, <1>4 DEF Without
    <2>2. PICK j \in 1..(k - 1) : a[j] = p
      BY <1>4, <2>1 DEF Ordered
    <2>3. j \in 1..Len(a)
      BY <1>1, <2>1
    <2> QED
      BY <1>2, <2>2, <2>3
  <1>5. ASSUME Without(a, q), Without(b, q)
        PROVE  Without(c, q)
    BY <1>2, <1>5 DEF Without
  <1> QED
    BY <1>3, <1>4, <1>5 DEF c
\* An optional part.
LEMMA IfSeq ==
    ASSUME NEW S, NEW a \in Seq(S), NEW c \in BOOLEAN
    PROVE  /\ If(c, a) \in Seq(S)
           /\ \A q : Without(a, q) => Without(If(c, a), q)
           /\ \A P, q : Ordered(a, P, q) => Ordered(If(c, a), P, q)
  <1>1. CASE c
    BY <1>1 DEF If
  <1>2. CASE ~c
    BY <1>2, EmptySeq DEF If, Without, Ordered
  <1> QED
    BY <1>1, <1>2

LEMMA ClaimKindsSeq ==
    ClaimKinds \in Seq(AllSteps) /\ Without(ClaimKinds, "ran/deployment")
  <1>1. Len(ClaimKinds) \in Nat /\ ClaimKinds \in Seq(STRING)
    BY ClaimsAssumption, LenProperties
  <1>2. \A k \in 1..Len(ClaimKinds) : ClaimKinds[k] \in Claims
    BY DEF Claims
  <1>3. ClaimKinds \in Seq(AllSteps)
    <2>1. \A k \in 1..Len(ClaimKinds) : ClaimKinds[k] \in AllSteps
      BY <1>2 DEF AllSteps
    <2>2. ClaimKinds \in [1..Len(ClaimKinds) -> AllSteps]
      BY <1>1, <2>1, LenProperties
    <2> QED
      BY <1>1, <2>2
  <1>4. "ran/deployment" \notin Claims
    BY ClaimsAssumption DEF Paths, RanPaths
  <1> QED
    BY <1>2, <1>3, <1>4 DEF Without

\* The parts of the steps that have a fixed length.
LEMMA FixedParts ==
    /\ <<"derive">> \in Seq(AllSteps) /\ Without(<<"derive">>, "ran/deployment")
    /\ <<"cluster">> \in Seq(AllSteps) /\ Without(<<"cluster">>, "ran/deployment")
    /\ <<"cp", "n2-expose", "core-slice", "subscriber">> \in Seq(AllSteps)
    /\ Without(<<"cp", "n2-expose", "core-slice", "subscriber">>, "ran/deployment")
    /\ <<"multus", "upf", "datapath">> \in Seq(AllSteps)
    /\ Without(<<"multus", "upf", "datapath">>, "ran/deployment")
    /\ <<"link", "slice">> \in Seq(AllSteps)
    /\ Without(<<"link", "slice">>, "ran/deployment")
  <1>1. {"derive", "cluster", "cp", "n2-expose", "core-slice", "subscriber", "multus", "upf",
         "datapath", "link", "slice"} \subseteq AllSteps
    BY DEF AllSteps, PackageVariants, Typed, Paths
  <1> QED
    BY <1>1 DEF Without

Elems(s) == {s[k] : k \in 1..Len(s)}

LEMMA ElemsConcat ==
    ASSUME NEW S, NEW a \in Seq(S), NEW b \in Seq(S)
    PROVE  Elems(a \o b) = Elems(a) \cup Elems(b)
  <1> DEFINE c == a \o b
  <1>1. /\ Len(a) \in Nat /\ Len(b) \in Nat /\ Len(c) = Len(a) + Len(b)
        /\ \A k \in 1..(Len(a) + Len(b)) :
              c[k] = IF k <= Len(a) THEN a[k] ELSE b[k - Len(a)]
    BY LenProperties, ConcatProperties
  <1> HIDE DEF c
  <1>2. \A k \in 1..Len(a) : k \in 1..Len(c) /\ c[k] = a[k]
    BY <1>1
  <1>3. \A k \in 1..Len(b) : k + Len(a) \in 1..Len(c) /\ c[k + Len(a)] = b[k]
    BY <1>1
  <1>4. \A k \in 1..Len(c) : \/ k \in 1..Len(a) /\ c[k] = a[k]
                             \/ k - Len(a) \in 1..Len(b) /\ c[k] = b[k - Len(a)]
    BY <1>1
  <1>5. \A x : x \in Elems(c) <=> x \in Elems(a) \/ x \in Elems(b)
    <2>1. ASSUME NEW k \in 1..Len(c)
          PROVE  c[k] \in Elems(a) \/ c[k] \in Elems(b)
      BY <1>4 DEF Elems
    <2>2. ASSUME NEW k \in 1..Len(a)
          PROVE  a[k] \in Elems(c)
      BY <1>2 DEF Elems
    <2>3. ASSUME NEW k \in 1..Len(b)
          PROVE  b[k] \in Elems(c)
      BY <1>3 DEF Elems
    <2> QED
      BY <2>1, <2>2, <2>3 DEF Elems
  <1> QED
    BY <1>5 DEF c

\* What comes last comes after all the others.
LEMMA OrderedLast ==
    ASSUME NEW S, NEW a \in Seq(S), NEW q \in S, q \notin Elems(a)
    PROVE  Ordered(a \o <<q>>, Elems(a), q)
  <1> DEFINE c == a \o <<q>>
  <1>1. /\ Len(a) \in Nat /\ Len(c) = Len(a) + 1
        /\ \A k \in 1..Len(a) : c[k] = a[k]
    BY LenProperties, ConcatProperties
  <1> HIDE DEF c
  <1>2. \A k \in 1..Len(a) : a[k] # q
    BY DEF Elems
  <1>3. \A k \in 1..Len(c) : c[k] = q => k = Len(a) + 1
    BY <1>1, <1>2
  <1>4. Ordered(c, Elems(a), q)
    BY <1>1, <1>3 DEF Ordered, Elems
  <1> QED
    BY <1>4 DEF c

LEMMA OneElem ==
    ASSUME NEW S, NEW x \in S, NEW c \in BOOLEAN
    PROVE  /\ If(c, <<x>>) \in Seq(S) /\ <<x>> \in Seq(S)
           /\ Elems(<<x>>) = {x}
           /\ Elems(If(c, <<x>>)) = IF c THEN {x} ELSE {}
  BY DEF If, Elems

\* The manifests of a gNB, whatever its kind: the Deployment comes after what it mounts.
LEMMA RANOrdered ==
    ASSUME NEW m \in RanModes
    PROVE  deliverRAN(m) \in Seq(AllSteps) /\ Ordered(deliverRAN(m), Mounts(m), "ran/deployment")
  <1> DEFINE a == <<"ran/configmap">>
             b == If("ran/detect" \in Mounts(m), <<"ran/detect">>)
             c == If("ran/radio-net" \in Mounts(m), <<"ran/radio-net">>)
             q == "ran/deployment"
  <1>1. {"ran/configmap", "ran/detect", "ran/radio-net", q} \subseteq AllSteps
    BY DEF AllSteps, Paths, RanPaths
  <1>2. /\ {"ran/configmap", "ran/detect", "ran/radio-net"} \cap Mounts(m) = Mounts(m)
        /\ "ran/configmap" \in Mounts(m)
    BY DEF Mounts
  <1>3. a \in Seq(AllSteps) /\ Elems(a) = {"ran/configmap"}
    BY <1>1, OneElem
  <1>4. b \in Seq(AllSteps) /\ Elems(b) = {"ran/detect"} \cap Mounts(m)
    <2>1. ("ran/detect" \in Mounts(m)) \in BOOLEAN
      OBVIOUS
    <2>2. /\ b \in Seq(AllSteps)
          /\ Elems(b) = IF "ran/detect" \in Mounts(m) THEN {"ran/detect"} ELSE {}
      BY <1>1, <2>1, OneElem, Zenon
    <2> QED
      BY <2>2
  <1>5. c \in Seq(AllSteps) /\ Elems(c) = {"ran/radio-net"} \cap Mounts(m)
    <2>1. ("ran/radio-net" \in Mounts(m)) \in BOOLEAN
      OBVIOUS
    <2>2. /\ c \in Seq(AllSteps)
          /\ Elems(c) = IF "ran/radio-net" \in Mounts(m) THEN {"ran/radio-net"} ELSE {}
      BY <1>1, <2>1, OneElem, Zenon
    <2> QED
      BY <2>2
  <1>6. <<q>> \in Seq(AllSteps)
    BY <1>1
  <1> HIDE DEF a, b, c
  <1>7. a \o b \in Seq(AllSteps) /\ Elems(a \o b) = Elems(a) \cup Elems(b)
    BY <1>3, <1>4, ElemsConcat, ConcatProperties
  <1>8. /\ a \o b \o c \in Seq(AllSteps)
        /\ Elems(a \o b \o c) = Elems(a) \cup Elems(b) \cup Elems(c)
    <2> DEFINE d == a \o b
    <2>1. d \in Seq(AllSteps) /\ Elems(d) = Elems(a) \cup Elems(b)
      BY <1>7
    <2> HIDE DEF d
    <2>2. d \o c \in Seq(AllSteps) /\ Elems(d \o c) = Elems(d) \cup Elems(c)
      BY <1>5, <2>1, ElemsConcat, ConcatProperties
    <2> QED
      BY <2>1, <2>2 DEF d
  <1>9. Elems(a \o b \o c) = Mounts(m) /\ q \notin Mounts(m)
    BY <1>2, <1>3, <1>4, <1>5, <1>8
  <1>10. /\ a \o b \o c \o <<q>> \in Seq(AllSteps)
         /\ Ordered(a \o b \o c \o <<q>>, Mounts(m), q)
    BY <1>1, <1>6, <1>8, <1>9, OrderedLast, ConcatProperties
  <1> QED
    BY <1>10 DEF deliverRAN, a, b, c

\* The steps of any intent: where a gNB's Deployment comes, all its pod mounts is put.
LEMMA StepsOrdered ==
    ASSUME NEW i \in Intent
    PROVE  /\ Steps(i) \in Seq(AllSteps) /\ Full(i) \in Seq(AllSteps)
           /\ Ordered(Full(i), Mounts(i.ran), "ran/deployment")
  <1> DEFINE S == AllSteps
             q == "ran/deployment"
             P == Mounts(i.ran)
             a == If(~i.colocated, <<"cluster">>)
             r == If(i.ran # "none", deliverRAN(i.ran))
             c == <<"cp", "n2-expose", "core-slice", "subscriber">> \o r
             d == If(i.role = "cp+upf", c)
             e == <<"multus", "upf", "datapath">>
             f == If(i.role = "upf-only", <<"link", "slice">>)
  <1>1. i.ran \in RanModes /\ i.colocated \in BOOLEAN
    BY DEF Intent
  <1>2. a \in Seq(S) /\ Without(a, q)
    BY <1>1, IfSeq, FixedParts
  <1>3. r \in Seq(S) /\ Ordered(r, P, q)
    BY <1>1, IfSeq, RANOrdered
  <1>4. f \in Seq(S) /\ Without(f, q)
    BY IfSeq, FixedParts
  <1>5. Steps(i) = a \o ClaimKinds \o d \o e \o f
    BY DEF Steps
  <1> HIDE DEF a, r, f, S, P, q
  <1>6. c \in Seq(S) /\ Ordered(c, P, q)
    BY <1>3, FixedParts, OrderedConcat, ConcatProperties DEF S, q
  <1> HIDE DEF c
  <1>7. d \in Seq(S) /\ Ordered(d, P, q)
    BY <1>6, IfSeq
  <1>8. e \in Seq(S) /\ Without(e, q)
    BY FixedParts DEF S, q
  <1>9. ClaimKinds \in Seq(S) /\ Without(ClaimKinds, q)
    BY ClaimKindsSeq DEF S, q
  <1>10. <<"derive">> \in Seq(S) /\ Without(<<"derive">>, q)
    BY FixedParts DEF S, q
  <1> HIDE DEF d, e
  <1>11. a \o ClaimKinds \in Seq(S) /\ Without(a \o ClaimKinds, q)
    BY <1>2, <1>9, OrderedConcat, ConcatProperties
  <1>12. a \o ClaimKinds \o d \in Seq(S) /\ Ordered(a \o ClaimKinds \o d, P, q)
    BY <1>7, <1>11, OrderedConcat, ConcatProperties
  <1>13. a \o ClaimKinds \o d \o e \in Seq(S) /\ Ordered(a \o ClaimKinds \o d \o e, P, q)
    BY <1>8, <1>12, OrderedConcat, ConcatProperties
  <1>14. Steps(i) \in Seq(S) /\ Ordered(Steps(i), P, q)
    BY <1>4, <1>5, <1>13, OrderedConcat, ConcatProperties
  <1>15. Full(i) \in Seq(S) /\ Ordered(Full(i), P, q)
    BY <1>10, <1>14, OrderedConcat, ConcatProperties DEF Full
  <1> QED
    BY <1>14, <1>15 DEF S, P, q

\* All of the steps are those of Reconcile and the derivation.
LEMMA FullSet ==
    ASSUME NEW i \in Intent
    PROVE  StepSet(i) \subseteq {Full(i)[k] : k \in 1..Len(Full(i))}
  <1>1. Steps(i) \in Seq(AllSteps) /\ <<"derive">> \in Seq(AllSteps)
    BY StepsOrdered, FixedParts
  <1>2. Len(Full(i)) = Len(Steps(i)) + 1 /\ Len(Steps(i)) \in Nat
    BY <1>1, ConcatProperties, LenProperties DEF Full
  <1>3. ASSUME NEW k \in 1..Len(Steps(i))
        PROVE  Full(i)[k + 1] = Steps(i)[k] /\ k + 1 \in 1..Len(Full(i))
    BY <1>1, <1>2, ConcatProperties DEF Full
  <1> QED
    BY <1>3 DEF StepSet
-----------------------------------------------------------------------------
(* Types *)

SiteType ==
    /\ site \in [Names -> Site] /\ siteCache \in [Names -> SiteCopy]
    /\ behind \in SUBSET Names
ChildOK(c) == c \in Child /\ (c.live => c.owner \in Names)
ChildType == child \in [Keys -> Child] /\ \A k \in Keys : ChildOK(child[k])
FileType ==
    /\ files \in [Repos \X Paths -> [site : Names \cup {NoName}, ran : RanModes]]
    /\ repos \in SUBSET Repos
WState == [n : Names \cup {NoName}, es : SiteCopy, old : BOOLEAN, todo : Seq(AllSteps)]
WOK(x) == x \in WState /\ (x.n = NoName => x.todo = <<>>)
WType == WOK(w)
QueueType == queue \in SUBSET Names /\ events \in SUBSET Names
BoundsType == edits \in Nat /\ faults \in Nat

\* TypeOK, and that w is a record.
TypeInv == SiteType /\ ChildType /\ FileType /\ WType /\ QueueType /\ BoundsType

LEMMA TypeParts == TypeInv => TypeOK
  BY DEF TypeInv, SiteType, ChildType, ChildOK, FileType, WType, WOK, WState, AllSteps,
         QueueType, BoundsType, TypeOK

\* A part whose variables do not change keeps its type.
LEMMA PartsKept ==
    /\ SiteType /\ UNCHANGED <<site, siteCache, behind>> => SiteType'
    /\ ChildType /\ UNCHANGED child => ChildType'
    /\ FileType /\ UNCHANGED <<files, repos>> => FileType'
    /\ WType /\ UNCHANGED w => WType'
    /\ QueueType /\ UNCHANGED <<queue, events>> => QueueType'
    /\ BoundsType /\ UNCHANGED <<edits, faults>> => BoundsType'
  BY DEF SiteType, ChildType, ChildOK, FileType, WType, WOK, QueueType, BoundsType

\* The versions of a site that somebody writes.
LEMMA SiteVersions ==
    ASSUME NEW es \in Site, NEW i \in Intent
    PROVE  /\ LET new == [es EXCEPT !.phase = "Failed"]
              IN  /\ new \in Site /\ new.live = es.live /\ new.fresh = es.fresh
                  /\ new.intent = es.intent
           /\ LET new == [es EXCEPT !.derived = TRUE, !.fresh = FALSE]
              IN  new \in Site /\ new.live = es.live /\ ~new.fresh /\ new.intent = es.intent
           /\ LET new == [es EXCEPT !.phase = "Deploying", !.fresh = TRUE]
              IN  new \in Site /\ new.live = es.live /\ new.intent = es.intent
           /\ LET new == [es EXCEPT !.intent = i, !.fresh = FALSE]
              IN  new \in Site /\ ~new.fresh
           /\ NoSite(es.uid) \in Site /\ ~NoSite(es.uid).fresh
           /\ LET new == [NoSite(es.uid + 1) EXCEPT !.live = TRUE, !.intent = i]
              IN  new \in Site /\ ~new.fresh
           /\ Read(es) \in SiteCopy /\ Read(es).live = es.live /\ Read(es).intent = es.intent
  <1>1. /\ es.live \in BOOLEAN /\ es.uid \in Nat /\ es.intent \in Intent /\ es.derived \in BOOLEAN
        /\ es.phase \in {"none", "Failed", "Deploying"} /\ es.fresh \in BOOLEAN
    BY DEF Site
  <1>2. NoIntent \in Intent
    BY DEF NoIntent, Intent, Roles, RanModes
  <1>3. \A u \in Nat : NoSite(u) \in Site /\ ~NoSite(u).fresh
    BY <1>2 DEF NoSite, Site
  <1>4. LET new == [NoSite(es.uid + 1) EXCEPT !.live = TRUE, !.intent = i]
        IN  new \in Site /\ ~new.fresh
    <2>1. \A o \in Site : LET new == [o EXCEPT !.live = TRUE, !.intent = i]
                          IN  new \in Site /\ new.fresh = o.fresh
      BY DEF Site
    <2>2. NoSite(es.uid + 1) \in Site /\ ~NoSite(es.uid + 1).fresh
      BY <1>1, <1>3
    <2> QED
      BY <2>1, <2>2
  <1>5. Read(es) \in SiteCopy /\ Read(es).live = es.live /\ Read(es).intent = es.intent
    BY <1>1 DEF Read, SiteCopy
  <1>6. LET new == [es EXCEPT !.phase = "Failed"]
        IN  /\ new \in Site /\ new.live = es.live /\ new.fresh = es.fresh
            /\ new.intent = es.intent
    BY DEF Site
  <1>7. LET new == [es EXCEPT !.derived = TRUE, !.fresh = FALSE]
        IN  new \in Site /\ new.live = es.live /\ ~new.fresh /\ new.intent = es.intent
    BY DEF Site
  <1>8. LET new == [es EXCEPT !.phase = "Deploying", !.fresh = TRUE]
        IN  new \in Site /\ new.live = es.live /\ new.intent = es.intent
    BY DEF Site
  <1>9. LET new == [es EXCEPT !.intent = i, !.fresh = FALSE]
        IN  new \in Site /\ ~new.fresh
    BY DEF Site
  <1> QED
    BY <1>1, <1>3, <1>4, <1>5, <1>6, <1>7, <1>8, <1>9

LEMMA ReadFacts ==
    ASSUME SiteType, NEW n \in Names
    PROVE  Read(site[n]).live = site[n].live /\ Read(site[n]).intent = site[n].intent
  <1>1. site[n] \in Site /\ site[n].intent \in Intent
    BY DEF SiteType, Site
  <1> QED
    BY <1>1, SiteVersions

\* The record of a reconcile after a change of it.
LEMMA WChange ==
    ASSUME WType
    PROVE  /\ LET x == [w EXCEPT !.old = TRUE]
              IN  WOK(x) /\ x.n = w.n /\ x.es = w.es /\ x.todo = w.todo /\ x.old
           /\ w.todo # <<>> =>
                 /\ w.n \in Names /\ Head(w.todo) \in AllSteps /\ Tail(w.todo) \in Seq(AllSteps)
                 /\ LET x == [w EXCEPT !.todo = Tail(@)]
                    IN  WOK(x) /\ x.n = w.n /\ x.es = w.es /\ x.todo = Tail(w.todo) /\ x.old = w.old
                 /\ LET x == [w EXCEPT !.es.derived = TRUE, !.todo = Tail(@)]
                    IN  /\ WOK(x) /\ x.n = w.n /\ x.todo = Tail(w.todo) /\ x.old = w.old
                        /\ x.es.intent = w.es.intent
           /\ WOK(IdleW) /\ IdleW.n = NoName
           /\ w.es.intent \in Intent /\ w.old \in BOOLEAN /\ w.todo \in Seq(AllSteps)
  <1>1. /\ w \in WState /\ (w.n = NoName => w.todo = <<>>)
        /\ w.n \in Names \cup {NoName} /\ w.es \in SiteCopy /\ w.old \in BOOLEAN
        /\ w.todo \in Seq(AllSteps)
    BY DEF WType, WOK, WState
  <1>2. LET x == [w EXCEPT !.old = TRUE]
        IN  WOK(x) /\ x.n = w.n /\ x.es = w.es /\ x.todo = w.todo /\ x.old
    BY <1>1 DEF WOK, WState
  <1>3. ASSUME w.todo # <<>>
        PROVE  Head(w.todo) \in AllSteps /\ Tail(w.todo) \in Seq(AllSteps) /\ w.n \in Names
    BY <1>1, <1>3, HeadTailProperties
  <1>4. ASSUME NEW t \in Seq(AllSteps), w.n \in Names
        PROVE  LET x == [w EXCEPT !.todo = t]
               IN  WOK(x) /\ x.n = w.n /\ x.es = w.es /\ x.todo = t /\ x.old = w.old
    BY <1>1, <1>4, NoNameAssumption DEF WOK, WState
  <1>5. LET c == [w.es EXCEPT !.derived = TRUE] IN c \in SiteCopy /\ c.intent = w.es.intent
    BY <1>1 DEF SiteCopy
  <1>6. ASSUME NEW t \in Seq(AllSteps), NEW c \in SiteCopy, w.n \in Names
        PROVE  LET x == [w EXCEPT !.es = c, !.todo = t]
               IN  WOK(x) /\ x.n = w.n /\ x.es = c /\ x.todo = t /\ x.old = w.old
    BY <1>1, <1>6, NoNameAssumption DEF WOK, WState
  <1>7. ASSUME w.todo # <<>>
        PROVE  LET x == [w EXCEPT !.es.derived = TRUE, !.todo = Tail(@)]
               IN  /\ WOK(x) /\ x.n = w.n /\ x.todo = Tail(w.todo) /\ x.old = w.old
                   /\ x.es.intent = w.es.intent
    <2> DEFINE c == [w.es EXCEPT !.derived = TRUE]
               x == [w EXCEPT !.es.derived = TRUE, !.todo = Tail(@)]
    <2>1. x = [w EXCEPT !.es = c, !.todo = Tail(w.todo)]
      BY <1>1 DEF WState
    <2> HIDE DEF x
    <2>2. WOK(x) /\ x.n = w.n /\ x.es = c /\ x.todo = Tail(w.todo) /\ x.old = w.old
      BY <1>3, <1>5, <1>6, <1>7, <2>1
    <2>3. x.es.intent = w.es.intent
      BY <1>5, <2>2
    <2> QED
      BY <2>2, <2>3 DEF x
  <1>8. WOK(IdleW) /\ IdleW.n = NoName
    <2>1. NoIntent \in Intent
      BY DEF NoIntent, Intent, Roles, RanModes
    <2>2. Read(NoSite(0)) \in SiteCopy
      BY <2>1 DEF Read, NoSite, SiteCopy
    <2> QED
      BY <2>2, EmptySeq DEF IdleW, WOK, WState
  <1>9. w.es.intent \in Intent
    BY <1>1 DEF SiteCopy
  <1> QED
    BY <1>1, <1>2, <1>3, <1>4, <1>7, <1>8, <1>9

\* The reconcile's write of its site.
LEMMA OwnWrite ==
    ASSUME SiteType, w.n \in Names, NEW es \in Site, WriteSite(es), UNCHANGED siteCache
    PROVE  /\ SiteType'
           /\ \A n \in Names : site'[n] = IF n = w.n THEN es ELSE site[n]
           /\ behind \subseteq behind'
           /\ \A n \in Names \ behind' : n \notin behind /\ site'[n] = site[n]
  BY DEF SiteType, WriteSite

\* A write of a site by somebody else.
LEMMA TouchFacts ==
    ASSUME SiteType, WType, NEW n \in Names, Touch(n)
    PROVE  /\ behind' = behind \cup {n} /\ WType'
           /\ w'.n = w.n /\ w'.es = w.es /\ w'.todo = w.todo
           /\ w.n = n => w'.old
           /\ w.n # n => w'.old = w.old
  BY WChange DEF Touch, WType

LEMMA EditFacts ==
    ASSUME SiteType, WType, BoundsType, NEW n \in Names, NEW es \in Site, Edit(n, es)
    PROVE  /\ SiteType' /\ WType' /\ BoundsType'
           /\ \A m \in Names : site'[m] = IF m = n THEN es ELSE site[m]
           /\ behind' = behind \cup {n}
           /\ w'.n = w.n /\ w'.es = w.es /\ w'.todo = w.todo
           /\ w.n = n => w'.old
           /\ w.n # n => w'.old = w.old
           /\ UNCHANGED <<siteCache, child, files, repos, queue, events>>
  <1>1. /\ site' = [site EXCEPT ![n] = es] /\ Touch(n) /\ edits' = edits + 1
        /\ UNCHANGED <<siteCache, child, files, repos, queue, events, faults>>
    BY DEF Edit
  <1>2. BoundsType'
    BY <1>1 DEF BoundsType
  <1>3. SiteType' /\ \A m \in Names : site'[m] = IF m = n THEN es ELSE site[m]
    BY <1>1, TouchFacts DEF SiteType
  <1> QED
    BY <1>1, <1>2, <1>3, TouchFacts

LEMMA FaultType == BoundsType /\ Fault /\ UNCHANGED edits => BoundsType'
  BY DEF BoundsType, Fault
\* What applyOwned writes.
LEMMA ApplyFacts ==
    ASSUME ChildType, QueueType, NEW n \in Names, NEW es \in SiteCopy,
           NEW st \in PackageVariants \cup Claims \cup Typed, applyOwned(n, es, st),
           UNCHANGED queue
    PROVE  /\ Key(n, es.intent, st) \in Keys
           /\ ChildType' /\ QueueType' /\ events \subseteq events'
           /\ child'[Key(n, es.intent, st)].live
           /\ \A k \in Keys : child'[k] = child[k] \/ child'[k].owner = n
           /\ \A k \in Keys : k # Key(n, es.intent, st) => child'[k] = child[k]
  <1> DEFINE k == Key(n, es.intent, st)
             new == [live |-> TRUE, owner |-> n, uid |-> es.uid, spec |-> Spec_(n, es.intent, st)]
  <1>1. es.intent \in Intent /\ es.uid \in Nat
    BY DEF SiteCopy
  <1>2. deployRepo(n, es.intent) \in Repos
    BY <1>1 DEF deployRepo, Repos, Intent
  <1>3. k \in Keys
    BY <1>2 DEF Key, Keys, Repos
  <1>4. Spec_(n, es.intent, st) \in Repos \cup {NoName, "fixed"}
    BY <1>2 DEF Spec_
  <1>5. new \in Child /\ new.live /\ new.owner = n /\ ChildOK(new)
    BY <1>1, <1>4 DEF Child, ChildOK
  <1>6. \/ child' = child /\ child[k].live
        \/ child' = [child EXCEPT ![k] = new]
    BY DEF applyOwned
  <1>7. events' \in {events, events \cup {n}}
    BY DEF applyOwned
  <1> HIDE DEF k, new
  <1>8. /\ child'[k].live
        /\ \A j \in Keys : j # k => child'[j] = child[j]
        /\ \A j \in Keys : child'[j] = child[j] \/ child'[j].owner = n
        /\ ChildType'
    BY <1>3, <1>5, <1>6 DEF ChildType
  <1> QED
    BY <1>3, <1>7, <1>8 DEF QueueType, k

LEMMA InitType == Init => TypeInv
  <1> SUFFICES ASSUME Init PROVE TypeInv
    OBVIOUS
  <1>1. NoSite(0) \in Site /\ Read(NoSite(0)) \in SiteCopy
    <2>1. NoIntent \in Intent
      BY DEF NoIntent, Intent, Roles, RanModes
    <2> QED
      BY <2>1 DEF NoSite, Site, Read, SiteCopy
  <1>2. SiteType
    BY <1>1 DEF Init, SiteType
  <1>3. NoChild \in Child /\ ~NoChild.live
    BY DEF NoChild, Child
  <1>4. ChildType
    BY <1>3 DEF Init, ChildType, ChildOK
  <1>5. FileType
    BY DEF Init, FileType, NoFile, RanModes, Repos
  <1>6. WType
    BY <1>1, EmptySeq DEF Init, WType, WOK, WState, IdleW
  <1>7. QueueType /\ BoundsType
    BY DEF Init, QueueType, BoundsType
  <1> QED
    BY <1>2, <1>4, <1>5, <1>6, <1>7 DEF TypeInv

\* The end of a reconcile by a failed step.
LEMMA FailedFacts ==
    ASSUME SiteType, WType, QueueType, w.todo # <<>>, StepFailed
    PROVE  /\ SiteType' /\ WType' /\ QueueType' /\ w'.n = NoName
           /\ \A n \in Names : /\ site'[n].live = site[n].live
                                /\ site'[n].intent = site[n].intent
                                /\ site'[n].fresh = site[n].fresh
           /\ \A n \in Names \ behind' : n \notin behind /\ site'[n] = site[n]
           /\ behind \subseteq behind' /\ queue' = queue \cup {w.n} /\ w.n \in Names
  <1>1. w.n \in Names /\ w' = IdleW /\ WType' /\ w'.n = NoName
    BY WChange DEF StepFailed, WType
  <1>2. queue' = queue \cup {w.n} /\ QueueType'
    BY <1>1 DEF StepFailed, QueueType
  <1>3. CASE WriteSite([site[w.n] EXCEPT !.phase = "Failed"])
    <2> DEFINE es == [site[w.n] EXCEPT !.phase = "Failed"]
    <2>1. /\ es \in Site /\ es.live = site[w.n].live /\ es.fresh = site[w.n].fresh
          /\ es.intent = site[w.n].intent
      <3>1. site[w.n] \in Site /\ site[w.n].intent \in Intent
        BY <1>1 DEF SiteType, Site
      <3> QED
        BY <3>1, SiteVersions
    <2>2. WriteSite(es) /\ UNCHANGED siteCache
      BY <1>3 DEF StepFailed
    <2> HIDE DEF es
    <2> QED
      BY <1>1, <1>2, <2>1, <2>2, OwnWrite
  <1>4. CASE UNCHANGED <<site, behind>>
    BY <1>1, <1>2, <1>4, PartsKept DEF StepFailed
  <1> QED
    BY <1>3, <1>4 DEF StepFailed
LEMMA GetFacts ==
    ASSUME SiteType, WType, QueueType, NEW n \in Names, EsGet(n)
    PROVE  /\ WType' /\ QueueType' /\ w.n = NoName /\ queue' = queue \ {n}
           /\ \/ ~siteCache[n].live /\ w' = w
              \/ /\ siteCache[n].live /\ w'.n = n /\ w'.es = siteCache[n]
                 /\ w'.todo = Full(siteCache[n].intent) /\ (w'.old <=> n \in behind)
  <1> DEFINE b == (n \in behind)
             t == <<"derive">> \o Steps(siteCache[n].intent)
             x == [n |-> n, es |-> siteCache[n], old |-> b, todo |-> t]
  <1>1. siteCache[n] \in SiteCopy /\ siteCache[n].intent \in Intent /\ b \in BOOLEAN
    BY DEF SiteType, SiteCopy
  <1>2. t = Full(siteCache[n].intent) /\ t \in Seq(AllSteps)
    BY <1>1, StepsOrdered DEF Full
  <1>3. w' = IF siteCache[n].live THEN x ELSE w
    BY DEF EsGet
  <1>4. w.n = NoName /\ queue' = queue \ {n} /\ QueueType'
    BY DEF EsGet, QueueType
  <1> HIDE DEF b, t
  <1>5. WOK(x) /\ x.n = n /\ x.es = siteCache[n] /\ x.todo = t /\ x.old = b
    BY <1>1, <1>2, NoNameAssumption DEF WOK, WState
  <1> HIDE DEF x
  <1>6. CASE siteCache[n].live
    <2>1. w' = x
      BY <1>3, <1>6
    <2> QED
      BY <1>2, <1>4, <1>5, <1>6, <2>1 DEF WType, b
  <1>7. CASE ~siteCache[n].live
    <2>1. w' = w
      BY <1>3, <1>7
    <2> QED
      BY <1>4, <1>7, <2>1, PartsKept
  <1> QED
    BY <1>6, <1>7

\* A write of the reconcile, or none: it changes neither the life nor the intent of
\* a site, and the cache falls behind with it.
OwnStep ==
    /\ SiteType'
    /\ \A n \in Names : site'[n].live = site[n].live /\ site'[n].intent = site[n].intent
    /\ behind \subseteq behind'
    /\ \A n \in Names \ behind' : n \notin behind /\ site'[n] = site[n]

LEMMA DeriveFacts ==
    ASSUME SiteType, WType, EsDerive
    PROVE  /\ WType' /\ w.n \in Names /\ w.todo # <<>> /\ Head(w.todo) = "derive"
           /\ w'.n = w.n /\ w'.es.intent = w.es.intent /\ w'.old = w.old
           /\ w'.todo = Tail(w.todo)
           /\ OwnStep
           /\ \A n \in Names : site'[n].fresh => site[n].fresh
  <1>1. w.n \in Names /\ w.todo # <<>> /\ Head(w.todo) = "derive" /\ UNCHANGED siteCache
    BY WChange DEF EsDerive
  <1>2. CASE StepDone /\ UNCHANGED <<site, behind>>
    <2>1. /\ WType' /\ w'.n = w.n /\ w'.es.intent = w.es.intent /\ w'.old = w.old
          /\ w'.todo = Tail(w.todo)
      BY <1>1, <1>2, WChange DEF StepDone, WType
    <2> QED
      BY <1>1, <1>2, <2>1, PartsKept DEF OwnStep
  <1>3. CASE /\ WriteSite([site[w.n] EXCEPT !.derived = TRUE, !.fresh = FALSE])
             /\ w' = [w EXCEPT !.es.derived = TRUE, !.todo = Tail(@)]
    <2>1. /\ WType' /\ w'.n = w.n /\ w'.es.intent = w.es.intent /\ w'.old = w.old
          /\ w'.todo = Tail(w.todo)
      BY <1>1, <1>3, WChange DEF WType
    <2> DEFINE es == [site[w.n] EXCEPT !.derived = TRUE, !.fresh = FALSE]
    <2>2. es \in Site /\ es.live = site[w.n].live /\ ~es.fresh /\ es.intent = site[w.n].intent
      <3>1. site[w.n] \in Site /\ site[w.n].intent \in Intent
        BY <1>1 DEF SiteType, Site
      <3> QED
        BY <3>1, SiteVersions
    <2>3. WriteSite(es)
      BY <1>3
    <2> HIDE DEF es
    <2>4. OwnStep /\ \A n \in Names : site'[n].fresh => site[n].fresh
      BY <1>1, <2>2, <2>3, OwnWrite DEF OwnStep
    <2> QED
      BY <1>1, <2>1, <2>4
  <1> QED
    BY <1>2, <1>3 DEF EsDerive

LEMMA FinishFacts ==
    ASSUME SiteType, WType, QueueType, EsFinish
    PROVE  /\ WType' /\ QueueType' /\ w.n \in Names /\ w.todo = <<>> /\ w'.n = NoName
           /\ OwnStep
           /\ queue \subseteq queue'
           /\ \A n \in Names : site'[n].fresh => site[n].fresh \/ (n = w.n /\ ~w.old)
           /\ w.old => w.n \in queue'
  <1>1. w.n \in Names /\ w.todo = <<>> /\ UNCHANGED <<siteCache, events>>
    BY DEF EsFinish, WType, WOK, WState
  <1>2. w' = IdleW /\ w'.n = NoName /\ WType'
    BY WChange DEF EsFinish, WType
  <1>3. CASE /\ WriteSite([site[w.n] EXCEPT !.phase = "Deploying", !.fresh = TRUE])
             /\ UNCHANGED queue
    <2> DEFINE es == [site[w.n] EXCEPT !.phase = "Deploying", !.fresh = TRUE]
    <2>1. es \in Site /\ es.live = site[w.n].live /\ es.intent = site[w.n].intent
      <3>1. site[w.n] \in Site /\ site[w.n].intent \in Intent
        BY <1>1 DEF SiteType, Site
      <3> QED
        BY <3>1, SiteVersions
    <2>2. WriteSite(es) /\ ~w.old
      BY <1>3 DEF WriteSite
    <2> HIDE DEF es
    <2>3. /\ OwnStep
          /\ \A n \in Names : site'[n].fresh => site[n].fresh \/ (n = w.n /\ ~w.old)
      BY <1>1, <2>1, <2>2, OwnWrite DEF OwnStep
    <2>4. QueueType' /\ queue \subseteq queue'
      BY <1>1, <1>3, PartsKept
    <2> QED
      BY <1>1, <1>2, <2>2, <2>3, <2>4
  <1>4. CASE w.old /\ queue' = queue \cup {w.n} /\ UNCHANGED <<site, behind>>
    <2>1. OwnStep
      BY <1>1, <1>4, PartsKept DEF OwnStep
    <2>2. QueueType'
      BY <1>1, <1>4 DEF QueueType
    <2> QED
      BY <1>1, <1>2, <1>4, <2>1, <2>2
  <1> QED
    BY <1>3, <1>4 DEF EsFinish

LEMMA PutFacts ==
    ASSUME FileType, WType, EsPut
    PROVE  /\ FileType' /\ WType' /\ w.n \in Names /\ w.todo # <<>> /\ Head(w.todo) \in Paths
           /\ w'.n = w.n /\ w'.es = w.es /\ w'.old = w.old /\ w'.todo = Tail(w.todo)
           /\ deployRepo(w.n, w.es.intent) \in Repos
           /\ \A r \in Repos, p \in Paths : files'[<<r, p>>] =
                 IF r = deployRepo(w.n, w.es.intent) /\ p = Head(w.todo)
                 THEN Manifest(w.n, w.es.intent, p) ELSE files[<<r, p>>]
  <1> DEFINE r == deployRepo(w.n, w.es.intent)
             p == Head(w.todo)
             m == Manifest(w.n, w.es.intent, p)
  <1>1. /\ w.n \in Names /\ w.todo # <<>> /\ p \in Paths /\ WType'
        /\ w'.n = w.n /\ w'.es = w.es /\ w'.old = w.old /\ w'.todo = Tail(w.todo)
    BY WChange DEF EsPut, StepDone, WType
  <1>2. w.es.intent \in Intent
    BY WChange
  <1>3. r \in Repos /\ m \in [site : Names \cup {NoName}, ran : RanModes]
    BY <1>1, <1>2 DEF deployRepo, Repos, Manifest, Intent, RanModes
  <1>4. files' = [files EXCEPT ![<<r, p>>] = m] /\ UNCHANGED repos
    BY DEF EsPut
  <1> HIDE DEF r, m
  <1>5. FileType'
    BY <1>1, <1>3, <1>4 DEF FileType
  <1>6. \A s \in Repos, q \in Paths :
           files'[<<s, q>>] = IF s = r /\ q = p THEN m ELSE files[<<s, q>>]
    BY <1>1, <1>3, <1>4 DEF FileType
  <1>7. p \in Paths /\ m = Manifest(w.n, w.es.intent, p)
    BY <1>1 DEF m
  <1> QED
    BY <1>1, <1>3, <1>5, <1>6, <1>7 DEF r

LEMMA ApplyStepFacts ==
    ASSUME ChildType, QueueType, WType, EsApply
    PROVE  /\ ChildType' /\ QueueType' /\ WType' /\ w.n \in Names /\ w.todo # <<>>
           /\ Head(w.todo) \in PackageVariants \cup Claims \cup Typed
           /\ w'.n = w.n /\ w'.es = w.es /\ w'.old = w.old /\ w'.todo = Tail(w.todo)
           /\ events \subseteq events'
           /\ Key(w.n, w.es.intent, Head(w.todo)) \in Keys
           /\ child'[Key(w.n, w.es.intent, Head(w.todo))].live
           /\ \A k \in Keys : k # Key(w.n, w.es.intent, Head(w.todo)) => child'[k] = child[k]
           /\ \A k \in Keys : child'[k] = child[k] \/ child'[k].owner = w.n
  <1>1. /\ w.n \in Names /\ w.todo # <<>> /\ WType' /\ w.es \in SiteCopy
        /\ w'.n = w.n /\ w'.es = w.es /\ w'.old = w.old /\ w'.todo = Tail(w.todo)
    BY WChange DEF EsApply, StepDone, WType, WOK, WState
  <1> QED
    BY <1>1, ApplyFacts DEF EsApply
\* What the users write.
LEMMA UserFacts ==
    ASSUME SiteType, WType, BoundsType, NEW n \in Names,
           \/ UserDelete(n)
           \/ \E i \in Intents : UserCreate(n, i) \/ UserEdit(n, i)
    PROVE  /\ SiteType' /\ WType' /\ BoundsType'
           /\ \A m \in Names \ {n} : site'[m] = site[m]
           /\ ~site'[n].fresh
           /\ behind' = behind \cup {n}
           /\ w'.n = w.n /\ w'.es = w.es /\ w'.todo = w.todo
           /\ w.n = n => w'.old
           /\ w.n # n => w'.old = w.old
           /\ UNCHANGED <<siteCache, child, files, repos, queue, events>>
  <1>1. PICK es \in Site : Edit(n, es) /\ ~es.fresh
    <2>1. site[n] \in Site /\ \A i \in Intents : i \in Intent
      BY IntentsAssumption DEF SiteType
    <2>2. CASE UserDelete(n)
      <3>1. NoSite(site[n].uid) \in Site /\ ~NoSite(site[n].uid).fresh
        <4>1. site[n].intent \in Intent
          BY <2>1 DEF Site
        <4> QED
          BY <2>1, <4>1, SiteVersions
      <3> QED
        BY <2>2, <3>1 DEF UserDelete
    <2>3. ASSUME NEW i \in Intents, UserCreate(n, i)
          PROVE  \E es \in Site : Edit(n, es) /\ ~es.fresh
      <3> DEFINE es == [NoSite(site[n].uid + 1) EXCEPT !.live = TRUE, !.intent = i]
      <3>1. es \in Site /\ ~es.fresh
        BY <2>1, SiteVersions
      <3>2. Edit(n, es)
        BY <2>3 DEF UserCreate
      <3> HIDE DEF es
      <3> QED
        BY <3>1, <3>2
    <2>4. ASSUME NEW i \in Intents, UserEdit(n, i)
          PROVE  \E es \in Site : Edit(n, es) /\ ~es.fresh
      <3> DEFINE es == [site[n] EXCEPT !.intent = i, !.fresh = FALSE]
      <3>1. es \in Site /\ ~es.fresh
        BY <2>1, SiteVersions
      <3>2. Edit(n, es)
        BY <2>4 DEF UserEdit
      <3> HIDE DEF es
      <3> QED
        BY <3>1, <3>2
    <2> QED
      BY <2>2, <2>3, <2>4
  <1> QED
    BY <1>1, EditFacts

LEMMA OpenFacts ==
    ASSUME SiteType, WType, FileType, NEW n \in Names, OpenRepo(n)
    PROVE  /\ SiteType' /\ WType' /\ FileType'
           /\ behind' \in {behind, behind \cup {n}}
           /\ w'.n = w.n /\ w'.es = w.es /\ w'.todo = w.todo
           /\ w'.old = w.old \/ (w.n = n /\ w'.old)
           /\ UNCHANGED <<site, siteCache, child, files, queue, events>>
  <1>1. UNCHANGED <<site, siteCache, child, files, queue, events>> /\ repos' = repos \cup {n}
    BY DEF OpenRepo
  <1>2. FileType'
    BY <1>1 DEF FileType, Repos
  <1>3. CASE Touch(n)
    <2>1. SiteType'
      BY <1>1, <1>3, TouchFacts DEF SiteType
    <2> QED
      BY <1>1, <1>2, <1>3, <2>1, TouchFacts
  <1>4. CASE UNCHANGED <<behind, w>>
    BY <1>1, <1>2, <1>4, PartsKept
  <1> QED
    BY <1>3, <1>4 DEF OpenRepo

LEMMA GCFacts ==
    ASSUME ChildType, QueueType, NEW k \in Keys, GC(k)
    PROVE  /\ ChildType' /\ QueueType' /\ events \subseteq events'
           /\ child[k].live /\ ~child'[k].live
           /\ \A j \in Keys \ {k} : child'[j] = child[j]
           /\ k[1] \in PackageVariants => child[k].owner \in events'
           /\ UNCHANGED <<site, siteCache, behind, files, repos, w, queue>>
  <1>1. /\ child[k].live /\ child' = [child EXCEPT ![k] = NoChild]
        /\ events' = IF k[1] \in Watched THEN events \cup {child[k].owner} ELSE events
        /\ UNCHANGED <<site, siteCache, behind, files, repos, w, queue>>
    BY DEF GC, Orphan
  <1>2. child[k].owner \in Names
    BY <1>1 DEF ChildType, ChildOK
  <1>3. NoChild \in Child /\ ~NoChild.live
    BY DEF NoChild, Child
  <1>4. ChildType' /\ ~child'[k].live /\ \A j \in Keys \ {k} : child'[j] = child[j]
    BY <1>1, <1>3 DEF ChildType, ChildOK
  <1>5. QueueType' /\ events \subseteq events'
    BY <1>1, <1>2 DEF QueueType
  <1>6. k[1] \in PackageVariants => child[k].owner \in events'
    BY <1>1 DEF Watched
  <1> QED
    BY <1>1, <1>4, <1>5, <1>6

LEMMA SiteEventType ==
    ASSUME SiteType, QueueType, NEW n \in Names, SiteEvent(n)
    PROVE  SiteType' /\ QueueType'
  <1>1. Read(site[n]) \in SiteCopy
    BY DEF SiteType, Site, Read, SiteCopy
  <1> QED
    BY <1>1 DEF SiteEvent, SiteType, QueueType

LEMMA RestartFacts ==
    ASSUME SiteType, WType, QueueType, Restart
    PROVE  /\ SiteType' /\ WType' /\ QueueType' /\ w'.n = NoName
           /\ site' = site /\ behind' = {} /\ UNCHANGED <<child, files, repos>>
  <1>1. \A n \in Names : Read(site[n]) \in SiteCopy
    BY DEF SiteType, Site, Read, SiteCopy
  <1>2. w' = IdleW /\ w'.n = NoName /\ WType'
    BY WChange DEF Restart, WType
  <1>3. SiteType' /\ QueueType'
    BY <1>1 DEF Restart, SiteType, QueueType
  <1> QED
    BY <1>2, <1>3 DEF Restart

LEMMA NextType == TypeInv /\ [Next]_vars => TypeInv'
  <1> SUFFICES ASSUME SiteType, ChildType, FileType, WType, QueueType, BoundsType, [Next]_vars
               PROVE  SiteType' /\ ChildType' /\ FileType' /\ WType' /\ QueueType' /\ BoundsType'
    BY DEF TypeInv
  <1> USE PartsKept
  <1>1. CASE EsDerive
    BY <1>1, DeriveFacts DEF EsDerive, OwnStep
  <1>2. CASE EsApply
    BY <1>2, ApplyStepFacts DEF EsApply
  <1>3. CASE EsPut
    BY <1>3, PutFacts DEF EsPut
  <1>4. CASE EsStepError
    BY <1>4, FailedFacts DEF EsStepError, StepFailed
  <1>5. CASE EsFinish
    BY <1>5, FinishFacts DEF EsFinish, OwnStep
  <1>6. CASE EsStepFault
    BY <1>6, FailedFacts, FaultType DEF EsStepFault, StepFailed
  <1>7. ASSUME NEW n \in Names, EsGet(n)
        PROVE  SiteType' /\ ChildType' /\ FileType' /\ WType' /\ QueueType' /\ BoundsType'
    BY <1>7, GetFacts DEF EsGet
  <1>8. ASSUME NEW n \in Names, SiteEvent(n)
        PROVE  SiteType' /\ ChildType' /\ FileType' /\ WType' /\ QueueType' /\ BoundsType'
    BY <1>8, SiteEventType DEF SiteEvent
  <1>9. ASSUME NEW n \in Names, OwnedEvent(n)
        PROVE  SiteType' /\ ChildType' /\ FileType' /\ WType' /\ QueueType' /\ BoundsType'
    <2>1. QueueType'
      BY <1>9 DEF OwnedEvent, QueueType
    <2> QED
      BY <1>9, <2>1 DEF OwnedEvent
  <1>10. ASSUME NEW n \in Names, OpenRepo(n)
         PROVE  SiteType' /\ ChildType' /\ FileType' /\ WType' /\ QueueType' /\ BoundsType'
    BY <1>10, OpenFacts DEF OpenRepo
  <1>11. ASSUME NEW k \in Keys, GC(k)
         PROVE  SiteType' /\ ChildType' /\ FileType' /\ WType' /\ QueueType' /\ BoundsType'
    BY <1>11, GCFacts DEF GC
  <1>12. CASE Resync
    <2>1. QueueType'
      BY <1>12 DEF Resync, QueueType
    <2> QED
      BY <1>12, <2>1, FaultType DEF Resync
  <1>13. CASE Restart
    BY <1>13, RestartFacts, FaultType DEF Restart
  <1>14. ASSUME NEW n \in Names, UserDelete(n) \/ \E i \in Intents : UserCreate(n, i) \/ UserEdit(n, i)
         PROVE  SiteType' /\ ChildType' /\ FileType' /\ WType' /\ QueueType' /\ BoundsType'
    BY <1>14, UserFacts
  <1>15. CASE UNCHANGED vars
    BY <1>15 DEF vars
  <1> QED
    BY <1>1, <1>2, <1>3, <1>4, <1>5, <1>6, <1>7, <1>8, <1>9, <1>10, <1>11, <1>12, <1>13,
       <1>14, <1>15
       DEF Next, EsNext, EsStep, ClusterNext, UserNext

\* The controller, the collector and the users keep the types of all they write, and
\* a reconcile that has steps to do is for a site, for any sequence of IPClaims.
THEOREM EdgeTypeCorrect == Spec => []TypeOK
  BY InitType, NextType, TypeParts, PTL DEF Spec
-----------------------------------------------------------------------------
(* The steps done, and what was read *)

EdgeInv ==
    /\ TypeInv /\ TodoInv /\ CopyInv /\ PutInv /\ GnbBacked /\ DeliveredInv
    /\ OwnerInv /\ AppliedInv /\ NoticedInv

WSame == w'.n = w.n /\ w'.es.intent = w.es.intent /\ w'.todo = w.todo
WTail ==
    /\ w.todo # <<>> /\ w.n \in Names
    /\ w'.n = w.n /\ w'.es.intent = w.es.intent /\ w'.todo = Tail(w.todo)

LEMMA TodoSame ==
    ASSUME TodoInv, WSame
    PROVE  TodoInv' /\ Done' = Done
  BY DEF TodoInv, Done, WSame

LEMMA TodoTail ==
    ASSUME WType, TodoInv, WTail
    PROVE  TodoInv' /\ Done' = Done \cup {Head(w.todo)}
  <1>1. w.todo \in Seq(AllSteps) /\ Full(w.es.intent) \in Seq(AllSteps)
    BY WChange, StepsOrdered
  <1>2. w.todo # <<>> /\ Rest(w.todo, Full(w.es.intent))
    BY NoNameAssumption DEF WTail, TodoInv
  <1>3. /\ Rest(Tail(w.todo), Full(w.es.intent))
        /\ Before(Tail(w.todo), Full(w.es.intent))
             = Before(w.todo, Full(w.es.intent)) \cup {Head(w.todo)}
    BY <1>1, <1>2, RestTail
  <1> QED
    BY <1>3 DEF TodoInv, Done, WTail

LEMMA TodoGet ==
    ASSUME SiteType, WType, QueueType, TodoInv, NEW n \in Names, EsGet(n)
    PROVE  TodoInv' /\ (w'.n # NoName => Done' = {})
  <1>1. CASE w' = w
    BY <1>1, GetFacts DEF TodoInv
  <1>2. CASE w'.n = n /\ w'.es = siteCache[n] /\ w'.todo = Full(siteCache[n].intent)
    <2>1. Full(siteCache[n].intent) \in Seq(AllSteps)
      BY StepsOrdered DEF SiteType, SiteCopy
    <2>2. w'.es.intent = siteCache[n].intent
      BY <1>2
    <2> QED
      BY <1>2, <2>1, <2>2, RestStart DEF TodoInv, Done
  <1> QED
    BY <1>1, <1>2, GetFacts

\* At the end everything is done.
LEMMA TodoEnd ==
    ASSUME WType, w.todo = <<>>
    PROVE  StepSet(w.es.intent) \subseteq Done
  <1>1. w.es.intent \in Intent /\ Full(w.es.intent) \in Seq(AllSteps)
    BY WChange, StepsOrdered
  <1> QED
    BY <1>1, RestEnd, FullSet DEF Done

\* Everything a step can do to the reconcile.
LEMMA WMoves ==
    ASSUME TypeInv, [Next]_vars
    PROVE  \/ w'.n = NoName
           \/ WSame
           \/ WTail
           \/ \E n \in Names : EsGet(n)
  <1> USE DEF TypeInv
  <1>1. CASE EsDerive
    BY <1>1, DeriveFacts DEF WTail
  <1>2. CASE EsApply
    BY <1>2, ApplyStepFacts DEF WTail
  <1>3. CASE EsPut
    BY <1>3, PutFacts DEF WTail
  <1>4. CASE EsStepError \/ EsStepFault
    BY <1>4, FailedFacts DEF EsStepError, EsStepFault
  <1>5. CASE EsFinish
    BY <1>5, FinishFacts
  <1>6. ASSUME NEW n \in Names, OpenRepo(n)
        PROVE  WSame
    BY <1>6, OpenFacts DEF WSame
  <1>7. CASE Restart
    BY <1>7, RestartFacts
  <1>8. ASSUME NEW n \in Names, UserDelete(n) \/ \E i \in Intents : UserCreate(n, i) \/ UserEdit(n, i)
        PROVE  WSame
    BY <1>8, UserFacts DEF WSame
  <1>9. CASE UNCHANGED w
    BY <1>9 DEF WSame
  <1>10. CASE ClusterNext
    BY <1>6, <1>7, <1>9, <1>10 DEF ClusterNext, SiteEvent, OwnedEvent, GC, Resync
  <1> QED
    BY <1>1, <1>2, <1>3, <1>4, <1>5, <1>8, <1>9, <1>10 DEF Next, EsNext, EsStep, UserNext, vars

LEMMA NextTodo ==
    ASSUME TypeInv, TodoInv, [Next]_vars
    PROVE  TodoInv'
  <1>1. CASE w'.n = NoName
    BY <1>1 DEF TodoInv
  <1> QED
    BY <1>1, WMoves, TodoSame, TodoTail, TodoGet DEF TypeInv

\* A step of the reconcile that writes at most its own site.
LEMMA CopyOwn ==
    ASSUME SiteType, CopyInv, OwnStep, UNCHANGED siteCache,
           \A n \in Names : Current(n)' => Current(n),
           \A n \in Names : w'.n = n => w.n = n /\ w'.es.intent = w.es.intent
    PROVE  CopyInv'
  BY DEF CopyInv, OwnStep

LEMMA NextCopy ==
    ASSUME TypeInv, CopyInv, [Next]_vars
    PROVE  CopyInv'
  <1> USE DEF TypeInv
  <1>1. CASE EsDerive
    <2>1. UNCHANGED siteCache
      BY <1>1 DEF EsDerive
    <2> QED
      BY <1>1, <2>1, DeriveFacts, CopyOwn DEF Current
  <1>2. ASSUME UNCHANGED <<site, siteCache, behind>>, w'.n = w.n, w'.es = w.es, w'.old = w.old
        PROVE  CopyInv'
    BY <1>2 DEF CopyInv, Current
  <1>3. CASE EsApply
    BY <1>2, <1>3, ApplyStepFacts DEF EsApply
  <1>4. CASE EsPut
    BY <1>2, <1>4, PutFacts DEF EsPut
  <1>5. CASE EsStepError \/ EsStepFault
    <2>1. OwnStep /\ UNCHANGED siteCache
      BY <1>5, FailedFacts DEF EsStepError, EsStepFault, OwnStep, StepFailed
    <2>2. w'.n = NoName /\ \A n \in Names : site'[n].fresh = site[n].fresh
      BY <1>5, FailedFacts DEF EsStepError, EsStepFault
    <2> QED
      BY <2>1, <2>2, CopyOwn, NoNameAssumption DEF Current
  <1>6. CASE EsFinish
    <2>1. UNCHANGED siteCache
      BY <1>6 DEF EsFinish
    <2> QED
      BY <1>6, <2>1, FinishFacts, CopyOwn, NoNameAssumption DEF Current
  <1>7. ASSUME NEW n \in Names, EsGet(n)
        PROVE  CopyInv'
    <2>1. UNCHANGED <<site, siteCache, behind>>
      BY <1>7 DEF EsGet
    <2>2. CASE w' = w
      BY <1>2, <2>1, <2>2
    <2>3. CASE w'.n = n /\ w'.es = siteCache[n] /\ (w'.old <=> n \in behind) /\ siteCache[n].live
      <3>1. n \notin behind => /\ siteCache[n].live = site[n].live
                               /\ siteCache[n].intent = site[n].intent
        BY ReadFacts DEF CopyInv
      <3> QED
        BY <2>1, <2>3, <3>1 DEF CopyInv, Current
    <2> QED
      BY <1>7, <2>2, <2>3, GetFacts
  <1>8. ASSUME NEW n \in Names, SiteEvent(n)
        PROVE  CopyInv'
    <2>1. /\ \A m \in Names : siteCache'[m] = IF m = n THEN Read(site[n]) ELSE siteCache[m]
          /\ behind' = behind \ {n} /\ UNCHANGED <<site, w>>
      BY <1>8 DEF SiteEvent, SiteType
    <2>2. Read(site[n]).live = site[n].live /\ Read(site[n]).intent = site[n].intent
      BY ReadFacts
    <2> QED
      BY <2>1, <2>2 DEF CopyInv, Current
  <1>9. ASSUME NEW n \in Names, OpenRepo(n)
        PROVE  CopyInv'
    BY <1>9, OpenFacts DEF CopyInv, Current
  <1>10. CASE Restart
    <2>1. /\ UNCHANGED site /\ w'.n = NoName
          /\ \A n \in Names : siteCache'[n] = Read(site[n])
      <3>1. w'.n = NoName
        BY <1>10, RestartFacts
      <3> QED
        BY <1>10, <3>1 DEF Restart
    <2>2. \A n \in Names : /\ Read(site[n]).live = site[n].live
                           /\ Read(site[n]).intent = site[n].intent
      BY ReadFacts
    <2> QED
      BY <2>1, <2>2, NoNameAssumption DEF CopyInv, Current
  <1>11. ASSUME NEW n \in Names, UserDelete(n) \/ \E i \in Intents : UserCreate(n, i) \/ UserEdit(n, i)
         PROVE  CopyInv'
    <2>1. /\ \A m \in Names \ {n} : site'[m] = site[m]
          /\ ~site'[n].fresh /\ behind' = behind \cup {n}
          /\ w'.n = w.n /\ w'.es = w.es /\ UNCHANGED siteCache
          /\ w.n = n => w'.old
          /\ w.n # n => w'.old = w.old
      BY <1>11, UserFacts
    <2>2. ~Current(n)' /\ \A m \in Names \ {n} : Current(m)' => Current(m)
      BY <2>1 DEF Current
    <2> QED
      BY <2>1, <2>2 DEF CopyInv
  <1>12. CASE UNCHANGED <<site, siteCache, behind, w>>
    BY <1>2, <1>12
  <1>13. CASE ClusterNext
    BY <1>8, <1>9, <1>10, <1>12, <1>13 DEF ClusterNext, OwnedEvent, GC, Resync
  <1> QED
    BY <1>1, <1>3, <1>4, <1>5, <1>6, <1>7, <1>11, <1>12, <1>13
       DEF Next, EsNext, EsStep, UserNext, vars
-----------------------------------------------------------------------------
(* Manifests *)

\* The manifest of a site is one, and says of which gNB it is.
LEMMA ManifestFacts ==
    ASSUME NEW n \in Names, NEW i \in Intent, NEW p \in Paths
    PROVE  /\ Manifest(n, i, p) # NoFile
           /\ p = "ran/deployment" => Manifest(n, i, p).ran = i.ran
  BY NoNameAssumption DEF Manifest, NoFile, RanPaths

LEMMA MountsArePaths ==
    ASSUME NEW m
    PROVE  Mounts(m) \subseteq Paths
  BY DEF Mounts, Paths, RanPaths

LEMMA PutStep ==
    ASSUME TypeInv, TodoInv, CopyInv, PutInv, GnbBacked, DeliveredInv, EsPut
    PROVE  PutInv' /\ GnbBacked' /\ DeliveredInv'
  <1> USE DEF TypeInv
  <1> DEFINE r == deployRepo(w.n, w.es.intent)
             q == Head(w.todo)
             i == w.es.intent
  <1>1. /\ w.n \in Names /\ w.todo # <<>> /\ q \in Paths /\ r \in Repos
        /\ w'.n = w.n /\ w'.es = w.es /\ w'.todo = Tail(w.todo)
        /\ i \in Intent /\ w.todo \in Seq(AllSteps)
    BY PutFacts, WChange
  <1>2. \A s \in Repos, p \in Paths : files'[<<s, p>>] =
           IF s = r /\ p = q THEN Manifest(w.n, i, p) ELSE files[<<s, p>>]
    BY PutFacts
  <1>3. WTail
    BY <1>1 DEF WTail
  <1>4. Done' = Done \cup {q}
    BY <1>3, TodoTail
  <1>5. PutInv'
    <2> SUFFICES ASSUME NEW p \in Paths, p \in Done'
                 PROVE  files'[<<r, p>>] = Manifest(w.n, i, p)
      BY <1>1 DEF PutInv
    <2>1. CASE p = q
      BY <1>1, <1>2, <2>1
    <2>2. CASE p # q
      BY <1>1, <1>2, <1>4, <2>2, NoNameAssumption DEF PutInv
    <2> QED
      BY <2>1, <2>2
  <1>6. \A p \in Paths : Manifest(w.n, i, p) # NoFile
    BY <1>1, ManifestFacts
  <1>7. \A s \in Repos, p \in Paths : files[<<s, p>>] # NoFile => files'[<<s, p>>] # NoFile
    BY <1>2, <1>6
  <1>8. GnbBacked'
    <2> SUFFICES ASSUME NEW s \in Repos, files'[<<s, "ran/deployment">>] # NoFile,
                        NEW p \in Mounts(files'[<<s, "ran/deployment">>].ran)
                 PROVE  files'[<<s, p>>] # NoFile
      BY DEF GnbBacked
    <2>1. p \in Paths /\ "ran/deployment" \in Paths
      BY MountsArePaths DEF Paths, RanPaths
    <2>2. CASE s = r /\ q = "ran/deployment"
      <3>1. files'[<<s, "ran/deployment">>].ran = i.ran
        BY <1>1, <1>2, <2>1, <2>2, ManifestFacts
      <3>2. Full(i) \in Seq(AllSteps) /\ Ordered(Full(i), Mounts(i.ran), q)
        BY <1>1, <2>2, StepsOrdered
      <3>3. Rest(w.todo, Full(i))
        BY <1>1, NoNameAssumption DEF TodoInv
      <3>4. p \in Done
        BY <1>1, <3>1, <3>2, <3>3, RestOrdered DEF Done
      <3>5. files[<<r, p>>] # NoFile
        BY <1>1, <1>6, <2>1, <3>4, NoNameAssumption DEF PutInv
      <3> QED
        BY <1>1, <1>7, <2>1, <2>2, <3>5
    <2>3. CASE ~(s = r /\ q = "ran/deployment")
      <3>1. files'[<<s, "ran/deployment">>] = files[<<s, "ran/deployment">>]
        BY <1>2, <2>1, <2>3
      <3>2. files[<<s, p>>] # NoFile
        BY <3>1 DEF GnbBacked
      <3> QED
        BY <1>7, <2>1, <3>2
    <2> QED
      BY <2>2, <2>3
  <1>9. DeliveredInv'
    <2>1. UNCHANGED site
      BY DEF EsPut
    <2> SUFFICES ASSUME NEW n \in Names, site[n].fresh, ~site[n].intent.colocated,
                        NEW p \in Paths, p \in StepSet(site[n].intent)
                 PROVE  files'[<<n, p>>] = Manifest(n, site[n].intent, p)
      BY <2>1 DEF DeliveredInv
    <2>2. files[<<n, p>>] = Manifest(n, site[n].intent, p)
      BY DEF DeliveredInv
    <2>3. n \in Repos
      BY DEF Repos
    <2>4. CASE n = r
      <3>1. n = w.n
        BY <2>4, NamesAssumption DEF deployRepo
      <3>2. i = site[n].intent
        BY <3>1 DEF CopyInv, Current
      <3> QED
        BY <1>2, <2>2, <2>3, <3>1, <3>2
    <2>5. CASE n # r
      BY <1>2, <2>2, <2>3, <2>5
    <2> QED
      BY <2>4, <2>5
  <1> QED
    BY <1>5, <1>8, <1>9

\* A step that puts nothing, and makes no site complete, keeps the rest.
LEMMA FilesKept ==
    ASSUME TypeInv, TodoInv, PutInv, GnbBacked, DeliveredInv, UNCHANGED files
    PROVE  /\ GnbBacked'
           /\ w'.n = NoName \/ WSame => PutInv'
           /\ WTail /\ Head(w.todo) \notin Paths => PutInv'
           /\ (\A n \in Names : site'[n].fresh => site[n].fresh /\ site'[n].intent = site[n].intent)
                 => DeliveredInv'
  <1>1. GnbBacked'
    BY DEF GnbBacked
  <1>2. w'.n = NoName => PutInv'
    BY DEF PutInv
  <1>3. ASSUME WSame PROVE PutInv'
    BY <1>3, TodoSame DEF WSame, PutInv
  <1>4. ASSUME WTail, Head(w.todo) \notin Paths PROVE PutInv'
    <2>1. Done' = Done \cup {Head(w.todo)}
      BY <1>4, TodoTail DEF TypeInv
    <2> QED
      BY <1>4, <2>1 DEF WTail, PutInv
  <1>5. ASSUME \A n \in Names : site'[n].fresh => site[n].fresh /\ site'[n].intent = site[n].intent
        PROVE  DeliveredInv'
    BY <1>5 DEF DeliveredInv
  <1> QED
    BY <1>1, <1>2, <1>3, <1>4, <1>5

LEMMA NextFiles ==
    ASSUME TypeInv, TodoInv, CopyInv, PutInv, GnbBacked, DeliveredInv, [Next]_vars
    PROVE  PutInv' /\ GnbBacked' /\ DeliveredInv'
  <1> USE DEF TypeInv
  <1>0. \A st : st \in PackageVariants \cup Claims \cup Typed \cup {"derive"} => st \notin Paths
    BY ClaimsAssumption DEF PackageVariants, Typed, Paths, RanPaths
  <1>1. CASE EsDerive
    <2>1. UNCHANGED files /\ WTail /\ Head(w.todo) \notin Paths
      BY <1>0, <1>1, DeriveFacts DEF EsDerive, WTail
    <2> QED
      BY <1>1, <2>1, DeriveFacts, FilesKept DEF OwnStep
  <1>2. CASE EsApply
    <2>1. UNCHANGED <<files, site>> /\ WTail /\ Head(w.todo) \notin Paths
      BY <1>0, <1>2, ApplyStepFacts DEF EsApply, WTail
    <2> QED
      BY <2>1, FilesKept
  <1>3. CASE EsPut
    BY <1>3, PutStep
  <1>4. CASE EsStepError \/ EsStepFault
    <2>1. UNCHANGED files /\ w'.n = NoName
      BY <1>4, FailedFacts DEF EsStepError, EsStepFault, StepFailed
    <2>2. \A n \in Names : site'[n].fresh = site[n].fresh /\ site'[n].intent = site[n].intent
      BY <1>4, FailedFacts DEF EsStepError, EsStepFault
    <2> QED
      BY <2>1, <2>2, FilesKept
  <1>5. CASE EsFinish
    <2>1. UNCHANGED files /\ w'.n = NoName
      BY <1>5, FinishFacts DEF EsFinish
    <2>2. DeliveredInv'
      <3> SUFFICES ASSUME NEW n \in Names, site'[n].fresh, ~site'[n].intent.colocated,
                          NEW p \in Paths, p \in StepSet(site'[n].intent)
                   PROVE  files[<<n, p>>] = Manifest(n, site'[n].intent, p)
        BY <2>1 DEF DeliveredInv
      <3>1. site'[n].intent = site[n].intent /\ (site[n].fresh \/ (n = w.n /\ ~w.old))
        BY <1>5, FinishFacts DEF OwnStep
      <3>2. CASE site[n].fresh
        BY <3>1, <3>2 DEF DeliveredInv
      <3>3. CASE n = w.n /\ ~w.old
        <4>1. w.es.intent = site[n].intent
          BY <3>3 DEF CopyInv, Current
        <4>2. p \in Done
          BY <1>5, <3>1, <4>1, FinishFacts, TodoEnd
        <4>3. deployRepo(w.n, w.es.intent) = n
          BY <3>1, <3>3, <4>1 DEF deployRepo
        <4>4. w.n # NoName
          BY <3>3, NoNameAssumption
        <4> QED
          BY <3>1, <3>3, <4>1, <4>2, <4>3, <4>4 DEF PutInv
      <3> QED
        BY <3>1, <3>2, <3>3
    <2> QED
      BY <2>1, <2>2, FilesKept
  <1>6. ASSUME NEW n \in Names, EsGet(n)
        PROVE  PutInv' /\ GnbBacked' /\ DeliveredInv'
    <2>1. UNCHANGED <<files, site>>
      BY <1>6 DEF EsGet
    <2>2. PutInv'
      BY <1>6, TodoGet DEF PutInv
    <2> QED
      BY <2>1, <2>2, FilesKept
  <1>7. ASSUME NEW n \in Names, OpenRepo(n)
        PROVE  PutInv' /\ GnbBacked' /\ DeliveredInv'
    BY <1>7, OpenFacts, FilesKept DEF WSame
  <1>8. CASE Restart
    BY <1>8, RestartFacts, FilesKept
  <1>9. ASSUME NEW n \in Names, UserDelete(n) \/ \E i \in Intents : UserCreate(n, i) \/ UserEdit(n, i)
        PROVE  PutInv' /\ GnbBacked' /\ DeliveredInv'
    <2>1. /\ \A m \in Names \ {n} : site'[m] = site[m]
          /\ ~site'[n].fresh /\ WSame /\ UNCHANGED files
      BY <1>9, UserFacts DEF WSame
    <2> QED
      BY <2>1, FilesKept
  <1>10. CASE UNCHANGED <<files, site, w>>
    BY <1>10, FilesKept DEF WSame
  <1>11. CASE ClusterNext
    BY <1>7, <1>8, <1>10, <1>11 DEF ClusterNext, SiteEvent, OwnedEvent, GC, Resync
  <1> QED
    BY <1>1, <1>2, <1>3, <1>4, <1>5, <1>6, <1>9, <1>10, <1>11
       DEF Next, EsNext, EsStep, UserNext, vars
-----------------------------------------------------------------------------
(* PackageVariants *)

\* The keys of what a site emits: under its own name, or under that of the
\* management cluster, which is no site's.
LEMMA KeyFacts ==
    ASSUME NEW n \in Names, NEW i \in Intent, NEW st
    PROVE  /\ Key(n, i, st)[2] \in Names => Key(n, i, st)[2] = n
           /\ Own(i, st) => Key(n, i, st) = <<st, n>>
           /\ st \in PackageVariants => <<st, n>> \in Keys
           /\ st \in Paths \cup {"derive"} => ~Own(i, st)
  <1>1. i.colocated \in BOOLEAN
    BY DEF Intent
  <1>2. Key(n, i, st)[2] \in {n, Mgmt}
    BY DEF Key, deployRepo
  <1>3. Own(i, st) => Key(n, i, st) = <<st, n>>
    BY <1>1 DEF Own, Key, deployRepo
  <1>4. st \in PackageVariants => <<st, n>> \in Keys
    BY DEF Keys, Repos
  <1>5. st \in Paths \cup {"derive"} => ~Own(i, st)
    BY DEF Own, PackageVariants, Paths, RanPaths
  <1> QED
    BY <1>2, <1>3, <1>4, <1>5, NamesAssumption

WakeKept == \A n \in Names : Wake(n) => Wake(n)'
LiveKept == \A k \in Keys : child[k].live => child'[k].live
FreshKept ==
    \A n \in Names : site'[n].fresh => site[n].fresh /\ site'[n].intent = site[n].intent

LEMMA AppliedKept ==
    ASSUME TypeInv, TodoInv, AppliedInv, WakeKept, LiveKept,
           WSame \/ (WTail /\ ~Own(w.es.intent, Head(w.todo)))
    PROVE  AppliedInv'
  <1> SUFFICES ASSUME w'.n # NoName, NEW st \in Done', Own(w'.es.intent, st)
               PROVE  child'[<<st, w'.n>>].live \/ w'.n \in queue' \cup events' \cup behind'
    BY DEF AppliedInv, Wake
  <1>1. w'.n = w.n /\ w'.es.intent = w.es.intent
    BY DEF WSame, WTail
  <1>2. w.n \in Names /\ w.es.intent \in Intent
    BY <1>1, WChange DEF TypeInv, WType, WOK, WState
  <1>3. st \in Done
    BY <1>1, TodoSame, TodoTail DEF TypeInv
  <1>4. child[<<st, w.n>>].live \/ Wake(w.n)
    BY <1>1, <1>3 DEF AppliedInv
  <1>5. <<st, w.n>> \in Keys
    BY <1>1, <1>2, KeyFacts DEF Own
  <1> QED
    BY <1>1, <1>2, <1>4, <1>5 DEF WakeKept, Wake, LiveKept

LEMMA NoticedKept ==
    ASSUME TypeInv, NoticedInv, WakeKept, LiveKept, FreshKept,
           \A n \in Names : w.n = n => w'.n = n \/ Wake(n)'
    PROVE  NoticedInv'
  <1> SUFFICES ASSUME NEW n \in Names, site'[n].fresh,
                      NEW st \in StepSet(site'[n].intent), Own(site'[n].intent, st)
               PROVE  child'[<<st, n>>].live \/ Wake(n)' \/ w'.n = n
    BY DEF NoticedInv
  <1>1. site[n].fresh /\ site'[n].intent = site[n].intent
    BY DEF FreshKept
  <1>2. child[<<st, n>>].live \/ Wake(n) \/ w.n = n
    BY <1>1 DEF NoticedInv
  <1>3. <<st, n>> \in Keys
    BY DEF Own, Keys, Repos
  <1> QED
    BY <1>2, <1>3 DEF WakeKept, LiveKept

\* A step of the reconcile that does not end it.
LEMMA ApplyStep ==
    ASSUME TypeInv, TodoInv, OwnerInv, AppliedInv, NoticedInv, EsApply
    PROVE  OwnerInv' /\ AppliedInv' /\ NoticedInv'
  <1> USE DEF TypeInv
  <1> DEFINE st == Head(w.todo)
             k == Key(w.n, w.es.intent, st)
  <1>1. /\ w.n \in Names /\ w.todo # <<>> /\ w.es.intent \in Intent
        /\ w'.n = w.n /\ w'.es = w.es /\ w'.todo = Tail(w.todo)
        /\ events \subseteq events' /\ k \in Keys /\ child'[k].live
        /\ \A j \in Keys : j # k => child'[j] = child[j]
        /\ \A j \in Keys : child'[j] = child[j] \/ child'[j].owner = w.n
    BY ApplyStepFacts, WChange
  <1>2. UNCHANGED <<site, behind, queue>>
    BY DEF EsApply
  <1>3. WTail
    BY <1>1 DEF WTail
  <1>4. k[2] \in Names => k[2] = w.n
    BY <1>1, KeyFacts
  <1>5. Own(w.es.intent, st) => k = <<st, w.n>>
    BY <1>1, KeyFacts
  <1>6. Done' = Done \cup {st}
    BY <1>3, TodoTail
  <1> HIDE DEF k, st
  <1>7. OwnerInv'
    BY <1>1, <1>4 DEF OwnerInv
  <1>8. WakeKept /\ LiveKept /\ FreshKept
    BY <1>1, <1>2 DEF WakeKept, Wake, LiveKept, FreshKept
  <1>9. NoticedInv'
    BY <1>1, <1>8, NoticedKept
  <1>10. AppliedInv'
    <2> SUFFICES ASSUME NEW x \in Done', Own(w.es.intent, x)
                 PROVE  child'[<<x, w.n>>].live \/ Wake(w.n)'
      BY <1>1 DEF AppliedInv, Wake
    <2>1. CASE x = st
      BY <1>1, <1>5, <2>1
    <2>2. CASE x # st
      <3>1. child[<<x, w.n>>].live \/ Wake(w.n)
        BY <1>1, <1>6, <2>2, NoNameAssumption DEF AppliedInv
      <3>2. <<x, w.n>> \in Keys
        BY <1>1, KeyFacts DEF Own
      <3> QED
        BY <1>1, <1>8, <3>1, <3>2 DEF WakeKept, LiveKept
    <2> QED
      BY <2>1, <2>2
  <1> QED
    BY <1>7, <1>9, <1>10

\* The collector wakes the site under whose name it removes a PackageVariant.
LEMMA CollectStep ==
    ASSUME TypeInv, OwnerInv, AppliedInv, NoticedInv, NEW k \in Keys, GC(k)
    PROVE  OwnerInv' /\ AppliedInv' /\ NoticedInv'
  <1> USE DEF TypeInv
  <1>1. /\ events \subseteq events' /\ child[k].live /\ ~child'[k].live
        /\ \A j \in Keys \ {k} : child'[j] = child[j]
        /\ k[1] \in PackageVariants => child[k].owner \in events'
        /\ UNCHANGED <<site, behind, w, queue>>
    BY GCFacts
  <1>2. OwnerInv'
    BY <1>1 DEF OwnerInv
  <1>3. ASSUME NEW n \in Names, NEW st \in PackageVariants,
               child[<<st, n>>].live \/ Wake(n)
        PROVE  child'[<<st, n>>].live \/ Wake(n)'
    <2>1. <<st, n>> \in Keys
      BY DEF Keys, Repos
    <2>2. CASE Wake(n)
      BY <1>1, <2>2 DEF Wake
    <2>3. CASE child[<<st, n>>].live /\ <<st, n>> # k
      BY <1>1, <2>1, <2>3
    <2>4. CASE <<st, n>> = k
      <3>1. k[1] = st /\ k[2] = n
        BY <2>4
      <3>2. child[k].owner = n
        BY <1>1, <3>1 DEF OwnerInv
      <3> QED
        BY <1>1, <3>1, <3>2 DEF Wake
    <2> QED
      BY <1>3, <2>2, <2>3, <2>4
  <1>4. AppliedInv'
    <2>1. w.n # NoName => w.n \in Names
      BY DEF WType, WOK, WState
    <2>2. Done' = Done
      BY <1>1 DEF Done
    <2> QED
      BY <1>1, <1>3, <2>1, <2>2 DEF AppliedInv, Own, Wake
  <1>5. NoticedInv'
    BY <1>1, <1>3 DEF NoticedInv, Own
  <1> QED
    BY <1>2, <1>4, <1>5
\* The end of a reconcile, successful or not.
LEMMA EndStep ==
    ASSUME TypeInv, CopyInv, OwnerInv, AppliedInv, NoticedInv, w.n \in Names, w'.n = NoName,
           OwnStep, UNCHANGED <<child, events>>, queue \subseteq queue',
           \A n \in Names : site'[n].fresh => site[n].fresh \/ (n = w.n /\ ~w.old),
           w.todo = <<>> \/ w.n \in queue'
    PROVE  OwnerInv' /\ AppliedInv' /\ NoticedInv'
  <1>1. OwnerInv' /\ AppliedInv'
    BY DEF OwnerInv, AppliedInv
  <1>2. \A n \in Names : Wake(n) => Wake(n)'
    BY DEF Wake, OwnStep
  <1> SUFFICES ASSUME NEW n \in Names, site'[n].fresh,
                      NEW st \in StepSet(site'[n].intent), Own(site'[n].intent, st)
               PROVE  child[<<st, n>>].live \/ Wake(n)'
    BY <1>1 DEF NoticedInv
  <1>3. site'[n].intent = site[n].intent
    BY DEF OwnStep
  <1>4. CASE n # w.n
    BY <1>2, <1>3, <1>4 DEF NoticedInv
  <1>5. CASE n = w.n /\ w.n \in queue'
    BY <1>5 DEF Wake
  <1>6. CASE n = w.n /\ w.todo = <<>>
    <2>1. w.es.intent = site[n].intent
      BY <1>6 DEF CopyInv, Current
    <2>2. st \in Done
      BY <1>3, <1>6, <2>1, TodoEnd DEF TypeInv
    <2>3. child[<<st, n>>].live \/ Wake(n)
      BY <1>3, <1>6, <2>1, <2>2, NoNameAssumption DEF AppliedInv
    <2> QED
      BY <1>2, <2>3
  <1> QED
    BY <1>4, <1>5, <1>6

LEMMA NextVariants ==
    ASSUME TypeInv, TodoInv, CopyInv, OwnerInv, AppliedInv, NoticedInv, [Next]_vars
    PROVE  OwnerInv' /\ AppliedInv' /\ NoticedInv'
  <1> USE DEF TypeInv
  <1>0. ASSUME UNCHANGED child, WakeKept, FreshKept,
               WSame \/ (WTail /\ ~Own(w.es.intent, Head(w.todo)))
        PROVE  OwnerInv' /\ AppliedInv' /\ NoticedInv'
    <2>1. OwnerInv' /\ LiveKept
      BY <1>0 DEF OwnerInv, LiveKept
    <2>2. AppliedInv'
      BY <1>0, <2>1, AppliedKept
    <2>3. NoticedInv'
      BY <1>0, <2>1, NoticedKept DEF WSame, WTail
    <2> QED
      BY <2>1, <2>2, <2>3
  <1>1. CASE EsDerive
    <2>1. UNCHANGED <<child, queue, events>> /\ WTail /\ FreshKept /\ behind \subseteq behind'
      BY <1>1, DeriveFacts DEF EsDerive, WTail, FreshKept, OwnStep
    <2>2. ~Own(w.es.intent, Head(w.todo))
      BY <1>1, DeriveFacts, WChange, KeyFacts
    <2>3. WakeKept
      BY <2>1 DEF WakeKept, Wake
    <2> QED
      BY <1>0, <2>1, <2>2, <2>3
  <1>2. CASE EsApply
    BY <1>2, ApplyStep
  <1>3. CASE EsPut
    <2>1. UNCHANGED <<child, queue, events, site, behind>> /\ WTail
      BY <1>3, PutFacts DEF EsPut, WTail
    <2>2. ~Own(w.es.intent, Head(w.todo))
      BY <1>3, PutFacts, WChange, KeyFacts
    <2>3. WakeKept /\ FreshKept
      BY <2>1 DEF WakeKept, Wake, FreshKept
    <2> QED
      BY <1>0, <2>1, <2>2, <2>3
  <1>4. CASE EsStepError \/ EsStepFault
    <2>1. UNCHANGED <<child, events>> /\ w.todo # <<>> /\ StepFailed
      BY <1>4 DEF EsStepError, EsStepFault, StepFailed
    <2>2. /\ OwnStep /\ w'.n = NoName /\ w.n \in Names /\ queue' = queue \cup {w.n}
          /\ \A n \in Names : site'[n].fresh = site[n].fresh
      BY <2>1, FailedFacts DEF OwnStep
    <2> QED
      BY <2>1, <2>2, EndStep
  <1>5. CASE EsFinish
    <2>1. UNCHANGED <<child, events>>
      BY <1>5 DEF EsFinish
    <2> QED
      BY <1>5, <2>1, FinishFacts, EndStep
  <1>6. ASSUME NEW n \in Names, EsGet(n)
        PROVE  OwnerInv' /\ AppliedInv' /\ NoticedInv'
    <2>1. UNCHANGED <<child, events, site, siteCache, behind>>
      BY <1>6 DEF EsGet
    <2>2. w.n = NoName /\ queue' = queue \ {n}
      BY <1>6, GetFacts
    <2>3. OwnerInv'
      BY <2>1 DEF OwnerInv
    <2>4. AppliedInv'
      BY <1>6, TodoGet DEF AppliedInv
    <2>5. \A m \in Names \ {n} : Wake(m) => Wake(m)'
      BY <2>1, <2>2 DEF Wake
    <2>6. site[n].fresh => w'.n = n
      <3>1. site[n].fresh => siteCache[n].live
        BY DEF CopyInv, Current
      <3> QED
        BY <1>6, <3>1, GetFacts
    <2>7. NoticedInv'
      BY <2>1, <2>2, <2>5, <2>6, NoNameAssumption DEF NoticedInv
    <2> QED
      BY <2>3, <2>4, <2>7
  <1>7. ASSUME NEW n \in Names, SiteEvent(n) \/ OwnedEvent(n)
        PROVE  OwnerInv' /\ AppliedInv' /\ NoticedInv'
    <2>1. WakeKept /\ FreshKept /\ WSame /\ UNCHANGED child
      BY <1>7 DEF SiteEvent, OwnedEvent, WakeKept, Wake, FreshKept, WSame
    <2> QED
      BY <1>0, <2>1
  <1>8. ASSUME NEW n \in Names, OpenRepo(n)
        PROVE  OwnerInv' /\ AppliedInv' /\ NoticedInv'
    <2>1. WakeKept /\ FreshKept /\ WSame /\ UNCHANGED child
      BY <1>8, OpenFacts DEF WakeKept, Wake, FreshKept, WSame
    <2> QED
      BY <1>0, <2>1
  <1>9. ASSUME NEW k \in Keys, GC(k)
        PROVE  OwnerInv' /\ AppliedInv' /\ NoticedInv'
    BY <1>9, CollectStep
  <1>10. CASE Resync
    <2>1. WakeKept /\ FreshKept /\ WSame /\ UNCHANGED child
      BY <1>10 DEF Resync, WakeKept, Wake, FreshKept, WSame
    <2> QED
      BY <1>0, <2>1
  <1>11. CASE Restart
    <2>1. UNCHANGED <<child, site>> /\ w'.n = NoName
      BY <1>11, RestartFacts
    <2>2. \A n \in Names : site[n].fresh => Wake(n)'
      <3>1. \A n \in Names : site[n].fresh => site[n].live
        BY DEF CopyInv, Current
      <3>2. \A n \in Names : site[n].live => n \in queue'
        BY <1>11 DEF Restart
      <3> QED
        BY <3>1, <3>2 DEF Wake
    <2> QED
      BY <2>1, <2>2 DEF OwnerInv, AppliedInv, NoticedInv
  <1>12. ASSUME NEW n \in Names, UserDelete(n) \/ \E i \in Intents : UserCreate(n, i) \/ UserEdit(n, i)
         PROVE  OwnerInv' /\ AppliedInv' /\ NoticedInv'
    <2>1. /\ \A m \in Names \ {n} : site'[m] = site[m]
          /\ ~site'[n].fresh /\ WSame /\ UNCHANGED <<child, queue, events>>
          /\ behind' = behind \cup {n}
      BY <1>12, UserFacts DEF WSame
    <2>2. WakeKept /\ FreshKept
      BY <2>1 DEF WakeKept, Wake, FreshKept
    <2> QED
      BY <1>0, <2>1, <2>2
  <1>13. CASE UNCHANGED vars
    <2>1. WakeKept /\ FreshKept /\ WSame /\ UNCHANGED child
      BY <1>13 DEF vars, WakeKept, Wake, FreshKept, WSame
    <2> QED
      BY <1>0, <2>1
  <1> QED
    BY <1>1, <1>2, <1>3, <1>4, <1>5, <1>6, <1>7, <1>8, <1>9, <1>10, <1>11, <1>12, <1>13
       DEF Next, EsNext, EsStep, ClusterNext, UserNext

-----------------------------------------------------------------------------
(* The invariant *)

LEMMA InitEdge == Init => EdgeInv
  <1> SUFFICES ASSUME Init PROVE EdgeInv
    OBVIOUS
  <1>1. TypeInv
    BY InitType
  <1>2. w.n = NoName
    BY DEF Init, IdleW
  <1>3. TodoInv /\ PutInv /\ AppliedInv
    BY <1>2 DEF TodoInv, PutInv, AppliedInv
  <1>4. \A n \in Names : ~site[n].fresh /\ siteCache[n] = Read(site[n])
    BY DEF Init, NoSite
  <1>5. CopyInv /\ DeliveredInv /\ NoticedInv
    BY <1>2, <1>4, NoNameAssumption DEF CopyInv, Current, DeliveredInv, NoticedInv
  <1>6. GnbBacked
    BY DEF Init, GnbBacked, Paths, RanPaths
  <1>7. OwnerInv
    BY DEF Init, OwnerInv, NoChild
  <1> QED
    BY <1>1, <1>3, <1>5, <1>6, <1>7 DEF EdgeInv

LEMMA NextEdge == EdgeInv /\ [Next]_vars => EdgeInv'
  BY NextType, NextTodo, NextCopy, NextFiles, NextVariants DEF EdgeInv

LEMMA EdgeInvariant == Spec => []EdgeInv
  BY InitEdge, NextEdge, PTL DEF Spec

\* Config Sync may apply a deploy repo between any two puts, and after a put that
\* failed or an operator that died: a gNB's Deployment is in a repo only with the
\* ConfigMaps and the network that its pod mounts, for any kinds of gNB that follow
\* each other in the repo.
THEOREM GnbIsBacked == Spec => []GnbBacked
  BY EdgeInvariant, PTL DEF EdgeInv

\* The Ready condition is not ahead of the Git writes: a site that reports Ready has
\* every manifest of the intent it declares now in its deploy repo, however users,
\* the lagging cache, errors and restarts interleave with its reconciles.
THEOREM ReadyDelivered == Spec => []ReadyIsDelivered
  <1>1. EdgeInv => ReadyIsDelivered
    BY DEF EdgeInv, DeliveredInv, ReadyIsDelivered, Ready
  <1> QED
    BY <1>1, EdgeInvariant, PTL

\* No wake-up is lost: when a PackageVariant of a Ready site is missing, removed by
\* the collector for an owner of the same name that is gone, an event of the site
\* is on its way, or its reconcile is queued or running.
THEOREM MissingIsNoticed == Spec => []MissingVariantNoticed
  <1>1. EdgeInv => MissingVariantNoticed
    <2> SUFFICES ASSUME EdgeInv, NEW n \in Names, Ready(n),
                        NEW k \in OwnVariants(n, site[n].intent)
                 PROVE  child[k].live \/ WillReconcile(n)
      BY DEF MissingVariantNoticed
    <2>1. site[n].fresh /\ site[n].intent \in Intent
      BY DEF Ready, EdgeInv, TypeInv, SiteType, Site
    <2>2. PICK st \in StepSet(site[n].intent) :
             Own(site[n].intent, st) /\ k = Key(n, site[n].intent, st)
      BY DEF OwnVariants, Own
    <2>3. k = <<st, n>>
      BY <2>1, <2>2, KeyFacts
    <2> QED
      BY <2>1, <2>2, <2>3 DEF EdgeInv, NoticedInv, WillReconcile, Wake
  <1> QED
    BY <1>1, EdgeInvariant, PTL
=============================================================================
