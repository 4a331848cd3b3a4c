-------------------------- MODULE AddressPlanProofs --------------------------
(***************************************************************************)
(* Proofs about the address plan, for any names, overrides, servers, nodes *)
(* and plans, and any bounds: the types (TypeOK), the range of the index   *)
(* of a name (IndexRange) and what follows from it for the networks of the *)
(* sites (HostsInside, RangesDisjoint, PoolsApart), and the status of the  *)
(* fabric (ReadyMeansBacked).                                              *)
(*                                                                         *)
(* The loop of siteIndex is a recursive function.  That it exists and what *)
(* its values are is shown by induction over sets of naturals, which is    *)
(* obtained from the well-foundedness of < on Nat.                         *)
(***************************************************************************)
EXTENDS AddressPlan, WellFoundedInduction, TLAPS

-----------------------------------------------------------------------------
(* The index of a name *)

\* Induction: a set that has 0 and the successor of each of its numbers has them all.
LEMMA NatSetInduction ==
    ASSUME NEW S, 0 \in S, \A n \in Nat : n \in S => n + 1 \in S
    PROVE  Nat \subseteq S
  <1> DEFINE R == OpToRel(<, Nat)
             T == Nat \ S
  <1>1. SUFFICES ASSUME T # {} PROVE FALSE
    OBVIOUS
  <1>2. IsWellFoundedOn(R, Nat)
    BY NatLessThanWellFounded
  <1>3. \A y, x \in Nat : y < x => <<y, x>> \in R
    BY DEF OpToRel
  <1> HIDE DEF R
  <1>4. PICK x \in T : \A y \in T : <<y, x>> \notin R
    BY <1>1, <1>2, WFMin
  <1>5. x - 1 \in T /\ x - 1 < x /\ x - 1 \in Nat /\ x \in Nat
    BY <1>4
  <1> QED
    BY <1>3, <1>4, <1>5

\* One turn of the loop.
Turn(h, c, m) == (h * 31 + c) % m

LEMMA TurnRange ==
    ASSUME NEW h \in Nat, NEW c \in Nat
    PROVE  Turn(h, c, 197) \in 0..196
  BY DEF Turn

LEMMA Remainder ==
    ASSUME NEW x, x \in 0..196
    PROVE  x \in Nat /\ x + 2 \in 2..198
  OBVIOUS

\* The first j turns of the loop over name.
Turns(name, g, j) ==
    /\ g \in [0..j -> 0..196]
    /\ g[0] = 0
    /\ \A k \in 1..j : g[k] = Turn(g[k - 1], name[k], 197)

\* One more turn of the loop.
LEMMA OneTurn ==
    ASSUME NEW name \in Seq(Nat), NEW j \in Nat, j + 1 <= Len(name),
           NEW g, Turns(name, g, j)
    PROVE  \E f : Turns(name, f, j + 1)
  <1> DEFINE v == Turn(g[j], name[j + 1], 197)
             f == [k \in 0..(j + 1) |-> IF k = j + 1 THEN v ELSE g[k]]
  <1>1. g \in [0..j -> 0..196] /\ g[0] = 0
    BY DEF Turns
  <1>2. g[j] \in Nat
    <2>1. g[j] \in 0..196
      BY <1>1
    <2> QED
      BY <2>1, Remainder
  <1>3. name[j + 1] \in Nat
    <2>1. j + 1 \in 1..Len(name)
      OBVIOUS
    <2> QED
      BY <2>1
  <1>4. v \in 0..196
    BY <1>2, <1>3, TurnRange
  <1> HIDE DEF v
  <1>5. f \in [0..(j + 1) -> 0..196]
    BY <1>1, <1>4
  <1>6. f[0] = 0
    BY <1>1
  <1>7. ASSUME NEW k \in 1..(j + 1)
        PROVE  f[k] = Turn(f[k - 1], name[k], 197)
    <2>1. CASE k = j + 1
      <3>1. f[k] = v /\ f[k - 1] = g[j]
        BY <2>1
      <3> HIDE DEF f
      <3> QED
        BY <2>1, <3>1 DEF v
    <2>2. CASE k # j + 1
      <3>1. k \in 1..j /\ f[k] = g[k] /\ f[k - 1] = g[k - 1]
        BY <1>7, <2>2
      <3> HIDE DEF f
      <3> QED
        BY <3>1 DEF Turns
    <2> QED
      BY <2>1, <2>2
  <1> HIDE DEF f
  <1>8. Turns(name, f, j + 1)
    BY <1>5, <1>6, <1>7 DEF Turns
  <1> QED
    BY <1>8

\* The loop over a name has a result.
LEMMA LoopExists ==
    ASSUME NEW name \in Seq(Nat)
    PROVE  \E g : Turns(name, g, Len(name))
  <1> DEFINE S == {j \in Nat : j <= Len(name) => \E g : Turns(name, g, j)}
  <1>1. Len(name) \in Nat
    OBVIOUS
  <1>2. 0 \in S
    <2>1. Turns(name, [k \in 0..0 |-> 0], 0)
      BY DEF Turns
    <2> QED
      BY <2>1
  <1>3. ASSUME NEW j \in Nat, j \in S
        PROVE  j + 1 \in S
    <2>1. ASSUME j + 1 <= Len(name)
          PROVE  \E g : Turns(name, g, j + 1)
      <3>1. j <= Len(name)
        BY <1>1, <2>1
      <3>2. PICK g : Turns(name, g, j)
        BY <1>3, <3>1
      <3> QED
        BY <2>1, <3>2, OneTurn
    <2> QED
      BY <2>1
  <1> HIDE DEF S
  <1>4. Nat \subseteq S
    BY <1>2, <1>3, NatSetInduction
  <1>5. Len(name) \in S /\ Len(name) <= Len(name)
    BY <1>1, <1>4
  <1> QED
    BY <1>5 DEF S

\* nameHash is the loop.
LEMMA HashLoop ==
    ASSUME NEW name \in Seq(Nat)
    PROVE  LET h == nameHash(name, 197)
           IN  h = [k \in 0..Len(name) |->
                       IF k = 0 THEN 0 ELSE (h[k - 1] * 31 + name[k]) % 197]
  <1>1. Len(name) \in Nat
    OBVIOUS
  <1>2. PICK g : Turns(name, g, Len(name))
    BY LoopExists
  <1>3. g = [k \in 0..Len(name) |-> IF k = 0 THEN 0 ELSE (g[k - 1] * 31 + name[k]) % 197]
    BY <1>1, <1>2 DEF Turns, Turn
  <1>4. \E h : h = [k \in 0..Len(name) |->
                       IF k = 0 THEN 0 ELSE (h[k - 1] * 31 + name[k]) % 197]
    BY <1>3
  <1> QED
    BY <1>4, Zenon DEF nameHash

\* "a stable small int in 2..198": every name, of any length and of any characters,
\* gets an octet that is neither 0 or 1 nor 200 or 201.
THEOREM IndexRange == \A name \in Seq(Nat) : siteIndex(name) \in 2..198
  <1> SUFFICES ASSUME NEW name \in Seq(Nat) PROVE siteIndex(name) \in 2..198
    OBVIOUS
  <1> DEFINE h == nameHash(name, 197)
             S == {j \in Nat : j <= Len(name) => h[j] \in 0..196}
  <1>1. Len(name) \in Nat
    OBVIOUS
  <1>2. h = [k \in 0..Len(name) |-> IF k = 0 THEN 0 ELSE (h[k - 1] * 31 + name[k]) % 197]
    BY HashLoop
  <1>3. siteIndex(name) = h[Len(name)] + 2
    BY DEF siteIndex
  <1> HIDE DEF h
  <1>4. h[0] = 0
    <2>1. 0 \in 0..Len(name)
      BY <1>1
    <2> QED
      BY <1>2, <2>1
  <1>5. 0 \in S
    BY <1>4
  <1>6. ASSUME NEW j \in Nat, j \in S
        PROVE  j + 1 \in S
    <2>1. ASSUME j + 1 <= Len(name)
          PROVE  h[j + 1] \in 0..196
      <3>1. j <= Len(name) /\ j + 1 \in 1..Len(name) /\ j + 1 \in 0..Len(name)
        BY <1>1, <2>1
      <3>2. h[j] \in 0..196
        BY <1>6, <3>1
      <3>3. h[j] \in Nat /\ name[j + 1] \in Nat
        <4>1. h[j] \in Nat
          BY <3>2, Remainder
        <4>2. name[j + 1] \in Nat
          BY <3>1
        <4> QED
          BY <4>1, <4>2
      <3>4. h[j + 1] = Turn(h[j], name[j + 1], 197)
        <4>1. h[j + 1] = (h[(j + 1) - 1] * 31 + name[j + 1]) % 197
          BY <1>2, <3>1
        <4>2. (j + 1) - 1 = j
          OBVIOUS
        <4> QED
          BY <4>1, <4>2 DEF Turn
      <3> QED
        <4>1. Turn(h[j], name[j + 1], 197) \in 0..196
          BY <3>3, TurnRange
        <4> QED
          BY <3>4, <4>1
    <2> QED
      BY <2>1
  <1> HIDE DEF S
  <1>7. Nat \subseteq S
    BY <1>5, <1>6, NatSetInduction
  <1>8. Len(name) \in S /\ Len(name) <= Len(name)
    BY <1>1, <1>7
  <1>9. h[Len(name)] \in 0..196
    BY <1>8 DEF S
  <1> QED
    BY <1>3, <1>9, Remainder

-----------------------------------------------------------------------------
(* The inductive invariants *)

\* What a reconcile reads of a fabric.
Reads == [live : BOOLEAN, gen : Nat, pools : Plans \cup {{}}]
Reconcile == [pc : {"idle", "ni", "vlan", "status"}, o : Reads, old : BOOLEAN]

FabricType ==
    /\ fabric \in Fabric /\ fabricCache \in Reads /\ backend \in Backend /\ nw \in Reconcile
    /\ fabricOld \in BOOLEAN /\ fabricQueued \in BOOLEAN
CountType == planEdits \in Nat /\ apiFaults \in Nat

\* No generation is observed before it is there, and a copy that is not old is the fabric.
KnownInv ==
    /\ fabric.observed <= fabric.gen
    /\ ~fabricOld => fabricCache = FabricRead(fabric)
    /\ nw.pc # "idle" => nw.o.live

\* The present generation was observed, or is going to be: a reconcile of it is in progress.
Observing ==
    \/ fabric.ready = "True" /\ fabric.observed = fabric.gen
    \/ nw.pc # "idle" /\ ~nw.old

\* Then no older version comes out of the cache any more, nor is in the hands of the controller.
SeenInv ==
    Observing => /\ fabricCache = FabricRead(fabric)
                 /\ nw.pc # "idle" => nw.o = FabricRead(fabric)

\* What a reconcile has done so far is there, or was deleted behind its back.
StageInv ==
    /\ nw.pc = "vlan" => IF "ni" \in backend.there THEN backend.pools = nw.o.pools ELSE backend.lost
    /\ nw.pc = "status" =>
          backend.lost \/ (backend.there = {"ni", "vlan"} /\ backend.pools = nw.o.pools)

FabricInv == FabricType /\ KnownInv /\ SeenInv /\ StageInv /\ ReadyMeansBacked

Address == Network \cup {Unset}
SiteRecord == [live : BOOLEAN, colocated : BOOLEAN, server : Servers,
               field : [Fields -> Address], given : SUBSET Fields]

\* The fields that depend on nothing but the name.
Named == Fields \ {"ranSubnet", "n2VIP"}

\* A field of a site of this name: the user's, empty, or derived from the name.
FieldsOf(n, es) ==
    /\ \A f \in es.given : es.field[f] # Unset
    /\ \A f \in Named \ es.given : es.field[f] \in {Unset, derivedFields(n, Unset)[f]}

\* HostsInside, of one site.
HostsOf(es) ==
    \A f \in DOMAIN Home :
        /\ f \notin es.given
        /\ Home[f] \notin es.given \/ f = "n2VIP"
        /\ es.field[f] # Unset
        => Inside(es.field[f], es.field[Home[f]])

SiteInv ==
    /\ site \in [Names -> SiteRecord]
    /\ \A n \in Names : FieldsOf(n, site[n]) /\ HostsOf(site[n])

PlanInv == FabricInv /\ CountType /\ SiteInv

-----------------------------------------------------------------------------
(* Addresses *)

LEMMA Powers == 2 ^ 0 = 1 /\ 2 ^ 8 = 256 /\ 2 ^ 14 = 16384
  OBVIOUS

\* The networks of the index i.
LEMMA PodNet ==
    ASSUME NEW i \in Nat
    PROVE  Net(10, i, 0, 8) \in Network /\ Net(10, i, 0, 8).lo = 655360 + 256 * i /\ Net(10, i, 0, 8).hi = 655615 + 256 * i
  <1>1. Net(10, i, 0, 8) = [lo |-> 655360 + 256 * i, hi |-> 655615 + 256 * i]
    BY Powers, SMT DEF Net
  <1>2. 655360 + 256 * i \in Nat /\ 655615 + 256 * i \in Nat /\ 655360 + 256 * i <= 655615 + 256 * i
    BY SMT
  <1> QED
    BY <1>1, <1>2, SMT DEF Network

LEMMA UeNet ==
    ASSUME NEW i \in Nat
    PROVE  Net(172, i, 0, 8) \in Network /\ Net(172, i, 0, 8).lo = 11272192 + 256 * i /\ Net(172, i, 0, 8).hi = 11272447 + 256 * i
  <1>1. Net(172, i, 0, 8) = [lo |-> 11272192 + 256 * i, hi |-> 11272447 + 256 * i]
    BY Powers, SMT DEF Net
  <1>2. 11272192 + 256 * i \in Nat /\ 11272447 + 256 * i \in Nat /\ 11272192 + 256 * i <= 11272447 + 256 * i
    BY SMT
  <1> QED
    BY <1>1, <1>2, SMT DEF Network

LEMMA AccessNet ==
    ASSUME NEW i \in Nat
    PROVE  Net(10, 200, i, 0) \in Network /\ Net(10, 200, i, 0).lo = 706560 + i /\ Net(10, 200, i, 0).hi = 706560 + i
  <1>1. Net(10, 200, i, 0) = [lo |-> 706560 + i, hi |-> 706560 + i]
    BY Powers, SMT DEF Net
  <1>2. 706560 + i \in Nat /\ 706560 + i \in Nat /\ 706560 + i <= 706560 + i
    BY SMT
  <1> QED
    BY <1>1, <1>2, SMT DEF Network

LEMMA CoreNet ==
    ASSUME NEW i \in Nat
    PROVE  Net(10, 201, i, 0) \in Network /\ Net(10, 201, i, 0).lo = 706816 + i /\ Net(10, 201, i, 0).hi = 706816 + i
  <1>1. Net(10, 201, i, 0) = [lo |-> 706816 + i, hi |-> 706816 + i]
    BY Powers, SMT DEF Net
  <1>2. 706816 + i \in Nat /\ 706816 + i \in Nat /\ 706816 + i <= 706816 + i
    BY SMT
  <1> QED
    BY <1>1, <1>2, SMT DEF Network

LEMMA NamedAreNetworks ==
    ASSUME NEW i \in Nat
    PROVE  /\ Net(10, i, 0, 8) \in Network /\ Net(172, i, 0, 8) \in Network
           /\ Net(10, 200, i, 0) \in Network /\ Net(10, 201, i, 0) \in Network
  BY PodNet, UeNet, AccessNet, CoreNet, SMT

LEMMA OtherNets ==
    /\ Net(192, 168, 4, 0) \in Network
    /\ Net(100, 64, 0, 14).lo = 6569984 /\ Net(100, 64, 0, 14).hi = 6586367
  <1>1. Net(192, 168, 4, 0) = [lo |-> 12625924, hi |-> 12625924]
    BY Powers, SMT DEF Net
  <1>2. Net(100, 64, 0, 14) = [lo |-> 6569984, hi |-> 6586367]
    BY Powers, SMT DEF Net
  <1> QED
    BY <1>1, <1>2, SMT DEF Network

LEMMA UnsetIsNoNetwork == Unset \notin Network /\ Unset.lo = 1 /\ Unset.hi = 0
  BY DEF Network, Unset

\* Something is in a network, and that is not the empty field.
LEMMA InsideFacts ==
    ASSUME NEW p \in Network
    PROVE  /\ p.lo \in Nat /\ p.hi \in Nat /\ p.lo <= p.hi
           /\ Inside(p, p)
           /\ ~Inside(p, Unset)
           /\ netBase(p) \in Network /\ Inside(netBase(p), p)
  <1>1. p \in [lo : Nat, hi : Nat] /\ p.lo <= p.hi
    BY DEF Network
  <1>2. p.lo \in Nat /\ p.hi \in Nat
    BY <1>1
  <1>3. Inside(p, p)
    BY <1>2 DEF Inside
  <1>4. ~Inside(p, Unset)
    BY <1>1, <1>2, UnsetIsNoNetwork DEF Inside
  <1>5. netBase(p) = [lo |-> p.lo, hi |-> p.lo]
    BY <1>1, UnsetIsNoNetwork DEF netBase
  <1>6. netBase(p) \in Network /\ Inside(netBase(p), p)
    BY <1>1, <1>2, <1>5 DEF Network, Inside
  <1> QED
    BY <1>1, <1>2, <1>3, <1>4, <1>6

\* The fields of a site of this name, if they are derived.
LEMMA DerivedFields ==
    ASSUME NEW name \in Seq(Nat), NEW base \in Network
    PROVE  /\ derivedFields(name, base) \in [Fields -> Network]
           /\ \A f \in Named : derivedFields(name, base)[f] = derivedFields(name, Unset)[f]
           /\ derivedFields(name, base).ranSubnet = base
           /\ derivedFields(name, base).n2VIP = base
           /\ derivedFields(name, base).accessGw = derivedFields(name, base).accessCIDR
           /\ derivedFields(name, base).gnbIP = derivedFields(name, base).accessCIDR
           /\ derivedFields(name, base).coreGw = derivedFields(name, base).coreCIDR
           /\ derivedFields(name, base).coreNextHop = derivedFields(name, base).coreCIDR
  <1> DEFINE a == Net(10, siteIndex(name), 0, 8)
             b == Net(172, siteIndex(name), 0, 8)
             c == Net(10, 200, siteIndex(name), 0)
             d == Net(10, 201, siteIndex(name), 0)
  <1>1. siteIndex(name) \in Nat
    <2>1. siteIndex(name) \in 2..198
      BY IndexRange
    <2>2. ASSUME NEW x, x \in 2..198 PROVE x \in Nat
      BY <2>2
    <2> QED
      BY <2>1, <2>2
  <1>2. derivedFields(name, base) =
           [podCIDR |-> a, uePool |-> b, accessCIDR |-> c, coreCIDR |-> d, accessGw |-> c,
            coreGw |-> d, coreNextHop |-> d, gnbIP |-> c, ranSubnet |-> base, n2VIP |-> base]
    BY DEF derivedFields
  <1>3. derivedFields(name, Unset) =
           [podCIDR |-> a, uePool |-> b, accessCIDR |-> c, coreCIDR |-> d, accessGw |-> c,
            coreGw |-> d, coreNextHop |-> d, gnbIP |-> c, ranSubnet |-> Unset, n2VIP |-> Unset]
    BY DEF derivedFields
  <1>4. a \in Network /\ b \in Network /\ c \in Network /\ d \in Network
    BY <1>1, NamedAreNetworks
  <1> HIDE DEF a, b, c, d
  <1>5. derivedFields(name, base) \in [Fields -> Network]
    BY <1>2, <1>4 DEF Fields
  <1>6. \A f \in Named : derivedFields(name, base)[f] = derivedFields(name, Unset)[f]
    BY <1>2, <1>3 DEF Named, Fields
  <1> QED
    BY <1>2, <1>5, <1>6

\* The RAN's L2 is a network, that of the subnet if there is one.
LEMMA RanBase ==
    ASSUME NEW es \in SiteRecord, NEW node \in mgmtNodeIP
    PROVE  /\ ranBase(es, node) \in Network
           /\ es.field.ranSubnet # Unset => Inside(ranBase(es, node), es.field.ranSubnet)
  <1> DEFINE r == es.field.ranSubnet
             s == IF es.colocated THEN Or(node, es.server) ELSE es.server
  <1>1. r \in Address /\ es.server \in Address
    BY ServersAssumption DEF SiteRecord, Address, Fields
  <1>2. node \in Address
    BY NodesAssumption DEF mgmtNodeIP, Address
  <1>3. s \in Address
    BY <1>1, <1>2 DEF Or
  <1>4. Net(192, 168, 4, 0) \in Network
    BY OtherNets, SMT
  <1>5. ranBase(es, node) = Or(netBase(r), Or(s, Net(192, 168, 4, 0)))
    BY DEF ranBase
  <1> HIDE DEF s
  <1>6. Or(s, Net(192, 168, 4, 0)) \in Network
    BY <1>3, <1>4 DEF Or, Address
  <1>7. CASE r = Unset
    <2>1. netBase(r) = Unset
      BY <1>7 DEF netBase, Unset
    <2> QED
      BY <1>5, <1>6, <1>7, <2>1 DEF Or
  <1>8. CASE r # Unset
    <2>1. r \in Network
      BY <1>1, <1>8 DEF Address
    <2>2. netBase(r) \in Network /\ Inside(netBase(r), r) /\ netBase(r) # Unset
      BY <2>1, InsideFacts, UnsetIsNoNetwork
    <2> QED
      BY <1>5, <2>2 DEF Or
  <1> QED
    BY <1>7, <1>8

-----------------------------------------------------------------------------
(* The sites *)

\* A record that may be a site of this name.
GoodSite(n, es) == es \in SiteRecord /\ FieldsOf(n, es) /\ HostsOf(es)

LEMMA NoSiteIsGood ==
    ASSUME NEW n
    PROVE  GoodSite(n, NoSite)
  <1>1. NoFields \in [Fields -> Address] /\ \A f \in Fields : NoFields[f] = Unset
    BY DEF NoFields, Address
  <1>2. DOMAIN Home \subseteq Fields
    BY DEF Home, Fields
  <1>3. NoSite \in SiteRecord
    BY <1>1, ServersAssumption DEF NoSite, SiteRecord
  <1>4. NoSite.field = NoFields /\ NoSite.given = {}
    BY DEF NoSite
  <1> QED
    BY <1>1, <1>2, <1>3, <1>4 DEF GoodSite, FieldsOf, HostsOf, Named

\* A step that puts one good site.
LEMMA PutGood ==
    ASSUME SiteInv, NEW n \in Names, NEW es, GoodSite(n, es), site' = [site EXCEPT ![n] = es]
    PROVE  SiteInv'
  <1>1. site \in [Names -> SiteRecord]
    BY DEF SiteInv
  <1>2. site' \in [Names -> SiteRecord]
    BY <1>1 DEF GoodSite
  <1>3. ASSUME NEW m \in Names
        PROVE  FieldsOf(m, site'[m]) /\ HostsOf(site'[m])
    <2>1. CASE m = n
      <3>1. site'[m] = es
        BY <1>1, <2>1
      <3> QED
        BY <2>1, <3>1 DEF GoodSite
    <2>2. CASE m # n
      <3>1. site'[m] = site[m]
        BY <1>1, <2>2
      <3> QED
        BY <3>1 DEF SiteInv
    <2> QED
      BY <2>1, <2>2
  <1> QED
    BY <1>2, <1>3 DEF SiteInv

LEMMA CreateKept ==
    ASSUME SiteInv, NEW n \in Names, NEW over \in Overrides, NEW place \in Places,
           SiteCreate(n, over, place)
    PROVE  SiteInv'
  <1> DEFINE fld == [f \in Fields |-> IF f \in DOMAIN over THEN over[f] ELSE Unset]
             es == [live |-> TRUE, colocated |-> place.colocated, server |-> place.server,
                    field |-> fld, given |-> DOMAIN over]
  <1>1. DOMAIN over \subseteq Fields /\ \A f \in DOMAIN over : over[f] \in Network
    BY OverridesAssumption
  <1>2. fld \in [Fields -> Address] /\ \A f \in Fields :
            fld[f] = IF f \in DOMAIN over THEN over[f] ELSE Unset
    BY <1>1 DEF Address
  <1> HIDE DEF fld
  <1>3. place.colocated \in BOOLEAN /\ place.server \in Servers
    BY PlacesAssumption
  <1>4. es \in SiteRecord /\ es.field = fld /\ es.given = DOMAIN over
    BY <1>1, <1>2, <1>3 DEF SiteRecord
  <1>5. site' = [site EXCEPT ![n] = es]
    BY DEF SiteCreate, fld
  <1> HIDE DEF es
  <1>6. FieldsOf(n, es)
    BY <1>1, <1>2, <1>4, UnsetIsNoNetwork DEF FieldsOf, Named
  <1>7. HostsOf(es)
    <2>1. DOMAIN Home \subseteq Fields
      BY DEF Home, Fields
    <2> QED
      BY <1>2, <1>4, <2>1 DEF HostsOf
  <1>8. GoodSite(n, es)
    BY <1>4, <1>6, <1>7 DEF GoodSite
  <1> QED
    BY <1>5, <1>8, PutGood

LEMMA MoveKept ==
    ASSUME SiteInv, NEW n \in Names, NEW server \in Servers, SiteMove(n, server)
    PROVE  SiteInv'
  <1> DEFINE es == [site[n] EXCEPT !.server = server]
  <1>1. site[n] \in SiteRecord /\ FieldsOf(n, site[n]) /\ HostsOf(site[n])
    BY DEF SiteInv
  <1>2. es \in SiteRecord /\ es.field = site[n].field /\ es.given = site[n].given
    BY <1>1 DEF SiteRecord
  <1>3. site' = [site EXCEPT ![n] = es]
    BY DEF SiteMove
  <1> HIDE DEF es
  <1>4. GoodSite(n, es)
    BY <1>1, <1>2 DEF GoodSite, FieldsOf, HostsOf
  <1> QED
    BY <1>3, <1>4, PutGood

LEMMA DeleteKept ==
    ASSUME SiteInv, NEW n \in Names, SiteDelete(n)
    PROVE  SiteInv'
  BY NoSiteIsGood, PutGood DEF SiteDelete

\* Deriving the fields of a good site makes a good site: what is given or derived
\* stays, and a network and the hosts in it are derived together.
LEMMA DerivedIsGood ==
    ASSUME NEW n \in Seq(Nat), NEW es, GoodSite(n, es), NEW node \in mgmtNodeIP
    PROVE  GoodSite(n, deriveAddressing(n, es, ranBase(es, node)))
  <1> DEFINE base == ranBase(es, node)
             d == derivedFields(n, base)
             fld == [f \in Fields |-> Or(es.field[f], d[f])]
             new == [es EXCEPT !.field = fld]
  <1>1. es \in SiteRecord /\ FieldsOf(n, es) /\ HostsOf(es)
    BY DEF GoodSite
  <1>2. /\ base \in Network
        /\ es.field.ranSubnet # Unset => Inside(base, es.field.ranSubnet)
    BY <1>1, RanBase
  <1>3. deriveAddressing(n, es, base) = new
    BY DEF deriveAddressing
  <1> HIDE DEF base
  <1>4. d \in [Fields -> Network]
    BY <1>2, DerivedFields
  <1>5. \A f \in Named : d[f] = derivedFields(n, Unset)[f]
    BY <1>2, DerivedFields
  <1>6. /\ d.ranSubnet = base /\ d.n2VIP = base
        /\ d.accessGw = d.accessCIDR /\ d.gnbIP = d.accessCIDR
        /\ d.coreGw = d.coreCIDR /\ d.coreNextHop = d.coreCIDR
    BY <1>2, DerivedFields
  <1> HIDE DEF d
  <1>7. es.field \in [Fields -> Address] /\ es.given \subseteq Fields
    BY <1>1 DEF SiteRecord
  <1>8. /\ fld \in [Fields -> Network]
        /\ \A f \in Fields : fld[f] = IF es.field[f] # Unset THEN es.field[f] ELSE d[f]
    BY <1>4, <1>7 DEF Or, Address
  <1> HIDE DEF fld
  <1>9. new \in SiteRecord /\ new.field = fld /\ new.given = es.given
    BY <1>1, <1>8 DEF SiteRecord, Address
  <1> HIDE DEF new
  <1>10. FieldsOf(n, new)
    <2>1. \A f \in es.given : fld[f] # Unset
      BY <1>7, <1>8, UnsetIsNoNetwork
    <2>2. ASSUME NEW f \in Named \ es.given
          PROVE  fld[f] \in {Unset, derivedFields(n, Unset)[f]}
      <3>1. f \in Fields /\ es.field[f] \in {Unset, derivedFields(n, Unset)[f]}
        BY <1>1 DEF FieldsOf, Named
      <3> QED
        BY <1>5, <1>8, <3>1
    <2> QED
      BY <1>9, <2>1, <2>2 DEF FieldsOf
  <1>11. ASSUME NEW f \in DOMAIN Home, f \notin es.given, Home[f] \notin es.given \/ f = "n2VIP"
         PROVE  Inside(fld[f], fld[Home[f]])
    <2>1. f \in Fields /\ Home[f] \in Fields
      BY DEF Home, Fields
    <2>2. fld[f] \in Network /\ fld[Home[f]] \in Network /\ d[f] \in Network
      BY <1>4, <1>8, <2>1
    <2>3. CASE es.field[f] # Unset
      <3>1. Inside(es.field[f], es.field[Home[f]]) /\ es.field[f] \in Network
        BY <1>1, <1>7, <1>11, <2>1, <2>3 DEF HostsOf, Address
      <3>2. es.field[Home[f]] # Unset
        BY <3>1, InsideFacts
      <3> QED
        BY <1>8, <2>1, <2>3, <3>1, <3>2
    <2>4. CASE es.field[f] = Unset /\ f # "n2VIP"
      <3>1. d[f] = d[Home[f]] /\ Home[f] \in Named \ es.given
        BY <1>6, <1>11, <2>4 DEF Home, Named, Fields
      <3>2. es.field[Home[f]] \in {Unset, d[Home[f]]}
        BY <1>1, <1>5, <3>1 DEF FieldsOf
      <3>3. fld[f] = d[f] /\ fld[Home[f]] = d[f]
        BY <1>8, <2>1, <2>4, <3>1, <3>2
      <3> QED
        BY <2>2, <3>3, InsideFacts
    <2>5. CASE es.field[f] = Unset /\ f = "n2VIP"
      <3>1. fld[f] = base /\ Home[f] = "ranSubnet"
        BY <1>6, <1>8, <2>1, <2>5 DEF Home
      <3>2. fld[Home[f]] = IF es.field.ranSubnet # Unset THEN es.field.ranSubnet ELSE base
        BY <1>6, <1>8, <2>1, <3>1
      <3> QED
        BY <1>2, <3>1, <3>2, InsideFacts
    <2> QED
      BY <2>3, <2>4, <2>5
  <1>12. HostsOf(new)
    BY <1>9, <1>11 DEF HostsOf
  <1> QED
    BY <1>3, <1>9, <1>10, <1>12 DEF GoodSite, base

LEMMA DeriveKept ==
    ASSUME SiteInv, NEW n \in Names, SiteDerive(n)
    PROVE  SiteInv'
  <1>1. PICK node \in mgmtNodeIP :
           site' = [site EXCEPT ![n] = deriveAddressing(n, site[n], ranBase(site[n], node))]
    BY DEF SiteDerive
  <1>2. GoodSite(n, site[n])
    BY DEF SiteInv, GoodSite
  <1>3. n \in Seq(Nat)
    BY NamesAssumption
  <1> QED
    BY <1>1, <1>2, <1>3, DerivedIsGood, PutGood

LEMMA SitesKept ==
    ASSUME SiteInv, SiteNext \/ UNCHANGED site
    PROVE  SiteInv'
  <1>1. ASSUME UNCHANGED site PROVE SiteInv'
    BY <1>1 DEF SiteInv
  <1> QED
    BY <1>1, CreateKept, MoveKept, DeleteKept, DeriveKept DEF SiteNext

LEMMA SitesInit ==
    ASSUME SiteInit
    PROVE  SiteInv
  BY NoSiteIsGood DEF SiteInit, SiteInv, GoodSite

-----------------------------------------------------------------------------
(* The fabric *)

LEMMA ReadTyped ==
    ASSUME NEW o \in Fabric
    PROVE  /\ FabricRead(o) \in Reads
           /\ FabricRead(o).live = o.live /\ FabricRead(o).gen = o.gen
           /\ FabricRead(o).pools = o.pools
  BY DEF Fabric, FabricRead, Reads

LEMMA NoFabricTyped ==
    ASSUME NEW g \in Nat
    PROVE  /\ NoFabric(g) \in Fabric
           /\ NoFabric(g).gen = g /\ NoFabric(g).observed = 0 /\ NoFabric(g).ready = "none"
  BY DEF NoFabric, Fabric

LEMMA IdleTyped == IdleNw \in Reconcile /\ IdleNw.pc = "idle"
  <1>1. NoFabric(0) \in Fabric
    BY NoFabricTyped
  <1>2. FabricRead(NoFabric(0)) \in Reads
    BY <1>1, ReadTyped
  <1> QED
    BY <1>2 DEF IdleNw, Reconcile

LEMMA FabricFields ==
    ASSUME FabricType
    PROVE  /\ fabric.live \in BOOLEAN /\ fabric.gen \in Nat /\ fabric.observed \in Nat
           /\ fabric.pools \in Plans \cup {{}}
           /\ nw.pc \in {"idle", "ni", "vlan", "status"} /\ nw.o \in Reads /\ nw.old \in BOOLEAN
           /\ nw.o.gen \in Nat /\ nw.o.pools \in Plans \cup {{}}
           /\ backend.pools \in Plans \cup {{}} /\ backend.there \subseteq {"ni", "vlan"}
           /\ backend.lost \in BOOLEAN
  BY DEF FabricType, Fabric, Reconcile, Reads, Backend

LEMMA GetKept ==
    ASSUME FabricInv, NetGet
    PROVE  FabricInv'
  <1>1. FabricType /\ KnownInv /\ SeenInv /\ StageInv /\ ReadyMeansBacked /\ nw.pc = "idle"
    BY DEF FabricInv, NetGet
  <1>2. /\ fabric' = fabric /\ fabricCache' = fabricCache /\ fabricOld' = fabricOld
        /\ backend' = backend /\ fabricQueued' = FALSE
    BY DEF NetGet
  <1>3. CASE ~fabricCache.live
    <2>1. nw' = nw
      BY <1>3 DEF NetGet
    <2> QED
      BY <1>1, <1>2, <2>1 DEF FabricInv, FabricType, KnownInv, SeenInv, Observing, StageInv,
                              ReadyMeansBacked, Backed
  <1>4. CASE fabricCache.live
    <2>1. nw' = [pc |-> "ni", o |-> fabricCache, old |-> fabricOld]
      BY <1>4 DEF NetGet
    <2>2. nw' \in Reconcile /\ nw'.pc = "ni" /\ nw'.o = fabricCache /\ (nw'.old <=> fabricOld)
      BY <1>1, <2>1 DEF FabricType, Reconcile
    <2>3. FabricType'
      BY <1>1, <1>2, <2>2 DEF FabricType
    <2>4. KnownInv'
      BY <1>1, <1>2, <1>4, <2>2 DEF KnownInv
    <2>5. SeenInv'
      BY <1>1, <1>2, <2>2 DEF KnownInv, SeenInv, Observing
    <2>6. StageInv' /\ ReadyMeansBacked'
      BY <1>1, <1>2, <2>2 DEF StageInv, ReadyMeansBacked, Backed
    <2> QED
      BY <2>3, <2>4, <2>5, <2>6 DEF FabricInv
  <1> QED
    BY <1>3, <1>4

LEMMA InstanceKept ==
    ASSUME FabricInv, ensureInstance
    PROVE  FabricInv'
  <1>1. FabricType /\ KnownInv /\ SeenInv /\ StageInv /\ ReadyMeansBacked /\ nw.pc = "ni"
    BY DEF FabricInv, ensureInstance
  <1>2. /\ fabric' = fabric /\ fabricCache' = fabricCache /\ fabricOld' = fabricOld
        /\ fabricQueued' = fabricQueued
    BY DEF ensureInstance
  <1>3. nw \in Reconcile /\ backend \in Backend
    BY <1>1 DEF FabricType
  <1>4. /\ nw' \in Reconcile /\ nw'.pc = "vlan" /\ nw'.o = nw.o /\ nw'.old = nw.old
    BY <1>3 DEF ensureInstance, Reconcile
  <1>5. /\ backend' \in Backend /\ backend'.pools = nw.o.pools
        /\ backend'.there = backend.there \cup {"ni"} /\ backend'.lost = backend.lost
    BY <1>3, FabricFields, <1>1 DEF ensureInstance, Backend
  <1>6. FabricType' /\ KnownInv'
    BY <1>1, <1>2, <1>4, <1>5 DEF FabricType, KnownInv
  <1>7. SeenInv'
    BY <1>1, <1>2, <1>4 DEF SeenInv, Observing
  <1>8. StageInv'
    BY <1>4, <1>5 DEF StageInv
  <1>9. ReadyMeansBacked'
    <2>1. ASSUME fabric.ready = "True", fabric.observed = fabric.gen
          PROVE  (backend.there = {"ni", "vlan"} \/ backend.lost) /\ nw.o.pools = fabric.pools
      <3>1. nw.o = FabricRead(fabric)
        BY <1>1, <2>1 DEF SeenInv, Observing
      <3> QED
        BY <1>1, <2>1, <3>1, ReadTyped DEF ReadyMeansBacked, Backed, FabricType
    <2> QED
      BY <1>2, <1>5, <2>1 DEF ReadyMeansBacked, Backed
  <1> QED
    BY <1>6, <1>7, <1>8, <1>9 DEF FabricInv

LEMMA VlanKept ==
    ASSUME FabricInv, ensureVlanIndex
    PROVE  FabricInv'
  <1>1. FabricType /\ KnownInv /\ SeenInv /\ StageInv /\ ReadyMeansBacked /\ nw.pc = "vlan"
    BY DEF FabricInv, ensureVlanIndex
  <1>2. /\ fabric' = fabric /\ fabricCache' = fabricCache /\ fabricOld' = fabricOld
        /\ fabricQueued' = fabricQueued
    BY DEF ensureVlanIndex
  <1>3. nw \in Reconcile /\ backend \in Backend
    BY <1>1 DEF FabricType
  <1>4. /\ nw' \in Reconcile /\ nw'.pc = "status" /\ nw'.o = nw.o /\ nw'.old = nw.old
    BY <1>3 DEF ensureVlanIndex, Reconcile
  <1>5. /\ backend' \in Backend /\ backend'.pools = backend.pools
        /\ backend'.there = backend.there \cup {"vlan"}
        /\ backend'.lost = (backend.lost /\ "ni" \notin backend.there)
    BY <1>3 DEF ensureVlanIndex, Backend
  <1>6. FabricType' /\ KnownInv'
    BY <1>1, <1>2, <1>4, <1>5 DEF FabricType, KnownInv
  <1>7. SeenInv'
    BY <1>1, <1>2, <1>4 DEF SeenInv, Observing
  <1>8. \/ backend'.there = {"ni", "vlan"} /\ backend'.pools = nw.o.pools
        \/ backend'.lost
    <2>1. CASE "ni" \in backend.there
      BY <1>1, <1>5, <2>1, FabricFields DEF StageInv
    <2>2. CASE "ni" \notin backend.there
      BY <1>1, <1>5, <2>2 DEF StageInv
    <2> QED
      BY <2>1, <2>2
  <1>9. StageInv'
    BY <1>4, <1>8 DEF StageInv
  <1>10. ReadyMeansBacked'
    <2>1. ASSUME fabric.ready = "True", fabric.observed = fabric.gen
          PROVE  nw.o.pools = fabric.pools
      <3>1. nw.o = FabricRead(fabric)
        BY <1>1, <2>1 DEF SeenInv, Observing
      <3> QED
        BY <1>1, <3>1, ReadTyped DEF FabricType
    <2> QED
      BY <1>2, <1>8, <2>1 DEF ReadyMeansBacked, Backed
  <1> QED
    BY <1>6, <1>7, <1>9, <1>10 DEF FabricInv

\* The end of a reconcile: "True" is only written over the version it was for.
LEMMA ReadyWritten ==
    ASSUME FabricInv, NEW ready \in {"True", "False"}, WriteReady(ready), nw' = IdleNw,
           nw.pc # "idle", ready = "True" => nw.pc = "status",
           UNCHANGED <<fabricCache, backend>>, fabricQueued' \in BOOLEAN
    PROVE  FabricInv'
  <1> DEFINE new == [fabric EXCEPT !.ready = ready, !.observed = nw.o.gen]
  <1>1. FabricType /\ KnownInv /\ SeenInv /\ StageInv /\ ReadyMeansBacked
    BY DEF FabricInv
  <1>2. nw' \in Reconcile /\ nw'.pc = "idle"
    BY IdleTyped
  <1>3. fabricCache' = fabricCache /\ backend' = backend
    OBVIOUS
  <1>4. CASE nw.old
    <2>1. fabric' = fabric /\ fabricOld' = fabricOld
      BY <1>4 DEF WriteReady
    <2> QED
      BY <1>1, <1>2, <1>3, <2>1 DEF FabricInv, FabricType, KnownInv, SeenInv, Observing,
                                    StageInv, ReadyMeansBacked, Backed
  <1>5. CASE ~nw.old
    <2>1. fabric' = new /\ fabricOld' \in {TRUE, fabricOld \/ new # fabric}
      BY <1>5 DEF WriteReady
    <2>2. /\ new \in Fabric /\ new.live = fabric.live /\ new.gen = fabric.gen
          /\ new.pools = fabric.pools /\ new.ready = ready /\ new.observed = nw.o.gen
      BY <1>1, FabricFields DEF FabricType, Fabric
    <2> HIDE DEF new
    <2>3. FabricRead(fabric') = FabricRead(fabric)
      BY <2>1, <2>2 DEF FabricRead
    <2>4. fabricCache = FabricRead(fabric) /\ nw.o = FabricRead(fabric)
      BY <1>1, <1>5 DEF SeenInv, Observing
    <2>5. nw.o.gen = fabric.gen /\ nw.o.pools = fabric.pools
      BY <1>1, <2>4, ReadTyped DEF FabricType
    <2>6. fabricOld' \in BOOLEAN
      BY <2>1
    <2>7. FabricType'
      BY <1>1, <1>2, <1>3, <2>1, <2>2, <2>6 DEF FabricType
    <2>8. fabric.gen \in Nat
      BY <1>1, FabricFields
    <2>9. KnownInv'
      BY <1>2, <1>3, <2>1, <2>2, <2>3, <2>4, <2>5, <2>8 DEF KnownInv
    <2>10. SeenInv' /\ StageInv'
      BY <1>2, <1>3, <2>3, <2>4 DEF SeenInv, StageInv
    <2>11. ReadyMeansBacked'
      BY <1>1, <1>3, <2>1, <2>2, <2>5 DEF StageInv, ReadyMeansBacked, Backed
    <2> QED
      BY <2>7, <2>9, <2>10, <2>11 DEF FabricInv
  <1> QED
    BY <1>4, <1>5, FabricFields, <1>1

LEMMA StatusKept ==
    ASSUME FabricInv, NetStatus
    PROVE  FabricInv'
  <1>1. fabricQueued' \in BOOLEAN
    BY DEF FabricInv, FabricType, NetStatus
  <1> QED
    BY <1>1, ReadyWritten DEF NetStatus

LEMMA FailKept ==
    ASSUME FabricInv, NetFail
    PROVE  FabricInv'
  <1>1. fabricQueued' \in BOOLEAN /\ nw.pc # "idle"
    BY DEF NetFail
  <1> QED
    BY <1>1, ReadyWritten DEF NetFail

LEMMA EventKept ==
    ASSUME FabricInv, FabricEvent \/ NetRestart \/ NetResync
    PROVE  FabricInv'
  <1>1. FabricType /\ KnownInv /\ SeenInv /\ StageInv /\ ReadyMeansBacked
    BY DEF FabricInv
  <1>2. fabric' = fabric /\ backend' = backend
    BY DEF FabricEvent, NetRestart, NetResync
  <1>3. \/ fabricCache' = FabricRead(fabric) /\ fabricOld' = FALSE
        \/ fabricCache' = fabricCache /\ fabricOld' = fabricOld
    BY DEF FabricEvent, NetRestart, NetResync
  <1>4. nw' = nw \/ nw' = IdleNw
    BY DEF FabricEvent, NetRestart, NetResync
  <1>5. fabricQueued' \in BOOLEAN
    BY <1>1, FabricFields DEF FabricEvent, NetRestart, NetResync
  <1>6. FabricRead(fabric) \in Reads
    BY <1>1, ReadTyped DEF FabricType
  <1>7. FabricType'
    BY <1>1, <1>2, <1>3, <1>4, <1>5, <1>6, IdleTyped DEF FabricType
  <1>8. KnownInv' /\ SeenInv'
    BY <1>1, <1>2, <1>3, <1>4, IdleTyped DEF KnownInv, SeenInv, Observing
  <1>9. StageInv' /\ ReadyMeansBacked'
    BY <1>1, <1>2, <1>4, IdleTyped DEF StageInv, ReadyMeansBacked, Backed
  <1> QED
    BY <1>7, <1>8, <1>9 DEF FabricInv

\* A new version: it is not observed yet, and every copy is old.
LEMMA WriteKept ==
    ASSUME FabricInv, NEW new \in Fabric, FabricWrite(new),
           new.observed <= new.gen,
           ~(new.ready = "True" /\ new.observed = new.gen)
    PROVE  FabricInv'
  <1>1. FabricType /\ KnownInv /\ SeenInv /\ StageInv
    BY DEF FabricInv
  <1>2. /\ fabric' = new /\ fabricOld' = TRUE /\ fabricCache' = fabricCache
        /\ backend' = backend /\ fabricQueued' = fabricQueued
    BY DEF FabricWrite
  <1>3. nw' \in Reconcile /\ nw'.pc = nw.pc /\ nw'.o = nw.o /\ nw'.old = TRUE
    BY <1>1 DEF FabricWrite, FabricType, Reconcile
  <1> QED
    BY <1>1, <1>2, <1>3 DEF FabricInv, FabricType, KnownInv, SeenInv, Observing, StageInv,
                            ReadyMeansBacked

LEMMA UpdatedFabric ==
    ASSUME NEW o \in Fabric, NEW g \in Nat, NEW p \in Plans, NEW l \in BOOLEAN
    PROVE  /\ [o EXCEPT !.gen = g, !.pools = p] \in Fabric
           /\ [o EXCEPT !.gen = g, !.pools = p].gen = g
           /\ [o EXCEPT !.gen = g, !.pools = p].observed = o.observed
           /\ [o EXCEPT !.live = l, !.pools = p] \in Fabric
           /\ [o EXCEPT !.live = l, !.pools = p].gen = o.gen
           /\ [o EXCEPT !.live = l, !.pools = p].observed = o.observed
           /\ [o EXCEPT !.live = l, !.pools = p].ready = o.ready
  <1> DEFINE a == [[o EXCEPT !.gen = g] EXCEPT !.pools = p]
             b == [[o EXCEPT !.live = l] EXCEPT !.pools = p]
  <1>1. [o EXCEPT !.gen = g, !.pools = p] = a /\ [o EXCEPT !.live = l, !.pools = p] = b
    BY DEF Fabric
  <1>2. a \in Fabric /\ a.gen = g /\ a.observed = o.observed
    BY DEF Fabric
  <1>3. b \in Fabric /\ b.gen = o.gen /\ b.observed = o.observed /\ b.ready = o.ready
    BY DEF Fabric
  <1> HIDE DEF a, b
  <1> QED
    BY <1>1, <1>2, <1>3

LEMMA PutKept ==
    ASSUME FabricInv, NEW pools \in Plans, FabricPut(pools)
    PROVE  FabricInv'
  <1>1. fabric \in Fabric /\ fabric.observed <= fabric.gen
    BY DEF FabricInv, FabricType, KnownInv
  <1>2. fabric.gen \in Nat /\ fabric.observed \in Nat
    BY <1>1 DEF Fabric
  <1>3. CASE fabric.live
    <2> DEFINE new == [fabric EXCEPT !.gen = @ + 1, !.pools = pools]
    <2>1. new \in Fabric /\ new.gen = fabric.gen + 1 /\ new.observed = fabric.observed
      <3>1. fabric.gen + 1 \in Nat
        BY <1>2
      <3> QED
        BY <1>1, <3>1, UpdatedFabric
    <2>2. FabricWrite(new)
      BY <1>3 DEF FabricPut
    <2> HIDE DEF new
    <2>3. new.observed <= new.gen /\ new.observed # new.gen
      BY <1>1, <1>2, <2>1
    <2> QED
      BY <2>1, <2>2, <2>3, WriteKept
  <1>4. CASE ~fabric.live
    <2> DEFINE none == NoFabric(fabric.gen + 1)
               new == [none EXCEPT !.live = TRUE, !.pools = pools]
    <2>1. /\ new \in Fabric /\ new.gen = fabric.gen + 1 /\ new.observed = 0
          /\ new.ready = "none"
      <3>1. fabric.gen + 1 \in Nat
        BY <1>2
      <3>2. /\ none \in Fabric /\ none.gen = fabric.gen + 1 /\ none.observed = 0
            /\ none.ready = "none"
        BY <3>1, NoFabricTyped
      <3> HIDE DEF none
      <3> QED
        BY <3>2, UpdatedFabric
    <2>2. FabricWrite(new)
      BY <1>4 DEF FabricPut
    <2> HIDE DEF new
    <2>3. new.observed <= new.gen /\ new.ready # "True"
      BY <1>2, <2>1
    <2> QED
      BY <2>1, <2>2, <2>3, WriteKept
  <1> QED
    BY <1>3, <1>4

LEMMA FabricDeleteKept ==
    ASSUME FabricInv, FabricDelete
    PROVE  FabricInv'
  <1>1. fabric.gen \in Nat
    BY DEF FabricInv, FabricType, Fabric
  <1>2. /\ NoFabric(fabric.gen) \in Fabric /\ NoFabric(fabric.gen).ready # "True"
        /\ NoFabric(fabric.gen).observed <= NoFabric(fabric.gen).gen
    BY <1>1, NoFabricTyped
  <1> QED
    BY <1>2, WriteKept DEF FabricDelete

LEMMA LostKept ==
    ASSUME FabricInv, NEW db \in {"ni", "vlan"}, BackendLost(db)
    PROVE  FabricInv'
  <1>1. FabricType /\ KnownInv /\ SeenInv /\ StageInv
    BY DEF FabricInv
  <1>2. /\ fabric' = fabric /\ fabricOld' = fabricOld /\ fabricCache' = fabricCache
        /\ nw' = nw /\ fabricQueued' = fabricQueued
    BY DEF BackendLost
  <1>3. /\ backend' \in Backend /\ backend'.lost = TRUE
        /\ backend'.there = backend.there \ {db}
        /\ backend'.pools = IF db = "ni" THEN {} ELSE backend.pools
    BY <1>1 DEF BackendLost, FabricType, Backend
  <1>4. FabricType' /\ KnownInv' /\ SeenInv'
    BY <1>1, <1>2, <1>3 DEF FabricType, KnownInv, SeenInv, Observing
  <1>5. StageInv'
    BY <1>1, <1>2, <1>3 DEF StageInv
  <1>6. ReadyMeansBacked'
    BY <1>3 DEF ReadyMeansBacked
  <1> QED
    BY <1>4, <1>5, <1>6 DEF FabricInv

LEMMA FabricKept ==
    ASSUME FabricInv, FabricNext \/ UNCHANGED <<fabric, fabricCache, fabricOld, backend, nw, fabricQueued>>
    PROVE  FabricInv'
  <1>1. ASSUME UNCHANGED <<fabric, fabricCache, fabricOld, backend, nw, fabricQueued>>
        PROVE  FabricInv'
    BY <1>1 DEF FabricInv, FabricType, KnownInv, SeenInv, Observing, StageInv,
                ReadyMeansBacked, Backed
  <1> QED
    BY <1>1, GetKept, InstanceKept, VlanKept, StatusKept, FailKept, EventKept, PutKept,
       FabricDeleteKept, LostKept DEF FabricNext

-----------------------------------------------------------------------------
(* What the invariant says *)

LEMMA SaysTypes ==
    ASSUME PlanInv
    PROVE  TypeOK
  <1>1. FabricType /\ KnownInv /\ CountType
    BY DEF PlanInv, FabricInv
  <1>2. FabricTypeOK
    BY <1>1, FabricFields DEF FabricTypeOK, FabricType, CountType, KnownInv, Reads
  <1>3. ASSUME NEW n \in Names
        PROVE  /\ site[n] \in SiteRecord /\ FieldsOf(n, site[n])
    BY DEF PlanInv, SiteInv
  <1>4. ASSUME NEW p \in Address
        PROVE  p.lo \in Nat /\ p.hi \in Nat
    BY <1>4, InsideFacts, UnsetIsNoNetwork DEF Address
  <1>5. SiteTypeOK
    BY <1>3, <1>4 DEF SiteTypeOK, SiteRecord, FieldsOf
  <1> QED
    BY <1>2, <1>5 DEF TypeOK

LEMMA SaysHosts ==
    ASSUME PlanInv
    PROVE  HostsInside
  BY DEF PlanInv, SiteInv, HostsOf, HostsInside, Derived

LEMMA IndexBounds ==
    ASSUME NEW n \in Names
    PROVE  n \in Seq(Nat) /\ siteIndex(n) \in Nat /\ 2 <= siteIndex(n) /\ siteIndex(n) <= 198
  <1>1. n \in Seq(Nat)
    BY NamesAssumption
  <1>2. siteIndex(n) \in 2..198
    BY <1>1, IndexRange
  <1>3. ASSUME NEW x, x \in 2..198 PROVE x \in Nat /\ 2 <= x /\ x <= 198
    BY <1>3
  <1> QED
    BY <1>1, <1>2, <1>3

\* The network of the field f and the index i.
RangeOf(f, i, l, h) ==
    \/ f = "podCIDR" /\ l = 655360 + 256 * i /\ h = 655615 + 256 * i
    \/ f = "uePool" /\ l = 11272192 + 256 * i /\ h = 11272447 + 256 * i
    \/ f = "accessCIDR" /\ l = 706560 + i /\ h = 706560 + i
    \/ f = "coreCIDR" /\ l = 706816 + i /\ h = 706816 + i

\* A derived range of a site is empty, or the one of its name.
LEMMA NamedRange ==
    ASSUME PlanInv, NEW n \in Names, NEW f \in Ranges, Derived(n, f)
    PROVE  \/ site[n].field[f].lo = 1 /\ site[n].field[f].hi = 0
           \/ RangeOf(f, siteIndex(n), site[n].field[f].lo, site[n].field[f].hi)
  <1> DEFINE d == derivedFields(n, Unset)
             i == siteIndex(n)
  <1>1. FieldsOf(n, site[n])
    BY DEF PlanInv, SiteInv
  <1>2. f \in Named \ site[n].given
    BY DEF Ranges, Named, Fields, Derived
  <1>3. site[n].field[f] = Unset \/ site[n].field[f] = d[f]
    BY <1>1, <1>2 DEF FieldsOf
  <1>4. /\ d["podCIDR"] = Net(10, i, 0, 8) /\ d["uePool"] = Net(172, i, 0, 8)
        /\ d["accessCIDR"] = Net(10, 200, i, 0) /\ d["coreCIDR"] = Net(10, 201, i, 0)
    BY DEF derivedFields
  <1> HIDE DEF d
  <1>5. i \in Nat
    BY IndexBounds
  <1> HIDE DEF i
  <1>6. RangeOf(f, i, d[f].lo, d[f].hi)
    <2>1. CASE f = "podCIDR"
      <3>1. Net(10, i, 0, 8).lo = 655360 + 256 * i /\ Net(10, i, 0, 8).hi = 655615 + 256 * i
        BY <1>5, PodNet, SMT
      <3> QED
        BY <1>4, <2>1, <3>1, SMT DEF RangeOf
    <2>2. CASE f = "uePool"
      <3>1. Net(172, i, 0, 8).lo = 11272192 + 256 * i /\ Net(172, i, 0, 8).hi = 11272447 + 256 * i
        BY <1>5, UeNet, SMT
      <3> QED
        BY <1>4, <2>2, <3>1, SMT DEF RangeOf
    <2>3. CASE f = "accessCIDR"
      BY <1>4, <1>5, <2>3, AccessNet, SMT DEF RangeOf
    <2>4. CASE f = "coreCIDR"
      BY <1>4, <1>5, <2>4, CoreNet, SMT DEF RangeOf
    <2> QED
      BY <2>1, <2>2, <2>3, <2>4 DEF Ranges
  <1> QED
    BY <1>3, <1>6, UnsetIsNoNetwork DEF i

\* Two ranges of names: where they meet they are the same.
LEMMA RangesApart ==
    ASSUME NEW f, NEW g, NEW i \in Nat, NEW j \in Nat, 2 <= i, i <= 198, 2 <= j, j <= 198,
           NEW l, NEW h, NEW a, NEW b,
           (l = 1 /\ h = 0) \/ RangeOf(f, i, l, h),
           (a = 1 /\ b = 0) \/ RangeOf(g, j, a, b),
           l <= b, a <= h
    PROVE  f = g /\ i = j
  <1>1. RangeOf(f, i, l, h) /\ RangeOf(g, j, a, b)
    BY SMT DEF RangeOf
  <1> QED
    BY <1>1, SMT DEF RangeOf

LEMMA SaysDisjoint ==
    ASSUME PlanInv
    PROVE  RangesDisjoint
  <1> SUFFICES ASSUME NEW m \in Names, NEW n \in Names, NEW f \in Ranges, NEW g \in Ranges,
                      Derived(m, f), Derived(n, g), Overlap(site[m].field[f], site[n].field[g])
               PROVE  f = g /\ siteIndex(m) = siteIndex(n)
    BY DEF RangesDisjoint
  <1>1. /\ site[m].field[f].lo <= site[n].field[g].hi
        /\ site[n].field[g].lo <= site[m].field[f].hi
    BY DEF Overlap
  <1> DEFINE l == site[m].field[f].lo
             h == site[m].field[f].hi
             a == site[n].field[g].lo
             b == site[n].field[g].hi
             i == siteIndex(m)
             j == siteIndex(n)
  <1>2. i \in Nat /\ 2 <= i /\ i <= 198 /\ j \in Nat /\ 2 <= j /\ j <= 198
    BY IndexBounds
  <1>3. (l = 1 /\ h = 0) \/ RangeOf(f, i, l, h)
    BY NamedRange
  <1>4. (a = 1 /\ b = 0) \/ RangeOf(g, j, a, b)
    BY NamedRange
  <1>5. l <= b /\ a <= h
    BY <1>1
  <1> HIDE DEF l, h, a, b, i, j
  <1>6. f = g /\ i = j
    BY <1>2, <1>3, <1>4, <1>5, RangesApart
  <1> QED
    BY <1>6 DEF i, j

-----------------------------------------------------------------------------
(* The theorems *)

LEMMA PlanInvInductive ==
    /\ Init => PlanInv
    /\ PlanInv /\ [Next]_vars => PlanInv'
  <1>1. ASSUME Init PROVE PlanInv
    <2>1. NoFabric(0) \in Fabric /\ FabricRead(NoFabric(0)) \in Reads
      BY NoFabricTyped, ReadTyped
    <2>2. /\ fabric = NoFabric(0) /\ fabricCache = FabricRead(fabric) /\ nw = IdleNw
          /\ fabricOld = FALSE /\ fabricQueued = FALSE
          /\ backend = [pools |-> {}, there |-> {}, lost |-> FALSE]
          /\ planEdits = 0 /\ apiFaults = 0
      BY <1>1 DEF Init, FabricInit
    <2>3. backend \in Backend
      BY <2>2 DEF Backend
    <2>4. FabricType /\ CountType
      BY <2>1, <2>2, <2>3, IdleTyped DEF FabricType, CountType
    <2>5. nw.pc = "idle" /\ fabric.ready = "none" /\ fabric.observed = 0 /\ fabric.gen = 0
      BY <2>2, IdleTyped, NoFabricTyped
    <2>6. FabricInv
      BY <2>2, <2>4, <2>5 DEF FabricInv, KnownInv, SeenInv, StageInv, ReadyMeansBacked
    <2> QED
      BY <1>1, <2>4, <2>6, SitesInit DEF Init, PlanInv
  <1>2. ASSUME PlanInv, [Next]_vars PROVE PlanInv'
    <2>1. FabricInv'
      BY <1>2, FabricKept DEF PlanInv, Next, vars, fabricVars
    <2>2. SiteInv'
      BY <1>2, SitesKept DEF PlanInv, Next, vars
    <2>3. /\ planEdits' \in {planEdits, planEdits + 1}
          /\ apiFaults' \in {apiFaults, apiFaults + 1}
      BY <1>2 DEF Next, vars, fabricVars, FabricNext, SiteNext, NetGet, ensureInstance,
                  ensureVlanIndex, NetStatus, NetFail, FabricEvent, NetRestart, NetResync,
                  FabricPut, FabricDelete, FabricWrite, BackendLost, PlanEdit, ApiFault
    <2>4. CountType'
      BY <1>2, <2>3 DEF PlanInv, CountType
    <2> QED
      BY <2>1, <2>2, <2>4 DEF PlanInv
  <1> QED
    BY <1>1, <1>2

\* Every variable has its type in every reachable state, and a reconcile in progress
\* is for a fabric that was there.
THEOREM PlanTypeCorrect == Spec => []TypeOK
  BY PlanInvInductive, SaysTypes, PTL DEF Spec

\* Ready, said of the present generation, means that both databases are those of the
\* fabric or that somebody deleted one: for any plans, and however often the fabric is
\* edited, deleted and made again, and calls fail or the controller restarts.
THEOREM ReadyIsBacked == Spec => []ReadyMeansBacked
  <1>1. PlanInv => ReadyMeansBacked
    BY DEF PlanInv, FabricInv
  <1> QED
    BY <1>1, PlanInvInductive, PTL DEF Spec

\* Derived hosts are in the networks of their site, for any names, overrides, servers
\* and nodes: a site is derived in one step, and an empty field is never half of a pair.
THEOREM HostsAreInside == Spec => []HostsInside
  BY PlanInvInductive, SaysHosts, PTL DEF Spec

\* Derived networks of sites of any names overlap only where the names have the same
\* index, and then in the same field.
THEOREM RangesAreDisjoint == Spec => []RangesDisjoint
  BY PlanInvInductive, SaysDisjoint, PTL DEF Spec

\* The pools of fabric/network-intent.yaml.
ShippedPools == {Net(172, 0, 0, 8), Net(172, 1, 0, 8), Net(172, 2, 0, 8), Net(100, 64, 0, 14)}

LEMMA SaysApart ==
    ASSUME PlanInv, Plans \subseteq SUBSET ShippedPools
    PROVE  PoolsApart
  <1> SUFFICES ASSUME NEW p \in backend.pools, NEW n \in Names, NEW f \in Ranges,
                      Derived(n, f), Overlap(p, site[n].field[f])
               PROVE  f = "uePool" /\ siteIndex(n) = 2
    BY DEF PoolsApart
  <1>1. backend.pools \in Plans \cup {{}}
    BY FabricFields DEF PlanInv, FabricInv
  <1>2. p \in ShippedPools
    BY <1>1
  <1>3. \/ p.lo = 11272192 /\ p.hi = 11272447
        \/ p.lo = 11272448 /\ p.hi = 11272703
        \/ p.lo = 11272704 /\ p.hi = 11272959
        \/ p.lo = 6569984 /\ p.hi = 6586367
    <2>1. Net(172, 0, 0, 8).lo = 11272192 /\ Net(172, 0, 0, 8).hi = 11272447
      BY Powers, SMT DEF Net
    <2>2. Net(172, 1, 0, 8).lo = 11272448 /\ Net(172, 1, 0, 8).hi = 11272703
      BY Powers, SMT DEF Net
    <2>3. Net(172, 2, 0, 8).lo = 11272704 /\ Net(172, 2, 0, 8).hi = 11272959
      BY Powers, SMT DEF Net
    <2> QED
      BY <1>2, <2>1, <2>2, <2>3, OtherNets, SMT DEF ShippedPools
  <1> DEFINE l == site[n].field[f].lo
             h == site[n].field[f].hi
  <1>4. p.lo <= h /\ l <= p.hi
    BY DEF Overlap
  <1>5. (l = 1 /\ h = 0) \/ RangeOf(f, siteIndex(n), l, h)
    BY NamedRange
  <1>6. siteIndex(n) \in Nat /\ 2 <= siteIndex(n) /\ siteIndex(n) <= 198
    BY IndexBounds
  <1> HIDE DEF l, h
  <1> QED
    BY <1>3, <1>4, <1>5, <1>6, SMT DEF RangeOf

\* With the pools of the repository, the databases hand out nothing a site has, except
\* that the UE pool of a site of index 2 is the N3 pool, whatever the names are.
THEOREM PoolsStayApart ==
    ASSUME Plans \subseteq SUBSET ShippedPools
    PROVE  Spec => []PoolsApart
  <1>1. PlanInv => PoolsApart
    BY SaysApart
  <1> QED
    BY <1>1, PlanInvInductive, PTL DEF Spec
=============================================================================
