------------------------------ MODULE Addressing ------------------------------
(***************************************************************************)
(* The address plan of the sites: what deriveAddressing                    *)
(* (edgesite_controller.go) writes into the fields of an EdgeSite that the *)
(* user left empty.  Module SiteIntent has the allocation of the VIP's     *)
(* last octet and the races around it; here are the networks.  The update  *)
(* is refused unless the version that was read is the current one, so that *)
(* reading and writing a site is one step.                                 *)
(*                                                                         *)
(* A name is the sequence of its characters' codes.  A network is the      *)
(* interval of the /24 networks in it, a host address the /24 it is in.    *)
(***************************************************************************)
EXTENDS Integers, Sequences

CONSTANTS
    Names,      \* names of EdgeSites
    Overrides,  \* what a user may write into the fields of a new site
    Servers,    \* networks in which a server may be, or Unset
    Places,     \* where a new site may be: colocated or not, and its server
    Nodes       \* the nodes of the management cluster: [cp |-> ..., ip |-> ...]

VARIABLE site   \* the EdgeSite of each name: its fields and what the user gave

ASSUME NamesAssumption == \A n \in Names : n \in Seq(Nat)
ASSUME PlacesAssumption == Places \subseteq [colocated : BOOLEAN, server : Servers]

-----------------------------------------------------------------------------
(* Networks *)

Network == {p \in [lo : Nat, hi : Nat] : p.lo <= p.hi}
Unset == [lo |-> 1, hi |-> 0]

ASSUME ServersAssumption == Unset \in Servers /\ Servers \subseteq Network \cup {Unset}
ASSUME NodesAssumption == Nodes \subseteq [cp : BOOLEAN, ip : Network \cup {Unset}]

\* a.b.c.0/(24 - bits)
Net(a, b, c, bits) ==
    LET size == 2 ^ bits
        low == ((a * 65536 + b * 256 + c) \div size) * size
    IN  [lo |-> low, hi |-> low + size - 1]

Overlap(p, q) == p.lo <= q.hi /\ q.lo <= p.hi
Inside(p, q) == q.lo <= p.lo /\ p.hi <= q.hi

Fields == {"podCIDR", "uePool", "accessCIDR", "coreCIDR", "accessGw", "coreGw",
           "coreNextHop", "gnbIP", "ranSubnet", "n2VIP"}
Ranges == {"podCIDR", "uePool", "accessCIDR", "coreCIDR"}

ASSUME OverridesAssumption ==
    \A over \in Overrides : /\ DOMAIN over \subseteq Fields
                            /\ \A f \in DOMAIN over : over[f] \in Network

\* The network each host address is to be in.
Home == [accessGw |-> "accessCIDR", gnbIP |-> "accessCIDR", coreGw |-> "coreCIDR",
         coreNextHop |-> "coreCIDR", n2VIP |-> "ranSubnet"]

\* The hash of the first k characters of a name, for each k.
nameHash(name, m) ==
    LET h[k \in 0..Len(name)] == IF k = 0 THEN 0 ELSE (h[k - 1] * 31 + name[k]) % m
    IN  h

\* Mutant: the modulus does not leave 200 and 201 to N3 and N6.
siteIndexMutant(name) == nameHash(name, 199)[Len(name)] + 2

\* Mutant: the octets of the fabric's own pools are not left out.
siteIndexFromZeroMutant(name) == nameHash(name, 197)[Len(name)]

\* The octet of a name, 2 to 198.
siteIndex(name) == nameHash(name, 197)[Len(name)] + 2

\* What the fields of a site of this name are, if they are empty.  The RAN subnet
\* is a part of its L2, base, with the VIPs.
derivedFields(name, base) ==
    LET i == siteIndex(name)
    IN  [podCIDR |-> Net(10, i, 0, 8), uePool |-> Net(172, i, 0, 8),
         accessCIDR |-> Net(10, 200, i, 0), coreCIDR |-> Net(10, 201, i, 0),
         accessGw |-> Net(10, 200, i, 0), coreGw |-> Net(10, 201, i, 0),
         coreNextHop |-> Net(10, 201, i, 0), gnbIP |-> Net(10, 200, i, 0),
         ranSubnet |-> base, n2VIP |-> base]

\* The addresses mgmtNodeIP may return: that of a control-plane node if one has an
\* address, else of any node; the list is in no order.  It may fail.
mgmtNodeIP ==
    LET up == {n \in Nodes : n.ip # Unset}
        cp == {n \in up : n.cp}
    IN  {n.ip : n \in IF cp # {} THEN cp ELSE up} \cup {Unset}

Or(p, q) == IF p # Unset THEN p ELSE q

\* The first three octets.
netBase(p) == IF p = Unset THEN p ELSE [lo |-> p.lo, hi |-> p.lo]

\* The L2 of the RAN: of the configured subnet, else of the management node or the
\* server, else the one of the lab.
ranBase(es, node) ==
    Or(netBase(es.field.ranSubnet),
       Or(IF es.colocated THEN Or(node, es.server) ELSE es.server, Net(192, 168, 4, 0)))

deriveAddressing(name, es, base) ==
    [es EXCEPT !.field = [f \in Fields |-> Or(es.field[f], derivedFields(name, base)[f])]]

-----------------------------------------------------------------------------
(* Sites *)

NoFields == [f \in Fields |-> Unset]
NoSite == [live |-> FALSE, colocated |-> FALSE, server |-> Unset, field |-> NoFields, given |-> {}]

SiteCreate(n, over, place) ==
    /\ ~site[n].live
    /\ site' = [site EXCEPT ![n] =
          [live |-> TRUE, colocated |-> place.colocated, server |-> place.server,
           field |-> [f \in Fields |-> IF f \in DOMAIN over THEN over[f] ELSE Unset],
           given |-> DOMAIN over]]

\* Mutant: the nodes are listed once for each of the two fields.
SiteDeriveMutant(n) ==
    /\ site[n].live
    /\ \E one, two \in mgmtNodeIP :
          site' = [site EXCEPT ![n] = [deriveAddressing(n, @, ranBase(@, one)) EXCEPT
                      !.field.n2VIP = Or(site[n].field.n2VIP, ranBase(site[n], two))]]

\* The part of a reconcile that derives the addressing.
SiteDerive(n) ==
    /\ site[n].live
    /\ \E node \in mgmtNodeIP :
          site' = [site EXCEPT ![n] = deriveAddressing(n, @, ranBase(@, node))]

\* The server of a site is another one.
SiteMove(n, server) ==
    /\ site[n].live /\ site[n].server # server
    /\ site' = [site EXCEPT ![n].server = server]

SiteDelete(n) ==
    /\ site[n].live
    /\ site' = [site EXCEPT ![n] = NoSite]

SiteInit == site = [n \in Names |-> NoSite]

-----------------------------------------------------------------------------
(* Properties *)

\* The sites are well typed, and no field the user gave is empty.
SiteTypeOK ==
    \A n \in Names :
        /\ site[n].live \in BOOLEAN /\ site[n].colocated \in BOOLEAN
        /\ site[n].server \in Servers
        /\ site[n].given \subseteq Fields
        /\ \A f \in Fields : site[n].field[f].lo \in Nat /\ site[n].field[f].hi \in Nat
        /\ \A f \in site[n].given : site[n].field[f] # Unset

Derived(n, f) == f \notin site[n].given

\* "All within the site's 10.200.<idx>/10.201.<idx> subnets", and the VIP "a bare IP
\* within RanSubnet": the derived gateways, gNB and next hop are in the derived
\* networks of their site, and a derived VIP is in the RAN subnet, the user's or the
\* derived one, wherever the server has moved and whether or not the nodes could
\* be listed.
HostsInside ==
    \A n \in Names, f \in DOMAIN Home :
        Derived(n, f) /\ (Derived(n, Home[f]) \/ f = "n2VIP") /\ site[n].field[f] # Unset
            => Inside(site[n].field[f], site[n].field[Home[f]])

\* "Non-overlapping via the name index": derived networks of one site never overlap,
\* and those of two sites only where the index of their names is the same, and then
\* in the same field; pods never meet the N3 and N6 networks.
RangesDisjoint ==
    \A m, n \in Names, f, g \in Ranges :
        Derived(m, f) /\ Derived(n, g) /\ Overlap(site[m].field[f], site[n].field[g])
            => f = g /\ siteIndex(m) = siteIndex(n)
=============================================================================
