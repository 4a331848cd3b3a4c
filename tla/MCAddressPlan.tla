---------------------------- MODULE MCAddressPlan ----------------------------
EXTENDS AddressPlan

\* "cr" and "e4" have the index 33, "br" has the least one, 2.
ThreeNames == {<<99, 114>>, <<101, 52>>, <<98, 114>>}

\* The fabrics of fabric/network-intent.yaml.
ShippedPlans == {{Net(172, 2, 0, 8)}, {Net(172, 0, 0, 8), Net(100, 64, 0, 14)}}

\* Nothing, a RAN subnet, and a UE pool together with one of two N3 fields.
SomeOverrides == {[f \in {} |-> Unset],
                  [ranSubnet |-> Net(10, 77, 0, 8)],
                  [uePool |-> Net(172, 33, 0, 8), accessCIDR |-> Net(10, 9, 9, 0)]}

SomeServers == {Unset, Net(192, 168, 7, 0)}
ColocatedOrNot == {[colocated |-> TRUE, server |-> Unset],
                   [colocated |-> FALSE, server |-> Net(192, 168, 7, 0)]}
TwoNodes == {[cp |-> TRUE, ip |-> Net(192, 168, 8, 0)], [cp |-> FALSE, ip |-> Net(192, 168, 9, 0)]}
=============================================================================
