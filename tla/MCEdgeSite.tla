----------------------------- MODULE MCEdgeSite -----------------------------
EXTENDS EdgeSite

\* One of the four IPClaims, which are all treated alike.
OneClaim == <<"pod">>

\* None, where the claims play no part.
NoClaim == <<>>

Core(colocated, ran) == [role |-> "cp+upf", colocated |-> colocated, ran |-> ran]
Edge(colocated) == [role |-> "upf-only", colocated |-> colocated, ran |-> "none"]

\* Two gNBs of a core, and an edge that shares the management cluster.
RanCoresOrEdge == {Core(FALSE, "zmq"), Core(FALSE, "uhd-net"), Edge(TRUE)}
ColocatedEdges == {Edge(TRUE)}
=============================================================================
