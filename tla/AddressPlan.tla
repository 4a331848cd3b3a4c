----------------------------- MODULE AddressPlan -----------------------------
(***************************************************************************)
(* The address space of the deployment: the networks derived for the sites *)
(* (module Addressing) and the pools the fabric gives the IPAM             *)
(* (module NetworkFabric).  Nothing in the code compares the two.          *)
(***************************************************************************)
EXTENDS NetworkFabric, Addressing

vars == <<fabricVars, site>>

SiteNext ==
    \/ \E n \in Names, over \in Overrides, place \in Places :
          PlanEdit /\ SiteCreate(n, over, place)
    \/ \E n \in Names, server \in Servers : PlanEdit /\ SiteMove(n, server)
    \/ \E n \in Names : PlanEdit /\ SiteDelete(n)
    \/ \E n \in Names : SiteDerive(n) /\ UNCHANGED planEdits

Init == FabricInit /\ SiteInit

Next ==
    \/ FabricNext /\ UNCHANGED site
    \/ SiteNext /\ UNCHANGED <<fabric, fabricCache, fabricOld, backend, nw, fabricQueued, apiFaults>>

Spec == Init /\ [][Next]_vars

\* The controller and the watch keep going; nobody else is obliged to act, and the
\* resync is too rare to be counted on.
FairSpec == Spec /\ WF_fabricVars(NetStep) /\ WF_fabricVars(FabricEvent)

-----------------------------------------------------------------------------

\* Every variable has its type, and a reconcile is only for a fabric that was there.
TypeOK == FabricTypeOK /\ SiteTypeOK

\* The pools of the fabric that comes with the repository (172.0 to 172.2 and
\* 100.64/10) and the networks of a site meet in one case only: the UE pool of a
\* site whose index is 2 is the N3 pool.  That holds at any time for what the
\* databases hand out, not only for what the fabric says.
PoolsApart ==
    \A p \in backend.pools, n \in Names, f \in Ranges :
        Derived(n, f) /\ Overlap(p, site[n].field[f]) => f = "uePool" /\ siteIndex(n) = 2
=============================================================================
