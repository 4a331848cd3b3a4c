------------------------------- MODULE SiteLife -------------------------------
(***************************************************************************)
(* What the management cluster promises about an EdgeSite, without caches, *)
(* workqueues, versions or controllers: a site appears, is addressed once  *)
(* and as a whole, is deployed only after that, may fail, and may get      *)
(* another role without losing its address.  Only its deletion ends this.  *)
(* Module SiteIntent implements it.                                        *)
(***************************************************************************)
CONSTANTS Names, Roles

VARIABLE life   \* of each name: the site as its user sees it

Unaddressed == 0
Absent == [live |-> FALSE, role |-> "none", vip |-> Unaddressed,
           addressed |-> FALSE, phase |-> "none"]

Becomes(s, new) == life' = [life EXCEPT ![s] = new]

\* A new site has no address, except for a VIP that its user pinned.
Appear(s) ==
    /\ life[s] = Absent
    /\ life'[s].live /\ life'[s].role \in Roles
    /\ Becomes(s, [Absent EXCEPT !.live = TRUE, !.role = life'[s].role, !.vip = life'[s].vip])

\* The VIP is chosen unless it is pinned, together with all other fields.
Address(s) ==
    /\ life[s].live /\ ~life[s].addressed
    /\ life'[s].vip # Unaddressed
    /\ life[s].vip # Unaddressed => life'[s].vip = life[s].vip
    /\ Becomes(s, [life[s] EXCEPT !.addressed = TRUE, !.vip = life'[s].vip])

Deploy(s) ==
    /\ life[s].live /\ life[s].addressed
    /\ Becomes(s, [life[s] EXCEPT !.phase = "Deploying"])

Fail(s) ==
    /\ life[s].live
    /\ Becomes(s, [life[s] EXCEPT !.phase = "Failed"])

\* Another role, under which the site has yet to be deployed.
Rerole(s) ==
    /\ life[s].live
    /\ life'[s].role \in Roles
    /\ Becomes(s, [life[s] EXCEPT !.role = life'[s].role])

Remove(s) ==
    /\ life[s].live
    /\ Becomes(s, Absent)

Init == life = [s \in Names |-> Absent]

Next ==
    \E s \in Names :
        Appear(s) \/ Address(s) \/ Deploy(s) \/ Fail(s) \/ Rerole(s) \/ Remove(s)

Spec == Init /\ [][Next]_life
=============================================================================
