---------------------------- MODULE MCSiteIntent ----------------------------
EXTENDS SiteIntent

\* Both names hash to the same start of the probe.
SameStart == [s \in Sites |-> 0]
=============================================================================
