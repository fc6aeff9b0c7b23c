------------------------ MODULE MCIncidentLifecycle ------------------------
(***************************************************************************)
(* Instances of IncidentLifecycle: incidents of checks of the vendor acme, *)
(* v1 reported by acme and v2 by another vendor.  The rounds are alike,    *)
(* and so are the requests.                                                *)
(***************************************************************************)
EXTENDS IncidentLifecycle, TLC

CONSTANTS acme, other, v2

MCVendorOf == [i \in Incidents |-> acme]
MCReportedBy == [v \in VendorIncidents |-> IF v = v2 THEN other ELSE acme]

MCSymmetry ==
    Permutations(Requests) \union Permutations(Rounds) \union Permutations(VendorIncidents \ {v2})
============================================================================
