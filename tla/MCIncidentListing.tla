------------------------- MODULE MCIncidentListing -------------------------
(***************************************************************************)
(* The instance of IncidentListing: one incident of a check of a vendor,   *)
(* one incident of that vendor, one request, one round and one fetch at a  *)
(* time, one fault.  Requests and rounds that race have instances of their *)
(* own in MCIncidentLifecycle.                                             *)
(***************************************************************************)
EXTENDS IncidentListing

CONSTANTS acme

MCVendorOf == [i \in Incidents |-> acme]
MCReportedBy == [v \in VendorIncidents |-> acme]
============================================================================
