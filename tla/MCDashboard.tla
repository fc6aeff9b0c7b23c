----------------------------- MODULE MCDashboard -----------------------------
(***************************************************************************)
(* The instance of Dashboard: two ranges, the latency series and one other *)
(* part, two loads in flight.  A day of the first version has no signal.   *)
(***************************************************************************)
EXTENDS Dashboard

Setting(range) == [range |-> range, group |-> "all"]

MCFilters == {Setting("24h"), Setting("7d")}

MCParts == <<"latency-series", "summary">>

MCSilent == {[filter |-> Setting("24h"), version |-> 0]}
=============================================================================
