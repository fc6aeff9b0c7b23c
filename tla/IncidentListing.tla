--------------------------- MODULE IncidentListing ---------------------------
(***************************************************************************)
(* GET /incidents and the panel that shows it, on top of IncidentLifecycle.*)
(* A listing is two reads at different times, of the incidents and of the  *)
(* vendors' incidents (and a third that only words the messages); the      *)
(* browser asks anew every ten seconds, whether or not the last answer has *)
(* come, and draws what arrives.                                           *)
(***************************************************************************)
EXTENDS IncidentLifecycle

CONSTANTS Loads     \* fetches of the list that may be in flight at once

ASSUME ListingAssumption == Incidents \intersect VendorIncidents = {}

VARIABLES
    load,           \* load[l]: a fetch of the list in flight
    liveIncidents   \* what the panel shows: incidents and their states

listingVars == <<load, liveIncidents>>

\* A fetch is told by the reads it still lacks and what the others returned.
NoLoad == [lacks |-> {"rows", "reported"}, rows |-> <<>>, reported |-> <<>>]

ListingInit == Init /\ load = [l \in Loads |-> NoLoad] /\ liveIncidents = {}

----------------------------------------------------------------------------
(* The answer.                                                             *)

vendorStatusToIncidentState ==
    [investigating |-> "investigating", identified |-> "identified",
     monitoring |-> "monitoring", postmortem |-> "monitoring", resolved |-> "resolved"]

mapPulseIncident(i, r) == [id |-> i, state |-> r.state, vendorIncident |-> r.link]

mapVendorOnlyIncident(v, status) ==
    [id |-> v, state |-> vendorStatusToIncidentState[status], vendorIncident |-> v]

\* The vendor incidents no row is linked to are reported on their own.
ListByTenant(rows, reported) ==
    LET listed == {i \in DOMAIN rows : rows[i] # NoRow}
        linked == {rows[i].link : i \in listed}
    IN  {mapPulseIncident(i, rows[i]) : i \in listed}
          \union {mapVendorOnlyIncident(v, reported[v]) : v \in DOMAIN reported \ linked}

----------------------------------------------------------------------------
(* The fetch: two reads in either order, then its answer is drawn.         *)

ReadRows(l) ==
    /\ "rows" \in load[l].lacks
    /\ load' = [load EXCEPT ![l].rows = row, ![l].lacks = @ \ {"rows"}]
    /\ UNCHANGED <<vars, liveIncidents>>

\* Fewer than the fifty incidents the query takes are active.
Active == {v \in VendorIncidents : vendorStatus[v] \notin {"absent", "resolved"}}

ReadVendorIncidents(l) ==
    /\ "reported" \in load[l].lacks
    /\ load' = [load EXCEPT ![l].reported = [v \in Active |-> vendorStatus[v]],
                            ![l].lacks = @ \ {"reported"}]
    /\ UNCHANGED <<vars, liveIncidents>>

\* Mutant of mapApiIncident: what is resolved stays on the panel.
mapApiIncidentAll(list) == {[id |-> n.id, state |-> n.state] : n \in list}

\* The panel drops what is resolved.
mapApiIncident(list) == {[id |-> n.id, state |-> n.state] : n \in {n \in list : n.state # "resolved"}}

SetLiveIncidents(l) ==
    /\ load[l].lacks = {}
    /\ liveIncidents' = mapApiIncident(ListByTenant(load[l].rows, load[l].reported))
    /\ load' = [load EXCEPT ![l] = NoLoad]
    /\ UNCHANGED vars

\* A failed fetch is ignored.
LoadFails(l) ==
    /\ load[l] # NoLoad
    /\ faults < MaxFaults
    /\ faults' = faults + 1
    /\ load' = [load EXCEPT ![l] = NoLoad]
    /\ UNCHANGED <<row, timeline, vendorStatus, opening, request, round, reached, served, liveIncidents>>

LoadIncidents(l) ==
    \/ ReadRows(l)
    \/ ReadVendorIncidents(l)
    \/ SetLiveIncidents(l)

ListingNext ==
    \/ Next /\ UNCHANGED listingVars
    \/ \E l \in Loads : LoadIncidents(l) \/ LoadFails(l)

(* The interval fires for ever, an answer that was sent arrives or fails,  *)
(* and the alerter's rounds run on as in FairSpec.                         *)
ListingSpec ==
    /\ ListingInit /\ [][ListingNext]_<<vars, listingVars>>
    /\ \A k \in Rounds : WF_vars(Recheck(k))
    /\ \A l \in Loads : WF_<<vars, listingVars>>(LoadIncidents(l))

----------------------------------------------------------------------------

(* Whenever the reads of a listing fall, the panel ends with what is so:   *)
(* each unresolved incident, and each active incident of a vendor that no  *)
(* incident is linked to, is shown in its state, and no other is.          *)
Current ==
    {[id |-> i, state |-> row[i].state] :
        i \in {i \in Incidents : Exists(i) /\ row[i].state # "resolved"}}
    \union
    {[id |-> v, state |-> vendorStatusToIncidentState[vendorStatus[v]]] :
        v \in {v \in Active : \A i \in Incidents : Exists(i) => row[i].link # v}}

ShownInTheEnd ==
    \A id \in Incidents \union VendorIncidents, state \in States :
        LET entry == [id |-> id, state |-> state]
        IN  /\ <>[](entry \in Current) => <>[](entry \in liveIncidents)
            /\ <>[](entry \notin Current) => <>[](entry \notin liveIncidents)
==============================================================================
