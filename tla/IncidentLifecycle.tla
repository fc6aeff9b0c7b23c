------------------------- MODULE IncidentLifecycle -------------------------
(***************************************************************************)
(* The rows of incidents and incident_updates after a dedup key has been   *)
(* won: the alerter correlates and inserts them, people move them through  *)
(* PATCH /incidents/:id/state and POST /incidents/:id/updates, and the     *)
(* alerter's minute timer confirms the ones their vendor reports later.    *)
(* One action per database call: none of these handlers uses a transaction,*)
(* so requests and recheck rounds interleave between any two of them.      *)
(*                                                                         *)
(* vendor_incidents is written by the statuspage poller, here environment. *)
(* Which of a vendor's open incidents was updated last, matches the check  *)
(* or started within ten minutes is a free choice, and so is which of the  *)
(* openings and rounds at work share a process.                            *)
(***************************************************************************)
EXTENDS Naturals, Sequences, FiniteSets

CONSTANTS
    Incidents,      \* dedup keys won, each at most one row
    Vendors, NoVendor,
    VendorOf,       \* VendorOf[i]: vendor tag of the check of i, or NoVendor
    VendorIncidents,
    ReportedBy,     \* ReportedBy[v]: the vendor that reports v
    Statuses,       \* what the vendors say of their incidents
    NoLink,
    Requests,       \* API requests that may be in flight at once
    Rounds,         \* recheck rounds that may be in flight at once
    NoRow,
    MaxRequests, MaxFaults      \* bounds of the model

VendorStatuses == {"investigating", "identified", "monitoring", "resolved", "postmortem"}

ASSUME VendorAssumption ==
    /\ Statuses \subseteq VendorStatuses
    /\ VendorOf \in [Incidents -> Vendors \union {NoVendor}]
    /\ ReportedBy \in [VendorIncidents -> Vendors]
    /\ NoVendor \notin Vendors /\ NoLink \notin VendorIncidents
ASSUME RoundsAssumption == IsFiniteSet(Rounds)
ASSUME BoundAssumption == MaxRequests \in Nat /\ MaxFaults \in Nat

States == {"investigating", "identified", "monitoring", "resolved"}

transitionOrder ==
    [investigating |-> 0, identified |-> 1, monitoring |-> 2, resolved |-> 3]

(* A row: resolvedAt matters by being set or null; source is "confirmed"   *)
(* exactly with correlationStatus, and confirmedByVendorAt with the link.  *)
Rows == [state: States, resolvedAt: BOOLEAN,
         correlation: {"none", "unconfirmed", "confirmed"},
         link: VendorIncidents \union {NoLink}]

ASSUME NoRowAssumption == NoRow \notin Rows

VARIABLES
    row,            \* row[i]: the row of incident i, or NoRow
    timeline,       \* timeline[i]: rows of incident_updates, as they came
    vendorStatus,   \* vendorStatus[v]: status of the row of v in vendor_incidents
    opening,        \* opening[i]: the tail of handleProbeResult that opens i
    request,        \* request[q]: an API request in flight
    round,          \* round[k]: a run of recheckUnconfirmedIncidents
    reached,        \* history: the states the row of incident i has had
    served, faults

vars == <<row, timeline, vendorStatus, opening, request, round, reached, served, faults>>

Kinds == {"transition", "update", "unreported", "confirmed"}
Entries == [kind: Kinds, state: States]

Openings == [stage: {"none", "insert", "note", "done"},
             correlation: {"none", "unconfirmed", "confirmed"},
             link: VendorIncidents \union {NoLink}]

NoOpening == [stage |-> "none", correlation |-> "none", link |-> NoLink]

\* What a request carries from one of its database calls to the next.
Calls == [stage: {"update", "note"}, inc: Incidents, kind: Kinds, state: States,
          resolvedAt: BOOLEAN, message: BOOLEAN]

NoCall == [stage |-> "none"]

Pending == Incidents \X States

RoundsInFlight ==
    [stage: {"each"}, pending: SUBSET Pending]
        \union [stage: {"confirm", "note"}, pending: SUBSET Pending,
                current: Pending, found: VendorIncidents]

NoRound == [stage |-> "none"]

TypeOK ==
    /\ row \in [Incidents -> Rows \union {NoRow}]
    /\ timeline \in [Incidents -> Seq(Entries)]
    /\ vendorStatus \in [VendorIncidents -> {"absent"} \union VendorStatuses]
    /\ opening \in [Incidents -> Openings]
    /\ request \in [Requests -> Calls \union {NoCall}]
    /\ round \in [Rounds -> RoundsInFlight \union {NoRound}]
    /\ reached \in [Incidents -> SUBSET States]
    /\ served \in Nat /\ faults \in Nat

Init ==
    /\ row = [i \in Incidents |-> NoRow]
    /\ timeline = [i \in Incidents |-> <<>>]
    /\ vendorStatus = [v \in VendorIncidents |-> "absent"]
    /\ opening = [i \in Incidents |-> NoOpening]
    /\ request = [q \in Requests |-> NoCall]
    /\ round = [k \in Rounds |-> NoRound]
    /\ reached = [i \in Incidents |-> {}]
    /\ served = 0 /\ faults = 0

Exists(i) == row[i] # NoRow

\* Mutant of Open: any vendor's incident will do.
OpenAnywhere(vendor) ==
    {v \in VendorIncidents : vendorStatus[v] \notin {"absent", "resolved"}}

(* What the alerter takes for active: a row whose status is not "resolved",*)
(* and so also one whose postmortem is out.                                *)
Open(vendor) ==
    {v \in VendorIncidents : ReportedBy[v] = vendor /\ vendorStatus[v] \notin {"absent", "resolved"}}

Note(i, kind, state) ==
    timeline' = [timeline EXCEPT ![i] = Append(@, [kind |-> kind, state |-> state])]

Reach(i, state) == reached' = [reached EXCEPT ![i] = @ \union {state}]

----------------------------------------------------------------------------
(* The statuspage poller's upserts: a vendor's incident appears and is     *)
(* whatever the vendor says next.                                          *)

Upsert(v) ==
    /\ \E status \in Statuses \ {vendorStatus[v]} :
          vendorStatus' = [vendorStatus EXCEPT ![v] = status]
    /\ UNCHANGED <<row, timeline, opening, request, round, reached, served, faults>>

----------------------------------------------------------------------------
(* The alerter opens the incident: getCorrelation, create, note.           *)

GetCorrelation(i) ==
    /\ opening[i].stage = "none"
    /\ \E correlation \in {"none", "unconfirmed", "confirmed"},
          link \in VendorIncidents \union {NoLink} :
          /\ correlation = "none" <=> VendorOf[i] = NoVendor
          /\ IF correlation = "confirmed" THEN link \in Open(VendorOf[i])
                                          ELSE link = NoLink
          /\ opening' = [opening EXCEPT ![i] =
                [stage |-> "insert", correlation |-> correlation, link |-> link]]
    /\ UNCHANGED <<row, timeline, vendorStatus, request, round, reached, served, faults>>

\* Mutant of InsertIncident: the state is written in the vendor's words.
InsertAsOpen(i) ==
    LET o == opening[i]
    IN  /\ o.stage = "insert"
        /\ row' = [row EXCEPT ![i] =
                [state |-> "open", resolvedAt |-> FALSE,
                 correlation |-> o.correlation, link |-> o.link]]
        /\ opening' = [opening EXCEPT ![i].stage =
                IF o.correlation = "none" THEN "done" ELSE "note"]
        /\ Reach(i, "open")
        /\ UNCHANGED <<timeline, vendorStatus, request, round, served, faults>>

InsertIncident(i) ==
    LET o == opening[i]
    IN  /\ o.stage = "insert"
        /\ row' = [row EXCEPT ![i] =
                [state |-> "investigating", resolvedAt |-> FALSE,
                 correlation |-> o.correlation, link |-> o.link]]
        /\ opening' = [opening EXCEPT ![i].stage =
                IF o.correlation = "none" THEN "done" ELSE "note"]
        /\ Reach(i, "investigating")
        /\ UNCHANGED <<timeline, vendorStatus, request, round, served, faults>>

NoteOpening(i) ==
    /\ opening[i].stage = "note"
    /\ Note(i, IF opening[i].correlation = "confirmed" THEN "confirmed" ELSE "unreported",
            "investigating")
    /\ opening' = [opening EXCEPT ![i].stage = "done"]
    /\ UNCHANGED <<row, vendorStatus, request, round, reached, served, faults>>

(* A call fails or the alerter dies: the dedup key keeps a redelivery from *)
(* finishing the job.                                                      *)
OpeningFails(i) ==
    /\ opening[i].stage \in {"insert", "note"}
    /\ faults < MaxFaults
    /\ faults' = faults + 1
    /\ opening' = [opening EXCEPT ![i].stage = "done"]
    /\ UNCHANGED <<row, timeline, vendorStatus, request, round, reached, served>>

----------------------------------------------------------------------------
(* The API: transition and addUpdate of incidents.repository.ts.           *)

Begin(q, call) ==
    /\ served < MaxRequests
    /\ request[q] = NoCall
    /\ request' = [request EXCEPT ![q] = call]
    /\ served' = served + 1
    /\ UNCHANGED <<row, timeline, vendorStatus, opening, round, reached, faults>>

(* transition reads the row, refuses to move it backwards and settles on   *)
(* the resolvedAt it will write.  (A refused or unknown request changes    *)
(* nothing.)                                                               *)
Forward(i, state) == transitionOrder[state] >= transitionOrder[row[i].state]

\* Mutant of ReadForTransition: resolving keeps the resolvedAt of the row.
ReadWithoutStamp(q, i, state, message) ==
    /\ Exists(i)
    /\ Forward(i, state)
    /\ Begin(q, [stage |-> "update", inc |-> i, kind |-> "transition",
                 state |-> state, message |-> message,
                 resolvedAt |-> row[i].resolvedAt])

ReadForTransition(q, i, state, message) ==
    /\ Exists(i)
    /\ Forward(i, state)
    /\ Begin(q, [stage |-> "update", inc |-> i, kind |-> "transition",
                 state |-> state, message |-> message,
                 resolvedAt |-> state = "resolved" \/ row[i].resolvedAt])

(* The update writes state and resolvedAt, whatever the row holds by now.  *)
UpdateIncident(q) ==
    LET c == request[q]
    IN  /\ c.stage = "update"
        /\ row' = [row EXCEPT ![c.inc].state = c.state,
                              ![c.inc].resolvedAt = c.resolvedAt]
        /\ request' = [request EXCEPT ![q] =
                IF c.message THEN [c EXCEPT !.stage = "note"] ELSE NoCall]
        /\ Reach(c.inc, c.state)
        /\ UNCHANGED <<timeline, vendorStatus, opening, round, served, faults>>

(* addUpdate notes the state it is given, or the one it reads.             *)
ReadForUpdate(q, i, state) ==
    /\ Exists(i)
    /\ Begin(q, [stage |-> "note", inc |-> i, kind |-> "update",
                 state |-> state, message |-> TRUE,
                 resolvedAt |-> row[i].resolvedAt])

CreateUpdate(q) ==
    LET c == request[q]
    IN  /\ c.stage = "note"
        /\ Note(c.inc, c.kind, c.state)
        /\ request' = [request EXCEPT ![q] = NoCall]
        /\ UNCHANGED <<row, vendorStatus, opening, round, reached, served, faults>>

RequestFails(q) ==
    /\ request[q] # NoCall
    /\ faults < MaxFaults
    /\ faults' = faults + 1
    /\ request' = [request EXCEPT ![q] = NoCall]
    /\ UNCHANGED <<row, timeline, vendorStatus, opening, round, reached, served>>

----------------------------------------------------------------------------
(* recheckUnconfirmedIncidents, started every minute by each alerter.      *)

\* Mutant of Unconfirmed: the correlation status is not asked for.
Unresolved(i) == Exists(i) /\ row[i].state # "resolved" /\ VendorOf[i] # NoVendor

Unconfirmed(i) ==
    /\ Exists(i)
    /\ row[i].state # "resolved"
    /\ row[i].correlation = "unconfirmed"

\* Mutant of FindPending: incidents nobody has looked at yet are left out.
FindPendingAcknowledged(k) ==
    /\ round[k] = NoRound
    /\ round' = [round EXCEPT ![k] =
            [stage |-> "each",
             pending |-> {<<i, row[i].state>> : i \in {j \in Incidents :
                              Unconfirmed(j) /\ row[j].state # "investigating"}}]]
    /\ UNCHANGED <<row, timeline, vendorStatus, opening, request, reached, served, faults>>

FindPending(k) ==
    /\ round[k] = NoRound
    /\ round' = [round EXCEPT ![k] =
            [stage |-> "each",
             pending |-> {<<i, row[i].state>> : i \in {j \in Incidents : Unconfirmed(j)}}]]
    /\ UNCHANGED <<row, timeline, vendorStatus, opening, request, reached, served, faults>>

FindVendorIncident(k, p) ==
    LET rest == round[k].pending \ {p}
    IN  /\ round[k].stage = "each"
        /\ p \in round[k].pending
        /\ \/ /\ Open(VendorOf[p[1]]) = {}
              /\ round' = [round EXCEPT ![k] = [stage |-> "each", pending |-> rest]]
           \/ \E v \in Open(VendorOf[p[1]]) :
                round' = [round EXCEPT ![k] =
                    [stage |-> "confirm", pending |-> rest, current |-> p, found |-> v]]
        /\ UNCHANGED <<row, timeline, vendorStatus, opening, request, reached, served, faults>>

\* Mutant of ConfirmIncident: the whole row is saved as the round read it.
ConfirmStaleRow(k) ==
    LET i == round[k].current[1]
    IN  /\ round[k].stage = "confirm"
        /\ row' = [row EXCEPT ![i].state = round[k].current[2],
                              ![i].correlation = "confirmed",
                              ![i].link = round[k].found]
        /\ round' = [round EXCEPT ![k].stage = "note"]
        /\ UNCHANGED <<timeline, vendorStatus, opening, request, reached, served, faults>>

ConfirmIncident(k) ==
    LET i == round[k].current[1]
    IN  /\ round[k].stage = "confirm"
        /\ row' = [row EXCEPT ![i].correlation = "confirmed",
                              ![i].link = round[k].found]
        /\ round' = [round EXCEPT ![k].stage = "note"]
        /\ UNCHANGED <<timeline, vendorStatus, opening, request, reached, served, faults>>

\* Mutant of NoteConfirmation: the note takes the vendor's word for the state.
NoteConfirmationAsResolved(k) ==
    LET p == round[k].current
    IN  /\ round[k].stage = "note"
        /\ Note(p[1], "confirmed",
                IF vendorStatus[round[k].found] = "resolved" THEN "resolved" ELSE p[2])
        /\ round' = [round EXCEPT ![k] =
                [stage |-> "each", pending |-> round[k].pending]]
        /\ UNCHANGED <<row, vendorStatus, opening, request, reached, served, faults>>

NoteConfirmation(k) ==
    LET p == round[k].current
    IN  /\ round[k].stage = "note"
        /\ Note(p[1], "confirmed", p[2])
        /\ round' = [round EXCEPT ![k] =
                [stage |-> "each", pending |-> round[k].pending]]
        /\ UNCHANGED <<row, vendorStatus, opening, request, reached, served, faults>>

RoundEnds(k) ==
    /\ round[k].stage = "each"
    /\ round[k].pending = {}
    /\ round' = [round EXCEPT ![k] = NoRound]
    /\ UNCHANGED <<row, timeline, vendorStatus, opening, request, reached, served, faults>>

(* A call of the round fails.  Nobody awaits the round, so the rejection   *)
(* ends the process and what else it had in hand, other rounds and openings*)
(* included; its successor starts with a new round.                        *)
RoundFails(k) ==
    /\ round[k] # NoRound
    /\ faults < MaxFaults
    /\ faults' = faults + 1
    /\ \E rounds \in SUBSET Rounds, openings \in SUBSET Incidents :
          /\ k \in rounds
          /\ \A i \in openings : opening[i].stage \in {"insert", "note"}
          /\ round' = [l \in Rounds |-> IF l \in rounds THEN NoRound ELSE round[l]]
          /\ opening' = [i \in Incidents |->
                IF i \in openings THEN [opening[i] EXCEPT !.stage = "done"] ELSE opening[i]]
    /\ UNCHANGED <<row, timeline, vendorStatus, request, reached, served>>

Recheck(k) ==
    \/ FindPending(k)
    \/ \E p \in Pending : FindVendorIncident(k, p)
    \/ ConfirmIncident(k)
    \/ NoteConfirmation(k)
    \/ RoundEnds(k)

Serve(q) ==
    \/ \E i \in Incidents, s \in States :
          \/ \E message \in BOOLEAN : ReadForTransition(q, i, s, message)
          \/ ReadForUpdate(q, i, s)
    \/ UpdateIncident(q)
    \/ CreateUpdate(q)
    \/ RequestFails(q)

OpenIncident(i) ==
    \/ GetCorrelation(i)
    \/ InsertIncident(i)
    \/ NoteOpening(i)
    \/ OpeningFails(i)

Next ==
    \/ \E v \in VendorIncidents : Upsert(v)
    \/ \E i \in Incidents : OpenIncident(i)
    \/ \E q \in Requests : Serve(q)
    \/ \E k \in Rounds : Recheck(k) \/ RoundFails(k)

Spec == Init /\ [][Next]_vars

(* The minute timer fires again and again and the event loop runs a round  *)
(* on; people, vendors and new incidents come when they like.              *)
FairSpec == Spec /\ \A k \in Rounds : WF_vars(Recheck(k))

----------------------------------------------------------------------------
(* Safety.                                                                 *)

(* resolvedAt is set exactly on resolved incidents, however the transitions*)
(* of concurrent requests interleave: each writes both columns, from a row *)
(* in which they agreed (incidents.repository.ts:49-67).                   *)
ResolvedIffStamped ==
    \A i \in Incidents :
        Exists(i) => (row[i].resolvedAt <=> row[i].state = "resolved")

(* A confirmed incident is linked to an incident its own vendor reported,  *)
(* and only confirmed incidents are linked, whether correlation ran at     *)
(* opening or in a recheck (alerts.service.ts:222-346).                    *)
Reported(i, v) ==
    v \in VendorIncidents /\ ReportedBy[v] = VendorOf[i] /\ vendorStatus[v] # "absent"

LinkAgrees(i, correlation, link) ==
    IF correlation = "confirmed" THEN Reported(i, link) ELSE link = NoLink

ConfirmedIsLinked ==
    \A i \in Incidents : Exists(i) => LinkAgrees(i, row[i].correlation, row[i].link)

(* The inductive invariant behind both: whatever a request, a round or an  *)
(* opening has read is about rows that exist and stay, and what it is about*)
(* to write agrees with itself.                                            *)
RequestInv(c) ==
    c # NoCall =>
        /\ Exists(c.inc)
        /\ c.stage = "update" => (c.resolvedAt <=> c.state = "resolved")

RoundInv(r) ==
    r # NoRound =>
        /\ \A p \in r.pending : Exists(p[1])
        /\ r.stage # "each" => Exists(r.current[1]) /\ Reported(r.current[1], r.found)

LifecycleInv ==
    /\ ResolvedIffStamped
    /\ ConfirmedIsLinked
    /\ \A i \in Incidents :
          opening[i].stage # "none" =>
              LinkAgrees(i, opening[i].correlation, opening[i].link)
    /\ \A q \in Requests : RequestInv(request[q])
    /\ \A k \in Rounds : RoundInv(round[k])

(* A transition and a recheck of the same incident do not undo each other: *)
(* a confirmation survives any request, and a resolved incident stays      *)
(* resolved when the recheck confirms it from a stale list.                *)
NoLostUpdate ==
    [][\A i \in Incidents : Exists(i) =>
        /\ row[i].correlation = "confirmed" => row'[i].correlation = "confirmed"
        /\ row[i].correlation # row'[i].correlation => row'[i].state = row[i].state]_vars

(* "Incident state cannot move backwards" (incidents.repository.ts:56).    *)
StateNeverMovesBack ==
    [][\A i \in Incidents : Exists(i) =>
        transitionOrder[row'[i].state] >= transitionOrder[row[i].state]]_vars

(* Rounds overlap, within an alerter and between alerters, and each that   *)
(* found an incident unconfirmed confirms and notes it.  But a round that  *)
(* starts after the first confirmation leaves it alone: the notes of a     *)
(* confirmation never outnumber the rounds that can be at work at once, and*)
(* one that was confirmed when it was opened is noted once.                *)
Confirmed(i) == Exists(i) /\ row[i].correlation = "confirmed"

Confirmations(i) == {n \in DOMAIN timeline[i] : timeline[i][n].kind = "confirmed"}

ConfirmationNotesAreBounded ==
    \A i \in Incidents :
        \/ Cardinality(Confirmations(i)) <= 1
        \/ Cardinality(Confirmations(i)) <= Cardinality(Rounds)

(* A note on the timeline other than a person's own tells a state the      *)
(* incident has really been in, and it tells of a confirmation only when   *)
(* the row is confirmed, although the note follows the write in a call of  *)
(* its own, the note of a confirmation carries the state its round once    *)
(* listed (alerts.service.ts:341), and other requests and rounds have      *)
(* written the row meanwhile.                                              *)
NotesTellWhatWas ==
    \A i \in Incidents : \A n \in DOMAIN timeline[i] :
        /\ timeline[i][n].kind # "update" => timeline[i][n].state \in reached[i]
        /\ timeline[i][n].kind = "confirmed" => Confirmed(i)

----------------------------------------------------------------------------
(* Liveness.                                                               *)

(* No unresolved incident waits forever unconfirmed while its vendor has   *)
(* an incident open, even if rounds fail on the way.                       *)
ConfirmedInTheEnd ==
    \A i \in Incidents :
        []<>~(Unconfirmed(i) /\ Open(VendorOf[i]) # {})

============================================================================
