---------------------- MODULE IncidentLifecycleProofs ----------------------
(***************************************************************************)
(* Proofs about IncidentLifecycle for any number of incidents, vendors,    *)
(* concurrent requests and overlapping recheck rounds: types, the          *)
(* agreement of state and resolvedAt, the links of confirmed incidents,    *)
(* updates that are not lost, and timelines that tell what was and note a  *)
(* confirmation no more often than rounds overlap; and, for behaviours in  *)
(* which the transitions of an incident take turns, states that only       *)
(* advance.                                                                *)
(***************************************************************************)
EXTENDS IncidentLifecycle, FiniteSetTheorems, TLAPS

LEMMA CallFacts ==
    /\ NoCall.stage = "none"
    /\ \A c \in Calls : c # NoCall /\ c.stage \in {"update", "note"}
BY DEF Calls, NoCall

LEMMA RoundFacts ==
    /\ NoRound.stage = "none"
    /\ \A r \in RoundsInFlight :
          /\ r # NoRound
          /\ r.stage \in {"each", "confirm", "note"}
          /\ r.pending \in SUBSET Pending
          /\ r.stage # "each" => r.current \in Pending /\ r.found \in VendorIncidents
BY DEF RoundsInFlight, NoRound

(* Appending a note keeps the timelines' type.                             *)
LEMMA NoteType ==
    ASSUME timeline \in [Incidents -> Seq(Entries)],
           NEW i \in Incidents, NEW kind \in Kinds, NEW state \in States,
           Note(i, kind, state)
    PROVE  timeline' \in [Incidents -> Seq(Entries)]
<1>1. [kind |-> kind, state |-> state] \in Entries
  BY DEF Entries
<1>2. Append(timeline[i], [kind |-> kind, state |-> state]) \in Seq(Entries)
  BY <1>1
<1>3. QED
  BY <1>2 DEF Note

Inv == TypeOK /\ LifecycleInv

LEMMA InitInv == Init => Inv
<1> SUFFICES ASSUME Init PROVE Inv
  OBVIOUS
<1> USE DEF Init
<1>1. TypeOK
  BY DEF TypeOK, Openings, NoOpening
<1>2. LifecycleInv
  BY DEF LifecycleInv, ResolvedIffStamped, ConfirmedIsLinked, Exists,
         RequestInv, RoundInv, NoOpening
<1>3. QED
  BY <1>1, <1>2 DEF Inv

----------------------------------------------------------------------------
(* Types.                                                                  *)

LEMMA OpeningTypes ==
    ASSUME Inv, NEW i \in Incidents, OpenIncident(i)
    PROVE  TypeOK'
<1> USE DEF Inv, TypeOK
<1>1. CASE GetCorrelation(i)
  BY <1>1 DEF GetCorrelation, Openings
<1>2. CASE InsertIncident(i)
  <2> DEFINE r == [state |-> "investigating", resolvedAt |-> FALSE,
                   correlation |-> opening[i].correlation, link |-> opening[i].link]
  <2>1. r \in Rows
    BY DEF Rows, Openings, States
  <2>2. row' = [row EXCEPT ![i] = r]
    BY <1>2 DEF InsertIncident
  <2>3. opening' \in [Incidents -> Openings]
    BY <1>2 DEF InsertIncident, Openings
  <2>4. reached' \in [Incidents -> SUBSET States]
    BY <1>2 DEF InsertIncident, Reach, States
  <2>5. QED
    BY <1>2, <2>1, <2>2, <2>3, <2>4 DEF InsertIncident
<1>3. CASE NoteOpening(i)
  <2>1. opening' \in [Incidents -> Openings]
    BY <1>3 DEF NoteOpening, Openings
  <2>2. timeline' \in [Incidents -> Seq(Entries)]
    BY <1>3, NoteType DEF NoteOpening, Kinds, States
  <2>3. QED
    BY <1>3, <2>1, <2>2 DEF NoteOpening
<1>4. CASE OpeningFails(i)
  <2>1. opening' \in [Incidents -> Openings]
    BY <1>4 DEF OpeningFails, Openings
  <2>2. QED
    BY <1>4, <2>1 DEF OpeningFails
<1>5. QED
  BY <1>1, <1>2, <1>3, <1>4 DEF OpenIncident

(* A failing round writes nothing; it drops rounds, and openings on their  *)
(* way.                                                                    *)
LEMMA FailFacts ==
    ASSUME TypeOK, NEW k \in Rounds, RoundFails(k)
    PROVE  /\ UNCHANGED <<row, timeline, vendorStatus, request, reached>>
           /\ round'[k] = NoRound
           /\ \A l \in Rounds : round'[l] \in {round[l], NoRound}
           /\ \A i \in Incidents :
                opening'[i] = opening[i]
                \/ /\ opening[i].stage \in {"insert", "note"} /\ opening'[i] \in Openings
                   /\ opening'[i].stage = "done"
                   /\ opening'[i].correlation = opening[i].correlation
                   /\ opening'[i].link = opening[i].link
<1> PICK rounds \in SUBSET Rounds, openings \in SUBSET Incidents :
        /\ k \in rounds
        /\ \A i \in openings : opening[i].stage \in {"insert", "note"}
        /\ round' = [l \in Rounds |-> IF l \in rounds THEN NoRound ELSE round[l]]
        /\ opening' = [i \in Incidents |->
              IF i \in openings THEN [opening[i] EXCEPT !.stage = "done"] ELSE opening[i]]
  BY DEF RoundFails
<1>1. \A i \in Incidents : opening[i] \in Openings
  BY DEF TypeOK
<1>2. \A o \in Openings : LET d == [o EXCEPT !.stage = "done"]
                          IN  /\ d \in Openings /\ d.stage = "done"
                              /\ d.correlation = o.correlation /\ d.link = o.link
  BY DEF Openings
<1>3. QED
  BY <1>1, <1>2 DEF RoundFails

LEMMA FailTypes ==
    ASSUME TypeOK, NEW k \in Rounds, RoundFails(k)
    PROVE  TypeOK'
<1>1. round' \in [Rounds -> RoundsInFlight \union {NoRound}]
  <2>1. \A l \in Rounds : round'[l] \in RoundsInFlight \union {NoRound}
    BY FailFacts DEF TypeOK
  <2>2. \E f : round' = [l \in Rounds |-> f[l]]
    <3>1. PICK rounds \in SUBSET Rounds :
              round' = [l \in Rounds |-> IF l \in rounds THEN NoRound ELSE round[l]]
      BY DEF RoundFails
    <3>2. round' = [l \in Rounds |-> round'[l]]
      BY <3>1
    <3>3. QED
      BY <3>2
  <2>3. QED
    BY <2>1, <2>2
<1>2. opening' \in [Incidents -> Openings]
  <2>1. \A i \in Incidents : opening'[i] \in Openings
    BY FailFacts DEF TypeOK
  <2>2. PICK openings \in SUBSET Incidents :
            opening' = [i \in Incidents |->
                IF i \in openings THEN [opening[i] EXCEPT !.stage = "done"] ELSE opening[i]]
    BY DEF RoundFails
  <2>3. opening' = [i \in Incidents |-> opening'[i]]
    BY <2>2
  <2>4. QED
    BY <2>1, <2>3
<1>3. QED
  BY <1>1, <1>2, FailFacts DEF RoundFails, TypeOK

LEMMA BeginTypes ==
    ASSUME TypeOK, NEW q \in Requests, NEW c \in Calls, Begin(q, c)
    PROVE  TypeOK'
BY DEF TypeOK, Begin

LEMMA RequestTypes ==
    ASSUME Inv, NEW q \in Requests, Serve(q)
    PROVE  TypeOK'
<1> USE DEF Inv
<1>1. ASSUME NEW i \in Incidents, NEW s \in States, NEW message \in BOOLEAN,
             ReadForTransition(q, i, s, message)
      PROVE  TypeOK'
  <2>1. row[i] \in Rows
    BY <1>1 DEF ReadForTransition, TypeOK, Exists
  <2>2. [stage |-> "update", inc |-> i, kind |-> "transition", state |-> s,
         message |-> message,
         resolvedAt |-> s = "resolved" \/ row[i].resolvedAt] \in Calls
    BY <2>1 DEF Calls, Kinds, Rows
  <2>3. QED
    BY <1>1, <2>2, BeginTypes DEF ReadForTransition
<1>2. ASSUME NEW i \in Incidents, NEW s \in States, ReadForUpdate(q, i, s)
      PROVE  TypeOK'
  <2>1. row[i] \in Rows
    BY <1>2 DEF ReadForUpdate, TypeOK, Exists
  <2>2. [stage |-> "note", inc |-> i, kind |-> "update", state |-> s,
         message |-> TRUE, resolvedAt |-> row[i].resolvedAt] \in Calls
    BY <2>1 DEF Calls, Kinds, Rows
  <2>3. QED
    BY <1>2, <2>2, BeginTypes DEF ReadForUpdate
<1>3. CASE UpdateIncident(q)
  <2> DEFINE c == request[q]
  <2>1. c \in Calls
    BY <1>3, CallFacts DEF UpdateIncident, TypeOK
  <2>2. row[c.inc] \in Rows /\ c.inc \in Incidents
    BY <2>1, CallFacts DEF TypeOK, LifecycleInv, RequestInv, Exists, Calls
  <2>3. [row[c.inc] EXCEPT !.state = c.state, !.resolvedAt = c.resolvedAt] \in Rows
    BY <2>1, <2>2 DEF Rows, Calls
  <2>4. row' \in [Incidents -> Rows \union {NoRow}]
    BY <1>3, <2>2, <2>3 DEF UpdateIncident, TypeOK
  <2>5. [c EXCEPT !.stage = "note"] \in Calls
    BY <2>1 DEF Calls
  <2>6. request' \in [Requests -> Calls \union {NoCall}]
    BY <1>3, <2>5 DEF UpdateIncident, TypeOK
  <2>7. reached' \in [Incidents -> SUBSET States]
    BY <1>3, <2>1 DEF UpdateIncident, Reach, TypeOK, Calls
  <2>8. QED
    BY <1>3, <2>4, <2>6, <2>7 DEF UpdateIncident, TypeOK
<1>4. CASE CreateUpdate(q)
  <2>1. request[q] \in Calls
    BY <1>4, CallFacts DEF CreateUpdate, TypeOK
  <2>2. timeline' \in [Incidents -> Seq(Entries)]
    BY <1>4, <2>1, NoteType DEF CreateUpdate, TypeOK, Calls
  <2>3. QED
    BY <1>4, <2>2 DEF CreateUpdate, TypeOK
<1>5. CASE RequestFails(q)
  BY <1>5 DEF RequestFails, TypeOK
<1>6. QED
  BY <1>1, <1>2, <1>3, <1>4, <1>5 DEF Serve

LEMMA RoundTypes ==
    ASSUME Inv, NEW k \in Rounds, Recheck(k) \/ RoundFails(k)
    PROVE  TypeOK'
<1> USE DEF Inv
<1>1. CASE FindPending(k)
  <2> DEFINE found == {<<i, row[i].state>> : i \in {j \in Incidents : Unconfirmed(j)}}
  <2>1. \A i \in Incidents : Unconfirmed(i) => row[i].state \in States
    BY DEF Unconfirmed, TypeOK, Exists, Rows
  <2>2. found \in SUBSET Pending
    BY <2>1 DEF Pending
  <2>3. [stage |-> "each", pending |-> found] \in RoundsInFlight
    BY <2>2 DEF RoundsInFlight
  <2>4. QED
    BY <1>1, <2>3 DEF FindPending, TypeOK
<1>2. ASSUME NEW p \in Pending, FindVendorIncident(k, p) PROVE TypeOK'
  <2>1. round[k].pending \in SUBSET Pending
    BY <1>2, RoundFacts DEF FindVendorIncident, TypeOK
  <2>2. [stage |-> "each", pending |-> round[k].pending \ {p}] \in RoundsInFlight
    BY <2>1 DEF RoundsInFlight
  <2>3. \A v \in VendorIncidents :
          [stage |-> "confirm", pending |-> round[k].pending \ {p},
           current |-> p, found |-> v] \in RoundsInFlight
    BY <2>1 DEF RoundsInFlight
  <2>4. round' \in [Rounds -> RoundsInFlight \union {NoRound}]
    BY <1>2, <2>2, <2>3 DEF FindVendorIncident, TypeOK, Open
  <2>5. QED
    BY <1>2, <2>4 DEF FindVendorIncident, TypeOK
<1>3. CASE ConfirmIncident(k)
  <2> DEFINE i == round[k].current[1]
  <2>1. /\ round[k] \in RoundsInFlight /\ round[k].stage = "confirm"
        /\ round[k].current \in Pending /\ round[k].found \in VendorIncidents
    BY <1>3, RoundFacts DEF ConfirmIncident, TypeOK
  <2>2. i \in Incidents /\ row[i] \in Rows
    BY <2>1, RoundFacts DEF TypeOK, LifecycleInv, RoundInv, Exists, Pending
  <2>3. [row[i] EXCEPT !.correlation = "confirmed", !.link = round[k].found] \in Rows
    BY <2>1, <2>2 DEF Rows
  <2>4. row' \in [Incidents -> Rows \union {NoRow}]
    BY <1>3, <2>2, <2>3 DEF ConfirmIncident, TypeOK
  <2>5. [round[k] EXCEPT !.stage = "note"] \in RoundsInFlight
    BY <2>1 DEF RoundsInFlight
  <2>6. round' \in [Rounds -> RoundsInFlight \union {NoRound}]
    BY <1>3, <2>5 DEF ConfirmIncident, TypeOK
  <2>7. QED
    BY <1>3, <2>4, <2>6 DEF ConfirmIncident, TypeOK
<1>4. CASE NoteConfirmation(k)
  <2>1. round[k].pending \in SUBSET Pending /\ round[k].current \in Pending
    BY <1>4, RoundFacts DEF NoteConfirmation, TypeOK
  <2>2. [stage |-> "each", pending |-> round[k].pending] \in RoundsInFlight
    BY <2>1 DEF RoundsInFlight
  <2>3. timeline' \in [Incidents -> Seq(Entries)]
    BY <1>4, <2>1, NoteType DEF NoteConfirmation, TypeOK, Pending, Kinds
  <2>4. QED
    BY <1>4, <2>2, <2>3 DEF NoteConfirmation, TypeOK
<1>5. CASE RoundEnds(k)
  BY <1>5 DEF RoundEnds, TypeOK
<1>6. CASE RoundFails(k)
  BY <1>6, FailTypes
<1>7. QED
  BY <1>1, <1>2, <1>3, <1>4, <1>5, <1>6 DEF Recheck

LEMMA UpsertTypes ==
    ASSUME TypeOK, NEW v \in VendorIncidents, Upsert(v)
    PROVE  TypeOK'
BY VendorAssumption DEF TypeOK, Upsert

(* Every variable stays in its domain; no request, round or opening ever   *)
(* touches a row that is not there.                                        *)
LEMMA NextTypes ==
    ASSUME Inv, [Next]_vars
    PROVE  TypeOK'
<1>1. CASE UNCHANGED vars
  BY <1>1 DEF Inv, TypeOK, vars
<1>2. CASE Next
  BY <1>2, UpsertTypes, OpeningTypes, RequestTypes, RoundTypes DEF Next, Inv
<1>3. QED
  BY <1>1, <1>2

----------------------------------------------------------------------------
(* The lifecycle invariant.  RowsKeep says what every step guarantees to   *)
(* the others: rows stay, and reported vendor incidents stay reported.     *)

RowsKeep ==
    /\ \A i \in Incidents : Exists(i) => Exists(i)'
    /\ \A v \in VendorIncidents : vendorStatus[v] # "absent" => vendorStatus'[v] # "absent"

(* A request, round or opening that does not move keeps its invariant.     *)
LEMMA RequestKept ==
    ASSUME Inv, RowsKeep, NEW q \in Requests, request'[q] = request[q]
    PROVE  RequestInv(request[q])'
BY CallFacts DEF Inv, TypeOK, LifecycleInv, RowsKeep, RequestInv, Exists, Calls

LEMMA RoundKept ==
    ASSUME Inv, RowsKeep, NEW k \in Rounds, round'[k] = round[k]
    PROVE  RoundInv(round[k])'
<1>1. CASE round[k] = NoRound
  BY <1>1 DEF RoundInv
<1>2. CASE round[k] # NoRound
  <2>1. round[k] \in RoundsInFlight /\ RoundInv(round[k])
    BY <1>2 DEF Inv, TypeOK, LifecycleInv
  <2>2. \A p \in round[k].pending : p[1] \in Incidents
    BY <2>1, RoundFacts DEF Pending
  <2>3. round[k].stage # "each" =>
            round[k].current[1] \in Incidents /\ round[k].found \in VendorIncidents
    BY <2>1, RoundFacts DEF Pending
  <2>4. QED
    BY <1>2, <2>1, <2>2, <2>3 DEF RowsKeep, RoundInv, Reported, Exists
<1>3. QED
  BY <1>1, <1>2

LEMMA LinksKept ==
    ASSUME Inv, RowsKeep, NEW i \in Incidents
    PROVE  /\ opening'[i] = opening[i] /\ opening[i].stage # "none" =>
                LinkAgrees(i, opening[i].correlation, opening[i].link)'
           /\ row'[i] = row[i] /\ Exists(i) =>
                LinkAgrees(i, row[i].correlation, row[i].link)'
BY DEF Inv, LifecycleInv, ConfirmedIsLinked, RowsKeep, LinkAgrees, Reported

(* A step that leaves rows and openings alone, and whose new request or    *)
(* round satisfies its invariant, keeps the lifecycle invariant.           *)
LEMMA SameRows ==
    ASSUME Inv, RowsKeep, UNCHANGED <<row, opening>>,
           \A q \in Requests : request'[q] = request[q] \/ RequestInv(request[q])',
           \A k \in Rounds : round'[k] = round[k] \/ RoundInv(round[k])'
    PROVE  LifecycleInv'
<1>1. ResolvedIffStamped'
  BY DEF Inv, LifecycleInv, ResolvedIffStamped, Exists
<1>2. ConfirmedIsLinked'
  BY LinksKept DEF ConfirmedIsLinked, Exists
<1>3. \A i \in Incidents : opening'[i].stage # "none" =>
          LinkAgrees(i, opening[i].correlation, opening[i].link)'
  BY LinksKept
<1>4. \A q \in Requests : RequestInv(request[q])'
  BY RequestKept
<1>5. \A k \in Rounds : RoundInv(round[k])'
  BY RoundKept
<1>6. QED
  BY <1>1, <1>2, <1>3, <1>4, <1>5 DEF LifecycleInv

LEMMA UpsertKeeps ==
    ASSUME Inv, NEW v \in VendorIncidents, Upsert(v)
    PROVE  LifecycleInv'
<1>1. RowsKeep
  BY VendorAssumption DEF Inv, TypeOK, RowsKeep, Upsert, Exists, VendorStatuses
<1>2. QED
  BY <1>1, SameRows DEF Upsert

LEMMA OpeningKeeps ==
    ASSUME Inv, NEW i \in Incidents, OpenIncident(i)
    PROVE  LifecycleInv'
<1>1. UNCHANGED <<vendorStatus, request, round>>
  BY DEF OpenIncident, GetCorrelation, InsertIncident, NoteOpening, OpeningFails
<1>2. RowsKeep
  <2>1. CASE row' = row
    BY <1>1, <2>1 DEF RowsKeep, Exists
  <2>2. CASE InsertIncident(i)
    <3> DEFINE r == [state |-> "investigating", resolvedAt |-> FALSE,
                     correlation |-> opening[i].correlation,
                     link |-> opening[i].link]
    <3>1. r \in Rows
      BY DEF Inv, TypeOK, Openings, Rows, States
    <3>2. row' = [row EXCEPT ![i] = r]
      BY <2>2 DEF InsertIncident
    <3>3. QED
      BY <1>1, <3>1, <3>2, NoRowAssumption DEF RowsKeep, Exists, Inv, TypeOK
  <2>3. QED
    BY <2>1, <2>2 DEF OpenIncident, GetCorrelation, NoteOpening, OpeningFails
<1>3. ASSUME NEW j \in Incidents, opening'[j].stage # "none"
      PROVE  LinkAgrees(j, opening[j].correlation, opening[j].link)'
  <2>1. CASE GetCorrelation(i)
    <3>1. CASE j = i
      BY <1>1, <2>1, <3>1 DEF GetCorrelation, Inv, TypeOK, LinkAgrees, Reported, Open
    <3>2. CASE j # i
      BY <1>2, <1>3, <2>1, <3>2, LinksKept DEF GetCorrelation, Inv, TypeOK
    <3>3. QED
      BY <3>1, <3>2
  <2>2. CASE InsertIncident(i) \/ NoteOpening(i) \/ OpeningFails(i)
    <3>1. /\ opening[j].stage # "none"
          /\ opening'[j].correlation = opening[j].correlation
          /\ opening'[j].link = opening[j].link
      <4>1. opening[j] \in Openings
        BY DEF Inv, TypeOK
      <4>2. CASE j # i
        <5>1. opening'[j] = opening[j]
          BY <2>2, <4>2 DEF InsertIncident, NoteOpening, OpeningFails, Inv, TypeOK
        <5>2. QED
          BY <1>3, <5>1
      <4>3. CASE j = i
        <5>1. opening[i].stage \in {"insert", "note"}
          BY <2>2 DEF InsertIncident, NoteOpening, OpeningFails
        <5>2. \/ opening' = [opening EXCEPT ![i].stage =
                      IF opening[i].correlation = "none" THEN "done" ELSE "note"]
              \/ opening' = [opening EXCEPT ![i].stage = "done"]
          BY <2>2 DEF InsertIncident, NoteOpening, OpeningFails
        <5>3. QED
          BY <4>1, <4>3, <5>1, <5>2 DEF Inv, TypeOK, Openings
      <4>4. QED
        BY <4>2, <4>3
    <3>2. QED
      BY <1>1, <3>1 DEF Inv, LifecycleInv, LinkAgrees, Reported
  <2>3. QED
    BY <2>1, <2>2 DEF OpenIncident
<1>4. ResolvedIffStamped' /\ ConfirmedIsLinked'
  <2>1. CASE row' = row
    BY <1>2, <2>1, LinksKept
       DEF Inv, LifecycleInv, ResolvedIffStamped, ConfirmedIsLinked, Exists
  <2>2. CASE InsertIncident(i)
    <3>1. \A j \in Incidents : j # i => row'[j] = row[j]
      BY <2>2 DEF InsertIncident, Inv, TypeOK
    <3>2. /\ row'[i].state = "investigating" /\ row'[i].resolvedAt = FALSE
          /\ row'[i].correlation = opening[i].correlation
          /\ row'[i].link = opening[i].link
          /\ opening[i].stage # "none"
      BY <2>2 DEF InsertIncident, Inv, TypeOK
    <3>3. ResolvedIffStamped'
      BY <3>1, <3>2 DEF Inv, LifecycleInv, ResolvedIffStamped, Exists
    <3>4. LinkAgrees(i, row[i].correlation, row[i].link)'
      BY <1>1, <3>2 DEF Inv, LifecycleInv, LinkAgrees, Reported
    <3>5. ConfirmedIsLinked'
      BY <1>2, <3>1, <3>4, LinksKept DEF ConfirmedIsLinked, Exists
    <3>6. QED
      BY <3>3, <3>5
  <2>3. QED
    BY <2>1, <2>2 DEF OpenIncident, GetCorrelation, NoteOpening, OpeningFails
<1>5. /\ \A q \in Requests : RequestInv(request[q])'
      /\ \A k \in Rounds : RoundInv(round[k])'
  BY <1>1, <1>2, RequestKept, RoundKept
<1>6. QED
  BY <1>3, <1>4, <1>5 DEF LifecycleInv

LEMMA RequestKeeps ==
    ASSUME Inv, NEW q \in Requests, Serve(q)
    PROVE  LifecycleInv'
<1>1. /\ UNCHANGED <<vendorStatus, opening, round>>
      /\ \A b \in Requests : b # q => request'[b] = request[b]
  BY DEF Serve, ReadForTransition, ReadForUpdate, Begin, UpdateIncident,
         CreateUpdate, RequestFails, Inv, TypeOK
<1>2. ASSUME row' = row, RequestInv(request[q])' PROVE LifecycleInv'
  <2>1. RowsKeep
    BY <1>1, <1>2 DEF RowsKeep, Exists
  <2>2. QED
    BY <1>1, <1>2, <2>1, SameRows
<1>3. ASSUME NEW i \in Incidents, NEW s \in States, NEW message \in BOOLEAN,
             ReadForTransition(q, i, s, message)
      PROVE  LifecycleInv'
  <2>1. /\ Exists(i) /\ row' = row
        /\ request'[q].inc = i /\ request'[q].state = s
        /\ request'[q].resolvedAt <=> (s = "resolved" \/ row[i].resolvedAt)
    BY <1>3 DEF ReadForTransition, Begin, Inv, TypeOK
  <2>2. row[i].resolvedAt => s = "resolved"
    <3>1. row[i] \in Rows
      BY <2>1 DEF Exists, Inv, TypeOK
    <3>2. row[i].resolvedAt => row[i].state = "resolved"
      BY <2>1 DEF Inv, LifecycleInv, ResolvedIffStamped
    <3>3. transitionOrder[s] >= 3 => s = "resolved"
      BY DEF transitionOrder, States
    <3>4. QED
      BY <1>3, <3>1, <3>2, <3>3 DEF ReadForTransition, Forward, transitionOrder
  <2>3. RequestInv(request[q])'
    BY <2>1, <2>2 DEF RequestInv, Exists
  <2>4. QED
    BY <1>2, <2>1, <2>3
<1>4. ASSUME NEW i \in Incidents, NEW s \in States, ReadForUpdate(q, i, s)
      PROVE  LifecycleInv'
  <2>1. /\ Exists(i) /\ row' = row
        /\ request'[q].inc = i /\ request'[q].stage = "note"
    BY <1>4 DEF ReadForUpdate, Begin, Inv, TypeOK
  <2>2. QED
    BY <1>2, <2>1 DEF RequestInv, Exists
<1>5. CASE UpdateIncident(q)
  <2> DEFINE c == request[q]
  <2>0. c \in Calls /\ c.stage = "update"
    BY <1>5, CallFacts DEF UpdateIncident, Inv, TypeOK
  <2> PICK i \in Incidents : i = c.inc
    BY <2>0 DEF Calls
  <2>1. c \in Calls /\ i = c.inc /\ c.stage = "update"
    BY <2>0
  <2>2. Exists(i) /\ (c.resolvedAt <=> c.state = "resolved")
    BY <2>1, CallFacts DEF Inv, LifecycleInv, RequestInv
  <2>3. row[i] \in Rows
    BY <2>1, <2>2 DEF Exists, Inv, TypeOK
  <2>4. /\ \A j \in Incidents : j # i => row'[j] = row[j]
        /\ row'[i] = [row[i] EXCEPT !.state = c.state, !.resolvedAt = c.resolvedAt]
    BY <1>5, <2>1 DEF UpdateIncident, Inv, TypeOK
  <2>5. /\ row'[i] \in Rows
        /\ row'[i].state = c.state /\ row'[i].resolvedAt = c.resolvedAt
        /\ row'[i].correlation = row[i].correlation /\ row'[i].link = row[i].link
    BY <2>1, <2>3, <2>4 DEF Rows, Calls
  <2>6. RowsKeep
    BY <1>1, <2>4, <2>5, NoRowAssumption DEF RowsKeep, Exists
  <2>7. ResolvedIffStamped'
    BY <2>2, <2>4, <2>5 DEF Inv, LifecycleInv, ResolvedIffStamped, Exists
  <2>8. ConfirmedIsLinked'
    <3>1. LinkAgrees(i, row[i].correlation, row[i].link)
      BY <2>1, <2>2 DEF Inv, LifecycleInv, ConfirmedIsLinked
    <3>2. LinkAgrees(i, row[i].correlation, row[i].link)'
      BY <1>1, <2>5, <3>1 DEF LinkAgrees, Reported
    <3>3. \A j \in Incidents : j # i /\ Exists(j)' =>
              LinkAgrees(j, row[j].correlation, row[j].link)'
      BY <2>4, <2>6, LinksKept DEF Exists
    <3>4. QED
      BY <3>2, <3>3 DEF ConfirmedIsLinked
  <2>9. RequestInv(request[q])'
    <3>1. request'[q] = NoCall \/ request'[q] = [c EXCEPT !.stage = "note"]
      BY <1>5 DEF UpdateIncident, Inv, TypeOK
    <3>2. request'[q] # NoCall =>
              request'[q].stage = "note" /\ request'[q].inc = i
      BY <2>1, <3>1 DEF Calls
    <3>3. QED
      BY <2>1, <2>2, <2>6, <3>2 DEF RequestInv, RowsKeep
  <2>10. \A b \in Requests : RequestInv(request[b])'
    BY <1>1, <2>6, <2>9, RequestKept
  <2>11. \A k \in Rounds : RoundInv(round[k])'
    BY <1>1, <2>6, RoundKept
  <2>12. \A j \in Incidents : opening'[j].stage # "none" =>
            LinkAgrees(j, opening[j].correlation, opening[j].link)'
    BY <1>1, <2>6, LinksKept
  <2>13. QED
    BY <2>7, <2>8, <2>10, <2>11, <2>12 DEF LifecycleInv
<1>6. CASE CreateUpdate(q) \/ RequestFails(q)
  <2>1. row' = row /\ request'[q] = NoCall
    BY <1>6 DEF CreateUpdate, RequestFails, Inv, TypeOK
  <2>2. QED
    BY <1>2, <2>1 DEF RequestInv
<1>7. QED
  BY <1>3, <1>4, <1>5, <1>6 DEF Serve

LEMMA FailKeeps ==
    ASSUME Inv, NEW k \in Rounds, RoundFails(k)
    PROVE  LifecycleInv'
<1>1. /\ UNCHANGED <<row, vendorStatus, request>>
      /\ \A l \in Rounds : round'[l] = round[l] \/ round'[l] = NoRound
      /\ \A i \in Incidents : opening'[i] = opening[i] \/
            /\ opening[i].stage # "none"
            /\ opening'[i].correlation = opening[i].correlation
            /\ opening'[i].link = opening[i].link
  BY FailFacts DEF Inv
<1>2. RowsKeep
  BY <1>1 DEF RowsKeep, Exists
<1>3. ResolvedIffStamped' /\ ConfirmedIsLinked'
  BY <1>1, <1>2, LinksKept
     DEF Inv, LifecycleInv, ResolvedIffStamped, ConfirmedIsLinked, Exists
<1>4. \A i \in Incidents : opening'[i].stage # "none" =>
          LinkAgrees(i, opening[i].correlation, opening[i].link)'
  BY <1>1 DEF Inv, LifecycleInv, LinkAgrees, Reported
<1>5. \A q \in Requests : RequestInv(request[q])'
  BY <1>1, <1>2, RequestKept
<1>6. \A l \in Rounds : RoundInv(round[l])'
  <2>1. \A l \in Rounds : round'[l] = NoRound => RoundInv(round[l])'
    BY DEF RoundInv
  <2>2. QED
    BY <1>1, <1>2, <2>1, RoundKept
<1>7. QED
  BY <1>3, <1>4, <1>5, <1>6 DEF LifecycleInv

LEMMA RoundKeeps ==
    ASSUME Inv, NEW k \in Rounds, Recheck(k)
    PROVE  LifecycleInv'
<1>1. /\ UNCHANGED <<vendorStatus, opening, request>>
      /\ \A b \in Rounds : b # k => round'[b] = round[b]
  BY DEF Recheck, FindPending, FindVendorIncident, ConfirmIncident,
         NoteConfirmation, RoundEnds, Inv, TypeOK
<1>2. ASSUME row' = row, RoundInv(round[k])' PROVE LifecycleInv'
  <2>1. RowsKeep
    BY <1>1, <1>2 DEF RowsKeep, Exists
  <2>2. QED
    BY <1>1, <1>2, <2>1, SameRows
<1>3. CASE FindPending(k)
  <2>1. /\ row' = row /\ round'[k].stage = "each"
        /\ \A p \in round'[k].pending : Exists(p[1])
    BY <1>3 DEF FindPending, Unconfirmed, Inv, TypeOK
  <2>2. RoundInv(round[k])'
    BY <2>1 DEF RoundInv, Exists
  <2>3. QED
    BY <1>2, <2>1, <2>2
<1>4. ASSUME NEW p \in Pending, FindVendorIncident(k, p) PROVE LifecycleInv'
  <2>1. /\ row' = row /\ round[k] \in RoundsInFlight /\ p \in round[k].pending
        /\ \A o \in round[k].pending : Exists(o[1])
    BY <1>4, RoundFacts
       DEF FindVendorIncident, Inv, TypeOK, LifecycleInv, RoundInv
  <2>2. CASE round'[k] = [stage |-> "each", pending |-> round[k].pending \ {p}]
    <3>1. RoundInv(round[k])'
      BY <2>1, <2>2 DEF RoundInv, Exists
    <3>2. QED
      BY <1>2, <2>1, <3>1
  <2>3. ASSUME NEW v \in Open(VendorOf[p[1]]),
               round'[k] = [stage |-> "confirm", pending |-> round[k].pending \ {p},
                            current |-> p, found |-> v]
        PROVE  LifecycleInv'
    <3>1. Reported(p[1], v)'
      BY <1>1, <2>3 DEF Reported, Open
    <3>2. RoundInv(round[k])'
      BY <2>1, <2>3, <3>1 DEF RoundInv, Exists, Reported
    <3>3. QED
      BY <1>2, <2>1, <3>2
  <2>4. QED
    BY <1>4, <2>2, <2>3 DEF FindVendorIncident, Inv, TypeOK
<1>5. CASE ConfirmIncident(k)
  <2>1. /\ round[k] \in RoundsInFlight /\ round[k].stage = "confirm"
        /\ RoundInv(round[k]) /\ round[k] # NoRound
    BY <1>5, RoundFacts DEF ConfirmIncident, Inv, TypeOK, LifecycleInv
  <2> PICK i \in Incidents, v \in VendorIncidents :
          i = round[k].current[1] /\ v = round[k].found
    BY <2>1, RoundFacts DEF Pending
  <2>2. Exists(i) /\ Reported(i, v) /\ row[i] \in Rows
    BY <2>1 DEF RoundInv, Exists, Inv, TypeOK
  <2>3. /\ \A j \in Incidents : j # i => row'[j] = row[j]
        /\ row'[i] = [row[i] EXCEPT !.correlation = "confirmed", !.link = v]
    BY <1>5 DEF ConfirmIncident, Inv, TypeOK
  <2>4. /\ row'[i] \in Rows
        /\ row'[i].state = row[i].state /\ row'[i].resolvedAt = row[i].resolvedAt
        /\ row'[i].correlation = "confirmed" /\ row'[i].link = v
    BY <2>2, <2>3 DEF Rows
  <2>5. RowsKeep
    BY <1>1, <2>3, <2>4, NoRowAssumption DEF RowsKeep, Exists
  <2>6. ResolvedIffStamped'
    <3>1. row[i].resolvedAt <=> row[i].state = "resolved"
      BY <2>2 DEF Inv, LifecycleInv, ResolvedIffStamped
    <3>2. row'[i].resolvedAt <=> row'[i].state = "resolved"
      BY <2>4, <3>1, Zenon
    <3>3. \A j \in Incidents : j # i /\ Exists(j)' =>
              (row'[j].resolvedAt <=> row'[j].state = "resolved")
      BY <2>3 DEF Inv, LifecycleInv, ResolvedIffStamped, Exists
    <3>4. QED
      BY <3>2, <3>3 DEF ResolvedIffStamped
  <2>7. ConfirmedIsLinked'
    <3>1. LinkAgrees(i, row[i].correlation, row[i].link)'
      BY <1>1, <2>2, <2>4 DEF LinkAgrees, Reported
    <3>2. \A j \in Incidents : j # i /\ Exists(j)' =>
              LinkAgrees(j, row[j].correlation, row[j].link)'
      BY <2>3, <2>5, LinksKept DEF Exists
    <3>3. QED
      BY <3>1, <3>2 DEF ConfirmedIsLinked
  <2>8. RoundInv(round[k])'
    <3>1. round'[k] = [round[k] EXCEPT !.stage = "note"]
      BY <1>5 DEF ConfirmIncident, Inv, TypeOK
    <3>2. /\ round'[k].pending = round[k].pending
          /\ round'[k].current = round[k].current /\ round'[k].found = round[k].found
      BY <2>1, <3>1 DEF RoundsInFlight
    <3>3. \A p \in round[k].pending : p[1] \in Incidents /\ Exists(p[1])
      BY <2>1, RoundFacts DEF RoundInv, Pending
    <3>4. \A p \in round'[k].pending : Exists(p[1])'
      BY <2>5, <3>2, <3>3 DEF RowsKeep
    <3>5. /\ Exists(i)' /\ Reported(i, v)'
      BY <1>1, <2>2, <2>5 DEF RowsKeep, Reported
    <3>6. round'[k].current[1] = i /\ round'[k].found = v
      BY <3>2
    <3>7. QED
      BY <3>4, <3>5, <3>6 DEF RoundInv, Exists, Reported
  <2>9. \A b \in Rounds : RoundInv(round[b])'
    BY <1>1, <2>5, <2>8, RoundKept
  <2>10. \A q \in Requests : RequestInv(request[q])'
    BY <1>1, <2>5, RequestKept
  <2>11. \A j \in Incidents : opening'[j].stage # "none" =>
            LinkAgrees(j, opening[j].correlation, opening[j].link)'
    BY <1>1, <2>5, LinksKept
  <2>12. QED
    BY <2>6, <2>7, <2>9, <2>10, <2>11 DEF LifecycleInv
<1>6. CASE NoteConfirmation(k)
  <2>1. /\ round[k] \in RoundsInFlight /\ RoundInv(round[k]) /\ round[k] # NoRound
    BY <1>6, RoundFacts DEF NoteConfirmation, Inv, TypeOK, LifecycleInv
  <2>2. row' = row /\ round'[k] = [stage |-> "each", pending |-> round[k].pending]
    BY <1>6 DEF NoteConfirmation, Inv, TypeOK
  <2>3. QED
    BY <1>2, <2>1, <2>2 DEF RoundInv, Exists
<1>7. CASE RoundEnds(k)
  <2>1. row' = row /\ round'[k] = NoRound
    BY <1>7 DEF RoundEnds, Inv, TypeOK
  <2>2. QED
    BY <1>2, <2>1 DEF RoundInv
<1>8. QED
  BY <1>3, <1>4, <1>5, <1>6, <1>7 DEF Recheck

LEMMA NextKeeps ==
    ASSUME Inv, [Next]_vars
    PROVE  Inv'
<1>1. CASE UNCHANGED vars
  <2>1. RowsKeep /\ UNCHANGED <<row, opening, request, round>>
    BY <1>1 DEF vars, RowsKeep, Exists
  <2>2. LifecycleInv'
    BY <2>1, SameRows
  <2>3. QED
    BY <2>2, NextTypes DEF Inv
<1>2. CASE Next
  <2>1. LifecycleInv'
    BY <1>2, UpsertKeeps, OpeningKeeps, RequestKeeps, RoundKeeps, FailKeeps DEF Next
  <2>2. QED
    BY <2>1, NextTypes DEF Inv
<1>3. QED
  BY <1>1, <1>2

----------------------------------------------------------------------------
(* Types and the lifecycle invariant hold in every reachable state.        *)
THEOREM Invariance == Spec => [](TypeOK /\ LifecycleInv)
<1>1. Spec => []Inv
  BY InitInv, NextKeeps, PTL DEF Spec
<1>2. QED
  BY <1>1 DEF Inv

(* However many transitions race, the incidents with a resolvedAt are the  *)
(* resolved ones.                                                          *)
THEOREM StampsAgree == Spec => []ResolvedIffStamped
<1>1. LifecycleInv => ResolvedIffStamped
  BY DEF LifecycleInv
<1>2. QED
  BY Invariance, <1>1, PTL

(* However many rounds overlap, a confirmed incident names an incident its *)
(* own vendor reported.                                                    *)
THEOREM LinksAgree == Spec => []ConfirmedIsLinked
<1>1. LifecycleInv => ConfirmedIsLinked
  BY DEF LifecycleInv
<1>2. QED
  BY Invariance, <1>1, PTL

----------------------------------------------------------------------------
(* Concurrent writes.                                                      *)

(* A row is inserted once, by the opening it belongs to.                   *)
FreshInv ==
    \A i \in Incidents : opening[i].stage \in {"none", "insert"} => ~Exists(i)

\* What NoLostUpdate says of a step.
NothingLost ==
    \A i \in Incidents : Exists(i) =>
        /\ row[i].correlation = "confirmed" => row'[i].correlation = "confirmed"
        /\ row[i].correlation # row'[i].correlation => row'[i].state = row[i].state

LEMMA OpeningLosesNothing ==
    ASSUME Inv, FreshInv, NEW i \in Incidents, OpenIncident(i)
    PROVE  FreshInv' /\ NothingLost
<1>1. \A j \in Incidents : j # i => opening'[j] = opening[j] /\ row'[j] = row[j]
  BY DEF OpenIncident, GetCorrelation, InsertIncident, NoteOpening, OpeningFails, Inv, TypeOK
<1>2. CASE InsertIncident(i)
  <2>1. ~Exists(i)
    BY <1>2 DEF InsertIncident, FreshInv
  <2>2. opening'[i].stage \in {"done", "note"}
    BY <1>2 DEF InsertIncident, Inv, TypeOK, Openings
  <2>3. QED
    BY <1>1, <2>1, <2>2 DEF FreshInv, NothingLost, Exists
<1>3. CASE GetCorrelation(i) \/ NoteOpening(i) \/ OpeningFails(i)
  <2>1. row' = row
    BY <1>3 DEF GetCorrelation, NoteOpening, OpeningFails
  <2>2. opening'[i].stage \in {"none", "insert"} => opening[i].stage \in {"none", "insert"}
    BY <1>3 DEF GetCorrelation, NoteOpening, OpeningFails, Inv, TypeOK, Openings
  <2>3. QED
    BY <1>1, <2>1, <2>2 DEF FreshInv, NothingLost, Exists
<1>4. QED
  BY <1>2, <1>3 DEF OpenIncident

(* A step that writes no row, or two columns of one that exists, and that  *)
(* either confirms it or leaves its confirmation alone.                    *)
LEMMA WriteLosesNothing ==
    ASSUME FreshInv, opening' = opening, NEW i \in Incidents, Exists(i),
           \A j \in Incidents : j # i => row'[j] = row[j],
           \/ row'[i].correlation = row[i].correlation
           \/ row'[i].correlation = "confirmed" /\ row'[i].state = row[i].state
    PROVE  FreshInv' /\ NothingLost
BY DEF FreshInv, NothingLost, Exists

LEMMA UpdateLosesNothing ==
    ASSUME Inv, FreshInv, NEW q \in Requests, UpdateIncident(q)
    PROVE  FreshInv' /\ NothingLost
<1> DEFINE c == request[q]
<1>1. c \in Calls /\ c.stage = "update"
  BY CallFacts DEF UpdateIncident, Inv, TypeOK
<1> PICK i \in Incidents : i = c.inc
  BY <1>1 DEF Calls
<1>2. Exists(i) /\ row[i] \in Rows
  BY <1>1, CallFacts DEF Inv, LifecycleInv, RequestInv, Exists, TypeOK
<1>3. /\ \A j \in Incidents : j # i => row'[j] = row[j]
      /\ row'[i] = [row[i] EXCEPT !.state = c.state, !.resolvedAt = c.resolvedAt]
  BY DEF UpdateIncident, Inv, TypeOK
<1>4. row'[i].correlation = row[i].correlation
  BY <1>2, <1>3 DEF Rows
<1>5. QED
  BY <1>2, <1>3, <1>4, WriteLosesNothing DEF UpdateIncident

LEMMA ConfirmLosesNothing ==
    ASSUME Inv, FreshInv, NEW k \in Rounds, ConfirmIncident(k)
    PROVE  FreshInv' /\ NothingLost
<1>1. /\ round[k] \in RoundsInFlight /\ round[k].stage = "confirm"
      /\ RoundInv(round[k]) /\ round[k] # NoRound
  BY RoundFacts DEF ConfirmIncident, Inv, TypeOK, LifecycleInv
<1> PICK i \in Incidents : i = round[k].current[1]
  BY <1>1, RoundFacts DEF Pending
<1>2. Exists(i) /\ row[i] \in Rows
  BY <1>1 DEF RoundInv, Exists, Inv, TypeOK
<1>3. /\ \A j \in Incidents : j # i => row'[j] = row[j]
      /\ row'[i] = [row[i] EXCEPT !.correlation = "confirmed", !.link = round[k].found]
  BY DEF ConfirmIncident, Inv, TypeOK
<1>4. row'[i].correlation = "confirmed" /\ row'[i].state = row[i].state
  BY <1>2, <1>3 DEF Rows
<1>5. QED
  BY <1>2, <1>3, <1>4, WriteLosesNothing DEF ConfirmIncident

LEMMA NextLosesNothing ==
    ASSUME Inv, FreshInv, [Next]_vars
    PROVE  FreshInv' /\ NothingLost
<1>1. CASE UNCHANGED <<row, opening>>
  BY <1>1 DEF FreshInv, NothingLost, Exists
<1>2. CASE (\E v \in VendorIncidents : Upsert(v)) \/ UNCHANGED vars
  BY <1>1, <1>2 DEF Upsert, vars
<1>3. ASSUME NEW q \in Requests, Serve(q) PROVE FreshInv' /\ NothingLost
  <2>1. UpdateIncident(q) \/ UNCHANGED <<row, opening>>
    BY <1>3 DEF Serve, ReadForTransition, ReadForUpdate, Begin, CreateUpdate, RequestFails
  <2>2. QED
    BY <1>1, <2>1, UpdateLosesNothing
<1>4. ASSUME NEW k \in Rounds, Recheck(k)
      PROVE  FreshInv' /\ NothingLost
  <2>1. ConfirmIncident(k) \/ UNCHANGED <<row, opening>>
    BY <1>4 DEF Recheck, FindPending, FindVendorIncident, NoteConfirmation, RoundEnds
  <2>2. QED
    BY <1>1, <2>1, ConfirmLosesNothing
<1>5. ASSUME NEW k \in Rounds, RoundFails(k)
      PROVE  FreshInv' /\ NothingLost
  <2>1. row' = row /\ \A i \in Incidents : opening'[i] = opening[i] \/ opening'[i].stage = "done"
    BY <1>5, FailFacts DEF Inv
  <2>2. QED
    BY <2>1 DEF FreshInv, NothingLost, Exists
<1>6. QED
  BY <1>2, <1>3, <1>4, <1>5, OpeningLosesNothing DEF Next

(* Whatever interleaves, a confirmation survives every request, and the    *)
(* recheck that writes one leaves the state a request has written.         *)
THEOREM WritesAreKept == Spec => NoLostUpdate
<1>1. Init => FreshInv
  BY NoRowAssumption DEF Init, FreshInv, Exists, NoOpening
<1>2. Inv /\ FreshInv /\ [Next]_vars => FreshInv' /\ [NothingLost]_vars
  BY NextLosesNothing
<1>3. Spec => []Inv
  BY InitInv, NextKeeps, PTL DEF Spec
<1>4. QED
  BY <1>1, <1>2, <1>3, PTL DEF Spec, NoLostUpdate, NothingLost

----------------------------------------------------------------------------
(* What a step may do to a row and to a timeline.                          *)

LEMMA RowSteps ==
    ASSUME Inv, [Next]_vars, NEW i \in Incidents
    PROVE  \/ row'[i] = row[i]
           \/ InsertIncident(i)
           \/ \E q \in Requests :
                /\ UpdateIncident(q) /\ request[q] \in Calls /\ request[q].inc = i
                /\ Exists(i) /\ row'[i] \in Rows /\ row'[i].state = request[q].state
                /\ row'[i].correlation = row[i].correlation
           \/ \E k \in Rounds :
                /\ ConfirmIncident(k) /\ round[k].current[1] = i
                /\ Exists(i) /\ row'[i] \in Rows /\ row'[i].state = row[i].state
                /\ row'[i].correlation = "confirmed"
<1>1. ASSUME NEW j \in Incidents, OpenIncident(j)
      PROVE  row'[i] = row[i] \/ InsertIncident(i)
  BY <1>1 DEF OpenIncident, GetCorrelation, InsertIncident, NoteOpening, OpeningFails,
              Inv, TypeOK
<1>2. ASSUME NEW q \in Requests, UpdateIncident(q), row'[i] # row[i]
      PROVE  /\ request[q] \in Calls /\ request[q].inc = i
             /\ Exists(i) /\ row'[i] \in Rows /\ row'[i].state = request[q].state
             /\ row'[i].correlation = row[i].correlation
  <2> DEFINE c == request[q]
  <2>1. c \in Calls /\ c.stage = "update" /\ c.inc \in Incidents /\ c.state \in States
        /\ c.resolvedAt \in BOOLEAN
    BY <1>2, CallFacts DEF UpdateIncident, Inv, TypeOK, Calls
  <2>2. /\ row' = [row EXCEPT ![c.inc].state = c.state, ![c.inc].resolvedAt = c.resolvedAt]
        /\ row \in [Incidents -> Rows \union {NoRow}]
    BY <1>2 DEF UpdateIncident, Inv, TypeOK
  <2>3. c.inc = i
    BY <1>2, <2>1, <2>2
  <2>4. Exists(i) /\ row[i] \in Rows
    BY <2>1, <2>3, CallFacts DEF Inv, LifecycleInv, RequestInv, Exists, TypeOK
  <2>5. row'[i] = [row[i] EXCEPT !.state = c.state, !.resolvedAt = c.resolvedAt]
    BY <2>2, <2>3
  <2>6. QED
    BY <2>1, <2>3, <2>4, <2>5 DEF Rows
<1>3. ASSUME NEW k \in Rounds, ConfirmIncident(k), row'[i] # row[i]
      PROVE  /\ round[k].current[1] = i
             /\ Exists(i) /\ row'[i] \in Rows /\ row'[i].state = row[i].state
             /\ row'[i].correlation = "confirmed"
  <2>1. /\ round[k] \in RoundsInFlight /\ round[k].stage = "confirm" /\ round[k] # NoRound
        /\ round[k].current \in Pending /\ round[k].found \in VendorIncidents
        /\ Exists(round[k].current[1])
    BY <1>3, RoundFacts DEF ConfirmIncident, Inv, TypeOK, LifecycleInv, RoundInv, Exists
  <2>2. /\ row' = [row EXCEPT ![round[k].current[1]].correlation = "confirmed",
                              ![round[k].current[1]].link = round[k].found]
        /\ row \in [Incidents -> Rows \union {NoRow}]
    BY <1>3 DEF ConfirmIncident, Inv, TypeOK
  <2>3. round[k].current[1] = i
    BY <1>3, <2>1, <2>2
  <2>4. row'[i] = [row[i] EXCEPT !.correlation = "confirmed", !.link = round[k].found]
        /\ row[i] \in Rows
    BY <2>1, <2>2, <2>3 DEF Exists
  <2>5. QED
    BY <2>1, <2>3, <2>4 DEF Rows, Exists
<1>4. CASE UNCHANGED row
  BY <1>4
<1>5. ASSUME NEW q \in Requests, Serve(q) PROVE UpdateIncident(q) \/ row' = row
  BY <1>5 DEF Serve, ReadForTransition, ReadForUpdate, Begin, CreateUpdate, RequestFails
<1>6. ASSUME NEW k \in Rounds, Recheck(k) \/ RoundFails(k) PROVE ConfirmIncident(k) \/ row' = row
  BY <1>6 DEF Recheck, FindPending, FindVendorIncident, NoteConfirmation, RoundEnds, RoundFails
<1>7. QED
  BY <1>1, <1>2, <1>3, <1>4, <1>5, <1>6 DEF Next, Upsert, vars

(* Every note is appended by one of three calls, to the timeline of a row  *)
(* that exists.                                                            *)
Appended(i, kind, state) ==
    timeline'[i] = Append(timeline[i], [kind |-> kind, state |-> state])

LEMMA TimelineSteps ==
    ASSUME Inv, [Next]_vars, NEW i \in Incidents
    PROVE  \/ timeline'[i] = timeline[i]
           \/ /\ NoteOpening(i)
              /\ \E kind \in {"unreported", "confirmed"} :
                    /\ Appended(i, kind, "investigating")
                    /\ kind = "confirmed" <=> opening[i].correlation = "confirmed"
           \/ \E q \in Requests :
                /\ CreateUpdate(q) /\ request[q] \in Calls /\ request[q].inc = i
                /\ Appended(i, request[q].kind, request[q].state)
           \/ \E k \in Rounds :
                /\ NoteConfirmation(k) /\ round[k] \in RoundsInFlight
                /\ round[k].current \in Pending /\ round[k].current[1] = i
                /\ Appended(i, "confirmed", round[k].current[2])
<1> USE DEF Note, Appended
<1>0. timeline \in [Incidents -> Seq(Entries)]
  BY DEF Inv, TypeOK
<1>1. ASSUME NEW j \in Incidents, OpenIncident(j), timeline'[i] # timeline[i]
      PROVE  /\ NoteOpening(i)
             /\ \E kind \in {"unreported", "confirmed"} :
                    /\ Appended(i, kind, "investigating")
                    /\ kind = "confirmed" <=> opening[i].correlation = "confirmed"
  <2>1. NoteOpening(j)
    BY <1>1 DEF OpenIncident, GetCorrelation, InsertIncident, OpeningFails
  <2>2. j = i
    BY <1>0, <1>1, <2>1 DEF NoteOpening
  <2>3. QED
    BY <1>0, <2>1, <2>2 DEF NoteOpening
<1>2. ASSUME NEW q \in Requests, Serve(q), timeline'[i] # timeline[i]
      PROVE  /\ CreateUpdate(q) /\ request[q] \in Calls /\ request[q].inc = i
             /\ Appended(i, request[q].kind, request[q].state)
  <2>1. CreateUpdate(q)
    BY <1>2 DEF Serve, ReadForTransition, ReadForUpdate, Begin, UpdateIncident, RequestFails
  <2>2. request[q] \in Calls /\ request[q].inc = i
    BY <1>0, <1>2, <2>1, CallFacts DEF CreateUpdate, Inv, TypeOK
  <2>3. QED
    BY <1>0, <2>1, <2>2 DEF CreateUpdate
<1>3. ASSUME NEW k \in Rounds, Recheck(k) \/ RoundFails(k), timeline'[i] # timeline[i]
      PROVE  /\ NoteConfirmation(k) /\ round[k] \in RoundsInFlight
             /\ round[k].current \in Pending /\ round[k].current[1] = i
             /\ Appended(i, "confirmed", round[k].current[2])
  <2>1. NoteConfirmation(k)
    BY <1>3 DEF Recheck, FindPending, FindVendorIncident, ConfirmIncident, RoundEnds, RoundFails
  <2>2. round[k] \in RoundsInFlight /\ round[k].current \in Pending
    BY <2>1, RoundFacts DEF NoteConfirmation, Inv, TypeOK
  <2>3. round[k].current[1] = i
    BY <1>0, <1>3, <2>1 DEF NoteConfirmation
  <2>4. QED
    BY <1>0, <2>1, <2>2, <2>3 DEF NoteConfirmation
<1>4. CASE UNCHANGED timeline
  BY <1>4
<1>5. QED
  BY <1>1, <1>2, <1>3, <1>4 DEF Next, Upsert, vars

LEMMA AppendedEntries ==
    ASSUME TypeOK, NEW i \in Incidents, NEW kind \in Kinds, NEW state \in States,
           Appended(i, kind, state)
    PROVE  \E last :
              /\ last \notin DOMAIN timeline[i]
              /\ DOMAIN timeline'[i] = DOMAIN timeline[i] \union {last}
              /\ timeline'[i][last] = [kind |-> kind, state |-> state]
              /\ \A n \in DOMAIN timeline[i] : timeline'[i][n] = timeline[i][n]
<1> DEFINE e == [kind |-> kind, state |-> state]
           last == Len(timeline[i]) + 1
<1>1. timeline[i] \in Seq(Entries) /\ e \in Entries
  BY DEF TypeOK, Entries
<1> HIDE DEF e
<1>2. timeline'[i] = Append(timeline[i], e)
  BY DEF Appended, e
<1>3. /\ DOMAIN timeline[i] = 1..Len(timeline[i]) /\ Len(timeline[i]) \in Nat
      /\ DOMAIN timeline'[i] = 1..last
      /\ timeline'[i][last] = e
      /\ \A n \in DOMAIN timeline[i] : timeline'[i][n] = timeline[i][n]
  BY <1>1, <1>2
<1>4. last \notin 1..Len(timeline[i]) /\ 1..last = (1..Len(timeline[i])) \union {last}
  BY <1>3
<1>5. WITNESS last
<1>6. QED
  BY <1>3, <1>4 DEF e

(* No note precedes its incident's row.                                    *)
EmptyInv ==
    /\ FreshInv
    /\ \A i \in Incidents : /\ opening[i].stage = "note" => Exists(i)
                            /\ ~Exists(i) => timeline[i] = <<>>

LEMMA RowsStay ==
    ASSUME Inv, [Next]_vars, NEW i \in Incidents
    PROVE  Exists(i) => Exists(i)'
<1>1. ASSUME InsertIncident(i) PROVE Exists(i)'
  <2> DEFINE r == [state |-> "investigating", resolvedAt |-> FALSE,
                   correlation |-> opening[i].correlation, link |-> opening[i].link]
  <2>1. r \in Rows
    BY DEF Inv, TypeOK, Openings, Rows, States
  <2>2. row'[i] = r
    BY <1>1 DEF InsertIncident, Inv, TypeOK
  <2>3. QED
    BY <2>1, <2>2, NoRowAssumption DEF Exists
<1>2. QED
  BY <1>1, RowSteps, NoRowAssumption DEF Exists

(* Nobody writes on the timeline of an incident that has no row yet.       *)
LEMMA OnlyRowsAreNoted ==
    ASSUME Inv, EmptyInv, [Next]_vars, NEW i \in Incidents, ~Exists(i)
    PROVE  timeline'[i] = timeline[i]
<1>1. ~NoteOpening(i)
  BY DEF NoteOpening, EmptyInv
<1>2. \A q \in Requests : request[q] \in Calls => request[q].inc # i
  BY CallFacts DEF Inv, LifecycleInv, RequestInv
<1>3. \A k \in Rounds : NoteConfirmation(k) /\ round[k] \in RoundsInFlight
                            => round[k].current[1] # i
  BY RoundFacts DEF Inv, LifecycleInv, RoundInv, NoteConfirmation
<1>4. QED
  BY <1>1, <1>2, <1>3, TimelineSteps

LEMMA EmptyKeeps ==
    ASSUME Inv, EmptyInv, [Next]_vars
    PROVE  EmptyInv'
<1>1. FreshInv'
  BY NextLosesNothing DEF EmptyInv
<1>2. ASSUME NEW i \in Incidents, opening'[i].stage = "note" PROVE Exists(i)'
  <2>1. CASE opening[i].stage = "note"
    BY <2>1, RowsStay DEF EmptyInv
  <2>2. CASE opening[i].stage # "note"
    <3>1. ~Exists(i)' => opening'[i].stage # "note"
      <4>1. \A j \in Incidents : OpenIncident(j) /\ j # i => opening'[i] = opening[i]
        BY DEF OpenIncident, GetCorrelation, InsertIncident, NoteOpening, OpeningFails,
               Inv, TypeOK
      <4>2. GetCorrelation(i) \/ NoteOpening(i) \/ OpeningFails(i) => opening'[i].stage # "note"
        BY DEF GetCorrelation, NoteOpening, OpeningFails, Inv, TypeOK, Openings
      <4>3. InsertIncident(i) => Exists(i)'
        <5> DEFINE r == [state |-> "investigating", resolvedAt |-> FALSE,
                         correlation |-> opening[i].correlation, link |-> opening[i].link]
        <5>1. r \in Rows
          BY DEF Inv, TypeOK, Openings, Rows, States
        <5>2. InsertIncident(i) => row'[i] = r
          BY DEF InsertIncident, Inv, TypeOK
        <5>3. QED
          BY <5>1, <5>2, NoRowAssumption DEF Exists
      <4>4. \A j \in Incidents : OpenIncident(j) =>
                opening'[i].stage # "note" \/ Exists(i)'
        BY <2>2, <4>1, <4>2, <4>3 DEF OpenIncident
      <4>5. CASE opening' = opening
        BY <2>2, <4>5
      <4>6. \A k \in Rounds : RoundFails(k) => opening'[i].stage # "note"
        BY <2>2, FailFacts DEF Inv
      <4>7. QED
        BY <4>4, <4>5, <4>6
           DEF Next, Upsert, Serve, ReadForTransition, ReadForUpdate, Begin, UpdateIncident,
               CreateUpdate, RequestFails, Recheck, FindPending, FindVendorIncident,
               ConfirmIncident, NoteConfirmation, RoundEnds, vars
    <3>2. QED
      BY <1>2, <3>1
  <2>3. QED
    BY <2>1, <2>2
<1>3. ASSUME NEW i \in Incidents, ~Exists(i)' PROVE timeline'[i] = <<>>
  <2>1. ~Exists(i) /\ timeline[i] = <<>>
    BY <1>3, RowsStay DEF EmptyInv
  <2>2. timeline'[i] = timeline[i]
    BY <2>1, OnlyRowsAreNoted
  <2>3. QED
    BY <2>1, <2>2
<1>4. QED
  BY <1>1, <1>2, <1>3 DEF EmptyInv

LEMMA InitEmpty == Init => EmptyInv
BY NoRowAssumption DEF Init, EmptyInv, FreshInv, Exists, NoOpening

----------------------------------------------------------------------------
(* How a request, a round and an opening move.                             *)

LEMMA RequestSteps ==
    ASSUME Inv, [Next]_vars, NEW q \in Requests
    PROVE  \/ request'[q] = request[q]
           \/ request'[q] = NoCall
           \/ /\ UNCHANGED <<row, timeline>> /\ request'[q] \in Calls
              /\ \/ /\ request'[q].stage = "update" /\ request'[q].kind = "transition"
                    /\ Forward(request'[q].inc, request'[q].state)
                 \/ request'[q].stage = "note" /\ request'[q].kind = "update"
           \/ /\ UpdateIncident(q) /\ request[q] \in Calls /\ request'[q] \in Calls
              /\ request'[q].stage = "note"
              /\ request'[q].inc = request[q].inc /\ request'[q].state = request[q].state
              /\ request'[q].kind = request[q].kind
<1>0. request \in [Requests -> Calls \union {NoCall}] /\ row \in [Incidents -> Rows \union {NoRow}]
  BY DEF Inv, TypeOK
<1>1. ASSUME NEW r \in Requests, Serve(r), r # q PROVE request'[q] = request[q]
  BY <1>0, <1>1 DEF Serve, ReadForTransition, ReadForUpdate, Begin, UpdateIncident, CreateUpdate,
                    RequestFails
<1>2. ASSUME NEW i \in Incidents, NEW s \in States, NEW message \in BOOLEAN,
             ReadForTransition(q, i, s, message)
      PROVE  /\ UNCHANGED <<row, timeline>> /\ request'[q] \in Calls
             /\ request'[q].stage = "update" /\ request'[q].kind = "transition"
             /\ Forward(request'[q].inc, request'[q].state)
  <2> DEFINE c == [stage |-> "update", inc |-> i, kind |-> "transition", state |-> s,
                   message |-> message, resolvedAt |-> s = "resolved" \/ row[i].resolvedAt]
  <2>1. row[i] \in Rows
    BY <1>0, <1>2 DEF ReadForTransition, Exists
  <2>2. c \in Calls
    BY <2>1 DEF Calls, Kinds, Rows
  <2>3. request'[q] = c /\ UNCHANGED <<row, timeline>> /\ Forward(i, s)
    BY <1>0, <1>2 DEF ReadForTransition, Begin
  <2>4. QED
    BY <2>2, <2>3
<1>3. ASSUME NEW i \in Incidents, NEW s \in States, ReadForUpdate(q, i, s)
      PROVE  /\ UNCHANGED <<row, timeline>> /\ request'[q] \in Calls
             /\ request'[q].stage = "note" /\ request'[q].kind = "update"
  <2> DEFINE c == [stage |-> "note", inc |-> i, kind |-> "update", state |-> s,
                   message |-> TRUE, resolvedAt |-> row[i].resolvedAt]
  <2>1. row[i] \in Rows
    BY <1>0, <1>3 DEF ReadForUpdate, Exists
  <2>2. c \in Calls
    BY <2>1 DEF Calls, Kinds, Rows
  <2>3. request'[q] = c /\ UNCHANGED <<row, timeline>>
    BY <1>0, <1>3 DEF ReadForUpdate, Begin
  <2>4. QED
    BY <2>2, <2>3
<1>4. ASSUME UpdateIncident(q), request'[q] # NoCall
      PROVE  /\ request[q] \in Calls /\ request'[q] \in Calls /\ request'[q].stage = "note"
             /\ request'[q].inc = request[q].inc /\ request'[q].state = request[q].state
             /\ request'[q].kind = request[q].kind
  <2>1. request[q] \in Calls
    BY <1>0, <1>4, CallFacts DEF UpdateIncident
  <2>2. request'[q] = [request[q] EXCEPT !.stage = "note"]
    BY <1>0, <1>4 DEF UpdateIncident
  <2>3. QED
    BY <2>1, <2>2 DEF Calls
<1>5. ASSUME CreateUpdate(q) \/ RequestFails(q) PROVE request'[q] = NoCall
  BY <1>0, <1>5 DEF CreateUpdate, RequestFails
<1>6. CASE \E r \in Requests : Serve(r)
  BY <1>1, <1>2, <1>3, <1>4, <1>5, <1>6 DEF Serve
<1>7. CASE request' = request
  BY <1>7
<1>8. QED
  BY <1>6, <1>7 DEF Next, Upsert, OpenIncident, GetCorrelation, InsertIncident, NoteOpening,
       OpeningFails, Recheck, FindPending, FindVendorIncident, ConfirmIncident,
       NoteConfirmation, RoundEnds, RoundFails, vars

LEMMA RoundSteps ==
    ASSUME Inv, [Next]_vars, NEW k \in Rounds
    PROVE  \/ round'[k] = round[k]
           \/ round'[k] = NoRound
           \/ FindPending(k)
           \/ \E p \in Pending : FindVendorIncident(k, p)
           \/ ConfirmIncident(k)
           \/ NoteConfirmation(k)
<1>0. round \in [Rounds -> RoundsInFlight \union {NoRound}]
  BY DEF Inv, TypeOK
<1>1. ASSUME NEW l \in Rounds, Recheck(l), l # k PROVE round'[k] = round[k]
  BY <1>0, <1>1 DEF Recheck, FindPending, FindVendorIncident, ConfirmIncident, NoteConfirmation,
                    RoundEnds
<1>2. ASSUME RoundEnds(k) PROVE round'[k] = NoRound
  BY <1>0, <1>2 DEF RoundEnds
<1>3. CASE round' = round
  BY <1>3
<1>4. CASE \E l \in Rounds : Recheck(l) \/ RoundFails(l)
  <2>1. \A l \in Rounds : RoundFails(l) => round'[k] \in {round[k], NoRound}
    BY FailFacts DEF Inv
  <2>2. QED
    BY <1>1, <1>2, <1>4, <2>1 DEF Recheck
<1>5. QED
  BY <1>3, <1>4 DEF Next, Upsert, OpenIncident, GetCorrelation, InsertIncident, NoteOpening,
       OpeningFails, Serve, ReadForTransition, ReadForUpdate, Begin, UpdateIncident,
       CreateUpdate, RequestFails, vars

LEMMA OpeningSteps ==
    ASSUME Inv, [Next]_vars, NEW i \in Incidents
    PROVE  \/ opening'[i] = opening[i]
           \/ opening'[i].stage # "note"
           \/ /\ InsertIncident(i)
              /\ row'[i] # NoRow /\ row'[i].correlation = opening'[i].correlation
<1>0. opening \in [Incidents -> Openings] /\ row \in [Incidents -> Rows \union {NoRow}]
  BY DEF Inv, TypeOK
<1>1. ASSUME NEW j \in Incidents, OpenIncident(j), j # i PROVE opening'[i] = opening[i]
  BY <1>0, <1>1 DEF OpenIncident, GetCorrelation, InsertIncident, NoteOpening, OpeningFails
<1>2. ASSUME GetCorrelation(i) \/ NoteOpening(i) \/ OpeningFails(i) PROVE opening'[i].stage # "note"
  BY <1>0, <1>2 DEF GetCorrelation, NoteOpening, OpeningFails, Openings
<1>3. ASSUME InsertIncident(i)
      PROVE  row'[i] # NoRow /\ row'[i].correlation = opening'[i].correlation
  <2> DEFINE r == [state |-> "investigating", resolvedAt |-> FALSE,
                   correlation |-> opening[i].correlation, link |-> opening[i].link]
  <2>1. r \in Rows
    BY <1>0 DEF Openings, Rows, States
  <2>2. row'[i] = r
    BY <1>0, <1>3 DEF InsertIncident
  <2>3. opening'[i].correlation = opening[i].correlation
    BY <1>0, <1>3 DEF InsertIncident, Openings
  <2>4. r # NoRow
    BY <2>1, NoRowAssumption
  <2>5. r.correlation = opening[i].correlation
    OBVIOUS
  <2> HIDE DEF r
  <2>6. QED
    BY <2>2, <2>3, <2>4, <2>5
<1>4. CASE opening' = opening
  BY <1>4
<1>5. CASE \E j \in Incidents : OpenIncident(j)
  BY <1>1, <1>2, <1>3, <1>5 DEF OpenIncident
<1>6. ASSUME NEW q \in Requests, Serve(q) PROVE opening' = opening
  BY <1>6 DEF Serve, ReadForTransition, ReadForUpdate, Begin, UpdateIncident, CreateUpdate,
              RequestFails
<1>7. ASSUME NEW k \in Rounds, Recheck(k) PROVE opening' = opening
  BY <1>7 DEF Recheck, FindPending, FindVendorIncident, ConfirmIncident, NoteConfirmation,
              RoundEnds
<1>8. ASSUME NEW k \in Rounds, RoundFails(k)
      PROVE  opening'[i] = opening[i] \/ opening'[i].stage # "note"
  BY <1>8, FailFacts DEF Inv
<1>9. QED
  BY <1>4, <1>5, <1>6, <1>7, <1>8 DEF Next, Upsert, vars

----------------------------------------------------------------------------
(* States that only advance.  A transition is judged by the state it read; *)
(* what it read still holds when it writes if no other transition of the   *)
(* same incident writes in between.                                        *)

TransitionsTakeTurns ==
    \A q, r \in Requests :
        /\ request[q].stage = "update" /\ request[r].stage = "update"
        /\ request[q].inc = request[r].inc
        => q = r

ForwardInv ==
    \A q \in Requests :
        request[q].stage = "update" => Forward(request[q].inc, request[q].state)

\* What StateNeverMovesBack says of a step.
NoStepBack ==
    \A i \in Incidents : Exists(i) =>
        transitionOrder[row'[i].state] >= transitionOrder[row[i].state]

LEMMA OrderFacts ==
    /\ \A s \in States : transitionOrder[s] \in Nat
    /\ transitionOrder["investigating"] = 0 /\ "investigating" \in States
BY DEF States, transitionOrder

LEMMA RowStates ==
    ASSUME TypeOK, NEW i \in Incidents, Exists(i)
    PROVE  row[i].state \in States /\ transitionOrder[row[i].state] \in Nat
BY OrderFacts DEF TypeOK, Exists, Rows

LEMMA TransitionsAdvance ==
    ASSUME Inv, FreshInv, ForwardInv, [Next]_vars
    PROVE  NoStepBack
<1> SUFFICES ASSUME NEW i \in Incidents, Exists(i)
             PROVE  transitionOrder[row'[i].state] >= transitionOrder[row[i].state]
  BY DEF NoStepBack
<1>1. transitionOrder[row[i].state] \in Nat
  BY RowStates DEF Inv
<1>2. ~InsertIncident(i)
  BY DEF InsertIncident, FreshInv
<1>3. ASSUME NEW q \in Requests, UpdateIncident(q), request[q].inc = i
      PROVE  transitionOrder[request[q].state] >= transitionOrder[row[i].state]
  BY <1>3 DEF UpdateIncident, ForwardInv, Forward
<1>4. QED
  BY <1>1, <1>2, <1>3, RowSteps

LEMMA ForwardKeeps ==
    ASSUME Inv, FreshInv, ForwardInv, TransitionsTakeTurns, [Next]_vars
    PROVE  ForwardInv'
<1> SUFFICES ASSUME NEW q \in Requests, request'[q].stage = "update"
             PROVE  Forward(request[q].inc, request[q].state)'
  BY DEF ForwardInv
<1>1. CASE request'[q] = request[q]
  <2> DEFINE i == request[q].inc
  <2>1. request[q] \in Calls /\ request[q].stage = "update"
    BY <1>1, CallFacts DEF Inv, TypeOK
  <2>2. i \in Incidents /\ Exists(i) /\ Forward(i, request[q].state)
    BY <2>1, CallFacts DEF Inv, LifecycleInv, RequestInv, ForwardInv, Calls
  <2>3. ~InsertIncident(i)
    BY <2>2 DEF InsertIncident, FreshInv
  <2>4. ASSUME NEW r \in Requests, UpdateIncident(r), request[r].inc = i PROVE FALSE
    <3>1. r = q
      BY <2>1, <2>4 DEF UpdateIncident, TransitionsTakeTurns
    <3>2. request'[q] = NoCall \/ request'[q] = [request[q] EXCEPT !.stage = "note"]
      BY <2>4, <3>1 DEF UpdateIncident, Inv, TypeOK
    <3>3. QED
      BY <1>1, <2>1, <3>2, CallFacts DEF Calls
  <2>5. row'[i] = row[i] \/ row'[i].state = row[i].state
    BY <2>2, <2>3, <2>4, RowSteps
  <2>6. QED
    BY <1>1, <2>2, <2>5 DEF Forward
<1>2. CASE request'[q] # request[q]
  BY <1>2, RequestSteps, CallFacts DEF Forward
<1>3. QED
  BY <1>1, <1>2

(* "Incident state cannot move backwards" (incidents.repository.ts:56) is  *)
(* true when no two transitions of one incident overlap between their read *)
(* and their write, with any number of incidents, other requests, openings *)
(* and rechecks in between; when two overlap it is not.                    *)
THEOREM StatesAdvance == Spec /\ []TransitionsTakeTurns => StateNeverMovesBack
<1>1. Init => FreshInv /\ ForwardInv
  BY NoRowAssumption, CallFacts DEF Init, FreshInv, ForwardInv, Exists, NoOpening
<1>2. Inv /\ FreshInv /\ ForwardInv /\ TransitionsTakeTurns /\ [Next]_vars
          => FreshInv' /\ ForwardInv' /\ [NoStepBack]_vars
  BY NextLosesNothing, ForwardKeeps, TransitionsAdvance
<1>3. Spec => []Inv
  BY InitInv, NextKeeps, PTL DEF Spec
<1>4. QED
  BY <1>1, <1>2, <1>3, PTL DEF Spec, StateNeverMovesBack, NoStepBack

----------------------------------------------------------------------------
(* Confirmations.  A round that starts after an incident was confirmed does*)
(* not list it, so those that may still note a confirmation are the rounds *)
(* that had listed it when it came.                                        *)

\* Round k has listed i and not confirmed it yet, or confirmed it and not noted so.
Waits(k, i) ==
    /\ round[k] # NoRound
    /\ \/ \E p \in round[k].pending : p[1] = i
       \/ round[k].stage = "confirm" /\ round[k].current[1] = i

AtNote(k, i) == round[k].stage = "note" /\ round[k].current[1] = i

Holders(i) == {k \in Rounds : Waits(k, i) \/ AtNote(k, i)}

Unnoted(i) == Confirmations(i) = {} /\ \A k \in Rounds : ~AtNote(k, i)

\* The opening of i is about to note a confirmation.
OpensConfirmed(i) == opening[i].stage = "note" /\ opening[i].correlation = "confirmed"

PeopleDoNotConfirm ==
    \A q \in Requests : request[q] # NoCall => request[q].kind # "confirmed"

ListedOnce(r) ==
    r # NoRound =>
        /\ \A p, s \in r.pending : p[1] = s[1] => p = s
        /\ r.stage # "each" => \A p \in r.pending : p[1] # r.current[1]

\* The notes there are and those that may follow.
Bounded(i) ==
    \/ Holders(i) = {} /\ Cardinality(Confirmations(i)) <= 1
    \/ Cardinality(Confirmations(i)) + Cardinality(Holders(i)) <= Cardinality(Rounds)

CountInv ==
    /\ PeopleDoNotConfirm
    /\ \A k \in Rounds : ListedOnce(round[k])
    /\ \A i \in Incidents :
          /\ ~Confirmed(i) => Unnoted(i)
          /\ OpensConfirmed(i) => Confirmed(i) /\ Confirmations(i) = {} /\ Holders(i) = {}
          /\ Confirmed(i) => Bounded(i)

LEMMA PeopleNeverConfirm ==
    ASSUME Inv, PeopleDoNotConfirm, [Next]_vars
    PROVE  PeopleDoNotConfirm'
BY RequestSteps, CallFacts DEF PeopleDoNotConfirm

LEMMA RoundsListOnce ==
    ASSUME Inv, [Next]_vars, NEW k \in Rounds, ListedOnce(round[k])
    PROVE  ListedOnce(round[k])'
<1>0. round \in [Rounds -> RoundsInFlight \union {NoRound}]
  BY DEF Inv, TypeOK
<1>1. CASE round'[k] = round[k] \/ round'[k] = NoRound
  BY <1>1 DEF ListedOnce
<1>2. CASE FindPending(k)
  <2>1. round'[k] = [stage |-> "each",
                     pending |-> {<<i, row[i].state>> : i \in {j \in Incidents : Unconfirmed(j)}}]
    BY <1>0, <1>2 DEF FindPending
  <2>2. \A p, s \in round'[k].pending : p[1] = s[1] => p = s
    BY <2>1
  <2>3. QED
    BY <2>1, <2>2 DEF ListedOnce
<1>3. ASSUME NEW p \in Pending, FindVendorIncident(k, p) PROVE ListedOnce(round[k])'
  <2>1. round[k] # NoRound /\ p \in round[k].pending
    BY <1>3, RoundFacts DEF FindVendorIncident
  <2>2. /\ round'[k].pending = round[k].pending \ {p}
        /\ round'[k].stage # "each" => round'[k].current = p
    BY <1>0, <1>3 DEF FindVendorIncident
  <2>3. QED
    BY <2>1, <2>2 DEF ListedOnce
<1>4. CASE ConfirmIncident(k)
  <2>1. round[k] \in RoundsInFlight /\ round[k] # NoRound /\ round[k].stage = "confirm"
    BY <1>0, <1>4, RoundFacts DEF ConfirmIncident
  <2>2. round'[k] = [round[k] EXCEPT !.stage = "note"]
    BY <1>0, <1>4 DEF ConfirmIncident
  <2>3. round'[k].pending = round[k].pending /\ round'[k].current = round[k].current
    BY <2>1, <2>2 DEF RoundsInFlight
  <2>4. QED
    BY <2>1, <2>3 DEF ListedOnce
<1>5. CASE NoteConfirmation(k)
  <2>1. round[k] # NoRound
    BY <1>5, RoundFacts DEF NoteConfirmation
  <2>2. round'[k] = [stage |-> "each", pending |-> round[k].pending]
    BY <1>0, <1>5 DEF NoteConfirmation
  <2>3. QED
    BY <2>1, <2>2 DEF ListedOnce
<1>6. QED
  BY <1>1, <1>2, <1>3, <1>4, <1>5, RoundSteps

(* A round comes to wait for what it finds unconfirmed, and to a note only *)
(* by confirming what it waits for.                                        *)
LEMMA NewlyWaiting ==
    ASSUME Inv, [Next]_vars, NEW k \in Rounds, NEW i \in Incidents,
           Waits(k, i)', ~Waits(k, i)
    PROVE  ~Confirmed(i)'
<1>0. round \in [Rounds -> RoundsInFlight \union {NoRound}]
  BY DEF Inv, TypeOK
<1>1. CASE FindPending(k)
  <2>1. round'[k] = [stage |-> "each",
                     pending |-> {<<j, row[j].state>> : j \in {m \in Incidents : Unconfirmed(m)}}]
        /\ row' = row
    BY <1>0, <1>1 DEF FindPending
  <2>2. PICK p \in round'[k].pending : p[1] = i
    BY <2>1 DEF Waits
  <2>3. Unconfirmed(i)
    BY <2>1, <2>2
  <2>4. QED
    BY <2>1, <2>3 DEF Unconfirmed, Confirmed, Exists
<1>2. ASSUME NEW p \in Pending, FindVendorIncident(k, p) PROVE FALSE
  <2>1. round[k] # NoRound /\ p \in round[k].pending
    BY <1>2, RoundFacts DEF FindVendorIncident
  <2>2. /\ round'[k].pending = round[k].pending \ {p}
        /\ round'[k].stage # "each" => round'[k].current = p
    BY <1>0, <1>2 DEF FindVendorIncident
  <2>3. QED
    BY <2>1, <2>2 DEF Waits
<1>3. ASSUME ConfirmIncident(k) PROVE FALSE
  <2>1. round[k] \in RoundsInFlight /\ round[k] # NoRound
    BY <1>0, <1>3, RoundFacts DEF ConfirmIncident
  <2>2. round'[k] = [round[k] EXCEPT !.stage = "note"]
    BY <1>0, <1>3 DEF ConfirmIncident
  <2>3. round'[k].pending = round[k].pending /\ round'[k].stage = "note"
    BY <2>1, <2>2 DEF RoundsInFlight
  <2>4. QED
    BY <2>1, <2>3 DEF Waits
<1>4. ASSUME NoteConfirmation(k) PROVE FALSE
  <2>1. round[k] # NoRound
    BY <1>4, RoundFacts DEF NoteConfirmation
  <2>2. round'[k] = [stage |-> "each", pending |-> round[k].pending]
    BY <1>0, <1>4 DEF NoteConfirmation
  <2>3. QED
    BY <2>1, <2>2 DEF Waits
<1>5. CASE round'[k] = round[k] \/ round'[k] = NoRound
  BY <1>5 DEF Waits
<1>6. QED
  BY <1>1, <1>2, <1>3, <1>4, <1>5, RoundSteps

LEMMA NewlyAtNote ==
    ASSUME Inv, [Next]_vars, NEW k \in Rounds, NEW i \in Incidents,
           AtNote(k, i)', ~AtNote(k, i)
    PROVE  ConfirmIncident(k) /\ round[k].current[1] = i /\ Waits(k, i)
<1>0. round \in [Rounds -> RoundsInFlight \union {NoRound}]
  BY DEF Inv, TypeOK
<1>1. ConfirmIncident(k)
  <2>1. round'[k] # round[k] /\ round'[k] # NoRound
    BY RoundFacts DEF AtNote
  <2>2. FindPending(k) \/ NoteConfirmation(k) => round'[k].stage = "each"
    BY <1>0 DEF FindPending, NoteConfirmation
  <2>3. ASSUME NEW p \in Pending, FindVendorIncident(k, p)
        PROVE  round'[k].stage \in {"each", "confirm"}
    BY <1>0, <2>3 DEF FindVendorIncident
  <2>4. QED
    BY <2>1, <2>2, <2>3, RoundSteps DEF AtNote
<1>2. round[k] \in RoundsInFlight /\ round[k] # NoRound /\ round[k].stage = "confirm"
  BY <1>0, <1>1, RoundFacts DEF ConfirmIncident
<1>3. round'[k] = [round[k] EXCEPT !.stage = "note"]
  BY <1>0, <1>1 DEF ConfirmIncident
<1>4. round'[k].current = round[k].current
  BY <1>2, <1>3 DEF RoundsInFlight
<1>5. QED
  BY <1>1, <1>2, <1>4 DEF AtNote, Waits

(* An incident becomes confirmed when it is inserted so, or by the round   *)
(* that has it at hand; then it stays confirmed.                           *)
LEMMA ConfirmationSteps ==
    ASSUME Inv, FreshInv, [Next]_vars, NEW i \in Incidents
    PROVE  /\ Confirmed(i) => Confirmed(i)'
           /\ Confirmed(i)' => \/ Confirmed(i)
                               \/ InsertIncident(i)
                               \/ \E k \in Rounds : /\ ConfirmIncident(k)
                                                    /\ round[k].current[1] = i
           /\ \A k \in Rounds :
                ConfirmIncident(k) /\ round[k].current[1] = i => Confirmed(i)'
<1>1. Exists(i) => Exists(i)' /\ ~InsertIncident(i)
  BY RowsStay DEF FreshInv, InsertIncident
<1>2. Confirmed(i) => Confirmed(i)'
  BY <1>1, RowSteps DEF Confirmed
<1>3. Confirmed(i)' => \/ Confirmed(i)
                       \/ InsertIncident(i)
                       \/ \E k \in Rounds : ConfirmIncident(k) /\ round[k].current[1] = i
  BY RowSteps DEF Confirmed, Exists
<1>4. ASSUME NEW k \in Rounds, ConfirmIncident(k), round[k].current[1] = i
      PROVE  Confirmed(i)'
  <2>1. /\ round[k] \in RoundsInFlight /\ round[k] # NoRound /\ round[k].stage = "confirm"
        /\ round[k].found \in VendorIncidents
    BY <1>4, RoundFacts DEF ConfirmIncident, Inv, TypeOK
  <2>2. Exists(i) /\ row[i] \in Rows
    BY <1>4, <2>1 DEF Inv, TypeOK, LifecycleInv, RoundInv, Exists
  <2>3. row' = [row EXCEPT ![i].correlation = "confirmed", ![i].link = round[k].found]
    BY <1>4 DEF ConfirmIncident
  <2>4. row'[i] = [row[i] EXCEPT !.correlation = "confirmed", !.link = round[k].found]
    BY <2>3 DEF Inv, TypeOK
  <2>5. row'[i].correlation = "confirmed"
    BY <2>2, <2>4 DEF Rows
  <2>6. QED
    BY <1>1, <2>2, <2>5 DEF Confirmed
<1>5. QED
  BY <1>2, <1>3, <1>4

(* Who notes a confirmation: the opening that was correlated at once, or   *)
(* the round that has just confirmed.                                      *)
LEMMA ConfirmationNotes ==
    ASSUME Inv, EmptyInv, PeopleDoNotConfirm, [Next]_vars, NEW i \in Incidents
    PROVE  \/ Confirmations(i)' = Confirmations(i)
           \/ /\ \E last : Confirmations(i)' = Confirmations(i) \union {last}
              /\ \/ NoteOpening(i) /\ OpensConfirmed(i)
                 \/ \E k \in Rounds : NoteConfirmation(k) /\ AtNote(k, i)
<1>1. ASSUME NEW kind \in Kinds, NEW state \in States, Appended(i, kind, state)
      PROVE  /\ \E last : Confirmations(i)' \in {Confirmations(i), Confirmations(i) \union {last}}
             /\ kind # "confirmed" => Confirmations(i)' = Confirmations(i)
  <2>1. PICK last :
            /\ last \notin DOMAIN timeline[i]
            /\ DOMAIN timeline'[i] = DOMAIN timeline[i] \union {last}
            /\ timeline'[i][last] = [kind |-> kind, state |-> state]
            /\ \A m \in DOMAIN timeline[i] : timeline'[i][m] = timeline[i][m]
    BY <1>1, AppendedEntries DEF Inv
  <2>2. timeline'[i][last].kind = kind
    BY <2>1
  <2>3. CASE kind = "confirmed"
    <3>1. Confirmations(i)' = Confirmations(i) \union {last}
      BY <2>1, <2>2, <2>3 DEF Confirmations
    <3>2. QED
      BY <2>3, <3>1
  <2>4. CASE kind # "confirmed"
    <3>1. Confirmations(i)' = Confirmations(i)
      BY <2>1, <2>2, <2>4 DEF Confirmations
    <3>2. QED
      BY <3>1
  <2>5. QED
    BY <2>3, <2>4
<1>2. CASE timeline'[i] = timeline[i]
  BY <1>2 DEF Confirmations
<1>3. ASSUME NoteOpening(i), NEW kind \in {"unreported", "confirmed"},
             Appended(i, kind, "investigating"),
             kind = "confirmed" <=> opening[i].correlation = "confirmed"
      PROVE  \/ Confirmations(i)' = Confirmations(i)
             \/ /\ \E last : Confirmations(i)' = Confirmations(i) \union {last}
                /\ OpensConfirmed(i)
  <2>1. kind \in Kinds
    BY DEF Kinds
  <2>2. QED
    BY <1>1, <1>3, <2>1, OrderFacts DEF OpensConfirmed, NoteOpening
<1>4. ASSUME NEW q \in Requests, request[q] \in Calls,
             Appended(i, request[q].kind, request[q].state)
      PROVE  Confirmations(i)' = Confirmations(i)
  <2>1. request[q].kind \in Kinds /\ request[q].state \in States /\ request[q].kind # "confirmed"
    BY <1>4, CallFacts DEF Calls, PeopleDoNotConfirm
  <2>2. QED
    BY <1>1, <1>4, <2>1
<1>5. ASSUME NEW k \in Rounds, NoteConfirmation(k), round[k].current \in Pending,
             round[k].current[1] = i, Appended(i, "confirmed", round[k].current[2])
      PROVE  \/ Confirmations(i)' = Confirmations(i)
             \/ /\ \E last : Confirmations(i)' = Confirmations(i) \union {last}
                /\ AtNote(k, i)
  <2>1. round[k].current[2] \in States /\ "confirmed" \in Kinds
    BY <1>5 DEF Pending, Kinds
  <2>2. QED
    BY <1>1, <1>5, <2>1 DEF AtNote, NoteConfirmation
<1>6. QED
  BY <1>2, <1>3, <1>4, <1>5, TimelineSteps

(* Nobody comes to hold an incident that is confirmed.                     *)
LEMMA HoldersShrink ==
    ASSUME Inv, [Next]_vars, NEW i \in Incidents, Confirmed(i)'
    PROVE  Holders(i)' \subseteq Holders(i)
<1> SUFFICES ASSUME NEW k \in Rounds, Waits(k, i)' \/ AtNote(k, i)',
                    ~Waits(k, i), ~AtNote(k, i)
             PROVE  FALSE
  BY DEF Holders
<1>1. CASE Waits(k, i)'
  BY <1>1, NewlyWaiting
<1>2. CASE AtNote(k, i)'
  BY <1>2, NewlyAtNote
<1>3. QED
  BY <1>1, <1>2

(* A round that notes a confirmation lets go of the incident.              *)
LEMMA NotingReleases ==
    ASSUME Inv, NEW k \in Rounds, NEW i \in Incidents, ListedOnce(round[k]),
           NoteConfirmation(k), AtNote(k, i)
    PROVE  k \in Holders(i) /\ k \notin Holders(i)'
<1>1. round[k] # NoRound /\ \A p \in round[k].pending : p[1] # i
  BY RoundFacts DEF AtNote, ListedOnce
<1>2. round'[k] = [stage |-> "each", pending |-> round[k].pending]
  BY DEF NoteConfirmation, Inv, TypeOK
<1>3. ~Waits(k, i)' /\ ~AtNote(k, i)'
  BY <1>1, <1>2 DEF Waits, AtNote
<1>4. QED
  BY <1>3 DEF Holders

LEMMA FiniteCounts ==
    ASSUME TypeOK, NEW i \in Incidents
    PROVE  /\ IsFiniteSet(Confirmations(i)) /\ IsFiniteSet(Holders(i))
           /\ Cardinality(Confirmations(i)) \in Nat /\ Cardinality(Holders(i)) \in Nat
           /\ Cardinality(Rounds) \in Nat
           /\ Cardinality(Holders(i)) <= Cardinality(Rounds)
<1>1. timeline[i] \in Seq(Entries)
  BY DEF TypeOK
<1>2. DOMAIN timeline[i] = 1..Len(timeline[i]) /\ Len(timeline[i]) \in Nat
  BY <1>1
<1>3. IsFiniteSet(DOMAIN timeline[i])
  BY <1>2, FS_Interval
<1>4. Confirmations(i) \subseteq DOMAIN timeline[i] /\ Holders(i) \subseteq Rounds
  BY DEF Confirmations, Holders
<1>5. IsFiniteSet(Confirmations(i))
  BY <1>3, <1>4, FS_Subset
<1>6. IsFiniteSet(Holders(i)) /\ Cardinality(Holders(i)) <= Cardinality(Rounds)
  BY <1>4, RoundsAssumption, FS_Subset
<1>7. QED
  BY <1>5, <1>6, RoundsAssumption, FS_CardinalityType

(* Once the incident is confirmed, each further note uses up a round.      *)
LEMMA BoundKeeps ==
    ASSUME Inv, TypeOK', CountInv, [Next]_vars, NEW i \in Incidents,
           Confirmed(i), Confirmed(i)',
           \/ Confirmations(i)' = Confirmations(i)
           \/ /\ \E last : Confirmations(i)' = Confirmations(i) \union {last}
              /\ \/ NoteOpening(i) /\ OpensConfirmed(i)
                 \/ \E k \in Rounds : NoteConfirmation(k) /\ AtNote(k, i)
    PROVE  Bounded(i)'
<1> DEFINE C == Confirmations(i)
           D == Confirmations(i)'
           H == Holders(i)
           G == Holders(i)'
<1>1. Bounded(i) /\ G \subseteq H
  BY HoldersShrink DEF CountInv
<1>2. /\ IsFiniteSet(C) /\ IsFiniteSet(H) /\ IsFiniteSet(G)
      /\ Cardinality(C) \in Nat /\ Cardinality(H) \in Nat /\ Cardinality(Rounds) \in Nat
      /\ Cardinality(D) \in Nat /\ Cardinality(G) \in Nat
  <2>1. IsFiniteSet(G)
    BY <1>1, FiniteCounts, FS_Subset DEF Inv
  <2>2. IsFiniteSet(D)
    <3>1. D = C \/ \E last : D = C \union {last}
      OBVIOUS
    <3>2. QED
      BY <3>1, FiniteCounts, FS_AddElement DEF Inv
  <2>3. QED
    BY <2>1, <2>2, FiniteCounts, FS_CardinalityType DEF Inv
<1>3. Cardinality(G) <= Cardinality(H)
  BY <1>1, <1>2, FS_Subset
<1>4. \/ H = {} /\ Cardinality(C) <= 1
      \/ Cardinality(C) + Cardinality(H) <= Cardinality(Rounds)
  BY <1>1 DEF Bounded
<1>5. SUFFICES \/ G = {} /\ Cardinality(D) <= 1
               \/ Cardinality(D) + Cardinality(G) <= Cardinality(Rounds)
  BY DEF Bounded
<1>6. CASE D = C
  <2> HIDE DEF C, D, G, H
  <2>1. CASE H = {} /\ Cardinality(C) <= 1
    BY <1>1, <1>6, <2>1
  <2>2. CASE Cardinality(C) + Cardinality(H) <= Cardinality(Rounds)
    BY <1>2, <1>3, <1>6, <2>2
  <2>3. QED
    BY <1>4, <2>1, <2>2
<1>7. ASSUME NEW last, D = C \union {last}, OpensConfirmed(i)
      PROVE  G = {} /\ Cardinality(D) <= 1
  <2>1. C = {} /\ H = {}
    BY <1>7 DEF CountInv
  <2>2. D = {last} /\ G = {}
    BY <1>1, <1>7, <2>1
  <2>3. Cardinality({last}) = 1
    BY FS_Singleton
  <2> HIDE DEF C, D, G, H
  <2>4. QED
    BY <2>2, <2>3
<1>8. ASSUME NEW last, D = C \union {last}, NEW k \in Rounds, NoteConfirmation(k), AtNote(k, i)
      PROVE  Cardinality(D) + Cardinality(G) <= Cardinality(Rounds)
  <2>1. k \in H /\ k \notin G
    BY <1>8, NotingReleases DEF CountInv
  <2>2. G \subseteq H \ {k}
    BY <1>1, <2>1
  <2> HIDE DEF C, D, G, H
  <2>3. Cardinality(H \ {k}) = Cardinality(H) - 1 /\ IsFiniteSet(H \ {k})
    BY <1>2, <2>1, FS_RemoveElement
  <2>4. Cardinality(G) <= Cardinality(H) - 1
    BY <2>2, <2>3, FS_Subset
  <2>5. Cardinality(D) <= Cardinality(C) + 1
    <3>1. Cardinality(C \union {last}) = IF last \in C THEN Cardinality(C) ELSE Cardinality(C) + 1
      BY <1>2, FS_AddElement
    <3>2. QED
      BY <1>2, <1>8, <3>1
  <2>6. Cardinality(C) + Cardinality(H) <= Cardinality(Rounds)
    BY <1>4, <2>1
  <2>7. QED
    BY <1>2, <2>4, <2>5, <2>6
<1>9. QED
  BY <1>6, <1>7, <1>8

LEMMA CountKeeps ==
    ASSUME Inv, TypeOK', EmptyInv, CountInv, [Next]_vars
    PROVE  CountInv'
<1>1. PeopleDoNotConfirm' /\ \A k \in Rounds : ListedOnce(round[k])'
  BY PeopleNeverConfirm, RoundsListOnce DEF CountInv
<1> SUFFICES ASSUME NEW i \in Incidents
             PROVE  /\ ~Confirmed(i)' => Unnoted(i)'
                    /\ OpensConfirmed(i)' =>
                          Confirmed(i)' /\ Confirmations(i)' = {} /\ Holders(i)' = {}
                    /\ Confirmed(i)' => Bounded(i)'
  BY <1>1 DEF CountInv
<1>2. /\ ~Confirmed(i) => Unnoted(i)
      /\ OpensConfirmed(i) => Confirmed(i) /\ Confirmations(i) = {} /\ Holders(i) = {}
      /\ Confirmed(i) => Bounded(i)
  BY DEF CountInv
<1>3. /\ Confirmed(i) => Confirmed(i)'
      /\ Confirmed(i)' => \/ Confirmed(i)
                          \/ InsertIncident(i)
                          \/ \E k \in Rounds : /\ ConfirmIncident(k)
                                               /\ round[k].current[1] = i
      /\ \A k \in Rounds : ConfirmIncident(k) /\ round[k].current[1] = i => Confirmed(i)'
  BY ConfirmationSteps DEF EmptyInv
<1>4. \/ Confirmations(i)' = Confirmations(i)
      \/ /\ \E last : Confirmations(i)' = Confirmations(i) \union {last}
         /\ \/ NoteOpening(i) /\ OpensConfirmed(i)
            \/ \E k \in Rounds : NoteConfirmation(k) /\ AtNote(k, i)
  BY ConfirmationNotes DEF CountInv
<1>5. Confirmations(i)' # Confirmations(i) => Confirmed(i)
  BY <1>2, <1>4 DEF Unnoted
<1>6. \A k \in Rounds : AtNote(k, i)' /\ ~AtNote(k, i) =>
          ConfirmIncident(k) /\ round[k].current[1] = i /\ Waits(k, i)
  BY NewlyAtNote
<1>7. \A k \in Rounds : Waits(k, i) \/ AtNote(k, i) => Exists(i)
  BY RoundFacts DEF Waits, AtNote, Inv, LifecycleInv, RoundInv
<1>8. ~Confirmed(i)' => Unnoted(i)'
  BY <1>2, <1>3, <1>5, <1>6 DEF Unnoted
<1>9. ASSUME OpensConfirmed(i)'
      PROVE  Confirmed(i)' /\ Confirmations(i)' = {} /\ Holders(i)' = {}
  <2>1. ~NoteOpening(i)
    <3>1. NoteOpening(i) => opening'[i].stage = "done"
      BY DEF NoteOpening, Inv, TypeOK, Openings
    <3>2. QED
      BY <1>9, <3>1 DEF OpensConfirmed
  <2>2. CASE OpensConfirmed(i)
    <3>1. Confirmed(i)' /\ Confirmations(i) = {} /\ Holders(i) = {}
      BY <1>2, <1>3, <2>2
    <3>2. Holders(i)' = {}
      BY <3>1, HoldersShrink
    <3>3. Confirmations(i)' = {}
      BY <1>4, <2>1, <3>1 DEF Holders
    <3>4. QED
      BY <3>1, <3>2, <3>3
  <2>3. CASE ~OpensConfirmed(i)
    <3>1. InsertIncident(i) /\ Confirmed(i)'
      BY <1>9, <2>3, OpeningSteps DEF OpensConfirmed, Confirmed, Exists
    <3>2. ~Exists(i) /\ ~Confirmed(i)
      BY <3>1 DEF InsertIncident, EmptyInv, FreshInv, Confirmed
    <3>3. Confirmations(i)' = {}
      BY <1>2, <1>5, <3>2 DEF Unnoted
    <3>4. Holders(i) = {}
      BY <1>7, <3>2 DEF Holders
    <3>5. Holders(i)' = {}
      BY <3>1, <3>4, HoldersShrink
    <3>6. QED
      BY <3>1, <3>3, <3>5
  <2>4. QED
    BY <2>2, <2>3
<1>10. ASSUME Confirmed(i)' PROVE Bounded(i)'
  <2>1. CASE Confirmed(i)
    BY <1>4, <1>10, <2>1, BoundKeeps
  <2>2. CASE ~Confirmed(i)
    <3>1. Confirmations(i)' = {}
      BY <1>2, <1>5, <2>2 DEF Unnoted
    <3>2. Holders(i)' \subseteq Rounds
      BY DEF Holders
    <3>3. Cardinality(Holders(i)') <= Cardinality(Rounds)
      BY <3>2, RoundsAssumption, FS_Subset
    <3>4. Cardinality(Holders(i)') \in Nat
      BY <3>2, RoundsAssumption, FS_Subset, FS_CardinalityType
    <3>5. Cardinality(Confirmations(i)') = 0
      BY <3>1, FS_EmptySet
    <3>6. Cardinality(Rounds) \in Nat
      BY RoundsAssumption, FS_CardinalityType
    <3>7. QED
      BY <3>3, <3>4, <3>5, <3>6 DEF Bounded
  <2>3. QED
    BY <2>1, <2>2
<1>11. QED
  BY <1>8, <1>9, <1>10

LEMMA InitCounts == Init => CountInv
<1> SUFFICES ASSUME Init PROVE CountInv
  OBVIOUS
<1>1. \A i \in Incidents : Confirmations(i) = {} /\ ~OpensConfirmed(i) /\ ~Confirmed(i)
  BY DEF Init, Confirmations, OpensConfirmed, NoOpening, Confirmed, Exists
<1>2. \A k \in Rounds : ListedOnce(round[k]) /\ \A i \in Incidents : ~AtNote(k, i)
  BY RoundFacts DEF Init, ListedOnce, AtNote
<1>3. PeopleDoNotConfirm
  BY DEF Init, PeopleDoNotConfirm
<1>4. QED
  BY <1>1, <1>2, <1>3 DEF CountInv, Unnoted

LEMMA CountInvariance == Spec => [](Inv /\ EmptyInv /\ CountInv)
<1>1. Inv /\ EmptyInv /\ CountInv /\ [Next]_vars => Inv' /\ EmptyInv' /\ CountInv'
  <2> SUFFICES ASSUME Inv, EmptyInv, CountInv, [Next]_vars
               PROVE  Inv' /\ EmptyInv' /\ CountInv'
    OBVIOUS
  <2>1. Inv'
    BY NextKeeps
  <2>2. QED
    BY <2>1, EmptyKeeps, CountKeeps DEF Inv
<1>2. QED
  BY <1>1, InitInv, InitEmpty, InitCounts, PTL DEF Spec

(* However many rounds overlap, within an alerter or between alerters, a   *)
(* confirmation is noted at most once by each of the rounds that can be at *)
(* work at once, and once if it came with the opening.                     *)
THEOREM ConfirmationsAreBounded == Spec => []ConfirmationNotesAreBounded
<1>1. Inv /\ CountInv => ConfirmationNotesAreBounded
  <2> SUFFICES ASSUME Inv, CountInv, NEW i \in Incidents
               PROVE  \/ Cardinality(Confirmations(i)) <= 1
                      \/ Cardinality(Confirmations(i)) <= Cardinality(Rounds)
    BY DEF ConfirmationNotesAreBounded
  <2>1. CASE Confirmed(i)
    <3>1. Bounded(i)
      BY <2>1 DEF CountInv
    <3>2. QED
      BY <3>1, FiniteCounts DEF Bounded, Inv
  <2>2. CASE ~Confirmed(i)
    <3>1. Confirmations(i) = {}
      BY <2>2 DEF CountInv, Unnoted
    <3>2. QED
      BY <3>1, FS_EmptySet
  <2>3. QED
    BY <2>1, <2>2
<1>2. QED
  BY <1>1, CountInvariance, PTL

----------------------------------------------------------------------------
(* Notes.  A note carries a state its writer read or wrote earlier, and    *)
(* what the row has been stays on record.                                  *)

WasInv ==
    /\ \A i \in Incidents : Exists(i) => {"investigating", row[i].state} \subseteq reached[i]
    /\ \A i \in Incidents : \A n \in DOMAIN timeline[i] :
          timeline[i][n].kind # "update" => timeline[i][n].state \in reached[i]
    /\ \A q \in Requests : request[q].stage = "note" /\ request[q].kind # "update"
                                => request[q].state \in reached[request[q].inc]
    /\ \A k \in Rounds : round[k] # NoRound =>
          /\ \A p \in round[k].pending : p[2] \in reached[p[1]]
          /\ round[k].stage # "each" => round[k].current[2] \in reached[round[k].current[1]]

(* The record of an incident only grows, with what is written to its row.  *)
LEMMA ReachedGrows ==
    ASSUME Inv, [Next]_vars, NEW i \in Incidents
    PROVE  /\ reached[i] \subseteq reached'[i]
           /\ InsertIncident(i) => "investigating" \in reached'[i]
           /\ \A q \in Requests : UpdateIncident(q) /\ request[q].inc = i
                                      => request[q].state \in reached'[i]
<1>0. reached \in [Incidents -> SUBSET States]
  BY DEF Inv, TypeOK
<1>1. ASSUME NEW j \in Incidents, InsertIncident(j)
      PROVE  reached[i] \subseteq reached'[i] /\ (j = i => "investigating" \in reached'[i])
  BY <1>0, <1>1 DEF InsertIncident, Reach
<1>2. ASSUME NEW q \in Requests, UpdateIncident(q)
      PROVE  /\ reached[i] \subseteq reached'[i]
             /\ request[q].inc = i => request[q].state \in reached'[i]
  BY <1>0, <1>2 DEF UpdateIncident, Reach
<1>3. \/ \E j \in Incidents : InsertIncident(j)
      \/ \E q \in Requests : UpdateIncident(q)
      \/ reached' = reached
  BY DEF Next, Upsert, OpenIncident, GetCorrelation, NoteOpening, OpeningFails, Serve,
         ReadForTransition, ReadForUpdate, Begin, CreateUpdate, RequestFails, Recheck,
         FindPending, FindVendorIncident, ConfirmIncident, NoteConfirmation, RoundEnds,
         RoundFails, vars
<1>4. QED
  BY <1>1, <1>2, <1>3

LEMMA RowsAreOnRecord ==
    ASSUME Inv, EmptyInv, WasInv, [Next]_vars, NEW i \in Incidents, Exists(i)'
    PROVE  {"investigating", row'[i].state} \subseteq reached'[i]
<1>1. reached[i] \subseteq reached'[i]
  BY ReachedGrows
<1>2. CASE Exists(i)
  <2>1. {"investigating", row[i].state} \subseteq reached'[i]
    BY <1>1, <1>2 DEF WasInv
  <2>2. ~InsertIncident(i)
    BY <1>2 DEF InsertIncident, EmptyInv, FreshInv
  <2>3. \/ row'[i] = row[i] \/ row'[i].state = row[i].state
        \/ \E q \in Requests : /\ UpdateIncident(q) /\ request[q].inc = i
                               /\ row'[i].state = request[q].state
    BY <2>2, RowSteps
  <2>4. QED
    BY <2>1, <2>3, ReachedGrows
<1>3. CASE ~Exists(i)
  <2>1. InsertIncident(i)
    BY <1>3, RowSteps DEF Exists
  <2>2. row'[i].state = "investigating"
    BY <2>1 DEF InsertIncident, Inv, TypeOK
  <2>3. QED
    BY <2>1, <2>2, ReachedGrows
<1>4. QED
  BY <1>2, <1>3

(* What is appended to the timeline tells a state on record.               *)
LEMMA NotesAreOnRecord ==
    ASSUME Inv, EmptyInv, WasInv, [Next]_vars, NEW i \in Incidents,
           NEW n \in DOMAIN timeline'[i], timeline'[i][n].kind # "update"
    PROVE  timeline'[i][n].state \in reached'[i]
<1>1. reached[i] \subseteq reached'[i]
  BY ReachedGrows
<1>2. CASE timeline'[i] = timeline[i]
  BY <1>1, <1>2 DEF WasInv
<1>3. ASSUME NEW kind \in Kinds, NEW state \in States, Appended(i, kind, state),
             kind # "update" => state \in reached[i]
      PROVE  timeline'[i][n].state \in reached'[i]
  <2>1. PICK last :
            /\ DOMAIN timeline'[i] = DOMAIN timeline[i] \union {last}
            /\ timeline'[i][last] = [kind |-> kind, state |-> state]
            /\ \A m \in DOMAIN timeline[i] : timeline'[i][m] = timeline[i][m]
    BY <1>3, AppendedEntries DEF Inv
  <2>2. CASE n \in DOMAIN timeline[i]
    BY <1>1, <2>1, <2>2 DEF WasInv
  <2>3. CASE n = last
    <3>1. timeline'[i][n].kind = kind /\ timeline'[i][n].state = state
      BY <2>1, <2>3
    <3>2. QED
      BY <1>1, <1>3, <3>1
  <2>4. QED
    BY <2>1, <2>2, <2>3
<1>4. timeline'[i] # timeline[i] => Exists(i)
  BY OnlyRowsAreNoted
<1>5. ASSUME NEW kind \in {"unreported", "confirmed"}, Appended(i, kind, "investigating"), Exists(i)
      PROVE  timeline'[i][n].state \in reached'[i]
  <2>1. "investigating" \in reached[i] /\ kind \in Kinds
    BY <1>5 DEF WasInv, Kinds
  <2>2. QED
    BY <1>3, <1>5, <2>1, OrderFacts
<1>6. ASSUME NEW q \in Requests, CreateUpdate(q), request[q] \in Calls, request[q].inc = i,
             Appended(i, request[q].kind, request[q].state)
      PROVE  timeline'[i][n].state \in reached'[i]
  <2>1. request[q].kind \in Kinds /\ request[q].state \in States
    BY <1>6 DEF Calls
  <2>2. request[q].kind # "update" => request[q].state \in reached[i]
    BY <1>6 DEF CreateUpdate, WasInv
  <2>3. QED
    BY <1>3, <1>6, <2>1, <2>2
<1>7. ASSUME NEW k \in Rounds, NoteConfirmation(k), round[k] \in RoundsInFlight,
             round[k].current \in Pending, round[k].current[1] = i,
             Appended(i, "confirmed", round[k].current[2])
      PROVE  timeline'[i][n].state \in reached'[i]
  <2>1. round[k].current[2] \in States /\ "confirmed" \in Kinds
    BY <1>7 DEF Pending, Kinds
  <2>2. round[k].current[2] \in reached[i]
    BY <1>7, RoundFacts DEF NoteConfirmation, WasInv
  <2>3. QED
    BY <1>3, <1>7, <2>1, <2>2
<1>8. QED
  BY <1>2, <1>4, <1>5, <1>6, <1>7, TimelineSteps

LEMMA CallsAreOnRecord ==
    ASSUME Inv, WasInv, [Next]_vars, NEW q \in Requests,
           request'[q].stage = "note", request'[q].kind # "update"
    PROVE  request'[q].state \in reached'[request'[q].inc]
<1>1. CASE request'[q] = request[q]
  <2>1. request[q] \in Calls
    BY <1>1, CallFacts DEF Inv, TypeOK
  <2>2. request[q].inc \in Incidents /\ request[q].state \in reached[request[q].inc]
    BY <1>1, <2>1 DEF WasInv, Calls
  <2>3. QED
    BY <1>1, <2>2, ReachedGrows
<1>2. CASE UpdateIncident(q) /\ request[q] \in Calls
           /\ request'[q].inc = request[q].inc /\ request'[q].state = request[q].state
  <2>1. request[q].inc \in Incidents
    BY <1>2 DEF Calls
  <2>2. QED
    BY <1>2, <2>1, ReachedGrows
<1>3. QED
  BY <1>1, <1>2, RequestSteps, CallFacts

LEMMA RoundsAreOnRecord ==
    ASSUME Inv, WasInv, [Next]_vars, NEW k \in Rounds, round'[k] # NoRound
    PROVE  /\ \A p \in round'[k].pending : p[2] \in reached'[p[1]]
           /\ round'[k].stage # "each" =>
                round'[k].current[2] \in reached'[round'[k].current[1]]
<1>0. round \in [Rounds -> RoundsInFlight \union {NoRound}]
  BY DEF Inv, TypeOK
<1>1. round[k] # NoRound =>
          /\ \A p \in round[k].pending : p[2] \in reached'[p[1]]
          /\ round[k].stage # "each" => round[k].current[2] \in reached'[round[k].current[1]]
  <2> SUFFICES ASSUME round[k] # NoRound
               PROVE  /\ \A p \in round[k].pending : p[2] \in reached'[p[1]]
                      /\ round[k].stage # "each" =>
                            round[k].current[2] \in reached'[round[k].current[1]]
    OBVIOUS
  <2>1. \A p \in Pending : p[2] \in reached[p[1]] => p[2] \in reached'[p[1]]
    BY ReachedGrows DEF Pending
  <2>2. QED
    BY <1>0, <2>1, RoundFacts DEF WasInv
<1>2. CASE round'[k] = round[k]
  BY <1>1, <1>2
<1>3. CASE FindPending(k)
  <2>1. round'[k] = [stage |-> "each",
                     pending |-> {<<i, row[i].state>> : i \in {j \in Incidents : Unconfirmed(j)}}]
    BY <1>0, <1>3 DEF FindPending
  <2>2. ASSUME NEW p \in round'[k].pending PROVE p[2] \in reached'[p[1]]
    <3>1. PICK i \in Incidents : Unconfirmed(i) /\ p = <<i, row[i].state>>
      BY <2>1
    <3>2. row[i].state \in reached[i]
      BY <3>1 DEF Unconfirmed, WasInv
    <3>3. QED
      BY <3>1, <3>2, ReachedGrows
  <2>3. QED
    BY <2>1, <2>2
<1>4. ASSUME NEW p \in Pending, FindVendorIncident(k, p)
      PROVE  /\ \A r \in round'[k].pending : r[2] \in reached'[r[1]]
             /\ round'[k].stage # "each" =>
                    round'[k].current[2] \in reached'[round'[k].current[1]]
  <2>1. round[k] # NoRound /\ p \in round[k].pending
    BY <1>4, RoundFacts DEF FindVendorIncident
  <2>2. /\ round'[k].pending = round[k].pending \ {p}
        /\ round'[k].stage # "each" => round'[k].current = p
    BY <1>0, <1>4 DEF FindVendorIncident
  <2>3. QED
    BY <1>1, <2>1, <2>2
<1>5. CASE ConfirmIncident(k)
  <2>1. round[k] \in RoundsInFlight /\ round[k] # NoRound /\ round[k].stage = "confirm"
    BY <1>0, <1>5, RoundFacts DEF ConfirmIncident
  <2>2. round'[k] = [round[k] EXCEPT !.stage = "note"]
    BY <1>0, <1>5 DEF ConfirmIncident
  <2>3. round'[k].pending = round[k].pending /\ round'[k].current = round[k].current
    BY <2>1, <2>2 DEF RoundsInFlight
  <2>4. QED
    BY <1>1, <2>1, <2>3
<1>6. CASE NoteConfirmation(k)
  <2>1. round[k] # NoRound
    BY <1>6, RoundFacts DEF NoteConfirmation
  <2>2. round'[k] = [stage |-> "each", pending |-> round[k].pending]
    BY <1>0, <1>6 DEF NoteConfirmation
  <2>3. QED
    BY <1>1, <2>1, <2>2
<1>7. QED
  BY <1>2, <1>3, <1>4, <1>5, <1>6, RoundSteps

(* Whatever transitions overlap and however stale a round's list is, a note*)
(* on the timeline other than a person's own tells a state the incident has*)
(* been in, and tells of a confirmation only once the row is confirmed.    *)
THEOREM NotesAreTrue == Spec => []NotesTellWhatWas
<1>1. Init => WasInv
  <2> SUFFICES ASSUME Init PROVE WasInv
    OBVIOUS
  <2>1. \A i \in Incidents : DOMAIN timeline[i] = {} /\ ~Exists(i)
    BY DEF Init, Exists
  <2>2. QED
    BY <2>1, CallFacts DEF Init, WasInv
<1>2. Inv /\ EmptyInv /\ WasInv /\ [Next]_vars => WasInv'
  <2> SUFFICES ASSUME Inv, EmptyInv, WasInv, [Next]_vars PROVE WasInv'
    OBVIOUS
  <2>1. QED
    BY RowsAreOnRecord, NotesAreOnRecord, CallsAreOnRecord, RoundsAreOnRecord DEF WasInv, Exists
<1>3. CountInv /\ WasInv => NotesTellWhatWas
  <2> SUFFICES ASSUME CountInv, WasInv, NEW i \in Incidents, NEW n \in DOMAIN timeline[i]
               PROVE  /\ timeline[i][n].kind # "update" => timeline[i][n].state \in reached[i]
                      /\ timeline[i][n].kind = "confirmed" => Confirmed(i)
    BY DEF NotesTellWhatWas
  <2>1. timeline[i][n].kind = "confirmed" => n \in Confirmations(i)
    BY DEF Confirmations
  <2>2. QED
    BY <2>1 DEF CountInv, Unnoted, WasInv
<1>4. QED
  BY <1>1, <1>2, <1>3, CountInvariance, PTL DEF Spec

============================================================================
