-------------------------- MODULE StatuspagePoller --------------------------
(***************************************************************************)
(* StatuspageService of the scheduler: one chain of timer, poll, timer per *)
(* vendor host, which copies the vendor's incidents into vendor_incidents  *)
(* and keeps the health of the source in vendor_poll_states.  One action   *)
(* per await of pollHost.                                                  *)
(*                                                                         *)
(* The vendors' status pages and PostgreSQL are external.  The summary     *)
(* page lists a vendor's unresolved incidents only, the history page all of*)
(* them.  Time is abstract: an armed timer fires in the end, and the hour  *)
(* between two history pulls passes in the end.  vendor_components and the *)
(* Redis copy of the summary decide nothing and are left out, but for the  *)
(* failures of writing them.                                               *)
(***************************************************************************)
EXTENDS Naturals, FiniteSets

CONSTANTS
    Hosts,
    VendorIncidents,
    HostOf,         \* HostOf[v]: the host that reports v
    StaleAfter,     \* 5 consecutive failures
    MaxBackoff,     \* 32, in units of BASE_INTERVAL_MS
    NoState,        \* no row in vendor_poll_states yet
    MaxFaults       \* bound of the model

ASSUME HostAssumption == HostOf \in [VendorIncidents -> Hosts]
ASSUME NumberAssumption ==
    StaleAfter \in Nat \ {0} /\ MaxBackoff \in Nat \ {0} /\ MaxFaults \in Nat

VARIABLES
    vendor,         \* vendor[v]: what the vendor says of v
    row,            \* row[v]: what vendor_incidents says of v
    pollState,      \* pollState[h]: row of vendor_poll_states, or NoState
    process,        \* the scheduler: "running", "stopping" or "down"
    armed,          \* armed[h]: a timer is set for h
    historyDue,     \* historyDue[h]: no history pulled in the last hour
    poll,           \* poll[h]: the run of pollHost for h
    faults

\* History, read by no action.
VARIABLE
    streak          \* streak[h]: polls that failed since one was recorded good

service == <<process, armed, historyDue>>
vars == <<vendor, row, pollState, service, poll, faults, streak>>

Statuses == {"absent", "open", "resolved", "postmortem"}
Rank == [absent |-> 0, open |-> 1, resolved |-> 2, postmortem |-> 3]

Stages == {"idle", "summary", "persist", "history", "persistHistory", "record",
           "failed", "recordFailure", "schedule"}

\* todo: upserts still to do; throttled: the poll failed with a 429 or a 5xx;
\* failures: the count the failed poll will write.
Poll == [stage: Stages, todo: SUBSET (VendorIncidents \X Statuses),
         throttled: BOOLEAN, failures: Nat]

Idle == [stage |-> "idle", todo |-> {}, throttled |-> FALSE, failures |-> 0]

\* A row of vendor_poll_states; backoff is the delay behind backoffUntil, 0
\* for null.
PollStates == [failures: Nat, stale: BOOLEAN, backoff: 0..MaxBackoff]

TypeOK ==
    /\ vendor \in [VendorIncidents -> Statuses]
    /\ row \in [VendorIncidents -> Statuses]
    /\ pollState \in [Hosts -> PollStates \union {NoState}]
    /\ process \in {"running", "stopping", "down"}
    /\ armed \in [Hosts -> BOOLEAN]
    /\ historyDue \in [Hosts -> BOOLEAN]
    /\ poll \in [Hosts -> Poll]
    /\ faults \in Nat
    /\ streak \in [Hosts -> Nat]

Init ==
    /\ vendor = [v \in VendorIncidents |-> "absent"]
    /\ row = [v \in VendorIncidents |-> "absent"]
    /\ pollState = [h \in Hosts |-> NoState]
    /\ process = "down"
    /\ armed = [h \in Hosts |-> FALSE]
    /\ historyDue = [h \in Hosts |-> TRUE]
    /\ poll = [h \in Hosts |-> Idle]
    /\ faults = 0
    /\ streak = [h \in Hosts |-> 0]

----------------------------------------------------------------------------
(* Environment.                                                            *)

(* A vendor opens an incident, resolves it and publishes its postmortem.   *)
VendorReports(v) ==
    /\ \E status \in Statuses :
          /\ Rank[status] = Rank[vendor[v]] + 1
          /\ vendor' = [vendor EXCEPT ![v] = status]
    /\ UNCHANGED <<row, pollState, service, poll, faults, streak>>

HourPasses(h) ==
    /\ process # "down"
    /\ ~historyDue[h]
    /\ historyDue' = [historyDue EXCEPT ![h] = TRUE]
    /\ UNCHANGED <<vendor, row, pollState, process, armed, poll, faults, streak>>

----------------------------------------------------------------------------
(* The process.                                                            *)

(* onModuleInit: a timer per host, whatever backoff the rows ask for, and  *)
(* no memory of past history pulls.                                        *)
Start ==
    /\ process = "down"
    /\ process' = "running"
    /\ armed' = [h \in Hosts |-> TRUE]
    /\ historyDue' = [h \in Hosts |-> TRUE]
    /\ UNCHANGED <<vendor, row, pollState, poll, faults, streak>>

(* onModuleDestroy: no timer survives; a poll in flight goes on.           *)
Stop ==
    /\ process = "running"
    /\ faults < MaxFaults
    /\ faults' = faults + 1
    /\ process' = "stopping"
    /\ armed' = [h \in Hosts |-> FALSE]
    /\ UNCHANGED <<vendor, row, pollState, historyDue, poll, streak>>

Die ==
    /\ process' = "down"
    /\ armed' = [h \in Hosts |-> FALSE]
    /\ poll' = [h \in Hosts |-> Idle]
    /\ UNCHANGED <<vendor, row, pollState, historyDue, streak>>

(* The process ends: stopped, or killed at any moment.                     *)
Exit == process = "stopping" /\ Die /\ UNCHANGED faults

Crash ==
    /\ process # "down"
    /\ faults < MaxFaults
    /\ faults' = faults + 1
    /\ Die

----------------------------------------------------------------------------
(* pollHost.                                                               *)

Goto(h, stage) == poll' = [poll EXCEPT ![h].stage = stage]

FireTimer(h) ==
    /\ armed[h]
    /\ armed' = [armed EXCEPT ![h] = FALSE]
    /\ Goto(h, "summary")
    /\ UNCHANGED <<vendor, row, pollState, process, historyDue, faults, streak>>

\* Mutant of Listed: the status of the page is not read.
ListedAsOpen(h, statuses) ==
    {<<v, "open">> : v \in {u \in VendorIncidents :
                               HostOf[u] = h /\ vendor[u] \in statuses}}

Listed(h, statuses) ==
    {<<v, vendor[v]>> : v \in {u \in VendorIncidents :
                                  HostOf[u] = h /\ vendor[u] \in statuses}}

\* Mutant of FetchSummary: rows the page does not list are deleted.
FetchSummaryAndPrune(h) ==
    /\ poll[h].stage = "summary"
    /\ poll' = [poll EXCEPT ![h].stage = "persist", ![h].todo = Listed(h, {"open"})]
    /\ row' = [v \in VendorIncidents |->
            IF HostOf[v] = h /\ vendor[v] # "open" THEN "absent" ELSE row[v]]
    /\ UNCHANGED <<vendor, pollState, service, faults, streak>>

FetchSummary(h) ==
    /\ poll[h].stage = "summary"
    /\ poll' = [poll EXCEPT ![h].stage = "persist", ![h].todo = Listed(h, {"open"})]
    /\ UNCHANGED <<vendor, row, pollState, service, faults, streak>>

FetchHistory(h) ==
    /\ poll[h].stage = "history"
    /\ poll' = [poll EXCEPT ![h].stage = "persistHistory",
                            ![h].todo = Listed(h, {"open", "resolved", "postmortem"})]
    /\ UNCHANGED <<vendor, row, pollState, service, faults, streak>>

(* One upsert of persistIncidents.                                         *)
UpsertIncident(h, v, status) ==
    /\ poll[h].stage \in {"persist", "persistHistory"}
    /\ <<v, status>> \in poll[h].todo
    /\ row' = [row EXCEPT ![v] = status]
    /\ poll' = [poll EXCEPT ![h].todo = @ \ {<<v, status>>}]
    /\ UNCHANGED <<vendor, pollState, service, faults, streak>>

(* The page is stored: on to the history when it is due, or to the end.    *)
Persisted(h) ==
    /\ poll[h].todo = {}
    /\ \/ /\ poll[h].stage = "persist"
          /\ Goto(h, IF historyDue[h] THEN "history" ELSE "record")
          /\ UNCHANGED historyDue
       \/ /\ poll[h].stage = "persistHistory"
          /\ Goto(h, "record")
          /\ historyDue' = [historyDue EXCEPT ![h] = FALSE]
    /\ UNCHANGED <<vendor, row, pollState, process, armed, faults, streak>>

\* Mutant of RecordSuccess: the failure count is kept.
RecordSuccessKeepingCount(h) ==
    /\ poll[h].stage = "record"
    /\ pollState' = [pollState EXCEPT ![h] =
            [failures |-> IF pollState[h] = NoState THEN 0 ELSE pollState[h].failures,
             stale |-> FALSE, backoff |-> 0]]
    /\ streak' = [streak EXCEPT ![h] = 0]
    /\ Goto(h, "schedule")
    /\ UNCHANGED <<vendor, row, service, faults>>

RecordSuccess(h) ==
    /\ poll[h].stage = "record"
    /\ pollState' = [pollState EXCEPT ![h] = [failures |-> 0, stale |-> FALSE, backoff |-> 0]]
    /\ streak' = [streak EXCEPT ![h] = 0]
    /\ Goto(h, "schedule")
    /\ UNCHANGED <<vendor, row, service, faults>>

(* An await of the try block throws: a page that cannot be fetched, maybe  *)
(* with a status that asks for patience, or a write.  The answer to the    *)
(* last write may be lost after it took effect.                            *)
PollFails(h, throttled) ==
    /\ \/ poll[h].stage \in {"summary", "persist", "history", "persistHistory", "record"}
       \/ poll[h].stage = "schedule" /\ poll[h].failures = 0
    /\ throttled => poll[h].stage \in {"summary", "history"}
    /\ faults < MaxFaults
    /\ faults' = faults + 1
    /\ poll' = [poll EXCEPT ![h] = [Idle EXCEPT !.stage = "failed",
                                                !.throttled = throttled]]
    /\ streak' = [streak EXCEPT ![h] = @ + 1]
    /\ UNCHANGED <<vendor, row, pollState, service>>

(* The catch block counts the failure ...                                  *)
ReadPollState(h) ==
    /\ poll[h].stage = "failed"
    /\ poll' = [poll EXCEPT ![h].stage = "recordFailure",
                            ![h].failures = IF pollState[h] = NoState
                                            THEN 1 ELSE pollState[h].failures + 1]
    /\ UNCHANGED <<vendor, row, pollState, service, faults, streak>>

\* Mutant of NextDelay: no cap.
NextDelayUncapped(failures, throttled) ==
    IF ~throttled THEN 1 ELSE 2 ^ (failures - 1)

(* ... and backs off from a vendor that throttles or breaks.               *)
NextDelay(failures, throttled) ==
    IF ~throttled THEN 1
    ELSE IF 2 ^ (failures - 1) < MaxBackoff THEN 2 ^ (failures - 1) ELSE MaxBackoff

RecordFailure(h) ==
    LET n == poll[h].failures
    IN  /\ poll[h].stage = "recordFailure"
        /\ pollState' = [pollState EXCEPT ![h] =
                [failures |-> n, stale |-> n >= StaleAfter,
                 backoff |-> NextDelay(n, poll[h].throttled)]]
        /\ Goto(h, "schedule")
        /\ UNCHANGED <<vendor, row, service, faults, streak>>

\* Mutant of ScheduleHost: a poll in flight rearms the timer after the stop.
ScheduleAlways(h) ==
    /\ poll[h].stage = "schedule"
    /\ armed' = [armed EXCEPT ![h] = TRUE]
    /\ poll' = [poll EXCEPT ![h] = Idle]
    /\ UNCHANGED <<vendor, row, pollState, process, historyDue, faults, streak>>

\* Mutant of ScheduleHost: only a good poll schedules the next.
ScheduleAfterSuccess(h) ==
    /\ poll[h].stage = "schedule"
    /\ armed' = [armed EXCEPT ![h] = process # "stopping" /\ poll[h].failures = 0]
    /\ poll' = [poll EXCEPT ![h] = Idle]
    /\ UNCHANGED <<vendor, row, pollState, process, historyDue, faults, streak>>

(* scheduleHost at the end of a poll: not while stopping.                  *)
ScheduleHost(h) ==
    /\ poll[h].stage = "schedule"
    /\ armed' = [armed EXCEPT ![h] = process # "stopping"]
    /\ poll' = [poll EXCEPT ![h] = Idle]
    /\ UNCHANGED <<vendor, row, pollState, process, historyDue, faults, streak>>

(* An await of the catch block throws: nobody awaits pollHost, and Node    *)
(* ends a process on an unhandled rejection.                               *)
CatchFails(h) ==
    /\ \/ poll[h].stage \in {"failed", "recordFailure"}
       \/ poll[h].stage = "schedule" /\ poll[h].failures > 0
    /\ faults < MaxFaults
    /\ faults' = faults + 1
    /\ Die

Work(h) ==
    \/ FireTimer(h)
    \/ FetchSummary(h)
    \/ FetchHistory(h)
    \/ \E v \in VendorIncidents, s \in Statuses : UpsertIncident(h, v, s)
    \/ Persisted(h)
    \/ RecordSuccess(h)
    \/ ReadPollState(h)
    \/ RecordFailure(h)
    \/ ScheduleHost(h)

Next ==
    \/ \E v \in VendorIncidents : VendorReports(v)
    \/ Start \/ Stop \/ Exit \/ Crash
    \/ \E h \in Hosts :
          \/ HourPasses(h)
          \/ Work(h)
          \/ \E throttled \in BOOLEAN : PollFails(h, throttled)
          \/ CatchFails(h)

Spec == Init /\ [][Next]_vars

(* Timers fire, awaits come back, hours pass, a stopped process exits and  *)
(* the container is restarted (restart: unless-stopped).                   *)
FairSpec ==
    /\ Spec
    /\ WF_vars(Start) /\ WF_vars(Exit)
    /\ \A h \in Hosts : WF_vars(Work(h)) /\ WF_vars(HourPasses(h))

----------------------------------------------------------------------------
(* Safety.                                                                 *)

Busy(h) == poll[h].stage # "idle"

(* A running scheduler has, for each host, exactly one of an armed timer   *)
(* and a poll in flight: no host is forgotten after a failure, and no host *)
(* is polled twice at once (statuspage.service.ts:82-183).                 *)
OneChainPerHost ==
    process = "running" => \A h \in Hosts : armed[h] <=> ~Busy(h)

(* Once onModuleDestroy has run, no poll begins: neither from a timer left *)
(* over nor from a poll that was in flight and schedules the next.         *)
NothingAfterStop ==
    process # "running" => \A h \in Hosts : ~armed[h]

(* The failure count never exceeds the polls that failed in a row, so a    *)
(* vendor marked stale has failed StaleAfter times at least, through       *)
(* restarts and half-recorded polls; the mark goes with the count.         *)
StaleIsEarned ==
    \A h \in Hosts : pollState[h] # NoState =>
        /\ pollState[h].failures <= streak[h]
        /\ pollState[h].stale <=> pollState[h].failures >= StaleAfter

(* Copies do not go back: a row never falls behind what it said before nor *)
(* gets ahead of the vendor, although each poll writes two snapshots of    *)
(* different age.                                                          *)
RowsFollowVendor ==
    [][\A v \in VendorIncidents :
        Rank[row[v]] <= Rank[row'[v]] /\ Rank[row'[v]] <= Rank[vendor'[v]]]_vars

(* The inductive invariant behind RowsFollowVendor: a snapshot waiting to  *)
(* be written is between the row and the vendor.                           *)
SnapshotsAreCurrent ==
    \A v \in VendorIncidents :
        /\ Rank[row[v]] <= Rank[vendor[v]]
        /\ \A h \in Hosts, s \in Statuses :
              <<v, s>> \in poll[h].todo =>
                  /\ HostOf[v] = h
                  /\ Rank[row[v]] <= Rank[s] /\ Rank[s] <= Rank[vendor[v]]

----------------------------------------------------------------------------
(* Liveness.                                                               *)

(* What a vendor reports is stored, also when it was resolved between two  *)
(* polls and the summary page never showed it; and a resolved incident,    *)
(* which that page no longer lists, does not stay open in vendor_incidents *)
(* (where getCorrelation looks) for ever.                                  *)
StoredInTheEnd ==
    \A v \in VendorIncidents, s \in Statuses :
        Rank[vendor[v]] >= Rank[s] ~> Rank[row[v]] >= Rank[s]
============================================================================
