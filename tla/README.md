# Formal models of Pulse

TLA+ specifications of Pulse, the API monitoring and incident platform of this
repository, checked with TLC on small instances and, for the parts that matter
most, proved with TLAPS for every instance. Paths are relative to the
repository's root.

To check a run: `tlc -config <run>.cfg <MC module>`. To check the proofs of a
module: `tlapm <module>Proofs.tla`. `PROJECT.json` lists the runs, says for each
definition which lines it models, and keeps for each property a mutant of the
model (the operators commented `Mutant of ...`) that violates it.

## 1. The system

Five Node processes and a web dashboard around PostgreSQL (with TimescaleDB),
Redis and a Kafka-compatible broker.

    scheduler --probes.jobs.<region>--> probe --probes.results--> ingestor --> samples
        |                                              |              `--live.probes--> api (SSE) --> web
        | vendor_incidents, vendor_poll_states         v
        `------------------------------------------> alerter --> incidents, incident_updates,
                                                        |         Slack / webhooks
    people --PATCH /incidents/:id/state--> api          `--alerts.raised-->

| component | state | operations | hard behaviour |
|---|---|---|---|
| job dispatch (`apps/scheduler/src/jobs`) | `lastDispatch`, in memory | tick every 5 s | ticks overlap when an await is slow; restarts forget; a failing await ends the process |
| statuspage poller (`apps/scheduler/src/statuspage`) | a timer per host, `historyPullAt`, `vendor_incidents`, `vendor_poll_states` | start, stop, poll, catch | failures between any two writes; two pages of different age per poll; stop during a poll |
| probe (`apps/probe`) | consumer offset | run a job, send the result | redelivery runs a job twice; a sample its schema rejects, or a port no socket takes, blocks the partition |
| ingestor (`apps/ingestor`) | `samples` | upsert, publish | redelivery; stored but not published |
| alerter, results (`apps/alerter/src/alerts`) | offset, dedup and heartbeat keys in Redis, `checkCache`, `incidents` | `handleProbeResult` | crash or failure after the dedup key is set; rebalance in the middle of a message; stale cache; expiry |
| alerter, correlation | `incidents`, `incident_updates` | `getCorrelation`, `recheckUnconfirmedIncidents` each minute | rounds overlap, work from stale lists, fail half way |
| incidents API (`apps/api/src/incidents`) | the same rows | list, transition, add update | read, check, write without a transaction |
| metrics (`apps/api/src/metrics`) | none: queries over `samples` and `checks` | summary, series, heatmap, regional | four answers that must agree at the ends of windows and buckets |
| checks, notifiers, live API (`apps/api/src`) | rows; an RxJS subject | CRUD, SSE | a check that changes while its results are under way |
| core (`packages/core`) | none / the caller's map | `shouldOpenIncident`, `evaluateAlert`, SLO arithmetic | window boundaries, clock steps, rounding |
| web, stream and loads (`apps/web`) | React state, an `EventSource`, its timer and delay | connect, load, change filters, pause | answers that overtake each other, bodies read after disposal, reconnects during teardown |
| web, view (`apps/web`) | none: computed from answers and events | scope, table, tiles, objectives | rules written a second time, beside those of the service |
| seed, migrations (`apps/scheduler/src/seed`, `packages/db`) | rows | create or update | running twice |

What makes each of them correct, in a line:

- *Deduplication*: one incident per fingerprint and window, whatever is
  redelivered; nothing dropped without an opening that covers it.
- *Alerter*: no result skipped, each window that opens leads to an incident and
  to its delivery, a probe's own network trouble alerts nobody.
- *Incident rows*: `resolvedAt` agrees with the state, a confirmation with its
  link, a confirmation is never undone, noted at most once by each of the rounds
  that overlap, and comes in the end; the timeline tells what was so. States
  only advance unless transitions race.
- *Poller*: each host is polled for ever, by one chain at a time; rows never
  fall behind what they said; a source is stale only if it earned it.
- *Job dispatch*: neither early nor late, and no check starves.
- *Probe and ingestor*: no offset passes unfinished work, results of a check keep
  the order of their times, each job ends as a stored row that was streamed.
- *Metrics*: the four answers count the same samples, up to now, whatever the
  window and the number of buckets.
- *Dashboard*: one connection at a time; once the filters are left alone, it shows
  the latest answer for them; its own counting agrees with the service's.

## 2. Modules

| module | models | proofs |
|---|---|---|
| `DedupWindow` | abstract: what both deduplicators promise | `FingerprintWindowProofs` |
| `FingerprintWindow` | `shouldOpenIncident`; implements `DedupWindow` | `FingerprintWindowProofs` |
| `AlertPipeline` | the consumer and `handleProbeResult`, delivery, Kafka; its Redis key implements `DedupWindow` | `AlertPipelineProofs` |
| `IncidentLifecycle` | rows after the key is won: correlation, API requests, rechecks | `IncidentLifecycleProofs` |
| `IncidentListing` | `GET /incidents` and the panel that draws it; composes with `IncidentLifecycle` | |
| `ProbePipeline` | probe and ingestor, from a job to a stored sample | `ProbePipelineProofs` |
| `StatuspagePoller` | `StatuspageService` | `StatuspagePollerProofs` |
| `JobScheduler` | `JobsService` | `JobSchedulerProofs` |
| `Scopes` | service groups, environments and regions, as the service and the browser read them | |
| `ProbeTargets` | the checks the scheduler seeds | |
| `Slo` | objectives and percentiles of the core package | |
| `Metrics` | the queries of the metrics service; EXTENDS `Scopes` | |
| `DashboardView` | what the browser computes from answers, checks and events; EXTENDS `Metrics`, `Slo` | `DashboardViewProofs` |
| `EventStream` | `useEventStream` | |
| `Dashboard` | the loads of the metrics beside the stream; EXTENDS `EventStream`, `Scopes` | `DashboardProofs` |

`MC*` modules only give constants their values.

### DedupWindow and FingerprintWindow

The abstract state is the set of granted requests (`opens`) and refused ones
(`drops`), each a key and a time. `Open(k)` is enabled exactly when no opening of
`k` is less than `Window` old, `Drop(k)` exactly otherwise. The clock is free to
step back: `shouldOpenIncident` takes `nowMs` from its caller and Redis has a
clock of its own. `FingerprintWindow` keeps the map of expiry times (`seen`), with
the two returns of the function as `ReturnFalse` and `ReturnTrue`.

### AlertPipeline

State: the broker (`log`, `committed`, `owner`), the consumers (`position`,
`dirty`: not committed yet), PostgreSQL (`checkRow`, `incidents`, `notes`), Redis
(`dedup`, `heartbeat` as expiry times), what leaves the system (`raised`,
`delivered`), and per alerter process the call of `handleProbeResult` in flight
(`task`) and its `checkCache`. One action per await, in the order of the code:

    EachMessage -> GetCached, or FindCheck -> GetCheck -> RecordHeartbeatAndEvaluate -> ShouldSuppressNetworkFailure
      -> AcquireDedupKey -> CreateIncident -> WriteNote -> RaiseAlert -> Dispatch -> AllSettled

`FindCheck` is the query for the row, `GetCheck` what follows its answer: the cache
entry is stamped with the clock of then (`loadedAt`), and the row may have changed
since it was read. Each early `return` of the function is a disjunct that ends with `Return`.
`HandlerThrows` is any awaited call rejecting: the offset is not resolved and the
message comes again. A write that took effect although its caller saw it fail is
the next stage followed by `HandlerThrows`. `Crash`, `Revoke` and `Assign` move
partitions, also in the middle of a message, which the old owner goes on handling
beside the new one. `Commit` is external: the client commits between messages.

History variables (`handled`, `opens`, `drops`, `beats`, `vouched`, `dispatched`,
`savedAt`, and in a task and a cache entry `read`, when the row was read) are read by no
action.

Abstractions: a fingerprint is the record of what is hashed; a row's `at` is the
time its key was won (`openedAt` is the sample's time and decides nothing here);
`getCorrelation` only reads and is part of `CreateIncident` (its outcomes are in
`IncidentLifecycle`); a message that is not JSON or fails the schema is left to
`HandlerThrows`; the per-notifier `POST`s are one step with any subset accepted.

### IncidentLifecycle

State: `row`, `timeline` (rows of `incident_updates`), `vendorStatus`, and what is
in flight: `opening` (the alerter between two calls), `request` (API) and `round`
(recheck). A call that reads and one that writes are different actions, with
what was read kept in between: `ReadForTransition` / `UpdateIncident` /
`CreateUpdate`, `FindPending` / `FindVendorIncident` / `ConfirmIncident` /
`NoteConfirmation`. Prisma's `update` writes only the columns it is given, so
`UpdateIncident` writes state and `resolvedAt` and `ConfirmIncident` the rest.
`Statuses` are what the vendors of an instance say, among the five a vendor can: the
alerter asks for "not resolved", so a postmortem counts as active, here as in the
code. Which active
incident of the vendor is found, and whether it started within ten minutes, is
free. `RoundFails` is an unhandled rejection: it ends the process, with any other
rounds and openings that were in its hands. `reached`, the states a row has had,
is history.

### IncidentListing

EXTENDS `IncidentLifecycle`, whose actions go on while the list is fetched. State:
`load` (the fetches in flight: which of the two reads of `listByTenant` are still
lacking, and what the other returned) and `liveIncidents` (the panel). The reads
are made at once and return at different times, so they are two actions in either
order. `ListByTenant` merges them as `mapPulseIncident` and `mapVendorOnlyIncident`
do, `mapApiIncident` drops what is resolved. Severity, wording and order are left
out; the query's limit of fifty vendor incidents is assumed not reached.

### ProbePipeline

Probes and ingestors run the same Kafka loop as the alerter, here once for both
groups: `log.probe` holds jobs, `log.ingestor` results. A probe goes `EachMessage`,
`RunJob`, `SendResult`; an ingestor `EachMessage`, `Upsert`, `Publish`. `HandlerThrows`,
`Crash`, `Revoke`, `Assign` and `Commit` are as in `AlertPipeline`.

Whether a sample is good or bad decides nothing on this way, so samples are only
check, time and (history) the job they came from. What a run measures matters in
two cases. One is `odd`: the target answers with a status outside 100..599. The HTTP
executor reports that as a failure without status. The synthetic one repeats the
status in the failing sample, whose schema then throws out of the handler:
`RunJob` leads to `Retry` for as long as the target goes on. The other is a tcp
check with a port above 65535 (`Unconnectable`), which the contract admits:
`net.createConnection` throws, before there is a socket to report an error, and
does so at every redelivery. `Unsayable` is either. A failing
sample that is invalid for another reason (a clock that stepped back during the
run makes the latency negative) is a `HandlerThrows`, or, in the event callback of
the TCP executor, a `Crash`. `revoked` is history too. The region is fixed: each
has a topic and a group of its own.

### StatuspagePoller

State: `vendor` (the truth at the vendor), `row` (`vendor_incidents`),
`pollState`, `process`, and per host `armed`, `historyDue` and the call of
`pollHost` in flight (`poll`). `FetchSummary` lists unresolved incidents only,
`FetchHistory` all of them (the page's limit of entries is not modelled).
`PollFails` is any await of the `try` block, `CatchFails` any of the `catch`: the
latter is an unhandled rejection and ends the process. `Start` arms every timer
whatever `backoffUntil` says, as the code does. `streak` is history.

### JobScheduler

Times are ages, capped where no guard can tell them apart, so the clock need not
stop. Up to `|Ticks|` calls of `dispatchDueChecks` are in flight; `now` is read
after `findMany` returns and kept in `clock`, and an entry gets that `now` when its
`send` returns. A tick that would start while all are in flight waits for one to
end: with two ticks this bounds the overlap, not the code. `lastSent` and
`overlapped` are history.

### Scopes, ProbeTargets, Slo, Metrics and DashboardView

These are operators over what is stored; the only actions are those of the
environment, `Store` and `Tick` of `Metrics`: samples arrive and the clock moves.
Properties are invariants, so that TLC evaluates every operator on every reachable
table of samples.

`Scopes` has the rules for service groups and environments twice: `sqlRules` and
`EnvironmentSql` from the SQL of `metrics.service.ts`, `clientRules` and
`MatchesEnvironment` from `operations-dashboard.tsx`. A name is the set of those
words of the rules that occur in it. The service asks for a tag, the browser for a
word anywhere in the joined tags: a check has `tags` and, beside them, `tagWords`, the
words of the browser's rules that are found there. `ProbeTargets` is the list of
`probe-targets.ts` and what `SeedService` leaves of it in `checks`.

`Metrics` has one operator per query, each the selection, grouping and arithmetic
of its SQL, then what the service does with the rows: `HistoricalSummary`,
`RegionalSummary`, `LatencySeries`, `Heatmap`. `Parse` reads a request as
`metrics.controller.ts` does, defaults and limits included. Times are minutes; a
sample stands for all results of its check, region and minute, so one of a hundred
can fail without a hundred samples. Percentages are hundredths of a percent, as
`toFixed(2)` leaves them; `PercentileCont` interpolates as PostgreSQL does. A region
listed twice in a check doubles the buckets of its row on the way (`HeatRow`), as in
the code; no answer depends on it.
`DashboardView` adds what the browser computes: the checks and events in scope,
the rows of the table (`CheckRows`, `FilteredRows`), the rows of the objectives
(`SloRow`). `FilteredRows` is the whole sorted list, of which the page draws the first
forty. The hook keeps the last 20 000 events; the model is of a page that has not
received more, has been open for the whole window, and receives a sample in the minute
of its time. `Slo` is the arithmetic of `slo.ts` over whole numbers.

### EventStream and Dashboard

`EventStream` has the `EventSource` objects (`source`: their `readyState`), the refs of
the hook (`sourceRef`, `timer`, `retryRef`, which outlive a cleanup) and whether the API
answers. `Connect`, `OnOpen`, `OnError`, `TimerFires`, `RunEffect` and `Cleanup` are the
functions of the hook.

`Dashboard` adds the filters, what the effect closed over (`captured`), the loads in
flight and what each part shows. A load is the four requests of `loadMetrics`: when
all have answered (`Answered`, each answer as of some moment since the load began),
their bodies are read one after the other (`ReadBody`); `disposed` is looked at before
each body is awaited, not after, as in the code. `LoadThrows` is the `catch`.
`ChangeFilter`, `ToggleLive`, `Mount` and `Unmount` are the effect and its cleanup, `Tick`
its interval. A part shows filters and a version of the samples, not numbers.

## 3. What TLC checks

States are distinct states. A handful of processes is enough because a step
involves at most two actors; the bounds below leave room for a first fault, a
second one while the first is being repaired, and a window that ends.

| run | instance | states | shows |
|---|---|---|---|
| `MCFingerprintWindow` | 2 keys, window 2, clock 0..4 | 453 005 | refinement of `DedupWindow` |
| `MCAlertFaults` | 2 alerters, 1 partition, a vendor's and a baseline check, 2 results, time 0..3, 2 faults | 5 232 005 | no duplicate incidents, no offset over an unhandled result, network failures vouched, refinement of `DedupWindow` |
| `MCAlertLive` | 2 alerters, 1 partition, a check created and retagged meanwhile, 2 results, 1 fault | 846 368 | every result behind a committed offset is handled; tags in use are recent, counted from when they were read; until a fault, an opened window becomes an incident and is delivered |
| `MCAlertUndelivered` | 1 result, 1 fault | violated | see findings |
| `MCIncidentRaces` | 1 incident, 2 vendors with an incident each, 2 requests, 2 overlapping rounds, 1 fault | 2 333 493 | columns agree, links are to the own vendor, no confirmation is undone, no recheck overwrites a state, at most one note of a confirmation per round, notes tell states that were |
| `MCIncidentListing` | 1 incident, 1 vendor incident, 1 request, 1 round, 1 fetch at a time, 1 fault | 202 654 | a confirmation comes in the end; the panel ends with what is so |
| `MCIncidentBackwards` | 2 requests | violated | see findings |
| `MCPoller` | 2 hosts, 3 faults, stale after 2, cap 2 | 244 240 | one chain per host, none after a stop, stale is earned, backoff capped (in `TypeOK`); rows follow the vendor, everything is stored |
| `MCProbes` | 2 probes, 2 ingestors, 3 jobs of a synthetic check and a tcp check that cannot connect, time 0..1, 1 fault | 771 584 | commits cover finished work, results in order, each job behind an offset, and behind none that blocks it, is stored and shown |
| `MCMetrics` | the 18 seeded checks and one with a region twice, some 5 000 checks one could create, 3 of 30 samples, 2 readings of the clock, 6 queries, 16 settings | 7 684 | series, heatmap, summary, stream, table and objectives agree; the two sets of rules agree on all environments, and on vendors for just the plain checks |
| `MCDashboard` | 2 ranges, 2 parts, 2 loads, 2 connections, 2 versions of the samples, 2 faults | 893 030 | one stream at a time, which comes back; no series under another range; the filters are answered in the end |
| `MCJobs` | 2 checks, intervals 3 and 5, period 3, awaits up to 2, 2 ticks, 1 fault | 30 778 | neither early nor late until ticks overlap; no check starves when they do |

`MCAlertFaults` takes alerters, `MCIncidentRaces` requests and rounds as interchangeable
(`SYMMETRY`); both check safety only.

Two rounds that overlap, because one took longer than a minute or there are two
alerters, both note the confirmation they both wrote. `ConfirmationNotesAreBounded` is
what is left: never more notes than rounds, as a round that starts after the
confirmation leaves the incident alone. `ChecksAreOnTime` and `DispatchesAreSpaced` speak about a scheduler
whose ticks have not overlapped since it started (a tick longer than five
seconds makes them), and `OpeningsBecomeIncidents` and `DispatchedUnlessFailed`
about an alerter before its first fault; `EveryKeyIsDispatched` and `AtLeastOnce`
hold whatever happens. `ResultsInOrder` excludes a probe that goes on with a job
after its partition went to another, and `EveryJobIsShown` a target that answers
for ever with a status no sample can hold and the jobs that wait behind a port no
socket takes, that job included.

Deadlock is checked in every passing run. `AlertPipeline` and `Metrics` have an explicit
`Rest` for the state in which their bounds are used up.

`DashboardView` and `Metrics` are pure, so their run asks for the right data rather
than for interleavings: samples at the first minute of a window, at its end and
ahead of the clock, good, failing and nearly perfect, in regions their check has,
lists twice or does not have; queries with more buckets than minutes, fewer than
the service allows, more than it allows, and words it does not know; latencies
and windows of 0 to 20 000 results around each target. `PercentileIsNearestRank` and
`BudgetsAgree` also take what is stored as input. Restrictions the properties state
themselves: `HeatmapAgreesWithSeries` a query with at most a bucket per minute;
`ScopesAgree` vendors, `WorstRowsFirst` and `StreamAgreesWithSummary` vendors and "all" (the
rules for the other groups differ, see the observations). `ScopesAgree` is about checks as
the API creates them, not only the seeded ones with samples: every name of six words of the
rules with up to two of twelve tags, among them tags of another vendor than the
name's, and "vendor:github-x" and "my-baseline", in which the browser finds words the
service does not look for. It says which of them agree, and that the others do not.
"payment" stands for its two synonyms, "npm" for the names of a baseline.

In `MCDashboard` two loads are enough for one to overtake the other, two versions for
an answer to be older than another, and 24h and 7d for series of different length.
An interval that fires while both loads are in flight waits for one to end: the
bound limits how many loads pile up, not their order.

### Fairness

Safety runs use `Spec`. Liveness runs use `FairSpec`, with weak fairness only, of:
a handler's next step (the event loop runs a settled promise; every client used
has a timeout or rejects), assignment of a free partition and the client's commit
(Kafka), time and timers (`setInterval`), and the restart of a dead process
(`restart: unless-stopped` in `deploy/docker-compose.oracle.yml`). In the browser: a
connection that is being tried opens or fails, a broken one reports its error, a
fetch ends, timers and intervals fire; and the API comes back after a failure (the
same restart policy). Nothing obliges vendors, people, probes or faults, or anybody
to touch the dashboard; faults are bounded, so liveness says "once the faults stop".

### Findings

1. *Lost delivery* (`MCAlertUndelivered`). `README.md` says "Delivery runs when the
   alerter opens an incident". The dedup key is set before the incident is
   created and delivered (`alerts.service.ts:89`). If a later call throws or the
   process dies, the redelivered message finds the key and returns: the incident
   exists and nobody is told. `OpeningsBecomeIncidents` without its `faults = 0`
   fails in the same way.
2. *Backwards transition* (`MCIncidentBackwards`). "Incident state cannot move
   backwards" (`incidents.repository.ts:56`) is checked against an earlier read;
   two concurrent requests move a resolved incident back.

## 4. What TLAPS proves

For every number of alerters, partitions, checks, incidents, requests and rounds
and every value of the lifetimes. The assumptions are those the modules state:
lifetimes and bounds are naturals (the window at least 1), the "none" values are
not elements of the sets they complete, and mappings map into those sets.

- `FingerprintWindow`: first the promise of `DedupWindow`, from its steps alone:
  `OpeningsAreSpaced` (the guard of `Open` is exactly the new pair's case) and
  `DropsAlwaysCovered` (openings are never removed). Then the function. Spacing is not
  inductive for it: the code looks at the map, not at past openings, so `EntryCorrect`
  ties the entry to the latest expiry. From it, "suppressed iff covered"
  (`SuppressedIffCovered`), each step maps to a step or a stutter of `DedupWindow`
  (`Implementation`), and the promise carries over (`PromiseKept`).
- `AlertPipeline`: `TypeCorrect`, with the definite-assignment of locals per
  stage. `DedupInvariant` proves `DedupInv`, the conjunction of the entry-expiry
  fact for Redis and `OpeningsAreOwnedOnce`: each row, and each handler that won
  a key and has not inserted its row, owns an opening of its own. This is what
  makes `NoDuplicateIncidents` go through when two processes handle the same
  message. `Implementation` is the refinement. `OffsetInvariant` (the owner works
  at its position; everything from the committed offset to the position was
  handled) gives `CommitsCoverHandled`. Most actions touch none of these
  variables; lemmas named `...AreQuiet` and `...Untouched` deal with them at once.
  `Vouching` needs the heartbeat keys to come from beats that were seen
  (`KeysComeFromBeats`); `StaleTags` needs, of every process's cache, that what is in
  it still is the row or was read no later than the row's last change (`CacheInv`), and
  the same of the answer in the hands of a handler that has not cached it yet. The
  entry's age counts from the answer, so the tags may be older than the lifetime by the time the query took,
  and not by more. `DeliveryInvariant` proves, while nothing has failed, that every opening
  has its row or its handler (`OpeningsLeadToRows`) and every row has been delivered or
  has its handler (`RowsAreDelivered`). The second is what the liveness property
  `DispatchedUnlessFailed` rests on; the first fails after one fault (see findings).
- `IncidentLifecycle`: `Invariance` proves `LifecycleInv`. `ResolvedIffStamped` is not
  inductive alone: `UpdateIncident` writes what an earlier read settled on, so the
  invariant also says that every request in flight carries a pair that agrees,
  and every round and opening a link that its vendor reported. `StampsAgree` and
  `LinksAgree` follow. `WritesAreKept` adds that an incident not yet inserted has no
  row (`FreshInv`), so that an opening never overwrites one, and proves `NoLostUpdate`.
  `StatesAdvance` has a hypothesis on the behaviour: states only advance if no two
  transitions of one incident are between their read and their write
  (`TransitionsTakeTurns`), which is the case `MCIncidentBackwards` violates, so nothing
  else moves a state back, neither openings nor confirmations. What is said about the
  timeline needs no such hypothesis. `NotesAreTrue`: a note other than a person's own
  tells a state the incident has had, although the note of a confirmation carries the
  state its round once listed and others have moved the incident since. It adds
  that all who are about to write a note, or may come to, hold a state the row has
  had (`WasInv`). `ConfirmationsAreBounded`: any number of rounds may overlap, and the notes of
  a confirmation do not outnumber them. `CountInv` counts them: notes written and
  rounds that still may write one (`Holders`) are together no more than the rounds, since
  once the row is confirmed no round takes it up, and a round that has written its
  note has put the incident down.
- `StatuspagePoller`: `Invariance` proves `PollerInv`: types, the chain (a timer or a poll,
  not both, and only of a process that may have them), the count (`StaleIsEarned` needs
  the failures a poll is about to write to be covered by the failures that happened)
  and the copies (`SnapshotsAreCurrent`: pages waiting to be stored lie between row and
  vendor; without it `RowsFollowVendor` is not inductive). `EachHostIsPolled`,
  `StopsForGood`, `StaleSources` and `CopiesAdvance` follow. `TypeCorrect` includes the bounds of
  the backoff: that 2^n is a natural number needs an induction, which the library has
  done already, in what it says of the number of subsets of a set (`PowersOfTwo`).
- `ProbePipeline`: `OffsetInvariant`, the same argument as for the alerter, once for both
  groups. What is finished stays finished because topics, rows and publications
  only grow; a handler that publishes must therefore know that its row is stored
  (`TaskOK`). `CommitsAreEarned` follows. `ResultsAreOrdered` adds that nothing in the
  topic or in hand is from the future (`NothingFromTheFuture`), that only the owner of the
  partition works (`OwnersWorkAlone`), and that its result is not older than those of
  its check already in the topic (`InOrder`): a job run again gives a later result.
- `JobScheduler`: `JobsAreSpaced`, for any finite set of checks, any intervals, period and
  delays. A job is found due when its tick starts to send it, its entry is written
  when the send returns; in between the clock of the tick and the age of the entry
  must grow together. Ages are capped, so the invariant bounds the clock by the
  awaits to come (`ClockOK`), which keeps the age below the cap, and `StillDue` survives.
  `ChecksRunOnTime` is the other side: a check is late by no more than a period and the work
  of a tick. The invariant (`LatenessInv`) bounds the age of an entry by the time since
  the timer fired, with another period while a tick may still send the key (`Pending`,
  `Seasoned`), and ties the clock of that tick to the timer it restarted (`InStep`).
- `Dashboard`: `Connections` (`HookInv`: the connection there is, is the one the ref
  holds, as the handlers close only that one) and `SeriesFits` (`LoadInv`: what is shown
  was asked for by filters that exist; then equal numbers of columns mean equal
  ranges).
- `DashboardView`: its seven invariants, for any samples, queries, counts and latencies
  and any finite table of samples (`SamplesInv`). There is little to strengthen; the work
  is in the data. The models add up with the folds of the community modules, which
  the prover cannot unfold for a set it does not know. What such a sum is (`SumOf`: one
  element more than the rest, in any order, part by part) is proved by induction over
  finite sets in a first-order form (`LeastSet`: a set of finite sets has a least
  member), and each fold is shown to be such a sum. `BudgetsHold`: the uptime is rounded
  to hundredths before the browser takes the budget from it, which moves it by half a
  hundredth at most, less than the smallest of the three budgets.
  `PercentilesHold`: the rank of `percentile` is the first whose share reaches pct
  (`NearestRank`), and the clipped latency with more than rank others at or below it is
  the one the definition asks for. `SeriesHold`: the buckets from the start of the window
  to now are numbered without a gap, the last `points` of them are kept and blanks put in
  front (`SeriesShape`), and each sample from the first of them on lies in exactly one
  (`SeriesCounts`), so none is counted twice or lost where the series was cut. It needs
  that the clock and the samples have whole, non-negative times (`ClockInv`).
  `HeatmapHold` reuses these buckets: with no more points than minutes no blank is left
  (`FullWindow`), a bucket holds the same samples wherever the selection began at or before
  it (`SameBucket`), and a column is the sum over the rows of what each has in the bucket
  (`HeatmapAdds`): no row is answered twice, and a sample is in a row unless its
  region is not configured. That the rows are all there, each once and in order, comes
  from `SortedIs`: an element of a finite set, strictly ordered, has as its place the
  number of those before it, and each place is taken.
  `WorstRowsHold` sorts once more, by what the browser sorts by. A row below 99%
  has a bucket below 99%, as the results of a row are the sum of its buckets'
  (`PartsAndWhole`, `LowWasDown`); that bucket is "down", the heaviest state, so whatever
  is sorted before it was down too.
  `ScopesHold` supposes nothing of the checks, as it says for which of them the rules
  agree: on environments for all, on vendors for just those that are plain
  (`VendorsAgree`). It reduces both sets of rules, each a list of which the first rule that fits
  counts, to the vendor a name says first (`SqlGroup`, `ClientGroup`). `StreamHolds` splits
  the samples of a summary in those streamed and the strays (`StreamedIs`).

The sets of rules do not agree on every check one could create: a tag of another
vendor than the name's, such a word inside another tag, or a name that says
"payment" without the tag of Stripe, divides them. `ScopesHold` says so, for every check. `StreamHolds` and
`WorstRowsHold` suppose plain checks, `StreamHolds` also that a check with samples is listed: the queries join
`checks`, of which the API lists every row and none is ever deleted, so only a check
created after the page loaded its list falls outside. `PlainAndListed` in `MCMetrics` evaluates both conditions for the seeded
checks. `BudgetsHold`, `PercentilesHold`, `SeriesHold` and `HeatmapHold` suppose nothing of the kind.
What the modules assume of the constants is in `MetricsAssumption`, `ViewAssumption`,
`ChecksAssumption`, `TagsAssumption` and `FiltersAssumption`: samples and checks have regions of the three
the contracts list, the dashboard's settings are those its controls offer, and a name that
contains "pulse demo health" contains "pulse demo". Checks may share a name: their rows
come as the database returns them.

Every invariant and every action property of the passing runs is stated by a theorem.
Only model-checked: the liveness properties, which are out of the prover's reach.

## 5. Plan

Done, in order of importance: 1 the deduplication window and its in-memory form;
2 the alerter; 3 incident rows; 4 the statuspage poller; 5 job dispatch; 6 probe and
ingestor; 7 the listing of incidents, composed with their rows; 8 the metrics, the
objectives and the dashboard's view of them; 9 the stream and the loads of the
dashboard; the theorems of section 4, the safety of every module among them.

Next:

10. `VendorCorrelation`, composing `StatuspagePoller` with `IncidentLifecycle`: the
    poller's rows as the alerter's input, with the ten-minute window.
11. The seed run twice, concurrently, or cut half way.

## 6. Not modelled

Rendering and styling of the dashboard, SQL text, the layout of Slack messages,
environment parsing, container and deployment files, benchmarks and the one-shot
database scripts: no state that several actors share, or none at all. The
parsing of probe results and check configurations is left to schema libraries.
The API's live stream forwards what it receives and keeps nothing. The loads of checks and notifiers
follow the pattern of the loads of `Dashboard`. Of the dashboard's view the charts'
geometry, hover texts and the panel of live probes are left out.

Three hazards have no property. Nothing in the repository says what should hold of
two: for how long a postmortem may confirm incidents, and what a restart should
do with `backoffUntil`. The third, a region listed twice in a check, changes no value
an answer shows.

## 7. Observations

Met while modelling; no document, comment or test says otherwise, so they are not
findings. The models behave in the same way, or leave the part out.

- *Groups.* The service counts a check tagged "public" or "demo" as baseline, the
  browser only by its name or the tag "baseline"; and the service has groups
  (payments, auth, search, cart) the browser does not. Rows of the heatmap carry no
  tags, so a check that is a vendor's by its tags alone is missing in the table of
  that vendor. Disabled checks are in the browser's scope, not in the service's.
  The browser looks for words in the joined tags, so that "vendor:github-x" makes a
  check GitHub's and "my-baseline" makes it baseline, for the browser only.
- *Blocked partition.* A tcp check with a port above 65535 passes the contract. Its job
  rejects at every redelivery, and all jobs of its partition wait behind it.
- *Noted twice.* Two overlapping rounds that both found an incident unconfirmed both
  write the note of its confirmation, the later one with the state it once listed.
- *Old heartbeats.* A healthy baseline result refreshes the heartbeat of its region when
  it is handled, however old it is.
- *Other incident.* A later of two overlapping rounds may replace the link by one to
  another incident of the same vendor. The run has one incident per vendor; that the
  link stays with the vendor is proved for any number.
- *Clock ahead.* Samples later than now are counted by summary and regional, not
  by series and heatmap.
- *Short ranges.* With more points than minutes the heatmap reaches further back
  than the range, while the series pads.
- *Two percentiles.* `calculateLatencyStats` of the browser takes rank
  floor((n - 1) p), which can be lower than the nearest rank of the core package.
- *Paused dashboard.* It loads once for new filters. If that load fails, or one of
  the old filters answers late, the old data stays until it is resumed. The tiles go
  on following the stream.
- *Silent rows.* Without heatmap rows the table makes a row per check and region,
  which its own filter then hides.
- *Rounded objectives.* An objective over several rows adds up uptimes rounded to
  0.01% each and can differ from the exact one by that much.
- *Two schedulers.* The seed looks for a check by its name and creates it when there
  is none; names are not unique, so two schedulers starting together may both.
