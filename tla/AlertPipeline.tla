--------------------------- MODULE AlertPipeline ---------------------------
(***************************************************************************)
(* The alerter: the Kafka consumer of probes.results (group "alerter") and *)
(* what it does with each result, one action per await of                  *)
(* handleProbeResult, so that crashes, failed calls, rebalances and        *)
(* redeliveries fall between any two of them.                              *)
(*                                                                         *)
(* Kafka and its client are external: a partition is a log, an offset is   *)
(* committed between messages, and a partition that changes hands resumes  *)
(* at the committed offset, or at the end of the log when there is none    *)
(* (fromBeginning: false).  PostgreSQL and Redis are external too, modelled*)
(* by the rows and keys the alerter uses.                                  *)
(***************************************************************************)
EXTENDS Integers, Sequences, FiniteSets

CONSTANTS
    Alerters,       \* alerter processes in the consumer group
    Partitions,     \* partitions of probes.results
    PartitionOf,    \* PartitionOf[c]: where results of check c go (message key)
    Checks, Regions, Notifiers,
    Vendors,        \* values of a "vendor:<v>" tag
    NoVendor,
    Causes,         \* error ?? statusCode of a failing sample
    NetworkCauses,  \* those whose text looks like a worker network issue
    Healthy,        \* stands for sample.ok
    InitialRow,     \* InitialRow[c]: tags of the row of check c, or NoRow
    TagChoices,     \* tags the seed or the API may give a check
    NoRow, NoResult, NoFingerprint, NoPartition, Nobody,
    DedupTTL,       \* EX 300
    HeartbeatTTL,   \* EX 120
    CacheTTL,       \* 60_000 ms of checkCache
    MaxTime, MaxLog, MaxFaults, MaxSaves      \* bounds of the model

Tags == [baseline: BOOLEAN, vendor: Vendors \union {NoVendor}]
Results == [check: Checks, region: Regions, cause: Causes \union {Healthy}]
Fingerprints ==
    [check: Checks, vendor: Vendors \union {NoVendor}, cause: Causes]
NoOffset == -1

ASSUME TTLAssumption ==
    DedupTTL \in Nat \ {0} /\ HeartbeatTTL \in Nat \ {0} /\ CacheTTL \in Nat
ASSUME BoundAssumption ==
    MaxTime \in Nat /\ MaxLog \in Nat /\ MaxFaults \in Nat /\ MaxSaves \in Nat
ASSUME RowAssumption ==
    /\ TagChoices \subseteq Tags
    /\ InitialRow \in [Checks -> TagChoices \union {NoRow}]
    /\ PartitionOf \in [Checks -> Partitions]
ASSUME DistinctAssumption ==
    /\ Healthy \notin Causes /\ NetworkCauses \subseteq Causes
    /\ NoVendor \notin Vendors /\ NoRow \notin Tags
    /\ Nobody \notin Alerters /\ NoPartition \notin Partitions

VARIABLES
    log,            \* log[p]: the results produced to partition p
    committed,      \* committed[p]: offset stored for the group, or NoOffset
    owner,          \* owner[p]: the alerter p is assigned to, or Nobody
    position,       \* position[p]: offset its owner consumes next
    dirty,          \* dirty[p]: position moved since the last commit or reset
    checkRow,       \* checkRow[c]: tags in the row of check c, or NoRow
    incidents,      \* rows of incidents, in order of creation
    notes,          \* incidents with a correlation row in incident_updates
    dedup,          \* dedup[f]: when alert:fingerprint:f expires
    heartbeat,      \* heartbeat[r]: when probe:baseline-ok:r expires
    raised,         \* incidents announced on alerts.raised
    delivered,      \* pairs <<incident, notifier>> whose POST succeeded
    task,           \* task[a]: the invocation of handleProbeResult in a
    cache,          \* cache[a][c]: entry of a's checkCache
    now, faults, saves

\* History, read by no action: what the properties speak about.
VARIABLES
    handled,        \* <<p, o>>: handleProbeResult returned for offset o of p
    opens,          \* dedup keys set:     records [key, at]
    drops,          \* dedup keys refused: records [key, at]
    beats,          \* heartbeats recorded: <<region, time>>
    vouched,        \* network failures let through: <<region, time>>
    dispatched,     \* incidents whose delivery ran to its end
    savedAt         \* savedAt[c]: when the row of c last changed

broker == <<log, committed, owner>>
progress == <<position, dirty, handled>>
postgres == <<checkRow, saves, savedAt, incidents, notes>>
redis == <<dedup, heartbeat, opens, drops, beats, vouched>>
outbound == <<raised, delivered, dispatched>>
vars == <<broker, progress, postgres, redis, outbound, task, cache, now, faults>>

Stages == {"idle", "load", "found", "heartbeat", "suppress", "dedup",
           "create", "note", "raise", "dispatch", "settled"}

Idle == [at |-> 0, fp |-> NoFingerprint, inc |-> 0, off |-> 0,
         part |-> NoPartition, read |-> 0, result |-> NoResult,
         stage |-> "idle", tags |-> NoRow]

\* `at` is the entry's loadedAt; `read`, here and in a task, is history too:
\* when the row was read.
NoEntry == [tags |-> NoRow, at |-> 0, read |-> 0]
Entries == [tags: Tags \union {NoRow}, at: Nat, read: Nat]

\* A row of incidents; at is when its dedup key was won (openedAt, the time of
\* the sample, decides nothing in the alerter).
Row == [key: Fingerprints, at: Nat]

Task == [at: Nat, fp: Fingerprints \union {NoFingerprint}, inc: Nat, off: Nat,
         part: Partitions \union {NoPartition}, read: Nat,
         result: Results \union {NoResult},
         stage: Stages, tags: Tags \union {NoRow}]

BrokerTypeOK ==
    /\ log \in [Partitions -> Seq(Results)]
    /\ committed \in [Partitions -> Nat \union {NoOffset}]
    /\ owner \in [Partitions -> Alerters \union {Nobody}]
    /\ position \in [Partitions -> Nat]
    /\ dirty \in [Partitions -> BOOLEAN]

PostgresTypeOK ==
    /\ checkRow \in [Checks -> Tags \union {NoRow}]
    /\ incidents \in Seq(Row)
    /\ notes \subseteq Nat

RedisTypeOK ==
    /\ dedup \in [Fingerprints -> Nat]
    /\ heartbeat \in [Regions -> Nat]

OutboundTypeOK ==
    /\ raised \subseteq Nat
    /\ delivered \subseteq Nat \X Notifiers

ProcessTypeOK ==
    /\ task \in [Alerters -> Task]
    /\ cache \in [Alerters -> [Checks -> Entries]]
    /\ now \in Nat /\ faults \in Nat /\ saves \in Nat

HistoryTypeOK ==
    /\ handled \subseteq Partitions \X Nat
    /\ opens \subseteq Row /\ drops \subseteq Row
    /\ beats \subseteq Regions \X Nat /\ vouched \subseteq Regions \X Nat
    /\ dispatched \subseteq Nat
    /\ savedAt \in [Checks -> Nat]

(* A handler past a stage has the locals that stage assigned.              *)
LocalsOK(t) ==
    /\ t.stage # "idle" => t.part \in Partitions /\ t.result \in Results
    /\ t.stage \notin {"idle", "load", "found"} => t.tags \in Tags
    /\ t.stage \notin {"idle", "load", "found", "heartbeat"} => t.fp \in Fingerprints

(* Variables stay in their domains, and no local is used before it is set. *)
TypeOK ==
    /\ BrokerTypeOK /\ PostgresTypeOK /\ RedisTypeOK
    /\ OutboundTypeOK /\ ProcessTypeOK /\ HistoryTypeOK
    /\ \A a \in Alerters : LocalsOK(task[a])

Init ==
    /\ log = [p \in Partitions |-> <<>>]
    /\ committed = [p \in Partitions |-> NoOffset]
    /\ owner = [p \in Partitions |-> Nobody]
    /\ position = [p \in Partitions |-> 0]
    /\ dirty = [p \in Partitions |-> FALSE]
    /\ checkRow = InitialRow
    /\ incidents = <<>>
    /\ notes = {} /\ raised = {} /\ delivered = {} /\ dispatched = {}
    /\ dedup = [f \in Fingerprints |-> 0]
    /\ heartbeat = [r \in Regions |-> 0]
    /\ task = [a \in Alerters |-> Idle]
    /\ cache = [a \in Alerters |-> [c \in Checks |-> NoEntry]]
    /\ now = 0 /\ faults = 0 /\ saves = 0
    /\ handled = {} /\ opens = {} /\ drops = {} /\ beats = {} /\ vouched = {}
    /\ savedAt = [c \in Checks |-> 0]

----------------------------------------------------------------------------
(* Environment: time, the probes, writers of check rows, Kafka.            *)

Tick ==
    /\ now < MaxTime
    /\ now' = now + 1
    /\ UNCHANGED <<broker, progress, postgres, redis, outbound, task, cache, faults>>

Produce(r) ==
    LET p == PartitionOf[r.check]
    IN  /\ Len(log[p]) < MaxLog
        /\ log' = [log EXCEPT ![p] = Append(@, r)]
        /\ UNCHANGED <<committed, owner, progress, postgres, redis, outbound,
                       task, cache, now, faults>>

(* POST /checks creates a row; the seed creates or updates one.            *)
SaveCheck(c, t) ==
    /\ saves < MaxSaves
    /\ checkRow[c] # t
    /\ checkRow' = [checkRow EXCEPT ![c] = t]
    /\ savedAt' = [savedAt EXCEPT ![c] = now]
    /\ saves' = saves + 1
    /\ UNCHANGED <<broker, progress, incidents, notes, redis, outbound, task,
                   cache, now, faults>>

(* A partition goes to a consumer between two of its messages.  It resumes *)
(* at the committed offset, or with what is produced from now on.          *)
Assign(p, a) ==
    /\ owner[p] = Nobody
    /\ task[a].stage = "idle"
    /\ owner' = [owner EXCEPT ![p] = a]
    /\ position' = [position EXCEPT ![p] =
                        IF committed[p] = NoOffset THEN Len(log[p])
                                                   ELSE committed[p]]
    /\ dirty' = [dirty EXCEPT ![p] = FALSE]
    /\ UNCHANGED <<log, committed, handled, postgres, redis, outbound, task,
                   cache, now, faults>>

(* The group takes a partition away: a member joins, or the owner misses   *)
(* its session timeout, possibly in the middle of a message, which it goes *)
(* on processing.                                                          *)
Revoke(p) ==
    /\ owner[p] # Nobody
    /\ faults < MaxFaults
    /\ faults' = faults + 1
    /\ owner' = [owner EXCEPT ![p] = Nobody]
    /\ UNCHANGED <<log, committed, progress, postgres, redis, outbound, task,
                   cache, now>>

(* The consumer commits what it has resolved when it finishes a batch or   *)
(* fails in one, never inside a message.                                   *)
Commit(p) ==
    /\ dirty[p]
    /\ owner[p] # Nobody
    /\ task[owner[p]].stage = "idle"
    /\ committed' = [committed EXCEPT ![p] = position[p]]
    /\ dirty' = [dirty EXCEPT ![p] = FALSE]
    /\ UNCHANGED <<log, owner, position, handled, postgres, redis, outbound,
                   task, cache, now, faults>>

----------------------------------------------------------------------------
(* The alerter: eachMessage and handleProbeResult.                         *)

Step(a, stage) == task' = [task EXCEPT ![a].stage = stage]

(* The handler returns.  The offset is resolved, unless the partition has  *)
(* been taken away meanwhile.                                              *)
Return(a) ==
    LET p == task[a].part
    IN  /\ task' = [task EXCEPT ![a] = Idle]
        /\ handled' = handled \union {<<p, task[a].off>>}
        /\ IF owner[p] = a
           THEN /\ position' = [position EXCEPT ![p] = task[a].off + 1]
                /\ dirty' = [dirty EXCEPT ![p] = TRUE]
           ELSE UNCHANGED <<position, dirty>>

EachMessage(a, p) ==
    /\ task[a].stage = "idle"
    /\ owner[p] = a
    /\ position[p] < Len(log[p])
    /\ task' = [task EXCEPT ![a] =
                    [Idle EXCEPT !.stage = "load", !.part = p,
                                 !.off = position[p],
                                 !.result = log[p][position[p] + 1]]]
    /\ UNCHANGED <<broker, progress, postgres, redis, outbound, cache, now, faults>>

\* Mutant of Fresh: entries never grow old.
FreshForever(a, c) == cache[a][c].tags # NoRow

Fresh(a, c) ==
    /\ cache[a][c].tags # NoRow
    /\ now - cache[a][c].at <= CacheTTL

(* getCheck: from the cache while the entry is fresh.                      *)
GetCached(a) ==
    LET c == task[a].result.check
    IN  /\ task[a].stage = "load"
        /\ Fresh(a, c)
        /\ task' = [task EXCEPT ![a].stage = "heartbeat", ![a].tags = cache[a][c].tags]
        /\ UNCHANGED <<broker, progress, postgres, redis, outbound, cache, now, faults>>

(* Else the row is asked for.                                              *)
FindCheck(a) ==
    LET c == task[a].result.check
    IN  /\ task[a].stage = "load"
        /\ ~Fresh(a, c)
        /\ task' = [task EXCEPT ![a].stage = "found", ![a].tags = checkRow[c],
                                ![a].read = now]
        /\ UNCHANGED <<broker, progress, postgres, redis, outbound, cache, now, faults>>

(* With the answer, which may be old by now, the row is cached as of now; a*)
(* check without a row is not cached and ends the call.                    *)
GetCheck(a) ==
    LET c == task[a].result.check
    IN  /\ task[a].stage = "found"
        /\ IF task[a].tags = NoRow
           THEN Return(a) /\ UNCHANGED cache
           ELSE /\ cache' = [cache EXCEPT ![a][c] =
                                [tags |-> task[a].tags, at |-> now, read |-> task[a].read]]
                /\ task' = [task EXCEPT ![a].stage = "heartbeat", ![a].read = 0]
                /\ UNCHANGED progress
        /\ UNCHANGED <<broker, postgres, redis, outbound, now, faults>>

(* recordBaselineHeartbeat, then evaluate: a healthy sample ends the call, *)
(* a failing one gets its fingerprint.                                     *)
RecordHeartbeatAndEvaluate(a) ==
    LET r == task[a].result
        ok == r.cause = Healthy
    IN  /\ task[a].stage = "heartbeat"
        /\ IF task[a].tags.baseline /\ ok
           THEN /\ heartbeat' = [heartbeat EXCEPT ![r.region] = now + HeartbeatTTL]
                /\ beats' = beats \union {<<r.region, now>>}
           ELSE UNCHANGED <<heartbeat, beats>>
        /\ IF ok
           THEN Return(a)
           ELSE /\ task' = [task EXCEPT
                        ![a].stage = "suppress",
                        ![a].fp = [check |-> r.check,
                                   vendor |-> task[a].tags.vendor,
                                   cause |-> r.cause]]
                /\ UNCHANGED progress
        /\ UNCHANGED <<broker, postgres, dedup, opens, drops, vouched,
                       outbound, cache, now, faults>>

(* shouldSuppressNetworkFailure: what looks like trouble of the probe's    *)
(* own network alerts only while a baseline check succeeds in that region. *)
Suspicious(a) ==
    ~task[a].tags.baseline /\ task[a].result.cause \in NetworkCauses

\* Mutant of ShouldSuppressNetworkFailure: a missing heartbeat vouches too.
SuppressNothing(a) ==
    LET r == task[a].result.region
    IN  /\ task[a].stage = "suppress"
        /\ Step(a, "dedup")
        /\ vouched' = IF Suspicious(a) THEN vouched \union {<<r, now>>} ELSE vouched
        /\ UNCHANGED <<broker, progress, postgres, dedup, heartbeat, opens, drops,
                       beats, outbound, cache, now, faults>>

ShouldSuppressNetworkFailure(a) ==
    LET r == task[a].result.region
    IN  /\ task[a].stage = "suppress"
        /\ \/ ~Suspicious(a) /\ Step(a, "dedup") /\ UNCHANGED <<vouched, progress>>
           \/ /\ Suspicious(a) /\ now < heartbeat[r]
              /\ Step(a, "dedup")
              /\ vouched' = vouched \union {<<r, now>>}
              /\ UNCHANGED progress
           \/ Suspicious(a) /\ heartbeat[r] <= now /\ Return(a) /\ UNCHANGED vouched
        /\ UNCHANGED <<broker, postgres, dedup, heartbeat, opens, drops, beats,
                       outbound, cache, now, faults>>

Held(f) == now < dedup[f]

\* Mutant of AcquireDedupKey: without NX, a refusal prolongs the key.
AcquireProlonging(a) ==
    LET f == task[a].fp
        request == [key |-> f, at |-> now]
    IN  /\ task[a].stage = "dedup"
        /\ dedup' = [dedup EXCEPT ![f] = now + DedupTTL]
        /\ \/ /\ ~Held(f)
              /\ opens' = opens \union {request}
              /\ task' = [task EXCEPT ![a].stage = "create", ![a].at = now]
              /\ UNCHANGED <<drops, progress>>
           \/ /\ Held(f)
              /\ drops' = drops \union {request}
              /\ Return(a)
              /\ UNCHANGED opens
        /\ UNCHANGED <<broker, postgres, heartbeat, beats, vouched, outbound,
                       cache, now, faults>>

(* SET alert:fingerprint:<fp> 1 EX 300 NX, atomic in Redis.                *)
AcquireDedupKey(a) ==
    LET f == task[a].fp
        request == [key |-> f, at |-> now]
    IN  /\ task[a].stage = "dedup"
        /\ \/ /\ ~Held(f)
              /\ dedup' = [dedup EXCEPT ![f] = now + DedupTTL]
              /\ opens' = opens \union {request}
              /\ task' = [task EXCEPT ![a].stage = "create", ![a].at = now]
              /\ UNCHANGED <<drops, progress>>
           \/ /\ Held(f)
              /\ drops' = drops \union {request}
              /\ Return(a)
              /\ UNCHANGED <<dedup, opens>>
        /\ UNCHANGED <<broker, postgres, heartbeat, beats, vouched, outbound,
                       cache, now, faults>>

\* Mutant of CreateIncident: checks without a vendor are forgotten.
CreateVendorIncidentsOnly(a) ==
    /\ task[a].stage = "create"
    /\ IF task[a].tags.vendor = NoVendor
       THEN Return(a) /\ UNCHANGED incidents
       ELSE /\ incidents' = Append(incidents, [key |-> task[a].fp, at |-> task[a].at])
            /\ task' = [task EXCEPT ![a].stage = "note",
                                    ![a].inc = Len(incidents) + 1]
            /\ UNCHANGED progress
    /\ UNCHANGED <<broker, checkRow, saves, savedAt, notes, redis, outbound,
                   cache, now, faults>>

(* getCorrelation only reads; incident.create inserts the row.             *)
CreateIncident(a) ==
    /\ task[a].stage = "create"
    /\ incidents' = Append(incidents, [key |-> task[a].fp, at |-> task[a].at])
    /\ task' = [task EXCEPT
            ![a].stage = IF task[a].tags.vendor = NoVendor THEN "raise" ELSE "note",
            ![a].inc = Len(incidents) + 1]
    /\ UNCHANGED <<broker, progress, checkRow, saves, savedAt, notes, redis,
                   outbound, cache, now, faults>>

\* Mutant of WriteNote: returns after the note.
WriteNoteAndReturn(a) ==
    /\ task[a].stage = "note"
    /\ notes' = notes \union {task[a].inc}
    /\ Return(a)
    /\ UNCHANGED <<broker, checkRow, saves, savedAt, incidents, redis, outbound,
                   cache, now, faults>>

(* A vendor-tagged check always has a correlation message.                 *)
WriteNote(a) ==
    /\ task[a].stage = "note"
    /\ notes' = notes \union {task[a].inc}
    /\ Step(a, "raise")
    /\ UNCHANGED <<broker, progress, checkRow, saves, savedAt, incidents, redis,
                   outbound, cache, now, faults>>

RaiseAlert(a) ==
    /\ task[a].stage = "raise"
    /\ raised' = raised \union {task[a].inc}
    /\ Step(a, "dispatch")
    /\ UNCHANGED <<broker, progress, postgres, redis, delivered, dispatched,
                   cache, now, faults>>

(* dispatch: one POST per notifier, in parallel; a failing one is logged   *)
(* and forgotten.  A crash from here on may leave any of them sent.        *)
Dispatch(a) ==
    /\ task[a].stage = "dispatch"
    /\ \E accepted \in SUBSET Notifiers :
            delivered' = delivered \union {<<task[a].inc, n>> : n \in accepted}
    /\ Step(a, "settled")
    /\ UNCHANGED <<broker, progress, postgres, redis, raised, dispatched,
                   cache, now, faults>>

(* Every POST has settled: dispatch and, with it, the handler return.      *)
AllSettled(a) ==
    /\ task[a].stage = "settled"
    /\ dispatched' = dispatched \union {task[a].inc}
    /\ Return(a)
    /\ UNCHANGED <<broker, postgres, redis, raised, delivered, cache, now, faults>>

\* Mutant of HandlerThrows: the error is swallowed and the offset resolved.
HandlerSwallows(a) ==
    LET p == task[a].part
    IN  /\ task[a].stage # "idle"
        /\ faults < MaxFaults
        /\ faults' = faults + 1
        /\ task' = [task EXCEPT ![a] = Idle]
        /\ IF owner[p] = a
           THEN /\ position' = [position EXCEPT ![p] = task[a].off + 1]
                /\ dirty' = [dirty EXCEPT ![p] = TRUE]
           ELSE UNCHANGED <<position, dirty>>
        /\ UNCHANGED <<broker, handled, postgres, redis, outbound, cache, now>>

\* Mutant of HandlerThrows: the dedup key is released for the retry.
HandlerReleasesKey(a) ==
    /\ task[a].stage # "idle"
    /\ faults < MaxFaults
    /\ faults' = faults + 1
    /\ task' = [task EXCEPT ![a] = Idle]
    /\ dedup' = [f \in Fingerprints |-> IF f = task[a].fp THEN 0 ELSE dedup[f]]
    /\ UNCHANGED <<broker, progress, postgres, heartbeat, opens, drops, beats,
                   vouched, outbound, cache, now>>

(* A Redis, PostgreSQL or Kafka call of the handler throws: eachMessage    *)
(* rejects, the offset is not resolved and the client runs it again.       *)
HandlerThrows(a) ==
    /\ task[a].stage # "idle"
    /\ faults < MaxFaults
    /\ faults' = faults + 1
    /\ task' = [task EXCEPT ![a] = Idle]
    /\ UNCHANGED <<broker, progress, postgres, redis, outbound, cache, now>>

(* The process dies: memory is lost, its partitions are reassigned later.  *)
Crash(a) ==
    /\ faults < MaxFaults
    /\ faults' = faults + 1
    /\ task' = [task EXCEPT ![a] = Idle]
    /\ cache' = [cache EXCEPT ![a] = [c \in Checks |-> NoEntry]]
    /\ owner' = [p \in Partitions |-> IF owner[p] = a THEN Nobody ELSE owner[p]]
    /\ UNCHANGED <<log, committed, progress, postgres, redis, outbound, now>>

Handler(a) ==
    \/ \E p \in Partitions : EachMessage(a, p)
    \/ GetCached(a)
    \/ FindCheck(a)
    \/ GetCheck(a)
    \/ RecordHeartbeatAndEvaluate(a)
    \/ ShouldSuppressNetworkFailure(a)
    \/ AcquireDedupKey(a)
    \/ CreateIncident(a)
    \/ WriteNote(a)
    \/ RaiseAlert(a)
    \/ Dispatch(a)
    \/ AllSettled(a)

(* The bounds of the model are used up and nothing is left to handle: the  *)
(* only state in which the alerter may have no step.                       *)
Rest ==
    /\ now = MaxTime
    /\ \A a \in Alerters : task[a].stage = "idle"
    /\ \A p \in Partitions :
          owner[p] # Nobody /\ position[p] = Len(log[p]) /\ ~dirty[p]
    /\ UNCHANGED vars

Next ==
    \/ Tick
    \/ \E r \in Results : Produce(r)
    \/ \E c \in Checks, t \in TagChoices : SaveCheck(c, t)
    \/ \E p \in Partitions, a \in Alerters : Assign(p, a)
    \/ \E p \in Partitions : Revoke(p) \/ Commit(p)
    \/ \E a \in Alerters : Handler(a) \/ HandlerThrows(a) \/ Crash(a)
    \/ Rest

Spec == Init /\ [][Next]_vars

(* The event loop runs every handler on, the broker assigns what is free   *)
(* and the client commits; nothing obliges time, probes or writers.        *)
Fairness ==
    /\ \A a \in Alerters : WF_vars(Handler(a))
    /\ \A p \in Partitions : WF_vars(\E a \in Alerters : Assign(p, a))
    /\ \A p \in Partitions : WF_vars(Commit(p))

FairSpec == Spec /\ Fairness

----------------------------------------------------------------------------
(* Safety.                                                                 *)

Window == INSTANCE DedupWindow
            WITH Keys <- Fingerprints, Window <- DedupTTL, Instants <- Nat

(* The alerter implements the deduplication window: whatever is delivered  *)
(* twice, in parallel or after a crash, a failure opens an incident's      *)
(* window exactly when none of its fingerprint covers it (SET NX EX,       *)
(* alerts.service.ts:88-92).                                               *)
ImplementsDedupWindow == Window!Spec

(* No duplicate incidents: two rows of one fingerprint were opened at least*)
(* DedupTTL apart, across crashes, redeliveries and two processes handling *)
(* the same message.                                                       *)
IncidentsAreSpaced ==
    \A i, j \in 1..Len(incidents) :
        i # j /\ incidents[i].key = incidents[j].key
            => \/ incidents[i].at + DedupTTL <= incidents[j].at
               \/ incidents[j].at + DedupTTL <= incidents[i].at

(* The inductive invariant behind both: the key of a fingerprint expires   *)
(* with the latest of its windows, every row stands for an opening, every  *)
(* handler about to insert one holds an opening, and no two rows or        *)
(* handlers share theirs.                                                  *)
Granted(a) == [key |-> task[a].fp, at |-> task[a].at]
Holders == {a \in Alerters : task[a].stage = "create"}

KeyIsLatestExpiry ==
    \A f \in Fingerprints :
        /\ \A w \in opens : w.key = f => w.at + DedupTTL <= dedup[f]
        /\ dedup[f] = 0 \/ \E w \in opens : w.key = f /\ w.at + DedupTTL = dedup[f]

OpeningsAreOwnedOnce ==
    /\ \A i \in 1..Len(incidents) : incidents[i] \in opens
    /\ \A a \in Holders : Granted(a) \in opens
    /\ \A i, j \in 1..Len(incidents) : i # j => incidents[i] # incidents[j]
    /\ \A i \in 1..Len(incidents), a \in Holders : incidents[i] # Granted(a)
    /\ \A a, b \in Holders : a # b => Granted(a) # Granted(b)

DedupInv == KeyIsLatestExpiry /\ OpeningsAreOwnedOnce /\ Window!Spacing

(* A failure that looks like the probe's own network trouble is let through*)
(* only when a baseline check was seen healthy in that region within the   *)
(* heartbeat's lifetime (alerts.service.ts:191-220).                       *)
NetworkFailuresAreVouched ==
    \A v \in vouched : \E b \in beats :
        b[1] = v[1] /\ b[2] <= v[2] /\ v[2] < b[2] + HeartbeatTTL

(* Once the group has an offset, a commit only moves it forward, and only  *)
(* over results whose handling has finished: a restart skips nothing.      *)
(* (The first offset is another matter: see AtLeastOnce.)                  *)
CommitsCoverHandledResults ==
    [][\A p \in Partitions :
        committed[p] # NoOffset /\ committed'[p] # committed[p] =>
            /\ committed[p] < committed'[p]
            /\ \A o \in committed[p]..(committed'[p] - 1) :
                    <<p, o>> \in handled']_vars

(* The invariant behind it: the owner of a partition works on the offset   *)
(* at its position, and between the committed offset and the position      *)
(* everything has been handled.                                            *)
OffsetInv ==
    /\ \A p \in Partitions :
          owner[p] # Nobody /\ committed[p] # NoOffset =>
              /\ committed[p] <= position[p]
              /\ dirty[p] => committed[p] < position[p]
              /\ \A o \in committed[p]..(position[p] - 1) : <<p, o>> \in handled
    /\ \A a \in Alerters :
          LET p == task[a].part
          IN  task[a].stage # "idle" /\ owner[p] = a => task[a].off = position[p]

(* Tags a message is judged by are those of the row, or the row changed no *)
(* longer ago than the cache's lifetime and the time the query took that   *)
(* filled the entry: loadedAt is the clock after the await                 *)
(* (alerts.service.ts:165-189).                                            *)
StaleTagsAreRecent ==
    [][\A a \in Alerters :
        LET c == task[a].result.check
            entry == cache'[a][c]
        IN  task[a].stage \in {"load", "found"} /\ task'[a].stage = "heartbeat" =>
                \/ task'[a].tags = checkRow[c]
                \/ now - savedAt[c] <= CacheTTL + (entry.at - entry.read)]_vars

(* As long as nothing failed every opening leads to its row: only a handler*)
(* on its way stands between a dedup key and the incident it means.  (Kept *)
(* apart from faults: see EveryIncidentIsDispatched.)                      *)
OpeningsBecomeIncidents ==
    faults = 0 => \A w \in opens :
        \/ \E i \in 1..Len(incidents) : incidents[i] = w
        \/ \E a \in Alerters :
              task[a].stage = "create" /\ task[a].fp = w.key /\ task[a].at = w.at

----------------------------------------------------------------------------
(* Liveness.                                                               *)

(* At least once: a result beyond an offset the group has committed is     *)
(* handled in the end, whatever crashes and rebalances come first.         *)
AtLeastOnce ==
    \A p \in Partitions : \A o \in 0..(MaxLog - 1) :
        (o < Len(log[p]) /\ committed[p] # NoOffset /\ committed[p] <= o)
            ~> (<<p, o>> \in handled)

(* "Delivery runs when the alerter opens an incident" (README.md:126).  The*)
(* code keeps this promise only while nothing fails.                       *)
EveryIncidentIsDispatched ==
    \A i \in 1..(MaxLog * Cardinality(Partitions)) :
        (i <= Len(incidents)) ~> (i \in dispatched)

(* What it does promise: delivery of an incident runs to its end, unless   *)
(* some call failed, some process died or some partition changed hands.    *)
DispatchedUnlessFailed ==
    \A i \in 1..(MaxLog * Cardinality(Partitions)) :
        (i <= Len(incidents)) ~> (i \in dispatched \/ faults > 0)

============================================================================
