------------------------ MODULE AlertPipelineProofs ------------------------
(***************************************************************************)
(* The alerter: types, deduplication, offsets, the region a failure of the *)
(* network is vouched for by, the age of a tag read from the cache, and the *)
(* rows and messages an opening leads to, for every number of processes,   *)
(* partitions, checks and results, every lifetime of the Redis keys and any *)
(* number of faults.                                                       *)
(***************************************************************************)
EXTENDS AlertPipeline, TLAPS

USE DEF NoOffset

----------------------------------------------------------------------------
(* Type correctness.                                                       *)

(* The idle record is a task without locals.                               *)
LEMMA IdleTask == Idle \in Task /\ LocalsOK(Idle)
BY DEF Idle, Task, Stages, LocalsOK

(* Assigning a well-formed record to one task keeps all of them so.        *)
LEMMA TaskUpdate ==
    ASSUME ProcessTypeOK, \A b \in Alerters : LocalsOK(task[b]),
           NEW a \in Alerters, NEW t \in Task, LocalsOK(t),
           task' = [task EXCEPT ![a] = t]
    PROVE  task' \in [Alerters -> Task] /\ \A b \in Alerters : LocalsOK(task'[b])
BY DEF ProcessTypeOK

(* A handler that returns leaves well-typed state behind.                  *)
LEMMA ReturnTypes ==
    ASSUME TypeOK, NEW a \in Alerters, task[a].stage # "idle", Return(a)
    PROVE  /\ task' \in [Alerters -> Task]
           /\ \A b \in Alerters : LocalsOK(task'[b])
           /\ handled' \subseteq Partitions \X Nat
           /\ position' \in [Partitions -> Nat]
           /\ dirty' \in [Partitions -> BOOLEAN]
<1> DEFINE p == task[a].part
<1>1. p \in Partitions /\ task[a].off \in Nat
  BY DEF TypeOK, ProcessTypeOK, Task, LocalsOK
<1>2. task' = [task EXCEPT ![a] = Idle]
  BY DEF Return
<1>3. /\ task' \in [Alerters -> Task]
      /\ \A b \in Alerters : LocalsOK(task'[b])
  BY <1>2, IdleTask, TaskUpdate DEF TypeOK
<1>4. handled' \subseteq Partitions \X Nat
  BY <1>1 DEF Return, TypeOK, HistoryTypeOK
<1>5. position' \in [Partitions -> Nat] /\ dirty' \in [Partitions -> BOOLEAN]
  <2>1. CASE owner[p] = a
    <3>1. /\ position' = [position EXCEPT ![p] = task[a].off + 1]
          /\ dirty' = [dirty EXCEPT ![p] = TRUE]
      BY <2>1 DEF Return
    <3>2. QED
      BY <1>1, <3>1 DEF TypeOK, BrokerTypeOK
  <2>2. CASE owner[p] # a
    BY <2>2 DEF Return, TypeOK, BrokerTypeOK
  <2>3. QED
    BY <2>1, <2>2
<1>6. QED
  BY <1>3, <1>4, <1>5

(* Moving to another stage keeps the locals.                               *)
LEMMA StepTypes ==
    ASSUME TypeOK, NEW a \in Alerters, NEW s \in Stages \ {"idle", "load", "found"},
           task[a].stage \notin {"idle", "load", "found", "heartbeat"},
           Step(a, s)
    PROVE  /\ task' \in [Alerters -> Task]
           /\ \A b \in Alerters : LocalsOK(task'[b])
<1> DEFINE t == [task[a] EXCEPT !.stage = s]
<1>1. task[a] \in Task /\ LocalsOK(task[a])
  BY DEF TypeOK, ProcessTypeOK
<1>2. t \in Task /\ LocalsOK(t)
  BY <1>1 DEF Task, LocalsOK
<1>3. task' = [task EXCEPT ![a] = t]
  BY DEF Step, TypeOK, ProcessTypeOK
<1>4. QED
  BY <1>2, <1>3, TaskUpdate DEF TypeOK

(* The environment's steps keep the types.                                 *)
LEMMA EnvironmentTypes ==
    ASSUME TypeOK,
           \/ Tick
           \/ \E r \in Results : Produce(r)
           \/ \E c \in Checks, t \in TagChoices : SaveCheck(c, t)
           \/ \E p \in Partitions, a \in Alerters : Assign(p, a)
           \/ \E p \in Partitions : Revoke(p) \/ Commit(p)
           \/ UNCHANGED vars
    PROVE  TypeOK'
<1> USE DEF TypeOK, BrokerTypeOK, PostgresTypeOK, RedisTypeOK, OutboundTypeOK,
            ProcessTypeOK, HistoryTypeOK, broker, progress, postgres, redis,
            outbound
<1>1. CASE Tick
  BY <1>1 DEF Tick
<1>2. ASSUME NEW r \in Results, Produce(r) PROVE TypeOK'
  <2> DEFINE p == PartitionOf[r.check]
  <2>1. p \in Partitions
    BY RowAssumption DEF Results
  <2>2. Append(log[p], r) \in Seq(Results)
    BY <2>1
  <2>3. QED
    BY <1>2, <2>1, <2>2 DEF Produce
<1>3. ASSUME NEW c \in Checks, NEW t \in TagChoices, SaveCheck(c, t)
      PROVE  TypeOK'
  BY <1>3, RowAssumption DEF SaveCheck
<1>4. ASSUME NEW p \in Partitions, NEW a \in Alerters, Assign(p, a)
      PROVE  TypeOK'
  <2>1. Len(log[p]) \in Nat
    OBVIOUS
  <2>2. (IF committed[p] = NoOffset THEN Len(log[p]) ELSE committed[p]) \in Nat
    BY <2>1
  <2>3. QED
    BY <1>4, <2>2 DEF Assign
<1>5. ASSUME NEW p \in Partitions, Revoke(p) PROVE TypeOK'
  BY <1>5 DEF Revoke
<1>6. ASSUME NEW p \in Partitions, Commit(p) PROVE TypeOK'
  BY <1>6 DEF Commit
<1>7. CASE UNCHANGED vars
  BY <1>7 DEF vars
<1>8. QED
  BY <1>1, <1>2, <1>3, <1>4, <1>5, <1>6, <1>7

(* Each await of the handler keeps the types.                              *)
LEMMA HandlerTypes ==
    ASSUME TypeOK, NEW a \in Alerters,
           Handler(a) \/ HandlerThrows(a) \/ Crash(a)
    PROVE  TypeOK'
<1> USE DEF TypeOK, BrokerTypeOK, PostgresTypeOK, RedisTypeOK, OutboundTypeOK,
            ProcessTypeOK, HistoryTypeOK, broker, progress, postgres, redis,
            outbound
<1>0. task[a] \in Task /\ LocalsOK(task[a])
  OBVIOUS
<1>1. ASSUME NEW p \in Partitions, EachMessage(a, p) PROVE TypeOK'
  <2> DEFINE t == [Idle EXCEPT !.stage = "load", !.part = p,
                               !.off = position[p],
                               !.result = log[p][position[p] + 1]]
  <2>1. position[p] + 1 \in 1..Len(log[p])
    BY <1>1 DEF EachMessage
  <2>2. log[p][position[p] + 1] \in Results
    BY <2>1
  <2>3. t \in Task /\ LocalsOK(t)
    BY <2>2, IdleTask DEF Task, LocalsOK, Idle, Stages
  <2>4. task' = [task EXCEPT ![a] = t]
    BY <1>1 DEF EachMessage
  <2>5. task' \in [Alerters -> Task] /\ \A b \in Alerters : LocalsOK(task'[b])
    BY <2>3, <2>4, TaskUpdate
  <2>6. QED
    BY <1>1, <2>5 DEF EachMessage
<1>2. CASE GetCached(a)
  <2> DEFINE c == task[a].result.check
             t == [task[a] EXCEPT !.stage = "heartbeat", !.tags = cache[a][c].tags]
  <2>1. task[a].stage = "load" /\ c \in Checks /\ cache[a][c].tags \in Tags
    BY <1>2, <1>0 DEF GetCached, Fresh, LocalsOK, Results, Entries
  <2>2. t \in Task /\ LocalsOK(t)
    BY <1>0, <2>1 DEF Task, LocalsOK, Stages
  <2>3. task' = [task EXCEPT ![a] = t]
    BY <1>2 DEF GetCached
  <2>4. QED
    BY <1>2, <2>2, <2>3, TaskUpdate DEF GetCached
<1>3. CASE RecordHeartbeatAndEvaluate(a)
  <2> DEFINE r == task[a].result
             f == [check |-> r.check, vendor |-> task[a].tags.vendor,
                   cause |-> r.cause]
             t == [task[a] EXCEPT !.stage = "suppress", !.fp = f]
  <2>1. task[a].stage = "heartbeat" /\ r \in Results /\ task[a].tags \in Tags
    BY <1>3, <1>0 DEF RecordHeartbeatAndEvaluate, LocalsOK
  <2>2. heartbeat' \in [Regions -> Nat] /\ beats' \subseteq Regions \X Nat
    <3>1. r.region \in Regions /\ now + HeartbeatTTL \in Nat
      BY <2>1, TTLAssumption DEF Results
    <3>2. CASE task[a].tags.baseline /\ r.cause = Healthy
      <4>1. /\ heartbeat' = [heartbeat EXCEPT ![r.region] = now + HeartbeatTTL]
            /\ beats' = beats \union {<<r.region, now>>}
        BY <1>3, <3>2 DEF RecordHeartbeatAndEvaluate
      <4>2. QED
        BY <3>1, <4>1
    <3>3. CASE ~(task[a].tags.baseline /\ r.cause = Healthy)
      BY <1>3, <3>3 DEF RecordHeartbeatAndEvaluate
    <3>4. QED
      BY <3>2, <3>3
  <2>3. CASE r.cause = Healthy
    <3>1. Return(a)
      BY <1>3, <2>3 DEF RecordHeartbeatAndEvaluate
    <3>2. QED
      BY <1>3, <2>1, <2>2, <3>1, ReturnTypes DEF RecordHeartbeatAndEvaluate
  <2>4. CASE r.cause # Healthy
    <3>1. task' = [task EXCEPT ![a] = t] /\ UNCHANGED progress
      BY <1>3, <2>4 DEF RecordHeartbeatAndEvaluate
    <3>2. f \in Fingerprints
      BY <2>1, <2>4 DEF Results, Tags, Fingerprints
    <3>3. t \in Task /\ LocalsOK(t)
      BY <1>0, <2>1, <3>2 DEF Task, LocalsOK, Stages
    <3>4. task' \in [Alerters -> Task] /\ \A b \in Alerters : LocalsOK(task'[b])
      BY <3>1, <3>3, TaskUpdate
    <3>5. QED
      BY <1>3, <2>2, <3>1, <3>4 DEF RecordHeartbeatAndEvaluate
  <2>5. QED
    BY <2>3, <2>4
<1>4. CASE ShouldSuppressNetworkFailure(a)
  <2>1. task[a].stage = "suppress" /\ task[a].result.region \in Regions
    BY <1>4, <1>0 DEF ShouldSuppressNetworkFailure, LocalsOK, Results
  <2>2. vouched' \subseteq Regions \X Nat
    BY <1>4, <2>1 DEF ShouldSuppressNetworkFailure
  <2>3. CASE Step(a, "dedup") /\ UNCHANGED progress
    <3>1. task' \in [Alerters -> Task] /\ \A b \in Alerters : LocalsOK(task'[b])
      BY <2>1, <2>3, StepTypes DEF Stages
    <3>2. QED
      BY <1>4, <2>2, <2>3, <3>1 DEF ShouldSuppressNetworkFailure
  <2>4. CASE Return(a)
    BY <1>4, <2>1, <2>2, <2>4, ReturnTypes DEF ShouldSuppressNetworkFailure
  <2>5. QED
    BY <1>4, <2>3, <2>4 DEF ShouldSuppressNetworkFailure
<1>5. CASE AcquireDedupKey(a)
  <2> DEFINE f == task[a].fp
  <2>1. task[a].stage = "dedup" /\ f \in Fingerprints
    BY <1>5, <1>0 DEF AcquireDedupKey, LocalsOK
  <2>2. [key |-> f, at |-> now] \in Row
    BY <2>1 DEF Row
  <2>3. CASE ~Held(f)
    <3> DEFINE t == [task[a] EXCEPT !.stage = "create", !.at = now]
    <3>1. /\ task' = [task EXCEPT ![a] = t]
          /\ dedup' = [dedup EXCEPT ![f] = now + DedupTTL]
          /\ opens' = opens \union {[key |-> f, at |-> now]}
          /\ UNCHANGED <<drops, progress>>
      BY <1>5, <2>3 DEF AcquireDedupKey
    <3>2. t \in Task /\ LocalsOK(t)
      BY <1>0, <2>1 DEF Task, LocalsOK, Stages
    <3>3. task' \in [Alerters -> Task] /\ \A b \in Alerters : LocalsOK(task'[b])
      BY <3>1, <3>2, TaskUpdate
    <3>4. now + DedupTTL \in Nat
      BY TTLAssumption
    <3>5. QED
      BY <1>5, <2>1, <2>2, <3>1, <3>3, <3>4 DEF AcquireDedupKey
  <2>4. CASE Held(f)
    <3>1. Return(a) /\ UNCHANGED <<dedup, opens>>
      BY <1>5, <2>4 DEF AcquireDedupKey
    <3>2. drops' = drops \union {[key |-> f, at |-> now]}
      BY <1>5, <2>4 DEF AcquireDedupKey
    <3>3. QED
      BY <1>5, <2>1, <2>2, <3>1, <3>2, ReturnTypes DEF AcquireDedupKey
  <2>5. QED
    BY <2>3, <2>4
<1>6. CASE CreateIncident(a)
  <2> DEFINE row == [key |-> task[a].fp, at |-> task[a].at]
             s == IF task[a].tags.vendor = NoVendor THEN "raise" ELSE "note"
             t == [task[a] EXCEPT !.stage = s, !.inc = Len(incidents) + 1]
  <2>1. task[a].stage = "create" /\ row \in Row
    BY <1>6, <1>0 DEF CreateIncident, LocalsOK, Task, Row
  <2>2. task' = [task EXCEPT ![a] = t] /\ incidents' = Append(incidents, row)
    BY <1>6 DEF CreateIncident
  <2>3. t \in Task /\ LocalsOK(t)
    <3>1. s \in Stages \ {"idle", "load", "found"} /\ Len(incidents) + 1 \in Nat
      BY DEF Stages
    <3>2. QED
      BY <1>0, <2>1, <3>1 DEF Task, LocalsOK
  <2>4. task' \in [Alerters -> Task] /\ \A b \in Alerters : LocalsOK(task'[b])
    BY <2>2, <2>3, TaskUpdate
  <2>5. incidents' \in Seq(Row)
    BY <2>1, <2>2
  <2>6. QED
    BY <1>6, <2>4, <2>5 DEF CreateIncident
<1>7. CASE WriteNote(a)
  <2>1. task[a].stage = "note" /\ task[a].inc \in Nat /\ Step(a, "raise")
    BY <1>7, <1>0 DEF WriteNote, Task
  <2>2. task' \in [Alerters -> Task] /\ \A b \in Alerters : LocalsOK(task'[b])
    BY <2>1, StepTypes DEF Stages
  <2>3. QED
    BY <1>7, <2>1, <2>2 DEF WriteNote
<1>8. CASE RaiseAlert(a)
  <2>1. task[a].stage = "raise" /\ task[a].inc \in Nat /\ Step(a, "dispatch")
    BY <1>8, <1>0 DEF RaiseAlert, Task
  <2>2. task' \in [Alerters -> Task] /\ \A b \in Alerters : LocalsOK(task'[b])
    BY <2>1, StepTypes DEF Stages
  <2>3. QED
    BY <1>8, <2>1, <2>2 DEF RaiseAlert
<1>9. CASE Dispatch(a)
  <2>1. task[a].stage = "dispatch" /\ task[a].inc \in Nat /\ Step(a, "settled")
    BY <1>9, <1>0 DEF Dispatch, Task
  <2>2. task' \in [Alerters -> Task] /\ \A b \in Alerters : LocalsOK(task'[b])
    BY <2>1, StepTypes DEF Stages
  <2>3. delivered' \subseteq Nat \X Notifiers
    BY <1>9, <2>1 DEF Dispatch
  <2>4. QED
    BY <1>9, <2>1, <2>2, <2>3 DEF Dispatch
<1>10. CASE AllSettled(a)
  <2>1. task[a].stage = "settled" /\ task[a].inc \in Nat /\ Return(a)
    BY <1>10, <1>0 DEF AllSettled, Task
  <2>2. QED
    BY <1>10, <2>1, ReturnTypes DEF AllSettled
<1>11. CASE HandlerThrows(a)
  <2>1. task' \in [Alerters -> Task] /\ \A b \in Alerters : LocalsOK(task'[b])
    BY <1>11, IdleTask, TaskUpdate DEF HandlerThrows
  <2>2. QED
    BY <1>11, <2>1 DEF HandlerThrows
<1>12. CASE Crash(a)
  <2>1. task' \in [Alerters -> Task] /\ \A b \in Alerters : LocalsOK(task'[b])
    BY <1>12, IdleTask, TaskUpdate DEF Crash
  <2>2. cache' \in [Alerters -> [Checks -> Entries]]
    BY <1>12 DEF Crash, NoEntry, Entries
  <2>3. QED
    BY <1>12, <2>1, <2>2 DEF Crash
<1>13. CASE FindCheck(a)
  <2> DEFINE c == task[a].result.check
             t == [task[a] EXCEPT !.stage = "found", !.tags = checkRow[c], !.read = now]
  <2>1. task[a].stage = "load" /\ c \in Checks
    BY <1>13, <1>0 DEF FindCheck, LocalsOK, Results
  <2>2. t \in Task /\ LocalsOK(t)
    BY <1>0, <2>1 DEF Task, LocalsOK, Stages
  <2>3. task' = [task EXCEPT ![a] = t]
    BY <1>13 DEF FindCheck
  <2>4. QED
    BY <1>13, <2>2, <2>3, TaskUpdate DEF FindCheck
<1>14. CASE GetCheck(a)
  <2> DEFINE c == task[a].result.check
             t == [task[a] EXCEPT !.stage = "heartbeat", !.read = 0]
             entry == [tags |-> task[a].tags, at |-> now, read |-> task[a].read]
  <2>1. task[a].stage = "found" /\ c \in Checks
    BY <1>14, <1>0 DEF GetCheck, LocalsOK, Results
  <2>2. CASE task[a].tags = NoRow
    BY <1>14, <2>1, <2>2, ReturnTypes DEF GetCheck
  <2>3. CASE task[a].tags # NoRow
    <3>1. t \in Task /\ LocalsOK(t) /\ entry \in Entries
      BY <1>0, <2>1, <2>3 DEF Task, LocalsOK, Stages, Entries
    <3>2. /\ task' = [task EXCEPT ![a] = t] /\ UNCHANGED progress
          /\ cache' = [cache EXCEPT ![a][c] = entry]
      BY <1>14, <2>3 DEF GetCheck
    <3>3. task' \in [Alerters -> Task] /\ \A b \in Alerters : LocalsOK(task'[b])
      BY <3>1, <3>2, TaskUpdate
    <3> HIDE DEF entry
    <3>4. cache' \in [Alerters -> [Checks -> Entries]]
      BY <2>1, <3>1, <3>2
    <3>5. QED
      BY <1>14, <3>2, <3>3, <3>4 DEF GetCheck
  <2>4. QED
    BY <2>2, <2>3
<1>15. QED
  BY <1>1, <1>2, <1>3, <1>4, <1>5, <1>6, <1>7, <1>8, <1>9, <1>10, <1>11, <1>12, <1>13, <1>14
     DEF Handler

(* Every variable of the alerter stays in its domain, and no handler uses  *)
(* a local before the await that assigns it has returned.                  *)
THEOREM TypeCorrect == Spec => []TypeOK
<1>1. Init => TypeOK
  <2> SUFFICES ASSUME Init PROVE TypeOK
    OBVIOUS
  <2>1. NoEntry \in Entries
    BY DEF NoEntry, Entries
  <2>2. BrokerTypeOK /\ PostgresTypeOK /\ RedisTypeOK
    BY RowAssumption DEF Init, BrokerTypeOK, PostgresTypeOK, RedisTypeOK
  <2>3. OutboundTypeOK /\ ProcessTypeOK /\ HistoryTypeOK
    BY <2>1, IdleTask DEF Init, OutboundTypeOK, ProcessTypeOK, HistoryTypeOK
  <2>4. QED
    BY <2>2, <2>3, IdleTask DEF Init, TypeOK
<1>2. TypeOK /\ [Next]_vars => TypeOK'
  <2>1. ASSUME TypeOK, Rest PROVE TypeOK'
    BY <2>1, EnvironmentTypes DEF Rest
  <2>2. QED
    BY <2>1, EnvironmentTypes, HandlerTypes DEF Next
<1>3. QED
  BY <1>1, <1>2, PTL DEF Spec

----------------------------------------------------------------------------
(* Deduplication.                                                          *)

(* What a step must leave alone to be of no concern to deduplication.      *)
Quiet ==
    /\ UNCHANGED <<opens, dedup, incidents>>
    /\ \A b \in Alerters : task'[b].stage = "create" => task'[b] = task[b]

LEMMA QuietKeepsDedup ==
    ASSUME DedupInv, Quiet
    PROVE  DedupInv'
<1>1. Holders' \subseteq Holders /\ \A a \in Holders' : Granted(a)' = Granted(a)
  BY DEF Quiet, Holders, Granted
<1>2. KeyIsLatestExpiry'
  BY DEF DedupInv, KeyIsLatestExpiry, Quiet
<1>3. OpeningsAreOwnedOnce'
  BY <1>1 DEF DedupInv, OpeningsAreOwnedOnce, Quiet
<1>4. Window!Spacing'
  BY DEF DedupInv, Window!Spacing, Window!Apart, Quiet
<1>5. QED
  BY <1>2, <1>3, <1>4 DEF DedupInv

(* Returning, moving on and being stopped are quiet.                       *)
LEMMA TaskChangesAreQuiet ==
    ASSUME TypeOK, NEW a \in Alerters, UNCHANGED <<opens, dedup, incidents>>,
           NEW t \in Task, t.stage # "create", task' = [task EXCEPT ![a] = t]
    PROVE  Quiet
BY DEF Quiet, TypeOK, ProcessTypeOK

LEMMA ReturnIsQuiet ==
    ASSUME TypeOK, NEW a \in Alerters, UNCHANGED <<opens, dedup, incidents>>,
           Return(a)
    PROVE  Quiet
BY IdleTask, TaskChangesAreQuiet DEF Return, Idle

LEMMA StepIsQuiet ==
    ASSUME TypeOK, NEW a \in Alerters, UNCHANGED <<opens, dedup, incidents>>,
           NEW s \in Stages \ {"create"}, Step(a, s)
    PROVE  Quiet
BY DEF Step, Quiet, TypeOK, ProcessTypeOK, Task

LEMMA EnvironmentIsQuiet ==
    ASSUME \/ Tick
           \/ \E r \in Results : Produce(r)
           \/ \E c \in Checks, t \in TagChoices : SaveCheck(c, t)
           \/ \E p \in Partitions, a \in Alerters : Assign(p, a)
           \/ \E p \in Partitions : Revoke(p) \/ Commit(p)
           \/ UNCHANGED vars
    PROVE  Quiet
BY DEF Tick, Produce, SaveCheck, Assign, Revoke, Commit, vars, postgres, redis, Quiet

LEMMA OtherHandlersAreQuiet ==
    ASSUME TypeOK, NEW a \in Alerters,
           \/ \E p \in Partitions : EachMessage(a, p)
           \/ GetCached(a) \/ FindCheck(a)
           \/ GetCheck(a)
           \/ RecordHeartbeatAndEvaluate(a)
           \/ ShouldSuppressNetworkFailure(a)
           \/ WriteNote(a) \/ RaiseAlert(a) \/ Dispatch(a) \/ AllSettled(a)
           \/ HandlerThrows(a) \/ Crash(a)
    PROVE  Quiet
<1> USE DEF postgres, redis
<1>1. ASSUME NEW p \in Partitions, EachMessage(a, p) PROVE Quiet
  BY <1>1 DEF EachMessage, Quiet, TypeOK, ProcessTypeOK, Idle
<1>2. CASE GetCached(a) \/ FindCheck(a) \/ GetCheck(a)
  <2>1. UNCHANGED <<opens, dedup, incidents>>
    BY <1>2 DEF GetCached, FindCheck, GetCheck
  <2>2. CASE Return(a)
    BY <2>1, <2>2, ReturnIsQuiet
  <2>3. CASE ~Return(a)
    <3>1. /\ \A b \in Alerters : b # a => task'[b] = task[b]
          /\ task'[a].stage \in {"heartbeat", "found"}
      BY <1>2, <2>3 DEF GetCached, FindCheck, GetCheck, TypeOK, ProcessTypeOK, Task
    <3>2. QED
      BY <2>1, <3>1 DEF Quiet
  <2>4. QED
    BY <2>2, <2>3
<1>3. CASE RecordHeartbeatAndEvaluate(a)
  <2>1. UNCHANGED <<opens, dedup, incidents>>
    BY <1>3 DEF RecordHeartbeatAndEvaluate
  <2>2. CASE Return(a)
    BY <2>1, <2>2, ReturnIsQuiet
  <2>3. ASSUME NEW f, task' = [task EXCEPT ![a].stage = "suppress", ![a].fp = f]
        PROVE  Quiet
    BY <2>1, <2>3 DEF Quiet, TypeOK, ProcessTypeOK, Task
  <2>4. QED
    BY <1>3, <2>2, <2>3 DEF RecordHeartbeatAndEvaluate
<1>4. CASE ShouldSuppressNetworkFailure(a)
  <2>1. UNCHANGED <<opens, dedup, incidents>> /\ (Return(a) \/ Step(a, "dedup"))
    BY <1>4 DEF ShouldSuppressNetworkFailure
  <2>2. QED
    BY <2>1, ReturnIsQuiet, StepIsQuiet DEF Stages
<1>5. CASE WriteNote(a) \/ RaiseAlert(a) \/ Dispatch(a)
  BY <1>5, StepIsQuiet DEF WriteNote, RaiseAlert, Dispatch, Stages
<1>6. CASE AllSettled(a)
  BY <1>6, ReturnIsQuiet DEF AllSettled
<1>7. CASE HandlerThrows(a) \/ Crash(a)
  BY <1>7, IdleTask, TaskChangesAreQuiet DEF HandlerThrows, Crash, Idle
<1>8. QED
  BY <1>1, <1>2, <1>3, <1>4, <1>5, <1>6, <1>7

(* The key is held exactly while an opening covers the present.            *)
LEMMA HeldIffCovered ==
    ASSUME TypeOK, KeyIsLatestExpiry, NEW f \in Fingerprints
    PROVE  Held(f) <=> Window!Covered(f, now)
<1>1. now \in Nat /\ dedup[f] \in Nat
  BY DEF TypeOK, ProcessTypeOK, RedisTypeOK
<1>2. ASSUME Held(f) PROVE Window!Covered(f, now)
  <2>1. PICK w \in opens : w.key = f /\ w.at + DedupTTL = dedup[f]
    BY <1>1, <1>2 DEF Held, KeyIsLatestExpiry
  <2>2. QED
    BY <1>2, <2>1 DEF Held, Window!Covered
<1>3. ASSUME Window!Covered(f, now) PROVE Held(f)
  <2>1. PICK w \in opens : w.key = f /\ now < w.at + DedupTTL
    BY <1>3 DEF Window!Covered
  <2>2. w.at \in Nat /\ w.at + DedupTTL <= dedup[f]
    BY <2>1 DEF TypeOK, HistoryTypeOK, Row, KeyIsLatestExpiry
  <2>3. QED
    BY <1>1, <2>1, <2>2, TTLAssumption DEF Held
<1>4. QED
  BY <1>2, <1>3

(* SET NX EX on a free key grants an opening nobody has, a window after    *)
(* the last one of that fingerprint; on a held key it changes nothing.     *)
LEMMA AcquireKeepsDedup ==
    ASSUME TypeOK, DedupInv, NEW a \in Alerters, AcquireDedupKey(a)
    PROVE  DedupInv'
<1> DEFINE f == task[a].fp
           new == [key |-> f, at |-> now]
<1>1. /\ f \in Fingerprints /\ task[a].stage = "dedup"
      /\ now \in Nat /\ dedup[f] \in Nat
  BY DEF AcquireDedupKey, TypeOK, LocalsOK, ProcessTypeOK, RedisTypeOK
<1>2. CASE Held(f)
  <2>1. Return(a) /\ UNCHANGED <<opens, dedup, incidents>>
    BY <1>2 DEF AcquireDedupKey, postgres
  <2>2. QED
    BY <2>1, ReturnIsQuiet, QuietKeepsDedup
<1>3. CASE ~Held(f)
  <2>1. /\ dedup' = [dedup EXCEPT ![f] = now + DedupTTL]
        /\ opens' = opens \union {new}
        /\ task' = [task EXCEPT ![a].stage = "create", ![a].at = now]
        /\ incidents' = incidents
    BY <1>3 DEF AcquireDedupKey, postgres
  <2>2. \A w \in opens : w.at \in Nat
    BY DEF TypeOK, HistoryTypeOK, Row
  <2>3. \A w \in opens : w.key = f => w.at + DedupTTL <= now
    <3> SUFFICES ASSUME NEW w \in opens, w.key = f PROVE w.at + DedupTTL <= now
      OBVIOUS
    <3>1. w.at + DedupTTL <= dedup[f]
      BY <1>1 DEF DedupInv, KeyIsLatestExpiry
    <3>2. dedup[f] <= now
      BY <1>1, <1>3 DEF Held
    <3>3. QED
      BY <1>1, <2>2, <3>1, <3>2, TTLAssumption
  <2>4. new \notin opens
    BY <1>1, <2>3, TTLAssumption
  <2>5. /\ Holders' = Holders \union {a} /\ a \notin Holders
        /\ Granted(a)' = new
        /\ \A b \in Holders : Granted(b)' = Granted(b)
    BY <1>1, <2>1 DEF Holders, Granted, TypeOK, ProcessTypeOK, Task
  <2>6. KeyIsLatestExpiry'
    <3> SUFFICES ASSUME NEW g \in Fingerprints
                 PROVE  /\ \A w \in opens' : w.key = g => w.at + DedupTTL <= dedup'[g]
                        /\ \/ dedup'[g] = 0
                           \/ \E w \in opens' : w.key = g /\ w.at + DedupTTL = dedup'[g]
      BY DEF KeyIsLatestExpiry
    <3>1. CASE g = f
      <4>1. dedup'[f] = now + DedupTTL
        BY <1>1, <2>1 DEF TypeOK, RedisTypeOK
      <4>2. \A w \in opens : w.key = f => w.at + DedupTTL <= now + DedupTTL
        BY <1>1, <2>2, <2>3, TTLAssumption
      <4>3. new.key = f /\ new.at + DedupTTL <= now + DedupTTL
            /\ new.at + DedupTTL = now + DedupTTL /\ new \in opens'
        BY <1>1, <2>1, TTLAssumption
      <4>4. QED
        BY <2>1, <3>1, <4>1, <4>2, <4>3
    <3>2. CASE g # f
      <4>1. dedup'[g] = dedup[g]
        BY <2>1, <3>2 DEF TypeOK, RedisTypeOK
      <4>2. QED
        BY <2>1, <3>2, <4>1 DEF DedupInv, KeyIsLatestExpiry
    <3>3. QED
      BY <3>1, <3>2
  <2>7. OpeningsAreOwnedOnce'
    BY <2>1, <2>4, <2>5 DEF DedupInv, OpeningsAreOwnedOnce
  <2>8. Window!Spacing'
    <3>1. ASSUME NEW v \in opens, NEW w \in opens, v.key = w.key, v # w
          PROVE  Window!Apart(v.at, w.at)
      BY <3>1 DEF DedupInv, Window!Spacing
    <3>2. ASSUME NEW w \in opens, w.key = f
          PROVE  Window!Apart(w.at, now) /\ Window!Apart(now, w.at)
      BY <2>3, <3>2 DEF Window!Apart
    <3>3. QED
      BY <2>1, <3>1, <3>2 DEF Window!Spacing, Window!Apart
  <2>9. QED
    BY <2>6, <2>7, <2>8 DEF DedupInv
<1>4. QED
  BY <1>2, <1>3

(* Inserting the row passes the opening from the handler to the table.     *)
LEMMA CreateKeepsDedup ==
    ASSUME TypeOK, DedupInv, NEW a \in Alerters, CreateIncident(a)
    PROVE  DedupInv'
<1> DEFINE n == Len(incidents)
<1>1. /\ task[a].stage = "create" /\ a \in Holders
      /\ incidents' = Append(incidents, Granted(a))
      /\ UNCHANGED <<opens, dedup>>
  BY DEF CreateIncident, Holders, Granted, redis
<1>2. /\ n \in Nat /\ Len(incidents') = n + 1
      /\ incidents'[n + 1] = Granted(a)
      /\ \A i \in 1..n : incidents'[i] = incidents[i]
  BY <1>1 DEF TypeOK, PostgresTypeOK
<1>3. /\ Holders' = Holders \ {a}
      /\ \A b \in Holders' : Granted(b)' = Granted(b)
  BY <1>1 DEF CreateIncident, Holders, Granted, TypeOK, ProcessTypeOK, Task
<1>4. KeyIsLatestExpiry' /\ Window!Spacing'
  BY <1>1 DEF DedupInv, KeyIsLatestExpiry, Window!Spacing, Window!Apart
<1>5. 1..Len(incidents') = (1..n) \union {n + 1} /\ n + 1 \notin 1..n
  BY <1>2
<1>6. OpeningsAreOwnedOnce'
  <2>1. \A i \in 1..Len(incidents') : incidents'[i] \in opens'
    BY <1>1, <1>2, <1>5 DEF DedupInv, OpeningsAreOwnedOnce
  <2>2. \A b \in Holders' : Granted(b)' \in opens'
    BY <1>1, <1>3 DEF DedupInv, OpeningsAreOwnedOnce
  <2>3. \A i, j \in 1..Len(incidents') : i # j => incidents'[i] # incidents'[j]
    BY <1>1, <1>2, <1>5 DEF DedupInv, OpeningsAreOwnedOnce
  <2>4. \A i \in 1..Len(incidents'), b \in Holders' : incidents'[i] # Granted(b)'
    BY <1>1, <1>2, <1>3, <1>5 DEF DedupInv, OpeningsAreOwnedOnce
  <2>5. \A b, c \in Holders' : b # c => Granted(b)' # Granted(c)'
    BY <1>3 DEF DedupInv, OpeningsAreOwnedOnce
  <2>6. QED
    BY <2>1, <2>2, <2>3, <2>4, <2>5 DEF OpeningsAreOwnedOnce
<1>7. QED
  BY <1>4, <1>6 DEF DedupInv

(* The inductive invariant of deduplication.                               *)
THEOREM DedupInvariant == Spec => []DedupInv
<1>1. Init => DedupInv
  <2> SUFFICES ASSUME Init PROVE DedupInv
    OBVIOUS
  <2>1. /\ opens = {} /\ incidents = <<>> /\ Holders = {}
        /\ \A f \in Fingerprints : dedup[f] = 0
    BY DEF Init, Holders, Idle
  <2>2. QED
    BY <2>1 DEF DedupInv, KeyIsLatestExpiry, OpeningsAreOwnedOnce, Window!Spacing
<1>2. TypeOK /\ DedupInv /\ [Next]_vars => DedupInv'
  <2> SUFFICES ASSUME TypeOK, DedupInv, [Next]_vars PROVE DedupInv'
    OBVIOUS
  <2>1. ASSUME NEW a \in Alerters, AcquireDedupKey(a) PROVE DedupInv'
    BY <2>1, AcquireKeepsDedup
  <2>2. ASSUME NEW a \in Alerters, CreateIncident(a) PROVE DedupInv'
    BY <2>2, CreateKeepsDedup
  <2>3. CASE Quiet
    BY <2>3, QuietKeepsDedup
  <2>4. QED
    BY <2>1, <2>2, <2>3, EnvironmentIsQuiet, OtherHandlersAreQuiet
       DEF Next, Handler, Rest
<1>3. QED
  BY <1>1, <1>2, TypeCorrect, PTL DEF Spec

(* Two incidents of one fingerprint were opened at least DedupTTL apart:   *)
(* no crash, redelivery, rebalance or parallel handling duplicates one.    *)
THEOREM NoDuplicateIncidents == Spec => []IncidentsAreSpaced
<1>1. DedupInv => IncidentsAreSpaced
  BY DEF DedupInv, OpeningsAreOwnedOnce, Window!Spacing, Window!Apart,
         IncidentsAreSpaced
<1>2. QED
  BY <1>1, DedupInvariant, PTL

(* Every step of the alerter is a step of the abstract window or leaves it *)
(* alone: SET NX EX grants and refuses exactly as it prescribes.           *)
THEOREM Implementation == Spec => ImplementsDedupWindow
<1>1. Init => Window!Init
  BY DEF Init, Window!Init
<1>2. TypeOK /\ DedupInv /\ [Next]_vars => [Window!Next]_Window!vars
  <2> SUFFICES ASSUME TypeOK, DedupInv, [Next]_vars
               PROVE  [Window!Next]_Window!vars
    OBVIOUS
  <2> USE DEF postgres, redis
  <2>1. CASE Tick
    BY <2>1 DEF Tick, Window!Next, Window!ReadClock, TypeOK, ProcessTypeOK
  <2>2. ASSUME NEW a \in Alerters, AcquireDedupKey(a)
        PROVE  Window!Next
    <3> DEFINE f == task[a].fp
    <3>1. f \in Fingerprints
      BY <2>2 DEF AcquireDedupKey, TypeOK, LocalsOK
    <3>2. Held(f) <=> Window!Covered(f, now)
      BY <3>1, HeldIffCovered DEF DedupInv
    <3>3. Window!Open(f) \/ Window!Drop(f)
      BY <2>2, <3>2 DEF AcquireDedupKey, Window!Open, Window!Drop
    <3>4. QED
      BY <3>1, <3>3 DEF Window!Next
  <2>3. ASSUME NEW a \in Alerters, Handler(a), ~AcquireDedupKey(a)
        PROVE  UNCHANGED Window!vars
    BY <2>3 DEF Handler, EachMessage, GetCached, FindCheck, GetCheck, RecordHeartbeatAndEvaluate,
                ShouldSuppressNetworkFailure, CreateIncident, WriteNote,
                RaiseAlert, Dispatch, AllSettled, Window!vars
  <2>4. ASSUME NEW a \in Alerters, HandlerThrows(a) \/ Crash(a)
        PROVE  UNCHANGED Window!vars
    BY <2>4 DEF HandlerThrows, Crash, Window!vars
  <2>5. ASSUME \/ \E r \in Results : Produce(r)
               \/ \E c \in Checks, t \in TagChoices : SaveCheck(c, t)
               \/ \E p \in Partitions, a \in Alerters : Assign(p, a)
               \/ \E p \in Partitions : Revoke(p) \/ Commit(p)
               \/ UNCHANGED vars
        PROVE  UNCHANGED Window!vars
    BY <2>5 DEF Produce, SaveCheck, Assign, Revoke, Commit, vars, Window!vars
  <2>6. QED
    BY <2>1, <2>2, <2>3, <2>4, <2>5 DEF Next, Rest
<1>3. QED
  BY <1>1, <1>2, TypeCorrect, DedupInvariant, PTL
     DEF Spec, ImplementsDedupWindow, Window!Spec

----------------------------------------------------------------------------
(* Offsets.                                                                *)

(* Steps that touch neither offsets nor the message in hand.               *)
LEMMA OffsetsUntouched ==
    ASSUME OffsetInv, UNCHANGED <<committed, position, dirty, handled>>,
           \A p \in Partitions : owner'[p] \in {owner[p], Nobody},
           \A a \in Alerters : \/ task'[a].stage = "idle"
                              \/ /\ task[a].stage # "idle"
                                 /\ task'[a].part = task[a].part
                                 /\ task'[a].off = task[a].off,
           TypeOK, TypeOK'
    PROVE  OffsetInv'
<1>1. ASSUME NEW p \in Partitions, owner'[p] # Nobody, committed'[p] # NoOffset
      PROVE  /\ committed'[p] <= position'[p]
             /\ dirty'[p] => committed'[p] < position'[p]
             /\ \A o \in committed'[p]..(position'[p] - 1) : <<p, o>> \in handled'
  BY <1>1 DEF OffsetInv
<1>2. ASSUME NEW a \in Alerters, task'[a].stage # "idle",
             owner'[task'[a].part] = a
      PROVE  task'[a].off = position'[task'[a].part]
  <2>1. task'[a].part = task[a].part /\ task[a].part \in Partitions
    BY <1>2 DEF TypeOK, LocalsOK
  <2>2. owner[task[a].part] = a
    BY <1>2, <2>1, DistinctAssumption
  <2>3. QED
    BY <1>2, <2>1, <2>2 DEF OffsetInv
<1>3. QED
  BY <1>1, <1>2 DEF OffsetInv

(* The handler returns: the owner's position passes the offset just done.  *)
LEMMA ReturnKeepsOffsets ==
    ASSUME OffsetInv, TypeOK, TypeOK', NEW a \in Alerters,
           task[a].stage # "idle", Return(a), UNCHANGED broker
    PROVE  OffsetInv'
<1> DEFINE p == task[a].part
           o == task[a].off
<1>1. /\ p \in Partitions /\ o \in Nat /\ handled' = handled \union {<<p, o>>}
      /\ task' = [task EXCEPT ![a] = Idle] /\ UNCHANGED <<committed, owner>>
  BY DEF Return, TypeOK, LocalsOK, ProcessTypeOK, Task, broker
<1>2. /\ task'[a].stage = "idle"
      /\ \A b \in Alerters : b # a => task'[b] = task[b]
  BY <1>1 DEF TypeOK, ProcessTypeOK, Idle
<1>3. CASE owner[p] # a
  <2>1. UNCHANGED <<position, dirty>>
    BY <1>3 DEF Return
  <2>2. QED
    BY <1>1, <1>2, <2>1 DEF OffsetInv
<1>4. CASE owner[p] = a
  <2>1. /\ position' = [position EXCEPT ![p] = o + 1]
        /\ dirty' = [dirty EXCEPT ![p] = TRUE]
    BY <1>4 DEF Return
  <2>2. o = position[p] /\ position'[p] = o + 1
    BY <1>1, <1>4, <2>1 DEF OffsetInv, TypeOK, BrokerTypeOK
  <2>3. ASSUME NEW q \in Partitions, owner'[q] # Nobody, committed'[q] # NoOffset
        PROVE  /\ committed'[q] <= position'[q]
               /\ dirty'[q] => committed'[q] < position'[q]
               /\ \A i \in committed'[q]..(position'[q] - 1) : <<q, i>> \in handled'
    <3>1. CASE q = p
      <4>1. /\ committed[p] \in Nat /\ committed[p] <= o
            /\ \A i \in committed[p]..(o - 1) : <<p, i>> \in handled
        BY <1>1, <2>2, <2>3, <3>1 DEF OffsetInv, TypeOK, BrokerTypeOK
      <4>2. committed[p]..((o + 1) - 1) = (committed[p]..(o - 1)) \union {o}
        BY <1>1, <4>1
      <4>3. QED
        BY <1>1, <2>2, <3>1, <4>1, <4>2
    <3>2. CASE q # p
      <4>1. position'[q] = position[q] /\ dirty'[q] = dirty[q]
        BY <2>1, <3>2 DEF TypeOK, BrokerTypeOK
      <4>2. QED
        BY <1>1, <2>3, <4>1 DEF OffsetInv
    <3>3. QED
      BY <3>1, <3>2
  <2>4. ASSUME NEW b \in Alerters, task'[b].stage # "idle",
               owner'[task'[b].part] = b
        PROVE  task'[b].off = position'[task'[b].part]
    <3>1. b # a /\ task'[b] = task[b] /\ task[b].part \in Partitions
      BY <1>2, <2>4 DEF TypeOK, LocalsOK
    <3>2. task[b].part # p
      BY <1>1, <1>4, <2>4, <3>1
    <3>3. position'[task[b].part] = position[task[b].part]
      BY <2>1, <3>1, <3>2 DEF TypeOK, BrokerTypeOK
    <3>4. QED
      BY <1>1, <2>4, <3>1, <3>3 DEF OffsetInv
  <2>5. QED
    BY <2>3, <2>4 DEF OffsetInv
<1>5. QED
  BY <1>3, <1>4

(* Taking the next message puts the owner to work on its position.         *)
LEMMA EachMessageKeepsOffsets ==
    ASSUME OffsetInv, TypeOK, NEW a \in Alerters, NEW p \in Partitions,
           EachMessage(a, p)
    PROVE  OffsetInv'
<1>1. /\ UNCHANGED <<committed, owner, position, dirty, handled>>
      /\ task'[a].part = p /\ task'[a].off = position[p]
      /\ \A b \in Alerters : b # a => task'[b] = task[b]
  BY DEF EachMessage, broker, progress, TypeOK, ProcessTypeOK, Idle
<1>2. \A b \in Alerters :
        task'[b].stage # "idle" /\ owner[task'[b].part] = b
            => task'[b].off = position[task'[b].part]
  BY <1>1 DEF OffsetInv
<1>3. QED
  BY <1>1, <1>2 DEF OffsetInv

(* A handler moving from one await to the next touches no offset.          *)
LEMMA MovingKeepsOffsets ==
    ASSUME OffsetInv, TypeOK, TypeOK', NEW a \in Alerters, UNCHANGED broker,
           UNCHANGED progress, task[a].stage # "idle",
           \A b \in Alerters : b # a => task'[b] = task[b],
           task'[a].part = task[a].part, task'[a].off = task[a].off
    PROVE  OffsetInv'
<1>1. UNCHANGED <<committed, owner, position, dirty, handled>>
  BY DEF broker, progress
<1>2. QED
  BY <1>1, OffsetsUntouched

LEMMA HandlerKeepsOffsets ==
    ASSUME OffsetInv, TypeOK, TypeOK', NEW a \in Alerters, Handler(a)
    PROVE  OffsetInv'
<1>1. ASSUME NEW p \in Partitions, EachMessage(a, p) PROVE OffsetInv'
  BY <1>1, EachMessageKeepsOffsets
<1>2. CASE ~\E p \in Partitions : EachMessage(a, p)
  <2> DEFINE Moved == /\ \A b \in Alerters : b # a => task'[b] = task[b]
                      /\ task'[a].part = task[a].part
                      /\ task'[a].off = task[a].off
  <2>1. task[a].stage # "idle" /\ UNCHANGED broker
    BY <1>2 DEF Handler, GetCached, FindCheck, GetCheck, RecordHeartbeatAndEvaluate,
                ShouldSuppressNetworkFailure, AcquireDedupKey, CreateIncident,
                WriteNote, RaiseAlert, Dispatch, AllSettled
  <2>2. CASE Return(a)
    BY <2>1, <2>2, ReturnKeepsOffsets
  <2>3. CASE ~Return(a)
    <3> SUFFICES Moved /\ UNCHANGED progress
      BY <2>1, MovingKeepsOffsets
    <3> USE <2>3 DEF TypeOK, ProcessTypeOK, Task
    <3>1. CASE GetCached(a) \/ FindCheck(a) \/ GetCheck(a)
      BY <3>1 DEF GetCached, FindCheck, GetCheck
    <3>2. CASE RecordHeartbeatAndEvaluate(a) \/ ShouldSuppressNetworkFailure(a)
      BY <3>2 DEF RecordHeartbeatAndEvaluate, ShouldSuppressNetworkFailure, Step
    <3>3. CASE AcquireDedupKey(a) \/ CreateIncident(a)
      BY <3>3 DEF AcquireDedupKey, CreateIncident
    <3>4. CASE WriteNote(a) \/ RaiseAlert(a) \/ Dispatch(a)
      BY <3>4 DEF WriteNote, RaiseAlert, Dispatch, Step
    <3>5. QED
      BY <1>2, <3>1, <3>2, <3>3, <3>4 DEF Handler, AllSettled
  <2>4. QED
    BY <2>2, <2>3
<1>3. QED
  BY <1>1, <1>2

LEMMA EnvironmentKeepsOffsets ==
    ASSUME OffsetInv, TypeOK, TypeOK',
           \/ Tick
           \/ \E r \in Results : Produce(r)
           \/ \E c \in Checks, t \in TagChoices : SaveCheck(c, t)
           \/ \E p \in Partitions, a \in Alerters : Assign(p, a)
           \/ \E p \in Partitions : Revoke(p) \/ Commit(p)
           \/ \E a \in Alerters : HandlerThrows(a) \/ Crash(a)
           \/ UNCHANGED vars
    PROVE  OffsetInv'
<1>1. CASE \/ Tick \/ \E r \in Results : Produce(r)
           \/ \E c \in Checks, t \in TagChoices : SaveCheck(c, t)
           \/ UNCHANGED vars
  <2>1. UNCHANGED <<committed, owner, position, dirty, handled, task>>
    BY <1>1 DEF Tick, Produce, SaveCheck, vars, broker, progress
  <2>2. QED
    BY <2>1 DEF OffsetInv
<1>2. ASSUME NEW p \in Partitions, NEW a \in Alerters, Assign(p, a)
      PROVE  OffsetInv'
  <2>1. /\ owner' = [owner EXCEPT ![p] = a] /\ owner[p] = Nobody
        /\ task[a].stage = "idle" /\ UNCHANGED <<committed, handled, task>>
        /\ dirty' = [dirty EXCEPT ![p] = FALSE]
        /\ position' = [position EXCEPT ![p] =
                IF committed[p] = NoOffset THEN Len(log[p]) ELSE committed[p]]
    BY <1>2 DEF Assign
  <2>2. ASSUME NEW q \in Partitions, owner'[q] # Nobody, committed'[q] # NoOffset
        PROVE  /\ committed'[q] <= position'[q]
               /\ dirty'[q] => committed'[q] < position'[q]
               /\ \A o \in committed'[q]..(position'[q] - 1) : <<q, o>> \in handled'
    <3>1. CASE q = p
      BY <2>1, <2>2, <3>1 DEF TypeOK, BrokerTypeOK
    <3>2. CASE q # p
      <4>1. owner'[q] = owner[q] /\ dirty'[q] = dirty[q] /\ position'[q] = position[q]
        BY <2>1, <3>2 DEF TypeOK, BrokerTypeOK
      <4>2. QED
        BY <2>1, <2>2, <4>1 DEF OffsetInv
    <3>3. QED
      BY <3>1, <3>2
  <2>3. ASSUME NEW b \in Alerters, task'[b].stage # "idle",
               owner'[task'[b].part] = b
        PROVE  task'[b].off = position'[task'[b].part]
    <3>1. b # a /\ task[b].part \in Partitions
      BY <2>1, <2>3 DEF TypeOK, LocalsOK
    <3>2. task[b].part # p
      BY <2>1, <2>3, <3>1 DEF TypeOK, BrokerTypeOK
    <3>3. QED
      BY <2>1, <2>3, <3>1, <3>2 DEF OffsetInv, TypeOK, BrokerTypeOK
  <2>4. QED
    BY <2>2, <2>3 DEF OffsetInv
<1>3. ASSUME NEW p \in Partitions, Revoke(p) PROVE OffsetInv'
  <2>1. /\ UNCHANGED <<committed, position, dirty, handled, task>>
        /\ \A q \in Partitions : owner'[q] \in {owner[q], Nobody}
    BY <1>3 DEF Revoke, progress, TypeOK, BrokerTypeOK
  <2>2. QED
    BY <2>1, OffsetsUntouched
<1>4. ASSUME NEW p \in Partitions, Commit(p) PROVE OffsetInv'
  <2>1. /\ committed' = [committed EXCEPT ![p] = position[p]]
        /\ dirty' = [dirty EXCEPT ![p] = FALSE]
        /\ UNCHANGED <<owner, position, handled, task>>
    BY <1>4 DEF Commit
  <2>2. ASSUME NEW q \in Partitions, owner'[q] # Nobody, committed'[q] # NoOffset
        PROVE  /\ committed'[q] <= position'[q]
               /\ dirty'[q] => committed'[q] < position'[q]
               /\ \A o \in committed'[q]..(position'[q] - 1) : <<q, o>> \in handled'
    <3>1. CASE q = p
      <4>1. committed'[p] = position[p] /\ ~dirty'[p] /\ position[p] \in Nat
        BY <2>1 DEF TypeOK, BrokerTypeOK
      <4>2. QED
        BY <2>1, <3>1, <4>1
    <3>2. CASE q # p
      <4>1. committed'[q] = committed[q] /\ dirty'[q] = dirty[q]
        BY <2>1, <3>2 DEF TypeOK, BrokerTypeOK
      <4>2. QED
        BY <2>1, <2>2, <4>1 DEF OffsetInv
    <3>3. QED
      BY <3>1, <3>2
  <2>3. QED
    BY <2>1, <2>2 DEF OffsetInv
<1>5. ASSUME NEW a \in Alerters, HandlerThrows(a) \/ Crash(a) PROVE OffsetInv'
  <2>1. /\ UNCHANGED <<committed, position, dirty, handled>>
        /\ \A q \in Partitions : owner'[q] \in {owner[q], Nobody}
        /\ task'[a].stage = "idle" /\ \A b \in Alerters : b # a => task'[b] = task[b]
    BY <1>5 DEF HandlerThrows, Crash, broker, progress, TypeOK, BrokerTypeOK,
                ProcessTypeOK, Idle
  <2>2. QED
    BY <2>1, OffsetsUntouched
<1>6. QED
  BY <1>1, <1>2, <1>3, <1>4, <1>5

(* The inductive invariant of the consumer's offsets.                      *)
THEOREM OffsetInvariant == Spec => []OffsetInv
<1>1. Init => OffsetInv
  BY DEF Init, OffsetInv, Idle
<1>2. TypeOK /\ TypeOK' /\ OffsetInv /\ [Next]_vars => OffsetInv'
  BY EnvironmentKeepsOffsets, HandlerKeepsOffsets DEF Next, Rest
<1>3. QED
  BY <1>1, <1>2, TypeCorrect, PTL DEF Spec

(* A commit moves the group's offset forward over handled results only.    *)
THEOREM CommitsCoverHandled == Spec => CommitsCoverHandledResults
<1> DEFINE Covers ==
        \A p \in Partitions :
            committed[p] # NoOffset /\ committed'[p] # committed[p] =>
                /\ committed[p] < committed'[p]
                /\ \A o \in committed[p]..(committed'[p] - 1) : <<p, o>> \in handled'
<1>1. TypeOK /\ OffsetInv /\ [Next]_vars => Covers
  <2> SUFFICES ASSUME TypeOK, OffsetInv, [Next]_vars PROVE Covers
    OBVIOUS
  <2>1. ASSUME NEW p \in Partitions, Commit(p) PROVE Covers
    <3>1. /\ committed' = [committed EXCEPT ![p] = position[p]]
          /\ dirty[p] /\ owner[p] # Nobody /\ handled' = handled
      BY <2>1 DEF Commit
    <3>2. \A q \in Partitions : q # p => committed'[q] = committed[q]
      BY <3>1 DEF TypeOK, BrokerTypeOK
    <3>3. committed'[p] = position[p]
      BY <3>1 DEF TypeOK, BrokerTypeOK
    <3>4. QED
      BY <3>1, <3>2, <3>3 DEF OffsetInv
  <2>2. CASE UNCHANGED committed
    BY <2>2
  <2>3. QED
    BY <2>1, <2>2
       DEF Next, Rest, Tick, Produce, SaveCheck, Assign, Revoke, Handler, broker,
           EachMessage, GetCached, FindCheck, GetCheck, RecordHeartbeatAndEvaluate,
           ShouldSuppressNetworkFailure, AcquireDedupKey, CreateIncident,
           WriteNote, RaiseAlert, Dispatch, AllSettled, HandlerThrows, Crash, vars
<1>2. QED
  BY <1>1, TypeCorrect, OffsetInvariant, PTL DEF Spec, CommitsCoverHandledResults

----------------------------------------------------------------------------
(* Heartbeats and vouching.                                                *)

(* Time never runs backwards.                                              *)
LEMMA ClockForward ==
    ASSUME TypeOK, [Next]_vars
    PROVE  now <= now'
<1>1. now \in Nat
  BY DEF TypeOK, ProcessTypeOK
<1>2. CASE now' = now
  BY <1>1, <1>2
<1>3. CASE now' = now + 1
  BY <1>1, <1>3
<1>4. QED
  BY <1>2, <1>3
    DEF Next, Rest, Tick, Produce, SaveCheck, Assign, Revoke, Commit, Handler,
       EachMessage, GetCached, FindCheck, GetCheck, RecordHeartbeatAndEvaluate,
       ShouldSuppressNetworkFailure, AcquireDedupKey, CreateIncident, WriteNote,
       RaiseAlert, Dispatch, AllSettled, HandlerThrows, Crash, vars

(* Every key probe:baseline-ok:<region> was set by a heartbeat already     *)
(* seen, and expires HeartbeatTTL after it.                                *)
KeysComeFromBeats ==
    \A r \in Regions :
        heartbeat[r] = 0 \/ \E b \in beats : /\ b[1] = r /\ b[2] <= now
                                            /\ b[2] + HeartbeatTTL = heartbeat[r]

HeartbeatInv == KeysComeFromBeats /\ NetworkFailuresAreVouched

(* Steps that set no heartbeat and vouch for nothing, time included.       *)
LEMMA HeartbeatsUntouched ==
    ASSUME TypeOK, TypeOK', HeartbeatInv, now <= now',
           UNCHANGED <<heartbeat, beats, vouched>>
    PROVE  HeartbeatInv'
<1>1. now \in Nat /\ now' \in Nat /\ \A b \in beats : b[2] \in Nat
  BY DEF TypeOK, ProcessTypeOK, HistoryTypeOK
<1>2. KeysComeFromBeats'
  BY <1>1 DEF HeartbeatInv, KeysComeFromBeats
<1>3. NetworkFailuresAreVouched'
  BY DEF HeartbeatInv, NetworkFailuresAreVouched
<1>4. QED
  BY <1>2, <1>3 DEF HeartbeatInv

(* A healthy baseline sample sets its region's key and records the beat.   *)
LEMMA RecordingKeepsHeartbeats ==
    ASSUME TypeOK, TypeOK', HeartbeatInv, NEW a \in Alerters,
           RecordHeartbeatAndEvaluate(a)
    PROVE  HeartbeatInv'
<1> DEFINE r == task[a].result.region
<1>1. r \in Regions /\ now \in Nat /\ UNCHANGED <<now, vouched>>
  BY DEF RecordHeartbeatAndEvaluate, TypeOK, LocalsOK, ProcessTypeOK, Results
<1>2. CASE UNCHANGED <<heartbeat, beats>>
  BY <1>1, <1>2, HeartbeatsUntouched
<1>3. CASE /\ heartbeat' = [heartbeat EXCEPT ![r] = now + HeartbeatTTL]
           /\ beats' = beats \union {<<r, now>>}
  <2>1. ASSUME NEW q \in Regions, heartbeat'[q] # 0
        PROVE  \E b \in beats' : /\ b[1] = q /\ b[2] <= now'
                                 /\ b[2] + HeartbeatTTL = heartbeat'[q]
    <3>1. CASE q = r
      <4>1. heartbeat'[r] = now + HeartbeatTTL
        BY <1>1, <1>3 DEF TypeOK, RedisTypeOK
      <4>2. <<r, now>> \in beats' /\ <<r, now>>[1] = r /\ <<r, now>>[2] = now
        BY <1>3
      <4>3. QED
        BY <1>1, <3>1, <4>1, <4>2
    <3>2. CASE q # r
      <4>1. heartbeat'[q] = heartbeat[q]
        BY <1>3, <3>2 DEF TypeOK, RedisTypeOK
      <4>2. QED
        BY <1>1, <1>3, <2>1, <4>1 DEF HeartbeatInv, KeysComeFromBeats
    <3>3. QED
      BY <3>1, <3>2
  <2>2. KeysComeFromBeats'
    BY <2>1 DEF KeysComeFromBeats
  <2>3. NetworkFailuresAreVouched'
    BY <1>1, <1>3 DEF HeartbeatInv, NetworkFailuresAreVouched
  <2>4. QED
    BY <2>2, <2>3 DEF HeartbeatInv
<1>4. QED
  BY <1>2, <1>3 DEF RecordHeartbeatAndEvaluate

(* A failure let through while the key lives is vouched for by its beat.   *)
LEMMA VouchingKeepsHeartbeats ==
    ASSUME TypeOK, TypeOK', HeartbeatInv, NEW a \in Alerters,
           ShouldSuppressNetworkFailure(a)
    PROVE  HeartbeatInv'
<1> DEFINE r == task[a].result.region
           v == <<r, now>>
<1>1. /\ r \in Regions /\ now \in Nat /\ heartbeat[r] \in Nat
      /\ UNCHANGED <<now, heartbeat, beats>>
  BY DEF ShouldSuppressNetworkFailure, TypeOK, LocalsOK, ProcessTypeOK,
         RedisTypeOK, Results
<1>2. CASE UNCHANGED vouched
  BY <1>1, <1>2, HeartbeatsUntouched
<1>3. CASE now < heartbeat[r] /\ vouched' = vouched \union {v}
  <2>1. PICK b \in beats : b[1] = r /\ b[2] <= now /\ b[2] + HeartbeatTTL = heartbeat[r]
    BY <1>1, <1>3 DEF HeartbeatInv, KeysComeFromBeats
  <2>2. b[1] = v[1] /\ b[2] <= v[2] /\ v[2] < b[2] + HeartbeatTTL
    BY <1>3, <2>1
  <2>3. NetworkFailuresAreVouched'
    BY <1>1, <1>3, <2>2 DEF HeartbeatInv, NetworkFailuresAreVouched
  <2>4. KeysComeFromBeats'
    BY <1>1 DEF HeartbeatInv, KeysComeFromBeats
  <2>5. QED
    BY <2>3, <2>4 DEF HeartbeatInv
<1>4. QED
  BY <1>2, <1>3 DEF ShouldSuppressNetworkFailure

(* No failure that looks like the probe's own network is let through       *)
(* unless a baseline check of that region was healthy less than            *)
(* HeartbeatTTL before, whatever is lost, repeated or reordered meanwhile. *)
THEOREM Vouching == Spec => []NetworkFailuresAreVouched
<1>1. Init => HeartbeatInv
  BY DEF Init, HeartbeatInv, KeysComeFromBeats, NetworkFailuresAreVouched
<1>2. TypeOK /\ TypeOK' /\ HeartbeatInv /\ [Next]_vars => HeartbeatInv'
  <2> SUFFICES ASSUME TypeOK, TypeOK', HeartbeatInv, [Next]_vars
               PROVE  HeartbeatInv'
    OBVIOUS
  <2>1. ASSUME NEW a \in Alerters, RecordHeartbeatAndEvaluate(a)
        PROVE  HeartbeatInv'
    BY <2>1, RecordingKeepsHeartbeats
  <2>2. ASSUME NEW a \in Alerters, ShouldSuppressNetworkFailure(a)
        PROVE  HeartbeatInv'
    BY <2>2, VouchingKeepsHeartbeats
  <2>3. CASE UNCHANGED <<heartbeat, beats, vouched>>
    BY <2>3, ClockForward, HeartbeatsUntouched
  <2>4. QED
    BY <2>1, <2>2, <2>3
       DEF Next, Rest, Tick, Produce, SaveCheck, Assign, Revoke, Commit, Handler,
           EachMessage, GetCached, FindCheck, GetCheck, AcquireDedupKey, CreateIncident, WriteNote,
           RaiseAlert, Dispatch, AllSettled, HandlerThrows, Crash, vars, redis
<1>3. HeartbeatInv => NetworkFailuresAreVouched
  BY DEF HeartbeatInv
<1>4. QED
  BY <1>1, <1>2, <1>3, TypeCorrect, PTL DEF Spec

----------------------------------------------------------------------------
(* The cache of checks.                                                    *)

(* Tags that were read of c at some time in the past still are the row's,  *)
(* or the row has been saved since.                                        *)
Seen(c, tags, read) ==
    read <= now /\ (tags = checkRow[c] \/ read <= savedAt[c])

(* Every process's cache holds what was read so, and so does a handler     *)
(* between the query's answer and the cache.                               *)
CacheInv ==
    /\ \A a \in Alerters, c \in Checks :
          cache[a][c].tags # NoRow => Seen(c, cache[a][c].tags, cache[a][c].read)
    /\ \A a \in Alerters :
          task[a].stage = "found" => Seen(task[a].result.check, task[a].tags, task[a].read)

(* Saving a row makes what was read of it older than the save; nothing else*)
(* touches what was read.                                                  *)
LEMMA SeenStays ==
    ASSUME TypeOK, [Next]_vars, NEW c \in Checks, NEW tags, NEW read \in Nat,
           Seen(c, tags, read)
    PROVE  Seen(c, tags, read)'
<1>1. now \in Nat /\ now' \in Nat /\ now <= now'
  <2>1. now' = now \/ now' = now + 1
    BY DEF Next, Rest, Tick, Produce, SaveCheck, Assign, Revoke, Commit, Handler,
           EachMessage, GetCached, FindCheck, GetCheck, RecordHeartbeatAndEvaluate,
           ShouldSuppressNetworkFailure, AcquireDedupKey, CreateIncident, WriteNote,
           RaiseAlert, Dispatch, AllSettled, HandlerThrows, Crash, vars
  <2>2. QED
    BY <2>1 DEF TypeOK, ProcessTypeOK
<1>2. ASSUME NEW d \in Checks, NEW t \in TagChoices, SaveCheck(d, t)
      PROVE  Seen(c, tags, read)'
  <2>1. /\ checkRow' = [checkRow EXCEPT ![d] = t]
        /\ savedAt' = [savedAt EXCEPT ![d] = now]
    BY <1>2 DEF SaveCheck
  <2>2. CASE c = d
    BY <1>1, <2>1, <2>2 DEF Seen, TypeOK, HistoryTypeOK
  <2>3. CASE c # d
    BY <1>1, <2>1, <2>3 DEF Seen, TypeOK, HistoryTypeOK, PostgresTypeOK
  <2>4. QED
    BY <2>2, <2>3
<1>3. CASE UNCHANGED <<checkRow, savedAt>>
  BY <1>1, <1>3 DEF Seen
<1>4. QED
  BY <1>2, <1>3
     DEF Next, Rest, Tick, Produce, Assign, Revoke, Commit, Handler, EachMessage,
         GetCached, FindCheck, GetCheck, RecordHeartbeatAndEvaluate,
         ShouldSuppressNetworkFailure, AcquireDedupKey, CreateIncident, WriteNote,
         RaiseAlert, Dispatch, AllSettled, HandlerThrows, Crash, vars, postgres

(* What a step leaves in a cache was there before, or a handler brought it *)
(* from its query.                                                         *)
LEMMA CacheGrowsByAnswers ==
    ASSUME TypeOK, [Next]_vars, NEW a \in Alerters, NEW c \in Checks,
           cache'[a][c].tags # NoRow
    PROVE  \/ cache'[a][c] = cache[a][c]
           \/ /\ task[a].stage = "found" /\ task[a].result.check = c
              /\ cache'[a][c].tags = task[a].tags /\ cache'[a][c].read = task[a].read
<1> USE DEF TypeOK, ProcessTypeOK
<1>1. CASE UNCHANGED cache
  BY <1>1
<1>2. ASSUME NEW b \in Alerters, GetCheck(b)
      PROVE  \/ cache'[a][c] = cache[a][c]
             \/ /\ task[a].stage = "found" /\ task[a].result.check = c
                /\ cache'[a][c].tags = task[a].tags /\ cache'[a][c].read = task[a].read
  <2> DEFINE d == task[b].result.check
             entry == [tags |-> task[b].tags, at |-> now, read |-> task[b].read]
  <2>1. d \in Checks /\ task[b].stage = "found"
    BY <1>2 DEF GetCheck, LocalsOK, Results
  <2>2. UNCHANGED cache \/ cache' = [cache EXCEPT ![b][d] = entry]
    BY <1>2 DEF GetCheck
  <2>3. entry.tags = task[b].tags /\ entry.read = task[b].read
    OBVIOUS
  <2> HIDE DEF entry, d
  <2>4. cache'[a][c] = cache[a][c] \/ (a = b /\ c = d /\ cache'[a][c] = entry)
    BY <2>1, <2>2
  <2>5. QED
    BY <2>1, <2>3, <2>4 DEF d
<1>3. ASSUME NEW b \in Alerters, Crash(b) PROVE cache'[a][c] = cache[a][c]
  BY <1>3 DEF Crash, NoEntry
<1>4. QED
  BY <1>1, <1>2, <1>3
     DEF Next, Rest, Tick, Produce, SaveCheck, Assign, Revoke, Commit, Handler,
         EachMessage, GetCached, FindCheck, RecordHeartbeatAndEvaluate,
         ShouldSuppressNetworkFailure, AcquireDedupKey, CreateIncident, WriteNote,
         RaiseAlert, Dispatch, AllSettled, HandlerThrows, vars

(* A handler waits for an answer, or it has just come.                     *)
LEMMA AnswersAreFound ==
    ASSUME TypeOK, [Next]_vars, NEW a \in Alerters, task'[a].stage = "found"
    PROVE  \/ task'[a] = task[a]
           \/ /\ task[a].result.check \in Checks /\ task'[a].result = task[a].result
              /\ task'[a].tags = checkRow[task[a].result.check]
              /\ task'[a].read = now /\ UNCHANGED <<now, checkRow, savedAt>>
<1> USE DEF TypeOK, ProcessTypeOK
<1>1. ASSUME NEW b \in Alerters, b # a, Handler(b) \/ HandlerThrows(b) \/ Crash(b)
      PROVE  task'[a] = task[a]
  BY <1>1 DEF Handler, HandlerThrows, Crash, EachMessage, GetCached, FindCheck, GetCheck,
              RecordHeartbeatAndEvaluate, ShouldSuppressNetworkFailure, AcquireDedupKey,
              CreateIncident, WriteNote, RaiseAlert, Dispatch, AllSettled, Return, Step
<1>2. CASE HandlerThrows(a) \/ Crash(a)
  BY <1>2 DEF HandlerThrows, Crash, Idle
<1>3. CASE UNCHANGED task
  BY <1>3
<1>4. CASE FindCheck(a)
  <2>1. task[a].result.check \in Checks /\ task[a] \in Task
    BY <1>4 DEF FindCheck, LocalsOK, Results
  <2>2. QED
    BY <1>4, <2>1 DEF FindCheck, Task, postgres
<1>5. CASE Handler(a) /\ ~FindCheck(a)
  <2>1. task[a] \in Task /\ (Return(a) => task'[a].stage = "idle")
    BY DEF Return, Idle
  <2>2. ASSUME NEW p \in Partitions, EachMessage(a, p) PROVE task'[a].stage = "load"
    BY <2>2 DEF EachMessage, Idle
  <2>3. CASE GetCached(a) \/ GetCheck(a) \/ RecordHeartbeatAndEvaluate(a)
    BY <2>1, <2>3 DEF GetCached, GetCheck, RecordHeartbeatAndEvaluate, Task
  <2>4. CASE ShouldSuppressNetworkFailure(a) \/ AcquireDedupKey(a) \/ CreateIncident(a)
    BY <2>1, <2>4 DEF ShouldSuppressNetworkFailure, AcquireDedupKey, CreateIncident, Step, Task
  <2>5. CASE WriteNote(a) \/ RaiseAlert(a) \/ Dispatch(a) \/ AllSettled(a)
    BY <2>1, <2>5 DEF WriteNote, RaiseAlert, Dispatch, AllSettled, Step, Task
  <2>6. QED
    BY <1>5, <2>2, <2>3, <2>4, <2>5 DEF Handler
<1>6. QED
  BY <1>1, <1>2, <1>3, <1>4, <1>5
     DEF Next, Rest, Tick, Produce, SaveCheck, Assign, Revoke, Commit, vars

THEOREM CacheInvariant == Spec => []CacheInv
<1>1. Init => CacheInv
  BY DEF Init, CacheInv, NoEntry, Idle
<1>2. TypeOK /\ CacheInv /\ [Next]_vars => CacheInv'
  <2> SUFFICES ASSUME TypeOK, CacheInv, [Next]_vars
               PROVE  CacheInv'
    OBVIOUS
  <2>1. ASSUME NEW a \in Alerters, NEW c \in Checks, cache'[a][c].tags # NoRow
        PROVE  Seen(c, cache[a][c].tags, cache[a][c].read)'
    <3>1. cache[a][c].read \in Nat /\ task[a].read \in Nat
      BY DEF TypeOK, ProcessTypeOK, Entries, Task
    <3>2. PICK tags, read :
            /\ cache'[a][c].tags = tags /\ cache'[a][c].read = read
            /\ read \in Nat /\ Seen(c, tags, read)
      BY <2>1, <3>1, CacheGrowsByAnswers DEF CacheInv
    <3>3. Seen(c, tags, read)'
      BY <3>2, SeenStays
    <3>4. QED
      BY <3>2, <3>3 DEF Seen
  <2>2. ASSUME NEW a \in Alerters, task'[a].stage = "found"
        PROVE  Seen(task[a].result.check, task[a].tags, task[a].read)'
    <3>1. CASE task'[a] = task[a]
      <4>1. PICK c, tags, read :
              task[a].result.check = c /\ task[a].tags = tags /\ task[a].read = read
        OBVIOUS
      <4>2. c \in Checks /\ read \in Nat
        BY <2>2, <3>1, <4>1 DEF TypeOK, ProcessTypeOK, LocalsOK, Task, Results
      <4>3. Seen(c, tags, read)
        BY <2>2, <3>1, <4>1 DEF CacheInv
      <4>4. Seen(c, tags, read)'
        BY <4>2, <4>3, SeenStays
      <4>5. QED
        BY <3>1, <4>1, <4>4 DEF Seen
    <3>2. CASE task'[a] # task[a]
      <4>1. /\ task'[a].tags = checkRow'[task'[a].result.check]
            /\ task'[a].read = now /\ now' = now
        BY <2>2, <3>2, AnswersAreFound
      <4>2. now \in Nat
        BY DEF TypeOK, ProcessTypeOK
      <4>3. QED
        BY <4>1, <4>2 DEF Seen
    <3>3. QED
      BY <3>1, <3>2
  <2>3. QED
    BY <2>1, <2>2 DEF CacheInv, Seen
<1>3. QED
  BY <1>1, <1>2, TypeCorrect, PTL DEF Spec

(* Whatever process handles a result, however often the row is saved and   *)
(* however long its query takes, the tags it goes by are the row's or out  *)
(* of date by no more than CacheTTL and the time of that query.            *)
THEOREM StaleTags == Spec => StaleTagsAreRecent
<1> DEFINE Recent(a) ==
        LET c == task[a].result.check
            entry == cache'[a][c]
        IN  task[a].stage \in {"load", "found"} /\ task'[a].stage = "heartbeat" =>
                \/ task'[a].tags = checkRow[c]
                \/ now - savedAt[c] <= CacheTTL + (entry.at - entry.read)
<1>1. TypeOK /\ TypeOK' /\ CacheInv /\ [Next]_vars => \A a \in Alerters : Recent(a)
  <2> SUFFICES ASSUME TypeOK, TypeOK', CacheInv, [Next]_vars, NEW a \in Alerters,
                      task[a].stage \in {"load", "found"}, task'[a].stage = "heartbeat"
               PROVE  Recent(a)
    OBVIOUS
  <2> DEFINE c == task[a].result.check
             e == cache'[a][c]
  <2>1. /\ c \in Checks /\ now \in Nat /\ savedAt[c] \in Nat /\ CacheTTL \in Nat
        /\ e.at \in Nat /\ e.read \in Nat
    BY TTLAssumption DEF TypeOK, LocalsOK, Results, ProcessTypeOK, HistoryTypeOK, Entries
  <2>2. GetCached(a) \/ (GetCheck(a) /\ ~Return(a))
    <3> USE DEF TypeOK, ProcessTypeOK
    <3>1. ASSUME NEW b \in Alerters, b # a,
                 Handler(b) \/ HandlerThrows(b) \/ Crash(b)
          PROVE  task'[a] = task[a]
      BY <3>1 DEF Handler, HandlerThrows, Crash, EachMessage, GetCached, FindCheck, GetCheck,
                  RecordHeartbeatAndEvaluate, ShouldSuppressNetworkFailure,
                  AcquireDedupKey, CreateIncident, WriteNote, RaiseAlert,
                  Dispatch, AllSettled, Return, Step
    <3>2. ~HandlerThrows(a) /\ ~Crash(a) /\ ~Return(a)
      BY DEF HandlerThrows, Crash, Return, Idle
    <3>3. task' # task /\ task'[a] # task[a]
      OBVIOUS
    <3>4. CASE Handler(a)
      <4>1. ~FindCheck(a)
        BY DEF FindCheck, Task
      <4>2. QED
        BY <3>2, <3>4, <4>1
           DEF Handler, EachMessage, RecordHeartbeatAndEvaluate,
               ShouldSuppressNetworkFailure, AcquireDedupKey, CreateIncident, WriteNote,
               RaiseAlert, Dispatch, AllSettled
    <3>5. QED
      BY <3>1, <3>2, <3>3, <3>4
         DEF Next, Rest, Tick, Produce, SaveCheck, Assign, Revoke, Commit, vars
  <2>3. CASE GetCached(a)
    <3>1. task'[a].tags = e.tags /\ now - e.at <= CacheTTL /\ e = cache[a][c] /\ e.tags # NoRow
      BY <2>3 DEF GetCached, Fresh, TypeOK, ProcessTypeOK, Task
    <3>2. e.tags = checkRow[c] \/ e.read <= savedAt[c]
      BY <2>1, <3>1 DEF CacheInv, Seen
    <3> HIDE DEF e, c
    <3>3. task'[a].tags = checkRow[c] \/ now - savedAt[c] <= CacheTTL + (e.at - e.read)
      BY <2>1, <3>1, <3>2
    <3>4. QED
      BY <3>3 DEF e, c
  <2>4. CASE GetCheck(a) /\ ~Return(a)
    <3>1. task'[a].tags = task[a].tags /\ task[a].stage = "found"
      BY <2>4 DEF GetCheck, TypeOK, ProcessTypeOK, Task
    <3>2. e = [tags |-> task[a].tags, at |-> now, read |-> task[a].read]
      BY <2>1, <2>4 DEF GetCheck, TypeOK, ProcessTypeOK
    <3>3. e.at = now /\ e.read = task[a].read
      BY <3>2
    <3>4. task[a].tags = checkRow[c] \/ e.read <= savedAt[c]
      BY <3>1, <3>3 DEF CacheInv, Seen
    <3> HIDE DEF e, c
    <3>5. task'[a].tags = checkRow[c] \/ now - savedAt[c] <= CacheTTL + (e.at - e.read)
      BY <2>1, <3>1, <3>3, <3>4
    <3>6. QED
      BY <3>5 DEF e, c
  <2>5. QED
    BY <2>2, <2>3, <2>4
<1>2. QED
  BY <1>1, TypeCorrect, CacheInvariant, PTL DEF Spec, StaleTagsAreRecent

----------------------------------------------------------------------------
(* From the opening of a window to the end of the delivery.                *)

(* Until a first fault, a row that has not been dispatched is in the hands *)
(* of a handler past its insertion: what DispatchedUnlessFailed rests on.  *)
Delivering == {"note", "raise", "dispatch", "settled"}

RowsAreInHand ==
    faults = 0 => \A i \in 1..Len(incidents) :
        \/ i \in dispatched
        \/ \E a \in Alerters : task[a].stage \in Delivering /\ task[a].inc = i

DeliveryInv == OpeningsBecomeIncidents /\ RowsAreInHand

(* The stages after which an opening or a row would be dropped if the      *)
(* handler stopped.                                                        *)
Busy(a) == task[a].stage \in Delivering \union {"create"}

LEMMA BusyTasksKept ==
    ASSUME DeliveryInv, UNCHANGED <<opens, incidents, dispatched, faults>>,
           \A a \in Alerters : Busy(a) =>
                /\ task'[a].fp = task[a].fp /\ task'[a].at = task[a].at
                /\ task'[a].inc = task[a].inc
                /\ task[a].stage = "create" => task'[a].stage = "create"
                /\ task[a].stage \in Delivering => task'[a].stage \in Delivering
    PROVE  DeliveryInv'
<1>1. OpeningsBecomeIncidents'
  BY DEF DeliveryInv, OpeningsBecomeIncidents, Busy
<1>2. RowsAreInHand'
  BY DEF DeliveryInv, RowsAreInHand, Busy
<1>3. QED
  BY <1>1, <1>2 DEF DeliveryInv

(* A handler that is not busy may go anywhere or stop.                     *)
LEMMA IdlersKeepDelivery ==
    ASSUME TypeOK, DeliveryInv, NEW a \in Alerters, ~Busy(a),
           \A b \in Alerters : b # a => task'[b] = task[b],
           UNCHANGED <<opens, incidents, dispatched, faults>>
    PROVE  DeliveryInv'
<1>1. \A b \in Alerters : Busy(b) => task'[b] = task[b]
  OBVIOUS
<1>2. QED
  BY <1>1, BusyTasksKept

(* From note to settled the handler keeps its incident.                    *)
LEMMA StepsKeepDelivery ==
    ASSUME TypeOK, DeliveryInv, NEW a \in Alerters, NEW s \in Delivering,
           task[a].stage \in Delivering, Step(a, s),
           UNCHANGED <<opens, incidents, dispatched, faults>>
    PROVE  DeliveryInv'
<1>1. /\ task'[a] = [task[a] EXCEPT !.stage = s]
      /\ \A b \in Alerters : b # a => task'[b] = task[b]
  BY DEF Step, TypeOK, ProcessTypeOK
<1>2. task[a] \in Task /\ task[a].stage # "create"
  BY DEF TypeOK, ProcessTypeOK, Delivering
<1>3. /\ task'[a].fp = task[a].fp /\ task'[a].at = task[a].at
      /\ task'[a].inc = task[a].inc /\ task'[a].stage = s
  BY <1>1, <1>2 DEF Task
<1>4. QED
  BY <1>1, <1>2, <1>3, BusyTasksKept

(* The winner of the key holds the opening it was granted.                 *)
LEMMA AcquireKeepsDelivery ==
    ASSUME TypeOK, DeliveryInv, NEW a \in Alerters, AcquireDedupKey(a)
    PROVE  DeliveryInv'
<1> DEFINE f == task[a].fp
           new == [key |-> f, at |-> now]
<1>1. /\ ~Busy(a) /\ UNCHANGED <<incidents, dispatched, faults>>
      /\ \A b \in Alerters : b # a => task'[b] = task[b]
  BY DEF AcquireDedupKey, Busy, Delivering, Return, TypeOK, ProcessTypeOK,
         postgres, outbound
<1>2. CASE Held(f)
  <2>1. opens' = opens
    BY <1>2 DEF AcquireDedupKey
  <2>2. QED
    BY <1>1, <2>1, IdlersKeepDelivery
<1>3. CASE ~Held(f)
  <2>1. /\ opens' = opens \union {new}
        /\ task' = [task EXCEPT ![a].stage = "create", ![a].at = now]
    BY <1>3 DEF AcquireDedupKey
  <2>2. task'[a].stage = "create" /\ task'[a].fp = f /\ task'[a].at = now
    BY <2>1 DEF TypeOK, ProcessTypeOK, Task
  <2>3. \A b \in Alerters : Busy(b) => b # a /\ task'[b] = task[b]
    BY <1>1
  <2>4. OpeningsBecomeIncidents'
    <3> SUFFICES ASSUME faults' = 0, NEW w \in opens'
                 PROVE  \/ \E i \in 1..Len(incidents') : incidents'[i] = w
                        \/ \E b \in Alerters : /\ task'[b].stage = "create"
                                                /\ task'[b].fp = w.key
                                                /\ task'[b].at = w.at
      BY DEF OpeningsBecomeIncidents
    <3>1. CASE w = new
      BY <2>2, <3>1
    <3>2. CASE w \in opens
      BY <1>1, <2>3, <3>2 DEF DeliveryInv, OpeningsBecomeIncidents, Busy
    <3>3. QED
      BY <2>1, <3>1, <3>2
  <2>5. RowsAreInHand'
    BY <1>1, <2>3 DEF DeliveryInv, RowsAreInHand, Busy
  <2>6. QED
    BY <2>4, <2>5 DEF DeliveryInv
<1>4. QED
  BY <1>2, <1>3

(* The insertion turns the opening into a row and keeps the row in hand.   *)
LEMMA CreateKeepsDelivery ==
    ASSUME TypeOK, DeliveryInv, NEW a \in Alerters, CreateIncident(a)
    PROVE  DeliveryInv'
<1> DEFINE n == Len(incidents)
           row == [key |-> task[a].fp, at |-> task[a].at]
<1>1. /\ task[a].stage = "create" /\ incidents' = Append(incidents, row)
      /\ UNCHANGED <<opens, dispatched, faults>>
      /\ \A b \in Alerters : b # a => task'[b] = task[b]
  BY DEF CreateIncident, TypeOK, ProcessTypeOK, redis, outbound
<1>2. task'[a].stage \in Delivering /\ task'[a].inc = n + 1
  BY DEF CreateIncident, TypeOK, ProcessTypeOK, Task, Delivering
<1>3. /\ n \in Nat /\ Len(incidents') = n + 1 /\ incidents'[n + 1] = row
      /\ \A i \in 1..n : incidents'[i] = incidents[i]
      /\ 1..(n + 1) = (1..n) \union {n + 1}
  BY <1>1 DEF TypeOK, PostgresTypeOK
<1>4. ASSUME faults' = 0, NEW w \in opens'
      PROVE  \/ \E i \in 1..Len(incidents') : incidents'[i] = w
             \/ \E b \in Alerters : /\ task'[b].stage = "create"
                                     /\ task'[b].fp = w.key /\ task'[b].at = w.at
  <2>1. CASE \E i \in 1..n : incidents[i] = w
    BY <1>3, <2>1
  <2>2. ASSUME NEW b \in Alerters, b # a, task[b].stage = "create",
               task[b].fp = w.key, task[b].at = w.at
        PROVE  task'[b].stage = "create" /\ task'[b].fp = w.key /\ task'[b].at = w.at
    BY <1>1, <2>2
  <2>3. CASE task[a].fp = w.key /\ task[a].at = w.at
    <3>1. w \in Row
      BY <1>1, <1>4 DEF TypeOK, HistoryTypeOK
    <3>2. w = row
      BY <2>3, <3>1 DEF Row
    <3>3. n + 1 \in 1..Len(incidents') /\ incidents'[n + 1] = w
      BY <1>3, <3>2
    <3>4. QED
      BY <3>3
  <2>4. QED
    BY <1>1, <1>4, <2>1, <2>2, <2>3 DEF DeliveryInv, OpeningsBecomeIncidents
<1>5. ASSUME faults' = 0, NEW i \in 1..Len(incidents'), i \notin dispatched'
      PROVE  \E b \in Alerters : task'[b].stage \in Delivering /\ task'[b].inc = i
  <2>1. CASE i = n + 1
    BY <1>2, <2>1
  <2>2. CASE i \in 1..n
    <3>1. PICK b \in Alerters : task[b].stage \in Delivering /\ task[b].inc = i
      BY <1>1, <1>5, <2>2 DEF DeliveryInv, RowsAreInHand
    <3>2. b # a
      BY <1>1, <3>1 DEF Delivering
    <3>3. QED
      BY <1>1, <3>1, <3>2
  <2>3. QED
    BY <1>3, <1>5, <2>1, <2>2
<1>6. QED
  BY <1>4, <1>5 DEF DeliveryInv, OpeningsBecomeIncidents, RowsAreInHand

(* A handler that has dispatched its incident may return.                  *)
LEMMA SettlingKeepsDelivery ==
    ASSUME TypeOK, DeliveryInv, NEW a \in Alerters, AllSettled(a)
    PROVE  DeliveryInv'
<1>1. /\ task[a].stage = "settled" /\ dispatched' = dispatched \union {task[a].inc}
      /\ UNCHANGED <<opens, incidents, faults>>
      /\ \A b \in Alerters : b # a => task'[b] = task[b]
  BY DEF AllSettled, Return, TypeOK, ProcessTypeOK, postgres, redis
<1>2. OpeningsBecomeIncidents'
  BY <1>1 DEF DeliveryInv, OpeningsBecomeIncidents
<1>3. RowsAreInHand'
  <2> SUFFICES ASSUME faults' = 0, NEW i \in 1..Len(incidents'), i \notin dispatched'
               PROVE  \E b \in Alerters : task'[b].stage \in Delivering /\ task'[b].inc = i
    BY DEF RowsAreInHand
  <2>1. PICK b \in Alerters : task[b].stage \in Delivering /\ task[b].inc = i
    BY <1>1 DEF DeliveryInv, RowsAreInHand
  <2>2. b # a
    BY <1>1, <2>1
  <2>3. QED
    BY <1>1, <2>1, <2>2
<1>4. QED
  BY <1>2, <1>3 DEF DeliveryInv

(* After a fault nothing is promised.                                      *)
LEMMA FaultsKeepDelivery ==
    ASSUME TypeOK, faults' = faults + 1
    PROVE  DeliveryInv'
<1>1. faults' # 0
  BY DEF TypeOK, ProcessTypeOK
<1>2. QED
  BY <1>1 DEF DeliveryInv, OpeningsBecomeIncidents, RowsAreInHand

LEMMA HandlerKeepsDelivery ==
    ASSUME TypeOK, DeliveryInv, NEW a \in Alerters, Handler(a)
    PROVE  DeliveryInv'
<1> USE DEF postgres, redis, outbound
<1>1. CASE AcquireDedupKey(a) \/ CreateIncident(a) \/ AllSettled(a)
  BY <1>1, AcquireKeepsDelivery, CreateKeepsDelivery, SettlingKeepsDelivery
<1>2. CASE WriteNote(a) \/ RaiseAlert(a) \/ Dispatch(a)
  BY <1>2, StepsKeepDelivery DEF WriteNote, RaiseAlert, Dispatch, Delivering
<1>3. CASE \/ \E p \in Partitions : EachMessage(a, p)
           \/ GetCached(a) \/ FindCheck(a) \/ GetCheck(a) \/ RecordHeartbeatAndEvaluate(a)
           \/ ShouldSuppressNetworkFailure(a)
  <2>1. ~Busy(a) /\ UNCHANGED <<opens, incidents, dispatched, faults>>
    BY <1>3 DEF EachMessage, GetCached, FindCheck, GetCheck, RecordHeartbeatAndEvaluate,
                ShouldSuppressNetworkFailure, Busy, Delivering
  <2>2. \A b \in Alerters : b # a => task'[b] = task[b]
    BY <1>3 DEF EachMessage, GetCached, FindCheck, GetCheck, RecordHeartbeatAndEvaluate,
                ShouldSuppressNetworkFailure, Return, Step, TypeOK, ProcessTypeOK
  <2>3. QED
    BY <2>1, <2>2, IdlersKeepDelivery
<1>4. QED
  BY <1>1, <1>2, <1>3 DEF Handler

THEOREM DeliveryInvariant == Spec => []DeliveryInv
<1>1. Init => DeliveryInv
  <2> SUFFICES ASSUME Init PROVE DeliveryInv
    OBVIOUS
  <2>1. opens = {} /\ 1..Len(incidents) = {}
    BY DEF Init
  <2>2. QED
    BY <2>1 DEF DeliveryInv, OpeningsBecomeIncidents, RowsAreInHand
<1>2. TypeOK /\ DeliveryInv /\ [Next]_vars => DeliveryInv'
  <2> SUFFICES ASSUME TypeOK, DeliveryInv, [Next]_vars PROVE DeliveryInv'
    OBVIOUS
  <2>1. ASSUME NEW a \in Alerters, Handler(a) PROVE DeliveryInv'
    BY <2>1, HandlerKeepsDelivery
  <2>2. CASE faults' = faults + 1
    BY <2>2, FaultsKeepDelivery
  <2>3. CASE UNCHANGED <<opens, incidents, dispatched, faults, task>>
    BY <2>3, BusyTasksKept
  <2>4. QED
    BY <2>1, <2>2, <2>3
       DEF Next, Rest, Tick, Produce, SaveCheck, Assign, Revoke, Commit,
           HandlerThrows, Crash, vars, postgres, redis, outbound
<1>3. QED
  BY <1>1, <1>2, TypeCorrect, PTL DEF Spec

(* While nothing fails no opening is lost: the key set in Redis means a    *)
(* row, or a handler about to insert it.                                   *)
THEOREM OpeningsLeadToRows == Spec => []OpeningsBecomeIncidents
<1>1. DeliveryInv => OpeningsBecomeIncidents
  BY DEF DeliveryInv
<1>2. QED
  BY <1>1, DeliveryInvariant, PTL

(* While nothing fails no row is forgotten: its delivery has run to its    *)
(* end, or a handler stands before it.                                     *)
THEOREM RowsAreDelivered == Spec => []RowsAreInHand
<1>1. DeliveryInv => RowsAreInHand
  BY DEF DeliveryInv
<1>2. QED
  BY <1>1, DeliveryInvariant, PTL

============================================================================
