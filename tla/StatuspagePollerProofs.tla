----------------------- MODULE StatuspagePollerProofs -----------------------
(***************************************************************************)
(* Proofs about StatuspagePoller for any hosts and vendor incidents, any   *)
(* number of failures, crashes and restarts: types with the capped backoff, *)
(* the chain of polls of a host, the failure count of its source, and the  *)
(* age of the copies.                                                      *)
(***************************************************************************)
EXTENDS StatuspagePoller, Integers, FiniteSetTheorems, TLAPS

USE HostAssumption, NumberAssumption

LEMMA IdlePoll == Idle \in Poll
BY DEF Idle, Poll, Stages

(* Steps of one host's poll, seen from the others.                         *)
LEMMA StageChange ==
    ASSUME TypeOK, NEW h \in Hosts, NEW stage \in Stages, Goto(h, stage)
    PROVE  /\ poll' \in [Hosts -> Poll]
           /\ poll'[h] = [poll[h] EXCEPT !.stage = stage]
           /\ \A g \in Hosts : g # h => poll'[g] = poll[g]
BY DEF TypeOK, Goto, Poll

----------------------------------------------------------------------------
(* Types.                                                                  *)

(* A page has been fetched, and its incidents are to be stored.            *)
LEMMA PageTypes ==
    ASSUME TypeOK, NEW h \in Hosts, NEW stage \in Stages,
           NEW todo \in SUBSET (VendorIncidents \X Statuses),
           poll' = [poll EXCEPT ![h].stage = stage, ![h].todo = todo]
    PROVE  poll' \in [Hosts -> Poll]
<1>1. [poll[h] EXCEPT !.stage = stage, !.todo = todo] \in Poll
  BY DEF TypeOK, Poll
<1>2. QED
  BY <1>1 DEF TypeOK

LEMMA ListedTypes ==
    ASSUME TypeOK, NEW h \in Hosts, NEW S \in SUBSET Statuses
    PROVE  Listed(h, S) \in SUBSET (VendorIncidents \X Statuses)
BY DEF TypeOK, Listed

(* A set of n has 2^n subsets: so a power of two is a number.              *)
LEMMA PowersOfTwo == \A n \in Nat : 2 ^ n \in Nat
<1> SUFFICES ASSUME NEW n \in Nat PROVE 2 ^ n \in Nat
  OBVIOUS
<1>1. IsFiniteSet(1..n) /\ Cardinality(1..n) = n
  <2>1. IsFiniteSet(1..n) /\ Cardinality(1..n) = IF 1 > n THEN 0 ELSE n - 1 + 1
    BY FS_Interval
  <2>2. QED
    BY <2>1
<1>2. IsFiniteSet(SUBSET (1..n)) /\ Cardinality(SUBSET (1..n)) = 2 ^ n
  BY <1>1, FS_SUBSET
<1>3. QED
  BY <1>2, FS_CardinalityType

LEMMA BackoffIsCapped ==
    ASSUME NEW n \in Nat, NEW throttled \in BOOLEAN, n > 0
    PROVE  NextDelay(n, throttled) \in 0..MaxBackoff
<1>1. n - 1 \in Nat
  OBVIOUS
<1>2. 2 ^ (n - 1) \in Nat
  BY <1>1, PowersOfTwo
<1>3. QED
  BY <1>2 DEF NextDelay

LEMMA InitTypes == Init => TypeOK
BY IdlePoll DEF Init, TypeOK, Statuses, Idle

LEMMA WorkTypes ==
    ASSUME TypeOK, NEW h \in Hosts, Work(h),
           poll[h].stage = "recordFailure" => poll[h].failures > 0
    PROVE  TypeOK'
<1>1. CASE FireTimer(h)
  BY <1>1, StageChange DEF FireTimer, TypeOK, Stages
<1>2. CASE FetchSummary(h) \/ FetchHistory(h)
  <2>1. Listed(h, {"open"}) \in SUBSET (VendorIncidents \X Statuses)
    BY ListedTypes DEF Statuses
  <2>2. Listed(h, {"open", "resolved", "postmortem"}) \in SUBSET (VendorIncidents \X Statuses)
    BY ListedTypes DEF Statuses
  <2>3. "persist" \in Stages /\ "persistHistory" \in Stages
    BY DEF Stages
  <2>4. poll' \in [Hosts -> Poll]
    BY <1>2, <2>1, <2>2, <2>3, PageTypes DEF FetchSummary, FetchHistory
  <2>5. QED
    BY <1>2, <2>4 DEF FetchSummary, FetchHistory, TypeOK, service
<1>3. ASSUME NEW v \in VendorIncidents, NEW s \in Statuses, UpsertIncident(h, v, s)
      PROVE  TypeOK'
  <2>1. [poll[h] EXCEPT !.todo = @ \ {<<v, s>>}] \in Poll
    BY DEF TypeOK, Poll
  <2>2. poll' \in [Hosts -> Poll]
    BY <1>3, <2>1 DEF UpsertIncident, TypeOK
  <2>3. QED
    BY <1>3, <2>2 DEF UpsertIncident, TypeOK, service
<1>4. CASE Persisted(h)
  BY <1>4, StageChange DEF Persisted, TypeOK, Stages
<1>5. CASE RecordSuccess(h)
  <2>1. [failures |-> 0, stale |-> FALSE, backoff |-> 0] \in PollStates
    BY DEF PollStates
  <2>2. QED
    BY <1>5, <2>1, StageChange DEF RecordSuccess, TypeOK, Stages, service
<1>6. CASE ReadPollState(h)
  <2> DEFINE n == IF pollState[h] = NoState THEN 1 ELSE pollState[h].failures + 1
  <2>1. n \in Nat
    BY DEF TypeOK, PollStates
  <2>2. [poll[h] EXCEPT !.stage = "recordFailure", !.failures = n] \in Poll
    BY <2>1 DEF TypeOK, Poll, Stages
  <2>3. poll' \in [Hosts -> Poll]
    BY <1>6, <2>2 DEF ReadPollState, TypeOK
  <2>4. QED
    BY <1>6, <2>3 DEF ReadPollState, TypeOK, service
<1>7. CASE RecordFailure(h)
  <2>1. poll[h].failures \in Nat /\ poll[h].throttled \in BOOLEAN /\ poll[h].failures > 0
    BY <1>7 DEF RecordFailure, TypeOK, Poll
  <2> DEFINE n == poll[h].failures
  <2>2. [failures |-> n, stale |-> n >= StaleAfter,
         backoff |-> NextDelay(n, poll[h].throttled)] \in PollStates
    BY <2>1, BackoffIsCapped DEF PollStates
  <2>3. QED
    BY <1>7, <2>2, StageChange DEF RecordFailure, TypeOK, Stages, service
<1>8. CASE ScheduleHost(h)
  BY <1>8, IdlePoll DEF ScheduleHost, TypeOK
<1>9. QED
  BY <1>1, <1>2, <1>3, <1>4, <1>5, <1>6, <1>7, <1>8 DEF Work

LEMMA FailureTypes ==
    ASSUME TypeOK, NEW h \in Hosts, NEW throttled \in BOOLEAN,
           PollFails(h, throttled) \/ CatchFails(h)
    PROVE  TypeOK'
<1>1. CASE PollFails(h, throttled)
  <2>1. [Idle EXCEPT !.stage = "failed", !.throttled = throttled] \in Poll
    BY DEF Idle, Poll, Stages
  <2>2. QED
    BY <1>1, <2>1 DEF PollFails, TypeOK, service
<1>2. CASE CatchFails(h)
  BY <1>2, IdlePoll DEF CatchFails, Die, TypeOK
<1>3. QED
  BY <1>1, <1>2

LEMMA OtherTypes ==
    ASSUME TypeOK,
           \/ \E v \in VendorIncidents : VendorReports(v)
           \/ \E h \in Hosts : HourPasses(h)
           \/ Start \/ Stop \/ Exit \/ Crash
           \/ UNCHANGED vars
    PROVE  TypeOK'
<1>1. ASSUME NEW v \in VendorIncidents, VendorReports(v) PROVE TypeOK'
  BY <1>1 DEF VendorReports, TypeOK, service
<1>2. ASSUME NEW h \in Hosts, HourPasses(h) PROVE TypeOK'
  <2>1. historyDue' \in [Hosts -> BOOLEAN]
    BY <1>2 DEF HourPasses, TypeOK
  <2>2. QED
    BY <1>2, <2>1 DEF HourPasses, TypeOK
<1>3. CASE Start
  <2>1. armed' \in [Hosts -> BOOLEAN] /\ historyDue' \in [Hosts -> BOOLEAN]
    BY <1>3 DEF Start
  <2>2. process' = "running" /\ UNCHANGED <<vendor, row, pollState, poll, faults, streak>>
    BY <1>3 DEF Start
  <2>3. QED
    BY <2>1, <2>2 DEF TypeOK
<1>4. CASE Stop \/ Exit \/ Crash
  <2>1. armed' = [g \in Hosts |-> FALSE] /\ historyDue' = historyDue
    BY <1>4 DEF Stop, Exit, Crash, Die
  <2>2. process' \in {"stopping", "down"} /\ faults' \in Nat
    BY <1>4 DEF Stop, Exit, Crash, Die, TypeOK
  <2>3. poll' = poll \/ poll' = [g \in Hosts |-> Idle]
    BY <1>4 DEF Stop, Exit, Crash, Die
  <2>4. UNCHANGED <<vendor, row, pollState, streak>>
    BY <1>4 DEF Stop, Exit, Crash, Die
  <2>5. armed' \in [Hosts -> BOOLEAN] /\ poll' \in [Hosts -> Poll]
    BY <2>1, <2>3, IdlePoll DEF TypeOK
  <2>6. QED
    BY <2>1, <2>2, <2>4, <2>5 DEF TypeOK
<1>5. CASE UNCHANGED vars
  BY <1>5 DEF vars, service, TypeOK
<1>6. QED
  BY <1>1, <1>2, <1>3, <1>4, <1>5

----------------------------------------------------------------------------
(* The chain of a host.                                                    *)

(* A process that is down has no poll in flight.                           *)
ChainInv ==
    /\ process = "down" => \A h \in Hosts : poll[h] = Idle
    /\ OneChainPerHost
    /\ NothingAfterStop

LEMMA InitChain == Init => ChainInv
BY DEF Init, ChainInv, OneChainPerHost, NothingAfterStop

LEMMA WorkKeepsChain ==
    ASSUME TypeOK, ChainInv, NEW h \in Hosts, Work(h)
    PROVE  ChainInv'
<1>1. Busy(h) \/ armed[h]
  BY DEF Work, Busy, FireTimer, FetchSummary, FetchHistory, UpsertIncident, Persisted,
         RecordSuccess, ReadPollState, RecordFailure, ScheduleHost
<1>2. process # "down" /\ process' = process
  <2>1. process # "down"
    BY <1>1 DEF ChainInv, NothingAfterStop, Busy, Idle
  <2>2. process' = process
    BY DEF Work, service, FireTimer, FetchSummary, FetchHistory, UpsertIncident, Persisted,
           RecordSuccess, ReadPollState, RecordFailure, ScheduleHost
  <2>3. QED
    BY <2>1, <2>2
<1>3. \A g \in Hosts : g # h => poll'[g] = poll[g] /\ armed'[g] = armed[g]
  BY DEF TypeOK, Work, service, FireTimer, FetchSummary, FetchHistory, UpsertIncident,
         Persisted, RecordSuccess, ReadPollState, RecordFailure, ScheduleHost, Goto
<1>4. /\ process = "running" => (armed'[h] <=> ~Busy(h)')
      /\ process # "running" => ~armed'[h]
  <2>1. CASE FireTimer(h)
    <3>1. armed'[h] = FALSE /\ poll'[h].stage = "summary"
      BY <2>1 DEF FireTimer, Goto, TypeOK, Poll
    <3>2. QED
      BY <3>1 DEF Busy
  <2>2. CASE ScheduleHost(h)
    BY <1>2, <2>2 DEF ScheduleHost, TypeOK, Busy, Idle
  <2>3. CASE ~FireTimer(h) /\ ~ScheduleHost(h)
    <3>1. Busy(h) /\ armed' = armed
      BY <2>3 DEF Busy, Work, service, FetchSummary, FetchHistory, UpsertIncident, Persisted,
                  RecordSuccess, ReadPollState, RecordFailure
    <3>2. Busy(h)'
      <4>1. CASE FetchSummary(h) \/ FetchHistory(h)
        BY <4>1 DEF FetchSummary, FetchHistory, TypeOK, Poll, Busy
      <4>2. CASE \E v \in VendorIncidents, s \in Statuses : UpsertIncident(h, v, s)
        BY <3>1, <4>2 DEF UpsertIncident, TypeOK, Poll, Busy
      <4>3. CASE Persisted(h) \/ RecordSuccess(h) \/ RecordFailure(h)
        BY <4>3, StageChange DEF Persisted, RecordSuccess, RecordFailure, Goto, TypeOK, Poll, Busy
      <4>4. CASE ReadPollState(h)
        BY <4>4 DEF ReadPollState, TypeOK, Poll, Busy
      <4>5. QED
        BY <2>3, <4>1, <4>2, <4>3, <4>4 DEF Work
    <3>3. QED
      BY <1>2, <3>1, <3>2 DEF ChainInv, OneChainPerHost, NothingAfterStop
  <2>4. QED
    BY <2>1, <2>2, <2>3
<1>5. QED
  BY <1>2, <1>3, <1>4 DEF ChainInv, OneChainPerHost, NothingAfterStop, Busy

LEMMA NextKeepsChain ==
    ASSUME TypeOK, ChainInv, [Next]_vars
    PROVE  ChainInv'
<1> USE DEF ChainInv, OneChainPerHost, NothingAfterStop, Busy
<1>1. CASE (\E v \in VendorIncidents : VendorReports(v)) \/ (\E h \in Hosts : HourPasses(h))
  BY <1>1 DEF VendorReports, HourPasses, service
<1>2. CASE Start
  BY <1>2 DEF Start, Idle
<1>3. CASE Stop
  BY <1>3 DEF Stop
<1>4. CASE Exit \/ Crash \/ \E h \in Hosts : CatchFails(h)
  BY <1>4 DEF Exit, Crash, CatchFails, Die
<1>5. ASSUME NEW h \in Hosts, Work(h) PROVE ChainInv'
  BY <1>5, WorkKeepsChain
<1>6. ASSUME NEW h \in Hosts, NEW throttled \in BOOLEAN, PollFails(h, throttled)
      PROVE  ChainInv'
  <2>1. poll[h].stage # "idle" /\ poll'[h].stage # "idle"
    BY <1>6 DEF PollFails, TypeOK, Idle
  <2>2. \A g \in Hosts : g # h => poll'[g] = poll[g]
    BY <1>6 DEF PollFails, TypeOK
  <2>3. UNCHANGED <<process, armed>>
    BY <1>6 DEF PollFails, service
  <2>4. QED
    BY <2>1, <2>2, <2>3 DEF Idle
<1>7. CASE UNCHANGED vars
  BY <1>7 DEF vars, service
<1>8. QED
  BY <1>1, <1>2, <1>3, <1>4, <1>5, <1>6, <1>7 DEF Next

----------------------------------------------------------------------------
(* The failure count.                                                      *)

(* A poll that has failed is already counted by the streak, and what it is *)
(* about to write does not exceed it.                                      *)
CountInv ==
    /\ StaleIsEarned
    /\ \A h \in Hosts :
        /\ poll[h].stage = "failed" =>
                streak[h] > 0 /\ (pollState[h] # NoState => pollState[h].failures < streak[h])
        /\ poll[h].stage = "recordFailure" =>
                poll[h].failures > 0 /\ poll[h].failures <= streak[h]

LEMMA InitCount == Init => CountInv
BY DEF Init, CountInv, StaleIsEarned, Idle

LEMMA WorkKeepsCount ==
    ASSUME TypeOK, CountInv, NEW h \in Hosts, Work(h)
    PROVE  CountInv'
<1> USE DEF CountInv, StaleIsEarned
<1>1. \A g \in Hosts : g # h =>
          poll'[g] = poll[g] /\ pollState'[g] = pollState[g] /\ streak'[g] = streak[g]
  BY DEF TypeOK, Work, service, FireTimer, FetchSummary, FetchHistory, UpsertIncident,
         Persisted, RecordSuccess, ReadPollState, RecordFailure, ScheduleHost, Goto
<1>2. CASE FireTimer(h) \/ Persisted(h)
  <2>1. poll'[h].stage \in {"summary", "history", "record"}
    BY <1>2 DEF FireTimer, Persisted, Goto, TypeOK, Poll
  <2>2. UNCHANGED <<pollState, streak>>
    BY <1>2 DEF FireTimer, Persisted
  <2>3. QED
    BY <1>1, <2>1, <2>2
<1>3. CASE FetchSummary(h) \/ FetchHistory(h)
  <2>1. poll'[h].stage \in {"persist", "persistHistory"}
    BY <1>3 DEF FetchSummary, FetchHistory, TypeOK, Poll
  <2>2. UNCHANGED <<pollState, streak>>
    BY <1>3 DEF FetchSummary, FetchHistory
  <2>3. QED
    BY <1>1, <2>1, <2>2
<1>4. CASE \E v \in VendorIncidents, s \in Statuses : UpsertIncident(h, v, s)
  BY <1>4 DEF UpsertIncident, TypeOK, Poll
<1>5. CASE RecordSuccess(h)
  <2>1. /\ pollState'[h] = [failures |-> 0, stale |-> FALSE, backoff |-> 0]
        /\ streak'[h] = 0 /\ poll'[h].stage = "schedule"
    BY <1>5, StageChange DEF RecordSuccess, Stages, TypeOK, Poll
  <2>2. QED
    BY <1>1, <2>1
<1>6. CASE ReadPollState(h)
  <2>1. /\ poll[h].stage = "failed" /\ UNCHANGED <<pollState, streak>>
        /\ poll'[h].stage = "recordFailure"
        /\ poll'[h].failures = IF pollState[h] = NoState THEN 1 ELSE pollState[h].failures + 1
    BY <1>6 DEF ReadPollState, TypeOK, Poll
  <2>2. streak[h] \in Nat /\ (pollState[h] # NoState => pollState[h].failures \in Nat)
    BY DEF TypeOK, PollStates
  <2>3. QED
    BY <1>1, <2>1, <2>2
<1>7. CASE RecordFailure(h)
  <2>1. poll[h].stage = "recordFailure" /\ poll'[h].stage = "schedule"
    BY <1>7 DEF RecordFailure, Goto, TypeOK, Poll
  <2>2. /\ pollState'[h].failures = poll[h].failures
        /\ pollState'[h].stale = (poll[h].failures >= StaleAfter)
        /\ streak' = streak
    BY <1>7 DEF RecordFailure, TypeOK
  <2>3. QED
    BY <1>1, <2>1, <2>2
<1>8. CASE ScheduleHost(h)
  BY <1>8 DEF ScheduleHost, TypeOK, Idle
<1>9. QED
  BY <1>2, <1>3, <1>4, <1>5, <1>6, <1>7, <1>8 DEF Work

LEMMA NextKeepsCount ==
    ASSUME TypeOK, CountInv, [Next]_vars
    PROVE  CountInv'
<1> USE DEF CountInv, StaleIsEarned
<1>1. CASE \/ \E v \in VendorIncidents : VendorReports(v)
           \/ \E h \in Hosts : HourPasses(h)
           \/ Start \/ Stop
  BY <1>1 DEF VendorReports, HourPasses, Start, Stop
<1>2. CASE Exit \/ Crash \/ \E h \in Hosts : CatchFails(h)
  BY <1>2 DEF Exit, Crash, CatchFails, Die, Idle
<1>3. ASSUME NEW h \in Hosts, Work(h) PROVE CountInv'
  BY <1>3, WorkKeepsCount
<1>4. ASSUME NEW h \in Hosts, NEW throttled \in BOOLEAN, PollFails(h, throttled)
      PROVE  CountInv'
  <2>1. /\ poll'[h].stage = "failed" /\ streak'[h] = streak[h] + 1
        /\ pollState' = pollState
    BY <1>4 DEF PollFails, TypeOK, Idle
  <2>2. \A g \in Hosts : g # h => poll'[g] = poll[g] /\ streak'[g] = streak[g]
    BY <1>4 DEF PollFails, TypeOK
  <2>3. streak[h] \in Nat /\ (pollState[h] # NoState => pollState[h].failures \in Nat)
    BY DEF TypeOK, PollStates
  <2>4. QED
    BY <2>1, <2>2, <2>3
<1>5. CASE UNCHANGED vars
  BY <1>5 DEF vars
<1>6. QED
  BY <1>1, <1>2, <1>3, <1>4, <1>5 DEF Next

LEMMA NextTypes ==
    ASSUME TypeOK, CountInv, [Next]_vars
    PROVE  TypeOK'
BY WorkTypes, FailureTypes, OtherTypes DEF Next, CountInv

----------------------------------------------------------------------------
(* The copies.                                                             *)

(* A page lists an incident once.                                          *)
CopyInv ==
    /\ SnapshotsAreCurrent
    /\ \A h \in Hosts, v \in VendorIncidents, s, t \in Statuses :
            <<v, s>> \in poll[h].todo /\ <<v, t>> \in poll[h].todo => s = t

LEMMA Ranks ==
    /\ \A s \in Statuses : Rank[s] \in Nat
    /\ \A s, t \in Statuses : Rank[s] = Rank[t] => s = t
BY DEF Rank, Statuses

LEMMA InitCopy == Init => CopyInv
BY DEF Init, CopyInv, SnapshotsAreCurrent, Idle, Rank

(* Unless a page is fetched, work on other things leaves less to store.    *)
LEMMA CopyKept ==
    ASSUME TypeOK, CopyInv, UNCHANGED <<vendor, row>>,
           \A h \in Hosts : poll'[h].todo \subseteq poll[h].todo
    PROVE  CopyInv'
BY DEF CopyInv, SnapshotsAreCurrent

(* Rows and pages grow towards what the vendor says.                       *)
Advances ==
    \A v \in VendorIncidents :
        Rank[row[v]] <= Rank[row'[v]] /\ Rank[row'[v]] <= Rank[vendor'[v]]

LEMMA SameRowsAdvance ==
    ASSUME TypeOK, CopyInv, UNCHANGED <<vendor, row>>
    PROVE  Advances
BY Ranks DEF TypeOK, CopyInv, SnapshotsAreCurrent, Advances

LEMMA FetchCopies ==
    ASSUME TypeOK, CopyInv, NEW h \in Hosts, FetchSummary(h) \/ FetchHistory(h)
    PROVE  CopyInv'
<1>1. PICK S : poll'[h].todo = Listed(h, S)
  BY DEF FetchSummary, FetchHistory, TypeOK, Poll
<1>2. \A g \in Hosts : g # h => poll'[g] = poll[g]
  BY DEF FetchSummary, FetchHistory, TypeOK
<1>3. UNCHANGED <<vendor, row>>
  BY DEF FetchSummary, FetchHistory
<1>4. \A v \in VendorIncidents, s \in Statuses :
          <<v, s>> \in Listed(h, S) => HostOf[v] = h /\ s = vendor[v]
  BY DEF Listed
<1>5. \A v \in VendorIncidents : Rank[vendor[v]] \in Nat
  BY Ranks DEF TypeOK
<1>6. QED
  BY <1>1, <1>2, <1>3, <1>4, <1>5 DEF CopyInv, SnapshotsAreCurrent

LEMMA UpsertCopies ==
    ASSUME TypeOK, CopyInv, NEW h \in Hosts, NEW v \in VendorIncidents, NEW s \in Statuses,
           UpsertIncident(h, v, s)
    PROVE  CopyInv' /\ Advances
<1>1. /\ <<v, s>> \in poll[h].todo /\ vendor' = vendor
      /\ row' = [row EXCEPT ![v] = s]
      /\ poll'[h].todo = poll[h].todo \ {<<v, s>>}
      /\ \A g \in Hosts : g # h => poll'[g] = poll[g]
  BY DEF UpsertIncident, TypeOK, Poll
<1>2. Rank[row[v]] <= Rank[s] /\ Rank[s] <= Rank[vendor[v]] /\ HostOf[v] = h
  BY <1>1 DEF CopyInv, SnapshotsAreCurrent
<1>3. row'[v] = s /\ \A u \in VendorIncidents : u # v => row'[u] = row[u]
  BY <1>1 DEF TypeOK
<1>4. \A u \in VendorIncidents : Rank[row[u]] \in Nat /\ Rank[vendor[u]] \in Nat
  BY Ranks DEF TypeOK
<1>5. Advances
  BY <1>1, <1>2, <1>3, <1>4 DEF Advances, CopyInv, SnapshotsAreCurrent
<1>6. \A g \in Hosts, t \in Statuses : <<v, t>> \notin poll'[g].todo
  BY <1>1, <1>2 DEF CopyInv, SnapshotsAreCurrent
<1>7. \A g \in Hosts : poll'[g].todo \subseteq poll[g].todo
  BY <1>1
<1>8. SnapshotsAreCurrent'
  BY <1>1, <1>3, <1>5, <1>6, <1>7 DEF Advances, CopyInv, SnapshotsAreCurrent
<1>9. QED
  BY <1>5, <1>7, <1>8 DEF CopyInv

LEMMA VendorCopies ==
    ASSUME TypeOK, CopyInv, NEW v \in VendorIncidents, VendorReports(v)
    PROVE  CopyInv' /\ Advances
<1>1. UNCHANGED <<row, poll>>
  BY DEF VendorReports
<1>2. \A u \in VendorIncidents : Rank[vendor[u]] <= Rank[vendor'[u]]
  BY Ranks DEF VendorReports, TypeOK
<1>3. \A u \in VendorIncidents :
          Rank[row[u]] \in Nat /\ Rank[vendor[u]] \in Nat /\ Rank[vendor'[u]] \in Nat
  BY Ranks, OtherTypes DEF TypeOK
<1>4. QED
  BY <1>1, <1>2, <1>3, Ranks DEF CopyInv, SnapshotsAreCurrent, Advances

LEMMA NextCopies ==
    ASSUME TypeOK, CopyInv, [Next]_vars
    PROVE  CopyInv' /\ Advances
<1>1. ASSUME NEW v \in VendorIncidents, VendorReports(v) PROVE CopyInv' /\ Advances
  BY <1>1, VendorCopies
<1>2. ASSUME NEW h \in Hosts, FetchSummary(h) \/ FetchHistory(h)
      PROVE  CopyInv' /\ Advances
  BY <1>2, FetchCopies, SameRowsAdvance DEF FetchSummary, FetchHistory
<1>3. ASSUME NEW h \in Hosts, NEW v \in VendorIncidents, NEW s \in Statuses,
             UpsertIncident(h, v, s)
      PROVE  CopyInv' /\ Advances
  BY <1>3, UpsertCopies
<1>4. ASSUME NEW h \in Hosts,
             \/ FireTimer(h) \/ Persisted(h) \/ RecordSuccess(h) \/ ReadPollState(h)
             \/ RecordFailure(h) \/ ScheduleHost(h) \/ CatchFails(h)
             \/ \E throttled \in BOOLEAN : PollFails(h, throttled)
      PROVE  CopyInv' /\ Advances
  <2>1. \A g \in Hosts : poll'[g].todo \subseteq poll[g].todo
    <3>1. CASE FireTimer(h) \/ Persisted(h) \/ RecordSuccess(h) \/ RecordFailure(h)
      BY <3>1 DEF FireTimer, Persisted, RecordSuccess, RecordFailure, Goto, TypeOK, Poll
    <3>2. CASE ReadPollState(h)
      BY <3>2 DEF ReadPollState, TypeOK, Poll
    <3>3. CASE ScheduleHost(h) \/ CatchFails(h)
      BY <3>3 DEF ScheduleHost, CatchFails, Die, Idle, TypeOK
    <3>4. CASE \E throttled \in BOOLEAN : PollFails(h, throttled)
      BY <3>4 DEF PollFails, Idle, TypeOK
    <3>5. QED
      BY <1>4, <3>1, <3>2, <3>3, <3>4
  <2>2. UNCHANGED <<vendor, row>>
    BY <1>4 DEF FireTimer, Persisted, RecordSuccess, ReadPollState, RecordFailure,
                ScheduleHost, CatchFails, Die, PollFails
  <2>3. QED
    BY <2>1, <2>2, CopyKept, SameRowsAdvance
<1>5. CASE \/ Start \/ Stop \/ Exit \/ Crash \/ UNCHANGED vars
           \/ \E h \in Hosts : HourPasses(h)
  <2>1. \A g \in Hosts : poll'[g].todo \subseteq poll[g].todo
    BY <1>5 DEF Start, Stop, Exit, Crash, Die, vars, HourPasses, Idle
  <2>2. UNCHANGED <<vendor, row>>
    BY <1>5 DEF Start, Stop, Exit, Crash, Die, vars, HourPasses
  <2>3. QED
    BY <2>1, <2>2, CopyKept, SameRowsAdvance
<1>6. QED
  BY <1>1, <1>2, <1>3, <1>4, <1>5 DEF Next, Work

----------------------------------------------------------------------------
(* The theorems.                                                           *)

PollerInv == TypeOK /\ ChainInv /\ CountInv /\ CopyInv

(* Whatever fails and however often the scheduler is stopped, killed and   *)
(* restarted, its four invariants hold together (statuspage.service.ts).   *)
THEOREM Invariance == Spec => []PollerInv
<1>1. Init => PollerInv
  BY InitTypes, InitChain, InitCount, InitCopy DEF PollerInv
<1>2. PollerInv /\ [Next]_vars => PollerInv'
  BY NextTypes, NextKeepsChain, NextKeepsCount, NextCopies DEF PollerInv
<1>3. QED
  BY <1>1, <1>2, PTL DEF Spec

(* Every variable stays in its domain; above all, the delay behind         *)
(* backoffUntil is capped however often a vendor throttles in a row        *)
(* (statuspage.service.ts:148-152).                                        *)
THEOREM TypeCorrect == Spec => []TypeOK
<1>1. PollerInv => TypeOK
  BY DEF PollerInv
<1>2. QED
  BY <1>1, Invariance, PTL

(* A running scheduler has a timer or a poll for each host, and never both *)
(* (statuspage.service.ts:82-183).                                         *)
THEOREM EachHostIsPolled == Spec => []OneChainPerHost
<1>1. PollerInv => OneChainPerHost
  BY DEF PollerInv, ChainInv
<1>2. QED
  BY <1>1, Invariance, PTL

(* No timer outlives onModuleDestroy, nor is one set by a poll in flight.  *)
THEOREM StopsForGood == Spec => []NothingAfterStop
<1>1. PollerInv => NothingAfterStop
  BY DEF PollerInv, ChainInv
<1>2. QED
  BY <1>1, Invariance, PTL

(* A source is stale only after StaleAfter failures in a row.              *)
THEOREM StaleSources == Spec => []StaleIsEarned
<1>1. PollerInv => StaleIsEarned
  BY DEF PollerInv, CountInv
<1>2. QED
  BY <1>1, Invariance, PTL

(* Pages waiting to be stored are never older than the rows.               *)
THEOREM CurrentSnapshots == Spec => []SnapshotsAreCurrent
<1>1. PollerInv => SnapshotsAreCurrent
  BY DEF PollerInv, CopyInv
<1>2. QED
  BY <1>1, Invariance, PTL

(* A row never falls behind what it said, nor gets ahead of its vendor.    *)
THEOREM CopiesAdvance == Spec => RowsFollowVendor
<1>1. PollerInv /\ [Next]_vars => [Advances]_vars
  BY NextCopies DEF PollerInv
<1>2. QED
  BY <1>1, Invariance, PTL DEF Spec, RowsFollowVendor, Advances

=============================================================================
