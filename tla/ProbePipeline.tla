--------------------------- MODULE ProbePipeline ---------------------------
(***************************************************************************)
(* From a job to a stored sample: the probes of one region consume the     *)
(* region's job topic, run each job and send its result; the ingestors     *)
(* consume the results, upsert a row and publish it to the live channel.   *)
(* Both are Kafka consumer groups, with one partition each, driven by the  *)
(* same eachMessage loop: an offset is resolved when the handler returns,  *)
(* committed between messages, and resumed from after a crash, a rebalance *)
(* or an error (Kafka and its client are external).                        *)
(*                                                                         *)
(* What a job runs against is environment.  Whether a sample is good or bad*)
(* decides nothing here, and is left out with everything else it measures, *)
(* except for what makes a run end without a sample: a target may answer   *)
(* with a status outside the 100..599 that a sample admits, and the API    *)
(* admits ports that no connection does.  Nothing changes the port of a    *)
(* check, in the table or in the jobs that were sent.                      *)
(***************************************************************************)
EXTENDS Integers, Sequences

CONSTANTS
    Checks,
    Synthetic,              \* checks run by the synthetic executor
    Unconnectable,          \* tcp checks whose port is above 65535
    Probes, Ingestors,      \* processes of the two consumer groups
    Nobody, NoMessage,
    MaxTime, MaxJobs, MaxFaults     \* bounds of the model

Groups == {"probe", "ingestor"}
Workers == Probes \union Ingestors
Members(g) == IF g = "probe" THEN Probes ELSE Ingestors
GroupOf(w) == IF w \in Probes THEN "probe" ELSE "ingestor"
NoOffset == -1

ASSUME ProbeAssumption ==
    /\ Synthetic \subseteq Checks /\ Unconnectable \subseteq Checks
    /\ Synthetic \intersect Unconnectable = {}
    /\ Probes \intersect Ingestors = {}
    /\ Nobody \notin Workers
    /\ MaxTime \in Nat /\ MaxJobs \in Nat /\ MaxFaults \in Nat

\* A sample is identified by check, region (one here) and time.  The job it
\* came from is history: no field of a sample says so.
Jobs == [check: Checks]
Results == [check: Checks, time: Nat, job: Nat]
Row(r) == [check |-> r.check, time |-> r.time]

VARIABLES
    log,            \* log.probe: jobs; log.ingestor: results
    committed,      \* committed[g]: the group's offset, or NoOffset
    owner,          \* owner[g]: the member that has the partition, or Nobody
    position,       \* position[g]: offset the owner consumes next
    dirty,          \* dirty[g]: position moved since the last commit or reset
    task,           \* task[w]: the message w is handling
    odd,            \* synthetic checks whose target answers with such a status
    samples,        \* keys of the rows of samples
    live,           \* results published on live.probes
    now, faults

\* History, read by no action.
VARIABLE revoked    \* groups that lost a partition in the middle of a message

kafka == <<log, committed, owner>>
progress == <<position, dirty>>
vars == <<kafka, progress, task, odd, samples, live, now, faults, revoked>>

Idle == [stage |-> "idle", off |-> 0, msg |-> NoMessage]

TypeOK ==
    /\ log \in [probe: Seq(Jobs), ingestor: Seq(Results)]
    /\ committed \in [Groups -> Nat \union {NoOffset}]
    /\ \A g \in Groups : owner[g] \in Members(g) \union {Nobody}
    /\ position \in [Groups -> Nat]
    /\ dirty \in [Groups -> BOOLEAN]
    /\ \A w \in Probes :
          \/ task[w] = Idle
          \/ task[w].stage = "run" /\ task[w].msg \in Jobs
          \/ task[w].stage = "send" /\ task[w].msg \in Results
    /\ \A w \in Ingestors :
          \/ task[w] = Idle
          \/ task[w].stage \in {"upsert", "publish"} /\ task[w].msg \in Results
    /\ odd \subseteq Synthetic
    /\ samples \subseteq [check: Checks, time: Nat]
    /\ live \subseteq Results
    /\ now \in 0..MaxTime /\ faults \in Nat /\ revoked \subseteq Groups

Init ==
    /\ log = [probe |-> <<>>, ingestor |-> <<>>]
    /\ committed = [g \in Groups |-> NoOffset]
    /\ owner = [g \in Groups |-> Nobody]
    /\ position = [g \in Groups |-> 0]
    /\ dirty = [g \in Groups |-> FALSE]
    /\ task = [w \in Workers |-> Idle]
    /\ odd = {} /\ samples = {} /\ live = {} /\ now = 0 /\ faults = 0 /\ revoked = {}

----------------------------------------------------------------------------
(* Environment: time, targets, the scheduler, Kafka.                       *)

Tick ==
    /\ now < MaxTime
    /\ now' = now + 1
    /\ UNCHANGED <<kafka, progress, task, odd, samples, live, faults, revoked>>

TargetChanges(c) ==
    /\ c \in Synthetic
    /\ odd' = IF c \in odd THEN odd \ {c} ELSE odd \union {c}
    /\ UNCHANGED <<kafka, progress, task, samples, live, now, faults, revoked>>

(* A job of JobScheduler.                                                  *)
DispatchJob(c) ==
    /\ Len(log.probe) < MaxJobs
    /\ log' = [log EXCEPT !.probe = Append(@, [check |-> c])]
    /\ UNCHANGED <<committed, owner, progress, task, odd, samples, live, now,
                   faults, revoked>>

\* Mutant of Assign: the group's offset is ignored.
AssignAtEnd(g, w) ==
    /\ owner[g] = Nobody
    /\ task[w].stage = "idle"
    /\ owner' = [owner EXCEPT ![g] = w]
    /\ position' = [position EXCEPT ![g] = Len(log[g])]
    /\ dirty' = [dirty EXCEPT ![g] = FALSE]
    /\ UNCHANGED <<log, committed, task, odd, samples, live, now, faults, revoked>>

(* A group without an offset starts at the end (fromBeginning: false).     *)
Assign(g, w) ==
    /\ owner[g] = Nobody
    /\ task[w].stage = "idle"
    /\ owner' = [owner EXCEPT ![g] = w]
    /\ position' = [position EXCEPT ![g] =
            IF committed[g] = NoOffset THEN Len(log[g]) ELSE committed[g]]
    /\ dirty' = [dirty EXCEPT ![g] = FALSE]
    /\ UNCHANGED <<log, committed, task, odd, samples, live, now, faults, revoked>>

(* A rebalance; a message being handled is handled to its end.             *)
Revoke(g) ==
    /\ owner[g] # Nobody
    /\ faults < MaxFaults
    /\ faults' = faults + 1
    /\ owner' = [owner EXCEPT ![g] = Nobody]
    /\ revoked' = IF task[owner[g]].stage = "idle" THEN revoked
                                                   ELSE revoked \union {g}
    /\ UNCHANGED <<log, committed, progress, task, odd, samples, live, now>>

Commit(g) ==
    /\ dirty[g]
    /\ owner[g] # Nobody
    /\ task[owner[g]].stage = "idle"
    /\ committed' = [committed EXCEPT ![g] = position[g]]
    /\ dirty' = [dirty EXCEPT ![g] = FALSE]
    /\ UNCHANGED <<log, owner, position, task, odd, samples, live, now,
                   faults, revoked>>

----------------------------------------------------------------------------
(* The eachMessage loop of either group.                                   *)

EachMessage(w) ==
    LET g == GroupOf(w)
    IN  /\ task[w].stage = "idle"
        /\ owner[g] = w
        /\ position[g] < Len(log[g])
        /\ task' = [task EXCEPT ![w] =
                [stage |-> IF g = "probe" THEN "run" ELSE "upsert",
                 off |-> position[g], msg |-> log[g][position[g] + 1]]]
        /\ UNCHANGED <<kafka, progress, odd, samples, live, now, faults, revoked>>

(* The handler returns; the offset is resolved if the partition is still   *)
(* the worker's.                                                           *)
Return(w) ==
    LET g == GroupOf(w)
    IN  /\ task' = [task EXCEPT ![w] = Idle]
        /\ IF owner[g] = w
           THEN /\ position' = [position EXCEPT ![g] = task[w].off + 1]
                /\ dirty' = [dirty EXCEPT ![g] = TRUE]
           ELSE UNCHANGED progress

Retry(w) == task' = [task EXCEPT ![w] = Idle]

\* Mutant of HandlerThrows: the error is swallowed.
HandlerSwallows(w) ==
    /\ task[w].stage # "idle"
    /\ faults < MaxFaults
    /\ faults' = faults + 1
    /\ Return(w)
    /\ UNCHANGED <<kafka, odd, samples, live, now, revoked>>

(* An awaited call rejects: the message is handled again.                  *)
HandlerThrows(w) ==
    /\ task[w].stage # "idle"
    /\ faults < MaxFaults
    /\ faults' = faults + 1
    /\ Retry(w)
    /\ UNCHANGED <<kafka, progress, odd, samples, live, now, revoked>>

Crash(w) ==
    /\ faults < MaxFaults
    /\ faults' = faults + 1
    /\ Retry(w)
    /\ owner' = [g \in Groups |-> IF owner[g] = w THEN Nobody ELSE owner[g]]
    /\ UNCHANGED <<log, committed, progress, odd, samples, live, now, revoked>>

----------------------------------------------------------------------------
(* The probe: runJob, then send.                                           *)

Sample(w) == [check |-> task[w].msg.check, time |-> now, job |-> task[w].off]

(* An executor turns what went wrong into a failing sample, with two       *)
(* exceptions.  The synthetic one also puts the status it last saw into    *)
(* that sample: when the status made the sample invalid, so does it make   *)
(* the failing one.  And net.createConnection throws for a port above      *)
(* 65535 before the tcp executor listens for errors.  Either way the       *)
(* handler throws, and does at every redelivery while that lasts: for a    *)
(* port, for ever.                                                         *)
Unsayable(c) == c \in odd \/ c \in Unconnectable

RunJob(w) ==
    LET c == task[w].msg.check
    IN  /\ task[w].stage = "run"
        /\ IF Unsayable(c)
           THEN Retry(w)
           ELSE task' = [task EXCEPT ![w].stage = "send", ![w].msg = Sample(w)]
        /\ UNCHANGED <<kafka, progress, odd, samples, live, now, faults, revoked>>

\* Mutant of SendResult: without the key of its check a result may come before
\* earlier ones that are still to be consumed.
SendResultUnkeyed(w) ==
    /\ task[w].stage = "send"
    /\ \E n \in position["ingestor"]..Len(log.ingestor) :
          log' = [log EXCEPT !.ingestor =
                    SubSeq(@, 1, n) \o <<task[w].msg>> \o SubSeq(@, n + 1, Len(@))]
    /\ Return(w)
    /\ UNCHANGED <<committed, owner, odd, samples, live, now, faults, revoked>>

SendResult(w) ==
    /\ task[w].stage = "send"
    /\ log' = [log EXCEPT !.ingestor = Append(@, task[w].msg)]
    /\ Return(w)
    /\ UNCHANGED <<committed, owner, odd, samples, live, now, faults, revoked>>

----------------------------------------------------------------------------
(* The ingestor: ingest.                                                   *)

Upsert(w) ==
    LET r == task[w].msg
    IN  /\ task[w].stage = "upsert"
        /\ samples' = samples \union {Row(r)}
        /\ task' = [task EXCEPT ![w].stage = "publish"]
        /\ UNCHANGED <<kafka, progress, odd, live, now, faults, revoked>>

Publish(w) ==
    /\ task[w].stage = "publish"
    /\ live' = live \union {task[w].msg}
    /\ Return(w)
    /\ UNCHANGED <<kafka, odd, samples, now, faults, revoked>>

Handle(w) ==
    \/ EachMessage(w)
    \/ RunJob(w)
    \/ SendResult(w)
    \/ Upsert(w)
    \/ Publish(w)

(* The bounds of the model are used up and all is handled.                 *)
Rest ==
    /\ now = MaxTime
    /\ \A w \in Workers : task[w] = Idle
    /\ \A g \in Groups :
          owner[g] # Nobody /\ position[g] = Len(log[g]) /\ ~dirty[g]
    /\ UNCHANGED vars

Next ==
    \/ Tick
    \/ \E c \in Checks : TargetChanges(c) \/ DispatchJob(c)
    \/ \E g \in Groups :
          \/ \E w \in Members(g) : Assign(g, w)
          \/ Revoke(g)
          \/ Commit(g)
    \/ \E w \in Workers : Handle(w) \/ HandlerThrows(w) \/ Crash(w)
    \/ Rest

Spec == Init /\ [][Next]_vars

(* Handlers run on, the broker assigns what is free, the client commits;   *)
(* nothing obliges time, targets or the scheduler.                         *)
FairSpec ==
    /\ Spec
    /\ \A w \in Workers : WF_vars(Handle(w))
    /\ \A g \in Groups :
          WF_vars(\E w \in Members(g) : Assign(g, w)) /\ WF_vars(Commit(g))

----------------------------------------------------------------------------
(* Safety.                                                                 *)

(* A commit of either group covers only work that reached its end: a job   *)
(* whose result is in the topic, a result whose row is stored and which    *)
(* live viewers were sent (probe.service.ts:36-53,                         *)
(* samples.service.ts:22-29).                                              *)
Finished(g, o) ==
    IF g = "probe"
    THEN \E i \in 1..Len(log.ingestor) : log.ingestor[i].job = o
    ELSE LET r == log.ingestor[o + 1]
         IN  r \in live /\ Row(r) \in samples

CommitsCoverFinishedWork ==
    [][\A g \in Groups :
        committed[g] # NoOffset =>
            \A o \in committed[g]..(committed'[g] - 1) : Finished(g, o)]_vars

(* The results of a check enter their topic in the order of their times,   *)
(* jobs run twice included, as long as no probe lost its partition in the  *)
(* middle of a job: consumers may take the last one for the latest.        *)
ResultsInOrder ==
    "probe" \notin revoked =>
        \A i, j \in 1..Len(log.ingestor) :
            i < j /\ log.ingestor[i].check = log.ingestor[j].check
                => log.ingestor[i].time <= log.ingestor[j].time

----------------------------------------------------------------------------
(* Liveness.                                                               *)

(* A job waits behind one that can never be run, or is one, when the       *)
(* group's offset has not passed it.                                       *)
Blocked(o) ==
    \E p \in committed["probe"]..o : log.probe[p + 1].check \in Unconnectable

(* Every job still to be run, or whose result is still to be stored, ends  *)
(* as a stored row that live viewers were sent, whatever crashes and       *)
(* rebalances come first, once both groups have an offset, unless some     *)
(* target goes on making its samples invalid (synthetic.executor.ts:82-93) *)
(* or a job at or before it has a port that cannot be connected to         *)
(* (tcp.executor.ts:26): that one, and all behind it, wait.                *)
ToBeDone(o) ==
    /\ o < Len(log.probe)
    /\ committed["probe"] # NoOffset /\ committed["probe"] <= o
    /\ committed["ingestor"] # NoOffset
    /\ \A i \in 1..committed["ingestor"] : log.ingestor[i].job # o

EveryJobIsShown ==
    (<>[](odd = {})) =>
        \A o \in 0..(MaxJobs - 1) :
            ToBeDone(o) /\ ~Blocked(o) ~> \E r \in live : r.job = o /\ Row(r) \in samples

============================================================================
