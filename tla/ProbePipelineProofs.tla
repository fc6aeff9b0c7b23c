------------------------ MODULE ProbePipelineProofs ------------------------
(***************************************************************************)
(* Proofs about ProbePipeline for any number of checks, probes, ingestors  *)
(* and jobs and any faults: an offset is committed only past work that was *)
(* finished, and results are published in the order of their jobs.         *)
(***************************************************************************)
EXTENDS ProbePipeline, TLAPS

USE ProbeAssumption DEF NoOffset

TaskStages == {"idle", "run", "send", "upsert", "publish"}

Tasks == [stage: TaskStages, off: Nat, msg: Jobs \union Results \union {NoMessage}]

\* The task of a worker is about a message of its group's topic.
TaskOK(w) ==
    task[w].stage # "idle" =>
        /\ task[w].off < Len(log[GroupOf(w)])
        /\ \/ w \in Probes /\ task[w].stage = "run" /\ task[w].msg \in Jobs
           \/ w \in Probes /\ task[w].stage = "send" /\ task[w].msg \in Results
                 /\ task[w].msg.job = task[w].off
           \/ /\ w \in Ingestors /\ task[w].stage \in {"upsert", "publish"}
              /\ task[w].msg = log.ingestor[task[w].off + 1]
              /\ task[w].stage = "publish" => Row(task[w].msg) \in samples

Typed ==
    /\ log \in [probe: Seq(Jobs), ingestor: Seq(Results)]
    /\ committed \in [Groups -> Nat \union {NoOffset}]
    /\ DOMAIN owner = Groups
    /\ \A g \in Groups : owner[g] \in Members(g) \union {Nobody}
    /\ position \in [Groups -> Nat]
    /\ \A g \in Groups : position[g] <= Len(log[g]) /\ committed[g] <= Len(log[g])
    /\ task \in [Workers -> Tasks]
    /\ now \in 0..MaxTime
    /\ \A w \in Workers : TaskOK(w)

\* An owner works at its position, and up to there all is finished.
OffsetInv ==
    \A g \in Groups : owner[g] # Nobody =>
        /\ task[owner[g]].stage # "idle" => task[owner[g]].off = position[g]
        /\ committed[g] # NoOffset => \A o \in committed[g]..(position[g] - 1) : Finished(g, o)

Inv == Typed /\ OffsetInv

LEMMA GroupFacts ==
    /\ \A w \in Workers : GroupOf(w) \in Groups /\ w \in Members(GroupOf(w))
    /\ \A g \in Groups : Nobody \notin Members(g) /\ Members(g) \subseteq Workers
    /\ \A g \in Groups : \A w \in Members(g) : GroupOf(w) = g
BY DEF Groups, Workers, Members, GroupOf

LEMMA IdleTask == Idle \in Tasks /\ Idle.stage = "idle"
BY DEF Idle, Tasks, TaskStages

LEMMA InitInv == Init => Inv
<1> SUFFICES ASSUME Init PROVE Inv
  OBVIOUS
<1>1. log \in [probe: Seq(Jobs), ingestor: Seq(Results)]
  BY DEF Init
<1>2. \A g \in Groups : Len(log[g]) = 0
  BY DEF Init, Groups
<1>3. Typed
  BY <1>1, <1>2, IdleTask DEF Init, Typed, TaskOK, Idle
<1>4. QED
  BY <1>3 DEF Init, Inv, OffsetInv

----------------------------------------------------------------------------
(* What is finished stays so: topics, rows and what was shown only grow.   *)

Grows ==
    /\ \A g \in Groups : Len(log[g]) <= Len(log'[g])
    /\ \A i \in 1..Len(log.ingestor) : log'.ingestor[i] = log.ingestor[i]
    /\ samples \subseteq samples' /\ live \subseteq live'

LEMMA NothingGrows ==
    ASSUME Typed, UNCHANGED log, samples \subseteq samples', live \subseteq live'
    PROVE  Grows
BY DEF Typed, Grows, Groups

LEMMA FinishedStays ==
    ASSUME Typed, Typed', Grows, NEW g \in Groups, NEW o \in Nat, o < Len(log[g]), Finished(g, o)
    PROVE  Finished(g, o)'
<1>1. Len(log.ingestor) \in Nat /\ Len(log'.ingestor) \in Nat
      /\ Len(log.ingestor) <= Len(log'.ingestor)
  BY DEF Typed, Grows, Groups
<1>2. CASE g = "probe"
  <2>1. PICK i \in 1..Len(log.ingestor) : log.ingestor[i].job = o
    BY <1>2 DEF Finished
  <2>2. i \in 1..Len(log'.ingestor) /\ log'.ingestor[i] = log.ingestor[i]
    BY <1>1, <2>1 DEF Grows
  <2>3. QED
    BY <1>2, <2>1, <2>2 DEF Finished
<1>3. CASE g = "ingestor"
  BY <1>1, <1>3 DEF Finished, Grows
<1>4. QED
  BY <1>2, <1>3 DEF Groups

(* A worker whose task does not move keeps it well-formed.                 *)
LEMMA TaskKept ==
    ASSUME Typed, Grows, log' \in [probe: Seq(Jobs), ingestor: Seq(Results)],
           NEW w \in Workers, task'[w] = task[w]
    PROVE  TaskOK(w)'
<1>1. Len(log.ingestor) \in Nat /\ Len(log'.ingestor) \in Nat
      /\ Len(log.ingestor) <= Len(log'.ingestor)
  BY DEF Typed, Grows, Groups
<1>2. task[w].off \in Nat
  BY DEF Typed, Tasks
<1>3. task[w].stage # "idle" => task'[w].off < Len(log'[GroupOf(w)])
  <2>1. Len(log[GroupOf(w)]) <= Len(log'[GroupOf(w)])
        /\ Len(log[GroupOf(w)]) \in Nat /\ Len(log'[GroupOf(w)]) \in Nat
    BY GroupFacts DEF Typed, Grows, Groups
  <2>2. QED
    BY <1>2, <2>1 DEF Typed, TaskOK
<1>4. CASE task[w].stage \in {"upsert", "publish"}
  <2>1. /\ w \in Ingestors /\ task[w].off < Len(log.ingestor)
        /\ task[w].msg = log.ingestor[task[w].off + 1]
        /\ task[w].stage = "publish" => Row(task[w].msg) \in samples
    BY <1>4 DEF Typed, TaskOK, GroupOf
  <2>2. log'.ingestor[task[w].off + 1] = log.ingestor[task[w].off + 1]
    BY <1>1, <1>2, <2>1 DEF Grows
  <2>3. QED
    BY <1>3, <1>4, <2>1, <2>2 DEF TaskOK, Grows
<1>5. CASE task[w].stage \notin {"upsert", "publish"}
  BY <1>3, <1>5 DEF Typed, TaskOK
<1>6. QED
  BY <1>4, <1>5

(* Nor do offsets, positions and owners that are left alone lose anything. *)
LEMMA OffsetsKept ==
    ASSUME Typed, Typed', OffsetInv, Grows, UNCHANGED <<committed, position>>,
           \A g \in Groups : owner'[g] # Nobody =>
                /\ owner'[g] = owner[g]
                /\ task'[owner[g]].stage # "idle" => task'[owner[g]].off = position[g]
    PROVE  OffsetInv'
<1> SUFFICES ASSUME NEW g \in Groups, owner'[g] # Nobody, committed'[g] # NoOffset,
                    NEW o \in committed'[g]..(position'[g] - 1)
             PROVE  Finished(g, o)'
  BY DEF OffsetInv
<1>1. /\ committed[g] \in Nat /\ position[g] \in Nat /\ position[g] <= Len(log[g])
      /\ Len(log[g]) \in Nat
  BY DEF Typed, Groups
<1>2. o \in Nat /\ o < Len(log[g]) /\ Finished(g, o)
  BY <1>1 DEF OffsetInv
<1>3. QED
  BY <1>2, FinishedStays

----------------------------------------------------------------------------
(* Steps that leave topics alone.                                          *)

LEMMA QuietSteps ==
    ASSUME Inv,
           \/ Tick \/ Rest \/ UNCHANGED vars
           \/ \E c \in Checks : TargetChanges(c)
           \/ \E g \in Groups : Revoke(g)
           \/ \E w \in Workers : HandlerThrows(w) \/ Crash(w)
    PROVE  Inv'
<1>1. UNCHANGED <<log, committed, position, samples, live>>
  BY DEF Tick, Rest, TargetChanges, Revoke, HandlerThrows, Crash, vars, kafka, progress
<1>2. Grows
  BY <1>1, NothingGrows DEF Inv
<1>3. task' \in [Workers -> Tasks]
  BY IdleTask DEF Inv, Typed, Tick, Rest, TargetChanges, Revoke, HandlerThrows, Crash, Retry, vars
<1>4. \A w \in Workers : task'[w] = task[w] \/ task'[w].stage = "idle"
  BY IdleTask DEF Inv, Typed, Tick, Rest, TargetChanges, Revoke, HandlerThrows, Crash, Retry, vars
<1>5. /\ DOMAIN owner' = Groups
      /\ \A g \in Groups : owner'[g] = owner[g] \/ owner'[g] = Nobody
  BY DEF Inv, Typed, Tick, Rest, TargetChanges, Revoke, HandlerThrows, Crash, vars, kafka
<1>6. now' \in 0..MaxTime
  BY DEF Inv, Typed, Tick, Rest, TargetChanges, Revoke, HandlerThrows, Crash, vars
<1>7. \A w \in Workers : TaskOK(w)'
  BY <1>1, <1>2, <1>4, TaskKept DEF Inv, Typed, TaskOK
<1>8. Typed'
  BY <1>1, <1>3, <1>5, <1>6, <1>7 DEF Inv, Typed
<1>9. \A g \in Groups : owner'[g] # Nobody =>
          /\ owner'[g] = owner[g]
          /\ task'[owner[g]].stage # "idle" => task'[owner[g]].off = position[g]
  BY <1>4, <1>5, GroupFacts DEF Inv, Typed, OffsetInv
<1>10. QED
  BY <1>1, <1>2, <1>8, <1>9, OffsetsKept DEF Inv

LEMMA AssignKeeps ==
    ASSUME Inv, NEW g \in Groups, NEW w \in Members(g), Assign(g, w)
    PROVE  Inv'
<1>1. UNCHANGED <<log, committed, samples, live, task, now>> /\ Grows
  BY NothingGrows DEF Inv, Assign
<1>2. \A h \in Groups : Len(log[h]) \in Nat
  BY DEF Inv, Typed, Groups
<1>3. /\ owner' = [owner EXCEPT ![g] = w]
      /\ position' = [position EXCEPT ![g] =
            IF committed[g] = NoOffset THEN Len(log[g]) ELSE committed[g]]
      /\ task[w].stage = "idle"
  BY DEF Assign
<1>4. \A v \in Workers : TaskOK(v)'
  BY <1>1, TaskKept DEF Inv, Typed
<1>5. Typed'
  BY <1>1, <1>2, <1>3, <1>4 DEF Inv, Typed
<1>6. ASSUME NEW h \in Groups, owner'[h] # Nobody
      PROVE  /\ task'[owner'[h]].stage # "idle" => task'[owner'[h]].off = position'[h]
             /\ committed'[h] # NoOffset =>
                    \A o \in committed'[h]..(position'[h] - 1) : Finished(h, o)'
  <2>1. CASE h = g
    BY <1>1, <1>3, <2>1 DEF Inv, Typed
  <2>2. CASE h # g
    <3>1. owner'[h] = owner[h] /\ position'[h] = position[h]
      BY <1>3, <2>2 DEF Inv, Typed
    <3>2. ASSUME committed[h] # NoOffset, NEW o \in committed[h]..(position[h] - 1)
          PROVE  Finished(h, o)'
      <4>1. o \in Nat /\ o < Len(log[h]) /\ Finished(h, o)
        BY <1>2, <1>6, <3>1, <3>2 DEF Inv, Typed, OffsetInv
      <4>2. QED
        BY <1>1, <1>5, <4>1, FinishedStays DEF Inv
    <3>3. QED
      BY <1>1, <1>6, <3>1, <3>2 DEF Inv, OffsetInv
  <2>3. QED
    BY <2>1, <2>2
<1>7. QED
  BY <1>5, <1>6 DEF Inv, OffsetInv

LEMMA CommitKeeps ==
    ASSUME Inv, NEW g \in Groups, Commit(g)
    PROVE  Inv'
<1>1. UNCHANGED <<log, owner, position, samples, live, task, now>> /\ Grows
  BY NothingGrows DEF Inv, Commit
<1>2. committed' = [committed EXCEPT ![g] = position[g]]
  BY DEF Commit
<1>3. \A h \in Groups : Len(log[h]) \in Nat
  BY DEF Inv, Typed, Groups
<1>4. \A v \in Workers : TaskOK(v)'
  BY <1>1, TaskKept DEF Inv, Typed
<1>5. Typed'
  BY <1>1, <1>2, <1>3, <1>4 DEF Inv, Typed
<1>6. ASSUME NEW h \in Groups, owner'[h] # Nobody, committed'[h] # NoOffset,
             NEW o \in committed'[h]..(position'[h] - 1)
      PROVE  Finished(h, o)'
  <2>1. CASE h = g
    BY <1>1, <1>2, <1>6, <2>1 DEF Inv, Typed
  <2>2. CASE h # g
    <3>1. committed'[h] = committed[h]
      BY <1>2, <2>2 DEF Inv, Typed
    <3>2. o \in Nat /\ o < Len(log[h]) /\ Finished(h, o)
      BY <1>1, <1>3, <1>6, <3>1 DEF Inv, Typed, OffsetInv
    <3>3. QED
      BY <1>1, <1>5, <3>2, FinishedStays DEF Inv
  <2>3. QED
    BY <2>1, <2>2
<1>7. QED
  BY <1>1, <1>5, <1>6 DEF Inv, OffsetInv

----------------------------------------------------------------------------
(* Steps that add to a topic or handle a message.                          *)

LEMMA DispatchKeeps ==
    ASSUME Inv, NEW c \in Checks, DispatchJob(c)
    PROVE  Inv'
<1>1. [check |-> c] \in Jobs
  BY DEF Jobs
<1>2. /\ log' \in [probe: Seq(Jobs), ingestor: Seq(Results)]
      /\ log'.ingestor = log.ingestor
      /\ log'.probe = Append(log.probe, [check |-> c])
  <2>1. /\ log \in [probe: Seq(Jobs), ingestor: Seq(Results)]
        /\ log' = [log EXCEPT !.probe = Append(log.probe, [check |-> c])]
    BY DEF DispatchJob, Inv, Typed
  <2>2. Append(log.probe, [check |-> c]) \in Seq(Jobs)
    BY <1>1, <2>1
  <2>3. QED
    BY <2>1, <2>2
<1>3. /\ UNCHANGED <<committed, owner, position, samples, live, task, now>>
      /\ Len(log'.probe) = Len(log.probe) + 1 /\ Len(log.probe) \in Nat
  BY <1>1, <1>2 DEF DispatchJob, progress, Inv, Typed
<1>4. Grows
  BY <1>2, <1>3 DEF Grows, Groups, Inv, Typed
<1>5. \A v \in Workers : TaskOK(v)'
  BY <1>2, <1>3, <1>4, TaskKept DEF Inv
<1>6. \A g \in Groups : Len(log[g]) \in Nat /\ Len(log'[g]) \in Nat
  BY <1>2 DEF Inv, Typed, Groups
<1>7. \A g \in Groups : position'[g] <= Len(log'[g]) /\ committed'[g] <= Len(log'[g])
  <2>1. \A g \in Groups : /\ position[g] \in Nat /\ position[g] <= Len(log[g])
                         /\ committed[g] \in Int /\ committed[g] <= Len(log[g])
    BY DEF Inv, Typed
  <2>2. \A g \in Groups : Len(log[g]) <= Len(log'[g])
    BY <1>4 DEF Grows
  <2>3. QED
    BY <1>3, <1>6, <2>1, <2>2
<1>8. Typed'
  BY <1>2, <1>3, <1>5, <1>7 DEF Inv, Typed
<1>9. QED
  BY <1>3, <1>4, <1>8, OffsetsKept DEF Inv, OffsetInv

LEMMA EachMessageKeeps ==
    ASSUME Inv, NEW w \in Workers, EachMessage(w)
    PROVE  Inv'
<1> DEFINE g == GroupOf(w)
<1>1. UNCHANGED <<log, committed, owner, position, samples, live, now>> /\ Grows
  BY NothingGrows DEF Inv, EachMessage, kafka, progress
<1>2. /\ task[w].stage = "idle" /\ owner[g] = w
      /\ position[g] \in Nat /\ position[g] < Len(log[g]) /\ g \in Groups
      /\ task' = [task EXCEPT ![w] =
            [stage |-> IF g = "probe" THEN "run" ELSE "upsert",
             off |-> position[g], msg |-> log[g][position[g] + 1]]]
  BY GroupFacts DEF EachMessage, Inv, Typed
<1>3. log[g][position[g] + 1] \in (IF g = "probe" THEN Jobs ELSE Results)
  BY <1>2 DEF Inv, Typed, Groups
<1>4. task' \in [Workers -> Tasks]
  BY <1>2, <1>3 DEF Inv, Typed, Tasks, TaskStages
<1>5. TaskOK(w)'
  BY <1>1, <1>2, <1>3 DEF Inv, Typed, TaskOK, GroupOf, Workers
<1>6. \A v \in Workers : v # w => task'[v] = task[v]
  BY <1>2 DEF Inv, Typed
<1>7. \A v \in Workers : TaskOK(v)'
  BY <1>1, <1>5, <1>6, TaskKept DEF Inv, Typed
<1>8. Typed'
  BY <1>1, <1>4, <1>7 DEF Inv, Typed
<1>9. task'[w].off = position[g]
  BY <1>2 DEF Inv, Typed
<1>10. \A h \in Groups : owner[h] # Nobody /\ owner[h] = w => h = g
  BY GroupFacts DEF Inv, Typed
<1>11. \A h \in Groups : owner[h] # Nobody =>
          (task'[owner[h]].stage # "idle" => task'[owner[h]].off = position[h])
  BY <1>6, <1>9, <1>10, GroupFacts DEF Inv, Typed, OffsetInv
<1>12. QED
  BY <1>1, <1>8, <1>11, OffsetsKept DEF Inv

(* The handler goes on to its next stage, or leaves the message for later. *)
LEMMA RunJobKeeps ==
    ASSUME Inv, NEW w \in Workers, RunJob(w)
    PROVE  Inv'
<1>1. UNCHANGED <<log, committed, owner, position, samples, live, now>> /\ Grows
  BY NothingGrows DEF Inv, RunJob, kafka, progress
<1>2. /\ task[w].stage = "run" /\ w \in Probes /\ task[w].msg \in Jobs
      /\ task[w] \in Tasks
  BY DEF RunJob, Inv, Typed, TaskOK
<1>3. Sample(w) \in Results /\ Sample(w).job = task[w].off
  BY <1>2 DEF Sample, Results, Jobs, Tasks, Inv, Typed
<1>4. \/ task' = [task EXCEPT ![w] = Idle]
      \/ task' = [task EXCEPT ![w].stage = "send", ![w].msg = Sample(w)]
  BY DEF RunJob, Retry
<1>5. \A v \in Workers : v # w => task'[v] = task[v]
  BY <1>4 DEF Inv, Typed
<1>6. /\ task'[w] \in Tasks
      /\ \/ task'[w].stage = "idle"
         \/ /\ task'[w].stage = "send" /\ task'[w].msg = Sample(w)
            /\ task'[w].off = task[w].off
  BY <1>2, <1>3, <1>4, IdleTask DEF Inv, Typed, Tasks, TaskStages
<1>7. task' \in [Workers -> Tasks] /\ TaskOK(w)'
  <2>1. task' \in [Workers -> Tasks]
    BY <1>4, <1>5, <1>6 DEF Inv, Typed
  <2>2. task[w].off < Len(log[GroupOf(w)])
    BY <1>2 DEF Inv, Typed, TaskOK
  <2>3. TaskOK(w)'
    BY <1>1, <1>2, <1>3, <1>6, <2>2 DEF TaskOK
  <2>4. QED
    BY <2>1, <2>3
<1>8. \A v \in Workers : TaskOK(v)'
  BY <1>1, <1>5, <1>7, TaskKept DEF Inv, Typed
<1>9. Typed'
  BY <1>1, <1>7, <1>8 DEF Inv, Typed
<1>10. \A h \in Groups : owner[h] # Nobody =>
          (task'[owner[h]].stage # "idle" => task'[owner[h]].off = position[h])
  BY <1>2, <1>5, <1>6, GroupFacts DEF Inv, Typed, OffsetInv
<1>11. QED
  BY <1>1, <1>9, <1>10, OffsetsKept DEF Inv

LEMMA UpsertKeeps ==
    ASSUME Inv, NEW w \in Workers, Upsert(w)
    PROVE  Inv'
<1>1. /\ UNCHANGED <<log, committed, owner, position, live, now>>
      /\ samples' = samples \union {Row(task[w].msg)}
      /\ task' = [task EXCEPT ![w].stage = "publish"]
      /\ task[w].stage = "upsert" /\ task[w] \in Tasks
  BY DEF Inv, Typed, Upsert, kafka, progress
<1>2. Grows
  BY <1>1, NothingGrows DEF Inv
<1>3. \A v \in Workers : v # w => task'[v] = task[v]
  BY <1>1 DEF Inv, Typed
<1>4. /\ task'[w] \in Tasks /\ task'[w].stage = "publish"
      /\ task'[w].msg = task[w].msg /\ task'[w].off = task[w].off
  BY <1>1 DEF Inv, Typed, Tasks, TaskStages
<1>5. task' \in [Workers -> Tasks] /\ TaskOK(w)'
  <2>1. task' \in [Workers -> Tasks]
    BY <1>1, <1>3, <1>4 DEF Inv, Typed
  <2>2. /\ w \in Ingestors /\ task[w].off < Len(log[GroupOf(w)])
        /\ task[w].msg = log.ingestor[task[w].off + 1]
    BY <1>1 DEF Inv, Typed, TaskOK
  <2>3. TaskOK(w)'
    BY <1>1, <1>4, <2>2 DEF TaskOK
  <2>4. QED
    BY <2>1, <2>3
<1>6. \A v \in Workers : TaskOK(v)'
  BY <1>1, <1>2, <1>3, <1>5, TaskKept DEF Inv, Typed
<1>7. Typed'
  BY <1>1, <1>5, <1>6 DEF Inv, Typed
<1>8. \A h \in Groups : owner[h] # Nobody =>
          (task'[owner[h]].stage # "idle" => task'[owner[h]].off = position[h])
  BY <1>1, <1>3, <1>4, GroupFacts DEF Inv, Typed, OffsetInv
<1>9. QED
  BY <1>1, <1>2, <1>7, <1>8, OffsetsKept DEF Inv

(* A handler returns: what it worked on is finished.                       *)
LEMMA ReturnKeeps ==
    ASSUME Inv, Grows, NEW w \in Workers, Return(w), UNCHANGED <<committed, owner, now>>,
           task[w].stage # "idle", NEW n \in Nat, n = task[w].off,
           log' \in [probe: Seq(Jobs), ingestor: Seq(Results)],
           Finished(GroupOf(w), n)'
    PROVE  Inv'
<1> DEFINE g == GroupOf(w)
<1>1. g \in Groups /\ n < Len(log[g])
  BY GroupFacts DEF Inv, Typed, TaskOK
<1>2. \A h \in Groups : /\ Len(log[h]) \in Nat /\ Len(log'[h]) \in Nat
                       /\ Len(log[h]) <= Len(log'[h])
  BY DEF Inv, Typed, Groups, Grows
<1>3. /\ task' = [task EXCEPT ![w] = Idle]
      /\ position' = IF owner[g] = w THEN [position EXCEPT ![g] = n + 1] ELSE position
  BY DEF Return, progress
<1>4. /\ task' \in [Workers -> Tasks] /\ task'[w].stage = "idle"
      /\ \A v \in Workers : v # w => task'[v] = task[v]
  BY <1>3, IdleTask DEF Inv, Typed
<1>5. \A v \in Workers : TaskOK(v)'
  BY <1>4, TaskKept DEF Inv, TaskOK
<1>6. /\ position' \in [Groups -> Nat]
      /\ \A h \in Groups : position'[h] <= Len(log'[h]) /\ committed'[h] <= Len(log'[h])
  <2>1. \A h \in Groups : /\ position[h] \in Nat /\ position[h] <= Len(log[h])
                         /\ committed[h] \in Int /\ committed[h] <= Len(log[h])
    BY DEF Inv, Typed
  <2>2. \A h \in Groups :
            position'[h] = position[h] \/ (h = g /\ position'[h] = n + 1)
    BY <1>3 DEF Inv, Typed
  <2>3. position' \in [Groups -> Nat]
    BY <1>1, <1>3 DEF Inv, Typed
  <2>4. n + 1 <= Len(log[g])
    BY <1>1, <1>2
  <2>5. ASSUME NEW h \in Groups PROVE position'[h] <= Len(log'[h])
    <3>1. Len(log[h]) \in Nat /\ Len(log'[h]) \in Nat /\ Len(log[h]) <= Len(log'[h])
      BY <1>2
    <3>2. CASE position'[h] = position[h]
      BY <2>1, <3>1, <3>2
    <3>3. CASE h = g /\ position'[h] = n + 1
      BY <2>4, <3>1, <3>3
    <3>4. QED
      BY <2>2, <3>2, <3>3
  <2>6. ASSUME NEW h \in Groups PROVE committed'[h] <= Len(log'[h])
    BY <1>2, <2>1
  <2>7. QED
    BY <2>3, <2>5, <2>6
<1>7. Typed'
  BY <1>4, <1>5, <1>6 DEF Inv, Typed
<1>8. ASSUME NEW h \in Groups, owner[h] # Nobody
      PROVE  task'[owner[h]].stage # "idle" => task'[owner[h]].off = position'[h]
  <2>1. CASE owner[h] = w
    BY <1>4, <2>1
  <2>2. CASE owner[h] # w
    <3>1. position'[h] = position[h]
      BY <1>3, <2>2 DEF Inv, Typed
    <3>2. QED
      BY <1>4, <1>8, <2>2, <3>1, GroupFacts DEF Inv, Typed, OffsetInv
  <2>3. QED
    BY <2>1, <2>2
<1>9. ASSUME NEW h \in Groups, owner[h] # Nobody, committed[h] # NoOffset,
             NEW o \in committed[h]..(position'[h] - 1)
      PROVE  Finished(h, o)'
  <2>1. committed[h] \in Nat /\ position[h] \in Nat /\ position[h] <= Len(log[h]) /\ o \in Nat
    BY <1>6, <1>9 DEF Inv, Typed
  <2>2. o < position[h] \/ (h = g /\ o = n)
    <3>1. CASE position'[h] = position[h]
      BY <1>9, <2>1, <3>1
    <3>2. CASE position'[h] # position[h]
      <4>1. h = g /\ owner[g] = w /\ position'[h] = n + 1
        BY <1>3, <3>2 DEF Inv, Typed
      <4>2. n = position[h]
        BY <1>9, <4>1 DEF Inv, OffsetInv
      <4>3. QED
        BY <1>1, <1>9, <2>1, <4>1, <4>2
    <3>3. QED
      BY <3>1, <3>2
  <2>3. CASE o < position[h]
    <3>1. Finished(h, o) /\ o < Len(log[h])
      BY <1>2, <1>9, <2>1, <2>3 DEF Inv, OffsetInv
    <3>2. QED
      BY <1>7, <2>1, <3>1, FinishedStays DEF Inv
  <2>4. QED
    BY <2>2, <2>3
<1>10. QED
  BY <1>7, <1>8, <1>9 DEF Inv, OffsetInv

LEMMA SendKeeps ==
    ASSUME Inv, NEW w \in Workers, SendResult(w)
    PROVE  Inv' /\ Grows
<1> DEFINE r == task[w].msg
<1>1. /\ w \in Probes /\ GroupOf(w) = "probe" /\ r \in Results /\ r.job = task[w].off
      /\ task[w].stage = "send" /\ Return(w) /\ UNCHANGED <<committed, owner, samples, live, now>>
  BY DEF SendResult, Inv, Typed, TaskOK, GroupOf
<1>2. /\ log \in [probe: Seq(Jobs), ingestor: Seq(Results)]
      /\ log' = [log EXCEPT !.ingestor = Append(log.ingestor, r)]
  BY DEF SendResult, Inv, Typed
<1>3. /\ Append(log.ingestor, r) \in Seq(Results)
      /\ Len(Append(log.ingestor, r)) = Len(log.ingestor) + 1 /\ Len(log.ingestor) \in Nat
      /\ Append(log.ingestor, r)[Len(log.ingestor) + 1] = r
      /\ \A i \in 1..Len(log.ingestor) : Append(log.ingestor, r)[i] = log.ingestor[i]
  BY <1>1, <1>2
<1>4. /\ log' \in [probe: Seq(Jobs), ingestor: Seq(Results)]
      /\ log'.probe = log.probe /\ log'.ingestor = Append(log.ingestor, r)
  BY <1>2, <1>3
<1>5. Grows
  BY <1>1, <1>3, <1>4 DEF Grows, Groups, Inv, Typed
<1>6. PICK n \in Nat : n = task[w].off
  BY DEF Inv, Typed, Tasks
<1>7. Finished("probe", n)'
  <2>1. Len(log.ingestor) + 1 \in 1..Len(log'.ingestor)
    BY <1>3, <1>4
  <2>2. log'.ingestor[Len(log.ingestor) + 1].job = n
    BY <1>1, <1>3, <1>4, <1>6
  <2>3. QED
    BY <2>1, <2>2 DEF Finished
<1>8. QED
  BY <1>1, <1>4, <1>5, <1>6, <1>7, ReturnKeeps

LEMMA PublishKeeps ==
    ASSUME Inv, NEW w \in Workers, Publish(w)
    PROVE  Inv' /\ Grows
<1> DEFINE r == task[w].msg
<1>1. /\ task[w].stage = "publish" /\ Return(w) /\ live' = live \union {r}
      /\ UNCHANGED <<log, committed, owner, samples, now>>
  BY DEF Publish, kafka
<1>2. PICK n \in Nat : n = task[w].off
  BY DEF Inv, Typed, Tasks
<1>3. /\ GroupOf(w) = "ingestor" /\ r = log.ingestor[n + 1] /\ Row(r) \in samples
  BY <1>1, <1>2 DEF Inv, Typed, TaskOK, GroupOf
<1>4. Grows
  BY <1>1, NothingGrows DEF Inv
<1>5. Finished("ingestor", n)'
  BY <1>1, <1>3 DEF Finished
<1>6. QED
  BY <1>1, <1>2, <1>3, <1>4, <1>5, ReturnKeeps DEF Inv, Typed

LEMMA NextKeeps ==
    ASSUME Inv, [Next]_vars
    PROVE  Inv'
<1>1. ASSUME NEW g \in Groups, (\E w \in Members(g) : Assign(g, w)) \/ Revoke(g) \/ Commit(g)
      PROVE  Inv'
  BY <1>1, AssignKeeps, CommitKeeps, QuietSteps
<1>2. ASSUME NEW w \in Workers, Handle(w) PROVE Inv'
  BY <1>2, EachMessageKeeps, RunJobKeeps, SendKeeps, UpsertKeeps, PublishKeeps DEF Handle
<1>3. QED
  BY <1>1, <1>2, QuietSteps, DispatchKeeps DEF Next

(* Offsets and tasks are in order whatever crashes, fails and moves.       *)
THEOREM OffsetInvariant == Spec => []OffsetInv
<1>1. Inv => OffsetInv
  BY DEF Inv
<1>2. QED
  BY <1>1, InitInv, NextKeeps, PTL DEF Spec

(* What a commit adds to an offset was finished before it: the result of a *)
(* job is in its topic, the row of a result stored and shown               *)
(* (probe.service.ts:36-53, samples.service.ts:22-29).                     *)
THEOREM CommitsAreEarned == Spec => CommitsCoverFinishedWork
<1> DEFINE Earned == \A g \in Groups : committed[g] # NoOffset =>
                        \A o \in committed[g]..(committed'[g] - 1) : Finished(g, o)
<1>1. Inv /\ [Next]_vars => [Earned]_vars
  <2> SUFFICES ASSUME Inv, Next, NEW g \in Groups, committed[g] # NoOffset,
                      NEW o \in committed[g]..(committed'[g] - 1)
               PROVE  Finished(g, o)
    OBVIOUS
  <2>1. CASE Commit(g)
    BY <2>1, GroupFacts DEF Commit, Inv, Typed, OffsetInv
  <2>2. CASE ~Commit(g)
    <3>1. committed'[g] = committed[g]
      BY <2>2 DEF Next, Tick, TargetChanges, DispatchJob, Assign, Revoke, Commit, Handle,
                  EachMessage, RunJob, SendResult, Upsert, Publish, HandlerThrows, Crash,
                  Rest, kafka, vars, Inv, Typed
    <3>2. QED
      BY <3>1 DEF Inv, Typed
  <2>3. QED
    BY <2>1, <2>2
<1>2. Spec => []Inv
  BY InitInv, NextKeeps, PTL DEF Spec
<1>3. QED
  BY <1>1, <1>2, PTL DEF Spec, CommitsCoverFinishedWork

----------------------------------------------------------------------------
(* The order of results.  As long as no probe lost its partition in the    *)
(* middle of a job, the one that has it is the only one at work; the sample*)
(* it is about to send was taken after every result sent so far.           *)

\* All the topic of results holds was taken before now.
NothingFromTheFuture ==
    /\ \A i \in 1..Len(log.ingestor) : log.ingestor[i].time <= now
    /\ \A w \in Probes : task[w].stage = "send" => task[w].msg.time <= now

OwnersWorkAlone == \A w \in Probes : task[w].stage # "idle" => owner["probe"] = w

InOrder ==
    /\ \A i, j \in 1..Len(log.ingestor) :
            i < j => log.ingestor[i].time <= log.ingestor[j].time
    /\ \A w \in Probes : task[w].stage = "send" =>
            \A i \in 1..Len(log.ingestor) : log.ingestor[i].time <= task[w].msg.time

OrderInv ==
    /\ NothingFromTheFuture
    /\ "probe" \notin revoked => OwnersWorkAlone /\ InOrder

LEMMA ProbeFacts ==
    /\ \A w \in Probes : w \in Workers /\ w # Nobody /\ GroupOf(w) = "probe"
    /\ \A w \in Ingestors : w \notin Probes /\ GroupOf(w) = "ingestor"
    /\ "probe" \in Groups
BY DEF Workers, GroupOf, Groups

LEMMA TimesAreNumbers ==
    ASSUME Typed
    PROVE  /\ now \in Nat /\ Len(log.ingestor) \in Nat
           /\ \A i \in 1..Len(log.ingestor) : log.ingestor[i].time \in Nat
           /\ \A w \in Probes : task[w].stage = "send" => task[w].msg.time \in Nat
<1>1. now \in Nat /\ Len(log.ingestor) \in Nat
  BY DEF Typed
<1>2. \A i \in 1..Len(log.ingestor) : log.ingestor[i] \in Results
  BY DEF Typed
<1>3. \A w \in Probes : task[w].stage = "send" => task[w].msg \in Results
  BY DEF Typed, TaskOK, Workers
<1>4. QED
  BY <1>1, <1>2, <1>3 DEF Results

(* Steps that send no result and take no sample.                           *)
LEMMA OrderUntouched ==
    ASSUME Typed, OrderInv, log'.ingestor = log.ingestor, now' \in Nat, now <= now',
           revoked \subseteq revoked',
           \A w \in Probes : task'[w] = task[w] \/ task'[w].stage \in {"idle", "run"},
           "probe" \notin revoked' => OwnersWorkAlone'
    PROVE  OrderInv'
<1>1. NothingFromTheFuture'
  <2>1. ASSUME NEW i \in 1..Len(log.ingestor) PROVE log.ingestor[i].time <= now'
    BY TimesAreNumbers DEF OrderInv, NothingFromTheFuture
  <2>2. ASSUME NEW w \in Probes, task'[w].stage = "send" PROVE task'[w].msg.time <= now'
    BY <2>2, TimesAreNumbers DEF OrderInv, NothingFromTheFuture
  <2>3. QED
    BY <2>1, <2>2 DEF NothingFromTheFuture
<1>2. ASSUME "probe" \notin revoked' PROVE InOrder'
  BY <1>2 DEF OrderInv, InOrder
<1>3. QED
  BY <1>1, <1>2 DEF OrderInv

LEMMA EnvironmentKeepsOrder ==
    ASSUME Inv, OrderInv,
           \/ Tick \/ Rest \/ UNCHANGED vars
           \/ \E c \in Checks : TargetChanges(c) \/ DispatchJob(c)
           \/ \E g \in Groups : (\E w \in Members(g) : Assign(g, w)) \/ Revoke(g) \/ Commit(g)
    PROVE  OrderInv'
<1>1. now \in Nat /\ now' \in Nat /\ now <= now'
  <2>1. now \in Nat
    BY TimesAreNumbers DEF Inv
  <2>2. now' = now \/ now' = now + 1
    BY DEF Tick, Rest, TargetChanges, DispatchJob, Assign, Revoke, Commit, vars
  <2>3. QED
    BY <2>1, <2>2
<1>2. task' = task /\ log'.ingestor = log.ingestor
  BY DEF Tick, Rest, TargetChanges, DispatchJob, Assign, Revoke, Commit, vars, kafka,
         Inv, Typed
<1>3. revoked \subseteq revoked'
  BY DEF Tick, Rest, TargetChanges, DispatchJob, Assign, Revoke, Commit, vars
<1>4. ASSUME "probe" \notin revoked' PROVE OwnersWorkAlone'
  <2>1. OwnersWorkAlone
    BY <1>3, <1>4 DEF OrderInv
  <2>2. CASE owner'["probe"] = owner["probe"]
    BY <1>2, <2>1, <2>2 DEF OwnersWorkAlone
  <2>3. CASE owner["probe"] = Nobody
    BY <1>2, <2>1, <2>3, ProbeFacts DEF OwnersWorkAlone
  <2>4. CASE /\ owner["probe"] # Nobody /\ owner'["probe"] # owner["probe"]
    <3>1. Revoke("probe")
      <4>1. owner' # owner /\ DOMAIN owner = Groups
        BY <2>4 DEF Inv, Typed
      <4>2. \E g \in Groups : (\E w \in Members(g) : Assign(g, w)) \/ Revoke(g)
        BY <4>1 DEF Tick, Rest, TargetChanges, DispatchJob, Commit, vars, kafka
      <4>3. PICK g \in Groups : (\E w \in Members(g) : Assign(g, w)) \/ Revoke(g)
        BY <4>2
      <4>4. ASSUME NEW w, Assign(g, w) PROVE FALSE
        BY <2>4, <4>1, <4>4, ProbeFacts DEF Assign
      <4>5. CASE Revoke(g)
        BY <2>4, <4>1, <4>5, ProbeFacts DEF Revoke
      <4>6. QED
        BY <4>3, <4>4, <4>5
    <3>2. task[owner["probe"]].stage = "idle"
      BY <1>4, <3>1 DEF Revoke
    <3>3. QED
      BY <1>2, <2>1, <3>2 DEF OwnersWorkAlone
  <2>5. QED
    BY <2>2, <2>3, <2>4
<1>5. QED
  BY <1>1, <1>2, <1>3, <1>4, OrderUntouched DEF Inv

(* Handlers but those that take a sample or send it.                       *)
LEMMA OtherHandlersKeepOrder ==
    ASSUME Inv, OrderInv, NEW w \in Workers,
           EachMessage(w) \/ Upsert(w) \/ Publish(w) \/ HandlerThrows(w) \/ Crash(w)
    PROVE  OrderInv'
<1>1. UNCHANGED <<log, now, revoked>>
  BY DEF EachMessage, Upsert, Publish, HandlerThrows, Crash, kafka
<1>2. \A v \in Workers : v # w => task'[v] = task[v]
  BY DEF EachMessage, Upsert, Publish, HandlerThrows, Crash, Return, Retry, Inv, Typed
<1>3. CASE w \in Ingestors
  <2>1. \A v \in Probes : task'[v] = task[v] /\ v # w
    BY <1>2, <1>3, ProbeFacts
  <2>2. owner'["probe"] = owner["probe"]
    BY <1>3, GroupFacts, ProbeFacts
       DEF EachMessage, Upsert, Publish, HandlerThrows, Crash, kafka, Inv, Typed, Members
  <2>3. "probe" \notin revoked' => OwnersWorkAlone'
    BY <1>1, <2>1, <2>2 DEF OrderInv, OwnersWorkAlone
  <2>4. QED
    BY <1>1, <2>1, <2>3, TimesAreNumbers, OrderUntouched DEF Inv
<1>4. CASE w \in Probes
  <2>1. ~Upsert(w) /\ ~Publish(w)
    BY <1>4, ProbeFacts DEF Upsert, Publish, Inv, Typed, TaskOK
  <2>2. CASE EachMessage(w)
    <3>0. task \in [Workers -> Tasks] /\ GroupOf(w) = "probe"
      BY <1>4, ProbeFacts DEF Inv, Typed
    <3>a. /\ owner["probe"] = w /\ owner' = owner
          /\ task' = [task EXCEPT ![w] =
                [stage |-> "run", off |-> position["probe"],
                 msg |-> log["probe"][position["probe"] + 1]]]
      BY <2>2, <3>0 DEF EachMessage, kafka
    <3>1. task'[w].stage = "run" /\ owner["probe"] = w /\ owner' = owner
      BY <3>0, <3>a
    <3>2. "probe" \notin revoked' => OwnersWorkAlone'
      BY <1>1, <1>2, <3>1, ProbeFacts DEF OrderInv, OwnersWorkAlone
    <3>3. QED
      BY <1>1, <1>2, <3>1, <3>2, TimesAreNumbers, ProbeFacts, OrderUntouched DEF Inv
  <2>3. CASE HandlerThrows(w) \/ Crash(w)
    <3>1. task'[w].stage = "idle"
      BY <2>3, IdleTask DEF HandlerThrows, Crash, Retry, Inv, Typed
    <3>2. \A v \in Probes : v # w /\ owner["probe"] = v => owner'["probe"] = v
      BY <2>3, ProbeFacts DEF HandlerThrows, Crash, kafka
    <3>3. "probe" \notin revoked' => OwnersWorkAlone'
      BY <1>1, <1>2, <3>1, <3>2, ProbeFacts DEF OrderInv, OwnersWorkAlone
    <3>4. QED
      BY <1>1, <1>2, <3>1, <3>3, TimesAreNumbers, ProbeFacts, OrderUntouched DEF Inv
  <2>4. QED
    BY <2>1, <2>2, <2>3
<1>5. QED
  BY <1>3, <1>4 DEF Workers

(* A sample is taken now, when every result sent so far is in the past.    *)
LEMMA RunJobKeepsOrder ==
    ASSUME Inv, OrderInv, NEW w \in Workers, RunJob(w)
    PROVE  OrderInv'
<1>1. /\ UNCHANGED <<log, owner, now, revoked>>
      /\ w \in Probes /\ task[w] \in Tasks /\ task[w].stage = "run"
      /\ \A v \in Workers : v # w => task'[v] = task[v]
  BY DEF RunJob, Retry, kafka, Inv, Typed, TaskOK
<1>2. \/ task'[w].stage = "idle"
      \/ task'[w].stage = "send" /\ task'[w].msg.time = now
  BY <1>1, IdleTask DEF RunJob, Retry, Sample, Inv, Typed, Tasks
<1>3. NothingFromTheFuture'
  <2>1. now <= now
    BY TimesAreNumbers DEF Inv
  <2>2. QED
    BY <1>1, <1>2, <2>1, ProbeFacts DEF OrderInv, NothingFromTheFuture
<1>4. ASSUME "probe" \notin revoked PROVE OwnersWorkAlone' /\ InOrder'
  <2>1. OwnersWorkAlone'
    BY <1>1, <1>2, <1>4, ProbeFacts DEF OrderInv, OwnersWorkAlone
  <2>2. InOrder'
    BY <1>1, <1>2, <1>4, ProbeFacts DEF OrderInv, InOrder, NothingFromTheFuture
  <2>3. QED
    BY <2>1, <2>2
<1>5. QED
  BY <1>1, <1>3, <1>4 DEF OrderInv

(* The sample sent goes behind results that were all taken before it.      *)
LEMMA SendKeepsOrder ==
    ASSUME Inv, OrderInv, NEW w \in Workers, SendResult(w)
    PROVE  OrderInv'
<1> DEFINE r == task[w].msg
           n == Len(log.ingestor)
<1>1. /\ task[w].stage = "send" /\ w \in Probes /\ r \in Results
      /\ UNCHANGED <<owner, now, revoked>> /\ task' = [task EXCEPT ![w] = Idle]
  BY DEF SendResult, Return, Inv, Typed, TaskOK
<1>2. task'[w].stage = "idle" /\ \A v \in Workers : v # w => task'[v] = task[v]
  BY <1>1, IdleTask DEF Inv, Typed
<1>3. log'.ingestor = Append(log.ingestor, r) /\ log.ingestor \in Seq(Results)
  BY DEF SendResult, Inv, Typed
<1>4. /\ n \in Nat /\ Len(log'.ingestor) = n + 1
      /\ log'.ingestor[n + 1] = r
      /\ \A i \in 1..n : log'.ingestor[i] = log.ingestor[i]
      /\ 1..(n + 1) = (1..n) \union {n + 1}
  BY <1>1, <1>3
<1>5. now \in Nat /\ r.time \in Nat /\ r.time <= now
  BY <1>1, TimesAreNumbers DEF Inv, OrderInv, NothingFromTheFuture
<1>6. NothingFromTheFuture'
  BY <1>1, <1>2, <1>4, <1>5, ProbeFacts DEF OrderInv, NothingFromTheFuture
<1>7. ASSUME "probe" \notin revoked PROVE OwnersWorkAlone' /\ InOrder'
  <2>1. OwnersWorkAlone'
    BY <1>1, <1>2, <1>7, ProbeFacts DEF OrderInv, OwnersWorkAlone
  <2>2. \A v \in Probes : task'[v].stage = "idle"
    BY <1>1, <1>2, <1>7, ProbeFacts DEF OrderInv, OwnersWorkAlone
  <2>3. \A i \in 1..n : log.ingestor[i].time <= r.time
    BY <1>1, <1>7 DEF OrderInv, InOrder
  <2>4. ASSUME NEW i \in 1..(n + 1), NEW j \in 1..(n + 1), i < j
        PROVE  log'.ingestor[i].time <= log'.ingestor[j].time
    <3>1. i \in 1..n
      BY <1>4, <2>4
    <3>2. CASE j = n + 1
      BY <1>4, <2>3, <3>1, <3>2
    <3>3. CASE j \in 1..n
      BY <1>4, <1>7, <2>4, <3>1, <3>3 DEF OrderInv, InOrder
    <3>4. QED
      BY <1>4, <3>2, <3>3
  <2>5. InOrder'
    BY <1>4, <2>2, <2>4 DEF InOrder
  <2>6. QED
    BY <2>1, <2>5
<1>8. QED
  BY <1>1, <1>6, <1>7 DEF OrderInv

LEMMA NextKeepsOrder ==
    ASSUME Inv, OrderInv, [Next]_vars
    PROVE  OrderInv'
<1>1. ASSUME NEW w \in Workers, Handle(w) \/ HandlerThrows(w) \/ Crash(w) PROVE OrderInv'
  BY <1>1, OtherHandlersKeepOrder, RunJobKeepsOrder, SendKeepsOrder DEF Handle
<1>2. QED
  BY <1>1, EnvironmentKeepsOrder DEF Next

(* Results enter their topic in the order of their times, jobs run again   *)
(* after a crash or an error included, unless a probe lost its partition   *)
(* with a job in hand (probe.service.ts:36-53).                            *)
THEOREM ResultsAreOrdered == Spec => []ResultsInOrder
<1>1. Init => OrderInv
  <2> SUFFICES ASSUME Init PROVE OrderInv
    OBVIOUS
  <2>1. 1..Len(log.ingestor) = {} /\ \A w \in Probes : task[w].stage = "idle"
    BY IdleTask DEF Init, Workers
  <2>2. QED
    BY <2>1 DEF OrderInv, NothingFromTheFuture, OwnersWorkAlone, InOrder
<1>2. Inv /\ OrderInv /\ [Next]_vars => OrderInv'
  BY NextKeepsOrder
<1>3. OrderInv => ResultsInOrder
  BY DEF OrderInv, InOrder, ResultsInOrder
<1>4. QED
  BY <1>1, <1>2, <1>3, InitInv, NextKeeps, PTL DEF Spec

=============================================================================
