------------------------- MODULE JobSchedulerProofs -------------------------
(***************************************************************************)
(* Proofs about JobScheduler for any finite set of keys, any intervals and *)
(* any number of ticks: types, the spacing of the jobs of a key, and how   *)
(* late a check can run.                                                   *)
(***************************************************************************)
EXTENDS JobScheduler, FiniteSetTheorems, TLAPS

USE TimeAssumption, KeysAssumption DEF Never, Off

Runs == [stage: {"idle", "find", "loop", "send"}, clock: Nat,
         todo: SUBSET Keys, key: Keys \union {NoKey}, wait: 0..Lag]

\* The time the awaits for S may take.
WorkFor(S) == Cardinality(S) * Lag

LEMMA WorkFacts ==
    ASSUME NEW S \in SUBSET Keys
    PROVE  /\ WorkFor(S) \in Nat
           /\ \A k \in S : WorkFor(S \ {k}) + Lag = WorkFor(S)
<1>1. IsFiniteSet(S) /\ Cardinality(S) \in Nat
  BY FS_Subset, FS_CardinalityType
<1>2. \A k \in S : Cardinality(S \ {k}) = Cardinality(S) - 1
  BY <1>1, FS_RemoveElement
<1>3. \A c \in Nat : c * Lag \in Nat /\ (c - 1) * Lag + Lag = c * Lag
  OBVIOUS
<1>4. QED
  BY <1>1, <1>2, <1>3 DEF WorkFor

LEMMA DurationFact == Duration = WorkFor(Keys) + Lag /\ WorkFor(Keys) \in Nat
<1>1. Cardinality(Keys) \in Nat
  BY FS_CardinalityType
<1>2. \A c \in Nat : c * Lag \in Nat /\ (c + 1) * Lag = c * Lag + Lag
  OBVIOUS
<1>3. QED
  BY <1>1, <1>2 DEF Duration, WorkFor

LEMMA IdleRun == Idle \in Runs /\ Idle.stage = "idle"
BY DEF Idle, Runs

----------------------------------------------------------------------------
(* The invariant.  What makes a job due when it is sent has to hold until  *)
(* its entry is written: the clock of the tick and the age of the entry    *)
(* advance together, for the cap on ages is out of the reach of a clock,   *)
(* and no other tick writes the entry.                                     *)

(* What the awaits to come may take is left of the work for all keys.      *)
ClockOK(t) ==
    /\ tick[t].stage = "loop" =>
            tick[t].clock + WorkFor(tick[t].todo) <= WorkFor(Keys)
    /\ tick[t].stage = "send" =>
            tick[t].clock + WorkFor(tick[t].todo) + (Lag - tick[t].wait) <= WorkFor(Keys)

StillDue(t) ==
    tick[t].stage = "send" =>
        /\ tick[t].key \in Keys
        /\ ~overlapped => Due(t, tick[t].key)

Inv ==
    /\ lastDispatch \in [Keys -> Nat \union {Never}]
    /\ lastSent = lastDispatch
    /\ timer \in 0..Period \union {Off}
    /\ tick \in [Ticks -> Runs]
    /\ overlapped \in BOOLEAN
    /\ ~overlapped => \A t, u \in Ticks :
            tick[t].stage # "idle" /\ tick[u].stage # "idle" => t = u
    /\ \A t \in Ticks : tick[t].stage = "idle" => tick[t] = Idle
    /\ \A t \in Ticks : ClockOK(t) /\ StillDue(t)

LEMMA InitInv == Init => Inv
BY IdleRun DEF Init, Inv, ClockOK, StillDue, Idle

(* A tick that moves on leaves the others as they were.                    *)
LEMMA OneMoves ==
    ASSUME Inv, NEW t \in Ticks, NEW r \in Runs, tick' = [tick EXCEPT ![t] = r],
           tick[t].stage # "idle", r.stage = "idle" => r = Idle,
           UNCHANGED <<lastDispatch, lastSent, timer, overlapped>>,
           ClockOK(t)', StillDue(t)'
    PROVE  Inv'
<1>1. tick' \in [Ticks -> Runs] /\ tick'[t] = r
      /\ \A u \in Ticks : u # t => tick'[u] = tick[u]
  BY DEF Inv
<1>2. \A u \in Ticks : u # t => ClockOK(u)' /\ StillDue(u)'
  BY <1>1 DEF Inv, ClockOK, StillDue, Due
<1>3. QED
  BY <1>1, <1>2 DEF Inv

LEMMA LoopKeeps ==
    ASSUME Inv, NEW t \in Ticks,
           FoundChecks(t) \/ TickEnds(t) \/ \E k \in Keys : Skip(t, k) \/ SendJob(t, k)
    PROVE  Inv'
<1>1. tick[t] \in Runs /\ UNCHANGED <<lastDispatch, lastSent, timer, overlapped>>
  BY DEF Inv, FoundChecks, TickEnds, Skip, SendJob
<1>2. CASE FoundChecks(t)
  <2> DEFINE r == [stage |-> "loop", clock |-> 0, todo |-> Keys, key |-> NoKey, wait |-> 0]
  <2>1. r \in Runs /\ tick' = [tick EXCEPT ![t] = r] /\ tick[t].stage = "find"
    BY <1>2 DEF FoundChecks, Runs
  <2>2. tick'[t] = r
    BY <2>1 DEF Inv
  <2>3. ClockOK(t)' /\ StillDue(t)'
    BY <2>2, DurationFact DEF ClockOK, StillDue
  <2>4. r.stage # "idle" /\ tick[t].stage # "idle"
    BY <2>1
  <2>5. QED
    BY <1>1, <2>1, <2>3, <2>4, OneMoves
<1>3. CASE TickEnds(t)
  <2>1. tick' = [tick EXCEPT ![t] = Idle] /\ tick[t].stage = "loop" /\ tick'[t] = Idle
    BY <1>3 DEF TickEnds, Inv
  <2>2. ClockOK(t)' /\ StillDue(t)'
    BY <2>1, IdleRun DEF ClockOK, StillDue
  <2>3. tick[t].stage # "idle"
    BY <2>1
  <2>4. QED
    BY <1>1, <2>1, <2>2, <2>3, IdleRun, OneMoves
<1>4. ASSUME NEW k \in Keys, Skip(t, k) PROVE Inv'
  <2> DEFINE r == [tick[t] EXCEPT !.todo = @ \ {k}]
  <2>1. /\ r \in Runs /\ r.stage = "loop" /\ r.clock = tick[t].clock
        /\ r.todo = tick[t].todo \ {k} /\ tick[t].stage = "loop" /\ k \in tick[t].todo
        /\ tick' = [tick EXCEPT ![t] = r]
    BY <1>1, <1>4 DEF Skip, Runs
  <2>2. tick'[t] = r
    BY <2>1 DEF Inv
  <2>3. tick[t].todo \in SUBSET Keys /\ tick[t].clock \in Nat
        /\ tick[t].clock + WorkFor(tick[t].todo) <= WorkFor(Keys)
    BY <1>1, <2>1 DEF Runs, Inv, ClockOK
  <2>4. r.clock + WorkFor(r.todo) <= WorkFor(Keys)
    BY <2>1, <2>3, WorkFacts, DurationFact
  <2>5. ClockOK(t)' /\ StillDue(t)'
    BY <2>1, <2>2, <2>4 DEF ClockOK, StillDue
  <2>6. r.stage # "idle" /\ tick[t].stage # "idle"
    BY <2>1
  <2> HIDE DEF r
  <2>7. QED
    BY <1>1, <2>1, <2>5, <2>6, OneMoves
<1>5. ASSUME NEW k \in Keys, SendJob(t, k) PROVE Inv'
  <2> DEFINE r == [tick[t] EXCEPT !.stage = "send", !.todo = @ \ {k}, !.key = k, !.wait = 0]
  <2>0. /\ tick' = [tick EXCEPT ![t].stage = "send", ![t].todo = @ \ {k},
                                ![t].key = k, ![t].wait = 0]
        /\ tick[t].stage = "loop" /\ k \in tick[t].todo /\ Due(t, k)
    BY <1>5 DEF SendJob
  <2>a. /\ r \in Runs /\ r.stage = "send" /\ r.clock = tick[t].clock
        /\ r.key = k /\ r.wait = 0 /\ r.todo = tick[t].todo \ {k}
    <3>1. 0 \in 0..Lag
      OBVIOUS
    <3>2. QED
      BY <1>1, <3>1 DEF Runs
  <2>b. tick' = [tick EXCEPT ![t] = r]
    BY <2>0 DEF Inv
  <2> HIDE DEF r
  <2>1. /\ r \in Runs /\ r.stage = "send" /\ r.clock = tick[t].clock
        /\ r.key = k /\ r.wait = 0
        /\ r.todo = tick[t].todo \ {k} /\ tick[t].stage = "loop" /\ k \in tick[t].todo
        /\ tick' = [tick EXCEPT ![t] = r] /\ Due(t, k)
    BY <2>0, <2>a, <2>b
  <2>2. tick'[t] = r
    BY <2>1 DEF Inv
  <2>3. tick[t].todo \in SUBSET Keys /\ tick[t].clock \in Nat
        /\ tick[t].clock + WorkFor(tick[t].todo) <= WorkFor(Keys)
    BY <1>1, <2>1 DEF Runs, Inv, ClockOK
  <2>4. r.clock + WorkFor(r.todo) + (Lag - r.wait) <= WorkFor(Keys)
    BY <2>1, <2>3, WorkFacts, DurationFact
  <2>5. ClockOK(t)' /\ StillDue(t)'
    BY <1>1, <2>1, <2>2, <2>4 DEF ClockOK, StillDue, Due
  <2>6. r.stage # "idle" /\ tick[t].stage # "idle"
    BY <2>1
  <2>7. QED
    BY <1>1, <2>1, <2>5, <2>6, OneMoves
<1>6. QED
  BY <1>2, <1>3, <1>4, <1>5

LEMMA JobSentKeeps ==
    ASSUME Inv, NEW t \in Ticks, JobSent(t)
    PROVE  Inv'
<1> DEFINE r == [tick[t] EXCEPT !.stage = "loop", !.key = NoKey]
           k == tick[t].key
<1>1. /\ tick[t] \in Runs /\ tick[t].stage = "send" /\ k \in Keys
      /\ UNCHANGED <<timer, overlapped>>
      /\ lastDispatch' = [lastDispatch EXCEPT ![k] = tick[t].clock]
      /\ lastSent' = lastDispatch'
      /\ tick' = [tick EXCEPT ![t] = r]
  BY DEF JobSent, Inv, StillDue
<1>2. /\ r \in Runs /\ r.stage = "loop" /\ r.clock = tick[t].clock /\ r.todo = tick[t].todo
      /\ tick[t].clock \in Nat /\ tick[t].wait \in 0..Lag /\ tick[t].todo \in SUBSET Keys
  BY <1>1 DEF Runs
<1> HIDE DEF r
<1>3. /\ tick' \in [Ticks -> Runs] /\ tick'[t] = r
      /\ \A u \in Ticks : u # t => tick'[u] = tick[u]
  BY <1>1, <1>2 DEF Inv
<1>4. lastDispatch' \in [Keys -> Nat \union {Never}]
  BY <1>1, <1>2 DEF Inv
<1>5. r.clock + WorkFor(r.todo) <= WorkFor(Keys)
  BY <1>1, <1>2, WorkFacts, DurationFact DEF Inv, ClockOK
<1>6. \A u \in Ticks : ClockOK(u)'
  BY <1>2, <1>3, <1>5 DEF Inv, ClockOK
<1>7. \A u \in Ticks : StillDue(u)'
  BY <1>1, <1>2, <1>3 DEF Inv, StillDue
<1>8. QED
  BY <1>1, <1>2, <1>3, <1>4, <1>6, <1>7 DEF Inv

LEMMA StartTickKeeps ==
    ASSUME Inv, NEW t \in Ticks, StartTick(t)
    PROVE  Inv'
<1> DEFINE r == [tick[t] EXCEPT !.stage = "find"]
<1>1. /\ tick[t] = Idle /\ UNCHANGED <<lastDispatch, lastSent>> /\ timer' = Period
      /\ tick' = [tick EXCEPT ![t] = r]
      /\ overlapped' = (overlapped \/ \E u \in Ticks : tick[u] # Idle)
  BY DEF StartTick
<1>2. r \in Runs /\ r.stage = "find"
  BY <1>1 DEF Idle, Runs
<1> HIDE DEF r
<1>3. /\ tick' \in [Ticks -> Runs] /\ tick'[t] = r
      /\ \A u \in Ticks : u # t => tick'[u] = tick[u]
  BY <1>1, <1>2 DEF Inv
<1>4. overlapped' \in BOOLEAN /\ (overlapped => overlapped')
  BY <1>1 DEF Inv
<1>5. ~overlapped' => \A u \in Ticks : u # t => tick'[u] = Idle
  BY <1>1, <1>3
<1>6. \A u \in Ticks : ClockOK(u)' /\ StillDue(u)'
  BY <1>1, <1>2, <1>3, <1>4 DEF Inv, ClockOK, StillDue, Due
<1>7. QED
  BY <1>1, <1>2, <1>3, <1>4, <1>5, <1>6, IdleRun DEF Inv

LEMMA TimeKeeps ==
    ASSUME Inv, TimePasses
    PROVE  Inv'
<1>1. /\ timer' = timer - 1 /\ timer > 0 /\ overlapped' = overlapped
      /\ lastDispatch' = [k \in Keys |-> Older(lastDispatch[k], k)]
      /\ lastSent' = lastDispatch'
      /\ tick' = [t \in Ticks |->
            IF Awaiting(t) THEN [tick[t] EXCEPT !.clock = @ + 1, !.wait = @ + 1] ELSE tick[t]]
      /\ \A t \in Ticks : tick[t].stage # "loop" /\ (Awaiting(t) => tick[t].wait < Lag)
  BY DEF TimePasses, Inv
<1>2. \A k \in Keys : Cap(k) \in Nat /\ Cap(k) >= Interval[k] + WorkFor(Keys) + 1
  BY DurationFact DEF Cap
<1>3. lastDispatch' \in [Keys -> Nat \union {Never}]
  <2>1. ASSUME NEW k \in Keys PROVE Older(lastDispatch[k], k) \in Nat \union {Never}
    <3>1. lastDispatch[k] \in Nat \union {Never}
      BY DEF Inv
    <3>2. CASE lastDispatch[k] = Never
      BY <3>2 DEF Older
    <3>3. CASE lastDispatch[k] \in Nat
      BY <3>3 DEF Older
    <3>4. QED
      BY <3>1, <3>2, <3>3
  <2>2. QED
    BY <1>1, <2>1
<1>4. ASSUME NEW t \in Ticks
      PROVE  /\ tick'[t] \in Runs /\ tick'[t].stage = tick[t].stage
             /\ tick'[t].todo = tick[t].todo /\ tick'[t].key = tick[t].key
             /\ tick[t].stage = "send" =>
                    /\ tick'[t].clock = tick[t].clock + 1
                    /\ tick'[t].wait = tick[t].wait + 1
             /\ tick[t].stage = "idle" => tick'[t] = tick[t]
  <2>1. tick[t] \in Runs
    BY DEF Inv
  <2>2. CASE Awaiting(t)
    <3>1. tick'[t] = [tick[t] EXCEPT !.clock = @ + 1, !.wait = @ + 1]
      BY <1>1, <2>2
    <3>0. tick[t].clock \in Nat /\ tick[t].wait \in 0..Lag /\ tick[t].wait < Lag
      BY <1>1, <2>1, <2>2 DEF Runs
    <3>2. tick[t].clock + 1 \in Nat /\ tick[t].wait + 1 \in 0..Lag
      BY <3>0
    <3>3. QED
      BY <2>1, <2>2, <3>1, <3>2 DEF Runs, Awaiting
  <2>3. CASE ~Awaiting(t)
    BY <1>1, <2>1, <2>3 DEF Awaiting
  <2>4. QED
    BY <2>2, <2>3
<1>5. ASSUME NEW t \in Ticks, tick[t].stage = "send"
      PROVE  /\ tick'[t].clock + WorkFor(tick[t].todo) + (Lag - tick'[t].wait) <= WorkFor(Keys)
             /\ ~overlapped => Due(t, tick[t].key)'
  <2> DEFINE k == tick[t].key
  <2>1. /\ tick[t] \in Runs /\ k \in Keys
        /\ tick[t].clock + WorkFor(tick[t].todo) + (Lag - tick[t].wait) <= WorkFor(Keys)
        /\ ~overlapped => Due(t, k)
    BY <1>5 DEF Inv, ClockOK, StillDue
  <2>a. tick[t].clock \in Nat /\ tick[t].wait \in 0..Lag /\ tick[t].todo \in SUBSET Keys
    BY <2>1 DEF Runs
  <2>b. tick[t].wait < Lag
    BY <1>1, <1>5 DEF Awaiting
  <2>c. WorkFor(tick[t].todo) \in Nat /\ WorkFor(Keys) \in Nat
    BY <2>a, WorkFacts, DurationFact
  <2>2. /\ tick[t].clock \in Nat /\ tick[t].wait \in Nat /\ tick[t].wait < Lag
        /\ WorkFor(tick[t].todo) \in Nat /\ WorkFor(Keys) \in Nat
    BY <2>a, <2>b, <2>c
  <2>3. tick'[t].clock = tick[t].clock + 1 /\ tick'[t].wait = tick[t].wait + 1
    BY <1>4, <1>5
  <2>4. tick'[t].clock + WorkFor(tick[t].todo) + (Lag - tick'[t].wait) <= WorkFor(Keys)
    BY <2>1, <2>2, <2>3
  <2>5. tick[t].clock < WorkFor(Keys)
    BY <2>1, <2>2
  <2>6. ASSUME ~overlapped
        PROVE  lastDispatch'[k] = Never \/ lastDispatch'[k] - tick'[t].clock >= Interval[k]
    <3>1. lastDispatch[k] = Never \/ lastDispatch[k] - tick[t].clock >= Interval[k]
      BY <2>1, <2>6 DEF Due
    <3>2. lastDispatch'[k] = Older(lastDispatch[k], k)
      BY <1>1, <2>1
    <3>3. lastDispatch[k] \in Nat \union {Never} /\ Interval[k] \in Nat
      BY <2>1 DEF Inv
    <3>4. QED
      BY <1>2, <2>1, <2>2, <2>3, <2>5, <3>1, <3>2, <3>3 DEF Older
  <2>7. tick'[t].key = k
    BY <1>4
  <2>8. QED
    BY <2>4, <2>6, <2>7 DEF Due
<1>6. ASSUME NEW t \in Ticks PROVE ClockOK(t)' /\ StillDue(t)'
  <2>1. tick'[t].stage = tick[t].stage /\ tick'[t].todo = tick[t].todo
        /\ tick'[t].key = tick[t].key /\ tick[t].stage # "loop"
    BY <1>1, <1>4
  <2>2. CASE tick[t].stage = "send"
    <3>1. tick[t].key \in Keys
      BY <2>2 DEF Inv, StillDue
    <3>2. /\ tick'[t].clock + WorkFor(tick[t].todo) + (Lag - tick'[t].wait) <= WorkFor(Keys)
          /\ ~overlapped => Due(t, tick[t].key)'
      BY <1>5, <2>2
    <3>3. ~overlapped' => Due(t, tick[t].key)'
      BY <1>1, <3>2
    <3>4. QED
      BY <2>1, <2>2, <3>1, <3>2, <3>3 DEF ClockOK, StillDue
  <2>3. CASE tick[t].stage # "send"
    BY <2>1, <2>3 DEF ClockOK, StillDue
  <2>4. QED
    BY <2>2, <2>3
<1>7. tick' \in [Ticks -> Runs] /\ timer' \in 0..Period \union {Off}
  <2>1. tick' \in [Ticks -> Runs]
    <3>1. \A t \in Ticks : tick'[t] \in Runs
      BY <1>4
    <3>2. tick' = [t \in Ticks |-> tick'[t]]
      BY <1>1
    <3>3. QED
      BY <3>1, <3>2
  <2>2. timer' \in 0..Period \union {Off}
    <3>1. timer \in 0..Period \union {Off} /\ Period \in Nat
      BY DEF Inv
    <3>2. timer \in 0..Period /\ timer > 0 /\ timer' = timer - 1
      <4>1. timer > 0 /\ timer' = timer - 1
        BY <1>1
      <4>2. timer \in 0..Period
        BY <3>1, <4>1
      <4>3. QED
        BY <4>1, <4>2
    <3>3. timer' \in 0..Period
      BY <3>1, <3>2
    <3>4. QED
      BY <3>3
  <2>3. QED
    BY <2>1, <2>2
<1>8. QED
  BY <1>1, <1>3, <1>4, <1>6, <1>7 DEF Inv

LEMMA NextKeeps ==
    ASSUME Inv, [Next]_vars
    PROVE  Inv'
<1>1. CASE Start
  BY <1>1 DEF Start, Inv, ClockOK, StillDue, Due
<1>2. CASE Crash
  BY <1>2, IdleRun DEF Crash, Inv, ClockOK, StillDue
<1>3. CASE UNCHANGED vars
  BY <1>3 DEF vars, Inv, ClockOK, StillDue, Due
<1>4. ASSUME NEW t \in Ticks, DispatchDueChecks(t) PROVE Inv'
  BY <1>4, StartTickKeeps, LoopKeeps, JobSentKeeps DEF DispatchDueChecks
<1>5. QED
  BY <1>1, <1>2, <1>3, <1>4, TimeKeeps DEF Next

(* The scheduler's memory, its timer and its ticks are in order in every   *)
(* reachable state (jobs.service.ts:11, 51-110).                           *)
THEOREM Invariance == Spec => []Inv
BY InitInv, NextKeeps, PTL DEF Spec

(* Two jobs of a check and region are at least its interval apart, as long *)
(* as no tick overlapped another.                                          *)
THEOREM JobsAreSpaced == Spec => DispatchesAreSpaced
<1> DEFINE Spaced == \A k \in Keys :
        ~overlapped /\ lastSent[k] # Never /\ lastSent'[k] # Never /\ lastSent'[k] < lastSent[k]
            => lastSent[k] - lastSent'[k] >= Interval[k]
<1>1. Inv /\ [Next]_vars => [Spaced]_vars
  <2> SUFFICES ASSUME Inv, Next, NEW k \in Keys, ~overlapped, lastSent[k] # Never,
                      lastSent'[k] # Never, lastSent'[k] < lastSent[k]
               PROVE  lastSent[k] - lastSent'[k] >= Interval[k]
    OBVIOUS
  <2>1. lastSent[k] \in Nat /\ lastSent[k] = lastDispatch[k]
    BY DEF Inv
  <2>2. ~TimePasses
    <3>1. SUFFICES ASSUME TimePasses PROVE FALSE
      OBVIOUS
    <3>2. lastSent'[k] = Older(lastSent[k], k)
      BY <3>1 DEF TimePasses
    <3>3. QED
      BY <2>1, <3>2 DEF Older
  <2>a. lastSent' # lastSent
    BY <2>1
  <2>b. ~Start
    BY <2>a DEF Start
  <2>c. ~Crash
    BY DEF Crash
  <2>d. PICK t \in Ticks : DispatchDueChecks(t)
    BY <2>2, <2>b, <2>c DEF Next
  <2>3. JobSent(t)
    BY <2>a, <2>d DEF DispatchDueChecks, StartTick, FoundChecks, Skip, SendJob, TickEnds
  <2>4. k = tick[t].key /\ lastSent'[k] = tick[t].clock /\ tick[t].stage = "send"
    BY <2>1, <2>3 DEF JobSent, Inv
  <2>5. Due(t, k)
    BY <2>4 DEF Inv, StillDue
  <2>6. QED
    BY <2>1, <2>4, <2>5 DEF Due
<1>2. QED
  BY <1>1, Invariance, PTL DEF Spec, DispatchesAreSpaced

----------------------------------------------------------------------------
(* Lateness.  Every key is looked at once per tick, and ticks that do not  *)
(* overlap start exactly a period apart, so the age of an entry is bounded *)
(* by the time since the last tick started: a key the tick has been        *)
(* through was not due, or is written, at its clock reading; one it has    *)
(* still to go through is a period older.                                  *)

\* Time since the last tick, or the process, started.
Since == Period - timer

Pending(k) ==
    \E t \in Ticks : \/ tick[t].stage = "find"
                     \/ k \in tick[t].todo
                     \/ tick[t].stage = "send" /\ tick[t].key = k

(* The clock of the tick in flight against the timer it restarted.         *)
InStep(t) ==
    /\ tick[t].stage = "find" => Since <= tick[t].wait
    /\ tick[t].stage \in {"loop", "send"} =>
            tick[t].clock <= Since /\ Since <= tick[t].clock + Lag

Seasoned(k) ==
    /\ ~Pending(k) => lastDispatch[k] < Interval[k] + Since
    /\ Pending(k) => lastDispatch[k] < Interval[k] + Since + Period

LatenessInv ==
    /\ timer = Off => /\ \A k \in Keys : lastDispatch[k] = Never
                      /\ \A t \in Ticks : tick[t] = Idle
    /\ ~overlapped => /\ \A t \in Ticks : InStep(t)
                      /\ \A k \in Keys : Seasoned(k)

LEMMA InitLateness == Init => LatenessInv
BY DEF Init, LatenessInv, InStep, Seasoned, Pending, Since, Idle

(* The duration bounds the time since a tick in flight has started.        *)
LEMMA TicksAreShort ==
    ASSUME Inv, LatenessInv, ~overlapped, NEW t \in Ticks, tick[t].stage # "idle"
    PROVE  Since <= Duration
<1>1. /\ tick[t].stage \in {"find", "loop", "send"} /\ tick[t].clock \in Nat
      /\ tick[t].wait \in 0..Lag /\ tick[t].todo \in SUBSET Keys
      /\ InStep(t) /\ ClockOK(t)
  BY DEF Inv, LatenessInv, Runs
<1>2. WorkFor(tick[t].todo) \in Nat /\ WorkFor(Keys) \in Nat
  BY <1>1, WorkFacts, DurationFact
<1>3. timer \in Nat \union {Off} /\ Period \in Nat /\ Since \in Int
  BY DEF Inv, Since
<1>4. CASE tick[t].stage = "find"
  BY <1>1, <1>2, <1>3, <1>4, DurationFact DEF InStep
<1>5. CASE tick[t].stage = "loop"
  BY <1>1, <1>2, <1>3, <1>5, DurationFact DEF InStep, ClockOK
<1>6. CASE tick[t].stage = "send"
  BY <1>1, <1>2, <1>3, <1>6, DurationFact DEF InStep, ClockOK
<1>7. QED
  BY <1>1, <1>4, <1>5, <1>6

LEMMA LatenessBounds ==
    ASSUME Inv, LatenessInv
    PROVE  ChecksAreOnTime
<1> SUFFICES ASSUME ~overlapped, NEW k \in Keys
             PROVE  lastDispatch[k] <= Interval[k] + Period + Duration
  BY DEF ChecksAreOnTime
<1>1. /\ lastDispatch[k] \in Nat \union {Never} /\ Interval[k] \in Nat /\ Period \in Nat
      /\ Duration \in Nat /\ timer \in 0..Period \union {Off}
  BY DurationFact DEF Inv
<1>2. CASE lastDispatch[k] = Never
  BY <1>1, <1>2
<1>3. CASE lastDispatch[k] # Never
  <2>1. timer \in 0..Period /\ Since \in Nat /\ Since <= Period /\ Seasoned(k)
    BY <1>1, <1>3 DEF LatenessInv, Since
  <2>2. CASE ~Pending(k)
    BY <1>1, <2>1, <2>2 DEF Seasoned
  <2>3. CASE Pending(k)
    <3>1. PICK t \in Ticks : tick[t].stage # "idle"
      BY <2>3 DEF Pending, Inv, Idle
    <3>2. Since <= Duration
      BY <3>1, TicksAreShort
    <3>3. QED
      BY <1>1, <2>1, <2>3, <3>2 DEF Seasoned
  <2>4. QED
    BY <2>2, <2>3
<1>4. QED
  BY <1>2, <1>3

(* A tick that moves on without writing an entry keeps the bounds, if no   *)
(* key becomes pending and those no longer pending are fresh enough.       *)
LEMMA MovesKeepLateness ==
    ASSUME Inv, LatenessInv, timer # Off, UNCHANGED <<lastDispatch, timer, overlapped>>,
           ~overlapped => \A t \in Ticks : InStep(t)',
           \A k \in Keys : Pending(k)' => Pending(k),
           \A k \in Keys : ~overlapped /\ Pending(k) /\ ~Pending(k)'
                                => lastDispatch[k] < Interval[k] + Since
    PROVE  LatenessInv'
<1>1. ASSUME ~overlapped, NEW k \in Keys PROVE Seasoned(k)'
  BY <1>1 DEF LatenessInv, Seasoned, Since
<1>2. QED
  BY <1>1 DEF LatenessInv

LEMMA LoopKeepsLateness ==
    ASSUME Inv, Inv', LatenessInv, NEW t \in Ticks,
           FoundChecks(t) \/ TickEnds(t) \/ \E k \in Keys : Skip(t, k) \/ SendJob(t, k)
    PROVE  LatenessInv'
<1>1. /\ tick[t] \in Runs /\ tick[t].stage # "idle"
      /\ UNCHANGED <<lastDispatch, timer, overlapped>>
  BY DEF Inv, FoundChecks, TickEnds, Skip, SendJob
<1>2. /\ timer # Off /\ timer \in 0..Period /\ Period \in Nat
      /\ Since \in Nat /\ Since' = Since
  BY <1>1 DEF LatenessInv, Inv, Idle, Since
<1>3. /\ \A u \in Ticks : u # t => tick'[u] = tick[u]
      /\ tick'[t] \in Runs
  BY DEF Inv, FoundChecks, TickEnds, Skip, SendJob
<1>4. tick[t].wait \in 0..Lag /\ tick[t].clock \in Nat /\ tick[t].todo \in SUBSET Keys
  BY <1>1 DEF Runs
<1>5. ~overlapped => InStep(t)
  BY DEF LatenessInv
<1>6. ASSUME ~overlapped => InStep(t)' PROVE ~overlapped => \A u \in Ticks : InStep(u)'
  BY <1>2, <1>3, <1>6 DEF LatenessInv, InStep
<1>7. CASE FoundChecks(t)
  <2>1. /\ tick[t].stage = "find" /\ tick'[t].stage = "loop"
        /\ tick'[t].clock = 0 /\ tick'[t].todo = Keys
    BY <1>7 DEF FoundChecks, Inv
  <2>2. ~overlapped => InStep(t)'
    BY <1>2, <1>4, <1>5, <2>1 DEF InStep
  <2>3. \A k \in Keys : Pending(k) /\ Pending(k)'
    BY <2>1 DEF Pending
  <2>4. QED
    BY <1>1, <1>2, <1>6, <2>2, <2>3, MovesKeepLateness
<1>8. CASE TickEnds(t)
  <2>1. tick[t].stage = "loop" /\ tick[t].todo = {} /\ tick'[t] = Idle
    BY <1>8 DEF TickEnds, Inv
  <2>2. ~overlapped => InStep(t)'
    BY <2>1 DEF InStep, Idle
  <2>3. \A k \in Keys : Pending(k)' <=> Pending(k)
    BY <1>3, <2>1 DEF Pending, Idle
  <2>4. QED
    BY <1>1, <1>2, <1>6, <2>2, <2>3, MovesKeepLateness
<1>9. ASSUME NEW j \in Keys, Skip(t, j) PROVE LatenessInv'
  <2>1. /\ tick[t].stage = "loop" /\ j \in tick[t].todo /\ ~Due(t, j)
        /\ tick'[t].stage = "loop" /\ tick'[t].todo = tick[t].todo \ {j}
        /\ tick'[t].clock = tick[t].clock
    BY <1>1, <1>9 DEF Skip, Inv, Runs
  <2>2. ~overlapped => InStep(t)'
    BY <1>2, <1>5, <2>1 DEF InStep
  <2>3. \A k \in Keys : Pending(k)' => Pending(k)
    BY <1>3, <2>1 DEF Pending
  <2>4. \A k \in Keys : Pending(k) /\ ~Pending(k)' => k = j
    BY <1>3, <2>1 DEF Pending
  <2>5. ~overlapped => lastDispatch[j] < Interval[j] + Since
    <3>1. lastDispatch[j] \in Nat /\ Interval[j] \in Nat
      BY <2>1 DEF Inv, Due
    <3>2. lastDispatch[j] - tick[t].clock < Interval[j]
      BY <1>4, <2>1, <3>1 DEF Due
    <3>3. QED
      BY <1>2, <1>4, <1>5, <2>1, <3>1, <3>2 DEF InStep
  <2>6. QED
    BY <1>1, <1>2, <1>6, <2>2, <2>3, <2>4, <2>5, MovesKeepLateness
<1>10. ASSUME NEW j \in Keys, SendJob(t, j) PROVE LatenessInv'
  <2>1. /\ tick[t].stage = "loop" /\ j \in tick[t].todo
        /\ tick'[t].stage = "send" /\ tick'[t].todo = tick[t].todo \ {j}
        /\ tick'[t].clock = tick[t].clock /\ tick'[t].key = j
    BY <1>1, <1>10 DEF SendJob, Inv, Runs
  <2>2. ~overlapped => InStep(t)'
    BY <1>2, <1>5, <2>1 DEF InStep
  <2>3. \A k \in Keys : Pending(k)' <=> Pending(k)
    BY <1>3, <2>1 DEF Pending
  <2>4. QED
    BY <1>1, <1>2, <1>6, <2>2, <2>3, MovesKeepLateness
<1>11. QED
  BY <1>7, <1>8, <1>9, <1>10

(* A written entry is as old as its tick's reading of the clock.           *)
LEMMA JobSentKeepsLateness ==
    ASSUME Inv, Inv', LatenessInv, NEW t \in Ticks, JobSent(t)
    PROVE  LatenessInv'
<1> DEFINE k == tick[t].key
<1>1. /\ tick[t] \in Runs /\ tick[t].stage = "send" /\ k \in Keys
      /\ UNCHANGED <<timer, overlapped>>
      /\ lastDispatch' = [lastDispatch EXCEPT ![k] = tick[t].clock]
  BY DEF JobSent, Inv, StillDue
<1>2. /\ tick'[t].stage = "loop" /\ tick'[t].clock = tick[t].clock
      /\ tick'[t].todo = tick[t].todo
      /\ \A u \in Ticks : u # t => tick'[u] = tick[u]
  BY <1>1 DEF JobSent, Inv, Runs
<1>3. /\ timer # Off /\ timer \in 0..Period /\ Period \in Nat
      /\ Since \in Nat /\ Since' = Since
  BY <1>1 DEF LatenessInv, Inv, Idle, Since
<1>4. tick[t].clock \in Nat
  BY <1>1 DEF Runs
<1>5. ASSUME ~overlapped, NEW u \in Ticks PROVE InStep(u)'
  BY <1>1, <1>2, <1>3, <1>5 DEF LatenessInv, InStep
<1>6. ASSUME ~overlapped, NEW j \in Keys PROVE Seasoned(j)'
  <2>0. Interval[j] \in Nat \ {0}
    OBVIOUS
  <2>1. CASE j = k
    <3>1. lastDispatch'[j] = tick[t].clock
      BY <1>1, <2>1 DEF Inv
    <3>2. tick[t].clock <= Since
      BY <1>1, <1>6 DEF LatenessInv, InStep
    <3>3. QED
      BY <1>3, <1>4, <2>0, <3>1, <3>2 DEF Seasoned
  <2>2. CASE j # k
    <3>1. lastDispatch'[j] = lastDispatch[j]
      BY <1>1, <2>2 DEF Inv
    <3>2. Pending(j)' <=> Pending(j)
      BY <1>1, <1>2, <2>2 DEF Pending
    <3>3. QED
      BY <1>3, <1>6, <3>1, <3>2 DEF LatenessInv, Seasoned
  <2>3. QED
    BY <2>1, <2>2
<1>7. QED
  BY <1>1, <1>3, <1>5, <1>6 DEF LatenessInv

(* A tick that starts alone finds every key settled, a period after the    *)
(* tick before.                                                            *)
LEMMA StartTickKeepsLateness ==
    ASSUME Inv, Inv', LatenessInv, NEW t \in Ticks, StartTick(t)
    PROVE  LatenessInv'
<1>1. /\ timer = 0 /\ timer' = Period /\ tick[t] = Idle
      /\ overlapped' = (overlapped \/ \E u \in Ticks : tick[u] # Idle)
      /\ UNCHANGED lastDispatch /\ Period \in Nat
  BY DEF StartTick
<1>2. /\ tick'[t].stage = "find" /\ tick'[t].wait = 0
      /\ \A u \in Ticks : u # t => tick'[u] = tick[u]
  BY <1>1 DEF StartTick, Inv, Idle
<1>3. Since = Period /\ Since' = 0
  BY <1>1 DEF Since
<1>4. ASSUME ~overlapped'
      PROVE  ~overlapped /\ \A u \in Ticks : tick[u] = Idle
  BY <1>1, <1>4
<1>5. ASSUME ~overlapped', NEW u \in Ticks PROVE InStep(u)'
  BY <1>2, <1>3, <1>4, <1>5 DEF InStep, Idle
<1>6. ASSUME ~overlapped', NEW k \in Keys PROVE Seasoned(k)'
  <2>1. ~Pending(k)
    BY <1>4, <1>6 DEF Pending, Idle
  <2>2. lastDispatch[k] < Interval[k] + Period
    BY <1>3, <1>4, <1>6, <2>1 DEF LatenessInv, Seasoned
  <2>3. lastDispatch[k] \in Nat \union {Never} /\ Interval[k] \in Nat
    BY DEF Inv
  <2>4. Pending(k)'
    BY <1>2 DEF Pending
  <2>5. QED
    BY <1>1, <1>3, <2>2, <2>3, <2>4 DEF Seasoned
<1>7. timer' # Off
  BY <1>1
<1>8. QED
  BY <1>5, <1>6, <1>7 DEF LatenessInv

(* Entries, clock and timer advance together.                              *)
LEMMA TimeKeepsLateness ==
    ASSUME Inv, Inv', LatenessInv, TimePasses
    PROVE  LatenessInv'
<1>1. /\ timer' = timer - 1 /\ timer > 0 /\ overlapped' = overlapped
      /\ lastDispatch' = [k \in Keys |-> Older(lastDispatch[k], k)]
      /\ tick' = [t \in Ticks |->
            IF Awaiting(t) THEN [tick[t] EXCEPT !.clock = @ + 1, !.wait = @ + 1] ELSE tick[t]]
      /\ \A t \in Ticks : tick[t].stage # "loop"
  BY DEF TimePasses
<1>2. timer \in Nat /\ Period \in Nat /\ Since \in Int /\ Since' = Since + 1 /\ timer' # Off
  <2>1. timer \in 0..Period \union {Off} /\ Period \in Nat
    BY DEF Inv
  <2>2. timer > 0 /\ timer' = timer - 1
    BY <1>1
  <2>3. timer \in Nat
    BY <2>1, <2>2
  <2>4. timer' # Off
    BY <2>2, <2>3
  <2>5. Since \in Int /\ Since' = Since + 1
    BY <2>1, <2>2, <2>3 DEF Since
  <2>6. QED
    BY <2>1, <2>3, <2>4, <2>5
<1>3. ASSUME NEW t \in Ticks
      PROVE  /\ tick'[t].stage = tick[t].stage /\ tick'[t].todo = tick[t].todo
             /\ tick'[t].key = tick[t].key
             /\ Awaiting(t) => /\ tick'[t].clock = tick[t].clock + 1
                               /\ tick'[t].wait = tick[t].wait + 1
             /\ tick[t].clock \in Nat /\ tick[t].wait \in Nat
  <2>1. tick[t] \in Runs
    BY DEF Inv
  <2>2. CASE Awaiting(t)
    <3>1. tick'[t] = [tick[t] EXCEPT !.clock = @ + 1, !.wait = @ + 1]
      BY <1>1, <2>2
    <3>2. QED
      BY <2>1, <3>1 DEF Runs
  <2>3. CASE ~Awaiting(t)
    <3>1. tick'[t] = tick[t]
      BY <1>1, <2>3
    <3>2. tick[t].clock \in Nat /\ tick[t].wait \in Nat
      BY <2>1 DEF Runs
    <3>3. QED
      BY <2>3, <3>1, <3>2
  <2>4. QED
    BY <2>2, <2>3
<1>4. \A k \in Keys : Pending(k)' <=> Pending(k)
  BY <1>3 DEF Pending
<1>5. ASSUME ~overlapped, NEW t \in Ticks PROVE InStep(t)'
  <2>1. InStep(t)
    BY <1>5 DEF LatenessInv
  <2>2. CASE tick[t].stage = "find"
    <3>1. Since <= tick[t].wait /\ tick'[t].wait = tick[t].wait + 1
      BY <1>3, <2>1, <2>2 DEF InStep, Awaiting
    <3>2. QED
      BY <1>2, <1>3, <2>2, <3>1 DEF InStep
  <2>3. CASE tick[t].stage = "send"
    <3>1. /\ tick[t].clock <= Since /\ Since <= tick[t].clock + Lag
          /\ tick'[t].clock = tick[t].clock + 1
      BY <1>3, <2>1, <2>3 DEF InStep, Awaiting
    <3>2. QED
      BY <1>2, <1>3, <2>3, <3>1 DEF InStep
  <2>4. CASE tick[t].stage \notin {"find", "send"}
    BY <1>1, <1>3, <2>4 DEF InStep
  <2>5. QED
    BY <2>2, <2>3, <2>4
<1>6. ASSUME ~overlapped, NEW k \in Keys PROVE Seasoned(k)'
  <2>1. lastDispatch[k] \in Nat \union {Never} /\ Interval[k] \in Nat
    BY DEF Inv
  <2>2. lastDispatch'[k] <= lastDispatch[k] + 1
    <3>1. lastDispatch'[k] = Older(lastDispatch[k], k)
      BY <1>1
    <3>2. CASE lastDispatch[k] = Never
      BY <3>1, <3>2 DEF Older
    <3>3. CASE lastDispatch[k] \in Nat
      BY <3>1, <3>3 DEF Older
    <3>4. QED
      BY <2>1, <3>2, <3>3
  <2>3. Seasoned(k) /\ lastDispatch'[k] \in Nat \union {Never}
    BY <1>6 DEF LatenessInv, Inv
  <2>4. QED
    BY <1>2, <1>4, <2>1, <2>2, <2>3 DEF Seasoned
<1>7. QED
  BY <1>1, <1>2, <1>5, <1>6 DEF LatenessInv

LEMMA NextKeepsLateness ==
    ASSUME Inv, Inv', LatenessInv, [Next]_vars
    PROVE  LatenessInv'
<1>1. CASE Start
  <2>1. /\ timer = Off /\ timer' = Period /\ UNCHANGED <<lastDispatch, tick, overlapped>>
    BY <1>1 DEF Start
  <2>2. /\ \A k \in Keys : lastDispatch[k] = Never
        /\ \A t \in Ticks : tick[t] = Idle
        /\ timer' # Off /\ Since' = 0
    BY <2>1 DEF LatenessInv, Since
  <2>3. \A t \in Ticks : InStep(t)'
    <3>0. Idle.stage = "idle"
      BY DEF Idle
    <3>1. \A t \in Ticks : tick'[t].stage = "idle"
      BY <2>1, <2>2, <3>0
    <3>2. QED
      BY <3>1 DEF InStep
  <2>4. \A k \in Keys : Seasoned(k)'
    BY <2>1, <2>2 DEF Seasoned
  <2>5. QED
    BY <2>2, <2>3, <2>4 DEF LatenessInv
<1>2. CASE Crash
  <2>1. /\ timer' = Off /\ \A k \in Keys : lastDispatch'[k] = Never
        /\ \A t \in Ticks : tick'[t] = Idle
    BY <1>2 DEF Crash
  <2>2. Since' = Period + 1
    BY <2>1 DEF Since
  <2>3. \A t \in Ticks : InStep(t)'
    BY <2>1 DEF InStep, Idle
  <2>4. \A k \in Keys : Seasoned(k)'
    <3>1. \A k \in Keys : Interval[k] \in Nat
      OBVIOUS
    <3>2. QED
      BY <2>1, <2>2, <3>1 DEF Seasoned
  <2>5. QED
    BY <2>1, <2>3, <2>4 DEF LatenessInv
<1>3. CASE UNCHANGED vars
  BY <1>3 DEF vars, LatenessInv, InStep, Seasoned, Pending, Since
<1>4. ASSUME NEW t \in Ticks, DispatchDueChecks(t) PROVE LatenessInv'
  BY <1>4, StartTickKeepsLateness, LoopKeepsLateness, JobSentKeepsLateness
     DEF DispatchDueChecks
<1>5. QED
  BY <1>1, <1>2, <1>3, <1>4, TimeKeepsLateness DEF Next

(* At any phase of its interval against the period of the ticks, a check   *)
(* is at most a period and one tick's work late, as long as no tick        *)
(* overlapped another.                                                     *)
THEOREM ChecksRunOnTime == Spec => []ChecksAreOnTime
<1>1. Inv /\ Inv' /\ LatenessInv /\ [Next]_vars => LatenessInv'
  BY NextKeepsLateness
<1>2. Inv /\ LatenessInv => ChecksAreOnTime
  BY LatenessBounds
<1>3. QED
  BY <1>1, <1>2, InitLateness, Invariance, PTL DEF Spec

=============================================================================
