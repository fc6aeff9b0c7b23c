---------------------------- MODULE JobScheduler ----------------------------
(***************************************************************************)
(* JobsService of the scheduler: every Period a tick reads the enabled     *)
(* checks and sends one probe job per check and region whose last dispatch,*)
(* kept in memory, is at least the check's interval old.  Nothing keeps a  *)
(* tick from starting while an earlier one still waits for the database or *)
(* for Kafka, and an await that fails ends the process (nobody awaits      *)
(* dispatchDueChecks, and Node ends on an unhandled rejection).            *)
(*                                                                         *)
(* Times are kept as ages, capped where no guard can tell them apart, so   *)
(* that the clock runs on for ever in a finite model.  A key stands for a  *)
(* check and region that pass the validity filters of the loop.            *)
(***************************************************************************)
EXTENDS Integers, FiniteSets

CONSTANTS
    Keys,           \* dispatchKey: check and region
    Interval,       \* Interval[k]: intervalS of the check of k
    Period,         \* 5_000 ms between ticks
    Ticks,          \* ticks that may be in flight at once
    Lag,            \* the longest an await takes
    MaxFaults       \* bound of the model

ASSUME TimeAssumption ==
    /\ Interval \in [Keys -> Nat \ {0}] /\ Period \in Nat \ {0} /\ Lag \in Nat
    /\ MaxFaults \in Nat
ASSUME KeysAssumption == IsFiniteSet(Keys)

\* The last await of a tick ends Duration after its first one began.
Duration == (Cardinality(Keys) + 1) * Lag
Cap(k) == Interval[k] + Period + 2 * Duration + 1

Never == -1

VARIABLES
    lastDispatch,   \* lastDispatch[k]: age of the entry of k, or Never
    timer,          \* time to the next tick; Off without a process
    tick,           \* tick[t]: a run of dispatchDueChecks
    faults

\* History, read by no action.
VARIABLES
    lastSent,       \* age of the clock reading that justified the last job
                    \* of k sent by this process, or Never
    overlapped      \* two ticks of this process have run at once

vars == <<lastDispatch, timer, tick, faults, lastSent, overlapped>>

Off == -1
NoKey == "none"

Idle == [stage |-> "idle", clock |-> 0, todo |-> {}, key |-> NoKey, wait |-> 0]

TypeOK ==
    /\ lastDispatch \in [Keys -> Nat \union {Never}]
    /\ timer \in 0..Period \union {Off}
    /\ tick \in [Ticks -> [stage: {"idle", "find", "loop", "send"}, clock: Nat,
                           todo: SUBSET Keys, key: Keys \union {NoKey}, wait: 0..Lag]]
    /\ faults \in Nat
    /\ lastSent \in [Keys -> Nat \union {Never}]
    /\ overlapped \in BOOLEAN

Init ==
    /\ lastDispatch = [k \in Keys |-> Never]
    /\ timer = Off
    /\ tick = [t \in Ticks |-> Idle]
    /\ faults = 0
    /\ lastSent = [k \in Keys |-> Never]
    /\ overlapped = FALSE

----------------------------------------------------------------------------
(* Time and the process.                                                   *)

Older(age, k) ==
    IF age = Never THEN Never ELSE IF age < Cap(k) THEN age + 1 ELSE age

Awaiting(t) == tick[t].stage \in {"find", "send"}

(* Synchronous code takes no time, an await at most Lag, and a due timer   *)
(* fires.                                                                  *)
TimePasses ==
    /\ timer > 0
    /\ \A t \in Ticks : tick[t].stage # "loop" /\ (Awaiting(t) => tick[t].wait < Lag)
    /\ timer' = timer - 1
    /\ lastDispatch' = [k \in Keys |-> Older(lastDispatch[k], k)]
    /\ lastSent' = [k \in Keys |-> Older(lastSent[k], k)]
    /\ tick' = [t \in Ticks |->
            IF Awaiting(t) THEN [tick[t] EXCEPT !.clock = @ + 1, !.wait = @ + 1]
                           ELSE tick[t]]
    /\ UNCHANGED <<faults, overlapped>>

(* onModuleInit.                                                           *)
Start ==
    /\ timer = Off
    /\ timer' = Period
    /\ UNCHANGED <<lastDispatch, tick, faults, lastSent, overlapped>>

(* The process dies, and lastDispatch with it.                             *)
Crash ==
    /\ timer # Off
    /\ faults < MaxFaults
    /\ faults' = faults + 1
    /\ timer' = Off
    /\ tick' = [t \in Ticks |-> Idle]
    /\ lastDispatch' = [k \in Keys |-> Never]
    /\ lastSent' = [k \in Keys |-> Never]
    /\ overlapped' = FALSE

----------------------------------------------------------------------------
(* dispatchDueChecks.                                                      *)

StartTick(t) ==
    /\ timer = 0
    /\ tick[t] = Idle
    /\ timer' = Period
    /\ tick' = [tick EXCEPT ![t].stage = "find"]
    /\ overlapped' = (overlapped \/ \E u \in Ticks : tick[u] # Idle)
    /\ UNCHANGED <<lastDispatch, faults, lastSent>>

(* findMany returns; only then is the clock read.                          *)
FoundChecks(t) ==
    /\ tick[t].stage = "find"
    /\ tick' = [tick EXCEPT ![t] =
            [stage |-> "loop", clock |-> 0, todo |-> Keys, key |-> NoKey, wait |-> 0]]
    /\ UNCHANGED <<lastDispatch, timer, faults, lastSent, overlapped>>

\* Mutant of Due: one unit too early.
DueEarly(t, k) ==
    \/ lastDispatch[k] = Never
    \/ lastDispatch[k] - tick[t].clock + 1 >= Interval[k]

\* Mutant of Due: a check is due when twice its interval has passed.
DueLate(t, k) ==
    \/ lastDispatch[k] = Never
    \/ lastDispatch[k] - tick[t].clock >= 2 * Interval[k]

(* now - lastSent >= intervalS, with the now of this tick.                 *)
Due(t, k) ==
    \/ lastDispatch[k] = Never
    \/ lastDispatch[k] - tick[t].clock >= Interval[k]

Skip(t, k) ==
    /\ tick[t].stage = "loop"
    /\ k \in tick[t].todo
    /\ ~Due(t, k)
    /\ tick' = [tick EXCEPT ![t].todo = @ \ {k}]
    /\ UNCHANGED <<lastDispatch, timer, faults, lastSent, overlapped>>

SendJob(t, k) ==
    /\ tick[t].stage = "loop"
    /\ k \in tick[t].todo
    /\ Due(t, k)
    /\ tick' = [tick EXCEPT ![t].stage = "send", ![t].todo = @ \ {k},
                            ![t].key = k, ![t].wait = 0]
    /\ UNCHANGED <<lastDispatch, timer, faults, lastSent, overlapped>>

\* Mutant of JobSent: one entry serves all regions and checks.
JobSentForAll(t) ==
    LET k == tick[t].key
    IN  /\ tick[t].stage = "send"
        /\ lastDispatch' = [j \in Keys |-> tick[t].clock]
        /\ lastSent' = [lastSent EXCEPT ![k] = tick[t].clock]
        /\ tick' = [tick EXCEPT ![t].stage = "loop", ![t].key = NoKey]
        /\ UNCHANGED <<timer, faults, overlapped>>

(* send returns: the entry gets the now of the tick, however old it is.    *)
JobSent(t) ==
    LET k == tick[t].key
    IN  /\ tick[t].stage = "send"
        /\ lastDispatch' = [lastDispatch EXCEPT ![k] = tick[t].clock]
        /\ lastSent' = [lastSent EXCEPT ![k] = tick[t].clock]
        /\ tick' = [tick EXCEPT ![t].stage = "loop", ![t].key = NoKey]
        /\ UNCHANGED <<timer, faults, overlapped>>

TickEnds(t) ==
    /\ tick[t].stage = "loop"
    /\ tick[t].todo = {}
    /\ tick' = [tick EXCEPT ![t] = Idle]
    /\ UNCHANGED <<lastDispatch, timer, faults, lastSent, overlapped>>

DispatchDueChecks(t) ==
    \/ StartTick(t)
    \/ FoundChecks(t)
    \/ \E k \in Keys : Skip(t, k) \/ SendJob(t, k)
    \/ JobSent(t)
    \/ TickEnds(t)

Next ==
    \/ TimePasses
    \/ Start
    \/ Crash
    \/ \E t \in Ticks : DispatchDueChecks(t)

Spec == Init /\ [][Next]_vars

(* Time passes, awaits come back, and the container restarts the process.  *)
FairSpec ==
    /\ Spec
    /\ WF_vars(TimePasses) /\ WF_vars(Start)
    /\ \A t \in Ticks : WF_vars(DispatchDueChecks(t))

----------------------------------------------------------------------------
(* Safety: of a process whose ticks have not overlapped.                   *)

(* The clock readings behind two jobs of one check and region are at least *)
(* its interval apart (jobs.service.ts:82-107).                            *)
DispatchesAreSpaced ==
    [][\A k \in Keys :
        ~overlapped /\ lastSent[k] # Never /\ lastSent'[k] # Never /\ lastSent'[k] < lastSent[k]
            => lastSent[k] - lastSent'[k] >= Interval[k]]_vars

(* No check is late by more than a period and a tick's work, at whatever   *)
(* phase its interval meets the period of the ticks.                       *)
ChecksAreOnTime ==
    ~overlapped =>
        \A k \in Keys : lastDispatch[k] <= Interval[k] + Period + Duration

----------------------------------------------------------------------------
(* Liveness.                                                               *)

(* Every check goes on being probed, although ticks overlap and undo each  *)
(* other's entries, and the process dies on the way.                       *)
EveryKeyIsDispatched ==
    \A k \in Keys : []<><<\E t \in Ticks : tick[t].key = k /\ JobSent(t)>>_vars

============================================================================
