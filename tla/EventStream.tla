----------------------------- MODULE EventStream -----------------------------
(***************************************************************************)
(* useEventStream: the browser's connection to the live stream, which it   *)
(* opens again after each error, ever more slowly, until the component goes*)
(* away.  React may run the effect again on the same component (the strict *)
(* mode this application asks for does), and its refs then live on.        *)
(***************************************************************************)
EXTENDS Naturals

CONSTANTS
    Sources,        \* identities of EventSource objects
    Null,
    MaxRetry,       \* the longest delay of a reconnect
    MaxFaults       \* bound: connections that break, requests that fail

ASSUME StreamAssumption == Null \notin Sources /\ MaxRetry \in Nat \ {0} /\ MaxFaults \in Nat

VARIABLES
    mounted,        \* the effects of the component are running
    source,         \* readyState of each EventSource
    sourceRef,      \* the one opened last
    timer,          \* a reconnect is scheduled
    retryRef,       \* the delay of the next reconnect
    serving,        \* the API answers
    faults          \* how often something has failed

hookVars == <<source, sourceRef, timer, retryRef>>
streamVars == <<mounted, hookVars, serving, faults>>

StreamInit ==
    /\ mounted = FALSE
    /\ source = [s \in Sources |-> "closed"]
    /\ sourceRef = Null
    /\ timer = FALSE
    /\ retryRef = 1
    /\ serving = TRUE
    /\ faults = 0

----------------------------------------------------------------------------
(* What others do.                                                         *)

Fault == faults < MaxFaults /\ faults' = faults + 1

ApiFails == serving /\ Fault /\ serving' = FALSE /\ UNCHANGED <<mounted, hookVars>>

ApiReturns == ~serving /\ serving' = TRUE /\ UNCHANGED <<mounted, hookVars, faults>>

\* Nothing answers, or this one exchange breaks.
Breaks == IF serving THEN Fault ELSE UNCHANGED faults

----------------------------------------------------------------------------
(* The hook.                                                               *)

\* A new EventSource.
Connect ==
    LET s == CHOOSE s \in Sources : source[s] = "closed"
    IN  source' = [source EXCEPT ![s] = "connecting"] /\ sourceRef' = s

RunEffect ==
    /\ ~mounted
    /\ mounted' = TRUE
    /\ Connect
    /\ UNCHANGED <<timer, retryRef, serving, faults>>

\* Mutant of Cleanup: the connection is left to itself.
CleanupKeepsSource ==
    /\ mounted
    /\ mounted' = FALSE
    /\ timer' = FALSE
    /\ UNCHANGED <<source, sourceRef, retryRef, serving, faults>>

Cleanup ==
    /\ mounted
    /\ mounted' = FALSE
    /\ timer' = FALSE
    /\ source' = [source EXCEPT ![sourceRef] = "closed"]
    /\ UNCHANGED <<sourceRef, retryRef, serving, faults>>

OnOpen(s) ==
    /\ source[s] = "connecting" /\ serving
    /\ source' = [source EXCEPT ![s] = "open"]
    /\ retryRef' = 1
    /\ UNCHANGED <<mounted, sourceRef, timer, serving, faults>>

\* Mutant of OnError: an established connection is expected to come back.
OnErrorOfFirstAttempt(s) ==
    /\ source[s] # "closed" /\ Breaks
    /\ timer' = (source[s] = "connecting")
    /\ source' = [source EXCEPT ![s] = "closed"]
    /\ retryRef' = IF 2 * retryRef < MaxRetry THEN 2 * retryRef ELSE MaxRetry
    /\ UNCHANGED <<mounted, sourceRef, serving>>

OnError(s) ==
    /\ source[s] # "closed" /\ Breaks
    /\ timer' = TRUE
    /\ source' = [source EXCEPT ![s] = "closed"]
    /\ retryRef' = IF 2 * retryRef < MaxRetry THEN 2 * retryRef ELSE MaxRetry
    /\ UNCHANGED <<mounted, sourceRef, serving>>

TimerFires ==
    /\ timer
    /\ timer' = FALSE
    /\ Connect
    /\ UNCHANGED <<mounted, retryRef, serving, faults>>

Settle(s) == OnOpen(s) \/ OnError(s)

StreamNext == ApiFails \/ ApiReturns \/ TimerFires \/ \E s \in Sources : Settle(s)

\* Timers fire, the browser settles what it tries, and the API comes back.
StreamFairness ==
    /\ WF_streamVars(TimerFires)
    /\ WF_streamVars(ApiReturns)
    /\ \A s \in Sources : WF_streamVars(source[s] = "connecting" /\ Settle(s))
    /\ \A s \in Sources : WF_streamVars(source[s] = "open" /\ ~serving /\ OnError(s))

----------------------------------------------------------------------------
(* Properties.                                                             *)

(* There is never more than one connection or pending reconnect, and none  *)
(* of either once the component is gone, however its end falls between an  *)
(* error, its delay and the next attempt.                                  *)
Connected == {s \in Sources : source[s] # "closed"}

OneSource ==
    /\ \A s, t \in Connected : s = t
    /\ timer \/ ~mounted => Connected = {}
    /\ timer => mounted

(* As long as the component stays, it ends up listening.                   *)
StreamComesBack == <>[]mounted => <>[](\E s \in Sources : source[s] = "open")
==============================================================================
