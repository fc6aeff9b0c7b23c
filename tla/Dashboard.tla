------------------------------ MODULE Dashboard ------------------------------
(***************************************************************************)
(* The dashboard while it runs: the stream of useEventStream beside the    *)
(* loads of the metrics.  A load asks for four things at once, every       *)
(* fifteen seconds and whenever the filters change, and may overtake       *)
(* another.  It looks whether its effect is disposed before it reads the   *)
(* body of an answer, not after.                                           *)
(***************************************************************************)
EXTENDS EventStream, Scopes

CONSTANTS
    Filters,        \* settings of the dashboard, with the range selected
    Parts,          \* what a load asks for; the latency series comes first
    Loads,          \* bound: loads in flight at once
    MaxVersion,     \* bound: how often the stored samples change
    Silent          \* filters and versions whose series has no signal

ASSUME DashboardAssumption ==
    /\ 1 \in DOMAIN Parts
    /\ \A f \in Filters : f.range \in DOMAIN columnCountForRange

VARIABLES
    filter, live,   \* what the user has set
    captured,       \* the filters the effect, and with it its interval, closed over
    version,        \* the samples stored so far
    load,           \* the load in flight in each slot, Null if none
    shown           \* for each part, the filters and version it shows

loaderVars == <<filter, live, captured, version, load, shown>>
vars == <<streamVars, loaderVars>>

Init ==
    /\ StreamInit
    /\ filter \in Filters
    /\ live = TRUE
    /\ captured = filter
    /\ version = 0
    /\ load = [l \in Loads |-> Null]
    /\ shown = [k \in DOMAIN Parts |-> Null]

----------------------------------------------------------------------------
(* The effect.                                                             *)

Free == {l \in Loads : load[l] = Null}

\* The loads in flight, and one more that waits for its answers.
WithNewLoad(others, f) ==
    [others EXCEPT ![CHOOSE l \in Free : TRUE] =
        [filter |-> f, since |-> version, read |-> <<>>, next |-> 0, disposed |-> FALSE]]

Disposed == [l \in Loads |-> IF l \in Free THEN Null ELSE [load[l] EXCEPT !.disposed = TRUE]]

Mount ==
    /\ RunEffect
    /\ Free # {}
    /\ captured' = filter
    /\ load' = WithNewLoad(load, captured')
    /\ UNCHANGED <<filter, live, version, shown>>

Unmount ==
    /\ Cleanup
    /\ load' = Disposed
    /\ UNCHANGED <<filter, live, captured, version, shown>>

\* Mutant of ChangeFilter: range is missing in the dependencies of the effect.
ChangeFilterUnnoticed ==
    /\ mounted /\ Free # {}
    /\ filter' \in Filters \ {filter}
    /\ UNCHANGED <<streamVars, live, captured, version, load, shown>>

ChangeFilter ==
    /\ mounted /\ Free # {}
    /\ filter' \in Filters \ {filter}
    /\ captured' = filter'
    /\ load' = WithNewLoad(Disposed, captured')
    /\ UNCHANGED <<streamVars, live, version, shown>>

ToggleLive ==
    /\ mounted /\ Free # {}
    /\ live' = ~live
    /\ captured' = filter
    /\ load' = WithNewLoad(Disposed, captured')
    /\ UNCHANGED <<streamVars, filter, version, shown>>

\* The interval of fifteen seconds.
Tick ==
    /\ mounted /\ live /\ Free # {}
    /\ load' = WithNewLoad(load, captured)
    /\ UNCHANGED <<streamVars, filter, live, captured, version, shown>>

SamplesArrive ==
    /\ version < MaxVersion
    /\ version' = version + 1
    /\ UNCHANGED <<streamVars, filter, live, captured, load, shown>>

----------------------------------------------------------------------------
(* A load.                                                                 *)

\* After part k the load reads the body of the next part that was answered
\* well, unless its effect has been disposed.
After(r, k) ==
    LET rest == {n \in DOMAIN Parts : n > k /\ r.read[n] # Null}
    IN  IF r.disposed \/ rest = {} THEN Null ELSE [r EXCEPT !.next = Min(rest)]

\* Nothing is known of the latency any more; the chart falls back to the stream.
WithoutSeries(r) == IF r.disposed THEN shown ELSE [shown EXCEPT ![1] = Null]

\* All have answered, each at some moment since the load began; a response
\* that is not ok has no version.
Answered(l) ==
    /\ load[l] # Null /\ load[l].next = 0
    /\ \E read \in [DOMAIN Parts -> load[l].since..version \union {Null}] :
        LET r == [load[l] EXCEPT !.read = read]
        IN  /\ IF Null \in {read[k] : k \in DOMAIN Parts} THEN Fault ELSE UNCHANGED faults
            /\ load' = [load EXCEPT ![l] = After(r, 0)]
            /\ shown' = IF read[1] = Null THEN WithoutSeries(r) ELSE shown
    /\ UNCHANGED <<mounted, hookVars, serving, filter, live, captured, version>>

\* The body of one part has come and is shown, also by a disposed load.
ReadBody(l) ==
    /\ load[l] # Null /\ load[l].next > 0
    /\ LET r == load[l]
           k == r.next
           answer == [filter |-> r.filter, version |-> r.read[k]]
       IN  /\ shown' = [shown EXCEPT ![k] = IF k = 1 /\ answer \in Silent THEN Null ELSE answer]
           /\ load' = [load EXCEPT ![l] = After(r, k)]
    /\ UNCHANGED <<streamVars, filter, live, captured, version>>

LoadThrows(l) ==
    /\ load[l] # Null
    /\ Breaks
    /\ shown' = WithoutSeries(load[l])
    /\ load' = [load EXCEPT ![l] = Null]
    /\ UNCHANGED <<mounted, hookVars, serving, filter, live, captured, version>>

LoadMetrics(l) == Answered(l) \/ ReadBody(l) \/ LoadThrows(l)

Next ==
    \/ StreamNext /\ UNCHANGED loaderVars
    \/ Mount \/ Unmount
    \/ ChangeFilter \/ ToggleLive \/ Tick \/ SamplesArrive
    \/ \E l \in Loads : LoadMetrics(l)

Spec == Init /\ [][Next]_vars

\* Fetches end and the interval fires; nobody has to touch the dashboard.
FairSpec ==
    /\ Spec
    /\ StreamFairness
    /\ WF_vars(Tick)
    /\ \A l \in Loads : WF_vars(LoadMetrics(l))

----------------------------------------------------------------------------
(* Properties.                                                             *)

\* The range a load asks for.
Requested(f) == IF f.range = "custom" THEN "24h" ELSE f.range

\* The chart draws a series that has as many points as columns.
DrawnSeriesOfAnyLength == shown[1]                                         \* mutant

DrawnSeries ==
    IF shown[1] # Null /\ columnCountForRange[shown[1].filter.range] = columnCountForRange[filter.range]
    THEN shown[1] ELSE Null

(* A series is never drawn under the labels of another range, although a   *)
(* disposed load may still store one, and nothing but the number of points *)
(* is compared.                                                            *)
DrawnSeriesFitsRange == DrawnSeries # Null => Requested(DrawnSeries.filter) = Requested(filter)

(* Whatever overtakes what, a live dashboard whose filters are left alone  *)
(* ends up showing, in every part, the latest answer for these filters.    *)
FiltersAreAnswered ==
    \A f \in Filters, v \in 0..MaxVersion :
        LET answer == [filter |-> f, version |-> v]
        IN  <>[](mounted /\ live /\ filter = f /\ version = v)
              => <>[](/\ shown[1] = IF answer \in Silent THEN Null ELSE answer
                      /\ \A k \in DOMAIN Parts \ {1} : shown[k] = answer)
==============================================================================
