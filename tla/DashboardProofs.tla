-------------------------- MODULE DashboardProofs --------------------------
(***************************************************************************)
(* Proofs about Dashboard for any number of filters, parts of a load, loads*)
(* in flight, connections and failures: the connections of useEventStream, *)
(* and the range of the series that is drawn.                              *)
(***************************************************************************)
EXTENDS Dashboard, TLAPS

----------------------------------------------------------------------------
(* The connections.  OneSource alone is not inductive: the handlers close  *)
(* the connection of the ref, so that has to be the one there is.          *)

HookInv ==
    /\ mounted \in BOOLEAN /\ timer \in BOOLEAN
    /\ DOMAIN source = Sources
    /\ Connected \subseteq {sourceRef}
    /\ timer \/ ~mounted => Connected = {}
    /\ timer => mounted

LEMMA InitHook == Init => HookInv
BY DEF Init, StreamInit, HookInv, Connected

(* A new connection becomes the only one when there was none.              *)
LEMMA ConnectAlone ==
    ASSUME DOMAIN source = Sources, Connected = {}, Connect
    PROVE  DOMAIN source' = Sources /\ Connected' \subseteq {sourceRef'}
BY DEF Connect, Connected

(* Closing the connection of the ref leaves none.                          *)
LEMMA CloseLast ==
    ASSUME HookInv, source' = [source EXCEPT ![sourceRef] = "closed"]
    PROVE  DOMAIN source' = Sources /\ Connected' = {}
BY DEF HookInv, Connected

LEMMA EffectKeepsHook ==
    ASSUME HookInv, RunEffect \/ Cleanup
    PROVE  HookInv'
<1>1. CASE RunEffect
  <2>1. Connected = {} /\ ~timer /\ Connect /\ mounted' = TRUE /\ timer' = timer
    BY <1>1 DEF RunEffect, HookInv
  <2>2. QED
    BY <2>1, ConnectAlone DEF HookInv
<1>2. CASE Cleanup
  BY <1>2, CloseLast DEF Cleanup, HookInv
<1>3. QED
  BY <1>1, <1>2

LEMMA SettleKeepsHook ==
    ASSUME HookInv, NEW s \in Sources, Settle(s)
    PROVE  HookInv'
<1>1. s \in Connected
  BY DEF Settle, OnOpen, OnError, Connected
<1>2. s = sourceRef /\ mounted /\ ~timer
  BY <1>1 DEF HookInv
<1>3. CASE OnOpen(s)
  <2>1. DOMAIN source' = Sources /\ Connected' \subseteq Connected
    BY <1>1, <1>3 DEF OnOpen, HookInv, Connected
  <2>2. QED
    BY <1>2, <1>3, <2>1 DEF OnOpen, HookInv
<1>4. CASE OnError(s)
  BY <1>2, <1>4, CloseLast DEF OnError, HookInv
<1>5. QED
  BY <1>3, <1>4 DEF Settle

LEMMA StreamKeepsHook ==
    ASSUME HookInv, StreamNext
    PROVE  HookInv'
<1>1. CASE ApiFails \/ ApiReturns
  BY <1>1 DEF ApiFails, ApiReturns, hookVars, HookInv, Connected
<1>2. CASE TimerFires
  <2>1. Connected = {} /\ Connect /\ timer' = FALSE /\ mounted' = mounted /\ mounted
    BY <1>2 DEF TimerFires, HookInv
  <2>2. QED
    BY <2>1, ConnectAlone DEF HookInv
<1>3. ASSUME NEW s \in Sources, Settle(s) PROVE HookInv'
  BY <1>3, SettleKeepsHook
<1>4. QED
  BY <1>1, <1>2, <1>3 DEF StreamNext

LEMMA NextKeepsHook ==
    ASSUME HookInv, [Next]_vars
    PROVE  HookInv'
<1>1. CASE StreamNext
  BY <1>1, StreamKeepsHook
<1>2. CASE Mount \/ Unmount
  BY <1>2, EffectKeepsHook DEF Mount, Unmount
<1>3. CASE UNCHANGED <<mounted, hookVars>>
  BY <1>3 DEF hookVars, HookInv, Connected
<1>4. CASE \/ ChangeFilter \/ ToggleLive \/ Tick \/ SamplesArrive
           \/ (\E l \in Loads : LoadMetrics(l)) \/ UNCHANGED vars
  <2>1. UNCHANGED <<mounted, hookVars>>
    BY <1>4 DEF ChangeFilter, ToggleLive, Tick, SamplesArrive, LoadMetrics, Answered,
                ReadBody, LoadThrows, streamVars, vars
  <2>2. QED
    BY <1>3, <2>1
<1>5. QED
  BY <1>1, <1>2, <1>4 DEF Next

(* However errors, delays and the end of the component fall, there is at   *)
(* most one connection or pending reconnect, and none of a component that  *)
(* is gone (use-event-stream.ts).                                          *)
THEOREM Connections == Spec => []OneSource
<1>1. HookInv => OneSource
  BY DEF HookInv, OneSource
<1>2. QED
  BY <1>1, InitHook, NextKeepsHook, PTL DEF Spec

----------------------------------------------------------------------------
(* The series.                                                             *)

Fields == {"filter", "since", "read", "next", "disposed"}

\* What a load in flight is made of, and that it is about filters there are.
IsLoad(r) == r = [x \in Fields |-> r[x]] /\ r.filter \in Filters

LoadInv ==
    /\ filter \in Filters /\ captured \in Filters
    /\ DOMAIN load = Loads /\ DOMAIN shown = DOMAIN Parts
    /\ \A l \in Loads : load[l] = Null \/ IsLoad(load[l])
    /\ \A k \in DOMAIN Parts : shown[k] = Null \/ shown[k].filter \in Filters

LEMMA InitLoad == Init => LoadInv
BY DEF Init, LoadInv

LEMMA LoadFields ==
    /\ \A r, n : IsLoad(r) => IsLoad([r EXCEPT !.next = n])
    /\ \A r : IsLoad(r) => IsLoad([r EXCEPT !.disposed = TRUE])
    /\ \A r, read : IsLoad(r) => IsLoad([r EXCEPT !.read = read])
BY DEF IsLoad, Fields

(* The loads that are told to stop, and the one that is started.           *)
LEMMA NewLoad ==
    ASSUME NEW others, DOMAIN others = Loads, NEW f \in Filters,
           \A l \in Loads : others[l] = Null \/ IsLoad(others[l])
    PROVE  /\ DOMAIN WithNewLoad(others, f) = Loads
           /\ \A l \in Loads : LET r == WithNewLoad(others, f)[l]
                               IN  r = Null \/ IsLoad(r)
<1> DEFINE fresh == [filter |-> f, since |-> version, read |-> <<>>, next |-> 0,
                     disposed |-> FALSE]
<1>1. IsLoad(fresh)
  BY DEF IsLoad, Fields
<1> HIDE DEF fresh
<1>2. QED
  BY <1>1 DEF WithNewLoad, fresh

LEMMA DisposedLoads ==
    ASSUME LoadInv
    PROVE  /\ DOMAIN Disposed = Loads
           /\ \A l \in Loads : Disposed[l] = Null \/ IsLoad(Disposed[l])
BY LoadFields DEF Disposed, Free, LoadInv

LEMMA EffectKeepsLoad ==
    ASSUME LoadInv, Mount \/ Unmount \/ ChangeFilter \/ ToggleLive \/ Tick
    PROVE  LoadInv'
<1>1. /\ filter' \in Filters /\ captured' \in Filters /\ shown' = shown
  BY DEF LoadInv, Mount, Unmount, ChangeFilter, ToggleLive, Tick
<1>2. \/ load' = WithNewLoad(load, captured')
      \/ load' = WithNewLoad(Disposed, captured')
      \/ load' = Disposed
  BY DEF Mount, Unmount, ChangeFilter, ToggleLive, Tick
<1>3. DOMAIN load' = Loads /\ \A l \in Loads : load'[l] = Null \/ IsLoad(load'[l])
  BY <1>1, <1>2, NewLoad, DisposedLoads DEF LoadInv
<1>4. QED
  BY <1>1, <1>3 DEF LoadInv

(* A load that goes on is still a load for the same filters.               *)
LEMMA AfterPart ==
    ASSUME NEW r, IsLoad(r), NEW k
    PROVE  After(r, k) = Null \/ IsLoad(After(r, k))
BY LoadFields DEF After

LEMMA LoadsKeepLoad ==
    ASSUME LoadInv, NEW l \in Loads, LoadMetrics(l)
    PROVE  LoadInv'
<1>1. load[l] # Null /\ IsLoad(load[l]) /\ UNCHANGED <<filter, captured>>
  BY DEF LoadMetrics, Answered, ReadBody, LoadThrows, LoadInv
<1>2. \A r : \A k \in DOMAIN Parts :
          LET seen == WithoutSeries(r) IN seen[k] = Null \/ seen[k].filter \in Filters
  BY DEF WithoutSeries, LoadInv
<1>3. \A r : DOMAIN WithoutSeries(r) = DOMAIN Parts
  BY DEF WithoutSeries, LoadInv
<1>4. CASE Answered(l)
  <2>1. PICK read : LET r == [load[l] EXCEPT !.read = read]
                    IN  /\ load' = [load EXCEPT ![l] = After(r, 0)]
                        /\ shown' = IF read[1] = Null THEN WithoutSeries(r) ELSE shown
    BY <1>4 DEF Answered
  <2>2. IsLoad([load[l] EXCEPT !.read = read])
    BY <1>1, LoadFields
  <2>3. QED
    BY <1>1, <1>2, <1>3, <2>1, <2>2, AfterPart DEF LoadInv
<1>5. CASE ReadBody(l)
  <2>1. PICK value : /\ value = Null \/ value.filter = load[l].filter
                     /\ shown' = [shown EXCEPT ![load[l].next] = value]
                     /\ load' = [load EXCEPT ![l] = After(load[l], load[l].next)]
    BY <1>5 DEF ReadBody
  <2>2. value = Null \/ value.filter \in Filters
    BY <1>1, <2>1 DEF IsLoad
  <2>3. QED
    BY <1>1, <2>1, <2>2, AfterPart DEF LoadInv
<1>6. CASE LoadThrows(l)
  BY <1>1, <1>2, <1>3, <1>6 DEF LoadThrows, LoadInv
<1>7. QED
  BY <1>4, <1>5, <1>6 DEF LoadMetrics

LEMMA NextKeepsLoad ==
    ASSUME LoadInv, [Next]_vars
    PROVE  LoadInv'
<1>1. CASE UNCHANGED <<filter, captured, load, shown>>
  BY <1>1 DEF LoadInv
<1>2. CASE (StreamNext /\ UNCHANGED loaderVars) \/ SamplesArrive \/ UNCHANGED vars
  BY <1>1, <1>2 DEF loaderVars, vars, SamplesArrive
<1>3. QED
  BY <1>2, EffectKeepsLoad, LoadsKeepLoad DEF Next

(* Two ranges with as many columns ask for the same samples.               *)
LEMMA ColumnsTellRanges ==
    ASSUME NEW f \in Filters, NEW g \in Filters,
           columnCountForRange[f.range] = columnCountForRange[g.range]
    PROVE  Requested(f) = Requested(g)
BY DashboardAssumption DEF columnCountForRange, Requested

(* A chart never draws the series of another range under its labels, not   *)
(* even one that a disposed load stored (operations-dashboard.tsx).        *)
THEOREM SeriesFits == Spec => []DrawnSeriesFitsRange
<1>1. LoadInv => DrawnSeriesFitsRange
  BY ColumnsTellRanges, DashboardAssumption DEF LoadInv, DrawnSeriesFitsRange, DrawnSeries
<1>2. QED
  BY <1>1, InitLoad, NextKeepsLoad, PTL DEF Spec

=============================================================================
