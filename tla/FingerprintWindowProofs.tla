---------------------- MODULE FingerprintWindowProofs ----------------------
(***************************************************************************)
(* For every set of fingerprints, every window and every sequence of clock *)
(* readings: what the deduplication window promises follows from its steps *)
(* (module DedupWindow), and shouldOpenIncident implements it, so that the *)
(* function keeps the promise.                                             *)
(***************************************************************************)
EXTENDS FingerprintWindow, TLAPS

----------------------------------------------------------------------------
(* The promise.                                                            *)

(* The history of the window is well typed.                                *)
LEMMA PromiseTypes == Abstract!Spec => []Abstract!TypeOK
<1>1. Abstract!Init => Abstract!TypeOK
  BY DEF Abstract!Init, Abstract!TypeOK
<1>2. Abstract!TypeOK /\ [Abstract!Next]_Abstract!vars => Abstract!TypeOK'
  <2> SUFFICES ASSUME Abstract!TypeOK, [Abstract!Next]_Abstract!vars
               PROVE  Abstract!TypeOK'
    OBVIOUS
  <2>1. CASE Abstract!ReadClock
    BY <2>1 DEF Abstract!ReadClock, Abstract!TypeOK
  <2>2. ASSUME NEW k \in Fingerprints, Abstract!Open(k) PROVE Abstract!TypeOK'
    BY <2>2 DEF Abstract!Open, Abstract!TypeOK, Abstract!Requests
  <2>3. ASSUME NEW k \in Fingerprints, Abstract!Drop(k) PROVE Abstract!TypeOK'
    BY <2>3 DEF Abstract!Drop, Abstract!TypeOK, Abstract!Requests
  <2>4. CASE UNCHANGED Abstract!vars
    BY <2>4 DEF Abstract!vars, Abstract!TypeOK
  <2>5. QED
    BY <2>1, <2>2, <2>3, <2>4 DEF Abstract!Next
<1>3. QED
  BY <1>1, <1>2, PTL DEF Abstract!Spec

(* Two openings of one key are at least Window apart, even when the clock  *)
(* steps back between them (alerts.service.ts:88-92, fingerprint.ts:28-41).*)
THEOREM OpeningsAreSpaced == Abstract!Spec => []Abstract!Spacing
<1>1. Abstract!Init => Abstract!Spacing
  BY DEF Abstract!Init, Abstract!Spacing
<1>2. Abstract!TypeOK /\ Abstract!Spacing /\ [Abstract!Next]_Abstract!vars => Abstract!Spacing'
  <2> SUFFICES ASSUME Abstract!TypeOK, Abstract!Spacing, [Abstract!Next]_Abstract!vars
               PROVE  Abstract!Spacing'
    OBVIOUS
  <2>1. ASSUME NEW k \in Fingerprints, Abstract!Open(k) PROVE Abstract!Spacing'
    <3> DEFINE new == [key |-> k, at |-> nowMs]
    <3>1. opens' = opens \union {new}
      BY <2>1 DEF Abstract!Open
    <3>2. \A w \in opens : w.key = k => w.at + WindowMs <= nowMs
      <4> SUFFICES ASSUME NEW w \in opens, w.key = k PROVE w.at + WindowMs <= nowMs
        OBVIOUS
      <4>1. ~(nowMs < w.at + WindowMs)
        BY <2>1 DEF Abstract!Open, Abstract!Covered
      <4>2. nowMs \in Nat /\ w.at \in Nat
        BY ClockAssumption DEF Abstract!TypeOK, Abstract!Requests
      <4>3. QED
        BY <4>1, <4>2, WindowMsAssumption
    <3>3. ASSUME NEW v \in opens, NEW w \in opens, v.key = w.key, v # w
          PROVE Abstract!Apart(v.at, w.at)
      BY <3>3 DEF Abstract!Spacing
    <3>4. ASSUME NEW w \in opens, w.key = k
          PROVE Abstract!Apart(w.at, nowMs) /\ Abstract!Apart(nowMs, w.at)
      BY <3>2, <3>4 DEF Abstract!Apart
    <3>5. QED
      BY <3>1, <3>3, <3>4 DEF Abstract!Spacing, Abstract!Apart
  <2>2. CASE UNCHANGED opens
    BY <2>2 DEF Abstract!Spacing, Abstract!Apart
  <2>3. QED
    BY <2>1, <2>2 DEF Abstract!Next, Abstract!ReadClock, Abstract!Drop, Abstract!vars
<1>3. QED
  BY <1>1, <1>2, PromiseTypes, PTL DEF Abstract!Spec

(* Whatever is dropped was dropped inside the window of an opening of its  *)
(* key: openings are never forgotten, so none is swallowed without cause.  *)
THEOREM DropsAlwaysCovered == Abstract!Spec => []Abstract!DropsAreCovered
<1>1. Abstract!Init => Abstract!DropsAreCovered
  BY DEF Abstract!Init, Abstract!DropsAreCovered
<1>2. Abstract!DropsAreCovered /\ [Abstract!Next]_Abstract!vars => Abstract!DropsAreCovered'
  <2> SUFFICES ASSUME Abstract!DropsAreCovered, [Abstract!Next]_Abstract!vars
               PROVE  Abstract!DropsAreCovered'
    OBVIOUS
  <2>1. ASSUME NEW k \in Fingerprints, Abstract!Open(k) PROVE Abstract!DropsAreCovered'
    BY <2>1 DEF Abstract!Open, Abstract!DropsAreCovered
  <2>2. ASSUME NEW k \in Fingerprints, Abstract!Drop(k) PROVE Abstract!DropsAreCovered'
    BY <2>2 DEF Abstract!Drop, Abstract!Covered, Abstract!DropsAreCovered
  <2>3. CASE UNCHANGED <<opens, drops>>
    BY <2>3 DEF Abstract!DropsAreCovered
  <2>4. QED
    BY <2>1, <2>2, <2>3 DEF Abstract!Next, Abstract!ReadClock, Abstract!vars
<1>3. QED
  BY <1>1, <1>2, PTL DEF Abstract!Spec

----------------------------------------------------------------------------
(* The function.                                                           *)

(* The map and the history of its answers are well typed.                  *)
LEMMA TypeCorrect == Spec => []TypeOK
<1>1. Init => TypeOK
  BY DEF Init, TypeOK, Unseen
<1>2. TypeOK /\ [Next]_vars => TypeOK'
  <2> SUFFICES ASSUME TypeOK, [Next]_vars PROVE TypeOK'
    OBVIOUS
  <2>1. CASE AdvanceClock
    BY <2>1 DEF AdvanceClock, TypeOK
  <2>2. ASSUME NEW f \in Fingerprints, ReturnFalse(f) PROVE TypeOK'
    BY <2>2 DEF ReturnFalse, TypeOK
  <2>3. ASSUME NEW f \in Fingerprints, ReturnTrue(f) PROVE TypeOK'
    BY <2>3, WindowMsAssumption, ClockAssumption DEF ReturnTrue, TypeOK
  <2>4. CASE UNCHANGED vars
    BY <2>4 DEF vars, TypeOK
  <2>5. QED
    BY <2>1, <2>2, <2>3, <2>4 DEF Next, ShouldOpenIncident
<1>3. QED
  BY <1>1, <1>2, PTL DEF Spec

(* A map entry is the end of the latest window of its fingerprint: what    *)
(* the single number of fingerprint.ts:35-39 has to stand for.             *)
THEOREM EntryCorrect == Spec => []EntryIsLatestExpiry
<1>1. Init => EntryIsLatestExpiry
  BY DEF Init, EntryIsLatestExpiry
<1>2. TypeOK /\ EntryIsLatestExpiry /\ [Next]_vars => EntryIsLatestExpiry'
  <2> SUFFICES ASSUME TypeOK, EntryIsLatestExpiry, [Next]_vars
               PROVE  EntryIsLatestExpiry'
    OBVIOUS
  <2>1. ASSUME NEW f \in Fingerprints, ReturnTrue(f)
        PROVE  EntryIsLatestExpiry'
    <3> DEFINE new == [key |-> f, at |-> nowMs]
    <3>1. /\ opens' = opens \union {new}
          /\ seen' = [seen EXCEPT ![f] = nowMs + WindowMs]
          /\ seen'[f] = nowMs + WindowMs
      BY <2>1 DEF ReturnTrue, TypeOK
    <3>2. seen[f] \in Nat /\ nowMs \in Nat
      BY ClockAssumption DEF TypeOK
    <3>3. seen[f] <= nowMs
      BY <2>1, <3>2 DEF ReturnTrue, Suppressed, Unseen
    <3>4. ASSUME NEW w \in opens, w.key = f
          PROVE  w.at + WindowMs <= nowMs + WindowMs
      <4>1. w.at \in Nat /\ w.at + WindowMs <= seen[f]
        BY <3>4, ClockAssumption DEF TypeOK, EntryIsLatestExpiry
      <4>2. QED
        BY <4>1, <3>2, <3>3, WindowMsAssumption
    <3>5. nowMs + WindowMs <= nowMs + WindowMs
      BY <3>2, WindowMsAssumption
    <3>6. ASSUME NEW g \in Fingerprints
          PROVE  /\ \A w \in opens' : w.key = g => w.at + WindowMs <= seen'[g]
                 /\ \/ seen'[g] = Unseen
                    \/ \E w \in opens' : w.key = g /\ w.at + WindowMs = seen'[g]
      <4>1. CASE g = f
        <5>1. new \in opens' /\ new.key = f /\ new.at = nowMs
          BY <3>1
        <5>2. \A w \in opens' : w.key = f => w.at + WindowMs <= seen'[f]
          BY <3>1, <3>4, <3>5
        <5>3. \E w \in opens' : w.key = f /\ w.at + WindowMs = seen'[f]
          BY <3>1, <5>1
        <5>4. QED
          BY <4>1, <5>2, <5>3
      <4>2. CASE g # f
        <5>1. seen'[g] = seen[g]
          BY <4>2, <3>1 DEF TypeOK
        <5>2. QED
          BY <4>2, <5>1, <3>1 DEF EntryIsLatestExpiry
      <4>3. QED
        BY <4>1, <4>2
    <3>7. QED
      BY <3>6 DEF EntryIsLatestExpiry, Unseen
  <2>2. CASE UNCHANGED <<seen, opens>>
    BY <2>2 DEF EntryIsLatestExpiry, Unseen
  <2>3. QED
    BY <2>1, <2>2 DEF Next, ShouldOpenIncident, AdvanceClock, ReturnFalse, vars
<1>3. QED
  BY <1>1, <1>2, TypeCorrect, PTL DEF Spec

(* A call suppresses exactly the fingerprints the abstract window covers.  *)
LEMMA SuppressedIffCovered ==
    ASSUME TypeOK, EntryIsLatestExpiry, NEW f \in Fingerprints
    PROVE  Suppressed(f) <=> Abstract!Covered(f, nowMs)
<1>1. nowMs \in Nat /\ seen[f] \in Nat
  BY ClockAssumption DEF TypeOK
<1>2. ASSUME Suppressed(f) PROVE Abstract!Covered(f, nowMs)
  <2>1. PICK w \in opens : w.key = f /\ w.at + WindowMs = seen[f]
    BY <1>2 DEF Suppressed, EntryIsLatestExpiry
  <2>2. nowMs < w.at + WindowMs
    BY <1>1, <1>2, <2>1 DEF Suppressed
  <2>3. QED
    BY <2>1, <2>2 DEF Abstract!Covered
<1>3. ASSUME Abstract!Covered(f, nowMs) PROVE Suppressed(f)
  <2>1. PICK w \in opens : w.key = f /\ nowMs < w.at + WindowMs
    BY <1>3 DEF Abstract!Covered
  <2>2. w.at \in Nat /\ w.at + WindowMs <= seen[f]
    BY <2>1, ClockAssumption DEF TypeOK, EntryIsLatestExpiry
  <2>3. QED
    BY <1>1, <2>1, <2>2, WindowMsAssumption DEF Suppressed, Unseen
<1>4. QED
  BY <1>2, <1>3

(* Every call of shouldOpenIncident is a step of the abstract window.      *)
THEOREM Implementation == Spec => ImplementsDedupWindow
<1>1. Init => Abstract!Init
  BY DEF Init, Abstract!Init
<1>2. TypeOK /\ EntryIsLatestExpiry /\ [Next]_vars => [Abstract!Next]_Abstract!vars
  <2> SUFFICES ASSUME TypeOK, EntryIsLatestExpiry, [Next]_vars
               PROVE  [Abstract!Next]_Abstract!vars
    OBVIOUS
  <2>1. CASE AdvanceClock
    BY <2>1 DEF AdvanceClock, Abstract!Next, Abstract!ReadClock
  <2>2. ASSUME NEW f \in Fingerprints, ReturnFalse(f)
        PROVE  Abstract!Drop(f)
    BY <2>2, SuppressedIffCovered DEF ReturnFalse, Abstract!Drop
  <2>3. ASSUME NEW f \in Fingerprints, ReturnTrue(f)
        PROVE  Abstract!Open(f)
    BY <2>3, SuppressedIffCovered DEF ReturnTrue, Abstract!Open
  <2>4. CASE UNCHANGED vars
    BY <2>4 DEF vars, Abstract!vars
  <2>5. QED
    BY <2>1, <2>2, <2>3, <2>4 DEF Next, ShouldOpenIncident, Abstract!Next
<1>3. QED
  BY <1>1, <1>2, TypeCorrect, EntryCorrect, PTL
     DEF Spec, ImplementsDedupWindow, Abstract!Spec

(* So the function keeps the promise: what it lets through is spaced, and  *)
(* what it holds back had been let through less than windowMs before.      *)
COROLLARY PromiseKept == Spec => [](OpensAreSpaced /\ Abstract!DropsAreCovered)
<1>1. Spec => Abstract!Spec
  BY Implementation DEF ImplementsDedupWindow
<1>2. Spec => []OpensAreSpaced
  BY <1>1, OpeningsAreSpaced, PTL DEF OpensAreSpaced
<1>3. QED
  BY <1>1, <1>2, DropsAlwaysCovered, PTL

============================================================================
