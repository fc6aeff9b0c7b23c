------------------------- MODULE FingerprintWindow -------------------------
(***************************************************************************)
(* shouldOpenIncident of packages/core/src/fingerprint.ts: the in-memory   *)
(* form of the alert deduplication window.  The caller passes the map of   *)
(* expiry times, the time and the window on each call; nothing forces the  *)
(* time to be monotonic (Date.now() may step back), so here it may not be. *)
(***************************************************************************)
EXTENDS Naturals

CONSTANTS
    Fingerprints,   \* hex digests, opaque here
    WindowMs,       \* the windowMs argument, 300_000 by default
    Instants        \* readings of the caller's clock

ASSUME WindowMsAssumption == WindowMs \in Nat \ {0}
ASSUME ClockAssumption == Instants \subseteq Nat

VARIABLES
    seen,           \* seen[f]: expiresAt of the map entry of f, or Unseen
    nowMs,          \* the nowMs argument of the next call
    opens,          \* calls that returned true:  records [key, at]
    drops           \* calls that returned false: records [key, at]

vars == <<seen, nowMs, opens, drops>>

\* An entry written at time t is t + WindowMs > 0, so 0 can stand for
\* "no entry".
Unseen == 0

TypeOK ==
    /\ seen \in [Fingerprints -> Nat]
    /\ nowMs \in Instants
    /\ opens \subseteq [key: Fingerprints, at: Instants]
    /\ drops \subseteq [key: Fingerprints, at: Instants]

Init ==
    /\ seen = [f \in Fingerprints |-> Unseen]
    /\ nowMs \in Instants
    /\ opens = {}
    /\ drops = {}

AdvanceClock ==
    /\ nowMs' \in Instants
    /\ UNCHANGED <<seen, opens, drops>>

\* Mutant of Suppressed: an entry that expires now still suppresses.
SuppressedAtExpiry(f) == seen[f] # Unseen /\ seen[f] >= nowMs

Suppressed(f) == seen[f] # Unseen /\ seen[f] > nowMs

(* The call returns false and leaves the map alone.                        *)
ReturnFalse(f) ==
    /\ Suppressed(f)
    /\ drops' = drops \union {[key |-> f, at |-> nowMs]}
    /\ UNCHANGED <<seen, nowMs, opens>>

(* The call records the new expiry and returns true.                       *)
ReturnTrue(f) ==
    /\ ~Suppressed(f)
    /\ seen' = [seen EXCEPT ![f] = nowMs + WindowMs]
    /\ opens' = opens \union {[key |-> f, at |-> nowMs]}
    /\ UNCHANGED <<nowMs, drops>>

ShouldOpenIncident(f) == ReturnFalse(f) \/ ReturnTrue(f)

Next ==
    \/ AdvanceClock
    \/ \E f \in Fingerprints : ShouldOpenIncident(f)

Spec == Init /\ [][Next]_vars

----------------------------------------------------------------------------

Abstract == INSTANCE DedupWindow
                WITH Keys <- Fingerprints, Window <- WindowMs, now <- nowMs

(* shouldOpenIncident implements the deduplication window: true exactly    *)
(* when no opening of the fingerprint is less than windowMs old, even when *)
(* the clock steps back between calls (fingerprint.ts:28-41).              *)
ImplementsDedupWindow == Abstract!Spec

(* Two incidents opened for one fingerprint are at least windowMs apart,   *)
(* whatever the order of the times the caller passes.                      *)
OpensAreSpaced == Abstract!Spacing

(* The map entry of a fingerprint is what the openings say it should be:   *)
(* the end of the latest of their windows, and absent without an opening.  *)
(* This is the invariant the refinement rests on.                          *)
EntryIsLatestExpiry ==
    \A f \in Fingerprints :
        /\ \A w \in opens : w.key = f => w.at + WindowMs <= seen[f]
        /\ \/ seen[f] = Unseen
           \/ \E w \in opens : w.key = f /\ w.at + WindowMs = seen[f]

============================================================================
