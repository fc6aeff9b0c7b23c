---------------------------- MODULE DedupWindow ----------------------------
(***************************************************************************)
(* What Pulse promises about duplicate alerts, independent of how it is    *)
(* implemented: a request to open an incident for a key is granted exactly *)
(* when no opening of that key was granted less than Window ago, and       *)
(* dropped otherwise.                                                      *)
(*                                                                         *)
(* Two pieces of code implement it: the alerter, with a Redis key set NX   *)
(* and EX (module AlertPipeline), and shouldOpenIncident of @pulse/core,   *)
(* with an in-memory map (module FingerprintWindow).                       *)
(***************************************************************************)
EXTENDS Naturals

CONSTANTS
    Keys,       \* what is deduplicated: alert fingerprints
    Window,     \* length of the suppression window
    Instants    \* readings the clock may show

VARIABLES
    now,        \* the clock; nothing here needs it to be monotonic
    opens,      \* granted requests: records [key, at]
    drops       \* dropped requests: records [key, at]

vars == <<now, opens, drops>>

Requests == [key: Keys, at: Instants]

TypeOK ==
    /\ now \in Instants
    /\ opens \subseteq Requests
    /\ drops \subseteq Requests

Covered(k, t) == \E w \in opens : w.key = k /\ t < w.at + Window

Init ==
    /\ now \in Instants
    /\ opens = {}
    /\ drops = {}

ReadClock ==
    /\ now' \in Instants
    /\ UNCHANGED <<opens, drops>>

Open(k) ==
    /\ ~Covered(k, now)
    /\ opens' = opens \union {[key |-> k, at |-> now]}
    /\ UNCHANGED <<now, drops>>

Drop(k) ==
    /\ Covered(k, now)
    /\ drops' = drops \union {[key |-> k, at |-> now]}
    /\ UNCHANGED <<now, opens>>

Next ==
    \/ ReadClock
    \/ \E k \in Keys : Open(k) \/ Drop(k)

Spec == Init /\ [][Next]_vars

----------------------------------------------------------------------------

Apart(s, t) == s + Window <= t \/ t + Window <= s

(* Two openings of one key are at least Window apart: the promise behind   *)
(* the 300 second expiry of alerts.service.ts and the windowMs of          *)
(* fingerprint.ts.                                                         *)
Spacing ==
    \A v, w \in opens : v.key = w.key /\ v # w => Apart(v.at, w.at)

(* Nothing is dropped without reason: each dropped request has an opening  *)
(* of its key whose window had not ended when the request was made.        *)
DropsAreCovered ==
    \A d \in drops : \E w \in opens : w.key = d.key /\ d.at < w.at + Window

============================================================================
