------------------------ MODULE MCFingerprintWindow ------------------------
(***************************************************************************)
(* Two fingerprints, a window of 2 and a clock that may read 0..4 in any   *)
(* order: both sides of the expiry boundary (reading = expiry, expiry - 1) *)
(* are met, and so are two full windows and steps back across one.         *)
(***************************************************************************)
EXTENDS FingerprintWindow

MCInstants == 0..4
============================================================================
