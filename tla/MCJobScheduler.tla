--------------------------- MODULE MCJobScheduler ---------------------------
(***************************************************************************)
(* Instances of JobScheduler.  Two keys whose intervals are not multiples  *)
(* of the period: a tick finds one of them due just too late.  A tick of   *)
(* both may last longer than the period.                                   *)
(***************************************************************************)
EXTENDS JobScheduler

CONSTANTS k1, k2

MCInterval == [k \in Keys |-> IF k = k1 THEN 3 ELSE 5]
=============================================================================
