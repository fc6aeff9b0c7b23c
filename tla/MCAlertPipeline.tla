-------------------------- MODULE MCAlertPipeline --------------------------
(***************************************************************************)
(* Instances of AlertPipeline: an ordinary check with a vendor and a       *)
(* baseline check, in one region and on one partition, whose failures are  *)
(* either network trouble or an HTTP status.                               *)
(***************************************************************************)
EXTENDS AlertPipeline, TLC

CONSTANTS web, base, acme, p1

Plain == [baseline |-> FALSE, vendor |-> NoVendor]
Vendored == [baseline |-> FALSE, vendor |-> acme]
Baseline == [baseline |-> TRUE, vendor |-> NoVendor]

MCInitialRow == [c \in Checks |-> IF c = base THEN Baseline ELSE Vendored]
MCNoInitialRow == [c \in Checks |-> NoRow]
MCTagChoices == {Vendored, Baseline}
MCRetagChoices == {Plain, Vendored, Baseline}
MCSymmetry == Permutations(Alerters)
MCOnePartition == [c \in Checks |-> p1]
============================================================================
