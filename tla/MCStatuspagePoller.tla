------------------------ MODULE MCStatuspagePoller ------------------------
(***************************************************************************)
(* The instance of StatuspagePoller: hosts h1 and h2 polled by one process,*)
(* all incidents on h1.  The backoff is capped at 2 and a source is stale  *)
(* after 2 failures, so three faults reach both.                           *)
(***************************************************************************)
EXTENDS StatuspagePoller

CONSTANTS h1, h2

MCHostOf == [v \in VendorIncidents |-> h1]
============================================================================
