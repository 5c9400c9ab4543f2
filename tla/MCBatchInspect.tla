--------------------------- MODULE MCBatchInspect ---------------------------
(* Which faults a run lets happen.                                         *)
EXTENDS BatchInspect

AllFaults == FaultSites
GrabFaults == {"grab"}
RetryFaults == {"retries"}
NoFaults  == {}
=============================================================================
