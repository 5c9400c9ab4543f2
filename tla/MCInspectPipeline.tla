------------------------- MODULE MCInspectPipeline -------------------------
(* Instances of InspectPipeline for TLC.                                   *)
EXTENDS InspectPipeline

AllFaults    == FaultSites
ThreadFaults == {"inspect", "judge"}
GrabFaults   == {"retries"}
NoFaults     == {}
SecondFails  == {2}
NoneFails    == {}
=============================================================================
