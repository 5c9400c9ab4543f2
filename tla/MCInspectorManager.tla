------------------------ MODULE MCInspectorManager ------------------------
(* A recipe that asks one inspector before the secondary one.              *)
EXTENDS InspectorManager, TLC

CONSTANTS j1, j2, j3, r1, r2

MCJobs == {j1, j2, j3}
MCTwoJobs == {j1, j2}
MCReloaders == {r1, r2}
MCTwo == {"svm", "secondary"}
MCSecondary == {"secondary"}
=============================================================================
