-------------------------- MODULE InspectPipeline --------------------------
(***************************************************************************)
(* One camera's inspection pipeline: a ring of inspection buffers, filled  *)
(* by grab threads, inspected by up to NumThreads algorithm threads and    *)
(* drained, in scan order, by one result-save thread.                      *)
(*                                                                         *)
(*   handler --InspectionMove--> grab thread (InspectionThread_Inspect)    *)
(*     grab thread --CopyInspectInformation--> scan queue, inspect queue   *)
(*     inspect queue --AlgorithmThread--> buffer POSTPROCESSING            *)
(*     scan queue --ResultSaveThread--> buffer AVAILABLE, InspectComplete  *)
(*                                                                         *)
(* Every step below is one critical section, or one run of code over data  *)
(* that the thread has to itself, so every interleaving of the threads is  *)
(* a behaviour.  Taking a permit of the semaphore goes with the step after *)
(* it, giving it back with the step before it.  A thread's local variable  *)
(* is reset where the thread reads it for the last time.  The production   *)
(* build (INLINE_MODE, no batch inspection) is modelled.                   *)
(***************************************************************************)
EXTENDS Integers, Sequences, FiniteSets

CONSTANTS
  NumModules,   \* modules the handler presents (bounds the model)
  NumBuffers,   \* m_iMaxInspectionBufferCount: size of the ring
  NumThreads,   \* m_iVisionInspectThreadNumber: semaphore size, thread indexes
  Window,       \* how many modules the handler lets be unfinished at once
  UseGrabHold,  \* m_bUseGrabHold
  FaiFails,     \* modules whose measurements failed: measureStruct.m_bInspectFail
  Faults        \* what may go wrong: a subset of FaultSites

\* All retries of a grab fail; a Halcon operator throws in the grab thread, in
\* the copy into the buffer, in an algorithm thread, or in the result-save
\* thread before or after it reported.
FaultSites == {"retries", "grab", "image", "inspect", "judge", "alarm"}

ASSUME ConstantsAssumption ==
  /\ NumModules \in Nat
  /\ NumBuffers \in Nat \ {0}
  /\ NumThreads \in Nat \ {0}
  /\ Window \in Nat \ {0}
  /\ UseGrabHold \in BOOLEAN
  /\ FaiFails \subseteq 1 .. NumModules
  /\ Faults \subseteq FaultSites

Modules == 1 .. NumModules
Slots   == 0 .. NumBuffers - 1
Threads == 0 .. NumThreads - 1
\* The algorithm thread with index w[2] that the copy of module w[1] started.
Workers == Modules \X Threads
None    == 0     \* no module

INSPECTING     == "INSPECTING"
POSTPROCESSING == "POSTPROCESSING"
AVAILABLE      == "AVAILABLE"

\* "OK" is every verdict of an inspection that ran on a matched image; "MC" is
\* a matching failure (a light error is one of them); "GF" a failed grab; "FAI"
\* the defect code of a failed measurement, which replaces any of the others.
Verdicts == {"OK", "GF", "MC", "FAI"}

\* The defect code sent for module m: GetFaiDefectCode if a measurement of that
\* module failed, whatever the verdict was.
Sent(m, v) == IF m \in FaiFails THEN "FAI" ELSE v

VARIABLES
  gpc,         \* control state of the grab thread of each module
  failed,      \* its bGrabFail
  gslot,       \* the buffer index PrepareAlgorithmBuffer gave it
  gidx,        \* i of the loop that starts algorithm threads
  scanIdx,     \* m_iScanBufferIdx
  moduleNo,    \* m_nModuleNo[idx]
  grabFail,    \* m_bGrabFail[idx]
  matched,     \* m_bMatchingSuccess[idx]
  status,      \* m_iInspectBufferStatus[idx]
  scanQ,       \* m_listScanThreadParam
  inspQ,       \* m_listInspectThreadParam
  running,     \* m_bAlgorithmThreadRunning[i]
  permits,     \* count of m_pSemaphore
  wpc,         \* control state of each algorithm thread
  wslot,       \* its iCurInspectionBufferIdx
  dying,       \* it is in its catch block
  saving,      \* m_bResultSaveThreadRunning
  spc,         \* control state of the result-save thread
  sslot,       \* its iInspectionBufferIdx
  smodule,     \* its iModuleNo
  verdict,     \* its judgement
  reported,    \* what Set_InspectComplete told the handler of each module
  \* History, read by no action of the program:
  accepted,    \* modules in the order they entered the scan queue
  owner,       \* module whose data a buffer holds until it is saved
  overrun      \* a grab thread took a buffer that was still owned

grabVars   == <<gpc, failed, gslot, gidx>>
bufferVars == <<scanIdx, moduleNo, grabFail, matched, status>>
queueVars  == <<scanQ, inspQ>>
workVars   == <<running, permits, wpc, wslot, dying>>
saveVars   == <<saving, spc, sslot, smodule, verdict, reported>>
ghostVars  == <<accepted, owner, overrun>>
vars == <<grabVars, bufferVars, queueVars, workVars, saveVars, ghostVars>>

-----------------------------------------------------------------------------
(* The handler, and the part of a grab thread that ends with ScanComplete. *)

\* Control states after Set_ScanComplete; a stopped or failed grab ends too.
Copying   == {"claim", "fill", "mark", "qscan", "qinsp", "start"}
GrabEnded == {"done", "stopped", "lost"}

\* The handler has nothing more to wait for from module m.
Finished(m) == reported[m] # <<>> \/ gpc[m] \in {"stopped", "lost"}

\* InspectionMove.  The handler moves the stage to the next module after the
\* scan of the previous one, and keeps at most Window modules unfinished.
InspectionMove(m) ==
  /\ gpc[m] = "idle"
  /\ \A k \in 1 .. m - 1 : gpc[k] \in Copying \union GrabEnded
  /\ \A k \in 1 .. m - Window : Finished(k)
  /\ gpc' = [gpc EXCEPT ![m] = "grab"]
  /\ UNCHANGED <<failed, gslot, gidx, bufferVars, queueVars, workVars,
                 saveVars, ghostVars>>

\* All images were tried; one whose retries all failed sets bGrabFail.  Unless
\* it holds, the thread sends ScanComplete: the handler may go on from here.
GrabDone(m) ==
  /\ gpc[m] = "grab"
  /\ \/ UNCHANGED failed
     \/ "retries" \in Faults /\ failed' = [failed EXCEPT ![m] = TRUE]
  /\ gpc' = [gpc EXCEPT ![m] = IF UseGrabHold THEN "hold" ELSE "claim"]
  /\ UNCHANGED <<gslot, gidx, bufferVars, queueVars, workVars, saveVars,
                 ghostVars>>

\* Cycle stop or reload while waiting for motion: the thread just returns.
GrabStopped(m) ==
  /\ gpc[m] = "grab"
  /\ gpc' = [gpc EXCEPT ![m] = "stopped"]
  /\ UNCHANGED <<failed, gslot, gidx, bufferVars, queueVars, workVars,
                 saveVars, ghostVars>>

\* The catch block sends ScanComplete and hands nothing to the algorithm.
GrabThrows(m) ==
  /\ "grab" \in Faults
  /\ gpc[m] = "grab"
  /\ gpc' = [gpc EXCEPT ![m] = "lost"]
  /\ UNCHANGED <<failed, gslot, gidx, bufferVars, queueVars, workVars,
                 saveVars, ghostVars>>

\* The grab-hold loop breaks when the buffer claimed last is not available, and
\* it breaks when it is: it never waits.  ScanComplete follows.
GrabHold(m) ==
  /\ gpc[m] = "hold"
  /\ gpc' = [gpc EXCEPT ![m] = "claim"]
  /\ UNCHANGED <<failed, gslot, gidx, bufferVars, queueVars, workVars,
                 saveVars, ghostVars>>

-----------------------------------------------------------------------------
(* CopyInspectInformation, called by the grab thread.                      *)

\* Mutant: the ring wraps one buffer early.
NextSlotShort == IF scanIdx + 2 >= NumBuffers THEN 0 ELSE scanIdx + 1

NextSlot == IF scanIdx + 1 >= NumBuffers THEN 0 ELSE scanIdx + 1

\* PrepareAlgorithmBuffer, under m_csScanBufferIdx: take the next buffer of
\* the ring, whatever its status.
ClaimBuffer(m) ==
  /\ gpc[m] = "claim"
  /\ scanIdx' = NextSlot
  /\ gslot' = [gslot EXCEPT ![m] = NextSlot]
  /\ gpc' = [gpc EXCEPT ![m] = "fill"]
  /\ overrun' = (overrun \/ owner[NextSlot] # None)
  /\ owner' = [owner EXCEPT ![NextSlot] = m]
  /\ UNCHANGED <<failed, gidx, moduleNo, grabFail, matched, status, queueVars,
                 workVars, saveVars, accepted>>

\* The module's fields, then its images unless the grab failed.
FillBuffer(m) ==
  /\ gpc[m] = "fill"
  /\ moduleNo' = [moduleNo EXCEPT ![gslot[m]] = m]
  /\ grabFail' = [grabFail EXCEPT ![gslot[m]] = failed[m]]
  /\ gpc' = [gpc EXCEPT ![m] = "mark"]
  /\ UNCHANGED <<failed, gslot, gidx, scanIdx, matched, status, queueVars,
                 workVars, saveVars, ghostVars>>

\* CopyGrabImages throws: the buffer is marked, abandoned, and the grab thread
\* calls CopyInspectInformation again as a failed grab: it claims another one.
CopyThrows(m) ==
  /\ "image" \in Faults
  /\ gpc[m] = "fill"
  /\ ~failed[m]
  /\ moduleNo' = [moduleNo EXCEPT ![gslot[m]] = m]
  /\ grabFail' = [grabFail EXCEPT ![gslot[m]] = TRUE]
  /\ failed' = [failed EXCEPT ![m] = TRUE]
  /\ owner' = [owner EXCEPT ![gslot[m]] = None]
  /\ gpc' = [gpc EXCEPT ![m] = "claim"]
  /\ UNCHANGED <<gslot, gidx, scanIdx, matched, status, queueVars, workVars,
                 saveVars, accepted, overrun>>

MarkInspecting(m) ==
  /\ gpc[m] = "mark"
  /\ status' = [status EXCEPT ![gslot[m]] = INSPECTING]
  /\ gpc' = [gpc EXCEPT ![m] = "qscan"]
  /\ UNCHANGED <<failed, gslot, gidx, scanIdx, moduleNo, grabFail, matched,
                 queueVars, workVars, saveVars, ghostVars>>

AddScan(m) ==
  /\ gpc[m] = "qscan"
  /\ scanQ' = Append(scanQ, gslot[m])
  /\ accepted' = Append(accepted, m)
  /\ gpc' = [gpc EXCEPT ![m] = "qinsp"]
  /\ UNCHANGED <<failed, gslot, gidx, bufferVars, inspQ, workVars, saveVars,
                 owner, overrun>>

AddInspect(m) ==
  /\ gpc[m] = "qinsp"
  /\ inspQ' = Append(inspQ, gslot[m])
  /\ gslot' = [gslot EXCEPT ![m] = 0]
  /\ gpc' = [gpc EXCEPT ![m] = "start"]
  /\ UNCHANGED <<failed, gidx, bufferVars, scanQ, workVars, saveVars,
                 ghostVars>>

\* One turn of the loop: start a thread for index i unless i is running.  The
\* flag is set by the new thread, so two copies may both start index i.
StartThread(m) ==
  /\ gpc[m] = "start"
  /\ wpc' = IF running[gidx[m]] THEN wpc
            ELSE [wpc EXCEPT ![<<m, gidx[m]>>] = "begin"]
  /\ \/ /\ gidx[m] + 1 < NumThreads
        /\ gidx' = [gidx EXCEPT ![m] = @ + 1]
        /\ UNCHANGED gpc
     \/ /\ gidx[m] + 1 = NumThreads
        /\ gidx' = [gidx EXCEPT ![m] = 0]
        /\ gpc' = [gpc EXCEPT ![m] = "done"]
  /\ UNCHANGED <<failed, gslot, bufferVars, queueVars, running, permits, wslot,
                 dying, saveVars, ghostVars>>

-----------------------------------------------------------------------------
(* AlgorithmThread.                                                        *)

ThreadBegin(w) ==
  /\ wpc[w] = "begin"
  /\ running' = [running EXCEPT ![w[2]] = TRUE]
  /\ wpc' = [wpc EXCEPT ![w] = "lock"]
  /\ UNCHANGED <<grabVars, bufferVars, queueVars, permits, wslot, dying,
                 saveVars, ghostVars>>

\* Mutant: the thread looks at the queue without a permit.
CheckQueueNoWait(w) ==
  /\ wpc[w] = "lock"
  /\ IF inspQ = <<>> THEN UNCHANGED permits ELSE permits' = permits - 1
  /\ wpc' = [wpc EXCEPT ![w] = IF inspQ = <<>> THEN "leave" ELSE "pop"]
  /\ UNCHANGED <<grabVars, bufferVars, queueVars, running, wslot, dying,
                 saveVars, ghostVars>>

\* Mutant: a thread that finds the queue empty keeps polling it.
CheckQueuePolls(w) ==
  /\ wpc[w] = "lock"
  /\ permits > 0
  /\ inspQ # <<>>
  /\ wpc' = [wpc EXCEPT ![w] = "pop"]
  /\ permits' = permits - 1
  /\ UNCHANGED <<grabVars, bufferVars, queueVars, running, wslot, dying,
                 saveVars, ghostVars>>

\* Take a permit, then IsInspectThreadParamEmpty.  A thread that sees an empty
\* queue returns the permit and is past the point where it could see an entry.
CheckQueue(w) ==
  /\ wpc[w] = "lock"
  /\ permits > 0
  /\ \/ /\ inspQ = <<>>
        /\ wpc' = [wpc EXCEPT ![w] = "leave"]
        /\ UNCHANGED permits
     \/ /\ inspQ # <<>>
        /\ wpc' = [wpc EXCEPT ![w] = "pop"]
        /\ permits' = permits - 1
  /\ UNCHANGED <<grabVars, bufferVars, queueVars, running, wslot, dying,
                 saveVars, ghostVars>>

\* Mutant: a thread that lost the race for the entry keeps its permit.
PopInspectKeeps(w) ==
  /\ wpc[w] = "pop"
  /\ \/ /\ inspQ = <<>>
        /\ wpc' = [wpc EXCEPT ![w] = "lock"]
        /\ UNCHANGED <<inspQ, wslot>>
     \/ /\ inspQ # <<>>
        /\ wslot' = [wslot EXCEPT ![w] = Head(inspQ)]
        /\ inspQ' = Tail(inspQ)
        /\ wpc' = [wpc EXCEPT ![w] = "inspect"]
  /\ UNCHANGED <<grabVars, bufferVars, scanQ, running, permits, dying, saveVars,
                 ghostVars>>

\* GetNextInspectThreadParam; NULL when another thread was quicker.
PopInspect(w) ==
  /\ wpc[w] = "pop"
  /\ \/ /\ inspQ = <<>>
        /\ permits' = permits + 1
        /\ wpc' = [wpc EXCEPT ![w] = "lock"]
        /\ UNCHANGED <<inspQ, wslot>>
     \/ /\ inspQ # <<>>
        /\ wslot' = [wslot EXCEPT ![w] = Head(inspQ)]
        /\ inspQ' = Tail(inspQ)
        /\ wpc' = [wpc EXCEPT ![w] = "inspect"]
        /\ UNCHANGED permits
  /\ UNCHANGED <<grabVars, bufferVars, scanQ, running, dying, saveVars,
                 ghostVars>>

\* Mutant: a failed grab leaves the flag the buffer's last module set.
InspectStale(w) ==
  /\ wpc[w] = "inspect"
  /\ \E ok \in IF grabFail[wslot[w]] THEN {matched[wslot[w]]} ELSE BOOLEAN :
       matched' = [matched EXCEPT ![wslot[w]] = ok]
  /\ wpc' = [wpc EXCEPT ![w] = "post"]
  /\ UNCHANGED <<grabVars, scanIdx, moduleNo, grabFail, status, queueVars,
                 running, permits, wslot, dying, saveVars, ghostVars>>

\* Mutant: a failed grab returns without ProcessResultSave.
InspectNoPost(w) ==
  /\ wpc[w] = "inspect"
  /\ matched' = [matched EXCEPT ![wslot[w]] = FALSE]
  /\ \/ /\ grabFail[wslot[w]]
        /\ wpc' = [wpc EXCEPT ![w] = "lock"]
        /\ permits' = permits + 1
     \/ /\ ~grabFail[wslot[w]]
        /\ wpc' = [wpc EXCEPT ![w] = "post"]
        /\ UNCHANGED permits
  /\ UNCHANGED <<grabVars, scanIdx, moduleNo, grabFail, status, queueVars,
                 running, wslot, dying, saveVars, ghostVars>>

\* BuildContext; the buffer's flags are reset, and a failed grab goes straight
\* to its result.  Otherwise align, and inspect when the image matched.
Inspect(w) ==
  /\ wpc[w] = "inspect"
  /\ \E ok \in IF grabFail[wslot[w]] THEN {FALSE} ELSE BOOLEAN :
       matched' = [matched EXCEPT ![wslot[w]] = ok]
  /\ wpc' = [wpc EXCEPT ![w] = "post"]
  /\ UNCHANGED <<grabVars, scanIdx, moduleNo, grabFail, status, queueVars,
                 running, permits, wslot, dying, saveVars, ghostVars>>

\* The catch block: the module counts as unmatched and the thread will end.
InspectThrows(w) ==
  /\ "inspect" \in Faults
  /\ wpc[w] = "inspect"
  /\ ~grabFail[wslot[w]]
  /\ matched' = [matched EXCEPT ![wslot[w]] = FALSE]
  /\ dying' = [dying EXCEPT ![w] = TRUE]
  /\ wpc' = [wpc EXCEPT ![w] = "post"]
  /\ UNCHANGED <<grabVars, scanIdx, moduleNo, grabFail, status, queueVars,
                 running, permits, wslot, saveVars, ghostVars>>

\* ProcessResultSave, first half: the buffer is inspected.
PostResult(w) ==
  /\ wpc[w] = "post"
  /\ status' = [status EXCEPT ![wslot[w]] = POSTPROCESSING]
  /\ wslot' = [wslot EXCEPT ![w] = 0]
  /\ wpc' = [wpc EXCEPT ![w] = "wake"]
  /\ UNCHANGED <<grabVars, scanIdx, moduleNo, grabFail, matched, queueVars,
                 running, permits, dying, saveVars, ghostVars>>

\* Mutant: the flag is tested here and set only by the thread it starts.
WakeSaverNoSet(w) ==
  /\ wpc[w] = "wake"
  /\ \/ saving /\ UNCHANGED <<saving, spc>>
     \/ ~saving /\ UNCHANGED saving /\ spc' = "begin"
  /\ permits' = permits + 1
  /\ wpc' = [wpc EXCEPT ![w] = IF dying[w] THEN "leave" ELSE "lock"]
  /\ dying' = [dying EXCEPT ![w] = FALSE]
  /\ UNCHANGED <<grabVars, bufferVars, queueVars, running, wslot, sslot,
                 smodule, verdict, reported, ghostVars>>

\* ProcessResultSave, second half: IsResultSaveThreadRunning tests and sets the
\* flag, and the caller that found it clear starts the thread.  The permit is
\* returned, and a thread in its catch block ends.
WakeSaver(w) ==
  /\ wpc[w] = "wake"
  /\ \/ saving /\ UNCHANGED <<saving, spc>>
     \/ ~saving /\ saving' = TRUE /\ spc' = "begin"
  /\ permits' = permits + 1
  /\ wpc' = [wpc EXCEPT ![w] = IF dying[w] THEN "leave" ELSE "lock"]
  /\ dying' = [dying EXCEPT ![w] = FALSE]
  /\ UNCHANGED <<grabVars, bufferVars, queueVars, running, wslot, sslot,
                 smodule, verdict, reported, ghostVars>>

ThreadEnd(w) ==
  /\ wpc[w] = "leave"
  /\ running' = [running EXCEPT ![w[2]] = FALSE]
  /\ wpc' = [wpc EXCEPT ![w] = "none"]
  /\ UNCHANGED <<grabVars, bufferVars, queueVars, permits, wslot, dying,
                 saveVars, ghostVars>>

-----------------------------------------------------------------------------
(* ResultSaveThread.                                                       *)

SaverBegin ==
  /\ spc = "begin"
  /\ saving' = TRUE
  /\ spc' = "take"
  /\ UNCHANGED <<grabVars, bufferVars, queueVars, workVars, sslot, smodule,
                 verdict, reported, ghostVars>>

\* IsScanThreadParamEmpty and GetNextScanThreadParam: only this thread removes.
TakeScan ==
  /\ spc = "take"
  /\ \/ /\ scanQ = <<>>
        /\ spc' = "leave"
        /\ UNCHANGED <<scanQ, sslot>>
     \/ /\ scanQ # <<>>
        /\ sslot' = Head(scanQ)
        /\ scanQ' = Tail(scanQ)
        /\ spc' = "poll"
  /\ UNCHANGED <<grabVars, bufferVars, inspQ, workVars, saving, smodule,
                 verdict, reported, ghostVars>>

\* Mutant: the saver does not wait for the inspection.
InspectDoneNoWait ==
  /\ spc = "poll"
  /\ smodule' = moduleNo[sslot]
  /\ spc' = "judge"
  /\ UNCHANGED <<grabVars, bufferVars, queueVars, workVars, saving, sslot,
                 verdict, reported, ghostVars>>

\* Mutant: identity read at m_iScanBufferIdx instead of the entry's buffer.
InspectDoneOther ==
  /\ spc = "poll"
  /\ status[sslot] = POSTPROCESSING
  /\ smodule' = moduleNo[scanIdx]
  /\ spc' = "judge"
  /\ UNCHANGED <<grabVars, bufferVars, queueVars, workVars, saving, sslot,
                 verdict, reported, ghostVars>>

\* The IsInspectDone loop ends; the module's identity is read from the buffer.
InspectDone ==
  /\ spc = "poll"
  /\ status[sslot] = POSTPROCESSING
  /\ smodule' = moduleNo[sslot]
  /\ spc' = "judge"
  /\ UNCHANGED <<grabVars, bufferVars, queueVars, workVars, saving, sslot,
                 verdict, reported, ghostVars>>

\* The verdict, and ChangeInspectDone(AVAILABLE): the buffer is free before its
\* module's logs are written and before the handler hears of it.
Judge ==
  /\ spc = "judge"
  /\ verdict' = IF matched[sslot] THEN "OK"
                ELSE IF grabFail[sslot] THEN "GF" ELSE "MC"
  /\ status' = [status EXCEPT ![sslot] = AVAILABLE]
  /\ spc' = "report"
  /\ UNCHANGED <<grabVars, scanIdx, moduleNo, grabFail, matched, queueVars,
                 workVars, saving, sslot, smodule, reported, ghostVars>>

JudgeThrows ==
  /\ "judge" \in Faults
  /\ spc = "judge"
  /\ smodule' = None
  /\ spc' = "catch"
  /\ UNCHANGED <<grabVars, bufferVars, queueVars, workVars, saving, sslot,
                 verdict, reported, ghostVars>>

\* The logs, the code of a failed measurement if there is one, and
\* Set_InspectComplete.
InspectComplete ==
  /\ spc = "report"
  /\ reported' = [reported EXCEPT ![smodule] = Append(@, Sent(smodule, verdict))]
  /\ smodule' = None
  /\ verdict' = "MC"
  /\ spc' = "alarm"
  /\ UNCHANGED <<grabVars, bufferVars, queueVars, workVars, saving, sslot,
                 ghostVars>>

\* The continuous-defect alarm and the save queues; then the next entry.
SaveTail ==
  /\ spc = "alarm"
  /\ spc' = "take"
  /\ owner' = [owner EXCEPT ![sslot] = None]
  /\ sslot' = 0
  /\ UNCHANGED <<grabVars, bufferVars, queueVars, workVars, saving, smodule,
                 verdict, reported, accepted, overrun>>

AlarmThrows ==
  /\ "alarm" \in Faults
  /\ spc = "alarm"
  /\ spc' = "catch"
  /\ UNCHANGED <<grabVars, bufferVars, queueVars, workVars, saving, sslot,
                 smodule, verdict, reported, ghostVars>>

\* The catch block frees the buffer (again, if the alarm code threw), ...
CatchRelease ==
  /\ spc = "catch"
  /\ status' = [status EXCEPT ![sslot] = AVAILABLE]
  /\ spc' = "reread"
  /\ UNCHANGED <<grabVars, scanIdx, moduleNo, grabFail, matched, queueVars,
                 workVars, saving, sslot, smodule, verdict, reported,
                 ghostVars>>

\* Mutant: identity read at m_iScanBufferIdx instead of the entry's buffer.
CatchReportOther ==
  /\ spc = "reread"
  /\ reported' = [reported EXCEPT
                    ![moduleNo[scanIdx]] = Append(@, Sent(moduleNo[scanIdx], "MC"))]
  /\ owner' = [owner EXCEPT ![sslot] = None]
  /\ sslot' = 0
  /\ spc' = "leave"
  /\ UNCHANGED <<grabVars, bufferVars, queueVars, workVars, saving, smodule,
                 verdict, accepted, overrun>>

\* Mutant: after the catch block the thread resumes the module's tail.
CatchReportResumes ==
  /\ spc = "reread"
  /\ reported' = [reported EXCEPT
                    ![moduleNo[sslot]] = Append(@, Sent(moduleNo[sslot], "MC"))]
  /\ spc' = "alarm"
  /\ UNCHANGED <<grabVars, bufferVars, queueVars, workVars, saving, sslot,
                 smodule, verdict, ghostVars>>

\* ... reads the module's identity from the buffer it just freed and reports
\* that module as a matching failure, or as its measurement's; the thread ends
\* with whatever is left in the scan queue.
CatchReport ==
  /\ spc = "reread"
  /\ reported' = [reported EXCEPT
                    ![moduleNo[sslot]] = Append(@, Sent(moduleNo[sslot], "MC"))]
  /\ owner' = [owner EXCEPT ![sslot] = None]
  /\ sslot' = 0
  /\ spc' = "leave"
  /\ UNCHANGED <<grabVars, bufferVars, queueVars, workVars, saving, smodule,
                 verdict, accepted, overrun>>

SaverEnd ==
  /\ spc = "leave"
  /\ saving' = FALSE
  /\ spc' = "none"
  /\ UNCHANGED <<grabVars, bufferVars, queueVars, workVars, sslot, smodule,
                 verdict, reported, ghostVars>>

-----------------------------------------------------------------------------
Init ==
  /\ gpc = [m \in Modules |-> "idle"]
  /\ failed = [m \in Modules |-> FALSE]
  /\ gslot = [m \in Modules |-> 0]
  /\ gidx = [m \in Modules |-> 0]
  /\ scanIdx = 0
  /\ moduleNo = [b \in Slots |-> None]
  /\ grabFail = [b \in Slots |-> FALSE]
  /\ matched = [b \in Slots |-> FALSE]
  /\ status = [b \in Slots |-> AVAILABLE]
  /\ scanQ = <<>>
  /\ inspQ = <<>>
  /\ running = [i \in Threads |-> FALSE]
  /\ permits = NumThreads
  /\ wpc = [w \in Workers |-> "none"]
  /\ wslot = [w \in Workers |-> 0]
  /\ dying = [w \in Workers |-> FALSE]
  /\ saving = FALSE
  /\ spc = "none"
  /\ sslot = 0
  /\ smodule = None
  /\ verdict = "MC"
  /\ reported = [m \in Modules |-> <<>>]
  /\ accepted = <<>>
  /\ owner = [b \in Slots |-> None]
  /\ overrun = FALSE

GrabThread(m) ==
  \/ GrabDone(m) \/ GrabStopped(m) \/ GrabThrows(m) \/ GrabHold(m)
  \/ ClaimBuffer(m) \/ FillBuffer(m) \/ CopyThrows(m) \/ MarkInspecting(m)
  \/ AddScan(m) \/ AddInspect(m) \/ StartThread(m)

AlgorithmThread(w) ==
  \/ ThreadBegin(w) \/ CheckQueue(w) \/ PopInspect(w) \/ Inspect(w)
  \/ InspectThrows(w) \/ PostResult(w) \/ WakeSaver(w) \/ ThreadEnd(w)

ResultSaveThread ==
  \/ SaverBegin \/ TakeScan \/ InspectDone \/ Judge \/ JudgeThrows
  \/ InspectComplete \/ SaveTail \/ AlarmThrows
  \/ CatchRelease \/ CatchReport \/ SaverEnd

Next ==
  \/ \E m \in Modules : InspectionMove(m) \/ GrabThread(m)
  \/ \E w \in Workers : AlgorithmThread(w)
  \/ ResultSaveThread

Spec == Init /\ [][Next]_vars

\* Windows schedules every thread that can run; the handler may stop sending.
Fairness ==
  /\ \A m \in Modules : WF_vars(GrabThread(m))
  /\ \A w \in Workers : WF_vars(AlgorithmThread(w))
  /\ WF_vars(ResultSaveThread)

FairSpec == Spec /\ Fairness

-----------------------------------------------------------------------------
(* Correctness.  PrepareAlgorithmBuffer takes a buffer without looking at  *)
(* its status, so what the pipeline promises holds only until a buffer is  *)
(* taken while its last module is still in the pipeline: overrun.          *)

GrabStates == {"idle", "grab", "hold"} \union Copying \union GrabEnded
WorkerStates ==
  {"none", "begin", "lock", "pop", "inspect", "post", "wake", "leave"}
SaverStates ==
  {"none", "begin", "take", "poll", "judge", "report", "alarm", "catch",
   "reread", "leave"}
Statuses == {INSPECTING, POSTPROCESSING, AVAILABLE}

\* Every variable holds a value its C++ counterpart can hold.
TypeOK ==
  /\ gpc \in [Modules -> GrabStates]
  /\ failed \in [Modules -> BOOLEAN]
  /\ gslot \in [Modules -> Slots]
  /\ gidx \in [Modules -> Threads]
  /\ scanIdx \in Slots
  /\ moduleNo \in [Slots -> Modules \union {None}]
  /\ grabFail \in [Slots -> BOOLEAN]
  /\ matched \in [Slots -> BOOLEAN]
  /\ status \in [Slots -> Statuses]
  /\ scanQ \in Seq(Slots)
  /\ inspQ \in Seq(Slots)
  /\ running \in [Threads -> BOOLEAN]
  /\ permits \in Nat
  /\ wpc \in [Workers -> WorkerStates]
  /\ wslot \in [Workers -> Slots]
  /\ dying \in [Workers -> BOOLEAN]
  /\ saving \in BOOLEAN
  /\ spc \in SaverStates
  /\ sslot \in Slots
  /\ smodule \in Modules \union {None}
  /\ verdict \in Verdicts
  /\ reported \in [Modules -> Seq(Verdicts)]
  /\ accepted \in Seq(Modules)
  /\ owner \in [Slots -> Modules \union {None}]
  /\ overrun \in BOOLEAN

\* How many modules the result-save thread has taken off the scan queue.
Taken == Len(accepted) - Len(scanQ)

\* The module it took last is still to be reported.
Unreported == spc \in {"poll", "judge", "report"}

\* The handler hears of the modules in the order they were scanned, none is
\* skipped and none is taken for another: InspectComplete has been sent for
\* each module taken off the scan queue and for no other, although the
\* identity is read from a buffer that grab threads overwrite.
ReportedInScanOrder ==
  ~overrun =>
    /\ \A i \in 1 .. Len(accepted) :
         /\ i < Taken => reported[accepted[i]] # <<>>
         /\ i > Taken => reported[accepted[i]] = <<>>
         /\ i = Taken /\ Unreported => reported[accepted[i]] = <<>>
    /\ \A m \in Modules :
         reported[m] # <<>> => \E i \in 1 .. Len(accepted) : accepted[i] = m

\* A module is reported at most twice, and the second report is the one the
\* catch block of the result-save thread sends after the continuous-defect alarm
\* threw: it calls the module a matching failure, also one that was reported as
\* inspected, and repeats the code of a failed measurement.
SecondReportIsAlarm ==
  ~overrun =>
    \A m \in Modules :
      /\ Len(reported[m]) <= 2
      /\ Len(reported[m]) = 2 =>
           "alarm" \in Faults /\ reported[m][2] = Sent(m, "MC")

\* A module whose grab or image copy failed is never reported as inspected,
\* and only such a module is reported as a failed grab: the flags that decide
\* belong to the buffer and outlive the module that set them.
FailedGrabNeverPasses ==
  ~overrun =>
    \A m \in Modules : \A i \in 1 .. Len(reported[m]) :
      /\ reported[m][i] = "OK" => ~failed[m]
      /\ reported[m][i] = "GF" => failed[m]

\* An algorithm thread still has to work on buffer b.
ToInspect(b) ==
  \/ \E i \in 1 .. Len(inspQ) : inspQ[i] = b
  \/ \E w \in Workers :
       wpc[w] \in {"inspect", "post"} /\ wslot[w] = b

\* The result-save thread never reads the result of a buffer that an algorithm
\* thread is still to write, and no two algorithm threads write one buffer.
NoResultRace ==
  ~overrun =>
    /\ spc = "judge" => ~ToInspect(sslot)
    /\ \A v, w \in Workers :
         /\ wpc[v] \in {"inspect", "post"}
         /\ wpc[w] \in {"inspect", "post"}
         /\ wslot[v] = wslot[w]
         => v = w

\* At most NumThreads modules are inspected at once, and no path through
\* AlgorithmThread (empty queue, lost race for an entry, failed grab, thrown
\* exception) keeps or invents a permit of the semaphore.
PermitsBalanced ==
  permits + Cardinality({w \in Workers :
      wpc[w] \in {"pop", "inspect", "post", "wake"}}) = NumThreads

\* Two algorithm threads that finish together, or one that finishes while the
\* result-save thread is ending, never start a second result-save thread beside
\* a live one.  (One control state spc is therefore enough.)
NoSecondSaver ==
  [][\A w \in Workers : WakeSaver(w) /\ ~saving => spc = "none"]_vars

\* No buffer is taken while its last module is in the pipeline.  True only of
\* rings that are long enough for the handler's window.
NoOverrun == ~overrun

\* Seen from the handler, the buffers, queues and threads are an inspection
\* line: modules are accepted, and reported in the order of acceptance.
Line == INSTANCE InspectionLine
LineSpec == Line!Spec

\* What the preference dialog promises of m_bUseGrabHold: the scan complete
\* command waits while the inspection of the buffer is not done.
HoldWaits ==
  [][\A m \in Modules : GrabHold(m) => status[scanIdx] = AVAILABLE]_vars

-----------------------------------------------------------------------------
(* Liveness.                                                               *)

\* An entry of the inspect queue that no thread is left to see: every thread
\* found the queue empty, or ended in its catch block, before the flags they
\* clear on the way out were read by the copy that added the entry.
WorkStranded ==
  /\ inspQ # <<>>
  /\ \A w \in Workers : wpc[w] = "none"
  /\ \A m \in Modules : gpc[m] # "start"

\* The same for the scan queue and the result-save thread.
SaveStranded ==
  /\ scanQ # <<>>
  /\ spc = "none"
  /\ \A w \in Workers : wpc[w] = "none"
  /\ \A m \in Modules : gpc[m] \notin {"qinsp", "start"}

Accepted(m) == \E i \in 1 .. Len(accepted) : accepted[i] = m

\* What the design document promises (queueing a module wakes a thread that
\* inspects it): every module that was queued is reported to the handler.
QueuedIsReported ==
  \A m \in Modules : Accepted(m) ~> reported[m] # <<>>

\* What the code gives: the only way a queued module is never reported is that
\* it stays in a queue whose threads have all ended.  Nothing waits for ever on
\* a semaphore, a buffer status or another thread.
ReportedUnlessStranded ==
  <>[](~WorkStranded /\ ~SaveStranded) => QueuedIsReported

\* Threads come to rest: the pipeline never spins once the handler stops.
ThreadsEnd ==
  (<>[]~WorkStranded) => []<>(\A w \in Workers : wpc[w] = "none")

=============================================================================
