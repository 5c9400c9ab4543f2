---------------------------- MODULE BatchInspect ----------------------------
(***************************************************************************)
(* Batch inspection of one camera: a module is grabbed in batches, one     *)
(* after the other, each batch is copied into the inspection buffer by a   *)
(* task of its own, and an algorithm thread inspects the batches while the *)
(* later ones are still being grabbed.                                     *)
(*                                                                         *)
(*   handler --InspectionStart_Batch--> BatchGrabThread                    *)
(*     BatchGrabThread --std::async--> copy task of each batch             *)
(*     first copy --CopyInspectInformation--> scan queue, inspect queue    *)
(*     every copy --UpdateBatchStatus--> BATCH_CONTEXT of the module       *)
(*     inspect queue --AlgorithmThread_Batch--> buffer POSTPROCESSING      *)
(*     scan queue --ResultSaveThread--> verdict of the module              *)
(*                                                                         *)
(* Each scan is of another module, so each has a context of its own.  The  *)
(* ring of buffers is unrolled: a scan takes the next number and never     *)
(* meets an older one (InspectPipeline models the ring, the permits and    *)
(* the life of the threads).  A step is one critical section, or a run of  *)
(* code whose reads and writes nothing else can tell apart.                *)
(***************************************************************************)
EXTENDS Integers, Sequences, FiniteSets

CONSTANTS
  NumScans,     \* modules the handler presents (bounds the model)
  NumBatches,   \* iLastBatchIdx + 1
  NumThreads,   \* m_iVisionInspectThreadNumber
  SlowCopies,   \* a copy may still run when the next grab returns
  Packed,       \* the build reuses the stack slot of bSuccess after its scope
  Stops,        \* the handler may stop the cycle
  Faults        \* what may go wrong: a subset of FaultSites

\* A grab fails after all its retries, or throws; a copy throws; the image
\* conversion fails; a batch does not match; an inspection throws.
FaultSites == {"retries", "grab", "image", "convert", "match", "inspect"}

ASSUME BatchAssumption ==
  /\ NumScans \in Nat
  /\ NumBatches \in Nat \ {0}
  /\ NumThreads \in Nat \ {0}
  /\ SlowCopies \in BOOLEAN
  /\ Packed \in BOOLEAN
  /\ Stops \in BOOLEAN
  /\ Faults \subseteq FaultSites

Scans   == 1 .. NumScans
Batches == 0 .. NumBatches - 1
Last    == NumBatches - 1
Threads == 1 .. NumThreads
\* A scan takes a buffer, and another when its first copy throws: MaxSlot bounds
\* the model and stops nothing.  The index stands at 0 before the first scan.
MaxSlot == 2 * NumScans
Slots   == 0 .. MaxSlot
NoScan  == 0

VARIABLES
  stop,         \* the cycle-stop or reload flag
  gpc,          \* control state of the grab thread of each scan
  gb,           \* the batch it grabs
  success,      \* its bSuccess, which the copy tasks capture by reference
  grabbed,      \* history: batches whose grab returned TRUE
  context,      \* BATCH_CONTEXT of each scan
  copy,         \* control state of each copy task
  into,         \* the buffer index PrepareAlgorithmBuffer gave it
  paramFail,    \* its param.bGrabFail
  slot,         \* m_iScanBufferIdx
  owner,        \* the module (scan) each buffer is for
  bGrabFail,    \* m_bGrabFail
  matched,      \* m_bMatchingSuccess
  images,       \* the <<scan, batch>> whose images each buffer holds
  posted,       \* how often each buffer became POSTPROCESSING
  scanQueue, inspectQueue,
  wpc,          \* control state of each algorithm thread
  wslot, wb,    \* its buffer and batch
  inspected,    \* history: batches inspected of each buffer
  judged        \* history: the verdicts, [module, passed]

grabVars   == <<gpc, gb, success, grabbed>>
copyVars   == <<copy, into, paramFail>>
slotVars   == <<slot, owner>>
queueVars  == <<scanQueue, inspectQueue>>
workerVars == <<wpc, wslot, wb>>
saveVars   == <<posted, inspected, judged>>
vars == <<stop, grabVars, context, copyVars, slotVars, bGrabFail, matched,
          images, queueVars, workerVars, saveVars>>

-----------------------------------------------------------------------------
NewContext == [grabDone |-> -1, grabFailed |-> FALSE, matchFailed |-> FALSE]

Init ==
  /\ stop = FALSE
  /\ gpc = [s \in Scans |-> "idle"]
  /\ gb = [s \in Scans |-> 0]
  /\ success = [s \in Scans |-> FALSE]
  /\ grabbed = [s \in Scans |-> {}]
  /\ context = [s \in Scans |-> NewContext]
  /\ copy = [t \in Scans \X Batches |-> "none"]
  /\ into = [t \in Scans \X Batches |-> 0]
  /\ paramFail = [t \in Scans \X Batches |-> FALSE]
  /\ slot = 0
  /\ owner = [k \in Slots |-> NoScan]
  /\ bGrabFail = [k \in Slots |-> FALSE]
  /\ matched = [k \in Slots |-> FALSE]
  /\ images = [k \in Slots |-> {}]
  /\ posted = [k \in Slots |-> 0]
  /\ scanQueue = <<>>
  /\ inspectQueue = <<>>
  /\ wpc = [w \in Threads |-> "off"]
  /\ wslot = [w \in Threads |-> 0]
  /\ wb = [w \in Threads |-> 0]
  /\ inspected = [k \in Slots |-> {}]
  /\ judged = <<>>

-----------------------------------------------------------------------------
(* CBatchManager.  A context c after a status of batch b is reported.      *)

Later(i, b) == IF i < b THEN b ELSE i

\* Mutant: the last status reported wins, not the latest batch.
UpdateAnyOrder(c, b, status) ==
  [c EXCEPT !.grabDone = IF status \in {"GRAB_END", "GRAB_FAILED"} THEN b ELSE @,
            !.grabFailed = @ \/ status = "GRAB_FAILED",
            !.matchFailed = @ \/ status = "MATCHING_FAILED"]

\* Mutant: a matching failure is not remembered for the batches after it.
UpdateForgets(c, b, status) ==
  [c EXCEPT !.grabDone = IF status \in {"GRAB_END", "GRAB_FAILED"}
                           THEN Later(@, b) ELSE @,
            !.grabFailed = @ \/ status = "GRAB_FAILED"]

UpdateBatchStatus(c, b, status) ==
  [c EXCEPT !.grabDone = IF status \in {"GRAB_END", "GRAB_FAILED"}
                           THEN Later(@, b) ELSE @,
            !.grabFailed = @ \/ status = "GRAB_FAILED",
            !.matchFailed = @ \/ status = "MATCHING_FAILED"]

-----------------------------------------------------------------------------
(* The handler.                                                            *)

\* A scan is over for the handler when it got ScanComplete, or stopped it.
ScanOver(s) == gpc[s] \in {"flush", "ended", "thrown"}

\* InspectionStart_Batch: the module's context is new, the flags are cleared.
Start(s) ==
  /\ gpc[s] = "idle"
  /\ s > 1 => ScanOver(s - 1)
  /\ gpc' = [gpc EXCEPT ![s] = "grab"]
  /\ context' = [context EXCEPT ![s] = NewContext]
  /\ stop' = FALSE
  /\ UNCHANGED <<gb, success, grabbed, copyVars, slotVars, bGrabFail, matched,
                 images, queueVars, workerVars, saveVars>>

\* The handler stops the cycle or reloads.
Stop ==
  /\ Stops /\ ~stop
  /\ \E s \in Scans : gpc[s] # "idle"
  /\ stop' = TRUE
  /\ UNCHANGED <<grabVars, context, copyVars, slotVars, bGrabFail, matched,
                 images, queueVars, workerVars, saveVars>>

-----------------------------------------------------------------------------
(* BatchGrabThread.                                                        *)

\* Without SlowCopies the copies of the batches before are done by the time
\* a grab, with the moves of its axes, returns.
CopiesSettled == SlowCopies \/ \A t \in Scans \X Batches : copy[t] \in {"none", "done"}

\* Mutant: a failed grab leaves the success of the batch before.
GrabKeepsSuccess(s) ==
  /\ gpc[s] = "grab" /\ ~stop
  /\ CopiesSettled
  /\ \E ok \in {TRUE} \cup (IF "retries" \in Faults THEN {FALSE} ELSE {}) :
       /\ success' = [success EXCEPT ![s] = @ \/ ok]
       /\ grabbed' = IF ok THEN [grabbed EXCEPT ![s] = @ \cup {gb[s]}] ELSE grabbed
  /\ copy' = [copy EXCEPT ![<<s, gb[s]>>] = "wait"]
  /\ \/ gb[s] < Last /\ gb' = [gb EXCEPT ![s] = @ + 1] /\ UNCHANGED gpc
     \/ gb[s] = Last /\ gpc' = [gpc EXCEPT ![s] = "complete"] /\ UNCHANGED gb
  /\ UNCHANGED <<stop, context, into, paramFail, slotVars, bGrabFail, matched,
                 images, queueVars, workerVars, saveVars>>

\* GrabStart returned: a task copies the batch and the next one is grabbed.
Grab(s) ==
  /\ gpc[s] = "grab" /\ ~stop
  /\ CopiesSettled
  /\ \E ok \in {TRUE} \cup (IF "retries" \in Faults THEN {FALSE} ELSE {}) :
       /\ success' = [success EXCEPT ![s] = ok]
       /\ grabbed' = IF ok THEN [grabbed EXCEPT ![s] = @ \cup {gb[s]}] ELSE grabbed
  /\ copy' = [copy EXCEPT ![<<s, gb[s]>>] = "wait"]
  /\ \/ gb[s] < Last /\ gb' = [gb EXCEPT ![s] = @ + 1] /\ UNCHANGED gpc
     \/ gb[s] = Last /\ gpc' = [gpc EXCEPT ![s] = "complete"] /\ UNCHANGED gb
  /\ UNCHANGED <<stop, context, into, paramFail, slotVars, bGrabFail, matched,
                 images, queueVars, workerVars, saveVars>>

\* Stopped in or after GrabStart: the last batch counts as failed.
GrabStopped(s) ==
  /\ gpc[s] = "grab" /\ stop
  /\ \E ok \in BOOLEAN : success' = [success EXCEPT ![s] = ok]
  /\ context' = [context EXCEPT ![s] = UpdateBatchStatus(@, Last, "GRAB_FAILED")]
  /\ gpc' = [gpc EXCEPT ![s] = "stopped"]
  /\ UNCHANGED <<stop, gb, grabbed, copyVars, slotVars, bGrabFail, matched,
                 images, queueVars, workerVars, saveVars>>

\* A Halcon operator throws: ScanComplete, and no status for the batches left.
GrabThrows(s) ==
  /\ gpc[s] = "grab" /\ "grab" \in Faults
  /\ gpc' = [gpc EXCEPT ![s] = "thrown"]
  /\ UNCHANGED <<stop, gb, success, grabbed, context, copyVars, slotVars,
                 bGrabFail, matched, images, queueVars, workerVars, saveVars>>

\* Set_ScanComplete.  Both ways through the "hold" leave its loop at once.
Complete(s) ==
  /\ gpc[s] = "complete"
  /\ gpc' = [gpc EXCEPT ![s] = "flush"]
  /\ UNCHANGED <<stop, gb, success, grabbed, context, copyVars, slotVars,
                 bGrabFail, matched, images, queueVars, workerVars, saveVars>>

\* Clearing the futures waits for the copy tasks; then the thread ends.
Flush(s) ==
  /\ gpc[s] \in {"stopped", "flush"}
  /\ \A b \in Batches : copy[<<s, b>>] \in {"none", "done"}
  /\ gpc' = [gpc EXCEPT ![s] = "ended"]
  /\ UNCHANGED <<stop, gb, success, grabbed, context, copyVars, slotVars,
                 bGrabFail, matched, images, queueVars, workerVars, saveVars>>

-----------------------------------------------------------------------------
(* The copy tasks.                                                         *)

\* What a task reads in bSuccess.  The variable's scope is one turn of the
\* loop over the batches: the next turn has it in the same place, after the
\* loop the place may hold anything.
Reads(s) == IF Packed /\ gpc[s] # "grab" THEN BOOLEAN ELSE {success[s]}

\* PrepareAlgorithmBuffer up to the copy: the first batch takes a new buffer,
\* the others use the one taken last.
TakeBuffer(s, b, fail) ==
  /\ IF b = 0
       THEN /\ slot < MaxSlot
            /\ slot' = slot + 1
            /\ owner' = [owner EXCEPT ![slot + 1] = s]
            /\ bGrabFail' = [bGrabFail EXCEPT ![slot + 1] = fail]
            /\ images' = [images EXCEPT ![slot + 1] = {}]
       ELSE /\ bGrabFail' = [bGrabFail EXCEPT ![slot] = @ \/ fail]
            /\ UNCHANGED <<slot, owner, images>>
  /\ into' = [into EXCEPT ![<<s, b>>] = slot']
  /\ paramFail' = [paramFail EXCEPT ![<<s, b>>] = fail]

\* CopyInspectInformation, for the first batch: both queues, and a thread for
\* every index that does not run.
Enqueue(b, k) ==
  IF b = 0
    THEN /\ scanQueue' = Append(scanQueue, k)
         /\ inspectQueue' = Append(inspectQueue, k)
         /\ wpc' = [w \in Threads |-> IF wpc[w] = "off" THEN "poll" ELSE wpc[w]]
    ELSE UNCHANGED <<queueVars, wpc>>

\* The Bayer conversion is done; the task reads bSuccess and takes its buffer.
CopyBegin(s, b) ==
  /\ copy[<<s, b>>] = "wait"
  /\ \E ok \in Reads(s) : TakeBuffer(s, b, ~ok)
  /\ copy' = [copy EXCEPT ![<<s, b>>] = "fill"]
  /\ UNCHANGED <<stop, grabVars, context, matched, queueVars, workerVars, saveVars>>

\* The images are copied and converted, unless the grab had failed.
CopyFill(s, b) ==
  LET t == <<s, b>> IN
  /\ copy[t] = "fill"
  /\ \/ paramFail[t] /\ UNCHANGED <<images, bGrabFail>>
     \/ /\ ~paramFail[t]
        /\ images' = [images EXCEPT ![into[t]] = @ \cup {t}]
        /\ UNCHANGED bGrabFail
     \/ /\ ~paramFail[t] /\ "convert" \in Faults
        /\ bGrabFail' = [bGrabFail EXCEPT ![into[t]] = TRUE]
        /\ UNCHANGED images
  /\ Enqueue(b, into[t])
  /\ copy' = [copy EXCEPT ![t] = "check"]
  /\ UNCHANGED <<stop, grabVars, context, into, paramFail, slotVars, matched,
                 wslot, wb, saveVars>>

\* Copying throws: the buffer is marked, bSuccess is reset by reference.
CopyThrows(s, b) ==
  LET t == <<s, b>> IN
  /\ copy[t] = "fill" /\ ~paramFail[t] /\ "image" \in Faults
  /\ bGrabFail' = [bGrabFail EXCEPT ![into[t]] = TRUE]
  /\ success' = [success EXCEPT ![s] = FALSE]
  /\ copy' = [copy EXCEPT ![t] = "redo"]
  /\ UNCHANGED <<stop, gpc, gb, grabbed, context, into, paramFail, slotVars,
                 matched, images, queueVars, workerVars, saveVars>>

\* The second CopyInspectInformation, as for a failed grab.
CopyRedo(s, b) ==
  /\ copy[<<s, b>>] = "redo"
  /\ TakeBuffer(s, b, TRUE)
  /\ Enqueue(b, slot')
  /\ copy' = [copy EXCEPT ![<<s, b>>] = "check"]
  /\ UNCHANGED <<stop, grabVars, context, matched, wslot, wb, saveVars>>

\* bSuccess is read again and decides the status of the batch.
CopyReport(s, b) ==
  /\ copy[<<s, b>>] = "check"
  /\ \E ok \in Reads(s) :
       context' = [context EXCEPT ![s] = UpdateBatchStatus(@, b,
                     IF ok THEN "GRAB_END" ELSE "GRAB_FAILED")]
  /\ copy' = [copy EXCEPT ![<<s, b>>] = "done"]
  /\ UNCHANGED <<stop, grabVars, into, paramFail, slotVars, bGrabFail, matched,
                 images, queueVars, workerVars, saveVars>>

-----------------------------------------------------------------------------
(* AlgorithmThread_Batch.                                                  *)

\* ProcessResultSave.
Post(k) == posted' = [posted EXCEPT ![k] = @ + 1]

\* Mutant: the loop over the batches goes one too far.
NextBatchOneMore(w) ==
  IF wb[w] > Last
    THEN /\ Post(wslot[w])
         /\ wpc' = [wpc EXCEPT ![w] = "poll"]
         /\ wslot' = [wslot EXCEPT ![w] = 0]
         /\ wb' = [wb EXCEPT ![w] = 0]
    ELSE /\ wpc' = [wpc EXCEPT ![w] = "wait"]
         /\ wb' = [wb EXCEPT ![w] = @ + 1]
         /\ UNCHANGED <<wslot, posted>>

\* Mutant: every batch posts the buffer, not only the last.
NextBatchPosts(w) ==
  /\ Post(wslot[w])
  /\ IF wb[w] = Last
       THEN /\ wpc' = [wpc EXCEPT ![w] = "poll"]
            /\ wslot' = [wslot EXCEPT ![w] = 0]
            /\ wb' = [wb EXCEPT ![w] = 0]
       ELSE /\ wpc' = [wpc EXCEPT ![w] = "wait"]
            /\ wb' = [wb EXCEPT ![w] = @ + 1]
            /\ UNCHANGED wslot

\* After the status of its batch a thread goes on with the next batch, or
\* posts the buffer and goes back to the queue.
NextBatch(w) ==
  IF wb[w] = Last
    THEN /\ Post(wslot[w])
         /\ wpc' = [wpc EXCEPT ![w] = "poll"]
         /\ wslot' = [wslot EXCEPT ![w] = 0]
         /\ wb' = [wb EXCEPT ![w] = 0]
    ELSE /\ wpc' = [wpc EXCEPT ![w] = "wait"]
         /\ wb' = [wb EXCEPT ![w] = @ + 1]
         /\ UNCHANGED <<wslot, posted>>

\* Mutant: a thread that gives up leaves the match of an earlier batch.
GiveUpKeeps(w) ==
  /\ Post(wslot[w])
  /\ wpc' = [wpc EXCEPT ![w] = "off"]
  /\ wslot' = [wslot EXCEPT ![w] = 0]
  /\ wb' = [wb EXCEPT ![w] = 0]
  /\ UNCHANGED matched

\* A thread gives up: the buffer is posted as a mismatch and the thread ends.
GiveUp(w) ==
  /\ matched' = [matched EXCEPT ![wslot[w]] = FALSE]
  /\ Post(wslot[w])
  /\ wpc' = [wpc EXCEPT ![w] = "off"]
  /\ wslot' = [wslot EXCEPT ![w] = 0]
  /\ wb' = [wb EXCEPT ![w] = 0]

Poll(w) ==
  /\ wpc[w] = "poll" /\ inspectQueue # <<>>
  /\ wslot' = [wslot EXCEPT ![w] = Head(inspectQueue)]
  /\ inspectQueue' = Tail(inspectQueue)
  /\ matched' = [matched EXCEPT ![Head(inspectQueue)] = FALSE]
  /\ wpc' = [wpc EXCEPT ![w] = "wait"]
  /\ UNCHANGED <<stop, grabVars, context, copyVars, slotVars, bGrabFail,
                 images, scanQueue, wb, saveVars>>

\* The queue is empty.  The thread still counts as running until LeaveEnd.
Leave(w) ==
  /\ wpc[w] = "poll" /\ inspectQueue = <<>>
  /\ wpc' = [wpc EXCEPT ![w] = "leave"]
  /\ UNCHANGED <<stop, grabVars, context, copyVars, slotVars, bGrabFail, matched,
                 images, queueVars, wslot, wb, saveVars>>

LeaveEnd(w) ==
  /\ wpc[w] = "leave"
  /\ wpc' = [wpc EXCEPT ![w] = "off"]
  /\ UNCHANGED <<stop, grabVars, context, copyVars, slotVars, bGrabFail, matched,
                 images, queueVars, wslot, wb, saveVars>>

Scan(w) == owner[wslot[w]]
Arrived(w) == context[Scan(w)].grabDone >= wb[w]

\* Mutant: the flag of the buffer is not looked at.
GrabFailContextOnly(w) == context[Scan(w)].grabFailed

GrabFail(w) == bGrabFail[wslot[w]] \/ context[Scan(w)].grabFailed

\* The batch arrived and no grab of the module has failed.
WaitEnds(w) ==
  /\ wpc[w] = "wait" /\ Arrived(w) /\ ~GrabFail(w)
  /\ wpc' = [wpc EXCEPT ![w] = "align"]
  /\ UNCHANGED <<stop, grabVars, context, copyVars, slotVars, bGrabFail, matched,
                 images, queueVars, wslot, wb, saveVars>>

\* The batch arrived, or a stop has marked the last one, and a grab failed.
WaitFails(w) ==
  /\ wpc[w] = "wait" /\ Arrived(w) /\ GrabFail(w)
  /\ context' = [context EXCEPT ![Scan(w)] =
                   UpdateBatchStatus(@, wb[w], "GRAB_FAILED")]
  /\ NextBatch(w)
  /\ UNCHANGED <<stop, grabVars, copyVars, slotVars, bGrabFail, matched, images,
                 queueVars, inspected, judged>>

WaitStopped(w) ==
  /\ wpc[w] = "wait" /\ ~Arrived(w) /\ stop
  /\ GiveUp(w)
  /\ UNCHANGED <<stop, grabVars, context, copyVars, slotVars, bGrabFail, images,
                 queueVars, inspected, judged>>

\* ProcessGlobalAlign matched the batch, and all batches before.
Align(w) ==
  /\ wpc[w] = "align" /\ ~context[Scan(w)].matchFailed
  /\ matched' = [matched EXCEPT ![wslot[w]] = TRUE]
  /\ wpc' = [wpc EXCEPT ![w] = "inspect"]
  /\ UNCHANGED <<stop, grabVars, context, copyVars, slotVars, bGrabFail, images,
                 queueVars, wslot, wb, saveVars>>

\* Mutant: a batch that matches itself counts, whatever the ones before did.
AlignFailsKeeps(w) ==
  /\ wpc[w] = "align"
  /\ \E ok \in BOOLEAN :
       /\ IF ok THEN context[Scan(w)].matchFailed ELSE "match" \in Faults
       /\ matched' = [matched EXCEPT ![wslot[w]] = ok]
  /\ context' = [context EXCEPT ![Scan(w)] =
                   UpdateBatchStatus(@, wb[w], "MATCHING_FAILED")]
  /\ NextBatch(w)
  /\ UNCHANGED <<stop, grabVars, copyVars, slotVars, bGrabFail, images, queueVars,
                 inspected, judged>>

\* The batch, or one before it, does not match.
AlignFails(w) ==
  /\ wpc[w] = "align"
  /\ context[Scan(w)].matchFailed \/ "match" \in Faults
  /\ matched' = [matched EXCEPT ![wslot[w]] = FALSE]
  /\ context' = [context EXCEPT ![Scan(w)] =
                   UpdateBatchStatus(@, wb[w], "MATCHING_FAILED")]
  /\ NextBatch(w)
  /\ UNCHANGED <<stop, grabVars, copyVars, slotVars, bGrabFail, images, queueVars,
                 inspected, judged>>

\* The inspection of the batch, from ProcessLocalAlign to the status.
Inspect(w) ==
  /\ wpc[w] = "inspect"
  /\ inspected' = [inspected EXCEPT ![wslot[w]] = @ \cup {wb[w]}]
  /\ context' = [context EXCEPT ![Scan(w)] =
                   UpdateBatchStatus(@, wb[w], "INSPECT_COMPLETE")]
  /\ NextBatch(w)
  /\ UNCHANGED <<stop, grabVars, copyVars, slotVars, bGrabFail, matched, images,
                 queueVars, judged>>

\* Aligning or inspecting throws.
InspectThrows(w) ==
  /\ wpc[w] \in {"align", "inspect"} /\ "inspect" \in Faults
  /\ GiveUp(w)
  /\ UNCHANGED <<stop, grabVars, context, copyVars, slotVars, bGrabFail, images,
                 queueVars, inspected, judged>>

-----------------------------------------------------------------------------
(* ResultSaveThread.                                                       *)

\* The next module, once posted: it passes when the batch aligned last matched.
\* bGrabFail only names the failure of a module that does not pass.  (A module
\* with defects is one that passes here, it was inspected.)
Judge ==
  /\ scanQueue # <<>> /\ posted[Head(scanQueue)] > 0
  /\ LET k == Head(scanQueue) IN
       judged' = Append(judged, [module |-> k,
                                 passed |-> matched[k]])
  /\ scanQueue' = Tail(scanQueue)
  /\ UNCHANGED <<stop, grabVars, context, copyVars, slotVars, bGrabFail, matched,
                 images, inspectQueue, workerVars, posted, inspected>>

-----------------------------------------------------------------------------
GrabStep(s) == Grab(s) \/ GrabStopped(s) \/ GrabThrows(s) \/ Complete(s) \/ Flush(s)
CopyStep(s, b) == \/ CopyBegin(s, b) \/ CopyFill(s, b) \/ CopyThrows(s, b)
                  \/ CopyRedo(s, b) \/ CopyReport(s, b)
WorkerStep(w) == \/ Poll(w) \/ Leave(w) \/ LeaveEnd(w)
                 \/ WaitEnds(w) \/ WaitFails(w) \/ WaitStopped(w)
                 \/ Align(w) \/ AlignFails(w) \/ Inspect(w) \/ InspectThrows(w)

Next ==
  \/ \E s \in Scans : Start(s) \/ GrabStep(s) \/ \E b \in Batches : CopyStep(s, b)
  \/ \E w \in Threads : WorkerStep(w)
  \/ Judge
  \/ Stop

Spec == Init /\ [][Next]_vars

\* Every thread and task that can go on does.  Nothing is assumed of the
\* handler, nor of the result-save thread.
Fairness ==
  /\ \A s \in Scans : WF_vars(GrabStep(s))
  /\ \A s \in Scans, b \in Batches : WF_vars(CopyStep(s, b))
  /\ \A w \in Threads : WF_vars(WorkerStep(w))
FairSpec == Spec /\ Fairness

-----------------------------------------------------------------------------
(* Properties.                                                             *)

Range1(q) == {q[i] : i \in 1 .. Len(q)}
Contexts == [grabDone : -1 .. Last, grabFailed : BOOLEAN, matchFailed : BOOLEAN]
Tasks == Scans \X Batches

\* Types.
TypeOK ==
  /\ stop \in BOOLEAN
  /\ gpc \in [Scans -> {"idle", "grab", "stopped", "complete", "flush", "thrown",
                       "ended"}]
  /\ gb \in [Scans -> Batches]
  /\ success \in [Scans -> BOOLEAN]
  /\ grabbed \in [Scans -> SUBSET Batches]
  /\ context \in [Scans -> Contexts]
  /\ copy \in [Tasks -> {"none", "wait", "fill", "redo", "check", "done"}]
  /\ into \in [Tasks -> Slots]
  /\ paramFail \in [Tasks -> BOOLEAN]
  /\ slot \in Slots
  /\ owner \in [Slots -> Scans \cup {NoScan}]
  /\ bGrabFail \in [Slots -> BOOLEAN]
  /\ matched \in [Slots -> BOOLEAN]
  /\ images \in [Slots -> SUBSET Tasks]
  /\ posted \in [Slots -> Nat]
  /\ scanQueue \in Seq(Slots)
  /\ inspectQueue \in Seq(Slots)
  /\ wpc \in [Threads -> {"off", "poll", "leave", "wait", "align", "inspect"}]
  /\ wslot \in [Threads -> Slots]
  /\ wb \in [Threads -> Batches]
  /\ inspected \in [Slots -> SUBSET Batches]
  /\ judged \in Seq([module : Slots, passed : BOOLEAN])

\* AlgorithmThread_Batch: a batch is inspected only with its own images in the
\* buffer, copied and converted.
InspectsCopied ==
  \A k \in Slots : \A b \in inspected[k] : <<owner[k], b>> \in images[k]

\* AlgorithmThread_Batch: whichever way a module ends, its buffer is posted to
\* the result-save thread once, and nobody works on it any more.
PostedOnce ==
  \A k \in Slots :
    /\ posted[k] <= 1
    /\ posted[k] = 1 => /\ k \notin Range1(inspectQueue)
                        /\ \A w \in Threads : wpc[w] # "off" => wslot[w] # k

\* AlgorithmThread_Batch: no batch is inspected whose GrabStart failed, although
\* its copy task reads one bSuccess that every turn of the loop writes.
InspectedWasGrabbed ==
  \A k \in Slots : inspected[k] # {} => inspected[k] \subseteq grabbed[owner[k]]

\* What the design document says: a module's result is saved after its last
\* batch was inspected.
PassedMeansInspected ==
  \A i \in 1 .. Len(judged) :
    judged[i].passed => inspected[judged[i].module] = Batches

\* The program knows that a grab of the buffer's module failed.
MarkedFailed(k) ==
  bGrabFail[k] \/ \E s \in Scans : owner[k] = s /\ context[s].grabFailed

\* ResultSaveThread: what the code gives.  A module passes with all its batches
\* inspected, or with the first of them, up to a grab that failed or was stopped,
\* which the buffer or the context tells; never after a mismatch.
LeftOutIsMarked ==
  \A i \in 1 .. Len(judged) :
    LET k == judged[i].module IN
    judged[i].passed =>
      \/ inspected[k] = Batches
      \/ MarkedFailed(k) /\ \E n \in 1 .. Last : inspected[k] = 0 .. n - 1

\* Batch inspection does what BatchPromise says: one buffer is accepted for
\* each module, its batches are inspected in turn, it is judged in its turn.
Promise == INSTANCE BatchPromise WITH
  Modules <- Slots,
  accepted <- [i \in 1 .. Len(judged) |-> judged[i].module] \o scanQueue,
  failed <- {k \in Slots : MarkedFailed(k)}

PromiseSpec == Promise!Spec

\* A queued module waits for ever only for a grab thread that threw, or because
\* the algorithm threads ended as it was queued.
Stranded(k) == \/ \E s \in Scans : gpc[s] = "thrown"
               \/ k \in Range1(inspectQueue) /\ \A w \in Threads : wpc[w] = "off"

\* AlgorithmThread_Batch: again and again every other queued module has been
\* posted, even when copies end in any order and the handler stops at any time.
QueuedIsPosted ==
  []<>(\A k \in Range1(scanQueue) : posted[k] > 0 \/ Stranded(k))
=============================================================================
