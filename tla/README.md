# Lens_AVI: verification project

Lens_AVI (`uScan`) is the vision PC of an inspection line for lens and camera
modules. A handler moves modules under up to four cameras, asks for a scan,
and waits for two messages per module and camera: *ScanComplete* (the stage may
move on) and *InspectComplete* (the verdict). Between the two lies a pipeline
of threads and shared buffers, one pipeline per camera. This directory holds
TLA+ models of that machinery, TLC runs and TLAPS proofs.

## 1. Inventory

| Component | Source | State | Operations | Hard part |
|---|---|---|---|---|
| Buffer ring and queues of a camera | `Algorithm.cpp`, `AlgorithmService/AlgorithmPipeline.cpp` | `m_iScanBufferIdx`, per-buffer fields, `m_iInspectBufferStatus`, scan queue, inspect queue, running flags, `m_pSemaphore` | `CopyInspectInformation`, `PrepareAlgorithmBuffer`, `ProcessResultSave`, queue operations | the ring does not look at a buffer's status |
| Grab threads | `InspectService.cpp` (`InspectionThread_*`) | local result of the grab | grab, retry, hold, ScanComplete, hand-over | stop, exceptions, reuse of the camera's images |
| Algorithm threads | `AlgorithmService/AlgorithmThread.h` | buffer index, context | align, inspect, post | ends when the queue is empty, races with the starter |
| Result-save thread | `AlgorithmService/ResultSaveThread.h` | buffer index, identity, verdict | judge, release, log, InspectComplete, save queues | releases the buffer before it is done with it |
| Batch inspection | `BatchService/`, `AlgorithmThread_Batch` | list of batches, grab-done index, failure flags of a module | split, grab, asynchronous copy, hold, inspect | three loops that must agree, copies in any order, failure or stop inside a module |
| Circular grab buffer | `CameraManager.cpp` | index, copy-done flags | advance, copy | flags are set but never tested |
| Save threads (raw, review, log) | `InspectService.cpp` | queues, flags, shared queue index | select queue, start, drain | same start/stop pattern as above, shared parameter |
| Status file of the handler link | `HandlerService.cpp` (`Save_*`, `Get_LotEnd`, `Restart_Inspector`) | two rings in `LastStatus_<vision>.txt`, their positions in memory, a lock per vision | save a scan, save a result, clear a lot, answer RT | unordered tasks, a crash between two keys, positions lost at a restart |
| Handler protocol, rest | `HandlerService.cpp` | lot, tray, completion flags | lot start, ready, scan, turn | long sequences, resets while threads run |
| AI inspector manager | `LGIT/InspectorManager.cpp`, `LAIInspector*.cpp` | jobs with promises, reload flag and condition | submit, ask the inspectors, reload models | futures waited for inside workers, reload against jobs and watchdog |
| AI worker pool, watchdog | `AIService/ThreadPool.h`, `WatchdogTimer.h` | job queue; paused flag, time of the last reset, mutex | enqueue, take; fire, reset, pause, resume | a callback that waits under the mutex |
| AI service director | `syai_service/` | promises per request | request, answer, time out | futures nobody fulfils |
| ADJ client | `ADJClientService.cpp`, `SafeQueue.h` | queue | push, next | lock held on one path |
| TCP, serial, motion, light | `TCPClient.cpp`, `ComThread.cpp`, ... | sockets, ports | send, receive | device I/O |
| FAI, vision algorithms | `FAI/`, `AlgorithmParam.cpp`, Halcon calls | images, geometry | measure | floating point; not for a model checker |
| Data, dialogs, legacy, vendored | rest | files, windows | | no protocol |

How they interact: the handler's message calls `InspectionMove`, which starts a
grab thread. The grab thread sends ScanComplete and copies its images and the
module's identity into the next buffer of the ring (`CopyInspectInformation`),
appends the buffer's index to the scan queue and to the inspect queue, and
starts algorithm threads that are not running. Algorithm threads take indexes
from the inspect queue, work on the buffer, set its status to POSTPROCESSING
and start the result-save thread unless it runs. The result-save thread takes
indexes from the scan queue, waits for the status, judges, sets the buffer
AVAILABLE, and reports InspectComplete. Nothing but the status, the flags, the
queues and the semaphore (each with its own critical section) orders the
threads.

With batch inspection the handler's message calls `InspectionStart_Batch`, which
splits the model's images into batches where an axis moves and starts a
`BatchGrabThread`. Each batch is copied by a task of its own; the first one
enters the module into the queues, every one reports its status to the module's
`BATCH_CONTEXT`, which `AlgorithmThread_Batch` polls. Inside an inspection the
algorithm thread may submit regions to the `InspectorManager` and wait for their
futures. Scans and results that were reported to the handler are also saved in
the status file of the camera, which a restart reads to answer for what was
lost.

What makes it correct: reports leave in scan order and under the right module;
results are not read while written; a failed grab is never passed; permits and
flags survive every exit path; a buffer is not reused too early; and every
queued module is eventually reported. Each hazard is listed at its line in
`PROJECT.json`, with the property that watches it or the reason none does yet.

## 2. Plan

Done, in this order:

1. **InspectPipeline**, **InspectionLine**: the pipeline of one camera and the
   abstract line it implements; proofs in **InspectPipeline_proof**,
   **PipelineReports_proof**, **PipelineFlags_proof**, **PipelinePermits_proof**.
2. **BatchSplit**: how a scan is cut into batches and walked again; proofs in
   **BatchSplit_proof**.
3. **BatchInspect**, **BatchPromise**: grab thread, copy tasks and algorithm
   threads of batch inspection, and what they promise; proofs in
   **BatchInspect_proof**.
4. **InspectorManager**: the LGIT inspector with its pools, the watchdog and the
   reload; proofs in **InspectorManager_proof**.
5. **StatusLog**: the status file, its rings and the restart; proofs in
   **StatusLog_proof**.

Left, by value:

1. **SaveQueues**: queue selection, start by flag, shared queue index, and the
   wait of `ProcessRawImageSave`.
2. The AI service director, the ADJ queue, two-jig equipment in StatusLog.

## 3. Modules

### InspectPipeline

One camera. A step is one critical section, or a run of code over data the
thread has to itself, so TLC explores every interleaving the locks allow.

| Variables | Code |
|---|---|
| `gpc`, `failed`, `gslot`, `gidx` | program counter and locals of the grab thread of each module (`bGrabFail`, `iScanBufferIdx`, `i` of the start loop) |
| `scanIdx` | `m_iScanBufferIdx` |
| `moduleNo`, `grabFail`, `matched`, `status` | `m_nModuleNo`, `m_bGrabFail`, `m_bMatchingSuccess`, `m_iInspectBufferStatus` of each buffer |
| `scanQ`, `inspQ` | `m_listScanThreadParam`, `m_listInspectThreadParam` |
| `running`, `permits` | `m_bAlgorithmThreadRunning`, count of `m_pSemaphore` |
| `wpc`, `wslot`, `dying` | an algorithm thread; the one started by module *m* for index *i* is the pair (*m*, *i*) |
| `saving`, `spc`, `sslot`, `smodule`, `verdict` | `m_bResultSaveThreadRunning` and the result-save thread |
| `reported` | the InspectComplete messages of each module |
| `accepted`, `owner`, `overrun` | history: order of the scan queue, whose data a buffer holds, whether a buffer was taken while owned |

| Actions | Code |
|---|---|
| `InspectionMove` | `CInspectService::InspectionMove`, with the handler's pacing |
| `GrabDone`, `GrabStopped`, `GrabThrows`, `GrabHold` | `InspectionThread_Inspect` up to ScanComplete |
| `ClaimBuffer`, `FillBuffer`, `CopyThrows` | `PrepareAlgorithmBuffer`; after an exception the grab thread calls it again |
| `MarkInspecting`, `AddScan`, `AddInspect`, `StartThread` | `CopyInspectInformation` |
| `ThreadBegin`, `CheckQueue`, `PopInspect`, `Inspect`, `InspectThrows`, `PostResult`, `WakeSaver`, `ThreadEnd` | `AlgorithmThread`, `ProcessResultSave` |
| `SaverBegin`, `TakeScan`, `InspectDone`, `Judge`, `InspectComplete`, `SaveTail`, `SaverEnd` | `ResultSaveThread` |
| `JudgeThrows`, `AlarmThrows`, `CatchRelease`, `CatchReport` | its catch block |

Abstracted: images, measurements and defect classes (an inspection ends with a
matched image, a mismatch or an exception; the verdict is OK, GF or MC, where
OK stands for every verdict of a matched module and MC for mismatch and light
error), log and report files, timing. What is sent is not always the verdict:
for a module with a failed measurement (`m_bInspectFail`, the constant
`FaiFails`) `GetFaiDefectCode` replaces it, in the ordinary report and in that
of the catch block (`Sent`). The handler is not in the repository; it
is modelled from the calls it makes: it asks for module *m* only after the scan
of *m* - 1 ended and keeps at most `Window` modules unfinished. The production
build is modelled (`INLINE_MODE`, no batch inspection). Lot initialisation does
not reset queues or flags while production runs: `ReadyLot` is called by the
handler with `bInitThread` FALSE, and `InitializeLotData` only by the
constructor.

`Faults` names what may go wrong: `retries` (all retries of a grab fail), and
the places where a Halcon operator may throw: `grab` (camera), `image` (copy
into the buffer), `inspect` (algorithm thread), `judge` and `alarm` (result-save
thread before and after InspectComplete).

Definitions marked *Mutant* are faulty variants of an action. They are not part
of `Next`; each is the bug that some property is there to catch.

### InspectionLine

The promise to the handler: modules are accepted one by one and each is
reported in the order of acceptance; one report may be repeated, as a matching
failure or with the code of the failed measurement, before the next module is
reported. `LineSpec` in InspectPipeline is
its specification under the identity mapping of `accepted` and `reported`.

### MCInspectPipeline

The sets of faults, and of modules with a failed measurement, used by the
configurations.

### BatchSplit

One model of images, one pass: `SplitBatches_AxisMove` makes the list of
batches, then `GrabStart` walks each batch from the counters the batch
remembers. `CopyGrabImages` (`AlgorithmHelper.cpp`) runs the same loop with the
same counters, so one walk stands for both.

| Variables | Code |
|---|---|
| `n`, `images`, `moving` | `iNoUsedImageGrab`, the model data of each image, whether the camera's axes move (visions 2 and 4) |
| `batches`, `open`, `prev`, `at` | `vBatches`, `currentBatch`, `iPrevImageIdx`, the four counters of the split |
| `current`, `walk` | the batch being grabbed and the counters of `GrabStart` |
| `last`, `stage` | where `GrabStart` sent the axes last (`dPrevHeadX` and the other locals), where they stand |

| Actions | Code |
|---|---|
| `SplitTurn`, `SplitEnd` | a turn of the loop of `SplitBatches_AxisMove`, what follows it |
| `WalkTurn`, `WalkNext` | a turn of the loop of `GrabStart` with `MoveMotionAndChangeSequence`; the loop over the batches in `BatchGrabThread` |

Six axes are taught for each image. `IsAxisMoved`, which cuts the batches,
compares three of them (head X, stage Y, tilt: `pos`), one image with the one
before; `MoveMotionAndChangeSequence` compares all six (camera Z, light Z and
rotation: `rest`), with where they were sent last, and `GrabStart` takes that to
be zero at the beginning of each batch. Each group is one integer. A move ends
where it was sent; the axis times, positions and statuses of `BATCH_INFO` that
nothing reads back, and the stop, are left out.

### BatchInspect

| Variables | Code |
|---|---|
| `stop` | cycle stop or reload |
| `gpc`, `gb`, `success` | `BatchGrabThread` of each scan, the batch it grabs, its `bSuccess` |
| `context` | `BATCH_CONTEXT`: `iGrabDoneIdx`, `bGrabFailed`, `bMatchingFailed` |
| `copy`, `into`, `paramFail` | each copy task, the buffer it was given, `param.bGrabFail` |
| `slot`, `bGrabFail`, `matched` | `m_iScanBufferIdx`, `m_bGrabFail`, `m_bMatchingSuccess` |
| `scanQueue`, `inspectQueue` | as in InspectPipeline |
| `wpc`, `wslot`, `wb` | `AlgorithmThread_Batch`, its buffer and batch |
| `posted`, `judged` | buffers made POSTPROCESSING, verdicts of the result-save thread |
| `owner`, `images`, `grabbed`, `inspected` | history: whose buffer it is, whose images it holds, what was grabbed and inspected |

| Actions | Code |
|---|---|
| `Start` | `InspectionStart_Batch` |
| `Grab`, `GrabStopped`, `GrabThrows`, `Complete`, `Flush` | `BatchGrabThread`: a turn of its loop, the stop, the catch block, ScanComplete, the futures |
| `CopyBegin`, `CopyFill`, `CopyThrows`, `CopyRedo`, `CopyReport` | the copy task, with `PrepareAlgorithmBuffer` and `CopyInspectInformation` |
| `Poll`, `Leave`, `LeaveEnd`, `WaitEnds`, `WaitFails`, `WaitStopped`, `Align`, `AlignFails`, `Inspect`, `InspectThrows` | `AlgorithmThread_Batch` |
| `Judge` | the verdict of `ResultSaveThread` |

What InspectPipeline models already is simple here: the ring is unrolled (a scan
takes the next number), permits and the life of the result-save thread are left
out, and of a thread's end only the window between the last look at the queue
and the cleared flag is kept. `GrabStart` is one step and its result is that of
the last sequence, as in the code: a sequence lost earlier in the batch is
hidden by a later success (`BatchGrabHelper.cpp:75`). The grab-hold loop leaves
at once both ways, as in the standard grab thread. Memory is not modelled (the
catch block deletes `pParam` while copy tasks may still read it).

Two constants state what the code leaves open. `SlowCopies` FALSE assumes that
the copies of the batches before have ended when a grab, with the moves of its
axes, returns; nothing in the code makes it so. `Packed` TRUE lets a copy task
that outlives the last turn of the loop read anything in `bSuccess`, which it
captured by reference (`BatchGrabThread.h:126`) and whose scope has ended. The
runs have it FALSE, a build that keeps the variable's place: with it TRUE what
the last copy says of its grab is arbitrary and `InspectedWasGrabbed` cannot hold.

`Judge` looks at `m_bMatchingSuccess` alone, as the code does; what an algorithm
thread leaves there when a later grab of the module fails is part of the model.

### BatchPromise

Modules are accepted, their batches inspected one after the other, and each is
judged once, in order; it passes if all its batches were inspected, or if one
was and a grab of the module is known to have failed, but not with a batch left
out for another reason. `PromiseSpec` in BatchInspect maps `accepted` to the
modules judged and queued, and `failed` to the buffers whose flag or context
tells a failed grab (`MarkedFailed`).

### InspectorManager

| Variables | Code |
|---|---|
| `stage`, `at` | a call of `submit` and its job: the step it is at, the inspector it asked last |
| `jobs_` | queue of `thread_pool_` |
| `pending`, `busy` | queue and workers of each inspector's pool |
| `dog`, `late`, `paused_` | the watchdog's thread (holds the mutex unless idle), the time since the last reset, its flag |
| `is_model_reloading_`, `reload`, `loading` | the flag, each call of `try_model_reload`, the inspectors still to be reloaded |
| `left` | history: the jobs under way when the wait for the queue ended |

| Actions | Code |
|---|---|
| `Call`, `Admit`, `Enqueue` | `submit`, `wait_for_model_reload_completion`, `enqueue_job` |
| `Take`, `Ask`, `ResetDog`, `Finish` | the job on a worker: the chain of inspectors and its exits |
| `BeginInference`, `EndInference` | a worker of an inspector's pool, `process_image` |
| `Tick`, `Fire`, `Fired` | `WatchdogTimer::start` and its callback |
| `CallReload`, `Claim`, `WaitOther`, `OtherEnded`, `PauseDog`, `Drained`, `DrainTimeout`, `Loaded`, `LoadThrows`, `ResumeDog`, `Release` | `try_model_reload` |

Images, masks and answers are abstracted: which inspectors a job asks, whether
the answer resets the watchdog and where a job ends are choices. Jobs that save
images only write files and are left out with the wait for their pool.
`try_model_reload` is called at start-up and at RUN,COMPLETE; the module lets
calls overlap, as the code's own first branch expects. The destructor is not
modelled.

### StatusLog

| Variables | Code |
|---|---|
| `tasks`, `holder`, `step`, `sweep` | tasks of `EnqueueStatusWrite`, the holder of `m_csLotStatusWrite`, which key it writes next, which slot the end of a lot looks at |
| `index` | `m_iScanCompleteCheckIndex`, `m_iInspectCompleteCheckIndex` |
| `lastScan`, `slots` | the file: LAST SCAN COMPLETE, RECENTLY SCAN COMPLETE, RECENTLY INSPECT COMPLETE |
| `reader` | `Restart_Inspector`: the slot of either ring it reads next, what it has read |
| `status`, `rt`, `ended` | what the handler was told of each module, the RT answers, the lots ended |
| `starts`, `reloads` | starts of the program, restarts asked for (bounds, as the number of lots that end) |
| `recent` | history: the last `NumSlots` saves of each ring, with the slot each took and the run of the program it belongs to |
| `steady`, `quiet`, `cut` | history: the modules each ring should have held since the reader began, whether no result was half saved since, whether a crash left a half-written slot |

| Actions | Code |
|---|---|
| `ScanComplete`, `InspectComplete`, `LotEnd` | `Save_ScanComplete`, `Save_InspectComplete`, `Get_LotEnd`: the call queues its task |
| `SaveStart`, `SaveLast`, `SaveLot`, `SaveNumber` | the task of a save, key by key |
| `ClearStart`, `ClearLast`, `ClearLot`, `ClearNumber` | the task of LOT,END, slot by slot and key by key |
| `Reload`, `ReadLast`, `ReadScanLot`, `ReadScanNumber`, `ReadResultLot`, `ReadResultNumber` | `Restart_Inspector`, which takes no lock, key by key, while the tasks go on |
| `Crash` | the process ends at any point and is started again |

A slot has five keys; the model keeps the first, the lot, and takes stage,
magazine, tray and module as one (`no`), written or read in one step. One vision
of an equipment model with one jig. The task of RUN,COMPLETE is left out: with
one jig it never puts the vision's name into the file name and clears another
file (4.2). With BOI, BOS and KRIOS, which have two jigs, it does clear.

What the rings should hold is a history that outlives crashes: a save counts
until `NumSlots` newer ones were made, or its lot ended, or a save of a *later*
run of the program took its slot (`Overtaken`). The last is what the code does
when it starts again at the first position (`HandlerService.cpp:62`), and the
properties name it: a module lost that way is not claimed. A module overtaken
within one run would be.

## 4. Runs

| Run | Instance | Question |
|---|---|---|
| `PipelineRing` | 3 modules, one with a failed measurement, 3 buffers, 1 thread, window 1, all faults | Is the ring long enough; does the pipeline implement InspectionLine; can a failed grab pass; can a module be reported twice? |
| `PipelineThreads` | 2 modules, one with a failed measurement, 2 buffers, 2 threads, window 2, algorithm threads and judgement may throw | Order of reports, races on results, permits, number of result-save threads |
| `PipelineLive` | 2 modules, 3 buffers, 1 thread, window 2, hold on, grabs may fail, weak fairness | Does a queued module get its report, do the threads come to rest? |
| `PipelineHold` | as above, without faults and fairness | expected violation: see 4.1 |
| `PipelineStranded` | 2 modules, 3 buffers, window 2, weak fairness | expected violation: see 4.1 |
| `BatchSplit` | every model of up to 4 images, sequences of 0 to 2 images, each taught at one of 4 places a step apart, an offset of one step, axes moving or not | Do the batches tile the scan, do the loops meet, is every image grabbed in its place, does an axis jump inside a batch, do the loops end? |
| `BatchSafety` | 2 modules of 2 batches, 2 threads, all faults, copies end before the next grab | Is every batch inspected when it was grabbed and with its images, every buffer posted once; which batches may a module that passes lack; is BatchPromise implemented? |
| `BatchLive` | 2 modules of 2 batches, 1 thread, copies in any order, stops, grab threads that throw, weak fairness | Is a queued module posted; which batches may a module that passes lack? |
| `BatchOrder` | 1 module, copies in any order, no fault | expected violation: see 4.1 |
| `BatchFailedGrab` | 1 module, grabs may fail | expected violation: see 4.1 |
| `Manager` | 2 jobs, 2 reloads, one worker per pool, the secondary inspector, fairness | Reloads against each other, the watchdog and jobs; does every submit and reload return; is a silence ended? |
| `Status` | 3 modules of 2 lots, rings of 2 slots, 2 tasks at once, one crash, one restart asked for, one lot that ends | Is RT answered for what is owed and for nothing whose result is saved? |

*Bounds.* Three modules through three buffers make the ring wrap with a copy
that failed on the way; with window 1 at most two buffers can be owned while a
third is claimed (the one of a copy that threw counts until it is abandoned),
which is why three suffice and two do not when a result-save thread that
reported is still in its tail. Two modules with two threads each give every
pair of threads of the code: two inspectors, an inspector and a thread just
started for the same index, and the saver, also in its catch block, where it
reads the module's identity again from a buffer it has given back. Two modules
go through two buffers, so no overrun happens there; the overrun belongs to
`PipelineRing`, where a shorter ring has it (section 5).

Four images in sequences of 2 (specular), 1 (diffused) and 0 to 2 (plain) give up
to four batches and a last sequence that counts more images than the model has.
Four places one offset apart let places drift (each within the offset of the
next, the first and the third not), jump (the first and the fourth) and lie near
zero (the second); the first differs from the others in the axes that do not cut
batches, too. The axes begin elsewhere than at zero, where the code takes
them to be.

Two batches are a first and a last one; a module with a batch in between is
covered by the same two cases. Two modules make the second copy of one meet the
first of the next. One worker per pool is the hardest case for waiting, since
every wait then holds the only worker. The run has the secondary inspector
alone, the one the watchdog asks, so the order of the chain and of the reload is
not exercised; with the instance `MCTwo`, which adds the inspector before it in
the chain, every property of the run holds as well (68,628 states, three and a
half minutes).

Two slots make the rings wrap with the second scan, and three modules leave one that was evicted; one crash gives every
file the second life of the program can start from. One restart suffices: between
two the reader keeps nothing. It may come before or after the crash,
and the crash may cut it short. One lot ends and the other goes on; with
`MaxEnds = 2` the properties hold as well (5.4 million states, three minutes).

*Overrun.* `PrepareAlgorithmBuffer` takes the next buffer without looking at
its status. No code prevents an overrun; only the handler's pacing and the
configured ring size do. So identity properties are stated for behaviours in
which no overrun has happened yet, and `NoOverrun` is checked on its own for a
ring that is long enough.

*Fairness.* Weak fairness per thread: Windows schedules every thread that can
run, each wait in the code polls or blocks on a semaphore that others release.
The handler and the choice of faults are not fair. The semaphore is taken
together with the step after it; a thread that waits while a permit stays free
gets it.

In BatchInspect each grab thread, copy task and algorithm thread is weakly fair;
neither the handler nor the result-save thread is. In InspectorManager threads,
models and waits are weakly fair, and the three steps that need the watchdog's
mutex (`ResetDog`, `PauseDog`, `ResumeDog`) strongly: the mutex is free for 30 s
between two callbacks, so a waiter gets it. Nothing makes anyone submit, reload
or fall silent. BatchSplit has one thread, which runs.

*Deadlock* is not checked where everything rests after the last module or the
last start (the pipelines, batches, the status file). `Manager` checks it: the
watchdog can always go on, so a state without a step would be a fault of the
model.

### 4.1 What the violations show

- `HoldWaits`: the preference "Hold the scan complete if inspection is not
  done" (`PreferenceDlg.cpp`) has no effect. The loop in `InspectService.cpp`
  (lines 1745-1772) breaks in both cases. ScanComplete is sent while the last
  buffer is INSPECTING. The same loop stands in the other grab threads.
- `QueuedIsReported`: an algorithm thread decides to end before it clears its
  running flag. A module queued in between finds the flag set and starts
  nobody. It is inspected only when a later module starts a thread, so the last
  module of a lot may wait for ever. The result-save thread has the same
  window. `ReportedUnlessStranded` shows that this is the *only* way a queued
  module goes unreported.
- `InspectsCopied` (`BatchOrder`): the tasks that copy the batches are ordered by
  nothing. If the second runs first it copies into the buffer taken last, which
  belongs to another module, and its status lets the algorithm thread go ahead
  with both batches. It takes a copy that has not begun when the next grab ends;
  `BatchSafety` shows that without such a delay every batch has its images.
- `PassedMeansInspected` (`BatchFailedGrab`): the verdict looks at
  `m_bMatchingSuccess` alone (`ResultSaveThread.h:446`); the failed grab is
  consulted only for a module that did not match (line 970). When the second
  grab of a module fails after its first batch matched, the algorithm thread
  posts the buffer and leaves the match as it is (`AlgorithmThread.h:294-309`),
  and the module passes with its second batch neither grabbed nor inspected.
  The buffer's `m_bGrabFail` is TRUE and nobody asks. A stop between two batches,
  which marks the last batch in the context only, has the same outcome.
  `LeftOutIsMarked` says that this is the *only* way a module passes with a batch
  left out: the batches it lacks are the last ones, and the program knows of the
  grab that failed. (Nothing waits for ever: `BatchLive`.)

### 4.2 Documentation that differs from the code

`Docs/UAVI_Flow_Information.md` describes the buffer as released last; the code
releases it (`ResultSaveThread.h:1024`) before the logs and before
InspectComplete. It also places ScanComplete after the copy into the buffer;
the code sends it before (`InspectService.cpp:1781` and 2067). The models follow
the code.

`InspectorManager.cpp:416` says of the reload's wait that all jobs of the pool
must complete, and line 442 logs that they have; the loop only looks at the
queue, and jobs on a worker go on (`LoadMeetsOnlyLeftJobs` says which).

`Get_RunComplete` (`HandlerService.cpp:2056-2066`) is to clear the status file of
each vision; with one jig it leaves the vision's name empty and clears
`LastStatus_.txt`.

## 5. Proofs

The theorems hold for all values of the constants: all numbers of modules,
buffers and threads, any window and any set of faults; every model of images;
any jobs, reloads, pools and inspectors; any rings, lots and crashes. Only the named assumptions on the
constants of each module are used, and the hypotheses the table names.

| Theorem | Module | States |
|---|---|---|
| `TypeCorrect` | `InspectPipeline_proof` | `Spec => []TypeOK` |
| `OneResultSaveThread` | `InspectPipeline_proof` | `Spec => NoSecondSaver` |
| `InScanOrder` | `InspectPipeline_proof` | `Spec => []ReportedInScanOrder` |
| `ResultsNotRaced` | `InspectPipeline_proof` | `Spec => []NoResultRace` |
| `ReportedTwiceOnlyByAlarm` | `PipelineReports_proof` | `Spec => []SecondReportIsAlarm` |
| `ImplementsLine` | `PipelineReports_proof` | `Spec /\ []NoOverrun => LineSpec` |
| `VerdictFitsGrab` | `PipelineFlags_proof` | `Spec => []FailedGrabNeverPasses` |
| `LongRingNeverOverruns` | `PipelineReports_proof` | `LongRing => (Spec => []NoOverrun)` |
| `LongRingImplementsLine` | `PipelineReports_proof` | `LongRing => (Spec => LineSpec)` |
| `SemaphoreBalanced` | `PipelinePermits_proof` | `Spec => []PermitsBalanced` |
| `SplitTypeCorrect` | `BatchSplit_proof` | `Spec => []TypeOK` |
| `BatchesTileScan` | `BatchSplit_proof` | `Spec => []BatchesTile` |
| `WalksMeetTheSplit` | `BatchSplit_proof` | `Spec => []WalksMeet` |
| `ImagesGrabbedInPlace` | `BatchSplit_proof` | `Spec => GrabbedInPlace` |
| `BatchesNeverJump` | `BatchSplit_proof` | `Spec => NoJumpInBatch` |
| `BatchTypeCorrect` | `BatchInspect_proof` | `Spec => []TypeOK` |
| `BatchPostsOnce` | `BatchInspect_proof` | `Spec => []PostedOnce` |
| `PromptCopiesAreInspected` | `BatchInspect_proof` | `~SlowCopies => (Spec => []InspectsCopied)` |
| `LeftOutBatchesAreMarked` | `BatchInspect_proof` | `Spec => []LeftOutIsMarked` |
| `InspectedBatchesWereGrabbed` | `BatchInspect_proof` | `~SlowCopies /\ ~Packed => (Spec => []InspectedWasGrabbed)` |
| `BatchKeepsPromise` | `BatchInspect_proof` | `Spec => PromiseSpec` |
| `ManagerTypeCorrect` | `InspectorManager_proof` | `Spec => []TypeOK` |
| `OneReloadAtATime` | `InspectorManager_proof` | `Spec => []ReloadIsExclusive` |
| `WatchdogQuietInReload` | `InspectorManager_proof` | `Spec => []NoWakeDuringReload` |
| `ReloadMeetsLeftJobs` | `InspectorManager_proof` | `Spec => []LoadMeetsOnlyLeftJobs` |
| `StatusTypeCorrect` | `StatusLog_proof` | `Spec => []TypeOK` |
| `OwedModulesAreFound` | `StatusLog_proof` | `Spec => OwedIsRerun` |
| `SavedResultsStay` | `StatusLog_proof` | `Spec => SavedResultNotRerun` |

*Types.* The count of the semaphore stays a natural number because `CheckQueue`
takes a permit only when there is one.

*One result-save thread.* From the invariant `SaverFlag`: the flag is set
exactly while the thread exists or is about to.

*Identity.* `InScanOrder` and `ResultsNotRaced` follow from one inductive
invariant, `IInv`. Neither property is inductive: that a report goes to the right module depends on the identity
stored in a buffer, which depends on nobody else writing that buffer. `IInv`
therefore says who holds each buffer, as long as no overrun has happened. A
module enters the scan queue once (`AcceptedOnce`); the buffer a grab thread
fills is owned by its module (`GrabberHolds`); the scan queue holds the buffers
of exactly the modules accepted last, in order (`EntriesHeld`); the result-save
thread holds the buffer of the module taken last (`SaverHolds`); reports have
been made up to there (`Reports`); and a buffer still to be inspected is
INSPECTING and its index is in one place (`ToInspectOnce`). The lemmas
`GrabberAlone`, `SaverAlone` and `UnownedAlone` turn this into "nobody else has
this buffer", which every step that writes a buffer needs. `SaverFlag` is part
of `IInv` because starting the result-save thread must not overwrite a live
one. `IInv` was checked with TLC on the instances of `PipelineRing` and
`PipelineThreads` before it was proved.

*Reports.* `Counts` adds to `IInv` how often each module was reported: at most
once when the result-save thread enters its catch block, and exactly then not
at all unless the alarm code threw. With it every step maps to a step of
InspectionLine or a stutter (`LineStep`): `AddScan` is `Accept`,
`InspectComplete` is `Report`, and `CatchReport` is `Report` or `ReportAgain`,
depending on whether the exception came before or after InspectComplete.
`[]NoOverrun` is an assumption because no code guarantees it; the next theorem
says when it holds.

*How long the ring must be.* While a module owns its buffer, the only modules
that can take others are those the handler's window lets be under way: `Window`
- 1 before it and as many after it, and, once it is reported but not yet let go
(the result-save thread's tail), `Window` more. Each takes one buffer, or two if
its copy threw. So `NumBuffers > MaxClaims * (3 * Window - 2)` (`LongRing`) is
enough. `Ring` makes this inductive: `Since` counts how far the ring has turned
since a buffer was taken and is bounded by the number of takings beside it
(`TakenBeside`). The bound cannot be lowered in general: TLC finds an overrun with one
buffer less, for window 1 with copies that throw (2 buffers) and for window 2
without (4). The model file gives the number of buffers (`uScan.cpp:11674`), 20
by default in the production build (`Define.h:162`): the theorem then covers
windows up to 7, and only up to 3 when copies may throw.

*Flags.* `Flags` follows `m_bGrabFail` and `m_bMatchingSuccess` through the
ring. `grabFail` of a buffer is the module's own from `FillBuffer` to the
verdict (`GrabFlags`); a buffer that is POSTPROCESSING belongs to an accepted
module and is not both matched and a failed grab (`MatchFlags`); the result-save
thread judges such a buffer and has freed it before it lets it go
(`SaverFlags`). That the flags outlive their module is harmless because a
buffer nobody owns is never POSTPROCESSING.

*Permits.* `Unstarted` says that the copy of a module starts an index at most
once, so starting a thread never resets one that holds a permit; the balance is
then a count of `Holders` step by step. It needs no assumption on overruns.

*Split.* `BatchesTile` speaks of closed batches only. `OpenNext` adds where the
open batch lies: it begins where the last closed one ended, within the model and
not beyond the loop's counter. If the loop still stands at its first image (a
sequence that counts no image), that image is also the previous one, so no axis
has moved and no empty batch is closed. `InRange` is what types need of
`batches[current]`.

*Walks.* That three loops agree cannot be seen from the walk alone. `WalkInv`
says that there is a trail: the set of places the split's counters have stood
at, one per grab sequence (`Trail`). Every batch begins on it (`Marked`), the walk
stands on it, within its batch (`OnTrail`), and where an axis moves between two
places a batch begins (`Moves`). As no place lies between a place and its
successor, a walk cannot step over the beginning of the next batch, and the
first image at which it stops is that beginning, in every counter.

*Motion.* What the split compares (neighbours) is not what the walk compares (the
last move). `KnowsPlace` relates the two: `last` is zero until the batch has
moved the axes, and where they stand from then on. With it, and with the trail,
which says that two neighbours inside a batch are within the offset (`Moves`),
both properties follow from the triangle inequality (`DistanceFacts`). The
exception they name is the code's: an image taught near zero is taken to be in
place at the beginning of a batch, wherever the axes are.

*Batch inspection.* Two theorems have hypotheses. These are constants of the model, each one
behaviour of the code that can be allowed or not: `SlowCopies` (a copy still runs
when the next grab has ended), `Packed` (the copy task reads `bSuccess` after its
scope ended and finds something else there), `Stops` (the handler stops the
cycle). Grabs, copies, alignments and inspections may fail or throw in every
theorem. TLC was run on each of them with one module, three batches, two threads and
all faults:

| | none | `SlowCopies` | `Packed` | `Stops` |
|---|---|---|---|---|
| `TypeOK`, `PostedOnce`, `LeftOutIsMarked`, `PromiseSpec` | proved | proved | proved | proved |
| `InspectsCopied` | proved | violated (4.1) | proved | proved |
| `InspectedWasGrabbed` | proved | violated | violated | proved |
| `PassedMeansInspected` | violated (4.1) | violated | violated | violated |

so no hypothesis can be dropped. The invariants build on each other. `PlaceInv`:
where each queued buffer is (`OnePlace`: the inspect queue, one thread, or
posted), and that only the first copy of a module queued it; this gives
`PostedOnce` in any order of copies. `PassInv` adds, still in any order, what a
thread has behind it (`InTurn`: it has inspected the first *n* batches, and left
one out only after a mismatch or a failed grab the context tells; after a
mismatch the buffer is not matched), so that a buffer posted as matched is
vouched for (`PostedPasses`). Under it every step maps to a step of BatchPromise
or a stutter: `Enqueue` is `Accept`, `Inspect` is `InspectBatch`, `Judge` is
`Judge`, and a step that marks a grab as failed only adds to `failed`. `SerialInv`
adds, for prompt copies, that one copy task is active at a time (`Serial`), so
that the buffer taken last is the one of the module being copied (`Current`) and
a batch the context calls done is in its buffer (`Copied`, `Told`). `GrabbedInv`
adds that a copy reads the success of its own grab or the context already tells a
failure (`OwnSuccess`), so that only images of a batch that was grabbed are
copied (`ImagesGrabbed`) and aligned (`AlignsGrabbed`).

*Reloads.* The invariant `Inv` has a part for each of: the flag and the one call
inside (`ReloadIsExclusive`), the watchdog (`DogInv`: paused while a reload is between pause and resume, and in
no callback while paused), the queue of the pool (`QueueInv`: its entries are
the queued jobs, each once), the inspectors' pools (`PoolsInv`: they hold each
thing once, a job that waits for them or the image the watchdog waits for),
and the jobs a reload left (`LoadInv`: while it loads, every job past the flag
is in `left`). The last needs all the others: a job reaches an inspector only
from a worker, a worker only from the queue, and the queue only past the flag.

*Status file.* Both properties rest on where the last saves of a ring stand
(`RingInv`). The saves of one run lie in the slots behind the position, the one
made *d* saves ago *d* slots back (`Trail`), so two of them are in different
slots and only a save of a later run can have taken the slot of another
(`Spread`). Every save not overtaken that way stands in the file as it was
written (`Placed`), and since a module is saved once (`Once`), in one slot. A
crash changes nothing of this: the position goes back to 0, but the older saves
are of an earlier run. `ResultInv` says that the other ring names reported
modules only, except in a slot that is being written or that a crash cut. The
reader is then a matter of what lies behind and before it: a module that is owed
and was in the ring all the while is answered once its slot is behind the reader
and in its hands while it is there (`Met`); a result that was in the ring all
the while is still before the search for it (`Ahead`); and a slot that matches
names a reported module, or mixes two (`MatchInv`). What the theorems do not
claim, because the code does not give it: a module whose slot was taken by a save
of a later run; a module that looks like the mix of a half-saved result; and a
module whose *result* is saved while the reader is under way, which may be
answered RT though the file has it by then, when the search has passed the slot.

Model-checked only: liveness under fairness (`ReportedUnlessStranded`,
`ThreadsEnd`, `EndsUnlessEmptySequence`, `QueuedIsPosted`, `SubmittedIsAnswered`,
`ReloadReturns`, `SilenceEnds`), which TLAPS does not prove. Every safety
invariant, action property and refinement that a run checks and that holds is
also proved.

## 6. Not modelled

The status of each component is in `PROJECT.json`. Not modelled, and why:

- Vision algorithms, FAI geometry, AI inference: images and floating point. Their
  control effect (matched, failed, thrown, answered) is in the models.
- Cameras, motion, light, serial and TCP links: device I/O. A grab succeeds,
  fails, throws or does not return; a message arrives.
- The circular grab buffer: the camera SDK fills it, and how far grabs run ahead
  of copies is decided by the handler, neither of which is in this repository.
- Save threads, model and calibration data: files, with no way back into the
  pipeline, except the wait of `ProcessRawImageSave` (listed as a hazard).
- The AI service director (`syai_service`) and the ADJ client: clients of
  external servers; the director repeats the pattern of InspectorManager.
- The handler's other messages (lot start, ready, tray, turn, shift, barcode):
  what the handler may send and when is not in this repository.
- Dialogs, the legacy pipeline and vendored headers.
