----------------------- MODULE InspectPipeline_proof -----------------------
(***************************************************************************)
(* Theorems about InspectPipeline, for every number of modules, buffers    *)
(* and threads, every window of the handler and every set of faults.       *)
(***************************************************************************)
EXTENDS InspectPipeline, SequenceTheorems, TLAPS

-----------------------------------------------------------------------------
(* Type correctness.                                                       *)

\* The next buffer of the ring is a buffer.
LEMMA SlotTypes ==
  ASSUME scanIdx \in Slots
  PROVE  0 \in Slots /\ NextSlot \in Slots
BY ConstantsAssumption DEF ConstantsAssumption, Slots, NextSlot

\* The initial values are well typed.
LEMMA TypeInit == Init => TypeOK
<1> SUFFICES ASSUME Init PROVE TypeOK
  OBVIOUS
<1>1. 0 \in Slots /\ 0 \in Threads /\ NumThreads \in Nat
  BY ConstantsAssumption DEF ConstantsAssumption, Slots, Threads
<1>2. /\ scanQ \in Seq(Slots)
      /\ inspQ \in Seq(Slots)
      /\ accepted \in Seq(Modules)
      /\ reported \in [Modules -> Seq(Verdicts)]
  BY EmptySeq DEF Init
<1>3. /\ gpc \in [Modules -> GrabStates]
      /\ status \in [Slots -> Statuses]
      /\ wpc \in [Workers -> WorkerStates]
      /\ spc \in SaverStates
      /\ verdict \in Verdicts
  BY DEF Init, GrabStates, Statuses, WorkerStates, SaverStates, Verdicts
<1>4. QED
  BY <1>1, <1>2, <1>3 DEF Init, TypeOK

\* The handler and the grab threads keep the types.
LEMMA GrabTyped ==
  ASSUME TypeOK, NEW m \in Modules, InspectionMove(m) \/ GrabThread(m)
  PROVE  TypeOK'
<1> USE DEF TypeOK, GrabStates, Copying, GrabEnded
<1>0. 0 \in Slots /\ NextSlot \in Slots
  BY SlotTypes
<1>1. CASE InspectionMove(m)
  BY <1>1 DEF InspectionMove, bufferVars, queueVars, workVars, saveVars,
              ghostVars
<1>2. CASE GrabDone(m)
  BY <1>2 DEF GrabDone, bufferVars, queueVars, workVars, saveVars, ghostVars
<1>3. CASE GrabStopped(m)
  BY <1>3 DEF GrabStopped, bufferVars, queueVars, workVars, saveVars, ghostVars
<1>4. CASE GrabThrows(m)
  BY <1>4 DEF GrabThrows, bufferVars, queueVars, workVars, saveVars, ghostVars
<1>5. CASE GrabHold(m)
  BY <1>5 DEF GrabHold, bufferVars, queueVars, workVars, saveVars, ghostVars
<1>6. CASE ClaimBuffer(m)
  BY <1>0, <1>6 DEF ClaimBuffer, queueVars, workVars, saveVars
<1>7. CASE FillBuffer(m)
  BY <1>7 DEF FillBuffer, queueVars, workVars, saveVars, ghostVars
<1>8. CASE CopyThrows(m)
  BY <1>8 DEF CopyThrows, queueVars, workVars, saveVars
<1>9. CASE MarkInspecting(m)
  BY <1>9 DEF MarkInspecting, queueVars, workVars, saveVars, ghostVars, Statuses
<1>10. CASE AddScan(m)
  BY <1>10 DEF AddScan, bufferVars, workVars, saveVars
<1>11. CASE AddInspect(m)
  BY <1>0, <1>11 DEF AddInspect, bufferVars, workVars, saveVars, ghostVars
<1>12. CASE StartThread(m)
  <2>1. gidx[m] + 1 < NumThreads => gidx[m] + 1 \in Threads
    BY ConstantsAssumption DEF ConstantsAssumption, Threads
  <2>2. 0 \in Threads
    BY ConstantsAssumption DEF ConstantsAssumption, Threads
  <2>3. gidx' \in [Modules -> Threads] /\ gpc' \in [Modules -> GrabStates]
    BY <1>12, <2>1, <2>2 DEF StartThread
  <2>4. wpc' \in [Workers -> WorkerStates]
    BY <1>12 DEF StartThread, WorkerStates
  <2>5. QED
    BY <1>12, <2>3, <2>4 DEF StartThread, bufferVars, queueVars, saveVars,
                             ghostVars
<1>13. QED
  BY <1>1, <1>2, <1>3, <1>4, <1>5, <1>6, <1>7, <1>8, <1>9, <1>10, <1>11, <1>12
     DEF GrabThread

\* So do the algorithm threads: CheckQueue takes a permit only if there is one.
LEMMA AlgorithmTyped ==
  ASSUME TypeOK, NEW w \in Workers, AlgorithmThread(w)
  PROVE  TypeOK'
<1> USE DEF TypeOK, WorkerStates
<1>0. 0 \in Slots
  BY SlotTypes
<1>1. CASE ThreadBegin(w)
  BY <1>1 DEF ThreadBegin, grabVars, bufferVars, queueVars, saveVars, ghostVars
<1>2. CASE CheckQueue(w)
  <2>1. wpc' \in [Workers -> WorkerStates]
    BY <1>2 DEF CheckQueue
  <2>2. permits' \in Nat
    BY <1>2 DEF CheckQueue
  <2>3. QED
    BY <1>2, <2>1, <2>2 DEF CheckQueue, grabVars, bufferVars, queueVars,
                            saveVars, ghostVars
<1>3. CASE PopInspect(w)
  <2>1. inspQ # <<>> => Head(inspQ) \in Slots /\ Tail(inspQ) \in Seq(Slots)
    BY HeadTailProperties
  <2>2. inspQ' \in Seq(Slots) /\ wslot' \in [Workers -> Slots]
    BY <1>3, <2>1 DEF PopInspect
  <2>3. wpc' \in [Workers -> WorkerStates]
    BY <1>3 DEF PopInspect
  <2>4. permits' \in Nat
    BY <1>3 DEF PopInspect
  <2>5. QED
    BY <1>3, <2>2, <2>3, <2>4 DEF PopInspect, grabVars, bufferVars, saveVars,
                                  ghostVars
<1>4. CASE Inspect(w)
  BY <1>4 DEF Inspect, grabVars, queueVars, saveVars, ghostVars
<1>5. CASE InspectThrows(w)
  BY <1>5 DEF InspectThrows, grabVars, queueVars, saveVars, ghostVars
<1>6. CASE PostResult(w)
  BY <1>0, <1>6 DEF PostResult, grabVars, queueVars, saveVars, ghostVars,
                    Statuses
<1>7. CASE WakeSaver(w)
  <2>1. wpc' \in [Workers -> WorkerStates] /\ permits' \in Nat
    BY <1>7 DEF WakeSaver
  <2>2. saving' \in BOOLEAN /\ spc' \in SaverStates
    BY <1>7 DEF WakeSaver, SaverStates
  <2>3. QED
    BY <1>7, <2>1, <2>2 DEF WakeSaver, grabVars, bufferVars, queueVars,
                            ghostVars
<1>8. CASE ThreadEnd(w)
  BY <1>8 DEF ThreadEnd, grabVars, bufferVars, queueVars, saveVars, ghostVars
<1>9. QED
  BY <1>1, <1>2, <1>3, <1>4, <1>5, <1>6, <1>7, <1>8 DEF AlgorithmThread

\* The code of a failed measurement is a verdict like the others, so what is sent
\* of a verdict is one, and so is the list of reports it is added to.
LEMMA SentTyped ==
  ASSUME NEW m, NEW v \in Verdicts
  PROVE  Sent(m, v) \in Verdicts
BY DEF Sent, Verdicts

LEMMA ReportAdded ==
  ASSUME NEW m, NEW v \in Verdicts, NEW r \in Seq(Verdicts)
  PROVE  /\ Append(r, Sent(m, v)) \in Seq(Verdicts)
         /\ Append(r, Sent(m, v)) # <<>>
BY SentTyped, AppendProperties

\* And the result-save thread, although it indexes by values read from buffers.
LEMMA ResultSaveTyped ==
  ASSUME TypeOK, ResultSaveThread
  PROVE  TypeOK'
<1> USE DEF TypeOK, SaverStates
<1>0. 0 \in Slots
  BY SlotTypes
<1>1. CASE SaverBegin
  BY <1>1 DEF SaverBegin, grabVars, bufferVars, queueVars, workVars, ghostVars
<1>2. CASE TakeScan
  <2>1. scanQ # <<>> => Head(scanQ) \in Slots /\ Tail(scanQ) \in Seq(Slots)
    BY HeadTailProperties
  <2>2. QED
    BY <1>2, <2>1 DEF TakeScan, grabVars, bufferVars, workVars, ghostVars
<1>3. CASE InspectDone
  BY <1>3 DEF InspectDone, grabVars, bufferVars, queueVars, workVars, ghostVars
<1>4. CASE Judge
  BY <1>4 DEF Judge, grabVars, queueVars, workVars, ghostVars, Statuses,
              Verdicts
<1>5. CASE JudgeThrows
  BY <1>5 DEF JudgeThrows, grabVars, bufferVars, queueVars, workVars, ghostVars
<1>6. CASE InspectComplete
  <2>1. ASSUME smodule \in Modules
        PROVE  Append(reported[smodule], Sent(smodule, verdict)) \in Seq(Verdicts)
    BY <2>1, ReportAdded
  <2>2. reported' \in [Modules -> Seq(Verdicts)]
    BY <1>6, <2>1 DEF InspectComplete
  <2>3. QED
    BY <1>6, <2>2 DEF InspectComplete, grabVars, bufferVars, queueVars,
                      workVars, ghostVars, Verdicts
<1>7. CASE SaveTail
  BY <1>0, <1>7 DEF SaveTail, grabVars, bufferVars, queueVars, workVars
<1>8. CASE AlarmThrows
  BY <1>8 DEF AlarmThrows, grabVars, bufferVars, queueVars, workVars, ghostVars
<1>9. CASE CatchRelease
  BY <1>9 DEF CatchRelease, grabVars, queueVars, workVars, ghostVars, Statuses
<1>10. CASE CatchReport
  <2>1. ASSUME moduleNo[sslot] \in Modules
        PROVE  Append(reported[moduleNo[sslot]], Sent(moduleNo[sslot], "MC"))
                 \in Seq(Verdicts)
    BY <2>1, ReportAdded DEF Verdicts
  <2>2. reported' \in [Modules -> Seq(Verdicts)]
    BY <1>10, <2>1 DEF CatchReport
  <2>3. QED
    BY <1>0, <1>10, <2>2 DEF CatchReport, grabVars, bufferVars, queueVars,
                             workVars
<1>11. CASE SaverEnd
  BY <1>11 DEF SaverEnd, grabVars, bufferVars, queueVars, workVars, ghostVars
<1>12. QED
  BY <1>1, <1>2, <1>3, <1>4, <1>5, <1>6, <1>7, <1>8, <1>9, <1>10, <1>11
     DEF ResultSaveThread

\* Every step keeps the types.
LEMMA TypeNext == TypeOK /\ [Next]_vars => TypeOK'
<1> SUFFICES ASSUME TypeOK, [Next]_vars PROVE TypeOK'
  OBVIOUS
<1>1. CASE Next
  BY <1>1, GrabTyped, AlgorithmTyped, ResultSaveTyped DEF Next
<1>2. CASE UNCHANGED vars
  BY <1>2 DEF TypeOK, vars, grabVars, bufferVars, queueVars, workVars, saveVars,
              ghostVars
<1>3. QED
  BY <1>1, <1>2

\* Every variable of the pipeline holds a value its C++ counterpart can hold;
\* the semaphore's count never falls below zero on any path of AlgorithmThread.
THEOREM TypeCorrect == Spec => []TypeOK
<1>1. QED
  BY TypeInit, TypeNext, PTL DEF Spec

-----------------------------------------------------------------------------
(* One result-save thread.  The flag m_bResultSaveThreadRunning is set from *)
(* the moment an algorithm thread decides to start the thread until the    *)
(* thread's last step, so the test-and-set of WakeSaver is enough.         *)

SaverFlag == saving <=> spc # "none"

\* Every step keeps the flag in agreement with the thread.
LEMMA SaverFlagNext == SaverFlag /\ [Next]_vars => SaverFlag'
<1> SUFFICES ASSUME SaverFlag, [Next]_vars PROVE SaverFlag'
  OBVIOUS
<1> USE DEF SaverFlag
<1>1. ASSUME NEW m \in Modules, InspectionMove(m) \/ GrabThread(m)
      PROVE  UNCHANGED saveVars
  BY <1>1 DEF InspectionMove, GrabThread, GrabDone, GrabStopped, GrabThrows,
              GrabHold, ClaimBuffer, FillBuffer, CopyThrows, MarkInspecting,
              AddScan, AddInspect, StartThread
<1>2. ASSUME NEW w \in Workers, AlgorithmThread(w)
      PROVE  UNCHANGED saveVars \/ WakeSaver(w)
  BY <1>2 DEF AlgorithmThread, ThreadBegin, CheckQueue, PopInspect, Inspect,
              InspectThrows, PostResult, ThreadEnd
<1>3. ASSUME NEW w \in Workers, WakeSaver(w)
      PROVE  SaverFlag'
  BY <1>3 DEF WakeSaver
<1>4. CASE ResultSaveThread
  BY <1>4 DEF ResultSaveThread, SaverBegin, TakeScan, InspectDone, Judge,
              JudgeThrows, InspectComplete, SaveTail, AlarmThrows,
              CatchRelease, CatchReport, SaverEnd
<1>5. CASE UNCHANGED saveVars
  BY <1>5 DEF saveVars
<1>6. QED
  BY <1>1, <1>2, <1>3, <1>4, <1>5 DEF Next, vars

\* No algorithm thread starts a result-save thread beside a live one, however
\* many of them finish together or while the thread is ending.
THEOREM OneResultSaveThread == Spec => NoSecondSaver
<1>1. Init => SaverFlag
  BY DEF Init, SaverFlag
<1>2. SaverFlag =>
        [\A w \in Workers : WakeSaver(w) /\ ~saving => spc = "none"]_vars
  BY DEF SaverFlag
<1>3. QED
  BY <1>1, <1>2, SaverFlagNext, PTL DEF Spec, NoSecondSaver

-----------------------------------------------------------------------------
(* The identity of a module survives the ring.  As long as no buffer was   *)
(* taken while it was owned, a buffer belongs to one module from ClaimBuf- *)
(* fer until the result-save thread is through with it, and whoever holds  *)
(* the buffer's index (a grab thread, a queue, an algorithm thread, the    *)
(* result-save thread) finds that module in it.                            *)

BeforeScan == {"idle", "grab", "hold", "claim", "fill", "mark", "qscan"}
Holding    == {"poll", "judge", "report", "alarm", "catch", "reread"}
Inspecting == {"inspect", "post"}

HeldFor(b, m) == owner[b] = m /\ moduleNo[b] = m

\* A module enters the scan queue once, in AddScan.
AcceptedOnce ==
  /\ \A i, j \in 1 .. Len(accepted) : accepted[i] = accepted[j] => i = j
  /\ \A m \in Modules : gpc[m] \in BeforeScan => ~Accepted(m)
  /\ \A m \in Modules : gpc[m] = "qinsp" => Accepted(m)

GrabberHolds ==
  \A m \in Modules :
    /\ gpc[m] = "fill" => owner[gslot[m]] = m
    /\ gpc[m] \in {"mark", "qscan", "qinsp"} => HeldFor(gslot[m], m)
    /\ gpc[m] \in {"qscan", "qinsp"} => status[gslot[m]] = INSPECTING

\* The scan queue holds the buffers of the modules accepted last.
EntriesHeld ==
  /\ Len(scanQ) <= Len(accepted)
  /\ \A i \in 1 .. Len(scanQ) : HeldFor(scanQ[i], accepted[Taken + i])

SaverHolds ==
  spc \in Holding =>
    /\ Len(scanQ) < Len(accepted)
    /\ HeldFor(sslot, accepted[Taken])
    /\ spc # "poll" => status[sslot] # INSPECTING
    /\ spc \in {"judge", "report"} => smodule = accepted[Taken]

\* What ReportedInScanOrder says, and that the result-save thread is through
\* with a module only when it reported it.
Reports ==
  /\ \A i \in 1 .. Len(accepted) :
       /\ i < Taken => reported[accepted[i]] # <<>>
       /\ i > Taken => reported[accepted[i]] = <<>>
       /\ i = Taken /\ Unreported => reported[accepted[i]] = <<>>
       /\ i = Taken /\ ~Unreported /\ spc \notin {"catch", "reread"}
            => reported[accepted[i]] # <<>>
  /\ \A m \in Modules : reported[m] # <<>> => Accepted(m)

\* A buffer that an algorithm thread is to inspect is INSPECTING, and its index
\* is in one place.
ToInspectOnce ==
  /\ \A b \in Slots :
       ToInspect(b) => status[b] = INSPECTING /\ Accepted(owner[b])
  /\ \A m \in Modules : gpc[m] = "qinsp" => ~ToInspect(gslot[m])
  /\ \A i, j \in 1 .. Len(inspQ) : inspQ[i] = inspQ[j] => i = j
  /\ \A w \in Workers : wpc[w] \in Inspecting =>
       \A i \in 1 .. Len(inspQ) : inspQ[i] # wslot[w]
  /\ \A v, w \in Workers :
       wpc[v] \in Inspecting /\ wpc[w] \in Inspecting /\ wslot[v] = wslot[w]
       => v = w

Identity ==
  /\ AcceptedOnce
  /\ GrabberHolds
  /\ EntriesHeld
  /\ SaverHolds
  /\ Reports
  /\ ToInspectOnce

IInv == TypeOK /\ SaverFlag /\ (~overrun => Identity)

-----------------------------------------------------------------------------
(* Who holds a buffer.  The three lemmas say that a buffer a grab thread is *)
(* filling, one the result-save thread is done waiting for and one nobody  *)
(* owns is held by nobody else.                                            *)

Grabbing == {"fill", "mark", "qscan", "qinsp"}

\* What the queues hold, and where the scan queue ends in accepted.
LEMMA EntryTypes ==
  ASSUME TypeOK, EntriesHeld
  PROVE  /\ \A i \in 1 .. Len(accepted) : accepted[i] \in Modules
         /\ \A i \in 1 .. Len(scanQ) :
              scanQ[i] \in Slots /\ Taken + i \in 1 .. Len(accepted)
         /\ \A i \in 1 .. Len(inspQ) : inspQ[i] \in Slots
         /\ Taken \in Nat
         /\ None \notin Modules
<1>1. /\ \A i \in 1 .. Len(accepted) : accepted[i] \in Modules
      /\ \A i \in 1 .. Len(scanQ) : scanQ[i] \in Slots
      /\ \A i \in 1 .. Len(inspQ) : inspQ[i] \in Slots
  BY ElementOfSeq DEF TypeOK
<1>2. Len(accepted) \in Nat /\ Len(scanQ) \in Nat
  BY LenProperties DEF TypeOK
<1>3. QED
  BY <1>1, <1>2 DEF EntriesHeld, Taken, Modules, None

\* Nobody else has the buffer of a module that is not accepted yet.
LEMMA GrabberAlone ==
  ASSUME TypeOK, Identity, NEW m \in Modules, gpc[m] \in {"fill", "mark", "qscan"}
  PROVE  /\ owner[gslot[m]] = m
         /\ \A i \in 1 .. Len(scanQ) : scanQ[i] # gslot[m]
         /\ spc \in Holding => sslot # gslot[m]
         /\ ~ToInspect(gslot[m])
         /\ \A k \in Modules :
              gpc[k] \in Grabbing /\ gslot[k] = gslot[m] => k = m
<1>1. owner[gslot[m]] = m /\ gslot[m] \in Slots /\ ~Accepted(m)
  BY DEF Identity, GrabberHolds, AcceptedOnce, BeforeScan, HeldFor, TypeOK
<1>2. \A i \in 1 .. Len(scanQ) : scanQ[i] # gslot[m]
  BY <1>1, EntryTypes DEF Identity, EntriesHeld, HeldFor, Accepted
<1>3. spc \in Holding => sslot # gslot[m]
  <2>1. spc \in Holding => Taken \in 1 .. Len(accepted)
    BY EntryTypes, LenProperties DEF Identity, SaverHolds, Taken, TypeOK
  <2>2. QED
    BY <1>1, <2>1 DEF Identity, SaverHolds, HeldFor, Accepted
<1>4. ~ToInspect(gslot[m])
  BY <1>1 DEF Identity, ToInspectOnce
<1>5. \A k \in Modules :
        gpc[k] \in Grabbing /\ gslot[k] = gslot[m] => k = m
  BY <1>1 DEF Identity, GrabberHolds, HeldFor, Grabbing
<1>6. QED
  BY <1>1, <1>2, <1>3, <1>4, <1>5

\* Nobody else has the buffer the result-save thread took, and after IsInspectDone
\* no algorithm thread is to write it.
LEMMA SaverAlone ==
  ASSUME TypeOK, Identity, spc \in Holding
  PROVE  /\ Taken \in 1 .. Len(accepted)
         /\ owner[sslot] = accepted[Taken]
         /\ \A i \in 1 .. Len(scanQ) : scanQ[i] # sslot
         /\ spc # "poll" =>
              /\ ~ToInspect(sslot)
              /\ \A k \in Modules : gpc[k] \in Grabbing => gslot[k] # sslot
<1>1. Taken \in 1 .. Len(accepted)
  BY EntryTypes, LenProperties DEF Identity, SaverHolds, Taken, TypeOK
<1>2. owner[sslot] = accepted[Taken]
  BY DEF Identity, SaverHolds, HeldFor
<1>3. \A i \in 1 .. Len(scanQ) : scanQ[i] # sslot
  <2>1. ASSUME NEW i \in 1 .. Len(scanQ), scanQ[i] = sslot
        PROVE  FALSE
    <3>1. accepted[Taken + i] = accepted[Taken]
      BY <1>2, <2>1 DEF Identity, EntriesHeld, HeldFor
    <3>2. Taken + i \in 1 .. Len(accepted) /\ Taken + i # Taken
      BY <1>1, EntryTypes DEF Identity
    <3>3. QED
      BY <1>1, <3>1, <3>2 DEF Identity, AcceptedOnce
  <2>2. QED
    BY <2>1
<1>4. ASSUME spc # "poll"
      PROVE  /\ ~ToInspect(sslot)
             /\ \A k \in Modules : gpc[k] \in Grabbing => gslot[k] # sslot
  <2>1. status[sslot] # INSPECTING /\ sslot \in Slots
    BY <1>4 DEF Identity, SaverHolds, TypeOK
  <2>2. ~ToInspect(sslot)
    BY <2>1 DEF Identity, ToInspectOnce
  <2>3. \A k \in Modules : gpc[k] = "qinsp" => gslot[k] # sslot
    BY <2>1 DEF Identity, GrabberHolds
  <2>4. QED
    BY <2>2, <2>3, GrabberAlone DEF Grabbing
<1>5. QED
  BY <1>1, <1>2, <1>3, <1>4

\* Nobody has a buffer that no module owns.
LEMMA UnownedAlone ==
  ASSUME TypeOK, Identity, NEW b \in Slots, owner[b] = None
  PROVE  /\ \A i \in 1 .. Len(scanQ) : scanQ[i] # b
         /\ spc \in Holding => sslot # b
         /\ ~ToInspect(b)
         /\ \A k \in Modules : gpc[k] \in Grabbing => gslot[k] # b
<1>1. \A i \in 1 .. Len(scanQ) : scanQ[i] # b
  BY EntryTypes DEF Identity, EntriesHeld, HeldFor
<1>2. spc \in Holding => sslot # b
  BY SaverAlone, EntryTypes DEF Identity
<1>3. ~ToInspect(b)
  BY EntryTypes DEF Identity, ToInspectOnce, Accepted
<1>4. \A k \in Modules : gpc[k] \in Grabbing => gslot[k] # b
  BY EntryTypes DEF Identity, GrabberHolds, HeldFor, Grabbing
<1>5. QED
  BY <1>1, <1>2, <1>3, <1>4

-----------------------------------------------------------------------------
(* Each step of each thread preserves Identity.                            *)

\* Steps that only move a grab thread past no buffer.
LEMMA GrabQuiet ==
  ASSUME TypeOK, Identity, NEW m \in Modules,
         \/ InspectionMove(m) \/ GrabDone(m) \/ GrabStopped(m)
         \/ GrabThrows(m) \/ GrabHold(m) \/ StartThread(m)
  PROVE  Identity'
<1> DEFINE quiet == <<gslot, bufferVars, queueVars, saveVars, ghostVars>>
<1>1. /\ UNCHANGED quiet
      /\ \A k \in Modules : gpc'[k] = gpc[k] \/ gpc'[k] \notin Grabbing
      /\ \A k \in Modules : gpc'[k] \in BeforeScan => gpc[k] \in BeforeScan
      /\ \A w \in Workers : wpc'[w] \in Inspecting => wpc[w] \in Inspecting
      /\ UNCHANGED wslot
  BY DEF InspectionMove, GrabDone, GrabStopped, GrabThrows, GrabHold,
         StartThread, workVars, TypeOK, Grabbing, BeforeScan, Inspecting
<1>2. AcceptedOnce' /\ GrabberHolds'
  BY <1>1 DEF Identity, AcceptedOnce, GrabberHolds, Accepted, HeldFor, Grabbing,
              BeforeScan, ghostVars, bufferVars
<1>3. EntriesHeld' /\ SaverHolds' /\ Reports'
  BY <1>1 DEF Identity, EntriesHeld, SaverHolds, Reports, HeldFor, Taken,
              Holding, Unreported, Accepted, ghostVars, bufferVars, queueVars,
              saveVars
<1>4. ToInspectOnce'
  BY <1>1 DEF Identity, ToInspectOnce, ToInspect, Accepted, Grabbing,
              Inspecting, ghostVars, bufferVars, queueVars
<1>5. QED
  BY <1>2, <1>3, <1>4 DEF Identity

\* PrepareAlgorithmBuffer takes a buffer that nobody has, or it is an overrun.
LEMMA ClaimBufferStep ==
  ASSUME TypeOK, Identity, ~overrun', NEW m \in Modules, ClaimBuffer(m)
  PROVE  Identity'
<1> USE DEF ClaimBuffer, queueVars, workVars, saveVars
<1>1. /\ NextSlot \in Slots
      /\ owner[NextSlot] = None
  BY SlotTypes DEF TypeOK
<1>2. /\ \A i \in 1 .. Len(scanQ) : scanQ[i] # NextSlot
      /\ spc \in Holding => sslot # NextSlot
      /\ ~ToInspect(NextSlot)
      /\ \A k \in Modules : gpc[k] \in Grabbing => gslot[k] # NextSlot
  BY <1>1, UnownedAlone
<1>3. AcceptedOnce'
  BY DEF Identity, AcceptedOnce, Accepted, BeforeScan, TypeOK
<1>4. GrabberHolds'
  <2>1. ASSUME NEW k \in Modules
        PROVE  /\ gpc'[k] = "fill" => owner'[gslot'[k]] = k
               /\ gpc'[k] \in {"mark", "qscan", "qinsp"} => HeldFor(gslot[k], k)'
               /\ gpc'[k] \in {"qscan", "qinsp"} => status'[gslot'[k]] = INSPECTING
    <3>1. CASE k = m
      BY <1>1, <3>1 DEF TypeOK
    <3>2. CASE k # m
      BY <1>1, <1>2, <3>2 DEF Identity, GrabberHolds, HeldFor, Grabbing, TypeOK
    <3>3. QED
      BY <3>1, <3>2
  <2>2. QED
    BY <2>1 DEF GrabberHolds, HeldFor
<1>5. EntriesHeld'
  BY <1>1, <1>2, EntryTypes DEF Identity, EntriesHeld, HeldFor, Taken, TypeOK
<1>6. SaverHolds'
  BY <1>1, <1>2 DEF Identity, SaverHolds, HeldFor, Taken, TypeOK
<1>7. Reports'
  BY DEF Identity, Reports, Taken, Unreported, Accepted
<1>8. ToInspectOnce'
  <2>1. \A b \in Slots : ToInspect(b)' <=> ToInspect(b)
    BY DEF ToInspect
  <2>2. \A b \in Slots : ToInspect(b)' => status'[b] = INSPECTING
                                          /\ Accepted(owner[b])'
    BY <1>1, <1>2, <2>1 DEF Identity, ToInspectOnce, Accepted, TypeOK
  <2>3. \A k \in Modules : gpc'[k] = "qinsp" => ~ToInspect(gslot[k])'
    BY <2>1 DEF Identity, ToInspectOnce, TypeOK
  <2>4. QED
    BY <2>2, <2>3 DEF Identity, ToInspectOnce
<1>9. QED
  BY <1>3, <1>4, <1>5, <1>6, <1>7, <1>8 DEF Identity

\* The fields are written to a buffer that nobody else reads.
LEMMA FillBufferStep ==
  ASSUME TypeOK, Identity, NEW m \in Modules, FillBuffer(m)
  PROVE  Identity'
<1> USE DEF FillBuffer, queueVars, workVars, saveVars, ghostVars
<1>1. /\ owner[gslot[m]] = m
      /\ \A i \in 1 .. Len(scanQ) : scanQ[i] # gslot[m]
      /\ spc \in Holding => sslot # gslot[m]
      /\ \A k \in Modules :
           gpc[k] \in Grabbing /\ gslot[k] = gslot[m] => k = m
  BY GrabberAlone
<1>2. AcceptedOnce' /\ Reports'
  BY DEF Identity, AcceptedOnce, Reports, Accepted, BeforeScan, Taken,
         Unreported, TypeOK
<1>3. GrabberHolds'
  BY <1>1 DEF Identity, GrabberHolds, HeldFor, Grabbing, TypeOK
<1>4. EntriesHeld'
  BY <1>1, EntryTypes DEF Identity, EntriesHeld, HeldFor, Taken, TypeOK
<1>5. SaverHolds'
  BY <1>1 DEF Identity, SaverHolds, HeldFor, Taken, TypeOK
<1>6. ToInspectOnce'
  BY DEF Identity, ToInspectOnce, ToInspect, Accepted, TypeOK
<1>7. QED
  BY <1>2, <1>3, <1>4, <1>5, <1>6 DEF Identity

\* The buffer of a copy that threw is given back; nobody else had it.
LEMMA CopyThrowsStep ==
  ASSUME TypeOK, Identity, NEW m \in Modules, CopyThrows(m)
  PROVE  Identity'
<1> USE DEF CopyThrows, queueVars, workVars, saveVars
<1>1. /\ \A i \in 1 .. Len(scanQ) : scanQ[i] # gslot[m]
      /\ spc \in Holding => sslot # gslot[m]
      /\ ~ToInspect(gslot[m])
      /\ \A k \in Modules :
           gpc[k] \in Grabbing /\ gslot[k] = gslot[m] => k = m
  BY GrabberAlone
<1>2. AcceptedOnce' /\ Reports'
  BY DEF Identity, AcceptedOnce, Reports, Accepted, BeforeScan, Taken,
         Unreported, TypeOK
<1>3. GrabberHolds'
  BY <1>1 DEF Identity, GrabberHolds, HeldFor, Grabbing, TypeOK
<1>4. EntriesHeld'
  BY <1>1, EntryTypes DEF Identity, EntriesHeld, HeldFor, Taken, TypeOK
<1>5. SaverHolds'
  BY <1>1 DEF Identity, SaverHolds, HeldFor, Taken, TypeOK
<1>6. ToInspectOnce'
  <2>1. \A b \in Slots : ToInspect(b)' <=> ToInspect(b)
    BY DEF ToInspect
  <2>2. \A b \in Slots : ToInspect(b)' => status'[b] = INSPECTING
                                          /\ Accepted(owner[b])'
    BY <1>1, <2>1 DEF Identity, ToInspectOnce, Accepted, TypeOK
  <2>3. \A k \in Modules : gpc'[k] = "qinsp" => ~ToInspect(gslot[k])'
    BY <2>1 DEF Identity, ToInspectOnce, TypeOK
  <2>4. QED
    BY <2>2, <2>3 DEF Identity, ToInspectOnce
<1>7. QED
  BY <1>2, <1>3, <1>4, <1>5, <1>6 DEF Identity

\* The status is set before any queue holds the buffer.
LEMMA MarkInspectingStep ==
  ASSUME TypeOK, Identity, NEW m \in Modules, MarkInspecting(m)
  PROVE  Identity'
<1> USE DEF MarkInspecting, queueVars, workVars, saveVars, ghostVars
<1>1. spc \in Holding => sslot # gslot[m]
  BY GrabberAlone
<1>2. AcceptedOnce' /\ EntriesHeld' /\ Reports'
  BY DEF Identity, AcceptedOnce, EntriesHeld, Reports, Accepted, BeforeScan,
         HeldFor, Taken, Unreported, TypeOK
<1>3. GrabberHolds'
  BY DEF Identity, GrabberHolds, HeldFor, TypeOK
<1>4. SaverHolds'
  BY <1>1 DEF Identity, SaverHolds, HeldFor, Taken, Holding, TypeOK
<1>5. ToInspectOnce'
  BY DEF Identity, ToInspectOnce, ToInspect, Accepted, TypeOK
<1>6. QED
  BY <1>2, <1>3, <1>4, <1>5 DEF Identity

\* The new entry of the scan queue is the module accepted last.
LEMMA AddScanStep ==
  ASSUME TypeOK, Identity, NEW m \in Modules, AddScan(m)
  PROVE  Identity'
<1> USE DEF AddScan, bufferVars, workVars, saveVars
<1>1. /\ owner[gslot[m]] = m
      /\ ~ToInspect(gslot[m])
  BY GrabberAlone
<1>2. /\ Len(scanQ') = Len(scanQ) + 1
      /\ \A i \in 1 .. Len(scanQ) : scanQ'[i] = scanQ[i]
      /\ scanQ'[Len(scanQ) + 1] = gslot[m]
  BY AppendProperties DEF TypeOK
<1>3. /\ Len(accepted') = Len(accepted) + 1
      /\ \A i \in 1 .. Len(accepted) : accepted'[i] = accepted[i]
      /\ accepted'[Len(accepted) + 1] = m
  BY AppendProperties DEF TypeOK
<1>4. /\ Len(scanQ) \in Nat /\ Len(accepted) \in Nat
      /\ Taken' = Taken /\ Taken \in Nat
  BY <1>2, <1>3, EntryTypes, LenProperties DEF Identity, Taken, TypeOK
<1>5. \A k \in Modules : Accepted(k)' <=> Accepted(k) \/ k = m
  BY <1>3, <1>4 DEF Accepted
<1>6. ~Accepted(m)
  BY DEF Identity, AcceptedOnce, BeforeScan
<1>7. AcceptedOnce'
  <2>1. \A i, j \in 1 .. Len(accepted') : accepted'[i] = accepted'[j] => i = j
    BY <1>3, <1>4, <1>6 DEF Identity, AcceptedOnce, Accepted
  <2>2. QED
    BY <1>5, <2>1 DEF Identity, AcceptedOnce, BeforeScan, TypeOK
<1>8. GrabberHolds'
  BY DEF Identity, GrabberHolds, HeldFor, TypeOK
<1>9. EntriesHeld'
  <2>1. HeldFor(gslot[m], m)'
    BY DEF Identity, GrabberHolds, HeldFor
  <2>2. ASSUME NEW i \in 1 .. Len(scanQ')
        PROVE  HeldFor(scanQ[i], accepted[Taken + i])'
    <3>1. CASE i = Len(scanQ) + 1
      <4>1. Taken' + i = Len(accepted) + 1
        BY <1>4, <3>1 DEF Taken
      <4>2. QED
        BY <1>2, <1>3, <2>1, <3>1, <4>1 DEF HeldFor
    <3>2. CASE i # Len(scanQ) + 1
      <4>1. i \in 1 .. Len(scanQ)
        BY <1>2, <1>4, <3>2
      <4>2. Taken + i \in 1 .. Len(accepted)
        BY <4>1, EntryTypes DEF Identity
      <4>3. QED
        BY <1>2, <1>3, <1>4, <4>1, <4>2 DEF Identity, EntriesHeld, HeldFor
    <3>3. QED
      BY <3>1, <3>2
  <2>3. Len(scanQ') <= Len(accepted')
    BY <1>2, <1>3, <1>4 DEF Identity, EntriesHeld
  <2>4. QED
    BY <2>2, <2>3 DEF EntriesHeld
<1>10. SaverHolds'
  <2>1. spc \in Holding => Taken \in 1 .. Len(accepted)
    BY SaverAlone
  <2>2. QED
    BY <1>2, <1>3, <1>4, <2>1 DEF Identity, SaverHolds, HeldFor
<1>11. Reports'
  <2>1. reported[m] = <<>>
    BY <1>6 DEF Identity, Reports
  <2>2. ASSUME NEW i \in 1 .. Len(accepted')
        PROVE  \/ i \in 1 .. Len(accepted) /\ accepted'[i] = accepted[i]
               \/ i > Taken /\ accepted'[i] = m
    BY <1>3, <1>4 DEF Taken
  <2>3. \A k \in Modules : reported'[k] # <<>> => Accepted(k)'
    BY <1>5 DEF Identity, Reports
  <2>4. QED
    BY <1>4, <2>1, <2>2, <2>3 DEF Identity, Reports, Unreported
<1>12. ToInspectOnce'
  <2>1. \A b \in Slots : ToInspect(b)' <=> ToInspect(b)
    BY DEF ToInspect
  <2>2. \A b \in Slots : ToInspect(b)' => status'[b] = INSPECTING
                                          /\ Accepted(owner[b])'
    BY <1>3, <1>4, <2>1 DEF Identity, ToInspectOnce, Accepted
  <2>3. \A k \in Modules : gpc'[k] = "qinsp" => ~ToInspect(gslot[k])'
    BY <1>1, <2>1 DEF Identity, ToInspectOnce, TypeOK
  <2>4. QED
    BY <2>2, <2>3 DEF Identity, ToInspectOnce
<1>13. QED
  BY <1>7, <1>8, <1>9, <1>10, <1>11, <1>12 DEF Identity

\* The index enters the inspect queue while it is nowhere else.
LEMMA AddInspectStep ==
  ASSUME TypeOK, Identity, NEW m \in Modules, AddInspect(m)
  PROVE  Identity'
<1> USE DEF AddInspect, bufferVars, workVars, saveVars, ghostVars
<1>1. /\ Len(inspQ') = Len(inspQ) + 1
      /\ \A i \in 1 .. Len(inspQ) : inspQ'[i] = inspQ[i]
      /\ inspQ'[Len(inspQ) + 1] = gslot[m]
      /\ Len(inspQ) \in Nat
  BY AppendProperties, LenProperties DEF TypeOK
<1>2. AcceptedOnce' /\ GrabberHolds'
  BY DEF Identity, AcceptedOnce, GrabberHolds, HeldFor, Accepted, BeforeScan,
         TypeOK
<1>3. EntriesHeld' /\ SaverHolds' /\ Reports'
  BY DEF Identity, EntriesHeld, SaverHolds, Reports, HeldFor, Taken, Holding,
         Unreported, Accepted
<1>4. ToInspectOnce'
  <2>1. /\ ~ToInspect(gslot[m])
        /\ status[gslot[m]] = INSPECTING
        /\ owner[gslot[m]] = m
        /\ Accepted(m)
    BY DEF Identity, ToInspectOnce, GrabberHolds, HeldFor, AcceptedOnce
  <2>2. \A b \in Slots : ToInspect(b)' <=> ToInspect(b) \/ b = gslot[m]
    BY <1>1 DEF ToInspect, TypeOK
  <2>3. \A b \in Slots : ToInspect(b)' => status'[b] = INSPECTING
                                          /\ Accepted(owner[b])'
    BY <2>1, <2>2 DEF Identity, ToInspectOnce, Accepted
  <2>4. ASSUME NEW k \in Modules, gpc'[k] = "qinsp"
        PROVE  ~ToInspect(gslot[k])'
    <3>1. k # m /\ gpc[k] = "qinsp" /\ gslot'[k] = gslot[k]
      BY <2>4 DEF TypeOK
    <3>2. owner[gslot[k]] = k /\ ~ToInspect(gslot[k]) /\ gslot[k] \in Slots
      BY <3>1 DEF Identity, GrabberHolds, HeldFor, ToInspectOnce, TypeOK
    <3>3. ~ToInspect(gslot[k]) /\ gslot[k] # gslot[m]
      BY <2>1, <3>1, <3>2
    <3>4. QED
      BY <2>2, <3>1, <3>2, <3>3 DEF ToInspect
  <2>5. \A i \in 1 .. Len(inspQ) : inspQ[i] # gslot[m]
    BY <2>1 DEF ToInspect
  <2>6. \A i, j \in 1 .. Len(inspQ') : inspQ'[i] = inspQ'[j] => i = j
    BY <1>1, <2>5 DEF Identity, ToInspectOnce
  <2>7. \A w \in Workers : wpc'[w] \in Inspecting =>
          \A i \in 1 .. Len(inspQ') : inspQ'[i] # wslot'[w]
    BY <1>1, <2>1 DEF Identity, ToInspectOnce, ToInspect, Inspecting
  <2>8. QED
    BY <2>3, <2>4, <2>6, <2>7 DEF Identity, ToInspectOnce
<1>5. QED
  BY <1>2, <1>3, <1>4 DEF Identity

\* Steps of an algorithm thread that touch no index of a buffer.
LEMMA AlgorithmQuiet ==
  ASSUME TypeOK, SaverFlag, Identity, NEW w \in Workers,
         \/ ThreadBegin(w) \/ CheckQueue(w) \/ Inspect(w)
         \/ InspectThrows(w) \/ WakeSaver(w) \/ ThreadEnd(w)
  PROVE  Identity'
<1>1. /\ UNCHANGED <<grabVars, scanIdx, moduleNo, status, queueVars, wslot>>
      /\ UNCHANGED <<sslot, smodule, reported, ghostVars>>
      /\ \A v \in Workers : wpc'[v] \in Inspecting => wpc[v] \in Inspecting
  BY DEF ThreadBegin, CheckQueue, Inspect, InspectThrows, WakeSaver, ThreadEnd,
         bufferVars, saveVars, TypeOK, Inspecting
<1>2. spc' = spc \/ (spc' = "begin" /\ spc \notin Holding)
  BY DEF ThreadBegin, CheckQueue, Inspect, InspectThrows, WakeSaver, ThreadEnd,
         saveVars, SaverFlag, Holding
<1>3. AcceptedOnce' /\ GrabberHolds' /\ EntriesHeld'
  BY <1>1 DEF Identity, AcceptedOnce, GrabberHolds, EntriesHeld, HeldFor,
              Accepted, Taken, grabVars, queueVars, ghostVars
<1>4. SaverHolds' /\ Reports'
  BY <1>1, <1>2 DEF Identity, SaverHolds, Reports, HeldFor, Holding, Taken,
                    Unreported, Accepted, queueVars, ghostVars
<1>5. ToInspectOnce'
  BY <1>1 DEF Identity, ToInspectOnce, ToInspect, Accepted, Inspecting,
              grabVars, queueVars, ghostVars
<1>6. QED
  BY <1>3, <1>4, <1>5 DEF Identity

\* The index moves from the inspect queue to one algorithm thread.
LEMMA PopInspectStep ==
  ASSUME TypeOK, Identity, NEW w \in Workers, PopInspect(w)
  PROVE  Identity'
<1> USE DEF PopInspect, grabVars, bufferVars, saveVars, ghostVars
<1>1. AcceptedOnce' /\ GrabberHolds'
  BY DEF Identity, AcceptedOnce, GrabberHolds, HeldFor, Accepted
<1>2. EntriesHeld' /\ SaverHolds' /\ Reports'
  BY DEF Identity, EntriesHeld, SaverHolds, Reports, HeldFor, Taken, Holding,
         Unreported, Accepted
<1>3. ToInspectOnce'
  <2>1. CASE inspQ = <<>>
    <3>1. /\ UNCHANGED <<inspQ, wslot>>
          /\ \A v \in Workers : wpc'[v] \in Inspecting => wpc[v] \in Inspecting
      BY <2>1 DEF Inspecting, TypeOK
    <3>2. QED
      BY <3>1 DEF Identity, ToInspectOnce, ToInspect, Accepted, Inspecting
  <2>2. CASE inspQ # <<>>
    <3>0. wslot'[w] = inspQ[1] /\ wpc[w] = "pop"
      BY <2>2 DEF TypeOK
    <3>1. /\ Len(inspQ) \in Nat \ {0}
          /\ Len(inspQ') = Len(inspQ) - 1
          /\ \A i \in 1 .. Len(inspQ') : inspQ'[i] = inspQ[i + 1]
      BY <2>2, HeadTailProperties, EmptySeq DEF TypeOK
    <3>2. \A v \in Workers : v # w =>
            wpc'[v] = wpc[v] /\ wslot'[v] = wslot[v]
      BY <2>2 DEF TypeOK
    <3>3. \A b \in Slots : ToInspect(b)' => ToInspect(b)
      BY <3>0, <3>1, <3>2 DEF ToInspect
    <3>4. /\ \A b \in Slots : ToInspect(b)' => status'[b] = INSPECTING
                                               /\ Accepted(owner[b])'
          /\ \A m \in Modules : gpc'[m] = "qinsp" => ~ToInspect(gslot[m])'
      BY <2>2, <3>3 DEF Identity, ToInspectOnce, Accepted, TypeOK
    <3>5. \A i, j \in 1 .. Len(inspQ') : inspQ'[i] = inspQ'[j] => i = j
      <4>1. \A i \in 1 .. Len(inspQ') : i + 1 \in 1 .. Len(inspQ)
        BY <3>1
      <4>2. QED
        BY <3>1, <4>1 DEF Identity, ToInspectOnce
    <3>6. ASSUME NEW v \in Workers, wpc'[v] \in Inspecting,
                 NEW i \in 1 .. Len(inspQ')
          PROVE  inspQ'[i] # wslot'[v]
      <4>1. CASE v = w
        BY <3>0, <3>1, <4>1 DEF Identity, ToInspectOnce
      <4>2. CASE v # w
        BY <3>1, <3>2, <3>6, <4>2 DEF Identity, ToInspectOnce
      <4>3. QED
        BY <4>1, <4>2
    <3>7. ASSUME NEW u \in Workers, NEW v \in Workers,
                 wpc'[u] \in Inspecting, wpc'[v] \in Inspecting,
                 wslot'[u] = wslot'[v]
          PROVE  u = v
      BY <3>0, <3>1, <3>2, <3>7 DEF Identity, ToInspectOnce
    <3>8. QED
      BY <3>4, <3>5, <3>6, <3>7 DEF ToInspectOnce
  <2>3. QED
    BY <2>1, <2>2
<1>4. QED
  BY <1>1, <1>2, <1>3 DEF Identity

\* The algorithm thread lets go of the buffer when it is POSTPROCESSING.
LEMMA PostResultStep ==
  ASSUME TypeOK, Identity, NEW w \in Workers, PostResult(w)
  PROVE  Identity'
<1> USE DEF PostResult, grabVars, queueVars, saveVars, ghostVars
<1>1. wslot[w] \in Slots /\ ToInspect(wslot[w])
  BY DEF ToInspect, TypeOK
<1>2. AcceptedOnce' /\ EntriesHeld' /\ Reports'
  BY DEF Identity, AcceptedOnce, EntriesHeld, Reports, Accepted, HeldFor,
         Taken, Unreported
<1>3. GrabberHolds'
  <2>1. \A m \in Modules : gpc[m] \in {"qscan", "qinsp"} => gslot[m] # wslot[w]
    BY <1>1, GrabberAlone DEF Identity, ToInspectOnce
  <2>2. QED
    BY <2>1 DEF Identity, GrabberHolds, HeldFor, TypeOK
<1>4. SaverHolds'
  BY DEF Identity, SaverHolds, HeldFor, Taken, Holding, INSPECTING,
         POSTPROCESSING, TypeOK
<1>5. ToInspectOnce'
  <2>1. \A v \in Workers : wpc'[v] \in Inspecting =>
          v # w /\ wpc[v] \in Inspecting /\ wslot'[v] = wslot[v]
    BY DEF Inspecting, TypeOK
  <2>2. \A b \in Slots : ToInspect(b)' => ToInspect(b) /\ b # wslot[w]
    BY <2>1 DEF Identity, ToInspectOnce, ToInspect, Inspecting
  <2>3. /\ \A b \in Slots : ToInspect(b)' => status'[b] = INSPECTING
                                             /\ Accepted(owner[b])'
        /\ \A m \in Modules : gpc'[m] = "qinsp" => ~ToInspect(gslot[m])'
    BY <2>2 DEF Identity, ToInspectOnce, Accepted, TypeOK
  <2>4. QED
    BY <2>1, <2>3 DEF Identity, ToInspectOnce
<1>6. QED
  BY <1>2, <1>3, <1>4, <1>5 DEF Identity

\* Steps of the result-save thread that leave its buffer and its reports alone.
LEMMA SaverQuiet ==
  ASSUME TypeOK, Identity,
         SaverBegin \/ JudgeThrows \/ AlarmThrows \/ SaverEnd
  PROVE  Identity'
<1>1. /\ UNCHANGED <<grabVars, bufferVars, queueVars, workVars, ghostVars>>
      /\ UNCHANGED <<sslot, reported>>
      /\ \/ spc \notin Holding /\ spc' \notin Holding
         \/ spc \in {"judge", "alarm"} /\ spc' = "catch"
  BY DEF SaverBegin, JudgeThrows, AlarmThrows, SaverEnd, Holding
<1>2. AcceptedOnce' /\ GrabberHolds' /\ EntriesHeld'
  BY <1>1 DEF Identity, AcceptedOnce, GrabberHolds, EntriesHeld, HeldFor,
              Accepted, Taken, grabVars, bufferVars, queueVars, ghostVars
<1>3. SaverHolds' /\ Reports'
  BY <1>1 DEF Identity, SaverHolds, Reports, HeldFor, Holding, Taken,
              Unreported, Accepted, bufferVars, queueVars, ghostVars
<1>4. ToInspectOnce'
  BY <1>1 DEF Identity, ToInspectOnce, ToInspect, Accepted, grabVars,
              bufferVars, queueVars, workVars, ghostVars
<1>5. QED
  BY <1>2, <1>3, <1>4 DEF Identity

\* The entry moves from the scan queue to the result-save thread.
LEMMA TakeScanStep ==
  ASSUME TypeOK, Identity, TakeScan
  PROVE  Identity'
<1> USE DEF TakeScan, grabVars, bufferVars, workVars, ghostVars
<1>1. CASE scanQ = <<>>
  <2>1. UNCHANGED <<sslot, smodule, reported, scanQ, inspQ>> /\ spc' = "leave"
    BY <1>1
  <2>2. AcceptedOnce' /\ GrabberHolds' /\ EntriesHeld'
    BY <2>1 DEF Identity, AcceptedOnce, GrabberHolds, EntriesHeld, HeldFor,
                Accepted, Taken
  <2>3. SaverHolds' /\ Reports'
    BY <2>1 DEF Identity, SaverHolds, Reports, Holding, Taken, Unreported,
                Accepted
  <2>4. ToInspectOnce'
    BY <2>1 DEF Identity, ToInspectOnce, ToInspect, Accepted
  <2>5. QED
    BY <2>2, <2>3, <2>4 DEF Identity
<1>2. CASE scanQ # <<>>
  <2>1. /\ Len(scanQ) \in Nat \ {0}
        /\ Len(accepted) \in Nat
        /\ Len(scanQ') = Len(scanQ) - 1
        /\ \A i \in 1 .. Len(scanQ') : scanQ'[i] = scanQ[i + 1]
    BY <1>2, HeadTailProperties, EmptySeq, LenProperties DEF TypeOK
  <2>2. sslot' = scanQ[1] /\ spc' = "poll"
    BY <1>2 DEF TypeOK
  <2>3. Taken' = Taken + 1 /\ Len(scanQ) <= Len(accepted)
    BY <2>1 DEF Taken, Identity, EntriesHeld
  <2>4. AcceptedOnce' /\ GrabberHolds'
    BY DEF Identity, AcceptedOnce, GrabberHolds, HeldFor, Accepted
  <2>5. EntriesHeld'
    <3>1. ASSUME NEW i \in 1 .. Len(scanQ')
          PROVE  HeldFor(scanQ[i], accepted[Taken + i])'
      <4>1. i + 1 \in 1 .. Len(scanQ) /\ Taken' + i = Taken + (i + 1)
        BY <2>1, <2>3 DEF Taken
      <4>2. HeldFor(scanQ[i + 1], accepted[Taken + (i + 1)])
        BY <4>1 DEF Identity, EntriesHeld
      <4>3. QED
        BY <2>1, <4>1, <4>2 DEF HeldFor
    <3>2. Len(scanQ') <= Len(accepted')
      BY <2>1, <2>3
    <3>3. QED
      BY <3>1, <3>2 DEF EntriesHeld
  <2>6. SaverHolds'
    <3>1. HeldFor(scanQ[1], accepted[Taken + 1])
      BY <2>1 DEF Identity, EntriesHeld
    <3>2. HeldFor(sslot, accepted[Taken])'
      BY <2>2, <2>3, <3>1 DEF HeldFor
    <3>3. Len(scanQ') < Len(accepted')
      BY <2>1, <2>3
    <3>4. QED
      BY <2>2, <3>2, <3>3 DEF SaverHolds
  <2>7. Reports'
    <3>1. \A i \in 1 .. Len(accepted) :
            /\ i <= Taken => reported[accepted[i]] # <<>>
            /\ i > Taken => reported[accepted[i]] = <<>>
      BY <2>1 DEF Identity, Reports, Unreported, Taken
    <3>2. \A k \in Modules : reported'[k] # <<>> => Accepted(k)'
      BY DEF Identity, Reports, Accepted
    <3>3. accepted' = accepted /\ reported' = reported /\ Taken \in Int
      BY <2>1 DEF Taken
    <3>4. QED
      BY <2>1, <2>2, <2>3, <3>1, <3>2, <3>3 DEF Reports, Unreported
  <2>8. ToInspectOnce'
    BY DEF Identity, ToInspectOnce, ToInspect, Accepted
  <2>9. QED
    BY <2>4, <2>5, <2>6, <2>7, <2>8 DEF Identity
<1>3. QED
  BY <1>1, <1>2

\* The identity read from the buffer is that of the module taken last.
LEMMA InspectDoneStep ==
  ASSUME TypeOK, Identity, InspectDone
  PROVE  Identity'
<1> USE DEF InspectDone, grabVars, bufferVars, queueVars, workVars, ghostVars
<1>1. AcceptedOnce' /\ GrabberHolds' /\ EntriesHeld'
  BY DEF Identity, AcceptedOnce, GrabberHolds, EntriesHeld, HeldFor, Accepted,
         Taken
<1>2. SaverHolds' /\ Reports'
  BY DEF Identity, SaverHolds, Reports, HeldFor, Holding, Taken, Unreported,
         Accepted, INSPECTING, POSTPROCESSING
<1>3. ToInspectOnce'
  BY DEF Identity, ToInspectOnce, ToInspect, Accepted
<1>4. QED
  BY <1>1, <1>2, <1>3 DEF Identity

\* Judge and CatchRelease make the buffer AVAILABLE.
LEMMA ReleaseStep ==
  ASSUME TypeOK, Identity, Judge \/ CatchRelease
  PROVE  Identity'
<1> USE DEF Judge, CatchRelease, grabVars, queueVars, workVars, ghostVars
<1>1. /\ ~ToInspect(sslot)
      /\ \A k \in Modules : gpc[k] \in Grabbing => gslot[k] # sslot
  BY SaverAlone DEF Holding
<1>2. AcceptedOnce' /\ EntriesHeld' /\ Reports'
  BY DEF Identity, AcceptedOnce, EntriesHeld, Reports, HeldFor, Accepted,
         Taken, Unreported
<1>3. GrabberHolds'
  BY <1>1 DEF Identity, GrabberHolds, HeldFor, Grabbing, TypeOK
<1>4. SaverHolds'
  BY DEF Identity, SaverHolds, HeldFor, Holding, Taken, INSPECTING, AVAILABLE,
         TypeOK
<1>5. ToInspectOnce'
  <2>1. \A b \in Slots : ToInspect(b)' <=> ToInspect(b)
    BY DEF ToInspect
  <2>2. \A b \in Slots : ToInspect(b)' => status'[b] = INSPECTING
                                          /\ Accepted(owner[b])'
    BY <1>1, <2>1 DEF Identity, ToInspectOnce, Accepted, TypeOK
  <2>3. \A k \in Modules : gpc'[k] = "qinsp" => ~ToInspect(gslot[k])'
    BY <2>1 DEF Identity, ToInspectOnce, TypeOK
  <2>4. QED
    BY <2>2, <2>3 DEF Identity, ToInspectOnce
<1>6. QED
  BY <1>2, <1>3, <1>4, <1>5 DEF Identity

\* The report is the first one of the module taken last.
LEMMA InspectCompleteStep ==
  ASSUME TypeOK, Identity, InspectComplete
  PROVE  Identity'
<1> USE DEF InspectComplete, grabVars, bufferVars, queueVars, workVars,
            ghostVars
<1>1. AcceptedOnce' /\ GrabberHolds' /\ EntriesHeld'
  BY DEF Identity, AcceptedOnce, GrabberHolds, EntriesHeld, HeldFor, Accepted,
         Taken
<1>2. SaverHolds'
  BY DEF Identity, SaverHolds, HeldFor, Holding, Taken
<1>3. Reports'
  <2>1. Taken \in 1 .. Len(accepted) /\ smodule = accepted[Taken]
    BY SaverAlone DEF Identity, SaverHolds, Holding
  <2>2. /\ smodule \in Modules
        /\ reported'[smodule] # <<>>
        /\ \A k \in Modules : k # smodule => reported'[k] = reported[k]
    <3>1. smodule \in Modules
      BY <2>1, EntryTypes DEF Identity
    <3>2. Append(reported[smodule], Sent(smodule, verdict)) # <<>>
      <4>1. reported[smodule] \in Seq(Verdicts) /\ verdict \in Verdicts
        BY <3>1 DEF TypeOK
      <4>2. QED
        BY <4>1, ReportAdded
    <3>3. QED
      BY <3>1, <3>2 DEF TypeOK
  <2>3. \A i \in 1 .. Len(accepted) :
          i # Taken => reported'[accepted[i]] = reported[accepted[i]]
    BY <2>1, <2>2, EntryTypes DEF Identity, AcceptedOnce
  <2>4. \A i \in 1 .. Len(accepted) :
          /\ i < Taken => reported'[accepted[i]] # <<>>
          /\ i > Taken => reported'[accepted[i]] = <<>>
          /\ i = Taken => reported'[accepted[i]] # <<>>
    BY <2>1, <2>2, <2>3 DEF Identity, Reports, Taken
  <2>5. \A k \in Modules : reported'[k] # <<>> => Accepted(k)'
    BY <2>1, <2>2 DEF Identity, Reports, Accepted
  <2>6. Taken' = Taken /\ accepted' = accepted /\ spc' = "alarm"
    BY DEF Taken
  <2>7. QED
    BY <2>4, <2>5, <2>6 DEF Reports, Unreported
<1>4. ToInspectOnce'
  BY DEF Identity, ToInspectOnce, ToInspect, Accepted
<1>5. QED
  BY <1>1, <1>2, <1>3, <1>4 DEF Identity

\* SaveTail and CatchReport let go of the buffer.
LEMMA LetGo ==
  ASSUME TypeOK, Identity, SaveTail \/ CatchReport
  PROVE  AcceptedOnce' /\ GrabberHolds' /\ EntriesHeld' /\ SaverHolds'
         /\ ToInspectOnce'
<1> USE DEF SaveTail, CatchReport, grabVars, bufferVars, queueVars, workVars
<1>1. /\ ~ToInspect(sslot)
      /\ \A k \in Modules : gpc[k] \in Grabbing => gslot[k] # sslot
      /\ \A i \in 1 .. Len(scanQ) : scanQ[i] # sslot
  BY SaverAlone DEF Holding
<1>2. AcceptedOnce'
  BY DEF Identity, AcceptedOnce, Accepted
<1>3. GrabberHolds'
  BY <1>1 DEF Identity, GrabberHolds, HeldFor, Grabbing, TypeOK
<1>4. EntriesHeld'
  <2>1. /\ owner' = [owner EXCEPT ![sslot] = None]
        /\ UNCHANGED <<moduleNo, scanQ, accepted>>
    OBVIOUS
  <2>2. QED
    BY <1>1, <2>1, EntryTypes DEF Identity, EntriesHeld, HeldFor, Taken, TypeOK
<1>5. SaverHolds'
  BY DEF SaverHolds, Holding
<1>6. ToInspectOnce'
  <2>1. \A b \in Slots : ToInspect(b)' <=> ToInspect(b)
    BY DEF ToInspect
  <2>2. \A b \in Slots : ToInspect(b)' => status'[b] = INSPECTING
                                          /\ Accepted(owner[b])'
    BY <1>1, <2>1 DEF Identity, ToInspectOnce, Accepted, TypeOK
  <2>3. \A k \in Modules : gpc'[k] = "qinsp" => ~ToInspect(gslot[k])'
    BY <2>1 DEF Identity, ToInspectOnce, TypeOK
  <2>4. QED
    BY <2>2, <2>3 DEF Identity, ToInspectOnce
<1>7. QED
  BY <1>2, <1>3, <1>4, <1>5, <1>6

\* The result-save thread is through with the module it reported.
LEMMA SaveTailStep ==
  ASSUME TypeOK, Identity, SaveTail
  PROVE  Identity'
<1>1. Reports'
  BY DEF SaveTail, grabVars, bufferVars, queueVars, workVars, Identity, Reports,
         Taken, Unreported, Accepted
<1>2. QED
  BY <1>1, LetGo DEF Identity

\* The catch block reports the module it reads from the released buffer.
LEMMA CatchReportStep ==
  ASSUME TypeOK, Identity, CatchReport
  PROVE  Identity'
<1> USE DEF CatchReport, grabVars, bufferVars, queueVars, workVars
<1>1. Taken \in 1 .. Len(accepted) /\ moduleNo[sslot] = accepted[Taken]
  BY SaverAlone DEF Identity, SaverHolds, HeldFor, Holding
<1>2. /\ accepted[Taken] \in Modules
      /\ reported'[accepted[Taken]] # <<>>
      /\ \A k \in Modules : k # accepted[Taken] => reported'[k] = reported[k]
  <2>1. accepted[Taken] \in Modules
    BY <1>1, EntryTypes DEF Identity
  <2>2. Append(reported[accepted[Taken]], Sent(accepted[Taken], "MC")) # <<>>
    <3>1. reported[accepted[Taken]] \in Seq(Verdicts) /\ "MC" \in Verdicts
      BY <2>1 DEF TypeOK, Verdicts
    <3>2. QED
      BY <3>1, ReportAdded
  <2>3. QED
    BY <1>1, <2>1, <2>2 DEF TypeOK
<1>3. \A i \in 1 .. Len(accepted) :
        i # Taken => reported'[accepted[i]] = reported[accepted[i]]
  BY <1>1, <1>2, EntryTypes DEF Identity, AcceptedOnce
<1>4. \A i \in 1 .. Len(accepted) :
        /\ i < Taken => reported'[accepted[i]] # <<>>
        /\ i > Taken => reported'[accepted[i]] = <<>>
        /\ i = Taken => reported'[accepted[i]] # <<>>
  BY <1>1, <1>2, <1>3 DEF Identity, Reports, Taken
<1>5. \A k \in Modules : reported'[k] # <<>> => Accepted(k)'
  BY <1>1, <1>2 DEF Identity, Reports, Accepted
<1>6. Taken' = Taken /\ accepted' = accepted /\ spc' = "leave"
  BY DEF Taken
<1>7. Reports'
  BY <1>4, <1>5, <1>6 DEF Reports, Unreported
<1>8. QED
  BY <1>7, LetGo DEF Identity

\* Nothing clears the history variable overrun.
LEMMA OverrunStays ==
  ASSUME [Next]_vars, overrun
  PROVE  overrun'
<1>1. ASSUME NEW m \in Modules, InspectionMove(m) \/ GrabThread(m)
      PROVE  overrun'
  BY <1>1 DEF InspectionMove, GrabThread, GrabDone, GrabStopped, GrabThrows,
              GrabHold, ClaimBuffer, FillBuffer, CopyThrows, MarkInspecting,
              AddScan, AddInspect, StartThread, ghostVars
<1>2. ASSUME NEW w \in Workers, AlgorithmThread(w)
      PROVE  UNCHANGED ghostVars
  BY <1>2 DEF AlgorithmThread, ThreadBegin, CheckQueue, PopInspect, Inspect,
              InspectThrows, PostResult, WakeSaver, ThreadEnd
<1>3. CASE ResultSaveThread
  BY <1>3 DEF ResultSaveThread, SaverBegin, TakeScan, InspectDone, Judge,
              JudgeThrows, InspectComplete, SaveTail, AlarmThrows,
              CatchRelease, CatchReport, SaverEnd, ghostVars
<1>4. UNCHANGED vars => UNCHANGED ghostVars
  BY DEF vars
<1>5. QED
  BY <1>1, <1>2, <1>3, <1>4 DEF Next, ghostVars

\* No step of any thread breaks the invariant.
LEMMA IdentityNext == IInv /\ [Next]_vars => IInv'
<1> SUFFICES ASSUME IInv, [Next]_vars
             PROVE  IInv'
  OBVIOUS
<1>1. TypeOK' /\ SaverFlag'
  BY TypeNext, SaverFlagNext DEF IInv
<1>2. ASSUME ~overrun', Next
      PROVE  Identity'
  <2>1. ~overrun
    BY <1>2, OverrunStays
  <2>2. TypeOK /\ SaverFlag /\ Identity
    BY <2>1 DEF IInv
  <2>3. ASSUME NEW m \in Modules, InspectionMove(m) \/ GrabThread(m)
        PROVE  Identity'
    BY <1>2, <2>2, <2>3, GrabQuiet, ClaimBufferStep, FillBufferStep,
       CopyThrowsStep, MarkInspectingStep, AddScanStep, AddInspectStep
       DEF GrabThread
  <2>4. ASSUME NEW w \in Workers, AlgorithmThread(w)
        PROVE  Identity'
    BY <2>2, <2>4, AlgorithmQuiet, PopInspectStep, PostResultStep
       DEF AlgorithmThread
  <2>5. CASE ResultSaveThread
    BY <2>2, <2>5, SaverQuiet, TakeScanStep, InspectDoneStep, ReleaseStep,
       InspectCompleteStep, SaveTailStep, CatchReportStep
       DEF ResultSaveThread
  <2>6. QED
    BY <1>2, <2>3, <2>4, <2>5 DEF Next
<1>3. ASSUME UNCHANGED vars, ~overrun'
      PROVE  Identity'
  BY <1>3 DEF IInv, Identity, AcceptedOnce, GrabberHolds, EntriesHeld,
              SaverHolds, Reports, ToInspectOnce, HeldFor, Accepted, ToInspect,
              Taken, Unreported, vars, grabVars, bufferVars, queueVars,
              workVars, saveVars, ghostVars
<1>4. QED
  BY <1>1, <1>2, <1>3 DEF IInv

\* Nobody has a buffer initially.
LEMMA IdentityInit == Init => IInv
<1> SUFFICES ASSUME Init PROVE IInv
  OBVIOUS
<1>1. TypeOK /\ SaverFlag
  BY TypeInit DEF Init, SaverFlag
<1>2. Len(accepted) = 0 /\ Len(scanQ) = 0 /\ Len(inspQ) = 0
  BY EmptySeq DEF Init
<1>3. AcceptedOnce /\ GrabberHolds
  BY <1>2 DEF Init, AcceptedOnce, GrabberHolds, Accepted
<1>4. EntriesHeld /\ SaverHolds /\ Reports
  BY <1>2 DEF Init, EntriesHeld, SaverHolds, Reports, Holding
<1>5. ToInspectOnce
  BY <1>2 DEF Init, ToInspectOnce, ToInspect, Inspecting
<1>6. QED
  BY <1>1, <1>3, <1>4, <1>5 DEF IInv, Identity

\* The invariant of this section, for every instance.
LEMMA InductiveInvariant == Spec => []IInv
<1>1. QED
  BY IdentityInit, IdentityNext, PTL DEF Spec

\* The handler is told of the modules in the order they entered the scan queue,
\* each under its own identity and none skipped, whatever the threads' speeds
\* and wherever Halcon throws, until a buffer in use is taken again.
THEOREM InScanOrder == Spec => []ReportedInScanOrder
<1>1. IInv => ReportedInScanOrder
  BY DEF IInv, Identity, Reports, ReportedInScanOrder, Accepted
<1>2. QED
  BY <1>1, InductiveInvariant, PTL

\* The result-save thread reads a buffer's result only when no algorithm thread
\* is still to write it, and no two algorithm threads write the same buffer.
THEOREM ResultsNotRaced == Spec => []NoResultRace
<1>1. IInv => NoResultRace
  <2>1. IInv /\ ~overrun /\ spc = "judge" => ~ToInspect(sslot)
    BY SaverAlone DEF IInv, Holding
  <2>2. QED
    BY <2>1 DEF IInv, Identity, ToInspectOnce, NoResultRace, Inspecting
<1>2. QED
  BY <1>1, InductiveInvariant, PTL

=============================================================================
