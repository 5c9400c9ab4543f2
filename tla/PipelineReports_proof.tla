------------------------ MODULE PipelineReports_proof ------------------------
(***************************************************************************)
(* What the reports of InspectPipeline say and how often they are sent,    *)
(* that the pipeline implements InspectionLine as long as no buffer in use *)
(* is taken, and how long a ring must be for that never to happen.  All of *)
(* it rests on IInv: who holds a buffer.                                   *)
(***************************************************************************)
EXTENDS InspectPipeline_proof, FiniteSetTheorems

-----------------------------------------------------------------------------
(* A module is reported once, and once more only after an alarm threw.     *)

Counts ==
  /\ \A m \in Modules :
       /\ Len(reported[m]) <= 2
       /\ Len(reported[m]) = 2 =>
            "alarm" \in Faults /\ reported[m][2] = Sent(m, "MC")
  /\ spc \in {"alarm", "catch", "reread"} =>
       Len(reported[accepted[Taken]]) <= 1
  /\ spc \in {"catch", "reread"} /\ reported[accepted[Taken]] # <<>> =>
       "alarm" \in Faults

\* Only these steps send reports; the others that move spc are harmless.
LEMMA CountsNext ==
  ASSUME IInv, Identity, Counts, [Next]_vars, ~overrun'
  PROVE  Counts'
<1>1. TypeOK /\ SaverFlag
  BY DEF IInv
<1>2. /\ Len(<<>>) = 0
      /\ \A m \in Modules : reported[m] \in Seq(Verdicts)
      /\ \A m \in Modules : Len(reported[m]) \in Nat
      /\ \A m \in Modules : Len(reported[m]) = 0 => reported[m] = <<>>
  BY <1>1, EmptySeq, LenProperties DEF TypeOK
<1>3. CASE UNCHANGED <<reported, accepted, scanQ, spc>>
  BY <1>3 DEF Counts, Taken
<1>4. ASSUME NEW m \in Modules, AddScan(m)
      PROVE  Counts'
  <2>1. /\ UNCHANGED <<reported, spc>>
        /\ Taken' = Taken
        /\ \A i \in 1 .. Len(accepted) : accepted'[i] = accepted[i]
    <3>1. Len(scanQ') = Len(scanQ) + 1 /\ Len(accepted') = Len(accepted) + 1
      BY <1>1, <1>4, AppendProperties DEF AddScan, TypeOK
    <3>2. Len(scanQ) \in Nat /\ Len(accepted) \in Nat
      BY <1>1, LenProperties DEF TypeOK
    <3>3. QED
      BY <1>1, <1>4, <3>1, <3>2, AppendProperties
         DEF AddScan, saveVars, Taken, TypeOK
  <2>2. spc \in Holding => Taken \in 1 .. Len(accepted)
    BY <1>1, SaverAlone
  <2>3. QED
    BY <2>1, <2>2 DEF Counts, Holding
<1>5. ASSUME NEW w \in Workers, WakeSaver(w)
      PROVE  Counts'
  BY <1>1, <1>5 DEF WakeSaver, Counts, Taken, queueVars, ghostVars, SaverFlag
<1>6. CASE SaverBegin \/ InspectDone \/ Judge \/ SaveTail \/ SaverEnd
  BY <1>6 DEF SaverBegin, InspectDone, Judge, SaveTail, SaverEnd, Counts
<1>7. CASE TakeScan
  BY <1>7 DEF TakeScan, Counts
<1>8. CASE JudgeThrows
  <2>1. reported[accepted[Taken]] = <<>>
    BY <1>1, <1>8, SaverAlone DEF JudgeThrows, Identity, Reports, Unreported,
                                  Holding
  <2>2. QED
    BY <1>2, <1>8, <2>1 DEF JudgeThrows, Counts, Taken, queueVars, ghostVars
<1>9. CASE AlarmThrows
  BY <1>9 DEF AlarmThrows, Counts, Taken, queueVars, ghostVars
<1>10. CASE CatchRelease
  BY <1>10 DEF CatchRelease, Counts, Taken, queueVars, ghostVars
<1>11. CASE InspectComplete
  <2>1. /\ smodule = accepted[Taken] /\ smodule \in Modules
        /\ reported[smodule] = <<>>
    BY <1>1, <1>11, SaverAlone, EntryTypes
       DEF InspectComplete, Identity, SaverHolds, Reports, Unreported, Holding
  <2>2. Len(Append(reported[smodule], Sent(smodule, verdict))) = 1
    <3>1. verdict \in Verdicts
      BY <1>1 DEF TypeOK
    <3>2. Sent(smodule, verdict) \in Verdicts
      BY <3>1, SentTyped
    <3>3. QED
      BY <1>2, <2>1, <3>2, AppendProperties
  <2>3. /\ Len(reported'[smodule]) = 1
        /\ \A m \in Modules : m # smodule => reported'[m] = reported[m]
        /\ spc' = "alarm" /\ Taken' = Taken /\ accepted' = accepted
    BY <1>1, <1>11, <2>1, <2>2
       DEF InspectComplete, TypeOK, Taken, queueVars, ghostVars
  <2>4. \A m \in Modules :
          /\ Len(reported'[m]) <= 2
          /\ Len(reported'[m]) = 2 =>
               "alarm" \in Faults /\ reported'[m][2] = Sent(m, "MC")
    <3>1. \A m \in Modules : m # smodule =>
            /\ Len(reported'[m]) <= 2
            /\ Len(reported'[m]) = 2 =>
                 "alarm" \in Faults /\ reported'[m][2] = Sent(m, "MC")
      BY <2>3 DEF Counts
    <3>2. Len(reported'[smodule]) <= 2 /\ Len(reported'[smodule]) # 2
      BY <2>3
    <3>3. QED
      BY <3>1, <3>2
  <2>5. Len(reported'[accepted'[Taken']]) <= 1
    <3>1. accepted'[Taken'] = smodule
      BY <2>1, <2>3
    <3>2. Len(reported'[accepted'[Taken']]) = 1
      BY <2>3, <3>1
    <3>3. QED
      BY <3>2
  <2>6. QED
    BY <2>3, <2>4, <2>5 DEF Counts
<1>12. CASE CatchReport
  <2>1. /\ moduleNo[sslot] = accepted[Taken] /\ accepted[Taken] \in Modules
        /\ Len(reported[accepted[Taken]]) \in {0, 1}
    <3>1. /\ moduleNo[sslot] = accepted[Taken]
          /\ accepted[Taken] \in Modules
      BY <1>1, <1>12, SaverAlone, EntryTypes
         DEF CatchReport, Identity, SaverHolds, HeldFor, Holding
    <3>2. Len(reported[accepted[Taken]]) <= 1
      BY <1>12 DEF CatchReport, Counts
    <3>3. Len(reported[accepted[Taken]]) \in Nat
      BY <1>2, <3>1
    <3>4. \A n \in Nat : n <= 1 => n \in {0, 1}
      OBVIOUS
    <3>5. QED
      BY <3>1, <3>2, <3>3, <3>4
  <2> DEFINE k == accepted[Taken]
             r == Append(reported[k], Sent(k, "MC"))
  <2>2. /\ Len(r) = Len(reported[k]) + 1
        /\ r[Len(reported[k]) + 1] = Sent(k, "MC")
    <3>1. reported[k] \in Seq(Verdicts) /\ Sent(k, "MC") \in Verdicts
      BY <1>2, <2>1, SentTyped DEF Verdicts
    <3>2. QED
      BY <3>1, AppendProperties
  <2>3. Len(reported[k]) = 1 => "alarm" \in Faults
    BY <1>2, <1>12, <2>1 DEF CatchReport, Counts
  <2>4. reported'[k] = r /\ \A m \in Modules : m # k => reported'[m] = reported[m]
    BY <1>1, <1>12, <2>1 DEF CatchReport, TypeOK
  <2>5. \A m \in Modules :
          /\ Len(reported'[m]) <= 2
          /\ Len(reported'[m]) = 2 =>
               "alarm" \in Faults /\ reported'[m][2] = Sent(m, "MC")
    <3>1. \A m \in Modules : m # k =>
            /\ Len(reported'[m]) <= 2
            /\ Len(reported'[m]) = 2 =>
                 "alarm" \in Faults /\ reported'[m][2] = Sent(m, "MC")
      BY <2>4 DEF Counts
    <3>2. Len(r) <= 2 /\ (Len(r) = 2 => "alarm" \in Faults /\ r[2] = Sent(k, "MC"))
      <4>1. CASE Len(reported[k]) = 0
        BY <2>2, <4>1
      <4>2. CASE Len(reported[k]) = 1
        BY <2>2, <2>3, <4>2
      <4>3. QED
        BY <2>1, <4>1, <4>2
    <3>3. QED
      BY <2>4, <3>1, <3>2
  <2>6. QED
    BY <1>12, <2>5 DEF CatchReport, Counts
<1>13. QED
  <2>1. ASSUME NEW m \in Modules, InspectionMove(m) \/ GrabThread(m)
        PROVE  AddScan(m) \/ UNCHANGED <<reported, accepted, scanQ, spc>>
    BY <2>1 DEF InspectionMove, GrabThread, GrabDone, GrabStopped, GrabThrows,
                GrabHold, ClaimBuffer, FillBuffer, CopyThrows, MarkInspecting,
                AddInspect, StartThread, saveVars, queueVars, ghostVars
  <2>2. ASSUME NEW w \in Workers, AlgorithmThread(w)
        PROVE  WakeSaver(w) \/ UNCHANGED <<reported, accepted, scanQ, spc>>
    BY <2>2 DEF AlgorithmThread, ThreadBegin, CheckQueue, PopInspect, Inspect,
                InspectThrows, PostResult, ThreadEnd, saveVars, queueVars,
                ghostVars
  <2>3. UNCHANGED vars => UNCHANGED <<reported, accepted, scanQ, spc>>
    BY DEF vars, saveVars, queueVars, ghostVars
  <2>4. QED
    BY <1>3, <1>4, <1>5, <1>6, <1>7, <1>8, <1>9, <1>10, <1>11, <1>12,
       <2>1, <2>2, <2>3 DEF Next, ResultSaveThread

\* Nothing was reported yet.
LEMMA CountsInit == Init => Counts
<1> SUFFICES ASSUME Init PROVE Counts
  OBVIOUS
<1>1. \A m \in Modules : Len(reported[m]) = 0
  BY EmptySeq DEF Init
<1>2. QED
  BY <1>1 DEF Init, Counts

CInv == IInv /\ (~overrun => Counts)

\* No step breaks it.
LEMMA CountsInductive == CInv /\ [Next]_vars => CInv'
<1> SUFFICES ASSUME CInv, [Next]_vars PROVE CInv'
  OBVIOUS
<1>1. IInv'
  BY IdentityNext DEF CInv
<1>2. ASSUME ~overrun' PROVE Counts'
  <2>1. ~overrun
    BY <1>2, OverrunStays
  <2>2. QED
    BY <1>2, <2>1, CountsNext DEF CInv, IInv
<1>3. QED
  BY <1>1, <1>2 DEF CInv

\* The invariant of this section, for every instance.
LEMMA CountsInvariant == Spec => []CInv
<1>1. Init => CInv
  BY IdentityInit, CountsInit DEF CInv
<1>2. QED
  BY <1>1, CountsInductive, PTL DEF Spec

\* The handler is told of a module at most twice, and the second report is the one
\* that ResultSaveThread's catch block sends when the alarm code threw after the
\* module's own report: a matching failure, or the code of a failed measurement.
THEOREM ReportedTwiceOnlyByAlarm == Spec => []SecondReportIsAlarm
<1>1. CInv => SecondReportIsAlarm
  BY DEF CInv, Counts, SecondReportIsAlarm
<1>2. QED
  BY <1>1, CountsInvariant, PTL

-----------------------------------------------------------------------------
(* The pipeline implements InspectionLine.                                 *)

\* All modules before the one the result-save thread works on were reported.
LEMMA LineReached ==
  ASSUME TypeOK, Identity, spc \in Holding
  PROVE  /\ Taken \in 1 .. Len(accepted)
         /\ accepted[Taken] \in Modules
         /\ Line!Reached(Taken)
<1>1. Taken \in 1 .. Len(accepted) /\ accepted[Taken] \in Modules
  BY SaverAlone, EntryTypes DEF Identity
<1>2. \A j \in 1 .. Taken - 1 : j \in 1 .. Len(accepted) /\ j < Taken
  BY <1>1, LenProperties DEF TypeOK
<1>3. \A j \in 1 .. Taken - 1 : reported[accepted[j]] # <<>>
  BY <1>2 DEF Identity, Reports
<1>4. QED
  BY <1>1, <1>3 DEF Line!Reached

\* Entering the scan queue is acceptance; the handler's two kinds of report are
\* the line's; every other step of every thread is a stutter.
LEMMA LineStep ==
  ASSUME CInv, ~overrun, [Next]_vars
  PROVE  [Line!Next]_<<accepted, reported>>
<1>1. TypeOK /\ SaverFlag /\ Identity /\ Counts
  BY DEF CInv, IInv
<1>2. ASSUME NEW m \in Modules, AddScan(m)
      PROVE  Line!Accept(m)
  <2>1. ~Accepted(m)
    BY <1>1, <1>2 DEF AddScan, Identity, AcceptedOnce, BeforeScan
  <2>2. QED
    BY <1>2, <2>1 DEF AddScan, Line!Accept, Accepted, saveVars
<1>3. CASE InspectComplete
  <2>1. /\ Taken \in 1 .. Len(accepted) /\ Line!Reached(Taken)
        /\ smodule = accepted[Taken] /\ reported[smodule] = <<>>
    BY <1>1, <1>3, LineReached
       DEF InspectComplete, Identity, SaverHolds, Reports, Unreported, Holding
  <2>2. verdict \in Verdicts
    BY <1>1 DEF TypeOK
  <2>3. Append(<<>>, Sent(smodule, verdict)) = <<Line!Sent(smodule, verdict)>>
    BY DEF Sent, Line!Sent
  <2>4. Line!Report(Taken, verdict)
    BY <1>3, <2>1, <2>2, <2>3 DEF InspectComplete, Line!Report, ghostVars
  <2>5. QED
    BY <2>1, <2>2, <2>4 DEF Line!Next
<1>4. CASE CatchReport
  <2>1. /\ Taken \in 1 .. Len(accepted) /\ Line!Reached(Taken)
        /\ accepted[Taken] \in Modules
    BY <1>1, <1>4, LineReached DEF CatchReport, Holding
  <2>2. moduleNo[sslot] = accepted[Taken]
    BY <1>1, <1>4 DEF CatchReport, Identity, SaverHolds, HeldFor, Holding
  <2>3. /\ reported' = [reported EXCEPT ![accepted[Taken]] =
                       Append(@, Line!Sent(accepted[Taken], "MC"))]
        /\ UNCHANGED accepted
    BY <1>4, <2>2 DEF CatchReport, Sent, Line!Sent
  <2>4. CASE reported[accepted[Taken]] = <<>>
    <3>1. /\ "MC" \in Verdicts
          /\ Append(<<>>, Line!Sent(accepted[Taken], "MC")) =
               <<Line!Sent(accepted[Taken], "MC")>>
      BY DEF Verdicts
    <3>2. Line!Report(Taken, "MC")
      BY <2>1, <2>3, <2>4, <3>1 DEF Line!Report
    <3>3. QED
      BY <2>1, <3>1, <3>2 DEF Line!Next
  <2>5. CASE reported[accepted[Taken]] # <<>>
    <3>1. Len(reported[accepted[Taken]]) = 1
      <4>1. /\ Len(reported[accepted[Taken]]) \in Nat
            /\ Len(reported[accepted[Taken]]) # 0
        BY <1>1, <2>1, <2>5, EmptySeq, LenProperties DEF TypeOK
      <4>2. Len(reported[accepted[Taken]]) <= 1
        BY <1>1, <1>4 DEF CatchReport, Counts
      <4>3. \A n \in Nat : n # 0 /\ n <= 1 => n = 1
        OBVIOUS
      <4>4. QED
        BY <4>1, <4>2, <4>3
    <3>2. \A j \in Taken + 1 .. Len(accepted) :
            j \in 1 .. Len(accepted) /\ j > Taken
      BY <1>1, <2>1, LenProperties DEF TypeOK
    <3>3. \A j \in Taken + 1 .. Len(accepted) : reported[accepted[j]] = <<>>
      BY <1>1, <3>2 DEF Identity, Reports
    <3>4. Line!ReportAgain(Taken)
      BY <2>1, <2>3, <3>1, <3>3 DEF Line!ReportAgain
    <3>5. QED
      BY <2>1, <3>4 DEF Line!Next
  <2>6. QED
    BY <2>4, <2>5
<1>5. ASSUME NEW m \in Modules, InspectionMove(m) \/ GrabThread(m)
      PROVE  AddScan(m) \/ UNCHANGED <<accepted, reported>>
  BY <1>5 DEF InspectionMove, GrabThread, GrabDone, GrabStopped, GrabThrows,
              GrabHold, ClaimBuffer, FillBuffer, CopyThrows, MarkInspecting,
              AddInspect, StartThread, saveVars, ghostVars
<1>6. ASSUME NEW w \in Workers, AlgorithmThread(w)
      PROVE  UNCHANGED <<accepted, reported>>
  BY <1>6 DEF AlgorithmThread, ThreadBegin, CheckQueue, PopInspect, Inspect,
              InspectThrows, PostResult, WakeSaver, ThreadEnd, saveVars,
              ghostVars
<1>7. ASSUME ResultSaveThread
      PROVE  \/ InspectComplete \/ CatchReport
             \/ UNCHANGED <<accepted, reported>>
  BY <1>7 DEF ResultSaveThread, SaverBegin, TakeScan, InspectDone, Judge,
              JudgeThrows, SaveTail, AlarmThrows, CatchRelease, SaverEnd,
              ghostVars
<1>8. UNCHANGED vars => UNCHANGED <<accepted, reported>>
  BY DEF vars, saveVars, ghostVars
<1>9. QED
  BY <1>2, <1>3, <1>4, <1>5, <1>6, <1>7, <1>8 DEF Next, Line!Next

\* As long as the ring is long enough for the handler's window, CVisionCamera's
\* buffers, queues and threads cannot be told from a line that accepts modules
\* and reports them in the order of acceptance.
THEOREM ImplementsLine == Spec /\ []NoOverrun => LineSpec
<1>1. Init => Line!Init
  BY DEF Init, Line!Init
<1>2. CInv /\ NoOverrun /\ [Next]_vars => [Line!Next]_<<accepted, reported>>
  BY LineStep DEF NoOverrun
<1>3. QED
  BY <1>1, <1>2, CountsInvariant, PTL DEF Spec, LineSpec, Line!Spec

-----------------------------------------------------------------------------
(* Rings that are long enough.  PrepareAlgorithmBuffer takes buffers in    *)
(* turn without looking at them, so a buffer is safe only as long as fewer *)
(* than NumBuffers others were taken since.  The takers are other modules  *)
(* that the handler's window lets work beside the buffer's module: Window  *)
(* - 1 before it, Window - 1 after it, and, once it is reported but not    *)
(* yet let go, Window more; each takes a second one if its copy threw.     *)

MaxClaims == IF "image" \in Faults THEN 2 ELSE 1

LongRing == NumBuffers > MaxClaims * (3 * Window - 2)

\* Buffers that module j took (a grab that failed counts as one that threw).
ClaimsMade(j) ==
  CASE gpc[j] \in {"idle", "grab", "hold", "stopped", "lost"} -> 0
    [] gpc[j] = "claim" -> IF failed[j] THEN MaxClaims - 1 ELSE 0
    [] gpc[j] = "fill" /\ ~failed[j] -> 1
    [] OTHER -> MaxClaims

\* How many buffers were taken after buffer b.
Since(b) == IF b <= scanIdx THEN scanIdx - b ELSE scanIdx - b + NumBuffers

\* The takings of the modules that may have come after k took its buffer.
ClaimsBeside(k) ==
  {c \in Modules \X (1 .. 2) :
     c[1] # k /\ k < c[1] + Window /\ c[2] <= ClaimsMade(c[1])}

\* The handler's window.
Windowed ==
  \A i, j \in Modules : gpc[j] # "idle" /\ i + Window <= j => Finished(i)

\* A module owns one buffer, from ClaimBuffer on.
OwnsOne ==
  /\ \A b \in Slots : owner[b] # None =>
       gpc[owner[b]] \in Grabbing \union {"start", "done"}
  /\ \A b, c \in Slots : owner[b] # None /\ owner[b] = owner[c] => b = c

\* It lets go of it when the result-save thread is through with it.
OwnsLate ==
  \A b \in Slots : \A p \in 1 .. Len(accepted) :
    owner[b] = accepted[p] => p >= Taken /\ (p = Taken => spc \in Holding)

\* Modules a window apart are accepted in the order of their numbers.
WindowOrder ==
  \A p, q \in 1 .. Len(accepted) :
    accepted[p] + Window <= accepted[q] => p < q

TakenBeside ==
  \A b \in Slots : owner[b] # None =>
    Since(b) <= Cardinality(ClaimsBeside(owner[b]))

Ring == Windowed /\ OwnsOne /\ OwnsLate /\ WindowOrder /\ TakenBeside

\* A step of one grab thread leaves the others, and the reports, alone.
LEMMA GrabFrame ==
  ASSUME TypeOK, NEW m \in Modules, InspectionMove(m) \/ GrabThread(m)
  PROVE  /\ UNCHANGED <<reported, spc, sslot>>
         /\ \A k \in Modules : k # m => gpc'[k] = gpc[k] /\ failed'[k] = failed[k]
         /\ AddScan(m) \/ UNCHANGED <<accepted, scanQ>>
         /\ ClaimBuffer(m) \/ CopyThrows(m) \/ UNCHANGED owner
         /\ ClaimBuffer(m) \/ UNCHANGED scanIdx
         /\ gpc[m] \notin {"stopped", "lost"}
BY DEF InspectionMove, GrabThread, GrabDone, GrabStopped, GrabThrows, GrabHold,
       ClaimBuffer, FillBuffer, CopyThrows, MarkInspecting, AddScan,
       AddInspect, StartThread, saveVars, queueVars, bufferVars, ghostVars,
       TypeOK

\* The other threads leave the grab threads, the ring and the order alone.
LEMMA OtherFrame ==
  ASSUME \/ \E w \in Workers : AlgorithmThread(w)
         \/ ResultSaveThread
         \/ UNCHANGED vars
  PROVE  UNCHANGED <<gpc, failed, scanIdx, accepted>>
<1>1. ASSUME NEW w \in Workers, AlgorithmThread(w)
      PROVE  UNCHANGED <<gpc, failed, scanIdx, accepted>>
  BY <1>1 DEF AlgorithmThread, ThreadBegin, CheckQueue, PopInspect, Inspect,
              InspectThrows, PostResult, WakeSaver, ThreadEnd, grabVars,
              bufferVars, ghostVars
<1>2. CASE ResultSaveThread
  BY <1>2 DEF ResultSaveThread, SaverBegin, TakeScan, InspectDone, Judge,
              JudgeThrows, InspectComplete, SaveTail, AlarmThrows,
              CatchRelease, CatchReport, SaverEnd, grabVars, bufferVars,
              ghostVars
<1>3. CASE UNCHANGED vars
  BY <1>3 DEF vars, grabVars, bufferVars, ghostVars
<1>4. QED
  BY <1>1, <1>2, <1>3

\* Nothing the handler was told is taken back, and a thread that ended stays
\* ended.
LEMMA FinishedStays ==
  ASSUME TypeOK, [Next]_vars, NEW i \in Modules, Finished(i)
  PROVE  Finished(i)'
<1>1. \A s \in Seq(Verdicts) : \A v \in Verdicts : \A m \in Modules :
        Append(s, Sent(m, v)) # <<>>
  BY ReportAdded
<1>2. \A k \in Modules : reported[k] \in Seq(Verdicts)
  BY DEF TypeOK
<1>3. verdict \in Verdicts /\ "MC" \in Verdicts
  BY DEF TypeOK, Verdicts
<1>4. reported[i] # <<>> => reported'[i] # <<>>
  <2>1. CASE InspectComplete
    BY <1>1, <1>2, <1>3, <2>1 DEF InspectComplete, TypeOK
  <2>2. CASE CatchReport
    BY <1>1, <1>2, <1>3, <2>2 DEF CatchReport, TypeOK
  <2>3. ASSUME NEW w \in Workers, AlgorithmThread(w)
        PROVE  UNCHANGED reported
    BY <2>3 DEF AlgorithmThread, ThreadBegin, CheckQueue, PopInspect, Inspect,
                InspectThrows, PostResult, WakeSaver, ThreadEnd, saveVars
  <2>4. ASSUME ResultSaveThread
        PROVE  InspectComplete \/ CatchReport \/ UNCHANGED reported
    BY <2>4 DEF ResultSaveThread, SaverBegin, TakeScan, InspectDone, Judge,
                JudgeThrows, SaveTail, AlarmThrows, CatchRelease, SaverEnd
  <2>5. UNCHANGED vars => UNCHANGED reported
    BY DEF vars, saveVars
  <2>6. QED
    BY <2>1, <2>2, <2>3, <2>4, <2>5, GrabFrame DEF Next
<1>5. gpc[i] \in {"stopped", "lost"} => gpc'[i] = gpc[i]
  BY GrabFrame, OtherFrame DEF Next
<1>6. QED
  BY <1>4, <1>5 DEF Finished

\* The handler moves on only when the modules behind its window are finished.
LEMMA WindowedNext ==
  ASSUME TypeOK, Windowed, [Next]_vars
  PROVE  Windowed'
<1> SUFFICES ASSUME NEW i \in Modules, NEW j \in Modules,
                    gpc'[j] # "idle", i + Window <= j
             PROVE  Finished(i)'
  BY DEF Windowed
<1>1. CASE gpc[j] # "idle"
  BY <1>1, FinishedStays DEF Windowed
<1>2. CASE gpc[j] = "idle"
  <2>1. ASSUME NEW m \in Modules, InspectionMove(m) \/ GrabThread(m)
        PROVE  InspectionMove(j)
    <3>1. m = j
      BY <1>2, <2>1, GrabFrame
    <3>2. QED
      BY <1>2, <2>1, <3>1 DEF GrabThread, GrabDone, GrabStopped, GrabThrows,
           GrabHold, ClaimBuffer, FillBuffer, CopyThrows, MarkInspecting,
           AddScan, AddInspect, StartThread
  <2>2. InspectionMove(j)
    BY <1>2, <2>1, OtherFrame DEF Next
  <2>3. i \in 1 .. j - Window
    BY ConstantsAssumption DEF ConstantsAssumption, Modules
  <2>4. Finished(i)
    BY <2>2, <2>3 DEF InspectionMove
  <2>5. QED
    BY <2>4, FinishedStays
<1>3. QED
  BY <1>1, <1>2

\* A module that is still to enter the scan queue was not reported.
LEMMA NotReported ==
  ASSUME Identity, NEW m \in Modules, gpc[m] \in BeforeScan
  PROVE  ~Accepted(m) /\ reported[m] = <<>>
BY DEF Identity, AcceptedOnce, Reports

\* AddScan appends to both sequences and moves no entry.
LEMMA ScanAppended ==
  ASSUME TypeOK, NEW m \in Modules, AddScan(m)
  PROVE  /\ Taken' = Taken
         /\ Len(accepted') = Len(accepted) + 1
         /\ \A p \in 1 .. Len(accepted) : accepted'[p] = accepted[p]
         /\ accepted'[Len(accepted) + 1] = m
         /\ Len(accepted) \in Nat
         /\ Taken \in Int /\ Taken <= Len(accepted)
<1>1. Len(scanQ') = Len(scanQ) + 1 /\ Len(accepted') = Len(accepted) + 1
  BY AppendProperties DEF AddScan, TypeOK
<1>2. Len(scanQ) \in Nat /\ Len(accepted) \in Nat
  BY LenProperties DEF TypeOK
<1>3. /\ \A p \in 1 .. Len(accepted) : accepted'[p] = accepted[p]
      /\ accepted'[Len(accepted) + 1] = m
  BY AppendProperties DEF AddScan, TypeOK
<1>4. QED
  BY <1>1, <1>2, <1>3 DEF Taken

\* A module enters the scan queue before the handler lets in one a window on.
LEMMA WindowOrderNext ==
  ASSUME TypeOK, Identity, Windowed, WindowOrder, [Next]_vars
  PROVE  WindowOrder'
<1>1. CASE UNCHANGED accepted
  BY <1>1 DEF WindowOrder
<1>2. ASSUME NEW m \in Modules, AddScan(m)
      PROVE  WindowOrder'
  <2> DEFINE n == Len(accepted)
  <2>1. /\ Len(accepted') = n + 1 /\ accepted'[n + 1] = m /\ n \in Nat
        /\ \A p \in 1 .. n : accepted'[p] = accepted[p]
    BY <1>2, ScanAppended
  <2>2. \A p \in 1 .. n : accepted[p] \in Modules
    BY EntryTypes DEF Identity
  <2> SUFFICES ASSUME NEW p \in 1 .. n + 1, NEW q \in 1 .. n + 1,
                      accepted'[p] + Window <= accepted'[q]
               PROVE  p < q
    BY <2>1 DEF WindowOrder
  <2>3. CASE p \in 1 .. n /\ q \in 1 .. n
    BY <2>1, <2>3 DEF WindowOrder
  <2>4. CASE p \in 1 .. n /\ q = n + 1
    BY <2>4
  <2>5. CASE p = n + 1 /\ q = n + 1
    BY <2>1, <2>5, ConstantsAssumption DEF ConstantsAssumption, Modules
  <2>6. CASE p = n + 1 /\ q \in 1 .. n
    <3>1. accepted[q] \in Modules /\ m + Window <= accepted[q]
      BY <2>1, <2>2, <2>6
    <3>2. gpc[accepted[q]] # "idle"
      BY <2>6, <3>1, NotReported DEF Accepted, BeforeScan
    <3>3. Finished(m)
      BY <3>1, <3>2 DEF Windowed
    <3>4. QED
      BY <1>2, <3>3, NotReported DEF AddScan, BeforeScan, Finished
  <2>7. QED
    BY <2>1, <2>3, <2>4, <2>5, <2>6
<1>3. QED
  BY <1>1, <1>2, GrabFrame, OtherFrame DEF Next

\* These two steps let go of a buffer, and no other step of the result-save
\* thread touches the ownership.
LEMMA SaverFrame ==
  ASSUME \/ \E w \in Workers : AlgorithmThread(w)
         \/ ResultSaveThread
         \/ UNCHANGED vars
  PROVE  SaveTail \/ CatchReport \/ UNCHANGED owner
<1>1. ASSUME NEW w \in Workers, AlgorithmThread(w)
      PROVE  UNCHANGED owner
  BY <1>1 DEF AlgorithmThread, ThreadBegin, CheckQueue, PopInspect, Inspect,
              InspectThrows, PostResult, WakeSaver, ThreadEnd, ghostVars
<1>2. CASE ResultSaveThread
  BY <1>2 DEF ResultSaveThread, SaverBegin, TakeScan, InspectDone, Judge,
              JudgeThrows, InspectComplete, AlarmThrows, CatchRelease,
              SaverEnd, ghostVars
<1>3. CASE UNCHANGED vars
  BY <1>3 DEF vars, ghostVars
<1>4. QED
  BY <1>1, <1>2, <1>3

\* A module that takes a second buffer gave the first one back.
LEMMA OwnsOneNext ==
  ASSUME TypeOK, Identity, OwnsOne, [Next]_vars
  PROVE  OwnsOne'
<1>1. \A b \in Slots : owner[b] \in Modules \union {None}
  BY DEF TypeOK
<1>2. None \notin Modules
  BY DEF None, Modules
<1>3. ASSUME NEW m \in Modules, ClaimBuffer(m)
      PROVE  OwnsOne'
  <2>1. NextSlot \in Slots /\ owner' = [owner EXCEPT ![NextSlot] = m]
    BY <1>3, SlotTypes DEF ClaimBuffer, TypeOK
  <2>2. \A b \in Slots : owner[b] # m
    BY <1>2, <1>3 DEF ClaimBuffer, OwnsOne, Grabbing
  <2>3. gpc' = [gpc EXCEPT ![m] = "fill"]
    BY <1>3 DEF ClaimBuffer
  <2>4. QED
    BY <1>1, <2>1, <2>2, <2>3 DEF OwnsOne, TypeOK, Grabbing
<1>4. ASSUME NEW m \in Modules, CopyThrows(m)
      PROVE  OwnsOne'
  <2>1. /\ gslot[m] \in Slots /\ owner[gslot[m]] = m
        /\ owner' = [owner EXCEPT ![gslot[m]] = None]
        /\ gpc' = [gpc EXCEPT ![m] = "claim"]
    BY <1>4 DEF CopyThrows, Identity, GrabberHolds, TypeOK
  <2>2. \A b \in Slots : b # gslot[m] => owner[b] # m
    BY <1>2, <2>1 DEF OwnsOne
  <2>3. QED
    BY <1>1, <2>1, <2>2 DEF OwnsOne, TypeOK
<1>5. ASSUME NEW m \in Modules, InspectionMove(m) \/ GrabThread(m),
             UNCHANGED owner
      PROVE  OwnsOne'
  <2>1. ASSUME NEW b \in Slots, owner[b] # None
        PROVE  gpc'[owner[b]] \in Grabbing \union {"start", "done"}
    <3>1. gpc[owner[b]] \in Grabbing \union {"start", "done"}
      BY <2>1 DEF OwnsOne
    <3>2. CASE owner[b] # m
      BY <1>1, <1>5, <2>1, <3>1, <3>2, GrabFrame
    <3>3. CASE owner[b] = m
      <4>1. ~CopyThrows(m)
        BY <1>2, <1>5, <3>3 DEF CopyThrows, Identity, GrabberHolds, TypeOK
      <4>2. QED
        BY <1>5, <3>1, <3>3, <4>1
           DEF InspectionMove, GrabThread, GrabDone, GrabStopped, GrabThrows,
               GrabHold, ClaimBuffer, FillBuffer, MarkInspecting, AddScan,
               AddInspect, StartThread, Grabbing, TypeOK
    <3>4. QED
      BY <3>2, <3>3
  <2>2. QED
    BY <1>5, <2>1 DEF OwnsOne
<1>6. ASSUME SaveTail \/ CatchReport \/ UNCHANGED owner, UNCHANGED gpc
      PROVE  OwnsOne'
  <2>1. \A b \in Slots : owner'[b] \in {owner[b], None}
    BY <1>1, <1>6 DEF SaveTail, CatchReport, TypeOK
  <2>2. QED
    BY <1>6, <2>1 DEF OwnsOne
<1>7. QED
  BY <1>3, <1>4, <1>5, <1>6, GrabFrame, OtherFrame, SaverFrame DEF Next

\* The result-save thread takes the next entry after it let go of the last.
LEMMA OwnsLateNext ==
  ASSUME TypeOK, SaverFlag, Identity, OwnsOne, OwnsLate, [Next]_vars
  PROVE  OwnsLate'
<1>1. /\ \A b \in Slots : owner[b] \in Modules \union {None}
      /\ \A p \in 1 .. Len(accepted) : accepted[p] \in Modules
      /\ None \notin Modules
  BY EntryTypes DEF Identity, TypeOK
<1>2. ASSUME NEW m \in Modules, AddScan(m)
      PROVE  OwnsLate'
  <2> DEFINE n == Len(accepted)
  <2>1. /\ Len(accepted') = n + 1 /\ accepted'[n + 1] = m /\ n \in Nat
        /\ \A p \in 1 .. n : accepted'[p] = accepted[p]
        /\ Taken' = Taken /\ Taken \in Int /\ Taken <= n
    BY <1>2, ScanAppended
  <2>2. UNCHANGED <<owner, spc>>
    BY <1>2 DEF AddScan, saveVars
  <2>3. QED
    BY <2>1, <2>2 DEF OwnsLate
<1>3. ASSUME NEW m \in Modules, ClaimBuffer(m)
      PROVE  OwnsLate'
  <2>1. \A p \in 1 .. Len(accepted) : accepted[p] # m
    BY <1>3, NotReported DEF ClaimBuffer, Accepted, BeforeScan
  <2>2. \A b \in Slots : owner'[b] \in {owner[b], m}
    BY <1>3, SlotTypes DEF ClaimBuffer, TypeOK
  <2>3. UNCHANGED <<accepted, scanQ, spc>>
    BY <1>3 DEF ClaimBuffer, queueVars, saveVars
  <2>4. QED
    BY <2>1, <2>2, <2>3 DEF OwnsLate, Taken
<1>4. ASSUME NEW m \in Modules, CopyThrows(m)
      PROVE  OwnsLate'
  <2>1. \A b \in Slots : owner'[b] \in {owner[b], None}
    BY <1>4 DEF CopyThrows, TypeOK
  <2>2. UNCHANGED <<accepted, scanQ, spc>>
    BY <1>4 DEF CopyThrows, queueVars, saveVars
  <2>3. QED
    BY <1>1, <2>1, <2>2 DEF OwnsLate, Taken
<1>5. ASSUME UNCHANGED <<accepted, scanQ, owner>>,
             spc \in Holding => spc' \in Holding
      PROVE  OwnsLate'
  BY <1>5 DEF OwnsLate, Taken
<1>6. CASE SaveTail \/ CatchReport
  <2>1. /\ Taken \in 1 .. Len(accepted) /\ owner[sslot] = accepted[Taken]
        /\ sslot \in Slots /\ UNCHANGED <<accepted, scanQ>>
        /\ owner' = [owner EXCEPT ![sslot] = None]
    BY <1>6, SaverAlone DEF SaveTail, CatchReport, Holding, queueVars, TypeOK
  <2>2. \A b \in Slots : b # sslot => owner[b] # accepted[Taken]
    BY <1>1, <2>1 DEF OwnsOne
  <2>3. \A b \in Slots : \A p \in 1 .. Len(accepted) :
          owner'[b] = accepted[p] => owner[b] = accepted[p] /\ p # Taken
    BY <1>1, <2>1, <2>2 DEF TypeOK
  <2>4. QED
    BY <2>1, <2>3 DEF OwnsLate, Taken
<1>7. CASE TakeScan
  <2>1. \A b \in Slots : \A p \in 1 .. Len(accepted) :
          owner[b] = accepted[p] => p > Taken
    <3>1. Taken \in Nat
      BY EntryTypes DEF Identity
    <3>2. spc \notin Holding
      BY <1>7 DEF TakeScan, Holding
    <3>3. QED
      BY <3>1, <3>2 DEF OwnsLate
  <2>2. UNCHANGED <<owner, accepted>>
    BY <1>7 DEF TakeScan, ghostVars
  <2>3. CASE scanQ = <<>>
    BY <1>7, <2>1, <2>2, <2>3, EntryTypes DEF TakeScan, OwnsLate, Taken, Identity
  <2>4. CASE scanQ # <<>>
    <3>1. Len(scanQ') = Len(scanQ) - 1 /\ spc' \in Holding
      BY <1>7, <2>4, HeadTailProperties DEF TakeScan, TypeOK, Holding
    <3>2. Taken' = Taken + 1 /\ Taken \in Nat
      BY <2>2, <3>1, EntryTypes, LenProperties DEF Taken, TypeOK, Identity
    <3>3. QED
      BY <2>1, <2>2, <3>1, <3>2 DEF OwnsLate
  <2>5. QED
    BY <2>3, <2>4
<1>8. ASSUME NEW w \in Workers, AlgorithmThread(w)
      PROVE  /\ UNCHANGED <<accepted, scanQ, owner>>
             /\ spc \in Holding => spc' \in Holding
  BY <1>8 DEF AlgorithmThread, ThreadBegin, CheckQueue, PopInspect, Inspect,
              InspectThrows, PostResult, WakeSaver, ThreadEnd, queueVars,
              saveVars, ghostVars, SaverFlag, Holding
<1>9. ASSUME ResultSaveThread
      PROVE  \/ TakeScan \/ SaveTail \/ CatchReport
             \/ /\ UNCHANGED <<accepted, scanQ, owner>>
                /\ spc \in Holding => spc' \in Holding
  BY <1>9 DEF ResultSaveThread, SaverBegin, InspectDone, Judge, JudgeThrows,
              InspectComplete, AlarmThrows, CatchRelease, SaverEnd, queueVars,
              ghostVars, Holding
<1>10. UNCHANGED vars => UNCHANGED <<accepted, scanQ, owner, spc>>
  BY DEF vars, queueVars, saveVars, ghostVars
<1>11. QED
  BY <1>2, <1>3, <1>4, <1>5, <1>6, <1>7, <1>8, <1>9, <1>10, GrabFrame DEF Next

\* A module's takings never decrease, and ClaimBuffer adds one.
LEMMA ClaimsGrow ==
  ASSUME TypeOK, [Next]_vars, NEW j \in Modules
  PROVE  /\ ClaimsMade(j) \in 0 .. MaxClaims
         /\ ClaimsMade(j) <= ClaimsMade(j)'
         /\ ClaimBuffer(j) => ClaimsMade(j)' = ClaimsMade(j) + 1
<1> USE DEF ClaimsMade, MaxClaims
<1>1. ClaimsMade(j) \in 0 .. MaxClaims
  OBVIOUS
<1>2. CASE gpc'[j] = gpc[j] /\ failed'[j] = failed[j]
  <2>1. ~ClaimBuffer(j)
    BY <1>2 DEF ClaimBuffer, TypeOK
  <2>2. QED
    BY <1>1, <1>2, <2>1
<1>3. CASE InspectionMove(j) \/ GrabThread(j)
  <2>1. gpc[j] \in GrabStates /\ failed[j] \in BOOLEAN
    BY DEF TypeOK
  <2> USE DEF GrabStates, Copying, GrabEnded
  <2>2. ClaimBuffer(j) => ClaimsMade(j)' = ClaimsMade(j) + 1
    BY <2>1 DEF ClaimBuffer, TypeOK
  <2>3. ClaimsMade(j) <= ClaimsMade(j)'
    BY <1>3, <2>1, <2>2
       DEF InspectionMove, GrabThread, GrabDone, GrabStopped, GrabThrows,
           GrabHold, FillBuffer, CopyThrows, MarkInspecting, AddScan,
           AddInspect, StartThread, TypeOK
  <2>4. QED
    BY <1>1, <2>2, <2>3
<1>4. QED
  BY <1>2, <1>3, GrabFrame, OtherFrame DEF Next

\* The takings beside a module are finite and only get more.
LEMMA BesideGrows ==
  ASSUME TypeOK, [Next]_vars, NEW k \in Modules
  PROVE  /\ IsFiniteSet(ClaimsBeside(k)) /\ IsFiniteSet(ClaimsBeside(k)')
         /\ ClaimsBeside(k) \subseteq ClaimsBeside(k)'
         /\ Cardinality(ClaimsBeside(k)) \in Nat
         /\ Cardinality(ClaimsBeside(k)) <= Cardinality(ClaimsBeside(k)')
<1>1. IsFiniteSet(Modules \X (1 .. 2))
  <2>1. IsFiniteSet(Modules) /\ IsFiniteSet(1 .. 2)
    <3>1. 1 \in Int /\ 2 \in Int /\ NumModules \in Int
      BY ConstantsAssumption DEF ConstantsAssumption
    <3>2. QED
      BY <3>1, FS_Interval DEF Modules
  <2>2. QED
    BY <2>1, FS_Product
<1>2. /\ ClaimsBeside(k) \subseteq Modules \X (1 .. 2)
      /\ ClaimsBeside(k)' \subseteq Modules \X (1 .. 2)
  BY DEF ClaimsBeside
<1>3. IsFiniteSet(ClaimsBeside(k)) /\ IsFiniteSet(ClaimsBeside(k)')
  BY <1>1, <1>2, FS_Subset
<1>4. ClaimsBeside(k) \subseteq ClaimsBeside(k)'
  <2>1. ASSUME NEW c \in Modules \X (1 .. 2), c[2] <= ClaimsMade(c[1])
        PROVE  c[2] <= ClaimsMade(c[1])'
    <3>1. /\ ClaimsMade(c[1]) \in 0 .. MaxClaims
          /\ ClaimsMade(c[1]) <= ClaimsMade(c[1])'
          /\ c[2] \in 1 .. 2
      BY ClaimsGrow
    <3>2. ClaimsMade(c[1])' \in Int
      BY DEF ClaimsMade, MaxClaims
    <3>3. QED
      BY <2>1, <3>1, <3>2 DEF MaxClaims
  <2>2. QED
    BY <2>1 DEF ClaimsBeside
<1>5. QED
  BY <1>3, <1>4, FS_Subset, FS_CardinalityType

\* The taker of a buffer came beside every module that owns one.
LEMMA ClaimerBeside ==
  ASSUME TypeOK, Identity, Windowed, OwnsOne, [Next]_vars,
         NEW m \in Modules, ClaimBuffer(m),
         NEW b \in Slots, NEW k \in Modules, owner[b] = k
  PROVE  /\ k # m /\ k < m + Window
         /\ reported[m] = <<>> /\ ClaimsMade(m) + 1 \in 1 .. MaxClaims
         /\ <<m, ClaimsMade(m) + 1>> \notin ClaimsBeside(k)
         /\ <<m, ClaimsMade(m) + 1>> \in ClaimsBeside(k)'
<1>1. gpc[k] \in Grabbing \union {"start", "done"}
  BY DEF OwnsOne, None, Modules
<1>2. k # m /\ gpc[k] # "idle"
  BY <1>1 DEF ClaimBuffer, Grabbing
<1>3. reported[m] = <<>> /\ ~Finished(m)
  BY NotReported DEF ClaimBuffer, Finished, BeforeScan
<1>4. k < m + Window
  BY <1>1, <1>2, <1>3, ConstantsAssumption
     DEF Windowed, ConstantsAssumption, Modules
<1>5. ClaimsMade(m) + 1 \in 1 .. MaxClaims
  BY DEF ClaimBuffer, ClaimsMade, MaxClaims
<1>6. <<m, ClaimsMade(m) + 1>> \in ClaimsBeside(k)'
  <2> DEFINE n == ClaimsMade(m) + 1
  <2>1. <<m, n>> \in Modules \X (1 .. 2)
    BY <1>5 DEF MaxClaims
  <2>2. ClaimsMade(m)' = ClaimsMade(m) + 1
    BY ClaimsGrow
  <2>3. n <= ClaimsMade(m)'
    BY <1>5, <2>2
  <2> HIDE DEF n
  <2>4. \A c \in Modules \X (1 .. 2) :
          c[1] = m /\ c[2] = n => c \in ClaimsBeside(k)'
    BY <1>2, <1>4, <2>3 DEF ClaimsBeside
  <2>5. QED
    BY <2>1, <2>4 DEF n
<1>7. <<m, ClaimsMade(m) + 1>> \notin ClaimsBeside(k)
  <2>1. ~(ClaimsMade(m) + 1 <= ClaimsMade(m))
    BY <1>5, ClaimsGrow
  <2>2. QED
    BY <2>1 DEF ClaimsBeside
<1>8. QED
  BY <1>1, <1>2, <1>3, <1>4, <1>5, <1>6, <1>7

\* Each taking that moves the ring on is one more beside every owner.
LEMMA TakenBesideNext ==
  ASSUME TypeOK, Identity, Windowed, OwnsOne, TakenBeside, [Next]_vars
  PROVE  TakenBeside'
<1>1. ASSUME NEW m \in Modules, ClaimBuffer(m),
             NEW b \in Slots, owner'[b] # None
      PROVE  Since(b)' <= Cardinality(ClaimsBeside(owner[b])')
  <2>1. /\ NextSlot \in Slots /\ scanIdx' = NextSlot /\ scanIdx \in Slots
        /\ owner' = [owner EXCEPT ![NextSlot] = m]
    BY <1>1, SlotTypes DEF ClaimBuffer, TypeOK
  <2>2. CASE b = NextSlot
    <3>1. Since(b)' = 0 /\ owner'[b] = m
      BY <2>1, <2>2 DEF Since, Slots, TypeOK
    <3>2. QED
      BY <3>1, BesideGrows, FS_CardinalityType
  <2>3. CASE b # NextSlot
    <3>1. PICK k \in Modules : owner[b] = k /\ owner'[b] = k /\ k # None
      BY <1>1, <2>1, <2>3 DEF TypeOK
    <3> DEFINE new == <<m, ClaimsMade(m) + 1>>
    <3>2. new \notin ClaimsBeside(k) /\ new \in ClaimsBeside(k)'
      BY <1>1, <3>1, ClaimerBeside
    <3>3. /\ IsFiniteSet(ClaimsBeside(k)) /\ IsFiniteSet(ClaimsBeside(k)')
          /\ ClaimsBeside(k) \subseteq ClaimsBeside(k)'
          /\ Cardinality(ClaimsBeside(k)) \in Nat
      BY BesideGrows
    <3>4. Cardinality(ClaimsBeside(k)) < Cardinality(ClaimsBeside(k)')
      <4>1. Cardinality(ClaimsBeside(k)) # Cardinality(ClaimsBeside(k)')
        BY <3>2, <3>3, FS_Subset
      <4>2. /\ Cardinality(ClaimsBeside(k)) <= Cardinality(ClaimsBeside(k)')
            /\ Cardinality(ClaimsBeside(k)') \in Nat
        BY <3>3, FS_Subset, FS_CardinalityType
      <4>3. QED
        BY <3>3, <4>1, <4>2
    <3>5. Since(b)' = Since(b) + 1 /\ Since(b) \in Int
      BY <2>1, <2>3, ConstantsAssumption
         DEF Since, Slots, NextSlot, ConstantsAssumption
    <3>6. Since(b) <= Cardinality(ClaimsBeside(k))
      BY <3>1 DEF TakenBeside
    <3>7. ClaimsBeside(owner[b])' = ClaimsBeside(k)'
      BY <3>1 DEF ClaimsBeside
    <3>8. Cardinality(ClaimsBeside(k)') \in Nat
      BY <3>3, FS_CardinalityType
    <3>9. QED
      BY <3>3, <3>4, <3>5, <3>6, <3>7, <3>8
  <2>4. QED
    BY <2>2, <2>3
<1>2. ASSUME UNCHANGED scanIdx,
             \A b \in Slots : owner'[b] \in {owner[b], None},
             NEW b \in Slots, owner'[b] # None
      PROVE  Since(b)' <= Cardinality(ClaimsBeside(owner[b])')
  <2>1. PICK k \in Modules : owner[b] = k /\ owner'[b] = k /\ k # None
    BY <1>2 DEF TypeOK
  <2>2. Since(b)' = Since(b) /\ Since(b) \in Int
    BY <1>2, ConstantsAssumption DEF Since, TypeOK, Slots, ConstantsAssumption
  <2>3. Since(b) <= Cardinality(ClaimsBeside(k))
    BY <2>1 DEF TakenBeside
  <2>4. /\ Cardinality(ClaimsBeside(k)) \in Nat
        /\ Cardinality(ClaimsBeside(k)) <= Cardinality(ClaimsBeside(k)')
        /\ Cardinality(ClaimsBeside(k)') \in Nat
    BY <2>1, BesideGrows, FS_CardinalityType
  <2>5. ClaimsBeside(owner[b])' = ClaimsBeside(k)'
    BY <2>1 DEF ClaimsBeside
  <2>6. QED
    BY <2>2, <2>3, <2>4, <2>5
<1>3. \/ \E m \in Modules : ClaimBuffer(m)
      \/ /\ UNCHANGED scanIdx
         /\ \A b \in Slots : owner'[b] \in {owner[b], None}
  <2>1. ASSUME \/ UNCHANGED owner \/ SaveTail \/ CatchReport
               \/ \E m \in Modules : CopyThrows(m)
        PROVE  \A b \in Slots : owner'[b] \in {owner[b], None}
    BY <2>1 DEF SaveTail, CatchReport, CopyThrows, TypeOK
  <2>2. QED
    BY <2>1, GrabFrame, OtherFrame, SaverFrame DEF Next
<1>4. QED
  BY <1>1, <1>2, <1>3 DEF TakenBeside

\* A finite set of integers has a least element.
LEMMA LeastElement ==
  ASSUME NEW T, T \subseteq Int, IsFiniteSet(T), T # {}
  PROVE  \E u \in T : \A v \in T : u <= v
<1> DEFINE Below(x) == {y \in T : y < x}
           D == {Below(x) : x \in T}
<1>1. D \subseteq FiniteSubsetsOf(T) /\ D # {}
  <2>1. ASSUME NEW x \in T
        PROVE  Below(x) \in FiniteSubsetsOf(T)
    <3>1. Below(x) \in SUBSET T
      OBVIOUS
    <3>2. IsFiniteSet(Below(x))
      BY <3>1, FS_Subset
    <3>3. QED
      BY <3>1, <3>2 DEF FiniteSubsetsOf
  <2>2. QED
    BY <2>1
<1>2. PICK d \in D : \A e \in D : <<e, d>> \notin StrictSubsetOrdering(T)
  BY <1>1, FS_StrictSubsetOrderingWellFounded, WFMin
<1>3. PICK u \in T : d = Below(u)
  BY <1>2
<1>4. ASSUME NEW v \in T PROVE u <= v
  <2>1. SUFFICES ASSUME v < u PROVE FALSE
    BY <1>3
  <2>2. Below(v) \subseteq Below(u) /\ v \in Below(u) /\ v \notin Below(v)
    <3>1. v \in Int /\ u \in Int
      BY <1>3
    <3>2. \A y \in T : y \in Int
      OBVIOUS
    <3>3. \A y \in T : y < v => y < u
      BY <2>1, <3>1, <3>2
    <3>4. ~(v < v)
      BY <3>1
    <3>5. QED
      BY <2>1, <3>3, <3>4
  <2>3. <<Below(v), Below(u)>> \in StrictSubsetOrdering(T)
    BY <2>2 DEF StrictSubsetOrdering
  <2>4. QED
    BY <1>2, <1>3, <2>3
<1>5. QED
  BY <1>3, <1>4

\* Modules that took a buffer and are Window or more past an owner k are within
\* a window of each other: one that is further on was let in when the first was
\* finished, so reported, and reported before k that is accepted before it.
LEMMA FarTogether ==
  ASSUME TypeOK, Identity, Windowed, OwnsOne, OwnsLate, WindowOrder,
         NEW b \in Slots, NEW k \in Modules, owner[b] = k,
         NEW i \in Modules, NEW j \in Modules,
         k + Window <= i, gpc[i] \notin {"stopped", "lost"}, gpc[j] # "idle"
  PROVE  j < i + Window
<1> SUFFICES ASSUME i + Window <= j PROVE FALSE
  BY ConstantsAssumption DEF ConstantsAssumption, Modules
<1>0. Window \in Nat \ {0} /\ k \in Int /\ i \in Int /\ j \in Int
  BY ConstantsAssumption DEF ConstantsAssumption, Modules
<1>1. Finished(i) /\ Finished(k)
  BY <1>0 DEF Windowed
<1>2. reported[i] # <<>> /\ reported[k] # <<>>
  <2>1. gpc[k] \in Grabbing \union {"start", "done"}
    BY DEF OwnsOne, None, Modules
  <2>2. QED
    BY <1>1, <2>1 DEF Finished, Grabbing
<1>3. PICK p \in 1 .. Len(accepted) : accepted[p] = k
  BY <1>2 DEF Identity, Reports, Accepted
<1>4. PICK q \in 1 .. Len(accepted) : accepted[q] = i
  BY <1>2 DEF Identity, Reports, Accepted
<1>5. Taken \in Int /\ p \in Int /\ q \in Int
  BY EntryTypes, LenProperties DEF Identity, TypeOK
<1>6. p = Taken
  BY <1>2, <1>3, <1>5 DEF OwnsLate, Identity, Reports
<1>7. q <= Taken
  BY <1>2, <1>4, <1>5 DEF Identity, Reports
<1>8. p < q
  BY <1>3, <1>4 DEF WindowOrder
<1>9. QED
  BY <1>5, <1>6, <1>7, <1>8

\* They fit in one window.
LEMMA FarWindow ==
  ASSUME NEW T, T \subseteq Int, IsFiniteSet(T),
         \A i, j \in T : j < i + Window
  PROVE  \E u \in Int : T \subseteq u .. u + Window - 1
<1>0. Window \in Nat \ {0}
  BY ConstantsAssumption DEF ConstantsAssumption
<1>1. CASE T = {}
  BY <1>1
<1>2. CASE T # {}
  <2>1. PICK u \in T : \A v \in T : u <= v
    BY <1>2, LeastElement
  <2>2. T \subseteq u .. u + Window - 1
    BY <1>0, <2>1
  <2>3. QED
    BY <2>1, <2>2
<1>3. QED
  BY <1>1, <1>2

\* The number of modules beside k.
LEMMA FewModules ==
  ASSUME NEW k \in Int, NEW u \in Int
  PROVE  LET J == (k - Window + 1 .. k - 1) \union (k + 1 .. k + Window - 1)
                    \union (u .. u + Window - 1)
         IN  IsFiniteSet(J) /\ Cardinality(J) <= 3 * Window - 2
<1> DEFINE A == k - Window + 1 .. k - 1
           B == k + 1 .. k + Window - 1
           C == u .. u + Window - 1
<1>0. Window \in Nat \ {0}
  BY ConstantsAssumption DEF ConstantsAssumption
<1>1. IsFiniteSet(A) /\ Cardinality(A) = Window - 1
  <2>1. k - Window + 1 \in Int /\ k - 1 \in Int
    BY <1>0
  <2>2. QED
    BY <1>0, <2>1, FS_Interval
<1>2. IsFiniteSet(B) /\ Cardinality(B) = Window - 1
  <2>1. k + 1 \in Int /\ k + Window - 1 \in Int
    BY <1>0
  <2>2. QED
    BY <1>0, <2>1, FS_Interval
<1>3. IsFiniteSet(C) /\ Cardinality(C) = Window
  <2>1. u + Window - 1 \in Int
    BY <1>0
  <2>2. QED
    BY <1>0, <2>1, FS_Interval
<1> HIDE DEF A, B, C
<1>4. /\ IsFiniteSet(A \union B)
      /\ Cardinality(A \union B) \in Nat
      /\ Cardinality(A \union B) <= 2 * Window - 2
  <2>1. IsFiniteSet(A \cap B)
    BY <1>1, FS_Intersection
  <2>2. Cardinality(A \cap B) \in Nat
    BY <2>1, FS_CardinalityType
  <2>3. IsFiniteSet(A \union B)
        /\ Cardinality(A \union B) = Cardinality(A) + Cardinality(B)
                                       - Cardinality(A \cap B)
    BY <1>1, <1>2, FS_Union
  <2>4. Cardinality(A \union B) \in Nat
    BY <2>3, FS_CardinalityType
  <2>5. QED
    BY <1>0, <1>1, <1>2, <2>2, <2>3, <2>4
<1>5. IsFiniteSet(A \union B \union C)
      /\ Cardinality(A \union B \union C) <= 3 * Window - 2
  <2>1. IsFiniteSet((A \union B) \cap C)
    BY <1>3, <1>4, FS_Intersection
  <2>2. Cardinality((A \union B) \cap C) \in Nat
    BY <2>1, FS_CardinalityType
  <2>3. IsFiniteSet((A \union B) \union C)
        /\ Cardinality((A \union B) \union C) =
             Cardinality(A \union B) + Cardinality(C)
               - Cardinality((A \union B) \cap C)
    BY <1>3, <1>4, FS_Union
  <2>4. QED
    BY <1>0, <1>3, <1>4, <2>2, <2>3
<1>6. QED
  BY <1>5 DEF A, B, C

\* The window is too short for NumBuffers takings beside an owner.
LEMMA RingFits ==
  ASSUME LongRing, CInv, ~overrun, Ring, [Next]_vars,
         NEW m \in Modules, ClaimBuffer(m)
  PROVE  owner[NextSlot] = None
<1> SUFFICES ASSUME owner[NextSlot] # None PROVE FALSE
  OBVIOUS
<1>1. TypeOK /\ Identity /\ Windowed /\ OwnsOne /\ OwnsLate /\ WindowOrder
  BY DEF CInv, IInv, Ring
<1>2. PICK k \in Modules : owner[NextSlot] = k
  BY <1>1, SlotTypes DEF TypeOK
<1>3. NextSlot \in Slots /\ scanIdx \in Slots
  BY <1>1, SlotTypes DEF TypeOK
<1> DEFINE new == <<m, ClaimsMade(m) + 1>>
           S == ClaimsBeside(k) \union {new}
<1>4. /\ k # m /\ k < m + Window
      /\ reported[m] = <<>> /\ ClaimsMade(m) + 1 \in 1 .. MaxClaims
      /\ new \notin ClaimsBeside(k)
  BY <1>1, <1>2, <1>3, ClaimerBeside
<1>5. IsFiniteSet(S) /\ Cardinality(S) >= NumBuffers
  <2>1. Since(NextSlot) = NumBuffers - 1
    BY <1>3, ConstantsAssumption
       DEF Since, Slots, NextSlot, ConstantsAssumption
  <2>2. Since(NextSlot) <= Cardinality(ClaimsBeside(k))
    BY <1>2, <1>3 DEF Ring, TakenBeside
  <2>3. IsFiniteSet(ClaimsBeside(k)) /\ Cardinality(ClaimsBeside(k)) \in Nat
    BY <1>1, BesideGrows
  <2>4. IsFiniteSet(S) /\ Cardinality(S) = Cardinality(ClaimsBeside(k)) + 1
    BY <1>4, <2>3, FS_AddElement
  <2>5. QED
    BY <2>1, <2>2, <2>3, <2>4, ConstantsAssumption DEF ConstantsAssumption
<1> DEFINE Far == {j \in Modules : /\ k + Window <= j
                                   /\ ClaimsMade(j) > 0 \/ j = m}
<1>6. PICK u \in Int : Far \subseteq u .. u + Window - 1
  <2>1. Far \subseteq Int /\ IsFiniteSet(Far)
    <3>1. IsFiniteSet(Modules)
      <4>1. 1 \in Int /\ NumModules \in Int
        BY ConstantsAssumption DEF ConstantsAssumption
      <4>2. QED
        BY <4>1, FS_Interval DEF Modules
    <3>2. QED
      <4>1. Far \in SUBSET Modules /\ Modules \subseteq Int
        BY DEF Modules
      <4> HIDE DEF Far
      <4>2. QED
        BY <3>1, <4>1, FS_Subset
  <2>2. \A j \in Far : gpc[j] \notin {"idle", "stopped", "lost"}
    BY DEF ClaimsMade, ClaimBuffer
  <2>3. \A i, j \in Far : j < i + Window
    BY <1>1, <1>2, <1>3, <2>2, FarTogether
  <2>4. QED
    BY <2>1, <2>3, FarWindow
<1> DEFINE J == (k - Window + 1 .. k - 1) \union (k + 1 .. k + Window - 1)
                  \union (u .. u + Window - 1)
<1>7. S \subseteq J \X (1 .. MaxClaims)
  <2>1. ASSUME NEW c \in Modules \X (1 .. 2), c[1] # k, k < c[1] + Window,
               c[1] = m \/ ClaimsMade(c[1]) > 0
        PROVE  c[1] \in J
    <3>1. c[1] \in Int /\ k \in Int /\ Window \in Nat
      BY ConstantsAssumption DEF ConstantsAssumption, Modules
    <3>2. CASE k + Window <= c[1]
      BY <1>6, <2>1, <3>2
    <3>3. CASE ~(k + Window <= c[1])
      BY <2>1, <3>1, <3>3
    <3>4. QED
      BY <3>2, <3>3
  <2>2. ASSUME NEW c \in ClaimsBeside(k)
        PROVE  c \in J \X (1 .. MaxClaims)
    <3>1. /\ c \in Modules \X (1 .. 2) /\ c[1] # k /\ k < c[1] + Window
          /\ c[2] <= ClaimsMade(c[1])
      BY DEF ClaimsBeside
    <3>2. c[2] \in 1 .. 2 /\ ClaimsMade(c[1]) \in 0 .. MaxClaims
      BY <1>1, <3>1, ClaimsGrow
    <3>3. ClaimsMade(c[1]) > 0 /\ c[2] \in 1 .. MaxClaims
      BY <3>1, <3>2 DEF MaxClaims
    <3>4. QED
      BY <2>1, <3>1, <3>3
  <2>3. new \in J \X (1 .. MaxClaims)
    <3>1. <<m, 1>> \in Modules \X (1 .. 2)
      OBVIOUS
    <3>2. m \in J
      BY <1>4, <2>1, <3>1
    <3>3. QED
      BY <1>4, <3>2
  <2>4. QED
    BY <2>2, <2>3
<1>8. Cardinality(S) <= MaxClaims * (3 * Window - 2)
  <2>1. k \in Int
    BY DEF Modules
  <2>2. IsFiniteSet(J) /\ Cardinality(J) <= 3 * Window - 2
    BY <2>1, FewModules
  <2>3. IsFiniteSet(1 .. MaxClaims) /\ Cardinality(1 .. MaxClaims) = MaxClaims
    <3>1. 1 \in Int /\ MaxClaims \in {1, 2}
      BY DEF MaxClaims
    <3>2. QED
      BY <3>1, FS_Interval
  <2> HIDE DEF J, S
  <2>4. /\ IsFiniteSet(J \X (1 .. MaxClaims))
        /\ Cardinality(J \X (1 .. MaxClaims)) = Cardinality(J) * MaxClaims
    BY <2>2, <2>3, FS_Product
  <2>5. Cardinality(S) <= Cardinality(J \X (1 .. MaxClaims))
    BY <1>7, <2>4, FS_Subset
  <2>6. /\ Cardinality(J) \in Nat /\ Cardinality(S) \in Nat
        /\ Window \in Nat /\ MaxClaims \in {1, 2}
    BY <1>5, <2>2, FS_CardinalityType, ConstantsAssumption
       DEF ConstantsAssumption, MaxClaims
  <2>7. Cardinality(S) <= Cardinality(J) * MaxClaims
    BY <2>4, <2>5
  <2>8. CASE MaxClaims = 1
    BY <2>2, <2>6, <2>7, <2>8
  <2>9. CASE MaxClaims = 2
    BY <2>2, <2>6, <2>7, <2>9
  <2>10. QED
    BY <2>6, <2>8, <2>9
<1>9. /\ Cardinality(S) \in Nat /\ NumBuffers \in Nat
      /\ MaxClaims * (3 * Window - 2) \in Int
  BY <1>5, FS_CardinalityType, ConstantsAssumption
     DEF ConstantsAssumption, MaxClaims
<1>10. QED
  BY <1>5, <1>8, <1>9 DEF LongRing

RingInv == CInv /\ ~overrun /\ Ring

\* No buffer is owned initially.
LEMMA RingInit == Init => RingInv
<1> SUFFICES ASSUME Init PROVE RingInv
  OBVIOUS
<1>1. CInv
  BY IdentityInit, CountsInit DEF CInv
<1>2. Len(accepted) = 0
  BY EmptySeq DEF Init
<1>3. QED
  BY <1>1, <1>2 DEF Init, RingInv, Ring, Windowed, OwnsOne, OwnsLate,
                    WindowOrder, TakenBeside

\* No step breaks the invariant of a long ring, nor overruns it.
LEMMA RingNext ==
  ASSUME LongRing, RingInv, [Next]_vars
  PROVE  RingInv'
<1>1. TypeOK /\ SaverFlag /\ Identity /\ CInv /\ ~overrun
  BY DEF RingInv, CInv, IInv
<1>2. Windowed /\ OwnsOne /\ OwnsLate /\ WindowOrder /\ TakenBeside
  BY DEF RingInv, Ring
<1>3. CInv'
  BY <1>1, CountsInductive
<1>4. ~overrun'
  <2>1. ASSUME NEW m \in Modules, ClaimBuffer(m)
        PROVE  ~overrun'
    BY <1>1, <2>1, RingFits DEF RingInv, ClaimBuffer
  <2>2. ASSUME NEW m \in Modules, InspectionMove(m) \/ GrabThread(m)
        PROVE  ClaimBuffer(m) \/ UNCHANGED overrun
    BY <2>2 DEF InspectionMove, GrabThread, GrabDone, GrabStopped, GrabThrows,
                GrabHold, FillBuffer, CopyThrows, MarkInspecting, AddScan,
                AddInspect, StartThread, ghostVars
  <2>3. ASSUME NEW w \in Workers, AlgorithmThread(w)
        PROVE  UNCHANGED overrun
    BY <2>3 DEF AlgorithmThread, ThreadBegin, CheckQueue, PopInspect, Inspect,
                InspectThrows, PostResult, WakeSaver, ThreadEnd, ghostVars
  <2>4. ResultSaveThread => UNCHANGED overrun
    BY DEF ResultSaveThread, SaverBegin, TakeScan, InspectDone, Judge,
           JudgeThrows, InspectComplete, SaveTail, AlarmThrows, CatchRelease,
           CatchReport, SaverEnd, ghostVars
  <2>5. UNCHANGED vars => UNCHANGED overrun
    BY DEF vars, ghostVars
  <2>6. QED
    BY <1>1, <2>1, <2>2, <2>3, <2>4, <2>5 DEF Next
<1>5. Windowed' /\ WindowOrder'
  BY <1>1, <1>2, WindowedNext, WindowOrderNext
<1>6. OwnsOne' /\ OwnsLate'
  BY <1>1, <1>2, OwnsOneNext, OwnsLateNext
<1>7. TakenBeside'
  BY <1>1, <1>2, TakenBesideNext
<1>8. QED
  BY <1>3, <1>4, <1>5, <1>6, <1>7 DEF RingInv, Ring

\* A ring longer than the takings that fit beside an owner in the handler's
\* window is never run over, although PrepareAlgorithmBuffer looks at nothing:
\* 3 * Window - 2 buffers and one, twice as many when image copies can throw.
THEOREM LongRingNeverOverruns == LongRing => (Spec => []NoOverrun)
<1> SUFFICES ASSUME LongRing PROVE Spec => []NoOverrun
  OBVIOUS
<1>1. RingInv /\ [Next]_vars => RingInv'
  BY RingNext
<1>2. RingInv => NoOverrun
  BY DEF RingInv, NoOverrun
<1>3. QED
  BY <1>1, <1>2, RingInit, PTL DEF Spec

\* So with such a ring the pipeline is an inspection line, with no condition on
\* the run: the buffers' reuse, the threads' races and the faults do not show.
THEOREM LongRingImplementsLine == LongRing => (Spec => LineSpec)
<1> SUFFICES ASSUME LongRing PROVE Spec => LineSpec
  OBVIOUS
<1>1. Spec => []NoOverrun
  BY LongRingNeverOverruns
<1>2. QED
  BY <1>1, ImplementsLine, PTL

=============================================================================
