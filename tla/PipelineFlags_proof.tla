------------------------- MODULE PipelineFlags_proof -------------------------
(***************************************************************************)
(* The verdict fits the grab.  The flags that decide a verdict belong to   *)
(* the buffer (m_bGrabFail[idx], m_bMatchingSuccess[idx]) and are written  *)
(* by different threads; the module they speak of is gone by the time the  *)
(* result-save thread reads them.  Flags says where each flag is the one   *)
(* of the module that holds the buffer.                                    *)
(***************************************************************************)
EXTENDS InspectPipeline_proof

\* m_bGrabFail follows the module from FillBuffer to the verdict.
GrabFlags ==
  /\ \A m \in Modules : gpc[m] \in {"mark", "qscan", "qinsp"} =>
       grabFail[gslot[m]] = failed[m]
  /\ \A i \in 1 .. Len(scanQ) : grabFail[scanQ[i]] = failed[accepted[Taken + i]]
  /\ spc \in {"poll", "judge"} => grabFail[sslot] = failed[accepted[Taken]]

\* A matched buffer is no failed grab, once its inspection is over.
MatchFlags ==
  /\ \A w \in Workers :
       wpc[w] = "post" /\ matched[wslot[w]] => ~grabFail[wslot[w]]
  /\ \A b \in Slots : status[b] = POSTPROCESSING =>
       /\ Accepted(owner[b])
       /\ matched[b] => ~grabFail[b]

\* The result-save thread judges a buffer that is inspected, frees it, and
\* reports what it judged.
SaverFlags ==
  /\ spc = "judge" => status[sslot] = POSTPROCESSING
  /\ spc \in {"report", "alarm", "reread"} => status[sslot] # POSTPROCESSING
  /\ spc = "report" => /\ verdict = "OK" => ~failed[smodule]
                       /\ verdict = "GF" => failed[smodule]

Truthful(r, fail) ==
  \A i \in 1 .. Len(r) : (r[i] = "OK" => ~fail) /\ (r[i] = "GF" => fail)

ReportFlags == \A m \in Modules : Truthful(reported[m], failed[m])

Flags == GrabFlags /\ MatchFlags /\ SaverFlags /\ ReportFlags

-----------------------------------------------------------------------------
(* Frames.                                                                 *)

\* A verdict is not about a module that is still in its grab thread's hands.
LEMMA GrabberUnjudged ==
  ASSUME TypeOK, Identity, NEW m \in Modules, gpc[m] \in BeforeScan
  PROVE  /\ reported[m] = <<>>
         /\ \A i \in 1 .. Len(accepted) : accepted[i] # m
         /\ \A i \in 1 .. Len(scanQ) : accepted[Taken + i] # m
         /\ spc \in Holding => accepted[Taken] # m
         /\ spc = "report" => smodule # m
<1>1. ~Accepted(m)
  BY DEF Identity, AcceptedOnce
<1>2. \A i \in 1 .. Len(accepted) : accepted[i] # m
  BY <1>1 DEF Accepted
<1>3. reported[m] = <<>>
  BY <1>1 DEF Identity, Reports
<1>4. \A i \in 1 .. Len(scanQ) : accepted[Taken + i] # m
  BY <1>2, EntryTypes DEF Identity
<1>5. spc \in Holding => accepted[Taken] # m
  BY <1>2, SaverAlone
<1>6. spc = "report" => smodule # m
  BY <1>5 DEF Identity, SaverHolds, Holding
<1>7. QED
  BY <1>2, <1>3, <1>4, <1>5, <1>6

\* Steps that touch no flag and move no thread into a state Flags speaks of.
LEMMA FlagsFrame ==
  ASSUME Flags,
         UNCHANGED <<failed, gslot, grabFail, matched, status, scanQ, spc,
                     sslot, smodule, verdict, reported, accepted, owner>>,
         \A m \in Modules :
           gpc'[m] \in {"mark", "qscan", "qinsp"} =>
             gpc[m] \in {"mark", "qscan", "qinsp"},
         \A w \in Workers : wpc'[w] = "post" =>
           wpc[w] = "post" /\ wslot'[w] = wslot[w]
  PROVE  Flags'
<1>1. GrabFlags'
  BY DEF Flags, GrabFlags, Taken
<1>2. MatchFlags'
  BY DEF Flags, MatchFlags, Accepted
<1>3. SaverFlags' /\ ReportFlags'
  BY DEF Flags, SaverFlags, ReportFlags
<1>4. QED
  BY <1>1, <1>2, <1>3 DEF Flags

-----------------------------------------------------------------------------
(* The grab threads.                                                       *)

\* Steps of a grab thread outside CopyInspectInformation, and its last ones.
LEMMA GrabQuietFlags ==
  ASSUME TypeOK, Flags, NEW m \in Modules,
         \/ InspectionMove(m) \/ GrabStopped(m) \/ GrabThrows(m)
         \/ GrabHold(m) \/ StartThread(m)
  PROVE  Flags'
<1>1. CASE StartThread(m)
  <2>1. \A k \in Modules : gpc'[k] \in {"mark", "qscan", "qinsp"} =>
          gpc[k] \in {"mark", "qscan", "qinsp"}
    BY <1>1 DEF StartThread, TypeOK
  <2>2. \A w \in Workers : wpc'[w] = "post" => wpc[w] = "post"
    BY <1>1 DEF StartThread, TypeOK
  <2>3. QED
    BY <1>1, <2>1, <2>2, FlagsFrame
       DEF StartThread, bufferVars, queueVars, saveVars, ghostVars
<1>2. CASE InspectionMove(m) \/ GrabStopped(m) \/ GrabThrows(m) \/ GrabHold(m)
  <2>1. \A k \in Modules : gpc'[k] \in {"mark", "qscan", "qinsp"} =>
          gpc[k] \in {"mark", "qscan", "qinsp"}
    BY <1>2 DEF InspectionMove, GrabStopped, GrabThrows, GrabHold, TypeOK
  <2>2. /\ UNCHANGED <<failed, gslot, grabFail, matched, status, scanQ, spc,
                       sslot, smodule, verdict, reported, accepted, owner>>
        /\ UNCHANGED <<wpc, wslot>>
    BY <1>2 DEF InspectionMove, GrabStopped, GrabThrows, GrabHold, bufferVars,
                queueVars, workVars, saveVars, ghostVars
  <2>3. QED
    BY <2>1, <2>2, FlagsFrame
<1>3. QED
  BY <1>1, <1>2

\* The grab fails before the module is accepted: no verdict is about it yet.
LEMMA GrabDoneFlags ==
  ASSUME TypeOK, Identity, Flags, NEW m \in Modules, GrabDone(m)
  PROVE  Flags'
<1> USE DEF GrabDone, bufferVars, queueVars, workVars, saveVars, ghostVars
<1>1. /\ gpc[m] \in BeforeScan
      /\ \A k \in Modules : k # m => failed'[k] = failed[k]
  BY DEF BeforeScan, TypeOK
<1>2. \A k \in Modules : gpc'[k] \in {"mark", "qscan", "qinsp"} =>
        k # m /\ gpc[k] \in {"mark", "qscan", "qinsp"}
  BY DEF TypeOK
<1>3. GrabFlags'
  <2>1. \A k \in Modules : gpc'[k] \in {"mark", "qscan", "qinsp"} =>
          grabFail[gslot[k]] = failed'[k]
    BY <1>1, <1>2 DEF Flags, GrabFlags
  <2>2. \A i \in 1 .. Len(scanQ) :
          grabFail[scanQ[i]] = failed'[accepted[Taken + i]]
    BY <1>1, GrabberUnjudged, EntryTypes DEF Flags, GrabFlags, Identity
  <2>3. spc \in {"poll", "judge"} =>
          grabFail[sslot] = failed'[accepted[Taken]]
    BY <1>1, GrabberUnjudged, SaverAlone, EntryTypes
       DEF Flags, GrabFlags, Identity, Holding
  <2>4. QED
    BY <2>1, <2>2, <2>3 DEF GrabFlags, Taken
<1>4. MatchFlags'
  BY DEF Flags, MatchFlags, Accepted
<1>5. SaverFlags'
  <2>1. spc = "report" => smodule \in Modules /\ smodule # m
    BY <1>1, GrabberUnjudged, SaverAlone, EntryTypes
       DEF Identity, SaverHolds, Holding
  <2>2. QED
    BY <1>1, <2>1 DEF Flags, SaverFlags
<1>6. ReportFlags'
  <2>1. Truthful(reported[m], failed'[m])
    BY <1>1, GrabberUnjudged, EmptySeq DEF Truthful
  <2>2. QED
    BY <1>1, <2>1 DEF Flags, ReportFlags
<1>7. QED
  BY <1>3, <1>4, <1>5, <1>6 DEF Flags

\* The buffer a grab thread takes belonged to nobody: no flag of it counts.
LEMMA ClaimBufferFlags ==
  ASSUME TypeOK, Identity, Flags, NEW m \in Modules, ClaimBuffer(m), ~overrun'
  PROVE  Flags'
<1> USE DEF ClaimBuffer, queueVars, workVars, saveVars
<1>1. owner[NextSlot] = None /\ NextSlot \in Slots
  BY SlotTypes DEF TypeOK
<1>2. /\ \A k \in Modules : gpc'[k] \in {"mark", "qscan", "qinsp"} =>
           /\ gpc[k] \in {"mark", "qscan", "qinsp"}
           /\ gslot'[k] = gslot[k]
      /\ \A b \in Slots : b # NextSlot => owner'[b] = owner[b]
  BY <1>1 DEF TypeOK
<1>3. status[NextSlot] # POSTPROCESSING
  BY <1>1, EntryTypes DEF Flags, MatchFlags, Accepted, Identity
<1>4. GrabFlags'
  BY <1>2 DEF Flags, GrabFlags, Taken
<1>5. MatchFlags'
  BY <1>2, <1>3 DEF Flags, MatchFlags, Accepted
<1>6. SaverFlags' /\ ReportFlags'
  BY DEF Flags, SaverFlags, ReportFlags
<1>7. QED
  BY <1>4, <1>5, <1>6 DEF Flags

\* CopyInspectInformation writes m_bGrabFail of a buffer nobody else holds.
LEMMA FillBufferFlags ==
  ASSUME TypeOK, Identity, Flags, NEW m \in Modules, FillBuffer(m)
  PROVE  Flags'
<1> USE DEF FillBuffer, queueVars, workVars, saveVars, ghostVars
<1> DEFINE b0 == gslot[m]
<1>1. /\ b0 \in Slots
      /\ grabFail'[b0] = failed[m]
      /\ \A b \in Slots : b # b0 => grabFail'[b] = grabFail[b]
  BY DEF TypeOK
<1>2. /\ \A i \in 1 .. Len(scanQ) : scanQ[i] # b0
      /\ spc \in Holding => sslot # b0
      /\ ~ToInspect(b0)
      /\ \A k \in Modules : gpc[k] \in Grabbing /\ gslot[k] = b0 => k = m
      /\ owner[b0] = m
  BY GrabberAlone DEF TypeOK
<1>3. GrabFlags'
  <2>1. \A k \in Modules : gpc'[k] \in {"mark", "qscan", "qinsp"} =>
          grabFail'[gslot[k]] = failed[k]
    <3>1. ASSUME NEW k \in Modules, k # m,
                 gpc'[k] \in {"mark", "qscan", "qinsp"}
          PROVE  grabFail'[gslot[k]] = failed[k]
      <4>1. gpc[k] \in {"mark", "qscan", "qinsp"}
        BY <3>1 DEF TypeOK
      <4>2. gslot[k] # b0 /\ gslot[k] \in Slots
        BY <1>2, <3>1, <4>1 DEF Grabbing, TypeOK
      <4>3. QED
        BY <1>1, <4>1, <4>2 DEF Flags, GrabFlags
    <3>2. QED
      BY <1>1, <3>1
  <2>2. \A i \in 1 .. Len(scanQ) :
          grabFail'[scanQ[i]] = failed[accepted[Taken + i]]
    BY <1>1, <1>2, EntryTypes DEF Flags, GrabFlags, Identity
  <2>3. spc \in {"poll", "judge"} => grabFail'[sslot] = failed[accepted[Taken]]
    BY <1>1, <1>2 DEF Flags, GrabFlags, Holding, TypeOK
  <2>4. QED
    BY <2>1, <2>2, <2>3 DEF GrabFlags, Taken
<1>4. MatchFlags'
  <2>1. \A w \in Workers : wpc[w] = "post" => wslot[w] # b0 /\ wslot[w] \in Slots
    BY <1>2 DEF ToInspect, TypeOK
  <2>2. status[b0] # POSTPROCESSING
    BY <1>1, <1>2 DEF Flags, MatchFlags, Identity, AcceptedOnce, BeforeScan
  <2>3. QED
    BY <1>1, <2>1, <2>2 DEF Flags, MatchFlags, Accepted
<1>5. SaverFlags' /\ ReportFlags'
  BY DEF Flags, SaverFlags, ReportFlags
<1>6. QED
  BY <1>3, <1>4, <1>5 DEF Flags

\* The copy fails before the module is accepted, and gives its buffer back.
LEMMA CopyThrowsFlags ==
  ASSUME TypeOK, Identity, Flags, NEW m \in Modules, CopyThrows(m)
  PROVE  Flags'
<1> USE DEF CopyThrows, queueVars, workVars, saveVars
<1> DEFINE b0 == gslot[m]
<1>1. /\ b0 \in Slots
      /\ \A b \in Slots : b # b0 =>
           grabFail'[b] = grabFail[b] /\ owner'[b] = owner[b]
      /\ \A k \in Modules : k # m => failed'[k] = failed[k]
      /\ gpc[m] \in BeforeScan
  BY DEF TypeOK, BeforeScan
<1>2. /\ \A i \in 1 .. Len(scanQ) : scanQ[i] # b0
      /\ spc \in Holding => sslot # b0
      /\ ~ToInspect(b0)
      /\ \A k \in Modules : gpc[k] \in Grabbing /\ gslot[k] = b0 => k = m
      /\ owner[b0] = m
  BY GrabberAlone DEF TypeOK
<1>3. GrabFlags'
  <2>1. \A k \in Modules : gpc'[k] \in {"mark", "qscan", "qinsp"} =>
          grabFail'[gslot[k]] = failed'[k]
    <3>1. ASSUME NEW k \in Modules, gpc'[k] \in {"mark", "qscan", "qinsp"}
          PROVE  grabFail'[gslot[k]] = failed'[k]
      <4>1. k # m /\ gpc[k] \in {"mark", "qscan", "qinsp"}
        BY <3>1 DEF TypeOK
      <4>2. gslot[k] # b0 /\ gslot[k] \in Slots
        BY <1>2, <3>1, <4>1 DEF Grabbing, TypeOK
      <4>3. QED
        BY <1>1, <4>1, <4>2 DEF Flags, GrabFlags
    <3>2. QED
      BY <3>1
  <2>2. \A i \in 1 .. Len(scanQ) :
          grabFail'[scanQ[i]] = failed'[accepted[Taken + i]]
    <3>1. \A i \in 1 .. Len(scanQ) :
            /\ scanQ[i] \in Slots /\ scanQ[i] # b0
            /\ accepted[Taken + i] \in Modules /\ accepted[Taken + i] # m
      BY <1>1, <1>2, EntryTypes, GrabberUnjudged DEF Identity
    <3>2. QED
      BY <1>1, <3>1 DEF Flags, GrabFlags
  <2>3. spc \in {"poll", "judge"} =>
          grabFail'[sslot] = failed'[accepted[Taken]]
    BY <1>1, <1>2, EntryTypes, GrabberUnjudged, SaverAlone
       DEF Flags, GrabFlags, Holding, TypeOK, Identity
  <2>4. QED
    BY <2>1, <2>2, <2>3 DEF GrabFlags, Taken
<1>4. MatchFlags'
  <2>1. \A w \in Workers : wpc[w] = "post" => wslot[w] # b0 /\ wslot[w] \in Slots
    BY <1>2 DEF ToInspect, TypeOK
  <2>2. status[b0] # POSTPROCESSING
    BY <1>1, <1>2 DEF Flags, MatchFlags, Identity, AcceptedOnce, BeforeScan
  <2>3. QED
    BY <1>1, <2>1, <2>2 DEF Flags, MatchFlags, Accepted
<1>5. SaverFlags'
  <2>1. spc = "report" => smodule \in Modules /\ smodule # m
    BY <1>1, GrabberUnjudged, SaverAlone, EntryTypes
       DEF Identity, SaverHolds, Holding
  <2>2. QED
    BY <1>1, <2>1 DEF Flags, SaverFlags
<1>6. ReportFlags'
  <2>1. Truthful(reported[m], failed'[m])
    BY <1>1, GrabberUnjudged, EmptySeq DEF Truthful
  <2>2. QED
    BY <1>1, <2>1 DEF Flags, ReportFlags
<1>7. QED
  BY <1>3, <1>4, <1>5, <1>6 DEF Flags

\* The buffer of a module that is not accepted yet is nobody's result.
LEMMA MarkInspectingFlags ==
  ASSUME TypeOK, Identity, Flags, NEW m \in Modules, MarkInspecting(m)
  PROVE  Flags'
<1> USE DEF MarkInspecting, queueVars, workVars, saveVars, ghostVars
<1>1. /\ \A b \in Slots : b # gslot[m] => status'[b] = status[b]
      /\ status'[gslot[m]] = INSPECTING
      /\ gslot[m] \in Slots
  BY DEF TypeOK
<1>2. /\ \A k \in Modules : gpc'[k] \in {"mark", "qscan", "qinsp"} =>
           gpc[k] \in {"mark", "qscan", "qinsp"}
      /\ spc \in Holding => sslot # gslot[m]
  BY GrabberAlone DEF TypeOK
<1>3. GrabFlags'
  BY <1>2 DEF Flags, GrabFlags, Taken
<1>4. MatchFlags'
  <2>1. \A b \in Slots : status'[b] = POSTPROCESSING => status[b] = POSTPROCESSING
    BY <1>1 DEF INSPECTING, POSTPROCESSING
  <2>2. QED
    BY <2>1 DEF Flags, MatchFlags, Accepted
<1>5. SaverFlags'
  BY <1>1, <1>2 DEF Flags, SaverFlags, Holding, INSPECTING, POSTPROCESSING, TypeOK
<1>6. ReportFlags'
  BY DEF Flags, ReportFlags
<1>7. QED
  BY <1>3, <1>4, <1>5, <1>6 DEF Flags

\* The new entry of the scan queue has the flag its grab thread gave it.
LEMMA AddScanFlags ==
  ASSUME TypeOK, Identity, Flags, NEW m \in Modules, AddScan(m)
  PROVE  Flags'
<1> USE DEF AddScan, bufferVars, workVars, saveVars
<1>1. /\ Len(scanQ) \in Nat /\ Len(accepted) \in Nat
      /\ Len(scanQ') = Len(scanQ) + 1 /\ Len(accepted') = Len(accepted) + 1
      /\ \A i \in 1 .. Len(scanQ) : scanQ'[i] = scanQ[i]
      /\ \A i \in 1 .. Len(accepted) : accepted'[i] = accepted[i]
      /\ scanQ'[Len(scanQ) + 1] = gslot[m]
      /\ accepted'[Len(accepted) + 1] = m
  BY LenProperties, AppendProperties DEF TypeOK
<1>2. Taken' = Taken /\ Taken + (Len(scanQ) + 1) = Len(accepted) + 1
  BY <1>1 DEF Taken
<1>3. GrabFlags'
  <2>1. \A k \in Modules : gpc'[k] \in {"mark", "qscan", "qinsp"} =>
          grabFail[gslot[k]] = failed[k]
    BY DEF Flags, GrabFlags, TypeOK
  <2>2. ASSUME NEW i \in 1 .. Len(scanQ')
        PROVE  grabFail[scanQ'[i]] = failed[accepted'[Taken + i]]
    <3>1. CASE i \in 1 .. Len(scanQ)
      <4>1. /\ scanQ'[i] = scanQ[i]
            /\ accepted'[Taken + i] = accepted[Taken + i]
        BY <1>1, <3>1, EntryTypes DEF Identity
      <4>2. QED
        BY <3>1, <4>1 DEF Flags, GrabFlags
    <3>2. CASE i = Len(scanQ) + 1
      BY <1>1, <1>2, <3>2 DEF Flags, GrabFlags
    <3>3. \A n \in Nat : \A j \in 1 .. n + 1 : j \in 1 .. n \/ j = n + 1
      OBVIOUS
    <3>4. QED
      BY <1>1, <3>1, <3>2, <3>3
  <2>3. spc \in {"poll", "judge"} =>
          grabFail[sslot] = failed[accepted'[Taken]]
    BY <1>1, SaverAlone DEF Flags, GrabFlags, Holding
  <2>4. QED
    BY <1>2, <2>1, <2>2, <2>3 DEF GrabFlags
<1>4. MatchFlags'
  <2>1. \A k : Accepted(k) => Accepted(k)'
    BY <1>1 DEF Accepted
  <2>2. QED
    BY <2>1 DEF Flags, MatchFlags
<1>5. SaverFlags' /\ ReportFlags'
  BY DEF Flags, SaverFlags, ReportFlags
<1>6. QED
  BY <1>3, <1>4, <1>5 DEF Flags

\* The grab thread forgets the index of its buffer.
LEMMA AddInspectFlags ==
  ASSUME TypeOK, Identity, Flags, NEW m \in Modules, AddInspect(m)
  PROVE  Flags'
<1> USE DEF AddInspect, bufferVars, workVars, saveVars, ghostVars
<1>1. \A k \in Modules : gpc'[k] \in {"mark", "qscan", "qinsp"} =>
        gpc[k] \in {"mark", "qscan", "qinsp"} /\ gslot'[k] = gslot[k]
  BY DEF TypeOK
<1>2. GrabFlags'
  BY <1>1 DEF Flags, GrabFlags, Taken
<1>3. MatchFlags'
  BY DEF Flags, MatchFlags, Accepted
<1>4. SaverFlags' /\ ReportFlags'
  BY DEF Flags, SaverFlags, ReportFlags
<1>5. QED
  BY <1>2, <1>3, <1>4 DEF Flags

-----------------------------------------------------------------------------
(* The algorithm threads.                                                  *)

\* Steps of an algorithm thread that write no buffer.
LEMMA AlgorithmQuietFlags ==
  ASSUME TypeOK, SaverFlag, Flags, NEW w \in Workers,
         \/ ThreadBegin(w) \/ CheckQueue(w) \/ PopInspect(w)
         \/ WakeSaver(w) \/ ThreadEnd(w)
  PROVE  Flags'
<1>1. CASE ThreadBegin(w) \/ CheckQueue(w) \/ ThreadEnd(w)
  <2>1. \A v \in Workers : wpc'[v] = "post" => wpc[v] = "post"
    BY <1>1 DEF ThreadBegin, CheckQueue, ThreadEnd, TypeOK
  <2>2. UNCHANGED <<grabVars, bufferVars, queueVars, wslot, saveVars, ghostVars>>
    BY <1>1 DEF ThreadBegin, CheckQueue, ThreadEnd
  <2>3. QED
    BY <2>1, <2>2, FlagsFrame
       DEF grabVars, bufferVars, queueVars, saveVars, ghostVars
<1>2. CASE PopInspect(w)
  <2>1. \A v \in Workers : wpc'[v] = "post" =>
          wpc[v] = "post" /\ wslot'[v] = wslot[v]
    BY <1>2 DEF PopInspect, TypeOK
  <2>2. UNCHANGED <<grabVars, bufferVars, scanQ, saveVars, ghostVars>>
    BY <1>2 DEF PopInspect
  <2>3. QED
    BY <2>1, <2>2, FlagsFrame DEF grabVars, bufferVars, saveVars, ghostVars
<1>3. CASE WakeSaver(w)
  <2>1. \A v \in Workers : wpc'[v] = "post" => wpc[v] = "post"
    BY <1>3 DEF WakeSaver, TypeOK
  <2>2. spc' = spc \/ (spc = "none" /\ spc' = "begin")
    BY <1>3 DEF WakeSaver, SaverFlag
  <2>3. UNCHANGED <<grabVars, bufferVars, queueVars, wslot, sslot, smodule,
                    verdict, reported, ghostVars>>
    BY <1>3 DEF WakeSaver
  <2>4. GrabFlags'
    BY <2>2, <2>3 DEF Flags, GrabFlags, Taken, grabVars, bufferVars, queueVars,
                      ghostVars
  <2>5. MatchFlags'
    BY <2>1, <2>3 DEF Flags, MatchFlags, Accepted, bufferVars, ghostVars
  <2>6. SaverFlags' /\ ReportFlags'
    BY <2>2, <2>3 DEF Flags, SaverFlags, ReportFlags, grabVars, bufferVars
  <2>7. QED
    BY <2>4, <2>5, <2>6 DEF Flags
<1>4. QED
  BY <1>1, <1>2, <1>3

\* A failed grab never matches, and the buffer is no result yet.
LEMMA InspectFlags ==
  ASSUME TypeOK, Identity, Flags, NEW w \in Workers,
         Inspect(w) \/ InspectThrows(w)
  PROVE  Flags'
<1> DEFINE b0 == wslot[w]
<1>1. /\ b0 \in Slots /\ wpc[w] = "inspect"
      /\ \A b \in Slots : b # b0 => matched'[b] = matched[b]
      /\ matched'[b0] => ~grabFail[b0]
      /\ \A v \in Workers : v # w => wpc'[v] = wpc[v]
      /\ UNCHANGED <<grabVars, moduleNo, grabFail, status, queueVars, wslot,
                     saveVars, ghostVars>>
  <2>1. /\ wpc[w] = "inspect"
        /\ UNCHANGED <<grabVars, moduleNo, grabFail, status, queueVars, wslot,
                       saveVars, ghostVars>>
    BY DEF Inspect, InspectThrows
  <2>2. /\ matched \in [Slots -> BOOLEAN] /\ b0 \in Slots
        /\ wpc \in [Workers -> WorkerStates]
    BY DEF TypeOK
  <2>3. PICK ok \in BOOLEAN : /\ matched' = [matched EXCEPT ![b0] = ok]
                              /\ ok => ~grabFail[b0]
    BY DEF Inspect, InspectThrows
  <2>4. wpc' = [wpc EXCEPT ![w] = "post"]
    BY DEF Inspect, InspectThrows
  <2>5. /\ \A b \in Slots : b # b0 => matched'[b] = matched[b]
        /\ matched'[b0] => ~grabFail[b0]
    BY <2>2, <2>3
  <2>6. QED
    BY <2>1, <2>2, <2>4, <2>5
<1>2. status[b0] = INSPECTING
  BY <1>1 DEF Identity, ToInspectOnce, ToInspect
<1>3. GrabFlags'
  BY <1>1 DEF Flags, GrabFlags, Taken, grabVars, queueVars, saveVars, ghostVars
<1>4. MatchFlags'
  <2>1. ASSUME NEW v \in Workers, wpc'[v] = "post", matched'[wslot[v]]
        PROVE  ~grabFail[wslot[v]]
    <3>1. CASE v = w
      BY <1>1, <2>1, <3>1
    <3>2. CASE v # w
      <4>1. wslot[v] # b0 /\ wslot[v] \in Slots /\ wpc[v] = "post"
        BY <1>1, <2>1, <3>2 DEF Identity, ToInspectOnce, Inspecting, TypeOK
      <4>2. QED
        BY <1>1, <2>1, <4>1 DEF Flags, MatchFlags
    <3>3. QED
      BY <3>1, <3>2
  <2>2. \A b \in Slots : status[b] = POSTPROCESSING =>
          /\ Accepted(owner[b])
          /\ matched'[b] => ~grabFail[b]
    BY <1>1, <1>2 DEF Flags, MatchFlags, INSPECTING, POSTPROCESSING
  <2>3. QED
    BY <1>1, <2>1, <2>2 DEF MatchFlags, Accepted, ghostVars
<1>5. SaverFlags' /\ ReportFlags'
  BY <1>1 DEF Flags, SaverFlags, ReportFlags, grabVars, saveVars
<1>6. QED
  BY <1>3, <1>4, <1>5 DEF Flags

\* ProcessResultSave publishes the flags its thread wrote.
LEMMA PostResultFlags ==
  ASSUME TypeOK, Identity, Flags, NEW w \in Workers, PostResult(w)
  PROVE  Flags'
<1> DEFINE b0 == wslot[w]
<1>1. /\ b0 \in Slots /\ wpc[w] = "post"
      /\ status'[b0] = POSTPROCESSING
      /\ \A b \in Slots : b # b0 => status'[b] = status[b]
      /\ \A v \in Workers : wpc'[v] = "post" =>
           wpc[v] = "post" /\ wslot'[v] = wslot[v]
      /\ UNCHANGED <<grabVars, moduleNo, grabFail, matched, queueVars, saveVars,
                     ghostVars>>
  BY DEF PostResult, TypeOK
<1>2. ToInspect(b0)
  BY <1>1 DEF ToInspect
<1>3. GrabFlags'
  BY <1>1 DEF Flags, GrabFlags, Taken, grabVars, queueVars, saveVars, ghostVars
<1>4. MatchFlags'
  <2>1. Accepted(owner[b0]) /\ (matched[b0] => ~grabFail[b0])
    BY <1>1, <1>2 DEF Flags, MatchFlags, Identity, ToInspectOnce
  <2>2. QED
    BY <1>1, <2>1 DEF Flags, MatchFlags, Accepted, ghostVars
<1>5. SaverFlags'
  <2>1. spc \in {"judge", "report", "alarm", "reread"} =>
          sslot # b0 /\ sslot \in Slots
    BY <1>2, SaverAlone DEF Holding, TypeOK
  <2>2. QED
    BY <1>1, <2>1 DEF Flags, SaverFlags, grabVars, saveVars
<1>6. ReportFlags'
  BY <1>1 DEF Flags, ReportFlags, grabVars, saveVars
<1>7. QED
  BY <1>3, <1>4, <1>5, <1>6 DEF Flags

-----------------------------------------------------------------------------
(* The result-save thread.                                                 *)

\* The entry keeps its flag on the way to the result-save thread.
LEMMA TakeScanFlags ==
  ASSUME TypeOK, Identity, Flags, TakeScan
  PROVE  Flags'
<1> USE DEF TakeScan, grabVars, bufferVars, workVars, ghostVars
<1>1. CASE scanQ = <<>>
  <2>1. GrabFlags'
    BY <1>1 DEF Flags, GrabFlags, Taken
  <2>2. MatchFlags'
    BY <1>1 DEF Flags, MatchFlags, Accepted
  <2>3. SaverFlags' /\ ReportFlags'
    BY <1>1 DEF Flags, SaverFlags, ReportFlags
  <2>4. QED
    BY <2>1, <2>2, <2>3 DEF Flags
<1>2. CASE scanQ # <<>>
  <2>1. /\ Len(scanQ) \in Nat /\ Len(scanQ) # 0 /\ Len(accepted) \in Nat
        /\ Len(Tail(scanQ)) = Len(scanQ) - 1
        /\ \A i \in 1 .. Len(Tail(scanQ)) : Tail(scanQ)[i] = scanQ[i + 1]
        /\ Head(scanQ) = scanQ[1]
    BY <1>2, EmptySeq, LenProperties, HeadTailProperties DEF TypeOK
  <2>2. /\ scanQ' = Tail(scanQ) /\ sslot' = scanQ[1] /\ spc' = "poll"
        /\ UNCHANGED <<accepted, failed, grabFail>>
    BY <1>2, <2>1
  <2>3. Taken' = Taken + 1 /\ Taken \in Int
    BY <2>1, <2>2 DEF Taken
  <2>4. GrabFlags'
    <3>1. ASSUME NEW i \in 1 .. Len(Tail(scanQ))
          PROVE  grabFail[scanQ'[i]] = failed[accepted[Taken' + i]]
      <4>1. i + 1 \in 1 .. Len(scanQ) /\ Taken' + i = Taken + (i + 1)
        BY <2>1, <2>3
      <4>2. scanQ'[i] = scanQ[i + 1]
        BY <2>1, <2>2
      <4>3. QED
        BY <4>1, <4>2 DEF Flags, GrabFlags
    <3>2. grabFail[scanQ[1]] = failed[accepted[Taken + 1]]
      BY <2>1 DEF Flags, GrabFlags
    <3>3. \A m \in Modules : gpc[m] \in {"mark", "qscan", "qinsp"} =>
            grabFail[gslot[m]] = failed[m]
      BY DEF Flags, GrabFlags
    <3>4. QED
      BY <2>2, <2>3, <3>1, <3>2, <3>3 DEF GrabFlags
  <2>5. MatchFlags'
    BY DEF Flags, MatchFlags, Accepted
  <2>6. SaverFlags' /\ ReportFlags'
    BY <2>2 DEF Flags, SaverFlags, ReportFlags
  <2>7. QED
    BY <2>4, <2>5, <2>6 DEF Flags
<1>3. QED
  BY <1>1, <1>2

\* Steps of the result-save thread between those that judge and report.
LEMMA SaverQuietFlags ==
  ASSUME TypeOK, Identity, Flags,
         \/ SaverBegin \/ InspectDone \/ JudgeThrows \/ AlarmThrows \/ SaverEnd
  PROVE  Flags'
<1>1. /\ UNCHANGED <<grabVars, bufferVars, queueVars, workVars, sslot, verdict,
                     reported, ghostVars>>
      /\ spc' \in {"poll", "judge"} => spc \in {"poll", "judge"}
      /\ spc' = "judge" => status[sslot] = POSTPROCESSING
      /\ spc' \notin {"report", "alarm", "reread"}
  BY DEF SaverBegin, InspectDone, JudgeThrows, AlarmThrows, SaverEnd
<1>2. GrabFlags'
  BY <1>1 DEF Flags, GrabFlags, Taken, grabVars, bufferVars, queueVars,
              ghostVars
<1>3. MatchFlags'
  BY <1>1 DEF Flags, MatchFlags, Accepted, bufferVars, workVars, ghostVars
<1>4. SaverFlags'
  BY <1>1 DEF SaverFlags, bufferVars
<1>5. ReportFlags'
  BY <1>1 DEF Flags, ReportFlags, grabVars
<1>6. QED
  BY <1>2, <1>3, <1>4, <1>5 DEF Flags

\* The verdict is read from the flags of a buffer that is still the module's.
LEMMA JudgeFlags ==
  ASSUME TypeOK, Identity, Flags, Judge
  PROVE  Flags'
<1> USE DEF Judge, grabVars, queueVars, workVars, ghostVars
<1>1. /\ sslot \in Slots
      /\ status'[sslot] = AVAILABLE
      /\ \A b \in Slots : b # sslot => status'[b] = status[b]
  BY DEF TypeOK
<1>2. GrabFlags'
  BY DEF Flags, GrabFlags, Taken
<1>3. MatchFlags'
  <2>1. \A b \in Slots : status'[b] = POSTPROCESSING => status[b] = POSTPROCESSING
    BY <1>1 DEF AVAILABLE, POSTPROCESSING
  <2>2. QED
    BY <2>1 DEF Flags, MatchFlags, Accepted
<1>4. SaverFlags'
  <2>1. grabFail[sslot] = failed[smodule]
    BY DEF Flags, GrabFlags, Identity, SaverHolds, Holding
  <2>2. matched[sslot] => ~grabFail[sslot]
    BY <1>1 DEF Flags, MatchFlags, SaverFlags
  <2>3. /\ verdict' = "OK" => ~failed[smodule]
        /\ verdict' = "GF" => failed[smodule]
    BY <2>1, <2>2
  <2>4. QED
    BY <1>1, <2>3 DEF SaverFlags, AVAILABLE, POSTPROCESSING
<1>5. ReportFlags'
  BY DEF Flags, ReportFlags
<1>6. QED
  BY <1>2, <1>3, <1>4, <1>5 DEF Flags

\* One more report keeps what is said of the earlier ones.
LEMMA TruthfulAppend ==
  ASSUME NEW r \in Seq(Verdicts), NEW v \in Verdicts, NEW fail,
         Truthful(r, fail), v = "OK" => ~fail, v = "GF" => fail
  PROVE  Truthful(Append(r, v), fail)
<1>1. /\ Len(r) \in Nat /\ Len(Append(r, v)) = Len(r) + 1
      /\ \A i \in 1 .. Len(r) : Append(r, v)[i] = r[i]
      /\ Append(r, v)[Len(r) + 1] = v
  BY LenProperties, AppendProperties
<1>2. \A n \in Nat : \A j \in 1 .. n + 1 : j \in 1 .. n \/ j = n + 1
  OBVIOUS
<1>3. QED
  BY <1>1, <1>2 DEF Truthful

\* What is sent is the verdict, or a code that says nothing of the flags.
LEMMA SentTruthful ==
  ASSUME NEW r \in Seq(Verdicts), NEW v \in Verdicts, NEW fail, NEW m,
         Truthful(r, fail), v = "OK" => ~fail, v = "GF" => fail
  PROVE  Truthful(Append(r, Sent(m, v)), fail)
<1>1. /\ Sent(m, v) \in Verdicts
      /\ Sent(m, v) = "OK" => v = "OK"
      /\ Sent(m, v) = "GF" => v = "GF"
  BY DEF Sent, Verdicts
<1>2. QED
  BY <1>1, TruthfulAppend

\* The report repeats the verdict, or the code of a failed measurement.
LEMMA InspectCompleteFlags ==
  ASSUME TypeOK, Identity, Flags, InspectComplete
  PROVE  Flags'
<1> USE DEF InspectComplete, grabVars, bufferVars, queueVars, workVars,
            ghostVars
<1>1. GrabFlags'
  BY DEF Flags, GrabFlags, Taken
<1>2. MatchFlags'
  BY DEF Flags, MatchFlags, Accepted
<1>3. SaverFlags'
  BY DEF Flags, SaverFlags
<1>4. ReportFlags'
  <2>1. smodule \in Modules
    BY SaverAlone, EntryTypes DEF Identity, SaverHolds, Holding
  <2>2. Truthful(Append(reported[smodule], Sent(smodule, verdict)),
                 failed[smodule])
    BY <2>1, SentTruthful DEF Flags, SaverFlags, ReportFlags, TypeOK
  <2>3. /\ reported'[smodule] = Append(reported[smodule],
                                       Sent(smodule, verdict))
        /\ \A m \in Modules : m # smodule => reported'[m] = reported[m]
    BY <2>1 DEF TypeOK
  <2>4. QED
    BY <2>2, <2>3 DEF Flags, ReportFlags
<1>5. QED
  BY <1>1, <1>2, <1>3, <1>4 DEF Flags

\* A buffer is let go only when it is no result any more.
LEMMA SaveTailFlags ==
  ASSUME TypeOK, Identity, Flags, SaveTail
  PROVE  Flags'
<1> USE DEF SaveTail, grabVars, bufferVars, queueVars, workVars
<1>1. GrabFlags'
  BY DEF Flags, GrabFlags, Taken
<1>2. MatchFlags'
  <2>1. status[sslot] # POSTPROCESSING
    BY DEF Flags, SaverFlags
  <2>2. \A b \in Slots : b # sslot => owner'[b] = owner[b]
    BY DEF TypeOK
  <2>3. QED
    BY <2>1, <2>2 DEF Flags, MatchFlags, Accepted
<1>3. SaverFlags' /\ ReportFlags'
  BY DEF Flags, SaverFlags, ReportFlags
<1>4. QED
  BY <1>1, <1>2, <1>3 DEF Flags

\* The catch block only frees the buffer.
LEMMA CatchReleaseFlags ==
  ASSUME TypeOK, Identity, Flags, CatchRelease
  PROVE  Flags'
<1> USE DEF CatchRelease, grabVars, queueVars, workVars, ghostVars
<1>1. /\ sslot \in Slots
      /\ status'[sslot] = AVAILABLE
      /\ \A b \in Slots : b # sslot => status'[b] = status[b]
  BY DEF TypeOK
<1>2. GrabFlags'
  BY DEF Flags, GrabFlags, Taken
<1>3. MatchFlags'
  <2>1. \A b \in Slots : status'[b] = POSTPROCESSING => status[b] = POSTPROCESSING
    BY <1>1 DEF AVAILABLE, POSTPROCESSING
  <2>2. QED
    BY <2>1 DEF Flags, MatchFlags, Accepted
<1>4. SaverFlags' /\ ReportFlags'
  BY <1>1 DEF Flags, SaverFlags, ReportFlags, AVAILABLE, POSTPROCESSING
<1>5. QED
  BY <1>2, <1>3, <1>4 DEF Flags

\* The catch block's report is a matching failure or the code of a failed
\* measurement, which say nothing of flags.
LEMMA CatchReportFlags ==
  ASSUME TypeOK, Identity, Flags, CatchReport
  PROVE  Flags'
<1> USE DEF CatchReport, grabVars, bufferVars, queueVars, workVars
<1>1. GrabFlags'
  BY DEF Flags, GrabFlags, Taken
<1>2. MatchFlags'
  <2>1. status[sslot] # POSTPROCESSING
    BY DEF Flags, SaverFlags
  <2>2. \A b \in Slots : b # sslot => owner'[b] = owner[b]
    BY DEF TypeOK
  <2>3. QED
    BY <2>1, <2>2 DEF Flags, MatchFlags, Accepted
<1>3. SaverFlags'
  BY DEF SaverFlags
<1>4. ReportFlags'
  <2> DEFINE k == moduleNo[sslot]
  <2>1. k \in Modules
    BY SaverAlone, EntryTypes DEF Identity, SaverHolds, HeldFor, Holding
  <2>2. Truthful(Append(reported[k], Sent(k, "MC")), failed[k])
    BY <2>1, SentTruthful DEF Flags, ReportFlags, TypeOK, Verdicts
  <2>3. /\ reported'[k] = Append(reported[k], Sent(k, "MC"))
        /\ \A m \in Modules : m # k => reported'[m] = reported[m]
    BY <2>1 DEF TypeOK
  <2>4. QED
    BY <2>2, <2>3 DEF Flags, ReportFlags
<1>5. QED
  BY <1>1, <1>2, <1>3, <1>4 DEF Flags

-----------------------------------------------------------------------------
\* Every flag is initially clear, and no buffer is anybody's.
LEMMA FlagsInit == Init => Flags
<1> SUFFICES ASSUME Init PROVE Flags
  OBVIOUS
<1>1. Len(scanQ) = 0 /\ \A m \in Modules : Len(reported[m]) = 0
  BY EmptySeq DEF Init
<1>2. GrabFlags /\ MatchFlags /\ SaverFlags
  BY <1>1 DEF Init, GrabFlags, MatchFlags, SaverFlags, AVAILABLE,
              POSTPROCESSING
<1>3. ReportFlags
  BY <1>1 DEF ReportFlags, Truthful
<1>4. QED
  BY <1>2, <1>3 DEF Flags

FInv == IInv /\ (~overrun => Flags)

\* No step of any thread breaks the flags' meaning.
LEMMA FlagsNext == FInv /\ [Next]_vars => FInv'
<1> SUFFICES ASSUME FInv, [Next]_vars PROVE FInv'
  OBVIOUS
<1>1. IInv'
  BY IdentityNext DEF FInv
<1>2. ASSUME ~overrun' PROVE Flags'
  <2>1. TypeOK /\ SaverFlag /\ Identity /\ Flags
    BY <1>2, OverrunStays DEF FInv, IInv
  <2>2. ASSUME NEW m \in Modules, InspectionMove(m) \/ GrabThread(m)
        PROVE  Flags'
    BY <1>2, <2>1, <2>2, GrabQuietFlags, GrabDoneFlags, ClaimBufferFlags,
       FillBufferFlags, CopyThrowsFlags, MarkInspectingFlags, AddScanFlags,
       AddInspectFlags
       DEF GrabThread
  <2>3. ASSUME NEW w \in Workers, AlgorithmThread(w)
        PROVE  Flags'
    BY <2>1, <2>3, AlgorithmQuietFlags, InspectFlags, PostResultFlags
       DEF AlgorithmThread
  <2>4. CASE ResultSaveThread
    BY <2>1, <2>4, SaverQuietFlags, TakeScanFlags, JudgeFlags,
       InspectCompleteFlags, SaveTailFlags, CatchReleaseFlags, CatchReportFlags
       DEF ResultSaveThread
  <2>5. CASE UNCHANGED vars
    <3>1. UNCHANGED <<grabVars, bufferVars, scanQ, wpc, wslot, saveVars,
                      ghostVars>>
      BY <2>5 DEF vars, queueVars, workVars
    <3>2. QED
      BY <2>1, <3>1, FlagsFrame DEF grabVars, bufferVars, saveVars, ghostVars
  <2>6. QED
    BY <2>2, <2>3, <2>4, <2>5 DEF Next
<1>3. QED
  BY <1>1, <1>2 DEF FInv

\* A module whose grab or image copy failed is never reported as inspected, and
\* only such a module is reported as a failed grab, although the two flags are
\* the buffer's and are written by three kinds of thread.
THEOREM VerdictFitsGrab == Spec => []FailedGrabNeverPasses
<1>1. Init => FInv
  BY IdentityInit, FlagsInit DEF FInv
<1>2. FInv => FailedGrabNeverPasses
  BY DEF FInv, Flags, ReportFlags, Truthful, FailedGrabNeverPasses
<1>3. QED
  BY <1>1, <1>2, FlagsNext, PTL DEF Spec

=============================================================================
