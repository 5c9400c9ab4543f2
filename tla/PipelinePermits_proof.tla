------------------------ MODULE PipelinePermits_proof ------------------------
(***************************************************************************)
(* The semaphore of the algorithm threads: m_pSemaphore's count and the    *)
(* threads that hold a permit always add up to NumThreads.                 *)
(***************************************************************************)
EXTENDS InspectPipeline_proof, FiniteSetTheorems

PermitStates == {"pop", "inspect", "post", "wake"}

Holders == {w \in Workers : wpc[w] \in PermitStates}

\* There are finitely many algorithm threads.
LEMMA WorkersFinite == IsFiniteSet(Workers)
<1>1. IsFiniteSet(Modules) /\ IsFiniteSet(Threads)
  <2>1. /\ 1 \in Int /\ NumModules \in Int
        /\ 0 \in Int /\ NumThreads - 1 \in Int
    BY ConstantsAssumption DEF ConstantsAssumption
  <2>2. QED
    BY <2>1, FS_Interval DEF Modules, Threads
<1>2. QED
  BY <1>1, FS_Product DEF Workers

\* The threads that hold a permit can be counted.
LEMMA HoldersFinite == IsFiniteSet(Holders) /\ Cardinality(Holders) \in Nat
<1>1. IsFiniteSet(Holders)
  BY WorkersFinite, FS_Subset DEF Holders
<1>2. QED
  BY <1>1, FS_CardinalityType

\* A step that gives a thread a permit takes one from the count.
LEMMA PermitTaken ==
  ASSUME NEW w \in Workers, w \notin Holders, Holders' = Holders \union {w},
         permits \in Nat, permits' = permits - 1, PermitsBalanced
  PROVE  PermitsBalanced'
<1>1. Cardinality(Holders') = Cardinality(Holders) + 1
  BY HoldersFinite, FS_AddElement
<1>2. permits + Cardinality(Holders) = NumThreads
  BY DEF PermitsBalanced, Holders, PermitStates
<1>3. permits' + Cardinality(Holders') = NumThreads
  BY <1>1, <1>2, HoldersFinite
<1>4. QED
  BY <1>3 DEF PermitsBalanced, Holders, PermitStates

\* A thread that gives its permit back returns it to the count.
LEMMA PermitReturned ==
  ASSUME NEW w \in Workers, w \in Holders, Holders' = Holders \ {w},
         permits \in Nat, permits' = permits + 1, PermitsBalanced
  PROVE  PermitsBalanced'
<1>1. Cardinality(Holders') = Cardinality(Holders) - 1
  BY HoldersFinite, FS_RemoveElement
<1>2. permits + Cardinality(Holders) = NumThreads
  BY DEF PermitsBalanced, Holders, PermitStates
<1>3. permits' + Cardinality(Holders') = NumThreads
  BY <1>1, <1>2, HoldersFinite
<1>4. QED
  BY <1>3 DEF PermitsBalanced, Holders, PermitStates

\* A step that moves no permit keeps the balance.
LEMMA PermitKept ==
  ASSUME Holders' = Holders, permits' = permits, PermitsBalanced
  PROVE  PermitsBalanced'
BY DEF PermitsBalanced, Holders, PermitStates

\* Of the algorithm threads' steps only these move a permit.
LEMMA AlgorithmPermits ==
  ASSUME TypeOK, PermitsBalanced, NEW w \in Workers, AlgorithmThread(w)
  PROVE  PermitsBalanced'
<1> USE DEF PermitStates
<1>0. permits \in Nat /\ wpc \in [Workers -> WorkerStates]
  BY DEF TypeOK
<1>1. CASE CheckQueue(w)
  <2>1. CASE inspQ = <<>>
    <3>1. Holders' = Holders
      BY <1>0, <1>1, <2>1 DEF CheckQueue, Holders
    <3>2. QED
      BY <1>1, <2>1, <3>1, PermitKept DEF CheckQueue
  <2>2. CASE inspQ # <<>>
    <3>1. w \notin Holders /\ Holders' = Holders \union {w}
      BY <1>0, <1>1, <2>2 DEF CheckQueue, Holders
    <3>2. QED
      BY <1>0, <1>1, <2>2, <3>1, PermitTaken DEF CheckQueue
  <2>3. QED
    BY <2>1, <2>2
<1>2. CASE PopInspect(w)
  <2>1. CASE inspQ = <<>>
    <3>1. w \in Holders /\ Holders' = Holders \ {w}
      BY <1>0, <1>2, <2>1 DEF PopInspect, Holders
    <3>2. QED
      BY <1>0, <1>2, <2>1, <3>1, PermitReturned DEF PopInspect
  <2>2. CASE inspQ # <<>>
    <3>1. Holders' = Holders
      BY <1>0, <1>2, <2>2 DEF PopInspect, Holders
    <3>2. QED
      BY <1>2, <2>2, <3>1, PermitKept DEF PopInspect
  <2>3. QED
    BY <2>1, <2>2
<1>3. CASE WakeSaver(w)
  <2>1. w \in Holders /\ Holders' = Holders \ {w}
    BY <1>0, <1>3 DEF WakeSaver, Holders
  <2>2. QED
    BY <1>0, <1>3, <2>1, PermitReturned DEF WakeSaver
<1>4. CASE \/ ThreadBegin(w) \/ Inspect(w) \/ InspectThrows(w)
           \/ PostResult(w) \/ ThreadEnd(w)
  <2>1. Holders' = Holders /\ permits' = permits
    BY <1>0, <1>4 DEF ThreadBegin, Inspect, InspectThrows, PostResult,
                      ThreadEnd, Holders
  <2>2. QED
    BY <2>1, PermitKept
<1>5. QED
  BY <1>1, <1>2, <1>3, <1>4 DEF AlgorithmThread

-----------------------------------------------------------------------------
(* The copy of a module starts a thread once for each index, so a thread   *)
(* that is started is not one that holds a permit.                         *)

Unstarted ==
  \A m \in Modules :
    /\ gpc[m] \notin {"start", "done"} =>
         /\ gidx[m] = 0
         /\ \A i \in Threads : wpc[<<m, i>>] = "none"
    /\ gpc[m] = "start" =>
         \A i \in Threads : i >= gidx[m] => wpc[<<m, i>>] = "none"

\* One turn of the loop passes one index.
LEMMA StartThreadUnstarted ==
  ASSUME TypeOK, Unstarted, NEW m \in Modules, StartThread(m)
  PROVE  Unstarted'
<1>1. /\ gidx[m] \in Threads /\ gidx[m] \in Int
      /\ \A i \in Threads : i \in Int
  BY ConstantsAssumption DEF TypeOK, Threads, ConstantsAssumption
<1>2. \A k \in Modules : k # m =>
        /\ gpc'[k] = gpc[k] /\ gidx'[k] = gidx[k]
        /\ \A i \in Threads : wpc'[<<k, i>>] = wpc[<<k, i>>]
  <2>1. \A k \in Modules : k # m => gpc'[k] = gpc[k] /\ gidx'[k] = gidx[k]
    BY DEF StartThread, TypeOK
  <2>2. \A k \in Modules, i \in Threads : k # m =>
          wpc'[<<k, i>>] = wpc[<<k, i>>]
    BY DEF StartThread, TypeOK, Workers
  <2>3. QED
    BY <2>1, <2>2
<1>3. \A i \in Threads : i # gidx[m] => wpc'[<<m, i>>] = wpc[<<m, i>>]
  BY DEF StartThread, TypeOK, Workers
<1>4. \/ gpc'[m] = "done"
      \/ gpc'[m] = "start" /\ gidx'[m] = gidx[m] + 1
  BY DEF StartThread, TypeOK
<1>5. gpc'[m] = "start" =>
        \A i \in Threads : i >= gidx'[m] => wpc'[<<m, i>>] = "none"
  <2>1. \A i \in Threads : i >= gidx[m] => wpc[<<m, i>>] = "none"
    BY DEF StartThread, Unstarted
  <2>2. \A i \in Threads : i >= gidx[m] + 1 => i >= gidx[m] /\ i # gidx[m]
    BY <1>1
  <2>3. QED
    BY <1>3, <1>4, <2>1, <2>2
<1>6. QED
  BY <1>2, <1>4, <1>5 DEF Unstarted

\* Every other step leaves the threads that are not started alone.
LEMMA UnstartedNext ==
  ASSUME TypeOK, Unstarted, [Next]_vars
  PROVE  Unstarted'
<1>1. ASSUME NEW m \in Modules, InspectionMove(m) \/ GrabThread(m)
      PROVE  Unstarted'
  <2>1. \/ StartThread(m)
        \/ /\ UNCHANGED <<gidx, wpc>>
           /\ gpc[m] \notin {"start", "done"}
           /\ \A k \in Modules : k # m => gpc'[k] = gpc[k]
           /\ gpc'[m] # "done"
    BY <1>1 DEF InspectionMove, GrabThread, GrabDone, GrabStopped, GrabThrows,
                GrabHold, ClaimBuffer, FillBuffer, CopyThrows, MarkInspecting,
                AddScan, AddInspect, workVars, TypeOK
  <2>2. QED
    BY <2>1, StartThreadUnstarted DEF Unstarted
<1>2. ASSUME NEW w \in Workers, AlgorithmThread(w)
      PROVE  Unstarted'
  <2>1. /\ UNCHANGED <<gpc, gidx>>
        /\ \A v \in Workers : wpc[v] = "none" => wpc'[v] = "none"
    BY <1>2 DEF AlgorithmThread, ThreadBegin, CheckQueue, PopInspect, Inspect,
                InspectThrows, PostResult, WakeSaver, ThreadEnd, grabVars,
                TypeOK
  <2>2. QED
    BY <2>1 DEF Unstarted, Workers
<1>3. CASE ResultSaveThread \/ UNCHANGED vars
  <2>1. UNCHANGED <<gpc, gidx, wpc>>
    BY <1>3 DEF ResultSaveThread, SaverBegin, TakeScan, InspectDone, Judge,
         JudgeThrows, InspectComplete, SaveTail, AlarmThrows, CatchRelease,
         CatchReport, SaverEnd, vars, grabVars, workVars
  <2>2. QED
    BY <2>1 DEF Unstarted
<1>4. QED
  BY <1>1, <1>2, <1>3 DEF Next

-----------------------------------------------------------------------------
\* The other threads have no permit; starting a thread gives it none.
LEMMA OthersPermits ==
  ASSUME TypeOK, Unstarted, PermitsBalanced,
         \/ \E m \in Modules : InspectionMove(m) \/ GrabThread(m)
         \/ ResultSaveThread
         \/ UNCHANGED vars
  PROVE  PermitsBalanced'
<1>1. ASSUME NEW m \in Modules, InspectionMove(m) \/ GrabThread(m)
      PROVE  StartThread(m) \/ UNCHANGED workVars
  BY <1>1 DEF InspectionMove, GrabThread, GrabDone, GrabStopped, GrabThrows,
              GrabHold, ClaimBuffer, FillBuffer, CopyThrows, MarkInspecting,
              AddScan, AddInspect
<1>2. ResultSaveThread \/ UNCHANGED vars => UNCHANGED workVars
  BY DEF ResultSaveThread, SaverBegin, TakeScan, InspectDone, Judge,
         JudgeThrows, InspectComplete, SaveTail, AlarmThrows, CatchRelease,
         CatchReport, SaverEnd, vars
<1>3. UNCHANGED workVars => PermitsBalanced'
  BY PermitKept DEF workVars, Holders
<1>4. ASSUME NEW m \in Modules, StartThread(m)
      PROVE  PermitsBalanced'
  <2>1. permits' = permits /\ wpc \in [Workers -> WorkerStates]
    BY <1>4 DEF StartThread, TypeOK
  <2>2. wpc[<<m, gidx[m]>>] = "none"
    <3>1. gidx[m] \in Threads /\ gidx[m] >= gidx[m]
      BY ConstantsAssumption DEF TypeOK, Threads, ConstantsAssumption
    <3>2. QED
      BY <1>4, <3>1 DEF StartThread, Unstarted
  <2>3. Holders' = Holders
    BY <1>4, <2>1, <2>2 DEF StartThread, Holders, PermitStates
  <2>4. QED
    BY <2>1, <2>3, PermitKept
<1>5. QED
  BY <1>1, <1>2, <1>3, <1>4

PInv == TypeOK /\ Unstarted /\ PermitsBalanced

\* All permits are free initially, and no thread is started.
LEMMA PermitsInit == Init => PInv
<1> SUFFICES ASSUME Init PROVE PInv
  OBVIOUS
<1>1. TypeOK
  BY TypeInit
<1>2. Unstarted
  BY DEF Init, Unstarted, Workers
<1>3. PermitsBalanced
  <2>1. Holders = {}
    BY DEF Init, Holders, PermitStates
  <2>2. Cardinality(Holders) = 0 /\ NumThreads \in Nat
    BY <2>1, FS_EmptySet, ConstantsAssumption DEF ConstantsAssumption
  <2>3. permits + Cardinality(Holders) = NumThreads
    BY <2>2 DEF Init
  <2>4. QED
    BY <2>3 DEF PermitsBalanced, Holders, PermitStates
<1>4. QED
  BY <1>1, <1>2, <1>3 DEF PInv

\* No path through AlgorithmThread keeps or invents a permit: the semaphore
\* admits NumThreads threads for as long as the program runs.
THEOREM SemaphoreBalanced == Spec => []PermitsBalanced
<1>1. PInv /\ [Next]_vars => PInv'
  <2> SUFFICES ASSUME PInv, [Next]_vars PROVE PInv'
    OBVIOUS
  <2>1. TypeOK' /\ Unstarted'
    BY TypeNext, UnstartedNext DEF PInv
  <2>2. PermitsBalanced'
    BY AlgorithmPermits, OthersPermits DEF PInv, Next
  <2>3. QED
    BY <2>1, <2>2 DEF PInv
<1>2. PInv => PermitsBalanced
  BY DEF PInv
<1>3. QED
  BY <1>1, <1>2, PermitsInit, PTL DEF Spec

=============================================================================
