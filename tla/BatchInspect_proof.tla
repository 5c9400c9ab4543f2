-------------------------- MODULE BatchInspect_proof --------------------------
(***************************************************************************)
(* Theorems about BatchInspect, for every number of scans, batches and     *)
(* algorithm threads and every set of faults.  What holds of every build   *)
(* and every timing comes first (types, one buffer in one place); then     *)
(* what holds when no copy outlasts the next grab; then, again of every    *)
(* build, what a module passes on and the promise it keeps.                *)
(***************************************************************************)
EXTENDS BatchInspect, FiniteSetTheorems, SequenceTheorems, TLAPS

-----------------------------------------------------------------------------
(* Types.                                                                  *)

\* What a status leaves of a context is a context.
LEMMA UpdateTyped ==
  ASSUME NEW c \in Contexts, NEW b \in Batches, NEW st
  PROVE  UpdateBatchStatus(c, b, st) \in Contexts
<1>1. /\ c.grabDone \in -1 .. Last /\ c.grabFailed \in BOOLEAN
      /\ c.matchFailed \in BOOLEAN
  BY DEF Contexts
<1>2. Later(c.grabDone, b) \in -1 .. Last
  BY <1>1, BatchAssumption DEF Later, Batches, Last, BatchAssumption
<1>3. QED
  BY <1>1, <1>2 DEF UpdateBatchStatus, Contexts

\* The numbers the steps use.
LEMMA Bounds ==
  /\ 0 \in Slots /\ 0 \in Batches /\ Last \in Batches
  /\ \A k \in Slots : k < MaxSlot => k + 1 \in Slots
  /\ \A b \in Batches : b # Last => b + 1 \in Batches
  /\ NoScan \notin Scans
BY BatchAssumption
   DEF BatchAssumption, Slots, MaxSlot, Batches, Last, NoScan, Scans

\* The initial values are well typed.
LEMMA TypeInit == Init => TypeOK
<1> SUFFICES ASSUME Init PROVE TypeOK
  OBVIOUS
<1>1. NewContext \in Contexts
  BY BatchAssumption DEF NewContext, Contexts, Last, BatchAssumption
<1>2. /\ scanQueue \in Seq(Slots) /\ inspectQueue \in Seq(Slots)
      /\ judged \in Seq([module : Slots, passed : BOOLEAN])
  BY EmptySeq DEF Init
<1>3. QED
  BY <1>1, <1>2, Bounds DEF Init, TypeOK, Tasks

\* The handler's and the grab threads' steps keep the types.
LEMMA GrabTyped ==
  ASSUME TypeOK, NEW s \in Scans, Start(s) \/ GrabStep(s)
  PROVE  TypeOK'
<1> USE DEF TypeOK, slotVars, queueVars, workerVars, saveVars, copyVars
<1>1. CASE Start(s)
  <2>1. NewContext \in Contexts
    BY BatchAssumption DEF NewContext, Contexts, Last, BatchAssumption
  <2>2. QED
    BY <1>1, <2>1 DEF Start
<1>2. CASE Grab(s)
  <2>1. gb[s] < Last => gb[s] + 1 \in Batches
    BY Bounds DEF Batches, Last
  <2>2. gb' \in [Scans -> Batches] /\ gpc' \in
          [Scans -> {"idle", "grab", "stopped", "complete", "flush", "thrown",
                     "ended"}]
    BY <1>2, <2>1 DEF Grab
  <2>3. grabbed' \in [Scans -> SUBSET Batches]
    BY <1>2 DEF Grab
  <2>4. /\ success' \in [Scans -> BOOLEAN]
        /\ copy' \in [Tasks -> {"none", "wait", "fill", "redo", "check", "done"}]
    BY <1>2 DEF Grab
  <2>5. QED
    BY <1>2, <2>2, <2>3, <2>4 DEF Grab
<1>3. CASE GrabStopped(s)
  <2>1. UpdateBatchStatus(context[s], Last, "GRAB_FAILED") \in Contexts
    BY UpdateTyped, Bounds
  <2>2. QED
    BY <1>3, <2>1 DEF GrabStopped
<1>4. CASE GrabThrows(s) \/ Complete(s) \/ Flush(s)
  BY <1>4 DEF GrabThrows, Complete, Flush
<1>5. QED
  BY <1>1, <1>2, <1>3, <1>4 DEF GrabStep

\* Taking a buffer keeps the types of what it writes.
LEMMA TakeTyped ==
  ASSUME TypeOK, NEW s \in Scans, NEW b \in Batches, NEW fail \in BOOLEAN,
         TakeBuffer(s, b, fail)
  PROVE  /\ slot' \in Slots /\ owner' \in [Slots -> Scans \cup {NoScan}]
         /\ bGrabFail' \in [Slots -> BOOLEAN] /\ images' \in [Slots -> SUBSET Tasks]
         /\ into' \in [Tasks -> Slots] /\ paramFail' \in [Tasks -> BOOLEAN]
<1>1. slot' \in Slots
  BY Bounds DEF TakeBuffer, TypeOK
<1>2. QED
  BY <1>1 DEF TakeBuffer, TypeOK

\* So does putting it into the queues.
LEMMA EnqueueTyped ==
  ASSUME TypeOK, NEW b \in Batches, NEW k \in Slots, Enqueue(b, k)
  PROVE  /\ scanQueue' \in Seq(Slots) /\ inspectQueue' \in Seq(Slots)
         /\ wpc' \in [Threads -> {"off", "poll", "leave", "wait", "align",
                                  "inspect"}]
<1>1. /\ Append(scanQueue, k) \in Seq(Slots)
      /\ Append(inspectQueue, k) \in Seq(Slots)
  BY AppendProperties DEF TypeOK
<1>2. [w \in Threads |-> IF wpc[w] = "off" THEN "poll" ELSE wpc[w]]
        \in [Threads -> {"off", "poll", "leave", "wait", "align", "inspect"}]
  BY DEF TypeOK
<1>3. CASE b = 0
  BY <1>1, <1>2, <1>3 DEF Enqueue
<1>4. CASE b # 0
  BY <1>4 DEF Enqueue, TypeOK, queueVars
<1>5. QED
  BY <1>3, <1>4

\* The copy tasks' steps keep the types.
LEMMA CopyTyped ==
  ASSUME TypeOK, NEW s \in Scans, NEW b \in Batches, CopyStep(s, b)
  PROVE  TypeOK'
<1> USE DEF slotVars, queueVars, workerVars, saveVars, copyVars, grabVars
<1>1. CASE CopyBegin(s, b)
  <2>1. PICK ok \in BOOLEAN : TakeBuffer(s, b, ~ok)
    BY <1>1 DEF CopyBegin, Reads, TypeOK
  <2>2. QED
    BY <1>1, <2>1, TakeTyped DEF CopyBegin, TypeOK
<1>2. CASE CopyFill(s, b)
  <2>1. into[<<s, b>>] \in Slots /\ Enqueue(b, into[<<s, b>>])
    BY <1>2 DEF CopyFill, TypeOK, Tasks
  <2>2. images' \in [Slots -> SUBSET Tasks] /\ bGrabFail' \in [Slots -> BOOLEAN]
    <3>1. CASE UNCHANGED images /\ bGrabFail' \in [Slots -> BOOLEAN]
      BY <3>1 DEF TypeOK
    <3>2. CASE /\ images' = [images EXCEPT ![into[<<s, b>>]] = @ \cup {<<s, b>>}]
               /\ UNCHANGED bGrabFail
      <4>1. <<s, b>> \in Tasks
        BY DEF Tasks
      <4>2. QED
        BY <3>2, <4>1 DEF TypeOK
    <3>3. \A v \in BOOLEAN :
            [bGrabFail EXCEPT ![into[<<s, b>>]] = v] \in [Slots -> BOOLEAN]
      BY DEF TypeOK
    <3>4. bGrabFail \in [Slots -> BOOLEAN]
      BY DEF TypeOK
    <3>5. QED
      BY <1>2, <3>1, <3>2, <3>3, <3>4 DEF CopyFill
  <2>3. QED
    BY <1>2, <2>1, <2>2, EnqueueTyped DEF CopyFill, TypeOK
<1>3. CASE CopyThrows(s, b)
  BY <1>3 DEF CopyThrows, TypeOK
<1>4. CASE CopyRedo(s, b)
  <2>1. TakeBuffer(s, b, TRUE) /\ Enqueue(b, slot')
    BY <1>4 DEF CopyRedo
  <2>2. slot' \in Slots
    BY <2>1, TakeTyped
  <2>3. QED
    BY <1>4, <2>1, <2>2, TakeTyped, EnqueueTyped DEF CopyRedo, TypeOK
<1>5. CASE CopyReport(s, b)
  <2>1. \A st : UpdateBatchStatus(context[s], b, st) \in Contexts
    BY UpdateTyped DEF TypeOK
  <2>2. context' \in [Scans -> Contexts]
    BY <1>5, <2>1 DEF CopyReport, TypeOK
  <2>3. QED
    BY <1>5, <2>2 DEF CopyReport, TypeOK
<1>6. QED
  BY <1>1, <1>2, <1>3, <1>4, <1>5 DEF CopyStep

\* The end of a batch, or of a module, keeps the types of what it writes.
LEMMA BatchEndTyped ==
  ASSUME TypeOK, NEW w \in Threads, NextBatch(w) \/ GiveUp(w)
  PROVE  /\ posted' \in [Slots -> Nat] /\ wslot' \in [Threads -> Slots]
         /\ wb' \in [Threads -> Batches]
         /\ wpc' \in [Threads -> {"off", "poll", "leave", "wait", "align",
                                  "inspect"}]
<1>1. CASE Post(wslot[w]) /\ wpc' = [wpc EXCEPT ![w] = "poll"]
           /\ wslot' = [wslot EXCEPT ![w] = 0] /\ wb' = [wb EXCEPT ![w] = 0]
  BY <1>1, Bounds DEF Post, TypeOK
<1>2. CASE wb[w] # Last /\ wpc' = [wpc EXCEPT ![w] = "wait"]
           /\ wb' = [wb EXCEPT ![w] = @ + 1] /\ UNCHANGED <<wslot, posted>>
  BY <1>2, Bounds DEF TypeOK
<1>3. CASE GiveUp(w)
  BY <1>3, Bounds DEF GiveUp, Post, TypeOK
<1>4. QED
  BY <1>1, <1>2, <1>3 DEF NextBatch

\* The algorithm threads' steps keep the types.
LEMMA WorkerTyped ==
  ASSUME TypeOK, NEW w \in Threads, WorkerStep(w)
  PROVE  TypeOK'
<1> USE DEF slotVars, queueVars, workerVars, saveVars, copyVars, grabVars
<1>0. \A st : context' = [context EXCEPT ![Scan(w)] = UpdateBatchStatus(@, wb[w], st)]
              => context' \in [Scans -> Contexts]
  <2>1. \A st : Scan(w) \in Scans =>
          UpdateBatchStatus(context[Scan(w)], wb[w], st) \in Contexts
    BY UpdateTyped DEF TypeOK
  <2> DEFINE next(st) == [context EXCEPT ![Scan(w)] = UpdateBatchStatus(@, wb[w], st)]
  <2>2. ASSUME NEW st, NEW r \in Scans
        PROVE  next(st)[r] \in Contexts
    BY <2>1 DEF TypeOK
  <2>3. \A st : DOMAIN next(st) = Scans /\ next(st) = [r \in Scans |-> next(st)[r]]
    BY DEF TypeOK
  <2> HIDE DEF next
  <2>4. \A st : next(st) \in [Scans -> Contexts]
    BY <2>2, <2>3
  <2>5. QED
    BY <2>4 DEF next
<1>1. CASE Poll(w)
  <2>1. Head(inspectQueue) \in Slots /\ Tail(inspectQueue) \in Seq(Slots)
    BY <1>1, HeadTailProperties DEF Poll, TypeOK
  <2>2. QED
    BY <1>1, <2>1 DEF Poll, TypeOK
<1>2. CASE Leave(w) \/ LeaveEnd(w) \/ WaitEnds(w) \/ Align(w)
  BY <1>2 DEF Leave, LeaveEnd, WaitEnds, Align, TypeOK
<1>3. CASE WaitFails(w)
  BY <1>0, <1>3, BatchEndTyped DEF WaitFails, TypeOK
<1>4. CASE WaitStopped(w) \/ InspectThrows(w)
  <2>1. GiveUp(w)
    BY <1>4 DEF WaitStopped, InspectThrows
  <2>2. matched' \in [Slots -> BOOLEAN]
    BY <2>1 DEF GiveUp, TypeOK
  <2>3. QED
    BY <1>4, <2>1, <2>2, BatchEndTyped DEF WaitStopped, InspectThrows, TypeOK
<1>5. CASE AlignFails(w)
  BY <1>0, <1>5, BatchEndTyped DEF AlignFails, TypeOK
<1>6. CASE Inspect(w)
  <2>1. context' \in [Scans -> Contexts]
    BY <1>0, <1>6 DEF Inspect
  <2>2. inspected' \in [Slots -> SUBSET Batches]
    BY <1>6 DEF Inspect, TypeOK
  <2>3. NextBatch(w)
    BY <1>6 DEF Inspect
  <2>4. QED
    BY <1>6, <2>1, <2>2, <2>3, BatchEndTyped DEF Inspect, TypeOK
<1>7. QED
  BY <1>1, <1>2, <1>3, <1>4, <1>5, <1>6 DEF WorkerStep

\* Every step keeps the types.
LEMMA TypeNext == TypeOK /\ [Next]_vars => TypeOK'
<1> SUFFICES ASSUME TypeOK, [Next]_vars PROVE TypeOK'
  OBVIOUS
<1> USE DEF slotVars, queueVars, workerVars, saveVars, copyVars, grabVars
<1>1. CASE Judge
  <2>1. Head(scanQueue) \in Slots /\ Tail(scanQueue) \in Seq(Slots)
    BY <1>1, HeadTailProperties DEF Judge, TypeOK
  <2>2. judged' \in Seq([module : Slots, passed : BOOLEAN])
    BY <1>1, <2>1, AppendProperties DEF Judge, TypeOK
  <2>3. QED
    BY <1>1, <2>1, <2>2 DEF Judge, TypeOK
<1>2. CASE Stop
  BY <1>2 DEF Stop, TypeOK
<1>3. CASE UNCHANGED vars
  BY <1>3 DEF vars, TypeOK
<1>4. QED
  BY <1>1, <1>2, <1>3, GrabTyped, CopyTyped, WorkerTyped DEF Next

\* Every variable of batch inspection holds a value its counterpart can hold:
\* batch indexes stay below iLastBatchIdx + 1 on every path of the threads.
THEOREM BatchTypeCorrect == Spec => []TypeOK
BY TypeInit, TypeNext, PTL DEF Spec

-----------------------------------------------------------------------------
(* Sequences without repetition.                                           *)

Once(q) == \A i, j \in 1 .. Len(q) : q[i] = q[j] => i = j

\* What Append adds.
LEMMA RangeAppend ==
  ASSUME NEW S, NEW q \in Seq(S), NEW e \in S
  PROVE  /\ Range1(Append(q, e)) = Range1(q) \cup {e}
         /\ Once(q) /\ e \notin Range1(q) => Once(Append(q, e))
<1>1. /\ Len(Append(q, e)) = Len(q) + 1 /\ Len(q) \in Nat
      /\ \A i \in 1 .. Len(q) : Append(q, e)[i] = q[i]
      /\ Append(q, e)[Len(q) + 1] = e
  BY AppendProperties, LenProperties
<1> DEFINE r == Append(q, e)
<1> HIDE DEF r
<1>2. /\ Len(r) = Len(q) + 1 /\ Len(q) \in Nat
      /\ \A i \in 1 .. Len(q) : r[i] = q[i]
      /\ r[Len(q) + 1] = e
  BY <1>1 DEF r
<1>3. \A i \in 1 .. Len(r) : i \in 1 .. Len(q) \/ i = Len(q) + 1
  BY <1>2
<1>4. 1 .. Len(q) \subseteq 1 .. Len(r) /\ Len(q) + 1 \in 1 .. Len(r)
  BY <1>2
<1>5. Range1(r) = Range1(q) \cup {e}
  BY <1>2, <1>3, <1>4 DEF Range1
<1>6. Once(q) /\ e \notin Range1(q) => Once(r)
  BY <1>2, <1>3 DEF Once, Range1
<1>7. QED
  BY <1>5, <1>6 DEF r

\* What Tail leaves.
LEMMA RangeTail ==
  ASSUME NEW S, NEW q \in Seq(S), q # <<>>
  PROVE  /\ Head(q) \in S /\ Head(q) \in Range1(q)
         /\ Range1(q) = Range1(Tail(q)) \cup {Head(q)}
         /\ Once(q) => Once(Tail(q)) /\ Head(q) \notin Range1(Tail(q))
<1>1. /\ Tail(q) \in Seq(S) /\ Len(Tail(q)) = Len(q) - 1 /\ Head(q) = q[1]
      /\ Len(q) \in Nat \ {0} /\ Head(q) \in S
      /\ \A i \in 1 .. Len(Tail(q)) : Tail(q)[i] = q[i + 1]
  BY HeadTailProperties, EmptySeq, LenProperties
<1> DEFINE r == Tail(q)
           h == Head(q)
<1> HIDE DEF r, h
<1>2. /\ Len(r) = Len(q) - 1 /\ Len(q) \in Nat \ {0} /\ h = q[1]
      /\ \A i \in 1 .. Len(r) : r[i] = q[i + 1]
  BY <1>1 DEF r, h
<1>3. \A i \in 1 .. Len(q) : i = 1 \/ (i - 1 \in 1 .. Len(r) /\ i = (i - 1) + 1)
  BY <1>2
<1>4. \A i \in 1 .. Len(r) : i + 1 \in 1 .. Len(q) /\ i + 1 # 1
  BY <1>2
<1>5. 1 \in 1 .. Len(q)
  BY <1>2
<1>6. Range1(q) = Range1(r) \cup {h}
  <2>1. \A i \in 1 .. Len(q) : q[i] \in Range1(r) \cup {h}
    <3>1. ASSUME NEW i \in 1 .. Len(q), i # 1
          PROVE  q[i] \in Range1(r)
      <4>1. i - 1 \in 1 .. Len(r) /\ i = (i - 1) + 1
        BY <1>3, <3>1
      <4>2. r[i - 1] = q[i]
        BY <1>2, <4>1
      <4>3. QED
        BY <4>1, <4>2 DEF Range1
    <3>2. QED
      BY <1>2, <3>1
  <2>2. \A i \in 1 .. Len(r) : r[i] \in Range1(q)
    BY <1>2, <1>4 DEF Range1
  <2>3. h \in Range1(q)
    BY <1>2, <1>5 DEF Range1
  <2>4. QED
    BY <2>1, <2>2, <2>3 DEF Range1
<1>7. ASSUME Once(q) PROVE Once(r) /\ h \notin Range1(r)
  <2>1. \A i, j \in 1 .. Len(r) : r[i] = r[j] => i + 1 = j + 1
    BY <1>2, <1>4, <1>7 DEF Once
  <2>2. \A i, j \in 1 .. Len(r) : i + 1 = j + 1 => i = j
    OBVIOUS
  <2>3. \A i \in 1 .. Len(r) : r[i] # h
    BY <1>2, <1>4, <1>5, <1>7 DEF Once
  <2>4. QED
    BY <2>1, <2>2, <2>3 DEF Once, Range1
<1>8. QED
  BY <1>1, <1>6, <1>7 DEF r, h

-----------------------------------------------------------------------------
(* Where a buffer is.  A scan's first copy takes a buffer and queues it; an *)
(* algorithm thread takes it off the inspect queue and posts it; the       *)
(* result-save thread takes it off the scan queue when it is posted.       *)

Busy(w) == wpc[w] \in {"wait", "align", "inspect"}

\* The buffer was put into the queues.
Queued(k) ==
  \/ k \in Range1(inspectQueue)
  \/ \E w \in Threads : Busy(w) /\ wslot[w] = k
  \/ posted[k] > 0

\* The copy task of a scan's first batch, and when it has a buffer.
First(s) == <<s, 0>>
Taken(t) == copy[t] \in {"fill", "redo", "check", "done"}
Active   == {"wait", "fill", "redo", "check"}

\* A grab thread starts the copy of each batch once, in order.
GrabOrder ==
  \A s \in Scans :
    /\ gpc[s] = "idle" => gb[s] = 0
    /\ gpc[s] \in {"idle", "grab"} =>
         \A b \in Batches : copy[<<s, b>>] = "none" <=> b >= gb[s]

\* The first copy took a buffer for its scan.
FirstTaken ==
  \A s \in Scans : Taken(First(s)) =>
    into[First(s)] \in 1 .. slot /\ owner[into[First(s)]] = s

\* A buffer that is queued is the one the first copy of its scan queued.
QueuedByFirst ==
  \A k \in Slots : Queued(k) =>
    /\ owner[k] \in Scans
    /\ copy[First(owner[k])] \in {"check", "done"}
    /\ into[First(owner[k])] = k

\* It is in one place until it is posted.
OnePlace ==
  /\ Once(inspectQueue)
  /\ \A k \in Range1(inspectQueue) : posted[k] = 0
  /\ \A w \in Threads : Busy(w) =>
       /\ wslot[w] \notin Range1(inspectQueue)
       /\ posted[wslot[w]] = 0
       /\ \A v \in Threads : Busy(v) /\ wslot[v] = wslot[w] => v = w
  /\ \A w \in Threads : ~Busy(w) => wslot[w] = 0 /\ wb[w] = 0
  /\ \A k \in Slots : posted[k] <= 1

\* The scan queue and the verdicts hold each queued buffer once.
Judged(k) == \E i \in 1 .. Len(judged) : judged[i].module = k

OneVerdict ==
  /\ Once(scanQueue)
  /\ \A k \in Slots : Judged(k) => posted[k] = 1 /\ k \notin Range1(scanQueue)
  /\ \A k \in Slots : Queued(k) <=> Judged(k) \/ k \in Range1(scanQueue)

PlaceInv ==
  TypeOK /\ GrabOrder /\ FirstTaken /\ QueuedByFirst /\ OnePlace /\ OneVerdict

\* An algorithm thread goes on with its buffer, or has none and takes none.
Turns(w) ==
  /\ UNCHANGED <<queueVars, posted, judged, wslot>>
  /\ \A v \in Threads : v # w => wpc'[v] = wpc[v] /\ wb'[v] = wb[v]
  /\ Busy(w)' <=> Busy(w)
  /\ ~Busy(w) => wb'[w] = wb[w]

\* It posts its buffer.
Posts(w) ==
  /\ Busy(w)
  /\ UNCHANGED <<queueVars, judged>>
  /\ posted' = [posted EXCEPT ![wslot[w]] = @ + 1]
  /\ \A v \in Threads : v # w =>
       wpc'[v] = wpc[v] /\ wb'[v] = wb[v] /\ wslot'[v] = wslot[v]
  /\ ~Busy(w)' /\ wslot'[w] = 0 /\ wb'[w] = 0

\* The buffers, the copies and the grabs are not the algorithm threads' to move,
\* and each of their steps is one of these three.
LEMMA WorkerKinds ==
  ASSUME TypeOK, NEW w \in Threads, WorkerStep(w)
  PROVE  /\ UNCHANGED <<stop, grabVars, copyVars, slotVars, bGrabFail, images, scanQueue,
                        judged>>
         /\ Poll(w) \/ Turns(w) \/ Posts(w)
<1> USE DEF TypeOK, Busy, grabVars, copyVars, slotVars, queueVars, workerVars,
            saveVars
<1>1. CASE Poll(w)
  BY <1>1 DEF Poll
<1>2. CASE Leave(w) \/ LeaveEnd(w) \/ WaitEnds(w) \/ Align(w)
  <2>1. Turns(w)
    BY <1>2 DEF Leave, LeaveEnd, WaitEnds, Align, Turns
  <2>2. QED
    BY <1>2, <2>1 DEF Leave, LeaveEnd, WaitEnds, Align
<1>3. CASE WaitFails(w) \/ AlignFails(w) \/ Inspect(w)
  <2>1. /\ UNCHANGED <<queueVars, judged>> /\ NextBatch(w) /\ Busy(w)
    BY <1>3 DEF WaitFails, AlignFails, Inspect
  <2>2. ASSUME wb[w] = Last PROVE Posts(w)
    BY <2>1, <2>2 DEF NextBatch, Post, Posts
  <2>3. ASSUME wb[w] # Last PROVE Turns(w)
    BY <2>1, <2>3 DEF NextBatch, Turns
  <2>4. Turns(w) \/ Posts(w)
    BY <2>2, <2>3
  <2>5. QED
    BY <1>3, <2>4 DEF WaitFails, AlignFails, Inspect
<1>4. CASE WaitStopped(w) \/ InspectThrows(w)
  <2>1. /\ UNCHANGED <<queueVars, judged>> /\ GiveUp(w) /\ Busy(w)
    BY <1>4 DEF WaitStopped, InspectThrows
  <2>2. Posts(w)
    BY <2>1 DEF GiveUp, Post, Posts
  <2>3. QED
    BY <1>4, <2>2 DEF WaitStopped, InspectThrows
<1>5. QED
  BY <1>1, <1>2, <1>3, <1>4 DEF WorkerStep

\* A thread that goes on leaves every buffer where it is.
LEMMA TurnsPlace ==
  ASSUME PlaceInv, NEW w \in Threads, Turns(w),
         UNCHANGED <<gpc, gb, copyVars, slotVars>>
  PROVE  GrabOrder' /\ FirstTaken' /\ QueuedByFirst' /\ OnePlace' /\ OneVerdict'
<1>1. \A v \in Threads : Busy(v)' <=> Busy(v)
  BY DEF Turns, Busy
<1>2. UNCHANGED <<inspectQueue, scanQueue, posted, judged, wslot, copy, into, slot, owner>>
  BY DEF Turns, queueVars, copyVars, slotVars
<1>3. \A k : Queued(k)' <=> Queued(k)
  BY <1>1, <1>2 DEF Queued
<1>4. GrabOrder' /\ FirstTaken'
  BY <1>2 DEF PlaceInv, GrabOrder, FirstTaken, Taken
<1>5. QueuedByFirst'
  BY <1>2, <1>3 DEF PlaceInv, QueuedByFirst
<1>6. OnePlace'
  BY <1>1, <1>2 DEF PlaceInv, OnePlace, Turns
<1>7. OneVerdict'
  BY <1>2, <1>3 DEF PlaceInv, OneVerdict, Judged
<1>8. QED
  BY <1>4, <1>5, <1>6, <1>7

\* A buffer is posted once: its thread has it no more.
LEMMA PostsPlace ==
  ASSUME PlaceInv, NEW w \in Threads, Posts(w),
         UNCHANGED <<gpc, gb, copyVars, slotVars>>
  PROVE  GrabOrder' /\ FirstTaken' /\ QueuedByFirst' /\ OnePlace' /\ OneVerdict'
<1> DEFINE p == wslot[w]
<1>1. p \in Slots /\ posted[p] = 0 /\ posted \in [Slots -> Nat]
  BY DEF Posts, PlaceInv, OnePlace, TypeOK
<1>2. UNCHANGED <<inspectQueue, scanQueue, judged, copy, into, slot, owner>>
  BY DEF Posts, queueVars, copyVars, slotVars
<1>3. posted'[p] = 1 /\ \A k \in Slots : k # p => posted'[k] = posted[k]
  BY <1>1 DEF Posts
<1>4. \A v \in Threads : Busy(v)' <=> Busy(v) /\ v # w
  BY DEF Posts, Busy
<1>5. \A k \in Slots : Queued(k)' <=> Queued(k)
  BY <1>1, <1>2, <1>3, <1>4 DEF Queued, Posts
<1>6. GrabOrder' /\ FirstTaken'
  BY <1>2 DEF PlaceInv, GrabOrder, FirstTaken, Taken
<1>7. QueuedByFirst'
  BY <1>2, <1>5 DEF PlaceInv, QueuedByFirst
<1>8. OnePlace'
  <2>1. \A k \in Range1(inspectQueue) : k \in Slots
    BY ElementOfSeq DEF PlaceInv, TypeOK, Range1
  <2>2. \A v \in Threads : Busy(v) => wslot[v] \in Slots
    BY DEF PlaceInv, TypeOK
  <2>3. QED
    BY <1>1, <1>2, <1>3, <1>4, <2>1, <2>2 DEF PlaceInv, OnePlace, Posts
<1>9. OneVerdict'
  BY <1>1, <1>2, <1>3, <1>5 DEF PlaceInv, OneVerdict, Judged
<1>10. QED
  BY <1>6, <1>7, <1>8, <1>9

\* A buffer leaves the inspect queue for a thread that had none.
LEMMA PollPlace ==
  ASSUME PlaceInv, NEW w \in Threads, Poll(w)
  PROVE  GrabOrder' /\ FirstTaken' /\ QueuedByFirst' /\ OnePlace' /\ OneVerdict'
<1> USE DEF Poll, grabVars, copyVars, slotVars, saveVars
<1> DEFINE h == Head(inspectQueue)
<1>1. /\ h \in Slots /\ h \in Range1(inspectQueue) /\ h \notin Range1(inspectQueue')
      /\ Range1(inspectQueue) = Range1(inspectQueue') \cup {h}
      /\ Once(inspectQueue')
  BY RangeTail DEF PlaceInv, OnePlace, TypeOK
<1>2. /\ \A v \in Threads : Busy(v)' <=> Busy(v) \/ v = w
      /\ wslot'[w] = h /\ \A v \in Threads : v # w => wslot'[v] = wslot[v]
      /\ ~Busy(w)
  BY DEF Busy, PlaceInv, TypeOK
<1> HIDE DEF h
<1>3. \A k : Queued(k)' <=> Queued(k)
  BY <1>1, <1>2 DEF Queued
<1>4. GrabOrder' /\ FirstTaken'
  BY DEF PlaceInv, GrabOrder, FirstTaken, Taken
<1>5. QueuedByFirst'
  BY <1>3 DEF PlaceInv, QueuedByFirst
<1>6. OnePlace'
  BY <1>1, <1>2 DEF PlaceInv, OnePlace
<1>7. OneVerdict'
  BY <1>3 DEF PlaceInv, OneVerdict, Judged
<1>8. QED
  BY <1>4, <1>5, <1>6, <1>7

\* The handler and the grab threads move no buffer; a copy task that is started
\* has none.
LEMMA GrabPlace ==
  ASSUME PlaceInv, NEW s \in Scans, Start(s) \/ GrabStep(s)
  PROVE  GrabOrder' /\ FirstTaken' /\ QueuedByFirst' /\ OnePlace' /\ OneVerdict'
<1> USE DEF slotVars, queueVars, workerVars, saveVars, copyVars
<1>1. UNCHANGED <<into, slot, owner, posted, inspectQueue, scanQueue, wpc, wslot, wb,
                  judged>>
  BY DEF Start, GrabStep, Grab, GrabStopped, GrabThrows, Complete, Flush
<1>2. \A k : Queued(k)' <=> Queued(k)
  BY <1>1 DEF Queued, Busy
<1>3. OnePlace' /\ OneVerdict'
  BY <1>1, <1>2 DEF PlaceInv, OnePlace, OneVerdict, Judged, Busy
<1>4. CASE Grab(s)
  <2> DEFINE t == <<s, gb[s]>>
  <2>1. /\ gb[s] \in Batches /\ copy[t] = "none" /\ copy' = [copy EXCEPT ![t] = "wait"]
        /\ t \in Tasks
    BY <1>4 DEF PlaceInv, GrabOrder, Grab, TypeOK, Batches, Tasks
  <2>2. copy'[t] = "wait" /\ \A u \in Tasks : u # t => copy'[u] = copy[u]
    BY <2>1 DEF PlaceInv, TypeOK
  <2>3. \A r \in Scans : First(r) \in Tasks
    BY Bounds DEF First, Tasks
  <2>4. FirstTaken' /\ QueuedByFirst'
    <3>1. \A r \in Scans :
            Taken(First(r))' => Taken(First(r)) /\ copy'[First(r)] = copy[First(r)]
      BY <2>2, <2>3 DEF Taken
    <3>2. \A r \in Scans : copy[First(r)] \in {"check", "done"}
                             => copy'[First(r)] = copy[First(r)]
      BY <2>1, <2>2, <2>3
    <3>3. QED
      BY <1>1, <1>2, <3>1, <3>2 DEF PlaceInv, FirstTaken, QueuedByFirst
  <2>5. GrabOrder'
    <3>1. \A r \in Scans : r # s => gpc'[r] = gpc[r] /\ gb'[r] = gb[r]
      BY <1>4 DEF Grab, PlaceInv, TypeOK
    <3>2. ASSUME NEW r \in Scans, r # s
          PROVE  \A b \in Batches : copy'[<<r, b>>] = copy[<<r, b>>]
      BY <2>2, <3>2 DEF Tasks
    <3>3. ASSUME NEW b \in Batches, gpc'[s] = "grab"
          PROVE  copy'[<<s, b>>] = "none" <=> b >= gb'[s]
      <4>1. gb'[s] = gb[s] + 1
        BY <1>4, <3>3 DEF Grab, PlaceInv, TypeOK
      <4>2. b = gb[s] \/ (copy'[<<s, b>>] = copy[<<s, b>>] /\ b # gb[s])
        BY <2>2 DEF Tasks
      <4>3. copy[<<s, b>>] = "none" <=> b >= gb[s]
        BY <1>4 DEF PlaceInv, GrabOrder, Grab
      <4>4. b \in Int /\ gb[s] \in Int
        BY <2>1 DEF Batches
      <4>5. QED
        BY <2>2, <4>1, <4>2, <4>3, <4>4
    <3>4. gpc'[s] # "idle"
      BY <1>4 DEF Grab, PlaceInv, TypeOK
    <3>5. QED
      BY <3>1, <3>2, <3>3, <3>4 DEF PlaceInv, GrabOrder
  <2>6. QED
    BY <1>3, <2>4, <2>5
<1>5. CASE Start(s) \/ GrabStopped(s) \/ GrabThrows(s) \/ Complete(s) \/ Flush(s)
  <2>1. UNCHANGED <<copy, gb>>
    BY <1>5 DEF Start, GrabStopped, GrabThrows, Complete, Flush
  <2>2. FirstTaken' /\ QueuedByFirst'
    BY <1>1, <1>2, <2>1 DEF PlaceInv, FirstTaken, QueuedByFirst, Taken
  <2>3. GrabOrder'
    BY <1>5, <2>1 DEF PlaceInv, GrabOrder, TypeOK, Start, GrabStopped,
                      GrabThrows, Complete, Flush
  <2>4. QED
    BY <1>3, <2>2, <2>3
<1>6. QED
  BY <1>4, <1>5 DEF GrabStep

\* A first copy takes a buffer nobody had, the others the one taken last.
LEMMA TakeFacts ==
  ASSUME TypeOK, NEW s \in Scans, NEW b \in Batches, NEW fail \in BOOLEAN,
         TakeBuffer(s, b, fail)
  PROVE  /\ b = 0 => slot' = slot + 1 /\ owner'[slot'] = s /\ images'[slot'] = {}
         /\ b # 0 => slot' = slot /\ UNCHANGED <<owner, images>>
         /\ slot' \in Slots /\ slot \in Nat
         /\ fail => bGrabFail'[slot']
         /\ \A k \in Slots : k <= slot =>
              /\ owner'[k] = owner[k] /\ images'[k] = images[k]
              /\ bGrabFail[k] => bGrabFail'[k]
         /\ into'[<<s, b>>] = slot' /\ paramFail'[<<s, b>>] = fail
         /\ \A t \in Tasks : t # <<s, b>> =>
              into'[t] = into[t] /\ paramFail'[t] = paramFail[t]
<1>1. slot' \in Slots /\ slot \in Slots /\ slot \in Nat
  BY TakeTyped DEF TypeOK, Slots
<1>2. <<s, b>> \in Tasks
  BY DEF Tasks
<1>3. CASE b = 0
  BY <1>1, <1>2, <1>3 DEF TakeBuffer, TypeOK
<1>4. CASE b # 0
  <2>1. bGrabFail' = [bGrabFail EXCEPT ![slot] = @ \/ fail]
        /\ UNCHANGED <<slot, owner, images>>
    BY <1>4 DEF TakeBuffer
  <2>2. fail => bGrabFail'[slot]
    BY <1>1, <2>1 DEF TypeOK
  <2>3. \A k \in Slots : bGrabFail[k] => bGrabFail'[k]
    BY <1>1, <2>1 DEF TypeOK
  <2>4. QED
    BY <1>1, <1>2, <1>4, <2>1, <2>2, <2>3 DEF TakeBuffer, TypeOK
<1>5. QED
  BY <1>3, <1>4

\* A queued buffer is one of those taken.
LEMMA QueuedTaken ==
  ASSUME PlaceInv, NEW k \in Slots, Queued(k)
  PROVE  k \in 1 .. slot /\ posted[k] \in Nat /\ owner[k] \in Scans
BY DEF PlaceInv, QueuedByFirst, FirstTaken, Taken, TypeOK

\* Putting a buffer into the queues that was in none.
LEMMA EnqueuePlace ==
  ASSUME PlaceInv, NEW k \in Slots, ~Queued(k), Enqueue(0, k),
         UNCHANGED <<posted, judged, wslot, wb>>
  PROVE  /\ \A j \in Slots : Queued(j)' <=> Queued(j) \/ j = k
         /\ OnePlace' /\ OneVerdict'
<1>1. /\ scanQueue' = Append(scanQueue, k) /\ inspectQueue' = Append(inspectQueue, k)
      /\ wpc' = [w \in Threads |-> IF wpc[w] = "off" THEN "poll" ELSE wpc[w]]
  BY DEF Enqueue
<1>2. /\ k \notin Range1(inspectQueue) /\ k \notin Range1(scanQueue) /\ ~Judged(k)
      /\ posted[k] = 0
      /\ \A w \in Threads : Busy(w) => wslot[w] # k
  BY DEF Queued, PlaceInv, OneVerdict, TypeOK
<1>3. /\ Range1(inspectQueue') = Range1(inspectQueue) \cup {k}
      /\ Range1(scanQueue') = Range1(scanQueue) \cup {k}
      /\ Once(inspectQueue') /\ Once(scanQueue')
  <2>1. Once(inspectQueue) /\ Once(scanQueue)
    BY DEF PlaceInv, OnePlace, OneVerdict
  <2>2. inspectQueue \in Seq(Slots) /\ scanQueue \in Seq(Slots)
    BY DEF PlaceInv, TypeOK
  <2>3. QED
    BY <1>1, <1>2, <2>1, <2>2, RangeAppend
<1>4. \A w \in Threads : Busy(w)' <=> Busy(w)
  BY <1>1 DEF Busy
<1>5. \A j \in Slots : Queued(j)' <=> Queued(j) \/ j = k
  BY <1>2, <1>3, <1>4 DEF Queued
<1>6. OnePlace'
  BY <1>2, <1>3, <1>4 DEF PlaceInv, OnePlace
<1>7. OneVerdict'
  BY <1>2, <1>3, <1>5 DEF PlaceInv, OneVerdict, Judged
<1>8. QED
  BY <1>5, <1>6, <1>7

\* The copy tasks move on; each step is of a task that was started.
LEMMA CopyMoves ==
  ASSUME TypeOK, NEW s \in Scans, NEW b \in Batches, CopyStep(s, b)
  PROVE  /\ UNCHANGED <<stop, gpc, gb, posted, judged, wslot, wb, inspected>>
         /\ \A t \in Tasks : t # <<s, b>> => copy'[t] = copy[t]
         /\ \/ copy[<<s, b>>] = "wait" /\ copy'[<<s, b>>] = "fill"
            \/ copy[<<s, b>>] = "fill" /\ copy'[<<s, b>>] \in {"check", "redo"}
            \/ copy[<<s, b>>] = "redo" /\ copy'[<<s, b>>] = "check"
            \/ copy[<<s, b>>] = "check" /\ copy'[<<s, b>>] = "done"
BY DEF CopyStep, CopyBegin, CopyFill, CopyThrows, CopyRedo, CopyReport, TypeOK,
       grabVars, workerVars, saveVars, Tasks

\* No copy step loses a buffer or queues one twice.
LEMMA CopyPlace ==
  ASSUME PlaceInv, NEW s \in Scans, NEW b \in Batches, CopyStep(s, b)
  PROVE  GrabOrder' /\ FirstTaken' /\ QueuedByFirst' /\ OnePlace' /\ OneVerdict'
<1> DEFINE t == <<s, b>>
<1>0. TypeOK /\ t \in Tasks /\ \A r \in Scans : First(r) \in Tasks
  BY Bounds DEF PlaceInv, Tasks, First
<1>1. /\ UNCHANGED <<gpc, gb, posted, judged, wslot, wb>>
      /\ \A u \in Tasks : u # t => copy'[u] = copy[u]
      /\ copy[t] \in Active /\ copy'[t] \in {"fill", "redo", "check", "done"}
  BY <1>0, CopyMoves DEF Active
<1>2. GrabOrder'
  <2>1. \A u \in Tasks : copy'[u] = "none" <=> copy[u] = "none"
    BY <1>1 DEF Active
  <2>2. QED
    BY <1>1, <2>1 DEF PlaceInv, GrabOrder, Tasks
<1>3. ASSUME UNCHANGED <<queueVars, wpc>>
      PROVE  /\ \A k : Queued(k)' <=> Queued(k)
             /\ OnePlace' /\ OneVerdict'
  <2>1. \A k : Queued(k)' <=> Queued(k)
    BY <1>1, <1>3 DEF Queued, Busy, queueVars
  <2>2. QED
    BY <1>1, <1>3, <2>1 DEF PlaceInv, OnePlace, OneVerdict, Judged, Busy, queueVars
<1>4. ASSUME UNCHANGED <<into, slotVars>>, copy[t] \notin {"none", "wait"}
      PROVE  FirstTaken'
  <2>1. \A r \in Scans : Taken(First(r))' => Taken(First(r))
    BY <1>0, <1>1, <1>4 DEF Taken, Active
  <2>2. QED
    BY <1>4, <2>1 DEF PlaceInv, FirstTaken, slotVars
<1>5. ASSUME NEW fail \in BOOLEAN, TakeBuffer(s, b, fail)
      PROVE  /\ FirstTaken'
             /\ b = 0 => ~Queued(slot') /\ slot' \in Slots
             /\ \A k \in Slots : Queued(k) => owner'[k] = owner[k]
             /\ \A r \in Scans : First(r) # t => into'[First(r)] = into[First(r)]
  <2>1. /\ b = 0 => slot' = slot + 1 /\ owner'[slot'] = s
        /\ b # 0 => slot' = slot /\ UNCHANGED owner
        /\ slot' \in Slots /\ slot \in Nat
        /\ \A k \in Slots : k <= slot => owner'[k] = owner[k]
        /\ into'[t] = slot' /\ \A u \in Tasks : u # t => into'[u] = into[u]
    BY <1>0, <1>5, TakeFacts
  <2>2. \A k \in Slots : Queued(k) => k \in 1 .. slot
    BY QueuedTaken
  <2>3. ASSUME NEW r \in Scans, Taken(First(r))'
        PROVE  into'[First(r)] \in 1 .. slot' /\ owner'[into'[First(r)]] = r
    <3>1. CASE First(r) = t
      <4>1. r = s /\ b = 0
        BY <3>1 DEF First
      <4>2. QED
        BY <2>1, <3>1, <4>1
    <3>2. CASE First(r) # t
      <4>1. Taken(First(r)) /\ into'[First(r)] = into[First(r)]
        BY <1>0, <1>1, <2>1, <2>3, <3>2 DEF Taken
      <4>2. into[First(r)] \in 1 .. slot /\ owner[into[First(r)]] = r
            /\ into[First(r)] \in Slots
        BY <1>0, <4>1 DEF PlaceInv, FirstTaken, TypeOK
      <4>3. QED
        BY <2>1, <4>1, <4>2
    <3>3. QED
      BY <3>1, <3>2
  <2>4. QED
    BY <1>0, <2>1, <2>2, <2>3 DEF FirstTaken
<1>6. ASSUME \A r \in Scans : First(r) # t => into'[First(r)] = into[First(r)],
             \A k \in Slots : Queued(k) => owner'[k] = owner[k],
             \A k \in Slots : Queued(k)' <=> Queued(k),
             copy[t] = "check" => into' = into
      PROVE  QueuedByFirst'
  <2>1. ASSUME NEW k \in Slots, Queued(k)
        PROVE  /\ owner'[k] \in Scans
               /\ copy'[First(owner'[k])] \in {"check", "done"}
               /\ into'[First(owner'[k])] = k
    <3>1. /\ owner'[k] = owner[k] /\ owner[k] \in Scans
          /\ copy[First(owner[k])] \in {"check", "done"}
          /\ into[First(owner[k])] = k
      BY <1>6, <2>1 DEF PlaceInv, QueuedByFirst
    <3>2. CASE First(owner[k]) # t
      BY <1>0, <1>1, <1>6, <3>1, <3>2
    <3>3. CASE First(owner[k]) = t
      BY <1>0, <1>6, <3>1, <3>3, CopyMoves
    <3>4. QED
      BY <3>2, <3>3
  <2>2. QED
    BY <1>6, <2>1 DEF QueuedByFirst
<1>7. CASE CopyBegin(s, b)
  <2>1. PICK ok \in BOOLEAN : TakeBuffer(s, b, ~ok)
    BY <1>0, <1>7 DEF CopyBegin, Reads, TypeOK
  <2>2. UNCHANGED <<queueVars, wpc>> /\ copy[t] = "wait"
    BY <1>7 DEF CopyBegin, workerVars
  <2>3. QED
    BY <1>2, <1>3, <1>5, <1>6, <2>1, <2>2
<1>8. CASE CopyThrows(s, b) \/ CopyReport(s, b)
  <2>1. UNCHANGED <<queueVars, wpc, into, slotVars>> /\ copy[t] \notin {"none", "wait"}
    BY <1>8 DEF CopyThrows, CopyReport, workerVars
  <2>2. QED
    BY <1>2, <1>3, <1>4, <1>6, <2>1 DEF slotVars
<1>9. CASE CopyFill(s, b) /\ b # 0
  <2>1. UNCHANGED <<queueVars, wpc, into, slotVars>> /\ copy[t] \notin {"none", "wait"}
    BY <1>9 DEF CopyFill, Enqueue
  <2>2. QED
    BY <1>2, <1>3, <1>4, <1>6, <2>1 DEF slotVars
<1>10. CASE CopyRedo(s, b) /\ b # 0
  <2>1. UNCHANGED <<queueVars, wpc>> /\ copy[t] = "redo" /\ TakeBuffer(s, b, TRUE)
    BY <1>10 DEF CopyRedo, Enqueue
  <2>2. QED
    BY <1>2, <1>3, <1>5, <1>6, <2>1
<1>11. CASE CopyFill(s, b) /\ b = 0
  <2> DEFINE k == into[t]
  <2>1. /\ UNCHANGED <<into, slotVars>> /\ Enqueue(0, k) /\ copy'[t] = "check"
        /\ copy[t] = "fill" /\ t = First(s)
    BY <1>0, <1>11 DEF CopyFill, First, TypeOK
  <2>2. k \in Slots /\ owner[k] = s
    BY <1>0, <2>1 DEF PlaceInv, FirstTaken, Taken, TypeOK
  <2>3. ~Queued(k)
    BY <2>1, <2>2 DEF PlaceInv, QueuedByFirst
  <2> HIDE DEF k
  <2>4. /\ \A j \in Slots : Queued(j)' <=> Queued(j) \/ j = k
        /\ OnePlace' /\ OneVerdict'
    BY <1>1, <2>1, <2>2, <2>3, EnqueuePlace
  <2>5. QueuedByFirst'
    <3>1. ASSUME NEW j \in Slots, Queued(j)
          PROVE  /\ owner[j] \in Scans /\ copy'[First(owner[j])] \in {"check", "done"}
                 /\ into[First(owner[j])] = j
      <4>1. /\ owner[j] \in Scans /\ copy[First(owner[j])] \in {"check", "done"}
            /\ into[First(owner[j])] = j
        BY <3>1 DEF PlaceInv, QueuedByFirst
      <4>2. First(owner[j]) # t
        BY <2>1, <4>1
      <4>3. QED
        BY <1>0, <1>1, <4>1, <4>2
    <3>2. QED
      BY <2>1, <2>2, <2>4, <3>1 DEF QueuedByFirst, slotVars, k
  <2>6. QED
    BY <1>2, <1>4, <2>1, <2>4, <2>5
<1>12. CASE CopyRedo(s, b) /\ b = 0
  <2> DEFINE k == slot'
  <2>1. /\ TakeBuffer(s, 0, TRUE) /\ Enqueue(0, k) /\ copy'[t] = "check"
        /\ copy[t] = "redo" /\ t = First(s)
    BY <1>0, <1>12 DEF CopyRedo, First, TypeOK
  <2>2. /\ FirstTaken' /\ k \in Slots /\ ~Queued(k)
        /\ \A j \in Slots : Queued(j) => owner'[j] = owner[j]
        /\ \A r \in Scans : First(r) # t => into'[First(r)] = into[First(r)]
    BY <1>5, <1>12, <2>1
  <2>3. into'[t] = k /\ owner'[k] = s
    BY <1>0, <1>12, <2>1, TakeFacts
  <2>4. /\ \A j \in Slots : Queued(j)' <=> Queued(j) \/ j = k
        /\ OnePlace' /\ OneVerdict'
    BY <1>1, <2>1, <2>2, EnqueuePlace
  <2>5. QueuedByFirst'
    <3>1. ASSUME NEW j \in Slots, Queued(j)
          PROVE  /\ owner'[j] \in Scans
                 /\ copy'[First(owner'[j])] \in {"check", "done"}
                 /\ into'[First(owner'[j])] = j
      <4>1. /\ owner'[j] = owner[j] /\ owner[j] \in Scans
            /\ copy[First(owner[j])] \in {"check", "done"}
            /\ into[First(owner[j])] = j
        BY <2>2, <3>1 DEF PlaceInv, QueuedByFirst
      <4>2. First(owner[j]) # t
        BY <2>1, <4>1
      <4>3. QED
        BY <1>0, <1>1, <2>2, <4>1, <4>2
    <3>2. ASSUME NEW j \in Slots, j = k
          PROVE  /\ owner'[j] \in Scans
                 /\ copy'[First(owner'[j])] \in {"check", "done"}
                 /\ into'[First(owner'[j])] = j
      BY <2>1, <2>3, <3>2
    <3>3. QED
      BY <2>4, <3>1, <3>2 DEF QueuedByFirst
  <2>6. QED
    BY <1>2, <2>2, <2>4, <2>5
<1>13. QED
  BY <1>7, <1>8, <1>9, <1>10, <1>11, <1>12 DEF CopyStep

\* The result-save thread judges a buffer that is posted; it is queued no more.
LEMMA JudgePlace ==
  ASSUME PlaceInv, Judge
  PROVE  GrabOrder' /\ FirstTaken' /\ QueuedByFirst' /\ OnePlace' /\ OneVerdict'
<1> USE DEF Judge, grabVars, copyVars, slotVars, workerVars
<1> DEFINE h == Head(scanQueue)
<1>1. /\ h \in Slots /\ h \in Range1(scanQueue) /\ h \notin Range1(scanQueue')
      /\ Range1(scanQueue) = Range1(scanQueue') \cup {h}
      /\ Once(scanQueue')
  BY RangeTail DEF PlaceInv, OneVerdict, TypeOK
<1>2. \A k : Queued(k)' <=> Queued(k)
  BY DEF Queued, Busy
<1>3. posted[h] = 1
  BY <1>1 DEF PlaceInv, OnePlace, TypeOK
<1>4. \A k : Judged(k)' <=> Judged(k) \/ k = h
  <2> DEFINE v == [module |-> h, passed |-> matched[h]]
  <2>1. judged \in Seq([module : Slots, passed : BOOLEAN])
        /\ v \in [module : Slots, passed : BOOLEAN] /\ judged' = Append(judged, v)
    BY <1>1 DEF PlaceInv, TypeOK
  <2>2. v.module = h
    OBVIOUS
  <2> HIDE DEF v
  <2>3. /\ Len(judged') = Len(judged) + 1 /\ Len(judged) \in Nat
        /\ \A i \in 1 .. Len(judged) : judged'[i] = judged[i]
        /\ judged'[Len(judged) + 1] = v
    BY <2>1, AppendProperties, LenProperties
  <2> HIDE DEF h
  <2>4. \A i : i \in 1 .. Len(judged') <=> i \in 1 .. Len(judged) \/ i = Len(judged) + 1
    BY <2>3
  <2>5. QED
    BY <2>2, <2>3, <2>4 DEF Judged
<1> HIDE DEF h
<1>5. GrabOrder' /\ FirstTaken'
  BY DEF PlaceInv, GrabOrder, FirstTaken, Taken
<1>6. QueuedByFirst'
  BY <1>2 DEF PlaceInv, QueuedByFirst
<1>7. OnePlace'
  BY DEF PlaceInv, OnePlace, Busy
<1>8. OneVerdict'
  BY <1>1, <1>2, <1>3, <1>4 DEF PlaceInv, OneVerdict
<1>9. QED
  BY <1>5, <1>6, <1>7, <1>8

\* At the start no buffer is anywhere.
LEMMA PlaceInit == Init => PlaceInv
<1> SUFFICES ASSUME Init PROVE PlaceInv
  OBVIOUS
<1>1. TypeOK
  BY TypeInit
<1>2. /\ Range1(inspectQueue) = {} /\ Range1(scanQueue) = {}
      /\ \A k : ~Judged(k)
  <2>1. inspectQueue = <<>> /\ scanQueue = <<>> /\ judged = <<>>
    BY DEF Init
  <2>2. 1 .. Len(<<>>) = {}
    OBVIOUS
  <2>3. QED
    BY <2>1, <2>2 DEF Range1, Judged
<1>3. \A k \in Slots : ~Queued(k)
  BY <1>2 DEF Init, Queued, Busy
<1>4. GrabOrder
  BY DEF Init, GrabOrder, Batches
<1>5. FirstTaken
  BY Bounds DEF Init, FirstTaken, Taken, First
<1>6. QueuedByFirst
  BY <1>3 DEF QueuedByFirst
<1>7. OnePlace
  <2>1. Once(inspectQueue)
    BY DEF Init, Once
  <2>2. QED
    BY <1>2, <2>1 DEF Init, OnePlace, Busy
<1>8. OneVerdict
  <2>1. Once(scanQueue)
    BY DEF Init, Once
  <2>2. QED
    BY <1>2, <1>3, <2>1 DEF OneVerdict
<1>9. QED
  BY <1>1, <1>4, <1>5, <1>6, <1>7, <1>8 DEF PlaceInv

\* Every step leaves every buffer in one place.
LEMMA PlaceNext == PlaceInv /\ [Next]_vars => PlaceInv'
<1> SUFFICES ASSUME PlaceInv, [Next]_vars PROVE PlaceInv'
  OBVIOUS
<1>0. TypeOK /\ TypeOK'
  BY TypeNext DEF PlaceInv
<1> SUFFICES GrabOrder' /\ FirstTaken' /\ QueuedByFirst' /\ OnePlace' /\ OneVerdict'
  BY <1>0 DEF PlaceInv
<1>1. CASE \E w \in Threads : WorkerStep(w)
  <2> PICK w \in Threads : WorkerStep(w)
    BY <1>1
  <2>1. /\ UNCHANGED <<grabVars, copyVars, slotVars>>
        /\ Poll(w) \/ Turns(w) \/ Posts(w)
    BY <1>0, WorkerKinds
  <2>2. UNCHANGED <<gpc, gb, copyVars, slotVars>>
    BY <2>1 DEF grabVars
  <2>3. QED
    BY <2>1, <2>2, PollPlace, TurnsPlace, PostsPlace
<1>2. CASE Stop \/ UNCHANGED vars
  <2>1. UNCHANGED <<gpc, gb, copy, into, slot, owner, posted, scanQueue,
                    inspectQueue, wpc, wslot, wb, judged>>
    BY <1>2 DEF Stop, vars, grabVars, copyVars, slotVars, queueVars, workerVars,
                saveVars
  <2>2. \A k : Queued(k)' <=> Queued(k)
    BY <2>1 DEF Queued, Busy
  <2>3. QED
    BY <2>1, <2>2 DEF PlaceInv, GrabOrder, FirstTaken, Taken, QueuedByFirst,
                      OnePlace, OneVerdict, Judged, Busy
<1>3. QED
  BY <1>1, <1>2, GrabPlace, CopyPlace, JudgePlace DEF Next

LEMMA PlaceAlways == Spec => []PlaceInv
BY PlaceInit, PlaceNext, PTL DEF Spec

\* Whatever the handler, the grabs and the copies do, and whichever way a module
\* ends, an algorithm thread posts its buffer at most once, and then neither the
\* inspect queue nor a running thread holds it.
THEOREM BatchPostsOnce == Spec => []PostedOnce
<1>1. PlaceInv => PostedOnce
  <2> SUFFICES ASSUME PlaceInv, NEW k \in Slots, posted[k] = 1
               PROVE  /\ k \notin Range1(inspectQueue)
                      /\ \A w \in Threads : wslot[w] # k
    BY DEF PlaceInv, OnePlace, PostedOnce
  <2>1. Queued(k)
    BY DEF Queued
  <2>2. k # 0
    BY <2>1, QueuedTaken
  <2>3. \A w \in Threads : Busy(w) => wslot[w] # k
    BY DEF PlaceInv, OnePlace
  <2>4. \A w \in Threads : ~Busy(w) => wslot[w] # k
    BY <2>2 DEF PlaceInv, OnePlace
  <2>5. k \notin Range1(inspectQueue)
    BY DEF PlaceInv, OnePlace
  <2>6. QED
    BY <2>3, <2>4, <2>5
<1>2. QED
  BY <1>1, PlaceAlways, PTL

-----------------------------------------------------------------------------
(* What the steps leave alone.                                             *)

\* The handler and the grab threads touch neither the buffers nor the queues.
LEMMA GrabFrame ==
  ASSUME NEW s \in Scans, Start(s) \/ GrabStep(s)
  PROVE  UNCHANGED <<into, paramFail, slotVars, bGrabFail, matched, images,
                     queueVars, workerVars, saveVars>>
BY DEF Start, GrabStep, Grab, GrabStopped, GrabThrows, Complete, Flush, copyVars

\* The algorithm threads, the result-save thread and a stop touch neither the
\* grabs nor the copies nor what the copies wrote.
LEMMA OtherFrame ==
  ASSUME TypeOK, (\E w \in Threads : WorkerStep(w)) \/ Judge \/ Stop \/ UNCHANGED vars
  PROVE  UNCHANGED <<grabVars, copyVars, slotVars, bGrabFail, images>>
<1>1. CASE \E w \in Threads : WorkerStep(w)
  BY <1>1, WorkerKinds
<1>2. CASE Judge \/ Stop \/ UNCHANGED vars
  BY <1>2 DEF Judge, Stop, vars
<1>3. QED
  BY <1>1, <1>2

\* A copy task takes a buffer or leaves all of them where they are.  What it does
\* to those taken before: images and failures are added, none is removed.
LEMMA CopyFrame ==
  ASSUME TypeOK, NEW s \in Scans, NEW b \in Batches, CopyStep(s, b)
  PROVE  /\ \/ \E fail \in BOOLEAN :
                 /\ TakeBuffer(s, b, fail)
                 /\ copy'[<<s, b>>] = "fill" \/ (copy'[<<s, b>>] = "check" /\ fail)
            \/ /\ UNCHANGED <<into, paramFail, slot, owner>>
               /\ copy[<<s, b>>] \notin {"none", "wait"}
         /\ \A k \in Slots : k <= slot =>
              /\ owner'[k] = owner[k] /\ images[k] \subseteq images'[k]
              /\ bGrabFail[k] => bGrabFail'[k]
         /\ slot' \in Nat /\ slot <= slot'
<1>1. CASE CopyBegin(s, b) \/ CopyRedo(s, b)
  <2>1. PICK fail \in BOOLEAN :
          /\ TakeBuffer(s, b, fail)
          /\ copy'[<<s, b>>] = "fill" \/ (copy'[<<s, b>>] = "check" /\ fail)
    <3>1. <<s, b>> \in Tasks
      BY DEF Tasks
    <3>2. QED
      BY <1>1, <3>1 DEF CopyBegin, CopyRedo, Reads, TypeOK
  <2>2. /\ slot' \in Nat /\ slot <= slot'
        /\ \A k \in Slots : k <= slot =>
              /\ owner'[k] = owner[k] /\ images[k] \subseteq images'[k]
              /\ bGrabFail[k] => bGrabFail'[k]
    <3>1. /\ slot' \in Slots /\ slot \in Nat /\ (slot' = slot + 1 \/ slot' = slot)
          /\ \A k \in Slots : k <= slot =>
               /\ owner'[k] = owner[k] /\ images'[k] = images[k]
               /\ bGrabFail[k] => bGrabFail'[k]
      BY <2>1, TakeFacts
    <3>2. QED
      BY <3>1 DEF Slots
  <2>3. QED
    BY <2>1, <2>2
<1>2. CASE CopyFill(s, b)
  <2>1. /\ UNCHANGED <<into, paramFail, slot, owner>> /\ into[<<s, b>>] \in Slots
        /\ copy[<<s, b>>] \notin {"none", "wait"}
    BY <1>2 DEF CopyFill, slotVars, TypeOK, Tasks
  <2>2. \A k \in Slots : images[k] \subseteq images'[k]
    BY <1>2, <2>1 DEF CopyFill, TypeOK
  <2>3. \A k \in Slots : bGrabFail[k] => bGrabFail'[k]
    BY <1>2, <2>1 DEF CopyFill, TypeOK
  <2>4. QED
    BY <2>1, <2>2, <2>3 DEF TypeOK, Slots
<1>3. CASE CopyThrows(s, b) \/ CopyReport(s, b)
  <2>1. /\ UNCHANGED <<into, paramFail, slot, owner, images>> /\ into[<<s, b>>] \in Slots
        /\ copy[<<s, b>>] \notin {"none", "wait"}
    BY <1>3 DEF CopyThrows, CopyReport, slotVars, TypeOK, Tasks
  <2>2. \A k \in Slots : bGrabFail[k] => bGrabFail'[k]
    BY <1>3, <2>1 DEF CopyThrows, CopyReport, TypeOK
  <2>3. QED
    BY <2>1, <2>2 DEF TypeOK, Slots
<1>4. QED
  BY <1>1, <1>2, <1>3 DEF CopyStep

\* Once queued, a buffer stays queued, busy or posted.
LEMMA QueuedStays ==
  ASSUME PlaceInv, [Next]_vars, NEW k \in Slots, Queued(k)
  PROVE  Queued(k)' /\ owner'[k] = owner[k]
<1>0. TypeOK /\ OneVerdict /\ PlaceInv'
  BY PlaceNext DEF PlaceInv
<1>1. /\ Queued(k) <=> Judged(k) \/ k \in Range1(scanQueue)
      /\ Queued(k)' <=> Judged(k)' \/ k \in Range1(scanQueue')
      /\ k <= slot
  BY <1>0, QueuedTaken DEF PlaceInv, OneVerdict
<1>2. CASE \E s \in Scans : Start(s) \/ GrabStep(s)
  <2>1. UNCHANGED <<scanQueue, judged, owner>>
    BY <1>2, GrabFrame DEF queueVars, saveVars, slotVars
  <2>2. QED
    BY <1>1, <2>1 DEF Judged
<1>3. CASE \E s \in Scans, b \in Batches : CopyStep(s, b)
  <2> PICK s \in Scans, b \in Batches : CopyStep(s, b)
    BY <1>3
  <2>1. UNCHANGED judged /\ owner'[k] = owner[k]
    BY <1>0, <1>1, CopyMoves, CopyFrame
  <2>2. UNCHANGED scanQueue \/ \E j \in Slots : scanQueue' = Append(scanQueue, j)
    <3>1. CASE CopyBegin(s, b) \/ CopyThrows(s, b) \/ CopyReport(s, b)
      BY <3>1 DEF CopyBegin, CopyThrows, CopyReport, queueVars
    <3>2. CASE CopyFill(s, b)
      BY <1>0, <3>2 DEF CopyFill, Enqueue, queueVars, TypeOK, Tasks
    <3>3. CASE CopyRedo(s, b)
      <4>1. TakeBuffer(s, b, TRUE) /\ Enqueue(b, slot')
        BY <3>3 DEF CopyRedo
      <4>2. slot' \in Slots
        BY <1>0, <4>1, TakeFacts
      <4>3. QED
        BY <4>1, <4>2 DEF Enqueue, queueVars
    <3>4. QED
      BY <3>1, <3>2, <3>3 DEF CopyStep
  <2>3. scanQueue \in Seq(Slots)
    BY <1>0 DEF TypeOK
  <2>4. k \in Range1(scanQueue) => k \in Range1(scanQueue')
    <3>1. \A j \in Slots : scanQueue' = Append(scanQueue, j) =>
            Range1(scanQueue') = Range1(scanQueue) \cup {j}
      BY <2>3, RangeAppend
    <3>2. QED
      BY <2>2, <3>1
  <2>5. QED
    BY <1>1, <2>1, <2>4 DEF Judged
<1>4. CASE \E w \in Threads : WorkerStep(w)
  <2>1. UNCHANGED <<scanQueue, judged, owner>>
    BY <1>0, <1>4, WorkerKinds DEF slotVars
  <2>2. QED
    BY <1>1, <2>1 DEF Judged
<1>5. CASE Judge \/ Stop \/ UNCHANGED vars
  <2>1. UNCHANGED <<owner, inspectQueue, wpc, wslot, posted>>
    BY <1>5 DEF Judge, Stop, vars, slotVars, queueVars, workerVars, saveVars
  <2>2. QED
    BY <2>1 DEF Queued, Busy
<1>6. QED
  BY <1>2, <1>3, <1>4, <1>5 DEF Next

-----------------------------------------------------------------------------
(* Copies that do not outlast the next grab.                               *)

\* Only the handler lets the next scan begin.
ScanOrder == \A s, r \in Scans : gpc[s] # "idle" /\ r < s => ScanOver(r)

\* One copy task is active at a time: a scan's in the order of its batches, and
\* none of a scan that is over when a later one has begun to copy.
Serial ==
  /\ \A t, u \in Tasks : copy[t] \in Active /\ copy[u] \in Active => t = u
  /\ \A s \in Scans : \A b, c \in Batches :
       copy[<<s, b>>] # "none" /\ c < b => copy[<<s, c>>] = "done"
  /\ \A s, r \in Scans : \A b, c \in Batches :
       copy[<<s, b>>] # "none" /\ r < s => copy[<<r, c>>] \notin Active

OrderInv == PlaceInv /\ ScanOrder /\ Serial

\* The scans stay in order.
LEMMA ScanOrderNext ==
  ASSUME TypeOK, ScanOrder, [Next]_vars
  PROVE  ScanOrder'
<1>1. CASE \E s \in Scans : Start(s)
  <2> PICK s \in Scans : Start(s)
    BY <1>1
  <2>1. gpc'[s] = "grab" /\ \A r \in Scans : r # s => gpc'[r] = gpc[r]
    BY DEF Start, TypeOK
  <2>2. \A r \in Scans : r < s => ScanOver(r)
    <3>1. CASE s > 1
      <4>1. s - 1 \in Scans /\ ScanOver(s - 1)
        BY <3>1, BatchAssumption DEF Start, Scans, BatchAssumption
      <4>2. gpc[s - 1] # "idle"
        BY <4>1 DEF ScanOver
      <4>3. \A r \in Scans : r < s => r = s - 1 \/ r < s - 1
        BY DEF Scans
      <4>4. QED
        BY <4>1, <4>2, <4>3 DEF ScanOrder
    <3>2. QED
      BY <3>1 DEF Scans
  <2>3. \A r \in Scans : ScanOver(r) => ScanOver(r)' /\ r # s
    BY <2>1 DEF ScanOver, Start
  <2>4. QED
    BY <2>1, <2>2, <2>3 DEF ScanOrder
<1>2. CASE \E s \in Scans : GrabStep(s)
  <2> PICK s \in Scans : GrabStep(s)
    BY <1>2
  <2>1. /\ gpc[s] # "idle" /\ (ScanOver(s) => ScanOver(s)')
        /\ \A r \in Scans : r # s => gpc'[r] = gpc[r]
    BY DEF GrabStep, Grab, GrabStopped, GrabThrows, Complete, Flush, ScanOver, TypeOK
  <2>2. \A r \in Scans : ScanOver(r) => ScanOver(r)'
    BY <2>1 DEF ScanOver
  <2>3. \A r \in Scans : gpc'[r] # "idle" => gpc[r] # "idle"
    BY <2>1
  <2>4. QED
    BY <2>2, <2>3 DEF ScanOrder
<1>3. ASSUME UNCHANGED gpc PROVE ScanOrder'
  BY <1>3 DEF ScanOrder, ScanOver
<1>4. QED
  BY <1>1, <1>2, <1>3, CopyMoves, OtherFrame DEF Next, grabVars

\* A scan that has a copy was started; the earlier ones are over.
LEMMA Begun ==
  ASSUME PlaceInv, ScanOrder, NEW s \in Scans, NEW b \in Batches,
         copy[<<s, b>>] # "none"
  PROVE  gpc[s] # "idle" /\ \A r \in Scans : r < s => ScanOver(r)
<1>1. b >= 0
  BY DEF Batches
<1>2. gpc[s] # "idle"
  BY <1>1 DEF PlaceInv, GrabOrder
<1>3. QED
  BY <1>2 DEF ScanOrder

\* When a grab returns only after the copies before it are done, the next copy
\* task is alone.
LEMMA SerialNext ==
  ASSUME ~SlowCopies, OrderInv, [Next]_vars
  PROVE  Serial'
<1>0. TypeOK /\ PlaceInv /\ ScanOrder /\ Serial
  BY DEF OrderInv, PlaceInv
<1>1. CASE \E s \in Scans : Grab(s)
  <2> PICK s \in Scans : Grab(s)
    BY <1>1
  <2> DEFINE t == <<s, gb[s]>>
  <2>1. /\ gpc[s] = "grab" /\ gb[s] \in Batches /\ t \in Tasks
        /\ copy' = [copy EXCEPT ![t] = "wait"]
        /\ \A u \in Tasks : copy[u] \in {"none", "done"}
        /\ \A b \in Batches : copy[<<s, b>>] = "none" <=> b >= gb[s]
    BY <1>0 DEF Grab, CopiesSettled, PlaceInv, GrabOrder, TypeOK, Tasks
  <2>2. copy'[t] = "wait" /\ \A u \in Tasks : u # t => copy'[u] = copy[u]
    BY <1>0, <2>1 DEF TypeOK
  <2>3. \A t1, u \in Tasks : copy'[t1] \in Active /\ copy'[u] \in Active => t1 = u
    BY <2>1, <2>2 DEF Active
  <2>4. ASSUME NEW r \in Scans, NEW b \in Batches, NEW c \in Batches,
               copy'[<<r, b>>] # "none", c < b
        PROVE  copy'[<<r, c>>] = "done"
    <3>0. <<r, b>> \in Tasks /\ <<r, c>> \in Tasks /\ b \in Int /\ c \in Int /\ gb[s] \in Int
      BY <2>1 DEF Tasks, Batches
    <3>1. CASE r # s
      BY <1>0, <2>2, <2>4, <3>0, <3>1 DEF Serial
    <3>2. CASE r = s
      <4>1. b <= gb[s]
        BY <2>1, <2>2, <2>4, <3>0, <3>2
      <4>2. c < gb[s] /\ c # gb[s]
        BY <2>4, <3>0, <4>1
      <4>3. copy[<<s, c>>] # "none"
        BY <2>1, <3>0, <4>2
      <4>4. QED
        BY <2>1, <2>2, <3>0, <3>2, <4>2, <4>3
    <3>3. QED
      BY <3>1, <3>2
  <2>5. ASSUME NEW q \in Scans, NEW r \in Scans, NEW b \in Batches, NEW c \in Batches,
               copy'[<<q, b>>] # "none", r < q
        PROVE  copy'[<<r, c>>] \notin Active
    <3>0. <<q, b>> \in Tasks /\ <<r, c>> \in Tasks
      BY DEF Tasks
    <3>1. CASE r = s
      <4>1. q # s
        BY <2>5, <3>1 DEF Scans
      <4>2. copy[<<q, b>>] # "none"
        BY <2>2, <2>5, <3>0, <4>1
      <4>3. ScanOver(s)
        BY <1>0, <2>5, <3>1, <4>2, Begun
      <4>4. QED
        BY <2>1, <4>3 DEF ScanOver
    <3>2. CASE r # s
      BY <2>1, <2>2, <3>0, <3>2 DEF Active
    <3>3. QED
      BY <3>1, <3>2
  <2>6. QED
    BY <2>3, <2>4, <2>5 DEF Serial
<1>2. CASE \E s \in Scans, b \in Batches : CopyStep(s, b)
  <2> PICK s \in Scans, b \in Batches : CopyStep(s, b)
    BY <1>2
  <2> DEFINE t == <<s, b>>
  <2>1. /\ t \in Tasks /\ copy[t] \in Active /\ copy'[t] # "none"
        /\ \A u \in Tasks : u # t => copy'[u] = copy[u]
    BY <1>0, CopyMoves DEF Tasks, Active
  <2>2. \A u \in Tasks : /\ copy'[u] \in Active => copy[u] \in Active
                         /\ copy'[u] # "none" => copy[u] # "none"
                         /\ copy[u] = "done" => copy'[u] = "done"
    BY <2>1 DEF Active
  <2>3. \A r \in Scans, c \in Batches : <<r, c>> \in Tasks
    BY DEF Tasks
  <2>4. QED
    BY <1>0, <2>2, <2>3 DEF Serial
<1>3. ASSUME UNCHANGED copy PROVE Serial'
  BY <1>0, <1>3 DEF Serial
<1>4. ASSUME NEW s \in Scans, Start(s) \/ GrabStep(s), ~Grab(s)
      PROVE  UNCHANGED copy
  BY <1>4 DEF Start, GrabStep, GrabStopped, GrabThrows, Complete, Flush, copyVars
<1>5. QED
  BY <1>0, <1>1, <1>2, <1>3, <1>4, OtherFrame DEF Next, copyVars, GrabStep

\* While a task is active, no other scan is being grabbed or copied that has a
\* buffer.
BeingCopied(s) == gpc[s] = "grab" \/ \E b \in Batches : copy[<<s, b>>] \in Active

LEMMA Alone ==
  ASSUME OrderInv, NEW s \in Scans, NEW b \in Batches, copy[<<s, b>>] \in Active,
         NEW r \in Scans, r # s, Taken(First(r))
  PROVE  ~BeingCopied(r)
<1>1. \A c \in Batches : <<r, c>> \in Tasks /\ <<s, b>> \in Tasks /\ <<r, c>> # <<s, b>>
  BY DEF Tasks
<1>2. \A c \in Batches : copy[<<r, c>>] \notin Active
  BY <1>1 DEF OrderInv, Serial
<1>3. ~ s < r
  BY Bounds DEF OrderInv, Serial, First, Taken
<1>4. r < s
  BY <1>3, BatchAssumption DEF Scans, BatchAssumption
<1>5. ScanOver(r)
  BY <1>4, Begun DEF OrderInv, Active
<1>6. QED
  BY <1>2, <1>5 DEF BeingCopied, ScanOver

\* The buffer taken last is the one of the scan that is being copied.
Current ==
  \A s \in Scans : Taken(First(s)) /\ BeingCopied(s) => into[First(s)] = slot

LEMMA CurrentNext ==
  ASSUME OrderInv, Current, [Next]_vars
  PROVE  Current'
<1>0. TypeOK /\ \A r \in Scans : First(r) \in Tasks
  BY Bounds DEF OrderInv, PlaceInv, First, Tasks
<1>1. ASSUME NEW s \in Scans, Start(s) \/ GrabStep(s)
      PROVE  Current'
  <2>0. UNCHANGED <<into, slot>>
    BY <1>1, GrabFrame DEF slotVars
  <2>1. CASE Grab(s)
    <3> DEFINE t == <<s, gb[s]>>
    <3>1. /\ gpc[s] = "grab" /\ t \in Tasks /\ copy' = [copy EXCEPT ![t] = "wait"]
          /\ \A r \in Scans : r # s => gpc'[r] = gpc[r]
      BY <1>0, <2>1 DEF Grab, TypeOK, Tasks
    <3>2. copy'[t] = "wait" /\ \A u \in Tasks : u # t => copy'[u] = copy[u]
      BY <1>0, <3>1 DEF TypeOK
    <3>3. \A r \in Scans : Taken(First(r))' => Taken(First(r))
      BY <1>0, <3>2 DEF Taken
    <3>4. \A r \in Scans : r # s /\ BeingCopied(r)' => BeingCopied(r)
      <4>1. \A r \in Scans : r # s =>
              \A c \in Batches : copy'[<<r, c>>] = copy[<<r, c>>]
        BY <3>2 DEF Tasks
      <4>2. QED
        BY <3>1, <4>1 DEF BeingCopied
    <3>5. BeingCopied(s)
      BY <3>1 DEF BeingCopied
    <3>6. QED
      BY <2>0, <3>3, <3>4, <3>5 DEF Current
  <2>2. CASE ~Grab(s)
    <3>1. UNCHANGED copy
      BY <1>1, <2>2 DEF Start, GrabStep, GrabStopped, GrabThrows, Complete, Flush, copyVars
    <3>2. CASE Start(s)
      <4>1. gpc[s] = "idle" /\ gb[s] = 0 /\ \A r \in Scans : r # s => gpc'[r] = gpc[r]
        BY <1>0, <3>2 DEF Start, TypeOK, OrderInv, PlaceInv, GrabOrder
      <4>2. copy[First(s)] = "none"
        BY <4>1, Bounds DEF OrderInv, PlaceInv, GrabOrder, First, Batches
      <4>3. QED
        BY <2>0, <3>1, <4>1, <4>2 DEF Current, BeingCopied, Taken
    <3>3. CASE GrabStep(s)
      <4>1. \A r \in Scans : gpc'[r] = "grab" => gpc[r] = "grab"
        BY <1>0, <2>2, <3>3 DEF GrabStep, GrabStopped, GrabThrows, Complete, Flush, TypeOK
      <4>2. QED
        BY <2>0, <3>1, <4>1 DEF Current, BeingCopied, Taken
    <3>4. QED
      BY <1>1, <3>2, <3>3
  <2>3. QED
    BY <2>1, <2>2
<1>2. ASSUME NEW s \in Scans, NEW b \in Batches, CopyStep(s, b)
      PROVE  Current'
  <2> DEFINE t == <<s, b>>
  <2>1. /\ t \in Tasks /\ copy[t] \in Active /\ UNCHANGED gpc
        /\ \A u \in Tasks : u # t => copy'[u] = copy[u]
    BY <1>0, <1>2, CopyMoves DEF Tasks, Active
  <2>2. \A r \in Scans : BeingCopied(r)' => BeingCopied(r)
    <3>1. \A u \in Tasks : copy'[u] \in Active => copy[u] \in Active
      BY <2>1
    <3>2. \A r \in Scans, c \in Batches : <<r, c>> \in Tasks
      BY DEF Tasks
    <3>3. QED
      BY <2>1, <3>1, <3>2 DEF BeingCopied
  <2>3. \A r \in Scans : First(r) # t /\ Taken(First(r))' => Taken(First(r))
    BY <1>0, <2>1 DEF Taken
  <2>4. CASE \E fail \in BOOLEAN : TakeBuffer(s, b, fail)
    <3>1. /\ b # 0 => slot' = slot
          /\ into'[t] = slot' /\ \A u \in Tasks : u # t => into'[u] = into[u]
      BY <1>0, <2>4, TakeFacts
    <3>2. ASSUME NEW r \in Scans, Taken(First(r))', BeingCopied(r)'
          PROVE  into'[First(r)] = slot'
      <4>1. CASE First(r) = t
        BY <3>1, <4>1
      <4>2. CASE First(r) # t
        <5>1. into[First(r)] = slot /\ into'[First(r)] = into[First(r)]
          BY <1>0, <2>2, <2>3, <3>1, <3>2, <4>2 DEF Current
        <5>2. r = s
          BY <2>1, <2>2, <2>3, <3>2, <4>2, Alone
        <5>3. b # 0
          BY <4>2, <5>2 DEF First
        <5>4. QED
          BY <3>1, <5>1, <5>3
      <4>3. QED
        BY <4>1, <4>2
    <3>3. QED
      BY <3>2 DEF Current
  <2>5. CASE UNCHANGED <<into, slot>> /\ copy[t] \notin {"none", "wait"}
    <3>1. \A r \in Scans : Taken(First(r))' => Taken(First(r))
      BY <2>1, <2>3, <2>5 DEF Taken, Active
    <3>2. QED
      BY <2>2, <2>5, <3>1 DEF Current
  <2>6. QED
    BY <1>0, <1>2, <2>4, <2>5, CopyFrame
<1>3. ASSUME UNCHANGED <<grabVars, copyVars, slotVars>> PROVE Current'
  <2>1. UNCHANGED <<gpc, copy, into, slot>>
    BY <1>3 DEF grabVars, copyVars, slotVars
  <2>2. QED
    BY <2>1 DEF Current, Taken, BeingCopied
<1>4. QED
  BY <1>0, <1>1, <1>2, <1>3, OtherFrame DEF Next

\* All batches of a scan are copied into the buffer its first one took, or the
\* buffer is marked.
Copied ==
  \A s \in Scans : \A b \in Batches :
    Taken(<<s, b>>) =>
       /\ into[<<s, b>>] = into[First(s)]
       /\ copy[<<s, b>>] = "fill" /\ paramFail[<<s, b>>] => bGrabFail[into[<<s, b>>]]
       /\ copy[<<s, b>>] \in {"check", "done"} =>
            <<s, b>> \in images[into[<<s, b>>]] \/ bGrabFail[into[<<s, b>>]]

\* The buffer of a copy is one of those taken.
LEMMA TakenSlot ==
  ASSUME OrderInv, Copied, NEW s \in Scans, NEW b \in Batches, Taken(<<s, b>>)
  PROVE  /\ Taken(First(s)) /\ into[<<s, b>>] = into[First(s)]
         /\ into[<<s, b>>] \in Slots /\ into[<<s, b>>] \in 1 .. slot
         /\ owner[into[<<s, b>>]] = s
<1>1. into[<<s, b>>] = into[First(s)] /\ First(s) \in Tasks
  BY Bounds DEF Copied, First, Tasks
<1>2. Taken(First(s))
  <2>1. CASE b = 0
    BY <2>1 DEF First
  <2>2. CASE b # 0
    <3>1. 0 < b
      BY <2>2 DEF Batches
    <3>2. copy[<<s, 0>>] = "done"
      BY <3>1, Bounds DEF OrderInv, Serial, Taken
    <3>3. QED
      BY <3>2 DEF Taken, First
  <2>3. QED
    BY <2>1, <2>2
<1>3. QED
  BY <1>1, <1>2 DEF OrderInv, PlaceInv, FirstTaken, TypeOK

LEMMA CopiedNext ==
  ASSUME OrderInv, Current, Copied, [Next]_vars
  PROVE  Copied'
<1>0. TypeOK /\ (\A r \in Scans : First(r) \in Tasks)
      /\ \A r \in Scans, c \in Batches : <<r, c>> \in Tasks
  BY Bounds DEF OrderInv, PlaceInv, First, Tasks
<1>1. ASSUME NEW s \in Scans, Start(s) \/ GrabStep(s)
      PROVE  Copied'
  <2>1. UNCHANGED <<into, paramFail, bGrabFail, images>>
    BY <1>1, GrabFrame
  <2>2. \A t \in Tasks : copy'[t] = copy[t] \/ copy'[t] = "wait"
    BY <1>0, <1>1 DEF Start, GrabStep, Grab, GrabStopped, GrabThrows, Complete, Flush,
                      copyVars, TypeOK
  <2>3. QED
    BY <1>0, <2>1, <2>2 DEF Copied, Taken
<1>2. ASSUME NEW s \in Scans, NEW b \in Batches, CopyStep(s, b)
      PROVE  Copied'
  <2> DEFINE t == <<s, b>>
  <2>1. /\ t \in Tasks /\ copy[t] \in Active
        /\ \A u \in Tasks : u # t => copy'[u] = copy[u]
    BY <1>0, <1>2, CopyMoves DEF Active
  <2>2. \A k \in Slots : k <= slot =>
          images[k] \subseteq images'[k] /\ (bGrabFail[k] => bGrabFail'[k])
    BY <1>0, <1>2, CopyFrame
  \* The other tasks: their buffers only gain.
  <2>3. ASSUME \A u \in Tasks : u # t => into'[u] = into[u] /\ paramFail'[u] = paramFail[u],
               NEW r \in Scans, NEW c \in Batches, <<r, c>> # t, Taken(<<r, c>>)',
               First(r) # t \/ into'[First(r)] = into[First(r)]
        PROVE  /\ into'[<<r, c>>] = into'[First(r)]
               /\ copy'[<<r, c>>] = "fill" /\ paramFail'[<<r, c>>] =>
                    bGrabFail'[into'[<<r, c>>]]
               /\ copy'[<<r, c>>] \in {"check", "done"} =>
                    <<r, c>> \in images'[into'[<<r, c>>]] \/ bGrabFail'[into'[<<r, c>>]]
    <3> DEFINE u == <<r, c>>
    <3>1. /\ u \in Tasks /\ copy'[u] = copy[u] /\ into'[u] = into[u]
          /\ paramFail'[u] = paramFail[u] /\ into'[First(r)] = into[First(r)] /\ Taken(u)
      BY <1>0, <2>1, <2>3 DEF Taken
    <3>2. into[u] \in Slots /\ into[u] <= slot
      BY <3>1, TakenSlot
    <3>3. /\ into[u] = into[First(r)]
          /\ copy[u] = "fill" /\ paramFail[u] => bGrabFail[into[u]]
          /\ copy[u] \in {"check", "done"} => u \in images[into[u]] \/ bGrabFail[into[u]]
      BY <3>1 DEF Copied
    <3> HIDE DEF u
    <3>4. /\ into'[u] = into'[First(r)]
          /\ copy'[u] = "fill" /\ paramFail'[u] => bGrabFail'[into'[u]]
          /\ copy'[u] \in {"check", "done"} =>
               u \in images'[into'[u]] \/ bGrabFail'[into'[u]]
      BY <2>2, <3>1, <3>2, <3>3
    <3>5. QED
      BY <3>4 DEF u
  \* A first copy moves no buffer of a later batch: there is none yet.
  <2>4. \A r \in Scans, c \in Batches :
          <<r, c>> # t /\ Taken(<<r, c>>)' => First(r) # t
    <3> SUFFICES ASSUME NEW r \in Scans, NEW c \in Batches, <<r, c>> # t,
                        Taken(<<r, c>>)', First(r) = t
                 PROVE  FALSE
      OBVIOUS
    <3>1. r = s /\ b = 0 /\ c # 0
      BY <2>4 DEF First
    <3>2. Taken(<<s, c>>) /\ 0 < c
      BY <1>0, <2>1, <3>1 DEF Taken, Batches
    <3>3. copy[<<s, 0>>] = "done"
      BY <3>2, Bounds DEF OrderInv, Serial, Taken
    <3>4. QED
      BY <2>1, <3>1, <3>3 DEF Active
  <2>5. CASE \E fail \in BOOLEAN :
               /\ TakeBuffer(s, b, fail)
               /\ copy'[t] = "fill" \/ (copy'[t] = "check" /\ fail)
    <3> PICK fail \in BOOLEAN :
               /\ TakeBuffer(s, b, fail)
               /\ copy'[t] = "fill" \/ (copy'[t] = "check" /\ fail)
      BY <2>5
    <3>1. /\ b # 0 => slot' = slot
          /\ into'[t] = slot' /\ paramFail'[t] = fail /\ (fail => bGrabFail'[slot'])
          /\ \A u \in Tasks : u # t => into'[u] = into[u] /\ paramFail'[u] = paramFail[u]
      BY <1>0, TakeFacts
    <3>2. into'[First(s)] = slot'
      <4>1. CASE b = 0
        BY <3>1, <4>1 DEF First
      <4>2. CASE b # 0
        <5>1. 0 < b /\ First(s) # t
          BY <4>2 DEF Batches, First
        <5>2. copy[First(s)] = "done"
          BY <2>1, <5>1, Bounds DEF OrderInv, Serial, First, Active
        <5>3. into[First(s)] = slot
          BY <2>1, <5>2 DEF Current, Taken, BeingCopied
        <5>4. QED
          BY <1>0, <3>1, <4>2, <5>1, <5>3
      <4>3. QED
        BY <4>1, <4>2
    <3>3. /\ into'[t] = into'[First(s)]
          /\ copy'[t] = "fill" /\ paramFail'[t] => bGrabFail'[into'[t]]
          /\ copy'[t] \in {"check", "done"} =>
               t \in images'[into'[t]] \/ bGrabFail'[into'[t]]
      BY <3>1, <3>2
    <3>4. QED
      BY <2>3, <2>4, <3>1, <3>3 DEF Copied
  <2>6. CASE UNCHANGED <<into, paramFail>> /\ copy[t] \notin {"none", "wait"}
    <3>1. Taken(t)
      BY <2>1, <2>6 DEF Taken, Active
    <3>2. into[t] \in Slots /\ into[t] <= slot /\ into[t] = into[First(s)]
      BY <3>1, TakenSlot
    <3>3. copy'[t] # "fill"
      BY <1>0, <1>2, <2>6, CopyMoves
    <3>4. copy'[t] \in {"check", "done"} => t \in images'[into[t]] \/ bGrabFail'[into[t]]
      <4>1. ASSUME copy[t] = "fill", copy'[t] = "check"
            PROVE  t \in images'[into[t]] \/ bGrabFail'[into[t]]
        <5>1. CopyFill(s, b)
          BY <1>0, <1>2, <2>1, <4>1
             DEF CopyStep, CopyBegin, CopyThrows, CopyRedo, CopyReport, TypeOK
        <5>2. paramFail[t] => bGrabFail[into[t]]
          BY <3>1, <4>1 DEF Copied
        <5>3. paramFail[t] => bGrabFail'[into[t]]
          BY <2>2, <3>2, <5>2
        <5>4. ~paramFail[t] => \/ images' = [images EXCEPT ![into[t]] = @ \cup {t}]
                               \/ bGrabFail' = [bGrabFail EXCEPT ![into[t]] = TRUE]
          BY <5>1 DEF CopyFill
        <5>5. images \in [Slots -> SUBSET Tasks] /\ bGrabFail \in [Slots -> BOOLEAN]
          BY <1>0 DEF TypeOK
        <5> HIDE DEF t
        <5>6. QED
          BY <3>2, <5>3, <5>4, <5>5
      <4>2. ASSUME copy[t] = "check"
            PROVE  t \in images'[into[t]] \/ bGrabFail'[into[t]]
        BY <2>2, <3>1, <3>2, <4>2 DEF Copied
      <4>3. ASSUME copy[t] = "redo"
            PROVE  t \in images'[into[t]] \/ bGrabFail'[into[t]]
        <5>1. CopyRedo(s, b)
          BY <1>2, <2>1, <4>3 DEF CopyStep, CopyBegin, CopyThrows, CopyFill, CopyReport
        <5>2. into'[t] = slot' /\ bGrabFail'[slot']
          BY <1>0, <5>1, TakeFacts DEF CopyRedo
        <5>3. QED
          BY <2>6, <5>2
      <4>4. QED
        BY <1>0, <1>2, <2>6, <4>1, <4>2, <4>3, CopyMoves
    <3>5. QED
      BY <2>3, <2>4, <2>6, <3>2, <3>3, <3>4 DEF Copied
  <2>7. QED
    BY <1>0, <1>2, <2>5, <2>6, CopyFrame
<1>3. ASSUME UNCHANGED <<copyVars, bGrabFail, images>> PROVE Copied'
  BY <1>3 DEF Copied, Taken, copyVars
<1>4. QED
  BY <1>0, <1>1, <1>2, <1>3, OtherFrame DEF Next

\* A context without a failed grab says that a batch has been copied only when
\* its copy task has ended.
Told ==
  \A s \in Scans : \A b \in Batches :
    context[s].grabDone >= b /\ ~context[s].grabFailed => copy[<<s, b>>] = "done"

\* What a status of batch b adds to what a context says.
LEMMA UpdateSays ==
  ASSUME NEW c \in Contexts, NEW b \in Batches, NEW st
  PROVE  LET d == UpdateBatchStatus(c, b, st)
         IN  /\ d.grabFailed <=> c.grabFailed \/ st = "GRAB_FAILED"
             /\ d.matchFailed <=> c.matchFailed \/ st = "MATCHING_FAILED"
             /\ st # "GRAB_END" /\ st # "GRAB_FAILED" => d.grabDone = c.grabDone
             /\ \A a \in Batches : d.grabDone >= a =>
                  c.grabDone >= a \/ (a <= b /\ st \in {"GRAB_END", "GRAB_FAILED"})
<1> DEFINE d == UpdateBatchStatus(c, b, st)
<1>1. /\ c.grabDone \in Int /\ c.grabFailed \in BOOLEAN /\ c.matchFailed \in BOOLEAN
      /\ \A a \in Batches : a \in Int
      /\ c = [grabDone |-> c.grabDone, grabFailed |-> c.grabFailed,
              matchFailed |-> c.matchFailed]
  BY DEF Contexts, Batches
<1>2. d.grabFailed = (c.grabFailed \/ st = "GRAB_FAILED")
  BY <1>1 DEF UpdateBatchStatus
<1>3. d.matchFailed = (c.matchFailed \/ st = "MATCHING_FAILED")
  BY <1>1 DEF UpdateBatchStatus
<1>4. d.grabDone = IF st \in {"GRAB_END", "GRAB_FAILED"} THEN Later(c.grabDone, b)
                                                         ELSE c.grabDone
  BY <1>1 DEF UpdateBatchStatus
<1> HIDE DEF d
<1>5. \A a \in Batches : d.grabDone >= a =>
                  c.grabDone >= a \/ (a <= b /\ st \in {"GRAB_END", "GRAB_FAILED"})
  BY <1>1, <1>4 DEF Later
<1>6. QED
  BY <1>2, <1>3, <1>4, <1>5 DEF d

\* An algorithm thread that has a buffer writes to the context of its module.
LEMMA ScanTyped ==
  ASSUME PlaceInv, NEW w \in Threads, Busy(w)
  PROVE  /\ Scan(w) \in Scans /\ wslot[w] \in Slots /\ wb[w] \in Batches
         /\ Queued(wslot[w]) /\ owner[wslot[w]] = Scan(w)
         /\ copy[First(Scan(w))] \in {"check", "done"}
         /\ into[First(Scan(w))] = wslot[w]
<1>1. wslot[w] \in Slots /\ wb[w] \in Batches /\ Queued(wslot[w])
  BY DEF PlaceInv, TypeOK, Queued
<1>2. QED
  BY <1>1 DEF PlaceInv, QueuedByFirst, Scan

\* The contexts change at the start of a scan, at the end of a copy, at a stop, and
\* with each batch an algorithm thread is done with.
ContextSet(s, b, st) ==
  context' = [context EXCEPT ![s] = UpdateBatchStatus(@, b, st)]

LEMMA ContextKinds ==
  ASSUME PlaceInv, [Next]_vars
  PROVE  \/ UNCHANGED context
         \/ \E s \in Scans : Start(s)
         \/ \E s \in Scans : GrabStopped(s) /\ ContextSet(s, Last, "GRAB_FAILED")
         \/ \E s \in Scans, b \in Batches :
              /\ CopyReport(s, b)
              /\ \/ FALSE \in Reads(s) /\ ContextSet(s, b, "GRAB_FAILED")
                 \/ TRUE \in Reads(s) /\ ContextSet(s, b, "GRAB_END")
         \/ \E w \in Threads :
              \/ WaitFails(w) /\ ContextSet(Scan(w), wb[w], "GRAB_FAILED")
              \/ AlignFails(w) /\ ContextSet(Scan(w), wb[w], "MATCHING_FAILED")
              \/ Inspect(w) /\ ContextSet(Scan(w), wb[w], "INSPECT_COMPLETE")
<1>0. TypeOK
  BY DEF PlaceInv
<1>1. ASSUME NEW s \in Scans, GrabStep(s)
      PROVE  UNCHANGED context \/ (GrabStopped(s) /\ ContextSet(s, Last, "GRAB_FAILED"))
  BY <1>1 DEF GrabStep, Grab, GrabStopped, GrabThrows, Complete, Flush, ContextSet
<1>2. ASSUME NEW s \in Scans, NEW b \in Batches, CopyStep(s, b)
      PROVE  \/ UNCHANGED context
             \/ /\ CopyReport(s, b)
                /\ \/ FALSE \in Reads(s) /\ ContextSet(s, b, "GRAB_FAILED")
                   \/ TRUE \in Reads(s) /\ ContextSet(s, b, "GRAB_END")
  <2>1. CASE CopyReport(s, b)
    <3>1. PICK ok \in Reads(s) :
            ContextSet(s, b, IF ok THEN "GRAB_END" ELSE "GRAB_FAILED")
      BY <2>1 DEF CopyReport, ContextSet
    <3>2. ok \in BOOLEAN
      BY <1>0, <3>1 DEF Reads, TypeOK
    <3>3. CASE ok = TRUE
      BY <2>1, <3>1, <3>3
    <3>4. CASE ok = FALSE
      BY <2>1, <3>1, <3>4
    <3>5. QED
      BY <3>2, <3>3, <3>4
  <2>2. CASE CopyBegin(s, b) \/ CopyFill(s, b) \/ CopyThrows(s, b) \/ CopyRedo(s, b)
    BY <2>2 DEF CopyBegin, CopyFill, CopyThrows, CopyRedo
  <2>3. QED
    BY <1>2, <2>1, <2>2 DEF CopyStep
<1>3. ASSUME NEW w \in Threads, WorkerStep(w)
      PROVE  \/ UNCHANGED context
             \/ WaitFails(w) /\ ContextSet(Scan(w), wb[w], "GRAB_FAILED")
             \/ AlignFails(w) /\ ContextSet(Scan(w), wb[w], "MATCHING_FAILED")
             \/ Inspect(w) /\ ContextSet(Scan(w), wb[w], "INSPECT_COMPLETE")
  <2>1. CASE Poll(w) \/ Leave(w) \/ LeaveEnd(w) \/ WaitEnds(w) \/ WaitStopped(w)
             \/ Align(w) \/ InspectThrows(w)
    BY <2>1 DEF Poll, Leave, LeaveEnd, WaitEnds, WaitStopped, Align, InspectThrows
  <2>2. CASE WaitFails(w) \/ AlignFails(w) \/ Inspect(w)
    BY <2>2 DEF WaitFails, AlignFails, Inspect, ContextSet
  <2>3. QED
    BY <1>3, <2>1, <2>2 DEF WorkerStep
<1>4. CASE Judge \/ Stop \/ UNCHANGED vars
  BY <1>4 DEF Judge, Stop, vars
<1>5. QED
  BY <1>1, <1>2, <1>3, <1>4 DEF Next

LEMMA ToldNext ==
  ASSUME OrderInv, Told, [Next]_vars
  PROVE  Told'
<1>0. TypeOK /\ (\A r \in Scans, c \in Batches : <<r, c>> \in Tasks) /\ PlaceInv
  BY DEF OrderInv, PlaceInv, Tasks
<1>1. \A t \in Tasks : copy[t] = "done" => copy'[t] = "done"
  <2>1. ASSUME NEW s \in Scans, Start(s) \/ GrabStep(s), NEW t \in Tasks,
               copy[t] = "done"
        PROVE  copy'[t] = "done"
    <3>1. CASE Grab(s)
      <4>1. gb[s] \in Batches /\ copy[<<s, gb[s]>>] = "none"
        BY <1>0, <3>1 DEF PlaceInv, GrabOrder, Grab, TypeOK, Batches
      <4>2. QED
        BY <1>0, <2>1, <3>1, <4>1 DEF Grab, TypeOK
    <3>2. CASE ~Grab(s)
      BY <2>1, <3>2 DEF Start, GrabStep, GrabStopped, GrabThrows, Complete, Flush, copyVars
    <3>3. QED
      BY <3>1, <3>2
  <2>2. ASSUME NEW s \in Scans, NEW b \in Batches, CopyStep(s, b), NEW t \in Tasks,
               copy[t] = "done"
        PROVE  copy'[t] = "done"
    BY <1>0, <2>2, CopyMoves
  <2>3. QED
    BY <1>0, <2>1, <2>2, OtherFrame DEF Next, copyVars
<1>2. ASSUME NEW s \in Scans, NEW b \in Batches, NEW st, ContextSet(s, b, st),
             st \notin {"GRAB_END"}
      PROVE  Told'
  <2>1. /\ context[s] \in Contexts /\ context'[s] = UpdateBatchStatus(context[s], b, st)
        /\ \A r \in Scans : r # s => context'[r] = context[r]
    BY <1>0, <1>2 DEF ContextSet, TypeOK
  <2>2. \A a \in Batches : context'[s].grabDone >= a /\ ~context'[s].grabFailed =>
          context[s].grabDone >= a /\ ~context[s].grabFailed
    BY <1>2, <2>1, UpdateSays
  <2>3. QED
    BY <1>0, <1>1, <2>1, <2>2 DEF Told
<1>3. ASSUME NEW s \in Scans, NEW b \in Batches, CopyReport(s, b),
             ContextSet(s, b, "GRAB_END")
      PROVE  Told'
  <2>1. /\ context[s] \in Contexts
        /\ context'[s] = UpdateBatchStatus(context[s], b, "GRAB_END")
        /\ \A r \in Scans : r # s => context'[r] = context[r]
    BY <1>0, <1>3 DEF ContextSet, TypeOK
  <2>2. \A a \in Batches : context'[s].grabDone >= a /\ ~context'[s].grabFailed =>
          (context[s].grabDone >= a \/ a <= b) /\ ~context[s].grabFailed
    BY <2>1, UpdateSays
  <2>3. copy[<<s, b>>] = "check" /\ copy'[<<s, b>>] = "done"
    BY <1>0, <1>3 DEF CopyReport, TypeOK
  <2>4. \A a \in Batches : a < b => copy[<<s, a>>] = "done"
    BY <2>3 DEF OrderInv, Serial
  <2>5. \A a \in Batches : a <= b => a < b \/ a = b
    BY DEF Batches
  <2>6. QED
    BY <1>0, <1>1, <2>1, <2>2, <2>3, <2>4, <2>5 DEF Told
<1>4. ASSUME NEW s \in Scans, Start(s)
      PROVE  Told'
  <2>1. /\ context'[s] = NewContext /\ \A r \in Scans : r # s => context'[r] = context[r]
    BY <1>0, <1>4 DEF Start, TypeOK
  <2>2. \A a \in Batches : ~(context'[s].grabDone >= a)
    BY <2>1 DEF NewContext, Batches
  <2>3. QED
    BY <1>0, <1>1, <2>1, <2>2 DEF Told
<1>5. CASE UNCHANGED context
  BY <1>0, <1>1, <1>5 DEF Told
<1>6. ASSUME NEW w \in Threads, WaitFails(w) \/ AlignFails(w) \/ Inspect(w)
      PROVE  Busy(w)
  BY <1>6 DEF WaitFails, AlignFails, Inspect, Busy
<1>7. CASE \E w \in Threads :
             \/ WaitFails(w) /\ ContextSet(Scan(w), wb[w], "GRAB_FAILED")
             \/ AlignFails(w) /\ ContextSet(Scan(w), wb[w], "MATCHING_FAILED")
             \/ Inspect(w) /\ ContextSet(Scan(w), wb[w], "INSPECT_COMPLETE")
  <2>1. PICK w \in Threads :
          /\ Busy(w)
          /\ \/ ContextSet(Scan(w), wb[w], "GRAB_FAILED")
             \/ ContextSet(Scan(w), wb[w], "MATCHING_FAILED")
             \/ ContextSet(Scan(w), wb[w], "INSPECT_COMPLETE")
    BY <1>6, <1>7
  <2>2. Scan(w) \in Scans /\ wb[w] \in Batches
    BY <1>0, <2>1, ScanTyped
  <2>3. QED
    BY <1>2, <2>1, <2>2
<1>8. CASE \E s \in Scans : GrabStopped(s) /\ ContextSet(s, Last, "GRAB_FAILED")
  BY <1>2, <1>8, Bounds
<1>9. CASE \E s \in Scans, b \in Batches :
             /\ CopyReport(s, b)
             /\ \/ FALSE \in Reads(s) /\ ContextSet(s, b, "GRAB_FAILED")
                \/ TRUE \in Reads(s) /\ ContextSet(s, b, "GRAB_END")
  <2>1. PICK s \in Scans, b \in Batches :
          /\ CopyReport(s, b)
          /\ ContextSet(s, b, "GRAB_FAILED") \/ ContextSet(s, b, "GRAB_END")
    BY <1>9
  <2>2. CASE ContextSet(s, b, "GRAB_FAILED")
    BY <1>2, <2>2
  <2>3. CASE ContextSet(s, b, "GRAB_END")
    BY <1>3, <2>1, <2>3
  <2>4. QED
    BY <2>1, <2>2, <2>3
<1>10. QED
  BY <1>0, <1>4, <1>5, <1>7, <1>8, <1>9, ContextKinds

\* A batch that is aligned or inspected is in the buffer.
Inspectable ==
  \A w \in Threads : wpc[w] \in {"align", "inspect"} =>
    <<owner[wslot[w]], wb[w]>> \in images[wslot[w]]

\* Only a buffer that was queued has inspected batches.
InspectedQueued == \A k \in Slots : inspected[k] # {} => Queued(k)

SerialInv ==
  OrderInv /\ Current /\ Copied /\ Told /\ Inspectable /\ InspectedQueued /\ InspectsCopied

\* A batch that arrived without a failure is in the buffer.
LEMMA ArrivedCopied ==
  ASSUME SerialInv, NEW w \in Threads, WaitEnds(w)
  PROVE  <<owner[wslot[w]], wb[w]>> \in images[wslot[w]]
<1> DEFINE s == Scan(w)
           k == wslot[w]
           t == <<s, wb[w]>>
<1>1. /\ s \in Scans /\ k \in Slots /\ wb[w] \in Batches /\ owner[k] = s
      /\ into[First(s)] = k
  BY ScanTyped DEF SerialInv, OrderInv, WaitEnds, Busy
<1>2. copy[t] = "done" /\ ~bGrabFail[k]
  BY <1>1 DEF SerialInv, Told, WaitEnds, Arrived, GrabFail
<1>3. into[t] = k /\ (t \in images[into[t]] \/ bGrabFail[into[t]])
  BY <1>1, <1>2 DEF SerialInv, Copied, Taken
<1>4. QED
  BY <1>1, <1>2, <1>3

\* What the buffers that are queued keep.
LEMMA QueuedKeeps ==
  ASSUME PlaceInv, [Next]_vars, NEW k \in Slots, Queued(k)
  PROVE  /\ Queued(k)' /\ owner'[k] = owner[k] /\ images[k] \subseteq images'[k]
         /\ bGrabFail[k] => bGrabFail'[k]
<1>0. TypeOK /\ k <= slot
  BY QueuedTaken DEF PlaceInv
<1>1. ASSUME UNCHANGED <<bGrabFail, images>>
      PROVE  images[k] \subseteq images'[k] /\ (bGrabFail[k] => bGrabFail'[k])
  BY <1>1
<1>2. QED
  BY <1>0, <1>1, QueuedStays, GrabFrame, CopyFrame, OtherFrame DEF Next

\* Only Inspect adds a batch, and only of the thread's own buffer.
LEMMA InspectedKinds ==
  ASSUME TypeOK, [Next]_vars
  PROVE  \/ UNCHANGED inspected
         \/ \E w \in Threads :
              /\ Inspect(w)
              /\ inspected' = [inspected EXCEPT ![wslot[w]] = @ \cup {wb[w]}]
<1>1. ASSUME NEW w \in Threads, WorkerStep(w)
      PROVE  UNCHANGED inspected \/ Inspect(w)
  BY <1>1 DEF WorkerStep, Poll, Leave, LeaveEnd, WaitEnds, WaitFails, WaitStopped,
              Align, AlignFails, InspectThrows, saveVars
<1>2. CASE Judge \/ Stop \/ UNCHANGED vars
  BY <1>2 DEF Judge, Stop, vars, saveVars
<1>3. ASSUME NEW s \in Scans, Start(s) \/ GrabStep(s)
      PROVE  UNCHANGED inspected
  BY <1>3, GrabFrame DEF saveVars
<1>4. ASSUME NEW s \in Scans, NEW b \in Batches, CopyStep(s, b)
      PROVE  UNCHANGED inspected
  BY <1>4, CopyMoves
<1>5. QED
  BY <1>1, <1>2, <1>3, <1>4 DEF Next, Inspect

\* A thread comes to align a batch when it arrived without a failure.
LEMMA AlignKinds ==
  ASSUME TypeOK, [Next]_vars, NEW w \in Threads, wpc'[w] \in {"align", "inspect"},
         ~(wpc[w] \in {"align", "inspect"} /\ wslot'[w] = wslot[w] /\ wb'[w] = wb[w])
  PROVE  WaitEnds(w) /\ UNCHANGED <<owner, images, wslot, wb>>
<1>1. ASSUME NEW v \in Threads, WorkerStep(v)
      PROVE  WaitEnds(w) /\ UNCHANGED <<owner, images, wslot, wb>>
  <2>1. v # w => wpc'[w] = wpc[w] /\ wslot'[w] = wslot[w] /\ wb'[w] = wb[w]
    BY <1>1 DEF WorkerStep, Poll, Leave, LeaveEnd, WaitEnds, WaitFails, WaitStopped,
               Align, AlignFails, Inspect, InspectThrows, NextBatch, GiveUp, TypeOK
  <2>2. v = w
    BY <2>1
  <2>3. ~Poll(w) /\ ~Leave(w) /\ ~LeaveEnd(w) /\ ~WaitStopped(w) /\ ~InspectThrows(w)
    BY DEF Poll, Leave, LeaveEnd, WaitStopped, InspectThrows, GiveUp, TypeOK
  <2>4. ~WaitFails(w) /\ ~AlignFails(w) /\ ~Inspect(w)
    BY DEF WaitFails, AlignFails, Inspect, NextBatch, TypeOK
  <2>5. ~Align(w)
    BY DEF Align, TypeOK
  <2>6. WaitEnds(w)
    BY <1>1, <2>2, <2>3, <2>4, <2>5 DEF WorkerStep
  <2>7. QED
    BY <2>6 DEF WaitEnds, slotVars
<1>2. ASSUME NEW s \in Scans, Start(s) \/ GrabStep(s)
      PROVE  FALSE
  BY <1>2, GrabFrame DEF workerVars
<1>3. ASSUME NEW s \in Scans, NEW b \in Batches, CopyStep(s, b)
      PROVE  FALSE
  <2>1. UNCHANGED <<wslot, wb>>
    BY <1>3, CopyMoves
  <2>2. wpc'[w] \in {"align", "inspect"} => wpc'[w] = wpc[w]
    <3>1. ASSUME NEW k, Enqueue(b, k)
          PROVE  wpc'[w] \in {"align", "inspect"} => wpc'[w] = wpc[w]
      BY <3>1 DEF Enqueue, TypeOK
    <3>2. QED
      BY <1>3, <3>1 DEF CopyStep, CopyBegin, CopyFill, CopyThrows, CopyRedo,
                        CopyReport, workerVars
  <2>3. QED
    BY <2>1, <2>2
<1>4. ASSUME Judge \/ Stop \/ UNCHANGED vars
      PROVE  FALSE
  BY <1>4 DEF Judge, Stop, vars, workerVars
<1>5. QED
  BY <1>1, <1>2, <1>3, <1>4 DEF Next

LEMMA InspectableNext ==
  ASSUME SerialInv, [Next]_vars
  PROVE  Inspectable'
<1>0. TypeOK /\ PlaceInv /\ Inspectable
  BY DEF SerialInv, OrderInv, PlaceInv
<1>1. ASSUME NEW w \in Threads, wpc[w] \in {"align", "inspect"},
             wslot'[w] = wslot[w], wb'[w] = wb[w]
      PROVE  <<owner'[wslot'[w]], wb'[w]>> \in images'[wslot'[w]]
  <2>1. Queued(wslot[w]) /\ wslot[w] \in Slots
    BY <1>0, <1>1, ScanTyped DEF Busy
  <2>2. QED
    BY <1>0, <1>1, <2>1, QueuedKeeps DEF Inspectable
<1>2. ASSUME NEW w \in Threads, wpc'[w] \in {"align", "inspect"}
      PROVE  <<owner'[wslot'[w]], wb'[w]>> \in images'[wslot'[w]]
  BY <1>0, <1>1, <1>2, AlignKinds, ArrivedCopied
<1>3. QED
  BY <1>2 DEF Inspectable

LEMMA InspectedQueuedNext ==
  ASSUME PlaceInv, InspectedQueued, [Next]_vars
  PROVE  InspectedQueued'
<1>0. TypeOK
  BY DEF PlaceInv
<1>1. CASE UNCHANGED inspected
  BY <1>1, QueuedKeeps DEF InspectedQueued
<1>2. CASE \E w \in Threads :
              /\ Inspect(w)
              /\ inspected' = [inspected EXCEPT ![wslot[w]] = @ \cup {wb[w]}]
  <2> PICK w \in Threads :
              /\ Inspect(w)
              /\ inspected' = [inspected EXCEPT ![wslot[w]] = @ \cup {wb[w]}]
    BY <1>2
  <2>1. Queued(wslot[w]) /\ wslot[w] \in Slots
    BY ScanTyped DEF Inspect, Busy
  <2>2. \A k \in Slots : k # wslot[w] => inspected'[k] = inspected[k]
    BY <1>0, <2>1 DEF TypeOK
  <2>3. QED
    BY <2>1, <2>2, QueuedKeeps DEF InspectedQueued
<1>3. QED
  BY <1>0, <1>1, <1>2, InspectedKinds

LEMMA InspectedNext ==
  ASSUME SerialInv, [Next]_vars
  PROVE  InspectsCopied'
<1>0. TypeOK /\ PlaceInv /\ Inspectable /\ InspectedQueued /\ InspectsCopied
  BY DEF SerialInv, OrderInv, PlaceInv
<1>1. CASE UNCHANGED inspected
  BY <1>0, <1>1, QueuedKeeps DEF InspectedQueued, InspectsCopied
<1>2. CASE \E w \in Threads :
              /\ Inspect(w)
              /\ inspected' = [inspected EXCEPT ![wslot[w]] = @ \cup {wb[w]}]
  <2> PICK w \in Threads :
              /\ Inspect(w)
              /\ inspected' = [inspected EXCEPT ![wslot[w]] = @ \cup {wb[w]}]
    BY <1>2
  <2>1. /\ UNCHANGED <<owner, images>> /\ Busy(w)
        /\ <<owner[wslot[w]], wb[w]>> \in images[wslot[w]]
    BY <1>0 DEF Inspect, slotVars, Busy, Inspectable
  <2>2. Queued(wslot[w]) /\ wslot[w] \in Slots
    BY <1>0, <2>1, ScanTyped
  <2>3. /\ inspected'[wslot[w]] = inspected[wslot[w]] \cup {wb[w]}
        /\ \A k \in Slots : k # wslot[w] => inspected'[k] = inspected[k]
    BY <1>0, <2>2 DEF TypeOK
  <2>4. QED
    BY <1>0, <2>1, <2>2, <2>3, QueuedKeeps DEF InspectedQueued, InspectsCopied
<1>3. QED
  BY <1>0, <1>1, <1>2, InspectedKinds

LEMMA SerialInit == Init => SerialInv
<1> SUFFICES ASSUME Init PROVE SerialInv
  OBVIOUS
<1>1. PlaceInv
  BY PlaceInit
<1>2. ScanOrder /\ Serial
  BY DEF Init, ScanOrder, Serial, Active, Tasks
<1>3. Current /\ Copied
  BY Bounds DEF Init, Current, Copied, Taken, First
<1>4. Told
  <2>1. \A s \in Scans : context[s].grabDone = -1
    BY DEF Init, NewContext
  <2>2. \A b \in Batches : ~(-1 >= b)
    BY DEF Batches
  <2>3. QED
    BY <2>1, <2>2 DEF Told
<1>5. Inspectable /\ InspectedQueued /\ InspectsCopied
  BY DEF Init, Inspectable, InspectedQueued, InspectsCopied
<1>6. QED
  BY <1>1, <1>2, <1>3, <1>4, <1>5 DEF SerialInv, OrderInv

LEMMA SerialInvNext ==
  ASSUME ~SlowCopies, SerialInv, [Next]_vars
  PROVE  SerialInv'
<1>1. PlaceInv' /\ ScanOrder' /\ Serial'
  BY PlaceNext, ScanOrderNext, SerialNext DEF SerialInv, OrderInv, PlaceInv
<1>2. Current' /\ Copied' /\ Told'
  BY CurrentNext, CopiedNext, ToldNext DEF SerialInv
<1>3. QED
  BY <1>1, <1>2, InspectableNext, InspectedQueuedNext, InspectedNext DEF SerialInv, OrderInv

LEMMA SerialAlways ==
  ASSUME ~SlowCopies
  PROVE  Spec => []SerialInv
<1>1. SerialInv /\ [Next]_vars => SerialInv'
  BY SerialInvNext
<1>2. QED
  BY <1>1, SerialInit, PTL DEF Spec

\* If no copy outlasts the next grab, a batch is only inspected with its own images,
\* copied and converted, in the buffer: with any number of scans, batches and
\* threads, whatever fails, whenever the handler stops, and even if bSuccess is
\* read when its place on the stack is used again.
THEOREM PromptCopiesAreInspected == ~SlowCopies => (Spec => []InspectsCopied)
<1> SUFFICES ASSUME ~SlowCopies PROVE Spec => []InspectsCopied
  OBVIOUS
<1>1. SerialInv => InspectsCopied
  BY DEF SerialInv
<1>2. QED
  BY <1>1, SerialAlways, PTL

-----------------------------------------------------------------------------
(* What the algorithm threads make of a module, in every build and with    *)
(* every timing.                                                           *)

\* A buffer nobody took is marked by nobody, and a context has a failed grab only
\* when its scan has begun.
Fresh ==
  /\ \A k \in Slots : k > slot => ~bGrabFail[k] /\ owner[k] = NoScan
  /\ \A t \in Tasks : into[t] <= slot
  /\ \A s \in Scans : context[s].grabFailed => gpc[s] # "idle"

\* A context that has a mismatch is of a module whose buffer is queued.
MismatchQueued ==
  \A s \in Scans : context[s].matchFailed => copy[First(s)] \in {"check", "done"}

\* Nothing of a queued module has been inspected or matched before a thread has it.
NotYet ==
  \A k \in Range1(inspectQueue) :
    inspected[k] = {} /\ ~context[owner[k]].matchFailed

\* What a thread has behind it that stands at pc before batch b, of a module with
\* inspected batches ins and context c, and whose last alignment gave m: it has
\* inspected the first n batches, and stopped at a mismatch or a failed grab.
TurnOK(pc, b, ins, c, m) ==
  /\ \E n \in 0 .. b :
       /\ ins = 0 .. n - 1
       /\ n < b => c.matchFailed \/ (c.grabFailed /\ pc = "wait")
  /\ c.matchFailed => ~m /\ pc # "inspect"
  /\ m => ins # {} \/ pc = "inspect"

InTurn ==
  \A w \in Threads : Busy(w) =>
    TurnOK(wpc[w], wb[w], inspected[wslot[w]], context[owner[wslot[w]]],
           matched[wslot[w]])

\* What a module passes on.
Vouched(k) ==
  \/ inspected[k] = Batches
  \/ MarkedFailed(k) /\ \E n \in 1 .. Last : inspected[k] = 0 .. n - 1

\* A buffer that is posted as matched is vouched for.
PostedPasses == \A k \in Slots : posted[k] = 1 /\ matched[k] => Vouched(k)

PassInv ==
  /\ PlaceInv /\ InspectedQueued /\ Fresh /\ MismatchQueued /\ NotYet /\ InTurn
  /\ PostedPasses /\ LeftOutIsMarked

\* A context learns of a failed grab from a stop, from the copy that read it or from
\* a thread that found it marked, and of a mismatch from AlignFails; it forgets
\* neither before the scan's next start.
LEMMA ContextSays ==
  ASSUME PlaceInv, [Next]_vars, NEW r \in Scans
  PROVE  /\ context'[r].grabFailed =>
              \/ context[r].grabFailed
              \/ GrabStopped(r)
              \/ \E w \in Threads : WaitFails(w) /\ Scan(w) = r
              \/ \E b \in Batches : CopyReport(r, b)
         /\ context'[r].matchFailed =>
              \/ context[r].matchFailed
              \/ \E w \in Threads : AlignFails(w) /\ Scan(w) = r
         /\ context[r].grabFailed => context'[r].grabFailed \/ Start(r)
         /\ context[r].matchFailed => context'[r].matchFailed \/ Start(r)
<1> DEFINE Says == /\ context'[r].grabFailed =>
                        \/ context[r].grabFailed
                        \/ GrabStopped(r)
                        \/ \E w \in Threads : WaitFails(w) /\ Scan(w) = r
                        \/ \E b \in Batches : CopyReport(r, b)
                   /\ context'[r].matchFailed =>
                        \/ context[r].matchFailed
                        \/ \E w \in Threads : AlignFails(w) /\ Scan(w) = r
                   /\ context[r].grabFailed => context'[r].grabFailed \/ Start(r)
                   /\ context[r].matchFailed => context'[r].matchFailed \/ Start(r)
<1>0. TypeOK /\ context[r] \in Contexts
  BY DEF PlaceInv, TypeOK
<1>1. ASSUME NEW s \in Scans, NEW b \in Batches, NEW st, ContextSet(s, b, st)
      PROVE  /\ s # r => context'[r] = context[r]
             /\ s = r =>
                  /\ context'[r].grabFailed <=> context[r].grabFailed \/ st = "GRAB_FAILED"
                  /\ context'[r].matchFailed <=>
                       context[r].matchFailed \/ st = "MATCHING_FAILED"
  <2>1. /\ s # r => context'[r] = context[r]
        /\ s = r => context'[r] = UpdateBatchStatus(context[r], b, st)
    BY <1>0, <1>1 DEF ContextSet, TypeOK
  <2>2. QED
    BY <1>0, <2>1, UpdateSays
\* A report of another scan says nothing; of this scan, it adds its own status.
<1>2. ASSUME NEW s \in Scans, NEW b \in Batches, NEW st, ContextSet(s, b, st)
      PROVE  /\ context'[r].grabFailed =>
                  context[r].grabFailed \/ (s = r /\ st = "GRAB_FAILED")
             /\ context'[r].matchFailed =>
                  context[r].matchFailed \/ (s = r /\ st = "MATCHING_FAILED")
             /\ context[r].grabFailed => context'[r].grabFailed
             /\ context[r].matchFailed => context'[r].matchFailed
  BY <1>1, <1>2
<1>3. CASE UNCHANGED context
  BY <1>3
<1>4. CASE \E s \in Scans : Start(s)
  <2> PICK s \in Scans : Start(s)
    BY <1>4
  <2>1. /\ context'[s] = NewContext /\ \A q \in Scans : q # s => context'[q] = context[q]
    BY <1>0 DEF Start, TypeOK
  <2>2. ~context'[s].grabFailed /\ ~context'[s].matchFailed
    BY <2>1 DEF NewContext
  <2>3. CASE s = r
    BY <2>2, <2>3
  <2>4. CASE s # r
    BY <2>1, <2>4
  <2>5. QED
    BY <2>3, <2>4
<1>5. CASE \E s \in Scans : GrabStopped(s) /\ ContextSet(s, Last, "GRAB_FAILED")
  <2> PICK s \in Scans : GrabStopped(s) /\ ContextSet(s, Last, "GRAB_FAILED")
    BY <1>5
  <2>1. /\ context'[r].grabFailed => context[r].grabFailed \/ s = r
        /\ context'[r].matchFailed => context[r].matchFailed
        /\ context[r].grabFailed => context'[r].grabFailed
        /\ context[r].matchFailed => context'[r].matchFailed
    BY <1>2, Bounds
  <2>2. QED
    BY <2>1
<1>6. CASE \E s \in Scans, b \in Batches :
              /\ CopyReport(s, b)
              /\ \/ FALSE \in Reads(s) /\ ContextSet(s, b, "GRAB_FAILED")
                 \/ TRUE \in Reads(s) /\ ContextSet(s, b, "GRAB_END")
  <2>1. PICK s \in Scans, b \in Batches :
          /\ CopyReport(s, b)
          /\ ContextSet(s, b, "GRAB_FAILED") \/ ContextSet(s, b, "GRAB_END")
    BY <1>6
  <2>2. /\ context'[r].grabFailed => context[r].grabFailed \/ s = r
        /\ context'[r].matchFailed => context[r].matchFailed
        /\ context[r].grabFailed => context'[r].grabFailed
        /\ context[r].matchFailed => context'[r].matchFailed
    <3>1. CASE ContextSet(s, b, "GRAB_FAILED")
      BY <1>2, <3>1
    <3>2. CASE ContextSet(s, b, "GRAB_END")
      BY <1>2, <3>2
    <3>3. QED
      BY <2>1, <3>1, <3>2
  <2>3. QED
    BY <2>1, <2>2
<1>7. CASE \E w \in Threads :
              \/ WaitFails(w) /\ ContextSet(Scan(w), wb[w], "GRAB_FAILED")
              \/ AlignFails(w) /\ ContextSet(Scan(w), wb[w], "MATCHING_FAILED")
              \/ Inspect(w) /\ ContextSet(Scan(w), wb[w], "INSPECT_COMPLETE")
  <2> PICK w \in Threads :
              \/ WaitFails(w) /\ ContextSet(Scan(w), wb[w], "GRAB_FAILED")
              \/ AlignFails(w) /\ ContextSet(Scan(w), wb[w], "MATCHING_FAILED")
              \/ Inspect(w) /\ ContextSet(Scan(w), wb[w], "INSPECT_COMPLETE")
    BY <1>7
  <2>1. Scan(w) \in Scans /\ wb[w] \in Batches
    <3>1. Busy(w)
      BY DEF WaitFails, AlignFails, Inspect, Busy
    <3>2. QED
      BY <3>1, ScanTyped
  <2>2. CASE WaitFails(w) /\ ContextSet(Scan(w), wb[w], "GRAB_FAILED")
    <3>1. /\ context'[r].grabFailed => context[r].grabFailed \/ Scan(w) = r
          /\ context'[r].matchFailed => context[r].matchFailed
          /\ context[r].grabFailed => context'[r].grabFailed
          /\ context[r].matchFailed => context'[r].matchFailed
      BY <1>2, <2>1, <2>2
    <3>2. QED
      BY <2>2, <3>1
  <2>3. CASE AlignFails(w) /\ ContextSet(Scan(w), wb[w], "MATCHING_FAILED")
    <3>1. /\ context'[r].grabFailed => context[r].grabFailed
          /\ context'[r].matchFailed => context[r].matchFailed \/ Scan(w) = r
          /\ context[r].grabFailed => context'[r].grabFailed
          /\ context[r].matchFailed => context'[r].matchFailed
      BY <1>2, <2>1, <2>3
    <3>2. QED
      BY <2>3, <3>1
  <2>4. CASE Inspect(w) /\ ContextSet(Scan(w), wb[w], "INSPECT_COMPLETE")
    <3>1. /\ context'[r].grabFailed => context[r].grabFailed
          /\ context'[r].matchFailed => context[r].matchFailed
          /\ context[r].grabFailed => context'[r].grabFailed
          /\ context[r].matchFailed => context'[r].matchFailed
      BY <1>2, <2>1, <2>4
    <3>2. QED
      BY <3>1
  <2>5. QED
    BY <2>2, <2>3, <2>4
<1>8. Says
  BY <1>3, <1>4, <1>5, <1>6, <1>7, ContextKinds
<1>9. QED
  BY <1>8

\* A scan that has a copy was started, and one that was started stays so.
LEMMA Started ==
  ASSUME PlaceInv, NEW s \in Scans, NEW b \in Batches, copy[<<s, b>>] # "none"
  PROVE  gpc[s] # "idle"
<1>1. b >= 0
  BY DEF Batches
<1>2. QED
  BY <1>1 DEF PlaceInv, GrabOrder

LEMMA StaysStarted ==
  ASSUME TypeOK, [Next]_vars, NEW s \in Scans, gpc[s] # "idle"
  PROVE  gpc'[s] # "idle"
<1>1. ASSUME NEW r \in Scans, Start(r) \/ GrabStep(r)
      PROVE  gpc'[s] # "idle"
  BY <1>1 DEF Start, GrabStep, Grab, GrabStopped, GrabThrows, Complete, Flush, TypeOK
<1>2. ASSUME UNCHANGED gpc PROVE gpc'[s] # "idle"
  BY <1>2
<1>3. QED
  BY <1>1, <1>2, CopyMoves, OtherFrame DEF Next, grabVars

\* A copy task marks and takes no buffer beyond the one taken last.
LEMMA FreshNext ==
  ASSUME PlaceInv, Fresh, [Next]_vars
  PROVE  Fresh'
<1>0. TypeOK /\ slot \in Nat /\ \A k \in Slots : k \in Nat
  BY DEF PlaceInv, TypeOK, Slots
<1>1. ASSUME NEW s \in Scans, NEW b \in Batches, CopyStep(s, b)
      PROVE  /\ \A k \in Slots : k > slot' => ~bGrabFail'[k] /\ owner'[k] = NoScan
             /\ \A t \in Tasks : into'[t] <= slot'
  <2> DEFINE e == <<s, b>>
  <2>0. e \in Tasks /\ into[e] \in Slots /\ into[e] <= slot
    BY <1>0 DEF Tasks, TypeOK, Fresh
  <2>1. ASSUME NEW fail \in BOOLEAN, TakeBuffer(s, b, fail)
        PROVE  /\ \A k \in Slots : k > slot' => ~bGrabFail'[k] /\ owner'[k] = NoScan
               /\ \A t \in Tasks : into'[t] <= slot'
    <3>1. /\ slot' = slot + 1 \/ slot' = slot
          /\ into'[e] = slot' /\ \A t \in Tasks : t # e => into'[t] = into[t]
      BY <1>0, <2>1, TakeFacts
    <3>2. \A t \in Tasks : into[t] \in Nat
      BY <1>0 DEF TypeOK
    <3>3. \A t \in Tasks : into'[t] <= slot'
      BY <1>0, <3>1, <3>2 DEF Fresh
    <3>4. CASE b = 0
      <4>1. /\ slot' = slot + 1
            /\ \A k \in Slots : k > slot + 1 =>
                 bGrabFail'[k] = bGrabFail[k] /\ owner'[k] = owner[k]
        BY <1>0, <2>1, <3>4 DEF TakeBuffer, TypeOK
      <4>2. \A k \in Slots : k > slot + 1 => k > slot
        BY <1>0
      <4>3. QED
        BY <3>3, <4>1, <4>2 DEF Fresh
    <3>5. CASE b # 0
      <4>1. /\ slot' = slot
            /\ \A k \in Slots : k > slot =>
                 bGrabFail'[k] = bGrabFail[k] /\ owner'[k] = owner[k]
        BY <1>0, <2>1, <3>5 DEF TakeBuffer, TypeOK
      <4>2. QED
        BY <3>3, <4>1 DEF Fresh
    <3>6. QED
      BY <3>4, <3>5
  <2>2. CASE CopyBegin(s, b) \/ CopyRedo(s, b)
    <3>1. PICK fail \in BOOLEAN : TakeBuffer(s, b, fail)
      BY <1>0, <2>2 DEF CopyBegin, CopyRedo, Reads, TypeOK
    <3>2. QED
      BY <2>1, <3>1
  <2>3. CASE CopyFill(s, b) \/ CopyThrows(s, b) \/ CopyReport(s, b)
    <3>1. /\ UNCHANGED <<into, slot, owner>>
          /\ UNCHANGED bGrabFail \/ bGrabFail' = [bGrabFail EXCEPT ![into[e]] = TRUE]
      BY <2>3 DEF CopyFill, CopyThrows, CopyReport, slotVars
    <3>2. \A k \in Slots : k > slot => bGrabFail'[k] = bGrabFail[k]
      <4>1. \A k \in Slots : k > slot => k # into[e]
        BY <1>0, <2>0 DEF Slots
      <4>2. bGrabFail \in [Slots -> BOOLEAN]
        BY <1>0 DEF TypeOK
      <4> HIDE DEF e
      <4>3. QED
        BY <3>1, <4>1, <4>2
    <3>3. QED
      BY <3>1, <3>2 DEF Fresh
  <2>4. QED
    BY <1>1, <2>2, <2>3 DEF CopyStep
<1>2. ASSUME UNCHANGED <<into, slotVars, bGrabFail>>
      PROVE  /\ \A k \in Slots : k > slot' => ~bGrabFail'[k] /\ owner'[k] = NoScan
             /\ \A t \in Tasks : into'[t] <= slot'
  BY <1>2 DEF Fresh, slotVars
<1>3. /\ \A k \in Slots : k > slot' => ~bGrabFail'[k] /\ owner'[k] = NoScan
      /\ \A t \in Tasks : into'[t] <= slot'
  BY <1>0, <1>1, <1>2, GrabFrame, OtherFrame DEF Next, copyVars
<1>4. ASSUME NEW r \in Scans, context'[r].grabFailed
      PROVE  gpc'[r] # "idle"
  <2>1. CASE context[r].grabFailed
    BY <1>0, <2>1, StaysStarted DEF Fresh
  <2>2. CASE GrabStopped(r)
    BY <1>0, <2>2 DEF GrabStopped, TypeOK
  <2>3. CASE \E w \in Threads : WaitFails(w) /\ Scan(w) = r
    <3>1. PICK w \in Threads : WaitFails(w) /\ Scan(w) = r
      BY <2>3
    <3>2. copy[First(r)] # "none"
      BY <3>1, ScanTyped DEF WaitFails, Busy
    <3>3. QED
      BY <1>0, <3>2, Started, StaysStarted, Bounds DEF First
  <2>4. CASE \E b \in Batches : CopyReport(r, b)
    <3>1. \E b \in Batches : copy[<<r, b>>] # "none"
      BY <2>4 DEF CopyReport
    <3>2. QED
      BY <1>0, <3>1, Started, StaysStarted
  <2>5. QED
    BY <1>4, <2>1, <2>2, <2>3, <2>4, ContextSays
<1>5. QED
  BY <1>3, <1>4 DEF Fresh

\* A context keeps a failed grab.
LEMMA GrabFailureStays ==
  ASSUME PlaceInv, Fresh, [Next]_vars, NEW s \in Scans, context[s].grabFailed
  PROVE  context'[s].grabFailed
<1>1. ~Start(s)
  BY DEF Fresh, Start
<1>2. QED
  BY <1>1, ContextSays

\* What the program knows to have failed stays failed.
LEMMA MarkedGrows ==
  ASSUME PlaceInv, Fresh, [Next]_vars, NEW k \in Slots, MarkedFailed(k)
  PROVE  MarkedFailed(k)'
<1>0. TypeOK /\ slot \in Nat /\ k \in Nat
  BY DEF PlaceInv, TypeOK, Slots
<1>1. k <= slot
  BY <1>0, Bounds DEF MarkedFailed, Fresh
<1>2. ASSUME UNCHANGED <<slotVars, bGrabFail>>
      PROVE  owner'[k] = owner[k] /\ (bGrabFail[k] => bGrabFail'[k])
  BY <1>2 DEF slotVars
<1>3. owner'[k] = owner[k] /\ (bGrabFail[k] => bGrabFail'[k])
  BY <1>0, <1>1, <1>2, GrabFrame, CopyFrame, OtherFrame DEF Next
<1>4. QED
  BY <1>3, GrabFailureStays DEF MarkedFailed

\* The buffer of a scan that has queued one stays its buffer.
LEMMA FirstKeeps ==
  ASSUME TypeOK, GrabOrder, [Next]_vars, NEW s \in Scans,
         copy[First(s)] \in {"check", "done"}
  PROVE  copy'[First(s)] \in {"check", "done"} /\ into'[First(s)] = into[First(s)]
<1>0. First(s) \in Tasks
  BY Bounds DEF First, Tasks
<1>1. ASSUME NEW r \in Scans, Start(r) \/ GrabStep(r)
      PROVE  copy'[First(s)] = copy[First(s)]
  <2>1. CASE Grab(r)
    <3>1. gb[r] \in Batches /\ copy[<<r, gb[r]>>] = "none"
      BY <2>1 DEF GrabOrder, Grab, TypeOK, Batches
    <3>2. QED
      BY <1>0, <2>1, <3>1 DEF Grab, TypeOK
  <2>2. CASE ~Grab(r)
    BY <1>1, <2>2 DEF Start, GrabStep, GrabStopped, GrabThrows, Complete, Flush, copyVars
  <2>3. QED
    BY <2>1, <2>2
<1>2. ASSUME NEW r \in Scans, NEW b \in Batches, CopyStep(r, b)
      PROVE  copy'[First(s)] \in {"check", "done"} /\ into'[First(s)] = into[First(s)]
  <2>1. copy'[First(s)] \in {"check", "done"}
    BY <1>0, <1>2, CopyMoves
  <2>2. CASE First(s) = <<r, b>>
    <3>1. copy'[<<r, b>>] = "done"
      BY <1>2, <2>2, CopyMoves
    <3>2. UNCHANGED into
      BY <1>2, <3>1, CopyFrame
    <3>3. QED
      BY <2>1, <3>2
  <2>3. CASE First(s) # <<r, b>>
    <3>1. ASSUME \E fail \in BOOLEAN : TakeBuffer(r, b, fail)
          PROVE  into'[First(s)] = into[First(s)]
      <4>1. \A t \in Tasks : t # <<r, b>> => into'[t] = into[t]
        BY <3>1 DEF TakeBuffer, TypeOK
      <4>2. QED
        BY <1>0, <2>3, <4>1
    <3>2. QED
      BY <1>2, <2>1, <3>1, CopyFrame
  <2>4. QED
    BY <2>2, <2>3
<1>3. QED
  BY <1>1, <1>2, GrabFrame, OtherFrame DEF Next, copyVars

LEMMA MismatchQueuedNext ==
  ASSUME PlaceInv, MismatchQueued, [Next]_vars
  PROVE  MismatchQueued'
<1>0. TypeOK /\ GrabOrder
  BY DEF PlaceInv
<1>1. ASSUME NEW r \in Scans, context'[r].matchFailed
      PROVE  copy[First(r)] \in {"check", "done"}
  <2>1. CASE context[r].matchFailed
    BY <2>1 DEF MismatchQueued
  <2>2. CASE \E w \in Threads : AlignFails(w) /\ Scan(w) = r
    BY <2>2, ScanTyped DEF AlignFails, Busy
  <2>3. QED
    BY <1>1, <2>1, <2>2, ContextSays
<1>2. QED
  BY <1>0, <1>1, FirstKeeps DEF MismatchQueued

\* A thread's own state is its own: apart from the start of a thread that is off.
LEMMA OwnSteps ==
  ASSUME TypeOK, [Next]_vars, NEW w \in Threads
  PROVE  \/ WorkerStep(w)
         \/ /\ wpc'[w] = wpc[w] \/ (wpc[w] = "off" /\ wpc'[w] = "poll")
            /\ wslot'[w] = wslot[w] /\ wb'[w] = wb[w]
<1>1. ASSUME NEW v \in Threads, WorkerStep(v), v # w
      PROVE  wpc'[w] = wpc[w] /\ wslot'[w] = wslot[w] /\ wb'[w] = wb[w]
  BY <1>1 DEF WorkerStep, Poll, Leave, LeaveEnd, WaitEnds, WaitFails, WaitStopped, Align,
              AlignFails, Inspect, InspectThrows, NextBatch, GiveUp, TypeOK
<1>2. ASSUME NEW s \in Scans, Start(s) \/ GrabStep(s)
      PROVE  UNCHANGED workerVars
  BY <1>2, GrabFrame
<1>3. ASSUME NEW s \in Scans, NEW b \in Batches, CopyStep(s, b)
      PROVE  /\ wpc'[w] = wpc[w] \/ (wpc[w] = "off" /\ wpc'[w] = "poll")
             /\ wslot'[w] = wslot[w] /\ wb'[w] = wb[w]
  <2>1. ASSUME NEW k, Enqueue(b, k)
        PROVE  wpc'[w] = wpc[w] \/ (wpc[w] = "off" /\ wpc'[w] = "poll")
    BY <2>1 DEF Enqueue, TypeOK
  <2>2. UNCHANGED wpc \/ \E k : Enqueue(b, k)
    BY <1>3 DEF CopyStep, CopyBegin, CopyFill, CopyThrows, CopyRedo, CopyReport, workerVars
  <2>3. QED
    BY <1>3, <2>1, <2>2, CopyMoves
<1>4. CASE Judge \/ Stop \/ UNCHANGED vars
  BY <1>4 DEF Judge, Stop, vars, workerVars
<1>5. QED
  BY <1>1, <1>2, <1>3, <1>4 DEF Next, workerVars

\* A buffer's matching result changes when a thread takes the buffer and when the
\* thread that has it goes on.
LEMMA MatchedKinds ==
  ASSUME TypeOK, [Next]_vars, NEW k \in Slots
  PROVE  \/ matched'[k] = matched[k]
         \/ \E v \in Threads : Poll(v) /\ k = Head(inspectQueue)
         \/ \E v \in Threads : Busy(v) /\ wpc'[v] # wpc[v] /\ k = wslot[v]
<1>1. ASSUME NEW v \in Threads, WorkerStep(v)
      PROVE  \/ matched'[k] = matched[k]
             \/ Poll(v) /\ k = Head(inspectQueue)
             \/ Busy(v) /\ wpc'[v] # wpc[v] /\ k = wslot[v]
  <2>1. CASE Poll(v)
    BY <2>1 DEF Poll, TypeOK
  <2>2. CASE Leave(v) \/ LeaveEnd(v) \/ WaitEnds(v) \/ WaitFails(v) \/ Inspect(v)
    BY <2>2 DEF Leave, LeaveEnd, WaitEnds, WaitFails, Inspect
  <2>3. CASE WaitStopped(v) \/ InspectThrows(v)
    BY <2>3 DEF WaitStopped, InspectThrows, GiveUp, Busy, TypeOK
  <2>4. CASE Align(v)
    BY <2>4 DEF Align, Busy, TypeOK
  <2>5. CASE AlignFails(v)
    BY <2>5 DEF AlignFails, NextBatch, Busy, TypeOK
  <2>6. QED
    BY <1>1, <2>1, <2>2, <2>3, <2>4, <2>5 DEF WorkerStep
<1>2. ASSUME NEW s \in Scans, NEW b \in Batches, CopyStep(s, b)
      PROVE  UNCHANGED matched
  BY <1>2 DEF CopyStep, CopyBegin, CopyFill, CopyThrows, CopyRedo, CopyReport
<1>3. CASE Judge \/ Stop \/ UNCHANGED vars
  BY <1>3 DEF Judge, Stop, vars
<1>4. QED
  BY <1>1, <1>2, <1>3, GrabFrame DEF Next

\* A buffer is posted by the thread that has it.
LEMMA PostedKinds ==
  ASSUME TypeOK, [Next]_vars
  PROVE  \/ UNCHANGED posted
         \/ \E w \in Threads :
              WorkerStep(w) /\ Busy(w) /\ posted' = [posted EXCEPT ![wslot[w]] = @ + 1]
<1>1. ASSUME NEW w \in Threads, WorkerStep(w)
      PROVE  \/ UNCHANGED posted
             \/ Busy(w) /\ posted' = [posted EXCEPT ![wslot[w]] = @ + 1]
  <2>1. Poll(w) \/ Turns(w) \/ Posts(w)
    BY <1>1, WorkerKinds
  <2>2. QED
    BY <2>1 DEF Poll, Turns, Posts, saveVars
<1>2. CASE Judge \/ Stop \/ UNCHANGED vars
  BY <1>2 DEF Judge, Stop, vars, saveVars
<1>3. QED
  BY <1>1, <1>2, GrabFrame, CopyMoves DEF Next, saveVars

\* The inspect queue grows by the buffer of a first copy that is being filled, and
\* that was not queued before.
LEMMA QueueKinds ==
  ASSUME PlaceInv, [Next]_vars, NEW k \in Range1(inspectQueue')
  PROVE  /\ k \in Slots
         /\ \/ k \in Range1(inspectQueue)
            \/ \E s \in Scans :
                 /\ CopyStep(s, 0) /\ ~Queued(k) /\ owner'[k] = s
                 /\ copy[First(s)] \in {"fill", "redo"}
<1>0. TypeOK /\ PlaceInv' /\ inspectQueue \in Seq(Slots)
  BY PlaceNext DEF PlaceInv, TypeOK
<1>1. k \in Slots
  <2>1. inspectQueue' \in Seq(Slots)
    BY <1>0 DEF PlaceInv, TypeOK
  <2>2. QED
    BY <2>1, ElementOfSeq DEF Range1
<1>2. ASSUME NEW w \in Threads, WorkerStep(w)
      PROVE  k \in Range1(inspectQueue)
  <2>1. Poll(w) \/ Turns(w) \/ Posts(w)
    BY <1>0, <1>2, WorkerKinds
  <2>2. CASE Poll(w)
    BY <1>0, <2>2, RangeTail DEF Poll
  <2>3. CASE Turns(w) \/ Posts(w)
    BY <2>3 DEF Turns, Posts, queueVars
  <2>4. QED
    BY <2>1, <2>2, <2>3
<1>3. ASSUME NEW s \in Scans, NEW b \in Batches, CopyStep(s, b),
             k \notin Range1(inspectQueue)
      PROVE  /\ b = 0 /\ ~Queued(k) /\ owner'[k] = s
             /\ copy[First(s)] \in {"fill", "redo"}
  <2>1. \/ CopyFill(s, b) /\ Enqueue(b, into[<<s, b>>])
        \/ CopyRedo(s, b) /\ Enqueue(b, slot')
    BY <1>3 DEF CopyStep, CopyBegin, CopyFill, CopyThrows, CopyRedo, CopyReport, queueVars
  <2>2. b = 0
    BY <1>3, <2>1 DEF Enqueue, queueVars
  <2>3. \A j \in Slots : inspectQueue' = Append(inspectQueue, j) => k = j
    BY <1>0, <1>3, RangeAppend
  <2>4. CASE CopyFill(s, b) /\ Enqueue(b, into[<<s, b>>])
    <3>1. /\ inspectQueue' = Append(inspectQueue, into[First(s)])
          /\ copy[First(s)] = "fill" /\ UNCHANGED owner
      BY <2>2, <2>4 DEF Enqueue, First, CopyFill, slotVars
    <3>2. into[First(s)] \in Slots /\ owner[into[First(s)]] = s
      BY <1>0, <3>1, Bounds DEF PlaceInv, FirstTaken, Taken, TypeOK, Tasks, First
    <3>3. k = into[First(s)] /\ owner[k] = s
      BY <2>3, <3>1, <3>2
    <3>4. ~Queued(k)
      BY <1>1, <3>1, <3>3 DEF PlaceInv, QueuedByFirst
    <3>5. QED
      BY <2>2, <3>1, <3>3, <3>4
  <2>5. CASE CopyRedo(s, b) /\ Enqueue(b, slot')
    <3>1. /\ inspectQueue' = Append(inspectQueue, slot') /\ TakeBuffer(s, b, TRUE)
          /\ copy[First(s)] = "redo"
      BY <2>2, <2>5 DEF Enqueue, First, CopyRedo
    <3>2. slot' = slot + 1 /\ slot' \in Slots /\ owner'[slot'] = s /\ slot \in Nat
      BY <1>0, <2>2, <3>1, TakeFacts
    <3>3. k = slot'
      BY <2>3, <3>1, <3>2
    <3>4. Queued(k) => k \in 1 .. slot
      BY <1>1, QueuedTaken
    <3>5. QED
      BY <2>2, <3>1, <3>2, <3>3, <3>4
  <2>6. QED
    BY <2>1, <2>4, <2>5
<1>4. ASSUME Judge \/ Stop \/ UNCHANGED vars
      PROVE  UNCHANGED inspectQueue
  BY <1>4 DEF Judge, Stop, vars, queueVars
<1>5. QED
  BY <1>1, <1>2, <1>3, <1>4, GrabFrame DEF Next, queueVars

\* Two buffers that are queued are of two modules.
LEMMA TwoModules ==
  ASSUME PlaceInv, NEW j \in Slots, NEW k \in Slots, Queued(j), Queued(k),
         owner[j] = owner[k]
  PROVE  j = k
BY DEF PlaceInv, QueuedByFirst

LEMMA NotYetNext ==
  ASSUME PlaceInv, InspectedQueued, MismatchQueued, NotYet, [Next]_vars
  PROVE  NotYet'
<1>0. TypeOK /\ PlaceInv /\ InspectedQueued
  BY DEF PlaceInv
<1> SUFFICES ASSUME NEW k \in Range1(inspectQueue')
             PROVE  inspected'[k] = {} /\ ~context'[owner'[k]].matchFailed
  BY DEF NotYet
<1>1. k \in Slots
  BY <1>0, QueueKinds
<1>2. CASE k \in Range1(inspectQueue)
  <2>1. /\ Queued(k) /\ inspected[k] = {} /\ ~context[owner[k]].matchFailed
        /\ owner[k] \in Scans /\ owner'[k] = owner[k]
    BY <1>0, <1>1, <1>2, QueuedTaken, QueuedKeeps DEF NotYet, Queued
  <2>2. \A w \in Threads : Busy(w) =>
          wslot[w] # k /\ wslot[w] \in Slots /\ Scan(w) # owner[k]
    <3> SUFFICES ASSUME NEW w \in Threads, Busy(w)
                 PROVE  wslot[w] # k /\ wslot[w] \in Slots /\ Scan(w) # owner[k]
      OBVIOUS
    <3>1. wslot[w] # k /\ wslot[w] \in Slots /\ Queued(wslot[w]) /\ owner[wslot[w]] = Scan(w)
      BY <1>0, <1>2, ScanTyped DEF PlaceInv, OnePlace
    <3>2. QED
      BY <1>0, <1>1, <2>1, <3>1, TwoModules
  <2>3. inspected'[k] = {}
    <3>1. \A w \in Threads : Inspect(w) => Busy(w)
      BY DEF Inspect, Busy
    <3>2. QED
      BY <1>0, <1>1, <2>1, <2>2, <3>1, InspectedKinds DEF TypeOK
  <2>4. ~context'[owner[k]].matchFailed
    <3>1. \A w \in Threads : AlignFails(w) => Busy(w)
      BY DEF AlignFails, Busy
    <3>2. QED
      BY <1>0, <2>1, <2>2, <3>1, ContextSays
  <2>5. QED
    BY <2>1, <2>3, <2>4
<1>3. CASE k \notin Range1(inspectQueue)
  <2>1. PICK s \in Scans : /\ CopyStep(s, 0) /\ ~Queued(k) /\ owner'[k] = s
                           /\ copy[First(s)] \in {"fill", "redo"}
    BY <1>0, <1>3, QueueKinds
  <2>2. inspected[k] = {} /\ ~context[s].matchFailed
    BY <1>0, <1>1, <2>1 DEF InspectedQueued, MismatchQueued
  <2>3. UNCHANGED inspected
    BY <1>0, <2>1, CopyMoves, Bounds
  <2>4. UNCHANGED context
    <3>1. CASE CopyReport(s, 0)
      BY <2>1, <3>1 DEF CopyReport, First
    <3>2. CASE CopyBegin(s, 0) \/ CopyFill(s, 0) \/ CopyThrows(s, 0) \/ CopyRedo(s, 0)
      BY <3>2 DEF CopyBegin, CopyFill, CopyThrows, CopyRedo
    <3>3. QED
      BY <2>1, <3>1, <3>2 DEF CopyStep
  <2>5. QED
    BY <2>1, <2>2, <2>3, <2>4
<1>4. QED
  BY <1>2, <1>3

\* A failure that becomes known while a thread is at a batch changes nothing of what
\* it has behind it.
LEMMA TurnHears ==
  ASSUME NEW pc, NEW b \in Batches, NEW ins, NEW c \in Contexts, NEW d \in Contexts, NEW m,
         TurnOK(pc, b, ins, c, m),
         c.grabFailed => d.grabFailed, d.matchFailed <=> c.matchFailed
  PROVE  TurnOK(pc, b, ins, d, m)
BY DEF TurnOK

\* What a thread is left with that another actor's step finds busy.
LEMMA InTurnBystander ==
  ASSUME PlaceInv, Fresh, InTurn, [Next]_vars, NEW w \in Threads, Busy(w),
         wpc'[w] = wpc[w], wslot'[w] = wslot[w], wb'[w] = wb[w]
  PROVE  TurnOK(wpc'[w], wb'[w], inspected'[wslot'[w]], context'[owner'[wslot'[w]]],
                matched'[wslot'[w]])
<1> DEFINE k == wslot[w]
           s == Scan(w)
<1>0. TypeOK /\ TypeOK'
  BY TypeNext DEF PlaceInv
<1>1. /\ k \in Slots /\ s \in Scans /\ Queued(k) /\ owner[k] = s /\ wb[w] \in Batches
      /\ copy[First(s)] \in {"check", "done"}
  BY ScanTyped
<1>2. owner'[k] = s
  BY <1>1, QueuedKeeps
\* The other threads have other buffers, of other modules.
<1>3. \A v \in Threads : Busy(v) /\ v # w => wslot[v] \in Slots /\ wslot[v] # k /\ Scan(v) # s
  <2> SUFFICES ASSUME NEW v \in Threads, Busy(v), v # w
               PROVE  wslot[v] \in Slots /\ wslot[v] # k /\ Scan(v) # s
    OBVIOUS
  <2>1. wslot[v] # k /\ wslot[v] \in Slots /\ Queued(wslot[v]) /\ owner[wslot[v]] = Scan(v)
    BY ScanTyped DEF PlaceInv, OnePlace
  <2>2. QED
    BY <1>1, <2>1, TwoModules
<1>4. ~Inspect(w) /\ ~AlignFails(w)
  BY <1>0 DEF Inspect, AlignFails, NextBatch, TypeOK
<1>5. inspected'[k] = inspected[k]
  <2>1. \A v \in Threads : Inspect(v) => Busy(v)
    BY DEF Inspect, Busy
  <2>2. QED
    BY <1>0, <1>1, <1>3, <1>4, <2>1, InspectedKinds DEF TypeOK
<1>6. matched'[k] = matched[k]
  <2>1. k \notin Range1(inspectQueue)
    BY DEF PlaceInv, OnePlace
  <2>2. \A v \in Threads : Poll(v) => Head(inspectQueue) \in Range1(inspectQueue)
    BY <1>0, RangeTail DEF Poll, TypeOK
  <2>3. QED
    BY <1>0, <1>1, <1>3, <2>1, <2>2, MatchedKinds
<1>7. /\ context'[s].matchFailed <=> context[s].matchFailed
      /\ context[s].grabFailed => context'[s].grabFailed
  <2>1. \A v \in Threads : AlignFails(v) => Busy(v)
    BY DEF AlignFails, Busy
  <2>2. ~Start(s)
    BY <1>1, Started, Bounds DEF Start, First
  <2>3. QED
    BY <1>1, <1>3, <1>4, <2>1, <2>2, ContextSays
<1>8. TurnOK(wpc[w], wb[w], inspected[k], context[s], matched[k])
  BY <1>1 DEF InTurn
<1>9. context[s] \in Contexts /\ context'[s] \in Contexts
  BY <1>0, <1>1 DEF TypeOK
<1>10. wslot'[w] = k
  OBVIOUS
<1> HIDE DEF k, s
<1>11. TurnOK(wpc[w], wb[w], inspected[k], context'[s], matched[k])
  BY <1>1, <1>7, <1>8, <1>9, TurnHears
<1>12. QED
  BY <1>2, <1>5, <1>6, <1>10, <1>11

\* What a context keeps of a batch's outcome when its own thread reports it.
LEMMA OwnContext ==
  ASSUME PlaceInv, NEW w \in Threads, Busy(w), NEW st,
         ContextSet(Scan(w), wb[w], st)
  PROVE  /\ context'[Scan(w)].matchFailed <=>
              context[Scan(w)].matchFailed \/ st = "MATCHING_FAILED"
         /\ context'[Scan(w)].grabFailed <=>
              context[Scan(w)].grabFailed \/ st = "GRAB_FAILED"
<1>1. Scan(w) \in Scans /\ wb[w] \in Batches /\ TypeOK
  BY ScanTyped DEF PlaceInv
<1>2. /\ context'[Scan(w)] = UpdateBatchStatus(context[Scan(w)], wb[w], st)
      /\ context[Scan(w)] \in Contexts
  BY <1>1 DEF ContextSet, TypeOK
<1>3. QED
  BY <1>1, <1>2, UpdateSays

\* A thread goes on to the next batch of its buffer.
LEMMA OnToNext ==
  ASSUME TypeOK, NEW w \in Threads, Busy(w), NextBatch(w), Busy(w)'
  PROVE  /\ wslot'[w] = wslot[w] /\ wb'[w] = wb[w] + 1 /\ wpc'[w] = "wait"
         /\ wb[w] \in Nat
<1>1. wb[w] \in Batches
  BY DEF TypeOK
<1>2. wslot'[w] = wslot[w] /\ wb'[w] = wb[w] + 1 /\ wpc'[w] = "wait"
  BY DEF NextBatch, TypeOK, Busy
<1>3. QED
  BY <1>1, <1>2 DEF Batches

\* What a thread that has a buffer has behind it.
LEMMA Behind ==
  ASSUME PlaceInv, InTurn, NEW w \in Threads, Busy(w)
  PROVE  /\ wslot[w] \in Slots /\ wb[w] \in Batches /\ wb[w] \in Nat
         /\ Scan(w) \in Scans /\ owner[wslot[w]] = Scan(w)
         /\ TurnOK(wpc[w], wb[w], inspected[wslot[w]], context[Scan(w)], matched[wslot[w]])
BY ScanTyped DEF InTurn, Batches

\* The thread's own steps: it takes a buffer, goes on, or goes to the next batch.
LEMMA InTurnOwn ==
  ASSUME PlaceInv, NotYet, InTurn, NEW w \in Threads, WorkerStep(w), Busy(w)'
  PROVE  TurnOK(wpc'[w], wb'[w], inspected'[wslot'[w]], context'[owner'[wslot'[w]]],
                matched'[wslot'[w]])
<1>0. TypeOK /\ UNCHANGED owner
  BY WorkerKinds DEF PlaceInv, slotVars
<1>1. CASE Poll(w)
  <2> DEFINE h == Head(inspectQueue)
  <2>1. h \in Slots /\ h \in Range1(inspectQueue)
    BY <1>0, <1>1, RangeTail DEF Poll, TypeOK
  <2>2. /\ wslot'[w] = h /\ wb'[w] = 0 /\ ~matched'[h]
        /\ UNCHANGED <<inspected, context>>
    BY <1>0, <1>1, <2>1 DEF Poll, TypeOK, PlaceInv, OnePlace, Busy, saveVars
  <2>3. inspected[h] = {} /\ ~context[owner[h]].matchFailed
    BY <2>1 DEF NotYet
  <2>4. inspected[h] = 0 .. 0 - 1 /\ 0 \in 0 .. 0 /\ \A n \in 0 .. 0 : ~(n < 0)
    BY <2>3
  <2> HIDE DEF h
  <2>5. QED
    BY <1>0, <2>2, <2>3, <2>4 DEF TurnOK
<1>2. CASE Leave(w) \/ LeaveEnd(w) \/ WaitStopped(w) \/ InspectThrows(w)
  BY <1>0, <1>2 DEF Leave, LeaveEnd, WaitStopped, InspectThrows, GiveUp, Busy, TypeOK
<1>3. CASE WaitEnds(w)
  <2>1. /\ Busy(w) /\ UNCHANGED <<wslot, wb, inspected, context, matched>>
        /\ wpc'[w] = "align" /\ wpc[w] = "wait" /\ ~context[Scan(w)].grabFailed
    BY <1>0, <1>3 DEF WaitEnds, Busy, GrabFail, TypeOK, saveVars
  <2>2. /\ owner[wslot[w]] = Scan(w)
        /\ TurnOK(wpc[w], wb[w], inspected[wslot[w]], context[Scan(w)], matched[wslot[w]])
    BY <2>1, Behind
  <2>3. TurnOK("align", wb[w], inspected[wslot[w]], context[Scan(w)], matched[wslot[w]])
    BY <2>1, <2>2 DEF TurnOK
  <2>4. QED
    BY <1>0, <2>1, <2>2, <2>3
<1>4. CASE Align(w)
  <2>1. /\ Busy(w) /\ UNCHANGED <<wslot, wb, inspected, context>>
        /\ ~context[Scan(w)].matchFailed /\ wpc[w] = "align" /\ wpc'[w] = "inspect"
    BY <1>0, <1>4 DEF Align, Busy, TypeOK, saveVars
  <2>2. /\ owner[wslot[w]] = Scan(w)
        /\ TurnOK(wpc[w], wb[w], inspected[wslot[w]], context[Scan(w)], matched[wslot[w]])
    BY <2>1, Behind
  <2>3. \A m : TurnOK("inspect", wb[w], inspected[wslot[w]], context[Scan(w)], m)
    BY <2>1, <2>2 DEF TurnOK
  <2>4. QED
    BY <1>0, <2>1, <2>2, <2>3
<1>5. CASE WaitFails(w)
  <2>1. /\ Busy(w) /\ NextBatch(w) /\ UNCHANGED <<inspected, matched>>
        /\ ContextSet(Scan(w), wb[w], "GRAB_FAILED") /\ wpc[w] = "wait"
    BY <1>5 DEF WaitFails, Busy, ContextSet
  <2>2. context'[Scan(w)].grabFailed
    BY <2>1, OwnContext
  <2>3. context'[Scan(w)].matchFailed <=> context[Scan(w)].matchFailed
    BY <2>1, OwnContext
  <2>4. /\ owner[wslot[w]] = Scan(w)
        /\ TurnOK("wait", wb[w], inspected[wslot[w]], context[Scan(w)], matched[wslot[w]])
    BY <2>1, Behind
  <2>5. wslot'[w] = wslot[w] /\ wb'[w] = wb[w] + 1 /\ wpc'[w] = "wait" /\ wb[w] \in Nat
    BY <1>0, <2>1, OnToNext
  <2>6. \A n \in 0 .. wb[w] : n \in 0 .. wb[w] + 1
    BY <2>5
  <2>7. TurnOK("wait", wb[w] + 1, inspected[wslot[w]], context'[Scan(w)], matched[wslot[w]])
    BY <2>2, <2>3, <2>4, <2>6 DEF TurnOK
  <2>8. QED
    BY <1>0, <2>1, <2>4, <2>5, <2>7
<1>6. CASE AlignFails(w)
  <2>1. /\ Busy(w) /\ NextBatch(w) /\ UNCHANGED inspected
        /\ matched' = [matched EXCEPT ![wslot[w]] = FALSE]
        /\ ContextSet(Scan(w), wb[w], "MATCHING_FAILED")
    BY <1>6 DEF AlignFails, Busy, ContextSet
  <2>2. context'[Scan(w)].matchFailed
    BY <2>1, OwnContext
  <2>3. /\ owner[wslot[w]] = Scan(w) /\ wslot[w] \in Slots
        /\ TurnOK(wpc[w], wb[w], inspected[wslot[w]], context[Scan(w)], matched[wslot[w]])
    BY <2>1, Behind
  <2>4. ~matched'[wslot[w]]
    BY <1>0, <2>1, <2>3 DEF TypeOK
  <2>5. wslot'[w] = wslot[w] /\ wb'[w] = wb[w] + 1 /\ wpc'[w] = "wait" /\ wb[w] \in Nat
    BY <1>0, <2>1, OnToNext
  <2>6. \A n \in 0 .. wb[w] : n \in 0 .. wb[w] + 1
    BY <2>5
  <2>7. TurnOK("wait", wb[w] + 1, inspected[wslot[w]], context'[Scan(w)],
               matched'[wslot[w]])
    BY <2>2, <2>3, <2>4, <2>6 DEF TurnOK
  <2>8. QED
    BY <1>0, <2>1, <2>3, <2>5, <2>7
<1>7. CASE Inspect(w)
  <2>1. /\ Busy(w) /\ NextBatch(w) /\ UNCHANGED matched /\ wpc[w] = "inspect"
        /\ inspected' = [inspected EXCEPT ![wslot[w]] = @ \cup {wb[w]}]
        /\ ContextSet(Scan(w), wb[w], "INSPECT_COMPLETE")
    BY <1>7 DEF Inspect, Busy, ContextSet
  <2>2. context'[Scan(w)].matchFailed <=> context[Scan(w)].matchFailed
    <3>1. \A st : ContextSet(Scan(w), wb[w], st) /\ st # "MATCHING_FAILED" =>
            (context'[Scan(w)].matchFailed <=> context[Scan(w)].matchFailed)
      BY <2>1, OwnContext
    <3>2. "INSPECT_COMPLETE" # "MATCHING_FAILED"
      OBVIOUS
    <3>3. QED
      BY <2>1, <3>1, <3>2
  <2>3. /\ owner[wslot[w]] = Scan(w) /\ wslot[w] \in Slots /\ wb[w] \in Nat
        /\ TurnOK("inspect", wb[w], inspected[wslot[w]], context[Scan(w)],
                  matched[wslot[w]])
    BY <2>1, Behind
  <2>4. ~context[Scan(w)].matchFailed /\ inspected[wslot[w]] = 0 .. wb[w] - 1
    BY <2>3 DEF TurnOK
  <2>5. wslot'[w] = wslot[w] /\ wb'[w] = wb[w] + 1 /\ wpc'[w] = "wait"
    BY <1>0, <2>1, OnToNext
  <2>6. inspected'[wslot[w]] = (0 .. wb[w] - 1) \cup {wb[w]}
    BY <1>0, <2>1, <2>3, <2>4 DEF TypeOK
  <2>7. inspected'[wslot[w]] = 0 .. (wb[w] + 1) - 1 /\ wb[w] \in inspected'[wslot[w]]
    BY <2>3, <2>6
  <2>8. wb[w] + 1 \in 0 .. wb[w] + 1 /\ ~(wb[w] + 1 < wb[w] + 1)
    BY <2>3
  <2>9. TurnOK("wait", wb[w] + 1, inspected'[wslot[w]], context'[Scan(w)],
               matched[wslot[w]])
    BY <2>2, <2>4, <2>7, <2>8 DEF TurnOK
  <2>10. QED
    BY <1>0, <2>1, <2>3, <2>5, <2>9
<1>8. QED
  BY <1>1, <1>2, <1>3, <1>4, <1>5, <1>6, <1>7 DEF WorkerStep

LEMMA InTurnNext ==
  ASSUME PlaceInv, Fresh, NotYet, InTurn, [Next]_vars
  PROVE  InTurn'
<1>1. ASSUME NEW w \in Threads, Busy(w)', ~WorkerStep(w)
      PROVE  Busy(w) /\ wpc'[w] = wpc[w] /\ wslot'[w] = wslot[w] /\ wb'[w] = wb[w]
  <2>1. TypeOK
    BY DEF PlaceInv
  <2>2. /\ wpc'[w] = wpc[w] \/ (wpc[w] = "off" /\ wpc'[w] = "poll")
        /\ wslot'[w] = wslot[w] /\ wb'[w] = wb[w]
    BY <1>1, <2>1, OwnSteps
  <2>3. QED
    BY <1>1, <2>2 DEF Busy
<1>2. QED
  BY <1>1, InTurnBystander, InTurnOwn DEF InTurn

\* A buffer that is posted as matched was posted by the inspection of its last batch,
\* or by a thread that found a failed grab after it had inspected the first one.
LEMMA PostedPassesNext ==
  ASSUME PlaceInv, Fresh, InTurn, PostedPasses, [Next]_vars
  PROVE  PostedPasses'
<1>0. TypeOK
  BY DEF PlaceInv
<1> SUFFICES ASSUME NEW k \in Slots, posted'[k] = 1, matched'[k]
             PROVE  Vouched(k)'
  BY DEF PostedPasses
<1>1. CASE posted[k] = 1
  <2>1. \A w \in Threads : Busy(w) => wslot[w] # k /\ wslot[w] \in Slots
    BY <1>0, <1>1 DEF PlaceInv, OnePlace, TypeOK
  <2>2. k \notin Range1(inspectQueue)
    BY <1>1 DEF PlaceInv, OnePlace
  <2>3. \A v \in Threads : Poll(v) => Head(inspectQueue) \in Range1(inspectQueue)
    BY <1>0, RangeTail DEF Poll, TypeOK
  <2>4. matched'[k] = matched[k]
    BY <1>0, <2>1, <2>2, <2>3, MatchedKinds
  <2>5. \A v \in Threads : Inspect(v) => Busy(v)
    BY DEF Inspect, Busy
  <2>6. inspected'[k] = inspected[k]
    BY <1>0, <2>1, <2>5, InspectedKinds DEF TypeOK
  <2>7. Vouched(k)
    BY <1>1, <2>4 DEF PostedPasses
  <2>8. QED
    BY <2>6, <2>7, MarkedGrows DEF Vouched
<1>2. CASE posted[k] # 1
  <2>1. PICK w \in Threads :
          WorkerStep(w) /\ Busy(w) /\ posted' = [posted EXCEPT ![wslot[w]] = @ + 1]
    BY <1>0, <1>2, PostedKinds
  <2>2. k = wslot[w] /\ posted'[k] # posted[k]
    BY <1>0, <1>2, <2>1 DEF TypeOK
  <2>3. /\ wb[w] \in Batches /\ Scan(w) \in Scans /\ owner[k] = Scan(w)
        /\ TurnOK(wpc[w], wb[w], inspected[k], context[Scan(w)], matched[k])
    BY <2>1, <2>2, Behind
  <2>4. ~Poll(w) /\ ~Leave(w) /\ ~LeaveEnd(w) /\ ~WaitEnds(w) /\ ~Align(w)
    BY <2>2 DEF Poll, Leave, LeaveEnd, WaitEnds, Align, saveVars
  <2>5. ~WaitStopped(w) /\ ~InspectThrows(w) /\ ~AlignFails(w)
    BY <1>0, <2>2 DEF WaitStopped, InspectThrows, AlignFails, GiveUp, TypeOK
  <2>6. Last \in Nat /\ Batches = 0 .. Last
    BY BatchAssumption DEF BatchAssumption, Last, Batches
  <2>7. CASE Inspect(w)
    <3>1. /\ wpc[w] = "inspect" /\ wb[w] = Last
          /\ inspected' = [inspected EXCEPT ![k] = @ \cup {Last}]
      BY <2>2, <2>7 DEF Inspect, NextBatch
    <3>2. inspected[k] = 0 .. Last - 1
      BY <2>3, <2>6, <3>1 DEF TurnOK
    <3>3. inspected'[k] = (0 .. Last - 1) \cup {Last}
      BY <1>0, <3>1, <3>2 DEF TypeOK
    <3>4. inspected'[k] = Batches
      BY <2>6, <3>3
    <3>5. QED
      BY <3>4 DEF Vouched
  <2>8. CASE WaitFails(w)
    <3>1. /\ wpc[w] = "wait" /\ wb[w] = Last /\ UNCHANGED <<inspected, matched, owner>>
          /\ ContextSet(Scan(w), wb[w], "GRAB_FAILED")
      BY <2>2, <2>8 DEF WaitFails, NextBatch, ContextSet, slotVars
    <3>2. context'[Scan(w)].grabFailed
      BY <2>1, <3>1, OwnContext
    <3>3. MarkedFailed(k)'
      BY <2>3, <3>1, <3>2 DEF MarkedFailed
    <3>4. matched[k] /\ wpc[w] # "inspect"
      BY <3>1
    <3>5. inspected[k] # {} /\ \E n \in 0 .. Last : inspected[k] = 0 .. n - 1
      BY <2>3, <3>1, <3>4 DEF TurnOK
    <3>6. PICK n \in 0 .. Last : inspected[k] = 0 .. n - 1
      BY <3>5
    <3>7. n # 0
      BY <3>5, <3>6
    <3>8. n \in 1 .. Last
      BY <2>6, <3>7
    <3>9. QED
      BY <3>1, <3>3, <3>6, <3>8 DEF Vouched
  <2>9. QED
    BY <2>1, <2>4, <2>5, <2>7, <2>8 DEF WorkerStep
<1>3. QED
  BY <1>1, <1>2

\* A verdict is given by Judge only; it adds one.
LEMMA JudgedKinds ==
  ASSUME TypeOK, [Next]_vars
  PROVE  UNCHANGED judged \/ Judge
BY WorkerKinds, CopyMoves, GrabFrame DEF Next, Stop, vars, saveVars

LEMMA VerdictAdded ==
  ASSUME TypeOK, Judge
  PROVE  LET h == Head(scanQueue)
         IN  /\ h \in Slots /\ h \in Range1(scanQueue)
             /\ Len(judged') = Len(judged) + 1 /\ Len(judged) \in Nat
             /\ \A i \in 1 .. Len(judged) : judged'[i] = judged[i]
             /\ judged'[Len(judged) + 1].module = h
             /\ judged'[Len(judged) + 1].passed <=> matched[h]
             /\ \A i \in 1 .. Len(judged) : judged[i].module \in Slots
<1> DEFINE h == Head(scanQueue)
           v == [module |-> h, passed |-> matched[h]]
<1>1. h \in Slots /\ h \in Range1(scanQueue)
  BY RangeTail DEF Judge, TypeOK
<1>2. /\ v \in [module : Slots, passed : BOOLEAN] /\ judged' = Append(judged, v)
      /\ judged \in Seq([module : Slots, passed : BOOLEAN])
  BY <1>1 DEF Judge, TypeOK
<1>3. v.module = h /\ (v.passed <=> matched[h])
  OBVIOUS
<1> HIDE DEF v, h
<1>4. /\ Len(judged') = Len(judged) + 1 /\ Len(judged) \in Nat
      /\ \A i \in 1 .. Len(judged) : judged'[i] = judged[i]
      /\ judged'[Len(judged) + 1] = v
  BY <1>2, AppendProperties, LenProperties
<1>5. \A i \in 1 .. Len(judged) : judged[i].module \in Slots
  <2>1. \A i \in 1 .. Len(judged) : judged[i] \in [module : Slots, passed : BOOLEAN]
    BY <1>2, ElementOfSeq
  <2>2. QED
    BY <2>1
<1>6. QED
  BY <1>1, <1>3, <1>4, <1>5 DEF h

LEMMA LeftOutNext ==
  ASSUME PlaceInv, Fresh, PostedPasses, PostedPasses', LeftOutIsMarked, [Next]_vars
  PROVE  LeftOutIsMarked'
<1>0. TypeOK /\ OneVerdict /\ OnePlace
  BY DEF PlaceInv
<1>1. \A i \in 1 .. Len(judged) : judged[i].module \in Slots /\ posted[judged[i].module] = 1
  <2>1. judged \in Seq([module : Slots, passed : BOOLEAN])
    BY <1>0 DEF TypeOK
  <2>2. \A i \in 1 .. Len(judged) : judged[i] \in [module : Slots, passed : BOOLEAN]
    BY <2>1, ElementOfSeq
  <2>3. QED
    BY <1>0, <2>2 DEF OneVerdict, Judged
\* Nobody inspects a buffer that is posted.
<1>2. \A k \in Slots : posted[k] = 1 => inspected'[k] = inspected[k]
  <2>1. \A w \in Threads : Inspect(w) => wslot[w] \in Slots /\ posted[wslot[w]] = 0
    BY <1>0 DEF Inspect, Busy, OnePlace, TypeOK
  <2>2. QED
    BY <1>0, <2>1, InspectedKinds DEF TypeOK
<1>3. \A k \in Slots : posted[k] = 1 /\ Vouched(k) => Vouched(k)'
  BY <1>2, MarkedGrows DEF Vouched
<1>4. \A i \in 1 .. Len(judged) : judged[i].passed => Vouched(judged[i].module)
  BY DEF LeftOutIsMarked, Vouched
<1>5. \A i \in 1 .. Len(judged) : judged[i].passed =>
        \E k \in Slots : k = judged[i].module /\ Vouched(k)'
  BY <1>1, <1>3, <1>4
<1>6. ASSUME \A i \in 1 .. Len(judged') : judged'[i].passed =>
               \E k \in Slots : k = judged'[i].module /\ Vouched(k)'
      PROVE  LeftOutIsMarked'
  BY <1>6 DEF LeftOutIsMarked, Vouched, MarkedFailed
<1>7. CASE Judge
  <2>1. /\ Head(scanQueue) \in Slots
        /\ Len(judged') = Len(judged) + 1 /\ Len(judged) \in Nat
        /\ \A i \in 1 .. Len(judged) : judged'[i] = judged[i]
        /\ judged'[Len(judged) + 1].module = Head(scanQueue)
        /\ judged'[Len(judged) + 1].passed <=> matched[Head(scanQueue)]
    BY <1>0, <1>7, VerdictAdded
  <2> PICK h \in Slots : h = Head(scanQueue)
    BY <2>1
  <2>2. posted[h] = 1
    BY <1>0, <1>7, <2>1 DEF Judge, OnePlace, TypeOK
  <2>3. matched[h] => Vouched(h)'
    BY <1>3, <2>1, <2>2 DEF PostedPasses
  <2>4. \A i \in 1 .. Len(judged') : i \in 1 .. Len(judged) \/ i = Len(judged) + 1
    BY <2>1
  <2>5. QED
    BY <1>5, <1>6, <2>1, <2>3, <2>4
<1>8. CASE UNCHANGED judged
  BY <1>5, <1>6, <1>8
<1>9. QED
  BY <1>0, <1>7, <1>8, JudgedKinds

LEMMA PassInit == Init => PassInv
<1> SUFFICES ASSUME Init PROVE PassInv
  OBVIOUS
<1>1. PlaceInv
  BY PlaceInit
<1>2. \A s \in Scans : ~context[s].grabFailed /\ ~context[s].matchFailed
  <2>1. \A s \in Scans : context[s] = NewContext
    BY DEF Init
  <2>2. ~NewContext.grabFailed /\ ~NewContext.matchFailed
    BY DEF NewContext
  <2>3. QED
    BY <2>1, <2>2
<1>3. Fresh
  BY <1>2 DEF Init, Fresh, Tasks
<1>4. MismatchQueued
  BY <1>2 DEF MismatchQueued
<1>5. NotYet
  <2>1. Range1(inspectQueue) = {}
    BY DEF Init, Range1
  <2>2. QED
    BY <2>1 DEF NotYet
<1>6. InspectedQueued /\ InTurn /\ PostedPasses
  BY DEF Init, InspectedQueued, InTurn, PostedPasses, Busy
<1>7. LeftOutIsMarked
  BY DEF Init, LeftOutIsMarked
<1>8. QED
  BY <1>1, <1>3, <1>4, <1>5, <1>6, <1>7 DEF PassInv

LEMMA PassNext ==
  ASSUME PassInv, [Next]_vars
  PROVE  PassInv'
<1>1. PlaceInv' /\ InspectedQueued' /\ Fresh' /\ MismatchQueued'
  BY PlaceNext, InspectedQueuedNext, FreshNext, MismatchQueuedNext DEF PassInv
<1>2. NotYet' /\ InTurn' /\ PostedPasses'
  BY NotYetNext, InTurnNext, PostedPassesNext DEF PassInv
<1>3. LeftOutIsMarked'
  BY <1>2, LeftOutNext DEF PassInv
<1>4. QED
  BY <1>1, <1>2, <1>3 DEF PassInv

LEMMA PassAlways == Spec => []PassInv
BY PassInit, PassNext, PTL DEF Spec

\* In every build, with every timing, whatever fails and whenever the handler stops, a
\* module that passes was inspected in all its batches, or in the first of them up to
\* a grab that failed or was stopped, which the buffer or the context tells: no
\* mismatch, no exception and no wait given up is left out of a pass silently.
THEOREM LeftOutBatchesAreMarked == Spec => []LeftOutIsMarked
<1>1. PassInv => LeftOutIsMarked
  BY DEF PassInv
<1>2. QED
  BY <1>1, PassAlways, PTL

-----------------------------------------------------------------------------
(* No batch is inspected whose grab failed, unless a copy outlasts the     *)
(* next grab or the stack slot of bSuccess is used again.                  *)

\* A copy task reads the success of the grab of its own batch, or the program knows
\* that a grab of the module has failed.
OwnSuccess ==
  \A s \in Scans : \A b \in Batches : ~context[s].grabFailed =>
    /\ copy[<<s, b>>] = "wait" /\ success[s] => b \in grabbed[s]
    /\ copy[<<s, b>>] = "fill" /\ ~paramFail[<<s, b>>] => b \in grabbed[s]

\* So only the images of a batch that was grabbed are copied,
ImagesGrabbed ==
  \A k \in Slots : \A s \in Scans : \A b \in Batches :
    <<s, b>> \in images[k] /\ ~context[s].grabFailed => b \in grabbed[s]

\* and aligned.
AlignsGrabbed ==
  \A w \in Threads : wpc[w] \in {"align", "inspect"} =>
    wb[w] \in grabbed[owner[wslot[w]]]

GrabbedInv ==
  /\ SerialInv /\ Fresh /\ OwnSuccess /\ ImagesGrabbed /\ AlignsGrabbed
  /\ InspectedWasGrabbed

\* No grab is forgotten.
LEMMA GrabbedGrows ==
  ASSUME TypeOK, [Next]_vars
  PROVE  \A s \in Scans : grabbed[s] \subseteq grabbed'[s]
<1>1. ASSUME NEW s \in Scans, Start(s) \/ GrabStep(s)
      PROVE  \A r \in Scans : grabbed[r] \subseteq grabbed'[r]
  <2>1. UNCHANGED grabbed \/ grabbed' = [grabbed EXCEPT ![s] = @ \cup {gb[s]}]
    BY <1>1 DEF Start, GrabStep, Grab, GrabStopped, GrabThrows, Complete, Flush
  <2>2. QED
    BY <2>1 DEF TypeOK
<1>2. ASSUME NEW s \in Scans, NEW b \in Batches, CopyStep(s, b)
      PROVE  UNCHANGED grabbed
  BY <1>2 DEF CopyStep, CopyBegin, CopyFill, CopyThrows, CopyRedo, CopyReport, grabVars
<1>3. QED
  BY <1>1, <1>2, OtherFrame DEF Next, grabVars

LEMMA OwnSuccessNext ==
  ASSUME ~SlowCopies, ~Packed, SerialInv, Fresh, OwnSuccess, [Next]_vars
  PROVE  OwnSuccess'
<1>0. /\ TypeOK /\ PlaceInv
      /\ \A r \in Scans, c \in Batches : <<r, c>> \in Tasks
      /\ \A r \in Scans : grabbed[r] \subseteq grabbed'[r]
      /\ \A r \in Scans : context[r].grabFailed => context'[r].grabFailed
  BY GrabbedGrows, GrabFailureStays DEF SerialInv, OrderInv, PlaceInv, Tasks
\* A task whose step this is not keeps what it has.
<1>1. ASSUME NEW r \in Scans, NEW c \in Batches, ~context'[r].grabFailed,
             copy'[<<r, c>>] = copy[<<r, c>>], success'[r] => success[r],
             ~paramFail'[<<r, c>>] => ~paramFail[<<r, c>>]
      PROVE  /\ copy'[<<r, c>>] = "wait" /\ success'[r] => c \in grabbed'[r]
             /\ copy'[<<r, c>>] = "fill" /\ ~paramFail'[<<r, c>>] => c \in grabbed'[r]
  BY <1>0, <1>1 DEF OwnSuccess
<1>2. ASSUME NEW s \in Scans, Start(s) \/ GrabStep(s)
      PROVE  OwnSuccess'
  <2>1. UNCHANGED paramFail
    BY <1>2, GrabFrame
  <2>2. CASE Grab(s)
    <3> DEFINE t == <<s, gb[s]>>
    <3>1. /\ t \in Tasks /\ gb[s] \in Batches /\ copy' = [copy EXCEPT ![t] = "wait"]
          /\ \A u \in Tasks : copy[u] \in {"none", "done"}
      BY <1>0, <2>2 DEF Grab, CopiesSettled, TypeOK, Tasks
    <3>2. copy'[t] = "wait" /\ \A u \in Tasks : u # t => copy'[u] \in {"none", "done"}
      BY <1>0, <3>1 DEF TypeOK
    <3>3. success'[s] => gb[s] \in grabbed'[s]
      BY <1>0, <2>2, <3>1 DEF Grab, TypeOK
    <3>4. \A r \in Scans, c \in Batches :
            (r = s /\ c = gb[s]) \/ copy'[<<r, c>>] \in {"none", "done"}
      BY <1>0, <3>2
    <3>5. QED
      BY <3>2, <3>3, <3>4 DEF OwnSuccess
  <2>3. CASE GrabStopped(s)
    <3>1. context'[s].grabFailed
      <4>1. /\ context[s] \in Contexts
            /\ context'[s] = UpdateBatchStatus(context[s], Last, "GRAB_FAILED")
        BY <1>0, <2>3 DEF GrabStopped, TypeOK
      <4>2. QED
        BY <4>1, UpdateSays, Bounds
    <3>2. /\ UNCHANGED copy
          /\ \A r \in Scans : r # s => success'[r] = success[r]
      BY <1>0, <2>3 DEF GrabStopped, copyVars, TypeOK
    <3>3. QED
      BY <1>1, <2>1, <3>1, <3>2 DEF OwnSuccess
  <2>4. CASE ~Grab(s) /\ ~GrabStopped(s)
    <3>1. UNCHANGED <<copy, success>>
      BY <1>2, <2>4 DEF Start, GrabStep, GrabThrows, Complete, Flush, copyVars
    <3>2. QED
      BY <1>1, <2>1, <3>1 DEF OwnSuccess
  <2>5. QED
    BY <2>2, <2>3, <2>4
<1>3. ASSUME NEW s \in Scans, NEW b \in Batches, CopyStep(s, b)
      PROVE  OwnSuccess'
  <2> DEFINE t == <<s, b>>
  <2>1. /\ t \in Tasks /\ \A u \in Tasks : u # t => copy'[u] = copy[u]
    BY <1>0, <1>3, CopyMoves
  <2>2. \A u \in Tasks : u # t => paramFail'[u] = paramFail[u]
    <3>1. ASSUME NEW fail \in BOOLEAN, TakeBuffer(s, b, fail)
          PROVE  \A u \in Tasks : u # t => paramFail'[u] = paramFail[u]
      BY <1>0, <3>1 DEF TakeBuffer, TypeOK
    <3>2. QED
      BY <1>0, <1>3, <3>1, CopyFrame
  <2>3. \A r \in Scans : success'[r] => success[r]
    BY <1>0, <1>3 DEF CopyStep, CopyBegin, CopyFill, CopyThrows, CopyRedo, CopyReport,
                      grabVars, TypeOK
  <2>4. ASSUME ~context'[s].grabFailed =>
                 /\ copy'[t] = "wait" /\ success'[s] => b \in grabbed'[s]
                 /\ copy'[t] = "fill" /\ ~paramFail'[t] => b \in grabbed'[s]
        PROVE  OwnSuccess'
    <3>1. \A r \in Scans, c \in Batches :
            (r = s /\ c = b) \/ (/\ copy'[<<r, c>>] = copy[<<r, c>>]
                                 /\ paramFail'[<<r, c>>] = paramFail[<<r, c>>])
      BY <1>0, <2>1, <2>2
    <3>2. QED
      BY <1>1, <2>3, <2>4, <3>1 DEF OwnSuccess
  <2>5. CASE CopyBegin(s, b)
    <3>1. TakeBuffer(s, b, ~success[s]) /\ copy[t] = "wait"
      BY <2>5 DEF CopyBegin, Reads
    <3>2. success[s] \in BOOLEAN
      BY <1>0 DEF TypeOK
    <3>3. ~paramFail'[t] => success[s]
      <4>1. ASSUME NEW fail \in BOOLEAN, TakeBuffer(s, b, fail)
            PROVE  paramFail'[t] = fail
        BY <1>0, <4>1, TakeFacts
      <4>2. (~success[s]) \in BOOLEAN
        BY <3>2
      <4> HIDE DEF t
      <4>3. QED
        BY <3>1, <4>1, <4>2
    <3>4. copy'[t] = "fill"
      BY <1>0, <2>1, <2>5 DEF CopyBegin, TypeOK
    <3>5. ~context'[s].grabFailed => ~context[s].grabFailed
      BY <1>0
    <3>6. ~context[s].grabFailed /\ success[s] => b \in grabbed[s]
      BY <3>1 DEF OwnSuccess
    <3>7. QED
      BY <1>0, <2>4, <3>3, <3>4, <3>5, <3>6
  <2>6. CASE ~CopyBegin(s, b)
    <3>1. copy'[t] \notin {"wait", "fill"}
      <4>1. CopyFill(s, b) \/ CopyThrows(s, b) \/ CopyRedo(s, b) \/ CopyReport(s, b)
        BY <1>3, <2>6 DEF CopyStep
      <4>2. QED
        BY <1>0, <2>1, <4>1 DEF CopyFill, CopyThrows, CopyRedo, CopyReport, TypeOK
    <3>2. QED
      BY <2>4, <3>1
  <2>7. QED
    BY <2>5, <2>6
<1>4. ASSUME UNCHANGED <<grabVars, copyVars>> PROVE OwnSuccess'
  BY <1>1, <1>4 DEF OwnSuccess, grabVars, copyVars
<1>5. QED
  BY <1>0, <1>2, <1>3, <1>4, OtherFrame DEF Next

LEMMA ImagesGrabbedNext ==
  ASSUME SerialInv, Fresh, OwnSuccess, ImagesGrabbed, [Next]_vars
  PROVE  ImagesGrabbed'
<1>0. /\ TypeOK /\ PlaceInv /\ \A r \in Scans : grabbed[r] \subseteq grabbed'[r]
      /\ \A r \in Scans : context[r].grabFailed => context'[r].grabFailed
  BY GrabbedGrows, GrabFailureStays DEF SerialInv, OrderInv, PlaceInv
<1>1. ASSUME UNCHANGED images
      PROVE  ImagesGrabbed'
  BY <1>0, <1>1 DEF ImagesGrabbed
<1>2. ASSUME NEW s \in Scans, NEW b \in Batches, CopyStep(s, b)
      PROVE  ImagesGrabbed'
  <2>1. ASSUME \A k \in Slots : \A t \in images'[k] : t \in images[k] \/ t = <<s, b>>,
               (\E k \in Slots : <<s, b>> \in images'[k] /\ <<s, b>> \notin images[k]) =>
                 context[s].grabFailed \/ b \in grabbed[s]
        PROVE  ImagesGrabbed'
    <3> SUFFICES ASSUME NEW k \in Slots, NEW r \in Scans, NEW c \in Batches,
                        <<r, c>> \in images'[k], ~context'[r].grabFailed
                 PROVE  c \in grabbed'[r]
      BY DEF ImagesGrabbed
    <3>1. CASE <<r, c>> \in images[k]
      BY <1>0, <3>1 DEF ImagesGrabbed
    <3>2. CASE <<r, c>> \notin images[k]
      <4>1. r = s /\ c = b
        BY <2>1, <3>2
      <4>2. QED
        BY <1>0, <2>1, <3>2, <4>1
    <3>3. QED
      BY <3>1, <3>2
  <2>2. CASE CopyBegin(s, b) \/ CopyRedo(s, b)
    <3>1. PICK fail \in BOOLEAN : TakeBuffer(s, b, fail)
      BY <1>0, <2>2 DEF CopyBegin, CopyRedo, Reads, TypeOK
    <3>2. images' = [images EXCEPT ![slot + 1] = {}] \/ UNCHANGED images
      BY <3>1 DEF TakeBuffer
    <3>3. \A k \in Slots : images'[k] \subseteq images[k]
      BY <1>0, <3>2 DEF TypeOK
    <3>4. QED
      BY <2>1, <3>3
  <2>3. CASE CopyFill(s, b)
    <3>1. \/ UNCHANGED images
          \/ /\ ~paramFail[<<s, b>>] /\ copy[<<s, b>>] = "fill"
             /\ images' = [images EXCEPT ![into[<<s, b>>]] = @ \cup {<<s, b>>}]
      BY <2>3 DEF CopyFill
    <3>2. CASE /\ ~paramFail[<<s, b>>] /\ copy[<<s, b>>] = "fill"
               /\ images' = [images EXCEPT ![into[<<s, b>>]] = @ \cup {<<s, b>>}]
      <4> DEFINE e == <<s, b>>
      <4>1. images \in [Slots -> SUBSET Tasks]
        BY <1>0 DEF TypeOK
      <4>2. context[s].grabFailed \/ b \in grabbed[s]
        BY <3>2 DEF OwnSuccess
      <4>3. images' = [images EXCEPT ![into[e]] = @ \cup {e}]
        BY <3>2
      <4> HIDE DEF e
      <4>4. \A k \in Slots : images'[k] = images[k] \/ images'[k] = images[k] \cup {e}
        BY <4>1, <4>3
      <4>5. \A k \in Slots : \A u \in images'[k] : u \in images[k] \/ u = e
        BY <4>4
      <4>6. QED
        BY <2>1, <4>2, <4>5 DEF e
    <3>3. QED
      BY <1>1, <3>1, <3>2
  <2>4. CASE CopyThrows(s, b) \/ CopyReport(s, b)
    BY <1>1, <2>4 DEF CopyThrows, CopyReport
  <2>5. QED
    BY <1>2, <2>2, <2>3, <2>4 DEF CopyStep
<1>3. QED
  BY <1>0, <1>1, <1>2, GrabFrame, OtherFrame DEF Next

LEMMA AlignsGrabbedNext ==
  ASSUME SerialInv, Fresh, ImagesGrabbed, AlignsGrabbed, [Next]_vars
  PROVE  AlignsGrabbed'
<1>0. /\ TypeOK /\ PlaceInv /\ \A r \in Scans : grabbed[r] \subseteq grabbed'[r]
  BY GrabbedGrows DEF SerialInv, OrderInv, PlaceInv
<1> SUFFICES ASSUME NEW w \in Threads, wpc'[w] \in {"align", "inspect"}
             PROVE  wb'[w] \in grabbed'[owner'[wslot'[w]]]
  BY DEF AlignsGrabbed
<1>1. CASE wpc[w] \in {"align", "inspect"} /\ wslot'[w] = wslot[w] /\ wb'[w] = wb[w]
  <2>1. /\ Queued(wslot[w]) /\ wslot[w] \in Slots
        /\ Scan(w) \in Scans /\ owner[wslot[w]] = Scan(w)
    BY <1>0, <1>1, ScanTyped DEF Busy
  <2>2. owner'[wslot[w]] = owner[wslot[w]]
    BY <1>0, <2>1, QueuedKeeps
  <2>3. wb[w] \in grabbed[owner[wslot[w]]]
    BY <1>1 DEF AlignsGrabbed
  <2>4. QED
    BY <1>0, <1>1, <2>1, <2>2, <2>3
<1>2. CASE ~(wpc[w] \in {"align", "inspect"} /\ wslot'[w] = wslot[w] /\ wb'[w] = wb[w])
  <2>1. WaitEnds(w) /\ UNCHANGED <<owner, images, wslot, wb>>
    BY <1>0, <1>2, AlignKinds
  <2>2. /\ Scan(w) \in Scans /\ owner[wslot[w]] = Scan(w) /\ wslot[w] \in Slots
        /\ wb[w] \in Batches
    BY <1>0, <2>1, ScanTyped DEF WaitEnds, Busy
  <2>3. <<owner[wslot[w]], wb[w]>> \in images[wslot[w]]
    BY <2>1, ArrivedCopied
  <2>4. ~context[Scan(w)].grabFailed
    BY <2>1 DEF WaitEnds, GrabFail
  <2>5. wb[w] \in grabbed[Scan(w)]
    BY <2>2, <2>3, <2>4 DEF ImagesGrabbed
  <2>6. QED
    BY <1>0, <2>1, <2>2, <2>5
<1>3. QED
  BY <1>1, <1>2

LEMMA InspectedGrabbedNext ==
  ASSUME SerialInv, AlignsGrabbed, InspectedWasGrabbed, [Next]_vars
  PROVE  InspectedWasGrabbed'
<1>0. /\ TypeOK /\ PlaceInv /\ InspectedQueued
      /\ \A r \in Scans : grabbed[r] \subseteq grabbed'[r]
  BY GrabbedGrows DEF SerialInv, OrderInv, PlaceInv
<1>1. ASSUME NEW k \in Slots, Queued(k), inspected[k] \subseteq grabbed[owner[k]]
      PROVE  inspected[k] \subseteq grabbed'[owner'[k]]
  <2>1. owner'[k] = owner[k] /\ owner[k] \in Scans
    BY <1>0, <1>1, QueuedKeeps, QueuedTaken
  <2>2. QED
    BY <1>0, <1>1, <2>1
<1>2. CASE UNCHANGED inspected
  BY <1>0, <1>1, <1>2 DEF InspectedQueued, InspectedWasGrabbed
<1>3. CASE \E w \in Threads :
              /\ Inspect(w)
              /\ inspected' = [inspected EXCEPT ![wslot[w]] = @ \cup {wb[w]}]
  <2> PICK w \in Threads :
              /\ Inspect(w)
              /\ inspected' = [inspected EXCEPT ![wslot[w]] = @ \cup {wb[w]}]
    BY <1>3
  <2>1. UNCHANGED <<owner, grabbed>> /\ Busy(w) /\ wb[w] \in grabbed[owner[wslot[w]]]
    BY DEF Inspect, slotVars, grabVars, Busy, AlignsGrabbed
  <2>2. wslot[w] \in Slots
    BY <1>0, <2>1, ScanTyped
  <2>3. /\ inspected'[wslot[w]] = inspected[wslot[w]] \cup {wb[w]}
        /\ \A k \in Slots : k # wslot[w] => inspected'[k] = inspected[k]
    BY <1>0, <2>2 DEF TypeOK
  <2>4. QED
    BY <2>1, <2>2, <2>3 DEF InspectedWasGrabbed
<1>4. QED
  BY <1>0, <1>2, <1>3, InspectedKinds

LEMMA GrabbedAlways ==
  ASSUME ~SlowCopies, ~Packed
  PROVE  Spec => []GrabbedInv
<1>1. Init => GrabbedInv
  <2> SUFFICES ASSUME Init PROVE GrabbedInv
    OBVIOUS
  <2>1. SerialInv /\ Fresh
    BY SerialInit, PassInit DEF PassInv
  <2>2. OwnSuccess /\ ImagesGrabbed /\ AlignsGrabbed /\ InspectedWasGrabbed
    BY DEF Init, OwnSuccess, ImagesGrabbed, AlignsGrabbed, InspectedWasGrabbed
  <2>3. QED
    BY <2>1, <2>2 DEF GrabbedInv
<1>2. GrabbedInv /\ [Next]_vars => GrabbedInv'
  <2> SUFFICES ASSUME GrabbedInv, [Next]_vars PROVE GrabbedInv'
    OBVIOUS
  <2>1. SerialInv' /\ Fresh'
    BY SerialInvNext, FreshNext DEF GrabbedInv, SerialInv, OrderInv
  <2>2. OwnSuccess' /\ ImagesGrabbed' /\ AlignsGrabbed' /\ InspectedWasGrabbed'
    BY OwnSuccessNext, ImagesGrabbedNext, AlignsGrabbedNext, InspectedGrabbedNext
       DEF GrabbedInv
  <2>3. QED
    BY <2>1, <2>2 DEF GrabbedInv
<1>3. QED
  BY <1>1, <1>2, PTL DEF Spec

\* If no copy outlasts the next grab and bSuccess keeps its place on the stack, no
\* batch is inspected whose GrabStart failed, although all copy tasks of a scan read
\* one bSuccess by reference, and even if the handler stops at any time.
THEOREM InspectedBatchesWereGrabbed ==
  ~SlowCopies /\ ~Packed => (Spec => []InspectedWasGrabbed)
<1> SUFFICES ASSUME ~SlowCopies, ~Packed PROVE Spec => []InspectedWasGrabbed
  OBVIOUS
<1>1. GrabbedInv => InspectedWasGrabbed
  BY DEF GrabbedInv
<1>2. QED
  BY <1>1, GrabbedAlways, PTL

-----------------------------------------------------------------------------
(* Batch inspection implements BatchPromise.                               *)

\* What the promise sees: the modules in the order they were queued, judged or not,
\* and those of which a grab is known to have failed.
Modules1(q) == [i \in 1 .. Len(q) |-> q[i].module]
Accepted == [i \in 1 .. Len(judged) |-> judged[i].module] \o scanQueue
FailedSet == {k \in Slots : MarkedFailed(k)}

\* The sequence of the modules that were judged.
LEMMA JudgedModules ==
  ASSUME NEW q \in Seq([module : Slots, passed : BOOLEAN])
  PROVE  /\ Modules1(q) \in Seq(Slots) /\ Len(Modules1(q)) = Len(q)
         /\ \A i \in 1 .. Len(q) : Modules1(q)[i] = q[i].module
<1>1. Len(q) \in Nat
  BY LenProperties
<1>2. \A i \in 1 .. Len(q) : q[i].module \in Slots
  <2>1. \A i \in 1 .. Len(q) : q[i] \in [module : Slots, passed : BOOLEAN]
    BY ElementOfSeq
  <2>2. QED
    BY <2>1
<1>3. Modules1(q) \in [1 .. Len(q) -> Slots]
  BY <1>2 DEF Modules1
<1>4. Modules1(q) \in Seq(Slots) /\ Len(Modules1(q)) = Len(q)
  BY <1>1, <1>3
<1>5. QED
  BY <1>4 DEF Modules1

\* Positions in the accepted sequence: first the verdicts, then the scan queue.
LEMMA AcceptedShape ==
  ASSUME TypeOK
  PROVE  /\ Accepted \in Seq(Slots) /\ Len(judged) \in Nat /\ Len(scanQueue) \in Nat
         /\ Len(Accepted) = Len(judged) + Len(scanQueue)
         /\ \A i \in 1 .. Len(judged) : Accepted[i] = judged[i].module
         /\ \A i \in 1 .. Len(scanQueue) : Accepted[Len(judged) + i] = scanQueue[i]
<1>1. /\ Modules1(judged) \in Seq(Slots) /\ Len(Modules1(judged)) = Len(judged)
      /\ \A i \in 1 .. Len(judged) : Modules1(judged)[i] = judged[i].module
      /\ scanQueue \in Seq(Slots) /\ Len(judged) \in Nat /\ Len(scanQueue) \in Nat
  BY JudgedModules, LenProperties DEF TypeOK
<1>2. Accepted = Modules1(judged) \o scanQueue
  BY DEF Accepted, Modules1
<1>3. /\ Accepted \in Seq(Slots) /\ Len(Accepted) = Len(judged) + Len(scanQueue)
      /\ \A i \in 1 .. Len(judged) + Len(scanQueue) : Accepted[i] =
           IF i <= Len(judged) THEN Modules1(judged)[i] ELSE scanQueue[i - Len(judged)]
  <2> DEFINE J == Modules1(judged)
  <2>1. /\ J \in Seq(Slots) /\ scanQueue \in Seq(Slots) /\ Len(J) = Len(judged)
        /\ Accepted = J \o scanQueue
    BY <1>1, <1>2
  <2> HIDE DEF J
  <2>2. /\ J \o scanQueue \in Seq(Slots)
        /\ Len(J \o scanQueue) = Len(J) + Len(scanQueue)
        /\ \A i \in 1 .. Len(J) + Len(scanQueue) : (J \o scanQueue)[i] =
              IF i <= Len(J) THEN J[i] ELSE scanQueue[i - Len(J)]
    BY <2>1, ConcatProperties
  <2>3. QED
    BY <2>1, <2>2 DEF J
<1>4. \A i \in 1 .. Len(judged) : Accepted[i] = judged[i].module
  BY <1>1, <1>3
<1>5. \A i \in 1 .. Len(scanQueue) : Accepted[Len(judged) + i] = scanQueue[i]
  <2>1. \A i \in 1 .. Len(scanQueue) :
          /\ Len(judged) + i \in 1 .. Len(judged) + Len(scanQueue)
          /\ ~(Len(judged) + i <= Len(judged)) /\ Len(judged) + i - Len(judged) = i
    BY <1>1
  <2>2. QED
    BY <1>3, <2>1
<1>6. QED
  BY <1>1, <1>3, <1>4, <1>5

\* The scan queue grows by a buffer that was not queued.
LEMMA ScanQueueGrows ==
  ASSUME PlaceInv, NEW s \in Scans, NEW b \in Batches, CopyStep(s, b)
  PROVE  \/ UNCHANGED scanQueue
         \/ \E k \in Slots : ~Queued(k) /\ scanQueue' = Append(scanQueue, k)
<1>0. TypeOK
  BY DEF PlaceInv
<1>1. CASE CopyBegin(s, b) \/ CopyThrows(s, b) \/ CopyReport(s, b) \/ b # 0
  BY <1>1 DEF CopyStep, CopyBegin, CopyFill, CopyThrows, CopyRedo, CopyReport, Enqueue,
              queueVars
<1>2. CASE CopyFill(s, b) /\ b = 0
  <2>1. /\ scanQueue' = Append(scanQueue, into[First(s)]) /\ copy[First(s)] = "fill"
    BY <1>2 DEF CopyFill, Enqueue, First
  <2>2. into[First(s)] \in Slots /\ owner[into[First(s)]] = s
    BY <1>0, <2>1, Bounds DEF PlaceInv, FirstTaken, Taken, TypeOK, Tasks, First
  <2>3. ~Queued(into[First(s)])
    BY <2>1, <2>2 DEF PlaceInv, QueuedByFirst
  <2>4. QED
    BY <2>1, <2>2, <2>3
<1>3. CASE CopyRedo(s, b) /\ b = 0
  <2>1. scanQueue' = Append(scanQueue, slot') /\ TakeBuffer(s, b, TRUE)
    BY <1>3 DEF CopyRedo, Enqueue
  <2>2. slot' = slot + 1 /\ slot' \in Slots /\ slot \in Nat
    BY <1>0, <1>3, <2>1, TakeFacts
  <2>3. ~Queued(slot')
    BY <2>2, QueuedTaken
  <2>4. QED
    BY <2>1, <2>2, <2>3
<1>4. QED
  BY <1>1, <1>2, <1>3 DEF CopyStep

\* A buffer that is queued is accepted; it stands in the scan queue until judged.
LEMMA AcceptedQueued ==
  ASSUME PlaceInv
  PROVE  /\ \A i \in 1 .. Len(Accepted) : Queued(Accepted[i]) /\ Accepted[i] \in Slots
         /\ \A k \in Slots : Queued(k) /\ posted[k] = 0 =>
              \E i \in 1 .. Len(Accepted) : i > Len(judged) /\ Accepted[i] = k
<1>0. TypeOK /\ OneVerdict
  BY DEF PlaceInv
<1>1. /\ Accepted \in Seq(Slots) /\ Len(judged) \in Nat /\ Len(scanQueue) \in Nat
      /\ Len(Accepted) = Len(judged) + Len(scanQueue)
      /\ \A i \in 1 .. Len(judged) : Accepted[i] = judged[i].module
      /\ \A i \in 1 .. Len(scanQueue) : Accepted[Len(judged) + i] = scanQueue[i]
  BY <1>0, AcceptedShape
<1>2. ASSUME NEW i \in 1 .. Len(Accepted)
      PROVE  Queued(Accepted[i]) /\ Accepted[i] \in Slots
  <2>1. Accepted[i] \in Slots
    BY <1>1, ElementOfSeq
  <2>2. CASE i \in 1 .. Len(judged)
    BY <1>0, <1>1, <2>1, <2>2 DEF OneVerdict, Judged
  <2>3. CASE i \notin 1 .. Len(judged)
    <3>1. i - Len(judged) \in 1 .. Len(scanQueue) /\ i = Len(judged) + (i - Len(judged))
      BY <1>1, <2>3
    <3>2. Accepted[i] = scanQueue[i - Len(judged)]
      BY <1>1, <3>1
    <3>3. Accepted[i] \in Range1(scanQueue)
      BY <3>1, <3>2 DEF Range1
    <3>4. QED
      BY <1>0, <2>1, <3>3 DEF OneVerdict
  <2>4. QED
    BY <2>2, <2>3
<1>3. ASSUME NEW k \in Slots, Queued(k), posted[k] = 0
      PROVE  \E i \in 1 .. Len(Accepted) : i > Len(judged) /\ Accepted[i] = k
  <2>1. k \in Range1(scanQueue)
    BY <1>0, <1>3 DEF OneVerdict
  <2>2. PICK j \in 1 .. Len(scanQueue) : scanQueue[j] = k
    BY <2>1 DEF Range1
  <2>3. Len(judged) + j \in 1 .. Len(Accepted) /\ Len(judged) + j > Len(judged)
    BY <1>1
  <2>4. QED
    BY <1>1, <2>2, <2>3
<1>4. QED
  BY <1>2, <1>3

\* Queueing a buffer accepts its module.
LEMMA PromiseAccept ==
  ASSUME PlaceInv, PlaceInv', NEW k \in Slots, ~Queued(k),
         scanQueue' = Append(scanQueue, k), UNCHANGED <<judged, inspected>>
  PROVE  Promise!Accept(k)
<1>0. TypeOK /\ TypeOK' /\ scanQueue \in Seq(Slots)
  BY DEF PlaceInv, TypeOK
<1>1. \A i \in 1 .. Len(Accepted) : Accepted[i] # k
  BY AcceptedQueued
<1>2. /\ Modules1(judged) \in Seq(Slots) /\ <<k>> \in Seq(Slots)
      /\ Accepted = Modules1(judged) \o scanQueue
      /\ Accepted' = Modules1(judged) \o Append(scanQueue, k)
  <2>1. Modules1(judged) \in Seq(Slots) /\ <<k>> \in Seq(Slots)
    <3>1. judged \in Seq([module : Slots, passed : BOOLEAN])
      BY <1>0 DEF TypeOK
    <3>2. Modules1(judged) \in Seq(Slots)
      BY <3>1, JudgedModules
    <3>3. QED
      BY <3>2
  <2>2. Accepted = Modules1(judged) \o scanQueue
    BY DEF Accepted, Modules1
  <2>3. Accepted' = Modules1(judged) \o scanQueue'
    BY DEF Accepted, Modules1
  <2>4. QED
    BY <2>1, <2>2, <2>3
<1>3. Accepted' = Append(Accepted, k)
  <2>1. Append(scanQueue, k) = scanQueue \o <<k>>
    BY <1>0, <1>2
  <2>2. Accepted \in Seq(Slots)
    BY <1>0, AcceptedShape
  <2>3. Append(Accepted, k) = Accepted \o <<k>>
    BY <1>2, <2>2
  <2>4. QED
    BY <1>0, <1>2, <2>1, <2>3, ConcatAssociative
<1>4. QED
  BY <1>1, <1>3 DEF Promise!Accept, Accepted

\* Inspecting a batch is the next inspection of a module that is not judged.
LEMMA PromiseInspect ==
  ASSUME PassInv, NEW w \in Threads, Inspect(w)
  PROVE  \E i \in 1 .. Len(Accepted) : Promise!InspectBatch(i)
<1> DEFINE k == wslot[w]
<1>0. TypeOK /\ PlaceInv /\ InTurn
  BY DEF PassInv, PlaceInv
<1>1. Busy(w) /\ wpc[w] = "inspect"
  BY DEF Inspect, Busy
<1>2. /\ k \in Slots /\ wb[w] \in Batches /\ Queued(k) /\ posted[k] = 0
  BY <1>0, <1>1, ScanTyped DEF PlaceInv, OnePlace
<1>3. PICK i \in 1 .. Len(Accepted) : i > Len(judged) /\ Accepted[i] = k
  BY <1>0, <1>2, AcceptedQueued
<1>4. inspected[k] = 0 .. wb[w] - 1
  BY <1>0, <1>1, Behind DEF TurnOK
<1>5. /\ inspected' = [inspected EXCEPT ![k] = @ \cup {wb[w]}]
      /\ UNCHANGED <<judged, scanQueue>>
  BY DEF Inspect, queueVars
<1>6. wb[w] \in 0 .. NumBatches - 1 /\ wb[w] \in Nat
  BY <1>2 DEF Batches
<1>7. (0 .. wb[w] - 1) \cup {wb[w]} = 0 .. wb[w]
  BY <1>6
<1>8. inspected' = [inspected EXCEPT ![k] = 0 .. wb[w]]
  BY <1>4, <1>5, <1>7
<1>9. UNCHANGED <<Accepted, judged>>
  BY <1>5 DEF Accepted
<1> HIDE DEF k
<1>10. Promise!InspectBatch(i)
  BY <1>3, <1>4, <1>6, <1>8, <1>9 DEF Promise!InspectBatch, Accepted
<1>11. QED
  BY <1>10

\* Judging gives the verdict of the module accepted next.
LEMMA PromiseJudge ==
  ASSUME PassInv, PassInv', Judge
  PROVE  \E passed \in BOOLEAN : Promise!Judge(passed)
<1> DEFINE h == Head(scanQueue)
           n == Len(judged) + 1
           p == matched[h]
<1>0. TypeOK /\ TypeOK' /\ PlaceInv
  BY DEF PassInv, PlaceInv
<1>1. /\ h \in Slots /\ h = scanQueue[1] /\ 1 \in 1 .. Len(scanQueue)
      /\ scanQueue' = Tail(scanQueue) /\ UNCHANGED inspected
      /\ judged' = Append(judged, [module |-> h, passed |-> p])
      /\ posted[h] = 1
  <2>1. scanQueue \in Seq(Slots) /\ scanQueue # <<>> /\ posted[h] > 0
    BY <1>0 DEF Judge, TypeOK
  <2>2. h \in Slots /\ h = scanQueue[1] /\ Len(scanQueue) \in Nat \ {0}
    BY <2>1, HeadTailProperties, EmptySeq
  <2>3. posted[h] = 1
    BY <1>0, <2>1, <2>2 DEF PlaceInv, OnePlace, TypeOK
  <2>4. QED
    BY <2>1, <2>2, <2>3 DEF Judge
<1>2. /\ Accepted[n] = h /\ n <= Len(Accepted) /\ n \in Nat
  <2>1. /\ Len(judged) \in Nat /\ Len(scanQueue) \in Nat
        /\ Len(Accepted) = Len(judged) + Len(scanQueue)
        /\ \A i \in 1 .. Len(scanQueue) : Accepted[Len(judged) + i] = scanQueue[i]
    BY <1>0, AcceptedShape
  <2>2. QED
    BY <1>1, <2>1
<1>3. p => \/ inspected[h] = 0 .. NumBatches - 1
           \/ inspected[h] # {} /\ h \in FailedSet
  <2>1. p => Vouched(h)
    BY <1>1 DEF PassInv, PostedPasses
  <2>2. \A m \in 1 .. Last : 0 .. m - 1 # {}
    <3>1. \A m \in 1 .. Last : 0 \in 0 .. m - 1
      OBVIOUS
    <3>2. QED
      BY <3>1
  <2>3. QED
    BY <1>1, <2>1, <2>2 DEF Vouched, FailedSet, Batches
<1>4. Accepted' = Accepted
  <2> DEFINE J == Modules1(judged)
             K == Modules1(judged')
  <2>1. /\ J \in Seq(Slots) /\ Len(J) = Len(judged)
        /\ \A i \in 1 .. Len(judged) : J[i] = judged[i].module
        /\ K \in Seq(Slots) /\ Len(K) = Len(judged')
        /\ \A i \in 1 .. Len(judged') : K[i] = judged'[i].module
    BY <1>0, JudgedModules DEF TypeOK
  <2>2. Accepted = J \o scanQueue
    BY DEF Accepted, Modules1
  <2>3. Accepted' = K \o Tail(scanQueue)
    BY <1>1 DEF Accepted, Modules1
  <2>4. /\ Len(judged') = Len(judged) + 1 /\ Len(judged) \in Nat
        /\ \A i \in 1 .. Len(judged) : judged'[i] = judged[i]
        /\ judged'[n].module = h
    BY <1>0, VerdictAdded
  <2>5. /\ Tail(scanQueue) \in Seq(Slots) /\ scanQueue \in Seq(Slots)
        /\ <<h>> \in Seq(Slots) /\ scanQueue = <<h>> \o Tail(scanQueue)
    <3>1. scanQueue \in Seq(Slots) /\ scanQueue # <<>>
      BY <1>0 DEF Judge, TypeOK
    <3>2. QED
      BY <1>1, <3>1
  <2> HIDE DEF J, K, h
  <2>6. \A i \in 1 .. n : K[i] = Append(J, h)[i]
    <3>1. /\ \A i \in 1 .. Len(J) : Append(J, h)[i] = J[i]
          /\ Append(J, h)[Len(J) + 1] = h
      BY <1>1, <2>1, AppendProperties
    <3>2. ASSUME NEW i \in 1 .. n PROVE i \in 1 .. Len(judged) \/ i = n
      BY <2>4
    <3>3. 1 .. n = 1 .. Len(judged')
      BY <2>4
    <3>4. QED
      BY <2>1, <2>4, <3>1, <3>2, <3>3
  <2>7. K = Append(J, h)
    <3>1. Append(J, h) \in Seq(Slots) /\ Len(Append(J, h)) = n /\ Len(K) = n
      BY <1>1, <2>1, <2>4, AppendProperties
    <3>2. QED
      BY <2>1, <2>6, <3>1, SeqEqual
  <2>8. K = J \o <<h>>
    BY <2>1, <2>5, <2>7
  <2>9. QED
    BY <2>1, <2>2, <2>3, <2>5, <2>8, ConcatAssociative
<1>5. judged' = Append(judged, [module |-> Accepted[n], passed |-> p])
  BY <1>1, <1>2
<1>6. p \in BOOLEAN
  BY <1>0, <1>1 DEF TypeOK
<1> HIDE DEF p, h
<1>7. Promise!Judge(p)
  BY <1>1, <1>2, <1>3, <1>4, <1>5 DEF Promise!Judge, Accepted, FailedSet
<1>8. QED
  BY <1>6, <1>7

\* Every step of batch inspection is a step of the promise.
LEMMA PromiseStep ==
  ASSUME PassInv, PassInv', [Next]_vars
  PROVE  Promise!Next
<1>0. TypeOK /\ PlaceInv /\ PlaceInv'
  BY DEF PassInv, PlaceInv
<1>1. FailedSet \subseteq FailedSet'
  <2>1. \A k \in Slots : MarkedFailed(k) => MarkedFailed(k)'
    BY MarkedGrows DEF PassInv
  <2>2. QED
    BY <2>1 DEF FailedSet, MarkedFailed
<1> DEFINE Other == UNCHANGED <<Accepted, inspected, judged>>
           Steps == \/ \E m \in Slots : Promise!Accept(m)
                    \/ \E i \in 1 .. Len(Accepted) : Promise!InspectBatch(i)
                    \/ \E passed \in BOOLEAN : Promise!Judge(passed)
                    \/ Other
<1>2. ASSUME UNCHANGED <<scanQueue, judged, inspected>>
      PROVE  Other
  BY <1>2 DEF Accepted
<1>3. ASSUME Judge PROVE Steps
  BY <1>3, PromiseJudge
<1>4. ASSUME NEW w \in Threads, WorkerStep(w)
      PROVE  Steps
  <2>1. UNCHANGED <<scanQueue, judged>>
    BY <1>0, <1>4, WorkerKinds
  <2>2. Inspect(w) \/ UNCHANGED inspected
    BY <1>4 DEF WorkerStep, Poll, Leave, LeaveEnd, WaitEnds, WaitFails, WaitStopped,
                Align, AlignFails, InspectThrows, saveVars
  <2>3. Inspect(w) => \E i \in 1 .. Len(Accepted) : Promise!InspectBatch(i)
    BY PromiseInspect
  <2>4. QED
    BY <1>2, <2>1, <2>2, <2>3
<1>5. ASSUME NEW s \in Scans, NEW b \in Batches, CopyStep(s, b)
      PROVE  Steps
  <2>1. UNCHANGED <<judged, inspected>>
    BY <1>0, <1>5, CopyMoves
  <2>2. CASE UNCHANGED scanQueue
    BY <1>2, <2>1, <2>2
  <2>3. CASE \E k \in Slots : ~Queued(k) /\ scanQueue' = Append(scanQueue, k)
    BY <1>0, <2>1, <2>3, PromiseAccept
  <2>4. QED
    BY <1>0, <1>5, <2>2, <2>3, ScanQueueGrows
<1>6. ASSUME NEW s \in Scans, Start(s) \/ GrabStep(s)
      PROVE  Other
  BY <1>2, <1>6, GrabFrame DEF queueVars, saveVars
<1>7. ASSUME Stop \/ UNCHANGED vars PROVE Other
  BY <1>2, <1>7 DEF Stop, vars, queueVars, saveVars
<1>8. Steps
  BY <1>3, <1>4, <1>5, <1>6, <1>7 DEF Next
<1>9. QED
  BY <1>1, <1>8 DEF Promise!Next, Accepted, FailedSet

\* In every build, with every timing, whatever fails and whenever the handler stops,
\* batch inspection keeps its promise: one buffer is accepted for each module, its
\* batches are inspected one after the other and none after the verdict, modules are
\* judged once and in the order they were queued, what is known to have failed stays
\* so, and a module with a batch left out passes only if such a failure is known.
THEOREM BatchKeepsPromise == Spec => PromiseSpec
<1>1. Init => Promise!Init
  <2> SUFFICES ASSUME Init PROVE Promise!Init
    OBVIOUS
  <2>1. /\ judged = <<>> /\ scanQueue = <<>>
        /\ inspected = [k \in Slots |-> {}]
    BY DEF Init
  <2>2. Accepted = <<>>
    <3>1. TypeOK
      BY TypeInit
    <3>2. Accepted \in Seq(Slots) /\ Len(Accepted) = 0
      BY <2>1, <3>1, AcceptedShape
    <3>3. QED
      BY <3>2, EmptySeq
  <2>3. FailedSet = {}
    <3>1. \A s \in Scans : ~context[s].grabFailed
      BY DEF Init, NewContext
    <3>2. QED
      BY <3>1 DEF Init, FailedSet, MarkedFailed
  <2>4. QED
    BY <2>1, <2>2, <2>3 DEF Promise!Init, Accepted, FailedSet
<1>2. PassInv /\ PassInv' /\ [Next]_vars => Promise!Next
  BY PromiseStep
<1>3. QED
  BY <1>1, <1>2, PassAlways, PTL DEF Spec, PromiseSpec, Promise!Spec

=============================================================================
