----------------------- MODULE InspectorManager_proof -----------------------
(***************************************************************************)
(* Proofs about InspectorManager, for any number of jobs, reloads, workers *)
(* and models: the types, that one reload runs at a time, that the         *)
(* watchdog's image and a reload never meet, and that a reload only meets  *)
(* jobs its wait left under way.                                           *)
(*                                                                         *)
(* The inductive invariant says where everything is: the queue holds each  *)
(* job that is "queued" once; what an inspector has been asked is there    *)
(* once and its thread waits for that inspector (Home); the watchdog is    *)
(* paused while a reload is between pause() and resume(), and idle while   *)
(* paused.                                                                 *)
(***************************************************************************)
EXTENDS InspectorManager, SequenceTheorems, TLAPS

Elems(s) == {s[i] : i \in 1 .. Len(s)}
NoDup(s) == \A i, k \in 1 .. Len(s) : s[i] = s[k] => i = k

InFlight == {"admitted", "queued", "running", "asked", "resetting"}

\* The thread that asked x waits for inspector p.
Home(x, p) == IF x = Wake THEN dog = "asked" /\ p = "secondary"
              ELSE stage[x] = "asked" /\ Chain[at[x]] = p

QueueInv ==
  /\ NoDup(jobs_)
  /\ Elems(jobs_) = {j \in Jobs : stage[j] = "queued"}

PoolInv(p) ==
  /\ NoDup(pending[p])
  /\ Elems(pending[p]) \cap busy[p] = {}
  /\ \A x \in Elems(pending[p]) \cup busy[p] : Home(x, p)

PoolsInv == \A p \in Inspectors : PoolInv(p)

DogInv ==
  /\ paused_ => dog = "idle"
  /\ \A r \in Reloaders : reload[r] \in Quiet => paused_

LoadInv ==
  \A r \in Reloaders : reload[r] = "loading" =>
    \A j \in Jobs : stage[j] \in InFlight => j \in left

Inv == TypeOK /\ ReloadIsExclusive /\ DogInv /\ QueueInv /\ PoolsInv /\ LoadInv

-----------------------------------------------------------------------------
(* Queues as sets.                                                         *)

LEMMA AppendElems ==
  ASSUME NEW S, NEW s \in Seq(S), NEW x \in S
  PROVE  /\ Append(s, x) \in Seq(S)
         /\ Elems(Append(s, x)) = Elems(s) \cup {x}
         /\ NoDup(s) /\ x \notin Elems(s) => NoDup(Append(s, x))
<1>1. /\ Append(s, x) \in Seq(S)
      /\ Len(Append(s, x)) = Len(s) + 1
      /\ \A i \in 1 .. Len(s) : Append(s, x)[i] = s[i]
      /\ Append(s, x)[Len(s) + 1] = x
  BY AppendProperties
<1>2. Len(s) \in Nat
  BY LenProperties
<1>3. 1 .. Len(s) + 1 = (1 .. Len(s)) \cup {Len(s) + 1}
  BY <1>2
<1>4. Elems(Append(s, x)) = Elems(s) \cup {x}
  BY <1>1, <1>3 DEF Elems
<1>5. ASSUME NoDup(s), x \notin Elems(s)
      PROVE  NoDup(Append(s, x))
  BY <1>1, <1>3, <1>5 DEF NoDup, Elems
<1> QED
  BY <1>1, <1>4, <1>5

LEMMA TailElems ==
  ASSUME NEW S, NEW s \in Seq(S), s # <<>>
  PROVE  /\ Tail(s) \in Seq(S)
         /\ Head(s) \in S
         /\ Head(s) \in Elems(s)
         /\ Elems(Tail(s)) \subseteq Elems(s)
         /\ NoDup(s) => /\ NoDup(Tail(s))
                        /\ Elems(Tail(s)) = Elems(s) \ {Head(s)}
<1>1. /\ Len(s) \in Nat
      /\ Len(s) >= 1
      /\ \A i \in 1 .. Len(s) : s[i] \in S
  BY EmptySeq, LenProperties, ElementOfSeq
<1>2. /\ Head(s) = s[1]
      /\ Tail(s) \in Seq(S)
      /\ Len(Tail(s)) = Len(s) - 1
      /\ \A i \in 1 .. Len(s) - 1 : Tail(s)[i] = s[i + 1]
  BY <1>1, HeadTailProperties
<1>3. 1 \in 1 .. Len(s)
  BY <1>1
<1>4. Head(s) \in S /\ Head(s) \in Elems(s)
  BY <1>1, <1>2, <1>3 DEF Elems
<1>5. \A i \in 1 .. Len(s) - 1 : i + 1 \in 1 .. Len(s) /\ i + 1 # 1
  BY <1>1
<1>6. \A i \in 1 .. Len(s) : i # 1 => i - 1 \in 1 .. Len(s) - 1 /\ (i - 1) + 1 = i
  BY <1>1
<1>7. Elems(Tail(s)) \subseteq Elems(s)
  BY <1>2, <1>5 DEF Elems
<1>8. ASSUME NoDup(s) PROVE NoDup(Tail(s))
  <2> SUFFICES ASSUME NEW i \in 1 .. Len(s) - 1, NEW k \in 1 .. Len(s) - 1, s[i + 1] = s[k + 1]
               PROVE  i = k
    BY <1>2 DEF NoDup
  <2>1. i + 1 = k + 1
    BY <1>5, <1>8 DEF NoDup
  <2> QED
    BY <2>1
<1>9. ASSUME NoDup(s) PROVE Head(s) \notin Elems(Tail(s))
  BY <1>2, <1>3, <1>5, <1>9 DEF NoDup, Elems
<1>10. \A y \in Elems(s) : y # Head(s) => y \in Elems(Tail(s))
  <2> SUFFICES ASSUME NEW i \in 1 .. Len(s), s[i] # s[1]
               PROVE  s[i] \in Elems(Tail(s))
    BY <1>2 DEF Elems
  <2>1. i - 1 \in 1 .. Len(s) - 1 /\ (i - 1) + 1 = i
    BY <1>6
  <2> QED
    BY <1>2, <2>1 DEF Elems
<1> QED
  BY <1>2, <1>4, <1>7, <1>8, <1>9, <1>10

LEMMA EmptyElems == Elems(<<>>) = {} /\ NoDup(<<>>)
<1>1. Len(<<>>) = 0
  OBVIOUS
<1>2. 1 .. 0 = {}
  OBVIOUS
<1> QED
  BY <1>1, <1>2 DEF Elems, NoDup

-----------------------------------------------------------------------------
(* Types.                                                                  *)

LEMMA ChainType == \A k \in 1 .. Len(Chain) : Chain[k] \in Inspectors
BY DEF Chain, Inspectors

LEMMA PoolTypes ==
  ASSUME TypeOK, NEW p \in Inspectors
  PROVE  pending[p] \in Seq(Jobs \cup {Wake}) /\ busy[p] \subseteq Jobs \cup {Wake}
<1>1. pending \in [Inspectors -> Seq(Jobs \cup {Wake})] /\ busy \in [Inspectors -> SUBSET (Jobs \cup {Wake})]
  BY DEF TypeOK
<1> QED
  BY <1>1

\* The steps of a job and of the inspectors keep the types.
LEMMA JobTypes ==
  ASSUME TypeOK,
         \/ \E j \in Jobs : JobStep(j)
         \/ Take
         \/ \E p \in Inspectors : BeginInference(p)
         \/ \E p \in Inspectors : \E x \in Jobs \cup {Wake} : EndInference(p, x)
  PROVE  TypeOK'
<1> USE DEF TypeOK
<1>1. ASSUME NEW j \in Jobs, Call(j) PROVE TypeOK'
  BY <1>1 DEF Call, Stages, inferVars, dogVars, reloadVars
<1>2. ASSUME NEW j \in Jobs, Admit(j) PROVE TypeOK'
  BY <1>2 DEF Admit, Stages, inferVars, dogVars, reloadVars
<1>3. ASSUME NEW j \in Jobs, Enqueue(j) PROVE TypeOK'
  <2>1. Append(jobs_, j) \in Seq(Jobs)
    BY AppendElems
  <2> QED
    BY <1>3, <2>1 DEF Enqueue, Stages, inferVars, dogVars, reloadVars
<1>4. ASSUME NEW j \in Jobs, Ask(j) PROVE TypeOK'
  <2>1. PICK k \in 1 .. Len(Chain) :
          /\ stage' = [stage EXCEPT ![j] = "asked"]
          /\ at' = [at EXCEPT ![j] = k]
          /\ pending' = [pending EXCEPT ![Chain[k]] = Append(@, j)]
          /\ UNCHANGED <<jobs_, busy, dogVars, reloadVars>>
    BY <1>4 DEF Ask
  <2>2. Chain[k] \in Inspectors
    BY ChainType
  <2>3. Append(pending[Chain[k]], j) \in Seq(Jobs \cup {Wake})
    BY <2>2, PoolTypes, AppendElems
  <2>4. pending' \in [Inspectors -> Seq(Jobs \cup {Wake})]
    BY <2>1, <2>3
  <2>5. k \in 0 .. Len(Chain)
    BY DEF Chain
  <2>6. at' \in [Jobs -> 0 .. Len(Chain)]
    BY <2>1, <2>5
  <2>7. stage' \in [Jobs -> Stages]
    BY <2>1 DEF Stages
  <2> QED
    BY <2>1, <2>4, <2>6, <2>7 DEF dogVars, reloadVars
<1>5. ASSUME NEW j \in Jobs, ResetDog(j) PROVE TypeOK'
  BY <1>5 DEF ResetDog, Stages, inferVars, reloadVars
<1>6. ASSUME NEW j \in Jobs, Finish(j) PROVE TypeOK'
  BY <1>6 DEF Finish, Stages, inferVars, dogVars, reloadVars
<1>7. ASSUME Take PROVE TypeOK'
  <2>1. Tail(jobs_) \in Seq(Jobs)
    BY <1>7, TailElems DEF Take
  <2> QED
    BY <1>7, <2>1 DEF Take, Stages, inferVars, dogVars, reloadVars
<1>8. ASSUME NEW p \in Inspectors, BeginInference(p) PROVE TypeOK'
  <2>1. /\ Tail(pending[p]) \in Seq(Jobs \cup {Wake})
        /\ Head(pending[p]) \in Jobs \cup {Wake}
    BY <1>8, PoolTypes, TailElems DEF BeginInference
  <2> QED
    BY <1>8, <2>1 DEF BeginInference, jobVars, dogVars, reloadVars
<1>9. ASSUME NEW p \in Inspectors, NEW x \in Jobs \cup {Wake}, EndInference(p, x) PROVE TypeOK'
  <2>1. busy' \in [Inspectors -> SUBSET (Jobs \cup {Wake})]
    BY <1>9 DEF EndInference
  <2>2. dog' \in DogStates
    BY <1>9 DEF EndInference, DogStates
  <2>3. stage' \in [Jobs -> Stages]
    BY <1>9 DEF EndInference, Stages
  <2> QED
    BY <1>9, <2>1, <2>2, <2>3 DEF EndInference, reloadVars
<1> QED
  BY <1>1, <1>2, <1>3, <1>4, <1>5, <1>6, <1>7, <1>8, <1>9 DEF JobStep

\* The steps of the watchdog and of a reload keep the types.
LEMMA ReloadTypes ==
  ASSUME TypeOK, Tick \/ Fire \/ Fired \/ \E r \in Reloaders : ReloadStep(r)
  PROVE  TypeOK'
<1> USE DEF TypeOK
<1>1. ASSUME Tick PROVE TypeOK'
  BY <1>1 DEF Tick, jobVars, inferVars, reloadVars
<1>2. ASSUME Fire PROVE TypeOK'
  <2>1. "secondary" \in Inspectors
    BY DEF Inspectors
  <2>2. Append(pending["secondary"], Wake) \in Seq(Jobs \cup {Wake})
    BY <2>1, PoolTypes, AppendElems
  <2>3. pending' \in [Inspectors -> Seq(Jobs \cup {Wake})]
    BY <1>2, <2>2 DEF Fire
  <2> QED
    BY <1>2, <2>3 DEF Fire, DogStates, jobVars, reloadVars
<1>3. ASSUME Fired PROVE TypeOK'
  BY <1>3 DEF Fired, DogStates, jobVars, inferVars, reloadVars
<1>4. ASSUME NEW r \in Reloaders, ReloadStep(r) PROVE TypeOK'
  <2>1. reload' \in [Reloaders -> ReloadStates]
    BY <1>4 DEF ReloadStep, CallReload, Claim, WaitOther, OtherEnded, PauseDog, Drained,
                DrainTimeout, Loaded, LoadThrows, ResumeDog, Release, ReloadStates
  <2>2. loading' \subseteq Reloadable /\ left' \subseteq Jobs
    BY <1>4 DEF ReloadStep, CallReload, Claim, WaitOther, OtherEnded, PauseDog, Drained,
                DrainTimeout, Loaded, LoadThrows, ResumeDog, Release, OnWorker
  <2>3. is_model_reloading_' \in BOOLEAN /\ paused_' \in BOOLEAN /\ late' \in BOOLEAN /\ dog' \in DogStates
    BY <1>4 DEF ReloadStep, CallReload, Claim, WaitOther, OtherEnded, PauseDog, Drained,
                DrainTimeout, Loaded, LoadThrows, ResumeDog, Release, dogVars
  <2>4. UNCHANGED <<jobVars, inferVars>>
    BY <1>4 DEF ReloadStep, CallReload, Claim, WaitOther, OtherEnded, PauseDog, Drained,
                DrainTimeout, Loaded, LoadThrows, ResumeDog, Release
  <2> QED
    BY <2>1, <2>2, <2>3, <2>4 DEF jobVars, inferVars
<1> QED
  BY <1>1, <1>2, <1>3, <1>4

LEMMA TypesStep == TypeOK /\ [Next]_vars => TypeOK'
<1> SUFFICES ASSUME TypeOK, [Next]_vars PROVE TypeOK'
  OBVIOUS
<1>1. ASSUME UNCHANGED vars PROVE TypeOK'
  BY <1>1 DEF TypeOK, vars
<1>2. ASSUME Next PROVE TypeOK'
  BY <1>2, JobTypes, ReloadTypes DEF Next
<1> QED
  BY <1>1, <1>2

LEMMA TypesInit == Init => TypeOK
<1> SUFFICES ASSUME Init PROVE TypeOK
  OBVIOUS
<1>1. <<>> \in Seq(Jobs) /\ <<>> \in Seq(Jobs \cup {Wake})
  OBVIOUS
<1>2. 0 \in 0 .. Len(Chain)
  BY DEF Chain
<1> QED
  BY <1>1, <1>2 DEF Init, TypeOK, Stages, DogStates, ReloadStates

\* Every variable of the manager stays in its range, whatever the number of
\* jobs, calls, workers and models.
THEOREM ManagerTypeCorrect == Spec => []TypeOK
<1>1. Init => TypeOK
  BY TypesInit
<1>2. TypeOK /\ [Next]_vars => TypeOK'
  BY TypesStep
<1> QED
  BY <1>1, <1>2, PTL DEF Spec

-----------------------------------------------------------------------------
(* One reload at a time.                                                   *)

LEMMA InsideStates == Quiet \subseteq Inside /\ Inside \subseteq ReloadStates
BY DEF Quiet, Inside, ReloadStates

\* What is not a reload's step leaves the reloads alone.
LEMMA OthersLeaveReloads ==
  ASSUME \/ \E j \in Jobs : JobStep(j)
         \/ Take
         \/ \E p \in Inspectors : BeginInference(p)
         \/ \E p \in Inspectors : \E x \in Jobs \cup {Wake} : EndInference(p, x)
         \/ Tick \/ Fire \/ Fired
  PROVE  UNCHANGED reloadVars /\ paused_' = paused_
<1>1. ASSUME NEW j \in Jobs, JobStep(j) PROVE UNCHANGED reloadVars /\ paused_' = paused_
  BY <1>1 DEF JobStep, Call, Admit, Enqueue, Ask, ResetDog, Finish, dogVars
<1>2. ASSUME Take PROVE UNCHANGED reloadVars /\ paused_' = paused_
  BY <1>2 DEF Take, dogVars
<1>3. ASSUME NEW p \in Inspectors, BeginInference(p) PROVE UNCHANGED reloadVars /\ paused_' = paused_
  BY <1>3 DEF BeginInference, dogVars
<1>4. ASSUME NEW p \in Inspectors, NEW x \in Jobs \cup {Wake}, EndInference(p, x)
      PROVE  UNCHANGED reloadVars /\ paused_' = paused_
  BY <1>4 DEF EndInference
<1>5. ASSUME Tick \/ Fire \/ Fired PROVE UNCHANGED reloadVars /\ paused_' = paused_
  BY <1>5 DEF Tick, Fire, Fired
<1> QED
  BY <1>1, <1>2, <1>3, <1>4, <1>5

\* A step that leaves the reload where it was, inside or outside, and the flag.
LEMMA SameSide ==
  ASSUME TypeOK, ReloadIsExclusive, NEW r \in Reloaders, NEW s,
         reload' = [reload EXCEPT ![r] = s],
         s \in Inside <=> reload[r] \in Inside,
         UNCHANGED is_model_reloading_
  PROVE  ReloadIsExclusive'
<1>1. \A q \in Reloaders : reload'[q] = IF q = r THEN s ELSE reload[q]
  BY DEF TypeOK
<1> HIDE DEF Inside
<1> QED
  BY <1>1 DEF ReloadIsExclusive

LEMMA ExclusiveStep ==
  ASSUME TypeOK, ReloadIsExclusive, [Next]_vars
  PROVE  ReloadIsExclusive'
<1>1. CASE UNCHANGED reloadVars
  BY <1>1 DEF ReloadIsExclusive, reloadVars
<1>2. ASSUME NEW r \in Reloaders, ReloadStep(r)
      PROVE  ReloadIsExclusive'
  <2>0. \A s : reload' = [reload EXCEPT ![r] = s] =>
               \A q \in Reloaders : reload'[q] = IF q = r THEN s ELSE reload[q]
    BY DEF TypeOK
  <2>1. ASSUME CallReload(r) \/ WaitOther(r) \/ OtherEnded(r) PROVE ReloadIsExclusive'
    <3>1. PICK s \in {"calling", "waiting", "done"} :
            reload' = [reload EXCEPT ![r] = s] /\ UNCHANGED is_model_reloading_
      BY <2>1 DEF CallReload, WaitOther, OtherEnded
    <3>2. reload[r] \notin Inside /\ s \notin Inside
      BY <2>1, <3>1 DEF CallReload, WaitOther, OtherEnded, Inside
    <3> QED
      BY <3>1, <3>2, SameSide
  <2>2. ASSUME PauseDog(r) \/ Drained(r) \/ DrainTimeout(r) \/ Loaded(r) \/ LoadThrows(r) \/ ResumeDog(r)
        PROVE  ReloadIsExclusive'
    <3>1. PICK s \in Inside :
            reload' = [reload EXCEPT ![r] = s] /\ UNCHANGED is_model_reloading_
      BY <2>2 DEF PauseDog, Drained, DrainTimeout, Loaded, LoadThrows, ResumeDog, Inside
    <3>2. reload[r] \in Inside
      BY <2>2 DEF PauseDog, Drained, DrainTimeout, Loaded, LoadThrows, ResumeDog, Inside
    <3> QED
      BY <3>1, <3>2, SameSide
  <2>3. ASSUME Claim(r) PROVE ReloadIsExclusive'
    <3>1. \A q \in Reloaders : reload[q] \notin Inside
      BY <2>3 DEF Claim, ReloadIsExclusive
    <3>2. \A q \in Reloaders : reload'[q] = IF q = r THEN "claimed" ELSE reload[q]
      BY <2>0, <2>3 DEF Claim
    <3>3. is_model_reloading_' = TRUE
      BY <2>3 DEF Claim
    <3>4. "claimed" \in Inside
      BY DEF Inside
    <3> QED
      BY <3>1, <3>2, <3>3, <3>4 DEF ReloadIsExclusive
  <2>4. ASSUME Release(r) PROVE ReloadIsExclusive'
    <3>1. reload[r] \in Inside
      BY <2>4 DEF Release, Inside
    <3>2. \A q \in Reloaders : q # r => reload[q] \notin Inside
      BY <3>1 DEF ReloadIsExclusive
    <3>3. \A q \in Reloaders : reload'[q] = IF q = r THEN "done" ELSE reload[q]
      BY <2>0, <2>4 DEF Release
    <3>4. is_model_reloading_' = FALSE
      BY <2>4 DEF Release
    <3>5. "done" \notin Inside
      BY DEF Inside
    <3> QED
      BY <3>2, <3>3, <3>4, <3>5 DEF ReloadIsExclusive
  <2> QED
    BY <1>2, <2>1, <2>2, <2>3, <2>4 DEF ReloadStep
<1>3. UNCHANGED vars => UNCHANGED reloadVars
  BY DEF vars, reloadVars
<1> QED
  BY <1>1, <1>2, <1>3, OthersLeaveReloads DEF Next

-----------------------------------------------------------------------------
(* The watchdog is paused, and idle, while a reload needs it quiet.        *)

LEMMA DogStep ==
  ASSUME TypeOK, ReloadIsExclusive, DogInv, PoolsInv, [Next]_vars
  PROVE  DogInv'
<1>1. ASSUME UNCHANGED reloadVars, UNCHANGED <<dog, paused_>> PROVE DogInv'
  BY <1>1 DEF DogInv, reloadVars
<1>2. ASSUME NEW j \in Jobs, JobStep(j) PROVE UNCHANGED <<dog, paused_>>
  BY <1>2 DEF JobStep, Call, Admit, Enqueue, Ask, ResetDog, Finish, dogVars
<1>3. ASSUME \/ Take \/ Tick
             \/ \E p \in Inspectors : BeginInference(p)
      PROVE  UNCHANGED <<dog, paused_>>
  BY <1>3 DEF Take, Tick, BeginInference, dogVars
<1>4. ASSUME NEW p \in Inspectors, NEW x \in Jobs \cup {Wake}, EndInference(p, x)
      PROVE  DogInv'
  <2>1. Home(x, p)
    BY <1>4 DEF EndInference, PoolsInv, PoolInv
  <2>2. x = Wake => ~ paused_
    BY <2>1 DEF Home, DogInv
  <2>3. paused_ => dog' = dog
    BY <1>4, <2>2 DEF EndInference
  <2>4. UNCHANGED <<reload, paused_>>
    BY <1>4 DEF EndInference, reloadVars
  <2> QED
    BY <2>3, <2>4 DEF DogInv
<1>5. ASSUME Fire PROVE DogInv'
  BY <1>5 DEF Fire, DogInv, reloadVars
<1>6. ASSUME Fired PROVE DogInv'
  BY <1>6 DEF Fired, DogInv, reloadVars
<1>7. ASSUME NEW r \in Reloaders, ReloadStep(r)
      PROVE  DogInv'
  <2>0. \A s : reload' = [reload EXCEPT ![r] = s] =>
               \A q \in Reloaders : reload'[q] = IF q = r THEN s ELSE reload[q]
    BY DEF TypeOK
  <2>1. ASSUME NEW s, reload' = [reload EXCEPT ![r] = s], s \in Quiet => reload[r] \in Quiet,
               UNCHANGED <<dog, paused_>>
        PROVE  DogInv'
    BY <2>0, <2>1 DEF DogInv
  <2>2. ASSUME CallReload(r) \/ Claim(r) \/ WaitOther(r) \/ OtherEnded(r) \/ Release(r) PROVE DogInv'
    <3>1. PICK s \in {"calling", "claimed", "waiting", "done"} :
            reload' = [reload EXCEPT ![r] = s] /\ UNCHANGED <<dog, paused_>>
      BY <2>2 DEF CallReload, Claim, WaitOther, OtherEnded, Release, dogVars
    <3>2. s \notin Quiet
      BY DEF Quiet
    <3> QED
      BY <2>1, <3>1, <3>2
  <2>3. ASSUME Drained(r) \/ DrainTimeout(r) \/ Loaded(r) \/ LoadThrows(r) PROVE DogInv'
    <3>1. reload[r] \in Quiet /\ UNCHANGED <<dog, paused_>>
      BY <2>3 DEF Drained, DrainTimeout, Loaded, LoadThrows, Quiet, dogVars
    <3>2. \E s : reload' = [reload EXCEPT ![r] = s]
      BY <2>3 DEF Drained, DrainTimeout, Loaded, LoadThrows
    <3> QED
      BY <2>1, <3>1, <3>2
  <2>4. ASSUME PauseDog(r) PROVE DogInv'
    BY <2>4 DEF PauseDog, DogInv
  <2>5. ASSUME ResumeDog(r) PROVE DogInv'
    <3>1. reload[r] \in Inside /\ "resumed" \notin Quiet
      BY <2>5 DEF ResumeDog, Inside, Quiet
    <3>2. \A q \in Reloaders : q # r => reload[q] \notin Quiet
      BY <3>1, InsideStates DEF ReloadIsExclusive
    <3>3. \A q \in Reloaders : reload'[q] \notin Quiet
      BY <2>0, <2>5, <3>1, <3>2 DEF ResumeDog
    <3> QED
      BY <2>5, <3>3 DEF ResumeDog, DogInv
  <2> QED
    BY <1>7, <2>2, <2>3, <2>4, <2>5 DEF ReloadStep
<1>8. ASSUME UNCHANGED vars PROVE DogInv'
  BY <1>1, <1>8 DEF vars, reloadVars
<1> QED
  BY <1>1, <1>2, <1>3, <1>4, <1>5, <1>6, <1>7, <1>8, OthersLeaveReloads DEF Next

-----------------------------------------------------------------------------
(* The queue of thread_pool_ holds each queued job once.                   *)

LEMMA StageOf ==
  ASSUME TypeOK, NEW j \in Jobs, NEW s, stage' = [stage EXCEPT ![j] = s]
  PROVE  \A k \in Jobs : stage'[k] = IF k = j THEN s ELSE stage[k]
BY DEF TypeOK

LEMMA QueueStep ==
  ASSUME TypeOK, QueueInv, PoolsInv, [Next]_vars
  PROVE  QueueInv'
<1>1. ASSUME UNCHANGED <<stage, jobs_>> PROVE QueueInv'
  BY <1>1 DEF QueueInv, NoDup, Elems
<1>2. ASSUME NEW j \in Jobs, NEW s, stage' = [stage EXCEPT ![j] = s], UNCHANGED jobs_,
             stage[j] # "queued", s # "queued"
      PROVE  QueueInv'
  <2>1. {k \in Jobs : stage'[k] = "queued"} = {k \in Jobs : stage[k] = "queued"}
    BY <1>2, StageOf
  <2> QED
    BY <1>2, <2>1 DEF QueueInv, NoDup, Elems
<1>3. ASSUME NEW j \in Jobs, JobStep(j), ~ Enqueue(j) PROVE QueueInv'
  <2>1. PICK s \in {"calling", "admitted", "asked", "running", "done"} :
          stage' = [stage EXCEPT ![j] = s] /\ UNCHANGED jobs_
    BY <1>3 DEF JobStep, Call, Admit, Ask, ResetDog, Finish
  <2>2. stage[j] # "queued"
    BY <1>3 DEF JobStep, Call, Admit, Ask, ResetDog, Finish
  <2> QED
    BY <1>2, <2>1, <2>2
<1>4. ASSUME NEW j \in Jobs, Enqueue(j) PROVE QueueInv'
  <2>1. j \notin Elems(jobs_)
    BY <1>4 DEF Enqueue, QueueInv
  <2>2. jobs_' = Append(jobs_, j) /\ jobs_ \in Seq(Jobs)
    BY <1>4 DEF Enqueue, TypeOK
  <2>3. Elems(jobs_') = Elems(jobs_) \cup {j} /\ NoDup(jobs_')
    BY <2>1, <2>2, AppendElems DEF QueueInv
  <2>4. {k \in Jobs : stage'[k] = "queued"} = {k \in Jobs : stage[k] = "queued"} \cup {j}
    BY <1>4, StageOf DEF Enqueue
  <2> QED
    BY <2>3, <2>4 DEF QueueInv, NoDup, Elems
<1>5. ASSUME Take PROVE QueueInv'
  <2>1. jobs_ \in Seq(Jobs) /\ jobs_ # <<>> /\ jobs_' = Tail(jobs_)
    BY <1>5 DEF Take, TypeOK
  <2>2. PICK h \in Jobs :
          /\ h = Head(jobs_)
          /\ Elems(jobs_') = Elems(jobs_) \ {h}
          /\ NoDup(jobs_')
    BY <2>1, TailElems DEF QueueInv
  <2>3. stage' = [stage EXCEPT ![h] = "running"]
    BY <1>5, <2>2 DEF Take
  <2>4. \A k \in Jobs : stage'[k] = IF k = h THEN "running" ELSE stage[k]
    BY <2>3, StageOf
  <2>5. {k \in Jobs : stage'[k] = "queued"} = {k \in Jobs : stage[k] = "queued"} \ {h}
    BY <2>4
  <2> QED
    BY <2>2, <2>5 DEF QueueInv, NoDup, Elems
<1>6. ASSUME NEW p \in Inspectors, NEW x \in Jobs \cup {Wake}, EndInference(p, x) PROVE QueueInv'
  <2>1. x # Wake => x \in Jobs /\ stage[x] = "asked"
    BY <1>6 DEF EndInference, PoolsInv, PoolInv, Home
  <2>2. UNCHANGED jobs_
    BY <1>6 DEF EndInference
  <2>3. CASE x = Wake
    BY <1>1, <1>6, <2>2, <2>3 DEF EndInference
  <2>4. CASE x # Wake
    <3>1. PICK s \in {"running", "resetting"} : stage' = [stage EXCEPT ![x] = s]
      BY <1>6, <2>4 DEF EndInference
    <3> QED
      BY <1>2, <2>1, <2>2, <2>4, <3>1
  <2> QED
    BY <2>3, <2>4
<1>7. ASSUME \/ Tick \/ Fire \/ Fired
             \/ \E p \in Inspectors : BeginInference(p)
             \/ \E r \in Reloaders : ReloadStep(r)
             \/ UNCHANGED vars
      PROVE  UNCHANGED <<stage, jobs_>>
  BY <1>7 DEF Tick, Fire, Fired, BeginInference, ReloadStep, CallReload, Claim, WaitOther,
              OtherEnded, PauseDog, Drained, DrainTimeout, Loaded, LoadThrows, ResumeDog,
              Release, jobVars, vars
<1> QED
  BY <1>1, <1>3, <1>4, <1>5, <1>6, <1>7 DEF Next

-----------------------------------------------------------------------------
(* What an inspector has been asked is there once, and waited for.         *)

\* A step of one thread that waits for no inspector, before it or after.
LEMMA PoolsFrame ==
  ASSUME TypeOK, PoolsInv, UNCHANGED inferVars, UNCHANGED at,
         \/ UNCHANGED stage
         \/ \E j \in Jobs, s \in Stages : stage[j] # "asked" /\ stage' = [stage EXCEPT ![j] = s],
         dog = "asked" => dog' = "asked"
  PROVE  PoolsInv'
<1> SUFFICES ASSUME NEW p \in Inspectors PROVE PoolInv(p)'
  BY DEF PoolsInv
<1>1. ASSUME NEW x \in Jobs \cup {Wake}, Home(x, p) PROVE Home(x, p)'
  <2>1. x = Wake => Home(x, p)'
    BY <1>1 DEF Home
  <2>2. x # Wake => x \in Jobs /\ stage[x] = "asked" /\ Chain[at[x]] = p
    BY <1>1 DEF Home
  <2>3. x # Wake => stage'[x] = stage[x]
    BY <2>2, StageOf
  <2> QED
    BY <2>1, <2>2, <2>3 DEF Home
<1>2. pending[p] \in Seq(Jobs \cup {Wake}) /\ busy[p] \subseteq Jobs \cup {Wake}
  BY PoolTypes
<1>3. Elems(pending[p]) \subseteq Jobs \cup {Wake}
  BY <1>2, ElementOfSeq DEF Elems
<1>4. PoolInv(p)
  BY DEF PoolsInv
<1> QED
  BY <1>1, <1>2, <1>3, <1>4 DEF PoolInv, inferVars, NoDup, Elems

\* Something new, x, is asked of inspector p.
LEMMA PoolsAsk ==
  ASSUME TypeOK, PoolsInv, NEW p \in Inspectors, NEW x \in Jobs \cup {Wake},
         pending' = [pending EXCEPT ![p] = Append(@, x)], UNCHANGED busy,
         ~ Home(x, p), Home(x, p)',
         \A q \in Inspectors : \A y \in Jobs \cup {Wake} : Home(y, q) => Home(y, q)'
  PROVE  PoolsInv'
<1> SUFFICES ASSUME NEW q \in Inspectors PROVE PoolInv(q)'
  BY DEF PoolsInv
<1>1. PoolInv(q) /\ PoolInv(p)
  BY DEF PoolsInv
<1>2. pending[q] \in Seq(Jobs \cup {Wake}) /\ busy[q] \subseteq Jobs \cup {Wake}
  BY PoolTypes
<1>3. Elems(pending[q]) \subseteq Jobs \cup {Wake}
  BY <1>2, ElementOfSeq DEF Elems
<1>4. pending'[q] = IF q = p THEN Append(pending[q], x) ELSE pending[q]
  BY DEF TypeOK
<1>5. CASE q # p
  BY <1>1, <1>2, <1>3, <1>4, <1>5 DEF PoolInv, NoDup, Elems
<1>6. CASE q = p
  <2>1. x \notin Elems(pending[q]) /\ x \notin busy[q]
    BY <1>1, <1>6 DEF PoolInv
  <2>2. Elems(pending'[q]) = Elems(pending[q]) \cup {x} /\ NoDup(pending'[q])
    BY <1>1, <1>2, <1>4, <1>6, <2>1, AppendElems DEF PoolInv
  <2>3. busy'[q] = busy[q]
    OBVIOUS
  <2>4. Elems(pending'[q]) \cap busy'[q] = {}
    BY <1>1, <2>1, <2>2, <2>3 DEF PoolInv
  <2>5. \A y \in Elems(pending'[q]) \cup busy'[q] : Home(y, q)'
    BY <1>1, <1>2, <1>3, <1>6, <2>2, <2>3 DEF PoolInv
  <2> QED
    BY <2>2, <2>4, <2>5 DEF PoolInv, NoDup, Elems
<1> QED
  BY <1>5, <1>6

LEMMA BeginPools ==
  ASSUME TypeOK, PoolsInv, NEW p \in Inspectors, BeginInference(p)
  PROVE  PoolsInv'
<1> SUFFICES ASSUME NEW q \in Inspectors PROVE PoolInv(q)'
  BY DEF PoolsInv
<1>1. PoolInv(q) /\ UNCHANGED <<stage, at, dog>>
  BY DEF PoolsInv, BeginInference, jobVars, dogVars
<1>2. pending[q] \in Seq(Jobs \cup {Wake})
  BY PoolTypes
<1>3. /\ pending'[q] = IF q = p THEN Tail(pending[q]) ELSE pending[q]
      /\ busy'[q] = IF q = p THEN busy[q] \cup {Head(pending[q])} ELSE busy[q]
  BY DEF TypeOK, BeginInference
<1>4. \A y : Home(y, q)' <=> Home(y, q)
  BY <1>1 DEF Home
<1>5. CASE q # p
  BY <1>1, <1>3, <1>4, <1>5 DEF PoolInv, NoDup, Elems
<1>6. CASE q = p
  <2>1. pending[q] # <<>>
    BY <1>6 DEF BeginInference
  <2>2. PICK h \in Elems(pending[q]) :
          /\ h = Head(pending[q])
          /\ Elems(pending'[q]) = Elems(pending[q]) \ {h}
          /\ NoDup(pending'[q])
    BY <1>1, <1>2, <1>3, <1>6, <2>1, TailElems DEF PoolInv
  <2>3. busy'[q] = busy[q] \cup {h}
    BY <1>3, <1>6, <2>2
  <2>4. Elems(pending'[q]) \cap busy'[q] = {}
    BY <1>1, <2>2, <2>3 DEF PoolInv
  <2>5. \A y \in Elems(pending'[q]) \cup busy'[q] : Home(y, q)'
    BY <1>1, <1>4, <2>2, <2>3 DEF PoolInv
  <2> QED
    BY <2>2, <2>4, <2>5 DEF PoolInv, NoDup, Elems
<1> QED
  BY <1>5, <1>6

\* The answer goes to the thread that waits for it, and to no other.
LEMMA EndPools ==
  ASSUME TypeOK, PoolsInv, NEW p \in Inspectors, NEW x \in Jobs \cup {Wake}, EndInference(p, x)
  PROVE  PoolsInv'
<1> SUFFICES ASSUME NEW q \in Inspectors PROVE PoolInv(q)'
  BY DEF PoolsInv
<1>1. /\ PoolInv(q) /\ PoolInv(p)
      /\ x \in busy[p]
      /\ UNCHANGED <<at, pending>>
  BY DEF PoolsInv, EndInference
<1>2. Home(x, p) /\ x \notin Elems(pending[p])
  BY <1>1 DEF PoolInv
<1>3. busy'[q] = IF q = p THEN busy[q] \ {x} ELSE busy[q]
  BY DEF TypeOK, EndInference
<1>4. ASSUME NEW y \in Jobs \cup {Wake}, y # x, Home(y, q) PROVE Home(y, q)'
  <2>1. CASE y = Wake
    <3>1. dog' = dog
      BY <1>4, <2>1 DEF EndInference
    <3> QED
      BY <1>4, <2>1, <3>1 DEF Home
  <2>2. CASE y # Wake
    <3>1. y \in Jobs
      BY <2>2
    <3>2. stage'[y] = stage[y]
      BY <1>4, <3>1, StageOf DEF EndInference
    <3> QED
      BY <1>1, <1>4, <2>2, <3>2 DEF Home
  <2> QED
    BY <2>1, <2>2
<1>5. Home(x, q) => q = p
  BY <1>2 DEF Home
<1>6. \A y \in Elems(pending'[q]) \cup busy'[q] : y # x
  BY <1>1, <1>2, <1>3, <1>5 DEF PoolInv
<1>7. Elems(pending[q]) \cup busy[q] \subseteq Jobs \cup {Wake}
  <2>1. pending[q] \in Seq(Jobs \cup {Wake}) /\ busy[q] \subseteq Jobs \cup {Wake}
    BY PoolTypes
  <2> QED
    BY <2>1, ElementOfSeq DEF Elems
<1>8. \A y \in Elems(pending'[q]) \cup busy'[q] : Home(y, q)'
  BY <1>1, <1>3, <1>4, <1>6, <1>7 DEF PoolInv
<1>9. Elems(pending'[q]) \cap busy'[q] = {} /\ NoDup(pending'[q])
  BY <1>1, <1>3 DEF PoolInv
<1> QED
  BY <1>8, <1>9 DEF PoolInv, NoDup, Elems

LEMMA PoolsStep ==
  ASSUME TypeOK, QueueInv, PoolsInv, [Next]_vars
  PROVE  PoolsInv'
<1>1. ASSUME NEW j \in Jobs, JobStep(j), ~ Ask(j) PROVE PoolsInv'
  <2>1. PICK s \in {"calling", "admitted", "queued", "running", "done"} : stage' = [stage EXCEPT ![j] = s]
    BY <1>1 DEF JobStep, Call, Admit, Enqueue, ResetDog, Finish
  <2>2. /\ stage[j] # "asked"
        /\ UNCHANGED inferVars
        /\ UNCHANGED <<at, dog>>
    BY <1>1 DEF JobStep, Call, Admit, Enqueue, ResetDog, Finish, dogVars
  <2>3. s \in Stages
    BY DEF Stages
  <2> QED
    BY <2>1, <2>2, <2>3, PoolsFrame
<1>2. ASSUME NEW j \in Jobs, Ask(j) PROVE PoolsInv'
  <2>1. PICK k \in 1 .. Len(Chain) :
          /\ stage[j] = "running"
          /\ stage' = [stage EXCEPT ![j] = "asked"]
          /\ at' = [at EXCEPT ![j] = k]
          /\ pending' = [pending EXCEPT ![Chain[k]] = Append(@, j)]
          /\ UNCHANGED <<busy, dog>>
    BY <1>2 DEF Ask, dogVars
  <2>2. PICK p \in Inspectors : p = Chain[k]
    BY ChainType
  <2>3. j # Wake
    BY WakeAssumption
  <2>4. ~ Home(j, p)
    BY <2>1, <2>3 DEF Home
  <2>5. stage'[j] = "asked" /\ at'[j] = k
    BY <2>1 DEF TypeOK
  <2>6. Home(j, p)'
    BY <2>2, <2>3, <2>5 DEF Home
  <2>7. ASSUME NEW q \in Inspectors, NEW y \in Jobs \cup {Wake}, Home(y, q) PROVE Home(y, q)'
    <3>1. CASE y = Wake
      BY <2>1, <2>7, <3>1 DEF Home
    <3>2. CASE y # Wake
      <4>1. y \in Jobs /\ y # j
        BY <2>1, <2>7, <3>2 DEF Home
      <4>2. stage'[y] = stage[y] /\ at'[y] = at[y]
        BY <2>1, <4>1 DEF TypeOK
      <4> QED
        BY <2>7, <3>2, <4>2 DEF Home
    <3> QED
      BY <3>1, <3>2
  <2> QED
    BY <2>1, <2>2, <2>4, <2>6, <2>7, PoolsAsk
<1>3. ASSUME Take PROVE PoolsInv'
  <2>1. PICK h \in Jobs : h = Head(jobs_) /\ h \in Elems(jobs_)
    BY <1>3, TailElems DEF Take, TypeOK
  <2>2. stage[h] = "queued"
    BY <2>1 DEF QueueInv
  <2>3. stage' = [stage EXCEPT ![h] = "running"] /\ UNCHANGED inferVars /\ UNCHANGED <<at, dog>>
    BY <1>3, <2>1 DEF Take, dogVars
  <2>4. "running" \in Stages
    BY DEF Stages
  <2> QED
    BY <2>2, <2>3, <2>4, PoolsFrame
<1>4. ASSUME Fire PROVE PoolsInv'
  <2>1. "secondary" \in Inspectors
    BY DEF Inspectors
  <2>2. ~ Home(Wake, "secondary") /\ Home(Wake, "secondary")'
    BY <1>4 DEF Fire, Home
  <2>3. \A q \in Inspectors : \A y \in Jobs \cup {Wake} : Home(y, q) => Home(y, q)'
    BY <1>4 DEF Fire, Home, jobVars
  <2>4. pending' = [pending EXCEPT !["secondary"] = Append(@, Wake)] /\ UNCHANGED busy
    BY <1>4 DEF Fire
  <2> QED
    BY <2>1, <2>2, <2>3, <2>4, PoolsAsk
<1>5. ASSUME \/ Tick \/ Fired
             \/ \E r \in Reloaders : ReloadStep(r)
             \/ UNCHANGED vars
      PROVE  PoolsInv'
  <2>1. UNCHANGED <<stage, at>> /\ UNCHANGED inferVars /\ (dog = "asked" => dog' = "asked")
    BY <1>5 DEF Tick, Fired, ReloadStep, CallReload, Claim, WaitOther,
              OtherEnded, PauseDog, Drained, DrainTimeout, Loaded, LoadThrows, ResumeDog,
              Release, jobVars, dogVars, inferVars, vars
  <2> QED
    BY <2>1, PoolsFrame
<1> QED
  BY <1>1, <1>2, <1>3, <1>4, <1>5, BeginPools, EndPools DEF Next

-----------------------------------------------------------------------------
(* What is under way while models are reloaded was left by the wait.       *)

\* A step that brings no job under way, with the reload where it was.
LEMMA LoadFrame ==
  ASSUME LoadInv, UNCHANGED <<reload, left>>,
         \A k \in Jobs : stage'[k] \in InFlight => stage[k] \in InFlight
  PROVE  LoadInv'
BY DEF LoadInv

LEMMA LoadStep ==
  ASSUME TypeOK, ReloadIsExclusive, QueueInv, PoolsInv, LoadInv, [Next]_vars
  PROVE  LoadInv'
<1>1. ASSUME NEW j \in Jobs, NEW s, stage' = [stage EXCEPT ![j] = s], UNCHANGED <<reload, left>>,
             s \in InFlight => stage[j] \in InFlight
      PROVE  LoadInv'
  <2>1. \A k \in Jobs : stage'[k] \in InFlight => stage[k] \in InFlight
    BY <1>1, StageOf
  <2> QED
    BY <1>1, <2>1, LoadFrame
<1>2. ASSUME NEW j \in Jobs, JobStep(j) PROVE LoadInv'
  <2>1. UNCHANGED <<reload, left>>
    BY <1>2, OthersLeaveReloads DEF reloadVars
  <2>2. CASE Admit(j)
    <3>1. \A r \in Reloaders : reload[r] # "loading"
      BY <2>2 DEF Admit, ReloadIsExclusive, Inside
    <3> QED
      BY <2>1, <3>1 DEF LoadInv
  <2>3. CASE Call(j) \/ Finish(j)
    <3>1. PICK s \in {"calling", "done"} : stage' = [stage EXCEPT ![j] = s]
      BY <2>3 DEF Call, Finish
    <3>2. s \notin InFlight
      BY DEF InFlight
    <3> QED
      BY <1>1, <2>1, <3>1, <3>2
  <2>4. CASE Enqueue(j) \/ Ask(j) \/ ResetDog(j)
    <3>1. (\E s : stage' = [stage EXCEPT ![j] = s]) /\ stage[j] \in InFlight
      BY <2>4 DEF Enqueue, Ask, ResetDog, InFlight
    <3> QED
      BY <1>1, <2>1, <3>1
  <2> QED
    BY <1>2, <2>2, <2>3, <2>4 DEF JobStep
<1>3. ASSUME Take PROVE LoadInv'
  <2>1. PICK h \in Jobs : h = Head(jobs_) /\ h \in Elems(jobs_)
    BY <1>3, TailElems DEF Take, TypeOK
  <2>2. stage[h] \in InFlight
    BY <2>1 DEF QueueInv, InFlight
  <2>3. stage' = [stage EXCEPT ![h] = "running"] /\ UNCHANGED <<reload, left>>
    BY <1>3, <2>1 DEF Take, reloadVars
  <2> QED
    BY <1>1, <2>2, <2>3
<1>4. ASSUME NEW p \in Inspectors, NEW x \in Jobs \cup {Wake}, EndInference(p, x) PROVE LoadInv'
  <2>1. Home(x, p)
    BY <1>4 DEF EndInference, PoolsInv, PoolInv
  <2>2. UNCHANGED <<reload, left>>
    BY <1>4 DEF EndInference, reloadVars
  <2>3. CASE x = Wake
    <3>1. stage' = stage
      BY <1>4, <2>3 DEF EndInference
    <3> QED
      BY <2>2, <3>1, LoadFrame
  <2>4. CASE x # Wake
    <3>1. x \in Jobs /\ stage[x] \in InFlight
      BY <2>1, <2>4 DEF Home, InFlight
    <3>2. \E s : stage' = [stage EXCEPT ![x] = s]
      BY <1>4, <2>4 DEF EndInference
    <3> QED
      BY <1>1, <2>2, <3>1, <3>2
  <2> QED
    BY <2>3, <2>4
<1>5. ASSUME \/ Tick \/ Fire \/ Fired
             \/ \E p \in Inspectors : BeginInference(p)
             \/ UNCHANGED vars
      PROVE  LoadInv'
  <2>1. UNCHANGED <<stage, reload, left>>
    BY <1>5 DEF Tick, Fire, Fired, BeginInference, jobVars, reloadVars, vars
  <2> QED
    BY <2>1, LoadFrame
<1>6. ASSUME NEW r \in Reloaders, ReloadStep(r) PROVE LoadInv'
  <2>0. /\ \A s : reload' = [reload EXCEPT ![r] = s] =>
                    \A q \in Reloaders : reload'[q] = IF q = r THEN s ELSE reload[q]
        /\ UNCHANGED stage
    BY <1>6 DEF TypeOK, ReloadStep, CallReload, Claim, WaitOther,
                OtherEnded, PauseDog, Drained, DrainTimeout, Loaded, LoadThrows, ResumeDog,
                Release, jobVars
  <2>1. ASSUME CallReload(r) \/ Claim(r) \/ WaitOther(r) \/ OtherEnded(r) \/ PauseDog(r)
               \/ LoadThrows(r) \/ ResumeDog(r) \/ Release(r)
        PROVE  LoadInv'
    <3>1. PICK s \in ReloadStates \ {"loading"} :
            reload' = [reload EXCEPT ![r] = s] /\ UNCHANGED left
      BY <2>1 DEF CallReload, Claim, WaitOther, OtherEnded, PauseDog, LoadThrows, ResumeDog,
                  Release, ReloadStates
    <3> QED
      BY <2>0, <3>1 DEF LoadInv
  <2>2. ASSUME Loaded(r) PROVE LoadInv'
    <3>1. UNCHANGED left /\ \E s : reload' = [reload EXCEPT ![r] = s]
      BY <2>2 DEF Loaded
    <3>2. \A q \in Reloaders : reload'[q] = "loading" => reload[q] = "loading"
      BY <2>0, <2>2, <3>1 DEF Loaded
    <3> QED
      BY <2>0, <3>1, <3>2 DEF LoadInv
  <2>3. ASSUME DrainTimeout(r) PROVE LoadInv'
    <3>1. \A j \in Jobs : stage[j] \in InFlight => j \in left'
      BY <2>3 DEF DrainTimeout, OnWorker, InFlight
    <3> QED
      BY <2>0, <3>1 DEF LoadInv
  <2>4. ASSUME Drained(r) PROVE LoadInv'
    <3>1. \A j \in Jobs : stage[j] # "queued"
      BY <2>4, EmptyElems DEF Drained, QueueInv
    <3>2. \A j \in Jobs : stage[j] \in InFlight => j \in left'
      BY <2>4, <3>1 DEF Drained, OnWorker, InFlight
    <3> QED
      BY <2>0, <3>2 DEF LoadInv
  <2> QED
    BY <1>6, <2>1, <2>2, <2>3, <2>4 DEF ReloadStep
<1> QED
  BY <1>2, <1>3, <1>4, <1>5, <1>6 DEF Next

-----------------------------------------------------------------------------
(* The theorems.                                                           *)

LEMMA InvInit == Init => Inv
<1> SUFFICES ASSUME Init PROVE Inv
  OBVIOUS
<1>1. TypeOK
  BY TypesInit
<1>2. ReloadIsExclusive
  BY DEF Init, ReloadIsExclusive, Inside
<1>3. DogInv
  BY DEF Init, DogInv, Quiet
<1>4. Elems(jobs_) = {} /\ NoDup(jobs_)
  BY EmptyElems DEF Init
<1>5. QueueInv
  BY <1>4 DEF Init, QueueInv
<1>6. ASSUME NEW p \in Inspectors PROVE PoolInv(p)
  <2>1. pending[p] = <<>> /\ busy[p] = {}
    BY DEF Init
  <2> QED
    BY <2>1, EmptyElems DEF PoolInv
<1>7. LoadInv
  BY DEF Init, LoadInv
<1> QED
  BY <1>1, <1>2, <1>3, <1>5, <1>6, <1>7 DEF Inv, PoolsInv

LEMMA InvStep == Inv /\ [Next]_vars => Inv'
<1> SUFFICES ASSUME Inv, [Next]_vars PROVE Inv'
  OBVIOUS
<1> QED
  BY TypesStep, ExclusiveStep, DogStep, QueueStep, PoolsStep, LoadStep DEF Inv

LEMMA InvAlways == Spec => []Inv
BY InvInit, InvStep, PTL DEF Spec

LEMMA AskedIsHome ==
  ASSUME Inv, NEW p \in Inspectors, NEW x \in Asked(p)
  PROVE  Home(x, p) /\ x \in Jobs \cup {Wake}
<1>1. PoolInv(p) /\ TypeOK
  BY DEF Inv, PoolsInv
<1>2. x \in Elems(pending[p]) \cup busy[p]
  BY DEF Asked, Elems
<1>3. pending[p] \in Seq(Jobs \cup {Wake}) /\ busy[p] \subseteq Jobs \cup {Wake}
  BY <1>1, PoolTypes
<1>4. x \in Jobs \cup {Wake}
  BY <1>2, <1>3, ElementOfSeq DEF Elems
<1> QED
  BY <1>1, <1>2, <1>4 DEF PoolInv

\* However many run completes and submits interleave, at most one call of
\* try_model_reload is between its claim and its release, and the flag is up
\* exactly then.
THEOREM OneReloadAtATime == Spec => []ReloadIsExclusive
<1>1. Inv => ReloadIsExclusive
  BY DEF Inv
<1> QED
  BY <1>1, InvAlways, PTL

\* The watchdog's image is never with the secondary inspector while a reload has
\* the watchdog paused.
THEOREM WatchdogQuietInReload == Spec => []NoWakeDuringReload
<1>1. Inv => NoWakeDuringReload
  <2> SUFFICES ASSUME Inv, NEW r \in Reloaders, reload[r] \in Quiet, Wake \in Asked("secondary")
               PROVE  FALSE
    BY DEF NoWakeDuringReload
  <2>1. dog = "idle"
    BY DEF Inv, DogInv
  <2>2. "secondary" \in Inspectors
    BY DEF Inspectors
  <2>3. Home(Wake, "secondary")
    BY <2>2, AskedIsHome
  <2> QED
    BY <2>1, <2>3 DEF Home
<1> QED
  BY <1>1, InvAlways, PTL

\* The models an inspector reloads are only ever in use by jobs that the wait of
\* the reload left under way.
THEOREM ReloadMeetsLeftJobs == Spec => []LoadMeetsOnlyLeftJobs
<1>1. Inv => LoadMeetsOnlyLeftJobs
  <2> SUFFICES ASSUME Inv, NEW r \in Reloaders, reload[r] = "loading",
                      NEW p \in Inspectors, NEW x \in Asked(p)
               PROVE  x \in left
    BY DEF LoadMeetsOnlyLeftJobs
  <2>1. Home(x, p) /\ x \in Jobs \cup {Wake}
    BY AskedIsHome
  <2>2. reload[r] \in Quiet
    BY DEF Quiet
  <2>3. x # Wake
    BY <2>1, <2>2 DEF Home, Inv, DogInv
  <2>4. x \in Jobs /\ stage[x] \in InFlight
    BY <2>1, <2>3 DEF Home, InFlight
  <2> QED
    BY <2>4 DEF Inv, LoadInv
<1> QED
  BY <1>1, InvAlways, PTL
=============================================================================
