-------------------------- MODULE InspectorManager --------------------------
(***************************************************************************)
(* The AI inspector of the LGIT build (LGIT/InspectorManager.cpp).         *)
(*                                                                         *)
(* The algorithm threads submit one job per region of interest and wait on *)
(* its future.  The workers of thread_pool_ take a job through a chain of  *)
(* inspectors; each inspector owns a pool of its own, and the worker waits *)
(* for the answer of every inspector it asks.  A watchdog thread asks the  *)
(* secondary inspector for a random image when no inspection has succeeded *)
(* for 30 s; it does so, and waits for the answer, holding the mutex that  *)
(* reset(), pause() and resume() take.  The handler's RUN,COMPLETE reloads *)
(* the models: it holds back new jobs by a flag, pauses the watchdog,      *)
(* waits until the pool's queue is empty and reloads inspector after       *)
(* inspector.                                                              *)
(*                                                                         *)
(* A job, its images and its masks are a model value; whether an answer is *)
(* good, which inspectors a request asks for and where a job throws are    *)
(* choices.  Save-image jobs only write files and are left out.            *)
(***************************************************************************)
EXTENDS Naturals, Sequences, FiniteSets

CONSTANTS
  Jobs,         \* the jobs a run submits
  Reloaders,    \* the calls of try_model_reload
  NumThreads,   \* workers of thread_pool_
  NumModels,    \* workers, and models, of each inspector
  Present,      \* the inspectors the manager was given
  Wake          \* the watchdog's random image, in an inspector's pool

ASSUME ThreadsAssumption == NumThreads \in Nat \ {0} /\ NumModels \in Nat \ {0}
ASSUME WakeAssumption == Wake \notin Jobs

Inspectors == {"primary", "val", "svm", "secondary", "seg"}
ASSUME PresentAssumption == Present \subseteq Inspectors /\ "secondary" \in Present

\* The order in which a job may ask the inspectors.
Chain == <<"primary", "val", "svm", "secondary", "seg">>

\* A reload goes through the inspectors there are in this order; the primary one
\* is never reloaded.
LoadRank   == [secondary |-> 1, seg |-> 2, svm |-> 3, val |-> 4]
Reloadable == Present \cap DOMAIN LoadRank
NextToLoad(S) == CHOOSE p \in S : \A q \in S : LoadRank[p] <= LoadRank[q]

VARIABLES
  stage,      \* stage[j]: where job j is
  at,         \* at[j]: the place in Chain of the inspector job j asked last
  jobs_,      \* queue of thread_pool_
  pending,    \* pending[p]: queue of inspector p's pool
  busy,       \* busy[p]: what inspector p's workers are inferring
  dog,        \* the watchdog thread; it holds the mutex unless "idle"
  late,       \* the time since the last reset exceeds the timeout
  paused_,    \* the watchdog's flag
  is_model_reloading_,
  reload,     \* reload[r]: where call r of try_model_reload is
  loading,    \* the inspectors the reload has still to reload
  left        \* history: jobs the wait of the reload left under way

vars == <<stage, at, jobs_, pending, busy, dog, late, paused_,
          is_model_reloading_, reload, loading, left>>

jobVars    == <<stage, at, jobs_>>
inferVars  == <<pending, busy>>
dogVars    == <<dog, late, paused_>>
reloadVars == <<is_model_reloading_, reload, loading, left>>

Stages == {"new", "calling", "admitted", "queued", "running", "asked",
           "resetting", "done"}
DogStates == {"idle", "asked", "answered"}
ReloadStates == {"idle", "calling", "waiting", "claimed", "draining",
                 "loading", "loaded", "resumed", "done"}

\* A call of try_model_reload that has set the flag and not cleared it.
Inside == {"claimed", "draining", "loading", "loaded", "resumed"}
\* Between pause() and resume() of the watchdog.
Quiet  == {"draining", "loading", "loaded"}

\* Jobs a worker of thread_pool_ is on.
OnWorker == {j \in Jobs : stage[j] \in {"running", "asked", "resetting"}}

TypeOK ==
  /\ stage \in [Jobs -> Stages]
  /\ at \in [Jobs -> 0 .. Len(Chain)]
  /\ jobs_ \in Seq(Jobs)
  /\ pending \in [Inspectors -> Seq(Jobs \cup {Wake})]
  /\ busy \in [Inspectors -> SUBSET (Jobs \cup {Wake})]
  /\ dog \in DogStates
  /\ late \in BOOLEAN
  /\ paused_ \in BOOLEAN
  /\ is_model_reloading_ \in BOOLEAN
  /\ reload \in [Reloaders -> ReloadStates]
  /\ loading \subseteq Reloadable
  /\ left \subseteq Jobs

Init ==
  /\ stage = [j \in Jobs |-> "new"]
  /\ at = [j \in Jobs |-> 0]
  /\ jobs_ = <<>>
  /\ pending = [p \in Inspectors |-> <<>>]
  /\ busy = [p \in Inspectors |-> {}]
  /\ dog = "idle"
  /\ late = FALSE
  /\ paused_ = FALSE
  /\ is_model_reloading_ = FALSE
  /\ reload = [r \in Reloaders |-> "idle"]
  /\ loading = {}
  /\ left = {}

-----------------------------------------------------------------------------
(* submit(): an algorithm thread.                                          *)

\* An algorithm thread calls submit().
Call(j) ==
  /\ stage[j] = "new"
  /\ stage' = [stage EXCEPT ![j] = "calling"]
  /\ UNCHANGED <<at, jobs_, inferVars, dogVars, reloadVars>>

\* Mutant: a submit that does not wait for the reload.
AdmitUnchecked(j) ==
  /\ stage[j] = "calling"
  /\ stage' = [stage EXCEPT ![j] = "admitted"]
  /\ UNCHANGED <<at, jobs_, inferVars, dogVars, reloadVars>>

\* wait_for_model_reload_completion returns once no reload is running.  It
\* gives its mutex back: a reload may start between this step and Enqueue.
Admit(j) ==
  /\ stage[j] = "calling"
  /\ ~is_model_reloading_
  /\ stage' = [stage EXCEPT ![j] = "admitted"]
  /\ UNCHANGED <<at, jobs_, inferVars, dogVars, reloadVars>>

\* enqueue_job; the pool is stopped only when the manager is destroyed.
Enqueue(j) ==
  /\ stage[j] = "admitted"
  /\ stage' = [stage EXCEPT ![j] = "queued"]
  /\ jobs_' = Append(jobs_, j)
  /\ UNCHANGED <<at, inferVars, dogVars, reloadVars>>

-----------------------------------------------------------------------------
(* The job, on a worker of thread_pool_.                                   *)

\* A free worker pops the queue.
Take ==
  /\ jobs_ # <<>>
  /\ Cardinality(OnWorker) < NumThreads
  /\ jobs_' = Tail(jobs_)
  /\ stage' = [stage EXCEPT ![Head(jobs_)] = "running"]
  /\ UNCHANGED <<at, inferVars, dogVars, reloadVars>>

\* The validation inspector is only asked when the primary one was not.
MayAsk(i, k) == i < k /\ ~ (i = 1 /\ k = 2) /\ Chain[k] \in Present

\* The worker asks the next inspector its request and its masks call for and
\* waits for the future.
Ask(j) == \E k \in 1 .. Len(Chain) :
  /\ stage[j] = "running"
  /\ MayAsk(at[j], k)
  /\ stage' = [stage EXCEPT ![j] = "asked"]
  /\ at' = [at EXCEPT ![j] = k]
  /\ pending' = [pending EXCEPT ![Chain[k]] = Append(@, j)]
  /\ UNCHANGED <<jobs_, busy, dogVars, reloadVars>>

\* A secondary inspection with a result resets the watchdog, which takes the
\* watchdog's mutex.
ResetDog(j) ==
  /\ stage[j] = "resetting"
  /\ dog = "idle"
  /\ late' = FALSE
  /\ stage' = [stage EXCEPT ![j] = "running"]
  /\ UNCHANGED <<at, jobs_, inferVars, dog, paused_, reloadVars>>

\* Every way out of the job satisfies its promise: a pass after an inspector,
\* the end of the chain, an exception caught in the job.
Finish(j) ==
  /\ stage[j] = "running"
  /\ stage' = [stage EXCEPT ![j] = "done"]
  /\ UNCHANGED <<at, jobs_, inferVars, dogVars, reloadVars>>

-----------------------------------------------------------------------------
(* An inspector's pool.                                                    *)

\* A worker of inspector p pops its queue and runs the model.
BeginInference(p) ==
  /\ pending[p] # <<>>
  /\ Cardinality(busy[p]) < NumModels
  /\ pending' = [pending EXCEPT ![p] = Tail(@)]
  /\ busy' = [busy EXCEPT ![p] = @ \cup {Head(pending[p])}]
  /\ UNCHANGED <<jobVars, dogVars, reloadVars>>

\* The model answers, or process_image catches its exception and answers with
\* an empty result; get() returns in the thread that waits for it.
EndInference(p, x) ==
  /\ x \in busy[p]
  /\ busy' = [busy EXCEPT ![p] = @ \ {x}]
  /\ IF x = Wake
     THEN /\ dog' = "answered"
          /\ stage' = stage
     ELSE /\ dog' = dog
          /\ \E s \in {"running"} \cup (IF p = "secondary" THEN {"resetting"} ELSE {}) :
               stage' = [stage EXCEPT ![x] = s]
  /\ UNCHANGED <<at, jobs_, pending, late, paused_, reloadVars>>

-----------------------------------------------------------------------------
(* The watchdog's thread.                                                  *)

\* 30 s pass without a reset.
Tick ==
  /\ ~late
  /\ late' = TRUE
  /\ UNCHANGED <<jobVars, inferVars, dog, paused_, reloadVars>>

\* The thread finds the time exceeded and calls back, keeping the mutex: the
\* callback queues a random image and waits for the answer.
Fire ==
  /\ dog = "idle"
  /\ ~paused_
  /\ late
  /\ dog' = "asked"
  /\ pending' = [pending EXCEPT !["secondary"] = Append(@, Wake)]
  /\ UNCHANGED <<jobVars, busy, late, paused_, reloadVars>>

\* The callback returns: the time is reset and the mutex released.
Fired ==
  /\ dog = "answered"
  /\ dog' = "idle"
  /\ late' = FALSE
  /\ UNCHANGED <<jobVars, inferVars, paused_, reloadVars>>

-----------------------------------------------------------------------------
(* try_model_reload.                                                       *)

\* The handler reports the end of a run.
CallReload(r) ==
  /\ reload[r] = "idle"
  /\ reload' = [reload EXCEPT ![r] = "calling"]
  /\ UNCHANGED <<jobVars, inferVars, dogVars, is_model_reloading_, loading, left>>

\* Mutant: the flag tested before the mutex is taken.
ClaimUnlocked(r) ==
  /\ reload[r] = "calling"
  /\ is_model_reloading_' = TRUE
  /\ reload' = [reload EXCEPT ![r] = "claimed"]
  /\ UNCHANGED <<jobVars, inferVars, dogVars, loading, left>>

\* The flag is tested and set under one hold of the mutex.
Claim(r) ==
  /\ reload[r] = "calling"
  /\ ~is_model_reloading_
  /\ is_model_reloading_' = TRUE
  /\ reload' = [reload EXCEPT ![r] = "claimed"]
  /\ UNCHANGED <<jobVars, inferVars, dogVars, loading, left>>

\* Another reload is running: wait for its end ...
WaitOther(r) ==
  /\ reload[r] = "calling"
  /\ is_model_reloading_
  /\ reload' = [reload EXCEPT ![r] = "waiting"]
  /\ UNCHANGED <<jobVars, inferVars, dogVars, is_model_reloading_, loading, left>>

\* Mutant: the predicate of the wait is inverted.
OtherEndedInverted(r) ==
  /\ reload[r] = "waiting"
  /\ is_model_reloading_
  /\ reload' = [reload EXCEPT ![r] = "done"]
  /\ UNCHANGED <<jobVars, inferVars, dogVars, is_model_reloading_, loading, left>>

\* ... and return as if it had been this one.
OtherEnded(r) ==
  /\ reload[r] = "waiting"
  /\ ~is_model_reloading_
  /\ reload' = [reload EXCEPT ![r] = "done"]
  /\ UNCHANGED <<jobVars, inferVars, dogVars, is_model_reloading_, loading, left>>

\* Mutant: a pause that only sets the atomic flag.
PauseDogNoLock(r) ==
  /\ reload[r] = "claimed"
  /\ paused_' = TRUE
  /\ reload' = [reload EXCEPT ![r] = "draining"]
  /\ UNCHANGED <<jobVars, inferVars, dog, late, is_model_reloading_, loading, left>>

\* pause() takes the mutex, so it waits for a callback under way.
PauseDog(r) ==
  /\ reload[r] = "claimed"
  /\ dog = "idle"
  /\ paused_' = TRUE
  /\ reload' = [reload EXCEPT ![r] = "draining"]
  /\ UNCHANGED <<jobVars, inferVars, dog, late, is_model_reloading_, loading, left>>

\* Mutant: the reload does not ask which inspectors there are.
DrainedAll(r) ==
  /\ reload[r] = "draining"
  /\ jobs_ = <<>>
  /\ left' = OnWorker \cup {j \in Jobs : stage[j] = "admitted"}
  /\ reload' = [reload EXCEPT ![r] = "loading"]
  /\ loading' = DOMAIN LoadRank
  /\ UNCHANGED <<jobVars, inferVars, dogVars, is_model_reloading_>>

\* The queue of thread_pool_ is seen empty.  Jobs a worker is on are not waited
\* for, nor are those that passed the flag before it was set.
Drained(r) ==
  /\ reload[r] = "draining"
  /\ jobs_ = <<>>
  /\ left' = OnWorker \cup {j \in Jobs : stage[j] = "admitted"}
  /\ reload' = [reload EXCEPT ![r] = "loading"]
  /\ loading' = Reloadable
  /\ UNCHANGED <<jobVars, inferVars, dogVars, is_model_reloading_>>

\* 60 s have passed with jobs in the queue: the reload goes ahead.
DrainTimeout(r) ==
  /\ reload[r] = "draining"
  /\ jobs_ # <<>>
  /\ left' = {j \in Jobs : stage[j] \in {"admitted", "queued"}} \cup OnWorker
  /\ reload' = [reload EXCEPT ![r] = "loading"]
  /\ loading' = Reloadable
  /\ UNCHANGED <<jobVars, inferVars, dogVars, is_model_reloading_>>

\* The next inspector has reloaded its models, or failed to.
Loaded(r) ==
  /\ reload[r] = "loading"
  /\ loading' = loading \ {NextToLoad(loading)}
  /\ reload' = [reload EXCEPT ![r] = IF loading' = {} THEN "loaded" ELSE @]
  /\ UNCHANGED <<jobVars, inferVars, dogVars, is_model_reloading_, left>>

\* Anything else thrown while waiting or reloading goes on to the clean-up.
LoadThrows(r) ==
  /\ reload[r] \in {"draining", "loading"}
  /\ reload' = [reload EXCEPT ![r] = "loaded"]
  /\ loading' = {}
  /\ UNCHANGED <<jobVars, inferVars, dogVars, is_model_reloading_, left>>

\* Mutant: the watchdog is left paused.
ResumeDogForgets(r) ==
  /\ reload[r] = "loaded"
  /\ dog = "idle"
  /\ reload' = [reload EXCEPT ![r] = "resumed"]
  /\ UNCHANGED <<jobVars, inferVars, dogVars, is_model_reloading_, loading, left>>

\* resume() restarts the watchdog's time.
ResumeDog(r) ==
  /\ reload[r] = "loaded"
  /\ dog = "idle"
  /\ paused_' = FALSE
  /\ late' = FALSE
  /\ reload' = [reload EXCEPT ![r] = "resumed"]
  /\ UNCHANGED <<jobVars, inferVars, dog, is_model_reloading_, loading, left>>

\* Mutant: a reload that failed leaves the flag up.
ReleaseOnSuccess(r) ==
  /\ reload[r] = "resumed"
  /\ is_model_reloading_' \in BOOLEAN
  /\ reload' = [reload EXCEPT ![r] = "done"]
  /\ UNCHANGED <<jobVars, inferVars, dogVars, loading, left>>

\* The flag is cleared and everyone waiting for it is notified.
Release(r) ==
  /\ reload[r] = "resumed"
  /\ is_model_reloading_' = FALSE
  /\ reload' = [reload EXCEPT ![r] = "done"]
  /\ UNCHANGED <<jobVars, inferVars, dogVars, loading, left>>

-----------------------------------------------------------------------------
JobStep(j) == Call(j) \/ Admit(j) \/ Enqueue(j) \/ Ask(j) \/ ResetDog(j) \/ Finish(j)

ReloadStep(r) ==
  \/ CallReload(r) \/ Claim(r) \/ WaitOther(r) \/ OtherEnded(r) \/ PauseDog(r)
  \/ Drained(r) \/ DrainTimeout(r) \/ Loaded(r) \/ LoadThrows(r) \/ ResumeDog(r) \/ Release(r)

Next ==
  \/ \E j \in Jobs : JobStep(j)
  \/ Take
  \/ \E p \in Inspectors : BeginInference(p)
  \/ \E p \in Inspectors : \E x \in Jobs \cup {Wake} : EndInference(p, x)
  \/ Tick \/ Fire \/ Fired
  \/ \E r \in Reloaders : ReloadStep(r)

Spec == Init /\ [][Next]_vars

\* Threads run, models answer, waits are bounded and notified.  The mutex of the
\* watchdog is free for 30 s after each callback, so whoever wants it gets it:
\* strong fairness of the three steps that take it.  Nothing makes the algorithm
\* threads submit, the handler end a run or the time pass.
FairSpec ==
  /\ Spec
  /\ \A j \in Jobs :
       /\ WF_vars(Admit(j)) /\ WF_vars(Enqueue(j))
       /\ WF_vars(Ask(j) \/ Finish(j)) /\ SF_vars(ResetDog(j))
  /\ WF_vars(Take)
  /\ \A p \in Present :
       /\ WF_vars(BeginInference(p))
       /\ \A x \in Jobs \cup {Wake} : WF_vars(EndInference(p, x))
  /\ WF_vars(Fire) /\ WF_vars(Fired)
  /\ \A r \in Reloaders :
       /\ WF_vars(Claim(r) \/ WaitOther(r)) /\ WF_vars(OtherEnded(r))
       /\ WF_vars(Drained(r) \/ DrainTimeout(r)) /\ WF_vars(Loaded(r))
       /\ SF_vars(PauseDog(r)) /\ SF_vars(ResumeDog(r)) /\ WF_vars(Release(r))

-----------------------------------------------------------------------------
(* Properties.                                                             *)

\* What inspector p has been asked and has not answered.
Asked(p) == {pending[p][i] : i \in 1 .. Len(pending[p])} \cup busy[p]

\* The flag is up exactly while one call of try_model_reload is inside: two
\* run completes never reload the same models together, and no way through the
\* reload leaves the flag up or takes it down under another's feet.
ReloadIsExclusive ==
  /\ \A r, q \in Reloaders : reload[r] \in Inside /\ reload[q] \in Inside => r = q
  /\ is_model_reloading_ <=> \E r \in Reloaders : reload[r] \in Inside

\* From pause() to resume() the watchdog has no image anywhere in the secondary
\* inspector: pause() waits for the callback because both hold the mutex.
NoWakeDuringReload ==
  (\E r \in Reloaders : reload[r] \in Quiet) => Wake \notin Asked("secondary")

\* While models are reloaded an inspector only works on jobs that a worker had
\* taken, or that had passed the flag, when the wait for the queue ended: no job
\* of the queue the reload saw empty, and no job submitted since.
LoadMeetsOnlyLeftJobs ==
  (\E r \in Reloaders : reload[r] = "loading")
    => \A p \in Inspectors : Asked(p) \subseteq left

\* Every call of submit ends with its promise satisfied: no job is lost between
\* the pools, and neither the watchdog's mutex nor the reload's flag stops one.
SubmittedIsAnswered ==
  \A j \in Jobs : stage[j] = "calling" ~> stage[j] = "done"

\* Every call of try_model_reload returns.
ReloadReturns ==
  \A r \in Reloaders : reload[r] = "calling" ~> reload[r] = "done"

\* A silence of the secondary inspector is always broken, by an inspection, by
\* the watchdog's image or by a reload: the watchdog is never left paused.
SilenceEnds == late ~> ~late
=============================================================================
