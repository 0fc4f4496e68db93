------------------------------- MODULE TPool -------------------------------
(***************************************************************************)
(* The thread pool of tpool/src/tpool.c.  All of the pool's state is read  *)
(* and written with work_mutex held, so an action is one stretch of code   *)
(* between two points where the mutex is free: a whole critical section,   *)
(* or the part of one up to the pthread_cond_wait that gives the mutex up. *)
(* A condition variable is the set of threads blocked on it: wpc = "cond"  *)
(* for work_cond, cpc = "cond" for working_cond.                           *)
(***************************************************************************)
EXTENDS Naturals, Sequences, FiniteSets

CONSTANTS Workers,   \* the threads tpool_create starts
          Callers,   \* the threads that hold the pool and may wait on it
          Jobs,      \* the work objects ever handed to tpool_add_work
          NoJob      \* what a worker between two jobs holds

ASSUME PoolAssumption ==
  /\ IsFiniteSet(Workers)
  /\ Cardinality(Workers) >= 2      \* WORKER_THREADS_MIN
  /\ NoJob \notin Jobs

VARIABLES
  queue,         \* p_work_first ... p_work_last
  working_cnt,
  stop,
  wpc,           \* where each worker is in tpool_worker
  job,           \* the p_work each worker holds
  cpc,           \* where each caller is in tpool_wait
  opc,           \* the owner: creating, using, destroying the pool
  fresh,         \* work objects not handed in yet
  done,          \* work objects whose p_func has returned
  dropped,       \* work objects tpool_destroy freed unrun
  refused        \* work objects tpool_add_work freed because of stop

vars == <<queue, working_cnt, stop, wpc, job, cpc, opc,
          fresh, done, dropped, refused>>

poolVars   == <<queue, working_cnt, stop>>
jobSets    == <<fresh, done, dropped, refused>>
workerVars == <<wpc, job>>

Queued == {queue[i] : i \in DOMAIN queue}

At(labels) == {w \in Workers : wpc[w] \in labels}

\* Mutant: tpool_wait looks at the queue only.
BusyQueueOnly == queue # <<>>

\* The condition tpool_wait loops on.
Busy == queue # <<>> \/ working_cnt # 0

Init ==
  /\ queue = <<>>
  /\ working_cnt = 0
  /\ stop = FALSE
  /\ wpc = [w \in Workers |-> "unborn"]
  /\ job = [w \in Workers |-> NoJob]
  /\ cpc = [c \in Callers |-> "idle"]
  /\ opc = "create"
  /\ fresh = Jobs
  /\ done = {}
  /\ dropped = {}
  /\ refused = {}

-----------------------------------------------------------------------------
(* tpool_create: threads start one at a time, and the first ones are       *)
(* already in their loop while the next is created.                        *)

CreateThread(w) ==
  /\ opc = "create"
  /\ wpc[w] = "unborn"
  /\ wpc' = [wpc EXCEPT ![w] = "lock"]
  /\ opc' = IF At({"unborn"}) = {w} THEN "open" ELSE "create"
  /\ UNCHANGED <<poolVars, jobSets, job, cpc>>

\* pthread_cond_broadcast(&work_cond): every blocked worker contends again.
WakeAllWorkers ==
  wpc' = [w \in Workers |-> IF wpc[w] = "cond" THEN "lock" ELSE wpc[w]]

\* Mutant: the threads already created are not woken before they are joined.
CreateFailSilent ==
  /\ opc = "create"
  /\ stop' = TRUE
  /\ opc' = "failjoin"
  /\ UNCHANGED <<queue, working_cnt, wpc, job, cpc, jobSets>>

\* pthread_create fails: stop and join the threads that were created.
CreateFail ==
  /\ opc = "create"
  /\ stop' = TRUE
  /\ WakeAllWorkers
  /\ opc' = "failjoin"
  /\ UNCHANGED <<queue, working_cnt, job, cpc, jobSets>>

CreateFailReturn ==
  /\ opc = "failjoin"
  /\ At({"unborn", "exited"}) = Workers
  /\ opc' = "null"
  /\ UNCHANGED <<poolVars, jobSets, workerVars, cpc>>

-----------------------------------------------------------------------------
(* tpool_add_work, called by a thread that holds the pool or by a job.     *)

MayCall ==
  \/ opc = "open" /\ \E c \in Callers : cpc[c] = "idle"
  \/ At({"run"}) # {}

\* pthread_cond_signal(&work_cond): one blocked worker, if there is one.
SignalWorker ==
  \/ At({"cond"}) = {} /\ UNCHANGED wpc
  \/ \E w \in At({"cond"}) : wpc' = [wpc EXCEPT ![w] = "lock"]

\* Mutant: no signal.
AddWorkSilent(j) ==
  /\ MayCall
  /\ j \in fresh
  /\ ~stop
  /\ fresh' = fresh \ {j}
  /\ queue' = Append(queue, j)
  /\ UNCHANGED <<working_cnt, stop, wpc, job, cpc, opc, done, dropped, refused>>

\* Mutant: the work object is linked in at the wrong end.
AddWorkFront(j) ==
  /\ MayCall
  /\ j \in fresh
  /\ ~stop
  /\ fresh' = fresh \ {j}
  /\ queue' = <<j>> \o queue
  /\ SignalWorker
  /\ UNCHANGED <<working_cnt, stop, job, cpc, opc, done, dropped, refused>>

AddWork(j) ==
  /\ MayCall
  /\ j \in fresh
  /\ ~stop
  /\ fresh' = fresh \ {j}
  /\ queue' = Append(queue, j)
  /\ SignalWorker
  /\ UNCHANGED <<working_cnt, stop, job, cpc, opc, done, dropped, refused>>

AddWorkStopped(j) ==
  /\ MayCall
  /\ j \in fresh
  /\ stop
  /\ fresh' = fresh \ {j}
  /\ refused' = refused \cup {j}
  /\ UNCHANGED <<poolVars, workerVars, cpc, opc, done, dropped>>

-----------------------------------------------------------------------------
(* tpool_worker.                                                           *)

WorkerWait(w) ==
  /\ wpc[w] = "lock"
  /\ queue = <<>> /\ ~stop
  /\ wpc' = [wpc EXCEPT ![w] = "cond"]
  /\ UNCHANGED <<poolVars, jobSets, job, cpc, opc>>

WorkerExit(w) ==
  /\ wpc[w] = "lock"
  /\ stop
  /\ wpc' = [wpc EXCEPT ![w] = "exited"]
  /\ UNCHANGED <<poolVars, jobSets, job, cpc, opc>>

\* Mutant: the increment is left out.
WorkerTakeUncounted(w) ==
  /\ wpc[w] = "lock"
  /\ queue # <<>> /\ ~stop
  /\ wpc' = [wpc EXCEPT ![w] = "run"]
  /\ job' = [job EXCEPT ![w] = Head(queue)]
  /\ queue' = Tail(queue)
  /\ UNCHANGED <<working_cnt, stop, cpc, opc, jobSets>>

WorkerTake(w) ==
  /\ wpc[w] = "lock"
  /\ queue # <<>> /\ ~stop
  /\ wpc' = [wpc EXCEPT ![w] = "run"]
  /\ job' = [job EXCEPT ![w] = Head(queue)]
  /\ queue' = Tail(queue)
  /\ working_cnt' = working_cnt + 1
  /\ UNCHANGED <<stop, cpc, opc, jobSets>>

\* Mutant: the count goes down here too.
WorkerRunCounts(w) ==
  /\ wpc[w] = "run"
  /\ wpc' = [wpc EXCEPT ![w] = "finish"]
  /\ done' = done \cup {job[w]}
  /\ job' = [job EXCEPT ![w] = NoJob]
  /\ working_cnt' = working_cnt - 1
  /\ UNCHANGED <<queue, stop, cpc, opc, fresh, dropped, refused>>

\* p_func returns and the worker frees the work object, mutex not held.
WorkerRun(w) ==
  /\ wpc[w] = "run"
  /\ wpc' = [wpc EXCEPT ![w] = "finish"]
  /\ done' = done \cup {job[w]}
  /\ job' = [job EXCEPT ![w] = NoJob]
  /\ UNCHANGED <<poolVars, cpc, opc, fresh, dropped, refused>>

\* pthread_cond_broadcast(&working_cond).
WakeAllCallers ==
  cpc' = [c \in Callers |-> IF cpc[c] = "cond" THEN "lock" ELSE cpc[c]]

\* Mutant: the count is tested before it is decremented.
WorkerFinishEarly(w) ==
  /\ wpc[w] = "finish"
  /\ wpc' = [wpc EXCEPT ![w] = "lock"]
  /\ working_cnt' = IF 0 < working_cnt THEN working_cnt - 1 ELSE working_cnt
  /\ IF queue = <<>> /\ working_cnt = 0 THEN WakeAllCallers ELSE UNCHANGED cpc
  /\ UNCHANGED <<queue, stop, job, opc, jobSets>>

WorkerFinish(w) ==
  /\ wpc[w] = "finish"
  /\ wpc' = [wpc EXCEPT ![w] = "lock"]
  /\ working_cnt' = IF 0 < working_cnt THEN working_cnt - 1 ELSE working_cnt
  /\ IF queue = <<>> /\ working_cnt' = 0 THEN WakeAllCallers ELSE UNCHANGED cpc
  /\ UNCHANGED <<queue, stop, job, opc, jobSets>>

\* pthread_cond_wait may return although nobody signalled.
SpuriousWorker(w) ==
  /\ wpc[w] = "cond"
  /\ wpc' = [wpc EXCEPT ![w] = "lock"]
  /\ UNCHANGED <<poolVars, jobSets, job, cpc, opc>>

-----------------------------------------------------------------------------
(* tpool_wait.                                                             *)

WaitCall(c) ==
  /\ opc = "open"
  /\ cpc[c] = "idle"
  /\ cpc' = [cpc EXCEPT ![c] = "lock"]
  /\ UNCHANGED <<poolVars, jobSets, workerVars, opc>>

WaitBlock(c) ==
  /\ cpc[c] = "lock"
  /\ Busy
  /\ cpc' = [cpc EXCEPT ![c] = "cond"]
  /\ UNCHANGED <<poolVars, jobSets, workerVars, opc>>

WaitReturn(c) ==
  /\ cpc[c] = "lock"
  /\ ~Busy
  /\ cpc' = [cpc EXCEPT ![c] = "idle"]
  /\ UNCHANGED <<poolVars, jobSets, workerVars, opc>>

SpuriousCaller(c) ==
  /\ cpc[c] = "cond"
  /\ cpc' = [cpc EXCEPT ![c] = "lock"]
  /\ UNCHANGED <<poolVars, jobSets, workerVars, opc>>

-----------------------------------------------------------------------------
(* tpool_destroy.  It frees the pool, so no caller may be inside it any    *)
(* more: server_destroy calls it from the only thread that ever waits.     *)

\* Mutant: signal in place of broadcast.
DestroySignal ==
  /\ opc = "open"
  /\ \A c \in Callers : cpc[c] = "idle"
  /\ stop' = TRUE
  /\ queue' = <<>>
  /\ dropped' = Queued
  /\ SignalWorker
  /\ WakeAllCallers
  /\ opc' = "join"
  /\ UNCHANGED <<working_cnt, job, fresh, done, refused>>

Destroy ==
  /\ opc = "open"
  /\ \A c \in Callers : cpc[c] = "idle"
  /\ stop' = TRUE
  /\ queue' = <<>>
  /\ dropped' = Queued
  /\ WakeAllWorkers
  /\ WakeAllCallers
  /\ opc' = "join"
  /\ UNCHANGED <<working_cnt, job, fresh, done, refused>>

DestroyReturn ==
  /\ opc = "join"
  /\ At({"exited"}) = Workers
  /\ opc' = "destroyed"
  /\ UNCHANGED <<poolVars, jobSets, workerVars, cpc>>

\* The pool is gone; nothing of this module happens any more.
Gone ==
  /\ opc \in {"null", "destroyed"}
  /\ UNCHANGED vars

-----------------------------------------------------------------------------
WorkerStep(w) ==
  WorkerWait(w) \/ WorkerExit(w) \/ WorkerTake(w) \/ WorkerRun(w) \/ WorkerFinish(w)

CallerStep(c) == WaitBlock(c) \/ WaitReturn(c)

OwnerStep ==
  \/ \E w \in Workers : CreateThread(w)
  \/ CreateFail
  \/ CreateFailReturn
  \/ DestroyReturn

Next ==
  \/ \E w \in Workers : WorkerStep(w) \/ SpuriousWorker(w)
  \/ \E c \in Callers : WaitCall(c) \/ CallerStep(c) \/ SpuriousCaller(c)
  \/ \E j \in Jobs : AddWork(j) \/ AddWorkStopped(j)
  \/ OwnerStep
  \/ Destroy
  \/ Gone

\* A runnable thread runs, the mutex starves nobody and a job returns.
\* Nothing makes anybody add work, wait or destroy, and no spurious wakeup
\* is owed to anybody.
Fairness ==
  /\ \A w \in Workers : WF_vars(WorkerStep(w))
  /\ \A c \in Callers : WF_vars(CallerStep(c))
  /\ WF_vars(OwnerStep)

SafetySpec == Init /\ [][Next]_vars

Spec == SafetySpec /\ Fairness
-----------------------------------------------------------------------------
(* Properties.                                                             *)

WorkerLabels == {"unborn", "lock", "cond", "run", "finish", "exited"}
OwnerLabels  == {"create", "failjoin", "null", "open", "join", "destroyed"}

TypeOK ==
  /\ queue \in Seq(Jobs)
  /\ working_cnt \in Nat
  /\ stop \in BOOLEAN
  /\ wpc \in [Workers -> WorkerLabels]
  /\ job \in [Workers -> Jobs \cup {NoJob}]
  /\ cpc \in [Callers -> {"idle", "lock", "cond"}]
  /\ opc \in OwnerLabels
  /\ fresh \subseteq Jobs
  /\ done \subseteq Jobs
  /\ dropped \subseteq Jobs
  /\ refused \subseteq Jobs

\* working_cnt counts the workers between tpool_work_get and the decrement
\* that follows the job, which is what tpool_wait relies on; the decrement's
\* guard 0 < working_cnt never hides a miscount.
CountIsWorking == working_cnt = Cardinality(At({"run", "finish"}))

\* No wakeup is lost: while a worker sleeps on work_cond, every queued work
\* object has a worker of its own on its way to the queue.
WorkConserving ==
  At({"cond"}) # {} => Len(queue) <= Cardinality(At({"lock"}))

\* Once stop is set no worker sleeps and nothing is queued, so every join of
\* tpool_destroy, and of a tpool_create that failed, can succeed.
StopWakesAll == stop => At({"cond"}) = {} /\ queue = <<>>

\* A caller asleep in tpool_wait still has something to wait for: the
\* broadcast that ends the wait cannot have happened already.
NoWaiterStranded == (\E c \in Callers : cpc[c] = "cond") => Busy

\* The work objects that are being run.
Held == {job[w] : w \in At({"run"})}

\* A worker holds a work object exactly while it runs it.
HoldsJob == \A w \in Workers : (wpc[w] = "run") <=> (job[w] \in Jobs)

\* tpool_wait is a barrier: when it returns, every work object accepted
\* before has been run to the end.
WaitIsBarrier ==
  [][\A c \in Callers :
        cpc[c] = "lock" /\ cpc'[c] = "idle" => Jobs \ fresh = done]_vars

\* The pool is the abstract WorkPool.
Abs == INSTANCE WorkPool WITH
         pending  <- queue,
         running  <- Held,
         waiting  <- {c \in Callers : cpc[c] # "idle"},
         open     <- ~stop,
         Capacity <- Cardinality(Workers)

\* Every behaviour of the pool is one of WorkPool, its fairness included: a
\* queued job starts whenever fewer jobs than workers run, and a wait whose
\* condition stays true returns.
ImplementsWorkPool == Abs!Spec

\* tpool_destroy, and a tpool_create that failed, come to an end.
StopEnds == stop ~> opc \in {"null", "destroyed"}

\* A job that was accepted is eventually run, unless destroy drops it.
AcceptedEnds == \A j \in Jobs : j \in Queued ~> j \in done \cup dropped
=============================================================================
