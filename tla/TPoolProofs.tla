---------------------------- MODULE TPoolProofs ----------------------------
(***************************************************************************)
(* What TLC checks of TPool on a few threads and jobs, proved for any      *)
(* number of workers, callers and jobs.                                    *)
(***************************************************************************)
EXTENDS TPool, DataLemmas, FiniteSetTheorems

USE PoolAssumption

-----------------------------------------------------------------------------
(* Counting the workers at some labels.                                    *)

\* The set of workers at some labels is finite, so it can be counted.
LEMMA AtFinite ==
  ASSUME NEW L
  PROVE  IsFiniteSet(At(L)) /\ Cardinality(At(L)) \in Nat
  BY FS_Subset, FS_CardinalityType DEF At

\* A worker that moves from outside L to a label in L is one more worker there.
LEMMA MoveIn ==
  ASSUME wpc \in [Workers -> WorkerLabels], NEW w \in Workers, NEW l,
         wpc' = [wpc EXCEPT ![w] = l], NEW L, wpc[w] \notin L, l \in L
  PROVE  Cardinality(At(L)') = Cardinality(At(L)) + 1
<1>1. At(L)' = At(L) \cup {w} /\ w \notin At(L)
  BY DEF At
<1> QED
  BY <1>1, AtFinite, FS_AddElement

\* A worker that moves from a label in L to one outside is one worker less there.
LEMMA MoveOut ==
  ASSUME wpc \in [Workers -> WorkerLabels], NEW w \in Workers, NEW l,
         wpc' = [wpc EXCEPT ![w] = l], NEW L, wpc[w] \in L, l \notin L
  PROVE  /\ Cardinality(At(L)') = Cardinality(At(L)) - 1
         /\ Cardinality(At(L)) > 0
<1>1. At(L)' = At(L) \ {w} /\ w \in At(L)
  BY DEF At
<1>2. Cardinality(At(L)') = Cardinality(At(L)) - 1
  BY <1>1, AtFinite, FS_RemoveElement
<1>3. Cardinality(At(L)) # 0
  BY <1>1, AtFinite, FS_EmptySet
<1> QED
  BY <1>2, <1>3, AtFinite

\* A move between two labels on the same side of L does not change the count.
LEMMA MoveWithin ==
  ASSUME wpc \in [Workers -> WorkerLabels], NEW w \in Workers, NEW l,
         wpc' = [wpc EXCEPT ![w] = l], NEW L, wpc[w] \in L <=> l \in L
  PROVE  At(L)' = At(L)
  BY DEF At

-----------------------------------------------------------------------------
(* Types, together with two facts they need: a worker holds a work object  *)
(* exactly while it runs it, and nothing is queued or running before       *)
(* tpool_create returns.                                                   *)

CreateQuiet == opc = "create" => queue = <<>> /\ At({"run"}) = {}

Base == TypeOK /\ HoldsJob /\ CreateQuiet

\* tpool_create establishes the base invariant.
LEMMA BaseInit == Init => Base
<1> SUFFICES ASSUME Init PROVE Base
  OBVIOUS
<1>1. queue \in Seq(Jobs)
  BY DEF Init
<1>2. TypeOK
  BY <1>1 DEF Init, TypeOK, WorkerLabels, OwnerLabels
<1>3. HoldsJob
  BY DEF Init, HoldsJob
<1>4. CreateQuiet
  BY DEF Init, CreateQuiet, At
<1> QED
  BY <1>2, <1>3, <1>4 DEF Base

\* Every critical section of tpool.c keeps the base invariant.
LEMMA BaseStep == Base /\ [Next]_vars => Base'
<1> SUFFICES ASSUME Base, [Next]_vars PROVE Base'
  OBVIOUS
<1> USE DEF Base, TypeOK, HoldsJob, CreateQuiet, WorkerLabels, OwnerLabels, At,
            poolVars, jobSets, workerVars
<1>1. ASSUME NEW w \in Workers, WorkerWait(w) PROVE Base'
  BY <1>1 DEF WorkerWait
<1>2. ASSUME NEW w \in Workers, WorkerExit(w) PROVE Base'
  BY <1>2 DEF WorkerExit
<1>3. ASSUME NEW w \in Workers, WorkerTake(w) PROVE Base'
  <2>1. Head(queue) \in Jobs /\ Tail(queue) \in Seq(Jobs)
    BY <1>3, HeadTailProperties DEF WorkerTake
  <2>2. TypeOK'
    BY <1>3, <2>1 DEF WorkerTake
  <2>3. HoldsJob'
    BY <1>3, <2>1 DEF WorkerTake
  <2>4. CreateQuiet'
    BY <1>3 DEF WorkerTake
  <2> QED
    BY <2>2, <2>3, <2>4
<1>4. ASSUME NEW w \in Workers, WorkerRun(w) PROVE Base'
  BY <1>4 DEF WorkerRun
<1>5. ASSUME NEW w \in Workers, WorkerFinish(w) PROVE Base'
  BY <1>5 DEF WorkerFinish, WakeAllCallers
<1>6. ASSUME NEW w \in Workers, SpuriousWorker(w) PROVE Base'
  BY <1>6 DEF SpuriousWorker
<1>7. ASSUME NEW c \in Callers, WaitCall(c) PROVE Base'
  BY <1>7 DEF WaitCall
<1>8. ASSUME NEW c \in Callers, CallerStep(c) PROVE Base'
  BY <1>8 DEF CallerStep, WaitBlock, WaitReturn
<1>9. ASSUME NEW c \in Callers, SpuriousCaller(c) PROVE Base'
  BY <1>9 DEF SpuriousCaller
<1>10. ASSUME NEW j \in Jobs, AddWork(j) PROVE Base'
  <2>1. opc # "create"
    BY <1>10 DEF AddWork, MayCall
  <2>2. Append(queue, j) \in Seq(Jobs)
    OBVIOUS
  <2>3. \A w \in Workers : wpc'[w] = wpc[w] \/ (wpc[w] = "cond" /\ wpc'[w] = "lock")
    BY <1>10 DEF AddWork, SignalWorker
  <2>4. wpc' \in [Workers -> WorkerLabels]
    BY <1>10 DEF AddWork, SignalWorker
  <2> QED
    BY <1>10, <2>1, <2>2, <2>3, <2>4 DEF AddWork
<1>11. ASSUME NEW j \in Jobs, AddWorkStopped(j) PROVE Base'
  BY <1>11 DEF AddWorkStopped
<1>12. ASSUME NEW w \in Workers, CreateThread(w) PROVE Base'
  BY <1>12 DEF CreateThread
<1>13. CASE CreateFail
  BY <1>13 DEF CreateFail, WakeAllWorkers
<1>14. CASE CreateFailReturn
  BY <1>14 DEF CreateFailReturn
<1>15. CASE DestroyReturn
  BY <1>15 DEF DestroyReturn
<1>16. CASE Destroy
  BY <1>16 DEF Destroy, WakeAllWorkers, WakeAllCallers, Queued
<1>17. CASE UNCHANGED vars
  BY <1>17 DEF vars
<1> QED
  BY <1>1, <1>2, <1>3, <1>4, <1>5, <1>6, <1>7, <1>8, <1>9, <1>10, <1>11, <1>12,
     <1>13, <1>14, <1>15, <1>16, <1>17 DEF Next, WorkerStep, OwnerStep, Gone

\* Every variable keeps its type through every step of tpool.c's functions.
THEOREM TypeCorrect == SafetySpec => []TypeOK
<1>1. Base => TypeOK
  BY DEF Base
<1> QED
  BY <1>1, BaseInit, BaseStep, PTL DEF SafetySpec

-----------------------------------------------------------------------------
(* working_cnt.                                                            *)

\* Every critical section of tpool.c keeps working_cnt exact.
LEMMA CountStep == Base /\ CountIsWorking /\ [Next]_vars => CountIsWorking'
<1> SUFFICES ASSUME Base, CountIsWorking, [Next]_vars PROVE CountIsWorking'
  OBVIOUS
<1> DEFINE W == {"run", "finish"}
<1> USE DEF Base, TypeOK, CountIsWorking
<1>1. ASSUME NEW w \in Workers, WorkerTake(w) PROVE CountIsWorking'
  <2>1. Cardinality(At(W)') = Cardinality(At(W)) + 1
    BY <1>1, MoveIn, "run" \in W, wpc[w] \notin W DEF WorkerTake
  <2> QED
    BY <1>1, <2>1 DEF WorkerTake
<1>2. ASSUME NEW w \in Workers, WorkerRun(w) PROVE CountIsWorking'
  BY <1>2, MoveWithin DEF WorkerRun, poolVars
<1>3. ASSUME NEW w \in Workers, WorkerFinish(w) PROVE CountIsWorking'
  <2>1. /\ Cardinality(At(W)') = Cardinality(At(W)) - 1
        /\ Cardinality(At(W)) > 0
    BY <1>3, MoveOut, "lock" \notin W, wpc[w] \in W DEF WorkerFinish
  <2> QED
    BY <1>3, <2>1 DEF WorkerFinish
<1>4. ASSUME At(W)' = At(W), working_cnt' = working_cnt PROVE CountIsWorking'
  BY <1>4
<1>5. ASSUME NEW w \in Workers,
             WorkerWait(w) \/ WorkerExit(w) \/ SpuriousWorker(w) \/ CreateThread(w)
      PROVE  CountIsWorking'
  BY <1>5, <1>4 DEF WorkerWait, WorkerExit, SpuriousWorker, CreateThread, At, poolVars
<1>6. ASSUME NEW c \in Callers, WaitCall(c) \/ CallerStep(c) \/ SpuriousCaller(c)
      PROVE  CountIsWorking'
  BY <1>6, <1>4 DEF WaitCall, CallerStep, WaitBlock, WaitReturn, SpuriousCaller, At,
                    poolVars, workerVars
<1>7. ASSUME NEW j \in Jobs, AddWork(j) \/ AddWorkStopped(j) PROVE CountIsWorking'
  BY <1>7, <1>4 DEF AddWork, AddWorkStopped, SignalWorker, At, poolVars, workerVars
<1>8. CASE CreateFail \/ Destroy
  BY <1>8, <1>4 DEF CreateFail, Destroy, WakeAllWorkers, At
<1>9. CASE CreateFailReturn \/ DestroyReturn \/ UNCHANGED vars
  BY <1>9, <1>4 DEF CreateFailReturn, DestroyReturn, vars, At, poolVars, workerVars
<1> QED
  BY <1>1, <1>2, <1>3, <1>5, <1>6, <1>7, <1>8, <1>9
     DEF Next, WorkerStep, OwnerStep, Gone

\* working_cnt is the number of workers between tpool_work_get and the
\* decrement after the job: the count tpool_wait blocks on is exact.
THEOREM CountCorrect == SafetySpec => []CountIsWorking
<1>1. Init => CountIsWorking
  BY FS_EmptySet DEF Init, CountIsWorking, At
<1> QED
  BY <1>1, BaseInit, BaseStep, CountStep, PTL DEF SafetySpec

-----------------------------------------------------------------------------
(* stop, and the callers asleep in tpool_wait.                             *)

\* Once stop is set, no worker sleeps on work_cond and nothing is queued.
THEOREM StopCorrect == SafetySpec => []StopWakesAll
<1>1. Init => StopWakesAll
  BY DEF Init, StopWakesAll
<1>2. Base /\ StopWakesAll /\ [Next]_vars => StopWakesAll'
  <2> SUFFICES ASSUME Base, StopWakesAll, [Next]_vars PROVE StopWakesAll'
    OBVIOUS
  <2> USE DEF Base, TypeOK, CreateQuiet, StopWakesAll, At, poolVars, jobSets, workerVars
  <2>1. ASSUME NEW w \in Workers, WorkerStep(w) \/ SpuriousWorker(w) \/ CreateThread(w)
        PROVE  StopWakesAll'
    BY <2>1 DEF WorkerStep, WorkerWait, WorkerExit, WorkerTake, WorkerRun, WorkerFinish,
                SpuriousWorker, CreateThread
  <2>2. ASSUME NEW c \in Callers, WaitCall(c) \/ CallerStep(c) \/ SpuriousCaller(c)
        PROVE  StopWakesAll'
    BY <2>2 DEF WaitCall, CallerStep, WaitBlock, WaitReturn, SpuriousCaller
  <2>3. ASSUME NEW j \in Jobs, AddWork(j) \/ AddWorkStopped(j) PROVE StopWakesAll'
    BY <2>3 DEF AddWork, AddWorkStopped
  <2>4. CASE CreateFail
    BY <2>4 DEF CreateFail, WakeAllWorkers
  <2>5. CASE Destroy
    BY <2>5 DEF Destroy, WakeAllWorkers
  <2>6. CASE CreateFailReturn \/ DestroyReturn \/ UNCHANGED vars
    BY <2>6 DEF CreateFailReturn, DestroyReturn, vars
  <2> QED
    BY <2>1, <2>2, <2>3, <2>4, <2>5, <2>6 DEF Next, OwnerStep, Gone
<1> QED
  BY <1>1, <1>2, BaseInit, BaseStep, PTL DEF SafetySpec

\* A caller asleep on working_cond has queued or running work to wait for.
THEOREM WaitersCorrect == SafetySpec => []NoWaiterStranded
<1>1. Init => NoWaiterStranded
  BY DEF Init, NoWaiterStranded
<1>2. Base /\ NoWaiterStranded /\ [Next]_vars => NoWaiterStranded'
  <2> SUFFICES ASSUME Base, NoWaiterStranded, [Next]_vars,
                      NEW c \in Callers, cpc'[c] = "cond"
               PROVE  Busy'
    BY DEF NoWaiterStranded
  <2> USE DEF Base, TypeOK, NoWaiterStranded, Busy, poolVars, jobSets, workerVars
  <2>1. ASSUME NEW w \in Workers, WorkerTake(w) PROVE Busy'
    BY <2>1 DEF WorkerTake
  <2>2. ASSUME NEW w \in Workers, WorkerFinish(w) PROVE Busy'
    BY <2>2 DEF WorkerFinish, WakeAllCallers
  <2>3. ASSUME NEW w \in Workers,
               \/ WorkerWait(w) \/ WorkerExit(w) \/ WorkerRun(w)
               \/ SpuriousWorker(w) \/ CreateThread(w)
        PROVE  Busy'
    BY <2>3 DEF WorkerWait, WorkerExit, WorkerRun, SpuriousWorker, CreateThread
  <2>4. ASSUME NEW d \in Callers, WaitCall(d) \/ CallerStep(d) \/ SpuriousCaller(d)
        PROVE  Busy'
    BY <2>4 DEF WaitCall, CallerStep, WaitBlock, WaitReturn, SpuriousCaller
  <2>5. ASSUME NEW j \in Jobs, AddWork(j) PROVE Busy'
    <3>1. Append(queue, j) # <<>>
      BY AppendProperties
    <3> QED
      BY <2>5, <3>1 DEF AddWork
  <2>6. ASSUME NEW j \in Jobs, AddWorkStopped(j) PROVE Busy'
    BY <2>6 DEF AddWorkStopped
  <2>7. CASE Destroy
    BY <2>7 DEF Destroy, WakeAllCallers
  <2>8. CASE CreateFail \/ CreateFailReturn \/ DestroyReturn \/ UNCHANGED vars
    BY <2>8 DEF CreateFail, CreateFailReturn, DestroyReturn, vars
  <2> QED
    BY <2>1, <2>2, <2>3, <2>4, <2>5, <2>6, <2>7, <2>8
       DEF Next, WorkerStep, OwnerStep, Gone
<1> QED
  BY <1>1, <1>2, BaseInit, BaseStep, PTL DEF SafetySpec

-----------------------------------------------------------------------------
(* No lost wakeup.                                                         *)

\* The two ways a step keeps the balance: it changes neither side, or it only
\* lets the awake side grow.
LEMMA ConservingStep ==
  Base /\ StopWakesAll /\ WorkConserving /\ [Next]_vars => WorkConserving'

<1> SUFFICES ASSUME Base, StopWakesAll, WorkConserving, [Next]_vars, At({"cond"})' # {}
             PROVE  Len(queue') <= Cardinality(At({"lock"})')
  BY DEF WorkConserving
<1> DEFINE Awake == Cardinality(At({"lock"}))
           Goal  == Len(queue') <= Cardinality(At({"lock"})')
<1>a. Awake \in Nat /\ Cardinality(At({"lock"})') \in Nat /\ IsFiniteSet(At({"lock"})')
  <2>1. At({"lock"})' \in SUBSET Workers
    BY DEF At
  <2> QED
    BY <2>1, AtFinite, FS_Subset, FS_CardinalityType
<1>b. Len(queue) \in Nat
  BY LenProperties DEF Base, TypeOK
<1> USE DEF Base, TypeOK, poolVars, jobSets, workerVars
<1>1. ASSUME NEW w \in Workers, WorkerTake(w) PROVE Goal
  <2>1. At({"cond"})' = At({"cond"})
    BY <1>1 DEF WorkerTake, At
  <2>2. /\ wpc[w] \in {"lock"} /\ "run" \notin {"lock"}
        /\ wpc' = [wpc EXCEPT ![w] = "run"]
    BY <1>1 DEF WorkerTake
  <2>3. Cardinality(At({"lock"})') = Awake - 1
    BY <2>2, MoveOut
  <2>4. Len(queue') = Len(queue) - 1
    BY <1>1, <1>b, HeadTailProperties DEF WorkerTake
  <2> QED
    BY <2>1, <2>3, <2>4, <1>a, <1>b DEF WorkConserving
<1>2. ASSUME NEW w \in Workers, WorkerWait(w) PROVE Goal
  <2>1. Len(queue') = 0
    BY <1>2 DEF WorkerWait
  <2> QED
    BY <2>1, <1>a
<1>3. ASSUME queue' = queue, At({"cond"})' \subseteq At({"cond"}),
             At({"lock"}) \subseteq At({"lock"})'
      PROVE  Goal
  <2>1. Awake <= Cardinality(At({"lock"})')
    BY <1>3, <1>a, FS_Subset
  <2> QED
    BY <1>3, <2>1, <1>a, <1>b DEF WorkConserving
<1>4. ASSUME NEW w \in Workers, WorkerExit(w) PROVE Goal
  BY <1>4 DEF WorkerExit, StopWakesAll, At
<1>5. ASSUME NEW w \in Workers,
             WorkerRun(w) \/ WorkerFinish(w) \/ SpuriousWorker(w) \/ CreateThread(w)
      PROVE  Goal
  BY <1>5, <1>3 DEF WorkerRun, WorkerFinish, SpuriousWorker, CreateThread, At
<1>6. ASSUME NEW c \in Callers, WaitCall(c) \/ CallerStep(c) \/ SpuriousCaller(c)
      PROVE  Goal
  BY <1>6, <1>3 DEF WaitCall, CallerStep, WaitBlock, WaitReturn, SpuriousCaller, At
<1>7. ASSUME NEW j \in Jobs, AddWork(j) PROVE Goal
  <2>1. Len(queue') = Len(queue) + 1
    BY <1>7, AppendProperties DEF AddWork
  <2>2. PICK w \in At({"cond"}) : wpc' = [wpc EXCEPT ![w] = "lock"]
    BY <1>7 DEF AddWork, SignalWorker, At
  <2>3. w \in Workers /\ wpc[w] \notin {"lock"} /\ "lock" \in {"lock"}
    BY <2>2 DEF At
  <2>4. Cardinality(At({"lock"})') = Awake + 1
    BY <2>2, <2>3, MoveIn
  <2> QED
    BY <2>1, <2>2, <2>4, <1>a, <1>b DEF WorkConserving
<1>8. ASSUME NEW j \in Jobs, AddWorkStopped(j) PROVE Goal
  BY <1>8, <1>3 DEF AddWorkStopped, At
<1>9. CASE CreateFail \/ Destroy
  BY <1>9 DEF CreateFail, Destroy, WakeAllWorkers, At
<1>10. CASE CreateFailReturn \/ DestroyReturn \/ UNCHANGED vars
  BY <1>10, <1>3 DEF CreateFailReturn, DestroyReturn, vars, At
<1> QED
  BY <1>1, <1>2, <1>4, <1>5, <1>6, <1>7, <1>8, <1>9, <1>10
     DEF Next, WorkerStep, OwnerStep, Gone

\* No wakeup is lost between tpool_add_work's signal and a worker about to
\* sleep: while one sleeps, every queued work object has an awake worker.
THEOREM ConservingCorrect == SafetySpec => []WorkConserving
<1>1. Init => WorkConserving
  BY DEF Init, WorkConserving, At
<1> QED
  BY <1>1, BaseInit, BaseStep, StopCorrect, ConservingStep, PTL DEF SafetySpec

-----------------------------------------------------------------------------
(* Where the work objects are.                                             *)

\* stop is set for good by the two ways the pool ends.  Only after that is a
\* work object dropped or refused, and no caller is in tpool_wait then.
Phases ==
  /\ stop <=> opc \in {"failjoin", "null", "join", "destroyed"}
  /\ ~stop => dropped = {} /\ refused = {}
  /\ opc # "open" => \A c \in Callers : cpc[c] = "idle"

\* Each work object is in exactly one place: not handed in, queued once, held
\* by one worker, finished, dropped by tpool_destroy, or refused by
\* tpool_add_work.
OnePlaceEach ==
  /\ Jobs = fresh \cup Queued \cup Held \cup done \cup dropped \cup refused
  /\ fresh \cap (Queued \cup Held \cup done \cup dropped \cup refused) = {}
  /\ Queued \cap (Held \cup done \cup dropped \cup refused) = {}
  /\ Held \cap (done \cup dropped \cup refused) = {}
  /\ done \cap (dropped \cup refused) = {}
  /\ dropped \cap refused = {}
  /\ Distinct(queue)
  /\ \A v, w \in At({"run"}) : job[v] = job[w] => v = w

\* The pool's own name for what is in its queue.
LEMMA QueuedElements == Queued = Elements(queue)
  BY DEF Queued, Elements

\* Every critical section keeps the phases.
LEMMA PhasesStep == Base /\ Phases /\ [Next]_vars => Phases'
<1> SUFFICES ASSUME Base, Phases, [Next]_vars PROVE Phases'
  OBVIOUS
<1> USE DEF Base, TypeOK, Phases, OwnerLabels, poolVars, jobSets, workerVars
<1>1. ASSUME NEW w \in Workers, WorkerStep(w) \/ SpuriousWorker(w) PROVE Phases'
  BY <1>1 DEF WorkerStep, WorkerWait, WorkerExit, WorkerTake, WorkerRun, WorkerFinish,
              SpuriousWorker, WakeAllCallers
<1>2. ASSUME NEW c \in Callers, WaitCall(c) \/ CallerStep(c) \/ SpuriousCaller(c)
      PROVE  Phases'
  BY <1>2 DEF WaitCall, CallerStep, WaitBlock, WaitReturn, SpuriousCaller
<1>3. ASSUME NEW j \in Jobs, AddWork(j) \/ AddWorkStopped(j) PROVE Phases'
  BY <1>3 DEF AddWork, AddWorkStopped
<1>4. ASSUME NEW w \in Workers, CreateThread(w) PROVE Phases'
  BY <1>4 DEF CreateThread
<1>5. CASE CreateFail \/ CreateFailReturn \/ DestroyReturn
  BY <1>5 DEF CreateFail, CreateFailReturn, DestroyReturn
<1>6. CASE Destroy
  BY <1>6 DEF Destroy, WakeAllCallers
<1>7. CASE UNCHANGED vars
  BY <1>7 DEF vars
<1> QED
  BY <1>1, <1>2, <1>3, <1>4, <1>5, <1>6, <1>7 DEF Next, OwnerStep, Gone

\* A step that leaves the workers' jobs and the sets alone leaves every work
\* object where it is.
LEMMA PlacesStutter ==
  ASSUME Base, OnePlaceEach, UNCHANGED <<queue, job, jobSets>>, At({"run"})' = At({"run"})
  PROVE  OnePlaceEach' /\ Held' = Held /\ Queued' = Queued
<1>1. Held' = Held /\ Queued' = Queued
  BY DEF Held, Queued
<1> QED
  BY <1>1 DEF OnePlaceEach, Distinct, jobSets

\* What WorkerTake does to the places: the head of the queue is held.
LEMMA TakePlaces ==
  ASSUME Base, OnePlaceEach, NEW w \in Workers, WorkerTake(w)
  PROVE  /\ Held' = Held \cup {Head(queue)}
         /\ Queued' = Queued \ {Head(queue)}
         /\ Head(queue) \in Queued
         /\ OnePlaceEach'
<1> DEFINE h == Head(queue)
<1>1. /\ h \in Queued /\ h \in Jobs /\ Queued' = Queued \ {h} /\ Distinct(queue')
  <2>1. queue \in Seq(Jobs) /\ queue # <<>> /\ queue' = Tail(queue) /\ Distinct(queue)
    BY DEF Base, TypeOK, WorkerTake, OnePlaceEach
  <2>2. Queued' = Elements(queue')
    BY DEF Queued, Elements
  <2> QED
    BY <2>1, <2>2, TailQueue, QueuedElements
<1>2. /\ At({"run"})' = At({"run"}) \cup {w} /\ w \notin At({"run"})
      /\ job'[w] = h /\ \A v \in At({"run"}) : job'[v] = job[v]
  BY DEF Base, TypeOK, WorkerTake, At
<1> HIDE DEF h
<1>3. Held' = Held \cup {h}
  BY <1>2 DEF Held
<1>4. h \notin Held
  BY <1>1 DEF OnePlaceEach
<1>5. \A u, v \in At({"run"})' : job'[u] = job'[v] => u = v
  BY <1>2, <1>4 DEF OnePlaceEach, Held
<1>6. UNCHANGED jobSets
  BY DEF WorkerTake
<1>7. OnePlaceEach'
  BY <1>1, <1>3, <1>4, <1>5, <1>6 DEF OnePlaceEach, jobSets
<1> QED
  BY <1>1, <1>3, <1>7 DEF h

\* What WorkerRun does to the places: the work object the worker holds is done.
LEMMA RunPlaces ==
  ASSUME Base, OnePlaceEach, NEW w \in Workers, WorkerRun(w)
  PROVE  /\ job[w] \in Held
         /\ Held' = Held \ {job[w]}
         /\ Queued' = Queued
         /\ OnePlaceEach'
<1>1. /\ At({"run"})' = At({"run"}) \ {w} /\ w \in At({"run"})
      /\ \A v \in At({"run"}) : v # w => job'[v] = job[v]
  BY DEF Base, TypeOK, WorkerRun, At
<1>2. job[w] \in Held
  BY <1>1 DEF Held
<1>3. Held' = Held \ {job[w]}
  BY <1>1 DEF Held, OnePlaceEach
<1>4. Queued' = Queued /\ Distinct(queue')
  BY DEF WorkerRun, poolVars, Queued, OnePlaceEach
<1>5. \A u, v \in At({"run"})' : job'[u] = job'[v] => u = v
  BY <1>1 DEF OnePlaceEach
<1>6. UNCHANGED <<fresh, dropped, refused>> /\ done' = done \cup {job[w]}
  BY DEF WorkerRun
<1>7. OnePlaceEach'
  BY <1>2, <1>3, <1>4, <1>5, <1>6 DEF OnePlaceEach
<1> QED
  BY <1>2, <1>3, <1>4, <1>7

\* What tpool_add_work does to the places.
LEMMA AddPlaces ==
  ASSUME Base, OnePlaceEach, NEW j \in Jobs, AddWork(j)
  PROVE  /\ Held' = Held
         /\ Queued' = Queued \cup {j}
         /\ OnePlaceEach'
<1>1. At({"run"})' = At({"run"})
  BY DEF Base, TypeOK, AddWork, SignalWorker, At
<1>2. Held' = Held
  BY <1>1 DEF Held, AddWork
<1>3. j \in fresh /\ j \notin Queued
  BY DEF AddWork, OnePlaceEach
<1>4. Queued' = Queued \cup {j} /\ Distinct(queue')
  <2>1. queue \in Seq(Jobs) /\ queue' = Append(queue, j) /\ Distinct(queue)
    BY DEF Base, TypeOK, AddWork, OnePlaceEach
  <2>2. Queued' = Elements(queue')
    BY DEF Queued, Elements
  <2> QED
    BY <1>3, <2>1, <2>2, AppendQueue, QueuedElements
<1>5. \A u, v \in At({"run"})' : job'[u] = job'[v] => u = v
  BY <1>1 DEF OnePlaceEach, AddWork
<1>6. fresh' = fresh \ {j} /\ UNCHANGED <<done, dropped, refused>>
  BY DEF AddWork
<1>7. OnePlaceEach'
  BY <1>2, <1>3, <1>4, <1>5, <1>6 DEF OnePlaceEach
<1> QED
  BY <1>2, <1>4, <1>7

\* What tpool_destroy does to the places: the queue is dropped.
LEMMA DestroyPlaces ==
  ASSUME Base, OnePlaceEach, Phases, Destroy
  PROVE  /\ Held' = Held
         /\ Queued' = {}
         /\ OnePlaceEach'
<1>1. At({"run"})' = At({"run"})
  BY DEF Base, TypeOK, Destroy, WakeAllWorkers, At
<1>2. Held' = Held
  BY <1>1 DEF Held, Destroy
<1>3. Queued' = {} /\ Distinct(queue')
  BY EmptyQueue DEF Destroy, Queued, Elements
<1>4. dropped = {} /\ dropped' = Queued /\ UNCHANGED <<fresh, done, refused>>
  BY DEF Destroy, Phases
<1>5. \A u, v \in At({"run"})' : job'[u] = job'[v] => u = v
  BY <1>1 DEF OnePlaceEach, Destroy
<1>6. OnePlaceEach'
  BY <1>2, <1>3, <1>4, <1>5 DEF OnePlaceEach
<1> QED
  BY <1>2, <1>3, <1>6

\* Every critical section keeps each work object in one place.
LEMMA PlacesStep == Base /\ Phases /\ OnePlaceEach /\ [Next]_vars => OnePlaceEach'
<1> SUFFICES ASSUME Base, Phases, OnePlaceEach, [Next]_vars PROVE OnePlaceEach'
  OBVIOUS
<1> USE DEF poolVars, jobSets, workerVars
<1>1. ASSUME NEW w \in Workers, WorkerTake(w) PROVE OnePlaceEach'
  BY <1>1, TakePlaces
<1>2. ASSUME NEW w \in Workers, WorkerRun(w) PROVE OnePlaceEach'
  BY <1>2, RunPlaces
<1>3. ASSUME NEW w \in Workers,
             \/ WorkerWait(w) \/ WorkerExit(w) \/ WorkerFinish(w)
             \/ SpuriousWorker(w) \/ CreateThread(w)
      PROVE  OnePlaceEach'
  <2>1. UNCHANGED <<queue, job, jobSets>> /\ At({"run"})' = At({"run"})
    BY <1>3 DEF WorkerWait, WorkerExit, WorkerFinish, SpuriousWorker, CreateThread,
                Base, TypeOK, At
  <2> QED
    BY <2>1, PlacesStutter
<1>4. ASSUME NEW c \in Callers, WaitCall(c) \/ CallerStep(c) \/ SpuriousCaller(c)
      PROVE  OnePlaceEach'
  <2>1. UNCHANGED <<queue, job, jobSets>> /\ At({"run"})' = At({"run"})
    BY <1>4 DEF WaitCall, CallerStep, WaitBlock, WaitReturn, SpuriousCaller, At
  <2> QED
    BY <2>1, PlacesStutter
<1>5. ASSUME NEW j \in Jobs, AddWork(j) PROVE OnePlaceEach'
  BY <1>5, AddPlaces
<1>6. ASSUME NEW j \in Jobs, AddWorkStopped(j) PROVE OnePlaceEach'
  <2>1. At({"run"})' = At({"run"}) /\ Held' = Held /\ Queued' = Queued /\ queue' = queue
    BY <1>6 DEF AddWorkStopped, At, Held, Queued
  <2> QED
    BY <1>6, <2>1 DEF AddWorkStopped, OnePlaceEach
<1>7. CASE Destroy
  BY <1>7, DestroyPlaces
<1>8. CASE CreateFail \/ CreateFailReturn \/ DestroyReturn \/ UNCHANGED vars
  <2>1. UNCHANGED <<queue, job, jobSets>> /\ At({"run"})' = At({"run"})
    BY <1>8 DEF CreateFail, CreateFailReturn, DestroyReturn, WakeAllWorkers, vars,
                Base, TypeOK, At
  <2> QED
    BY <2>1, PlacesStutter
<1> QED
  BY <1>1, <1>2, <1>3, <1>4, <1>5, <1>6, <1>7, <1>8
     DEF Next, WorkerStep, OwnerStep, Gone

\* No work object is lost, queued or run twice, or freed by two: whatever the
\* threads do, each is in one place.
THEOREM PlacesCorrect == SafetySpec => [](Phases /\ OnePlaceEach)
<1>1. Init => Phases /\ OnePlaceEach
  <2> SUFFICES ASSUME Init PROVE Phases /\ OnePlaceEach
    OBVIOUS
  <2>1. Phases
    BY DEF Init, Phases
  <2>2. At({"run"}) = {} /\ Held = {} /\ Queued = {} /\ Distinct(queue)
    BY EmptyQueue DEF Init, At, Held, Queued, Elements
  <2> QED
    BY <2>1, <2>2 DEF Init, OnePlaceEach
<1> QED
  BY <1>1, BaseInit, BaseStep, PhasesStep, PlacesStep, PTL DEF SafetySpec

-----------------------------------------------------------------------------
(* tpool_wait.                                                             *)

\* tpool_wait does not return before every work object accepted so far has
\* been run to its end.
THEOREM WaitCorrect == SafetySpec => WaitIsBarrier
<1> DEFINE IInv == Base /\ CountIsWorking /\ Phases /\ OnePlaceEach
<1>1. ASSUME IInv, Next, NEW c \in Callers, cpc[c] = "lock", cpc'[c] = "idle"
      PROVE  Jobs \ fresh = done
  <2> USE DEF Base, TypeOK, poolVars, jobSets, workerVars
  <2>1. WaitReturn(c)
    <3>1. ASSUME NEW w \in Workers, WorkerStep(w) \/ SpuriousWorker(w) \/ CreateThread(w)
          PROVE  FALSE
      BY <1>1, <3>1 DEF WorkerStep, WorkerWait, WorkerExit, WorkerTake, WorkerRun,
                        WorkerFinish, WakeAllCallers, SpuriousWorker, CreateThread
    <3>2. ASSUME NEW d \in Callers, WaitCall(d) \/ WaitBlock(d) \/ SpuriousCaller(d)
          PROVE  FALSE
      BY <1>1, <3>2 DEF WaitCall, WaitBlock, SpuriousCaller
    <3>3. ASSUME NEW d \in Callers, WaitReturn(d) PROVE WaitReturn(c)
      BY <1>1, <3>3 DEF WaitReturn
    <3>4. ASSUME NEW j \in Jobs, AddWork(j) \/ AddWorkStopped(j) PROVE FALSE
      BY <1>1, <3>4 DEF AddWork, AddWorkStopped
    <3>5. CASE CreateFail \/ CreateFailReturn \/ DestroyReturn \/ Destroy \/ Gone
      BY <1>1, <3>5 DEF CreateFail, CreateFailReturn, DestroyReturn, Destroy, Gone, vars
    <3> QED
      BY <1>1, <3>1, <3>2, <3>3, <3>4, <3>5 DEF Next, CallerStep, OwnerStep
  <2>2. queue = <<>> /\ working_cnt = 0
    BY <2>1 DEF WaitReturn, Busy
  <2>3. At({"run", "finish"}) = {}
    BY <1>1, <2>2, AtFinite, FS_EmptySet DEF CountIsWorking
  <2>4. Held = {} /\ Queued = {}
    BY <2>2, <2>3, EmptyQueue, QueuedElements DEF Held, At
  <2>5. dropped = {} /\ refused = {}
    BY <1>1 DEF Phases
  <2> QED
    BY <1>1, <2>4, <2>5 DEF OnePlaceEach
<1>2. IInv /\ [Next]_vars =>
        [\A c \in Callers : cpc[c] = "lock" /\ cpc'[c] = "idle" => Jobs \ fresh = done]_vars
  BY <1>1
<1> QED
  BY <1>2, BaseInit, BaseStep, CountCorrect, PlacesCorrect, PTL
     DEF SafetySpec, WaitIsBarrier

-----------------------------------------------------------------------------
(* The pool implements WorkPool.                                           *)

\* What the mapping sees of a critical section that only moves threads.
LEMMA AbsStutter ==
  ASSUME Held' = Held, UNCHANGED <<queue, done, dropped, refused, stop>>,
         {c \in Callers : cpc[c] # "idle"}' = {c \in Callers : cpc[c] # "idle"}
  PROVE  UNCHANGED Abs!vars
  BY DEF Abs!vars

\* A worker's critical sections: WorkPool's Start, Complete, or nothing.
LEMMA WorkerImplements ==
  ASSUME Base, Phases, OnePlaceEach, NEW w \in Workers,
         WorkerStep(w) \/ SpuriousWorker(w) \/ CreateThread(w)
  PROVE  [Abs!Next]_(Abs!vars)
<1> USE DEF Base, TypeOK, poolVars, jobSets, workerVars
<1> DEFINE Away == {c \in Callers : cpc[c] # "idle"}
<1>1. CASE WorkerTake(w)
  <2>1. queue # <<>> /\ queue' = Tail(queue) /\ Held' = Held \cup {Head(queue)}
    BY <1>1, TakePlaces DEF WorkerTake
  <2>2. Cardinality(Held) < Cardinality(Workers)
    <3>1. At({"run"}) \subseteq Workers \ {w}
      BY <1>1 DEF WorkerTake, At
    <3>2. IsFiniteSet(At({"run"})) /\ Cardinality(At({"run"})) < Cardinality(Workers)
      <4>1. /\ IsFiniteSet(Workers \ {w})
            /\ Cardinality(Workers \ {w}) = Cardinality(Workers) - 1
            /\ Cardinality(Workers) \in Nat
        BY FS_RemoveElement, FS_CardinalityType
      <4>2. /\ IsFiniteSet(At({"run"}))
            /\ Cardinality(At({"run"})) <= Cardinality(Workers \ {w})
        BY <3>1, <4>1, FS_Subset
      <4>3. Cardinality(At({"run"})) \in Nat
        BY <4>2, FS_CardinalityType
      <4> QED
        BY <4>1, <4>2, <4>3
    <3>3. Cardinality(Held) <= Cardinality(At({"run"})) /\ Cardinality(Held) \in Nat
      <4> DEFINE f == [v \in At({"run"}) |-> job[v]]
      <4>1. f \in Surjection(At({"run"}), Held)
        BY DEF Surjection, Held
      <4>2. IsFiniteSet(Held) /\ Cardinality(Held) <= Cardinality(At({"run"}))
        BY <3>2, <4>1, FS_Surjection
      <4> QED
        BY <4>2, FS_CardinalityType
    <3>4. Cardinality(At({"run"})) \in Nat /\ Cardinality(Workers) \in Nat
      BY <3>2, FS_CardinalityType
    <3> QED
      BY <3>2, <3>3, <3>4
  <2>3. UNCHANGED <<done, dropped, refused, stop, cpc>>
    BY <1>1 DEF WorkerTake
  <2>4. Abs!Cardinality(Held) = Cardinality(Held)
    BY DEF Abs!Cardinality, Cardinality
  <2>5. Abs!Start
    BY <2>1, <2>2, <2>3, <2>4 DEF Abs!Start
  <2> QED
    BY <2>5 DEF Abs!Next
<1>2. CASE WorkerRun(w)
  <2>1. job[w] \in Held /\ job[w] \in Jobs /\ Held' = Held \ {job[w]}
    BY <1>2, RunPlaces DEF WorkerRun, HoldsJob
  <2>2. done' = done \cup {job[w]} /\ UNCHANGED <<queue, dropped, refused, stop, cpc>>
    BY <1>2 DEF WorkerRun
  <2>3. Abs!Complete(job[w])
    BY <2>1, <2>2 DEF Abs!Complete
  <2> QED
    BY <2>1, <2>3 DEF Abs!Next
<1>3. CASE \/ WorkerWait(w) \/ WorkerExit(w) \/ WorkerFinish(w)
           \/ SpuriousWorker(w) \/ CreateThread(w)
  <2>1. At({"run"})' = At({"run"}) /\ Away' = Away
        /\ UNCHANGED <<queue, job, done, dropped, refused, stop>>
    BY <1>3 DEF WorkerWait, WorkerExit, WorkerFinish, SpuriousWorker, CreateThread,
                WakeAllCallers, At
  <2>2. Held' = Held
    BY <2>1 DEF Held
  <2> QED
    BY <2>1, <2>2, AbsStutter
<1> QED
  BY <1>1, <1>2, <1>3 DEF WorkerStep

\* The critical sections of tpool_wait: WorkPool's Enter, Return, or nothing.
LEMMA CallerImplements ==
  ASSUME Base, CountIsWorking, Phases, NEW c \in Callers,
         WaitCall(c) \/ CallerStep(c) \/ SpuriousCaller(c)
  PROVE  [Abs!Next]_(Abs!vars)
<1> USE DEF Base, TypeOK, poolVars, jobSets, workerVars
<1> DEFINE Away == {d \in Callers : cpc[d] # "idle"}
<1>1. Held' = Held /\ UNCHANGED <<queue, done, dropped, refused, stop>>
  BY DEF WaitCall, CallerStep, WaitBlock, WaitReturn, SpuriousCaller, Held, At
<1>2. CASE WaitCall(c)
  <2>1. ~stop /\ c \notin Away /\ Away' = Away \cup {c}
    BY <1>2 DEF WaitCall, Phases
  <2>2. Abs!Enter(c)
    BY <1>1, <2>1 DEF Abs!Enter
  <2> QED
    BY <2>2 DEF Abs!Next
<1>3. CASE WaitReturn(c)
  <2>1. c \in Away /\ Away' = Away \ {c} /\ queue = <<>> /\ working_cnt = 0
    BY <1>3 DEF WaitReturn, Busy
  <2>2. At({"run", "finish"}) = {}
    BY <2>1, AtFinite, FS_EmptySet DEF CountIsWorking
  <2>3. Held = {}
    BY <2>2 DEF Held, At
  <2>4. Abs!Return(c)
    BY <1>1, <2>1, <2>3 DEF Abs!Return, Abs!Idle
  <2> QED
    BY <2>4 DEF Abs!Next
<1>4. CASE WaitBlock(c) \/ SpuriousCaller(c)
  <2>1. Away' = Away
    BY <1>4 DEF WaitBlock, SpuriousCaller
  <2> QED
    BY <1>1, <2>1, AbsStutter
<1> QED
  BY <1>2, <1>3, <1>4 DEF CallerStep

\* tpool_add_work: WorkPool's Submit or Refuse.
LEMMA AddImplements ==
  ASSUME Base, OnePlaceEach, NEW j \in Jobs, AddWork(j) \/ AddWorkStopped(j)
  PROVE  [Abs!Next]_(Abs!vars)
<1> USE DEF Base, TypeOK, poolVars, jobSets, workerVars
<1>1. j \notin Abs!Known
  BY DEF AddWork, AddWorkStopped, OnePlaceEach, Abs!Known, Abs!Queued, Queued
<1>2. CASE AddWork(j)
  <2>1. Held' = Held /\ queue' = Append(queue, j) /\ ~stop
        /\ UNCHANGED <<done, dropped, refused, stop, cpc>>
    BY <1>2, AddPlaces DEF AddWork
  <2>2. Abs!Submit(j)
    BY <1>1, <2>1 DEF Abs!Submit
  <2> QED
    BY <2>2 DEF Abs!Next
<1>3. CASE AddWorkStopped(j)
  <2>1. Held' = Held /\ stop /\ refused' = refused \cup {j}
        /\ UNCHANGED <<queue, done, dropped, stop, cpc>>
    BY <1>3 DEF AddWorkStopped, Held, At
  <2>2. Abs!Refuse(j)
    BY <1>1, <2>1 DEF Abs!Refuse
  <2> QED
    BY <2>2 DEF Abs!Next
<1> QED
  BY <1>2, <1>3

\* tpool_destroy, and tpool_create when it fails: WorkPool's Close, or nothing.
LEMMA OwnerImplements ==
  ASSUME Base, Phases, OnePlaceEach,
         CreateFail \/ CreateFailReturn \/ DestroyReturn \/ Destroy
  PROVE  [Abs!Next]_(Abs!vars)
<1> USE DEF Base, TypeOK, poolVars, jobSets, workerVars
<1> DEFINE Away == {c \in Callers : cpc[c] # "idle"}
<1>1. CASE Destroy
  <2>1. Held' = Held
    BY <1>1, DestroyPlaces
  <2>2. Away = {} /\ Away' = {}
    BY <1>1 DEF Destroy, WakeAllCallers
  <2>3. ~stop /\ stop' /\ queue' = <<>> /\ dropped' = Abs!Queued /\ UNCHANGED <<done, refused>>
    BY <1>1 DEF Destroy, Phases, Queued, Abs!Queued
  <2>4. Abs!Close
    BY <2>1, <2>2, <2>3 DEF Abs!Close
  <2> QED
    BY <2>4 DEF Abs!Next
<1>2. CASE CreateFail
  <2>1. Held' = Held
    BY <1>2 DEF CreateFail, WakeAllWorkers, Held, At
  <2>2. Away = {} /\ Away' = {}
    BY <1>2 DEF CreateFail, Phases
  <2>3. queue = <<>> /\ dropped = {} /\ ~stop /\ stop' /\ UNCHANGED <<queue, done, dropped, refused>>
    BY <1>2 DEF CreateFail, Phases, CreateQuiet
  <2>4. Abs!Queued = {}
    BY <2>3, EmptyQueue DEF Abs!Queued, Elements
  <2>5. Abs!Close
    BY <2>1, <2>2, <2>3, <2>4 DEF Abs!Close
  <2> QED
    BY <2>5 DEF Abs!Next
<1>3. CASE CreateFailReturn \/ DestroyReturn
  <2>1. Held' = Held /\ Away' = Away /\ UNCHANGED <<queue, done, dropped, refused, stop>>
    BY <1>3 DEF CreateFailReturn, DestroyReturn, Held, At
  <2> QED
    BY <2>1, AbsStutter
<1> QED
  BY <1>1, <1>2, <1>3

\* Threads, mutex and condition variables implement what tpool.h promises: every
\* behaviour of the pool is, through the mapping of Abs, one of WorkPool.
THEOREM PoolImplements == SafetySpec => Abs!SafetySpec
<1> DEFINE IInv == Base /\ CountIsWorking /\ Phases /\ OnePlaceEach
<1>1. Init => Abs!Init
  BY DEF Init, Abs!Init, Held, At
<1>2. IInv /\ [Next]_vars => [Abs!Next]_(Abs!vars)
  <2> SUFFICES ASSUME IInv, [Next]_vars PROVE [Abs!Next]_(Abs!vars)
    OBVIOUS
  <2>1. ASSUME NEW w \in Workers, WorkerStep(w) \/ SpuriousWorker(w) \/ CreateThread(w)
        PROVE  [Abs!Next]_(Abs!vars)
    BY <2>1, WorkerImplements
  <2>2. ASSUME NEW c \in Callers, WaitCall(c) \/ CallerStep(c) \/ SpuriousCaller(c)
        PROVE  [Abs!Next]_(Abs!vars)
    BY <2>2, CallerImplements
  <2>3. ASSUME NEW j \in Jobs, AddWork(j) \/ AddWorkStopped(j)
        PROVE  [Abs!Next]_(Abs!vars)
    BY <2>3, AddImplements
  <2>4. CASE CreateFail \/ CreateFailReturn \/ DestroyReturn \/ Destroy
    BY <2>4, OwnerImplements
  <2>5. CASE UNCHANGED vars
    <3>1. Held' = Held /\ UNCHANGED <<queue, done, dropped, refused, stop, cpc>>
      BY <2>5 DEF vars, Held, At
    <3> QED
      BY <3>1, AbsStutter
  <2> QED
    BY <2>1, <2>2, <2>3, <2>4, <2>5 DEF Next, OwnerStep, Gone
<1> QED
  BY <1>1, <1>2, BaseInit, BaseStep, CountCorrect, PlacesCorrect, PTL
     DEF SafetySpec, Abs!SafetySpec
=============================================================================
