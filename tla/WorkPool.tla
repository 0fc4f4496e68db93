------------------------------ MODULE WorkPool ------------------------------
(***************************************************************************)
(* What tpool/include/tpool.h promises its callers, without threads,       *)
(* mutexes or condition variables: a bounded number of jobs run at a time, *)
(* in the order they were handed in; waiting returns only when nothing is  *)
(* queued or running; destroying the pool drops what is still queued and   *)
(* refuses what comes later.  TPool implements this specification.         *)
(***************************************************************************)
EXTENDS Naturals, Sequences, FiniteSets

CONSTANTS Jobs,      \* the work handed to tpool_add_work
          Callers,   \* the threads that may call tpool_wait
          Capacity   \* how many jobs run at a time

VARIABLES pending,   \* accepted jobs that have not started, oldest first
          running,   \* jobs being executed
          done,      \* jobs whose function has returned
          dropped,   \* jobs still queued when the pool was destroyed
          refused,   \* jobs tpool_add_work returned false for
          waiting,   \* callers inside tpool_wait
          open       \* FALSE once the pool is being destroyed

vars == <<pending, running, done, dropped, refused, waiting, open>>

Queued == {pending[i] : i \in DOMAIN pending}

Known == Queued \cup running \cup done \cup dropped \cup refused

Idle == pending = <<>> /\ running = {}

Init ==
  /\ pending = <<>>
  /\ running = {}
  /\ done = {}
  /\ dropped = {}
  /\ refused = {}
  /\ waiting = {}
  /\ open = TRUE

Submit(j) ==
  /\ open
  /\ j \notin Known
  /\ pending' = Append(pending, j)
  /\ UNCHANGED <<running, done, dropped, refused, waiting, open>>

Refuse(j) ==
  /\ ~open
  /\ j \notin Known
  /\ refused' = refused \cup {j}
  /\ UNCHANGED <<pending, running, done, dropped, waiting, open>>

Start ==
  /\ pending # <<>>
  /\ Cardinality(running) < Capacity
  /\ pending' = Tail(pending)
  /\ running' = running \cup {Head(pending)}
  /\ UNCHANGED <<done, dropped, refused, waiting, open>>

Complete(j) ==
  /\ j \in running
  /\ running' = running \ {j}
  /\ done' = done \cup {j}
  /\ UNCHANGED <<pending, dropped, refused, waiting, open>>

Enter(c) ==
  /\ open
  /\ c \notin waiting
  /\ waiting' = waiting \cup {c}
  /\ UNCHANGED <<pending, running, done, dropped, refused, open>>

Return(c) ==
  /\ c \in waiting
  /\ Idle
  /\ waiting' = waiting \ {c}
  /\ UNCHANGED <<pending, running, done, dropped, refused, open>>

Close ==
  /\ open
  /\ waiting = {}
  /\ open' = FALSE
  /\ dropped' = Queued
  /\ pending' = <<>>
  /\ UNCHANGED <<running, done, refused, waiting>>

Next ==
  \/ \E j \in Jobs : Submit(j) \/ Refuse(j) \/ Complete(j)
  \/ \E c \in Callers : Enter(c) \/ Return(c)
  \/ Start
  \/ Close

\* A queued job starts as long as there is room, a running one completes and
\* a caller whose wait is over returns.
Fairness ==
  /\ WF_vars(Start)
  /\ \A j \in Jobs : WF_vars(Complete(j))
  /\ \A c \in Callers : WF_vars(Return(c))

SafetySpec == Init /\ [][Next]_vars

Spec == SafetySpec /\ Fairness
=============================================================================
