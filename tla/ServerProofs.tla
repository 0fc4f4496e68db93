---------------------------- MODULE ServerProofs ----------------------------
(***************************************************************************)
(* What TLC checks of Server on a few connections, proved for any number   *)
(* of connections, slots, workers and runs, and for both applications.     *)
(***************************************************************************)
EXTENDS Server, DataLemmas, FiniteSetTheorems

USE ServerAssumption

AllParts == {Parts[i] : i \in DOMAIN Parts}

Prefix(k) == {Parts[i] : i \in 1..k}

-----------------------------------------------------------------------------
(* The inductive invariant, in parts.                                      *)

\* Nothing has reached the pool yet.
Fresh == Live = {} /\ running = {} /\ pending = <<>>

\* What the main thread's place says of the parts of server_t, of the events in
\* hand and of the pool.
Stages ==
  /\ mpc = "create" => Fresh /\ \E k \in 0..6 : owned = Prefix(k) /\ Cardinality(owned) = k
  /\ mpc \in {"check", "poll", "wait", "batch"} => owned = AllParts
  /\ mpc \in {"shutdown", "enter", "poolwait", "pooldestroy"} => owned = AllParts \/ Fresh
  /\ mpc # "batch" => batch = {}
  /\ open <=> mpc \notin {"registry", "done"}
  /\ waiting = IF mpc = "poolwait" THEN {Main} ELSE {}
  /\ mpc \in {"pooldestroy", "registry", "done"} => pending = <<>> /\ running = {}
  /\ dropped = {} /\ refused = {}
  /\ mpc = "done" => owned = {} /\ Live = {}

\* A job is queued once, or it runs and has a phase.
JobsPlaced ==
  /\ Distinct(pending)
  /\ \A j \in Jobs : phase[j] # "none" <=> j \in running
  /\ Elements(pending) \cap running = {}

\* A connection is live while it is in somebody's hands, and those are epoll's,
\* main's, or one job's.
Hands ==
  \A c \in Clients :
    /\ \A j, k \in Using(c) : j = k
    /\ \A e, f \in Fetched(c) : e = f
    /\ c \in armed => Using(c) = {} /\ Fetched(c) = {}
    /\ Fetched(c) # {} => Using(c) = {}
    /\ c \in Live <=> c \in armed \/ Using(c) # {} \/ Fetched(c) # {}

Known(c) == c \in Clients /\ mem[c] # "none"

SlotsAgree == \A c \in Clients, s \in Slots : slots[s] = c <=> idx[c] = s

\* A client is out of the registry before it is freed, and after its session; an admin
\* who destroys one knows which.
Listed ==
  /\ SlotsAgree
  /\ \A c \in Live : HasSession(c) => idx[c] # NoSlot
  /\ \A j \in Jobs : phase[j] = "free" => idx[j[1]] = NoSlot
  /\ \A j \in Jobs : phase[j] \in {"kick", "kickfree"} => Known(victim[j])
  /\ \A j \in Jobs : phase[j] = "kickfree" => idx[victim[j]] = NoSlot
  /\ Registered \subseteq Live

\* A connection that epoll will report, or has reported, for what its client has
\* sent may have another job.
Asked ==
  /\ \A c \in backlog : mem[c] = "none"
  /\ \A c \in Clients : mem[c] = "none" => data[c] = "none"
  /\ \A c \in Live : data[c] # "none" =>
       Cardinality(JobsOf(c)) < MaxRuns \/ \E j \in Using(c) : phase[j] # "rearm"
  /\ \A e \in batch : ~e.hup /\ e.client # NoClient => data[e.client] # "none"

\* What holds until opcode_disconnect has done something undefined.
Sound == TypeOK /\ Stages /\ JobsPlaced /\ Hands /\ Listed /\ Asked

IInv == TypeOK /\ Stages /\ RegistryAgrees /\ (~broken => Sound)

-----------------------------------------------------------------------------
(* The operators.                                                          *)

\* The parts of server_t are the seven.
LEMMA PartsSeven ==
  /\ DOMAIN Parts = 1..7 /\ Len(Parts) = 7
  /\ Prefix(0) = {} /\ Prefix(7) = AllParts
  /\ \A k \in 0..6 : Parts[k + 1] \notin Prefix(k) /\ Prefix(k + 1) = Prefix(k) \cup {Parts[k + 1]}
<1>1. DOMAIN Parts = 1..7 /\ Len(Parts) = 7
  BY DEF Parts
<1>2. \A i, k \in 1..7 : Parts[i] = Parts[k] => i = k
  BY DEF Parts
<1>3. Prefix(0) = {} /\ Prefix(7) = AllParts
  BY <1>1 DEF Prefix, AllParts
<1>4. ASSUME NEW k \in 0..6
      PROVE  Parts[k + 1] \notin Prefix(k) /\ Prefix(k + 1) = Prefix(k) \cup {Parts[k + 1]}
  <2>1. 1..(k + 1) = (1..k) \cup {k + 1} /\ 1..k \subseteq 1..7 /\ k + 1 \in 1..7 /\ k + 1 \notin 1..k
    OBVIOUS
  <2> QED
    BY <1>2, <2>1 DEF Prefix
<1> QED
  BY <1>1, <1>3, <1>4

\* What is in the pool's queue, in this module's words.
LEMMA QueuedElements == Pool!Queued = Elements(pending)
  BY DEF Pool!Queued, Elements

\* A job queued or in a busy phase has the client in its hands.
LEMMA UsingIs ==
  \A c \in Clients :
    Using(c) = {j \in Jobs : j[1] = c /\ (j \in Elements(pending) \/ phase[j] \in Busy)}
  BY QueuedElements DEF Using, Busy

\* The jobs of a connection can be counted.
LEMMA JobsFinite ==
  ASSUME TypeOK, NEW c \in Clients
  PROVE  IsFiniteSet(JobsOf(c)) /\ Cardinality(JobsOf(c)) \in Nat
<1>1. Pool!Known \subseteq Jobs
  BY QueuedElements, QueueType DEF TypeOK, Pool!Known
<1>2. JobsOf(c) \subseteq {c} \X (1..MaxRuns)
  BY <1>1 DEF JobsOf, Jobs
<1>3. IsFiniteSet({c} \X (1..MaxRuns))
  <2>1. IsFiniteSet({c})
    BY FS_Singleton
  <2>2. IsFiniteSet(1..MaxRuns)
    BY FS_Interval
  <2> QED
    BY <2>1, <2>2, FS_Product
<1> QED
  BY <1>2, <1>3, FS_Subset, FS_CardinalityType

\* A connection reported for what its client has sent has a job left.
LEMMA NextJobFits ==
  ASSUME Sound, NEW c \in Clients, Event(c, FALSE) \in batch
  PROVE  NextJob(c) \in Jobs
<1>1. Event(c, FALSE) \in Fetched(c) /\ c \in Live
  BY DEF Sound, Hands, Fetched, Event
<1>2. Using(c) = {}
  BY <1>1 DEF Sound, Hands
<1>3. data[c] # "none"
  BY DEF Sound, Asked, Event
<1>4. Cardinality(JobsOf(c)) < MaxRuns
  BY <1>1, <1>2, <1>3 DEF Sound, Asked
<1> QED
  BY <1>4, JobsFinite DEF Sound, NextJob, Jobs

-----------------------------------------------------------------------------
(* What steps do to Using.                                                 *)

\* A job that goes from one busy phase to another keeps its client.
LEMMA UsingKept ==
  ASSUME TypeOK, NEW j \in Jobs, NEW to \in Busy, phase[j] \in Busy,
         phase' = [phase EXCEPT ![j] = to], pending' = pending
  PROVE  \A c \in Clients : Using(c)' = Using(c)
<1>1. \A k \in Jobs : phase'[k] \in Busy <=> phase[k] \in Busy
  BY DEF TypeOK
<1>2. \A c \in Clients :
        Using(c)' = {k \in Jobs : k[1] = c /\ (k \in Elements(pending) \/ phase'[k] \in Busy)}
  BY QueuedElements DEF Using, Busy, Pool!Queued, Elements
<1> QED
  BY <1>1, <1>2, UsingIs

\* A job that lets go of its client is one user less.
LEMMA UsingLost ==
  ASSUME TypeOK, JobsPlaced, NEW j \in Jobs, phase[j] \in Busy,
         phase' = [phase EXCEPT ![j] = "return"], pending' = pending
  PROVE  \A c \in Clients : Using(c)' = Using(c) \ {j}
<1>1. \A k \in Jobs : phase'[k] \in Busy <=> phase[k] \in Busy /\ k # j
  BY DEF TypeOK, Busy
<1>2. \A c \in Clients :
        Using(c)' = {k \in Jobs : k[1] = c /\ (k \in Elements(pending) \/ phase'[k] \in Busy)}
  BY QueuedElements DEF Using, Busy, Pool!Queued, Elements
<1>3. j \notin Elements(pending)
  BY DEF JobsPlaced, Busy
<1> QED
  BY <1>1, <1>2, <1>3, UsingIs

\* Returning to the pool, a job has no client any more.
LEMMA UsingReturned ==
  ASSUME TypeOK, NEW j \in Jobs, phase[j] = "return",
         phase' = [phase EXCEPT ![j] = "none"], pending' = pending
  PROVE  \A c \in Clients : Using(c)' = Using(c)
<1>1. \A k \in Jobs : phase'[k] \in Busy <=> phase[k] \in Busy
  BY DEF TypeOK, Busy
<1>2. \A c \in Clients :
        Using(c)' = {k \in Jobs : k[1] = c /\ (k \in Elements(pending) \/ phase'[k] \in Busy)}
  BY QueuedElements DEF Using, Busy, Pool!Queued, Elements
<1> QED
  BY <1>1, <1>2, UsingIs

\* A job that starts had its client before, in the queue.
LEMMA UsingStarted ==
  ASSUME TypeOK, JobsPlaced, Start
  PROVE  /\ \A c \in Clients : Using(c)' = Using(c)
         /\ JobsPlaced'
         /\ Head(pending) \in Jobs /\ Head(pending) \notin running
         /\ pending' \in Seq(Jobs)
         /\ running' = running \cup {Head(pending)}
         /\ Elements(pending)' = Elements(pending) \ {Head(pending)}
         /\ Head(pending) \in Elements(pending)
<1> DEFINE h == Head(pending)
<1>1. /\ h \in Elements(pending) /\ h \in Jobs /\ pending' \in Seq(Jobs)
      /\ Elements(pending') = Elements(pending) \ {h}
      /\ Distinct(pending')
  BY TailQueue DEF TypeOK, JobsPlaced, Start, Pool!Start
<1>2. phase' = [phase EXCEPT ![h] = "run"] /\ running' = running \cup {h}
  BY DEF Start, Pool!Start
<1>3. phase \in [Jobs -> Phases]
  BY DEF TypeOK
<1>4. \A c \in Clients :
        Using(c)' = {k \in Jobs : k[1] = c /\ (k \in Elements(pending') \/ phase'[k] \in Busy)}
  BY QueuedElements DEF Using, Busy, Pool!Queued, Elements
<1> HIDE DEF h
<1>5. \A k \in Jobs : phase'[k] = IF k = h THEN "run" ELSE phase[k]
  BY <1>1, <1>2, <1>3
<1>6. \A c \in Clients : Using(c)' = Using(c)
  <2>1. \A k \in Jobs : k \in Elements(pending') \/ phase'[k] \in Busy
                          <=> k \in Elements(pending) \/ phase[k] \in Busy
    BY <1>1, <1>5 DEF Busy
  <2> QED
    BY <1>4, <2>1, UsingIs
<1>7. JobsPlaced'
  <2>1. \A j \in Jobs : phase'[j] # "none" <=> j \in running'
    BY <1>2, <1>5 DEF JobsPlaced
  <2>2. Elements(pending') \cap running' = {}
    BY <1>1, <1>2 DEF JobsPlaced
  <2> QED
    BY <1>1, <2>1, <2>2 DEF JobsPlaced
<1>8. h \notin running
  BY <1>1 DEF JobsPlaced
<1> QED
  BY <1>1, <1>2, <1>6, <1>7, <1>8 DEF h

\* A job that main submits has its client from then on.
LEMMA UsingSubmitted ==
  ASSUME TypeOK, JobsPlaced, NEW d \in Clients, Submit(d), NextJob(d) \in Jobs
  PROVE  /\ \A c \in Clients : Using(c)' = Using(c) \cup (IF c = d THEN {NextJob(d)} ELSE {})
         /\ JobsPlaced'
         /\ pending' \in Seq(Jobs)
         /\ Elements(pending)' = Elements(pending) \cup {NextJob(d)}
<1> DEFINE n == NextJob(d)
<1>1. n[1] = d
  BY DEF NextJob
<1>2. /\ n \notin Elements(pending) /\ n \notin running
      /\ pending' = Append(pending, n) /\ running' = running /\ phase' = phase
  BY QueuedElements DEF Submit, Pool!Submit, Pool!Known, jobVars
<1>3. \A c \in Clients :
        Using(c)' = {k \in Jobs : k[1] = c /\ (k \in Elements(pending') \/ phase'[k] \in Busy)}
  BY QueuedElements DEF Using, Busy, Pool!Queued, Elements
<1> HIDE DEF n
<1>4. /\ pending' \in Seq(Jobs) /\ Distinct(pending')
      /\ Elements(pending') = Elements(pending) \cup {n}
  BY <1>2, AppendQueue DEF TypeOK, JobsPlaced, n
<1>5. JobsPlaced'
  BY <1>2, <1>4 DEF JobsPlaced
<1>6. n \in Jobs
  BY DEF n
<1>7. \A c \in Clients : Using(c)' = Using(c) \cup (IF c = d THEN {n} ELSE {})
  BY <1>1, <1>2, <1>3, <1>4, <1>6, UsingIs
<1> QED
  BY <1>4, <1>5, <1>7 DEF n

\* A step that touches neither the queue nor the phases.
LEMMA UsingSame ==
  ASSUME UNCHANGED <<pending, phase>>
  PROVE  \A c \in Clients : Using(c)' = Using(c)
  BY DEF Using, Pool!Queued

\* A step of the main thread that only moves it, or takes the event of the
\* listening socket, leaves connections, registry, queue and jobs alone.
CalmStep ==
  \/ Create \/ CreateFails \/ CheckRunning \/ EpollEnter \/ EpollFails \/ BatchDone
  \/ AcceptFails \/ RegistryShutdown \/ PoolWait \/ PoolWaitReturn \/ PoolDestroy
  \/ ServerFree \/ Sigint \/ \E c \in Clients : HangUp(c)

\* Such a step drops at most the event of the listening socket, and closing the pool
\* finds nothing to drop: tpool_wait has returned.
LEMMA CalmFrame ==
  ASSUME Stages, CalmStep \/ UNCHANGED vars
  PROVE  /\ UNCHANGED <<p_client_run, armed, mem, slots, idx, phase, victim, broken, backlog, data,
                        pending, running, done, dropped, refused>>
         /\ batch' \subseteq batch
         /\ \A c \in Clients : Fetched(c)' = Fetched(c)
         /\ Live' = Live
<1> USE DEF jobVars, netVars, regVars, poolVars, mainVars, MainGoto
<1>1. CASE PoolDestroy
  <2>1. pending = <<>> /\ dropped = {} /\ Pool!Queued = {}
    BY <1>1, QueuedElements, EmptyQueue DEF PoolDestroy, Stages
  <2> QED
    BY <1>1, <2>1 DEF PoolDestroy, Pool!Close, Fetched, Live
<1>2. CASE AcceptFails
  <2>1. batch' = batch \ {Event(NoClient, FALSE)}
    BY <1>2 DEF AcceptFails, Takes
  <2>2. \A c \in Clients : Fetched(c)' = Fetched(c)
    BY <2>1 DEF Fetched, Event
  <2> QED
    BY <1>2, <2>1, <2>2 DEF AcceptFails, Live
<1>3. CASE \/ Create \/ CreateFails \/ CheckRunning \/ EpollEnter \/ EpollFails \/ BatchDone
           \/ RegistryShutdown \/ ServerFree \/ Sigint \/ \E c \in Clients : HangUp(c)
  BY <1>3 DEF Create, CreateFails, CheckRunning, EpollEnter, EpollFails, BatchDone,
              RegistryShutdown, ServerFree, Sigint, HangUp, Fetched, Live
<1>4. CASE PoolWait \/ PoolWaitReturn
  BY <1>4 DEF PoolWait, PoolWaitReturn, Pool!Enter, Pool!Return, Fetched, Live
<1>5. CASE UNCHANGED vars
  BY <1>5 DEF vars, Fetched, Live
<1> QED
  BY <1>1, <1>2, <1>3, <1>4, <1>5 DEF CalmStep

\* A worker's step about its own connection.
OwnStep(j) ==
  \/ \E keep \in BOOLEAN : Run(j, keep) \/ EchoLoop(j, keep)
  \/ Spin(j)
  \/ \E c \in Clients : Disconnect(j, c)
  \/ \E next \in {"run", "rearm", "remove"} : EchoRequest(j, next)
  \/ RunRearm(j) \/ RunRearmFails(j)
  \/ RunRemove(j) \/ RunFree(j) \/ RunReturn(j)

KickStep(j) == KickRemove(j) \/ KickFree(j)

\* The other steps: those that move a connection or a job.
MovingStep ==
  \/ EpollReturn \/ Start
  \/ \E c \in Clients :
       \/ Knock(c) \/ \E much \in {"part", "full"} : Send(c, much)
       \/ Accept(c) \/ Reject(c) \/ DropHungUp(c) \/ Submit(c)
       \/ \E rearmed \in BOOLEAN : SubmitFails(c, rearmed)
  \/ \E s \in Slots : RegistryDestroy(s)
  \/ \E j \in Jobs : OwnStep(j)

\* Every step is of one of the two kinds, or part of an admin's client_destroy of
\* somebody else, or a stutter; and nothing follows what is undefined.
LEMMA StepKinds ==
  [Next]_vars =>
    \/ ~broken /\ (CalmStep \/ MovingStep \/ \E j \in Jobs : KickStep(j))
    \/ UNCHANGED vars
<1>1. ASSUME NEW j \in Jobs, JobStep(j) PROVE OwnStep(j) \/ KickStep(j)
  BY <1>1 DEF JobStep, OwnStep, KickStep
<1> QED
  BY <1>1 DEF Next, Step, MainStep, ClientStep, CalmStep, MovingStep, Rest

\* A worker's step: which job, from where to where, and what else it may do.
LEMMA JobMoves ==
  ASSUME NEW j \in Jobs, OwnStep(j)
  PROVE  /\ UNCHANGED <<mainVars, slots, backlog, hup, shut, pending>> \/ RunRemove(j)
         /\ UNCHANGED <<mainVars, backlog, hup, shut, pending, dropped, refused, waiting, open, broken>>
  BY DEF OwnStep, JobGoto, PhaseGoto, Run, EchoLoop, Spin, Disconnect, EchoRequest, RunRearm, RunRearmFails, RunRemove, RunFree,
         RunReturn, Pool!Complete, netVars, regVars, poolVars

-----------------------------------------------------------------------------
(* What steps do to the registry.                                          *)

\* registry_remove takes a client out, and nobody else.
LEMMA RegistryOut ==
  ASSUME TypeOK, SlotsAgree, NEW c \in Clients, RegistryRemove(c)
  PROVE  /\ slots' \in [Slots -> Clients \cup {NoClient}]
         /\ idx' \in [Clients -> Slots \cup {NoSlot}]
         /\ \A s \in Slots : slots'[s] = IF slots[s] = c THEN NoClient ELSE slots[s]
         /\ \A d \in Clients : idx'[d] = IF d = c THEN NoSlot ELSE idx[d]
         /\ \A d \in Clients, s \in Slots : slots'[s] = d <=> idx'[d] = s
         /\ Registered' = Registered \ {c}
<1>1. \A s \in Slots : slots[s] = c <=> idx[c] = s
  BY DEF SlotsAgree
<1>2. NoSlot \notin Slots /\ NoClient \notin Clients
  BY DEF Slots
<1>3. slots' \in [Slots -> Clients \cup {NoClient}] /\ idx' \in [Clients -> Slots \cup {NoSlot}]
  BY DEF RegistryRemove, TypeOK
<1>4. \A d \in Clients : idx'[d] = IF d = c THEN NoSlot ELSE idx[d]
  BY DEF RegistryRemove, TypeOK
<1>5. \A s \in Slots : slots'[s] = IF slots[s] = c THEN NoClient ELSE slots[s]
  BY <1>1, <1>2 DEF RegistryRemove, TypeOK
<1>6. \A d \in Clients, s \in Slots : slots'[s] = d <=> idx'[d] = s
  BY <1>2, <1>4, <1>5 DEF SlotsAgree
<1>7. Registered' = Registered \ {c}
  BY <1>2, <1>5 DEF Registered
<1> QED
  BY <1>3, <1>4, <1>5, <1>6, <1>7

\* registry_add puts a new client into a free slot.
LEMMA RegistryIn ==
  ASSUME TypeOK, SlotsAgree, NEW c \in Clients, NEW s \in FreeSlots,
         idx[c] = NoSlot, RegistryAdd(c, s)
  PROVE  /\ slots' \in [Slots -> Clients \cup {NoClient}]
         /\ idx' \in [Clients -> Slots \cup {NoSlot}]
         /\ \A d \in Clients : idx'[d] = IF d = c THEN s ELSE idx[d]
         /\ \A d \in Clients, t \in Slots : slots'[t] = d <=> idx'[d] = t
         /\ Registered' = Registered \cup {c}
<1>1. s \in Slots /\ slots[s] = NoClient /\ NoClient \notin Clients /\ NoSlot \notin Slots
  BY DEF FreeSlots, Slots
<1>2. slots' \in [Slots -> Clients \cup {NoClient}] /\ idx' \in [Clients -> Slots \cup {NoSlot}]
  BY <1>1 DEF RegistryAdd, TypeOK
<1>3. \A d \in Clients : idx'[d] = IF d = c THEN s ELSE idx[d]
  BY <1>1 DEF RegistryAdd, TypeOK
<1>4. \A t \in Slots : slots'[t] = IF t = s THEN c ELSE slots[t]
  BY <1>1 DEF RegistryAdd, TypeOK
<1>5. \A d \in Clients, t \in Slots : slots'[t] = d <=> idx'[d] = t
  BY <1>1, <1>3, <1>4 DEF SlotsAgree
<1>6. Registered' = Registered \cup {c}
  BY <1>1, <1>4 DEF Registered
<1> QED
  BY <1>2, <1>3, <1>5, <1>6

\* Sessions go with clients and with phases.
LEMMA SessionSame ==
  ASSUME UNCHANGED <<mem, phase, victim>>
  PROVE  \A c \in Clients : HasSession(c)' = HasSession(c)
  BY DEF HasSession, Live

\* What epoll_wait reports: each ready client once, and the listening socket.
LEMMA Reported ==
  ASSUME EpollReturn
  PROVE  /\ \A e \in batch' :
              \/ e = Event(NoClient, FALSE)
              \/ \E c \in Ready : c \in hup /\ e = Event(c, TRUE)
              \/ \E c \in Ready : c \notin hup /\ e = Event(c, FALSE)
         /\ \A c \in Ready : Event(c, TRUE) \in batch' \/ Event(c, FALSE) \in batch'
<1>1. ASSUME NEW c
      PROVE  /\ c \in hup => Event(c, c \in hup) = Event(c, TRUE)
             /\ c \notin hup => Event(c, c \in hup) = Event(c, FALSE)
  <2>1. c \in hup => (c \in hup) = TRUE
    OBVIOUS
  <2>2. c \notin hup => (c \in hup) = FALSE
    OBVIOUS
  <2> QED
    BY <2>1, <2>2
<1>2. \A e \in batch' : e = Event(NoClient, FALSE) \/ \E c \in Ready : e = Event(c, c \in hup)
  BY DEF EpollReturn
<1>3. \A c \in Ready : Event(c, c \in hup) \in batch'
  BY DEF EpollReturn
<1> QED
  BY <1>1, <1>2, <1>3

-----------------------------------------------------------------------------
(* Types.                                                                  *)

\* Nothing is made when the program starts, and no job is queued.
LEMMA TypeInit == Init => TypeOK
<1> SUFFICES ASSUME Init PROVE TypeOK
  OBVIOUS
<1>1. pending \in Seq(Jobs)
  BY DEF Init, Pool!Init
<1> QED
  BY <1>1 DEF Init, Pool!Init, TypeOK, MainLabels, Phases, Busy

\* The calm steps keep the types.
LEMMA CalmType ==
  ASSUME Sound, CalmStep \/ UNCHANGED vars
  PROVE  TypeOK'
<1> USE DEF jobVars, netVars, regVars, poolVars, mainVars, MainGoto
<1>1. /\ UNCHANGED <<p_client_run, armed, mem, slots, idx, phase, victim, broken, backlog, data,
                     pending, running, done, dropped, refused>>
      /\ batch' \subseteq batch
  BY CalmFrame DEF Sound
<1>2. owned' \subseteq AllParts
  <2>1. CASE Create
    <3>1. PICK k \in 0..6 : Cardinality(owned) = k
      BY <2>1 DEF Create, Sound, Stages
    <3>2. Parts[Cardinality(owned) + 1] \in AllParts
      BY <3>1, PartsSeven DEF AllParts
    <3> QED
      BY <2>1, <3>2 DEF Create, Sound, TypeOK, AllParts
  <2>2. CASE \/ CreateFails \/ CheckRunning \/ EpollEnter \/ EpollFails \/ BatchDone
             \/ AcceptFails \/ RegistryShutdown \/ PoolWait \/ PoolWaitReturn \/ PoolDestroy
             \/ ServerFree \/ Sigint \/ (\E c \in Clients : HangUp(c)) \/ UNCHANGED vars
    BY <2>2 DEF CreateFails, CheckRunning, EpollEnter, EpollFails, BatchDone, AcceptFails,
                RegistryShutdown, PoolWait, PoolWaitReturn, PoolDestroy, ServerFree, Sigint,
                HangUp, vars, Sound, TypeOK, AllParts
  <2> QED
    BY <2>1, <2>2 DEF CalmStep
<1>3. mpc' \in MainLabels /\ gb_running' \in BOOLEAN
  BY DEF CalmStep, Create, CreateFails, CheckRunning, EpollEnter, EpollFails, BatchDone,
         AcceptFails, RegistryShutdown, PoolWait, PoolWaitReturn, PoolDestroy, ServerFree,
         Sigint, HangUp, vars, Sound, TypeOK, MainLabels, Takes
<1>4. hup' \subseteq Clients /\ shut' \subseteq Clients
  <2>1. Registered \subseteq Clients
    BY DEF Sound, TypeOK, Registered
  <2> QED
    BY <2>1 DEF CalmStep, Create, CreateFails, CheckRunning, EpollEnter, EpollFails, BatchDone,
         AcceptFails, RegistryShutdown, PoolWait, PoolWaitReturn, PoolDestroy, ServerFree,
         Sigint, HangUp, vars, Sound, TypeOK
<1>8. waiting' \subseteq {Main} /\ open' \in BOOLEAN
  BY DEF CalmStep, Create, CreateFails, CheckRunning, EpollEnter, EpollFails, BatchDone,
         AcceptFails, RegistryShutdown, PoolWait, PoolWaitReturn, PoolDestroy, ServerFree,
         Sigint, HangUp, vars, Sound, TypeOK, Pool!Enter, Pool!Return, Pool!Close
<1>5. TypeOK
  BY DEF Sound
<1>6. batch' \subseteq [client : Clients \cup {NoClient}, hup : BOOLEAN]
  BY <1>1, <1>5 DEF TypeOK
<1>7. UNCHANGED <<p_client_run, armed, mem, slots, idx, phase, victim, broken, backlog, data,
                  pending, running, done, dropped, refused>>
  BY <1>1
<1> QED
  BY <1>2, <1>3, <1>4, <1>5, <1>6, <1>7, <1>8 DEF TypeOK, AllParts

\* The steps that move a connection or a job keep the types.
LEMMA MovingType ==
  ASSUME Sound, MovingStep
  PROVE  TypeOK'
<1> USE DEF jobVars, netVars, regVars, poolVars, mainVars, MainGoto
<1>0. TypeOK
  BY DEF Sound
<1>1. CASE EpollReturn
  <2>1. /\ batch' \subseteq [client : Clients \cup {NoClient}, hup : BOOLEAN]
        /\ armed' \subseteq Clients /\ mpc' \in MainLabels
    <3>1. ASSUME NEW c \in Clients \cup {NoClient}, NEW h \in BOOLEAN
          PROVE  Event(c, h) \in [client : Clients \cup {NoClient}, hup : BOOLEAN]
      BY DEF Event
    <3>2. Ready \subseteq Clients
      BY <1>0 DEF TypeOK, Ready
    <3>4. batch' \subseteq [client : Clients \cup {NoClient}, hup : BOOLEAN]
      <4> SUFFICES ASSUME NEW e \in batch'
                   PROVE  e \in [client : Clients \cup {NoClient}, hup : BOOLEAN]
        OBVIOUS
      <4>1. PICK c \in Clients \cup {NoClient}, h \in BOOLEAN : e = Event(c, h)
        BY <1>1, <3>2, Reported
      <4> QED
        BY <3>1, <4>1
    <3> QED
      BY <1>0, <1>1, <3>4 DEF EpollReturn, TypeOK, MainLabels
  <2> QED
    BY <1>0, <1>1, <2>1 DEF EpollReturn, TypeOK
<1>2. CASE Start
  BY <1>0, <1>2, UsingStarted DEF Start, Pool!Start, Sound, TypeOK, Phases, Busy
<1>3. ASSUME NEW c \in Clients,
             \/ Knock(c) \/ \E much \in {"part", "full"} : Send(c, much)
             \/ Accept(c) \/ Reject(c)
      PROVE  TypeOK'
  <2>1. CASE Knock(c)
    BY <1>0, <2>1 DEF Knock, TypeOK
  <2>2. CASE \E much \in {"part", "full"} : Send(c, much)
    BY <1>0, <2>2 DEF Send, TypeOK
  <2>3. CASE Accept(c)
    <3>1. slots' \in [Slots -> Clients \cup {NoClient}] /\ idx' \in [Clients -> Slots \cup {NoSlot}]
      BY <1>0, <2>3 DEF Accept, RegistryAdd, FreeSlots, TypeOK
    <3>2. /\ mem' \in [Clients -> {"none", "live", "freed"}] /\ armed' \subseteq Clients
          /\ batch' \subseteq batch /\ backlog' \subseteq backlog
      BY <1>0, <2>3 DEF Accept, Takes, TypeOK
    <3> QED
      BY <1>0, <2>3, <3>1, <3>2 DEF Accept, TypeOK
  <2>4. CASE Reject(c)
    BY <1>0, <2>4 DEF Reject, Takes, TypeOK
  <2> QED
    BY <1>3, <2>1, <2>2, <2>3, <2>4
<1>4. ASSUME NEW c \in Clients,
             DropHungUp(c) \/ \E rearmed \in BOOLEAN : SubmitFails(c, rearmed)
      PROVE  TypeOK'
  <2>0. SlotsAgree
    BY DEF Sound, Listed
  <2>1. CASE DropHungUp(c) \/ SubmitFails(c, FALSE)
    <3>1. RegistryRemove(c)
      BY <2>1 DEF DropHungUp, SubmitFails
    <3>2. slots' \in [Slots -> Clients \cup {NoClient}] /\ idx' \in [Clients -> Slots \cup {NoSlot}]
      BY <1>0, <2>0, <3>1, RegistryOut
    <3>3. /\ mem' \in [Clients -> {"none", "live", "freed"}] /\ armed' \subseteq armed
          /\ batch' \subseteq batch
      BY <1>0, <2>1 DEF DropHungUp, SubmitFails, Takes, ClientFree, TypeOK
    <3> QED
      BY <1>0, <2>1, <3>2, <3>3 DEF DropHungUp, SubmitFails, TypeOK
  <2>2. CASE SubmitFails(c, TRUE)
    BY <1>0, <2>2 DEF SubmitFails, Takes, Rearm, TypeOK
  <2> QED
    BY <1>4, <2>1, <2>2
<1>5. ASSUME NEW c \in Clients, Submit(c) PROVE TypeOK'
  <2>1. NextJob(c) \in Jobs
    BY <1>5, NextJobFits DEF Submit, Takes
  <2>2. pending' \in Seq(Jobs)
    BY <1>5, <2>1, UsingSubmitted DEF Sound
  <2> QED
    BY <1>0, <1>5, <2>2 DEF Submit, Takes, Pool!Submit, TypeOK
<1>6. ASSUME NEW s \in Slots, RegistryDestroy(s) PROVE TypeOK'
  BY <1>0, <1>6 DEF RegistryDestroy, RegistryRemove, ClientFree, TypeOK, MainLabels
<1>7. ASSUME NEW j \in Jobs, OwnStep(j) PROVE TypeOK'
  <2>1. j[1] \in Clients
    BY DEF Jobs
  <2>2. phase' \in [Jobs -> Phases]
    BY <1>0, <1>7 DEF OwnStep, JobGoto, PhaseGoto, Run, EchoLoop, Spin, Disconnect, EchoRequest, RunRearm, RunRearmFails,
           RunRemove, RunFree, RunReturn, TypeOK, Phases, Busy
  <2>3. CASE (\E keep \in BOOLEAN : Run(j, keep) \/ EchoLoop(j, keep)) \/ Spin(j)
             \/ \E next \in {"run", "rearm", "remove"} : EchoRequest(j, next)
    BY <1>0, <2>1, <2>2, <2>3 DEF JobGoto, Run, EchoLoop, Spin, EchoRequest, TypeOK
  <2>6. CASE \E c \in Clients : Disconnect(j, c)
    BY <1>0, <2>2, <2>6 DEF Disconnect, TypeOK
  <2>4. CASE RunRearm(j) \/ RunRearmFails(j) \/ RunRemove(j) \/ RunFree(j)
    BY <1>0, <2>1, <2>2, <2>4 DEF JobGoto, RunRearm, RunRearmFails, RunRemove, RunFree, Rearm,
       RegistryRemove, ClientFree, TypeOK
  <2>5. CASE RunReturn(j)
    BY <1>0, <2>2, <2>5 DEF JobGoto, RunReturn, Pool!Complete, TypeOK
  <2> QED
    BY <1>7, <2>3, <2>4, <2>5, <2>6 DEF OwnStep
<1> QED
  BY <1>1, <1>2, <1>3, <1>4, <1>5, <1>6, <1>7 DEF MovingStep

-----------------------------------------------------------------------------
(* The main thread's stages.                                               *)

\* While no job is left, every client that is not freed is in the registry.
LEMMA LiveRegistered ==
  ASSUME Sound, pending = <<>>, running = {}
  PROVE  Live \subseteq Registered
<1>1. \A c \in Live : HasSession(c)
  BY DEF Sound, JobsPlaced, HasSession
<1>2. \A c \in Live : c \in Clients /\ idx[c] # NoSlot
  BY <1>1 DEF Sound, Listed, Live
<1>3. \A c \in Live : idx[c] \in Slots /\ slots[idx[c]] = c
  BY <1>2 DEF Sound, TypeOK, Listed, SlotsAgree
<1>4. NoClient \notin Live
  BY DEF Live
<1> QED
  BY <1>3, <1>4 DEF Registered

\* server_create has the first k parts, and takes the next.
LEMMA CreateNext ==
  ASSUME Sound, Create
  PROVE  /\ Fresh
         /\ \/ mpc' = "create" /\ \E k \in 0..6 : owned' = Prefix(k) /\ Cardinality(owned') = k
            \/ mpc' = "check" /\ owned' = AllParts
<1>1. PICK k \in 0..6 : owned = Prefix(k) /\ Cardinality(owned) = k
  BY DEF Sound, Stages, Create, MainGoto
<1>2. owned' = Prefix(k + 1) /\ mpc' = IF k + 1 < 7 THEN "create" ELSE "check"
  BY <1>1, PartsSeven DEF Create, MainGoto
<1>3. Cardinality(Prefix(k + 1)) = k + 1
  <2>1. IsFiniteSet(1..k)
    BY FS_Interval
  <2>2. IsFiniteSet(Prefix(k))
    <3>1. [i \in 1..k |-> Parts[i]] \in Surjection(1..k, Prefix(k))
      BY DEF Surjection, Prefix
    <3> QED
      BY <2>1, <3>1, FS_Surjection
  <2> QED
    <3>1. Parts[k + 1] \notin Prefix(k) /\ Prefix(k + 1) = Prefix(k) \cup {Parts[k + 1]}
      BY PartsSeven
    <3>2. Cardinality(Prefix(k) \cup {Parts[k + 1]}) = Cardinality(Prefix(k)) + 1
      BY <2>2, <3>1, FS_AddElement
    <3> QED
      BY <1>1, <3>1, <3>2
<1>4. Fresh
  BY DEF Sound, Stages, Create, MainGoto
<1>5. CASE k + 1 < 7
  <2>1. k + 1 \in 0..6 /\ mpc' = "create"
    BY <1>2, <1>5
  <2> QED
    BY <1>2, <1>3, <1>4, <2>1
<1>6. CASE ~(k + 1 < 7)
  <2>1. k + 1 = 7 /\ mpc' = "check"
    BY <1>2, <1>6
  <2> QED
    BY <1>2, <1>4, <2>1, PartsSeven
<1> QED
  BY <1>5, <1>6

\* The main thread starts, serves, waits for the pool and tears down in that order.
LEMMA CalmStages ==
  ASSUME Sound, CalmStep \/ UNCHANGED vars
  PROVE  Stages'
<1> USE DEF jobVars, netVars, regVars, poolVars, mainVars, MainGoto
<1>0. Stages
  BY DEF Sound
<1>1. /\ UNCHANGED <<pending, running, dropped, refused>>
      /\ batch' \subseteq batch
      /\ Live' = Live /\ (Fresh <=> Fresh')
  BY <1>0, CalmFrame DEF Fresh
<1>2. CASE Create
  BY <1>0, <1>1, <1>2, CreateNext DEF Stages, Create
<1>3. CASE CreateFails \/ CheckRunning \/ EpollEnter \/ EpollFails \/ BatchDone
  BY <1>0, <1>1, <1>3 DEF Stages, CreateFails, CheckRunning, EpollEnter, EpollFails, BatchDone
<1>4. CASE AcceptFails
  BY <1>0, <1>1, <1>4 DEF Stages, AcceptFails, Takes
<1>10. CASE RegistryShutdown
  BY <1>0, <1>1, <1>10 DEF Stages, RegistryShutdown
<1>11. CASE Sigint
  <2>1. batch' = batch /\ owned' = owned /\ open' = open /\ waiting' = waiting
    BY <1>11 DEF Sigint
  <2>2. mpc' = mpc \/ (mpc = "wait" /\ mpc' = "check")
    BY <1>11 DEF Sigint
  <2> QED
    BY <1>0, <1>1, <2>1, <2>2 DEF Stages
<1>9. CASE (\E c \in Clients : HangUp(c)) \/ UNCHANGED vars
  <2>1. UNCHANGED <<mpc, owned, open, waiting, batch>>
    BY <1>9 DEF HangUp, vars
  <2> QED
    BY <1>0, <1>1, <2>1 DEF Stages
<1>5. CASE PoolWait
  BY <1>0, <1>1, <1>5 DEF Stages, PoolWait, Pool!Enter
<1>6. CASE PoolWaitReturn
  BY <1>0, <1>1, <1>6 DEF Stages, PoolWaitReturn, Pool!Return, Pool!Idle
<1>7. CASE PoolDestroy
  BY <1>0, <1>1, <1>7 DEF Stages, PoolDestroy, Pool!Close
<1>8. CASE ServerFree
  <2>1. Live = {}
    BY <1>0, <1>8, LiveRegistered DEF Stages, ServerFree
  <2> QED
    BY <1>0, <1>1, <1>8, <2>1 DEF Stages, ServerFree
<1> QED
  BY <1>2, <1>3, <1>4, <1>5, <1>6, <1>7, <1>8, <1>9, <1>10, <1>11 DEF CalmStep

\* What a moving step leaves alone.
LEMMA MovingFrame ==
  ASSUME Sound, MovingStep
  PROVE  /\ \/ mpc' = mpc /\ batch' \subseteq batch
            \/ mpc = "wait" /\ mpc' = "batch"
         /\ UNCHANGED <<p_client_run, owned, gb_running, open, waiting, dropped, refused, broken>>
         /\ pending = <<>> /\ running = {} /\ mpc # "batch" => UNCHANGED <<pending, running>>
         /\ pending = <<>> /\ running = {} /\ mpc \notin {"batch", "registry"} => Live' = Live
<1> USE DEF jobVars, netVars, regVars, poolVars, mainVars, MainGoto
<1>1. CASE EpollReturn \/ (\E c \in Clients : Knock(c) \/ \E much \in {"part", "full"} : Send(c, much))
  BY <1>1 DEF EpollReturn, Knock, Send, Live
<1>2. CASE Start
  BY <1>2 DEF Start, Pool!Start
<1>3. ASSUME NEW c \in Clients,
             \/ Accept(c) \/ Reject(c) \/ DropHungUp(c) \/ Submit(c)
             \/ \E rearmed \in BOOLEAN : SubmitFails(c, rearmed)
      PROVE  /\ mpc = "batch" /\ mpc' = mpc /\ batch' \subseteq batch
             /\ UNCHANGED <<p_client_run, owned, gb_running, open, waiting, dropped, refused, broken>>
  BY <1>3 DEF Accept, Reject, DropHungUp, Submit, SubmitFails, Takes, Pool!Submit
<1>4. CASE \E s \in Slots : RegistryDestroy(s)
  BY <1>4 DEF RegistryDestroy
<1>5. ASSUME NEW j \in Jobs, OwnStep(j)
      PROVE  /\ running # {}
             /\ UNCHANGED <<mainVars, dropped, refused, waiting, open, broken>>
  <2>1. phase[j] # "none"
    BY <1>5 DEF OwnStep, JobGoto, PhaseGoto, Run, EchoLoop, Spin, Disconnect, EchoRequest, RunRearm, RunRearmFails,
                RunRemove, RunFree, RunReturn
  <2> QED
    BY <1>5, <2>1, JobMoves DEF Sound, JobsPlaced
<1> QED
  BY <1>1, <1>2, <1>3, <1>4, <1>5 DEF MovingStep

\* A connection or a job moves only at the stages where the server lets it.
LEMMA MovingStages ==
  ASSUME Sound, MovingStep
  PROVE  Stages'
<1>1. Stages
  BY DEF Sound
<1>2. mpc = "done" => Live' = Live
  BY <1>1, MovingFrame DEF Stages
<1> QED
  BY <1>1, <1>2, MovingFrame DEF Stages, Fresh

-----------------------------------------------------------------------------
(* Queue, jobs and hands.                                                  *)

\* An event that main takes leaves its hands.
LEMMA EventTaken ==
  ASSUME Sound, NEW c \in Clients, NEW h \in BOOLEAN, Takes(Event(c, h))
  PROVE  /\ c \in Live /\ c \notin armed /\ Using(c) = {} /\ Event(c, h) \in batch
         /\ Fetched(c)' = {}
         /\ \A d \in Clients \ {c} : Fetched(d)' = Fetched(d)
<1>1. Event(c, h) \in Fetched(c) /\ \A d \in Clients \ {c} : Event(c, h) \notin Fetched(d)
  BY DEF Takes, Fetched, Event
<1>2. Fetched(c) = {Event(c, h)}
  BY <1>1 DEF Sound, Hands
<1>3. \A d \in Clients : Fetched(d)' = Fetched(d) \ {Event(c, h)}
  BY DEF Takes, Fetched
<1>4. c \in Live /\ c \notin armed /\ Using(c) = {}
  BY <1>1 DEF Sound, Hands
<1>5. Fetched(c)' = {}
  BY <1>2, <1>3
<1>6. \A d \in Clients \ {c} : Fetched(d)' = Fetched(d)
  BY <1>1, <1>3
<1> QED
  BY <1>4, <1>5, <1>6 DEF Takes

\* A client that is freed is not live.
LEMMA Freed ==
  ASSUME TypeOK, NEW c \in Clients, ClientFree(c)
  PROVE  Live' = Live \ {c} /\ armed' = armed \ {c}
  BY DEF TypeOK, ClientFree, Live

\* Nobody's connection changes hands in a calm step.
LEMMA CalmHands ==
  ASSUME Sound, CalmStep \/ UNCHANGED vars
  PROVE  JobsPlaced' /\ Hands'
<1>1. UNCHANGED <<armed, phase, pending, running>> /\ Live' = Live
  BY CalmFrame DEF Sound
<1>2. \A c \in Clients : Fetched(c)' = Fetched(c)
  BY CalmFrame DEF Sound
<1>3. \A c \in Clients : Using(c)' = Using(c)
  BY <1>1, UsingSame
<1>4. JobsPlaced'
  BY <1>1 DEF Sound, JobsPlaced
<1>5. Hands'
  BY <1>1, <1>2, <1>3 DEF Sound, Hands
<1> QED
  BY <1>4, <1>5

\* EPOLLONESHOT: an event that is fetched disarms its connection, so that the
\* connection goes from epoll to main's batch.
LEMMA EpollHands ==
  ASSUME Sound, EpollReturn
  PROVE  JobsPlaced' /\ Hands'
<1>1. UNCHANGED <<mem, phase, pending, running>> /\ batch = {} /\ armed' = armed \ Ready
  BY DEF Sound, Stages, EpollReturn, MainGoto, jobVars, regVars, poolVars
<1>2. Live' = Live /\ \A c \in Clients : Using(c)' = Using(c) /\ Fetched(c) = {}
  BY <1>1, UsingSame DEF Live, Fetched
<1>3. Ready \subseteq armed /\ NoClient \notin Clients
  BY DEF Ready
<1>4. ASSUME NEW c \in Clients, c \in Ready
      PROVE  Fetched(c)' # {} /\ \A e, f \in Fetched(c)' : e = f
  <2>1. Fetched(c)' # {}
    <3>1. PICK e \in batch' : e = Event(c, TRUE) \/ e = Event(c, FALSE)
      BY <1>4, Reported
    <3>2. e.client = c
      BY <3>1 DEF Event
    <3> QED
      BY <3>2 DEF Fetched
  <2>2. \A e \in Fetched(c)' : e = IF c \in hup THEN Event(c, TRUE) ELSE Event(c, FALSE)
    BY <1>3, Reported DEF Fetched, Event
  <2> QED
    BY <2>1, <2>2
<1>5. ASSUME NEW c \in Clients, c \notin Ready PROVE Fetched(c)' = {}
  BY <1>3, <1>5, Reported DEF Fetched, Event
<1>6. JobsPlaced'
  BY <1>1 DEF Sound, JobsPlaced
<1>7. Hands'
  BY <1>1, <1>2, <1>3, <1>4, <1>5 DEF Sound, Hands
<1> QED
  BY <1>6, <1>7

\* What a client does moves no connection; one that is accepted is armed, one that
\* is rejected is freed before anybody else has it.
LEMMA ClientHands ==
  ASSUME Sound, NEW c \in Clients,
         \/ Knock(c) \/ \E much \in {"part", "full"} : Send(c, much)
         \/ Accept(c) \/ Reject(c)
  PROVE  JobsPlaced' /\ Hands'
<1> USE DEF jobVars, regVars, poolVars, mainVars, netVars
<1>1. UNCHANGED <<phase, pending, running>>
  BY DEF Knock, Send, Accept, Reject
<1>2. JobsPlaced' /\ \A d \in Clients : Using(d)' = Using(d)
  BY <1>1, UsingSame DEF Sound, JobsPlaced
<1>3. batch' = batch \/ batch' = batch \ {Event(NoClient, FALSE)}
  BY DEF Knock, Send, Accept, Reject, Takes
<1>4. \A d \in Clients : Fetched(d)' = Fetched(d)
  BY <1>3 DEF Fetched, Event
<1>5. CASE Accept(c)
  <2>1. c \notin Live
    BY <1>5 DEF Sound, Asked, Accept, Live
  <2>2. armed' = armed \cup {c} /\ Live' = Live \cup {c}
    BY <1>5 DEF Accept, Live, Sound, TypeOK
  <2>3. Hands'
    BY <1>2, <1>4, <2>1, <2>2 DEF Sound, Hands
  <2> QED
    BY <1>2, <2>3
<1>6. CASE Reject(c)
  <2>1. c \notin Live
    BY <1>6 DEF Sound, Asked, Reject, Live
  <2>2. armed' = armed /\ Live' = Live
    BY <1>6, <2>1 DEF Reject, Live, Sound, TypeOK
  <2>3. Hands'
    BY <1>2, <1>4, <2>2 DEF Sound, Hands
  <2> QED
    BY <1>2, <2>3
<1>7. CASE Knock(c) \/ \E much \in {"part", "full"} : Send(c, much)
  <2>1. armed' = armed /\ Live' = Live
    BY <1>7 DEF Knock, Send, Live
  <2>2. Hands'
    BY <1>2, <1>4, <2>1 DEF Sound, Hands
  <2> QED
    BY <1>2, <2>2
<1> QED
  BY <1>5, <1>6, <1>7

\* main frees the connection of its event, hands it to a new job, or rearms it or
\* frees it when tpool_add_work failed.
LEMMA EventHands ==
  ASSUME Sound, NEW c \in Clients,
         DropHungUp(c) \/ Submit(c) \/ \E rearmed \in BOOLEAN : SubmitFails(c, rearmed)
  PROVE  JobsPlaced' /\ Hands'
<1> USE DEF jobVars, regVars, poolVars
<1>0. TypeOK
  BY DEF Sound
<1>1. PICK h \in BOOLEAN : Takes(Event(c, h))
  BY DEF DropHungUp, Submit, SubmitFails
<1>2. /\ c \in Live /\ c \notin armed /\ Using(c) = {}
      /\ Fetched(c)' = {}
      /\ \A d \in Clients \ {c} : Fetched(d)' = Fetched(d)
  BY <1>1, EventTaken
<1>3. CASE Submit(c)
  <2>1. NextJob(c) \in Jobs
    BY <1>3, NextJobFits DEF Submit, Takes
  <2>2. /\ \A d \in Clients : Using(d)' = Using(d) \cup (IF d = c THEN {NextJob(c)} ELSE {})
        /\ JobsPlaced'
    BY <1>0, <1>3, <2>1, UsingSubmitted DEF Sound
  <2>3. armed' = armed /\ Live' = Live
    BY <1>3 DEF Submit, Live
  <2>4. Hands'
    BY <1>2, <2>2, <2>3 DEF Sound, Hands
  <2> QED
    BY <2>2, <2>4
<1>4. CASE DropHungUp(c) \/ SubmitFails(c, FALSE)
  <2>1. UNCHANGED <<phase, pending, running>> /\ ClientFree(c)
    BY <1>4 DEF DropHungUp, SubmitFails
  <2>2. JobsPlaced' /\ \A d \in Clients : Using(d)' = Using(d)
    BY <2>1, UsingSame DEF Sound, JobsPlaced
  <2>3. Live' = Live \ {c} /\ armed' = armed \ {c}
    BY <1>0, <2>1, Freed
  <2>4. Hands'
    BY <1>2, <2>2, <2>3 DEF Sound, Hands
  <2> QED
    BY <2>2, <2>4
<1>5. CASE SubmitFails(c, TRUE)
  <2>1. UNCHANGED <<phase, pending, running, mem>> /\ armed' = armed \cup {c}
    BY <1>5 DEF SubmitFails, Rearm
  <2>2. JobsPlaced' /\ \A d \in Clients : Using(d)' = Using(d)
    BY <2>1, UsingSame DEF Sound, JobsPlaced
  <2>3. Live' = Live
    BY <2>1 DEF Live
  <2>4. Hands'
    BY <1>2, <2>1, <2>2, <2>3 DEF Sound, Hands
  <2> QED
    BY <2>2, <2>4
<1> QED
  BY <1>3, <1>4, <1>5

\* server_destroy comes to the registry when nobody has a client.
LEMMA DestroyHands ==
  ASSUME Sound, NEW s \in Slots, RegistryDestroy(s)
  PROVE  /\ JobsPlaced' /\ Hands'
         /\ slots[s] \in Live /\ \A d \in Clients : Using(d) = {} /\ Using(d)' = {}
<1>0. TypeOK
  BY DEF Sound
<1>1. UNCHANGED <<phase, pending, running, batch>> /\ ClientFree(slots[s])
  BY DEF RegistryDestroy, jobVars, poolVars
<1>2. batch = {} /\ pending = <<>> /\ running = {}
  BY DEF Sound, Stages, RegistryDestroy, MainGoto
<1>3. \A d \in Clients : Using(d) = {} /\ Fetched(d) = {} /\ Fetched(d)' = {}
  BY <1>1, <1>2, UsingIs, EmptyQueue DEF Sound, JobsPlaced, Busy, Fetched
<1>4. slots[s] \in Live
  BY DEF Sound, Listed, Registered, RegistryDestroy
<1>5. slots[s] \in Clients
  BY <1>4 DEF Live
<1>6. JobsPlaced' /\ \A d \in Clients : Using(d)' = Using(d)
  BY <1>1, UsingSame DEF Sound, JobsPlaced
<1>7. Live' = Live \ {slots[s]} /\ armed' = armed \ {slots[s]}
  BY <1>0, <1>1, <1>5, Freed
<1>8. Hands'
  BY <1>3, <1>6, <1>7 DEF Sound, Hands
<1> QED
  BY <1>3, <1>4, <1>6, <1>8

\* A worker's step hands its client to the next phase, to epoll, or frees it.
LEMMA JobHands ==
  ASSUME Sound, NEW j \in Jobs, OwnStep(j)
  PROVE  JobsPlaced' /\ Hands'
<1> USE DEF jobVars, regVars, poolVars, mainVars
<1>0. TypeOK /\ JobsPlaced /\ j[1] \in Clients
  BY DEF Sound, Jobs
<1>1. pending' = pending /\ \A d \in Clients : Fetched(d)' = Fetched(d)
  BY JobMoves DEF Fetched
<1>2. phase[j] \in Busy => j \in Using(j[1])
  BY <1>0, UsingIs
<1>3. ASSUME NEW to \in Busy, PhaseGoto(j, phase[j], to), phase[j] \in Busy,
             UNCHANGED <<armed, mem, running>>
      PROVE  JobsPlaced' /\ Hands'
  <2>1. phase' = [phase EXCEPT ![j] = to]
    BY <1>3 DEF PhaseGoto
  <2>2. \A d \in Clients : Using(d)' = Using(d)
    BY <1>0, <1>1, <1>3, <2>1, UsingKept
  <2>3. JobsPlaced'
    BY <1>0, <1>1, <1>3, <2>1 DEF JobsPlaced, TypeOK, Busy
  <2>4. Hands'
    BY <1>1, <1>3, <2>2 DEF Sound, Hands, Live
  <2> QED
    BY <2>3, <2>4
<1>4. CASE RunRearm(j)
  <2>1. /\ phase' = [phase EXCEPT ![j] = "return"] /\ phase[j] \in Busy
        /\ armed' = armed \cup {j[1]} /\ UNCHANGED <<mem, running>>
    BY <1>4 DEF RunRearm, JobGoto, PhaseGoto, Rearm, Busy
  <2>2. \A d \in Clients : Using(d)' = Using(d) \ {j}
    BY <1>0, <1>1, <2>1, UsingLost
  <2>3. JobsPlaced'
    BY <1>0, <1>1, <2>1 DEF JobsPlaced, TypeOK, Busy
  <2>4. Live' = Live
    BY <2>1 DEF Live
  <2>5. \A d \in Clients \ {j[1]} : j \notin Using(d)
    BY UsingIs
  <2>6. Hands'
    BY <1>0, <1>1, <1>2, <2>1, <2>2, <2>4, <2>5 DEF Sound, Hands
  <2> QED
    BY <2>3, <2>6
<1>5. CASE RunFree(j)
  <2>1. /\ phase' = [phase EXCEPT ![j] = "return"] /\ phase[j] \in Busy
        /\ ClientFree(j[1]) /\ UNCHANGED running
    BY <1>5 DEF RunFree, JobGoto, PhaseGoto, Busy
  <2>2. \A d \in Clients : Using(d)' = Using(d) \ {j}
    BY <1>0, <1>1, <2>1, UsingLost
  <2>3. JobsPlaced'
    BY <1>0, <1>1, <2>1 DEF JobsPlaced, TypeOK, Busy
  <2>4. Live' = Live \ {j[1]} /\ armed' = armed \ {j[1]}
    BY <1>0, <2>1, Freed
  <2>5. \A d \in Clients \ {j[1]} : j \notin Using(d)
    BY UsingIs
  <2>6. Hands'
    BY <1>0, <1>1, <1>2, <2>1, <2>2, <2>4, <2>5 DEF Sound, Hands
  <2> QED
    BY <2>3, <2>6
<1>6. CASE RunReturn(j)
  <2>1. /\ phase' = [phase EXCEPT ![j] = "none"] /\ phase[j] = "return"
        /\ running' = running \ {j} /\ UNCHANGED <<mem, armed>>
    BY <1>6 DEF RunReturn, JobGoto, PhaseGoto, Pool!Complete
  <2>2. \A d \in Clients : Using(d)' = Using(d)
    BY <1>0, <1>1, <2>1, UsingReturned
  <2>3. JobsPlaced'
    BY <1>0, <1>1, <2>1 DEF JobsPlaced, TypeOK
  <2>4. Hands'
    BY <1>1, <2>1, <2>2 DEF Sound, Hands, Live
  <2> QED
    BY <2>3, <2>4
<1>7. CASE \/ \E keep \in BOOLEAN : Run(j, keep) \/ EchoLoop(j, keep)
           \/ Spin(j) \/ \E c \in Clients : Disconnect(j, c)
           \/ \E next \in {"run", "rearm", "remove"} : EchoRequest(j, next)
           \/ RunRearmFails(j) \/ RunRemove(j)
  <2>1. phase[j] \in Busy /\ \E to \in Busy : PhaseGoto(j, phase[j], to)
    BY <1>7 DEF Run, EchoLoop, Spin, Disconnect, EchoRequest, RunRearmFails, RunRemove,
                JobGoto, PhaseGoto, Busy
  <2>2. UNCHANGED <<armed, mem, running>>
    BY <1>7 DEF Run, EchoLoop, Spin, Disconnect, EchoRequest, RunRearmFails, RunRemove
  <2> QED
    BY <1>3, <2>1, <2>2
<1> QED
  BY <1>4, <1>5, <1>6, <1>7 DEF OwnStep

\* Every step that moves a connection or a job leaves the connection one owner.
LEMMA MovingHands ==
  ASSUME Sound, MovingStep
  PROVE  JobsPlaced' /\ Hands'
<1>1. ASSUME Start PROVE JobsPlaced' /\ Hands'
  <2>1. JobsPlaced' /\ \A d \in Clients : Using(d)' = Using(d)
    BY <1>1, UsingStarted DEF Sound
  <2>2. UNCHANGED <<armed, mem, batch>>
    BY <1>1 DEF Start, mainVars
  <2>3. Hands'
    BY <2>1, <2>2 DEF Sound, Hands, Live, Fetched
  <2> QED
    BY <2>1, <2>3
<1> QED
  BY <1>1, EpollHands, ClientHands, EventHands, DestroyHands, JobHands DEF MovingStep

-----------------------------------------------------------------------------
(* The registry.                                                           *)

\* A step that leaves the registry, the clients and the jobs' places alone.
LEMMA SameListed ==
  ASSUME Sound, UNCHANGED <<slots, idx, mem, phase, victim>>
  PROVE  Listed'
<1>1. Live \subseteq Clients /\ Live' = Live /\ Registered' = Registered
  BY DEF Live, Registered
<1>2. \A c \in Clients : HasSession(c)' = HasSession(c)
  BY SessionSame
<1> QED
  BY <1>1, <1>2 DEF Sound, Listed, SlotsAgree, Known

\* A step in which a connection is neither made nor freed, no job is about to free its
\* own or destroys another that was not before, and the registry is left alone.
LEMMA PhaseListed ==
  ASSUME Sound, UNCHANGED <<slots, idx, mem>>,
         \A j \in Jobs : /\ (phase'[j] = "free" <=> phase[j] = "free")
                       /\ (phase'[j] = "kickfree" <=> phase[j] = "kickfree")
                       /\ (phase'[j] = "kickfree" => victim'[j] = victim[j])
                       /\ (phase'[j] = "kick" => Known(victim'[j]))
  PROVE  Listed'
<1>1. Live \subseteq Clients /\ Live' = Live /\ Registered' = Registered
  BY DEF Live, Registered
<1>2. \A c \in Clients : HasSession(c)' = HasSession(c)
  BY <1>1 DEF HasSession
<1>3. \A j \in Jobs : phase'[j] \in {"kick", "kickfree"} => Known(victim'[j])
  BY DEF Sound, Listed
<1> QED
  BY <1>1, <1>2, <1>3 DEF Sound, Listed, SlotsAgree, Known

\* registry_add takes a free slot, and the connection notes which.
LEMMA ClientListed ==
  ASSUME Sound, NEW c \in Clients,
         \/ Knock(c) \/ \E much \in {"part", "full"} : Send(c, much)
         \/ Accept(c) \/ Reject(c)
  PROVE  Listed'
<1> USE DEF jobVars, regVars, poolVars
<1>0. TypeOK /\ Listed /\ SlotsAgree /\ Live \subseteq Clients
  BY DEF Sound, Listed, Live
<1>1. UNCHANGED <<phase, victim>>
  BY DEF Knock, Send, Accept, Reject
<1>3. CASE Accept(c)
  <2>1. c \notin Live
    BY <1>3 DEF Sound, Asked, Accept, Live
  <2>2. Live' = Live \cup {c}
    BY <1>0, <1>3 DEF Accept, Live, TypeOK
  <2>4. c \notin Registered /\ c # NoClient
    BY <1>0, <2>1 DEF Listed
  <2>5. idx[c] = NoSlot
    BY <1>0, <2>4 DEF SlotsAgree, TypeOK, Registered
  <2>6. PICK s \in FreeSlots : RegistryAdd(c, s)
    BY <1>3 DEF Accept
  <2>7. /\ \A d \in Clients : idx'[d] = IF d = c THEN s ELSE idx[d]
        /\ \A d \in Clients, t \in Slots : slots'[t] = d <=> idx'[d] = t
        /\ Registered' = Registered \cup {c}
    BY <1>0, <2>5, <2>6, RegistryIn
  <2>8. s # NoSlot
    BY DEF FreeSlots, Slots
  <2>9. \A d \in Live : HasSession(d)' => HasSession(d)
    BY <1>1 DEF HasSession
  <2>10. \A d \in Live' : HasSession(d)' => idx'[d] # NoSlot
    BY <1>0, <2>2, <2>7, <2>8, <2>9 DEF Listed
  <2>11. /\ \A j \in Jobs : phase[j] = "free" => j[1] # c /\ j[1] \in Clients
         /\ \A j \in Jobs : phase[j] \in {"kick", "kickfree"} => victim[j] # c /\ Known(victim[j])
    <3>1. ASSUME NEW j \in Jobs, phase[j] = "free" PROVE j[1] # c /\ j[1] \in Clients
      <4>1. j[1] \in Clients /\ j \in Using(j[1])
        BY <3>1, UsingIs DEF Jobs, Busy
      <4> QED
        BY <2>1, <4>1 DEF Sound, Hands
    <3>2. ASSUME NEW j \in Jobs, phase[j] \in {"kick", "kickfree"}
          PROVE  victim[j] # c /\ Known(victim[j])
      <4>1. mem[c] = "none"
        BY <1>3 DEF Sound, Asked, Accept
      <4> QED
        BY <1>0, <3>2, <4>1 DEF Listed, Known
    <3> QED
      BY <3>1, <3>2
  <2>12. /\ \A j \in Jobs : phase'[j] = "free" => idx'[j[1]] = NoSlot
         /\ \A j \in Jobs : phase'[j] = "kickfree" => idx'[victim'[j]] = NoSlot
    BY <1>0, <1>1, <2>7, <2>11 DEF Listed, Known
  <2>13. \A j \in Jobs : phase'[j] \in {"kick", "kickfree"} => Known(victim[j])'
    <3>1. \A d \in Clients \ {c} : mem'[d] = mem[d]
      BY <1>0, <1>3 DEF Accept, TypeOK
    <3> QED
      BY <1>1, <2>11, <3>1 DEF Known
  <2> QED
    BY <1>0, <1>1, <2>2, <2>7, <2>10, <2>12, <2>13 DEF Listed, SlotsAgree
<1>4. CASE \/ Knock(c) \/ Reject(c) \/ \E much \in {"part", "full"} : Send(c, much)
  <2>1. UNCHANGED <<slots, idx>> /\ Live' = Live
    <3>1. CASE Reject(c)
      BY <1>0, <3>1 DEF Reject, Live, Sound, Asked, TypeOK
    <3>2. CASE Knock(c) \/ \E much \in {"part", "full"} : Send(c, much)
      BY <3>2 DEF Knock, Send, Live
    <3> QED
      BY <1>4, <3>1, <3>2
  <2>2. \A d \in Clients : HasSession(d)' = HasSession(d)
    BY <1>1, <2>1 DEF HasSession
  <2>3. \A d \in Clients : mem[d] # "none" => mem'[d] # "none"
    BY <1>0, <1>4 DEF Knock, Reject, Send, TypeOK
  <2> QED
    BY <1>0, <1>1, <2>1, <2>2, <2>3 DEF Listed, SlotsAgree, Registered, Known
<1> QED
  BY <1>3, <1>4

\* A client that is taken out and freed at once.
LEMMA OutListed ==
  ASSUME Sound, NEW c \in Clients, RegistryRemove(c), ClientFree(c), UNCHANGED <<phase, victim>>
  PROVE  Listed'
<1>0. TypeOK /\ Listed /\ SlotsAgree /\ Live \subseteq Clients
  BY DEF Sound, Listed, Live
<1>1. Live' = Live \ {c}
  BY <1>0, Freed
<1>3. /\ \A d \in Clients : idx'[d] = IF d = c THEN NoSlot ELSE idx[d]
      /\ \A d \in Clients, s \in Slots : slots'[s] = d <=> idx'[d] = s
      /\ Registered' = Registered \ {c}
  BY <1>0, RegistryOut
<1>4. \A d \in Live' : HasSession(d)' => HasSession(d)
  BY <1>1 DEF HasSession
<1>5. \A j \in Jobs : j[1] \in Clients
  BY DEF Jobs
<1>6. /\ \A j \in Jobs : phase'[j] = "free" => idx'[j[1]] = NoSlot
      /\ \A j \in Jobs : phase'[j] = "kickfree" => idx'[victim'[j]] = NoSlot
  BY <1>0, <1>3, <1>5 DEF Listed, Known
<1>7. \A d \in Clients : mem[d] # "none" => mem'[d] # "none"
  BY <1>0 DEF ClientFree, TypeOK
<1> QED
  BY <1>0, <1>1, <1>3, <1>4, <1>6, <1>7 DEF Listed, SlotsAgree, Known

\* A connection that main destroys leaves its slot first.
LEMMA EventListed ==
  ASSUME Sound, NEW c \in Clients,
         DropHungUp(c) \/ Submit(c) \/ \E rearmed \in BOOLEAN : SubmitFails(c, rearmed)
  PROVE  Listed'
<1> USE DEF jobVars, regVars, poolVars
<1>1. CASE Submit(c) \/ SubmitFails(c, TRUE)
  <2>1. UNCHANGED <<slots, idx, mem, phase, victim>>
    BY <1>1 DEF Submit, SubmitFails
  <2> QED
    BY <2>1, SameListed
<1>2. CASE DropHungUp(c) \/ SubmitFails(c, FALSE)
  BY <1>2, OutListed DEF DropHungUp, SubmitFails
<1> QED
  BY <1>1, <1>2

\* A worker that destroys its connection takes it out of its own slot before it frees it.
LEMMA JobListed ==
  ASSUME Sound, NEW j \in Jobs, OwnStep(j)
  PROVE  Listed'
<1> USE DEF jobVars, regVars, poolVars, mainVars
<1>0. /\ TypeOK /\ Listed /\ SlotsAgree /\ JobsPlaced /\ j[1] \in Clients
      /\ Live \subseteq Clients
  BY DEF Sound, Jobs, Listed, Live
<1>3. ASSUME NEW to \in Phases \ {"free", "kick", "kickfree"}, JobGoto(j, phase[j], to),
             phase[j] \notin {"free", "kick", "kickfree"}, UNCHANGED <<slots, idx, mem>>
      PROVE  Listed'
  <2>1. victim' = victim /\ \A k \in Jobs : phase'[k] = IF k = j THEN to ELSE phase[k]
    BY <1>0, <1>3 DEF JobGoto, PhaseGoto, TypeOK
  <2> QED
    BY <1>0, <1>3, <2>1, PhaseListed DEF Listed
<1>4. CASE \/ \E keep \in BOOLEAN : Run(j, keep) \/ EchoLoop(j, keep)
           \/ Spin(j)
           \/ \E next \in {"run", "rearm", "remove"} : EchoRequest(j, next)
           \/ RunRearm(j) \/ RunRearmFails(j) \/ RunReturn(j)
  <2>1. PICK to \in Phases \ {"free", "kick", "kickfree"} :
          JobGoto(j, phase[j], to) /\ phase[j] \notin {"free", "kick", "kickfree"}
    BY <1>4 DEF Run, EchoLoop, Spin, EchoRequest, RunRearm, RunRearmFails, RunReturn,
                JobGoto, PhaseGoto, Phases, Busy
  <2>2. UNCHANGED <<slots, idx, mem>>
    BY <1>4 DEF Run, EchoLoop, Spin, EchoRequest, RunRearm, RunRearmFails, RunReturn
  <2> QED
    BY <1>3, <2>1, <2>2
<1>5. ASSUME NEW c \in Clients, Disconnect(j, c) PROVE Listed'
  <2>1. /\ \A k \in Jobs : phase'[k] = IF k = j THEN "kick" ELSE phase[k]
        /\ \A k \in Jobs : victim'[k] = IF k = j THEN c ELSE victim[k]
        /\ phase[j] = "run" /\ UNCHANGED <<slots, idx, mem>>
    BY <1>0, <1>5 DEF Disconnect, PhaseGoto, TypeOK
  <2>2. Known(c)
    BY <1>5 DEF Disconnect, HasSession, Live, Known
  <2> QED
    BY <1>0, <2>1, <2>2, PhaseListed DEF Listed
<1>7. CASE RunRemove(j)
  <2>1. /\ RegistryRemove(j[1]) /\ UNCHANGED <<mem, victim>>
        /\ \A k \in Jobs : phase'[k] = IF k = j THEN "free" ELSE phase[k]
        /\ phase[j] = "remove"
    BY <1>0, <1>7 DEF RunRemove, JobGoto, PhaseGoto, TypeOK
  <2>3. /\ \A d \in Clients : idx'[d] = IF d = j[1] THEN NoSlot ELSE idx[d]
        /\ \A d \in Clients, s \in Slots : slots'[s] = d <=> idx'[d] = s
        /\ Registered' = Registered \ {j[1]}
    BY <1>0, <2>1, RegistryOut
  <2>4. Live' = Live /\ \A d \in Live : HasSession(d)' => HasSession(d) /\ d # j[1]
    BY <2>1 DEF HasSession, Live
  <2>5. \A k \in Jobs : k[1] \in Clients
    BY DEF Jobs
  <2>6. /\ \A k \in Jobs : phase'[k] = "free" => idx'[k[1]] = NoSlot
        /\ \A k \in Jobs : phase'[k] = "kickfree" => idx'[victim'[k]] = NoSlot
        /\ \A k \in Jobs : phase'[k] \in {"kick", "kickfree"} => Known(victim[k])'
    BY <1>0, <2>1, <2>3, <2>5 DEF Listed, Known
  <2> QED
    BY <1>0, <2>3, <2>4, <2>6 DEF Listed, SlotsAgree
<1>8. CASE RunFree(j)
  <2>1. /\ ClientFree(j[1]) /\ UNCHANGED <<slots, idx, victim>>
        /\ \A k \in Jobs : phase'[k] = IF k = j THEN "return" ELSE phase[k]
        /\ phase[j] = "free"
    BY <1>0, <1>8 DEF RunFree, JobGoto, PhaseGoto, TypeOK
  <2>3. Live' = Live \ {j[1]}
    BY <1>0, <2>1, Freed
  <2>4. idx[j[1]] = NoSlot /\ NoSlot \notin Slots
    BY <1>0, <2>1 DEF Listed, Slots
  <2>5. j[1] \notin Registered
    BY <1>0, <2>4 DEF SlotsAgree, Registered
  <2>6. \A d \in Live' : HasSession(d)' => HasSession(d)
    BY <2>1, <2>3 DEF HasSession
  <2>7. Registered' = Registered
    BY <2>1 DEF Registered
  <2>8. \A d \in Clients : mem[d] # "none" => mem'[d] # "none"
    BY <1>0, <2>1 DEF ClientFree, TypeOK
  <2> QED
    BY <1>0, <2>1, <2>3, <2>5, <2>6, <2>7, <2>8 DEF Listed, SlotsAgree, Known
<1> QED
  BY <1>4, <1>5, <1>7, <1>8 DEF OwnStep

\* Slots and indices agree after every step that moves a connection or a job.
LEMMA MovingListed ==
  ASSUME Sound, MovingStep
  PROVE  Listed'
<1> USE DEF jobVars, regVars, poolVars
<1>1. CASE EpollReturn
  BY <1>1, SameListed DEF EpollReturn
<1>2. CASE Start
  <2>1. UNCHANGED <<slots, idx, mem, victim>> /\ phase' = [phase EXCEPT ![Head(pending)] = "run"]
    BY <1>2 DEF Start
  <2>2. Head(pending) \in Jobs /\ Head(pending) \notin running
    BY <1>2, UsingStarted DEF Sound
  <2>3. phase[Head(pending)] = "none"
    BY <2>2 DEF Sound, JobsPlaced
  <2>4. \A k \in Jobs : phase'[k] = phase[k] \/ (phase'[k] = "run" /\ phase[k] = "none")
    BY <2>1, <2>3 DEF Sound, TypeOK
  <2> QED
    BY <2>1, <2>4, PhaseListed DEF Sound, Listed
<1>3. ASSUME NEW s \in Slots, RegistryDestroy(s) PROVE Listed'
  <2>1. slots[s] \in Clients
    BY <1>3, DestroyHands DEF Live
  <2> QED
    BY <1>3, <2>1, OutListed DEF RegistryDestroy
<1> QED
  BY <1>1, <1>2, <1>3, ClientListed, EventListed, JobListed DEF MovingStep

-----------------------------------------------------------------------------
(* Requests, and the jobs they may still have.                             *)

\* A step that hands in no job leaves the jobs of each connection as they are.
LEMMA JobsKept ==
  ASSUME Sound, \/ UNCHANGED <<pending, running, done, dropped, refused>>
               \/ Start
               \/ \E j \in Jobs : RunReturn(j)
  PROVE  \A c \in Clients : JobsOf(c)' = JobsOf(c)
<1>1. Pool!Known' = Pool!Known
  <2>1. CASE UNCHANGED <<pending, running, done, dropped, refused>>
    BY <2>1 DEF Pool!Known, Pool!Queued
  <2>2. CASE Start
    <3>1. /\ running' = running \cup {Head(pending)} /\ Head(pending) \in Elements(pending)
          /\ Elements(pending)' = Elements(pending) \ {Head(pending)}
      BY <2>2, UsingStarted DEF Sound
    <3>2. UNCHANGED <<done, dropped, refused>>
      BY <2>2 DEF Start, Pool!Start
    <3>3. Pool!Queued' = Elements(pending)'
      BY DEF Pool!Queued, Elements
    <3> QED
      BY <3>1, <3>2, <3>3, QueuedElements DEF Pool!Known
  <2>3. CASE \E j \in Jobs : RunReturn(j)
    BY <2>3 DEF RunReturn, Pool!Complete, Pool!Known, Pool!Queued
  <2> QED
    BY <2>1, <2>2, <2>3
<1> QED
  BY <1>1 DEF JobsOf

\* What Asked says of one connection.
Served(c) == Cardinality(JobsOf(c)) < MaxRuns \/ \E j \in Using(c) : phase[j] # "rearm"

\* In a calm step no client sends and no job is added.
LEMMA CalmAsked ==
  ASSUME Sound, CalmStep \/ UNCHANGED vars
  PROVE  Asked'
<1>1. /\ UNCHANGED <<mem, phase, backlog, data, pending, running, done, dropped, refused>>
      /\ Live' = Live /\ batch' \subseteq batch
  BY CalmFrame DEF Sound
<1>2. \A c \in Clients : Using(c)' = Using(c) /\ JobsOf(c)' = JobsOf(c)
  BY <1>1, UsingSame, JobsKept
<1>3. \A c \in Live : c \in Clients
  BY DEF Live
<1> QED
  BY <1>1, <1>2, <1>3 DEF Sound, Asked

\* A client sends only while its connection may have another job.
LEMMA ClientAsked ==
  ASSUME Sound, NEW c \in Clients,
         \/ Knock(c) \/ \E much \in {"part", "full"} : Send(c, much)
         \/ Accept(c) \/ Reject(c)
  PROVE  Asked'
<1> USE DEF jobVars, regVars, poolVars, mainVars, netVars
<1>0. TypeOK /\ Asked
  BY DEF Sound
<1>1. UNCHANGED <<phase, pending, running, done, dropped, refused>>
  BY DEF Knock, Send, Accept, Reject
<1>2. \A d \in Clients : Using(d)' = Using(d) /\ JobsOf(d)' = JobsOf(d)
  BY <1>1, UsingSame, JobsKept
<1>3. batch' \subseteq batch
  BY DEF Knock, Send, Accept, Reject, Takes
<1>4. Live \subseteq Clients
  BY DEF Live
<1>5. CASE Accept(c)
  <2>1. data' = data /\ data[c] = "none" /\ backlog' = backlog \ {c}
    BY <1>0, <1>5 DEF Accept, Asked
  <2>2. Live' = Live \cup {c} /\ \A d \in Clients \ {c} : mem'[d] = mem[d]
    BY <1>0, <1>5 DEF Accept, Live, TypeOK
  <2>3. mem'[c] = "live"
    BY <1>0, <1>5 DEF Accept, TypeOK
  <2>4. backlog \subseteq Clients
    BY <1>0 DEF TypeOK
  <2> QED
    BY <1>0, <1>1, <1>2, <1>3, <1>4, <2>1, <2>2, <2>3, <2>4 DEF Asked
<1>6. CASE Reject(c)
  <2>1. data' = data /\ backlog' = backlog \ {c} /\ mem[c] = "none"
    BY <1>0, <1>6 DEF Reject, Asked
  <2>2. Live' = Live /\ \A d \in Clients \ {c} : mem'[d] = mem[d]
    BY <1>0, <1>6, <2>1 DEF Reject, Live, TypeOK
  <2>3. mem'[c] = "freed"
    BY <1>0, <1>6 DEF Reject, TypeOK
  <2>4. backlog \subseteq Clients
    BY <1>0 DEF TypeOK
  <2> QED
    BY <1>0, <1>1, <1>2, <1>3, <1>4, <2>1, <2>2, <2>3, <2>4 DEF Asked
<1>7. CASE Knock(c)
  <2>1. UNCHANGED <<data, mem, batch>> /\ mem[c] = "none" /\ backlog' = backlog \cup {c}
    BY <1>7 DEF Knock
  <2> QED
    BY <1>0, <1>1, <1>2, <1>4, <2>1 DEF Asked, Live
<1>8. ASSUME NEW much \in {"part", "full"}, Send(c, much) PROVE Asked'
  <2>1. /\ UNCHANGED <<backlog, mem, batch>> /\ c \in Live /\ data' = [data EXCEPT ![c] = much]
        /\ data[c] # "none" \/ Cardinality(JobsOf(c)) < MaxRuns
    BY <1>8 DEF Send
  <2>2. \A d \in Clients : data'[d] = IF d = c THEN much ELSE data[d]
    BY <1>0, <2>1 DEF TypeOK
  <2>3. mem[c] = "live" /\ Live' = Live
    BY <2>1 DEF Live
  <2>4. \A e \in batch : e.client \in Clients \cup {NoClient}
    BY <1>0 DEF TypeOK
  <2> QED
    BY <1>0, <1>1, <1>2, <1>4, <2>1, <2>2, <2>3, <2>4 DEF Asked
<1> QED
  BY <1>5, <1>6, <1>7, <1>8

\* A client that is freed asks for nothing.
LEMMA FreedAsked ==
  ASSUME Sound, NEW c \in Live, ClientFree(c), batch' \subseteq batch,
         UNCHANGED <<backlog, data, phase, pending, running, done, dropped, refused>>
  PROVE  Asked'
<1>0. TypeOK /\ Asked /\ c \in Clients /\ mem[c] = "live"
  BY DEF Sound, Live
<1>1. \A d \in Clients : Using(d)' = Using(d) /\ JobsOf(d)' = JobsOf(d)
  BY UsingSame, JobsKept
<1>2. \A d \in Clients : mem'[d] = IF d = c THEN "freed" ELSE mem[d]
  BY <1>0 DEF ClientFree, TypeOK
<1>3. Live' \subseteq Live /\ Live \subseteq Clients /\ backlog \subseteq Clients
  BY <1>0, <1>2 DEF Live, TypeOK
<1> QED
  BY <1>0, <1>1, <1>2, <1>3 DEF Asked

\* The job main queues is one the connection had left.
LEMMA EventAsked ==
  ASSUME Sound, NEW c \in Clients,
         DropHungUp(c) \/ Submit(c) \/ \E rearmed \in BOOLEAN : SubmitFails(c, rearmed)
  PROVE  Asked'
<1> USE DEF jobVars, regVars, poolVars, netVars
<1>0. TypeOK /\ Asked /\ Live \subseteq Clients
  BY DEF Sound, Live
<1>1. PICK h \in BOOLEAN : Takes(Event(c, h))
  BY DEF DropHungUp, Submit, SubmitFails
<1>2. c \in Live /\ batch' \subseteq batch
  BY <1>1, EventTaken DEF Takes
<1>3. CASE Submit(c)
  <2>1. NextJob(c) \in Jobs
    BY <1>3, NextJobFits DEF Submit, Takes
  <2>2. /\ \A d \in Clients : Using(d)' = Using(d) \cup (IF d = c THEN {NextJob(c)} ELSE {})
        /\ UNCHANGED <<mem, phase, backlog, data>>
    BY <1>0, <1>3, <2>1, UsingSubmitted DEF Submit, Sound
  <2>3. phase[NextJob(c)] = "none"
    BY <1>3, <2>1, QueuedElements DEF Submit, Pool!Submit, Pool!Known, Sound, JobsPlaced
  <2>4. \A d \in Clients \ {c} : JobsOf(d)' = JobsOf(d)
    <3>1. /\ pending' = Append(pending, NextJob(c)) /\ UNCHANGED <<running, done, dropped, refused>>
      BY <1>3 DEF Submit, Pool!Submit
    <3>2. Pool!Queued' = Pool!Queued \cup {NextJob(c)}
      <4>1. Pool!Queued' = Elements(pending)'
        BY DEF Pool!Queued, Elements
      <4>2. Elements(pending)' = Elements(pending) \cup {NextJob(c)}
        BY <1>0, <1>3, <2>1, UsingSubmitted DEF Sound
      <4> QED
        BY <4>1, <4>2, QueuedElements
    <3>3. Pool!Known' = Pool!Known \cup {NextJob(c)}
      BY <3>1, <3>2 DEF Pool!Known
    <3>4. NextJob(c)[1] = c
      BY DEF NextJob
    <3> QED
      BY <3>3, <3>4 DEF JobsOf
  <2>5. ASSUME NEW d \in Live, data[d] # "none" PROVE Served(d)'
    <3>1. CASE d = c
      <4>1. NextJob(c) \in Using(c)' /\ phase'[NextJob(c)] # "rearm"
        BY <2>2, <2>3
      <4> QED
        BY <3>1, <4>1 DEF Served
    <3>2. CASE d # c
      <4>1. Using(d)' = Using(d) /\ JobsOf(d)' = JobsOf(d)
        BY <1>0, <2>2, <2>4, <3>2
      <4> QED
        BY <1>0, <2>2, <2>5, <4>1 DEF Asked, Served
    <3> QED
      BY <3>1, <3>2
  <2> QED
    BY <1>0, <1>2, <2>2, <2>5 DEF Asked, Served, Live
<1>4. CASE DropHungUp(c) \/ SubmitFails(c, FALSE)
  BY <1>2, <1>4, FreedAsked DEF DropHungUp, SubmitFails
<1>5. CASE SubmitFails(c, TRUE)
  <2>1. UNCHANGED <<mem, backlog, data, phase, pending, running, done, dropped, refused>>
    BY <1>5 DEF SubmitFails
  <2>2. \A d \in Clients : Using(d)' = Using(d) /\ JobsOf(d)' = JobsOf(d)
    BY <2>1, UsingSame, JobsKept
  <2> QED
    BY <1>0, <1>2, <2>1, <2>2 DEF Asked, Live
<1> QED
  BY <1>3, <1>4, <1>5

\* A worker rearms its connection only while the handler may run again.
LEMMA JobAsked ==
  ASSUME Sound, NEW j \in Jobs, OwnStep(j)
  PROVE  Asked'
<1> USE DEF jobVars, regVars, poolVars, mainVars, netVars
<1> DEFINE c == j[1]
<1>0. /\ TypeOK /\ Asked /\ JobsPlaced /\ c \in Clients
      /\ Live \subseteq Clients /\ backlog \subseteq Clients
  BY DEF Sound, Jobs, Live, TypeOK
<1>1. pending' = pending /\ UNCHANGED <<batch, backlog>>
  BY JobMoves
<1>2. \A d \in Clients : JobsOf(d)' = JobsOf(d)
  <2>1. RunReturn(j) \/ UNCHANGED <<pending, running, done, dropped, refused>>
    BY DEF OwnStep, Run, EchoLoop, Spin, Disconnect, EchoRequest, RunRearm, RunRearmFails, RunRemove, RunFree
  <2> QED
    BY <2>1, JobsKept
<1>3. \A d \in Clients : Using(d) \subseteq Jobs /\ (d # c => j \notin Using(d))
  BY UsingIs
<1>4. phase[j] \in Busy => j \in Using(c) /\ c \in Live /\ Fetched(c) = {} /\ Using(c) = {j}
  BY <1>0, UsingIs DEF Sound, Hands
<1>5. phase' = [phase EXCEPT ![j] = phase'[j]]
  BY <1>0 DEF OwnStep, JobGoto, PhaseGoto, Run, EchoLoop, Spin, Disconnect, EchoRequest, RunRearm, RunRearmFails,
              RunRemove, RunFree, RunReturn, TypeOK
<1>6. \A k \in Jobs \ {j} : phase'[k] = phase[k]
  BY <1>0, <1>5 DEF TypeOK
<1> HIDE DEF c
<1>7. ASSUME \A d \in Clients : Using(d) \ {j} \subseteq Using(d)'
      PROVE  \A d \in Live \ {c} : data[d] # "none" => Served(d)'
  <2> SUFFICES ASSUME NEW d \in Live \ {c}, data[d] # "none" PROVE Served(d)'
    OBVIOUS
  <2>1. Served(d) /\ d \in Clients
    BY <1>0 DEF Asked, Served
  <2>2. \A k \in Using(d) : k \in Using(d)' /\ phase'[k] = phase[k]
    BY <1>3, <1>6, <1>7, <2>1
  <2>3. JobsOf(d)' = JobsOf(d)
    BY <1>2, <2>1
  <2> QED
    BY <2>1, <2>2, <2>3 DEF Served
<1>8. CASE (\E keep \in BOOLEAN : Run(j, keep)) \/ \E next \in {"run", "rearm", "remove"} : EchoRequest(j, next)
  <2>1. /\ phase[j] \in Busy /\ \E to \in Busy : phase' = [phase EXCEPT ![j] = to]
        /\ data' = [data EXCEPT ![c] = "none"] /\ UNCHANGED mem
    BY <1>8 DEF Run, EchoRequest, JobGoto, PhaseGoto, Busy, c
  <2>2. \A d \in Clients : Using(d)' = Using(d)
    BY <1>0, <1>1, <2>1, UsingKept
  <2>3. \A d \in Clients : data'[d] = IF d = c THEN "none" ELSE data[d]
    BY <1>0, <2>1 DEF TypeOK
  <2>4. \A e \in batch : e.client # c
    BY <1>4, <2>1 DEF Fetched
  <2>5. \A d \in Live' : data'[d] # "none" => Served(d)'
    BY <1>0, <1>7, <2>1, <2>2, <2>3 DEF Live
  <2>6. \A e \in batch : e.client \in Clients \cup {NoClient}
    BY <1>0 DEF TypeOK
  <2> QED
    BY <1>0, <1>1, <2>1, <2>3, <2>4, <2>5, <2>6 DEF Asked, Served
<1>9. CASE \/ \E keep \in BOOLEAN : EchoLoop(j, keep)
           \/ Spin(j) \/ \E d \in Clients : Disconnect(j, d)
           \/ RunRearmFails(j) \/ RunRemove(j)
  <2>1. /\ phase[j] \in Busy /\ \E to \in Busy \ {"rearm"} : phase' = [phase EXCEPT ![j] = to]
        /\ UNCHANGED <<data, mem>>
    BY <1>9 DEF EchoLoop, Spin, Disconnect, RunRearmFails, RunRemove, JobGoto, PhaseGoto, Busy
  <2>2. \A d \in Clients : Using(d)' = Using(d)
    BY <1>0, <1>1, <2>1, UsingKept
  <2>3. phase'[j] # "rearm" /\ j \in Using(c)'
    BY <1>0, <1>4, <2>1, <2>2 DEF TypeOK
  <2>4. Served(c)'
    BY <2>3 DEF Served
  <2>5. \A d \in Live' : data'[d] # "none" => Served(d)'
    BY <1>0, <1>7, <2>1, <2>2, <2>4 DEF Live
  <2> QED
    BY <1>0, <1>1, <2>1, <2>5 DEF Asked, Served
<1>10. CASE RunRearm(j)
  <2>1. /\ phase[j] \in Busy /\ phase[j] = "rearm" /\ phase' = [phase EXCEPT ![j] = "return"]
        /\ UNCHANGED <<data, mem>>
    BY <1>10 DEF RunRearm, JobGoto, PhaseGoto, Busy
  <2>2. \A d \in Clients : Using(d)' = Using(d) \ {j}
    BY <1>0, <1>1, <2>1, UsingLost
  <2>3. data[c] # "none" => Cardinality(JobsOf(c)) < MaxRuns
    BY <1>0, <1>4, <2>1 DEF Asked
  <2>4. data[c] # "none" => Served(c)'
    BY <1>0, <1>2, <2>3 DEF Served
  <2>5. \A d \in Live' : data'[d] # "none" => Served(d)'
    BY <1>0, <1>7, <2>1, <2>2, <2>4 DEF Live
  <2> QED
    BY <1>0, <1>1, <2>1, <2>5 DEF Asked, Served
<1>11. CASE RunFree(j)
  <2>1. /\ phase[j] \in Busy /\ phase' = [phase EXCEPT ![j] = "return"]
        /\ ClientFree(c) /\ UNCHANGED data
    BY <1>11 DEF RunFree, JobGoto, PhaseGoto, Busy, c
  <2>2. \A d \in Clients : Using(d)' = Using(d) \ {j}
    BY <1>0, <1>1, <2>1, UsingLost
  <2>3. Live' = Live \ {c} /\ mem[c] = "live"
    BY <1>0, <1>4, <2>1, Freed DEF Live
  <2>4. \A d \in Clients : mem'[d] = IF d = c THEN "freed" ELSE mem[d]
    BY <1>0, <2>1 DEF ClientFree, TypeOK
  <2>5. \A d \in Live' : data'[d] # "none" => Served(d)'
    BY <1>0, <1>7, <2>1, <2>2, <2>3
  <2> QED
    BY <1>0, <1>1, <2>1, <2>3, <2>4, <2>5 DEF Asked, Served
<1>12. CASE RunReturn(j)
  <2>1. /\ phase[j] = "return" /\ phase' = [phase EXCEPT ![j] = "none"]
        /\ UNCHANGED <<data, mem>>
    BY <1>12 DEF RunReturn, JobGoto, PhaseGoto
  <2>2. \A d \in Clients : Using(d)' = Using(d)
    BY <1>0, <1>1, <2>1, UsingReturned
  <2>3. phase'[j] # "rearm"
    BY <1>0, <2>1 DEF TypeOK
  <2>4. ASSUME NEW d \in Live, data[d] # "none" PROVE Served(d)'
    <3>1. Served(d) /\ d \in Clients
      BY <1>0, <2>4 DEF Asked, Served
    <3>2. \A k \in Using(d) : k \in Using(d)' /\ (phase[k] # "rearm" => phase'[k] # "rearm")
      BY <1>3, <1>6, <2>2, <2>3, <3>1
    <3>3. JobsOf(d)' = JobsOf(d)
      BY <1>2, <3>1
    <3> QED
      BY <3>1, <3>2, <3>3 DEF Served
  <2> QED
    BY <1>0, <1>1, <2>1, <2>4 DEF Asked, Served, Live
<1> QED
  BY <1>8, <1>9, <1>10, <1>11, <1>12 DEF OwnStep

\* Whoever moves it, a connection whose client has sent something has a job left, or
\* a worker at it.
LEMMA MovingAsked ==
  ASSUME Sound, MovingStep
  PROVE  Asked'
<1> USE DEF jobVars, regVars, poolVars, mainVars, netVars
<1>0. TypeOK /\ Asked /\ Live \subseteq Clients
  BY DEF Sound, Live
<1>1. CASE EpollReturn
  <2>1. UNCHANGED <<backlog, data, mem, phase, pending, running, done, dropped, refused>>
    BY <1>1 DEF EpollReturn
  <2>2. \A d \in Clients : Using(d)' = Using(d) /\ JobsOf(d)' = JobsOf(d)
    BY <2>1, UsingSame, JobsKept
  <2>3. ASSUME NEW e \in batch', ~e.hup, e.client # NoClient PROVE data[e.client] # "none"
    <3>1. PICK d \in Ready : d \notin hup /\ e = Event(d, FALSE)
      BY <1>1, <2>3, Reported DEF Event
    <3> QED
      BY <3>1 DEF Ready, Event
  <2> QED
    BY <1>0, <2>1, <2>2, <2>3 DEF Asked, Live
<1>2. CASE Start
  <2>1. UNCHANGED <<backlog, data, mem, batch>> /\ phase' = [phase EXCEPT ![Head(pending)] = "run"]
    BY <1>2 DEF Start
  <2>2. \A d \in Clients : Using(d)' = Using(d) /\ JobsOf(d)' = JobsOf(d) /\ Using(d) \subseteq Jobs
    BY <1>2, UsingStarted, JobsKept, UsingIs DEF Sound
  <2>3. \A k \in Jobs : phase[k] # "rearm" => phase'[k] # "rearm"
    BY <1>0, <2>1 DEF TypeOK
  <2> QED
    BY <1>0, <2>1, <2>2, <2>3 DEF Asked, Live
<1>3. ASSUME NEW s \in Slots, RegistryDestroy(s) PROVE Asked'
  <2>1. slots[s] \in Live
    BY <1>3, DestroyHands
  <2> QED
    BY <1>3, <2>1, FreedAsked DEF RegistryDestroy
<1> QED
  BY <1>1, <1>2, <1>3, ClientAsked, EventAsked, JobAsked DEF MovingStep

-----------------------------------------------------------------------------
(* An admin who destroys somebody else's connection.                       *)

\* While a job runs, the main thread's stage is that of a server that is complete.
LEMMA RunningStages ==
  ASSUME TypeOK, Stages, running # {}, UNCHANGED <<mpc, owned, batch, open, waiting, pending,
                                                   running, dropped, refused>>
  PROVE  Stages'
<1>1. owned = AllParts /\ mpc \notin {"create", "pooldestroy", "registry", "done"}
  BY DEF TypeOK, MainLabels, Stages, Fresh
<1> QED
  BY <1>1 DEF Stages

\* opcode_disconnect takes a connection out of the registry: nobody's hands change, and
\* the slot is the one the connection knew.
LEMMA KickRemoveSound ==
  ASSUME Sound, NEW j \in Jobs, KickRemove(j)
  PROVE  Sound'
<1> USE DEF jobVars, regVars, poolVars, mainVars, netVars
<1> DEFINE c == victim[j]
<1>0. TypeOK /\ Listed /\ SlotsAgree /\ JobsPlaced /\ Asked /\ Live \subseteq Clients
  BY DEF Sound, Listed, Live
<1>1. /\ phase[j] = "kick" /\ phase' = [phase EXCEPT ![j] = "kickfree"] /\ victim' = victim
      /\ RegistryRemove(c) /\ broken' \in BOOLEAN
      /\ UNCHANGED <<mainVars, armed, mem, netVars, poolVars>>
  BY DEF KickRemove, PhaseGoto
<1>2. \A k \in Jobs : phase'[k] = IF k = j THEN "kickfree" ELSE phase[k]
  BY <1>0, <1>1 DEF TypeOK
<1>3. c \in Clients /\ Known(c) /\ j \in running
  BY <1>0, <1>1 DEF Listed, Known, JobsPlaced
<1> HIDE DEF c
<1>4. /\ slots' \in [Slots -> Clients \cup {NoClient}]
      /\ idx' \in [Clients -> Slots \cup {NoSlot}]
      /\ \A d \in Clients : idx'[d] = IF d = c THEN NoSlot ELSE idx[d]
      /\ \A d \in Clients, s \in Slots : slots'[s] = d <=> idx'[d] = s
      /\ Registered' = Registered \ {c}
  BY <1>0, <1>1, <1>3, RegistryOut
<1>5. TypeOK'
  <2>1. phase' \in [Jobs -> Phases]
    BY <1>0, <1>1 DEF TypeOK, Phases, Busy
  <2> QED
    BY <1>0, <1>1, <1>4, <2>1 DEF TypeOK
<1>6. Stages'
  BY <1>0, <1>1, <1>3, RunningStages DEF Sound
<1>7. \A d \in Clients : Using(d)' = Using(d) /\ Fetched(d)' = Fetched(d) /\ JobsOf(d)' = JobsOf(d)
  <2>1. \A d \in Clients : Using(d)' = Using(d)
    BY <1>0, <1>1, UsingKept DEF Busy
  <2>2. \A d \in Clients : Fetched(d)' = Fetched(d)
    BY <1>1 DEF Fetched
  <2>3. \A d \in Clients : JobsOf(d)' = JobsOf(d)
    BY <1>1, JobsKept
  <2> QED
    BY <2>1, <2>2, <2>3
<1>8. Live' = Live
  BY <1>1 DEF Live
<1>9. JobsPlaced'
  BY <1>0, <1>1, <1>2 DEF JobsPlaced
<1>10. Hands'
  BY <1>1, <1>7, <1>8 DEF Sound, Hands
<1>11. Listed'
  <2>1. \A d \in Live : HasSession(d)' => HasSession(d) /\ d # c
    BY <1>1, <1>2, <1>8 DEF HasSession, c
  <2>2. \A k \in Jobs : k[1] \in Clients
    BY DEF Jobs
  <2>3. \A k \in Jobs : phase'[k] = "free" => idx'[k[1]] = NoSlot
    BY <1>0, <1>2, <1>4, <2>2 DEF Listed
  <2>4. \A k \in Jobs : phase'[k] \in {"kick", "kickfree"} => Known(victim[k])'
    BY <1>0, <1>1, <1>2 DEF Listed, Known
  <2>5. \A k \in Jobs : phase'[k] = "kickfree" => idx'[victim'[k]] = NoSlot
    <3>1. idx'[victim'[j]] = NoSlot
      BY <1>1, <1>3, <1>4 DEF c
    <3>2. \A k \in Jobs \ {j} : phase'[k] = "kickfree" => idx[victim[k]] = NoSlot /\ victim[k] \in Clients
      BY <1>0, <1>2 DEF Listed, Known
    <3> QED
      BY <1>1, <1>4, <3>1, <3>2
  <2> QED
    BY <1>0, <1>4, <1>8, <2>1, <2>3, <2>4, <2>5 DEF Listed, SlotsAgree
<1>12. Asked'
  <2>1. \A d \in Clients : (\E k \in Using(d) : phase[k] # "rearm") => \E k \in Using(d) : phase'[k] # "rearm"
    BY <1>2, UsingIs
  <2> QED
    BY <1>0, <1>1, <1>7, <1>8, <2>1 DEF Asked
<1> QED
  BY <1>5, <1>6, <1>9, <1>10, <1>11, <1>12 DEF Sound

\* It frees the connection: if nobody has that in hand, it was epoll's, and all stays
\* sound.
LEMMA KickFreeSound ==
  ASSUME Sound, NEW j \in Jobs, KickFree(j)
  PROVE  TypeOK' /\ Stages' /\ SlotsAgree' /\ (~broken' => Sound')
<1> USE DEF jobVars, regVars, poolVars, mainVars, netVars
<1> DEFINE c == victim[j]
           d == j[1]
<1>0. /\ TypeOK /\ Listed /\ SlotsAgree /\ JobsPlaced /\ Asked /\ Live \subseteq Clients
      /\ d \in Clients /\ backlog \subseteq Clients
  BY DEF Sound, Listed, Live, Jobs, TypeOK
<1>1. /\ phase[j] = "kickfree" /\ phase' = [phase EXCEPT ![j] = "rearm"]
      /\ victim' = [victim EXCEPT ![j] = NoClient] /\ data' = [data EXCEPT ![d] = "none"]
      /\ ClientFree(c) /\ broken' \in BOOLEAN
      /\ UNCHANGED <<mainVars, regVars, backlog, hup, shut, poolVars>>
      /\ ~broken' => c \in Live /\ Using(c) = {} /\ Fetched(c) = {}
  BY DEF KickFree, PhaseGoto
<1>2. /\ \A k \in Jobs : phase'[k] = IF k = j THEN "rearm" ELSE phase[k]
      /\ \A k \in Jobs : victim'[k] = IF k = j THEN NoClient ELSE victim[k]
      /\ \A e \in Clients : data'[e] = IF e = d THEN "none" ELSE data[e]
  BY <1>0, <1>1 DEF TypeOK
<1>3. c \in Clients /\ Known(c) /\ j \in running /\ idx[c] = NoSlot
  BY <1>0, <1>1 DEF Listed, Known, JobsPlaced
<1> HIDE DEF c, d
<1>4. /\ \A e \in Clients : mem'[e] = IF e = c THEN "freed" ELSE mem[e]
      /\ Live' = Live \ {c} /\ armed' = armed \ {c}
  BY <1>0, <1>1, <1>3, Freed DEF ClientFree, TypeOK
<1>5. TypeOK'
  <2>1. phase' \in [Jobs -> Phases] /\ victim' \in [Jobs -> Clients \cup {NoClient}]
    BY <1>0, <1>1 DEF TypeOK, Phases, Busy
  <2>2. mem' \in [Clients -> {"none", "live", "freed"}] /\ armed' \subseteq Clients
    BY <1>0, <1>1, <1>4 DEF TypeOK, ClientFree
  <2>3. data' \in [Clients -> {"none", "part", "full"}]
    BY <1>0, <1>1 DEF TypeOK
  <2> QED
    BY <1>0, <1>1, <2>1, <2>2, <2>3 DEF TypeOK
<1>6. Stages'
  BY <1>0, <1>1, <1>3, RunningStages DEF Sound
<1>7. SlotsAgree'
  BY <1>0, <1>1 DEF SlotsAgree
<1>8. ASSUME ~broken' PROVE Sound'
  <2>0. c \in Live /\ Using(c) = {} /\ Fetched(c) = {}
    BY <1>1, <1>8
  <2>1. \A e \in Clients : Using(e)' = Using(e) /\ Fetched(e)' = Fetched(e) /\ JobsOf(e)' = JobsOf(e)
    <3>1. \A e \in Clients : Using(e)' = Using(e)
      BY <1>0, <1>1, UsingKept DEF Busy
    <3>2. \A e \in Clients : Fetched(e)' = Fetched(e)
      BY <1>1 DEF Fetched
    <3>3. \A e \in Clients : JobsOf(e)' = JobsOf(e)
      BY <1>1, JobsKept
    <3> QED
      BY <3>1, <3>2, <3>3
  <2>2. JobsPlaced'
    BY <1>0, <1>1, <1>2 DEF JobsPlaced
  <2>3. Hands'
    BY <1>4, <2>0, <2>1 DEF Sound, Hands
  <2>4. Listed'
    <3>1. ASSUME NEW e \in Live', HasSession(e)' PROVE HasSession(e)
      <4>1. e \in Live /\ e # c
        BY <1>4
      <4>2. \A k \in Jobs : /\ (phase'[k] = "free" => k[1] # e)
                          /\ (phase'[k] = "kickfree" => victim'[k] # e)
        BY <3>1 DEF HasSession
      <4>3. \A k \in Jobs \ {j} : phase'[k] = phase[k] /\ victim'[k] = victim[k]
        BY <1>2
      <4>4. phase[j] = "kickfree" /\ victim[j] # e
        BY <1>1, <4>1 DEF c
      <4> QED
        BY <4>1, <4>2, <4>3, <4>4 DEF HasSession
    <3>2. c \notin Registered /\ Registered' = Registered
      <4>1. NoSlot \notin Slots
        BY DEF Slots
      <4> QED
        BY <1>0, <1>1, <1>3, <4>1 DEF SlotsAgree, Registered
    <3>3. \A k \in Jobs : /\ (phase'[k] = "free" => idx'[k[1]] = NoSlot)
                        /\ (phase'[k] \in {"kick", "kickfree"} => Known(victim[k])')
                        /\ (phase'[k] = "kickfree" => idx'[victim'[k]] = NoSlot)
      <4>1. \A e \in Clients : Known(e) => Known(e)'
        BY <1>4 DEF Known
      <4>2. \A k \in Jobs \ {j} : victim'[k] = victim[k] /\ phase'[k] = phase[k]
        BY <1>2
      <4>3. phase'[j] = "rearm"
        BY <1>2
      <4>4. \A k \in Jobs \ {j} : phase[k] \in {"kick", "kickfree"} => victim[k] \in Clients /\ Known(victim[k])
        BY <1>0 DEF Listed, Known
      <4>5. idx' = idx
        BY <1>1
      <4> QED
        BY <1>0, <4>1, <4>2, <4>3, <4>4, <4>5 DEF Listed, Known
    <3> QED
      BY <1>0, <1>1, <1>4, <1>7, <3>1, <3>2, <3>3 DEF Listed
  <2>5. Asked'
    <3>0. j \in Using(d)
      BY <1>0, <1>1, UsingIs DEF Busy, d
    <3>1. d \in Live /\ Fetched(d) = {} /\ \A e \in Clients \ {d} : j \notin Using(e)
      BY <1>0, <3>0, UsingIs DEF Sound, Hands, d
    <3>2. \A e \in batch : e.client # d
      BY <3>1 DEF Fetched
    <3>3. ASSUME NEW e \in Live', data'[e] # "none"
          PROVE  Cardinality(JobsOf(e)') < MaxRuns \/ \E k \in Using(e)' : phase'[k] # "rearm"
      <4>1. e \in Live /\ e \in Clients /\ e # d /\ data[e] # "none"
        BY <1>0, <1>2, <1>4, <3>3
      <4>2. \A k \in Using(e) : k \in Jobs /\ k # j
        BY <3>1, <4>1, UsingIs
      <4>3. Cardinality(JobsOf(e)) < MaxRuns \/ \E k \in Using(e) : phase[k] # "rearm"
        BY <1>0, <4>1 DEF Asked
      <4> QED
        BY <1>2, <2>1, <4>1, <4>2, <4>3
    <3>4. \A e \in batch : e.client \in Clients \cup {NoClient}
      BY <1>0 DEF TypeOK
    <3>5. \A e \in Clients : mem'[e] = "none" => mem[e] = "none"
      BY <1>4
    <3>6. \A e \in backlog : e # c
      BY <1>0, <1>3 DEF Asked, Known
    <3> QED
      BY <1>0, <1>1, <1>2, <1>4, <3>2, <3>3, <3>4, <3>5, <3>6 DEF Asked
  <2> QED
    BY <1>5, <1>6, <2>2, <2>3, <2>4, <2>5 DEF Sound
<1> QED
  BY <1>5, <1>6, <1>7, <1>8

-----------------------------------------------------------------------------
(* The theorems.                                                           *)

\* What is sound satisfies the invariant.
LEMMA SoundInv == (Sound => IInv) /\ (Sound' => IInv')
  BY DEF Sound, IInv, Listed, RegistryAgrees, SlotsAgree

\* A server that has not started has no connection to own.
LEMMA InitInv == Init => IInv
<1> SUFFICES ASSUME Init PROVE IInv
  OBVIOUS
<1>1. TypeOK
  BY TypeInit
<1>2. /\ pending = <<>> /\ running = {} /\ dropped = {} /\ refused = {} /\ waiting = {} /\ open
      /\ batch = {} /\ armed = {} /\ owned = {} /\ mpc = "create" /\ backlog = {}
      /\ \A j \in Jobs : phase[j] = "none"
      /\ \A c \in Clients : mem[c] = "none" /\ idx[c] = NoSlot /\ data[c] = "none"
      /\ \A s \in Slots : slots[s] = NoClient
  BY DEF Init, Pool!Init
<1>3. Live = {} /\ Registered = {} /\ Elements(pending) = {} /\ Distinct(pending)
  BY <1>2, EmptyQueue DEF Live, Registered
<1>4. \A c \in Clients : Using(c) = {} /\ Fetched(c) = {}
  BY <1>2, <1>3, UsingIs DEF Fetched, Busy
<1>5. Stages
  <2>1. owned = Prefix(0) /\ Cardinality(owned) = 0 /\ 0 \in 0..6
    BY <1>2, PartsSeven, FS_EmptySet
  <2> QED
    BY <1>2, <1>3, <2>1 DEF Stages, Fresh
<1>6. JobsPlaced
  BY <1>2, <1>3 DEF JobsPlaced
<1>7. Hands
  BY <1>2, <1>3, <1>4 DEF Hands
<1>8. Listed
  BY <1>2, <1>3 DEF Listed, SlotsAgree, Slots
<1>9. Asked
  BY <1>2, <1>3 DEF Asked
<1> QED
  BY <1>1, <1>5, <1>6, <1>7, <1>8, <1>9, SoundInv DEF Sound

\* The invariant is inductive.
LEMMA NextInv == IInv /\ [Next]_vars => IInv'
<1> SUFFICES ASSUME IInv, [Next]_vars PROVE IInv'
  OBVIOUS
<1>1. CASE UNCHANGED vars
  <2>1. ASSUME Sound PROVE Sound'
    <3>1. UNCHANGED <<slots, idx, mem, phase, victim>>
      BY <1>1 DEF vars, regVars, jobVars
    <3> QED
      BY <1>1, <2>1, <3>1, CalmType, CalmStages, CalmHands, SameListed, CalmAsked DEF Sound
  <2>2. TypeOK' /\ Stages' /\ RegistryAgrees' /\ broken' = broken
    BY <1>1 DEF vars, regVars, jobVars, mainVars, netVars, poolVars, IInv, TypeOK, Stages,
                Fresh, Live, RegistryAgrees, HasSession
  <2> QED
    BY <2>1, <2>2 DEF IInv
<1>2. ASSUME ~broken, CalmStep PROVE IInv'
  <2>1. Sound
    BY <1>2 DEF IInv
  <2>2. UNCHANGED <<slots, idx, mem, phase, victim>>
    BY <1>2, <2>1, CalmFrame DEF Sound
  <2>3. Sound'
    BY <1>2, <2>1, <2>2, CalmType, CalmStages, CalmHands, SameListed, CalmAsked DEF Sound
  <2> QED
    BY <2>3, SoundInv DEF Sound
<1>3. ASSUME ~broken, MovingStep PROVE IInv'
  <2>1. Sound
    BY <1>3 DEF IInv
  <2>2. Sound'
    BY <1>3, <2>1, MovingType, MovingStages, MovingHands, MovingListed, MovingAsked DEF Sound
  <2> QED
    BY <2>2, SoundInv DEF Sound
<1>4. ASSUME ~broken, NEW j \in Jobs, KickStep(j) PROVE IInv'
  <2>1. Sound
    BY <1>4 DEF IInv
  <2>2. CASE KickRemove(j)
    BY <2>1, <2>2, KickRemoveSound, SoundInv
  <2>3. CASE KickFree(j)
    <3>1. TypeOK' /\ Stages' /\ SlotsAgree' /\ (~broken' => Sound')
      BY <2>1, <2>3, KickFreeSound
    <3>2. ~broken' => IInv'
      BY <3>1, SoundInv
    <3>3. broken' => RegistryAgrees'
      BY <3>1 DEF RegistryAgrees, SlotsAgree
    <3> QED
      BY <3>1, <3>2, <3>3 DEF IInv
  <2> QED
    BY <1>4, <2>2, <2>3 DEF KickStep
<1> QED
  BY <1>1, <1>2, <1>3, <1>4, StepKinds

\* Every behaviour keeps the inductive invariant: the main thread's stage and the
\* registry always agree with the rest, and until opcode_disconnect destroys a
\* connection that somebody has, a connection goes from epoll to main, to one job of
\* the pool and back, or is freed.
THEOREM Invariance == SafetySpec => []IInv
  BY InitInv, NextInv, PTL DEF SafetySpec

\* Every variable keeps its type; the one fact that is not plain from the assignments
\* is that a job that is submitted is one of the MaxRuns a connection has.
THEOREM TypeCorrect == SafetySpec => []TypeOK
<1>1. IInv => TypeOK
  BY DEF IInv
<1> QED
  BY <1>1, Invariance, PTL

\* A live connection is in exactly one pair of hands: epoll's, the main thread's or one
\* job's.  EPOLLONESHOT and client_rearm are all the locking a client_t has, and the
\* client_destroy of opcode_disconnect is the one thing that passes it by.
THEOREM OneOwnerCorrect == SafetySpec => []OneOwner
<1>1. ASSUME IInv, ~broken, NEW c \in Live
      PROVE  Cardinality(Using(c)) + Cardinality(Fetched(c)) + Cardinality({c} \cap armed) = 1
  <2>1. c \in Clients
    BY DEF Live
  <2>2. /\ \A j, k \in Using(c) : j = k
        /\ \A e, f \in Fetched(c) : e = f
        /\ c \in armed => Using(c) = {} /\ Fetched(c) = {}
        /\ Fetched(c) # {} => Using(c) = {}
        /\ c \in armed \/ Using(c) # {} \/ Fetched(c) # {}
    BY <1>1, <2>1 DEF IInv, Sound, Hands
  <2>3. ASSUME NEW S, S # {}, \A x, y \in S : x = y PROVE Cardinality(S) = 1
    <3>1. PICK x : S = {x}
      BY <2>3
    <3> QED
      BY <3>1, FS_Singleton
  <2>4. Cardinality({}) = 0
    BY FS_EmptySet
  <2>5. CASE c \in armed
    <3>1. {c} \cap armed = {c} /\ Using(c) = {} /\ Fetched(c) = {}
      BY <2>2, <2>5
    <3>2. /\ Cardinality({c} \cap armed) = 1
          /\ Cardinality(Using(c)) = 0 /\ Cardinality(Fetched(c)) = 0
      BY <2>4, <3>1, FS_Singleton
    <3> QED
      BY <3>2
  <2>6. CASE Using(c) # {}
    <3>1. {c} \cap armed = {} /\ Fetched(c) = {} /\ Cardinality(Using(c)) = 1
      BY <2>2, <2>3, <2>6
    <3>2. Cardinality({c} \cap armed) = 0 /\ Cardinality(Fetched(c)) = 0
      BY <2>4, <3>1
    <3> QED
      BY <3>1, <3>2
  <2>7. CASE Fetched(c) # {}
    <3>1. {c} \cap armed = {} /\ Using(c) = {} /\ Cardinality(Fetched(c)) = 1
      BY <2>2, <2>3, <2>7
    <3>2. Cardinality({c} \cap armed) = 0 /\ Cardinality(Using(c)) = 0
      BY <2>4, <3>1
    <3> QED
      BY <3>1, <3>2
  <2> QED
    BY <2>2, <2>5, <2>6, <2>7
<1>2. IInv => OneOwner
  BY <1>1 DEF OneOwner
<1> QED
  BY <1>2, Invariance, PTL

\* No worker runs without the parts of server_t that client_run_wrapper uses, also when
\* server_create stopped half-way or epoll_wait failed; and nobody holds a pointer to a
\* connection that has been freed, until opcode_disconnect frees one that somebody has.
THEOREM PointersValidCorrect == SafetySpec => []PointersValid
<1>1. ASSUME IInv, running # {} PROVE {"p_appdata", "p_registry", "epollfd"} \subseteq owned
  <2>1. owned = AllParts
    BY <1>1 DEF IInv, TypeOK, MainLabels, Stages, Fresh
  <2>2. "p_appdata" = Parts[2] /\ "p_registry" = Parts[3] /\ "epollfd" = Parts[6]
    BY DEF Parts
  <2>3. Parts[2] \in AllParts /\ Parts[3] \in AllParts /\ Parts[6] \in AllParts
    BY PartsSeven DEF AllParts
  <2> QED
    BY <2>1, <2>2, <2>3
<1>2. ASSUME IInv, ~broken
      PROVE  /\ armed \cup Registered \subseteq Live
             /\ \A c \in Clients : Using(c) # {} \/ Fetched(c) # {} => c \in Live
  BY <1>2 DEF IInv, Sound, TypeOK, Hands, Listed
<1>3. IInv => PointersValid
  BY <1>1, <1>2 DEF PointersValid
<1> QED
  BY <1>3, Invariance, PTL

\* The registry and the clients agree on who is where, whatever opcode_disconnect
\* does; and until it breaks something, a live connection is missing from it only
\* between client_destroy's registry_remove and its free.
THEOREM RegistryCorrect == SafetySpec => []RegistryAgrees
<1>1. IInv => RegistryAgrees
  BY DEF IInv
<1> QED
  BY <1>1, Invariance, PTL

\* When server_destroy has freed the server, no client, no event and no job is left,
\* and none was dropped or refused.
THEOREM NothingLeftCorrect == SafetySpec => []NothingLeft
<1>1. IInv => NothingLeft
  BY DEF IInv, Stages, NothingLeft, Pool!Idle
<1> QED
  BY <1>1, Invariance, PTL
=============================================================================
