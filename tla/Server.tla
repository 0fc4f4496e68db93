------------------------------- MODULE Server -------------------------------
(***************************************************************************)
(* The life of a connection in server/src: server_run's epoll loop in the  *)
(* main thread, the client registry, client_run_wrapper in the workers and *)
(* server_destroy.  The thread pool is WorkPool, the abstract pool TPool   *)
(* implements; a job <<c, n>> is the n-th call of client_run_wrapper for   *)
(* connection c.                                                           *)
(*                                                                         *)
(* Nobody locks a client_t.  What keeps a connection in one pair of hands  *)
(* is EPOLLONESHOT: epoll forgets a descriptor as it reports it, until     *)
(* client_rearm.  The pieces that state is spread over (epoll's interest   *)
(* list, the events main has fetched, the pool's queue, the workers) are   *)
(* separate variables here, as they are in the program.                    *)
(*                                                                         *)
(* p_client_run is the application's handler.  The chat's receives one     *)
(* request and returns once its receives have: it stalls with its client,  *)
(* and when the client hangs up or registry_shutdown shuts the socket down *)
(* it ends, or it is in one of the loops over a file, which ignore that    *)
(* and may go round for ever.  opcode_disconnect destroys the client_t of  *)
(* another connection, whoever has it.  The echo server's handler          *)
(* (echo/src/echo.c) keeps the connection, and its worker, for request     *)
(* after request.                                                          *)
(***************************************************************************)
EXTENDS Naturals, Sequences, FiniteSets

CONSTANTS
  Clients,    \* connections: a client_t each, allocated at most once
  NoClient,   \* NULL in the registry; the listening socket in an event
  NoSlot,     \* registry_idx = -1
  MaxClients, \* MAX_CLIENTS
  Capacity,   \* WORKER_THREADS
  MaxRuns,    \* bound: the calls of client_run_wrapper for one connection
  Apps        \* the applications that may be loaded

ASSUME ServerAssumption ==
  /\ NoClient \notin Clients
  /\ MaxClients \in Nat \ {0} /\ NoSlot \notin 1..MaxClients
  /\ Capacity \in Nat \ {0} /\ MaxRuns \in Nat
  /\ Apps \subseteq {"chat", "echo"}

Slots == 1..MaxClients
Jobs  == Clients \X (1..MaxRuns)
Main  == "main"

\* What server_create makes, in this order.
Parts == <<"p_server", "p_appdata", "p_registry", "p_tm", "sockfd", "epollfd", "p_lhost">>

VARIABLES
  p_client_run,  \* the application loaded into server_t
  owned,     \* the parts of server_t that are allocated or open
  gb_running,
  mpc,       \* where the main thread is
  batch,     \* p_events not handled yet
  armed,     \* the connections epoll may report
  mem,       \* each client_t: not allocated, live, freed
  slots,     \* pp_clients
  idx,       \* registry_idx of each connection
  phase,     \* where the worker that runs a job is
  victim,    \* the connection a job's opcode_disconnect is about
  broken,    \* opcode_disconnect has used a client_t, or a session, that was freed,
             \* or freed one that is in use: what happens then is undefined
  backlog,   \* connections waiting for accept
  data,      \* what the client has sent: nothing, part of a request, all of it
  hup,       \* the connections whose client is gone
  shut,      \* the connections registry_shutdown has shut down
  pending, running, done, dropped, refused, waiting, open   \* WorkPool's

Pool == INSTANCE WorkPool WITH Callers <- {Main}

poolVars == <<pending, running, done, dropped, refused, waiting, open>>
netVars  == <<backlog, data, hup, shut>>
regVars  == <<slots, idx>>
jobVars  == <<phase, victim, broken>>
mainVars == <<p_client_run, owned, gb_running, mpc, batch>>
vars     == <<mainVars, armed, mem, regVars, jobVars, netVars, poolVars>>

Live == {c \in Clients : mem[c] = "live"}

Init ==
  /\ p_client_run \in Apps       \* chat_load_app, echo_load_app
  /\ owned = {}
  /\ gb_running = TRUE
  /\ mpc = "create"
  /\ batch = {}
  /\ armed = {}
  /\ mem = [c \in Clients |-> "none"]
  /\ slots = [s \in Slots |-> NoClient]
  /\ idx = [c \in Clients |-> NoSlot]
  /\ phase = [j \in Jobs |-> "none"]
  /\ victim = [j \in Jobs |-> NoClient]
  /\ broken = FALSE
  /\ backlog = {}
  /\ data = [c \in Clients |-> "none"]
  /\ hup = {}
  /\ shut = {}
  /\ Pool!Init

-----------------------------------------------------------------------------
(* The clients, and the user at the terminal.                              *)

Knock(c) ==
  /\ mem[c] = "none" /\ c \notin backlog
  /\ "sockfd" \in owned
  /\ backlog' = backlog \cup {c}
  /\ UNCHANGED <<mainVars, armed, mem, regVars, jobVars, data, hup, shut, poolVars>>

JobsOf(c) == {j \in Pool!Known : j[1] = c}

Send(c, much) ==
  /\ c \in Live /\ c \notin hup \cup shut
  /\ \/ data[c] = "none" /\ Cardinality(JobsOf(c)) < MaxRuns
     \/ data[c] = "part" /\ much = "full"
  /\ data' = [data EXCEPT ![c] = much]
  /\ UNCHANGED <<mainVars, armed, mem, regVars, jobVars, backlog, hup, shut, poolVars>>

HangUp(c) ==
  /\ c \in Live /\ c \notin hup
  /\ hup' = hup \cup {c}
  /\ UNCHANGED <<mainVars, armed, mem, regVars, jobVars, backlog, data, shut, poolVars>>

\* SIGINT reaches the main thread; epoll_wait returns EINTR if it is in it.
Sigint ==
  /\ gb_running
  /\ gb_running' = FALSE
  /\ mpc' = IF mpc = "wait" THEN "check" ELSE mpc
  /\ UNCHANGED <<p_client_run, owned, batch, armed, mem, regVars, jobVars, netVars, poolVars>>

-----------------------------------------------------------------------------
(* server_create.                                                          *)

MainGoto(from, to) == mpc = from /\ mpc' = to

Create ==
  /\ MainGoto("create", IF Cardinality(owned) + 1 < Len(Parts) THEN "create" ELSE "check")
  /\ owned' = owned \cup {Parts[Cardinality(owned) + 1]}
  /\ UNCHANGED <<p_client_run, gb_running, batch, armed, mem, regVars, jobVars, netVars, poolVars>>

\* An allocation or a system call fails: server_destroy takes what there is.
CreateFails ==
  /\ MainGoto("create", "shutdown")
  /\ UNCHANGED <<p_client_run, owned, gb_running, batch, armed, mem, regVars, jobVars, netVars, poolVars>>

-----------------------------------------------------------------------------
(* server_run.                                                             *)

CheckRunning ==
  /\ MainGoto("check", IF gb_running THEN "poll" ELSE "shutdown")
  /\ UNCHANGED <<p_client_run, owned, gb_running, batch, armed, mem, regVars, jobVars, netVars, poolVars>>

EpollEnter ==
  /\ MainGoto("poll", "wait")
  /\ UNCHANGED <<p_client_run, owned, gb_running, batch, armed, mem, regVars, jobVars, netVars, poolVars>>

\* epoll_wait fails otherwise than with EINTR, and server_run returns.
EpollFails ==
  /\ MainGoto("wait", "shutdown")
  /\ UNCHANGED <<p_client_run, owned, gb_running, batch, armed, mem, regVars, jobVars, netVars, poolVars>>

Event(c, h) == [client |-> c, hup |-> h]

Ready == {c \in armed : data[c] # "none" \/ c \in hup}

\* Mutant: no EPOLLONESHOT.
EpollReturnArmed ==
  /\ MainGoto("wait", "batch")
  /\ batch' = {Event(c, c \in hup) : c \in Ready}
                \cup {Event(NoClient, FALSE) : x \in {b \in {backlog} : b # {}}}
  /\ batch' # {}
  /\ UNCHANGED <<p_client_run, owned, gb_running, armed, mem, regVars, jobVars, netVars, poolVars>>

\* epoll_wait returns: EPOLLONESHOT disarms every client it reports.
EpollReturn ==
  /\ MainGoto("wait", "batch")
  /\ batch' = {Event(c, c \in hup) : c \in Ready}
                \cup {Event(NoClient, FALSE) : x \in {b \in {backlog} : b # {}}}
  /\ batch' # {}
  /\ armed' = armed \ Ready
  /\ UNCHANGED <<p_client_run, owned, gb_running, mem, regVars, jobVars, netVars, poolVars>>

BatchDone ==
  /\ batch = {}
  /\ MainGoto("batch", "check")
  /\ UNCHANGED <<p_client_run, owned, gb_running, batch, armed, mem, regVars, jobVars, netVars, poolVars>>

\* Main takes one event.  The rest of its handling is sequential, and meets
\* the workers only in the registry, under its lock.
Takes(e) == mpc = "batch" /\ e \in batch /\ batch' = batch \ {e}

\* registry_add: the first free slot.
FreeSlots == {s \in Slots : slots[s] = NoClient}

\* Mutant: the client is not told its slot.
RegistryAddOnly(c, s) ==
  /\ slots' = [slots EXCEPT ![s] = c]
  /\ UNCHANGED idx

RegistryAdd(c, s) ==
  /\ slots' = [slots EXCEPT ![s] = c]
  /\ idx' = [idx EXCEPT ![c] = s]

\* client_create succeeds and the connection is added to epoll.
Accept(c) ==
  /\ Takes(Event(NoClient, FALSE))
  /\ c \in backlog
  /\ backlog' = backlog \ {c}
  /\ \E s \in FreeSlots : (\A t \in FreeSlots : s <= t) /\ RegistryAdd(c, s)
  /\ mem' = [mem EXCEPT ![c] = "live"]
  /\ armed' = armed \cup {c}
  /\ UNCHANGED <<p_client_run, owned, gb_running, mpc, jobVars, data, hup, shut, poolVars>>

\* The registry is full, p_client_init or EPOLL_CTL_ADD fails: client_destroy.
Reject(c) ==
  /\ Takes(Event(NoClient, FALSE))
  /\ c \in backlog
  /\ backlog' = backlog \ {c}
  /\ mem' = [mem EXCEPT ![c] = "freed"]
  /\ UNCHANGED <<p_client_run, owned, gb_running, mpc, armed, regVars, jobVars, data, hup, shut, poolVars>>

\* Mutant: the index is zeroed.
RegistryRemoveZero(c) ==
  /\ slots' = IF idx[c] = NoSlot THEN slots ELSE [slots EXCEPT ![idx[c]] = NoClient]
  /\ idx' = [idx EXCEPT ![c] = 0]

\* accept fails, for want of descriptors say: the connection stays where it is.
AcceptFails ==
  /\ Takes(Event(NoClient, FALSE))
  /\ UNCHANGED <<p_client_run, owned, gb_running, mpc, armed, mem, regVars, jobVars, netVars, poolVars>>

\* registry_remove: clears the slot the client believes it has.
RegistryRemove(c) ==
  /\ slots' = IF idx[c] = NoSlot THEN slots ELSE [slots EXCEPT ![idx[c]] = NoClient]
  /\ idx' = [idx EXCEPT ![c] = NoSlot]

\* The rest of client_destroy: out of epoll, closed, freed.
ClientFree(c) ==
  /\ armed' = armed \ {c}
  /\ mem' = [mem EXCEPT ![c] = "freed"]

DropHungUp(c) ==
  /\ Takes(Event(c, TRUE))
  /\ RegistryRemove(c)
  /\ ClientFree(c)
  /\ UNCHANGED <<p_client_run, owned, gb_running, mpc, jobVars, netVars, poolVars>>

NextJob(c) == <<c, Cardinality(JobsOf(c)) + 1>>

Submit(c) ==
  /\ Takes(Event(c, FALSE))
  /\ Pool!Submit(NextJob(c))
  /\ UNCHANGED <<p_client_run, owned, gb_running, mpc, armed, mem, regVars, jobVars, netVars>>

\* client_rearm: EPOLL_CTL_MOD.
Rearm(c) == armed' = armed \cup {c}

\* Mutant: the client is not rearmed.
SubmitFailsSilent(c, rearmed) ==
  /\ Takes(Event(c, FALSE))
  /\ IF rearmed THEN UNCHANGED <<armed, mem, regVars>>
     ELSE RegistryRemove(c) /\ ClientFree(c)
  /\ UNCHANGED <<p_client_run, owned, gb_running, mpc, jobVars, netVars, poolVars>>

\* tpool_add_work fails for want of memory; main rearms, or destroys the
\* client if that fails too.
SubmitFails(c, rearmed) ==
  /\ Takes(Event(c, FALSE))
  /\ IF rearmed THEN Rearm(c) /\ UNCHANGED <<mem, regVars>>
     ELSE RegistryRemove(c) /\ ClientFree(c)
  /\ UNCHANGED <<p_client_run, owned, gb_running, mpc, jobVars, netVars, poolVars>>

-----------------------------------------------------------------------------
(* client_run_wrapper in a worker.                                         *)

PhaseGoto(j, from, to) == phase[j] = from /\ phase' = [phase EXCEPT ![j] = to]

JobGoto(j, from, to) == PhaseGoto(j, from, to) /\ UNCHANGED <<victim, broken>>

Busy == {"run", "recv", "spin", "kick", "kickfree", "rearm", "remove", "free"}

\* The jobs that have, or will have, the client in their hands.
Using(c) == {j \in Jobs : j[1] = c /\ (j \in Pool!Queued \/ phase[j] \in Busy)}

Fetched(c) == {e \in batch : e.client = c}

\* p_client_free has not freed the connection's session_t: in the chat, p_state.
HasSession(c) ==
  /\ c \in Live
  /\ \A j \in Jobs : /\ phase[j] = "free" => j[1] # c
                     /\ phase[j] = "kickfree" => victim[j] # c

Start ==
  /\ Pool!Start
  /\ phase' = [phase EXCEPT ![Head(pending)] = "run"]
  /\ UNCHANGED <<victim, broken, mainVars, armed, mem, regVars, netVars>>

\* The chat's handler has its request, or cannot have it: the socket is dead, or
\* the session is gone, as it is seen at once.
RequestOver(j) ==
  data[j[1]] = "full" \/ j[1] \in hup \cup shut \/ ~HasSession(j[1])

\* Mutant: client_destroy does not call registry_remove.
RunUnregistered(j, keep) ==
  /\ p_client_run = "chat"
  /\ JobGoto(j, "run", IF keep THEN "rearm" ELSE "free")
  /\ RequestOver(j) /\ (keep => HasSession(j[1]))
  /\ data' = [data EXCEPT ![j[1]] = "none"]
  /\ UNCHANGED <<mainVars, armed, mem, regVars, backlog, hup, shut, poolVars>>

\* chat_client_run returns.  It ends the connection for an opcode QUIT, for an admin
\* who disconnects himself, and for an error, such as a session that is gone.
Run(j, keep) ==
  /\ p_client_run = "chat"
  /\ JobGoto(j, "run", IF keep THEN "rearm" ELSE "remove")
  /\ RequestOver(j) /\ (keep => HasSession(j[1]))
  /\ data' = [data EXCEPT ![j[1]] = "none"]
  /\ UNCHANGED <<mainVars, armed, mem, regVars, backlog, hup, shut, poolVars>>

\* drain_file_chunks and file_relay ignore sockutil_recvall's failure: what their
\* buffer holds need never be the chunk that ends the loop.
Spin(j) ==
  /\ p_client_run = "chat" /\ HasSession(j[1])
  /\ data[j[1]] = "part" /\ j[1] \in hup \cup shut
  /\ JobGoto(j, "run", "spin")
  /\ UNCHANGED <<mainVars, armed, mem, regVars, netVars, poolVars>>

\* An admin's opcode_disconnect finds the user's session, logs the user out and
\* unlocks p_appdata->lock.  Any connection may have a user logged in.
Disconnect(j, c) ==
  /\ p_client_run = "chat" /\ HasSession(j[1])
  /\ data[j[1]] = "full"
  /\ c # j[1] /\ HasSession(c)
  /\ PhaseGoto(j, "run", "kick")
  /\ victim' = [victim EXCEPT ![j] = c]
  /\ UNCHANGED <<broken, mainVars, armed, mem, regVars, netVars, poolVars>>

\* client_destroy of p_target->p_client, first half: p_client_free, then out of the
\* registry.  It reads a session that is gone, or frees one that a handler has.
KickRemove(j) ==
  /\ PhaseGoto(j, "kick", "kickfree")
  /\ RegistryRemove(victim[j])
  /\ broken' = (\/ ~HasSession(victim[j])
                \/ \E k \in Jobs : /\ k[1] = victim[j]
                                   /\ phase[k] \in {"run", "spin", "kick", "kickfree", "remove"})
  /\ UNCHANGED <<victim, mainVars, armed, mem, netVars, poolVars>>

\* The second half frees what main or a job may have in hand.  opcode_disconnect is
\* done, and its own connection stays.
KickFree(j) ==
  /\ PhaseGoto(j, "kickfree", "rearm")
  /\ ClientFree(victim[j])
  /\ broken' = (\/ victim[j] \notin Live
                \/ Using(victim[j]) # {} \/ Fetched(victim[j]) # {})
  /\ victim' = [victim EXCEPT ![j] = NoClient]
  /\ data' = [data EXCEPT ![j[1]] = "none"]
  /\ UNCHANGED <<mainVars, regVars, backlog, hup, shut, poolVars>>

\* The echo server's client_run: its buffers may not be had, and each turn of its
\* loop begins with a look at gb_running.  STATUS_SERVER_DISCONNECT ends it.
EchoLoop(j, ready) ==
  /\ p_client_run = "echo"
  /\ JobGoto(j, "run", IF gb_running /\ ready THEN "recv" ELSE "remove")
  /\ UNCHANGED <<mainVars, armed, mem, regVars, netVars, poolVars>>

\* A request was received, and answered (one that is too long is drained and
\* refused): on to the next.  Or it was QUIT, and client_run returns
\* STATUS_SUCCESS, with which client_run_wrapper rearms the connection.  Or a
\* receive, a send or an allocation failed.
EchoRequest(j, next) ==
  /\ JobGoto(j, "recv", next)
  /\ data[j[1]] = "full" \/ j[1] \in hup \cup shut
  /\ next = "remove" \/ data[j[1]] = "full"
  /\ data' = [data EXCEPT ![j[1]] = "none"]
  /\ UNCHANGED <<mainVars, armed, mem, regVars, backlog, hup, shut, poolVars>>

\* From here on the client belongs to epoll: the worker may not touch it.
RunRearm(j) ==
  /\ JobGoto(j, "rearm", "return")
  /\ Rearm(j[1])
  /\ UNCHANGED <<mainVars, mem, regVars, netVars, poolVars>>

RunRearmFails(j) ==
  /\ JobGoto(j, "rearm", "remove")
  /\ UNCHANGED <<mainVars, armed, mem, regVars, netVars, poolVars>>

\* client_destroy, first half: p_client_free, then out of the registry.
RunRemove(j) ==
  /\ JobGoto(j, "remove", "free")
  /\ RegistryRemove(j[1])
  /\ UNCHANGED <<mainVars, armed, mem, netVars, poolVars>>

RunFree(j) ==
  /\ JobGoto(j, "free", "return")
  /\ ClientFree(j[1])
  /\ UNCHANGED <<mainVars, regVars, netVars, poolVars>>

RunReturn(j) ==
  /\ JobGoto(j, "return", "none")
  /\ Pool!Complete(j)
  /\ UNCHANGED <<mainVars, armed, mem, regVars, netVars>>

-----------------------------------------------------------------------------
(* server_destroy.                                                         *)

Registered == {slots[s] : s \in Slots} \ {NoClient}

\* Mutant: no socket is shut down.
RegistryShutdownNone ==
  /\ MainGoto("shutdown", "enter")
  /\ UNCHANGED <<p_client_run, owned, gb_running, batch, armed, mem, regVars, jobVars, netVars, poolVars>>

RegistryShutdown ==
  /\ MainGoto("shutdown", "enter")
  /\ shut' = shut \cup Registered
  /\ UNCHANGED <<p_client_run, owned, gb_running, batch, armed, mem, regVars, jobVars, backlog, data, hup, poolVars>>

\* tpool_wait.
PoolWait ==
  /\ MainGoto("enter", "poolwait")
  /\ Pool!Enter(Main)
  /\ UNCHANGED <<p_client_run, owned, gb_running, batch, armed, mem, regVars, jobVars, netVars>>

\* Mutant: the pool is destroyed without waiting for it.
PoolWaitSkipped ==
  /\ MainGoto("poolwait", "pooldestroy")
  /\ waiting' = {}
  /\ UNCHANGED <<p_client_run, owned, gb_running, batch, armed, mem, regVars, jobVars, netVars,
                 pending, running, done, dropped, refused, open>>

PoolWaitReturn ==
  /\ MainGoto("poolwait", "pooldestroy")
  /\ Pool!Return(Main)
  /\ UNCHANGED <<p_client_run, owned, gb_running, batch, armed, mem, regVars, jobVars, netVars>>

PoolDestroy ==
  /\ MainGoto("pooldestroy", "registry")
  /\ owned' = owned \ {"p_tm"}
  /\ Pool!Close
  /\ UNCHANGED <<p_client_run, gb_running, batch, armed, mem, regVars, jobVars, netVars>>

\* registry_destroy: client_destroy for each slot, without the lock.
RegistryDestroy(s) ==
  /\ MainGoto("registry", "registry")
  /\ slots[s] # NoClient
  /\ RegistryRemove(slots[s])
  /\ ClientFree(slots[s])
  /\ UNCHANGED <<p_client_run, owned, gb_running, batch, jobVars, netVars, poolVars>>

\* The registry and, by p_server_free, the application data are freed, and the
\* sockets closed.
ServerFree ==
  /\ MainGoto("registry", "done")
  /\ Registered = {}
  /\ owned' = {}
  /\ UNCHANGED <<p_client_run, gb_running, batch, armed, mem, regVars, jobVars, netVars, poolVars>>

\* Clients may be silent, or stall, for ever; a loop over a file goes round; the
\* process ends; and what an undefined step leads to is not followed.
Spinning == \E j \in Jobs : phase[j] = "spin"

Rest ==
  /\ \/ mpc = "done" \/ broken \/ Spinning
     \/ mpc = "wait" /\ Ready = {} /\ backlog = {}
  /\ UNCHANGED vars
-----------------------------------------------------------------------------
MainStep ==
  \/ Create \/ CreateFails
  \/ CheckRunning \/ EpollEnter \/ EpollReturn \/ BatchDone
  \/ \E c \in Clients :
       \/ Accept(c) \/ Reject(c) \/ DropHungUp(c) \/ Submit(c)
       \/ \E rearmed \in BOOLEAN : SubmitFails(c, rearmed)
  \/ AcceptFails
  \/ RegistryShutdown \/ PoolWait \/ PoolWaitReturn \/ PoolDestroy
  \/ \E s \in Slots : RegistryDestroy(s)
  \/ ServerFree

JobStep(j) ==
  \/ \E keep \in BOOLEAN : Run(j, keep) \/ EchoLoop(j, keep)
  \/ Spin(j)
  \/ \E c \in Clients : Disconnect(j, c)
  \/ KickRemove(j) \/ KickFree(j)
  \/ \E next \in {"run", "rearm", "remove"} : EchoRequest(j, next)
  \/ RunRearm(j) \/ RunRearmFails(j)
  \/ RunRemove(j) \/ RunFree(j) \/ RunReturn(j)

ClientStep(c) ==
  Knock(c) \/ HangUp(c) \/ \E much \in {"part", "full"} : Send(c, much)

Step ==
  \/ MainStep
  \/ Start
  \/ \E j \in Jobs : JobStep(j)
  \/ \E c \in Clients : ClientStep(c)
  \/ Sigint
  \/ EpollFails

Next == (~broken /\ Step) \/ Rest

SafetySpec == Init /\ [][Next]_vars

\* The main thread and the workers run, the pool starts what is queued, and
\* memory does not fail tpool_add_work for ever.  Clients owe nothing.
Fairness ==
  /\ WF_vars(~broken /\ MainStep)
  /\ WF_vars(~broken /\ Start)
  /\ \A j \in Jobs : WF_vars(~broken /\ JobStep(j))
  /\ \A c \in Clients : SF_vars(~broken /\ Submit(c))

Spec == SafetySpec /\ Fairness
-----------------------------------------------------------------------------
(* Properties.                                                             *)

MainLabels == {"create", "check", "poll", "wait", "batch", "shutdown", "enter", "poolwait",
               "pooldestroy", "registry", "done"}
Phases == Busy \cup {"none", "return"}

TypeOK ==
  /\ p_client_run \in Apps
  /\ owned \subseteq {Parts[i] : i \in DOMAIN Parts}
  /\ gb_running \in BOOLEAN
  /\ mpc \in MainLabels
  /\ batch \subseteq [client : Clients \cup {NoClient}, hup : BOOLEAN]
  /\ armed \subseteq Clients
  /\ mem \in [Clients -> {"none", "live", "freed"}]
  /\ slots \in [Slots -> Clients \cup {NoClient}]
  /\ idx \in [Clients -> Slots \cup {NoSlot}]
  /\ phase \in [Jobs -> Phases]
  /\ victim \in [Jobs -> Clients \cup {NoClient}]
  /\ broken \in BOOLEAN
  /\ backlog \subseteq Clients
  /\ data \in [Clients -> {"none", "part", "full"}]
  /\ hup \subseteq Clients
  /\ shut \subseteq Clients
  /\ pending \in Seq(Jobs)
  /\ \A S \in {running, done, dropped, refused} : S \subseteq Jobs
  /\ waiting \subseteq {Main}
  /\ open \in BOOLEAN

\* A connection is in exactly one pair of hands: epoll's, main's, or those of
\* one job, queued or running.  So no two threads ever work on it, and it is
\* never forgotten: whatever fails, it is rearmed or freed.  opcode_disconnect's
\* client_destroy comes on top, and asks nobody: the property holds until that meets
\* a connection that somebody has, the known issue of chat/README.md:210.
OneOwner ==
  broken \/ \A c \in Live :
    Cardinality(Using(c)) + Cardinality(Fetched(c)) + Cardinality({c} \cap armed) = 1

\* Nobody holds a pointer to a client that is not allocated: not epoll, not an
\* event, not a job, not the registry that registry_shutdown walks while
\* workers free clients; until opcode_disconnect frees one that somebody has.  And
\* no worker runs without what client_run_wrapper uses of the server, however
\* server_run ended.
PointersValid ==
  /\ running # {} => {"p_appdata", "p_registry", "epollfd"} \subseteq owned
  /\ \/ broken
     \/ /\ armed \cup Registered \subseteq Live
        /\ \A c \in Clients : Using(c) # {} \/ Fetched(c) # {} => c \in Live

\* The registry has every live client in the slot the client knows, until its
\* owner, or an admin, takes it out to free it.
RegistryAgrees ==
  /\ \A c \in Clients, s \in Slots : slots[s] = c <=> idx[c] = s
  /\ broken \/ \A c \in Live : HasSession(c) => idx[c] # NoSlot

\* When the application data goes, no client and no event is left, every
\* request that was queued has been run, and the pool is empty and closed; also
\* when server_create or epoll_wait has failed.
NothingLeft ==
  mpc = "done" => /\ owned = {}
                  /\ Live = {} /\ batch = {}
                  /\ Pool!Idle /\ ~open
                  /\ dropped = {} /\ refused = {}

\* server_destroy comes to an end whatever the clients do, also if some are
\* silent in the middle of a request: registry_shutdown unblocks the workers, but
\* for those that go round in a loop over a file (what FileTransfer's
\* ShutdownUnblocks is about).
ShutdownEnds ==
  []~Spinning => (mpc = "shutdown" ~> mpc = "done" \/ broken)

\* A request that was sent is served, or its connection closed, as long as the
\* server runs, no client stalls in the middle of its own request and no worker is
\* lost in a loop over a file whose sender has hung up.  The echo server gives a
\* worker to each connection, so it only promises that while there are no more
\* connections than workers.
RequestServed ==
  /\ []~Spinning
  /\ \A c \in Clients : []<>(data[c] # "part")
  /\ <>[](p_client_run = "echo" => Cardinality(Live) <= Capacity)
  => \A c \in Clients :
        c \in Live /\ data[c] = "full"
          ~> data[c] = "none" \/ c \notin Live \/ ~gb_running \/ broken

\* SIGINT shuts the server down (server.c: "Gracefully shutdown server on
\* SIGINT").
SigintEnds == ~gb_running ~> mpc = "done"
=============================================================================
