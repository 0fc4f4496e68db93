----------------------------- MODULE ChatLocks -----------------------------
(***************************************************************************)
(* The mutexes of the chat, and what is sent with them held.               *)
(*                                                                         *)
(* Chat makes each critical section of a worker one step.  Here the worker *)
(* takes appdata_t.lock, writes to each connection that is to be told of   *)
(* the request, and only then makes Chat's step and unlocks.  Every write, *)
(* the response to the request included, is made with client_t.lock of the *)
(* connection written to, and blocks as long as that client does not read. *)
(* A file is relayed in the same way with file_lock held.  Every step is a *)
(* step of Chat or leaves Chat's variables as they are.                    *)
(***************************************************************************)
EXTENDS Chat

VARIABLES
  holder,    \* the connection whose worker holds appdata_t.lock
  sending,   \* whom the worker of each connection has still to write to
  writing,   \* the connection whose worker holds client_t.lock of each
  deaf,      \* the clients that do not read what is being written to them
  arrived    \* the clients that have sent the rest of the login or file

lockVars == <<holder, sending, writing>>
clientVars == <<deaf, arrived>>
allVars == <<vars, lockVars, clientVars>>

LocksInit ==
  /\ holder = NoClient
  /\ sending = [c \in Clients |-> {}]
  /\ writing = [c \in Clients |-> NoClient]
  /\ deaf = {}
  /\ arrived = {}

-----------------------------------------------------------------------------
(* What clients do.                                                        *)

\* A write to c finds its send buffer full; later there is room again.
Deafen(c) ==
  /\ writing[c] # NoClient /\ c \notin deaf
  /\ deaf' = deaf \cup {c}
  /\ UNCHANGED <<vars, lockVars, arrived>>

Hear(c) ==
  /\ deaf' = deaf \ {c} /\ c \in deaf
  /\ UNCHANGED <<vars, lockVars, arrived>>

\* recvall has what it waits for: the login, or a file to its last chunk.
Arrive(c) ==
  /\ pc[c] \in {"login", "relay"} /\ c \notin arrived
  /\ arrived' = arrived \cup {c}
  /\ UNCHANGED <<vars, lockVars, deaf>>

\* A request is read, or the connection set up, with no lock; a login logs the
\* old session out in a critical section of its own.
Ask(c) ==
  /\ sending[c] = {}
  /\ \/ Connect(c)
     \/ \E r \in Requests : Begin(c, r)
     \/ holder = NoClient /\ \E u \in scene.users : LoginBegin(c, u)
  /\ UNCHANGED <<lockVars, clientVars>>

\* OPCODE_QUIT gets a response; a socket that hung up takes nothing and blocks
\* nobody.
Quit(c) ==
  /\ sending[c] = {}
  /\ HangUp(c)
  /\ \/ sending' = [sending EXCEPT ![c] = {c}] /\ UNCHANGED deaf
     \/ deaf' = deaf \ {c} /\ UNCHANGED sending
  /\ UNCHANGED <<holder, writing, arrived>>

-----------------------------------------------------------------------------
(* Writing to connections.                                                 *)

Online(u) == {app.store[u]} \ {NoClient}

\* Whether d is told of the request of c while appdata_t.lock is held.
Told(c, d) ==
  LET q == req[c]
      target == d \in Online(q.user)
      answers == q.op = "respond" /\ Answers(c)
  IN \/ q.op = "msg" /\ d \in Recipients(app, q.room)
     \/ q.op = "list" /\ d = c
     \/ q.op = "promote" /\ IsAdmin(app, c) /\ q.user \notin app.admins /\ target
     \/ q.op = "disconnect" /\ IsAdmin(app, c) /\ target
     \/ q.op = "delete" /\ IsAdmin(app, c)
          /\ \E r \in Find(app, q.name) : d \in Recipients(app, r)
     \/ q.op = "request" /\ target /\ ~Pending(app, q.table, q.user)
     \/ answers /\ ~q.accept /\ (target \/ d = c)
     \/ answers /\ q.accept /\ q.table = "pm" /\ RoomLeft(app)
          /\ (target \/ d \in Online(app.user[c]))

\* msg_send, and the response in chat_client_run: one client_t.lock at a time.
Send(c, d) ==
  /\ ~broken
  /\ d \in sending[c] /\ writing[d] = NoClient
  /\ \A e \in Clients : writing[e] # c
  /\ writing' = [writing EXCEPT ![d] = c]
  /\ UNCHANGED <<vars, holder, sending, clientVars>>

\* Mutant: a relay makes sure, under appdata_t.lock, that its target is still
\* there, with the target's client_t.lock held.
SentChecked(c, d) ==
  /\ ~broken
  /\ writing[d] = c /\ d \notin deaf
  /\ pc[c] = "relay" => holder = NoClient
  /\ writing' = [writing EXCEPT ![d] = NoClient]
  /\ sending' = [sending EXCEPT ![c] = @ \ {d}]
  /\ UNCHANGED <<vars, holder, clientVars>>

\* sockutil_sendall returns: everything is in the socket's buffer.
Sent(c, d) ==
  /\ ~broken
  /\ writing[d] = c /\ d \notin deaf
  /\ writing' = [writing EXCEPT ![d] = NoClient]
  /\ sending' = [sending EXCEPT ![c] = @ \ {d}]
  /\ UNCHANGED <<vars, holder, clientVars>>

-----------------------------------------------------------------------------
(* The workers.                                                            *)

\* After Chat's step: a request that is over leaves its response to be sent.
Respond(c) ==
  sending' = [sending EXCEPT ![c] = IF pc'[c] \in {"idle", "close"} THEN {c} ELSE {}]

Take(c) ==
  /\ ~broken
  /\ pc[c] = "lock" /\ holder = NoClient
  /\ holder' = c
  /\ sending' = [sending EXCEPT ![c] = {d \in Clients : Told(c, d)}]
  /\ UNCHANGED <<vars, writing, clientVars>>

Release(c) ==
  /\ holder = c /\ sending[c] = {}
  /\ \/ Logout(c) \/ Join(c) \/ MsgSend(c) \/ List(c)
     \/ Promote(c) \/ Disconnect(c) \/ Delete(c)
     \/ Request(c) \/ Accept(c) \/ Decline(c) \/ NothingToAnswer(c)
     \/ FileSend(c)
  /\ holder' = NoClient
  /\ Respond(c)
  /\ UNCHANGED <<writing, clientVars>>

\* file_lock, then the first chunk; the worker reads the sender's next one only
\* when the target has it.
StartRelay(c) ==
  /\ FileLock(c)
  /\ sending' = [sending EXCEPT ![c] = {req[c].peer} \ {NoClient}]
  /\ UNCHANGED <<holder, writing, clientVars>>

\* What waited for the client, and gives file_lock back.
Received(c) ==
  /\ c \in arrived /\ sending[c] = {}
  /\ \/ LoginInvalid(c)
     \/ holder = NoClient /\ \E right \in BOOLEAN : LoginTry(c, right)
     \/ \E ok \in BOOLEAN : FileRelay(c, ok)
  /\ arrived' = arrived \ {c}
  /\ Respond(c)
  /\ UNCHANGED <<holder, writing, deaf>>

\* The critical section of opcode_file_send after the relay sends nothing.
Clear(c) ==
  /\ holder = NoClient
  /\ FileClear(c)
  /\ Respond(c)
  /\ UNCHANGED <<holder, writing, clientVars>>

\* client_destroy of t: its socket is closed, its mutex destroyed.
Gone(t, still) ==
  /\ sending' = [c \in Clients |-> still[c] \ {t}]
  /\ writing' = [writing EXCEPT ![t] = NoClient]
  /\ deaf' = deaf \ {t}
  /\ arrived' = arrived \ {t}

End(c) ==
  /\ holder = NoClient /\ sending[c] = {}
  /\ Close(c)
  /\ Gone(c, sending)
  /\ UNCHANGED holder

\* Not sound either while the other worker has its response to send.
KickOut(c) ==
  /\ holder = NoClient
  /\ Kick(c)
  /\ LET t == req[c].peer
     IN \/ broken' /\ UNCHANGED <<lockVars, clientVars>>
        \/ /\ ~broken' /\ sending[t] = {}
           /\ Gone(t, [sending EXCEPT ![c] = {c}])
           /\ UNCHANGED holder

\* A worker is at one of these at a time.
Work(c) ==
  \/ Take(c) \/ Release(c)
  \/ \E d \in Clients : Send(c, d) \/ Sent(c, d)
  \/ StartRelay(c) \/ Received(c) \/ Clear(c)
  \/ End(c) \/ KickOut(c)

Quiet ==
  /\ broken \/ \A c \in Clients : pc[c] \in {"off", "idle"} /\ sending[c] = {}
  /\ UNCHANGED allVars

LocksNext ==
  \/ \E c \in scene.clients :
       \/ Ask(c) \/ Quit(c) \/ Deafen(c) \/ Hear(c) \/ Arrive(c)
       \/ Work(c)
  \/ Quiet

LocksSteps == [][LocksNext /\ UNCHANGED scene]_<<scene, allVars>>

\* Workers run, a socket whose client reads again and again takes what is sent
\* to it, and no mutex starves who waits for it.  Clients owe nothing.
Fairness == \A c \in Clients : SF_allVars(Work(c))

-----------------------------------------------------------------------------
(* Properties.                                                             *)

InRequest(c) == pc[c] \notin {"idle", "off"} \/ sending[c] # {}

\* If every client goes on reading what it is sent, and none stalls in the
\* middle of a login or of a file, every request is served to its response and
\* every closed connection is freed.  Messages to other members are written
\* with appdata_t.lock or file_lock held and with the lock of the connection
\* they go to, in an order that never closes a circle, and a sender that fails
\* gives file_lock back.  One client that reads no more does stop everybody.
RequestsEnd ==
  (\A c \in Clients :
     /\ []<>(c \notin deaf)
     /\ []<>(pc[c] \in {"login", "relay"} /\ sending[c] = {} => c \in arrived)) =>
  \A c \in Clients : InRequest(c) ~> (broken \/ ~InRequest(c))
=============================================================================
