-------------------------------- MODULE Chat --------------------------------
(***************************************************************************)
(* The chat application (chat/src): the data behind appdata_t.lock, one    *)
(* session per connection, and the requests the workers serve.             *)
(*                                                                         *)
(* A request is served in stretches.  It is received and its session       *)
(* checked without the lock ("begin"); then the lock is taken and the      *)
(* opcode does its work in one critical section ("lock").  Between the two *)
(* other workers may log the session out, delete its room or move it.  The *)
(* opcodes with more stretches than that (login, disconnect, file send)    *)
(* have a label for each.  EPOLLONESHOT gives a connection one worker at a *)
(* time, so pc is a function of the connection.                            *)
(*                                                                         *)
(* app is everything appdata_t.lock protects, the sessions included; the   *)
(* helpers of chat_internal.c are operators from app to app.               *)
(***************************************************************************)
EXTENDS Naturals, FiniteSets

CONSTANTS
  Clients,     \* connections (client_t), each with its session_t
  Users,       \* user names
  NoUser,      \* the empty user name, and the empty value of a request entry
  Absent,      \* no entry in a request table
  NoClient,    \* no session: NULL, or a pointer to one that was freed
  Names,       \* public room names
  Admin,       \* the seeded administrator
  General,     \* the seeded room
  MaxRooms,    \* bound: room_create fails for want of memory beyond it
  IdSpace      \* how many values next_session_id has (2^32)

Opcodes == {"logout", "join", "msg", "promote", "disconnect", "delete",
            "request", "respond", "file_send", "list",
            "quit", "bad_login", "self"}

ASSUME ChatAssumption ==
  /\ Admin \in Users /\ General \in Names
  /\ MaxRooms \in Nat \ {0} /\ IdSpace \in Nat \ {0}
  /\ NoUser \notin Users /\ Absent \notin Users \cup {NoUser}
  /\ NoClient \notin Clients
  /\ Names \cap (Users \cup {NoUser}) = {}

NoRoom  == 0
RoomIds == 1..MaxRooms          \* the rooms ever created, in that order
Keys    == Users \cup {NoUser}
Tables  == {"pm", "file"}       \* p_pm_reqs and p_file_reqs

\* A room name is the set of its parts: {name} for a public room, {u, v} for
\* the private room user1+user2, nothing for a room that does not exist.
NoName    == {}
RoomNames == {{n} : n \in Names} \cup (SUBSET Keys)

\* The bounds of a behaviour: who takes part and what they ask for.  The opcode
\* "bad_login" adds logins that fail, "self" requests of a user to itself; no
\* login is tried once next_session_id exceeds logins.
Scenes ==
  [clients : SUBSET Clients, users : SUBSET Users, names : SUBSET Names,
   ops : SUBSET Opcodes, kinds : SUBSET Tables, logins : 0..IdSpace]

VARIABLES
  scene,     \* the bounds of this behaviour
  app,       \* what appdata_t.lock protects
  pc,        \* where the worker of each connection is
  req,       \* the locals of the request being served
  relaying,  \* the connection that holds file_lock
  broken,    \* freed memory was touched: C says nothing of what follows
  granted    \* history: the pairs <<accepter, sender>> of file grants

vars == <<app, pc, req, relaying, broken, granted>>   \* scene never changes

NoReq == [op |-> "none", user |-> NoUser, name |-> NoName, room |-> NoRoom,
          table |-> "pm", accept |-> FALSE, peer |-> NoClient]

Live(a) == {r \in RoomIds : a.name[r] # NoName}

Private(a, r) == a.name[r] \cap Keys # {}   \* b_private

Init ==
  /\ scene \in Scenes
  /\ app = [user    |-> [c \in Clients |-> NoUser],
            sid     |-> [c \in Clients |-> 0],
            room    |-> [c \in Clients |-> NoRoom],
            allow   |-> [c \in Clients |-> NoUser],
            members |-> [r \in RoomIds |-> {}],
            name    |-> [r \in RoomIds |-> IF r = 1 THEN {General} ELSE NoName],
            made    |-> 1,
            reqs    |-> [t \in Tables |-> [u \in Keys |-> Absent]],
            store   |-> [u \in Keys |-> NoClient],
            creds   |-> {Admin},
            admins  |-> {Admin},
            next    |-> 1 % IdSpace]
  /\ pc = [c \in Clients |-> "off"]
  /\ req = [c \in Clients |-> NoReq]
  /\ relaying = NoClient
  /\ broken = FALSE
  /\ granted = {}

-----------------------------------------------------------------------------
(* chat_internal.c.                                                        *)

\* user_leave for each session of C: out of its room, request entries gone.
LeaveAll(a, C) ==
  LET left == {c \in C : a.room[c] # NoRoom}
  IN [a EXCEPT
        !.room    = [c \in Clients |-> IF c \in left THEN NoRoom ELSE a.room[c]],
        !.members = [r \in RoomIds |-> a.members[r] \ {c \in left : a.room[c] = r}],
        !.reqs    = [t \in Tables |-> [u \in Keys |->
                       IF \E c \in left : a.user[c] = u THEN Absent ELSE a.reqs[t][u]]]]

UserLeave(a, c) == LeaveAll(a, {c})

MayEnter(a, c) == Private(a, a.room[c]) => a.user[c] \in a.name[a.room[c]]

\* Mutant: only one of the two request tables gets an entry.
UserJoinOneTable(a, c) ==
  IF MayEnter(a, c)
  THEN [a EXCEPT !.members[a.room[c]] = @ \cup {c},
                 !.reqs["pm"] = [@ EXCEPT ![a.user[c]] = NoUser]]
  ELSE a

\* p_room is already set; a private room takes only its two users.
UserJoin(a, c) ==
  IF MayEnter(a, c)
  THEN [a EXCEPT !.members[a.room[c]] = @ \cup {c},
                 !.reqs = [t \in Tables |-> [@[t] EXCEPT ![a.user[c]] = NoUser]]]
  ELSE a

\* Mutant: the old room is not left.
EnterOnly(a, c, r) == UserJoin([a EXCEPT !.room[c] = r], c)

\* The three steps every move to another room takes.
Enter(a, c, r) == UserJoin([UserLeave(a, c) EXCEPT !.room[c] = r], c)

\* Mutant: the store entry goes whether or not this session owns it.
UserLogoutAny(a, c) ==
  LET b == UserLeave(a, c)
  IN [b EXCEPT !.store = IF b.user[c] # NoUser THEN [@ EXCEPT ![b.user[c]] = NoClient] ELSE @,
               !.user[c] = NoUser,
               !.sid[c]  = 0]

\* Mutant: the room is not left.
UserLogoutStays(a, c) ==
  LET owns == a.user[c] # NoUser /\ a.sid[c] # 0
  IN [a EXCEPT !.store = IF owns THEN [@ EXCEPT ![a.user[c]] = NoClient] ELSE @,
               !.user[c] = NoUser,
               !.sid[c]  = 0]

\* Mutant: the store entry is blanked, not deleted.
UserLogoutBlank(a, c) ==
  LET b == UserLeave(a, c)
      owns == b.user[c] # NoUser /\ b.sid[c] # 0
  IN [b EXCEPT !.store = IF owns THEN [@ EXCEPT ![b.user[c]] = NoUser] ELSE @,
               !.user[c] = NoUser,
               !.sid[c]  = 0]

\* The store entry goes only when this session owns one: a login that failed
\* leaves a user name behind but no session id.
UserLogout(a, c) ==
  LET b == UserLeave(a, c)
      owns == b.user[c] # NoUser /\ b.sid[c] # 0
  IN [b EXCEPT !.store = IF owns THEN [@ EXCEPT ![b.user[c]] = NoClient] ELSE @,
               !.user[c] = NoUser,
               !.sid[c]  = 0]

\* Mutant: a second login of a user ends the first session.
UserLoginEvicts(a, c, right) ==
  LET u == a.user[c]
      b == [a EXCEPT !.creds = @ \cup {u}]
      d == IF b.store[u] = NoClient THEN b ELSE UserLogout(b, b.store[u])
  IN IF u \in a.creds /\ ~right THEN a
     ELSE [d EXCEPT !.store[u] = c,
                    !.sid[c]   = a.next,
                    !.next     = (a.next + 1) % IdSpace]

\* right: the password matches, if the user is known.
UserLogin(a, c, right) ==
  LET u == a.user[c]
      b == [a EXCEPT !.creds = @ \cup {u}]
  IN IF u \in a.creds /\ ~right THEN a
     ELSE IF a.store[u] # NoClient THEN b
     ELSE [b EXCEPT !.store[u] = c,
                    !.sid[c]   = a.next,
                    !.next     = (a.next + 1) % IdSpace]

RoomCreate(a, n) == [a EXCEPT !.made = @ + 1, !.name[a.made + 1] = n]

IsAdmin(a, c) == a.user[c] \in a.admins

\* sll_get on p_room_store: the oldest room of that name.
Find(a, n) == {r \in Live(a) : a.name[r] = n /\ \A s \in Live(a) : a.name[s] = n => r <= s}

-----------------------------------------------------------------------------
(* Connections.                                                            *)

Goto(c, label) == pc' = [pc EXCEPT ![c] = label]

\* chat_client_init: a fresh session.
Connect(c) ==
  /\ ~broken
  /\ pc[c] = "off"
  /\ Goto(c, "idle")
  /\ UNCHANGED <<app, req, relaying, broken, granted>>

\* OPCODE_QUIT, or the main loop sees the socket hang up.
HangUp(c) ==
  /\ ~broken
  /\ pc[c] = "idle"
  /\ "quit" \in scene.ops
  /\ Goto(c, "close")
  /\ UNCHANGED <<app, req, relaying, broken, granted>>

\* The grants left when the session of c ends, if it has one.
GrantsWithout(c) ==
  IF app.sid[c] # 0 THEN {g \in granted : g[1] # app.user[c]} ELSE granted

\* Logged out, then freed: who still holds a pointer to c holds a dangling one.
Freed(c) ==
  /\ app' = [UserLogout(app, c) EXCEPT !.allow[c] = NoUser]
  /\ granted' = GrantsWithout(c)

Forget(c, q) == [d \in Clients |->
  IF d # c /\ q[d].peer = c THEN [q[d] EXCEPT !.peer = NoClient] ELSE q[d]]

\* client_destroy -> chat_client_free.
Close(c) ==
  /\ ~broken
  /\ pc[c] = "close"
  /\ Freed(c)
  /\ Goto(c, "off")
  /\ req' = Forget(c, [req EXCEPT ![c] = NoReq])
  /\ UNCHANGED <<relaying, broken>>

-----------------------------------------------------------------------------
(* opcode_login.                                                           *)

\* Mutant: the old session is not logged out first.
LoginBeginStays(c, u) ==
  /\ ~broken
  /\ pc[c] = "idle"
  /\ "bad_login" \in scene.ops \/ app.store[u] = NoClient
  /\ app.next <= scene.logins
  /\ app' = [app EXCEPT !.user[c] = u]
  /\ granted' = GrantsWithout(c)
  /\ Goto(c, "login")
  /\ UNCHANGED <<req, relaying, broken>>

\* Log the old session out, then receive a user name into the session.
LoginBegin(c, u) ==
  /\ ~broken
  /\ pc[c] = "idle"
  /\ "bad_login" \in scene.ops \/ app.store[u] = NoClient
  /\ app.next <= scene.logins
  /\ app' = [UserLogout(app, c) EXCEPT !.user[c] = u]
  /\ granted' = GrantsWithout(c)
  /\ Goto(c, "login")
  /\ UNCHANGED <<req, relaying, broken>>

LoginTry(c, right) ==
  /\ ~broken
  /\ "bad_login" \in scene.ops \/ right
  /\ pc[c] = "login"
  /\ app' = UserLogin(app, c, right)
  /\ Goto(c, "idle")
  /\ UNCHANGED <<req, relaying, broken, granted>>

\* user_creds_valid refuses what was received; the name stays behind.
LoginInvalid(c) ==
  /\ ~broken
  /\ "bad_login" \in scene.ops
  /\ pc[c] = "login"
  /\ Goto(c, "idle")
  /\ UNCHANGED <<app, req, relaying, broken, granted>>

-----------------------------------------------------------------------------
(* A request that carries a session id, up to the lock.                    *)

NeedsRoom == {"msg", "request", "respond", "file_send"}

Begin(c, r) ==
  /\ ~broken
  /\ pc[c] = "idle"
  /\ app.sid[c] # 0                                   \* validate_session
  /\ r.op \in NeedsRoom => app.room[c] # NoRoom       \* p_room read unlocked
  /\ r.user = app.user[c] => "self" \in scene.ops
  /\ req' = [req EXCEPT ![c] = [r EXCEPT !.room = app.room[c]]]
  /\ Goto(c, "lock")
  /\ UNCHANGED <<app, relaying, broken, granted>>

Serving(c, op) == ~broken /\ pc[c] = "lock" /\ req[c].op = op

\* The response is sent and the wrapper rearms the client, or destroys it
\* when the handler's status is not STATUS_SUCCESS.
Reply(c, ok) ==
  /\ Goto(c, IF ok THEN "idle" ELSE "close")
  /\ req' = [req EXCEPT ![c] = NoReq]

-----------------------------------------------------------------------------
Logout(c) ==
  /\ Serving(c, "logout")
  /\ app' = UserLogout(app, c)
  /\ granted' = GrantsWithout(c)
  /\ Reply(c, TRUE)
  /\ UNCHANGED <<relaying, broken>>

\* Room a.made + 1 can still be created.
RoomLeft(a) == a.made < MaxRooms

Join(c) ==
  /\ Serving(c, "join")
  /\ LET n == req[c].name
         old == Find(app, n)
         a == IF old = {} THEN RoomCreate(app, n) ELSE app
         r == IF old = {} THEN a.made ELSE CHOOSE s \in old : TRUE
     IN IF old = {} /\ ~RoomLeft(app)
        THEN Reply(c, FALSE) /\ UNCHANGED app
        ELSE /\ app' = Enter(a, c, r)
             /\ Reply(c, MayEnter([a EXCEPT !.room[c] = r], c))
  /\ UNCHANGED <<relaying, broken, granted>>

\* opcode_msg_send uses the room it read before the lock.
MsgSend(c) ==
  /\ Serving(c, "msg")
  /\ broken' = (req[c].room \notin Live(app))
  /\ Reply(c, TRUE)
  /\ UNCHANGED <<app, relaying, granted>>

\* msg_send_room: the members that are logged in and still there.
Recipients(a, r) ==
  {c \in a.members[r] : a.sid[c] # 0 /\ a.user[c] # NoUser /\ a.room[c] = r}

\* opcode_list tells the names of the rooms, or of the members of p_room.
List(c) ==
  /\ Serving(c, "list")
  /\ Reply(c, TRUE)
  /\ UNCHANGED <<app, relaying, broken, granted>>

\* Mutant: no is_admin.
PromoteAnyone(c) ==
  /\ Serving(c, "promote")
  /\ app' = [app EXCEPT !.admins = @ \cup {req[c].user}]
  /\ Reply(c, TRUE)
  /\ UNCHANGED <<relaying, broken, granted>>

Promote(c) ==
  /\ Serving(c, "promote")
  /\ app' = IF IsAdmin(app, c) THEN [app EXCEPT !.admins = @ \cup {req[c].user}] ELSE app
  /\ Reply(c, TRUE)
  /\ UNCHANGED <<relaying, broken, granted>>

\* opcode_disconnect up to the unlock.
Disconnect(c) ==
  /\ Serving(c, "disconnect")
  /\ LET t == app.store[req[c].user]
     IN IF IsAdmin(app, c) /\ t # NoClient
        THEN /\ app' = UserLogout(app, t)
             /\ granted' = GrantsWithout(t)
             /\ IF t = c THEN Reply(c, FALSE)
                ELSE /\ Goto(c, "kick")
                     /\ req' = [req EXCEPT ![c].peer = t]
        ELSE Reply(c, TRUE) /\ UNCHANGED <<app, granted>>
  /\ UNCHANGED <<relaying, broken>>

\* client_destroy on another connection, from this worker.  It may be sound if
\* that connection is still there and nobody is serving or closing it; not even
\* then if the main thread has an event for it in hand.
Kick(c) ==
  /\ ~broken
  /\ pc[c] = "kick"
  /\ LET t == req[c].peer
     IN \/ /\ t # NoClient /\ pc[t] = "idle"
           /\ Freed(t)
           /\ pc' = [pc EXCEPT ![t] = "off", ![c] = "idle"]
           /\ req' = Forget(t, [req EXCEPT ![c] = NoReq])
           /\ UNCHANGED broken
        \/ broken' = TRUE /\ UNCHANGED <<app, pc, req, granted>>
  /\ UNCHANGED relaying

Delete(c) ==
  /\ Serving(c, "delete")
  /\ \/ /\ IsAdmin(app, c)
        /\ \E r \in Find(app, req[c].name) :
             app' = [LeaveAll(app, app.members[r]) EXCEPT !.name[r] = NoName]
     \/ /\ ~IsAdmin(app, c) \/ Find(app, req[c].name) = {}
        /\ UNCHANGED app
  /\ Reply(c, TRUE)
  /\ UNCHANGED <<relaying, broken, granted>>

-----------------------------------------------------------------------------
(* Requests between users: opcode_request, opcode_respond.                 *)

Pending(a, t, u) == a.reqs[t][u] \in Users

\* Mutant: a pending request is overwritten.
RequestReplaces(c) ==
  /\ Serving(c, "request")
  /\ LET s == app.store[req[c].user]
         t == req[c].table
     IN app' = IF s = NoClient THEN app
               ELSE [app EXCEPT !.reqs[t][app.user[s]] = app.user[c]]
  /\ Reply(c, TRUE)
  /\ UNCHANGED <<relaying, broken, granted>>

Request(c) ==
  /\ Serving(c, "request")
  /\ LET s == app.store[req[c].user]
         t == req[c].table
     IN app' = IF s = NoClient \/ Pending(app, t, app.user[s]) THEN app
               ELSE [app EXCEPT !.reqs[t][app.user[s]] = app.user[c]]
  /\ Reply(c, TRUE)
  /\ UNCHANGED <<relaying, broken, granted>>

\* Mutant: only the requester is moved.
PmAcceptHalf(a, s, u) ==
  LET b == RoomCreate(a, {a.user[s], u})
  IN Enter(b, s, b.made)

\* respond_pm_accept: a new room for the requester s and the user u.
PmAccept(a, s, u) ==
  LET b == RoomCreate(a, {a.user[s], u})
      d == Enter(b, s, b.made)
  IN IF a.store[u] = NoClient THEN d ELSE Enter(d, a.store[u], b.made)

\* The request this response answers is there, and from the user it names.
Answers(c) ==
  LET s == app.store[req[c].user]
  IN s # NoClient /\ app.user[s] \in Users
     /\ app.reqs[req[c].table][app.user[c]] = app.user[s]

Accept(c) ==
  /\ Serving(c, "respond")
  /\ Answers(c) /\ req[c].accept
  /\ LET u == app.user[c]
         s == app.store[req[c].user]
         clear(a) == [a EXCEPT !.reqs[req[c].table][u] = NoUser]
     IN IF req[c].table = "file"
        THEN /\ app' = clear([app EXCEPT !.allow[c] = app.user[s]])
             /\ granted' = {g \in granted : g[1] # u} \cup {<<u, app.user[s]>>}
             /\ Reply(c, TRUE)
        ELSE /\ LET a == IF RoomLeft(app) THEN PmAccept(app, s, u) ELSE app
                    ok == RoomLeft(app) /\ app.store[u] # NoClient
                IN app' = (IF ok THEN clear(a) ELSE a) /\ Reply(c, ok)
             /\ UNCHANGED granted
  /\ UNCHANGED <<relaying, broken>>

Decline(c) ==
  /\ Serving(c, "respond")
  /\ Answers(c) /\ ~req[c].accept
  /\ app' = [app EXCEPT !.reqs[req[c].table][app.user[c]] = NoUser]
  /\ Reply(c, TRUE)
  /\ UNCHANGED <<relaying, broken, granted>>

NothingToAnswer(c) ==
  /\ Serving(c, "respond")
  /\ ~Answers(c)
  /\ Reply(c, TRUE)
  /\ UNCHANGED <<app, relaying, broken, granted>>

-----------------------------------------------------------------------------
(* opcode_file_send.                                                       *)

\* user_allow against the sender's name; an empty name matches an empty one.
Allowed(a, t, c) == a.allow[t] = a.user[c]

\* The permission is checked under lock, which is then released.
FileSend(c) ==
  /\ Serving(c, "file_send")
  /\ LET t == app.store[req[c].user]
     IN IF t # NoClient /\ Allowed(app, t, c)
        THEN Goto(c, "filelock") /\ req' = [req EXCEPT ![c].peer = t]
        ELSE Reply(c, TRUE)
  /\ UNCHANGED <<app, relaying, broken, granted>>

FileLock(c) ==
  /\ ~broken
  /\ pc[c] = "filelock"
  /\ relaying = NoClient
  /\ relaying' = c
  /\ Goto(c, "relay")
  /\ UNCHANGED <<app, req, broken, granted>>

\* file_relay writes every chunk through p_target, which it does not own; a
\* relay that fails costs the sender its connection.
FileRelay(c, ok) ==
  /\ ~broken
  /\ pc[c] = "relay"
  /\ relaying' = NoClient
  /\ broken' = (req[c].peer = NoClient)
  /\ IF ok THEN Goto(c, "clear") /\ UNCHANGED req ELSE Reply(c, FALSE)
  /\ UNCHANGED <<app, granted>>

\* The lock again, to use the permission up.
FileClear(c) ==
  /\ ~broken
  /\ pc[c] = "clear"
  /\ LET t == req[c].peer
     IN IF t = NoClient THEN broken' = TRUE /\ UNCHANGED <<app, granted>>
        ELSE /\ app' = [app EXCEPT !.allow[t] = NoUser]
             /\ granted' = granted \ {<<app.user[t], app.user[c]>>}
             /\ UNCHANGED broken
  /\ Reply(c, TRUE)
  /\ UNCHANGED relaying

\* No client has anything to ask.  And nothing is said of a process that has
\* touched freed memory.
Rest ==
  /\ broken \/ \A c \in Clients : pc[c] \in {"off", "idle"}
  /\ UNCHANGED vars

-----------------------------------------------------------------------------
(* What clients may send in a run.                                         *)

Plain(op) == [NoReq EXCEPT !.op = op]

Naming(op) == {[Plain(op) EXCEPT !.user = u] : u \in scene.users}

Rooming(op) == {[Plain(op) EXCEPT !.name = {n}] : n \in scene.names}

PrivateDeletes == {[Plain("delete") EXCEPT !.name = {u, v}] : u, v \in scene.users}

Tabled(op) == {[q EXCEPT !.table = t] : q \in Naming(op), t \in scene.kinds}

\* The others have accept FALSE.
Accepts == {[q EXCEPT !.accept = TRUE] : q \in Tabled("respond")}

Requests ==
  {r \in {Plain("logout"), Plain("msg"), Plain("list")}
           \cup Rooming("join") \cup Rooming("delete") \cup PrivateDeletes
           \cup Naming("promote") \cup Naming("disconnect") \cup Naming("file_send")
           \cup Tabled("request") \cup Tabled("respond") \cup Accepts
     : r.op \in scene.ops}

\* What a worker does by itself, once it has the request.
Serve(c) ==
  \/ Logout(c) \/ Join(c) \/ MsgSend(c) \/ List(c)
  \/ Promote(c) \/ Disconnect(c) \/ Kick(c) \/ Delete(c)
  \/ Request(c) \/ Accept(c) \/ Decline(c) \/ NothingToAnswer(c)
  \/ FileSend(c) \/ FileLock(c) \/ FileClear(c)
  \/ Close(c)

\* What it does when the client has sent the rest.
Receive(c) ==
  \/ LoginInvalid(c)
  \/ \E right \in BOOLEAN : LoginTry(c, right)
  \/ \E ok \in BOOLEAN : FileRelay(c, ok)

Next ==
  \/ \E c \in scene.clients :
       \/ Connect(c) \/ HangUp(c)
       \/ \E u \in scene.users : LoginBegin(c, u)
       \/ \E r \in Requests : Begin(c, r)
       \/ Serve(c) \/ Receive(c)
  \/ Rest

Steps == [][Next /\ UNCHANGED scene]_<<scene, vars>>

SafetySpec == Init /\ Steps

-----------------------------------------------------------------------------
(* Properties.                                                             *)

Labels == {"off", "idle", "login", "lock", "kick", "filelock", "relay", "clear", "close"}

AppType ==
  [user    : [Clients -> Keys],
   sid     : [Clients -> 0..IdSpace],
   room    : [Clients -> RoomIds \cup {NoRoom}],
   allow   : [Clients -> Keys],
   members : [RoomIds -> SUBSET Clients],
   name    : [RoomIds -> RoomNames],
   made    : RoomIds,
   reqs    : [Tables -> [Keys -> Keys \cup {Absent}]],
   store   : [Keys -> Clients \cup {NoClient}],
   creds   : SUBSET Keys,
   admins  : SUBSET Keys,
   next    : 0..IdSpace]

ReqType ==
  [op : Opcodes \cup {"none"}, user : Keys, name : RoomNames,
   room : RoomIds \cup {NoRoom}, table : Tables, accept : BOOLEAN,
   peer : Clients \cup {NoClient}]

TypeOK ==
  /\ scene \in Scenes
  /\ app \in AppType
  /\ pc \in [Clients -> Labels]
  /\ req \in [Clients -> ReqType]
  /\ relaying \in Clients \cup {NoClient}
  /\ broken \in BOOLEAN
  /\ granted \subseteq Users \X Users

\* The session store and the sessions agree: a user is in the store with the
\* one session that has its name and a session id.  A login refused because
\* the user is already in leaves that user's session alone, also when the
\* refused connection logs out or closes; and no entry outlives its session.
SessionsAgree ==
  /\ \A u \in Keys : LET c == app.store[u] IN
       c # NoClient => app.user[c] = u /\ app.sid[c] # 0 /\ pc[c] # "off"
  /\ \A c \in Clients : app.sid[c] # 0 => app.store[app.user[c]] = c

\* A room lists a session exactly when the session points to that room, and
\* the room still exists.
MembershipAgrees ==
  /\ \A c \in Clients, r \in RoomIds : c \in app.members[r] <=> app.room[c] = r
  /\ \A c \in Clients : app.room[c] # NoRoom => app.room[c] \in Live(app)

\* Whoever is in a room is logged in, and no user is in it twice, so LIST and
\* the delivery of a message meet only users, also while one of them logs in
\* anew or fails to.  The exception: a session an administrator has logged out
\* may still enter a room, by a request whose session was checked before that,
\* until opcode_disconnect destroys its connection.
MembersAreIn ==
  \A r \in RoomIds : \A c \in app.members[r] :
    \/ /\ app.sid[c] # 0 /\ app.user[c] \in Users
       /\ \A d \in app.members[r] : app.user[d] = app.user[c] => d = c
    \/ \E d \in Clients : pc[d] = "kick" /\ req[d].peer = c

\* Who is in a room can be asked: both request tables have its entry, so a
\* request made to it is one a join or a leave will remove.
RoomMeansEntries ==
  \A c \in Clients, t \in Tables :
    app.sid[c] # 0 /\ app.room[c] # NoRoom => app.reqs[t][app.user[c]] # Absent

\* A private room only ever contains its two users (requirements.md, 2.5).
PrivateIsPrivate ==
  \A r \in Live(app) : Private(app, r) => \A c \in app.members[r] : app.user[c] \in app.name[r]

\* A session ends by a step of its own worker or because an administrator
\* disconnects it, whatever else other connections do.
OnlyAdminsEndSessions ==
  [][\A c \in Clients : app.sid[c] # 0 /\ app'.sid[c] = 0 =>
        \/ pc'[c] # pc[c]
        \/ \E d \in Clients : pc[d] = "kick" /\ pc'[d] = "idle"
        \/ \E d \in Clients : Serving(d, "disconnect") /\ IsAdmin(app, d)
                              /\ pc'[d] # "lock"]_vars

\* Rooms disappear and administrators appear only by the hand of a logged in
\* administrator, although its session was checked before the lock was taken.
OnlyAdminsAdminister ==
  [][/\ app'.admins # app.admins \/ Live(app) \ Live(app') # {} =>
          \E d \in Clients : /\ pc[d] = "lock" /\ pc'[d] = "idle"
                             /\ IsAdmin(app, d) /\ app.sid[d] # 0]_vars

\* A pending request is answered, withdrawn or forgotten before another user
\* can take its place (requirements.md, 2.5: no conflicting requests).
PendingNotReplaced ==
  [][\A t \in Tables, u \in Users :
        Pending(app, t, u) /\ Pending(app', t, u) => app'.reqs[t][u] = app.reqs[t][u]]_vars

\* Accepting a private conversation puts both users in the same new private
\* room and in no other.
AcceptMeets ==
  [][\A c \in Clients :
        Accept(c) /\ req[c].table = "pm" /\ pc'[c] = "idle" =>
          LET s == app.store[req[c].user] IN
            /\ app'.room[c] = app'.room[s] /\ app'.room[c] \notin Live(app)
            /\ app'.members[app'.room[c]] = {c, s}]_vars

\* A message goes to the room the sender is in when it is delivered
\* (requirements.md, 2.4: users in the same lobby only).
MessageStaysInLobby ==
  [][\A c \in Clients : MsgSend(c) =>
        \A d \in Recipients(app, req[c].room) : app.room[d] = app.room[c]]_vars

\* A file is relayed only to a user who accepted it from this sender
\* (chat_internal.h: RETCODE_UNALLOWED).
RelayOnlyAccepted ==
  [][\A c \in Clients : FileSend(c) /\ pc'[c] = "filelock" =>
        <<app.user[req'[c].peer], app.user[c]>> \in granted]_vars

\* A sender whose transfer was accepted is not refused (README: on accept,
\* the sender runs /put).
AcceptedMayPut ==
  [][\A c \in Clients : FileSend(c) /\ app.store[req[c].user] # NoClient
        /\ <<req[c].user, app.user[c]>> \in granted => pc'[c] = "filelock"]_vars
=============================================================================
