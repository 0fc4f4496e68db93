------------------------------ MODULE MCChat ------------------------------
EXTENDS Chat, TLC

Injections(S, T) == {f \in [S -> T] : \A x, y \in S : f[x] = f[y] => x = y}

\* The server after every connection has logged in, each as another user, and
\* joined the seeded room: the first session ids are handed out, and everybody
\* has empty request entries.  Which connection has which user does not matter
\* to runs without the administrator's opcodes.
Lobby ==
  LET who == CHOOSE f \in Injections(Clients, Users) : TRUE
      in(u) == {c \in Clients : who[c] = u}
  IN [user    |-> who,
      sid     |-> CHOOSE f \in Injections(Clients, 1..Cardinality(Clients)) : TRUE,
      room    |-> [c \in Clients |-> 1],
      allow   |-> [c \in Clients |-> NoUser],
      members |-> [r \in RoomIds |-> IF r = 1 THEN Clients ELSE {}],
      name    |-> [r \in RoomIds |-> IF r = 1 THEN {General} ELSE NoName],
      made    |-> 1,
      reqs    |-> [t \in Tables |-> [u \in Keys |-> IF in(u) # {} THEN NoUser ELSE Absent]],
      store   |-> [u \in Keys |-> IF in(u) # {} THEN CHOOSE c \in in(u) : TRUE ELSE NoClient],
      creds   |-> {who[c] : c \in Clients} \cup {Admin},
      admins  |-> {Admin},
      next    |-> 1 + Cardinality(Clients)]

AtRest ==
  /\ pc = [c \in Clients |-> "idle"]
  /\ req = [c \in Clients |-> NoReq]
  /\ relaying = NoClient
  /\ broken = FALSE

LobbyInit == app = Lobby /\ granted = {} /\ AtRest

\* The same after one user has asked another to take a file, who has accepted.
GrantInit ==
  LET c == CHOOSE x \in Clients : TRUE
      d == CHOOSE x \in Clients : x # c
  IN /\ app = [Lobby EXCEPT !.allow[c] = Lobby.user[d]]
     /\ granted = {<<Lobby.user[c], Lobby.user[d]>>}
     /\ AtRest

-----------------------------------------------------------------------------
(* The scenes.                                                             *)

Everyone(ops, kinds, logins) ==
  [clients |-> Clients, users |-> Users, names |-> {General},
   ops |-> ops, kinds |-> kinds, logins |-> logins]

TwoClients == CHOOSE S \in SUBSET Clients : Cardinality(S) = 2

TwoUsers == CHOOSE S \in SUBSET Users : Admin \in S /\ Cardinality(S) = 2

\* Two connections log in and out, also wrongly, change rooms, administer and quit.
Sessions ==
  [Everyone({"logout", "join", "msg", "promote", "disconnect", "delete",
             "quit", "bad_login", "self"}, {}, 3)
     EXCEPT !.clients = TwoClients, !.users = TwoUsers, !.names = Names]

\* Three users ask each other for private conversations.
Talks == Everyone({"request", "respond", "logout"}, {"pm"}, 4)

\* The scenes of chat_lobby, chat_relay and chat_put.
Moves    == Everyone({"join", "request", "respond", "msg"}, {"pm"}, 2)
Handover == Everyone({"logout", "join", "request", "respond", "file_send"}, {"file"}, 3)
Grants   == Everyone({"request", "respond", "file_send"}, {"file"}, 3)

MixedSpec ==
  /\ \/ scene = Sessions /\ Init
     \/ scene = Talks /\ LobbyInit
  /\ Steps

MovesSpec == scene = Moves /\ Init /\ Steps

HandoverSpec == scene = Handover /\ Init /\ Steps

GrantsSpec == scene = Grants /\ GrantInit /\ Steps
=============================================================================
