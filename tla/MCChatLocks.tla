---------------------------- MODULE MCChatLocks ----------------------------
EXTENDS MCChat, ChatLocks

Pair(ops, kinds) ==
  [Everyone(ops, kinds, 3)
     EXCEPT !.clients = TwoClients, !.users = {Lobby.user[c] : c \in TwoClients}]

\* Two users ask each other for private conversations, talk and quit.
Meet == Pair({"request", "respond", "msg", "join", "quit"}, {"pm"})

\* They ask each other for files, and send them.
Give == Pair({"request", "respond", "file_send", "logout", "quit"}, {"file"})

\* Each may send the other a file at once, and one is the administrator.
Rule == Pair({"file_send", "msg", "list", "promote", "delete", "disconnect", "quit"}, {})

\* Logins fail, are invalid or replace another's session, and members are told.
Mistake == Pair({"msg", "logout", "bad_login", "quit"}, {})

Other(c) == CHOOSE d \in Clients : d # c

\* The lobby after each has accepted a file of the other.
BothGrant ==
  /\ app = [Lobby EXCEPT !.allow = [c \in Clients |-> Lobby.user[Other(c)]]]
  /\ granted = {<<Lobby.user[c], Lobby.user[Other(c)]>> : c \in Clients}
  /\ AtRest

WaitsInit ==
  /\ \/ scene \in {Meet, Give, Mistake} /\ LobbyInit
     \/ scene = Rule /\ BothGrant
  /\ LocksInit

WaitsSpec == WaitsInit /\ LocksSteps /\ Fairness
=============================================================================
