----------------------------- MODULE ChatProofs -----------------------------
(***************************************************************************)
(* What TLC checks of Chat in a few scenes, proved for any number of       *)
(* connections, users, names and rooms, and whatever is asked for.         *)
(*                                                                         *)
(* The hypothesis of every theorem is that next_session_id has not come    *)
(* round to 0 (NoWrap): a login would get the id that means no session.    *)
(***************************************************************************)
EXTENDS Chat, TLAPS

USE ChatAssumption

-----------------------------------------------------------------------------
(* What holds of the data behind the lock whenever the lock is free.       *)

\* Sessions and store: the session of a user is the one the store has.
Owned(a) ==
  /\ \A c \in Clients : a.sid[c] # 0 => a.user[c] \in Users /\ a.store[a.user[c]] = c
  /\ \A u \in Keys : a.store[u] # NoClient =>
       a.user[a.store[u]] = u /\ a.sid[a.store[u]] # 0

\* Sessions and rooms: members point to their room, and it exists; beyond the last
\* room created there is none.
Housed(a) ==
  /\ \A c \in Clients, r \in RoomIds : c \in a.members[r] <=> a.room[c] = r
  /\ \A c \in Clients : a.room[c] # NoRoom => a.name[a.room[c]] # NoName
  /\ \A r \in RoomIds : r > a.made => a.name[r] = NoName

\* Who is in a room without being logged in has no name either.
Known(a) == \A c \in Clients : a.room[c] # NoRoom => a.sid[c] # 0 \/ a.user[c] = NoUser

\* Who is in a room can be asked.
Asked(a) ==
  \A c \in Clients, t \in Tables :
    a.sid[c] # 0 /\ a.room[c] # NoRoom => a.reqs[t][a.user[c]] # Absent

\* A private room has its two users, at most.
Closed(a) ==
  \A c \in Clients : a.room[c] # NoRoom /\ Private(a, a.room[c]) => a.user[c] \in a.name[a.room[c]]

\* Nobody asks the nameless, and administrators have names.
Clean(a) == (\A t \in Tables : a.reqs[t][NoUser] \notin Users) /\ a.admins \subseteq Users

Sound(a) ==
  a \in AppType /\ Owned(a) /\ Housed(a) /\ Known(a) /\ Asked(a) /\ Closed(a) /\ Clean(a)

-----------------------------------------------------------------------------
(* The inductive invariant.                                                *)

\* An administrator has logged c out and is about to destroy its connection.
Kicked(c) == \E d \in Clients : pc[d] = "kick" /\ req[d].peer = c

\* What the place of a worker says of its session.  A session that was valid when a
\* request was received, and is not when it is served, has been kicked.
Placed ==
  \A c \in Clients :
    /\ pc[c] = "login" => app.sid[c] = 0 /\ app.room[c] = NoRoom /\ app.user[c] \in Users
    /\ pc[c] = "off" => app.sid[c] = 0
    /\ pc[c] = "lock" /\ app.sid[c] = 0 => app.user[c] = NoUser /\ Kicked(c)
    /\ app.room[c] # NoRoom /\ app.sid[c] = 0 => Kicked(c)

\* What the requests say that name a room or a user to be made something.
Sensible ==
  \A c \in Clients :
    /\ req[c].op = "join" => \E n \in Names : req[c].name = {n}
    /\ req[c].op = "promote" => req[c].user \in Users

IInv == TypeOK /\ Sound(app) /\ Placed /\ Sensible

NoWrap == app.next # 0

-----------------------------------------------------------------------------
(* The helpers of chat_internal.c: what each does to what, and that it     *)
(* keeps the data sound.                                                   *)

\* The types of what is behind the lock.
LEMMA AppFields ==
  ASSUME NEW a \in AppType
  PROVE  /\ a.user \in [Clients -> Keys] /\ a.sid \in [Clients -> 0..IdSpace]
         /\ a.room \in [Clients -> RoomIds \cup {NoRoom}] /\ a.allow \in [Clients -> Keys]
         /\ a.members \in [RoomIds -> SUBSET Clients] /\ a.name \in [RoomIds -> RoomNames]
         /\ a.made \in RoomIds /\ a.reqs \in [Tables -> [Keys -> Keys \cup {Absent}]]
         /\ a.store \in [Keys -> Clients \cup {NoClient}]
         /\ a.creds \in SUBSET Keys /\ a.admins \in SUBSET Keys /\ a.next \in 0..IdSpace
         /\ DOMAIN a = {"user", "sid", "room", "allow", "members", "name", "made", "reqs",
                        "store", "creds", "admins", "next"}
  BY DEF AppType

\* The kinds of names, and that rooms have numbers.
LEMMA Kinds ==
  /\ NoUser \in Keys /\ Users \subseteq Keys /\ NoUser \notin Users
  /\ Absent \notin Keys /\ NoClient \notin Clients
  /\ NoRoom \notin RoomIds /\ NoName \in RoomNames
  /\ 1 \in RoomIds /\ RoomIds \subseteq Nat /\ "pm" \in Tables
  /\ \A n \in Names : n \notin Keys
  BY DEF Keys, NoRoom, RoomIds, NoName, RoomNames, Tables

\* No entry becomes a pending request.
NoneAsked(a, b) ==
  \A t \in Tables, u \in Keys : b.reqs[t][u] \in Users => b.reqs[t][u] = a.reqs[t][u]

\* No administrator comes or goes, and no room goes.
NoneRemoved(a, b) ==
  b.admins = a.admins /\ \A r \in RoomIds : a.name[r] # NoName => b.name[r] # NoName

\* No session but c's begins or ends.
OthersStay(c) == \A d \in Clients \ {c} : app'.sid[d] = app.sid[d]

\* A step of c's worker that does what no administrator is needed for.
Mild(c) == NoneAsked(app, app') /\ NoneRemoved(app, app') /\ OthersStay(c)

\* user_leave changes rooms, members and request entries, and nothing else.
LEMMA LeaveFields ==
  ASSUME NEW a \in AppType, NEW C \in SUBSET Clients
  PROVE  LET b    == LeaveAll(a, C)
             left == {c \in C : a.room[c] # NoRoom}
         IN /\ b \in AppType
            /\ b.user = a.user /\ b.sid = a.sid /\ b.allow = a.allow /\ b.name = a.name
            /\ b.made = a.made /\ b.store = a.store /\ b.creds = a.creds
            /\ b.admins = a.admins /\ b.next = a.next
            /\ \A c \in Clients : b.room[c] = IF c \in left THEN NoRoom ELSE a.room[c]
            /\ \A r \in RoomIds : b.members[r] = a.members[r] \ {c \in left : a.room[c] = r}
            /\ \A t \in Tables, u \in Keys :
                 b.reqs[t][u] = IF \E c \in left : a.user[c] = u THEN Absent ELSE a.reqs[t][u]
<1> DEFINE left == {c \in C : a.room[c] # NoRoom}
           rm == [c \in Clients |-> IF c \in left THEN NoRoom ELSE a.room[c]]
           mb == [r \in RoomIds |-> a.members[r] \ {c \in left : a.room[c] = r}]
           rq == [t \in Tables |-> [u \in Keys |->
                    IF \E c \in left : a.user[c] = u THEN Absent ELSE a.reqs[t][u]]]
           b  == LeaveAll(a, C)
<1>1. b = [a EXCEPT !.room = rm, !.members = mb, !.reqs = rq]
  BY DEF LeaveAll
<1>2. rm \in [Clients -> RoomIds \cup {NoRoom}] /\ mb \in [RoomIds -> SUBSET Clients]
  BY AppFields
<1>3. rq \in [Tables -> [Keys -> Keys \cup {Absent}]]
  BY AppFields
<1> HIDE DEF rm, mb, rq, b
<1>4. /\ b \in AppType
      /\ b.user = a.user /\ b.sid = a.sid /\ b.allow = a.allow /\ b.name = a.name
      /\ b.made = a.made /\ b.store = a.store /\ b.creds = a.creds
      /\ b.admins = a.admins /\ b.next = a.next
      /\ b.room = rm /\ b.members = mb /\ b.reqs = rq
  BY <1>1, <1>2, <1>3 DEF AppType
<1>5. \A c \in Clients : b.room[c] = IF c \in left THEN NoRoom ELSE a.room[c]
  BY <1>4 DEF rm
<1>6. \A r \in RoomIds : b.members[r] = a.members[r] \ {c \in left : a.room[c] = r}
  BY <1>4 DEF mb
<1>7. \A t \in Tables, u \in Keys :
        b.reqs[t][u] = IF \E c \in left : a.user[c] = u THEN Absent ELSE a.reqs[t][u]
  BY <1>4 DEF rq
<1> QED
  BY <1>4, <1>5, <1>6, <1>7 DEF b

\* Whoever leaves is in no room afterwards, and only the entries of those who left
\* are gone: the others in the rooms can still be asked, because no two have one name.
LEMMA LeaveSound ==
  ASSUME NEW a, Sound(a), NEW C \in SUBSET Clients
  PROVE  LET b == LeaveAll(a, C)
         IN /\ Sound(b) /\ NoneAsked(a, b)
            /\ \A r \in RoomIds : b.members[r] = a.members[r] \ C
            /\ \A c \in Clients : b.room[c] = IF c \in C THEN NoRoom ELSE a.room[c]
<1> DEFINE b == LeaveAll(a, C)
           left == {c \in C : a.room[c] # NoRoom}
<1>0. a \in AppType /\ Owned(a) /\ Housed(a) /\ Known(a) /\ Asked(a) /\ Closed(a) /\ Clean(a)
  BY DEF Sound
<1>1. /\ b \in AppType
      /\ b.user = a.user /\ b.sid = a.sid /\ b.allow = a.allow /\ b.name = a.name
      /\ b.made = a.made /\ b.store = a.store /\ b.creds = a.creds
      /\ b.admins = a.admins /\ b.next = a.next
      /\ \A c \in Clients : b.room[c] = IF c \in left THEN NoRoom ELSE a.room[c]
      /\ \A r \in RoomIds : b.members[r] = a.members[r] \ {c \in left : a.room[c] = r}
      /\ \A t \in Tables, u \in Keys :
           b.reqs[t][u] = IF \E c \in left : a.user[c] = u THEN Absent ELSE a.reqs[t][u]
  BY <1>0, LeaveFields
<1> HIDE DEF b
<1>2. \A c \in Clients : b.room[c] = IF c \in C THEN NoRoom ELSE a.room[c]
  BY <1>1
<1>3. \A r \in RoomIds : b.members[r] = a.members[r] \ C
  <2>1. \A r \in RoomIds, c \in C : c \in a.members[r] => c \in left /\ a.room[c] = r
    BY <1>0, Kinds DEF Housed
  <2> QED
    BY <1>1, <2>1
<1>4. Owned(b)
  BY <1>0, <1>1 DEF Owned
<1>5. Housed(b)
  <2>1. \A c \in Clients, r \in RoomIds : c \in b.members[r] <=> b.room[c] = r
    BY <1>0, <1>2, <1>3, Kinds DEF Housed
  <2> QED
    BY <1>0, <1>1, <1>2, <2>1 DEF Housed
<1>6. Known(b)
  BY <1>0, <1>1, <1>2 DEF Known
<1>7. Asked(b)
  <2> SUFFICES ASSUME NEW c \in Clients, NEW t \in Tables, b.sid[c] # 0, b.room[c] # NoRoom
               PROVE  b.reqs[t][b.user[c]] # Absent
    BY DEF Asked
  <2>1. a.sid[c] # 0 /\ a.room[c] # NoRoom /\ c \notin left /\ a.user[c] \in Users /\ a.user[c] \in Keys
    BY <1>0, <1>1, <1>2, Kinds DEF Owned
  <2>2. ~\E d \in left : a.user[d] = a.user[c]
    <3> SUFFICES ASSUME NEW d \in left, a.user[d] = a.user[c] PROVE FALSE
      OBVIOUS
    <3>1. a.sid[d] # 0
      BY <1>0, <2>1, Kinds DEF Known
    <3> QED
      BY <1>0, <2>1, <3>1 DEF Owned
  <2> QED
    BY <1>0, <1>1, <2>1, <2>2 DEF Asked
<1>8. Closed(b)
  BY <1>0, <1>1, <1>2 DEF Closed, Private
<1>9. Clean(b) /\ NoneAsked(a, b)
  BY <1>0, <1>1, Kinds DEF Clean, NoneAsked
<1> QED
  BY <1>1, <1>2, <1>3, <1>4, <1>5, <1>6, <1>7, <1>8, <1>9 DEF Sound, b

\* user_logout: the session has no name, no id and no room, and the store no entry for
\* it; the others have theirs.
LEMMA LogoutSound ==
  ASSUME NEW a, Sound(a), NEW c \in Clients
  PROVE  LET b == UserLogout(a, c)
         IN /\ Sound(b) /\ NoneAsked(a, b)
            /\ b.user = [a.user EXCEPT ![c] = NoUser] /\ b.sid = [a.sid EXCEPT ![c] = 0]
            /\ b.room[c] = NoRoom /\ \A d \in Clients \ {c} : b.room[d] = a.room[d]
            /\ b.store = IF a.sid[c] # 0 THEN [a.store EXCEPT ![a.user[c]] = NoClient] ELSE a.store
            /\ b.name = a.name /\ b.made = a.made /\ b.admins = a.admins /\ b.next = a.next
<1> DEFINE b == UserLogout(a, c)
           l == UserLeave(a, c)
           st == IF a.sid[c] # 0 THEN [a.store EXCEPT ![a.user[c]] = NoClient] ELSE a.store
<1>0. a \in AppType /\ Owned(a) /\ Housed(a) /\ Known(a) /\ Asked(a) /\ Closed(a) /\ Clean(a)
  BY DEF Sound
<1>1. /\ l \in AppType /\ Sound(l) /\ NoneAsked(a, l)
      /\ l.user = a.user /\ l.sid = a.sid /\ l.allow = a.allow /\ l.name = a.name
      /\ l.made = a.made /\ l.store = a.store /\ l.creds = a.creds
      /\ l.admins = a.admins /\ l.next = a.next
      /\ \A d \in Clients : l.room[d] = IF d = c THEN NoRoom ELSE a.room[d]
  BY <1>0, LeaveFields, LeaveSound DEF UserLeave
<1>2. (a.user[c] # NoUser /\ a.sid[c] # 0) <=> a.sid[c] # 0
  BY <1>0, Kinds DEF Owned
<1> HIDE DEF l
<1>3. b = [l EXCEPT !.store = st, !.user[c] = NoUser, !.sid[c] = 0]
  BY <1>1, <1>2 DEF UserLogout, l
<1>4. st \in [Keys -> Clients \cup {NoClient}]
  BY <1>0, AppFields
<1> HIDE DEF st, b
<1>5. /\ [l.user EXCEPT ![c] = NoUser] \in [Clients -> Keys]
      /\ [l.sid EXCEPT ![c] = 0] \in [Clients -> 0..IdSpace]
  <2>1. l.user \in [Clients -> Keys] /\ l.sid \in [Clients -> 0..IdSpace]
    BY <1>1, AppFields
  <2>2. 0 \in 0..IdSpace
    OBVIOUS
  <2> QED
    BY <2>1, <2>2, Kinds
<1>6. /\ b \in AppType
      /\ b.user = [a.user EXCEPT ![c] = NoUser] /\ b.sid = [a.sid EXCEPT ![c] = 0]
      /\ b.room = l.room /\ b.members = l.members /\ b.reqs = l.reqs
      /\ b.store = st
      /\ b.name = a.name /\ b.made = a.made /\ b.admins = a.admins /\ b.next = a.next
  BY <1>1, <1>3, <1>4, <1>5 DEF AppType
<1>7. /\ \A d \in Clients : /\ b.user[d] = IF d = c THEN NoUser ELSE a.user[d]
                            /\ b.sid[d] = IF d = c THEN 0 ELSE a.sid[d]
                            /\ b.room[d] = IF d = c THEN NoRoom ELSE a.room[d]
  BY <1>0, <1>1, <1>6, AppFields
<1>8. Owned(b)
  <2>1. ASSUME NEW d \in Clients, b.sid[d] # 0
        PROVE  b.user[d] \in Users /\ b.store[b.user[d]] = d
    <3>1. d # c /\ a.sid[d] # 0 /\ b.user[d] = a.user[d] /\ a.user[d] \in Users /\ a.store[a.user[d]] = d
      BY <1>0, <1>7, <2>1 DEF Owned
    <3>2. st[a.user[d]] = d
      BY <1>0, <3>1, AppFields, Kinds DEF Owned, st
    <3> QED
      BY <1>6, <3>1, <3>2
  <2>2. ASSUME NEW u \in Keys, b.store[u] # NoClient
        PROVE  b.user[b.store[u]] = u /\ b.sid[b.store[u]] # 0
    <3>1. b.store[u] = a.store[u] /\ a.store[u] \in Clients
      BY <1>0, <1>6, <2>2, AppFields DEF st
    <3>2. a.user[a.store[u]] = u /\ a.sid[a.store[u]] # 0
      BY <1>0, <2>2, <3>1 DEF Owned
    <3>3. a.store[u] # c
      <4> SUFFICES ASSUME a.store[u] = c PROVE FALSE
        OBVIOUS
      <4>1. st = [a.store EXCEPT ![u] = NoClient]
        BY <3>2 DEF st
      <4> QED
        BY <1>0, <1>6, <2>2, <4>1, AppFields
    <3> QED
      BY <1>7, <3>1, <3>2, <3>3
  <2> QED
    BY <2>1, <2>2 DEF Owned
<1>9. Housed(b)
  BY <1>1, <1>6 DEF Sound, Housed
<1>10. Known(b)
  BY <1>0, <1>7 DEF Known
<1>11. Asked(b)
  BY <1>1, <1>6, <1>7 DEF Sound, Asked
<1>12. Closed(b)
  BY <1>0, <1>6, <1>7 DEF Closed, Private
<1>13. Clean(b) /\ NoneAsked(a, b)
  BY <1>1, <1>6 DEF Sound, Clean, NoneAsked
<1> QED
  BY <1>6, <1>7, <1>8, <1>9, <1>10, <1>11, <1>12, <1>13 DEF Sound, b, st

\* A session that is logged out may take any name until it is logged in.
LEMMA NameSound ==
  ASSUME NEW a, Sound(a), NEW c \in Clients, NEW u \in Keys, a.sid[c] = 0, a.room[c] = NoRoom
  PROVE  LET b == [a EXCEPT !.user[c] = u]
         IN /\ Sound(b) /\ NoneAsked(a, b) /\ b.user = [a.user EXCEPT ![c] = u]
            /\ b.sid = a.sid /\ b.room = a.room /\ b.store = a.store
            /\ b.name = a.name /\ b.made = a.made /\ b.admins = a.admins /\ b.next = a.next
<1> DEFINE b == [a EXCEPT !.user[c] = u]
<1>0. a \in AppType /\ Owned(a) /\ Housed(a) /\ Known(a) /\ Asked(a) /\ Closed(a) /\ Clean(a)
  BY DEF Sound
<1>1. /\ b \in AppType /\ b.user = [a.user EXCEPT ![c] = u]
      /\ b.sid = a.sid /\ b.room = a.room /\ b.store = a.store /\ b.members = a.members
      /\ b.name = a.name /\ b.made = a.made /\ b.admins = a.admins /\ b.next = a.next
      /\ b.reqs = a.reqs
  <2>1. [a.user EXCEPT ![c] = u] \in [Clients -> Keys]
    BY <1>0, AppFields
  <2> QED
    BY <1>0, <2>1 DEF AppType
<1> HIDE DEF b
<1>2. \A d \in Clients \ {c} : b.user[d] = a.user[d]
  BY <1>0, <1>1, AppFields
<1>3. Owned(b)
  <2>1. \A v \in Keys : a.store[v] # NoClient => a.store[v] \in Clients \ {c}
    BY <1>0, AppFields DEF Owned
  <2> QED
    BY <1>0, <1>1, <1>2, <2>1 DEF Owned
<1>4. Housed(b)
  BY <1>0, <1>1 DEF Housed
<1>5. Known(b) /\ Asked(b)
  BY <1>0, <1>1, <1>2 DEF Known, Asked
<1>6. Closed(b)
  BY <1>0, <1>1, <1>2 DEF Closed, Private
<1>7. Clean(b) /\ NoneAsked(a, b)
  BY <1>0, <1>1 DEF Clean, NoneAsked
<1> QED
  BY <1>1, <1>3, <1>4, <1>5, <1>6, <1>7 DEF Sound, b

\* user_login gives the session an id and the store its entry, or only remembers the
\* password of a new user.
LEMMA LoginSound ==
  ASSUME NEW a, Sound(a), NEW c \in Clients, NEW right \in BOOLEAN,
         a.sid[c] = 0, a.room[c] = NoRoom, a.user[c] \in Users, a.next # 0
  PROVE  LET b == UserLogin(a, c, right)
         IN /\ Sound(b) /\ NoneAsked(a, b) /\ b.user = a.user
            /\ b.sid = a.sid \/ b.sid = [a.sid EXCEPT ![c] = a.next]
            /\ b.room = a.room /\ b.name = a.name /\ b.made = a.made /\ b.admins = a.admins
<1> DEFINE u == a.user[c]
           k == [a EXCEPT !.creds = @ \cup {u}]
           l == [k EXCEPT !.store[u] = c, !.sid[c] = a.next, !.next = (a.next + 1) % IdSpace]
<1>0. a \in AppType /\ Owned(a) /\ Housed(a) /\ Known(a) /\ Asked(a) /\ Closed(a) /\ Clean(a)
  BY DEF Sound
<1>1. u \in Keys
  BY Kinds
<1>2. /\ k \in AppType /\ k.user = a.user /\ k.sid = a.sid /\ k.room = a.room
      /\ k.store = a.store /\ k.members = a.members /\ k.name = a.name /\ k.made = a.made
      /\ k.admins = a.admins /\ k.next = a.next /\ k.reqs = a.reqs
  <2>1. a.creds \cup {u} \in SUBSET Keys
    BY <1>0, <1>1, AppFields
  <2> QED
    BY <1>0, <2>1 DEF AppType
<1> HIDE DEF k
<1>3. Sound(k)
  BY <1>0, <1>2 DEF Sound, Owned, Housed, Known, Asked, Closed, Clean, Private
<1>4. ASSUME a.store[u] = NoClient
      PROVE  /\ Sound(l) /\ l.user = a.user /\ l.sid = [a.sid EXCEPT ![c] = a.next]
             /\ l.room = a.room /\ l.name = a.name /\ l.made = a.made /\ l.admins = a.admins
             /\ l.reqs = a.reqs
  <2>1. /\ [k.store EXCEPT ![u] = c] \in [Keys -> Clients \cup {NoClient}]
        /\ [k.sid EXCEPT ![c] = a.next] \in [Clients -> 0..IdSpace]
    BY <1>0, <1>1, <1>2, AppFields
  <2>2. (a.next + 1) % IdSpace \in 0..IdSpace
    <3>1. a.next \in Nat
      BY <1>0, AppFields
    <3>2. \A m \in Nat, n \in Nat \ {0} : m % n \in 0..n
      OBVIOUS
    <3> QED
      BY <3>1, <3>2
  <2>3. /\ l \in AppType /\ l.user = a.user /\ l.sid = [a.sid EXCEPT ![c] = a.next]
        /\ l.store = [a.store EXCEPT ![u] = c]
        /\ l.room = a.room /\ l.members = a.members /\ l.name = a.name /\ l.made = a.made
        /\ l.admins = a.admins /\ l.reqs = a.reqs
    BY <1>2, <2>1, <2>2 DEF AppType
  <2> HIDE DEF l
  <2>4. \A d \in Clients : l.sid[d] = IF d = c THEN a.next ELSE a.sid[d]
    BY <1>0, <2>3, AppFields
  <2>5. \A v \in Keys : l.store[v] = IF v = u THEN c ELSE a.store[v]
    BY <1>0, <2>3, AppFields
  <2>6. Owned(l)
    <3>1. ASSUME NEW d \in Clients, l.sid[d] # 0
          PROVE  l.user[d] \in Users /\ l.store[l.user[d]] = d
      <4>1. CASE d = c
        BY <1>1, <2>3, <2>5, <4>1
      <4>2. CASE d # c
        <5>1. a.sid[d] # 0 /\ a.user[d] \in Users /\ a.store[a.user[d]] = d
          BY <1>0, <2>4, <3>1, <4>2 DEF Owned
        <5>2. a.user[d] # u /\ a.user[d] \in Keys
          BY <1>4, <5>1, Kinds
        <5> QED
          BY <2>3, <2>5, <5>1, <5>2
      <4> QED
        BY <4>1, <4>2
    <3>2. ASSUME NEW v \in Keys, l.store[v] # NoClient
          PROVE  l.user[l.store[v]] = v /\ l.sid[l.store[v]] # 0
      <4>1. CASE v = u
        BY <2>3, <2>4, <2>5, <4>1
      <4>2. CASE v # u
        <5>1. l.store[v] = a.store[v] /\ a.store[v] \in Clients
          BY <1>0, <2>5, <3>2, <4>2, AppFields
        <5>2. a.user[a.store[v]] = v /\ a.sid[a.store[v]] # 0
          BY <1>0, <3>2, <5>1 DEF Owned
        <5> QED
          BY <2>3, <2>4, <5>1, <5>2
      <4> QED
        BY <4>1, <4>2
    <3> QED
      BY <3>1, <3>2 DEF Owned
  <2>7. Housed(l)
    BY <1>0, <2>3 DEF Housed
  <2>8. Known(l) /\ Asked(l)
    BY <1>0, <2>3, <2>4 DEF Known, Asked
  <2>9. Closed(l) /\ Clean(l)
    BY <1>0, <2>3 DEF Closed, Clean, Private
  <2> QED
    BY <2>3, <2>6, <2>7, <2>8, <2>9 DEF Sound, l
<1> HIDE DEF l
<1>5. UserLogin(a, c, right) = a \/ UserLogin(a, c, right) = k
        \/ (a.store[u] = NoClient /\ UserLogin(a, c, right) = l)
  BY DEF UserLogin, k, l
<1> QED
  BY <1>2, <1>3, <1>4, <1>5 DEF NoneAsked

\* A new room is empty, and the rooms there are stay as they are.
LEMMA CreateSound ==
  ASSUME NEW a, Sound(a), RoomLeft(a), NEW n \in RoomNames, n # NoName
  PROVE  LET b == RoomCreate(a, n)
         IN /\ Sound(b) /\ NoneAsked(a, b) /\ b.made = a.made + 1 /\ b.made \in RoomIds
            /\ a.name[a.made + 1] = NoName /\ b.name = [a.name EXCEPT ![a.made + 1] = n]
            /\ b.user = a.user /\ b.sid = a.sid /\ b.room = a.room /\ b.store = a.store
            /\ b.admins = a.admins
            /\ \A c \in Clients : a.room[c] # a.made + 1
<1> DEFINE r == a.made + 1
           b == RoomCreate(a, n)
<1>0. a \in AppType /\ Owned(a) /\ Housed(a) /\ Known(a) /\ Asked(a) /\ Closed(a) /\ Clean(a)
  BY DEF Sound
<1>1. r \in RoomIds /\ a.made \in Nat /\ r > a.made
  BY <1>0, AppFields DEF RoomLeft, RoomIds
<1>2. a.name[r] = NoName /\ \A c \in Clients : a.room[c] # r
  BY <1>0, <1>1, Kinds DEF Housed
<1> HIDE DEF r
<1>3. b = [a EXCEPT !.made = r, !.name = [a.name EXCEPT ![r] = n]]
  BY <1>0 DEF RoomCreate, r
<1> HIDE DEF b
<1>4. /\ b \in AppType /\ b.made = r /\ b.name = [a.name EXCEPT ![r] = n]
      /\ b.user = a.user /\ b.sid = a.sid /\ b.room = a.room /\ b.store = a.store
      /\ b.members = a.members /\ b.reqs = a.reqs /\ b.admins = a.admins
  <2>1. [a.name EXCEPT ![r] = n] \in [RoomIds -> RoomNames]
    BY <1>0, <1>1, AppFields
  <2> QED
    BY <1>0, <1>1, <1>3, <2>1 DEF AppType
<1>5. \A q \in RoomIds : b.name[q] = IF q = r THEN n ELSE a.name[q]
  BY <1>0, <1>1, <1>4, AppFields
<1>6. \A c \in Clients : a.room[c] # NoRoom => a.room[c] \in RoomIds
  BY <1>0, AppFields
<1>7. Owned(b) /\ Known(b) /\ Asked(b) /\ Clean(b)
  BY <1>0, <1>4 DEF Owned, Known, Asked, Clean
<1>8. Housed(b)
  <2>1. \A c \in Clients : b.room[c] # NoRoom => b.name[b.room[c]] # NoName
    BY <1>0, <1>2, <1>4, <1>5, <1>6 DEF Housed
  <2>2. \A q \in RoomIds : q > b.made => b.name[q] = NoName
    <3>1. \A q \in RoomIds : q > r => q # r /\ q > a.made
      BY <1>1 DEF RoomIds
    <3> QED
      BY <1>0, <1>4, <1>5, <3>1 DEF Housed
  <2> QED
    BY <1>0, <1>4, <2>1, <2>2 DEF Housed
<1>9. Closed(b)
  BY <1>0, <1>2, <1>4, <1>5, <1>6 DEF Closed, Private
<1> QED
  BY <1>1, <1>2, <1>4, <1>7, <1>8, <1>9 DEF Sound, NoneAsked, b, r

\* Moving to a room takes three steps, and after them the session is in that room
\* and in no other, and can be asked.
LEMMA EnterSound ==
  ASSUME NEW a, Sound(a), NEW c \in Clients, NEW r \in RoomIds,
         a.name[r] # NoName, a.sid[c] # 0 \/ a.user[c] = NoUser,
         Private(a, r) => a.user[c] \in a.name[r]
  PROVE  LET b == Enter(a, c, r)
         IN /\ Sound(b) /\ NoneAsked(a, b)
            /\ b.user = a.user /\ b.sid = a.sid /\ b.store = a.store /\ b.name = a.name
            /\ b.made = a.made /\ b.admins = a.admins
            /\ \A d \in Clients : b.room[d] = IF d = c THEN r ELSE a.room[d]
<1> DEFINE l == UserLeave(a, c)
           e == [l EXCEPT !.room[c] = r]
           mb == [l.members EXCEPT ![r] = @ \cup {c}]
           rq == [t \in Tables |-> [l.reqs[t] EXCEPT ![a.user[c]] = NoUser]]
           b == Enter(a, c, r)
<1>0. a \in AppType
  BY DEF Sound
<1>1. /\ l \in AppType /\ Sound(l) /\ NoneAsked(a, l)
      /\ l.user = a.user /\ l.sid = a.sid /\ l.name = a.name
      /\ l.made = a.made /\ l.store = a.store /\ l.admins = a.admins
      /\ \A d \in Clients : l.room[d] = IF d = c THEN NoRoom ELSE a.room[d]
      /\ \A q \in RoomIds : l.members[q] = a.members[q] \ {c}
  BY <1>0, LeaveFields, LeaveSound DEF UserLeave
<1>2. Owned(l) /\ Housed(l) /\ Known(l) /\ Asked(l) /\ Closed(l) /\ Clean(l)
  BY <1>1 DEF Sound
<1> HIDE DEF l
<1>3. /\ l.room \in [Clients -> RoomIds \cup {NoRoom}] /\ l.members \in [RoomIds -> SUBSET Clients]
      /\ l.reqs \in [Tables -> [Keys -> Keys \cup {Absent}]] /\ a.user[c] \in Keys
  BY <1>0, <1>1, AppFields
<1>4. e = [l EXCEPT !.room = [l.room EXCEPT ![c] = r]]
  OBVIOUS
<1>5. [l.room EXCEPT ![c] = r] \in [Clients -> RoomIds \cup {NoRoom}]
  BY <1>3
<1> HIDE DEF e
<1>6. /\ e \in AppType /\ e.room = [l.room EXCEPT ![c] = r] /\ e.room[c] = r
      /\ e.user = l.user /\ e.sid = l.sid /\ e.name = l.name /\ e.made = l.made
      /\ e.store = l.store /\ e.admins = l.admins /\ e.members = l.members /\ e.reqs = l.reqs
  BY <1>1, <1>3, <1>4, <1>5 DEF AppType
<1>7. MayEnter(e, c)
  BY <1>1, <1>6 DEF MayEnter, Private
<1>8. b = [e EXCEPT !.members = mb, !.reqs = rq]
  <2>1. b = UserJoin(e, c)
    BY DEF Enter, l, e
  <2>2. UserJoin(e, c) =
          [e EXCEPT !.members = [e.members EXCEPT ![e.room[c]] = @ \cup {c}],
                    !.reqs = [t \in Tables |-> [e.reqs[t] EXCEPT ![e.user[c]] = NoUser]]]
    BY <1>6, <1>7 DEF UserJoin
  <2> QED
    BY <1>1, <1>6, <2>1, <2>2
<1>9. mb \in [RoomIds -> SUBSET Clients] /\ rq \in [Tables -> [Keys -> Keys \cup {Absent}]]
  BY <1>3, Kinds
<1>10. /\ \A q \in RoomIds : mb[q] = IF q = r THEN l.members[q] \cup {c} ELSE l.members[q]
       /\ \A t \in Tables, u \in Keys : rq[t][u] = IF u = a.user[c] THEN NoUser ELSE l.reqs[t][u]
  BY <1>3
<1> HIDE DEF mb, rq, b
<1>11. /\ b \in AppType /\ b.room = e.room /\ b.members = mb /\ b.reqs = rq
       /\ b.user = a.user /\ b.sid = a.sid /\ b.name = a.name /\ b.made = a.made
       /\ b.store = a.store /\ b.admins = a.admins
  BY <1>1, <1>6, <1>8, <1>9 DEF AppType
<1>12. \A d \in Clients : b.room[d] = IF d = c THEN r ELSE l.room[d]
  BY <1>3, <1>6, <1>11
<1>13. Owned(b)
  BY <1>1, <1>2, <1>11 DEF Owned
<1>14. Housed(b)
  <2>1. \A d \in Clients, q \in RoomIds : d \in b.members[q] <=> b.room[d] = q
    <3> TAKE d \in Clients, q \in RoomIds
    <3>1. d \in l.members[q] <=> l.room[d] = q
      BY <1>2 DEF Housed
    <3>2. d \in b.members[q] <=> (d \in l.members[q] \/ (q = r /\ d = c))
      <4>1. b.members[q] = IF q = r THEN l.members[q] \cup {c} ELSE l.members[q]
        BY <1>10, <1>11
      <4>2. CASE q = r
        BY <4>1, <4>2
      <4>3. CASE q # r
        BY <4>1, <4>3
      <4> QED
        BY <4>2, <4>3
    <3>3. l.room[c] = NoRoom /\ NoRoom # q
      BY <1>1, Kinds
    <3> QED
      BY <1>12, <3>1, <3>2, <3>3
  <2> QED
    BY <1>1, <1>2, <1>11, <1>12, <2>1 DEF Housed
<1>15. Known(b)
  BY <1>1, <1>2, <1>11, <1>12 DEF Known
<1>16. Asked(b)
  <2> SUFFICES ASSUME NEW d \in Clients, NEW t \in Tables, b.sid[d] # 0, b.room[d] # NoRoom
               PROVE  b.reqs[t][b.user[d]] # Absent
    BY DEF Asked
  <2>1. b.user[d] \in Keys /\ NoUser # Absent
    BY <1>11, AppFields, Kinds
  <2>2. CASE a.user[d] = a.user[c]
    BY <1>10, <1>11, <2>1, <2>2
  <2>3. CASE a.user[d] # a.user[c]
    BY <1>1, <1>2, <1>10, <1>11, <1>12, <2>1, <2>3 DEF Asked
  <2> QED
    BY <2>2, <2>3
<1>17. Closed(b)
  <2>1. \A d \in Clients : l.room[d] # NoRoom /\ Private(l, l.room[d]) => l.user[d] \in l.name[l.room[d]]
    BY <1>2 DEF Closed
  <2>2. \A q \in RoomIds : Private(b, q) <=> Private(a, q)
    BY <1>11 DEF Private
  <2>3. \A q : Private(l, q) <=> Private(b, q)
    BY <1>1, <1>11 DEF Private
  <2> QED
    BY <1>1, <1>11, <1>12, <2>1, <2>2, <2>3 DEF Closed
<1>18. Clean(b) /\ NoneAsked(a, b)
  BY <1>1, <1>2, <1>10, <1>11, Kinds DEF Clean, NoneAsked
<1> QED
  BY <1>1, <1>11, <1>12, <1>13, <1>14, <1>15, <1>16, <1>17, <1>18 DEF Sound, b

\* respond_pm_accept brings the requester and the user's session together in a room
\* nobody else is in.
LEMMA AcceptSound ==
  ASSUME NEW a, Sound(a), RoomLeft(a), NEW s \in Clients, a.sid[s] # 0, NEW u \in Users
  PROVE  LET b == PmAccept(a, s, u)
             r == a.made + 1
         IN /\ Sound(b) /\ NoneAsked(a, b) /\ r \in RoomIds
            /\ b.user = a.user /\ b.sid = a.sid /\ b.store = a.store /\ b.admins = a.admins
            /\ a.name[r] = NoName /\ \A q \in RoomIds \ {r} : b.name[q] = a.name[q]
            /\ \A d \in Clients : b.room[d] = IF d = s \/ d = a.store[u] THEN r ELSE a.room[d]
            /\ \A d \in Clients : a.room[d] # r
<1> DEFINE r == a.made + 1
           n == {a.user[s], u}
           k == RoomCreate(a, n)
           e == Enter(k, s, k.made)
           b == PmAccept(a, s, u)
<1>0. a \in AppType /\ Owned(a)
  BY DEF Sound
<1>1. n \in RoomNames /\ n # NoName
  <2>1. a.user[s] \in Keys /\ u \in Keys
    BY <1>0, AppFields, Kinds
  <2> QED
    BY <2>1 DEF RoomNames, NoName
<1>2. /\ Sound(k) /\ NoneAsked(a, k) /\ k.made = r /\ k.made \in RoomIds
      /\ a.name[r] = NoName /\ k.name = [a.name EXCEPT ![r] = n]
      /\ k.user = a.user /\ k.sid = a.sid /\ k.room = a.room /\ k.store = a.store
      /\ k.admins = a.admins
      /\ \A c \in Clients : a.room[c] # r
  BY <1>1, CreateSound
<1>4. b = IF a.store[u] = NoClient THEN e ELSE Enter(e, a.store[u], k.made)
  BY DEF PmAccept
<1> HIDE DEF k, r, b
<1>3. \A q \in RoomIds : k.name[q] = IF q = r THEN n ELSE a.name[q]
  <2>1. a.name \in [RoomIds -> RoomNames]
    BY <1>0, AppFields
  <2> QED
    BY <1>2, <2>1
<1>5. k.made = r /\ r \in RoomIds /\ k.name[r] = n
  BY <1>2, <1>3
<1>6. /\ Sound(e) /\ NoneAsked(k, e)
      /\ e.user = k.user /\ e.sid = k.sid /\ e.store = k.store /\ e.name = k.name
      /\ e.made = k.made /\ e.admins = k.admins
      /\ \A d \in Clients : e.room[d] = IF d = s THEN r ELSE k.room[d]
  BY <1>1, <1>2, <1>5, EnterSound
<1> HIDE DEF e
<1>7. u \in Keys /\ \A x \in Users : x \in Keys
  BY Kinds
<1>8. CASE a.store[u] = NoClient
  <2>1. b = e /\ \A d \in Clients : d # a.store[u]
    BY <1>4, <1>8, Kinds
  <2>2. NoneAsked(a, b)
    BY <1>2, <1>6, <2>1 DEF NoneAsked
  <2> QED
    BY <1>2, <1>3, <1>5, <1>6, <2>1, <2>2 DEF b, r
<1>9. CASE a.store[u] # NoClient
  <2>1. a.store[u] \in Clients /\ a.user[a.store[u]] = u /\ a.sid[a.store[u]] # 0
    BY <1>0, <1>7, <1>9, AppFields DEF Owned
  <2>2. e.name[r] # NoName /\ e.sid[a.store[u]] # 0 /\ e.user[a.store[u]] \in e.name[r]
    BY <1>1, <1>2, <1>5, <1>6, <2>1
  <2> DEFINE f == Enter(e, a.store[u], r)
  <2>3. /\ Sound(f) /\ NoneAsked(e, f)
        /\ f.user = e.user /\ f.sid = e.sid /\ f.store = e.store /\ f.name = e.name
        /\ f.made = e.made /\ f.admins = e.admins
        /\ \A d \in Clients : f.room[d] = IF d = a.store[u] THEN r ELSE e.room[d]
    BY <1>5, <1>6, <2>1, <2>2, EnterSound
  <2>4. b = f
    BY <1>4, <1>5, <1>9
  <2> HIDE DEF f
  <2>5. NoneAsked(a, b)
    BY <1>2, <1>6, <2>3, <2>4 DEF NoneAsked
  <2> HIDE DEF n
  <2>6. /\ Sound(b) /\ b.user = a.user /\ b.sid = a.sid /\ b.store = a.store /\ b.admins = a.admins
        /\ b.name = k.name
    BY <1>2, <1>6, <2>3, <2>4
  <2>7. \A q \in RoomIds \ {r} : b.name[q] = a.name[q]
    BY <1>3, <2>6
  <2>8. \A d \in Clients : b.room[d] = IF d = s \/ d = a.store[u] THEN r ELSE a.room[d]
    BY <1>2, <1>6, <2>3, <2>4
  <2> QED
    BY <1>2, <1>5, <2>5, <2>6, <2>7, <2>8 DEF b, r
<1> QED
  BY <1>8, <1>9

\* opcode_delete: everybody leaves the room before it goes.
LEMMA DeleteSound ==
  ASSUME NEW a, Sound(a), NEW r \in RoomIds
  PROVE  LET b == [LeaveAll(a, a.members[r]) EXCEPT !.name[r] = NoName]
         IN /\ Sound(b) /\ NoneAsked(a, b) /\ b.user = a.user /\ b.sid = a.sid
            /\ b.admins = a.admins
            /\ \A c \in Clients : b.room[c] \in {a.room[c], NoRoom}
<1> DEFINE C == a.members[r]
           l == LeaveAll(a, C)
           b == [l EXCEPT !.name[r] = NoName]
<1>0. a \in AppType /\ Housed(a)
  BY DEF Sound
<1>1. C \in SUBSET Clients
  BY <1>0, AppFields
<1>2. /\ l \in AppType /\ Sound(l) /\ NoneAsked(a, l)
      /\ l.user = a.user /\ l.sid = a.sid /\ l.admins = a.admins /\ l.name = a.name
      /\ \A c \in Clients : l.room[c] = IF c \in C THEN NoRoom ELSE a.room[c]
  BY <1>0, <1>1, LeaveFields, LeaveSound
<1>3. Owned(l) /\ Housed(l) /\ Known(l) /\ Asked(l) /\ Closed(l) /\ Clean(l)
  BY <1>2 DEF Sound
<1>4. \A c \in Clients : l.room[c] # r
  BY <1>0, <1>2, Kinds DEF Housed
<1> HIDE DEF C, l
<1>5. /\ b \in AppType /\ b.name = [l.name EXCEPT ![r] = NoName]
      /\ b.user = l.user /\ b.sid = l.sid /\ b.room = l.room /\ b.store = l.store
      /\ b.members = l.members /\ b.reqs = l.reqs /\ b.admins = l.admins /\ b.made = l.made
  <2>1. [l.name EXCEPT ![r] = NoName] \in [RoomIds -> RoomNames]
    BY <1>2, AppFields, Kinds
  <2> QED
    BY <1>2, <2>1 DEF AppType
<1> HIDE DEF b
<1>6. \A q \in RoomIds : b.name[q] = IF q = r THEN NoName ELSE l.name[q]
  BY <1>2, <1>5, AppFields
<1>7. \A c \in Clients : l.room[c] # NoRoom => l.room[c] \in RoomIds
  BY <1>2, AppFields
<1>8. Owned(b) /\ Known(b) /\ Asked(b) /\ Clean(b)
  BY <1>3, <1>5 DEF Owned, Known, Asked, Clean
<1>9. Housed(b)
  BY <1>3, <1>4, <1>5, <1>6, <1>7 DEF Housed
<1>10. Closed(b)
  BY <1>3, <1>4, <1>5, <1>6, <1>7 DEF Closed, Private
<1>11. NoneAsked(a, b)
  BY <1>2, <1>5 DEF NoneAsked
<1> QED
  BY <1>2, <1>5, <1>8, <1>9, <1>10, <1>11 DEF Sound, b, l, C

\* An entry of a request table may take any value, but nobody's may not name a user.
LEMMA EntrySound ==
  ASSUME NEW a, Sound(a), NEW t \in Tables, NEW u \in Keys, NEW v \in Keys,
         u = NoUser => v \notin Users
  PROVE  LET b == [a EXCEPT !.reqs[t][u] = v]
         IN /\ Sound(b) /\ b.user = a.user /\ b.sid = a.sid /\ b.room = a.room
            /\ b.name = a.name /\ b.admins = a.admins /\ b.members = a.members
            /\ b.store = a.store /\ b.made = a.made
            /\ \A s \in Tables, w \in Keys :
                 b.reqs[s][w] = IF s = t /\ w = u THEN v ELSE a.reqs[s][w]
<1> DEFINE rt == [a.reqs[t] EXCEPT ![u] = v]
           rq == [a.reqs EXCEPT ![t] = rt]
           b == [a EXCEPT !.reqs = rq]
<1>0. a \in AppType /\ Owned(a) /\ Housed(a) /\ Known(a) /\ Asked(a) /\ Closed(a) /\ Clean(a)
  BY DEF Sound
<1>1. /\ rt \in [Keys -> Keys \cup {Absent}]
      /\ \A w \in Keys : rt[w] = IF w = u THEN v ELSE a.reqs[t][w]
  BY <1>0, AppFields
<1> HIDE DEF rt
<1>2. rq \in [Tables -> [Keys -> Keys \cup {Absent}]]
      /\ \A s \in Tables : rq[s] = IF s = t THEN rt ELSE a.reqs[s]
  BY <1>0, <1>1, AppFields
<1> HIDE DEF rq
<1>3. /\ b \in AppType /\ b.reqs = rq
      /\ b.user = a.user /\ b.sid = a.sid /\ b.room = a.room /\ b.name = a.name
      /\ b.admins = a.admins /\ b.members = a.members /\ b.store = a.store /\ b.made = a.made
  BY <1>0, <1>2 DEF AppType
<1>4. [a EXCEPT !.reqs[t][u] = v] = b
  BY DEF rq, rt
<1> HIDE DEF b
<1>5. \A s \in Tables, w \in Keys : b.reqs[s][w] = IF s = t /\ w = u THEN v ELSE a.reqs[s][w]
  BY <1>1, <1>2, <1>3
<1>6. Owned(b) /\ Known(b) /\ Housed(b) /\ Closed(b)
  BY <1>0, <1>3 DEF Owned, Known, Housed, Closed, Private
<1>7. Asked(b)
  <2>1. v # Absent /\ \A c \in Clients : a.user[c] \in Keys
    BY <1>0, AppFields, Kinds
  <2> QED
    BY <1>0, <1>3, <1>5, <2>1 DEF Asked
<1>8. Clean(b)
  BY <1>0, <1>3, <1>5, Kinds DEF Clean
<1> QED
  BY <1>3, <1>4, <1>5, <1>6, <1>7, <1>8 DEF Sound

\* Permissions to send files say nothing of sessions and rooms.
LEMMA AllowSound ==
  ASSUME NEW a, Sound(a), NEW c \in Clients, NEW u \in Keys
  PROVE  LET b == [a EXCEPT !.allow[c] = u]
         IN /\ Sound(b) /\ b.user = a.user /\ b.sid = a.sid /\ b.room = a.room
            /\ b.name = a.name /\ b.admins = a.admins /\ b.members = a.members
            /\ b.store = a.store /\ b.made = a.made /\ b.reqs = a.reqs
<1> DEFINE b == [a EXCEPT !.allow[c] = u]
<1>0. a \in AppType
  BY DEF Sound
<1>1. [a.allow EXCEPT ![c] = u] \in [Clients -> Keys]
  BY <1>0, AppFields
<1>2. /\ b \in AppType /\ b.user = a.user /\ b.sid = a.sid /\ b.room = a.room
      /\ b.name = a.name /\ b.admins = a.admins /\ b.members = a.members
      /\ b.store = a.store /\ b.made = a.made /\ b.reqs = a.reqs
  BY <1>0, <1>1 DEF AppType
<1> HIDE DEF b
<1>3. Sound(b)
  BY <1>2 DEF Sound, Owned, Housed, Known, Asked, Closed, Clean, Private
<1> QED
  BY <1>2, <1>3 DEF b

\* An administrator more.
LEMMA PromoteSound ==
  ASSUME NEW a, Sound(a), NEW u \in Users
  PROVE  LET b == [a EXCEPT !.admins = @ \cup {u}]
         IN /\ Sound(b) /\ b.user = a.user /\ b.sid = a.sid /\ b.room = a.room
            /\ b.name = a.name /\ b.reqs = a.reqs
<1> DEFINE b == [a EXCEPT !.admins = @ \cup {u}]
<1>0. a \in AppType
  BY DEF Sound
<1>1. a.admins \cup {u} \in SUBSET Keys
  BY <1>0, AppFields, Kinds
<1>2. /\ b \in AppType /\ b.user = a.user /\ b.sid = a.sid /\ b.room = a.room
      /\ b.name = a.name /\ b.admins = a.admins \cup {u} /\ b.members = a.members
      /\ b.store = a.store /\ b.made = a.made /\ b.reqs = a.reqs
  BY <1>0, <1>1 DEF AppType
<1> HIDE DEF b
<1>3. Sound(b)
  BY <1>2 DEF Sound, Owned, Housed, Known, Asked, Closed, Clean, Private
<1> QED
  BY <1>2, <1>3 DEF b

-----------------------------------------------------------------------------
(* Requests, labels and places.                                            *)

\* What a client may ask, in any scene.
LEMMA RequestKinds ==
  ASSUME TypeOK, NEW r \in Requests
  PROVE  /\ r \in ReqType
         /\ r.op = "join" => \E n \in Names : r.name = {n}
         /\ r.op = "promote" => r.user \in Users
<1> DEFINE Good(q) == /\ q \in ReqType
                      /\ q.op = "join" => \E n \in Names : q.name = {n}
                      /\ q.op = "promote" => q.user \in Users
<1>1. scene.users \subseteq Users /\ scene.names \subseteq Names /\ scene.kinds \subseteq Tables
  BY DEF TypeOK, Scenes
<1>2. NoReq \in ReqType
  BY Kinds DEF NoReq, ReqType
<1>3. \A op \in Opcodes : Plain(op) \in ReqType /\ Plain(op).op = op
  BY <1>2 DEF Plain, ReqType
<1> HIDE DEF NoReq
<1>4. \A op \in {"logout", "msg", "list"} : Good(Plain(op))
  BY <1>3 DEF Opcodes
<1>5. ASSUME NEW op \in {"promote", "disconnect", "file_send", "request", "respond"},
             NEW q \in Naming(op)
      PROVE  q.op = op /\ q \in ReqType /\ q.user \in Users
  <2>1. PICK u \in Users : q = [Plain(op) EXCEPT !.user = u]
    BY <1>1 DEF Naming
  <2>2. u \in Keys /\ op \in Opcodes
    BY Kinds DEF Opcodes
  <2> QED
    BY <1>3, <2>1, <2>2 DEF ReqType
<1>6. ASSUME NEW op \in {"join", "delete"}, NEW q \in Rooming(op)
      PROVE  Good(q)
  <2>1. PICK n \in Names : q = [Plain(op) EXCEPT !.name = {n}]
    BY <1>1 DEF Rooming
  <2>2. {n} \in RoomNames /\ op \in Opcodes
    BY DEF RoomNames, Opcodes
  <2>3. q \in ReqType /\ q.op = op /\ q.name = {n}
    BY <1>3, <2>1, <2>2 DEF ReqType
  <2> QED
    BY <2>3
<1>7. ASSUME NEW q \in PrivateDeletes PROVE Good(q)
  <2>1. PICK u \in scene.users, v \in scene.users : q = [Plain("delete") EXCEPT !.name = {u, v}]
    BY DEF PrivateDeletes
  <2>2. {u, v} \in RoomNames /\ "delete" \in Opcodes
    BY <1>1, Kinds DEF RoomNames, Opcodes
  <2>3. q \in ReqType /\ q.op = "delete"
    BY <1>3, <2>1, <2>2 DEF ReqType
  <2> QED
    BY <2>3
<1>8. ASSUME NEW op \in {"request", "respond"}, NEW p \in Tabled(op)
      PROVE  Good(p) /\ p \in ReqType /\ p.op = op
  <2>1. PICK q \in Naming(op), t \in scene.kinds : p = [q EXCEPT !.table = t]
    BY DEF Tabled
  <2>2. q \in ReqType /\ q.op = op /\ t \in Tables
    BY <1>1, <1>5
  <2> QED
    BY <2>1, <2>2 DEF ReqType
<1>9. ASSUME NEW p \in Accepts PROVE Good(p)
  <2>1. PICK q \in Tabled("respond") : p = [q EXCEPT !.accept = TRUE]
    BY DEF Accepts
  <2>2. q \in ReqType /\ q.op = "respond"
    BY <1>8
  <2> QED
    BY <2>1, <2>2 DEF ReqType
<1> HIDE DEF Good
<1>10. \A op \in {"promote", "disconnect", "file_send"} : \A q \in Naming(op) : Good(q)
  BY <1>5 DEF Good
<1>11. \/ r \in {Plain("logout"), Plain("msg"), Plain("list")}
       \/ r \in Rooming("join") \/ r \in Rooming("delete") \/ r \in PrivateDeletes
       \/ r \in Naming("promote") \/ r \in Naming("disconnect") \/ r \in Naming("file_send")
       \/ r \in Tabled("request") \/ r \in Tabled("respond") \/ r \in Accepts
  BY DEF Requests
<1>12. Good(r)
  BY <1>4, <1>6, <1>7, <1>8, <1>9, <1>10, <1>11
<1> QED
  BY <1>12 DEF Good

\* The names of a state's parts.
LEMMA Parts ==
  ASSUME TypeOK
  PROVE  /\ app \in AppType /\ pc \in [Clients -> Labels] /\ req \in [Clients -> ReqType]
         /\ relaying \in Clients \cup {NoClient} /\ broken \in BOOLEAN
         /\ granted \subseteq Users \X Users
         /\ \A c \in Clients :
              /\ req[c].op \in Opcodes \cup {"none"} /\ req[c].user \in Keys
              /\ req[c].name \in RoomNames /\ req[c].room \in RoomIds \cup {NoRoom}
              /\ req[c].table \in Tables /\ req[c].peer \in Clients \cup {NoClient}
              /\ DOMAIN req[c] = {"op", "user", "name", "room", "table", "accept", "peer"}
  BY DEF TypeOK, ReqType

\* A worker that has answered has no request, and is idle or has to close.
LEMMA Replied ==
  ASSUME TypeOK, Sensible, NEW c \in Clients, NEW ok, Reply(c, ok)
  PROVE  /\ pc' \in [Clients -> Labels] /\ req' \in [Clients -> ReqType] /\ Sensible'
         /\ pc'[c] \in {"idle", "close"} /\ (ok => pc'[c] = "idle") /\ req'[c] = NoReq
         /\ \A d \in Clients \ {c} : pc'[d] = pc[d] /\ req'[d] = req[d]
<1>1. NoReq \in ReqType /\ NoReq.op = "none"
  BY Kinds DEF NoReq, ReqType
<1>2. req' = [req EXCEPT ![c] = NoReq] /\ pc' = [pc EXCEPT ![c] = IF ok THEN "idle" ELSE "close"]
  BY DEF Reply, Goto
<1> HIDE DEF NoReq
<1>3. /\ pc' \in [Clients -> Labels] /\ req' \in [Clients -> ReqType]
      /\ pc'[c] \in {"idle", "close"} /\ (ok => pc'[c] = "idle") /\ req'[c] = NoReq
      /\ \A d \in Clients \ {c} : pc'[d] = pc[d] /\ req'[d] = req[d]
  BY <1>1, <1>2, Parts DEF Labels
<1>4. Sensible'
  <2>1. \A d \in Clients : req'[d] = req[d] \/ req'[d].op = "none"
    BY <1>1, <1>3
  <2> QED
    BY <2>1 DEF Sensible
<1> QED
  BY <1>3, <1>4

\* A worker that goes on to another stretch of the same request.
LEMMA Went ==
  ASSUME TypeOK, NEW c \in Clients, NEW label \in Labels, Goto(c, label)
  PROVE  /\ pc' \in [Clients -> Labels] /\ pc'[c] = label
         /\ \A d \in Clients \ {c} : pc'[d] = pc[d]
  BY Parts DEF Goto

\* The places say what they said as long as it is c's worker that moves, which is
\* about to destroy nobody; as long as no other session changes its name or its id;
\* and as long as only those enter a room that are logged in.
LEMMA PlacedKept ==
  ASSUME Placed, NEW c \in Clients, pc[c] # "kick",
         \A d \in Clients \ {c} :
           /\ pc'[d] = pc[d] /\ req'[d] = req[d]
           /\ app'.user[d] = app.user[d] /\ app'.sid[d] = app.sid[d]
           /\ app'.room[d] \in {app.room[d], NoRoom} \/ app.sid[d] # 0,
         pc'[c] = "login" => app'.sid[c] = 0 /\ app'.room[c] = NoRoom /\ app'.user[c] \in Users,
         pc'[c] # "off",
         pc'[c] = "lock" /\ app'.sid[c] = 0 => app'.user[c] = NoUser /\ Kicked(c),
         app'.room[c] # NoRoom /\ app'.sid[c] = 0 => Kicked(c)
  PROVE  Placed'
<1>1. \A d \in Clients : Kicked(d) => Kicked(d)'
  BY DEF Kicked
<1>2. ASSUME NEW d \in Clients, d # c
      PROVE  /\ pc'[d] = "login" => app'.sid[d] = 0 /\ app'.room[d] = NoRoom /\ app'.user[d] \in Users
             /\ pc'[d] = "off" => app'.sid[d] = 0
             /\ pc'[d] = "lock" /\ app'.sid[d] = 0 => app'.user[d] = NoUser /\ Kicked(d)
             /\ app'.room[d] # NoRoom /\ app'.sid[d] = 0 => Kicked(d)
  <2>1. /\ pc'[d] = pc[d] /\ app'.user[d] = app.user[d] /\ app'.sid[d] = app.sid[d]
        /\ app'.room[d] = app.room[d] \/ app'.room[d] = NoRoom \/ app.sid[d] # 0
    BY <1>2
  <2> QED
    BY <2>1 DEF Placed
<1> QED
  BY <1>1, <1>2 DEF Placed

-----------------------------------------------------------------------------
(* The actions.                                                            *)

\* The types of a step that changes nothing behind the lock.
LEMMA SameApp ==
  ASSUME IInv, UNCHANGED <<app, scene>>, pc' \in [Clients -> Labels], req' \in [Clients -> ReqType],
         relaying' \in Clients \cup {NoClient}, broken' \in BOOLEAN, granted' \subseteq granted
  PROVE  TypeOK' /\ Sound(app)' /\ NoneAsked(app, app')
<1>1. TypeOK /\ Sound(app)
  BY DEF IInv
<1>2. granted' \subseteq Users \X Users
  BY <1>1 DEF TypeOK
<1>3. TypeOK'
  BY <1>1, <1>2 DEF TypeOK
<1>4. Sound(app)'
  BY <1>1 DEF Sound, Owned, Housed, Known, Asked, Closed, Clean, Private
<1>5. NoneAsked(app, app')
  BY DEF NoneAsked
<1> QED
  BY <1>3, <1>4, <1>5

\* What goes on outside the lock, or does not change what is behind it.
OutStep(c) ==
  \/ Connect(c) \/ HangUp(c) \/ (\E r \in Requests : Begin(c, r)) \/ LoginInvalid(c)
  \/ MsgSend(c) \/ List(c) \/ NothingToAnswer(c)
  \/ FileSend(c) \/ FileLock(c) \/ \E ok \in BOOLEAN : FileRelay(c, ok)

\* Such a step changes nothing behind the lock, and no request.
LEMMA OutInv ==
  ASSUME IInv, UNCHANGED scene, NEW c \in Clients, OutStep(c)
  PROVE  IInv' /\ NoneAsked(app, app') /\ app' = app
<1>0. TypeOK /\ Sound(app) /\ Placed /\ Sensible
  BY DEF IInv
<1>1. UNCHANGED <<app, granted>>
  BY DEF OutStep, Connect, HangUp, Begin, LoginInvalid, MsgSend, List, NothingToAnswer,
         FileSend, FileLock, FileRelay
<1>2. relaying' \in Clients \cup {NoClient} /\ broken' \in BOOLEAN
  <2>1. relaying \in Clients \cup {NoClient} /\ broken \in BOOLEAN
    BY <1>0, Parts
  <2> QED
    BY <2>1 DEF OutStep, Connect, HangUp, Begin, LoginInvalid, MsgSend, List, NothingToAnswer,
         FileSend, FileLock, FileRelay
<1> DEFINE Moves ==
      /\ pc' \in [Clients -> Labels] /\ req' \in [Clients -> ReqType] /\ Sensible'
      /\ pc[c] # "kick" /\ pc'[c] # "login" /\ pc'[c] # "off"
      /\ pc'[c] = "lock" => app.sid[c] # 0
      /\ \A d \in Clients \ {c} : pc'[d] = pc[d] /\ req'[d] = req[d]
<1>3. req \in [Clients -> ReqType]
  BY <1>0, Parts
<1>4. ASSUME Connect(c) \/ HangUp(c) \/ LoginInvalid(c) \/ FileLock(c) PROVE Moves
  <2>1. /\ \E label \in {"idle", "close", "relay"} : Goto(c, label)
        /\ req' = req /\ pc[c] # "kick"
    BY <1>4 DEF Connect, HangUp, LoginInvalid, FileLock
  <2>2. /\ pc' \in [Clients -> Labels] /\ pc'[c] \in {"idle", "close", "relay"}
        /\ \A d \in Clients \ {c} : pc'[d] = pc[d]
    BY <1>0, <2>1, Went DEF Labels
  <2> QED
    BY <1>0, <1>3, <2>1, <2>2 DEF Sensible
<1>5. ASSUME NEW r \in Requests, Begin(c, r) PROVE Moves
  <2>1. /\ req' = [req EXCEPT ![c] = [r EXCEPT !.room = app.room[c]]] /\ Goto(c, "lock")
        /\ pc[c] = "idle" /\ app.sid[c] # 0
    BY <1>5 DEF Begin
  <2>2. /\ r \in ReqType
        /\ r.op = "join" => \E n \in Names : r.name = {n}
        /\ r.op = "promote" => r.user \in Users
    BY <1>0, RequestKinds
  <2> DEFINE q == [r EXCEPT !.room = app.room[c]]
  <2>3. q \in ReqType /\ q.op = r.op /\ q.name = r.name /\ q.user = r.user
    <3>1. app.room[c] \in RoomIds \cup {NoRoom}
      BY <1>0, AppFields, Parts
    <3> QED
      BY <2>2, <3>1 DEF ReqType
  <2> HIDE DEF q
  <2>4. /\ req' \in [Clients -> ReqType] /\ req'[c] = q
        /\ \A d \in Clients \ {c} : req'[d] = req[d]
    BY <1>3, <2>1, <2>3 DEF q
  <2>5. Sensible'
    BY <1>0, <2>2, <2>3, <2>4 DEF Sensible
  <2>6. /\ pc' \in [Clients -> Labels] /\ pc'[c] = "lock" /\ \A d \in Clients \ {c} : pc'[d] = pc[d]
    BY <1>0, <2>1, Went DEF Labels
  <2> QED
    BY <2>1, <2>4, <2>5, <2>6
<1>6. ASSUME Reply(c, TRUE) \/ Reply(c, FALSE), pc[c] # "kick" PROVE Moves
  BY <1>0, <1>6, Replied
<1>7. ASSUME NEW label \in {"filelock", "clear"}, NEW t \in Clients \cup {NoClient},
             Goto(c, label), req' = [req EXCEPT ![c].peer = t], pc[c] # "kick"
      PROVE  Moves
  <2>1. pc' \in [Clients -> Labels] /\ pc'[c] = label /\ \A d \in Clients \ {c} : pc'[d] = pc[d]
    BY <1>0, <1>7, Went DEF Labels
  <2>2. [req[c] EXCEPT !.peer = t] \in ReqType
    BY <1>3 DEF ReqType
  <2>3. /\ req' \in [Clients -> ReqType] /\ req'[c] = [req[c] EXCEPT !.peer = t]
        /\ \A d \in Clients \ {c} : req'[d] = req[d]
    BY <1>3, <1>7, <2>2
  <2>4. req'[c].op = req[c].op /\ req'[c].name = req[c].name /\ req'[c].user = req[c].user
    BY <1>3, <2>3 DEF ReqType
  <2> QED
    BY <1>0, <1>7, <2>1, <2>3, <2>4 DEF Sensible
<1>8. ASSUME MsgSend(c) \/ List(c) \/ NothingToAnswer(c) PROVE Moves
  BY <1>6, <1>8 DEF MsgSend, List, NothingToAnswer, Serving
<1>9. ASSUME FileSend(c) PROVE Moves
  <2>1. app.store[req[c].user] \in Clients \cup {NoClient}
    BY <1>0, AppFields, Parts
  <2> QED
    BY <1>6, <1>7, <1>9, <2>1 DEF FileSend, Serving
<1>10. ASSUME NEW ok \in BOOLEAN, FileRelay(c, ok) PROVE Moves
  <2>1. CASE ok
    <3>1. Goto(c, "clear") /\ req' = req /\ pc[c] # "kick"
      BY <1>10, <2>1 DEF FileRelay
    <3>2. pc' \in [Clients -> Labels] /\ pc'[c] = "clear" /\ \A d \in Clients \ {c} : pc'[d] = pc[d]
      BY <1>0, <3>1, Went DEF Labels
    <3> QED
      BY <1>0, <1>3, <3>1, <3>2 DEF Sensible
  <2>2. CASE ~ok
    BY <1>6, <1>10, <2>2 DEF FileRelay
  <2> QED
    BY <2>1, <2>2
<1>11. Moves
  BY <1>4, <1>5, <1>8, <1>9, <1>10 DEF OutStep
<1>12. Placed'
  <2>1. app.room[c] # NoRoom /\ app.sid[c] = 0 => Kicked(c)
    BY <1>0 DEF Placed
  <2> QED
    BY <1>0, <1>1, <1>11, <2>1, PlacedKept
<1>13. TypeOK' /\ Sound(app)' /\ NoneAsked(app, app')
  BY <1>1, <1>2, <1>11, SameApp
<1> QED
  BY <1>1, <1>11, <1>12, <1>13 DEF IInv

\* The types of a step that leaves the data behind the lock sound.
LEMMA NewApp ==
  ASSUME TypeOK, UNCHANGED scene, Sound(app'),
         pc' \in [Clients -> Labels], req' \in [Clients -> ReqType],
         relaying' = relaying, broken' \in BOOLEAN, granted' \subseteq Users \X Users
  PROVE  TypeOK'
<1>1. app' \in AppType
  BY DEF Sound
<1> QED
  BY <1>1 DEF TypeOK

\* No grant is new when a session ends.
LEMMA FewerGrants ==
  ASSUME TypeOK, NEW c \in Clients
  PROVE  GrantsWithout(c) \subseteq granted /\ granted \subseteq Users \X Users
  BY DEF TypeOK, GrantsWithout

\* A login begins: the session of before is gone, and a name is there without an id.
LEMMA LoginBeginInv ==
  ASSUME IInv, UNCHANGED scene, NEW c \in Clients, NEW u \in scene.users, LoginBegin(c, u)
  PROVE  IInv' /\ Mild(c)
<1> DEFINE a == UserLogout(app, c)
<1>0. TypeOK /\ Sound(app) /\ Placed /\ Sensible /\ app \in AppType /\ req \in [Clients -> ReqType]
  BY Parts DEF IInv
<1>1. u \in Users /\ u \in Keys
  BY <1>0, Kinds DEF TypeOK, Scenes
<1>2. /\ Sound(a) /\ NoneAsked(app, a)
      /\ a.user = [app.user EXCEPT ![c] = NoUser] /\ a.sid = [app.sid EXCEPT ![c] = 0]
      /\ a.room[c] = NoRoom /\ \A d \in Clients \ {c} : a.room[d] = app.room[d]
      /\ a.name = app.name /\ a.admins = app.admins
  BY <1>0, LogoutSound
<1> HIDE DEF a
<1>3. app' = [a EXCEPT !.user[c] = u]
  BY DEF LoginBegin, a
<1>4. a.sid[c] = 0 /\ \A d \in Clients \ {c} : a.sid[d] = app.sid[d] /\ a.user[d] = app.user[d]
  BY <1>0, <1>2, AppFields
<1> DEFINE b == [a EXCEPT !.user[c] = u]
<1>a. /\ Sound(b) /\ NoneAsked(a, b) /\ b.user = [a.user EXCEPT ![c] = u]
      /\ b.sid = a.sid /\ b.room = a.room /\ b.name = a.name /\ b.admins = a.admins
  <2>1. Sound(a) /\ a.sid[c] = 0 /\ a.room[c] = NoRoom /\ u \in Keys
    BY <1>1, <1>2, <1>4
  <2> QED
    BY <2>1, NameSound
<1>b. app' = b
  BY <1>3
<1> HIDE DEF b
<1>5. /\ Sound(app') /\ NoneAsked(a, app') /\ app'.user = [a.user EXCEPT ![c] = u]
      /\ app'.sid = a.sid /\ app'.room = a.room
      /\ app'.name = a.name /\ app'.admins = a.admins
  BY <1>a, <1>b
<1>6. app'.user[c] = u /\ \A d \in Clients \ {c} : app'.user[d] = app.user[d]
  <2>1. a.user \in [Clients -> Keys]
    BY <1>2, AppFields DEF Sound
  <2> QED
    BY <1>4, <1>5, <2>1
<1>7. /\ pc' \in [Clients -> Labels] /\ pc'[c] = "login"
      /\ \A d \in Clients \ {c} : pc'[d] = pc[d]
      /\ UNCHANGED <<req, relaying, broken>> /\ granted' = GrantsWithout(c) /\ pc[c] = "idle"
  BY <1>0, Went DEF LoginBegin, Labels
<1>8. TypeOK'
  <2>1. granted' \subseteq Users \X Users /\ broken' \in BOOLEAN
    BY <1>0, <1>7, FewerGrants, Parts
  <2> QED
    BY <1>0, <1>5, <1>7, <2>1, NewApp
<1>9. Placed'
  BY <1>0, <1>1, <1>2, <1>4, <1>5, <1>6, <1>7, PlacedKept
<1>10. Sensible' /\ Mild(c)
  <2>1. Sensible' /\ NoneRemoved(app, app') /\ OthersStay(c)
    BY <1>0, <1>2, <1>4, <1>5, <1>7 DEF Sensible, NoneRemoved, OthersStay
  <2> QED
    BY <1>2, <1>5, <2>1 DEF NoneAsked, Mild
<1>11. Sound(app)'
  BY <1>5 DEF Sound, Owned, Housed, Known, Asked, Closed, Clean, Private
<1> QED
  BY <1>8, <1>9, <1>10, <1>11 DEF IInv

\* A login ends, well or not.
LEMMA LoginTryInv ==
  ASSUME IInv, NoWrap, UNCHANGED scene, NEW c \in Clients, NEW right \in BOOLEAN, LoginTry(c, right)
  PROVE  IInv' /\ Mild(c)
<1>0. /\ TypeOK /\ Sound(app) /\ Placed /\ Sensible /\ app \in AppType
      /\ req \in [Clients -> ReqType] /\ pc[c] = "login"
  BY Parts DEF IInv, LoginTry
<1>1. app.sid[c] = 0 /\ app.room[c] = NoRoom /\ app.user[c] \in Users
  BY <1>0 DEF Placed
<1>2. /\ Sound(app') /\ NoneAsked(app, app') /\ app'.user = app.user
      /\ app'.sid = app.sid \/ app'.sid = [app.sid EXCEPT ![c] = app.next]
      /\ app'.room = app.room /\ app'.name = app.name /\ app'.admins = app.admins
  <2>1. app' = UserLogin(app, c, right)
    BY DEF LoginTry
  <2> QED
    BY <1>0, <1>1, <2>1, LoginSound DEF NoWrap
<1>3. \A d \in Clients \ {c} : app'.sid[d] = app.sid[d]
  BY <1>0, <1>2, AppFields
<1>4. /\ pc' \in [Clients -> Labels] /\ pc'[c] = "idle"
      /\ \A d \in Clients \ {c} : pc'[d] = pc[d]
      /\ UNCHANGED <<req, relaying, broken, granted>>
  BY <1>0, Went DEF LoginTry, Labels
<1>5. TypeOK'
  <2>1. granted \subseteq Users \X Users /\ broken \in BOOLEAN
    BY <1>0, Parts
  <2> QED
    BY <1>0, <1>2, <1>4, <2>1, NewApp
<1>6. Placed'
  BY <1>0, <1>1, <1>2, <1>3, <1>4, PlacedKept
<1>7. Sensible' /\ Sound(app)'
  BY <1>0, <1>2, <1>4 DEF Sensible, Sound, Owned, Housed, Known, Asked, Closed, Clean, Private
<1>8. Mild(c)
  BY <1>2, <1>3 DEF Mild, NoneRemoved, OthersStay
<1> QED
  BY <1>5, <1>6, <1>7, <1>8 DEF IInv

\* The worker ends its own session and answers.
LEMMA LogoutInv ==
  ASSUME IInv, UNCHANGED scene, NEW c \in Clients, Logout(c)
  PROVE  IInv' /\ Mild(c)
<1>0. TypeOK /\ Sound(app) /\ Placed /\ Sensible /\ app \in AppType
  BY Parts DEF IInv
<1> DEFINE b == UserLogout(app, c)
<1>a. /\ Sound(b) /\ NoneAsked(app, b)
      /\ b.user = [app.user EXCEPT ![c] = NoUser] /\ b.sid = [app.sid EXCEPT ![c] = 0]
      /\ b.room[c] = NoRoom /\ \A d \in Clients \ {c} : b.room[d] = app.room[d]
      /\ b.name = app.name /\ b.admins = app.admins
  BY <1>0, LogoutSound
<1>b. app' = b
  BY DEF Logout
<1> HIDE DEF b
<1>1. /\ Sound(app') /\ NoneAsked(app, app')
      /\ app'.user = [app.user EXCEPT ![c] = NoUser] /\ app'.sid = [app.sid EXCEPT ![c] = 0]
      /\ app'.room[c] = NoRoom /\ \A d \in Clients \ {c} : app'.room[d] = app.room[d]
      /\ app'.name = app.name /\ app'.admins = app.admins
  BY <1>a, <1>b
<1>2. \A d \in Clients \ {c} : app'.sid[d] = app.sid[d] /\ app'.user[d] = app.user[d]
  BY <1>0, <1>1, AppFields
<1>3. Reply(c, TRUE) /\ UNCHANGED <<relaying, broken>> /\ granted' = GrantsWithout(c) /\ pc[c] = "lock"
  BY DEF Logout, Serving
<1>4. /\ pc' \in [Clients -> Labels] /\ req' \in [Clients -> ReqType] /\ Sensible'
      /\ pc'[c] = "idle" /\ \A d \in Clients \ {c} : pc'[d] = pc[d] /\ req'[d] = req[d]
  BY <1>0, <1>3, Replied
<1>5. TypeOK'
  <2>1. granted' \subseteq Users \X Users /\ broken' \in BOOLEAN
    BY <1>0, <1>3, FewerGrants, Parts
  <2> QED
    BY <1>0, <1>1, <1>3, <1>4, <2>1, NewApp
<1>6. Placed'
  BY <1>0, <1>1, <1>2, <1>3, <1>4, PlacedKept
<1>7. Sound(app)'
  BY <1>1 DEF Sound, Owned, Housed, Known, Asked, Closed, Clean, Private
<1>8. Mild(c)
  BY <1>1, <1>2 DEF Mild, NoneRemoved, OthersStay
<1> QED
  BY <1>4, <1>5, <1>6, <1>7, <1>8 DEF IInv

\* What a request does under the lock keeps the invariant when it leaves the data sound
\* and the names and ids of the sessions alone, and lets only those into a room that
\* are logged in, or the worker's own session if that has been kicked.
LEMMA ServedInv ==
  ASSUME IInv, UNCHANGED <<scene, relaying>>, NEW c \in Clients, pc[c] # "kick",
         NEW ok, Reply(c, ok), broken' \in BOOLEAN, granted' \subseteq Users \X Users,
         Sound(app'), app'.user = app.user, app'.sid = app.sid,
         \A d \in Clients : \/ app'.room[d] \in {app.room[d], NoRoom} \/ app.sid[d] # 0
                            \/ d = c /\ Kicked(c)
  PROVE  IInv'
<1>0. TypeOK /\ Sound(app) /\ Placed /\ Sensible
  BY DEF IInv
<1>1. /\ pc' \in [Clients -> Labels] /\ req' \in [Clients -> ReqType] /\ Sensible'
      /\ pc'[c] \in {"idle", "close"}
      /\ \A d \in Clients \ {c} : pc'[d] = pc[d] /\ req'[d] = req[d]
  BY <1>0, Replied
<1>2. TypeOK'
  BY <1>0, <1>1, NewApp
<1>3. Placed'
  <2>1. app'.room[c] # NoRoom /\ app'.sid[c] = 0 => Kicked(c)
    BY <1>0 DEF Placed
  <2> QED
    BY <1>0, <1>1, <2>1, PlacedKept
<1>4. Sound(app)'
  BY DEF Sound, Owned, Housed, Known, Asked, Closed, Clean, Private
<1> QED
  BY <1>1, <1>2, <1>3, <1>4 DEF IInv

\* A user joins a public room, which may have to be made first.
LEMMA JoinInv ==
  ASSUME IInv, UNCHANGED scene, NEW c \in Clients, Join(c)
  PROVE  IInv' /\ Mild(c)
<1> DEFINE n   == req[c].name
           old == Find(app, n)
           a   == IF old = {} THEN RoomCreate(app, n) ELSE app
           r   == IF old = {} THEN a.made ELSE CHOOSE s \in old : TRUE
           b   == Enter(a, c, r)
<1>0. /\ TypeOK /\ Sound(app) /\ Placed /\ Sensible /\ app \in AppType
      /\ granted \subseteq Users \X Users /\ broken \in BOOLEAN
  BY Parts DEF IInv
<1>1. /\ pc[c] = "lock" /\ req[c].op = "join" /\ UNCHANGED <<relaying, broken, granted>>
      /\ \E ok : Reply(c, ok)
  BY DEF Join, Serving
<1>2. app' = app \/ (app' = b /\ ~(old = {} /\ ~RoomLeft(app)))
  BY DEF Join
<1>3. n # NoName /\ n \in RoomNames /\ n \cap Keys = {}
  <2>1. PICK m \in Names : n = {m}
    BY <1>0, <1>1 DEF Sensible
  <2> QED
    BY <2>1, Kinds DEF NoName, RoomNames
<1>4. app.sid[c] # 0 \/ (app.user[c] = NoUser /\ Kicked(c))
  BY <1>0, <1>1 DEF Placed
<1> HIDE DEF n
<1>5. ASSUME ~(old = {} /\ ~RoomLeft(app))
      PROVE  /\ Sound(a) /\ NoneAsked(app, a) /\ NoneRemoved(app, a)
             /\ r \in RoomIds /\ a.name[r] = n
             /\ a.user = app.user /\ a.sid = app.sid /\ a.room = app.room
  <2>1. CASE old = {}
    <3> DEFINE k == RoomCreate(app, n)
    <3>1. /\ Sound(k) /\ NoneAsked(app, k) /\ k.made = app.made + 1 /\ k.made \in RoomIds
          /\ k.name = [app.name EXCEPT ![app.made + 1] = n]
          /\ k.user = app.user /\ k.sid = app.sid /\ k.room = app.room
          /\ k.admins = app.admins
      BY <1>0, <1>3, <1>5, <2>1, CreateSound
    <3>2. a = k /\ r = k.made
      BY <2>1
    <3> HIDE DEF k, a, r
    <3>3. a.name[r] = n /\ \A q \in RoomIds \ {r} : a.name[q] = app.name[q]
      <4>1. app.name \in [RoomIds -> RoomNames]
        BY <1>0, AppFields
      <4> QED
        BY <3>1, <3>2, <4>1
    <3>4. NoneRemoved(app, a)
      BY <1>3, <3>1, <3>2, <3>3 DEF NoneRemoved
    <3> QED
      BY <3>1, <3>2, <3>3, <3>4
  <2>2. CASE old # {}
    <3>1. r \in old /\ a = app
      BY <2>2
    <3>2. r \in RoomIds /\ app.name[r] = n
      BY <3>1 DEF Find, Live
    <3> QED
      BY <1>0, <3>1, <3>2 DEF NoneAsked, NoneRemoved
  <2> QED
    BY <2>1, <2>2
<1> HIDE DEF a, r, old
<1>6. ASSUME app' = b, ~(old = {} /\ ~RoomLeft(app))
      PROVE  /\ Sound(app') /\ NoneAsked(app, app') /\ NoneRemoved(app, app')
             /\ app'.user = app.user /\ app'.sid = app.sid
             /\ \A d \in Clients : app'.room[d] = IF d = c THEN r ELSE app.room[d]
  <2>1. /\ Sound(a) /\ r \in RoomIds /\ a.name[r] # NoName /\ (a.sid[c] # 0 \/ a.user[c] = NoUser)
        /\ ~Private(a, r)
    BY <1>3, <1>4, <1>5, <1>6 DEF Private
  <2>2. /\ Sound(b) /\ NoneAsked(a, b) /\ b.user = a.user /\ b.sid = a.sid
        /\ b.name = a.name /\ b.admins = a.admins
        /\ \A d \in Clients : b.room[d] = IF d = c THEN r ELSE a.room[d]
    BY <2>1, EnterSound
  <2> HIDE DEF b
  <2> QED
    BY <1>5, <1>6, <2>2 DEF NoneAsked, NoneRemoved
<1> HIDE DEF b
<1>7. /\ Sound(app') /\ NoneAsked(app, app') /\ NoneRemoved(app, app')
      /\ app'.user = app.user /\ app'.sid = app.sid
      /\ \A d \in Clients : d # c => app'.room[d] = app.room[d]
  BY <1>0, <1>2, <1>6 DEF NoneAsked, NoneRemoved
<1>8. app'.room[c] = app.room[c] \/ app.sid[c] # 0 \/ Kicked(c)
  BY <1>4
<1>9. IInv'
  BY <1>0, <1>1, <1>7, <1>8, ServedInv
<1> QED
  BY <1>7, <1>9 DEF Mild, OthersStay

\* An administrator makes a user one.
LEMMA PromoteInv ==
  ASSUME IInv, UNCHANGED scene, NEW c \in Clients, Promote(c)
  PROVE  IInv' /\ NoneAsked(app, app') /\ OthersStay(c)
<1> DEFINE b == [app EXCEPT !.admins = @ \cup {req[c].user}]
<1>0. /\ TypeOK /\ Sound(app) /\ Sensible
      /\ granted \subseteq Users \X Users /\ broken \in BOOLEAN
  BY Parts DEF IInv
<1>1. /\ pc[c] = "lock" /\ req[c].op = "promote" /\ UNCHANGED <<relaying, broken, granted>>
      /\ Reply(c, TRUE) /\ (app' = b \/ app' = app)
  BY DEF Promote, Serving
<1>2. req[c].user \in Users
  BY <1>0, <1>1 DEF Sensible
<1>3. Sound(b) /\ b.user = app.user /\ b.sid = app.sid /\ b.room = app.room /\ b.reqs = app.reqs
  BY <1>0, <1>2, PromoteSound
<1> HIDE DEF b
<1>4. /\ Sound(app') /\ app'.user = app.user /\ app'.sid = app.sid /\ app'.room = app.room
      /\ app'.reqs = app.reqs
  BY <1>0, <1>1, <1>3
<1>5. IInv'
  BY <1>0, <1>1, <1>4, ServedInv
<1> QED
  BY <1>4, <1>5 DEF NoneAsked, OthersStay

\* An administrator deletes a room.
LEMMA DeleteInv ==
  ASSUME IInv, UNCHANGED scene, NEW c \in Clients, Delete(c)
  PROVE  IInv' /\ NoneAsked(app, app') /\ OthersStay(c)
<1>0. TypeOK /\ Sound(app) /\ granted \subseteq Users \X Users /\ broken \in BOOLEAN
  BY Parts DEF IInv
<1>1. pc[c] = "lock" /\ UNCHANGED <<relaying, broken, granted>> /\ Reply(c, TRUE)
  BY DEF Delete, Serving
<1>2. \/ app' = app
      \/ \E r \in RoomIds : app' = [LeaveAll(app, app.members[r]) EXCEPT !.name[r] = NoName]
  BY DEF Delete, Find, Live
<1>3. /\ Sound(app') /\ NoneAsked(app, app') /\ app'.user = app.user /\ app'.sid = app.sid
      /\ \A d \in Clients : app'.room[d] \in {app.room[d], NoRoom}
  <2>1. CASE app' = app
    BY <1>0, <2>1 DEF NoneAsked
  <2>2. ASSUME NEW r \in RoomIds,
               app' = [LeaveAll(app, app.members[r]) EXCEPT !.name[r] = NoName]
        PROVE  <1>3!:
    <3> DEFINE b == [LeaveAll(app, app.members[r]) EXCEPT !.name[r] = NoName]
    <3>1. /\ Sound(b) /\ NoneAsked(app, b) /\ b.user = app.user /\ b.sid = app.sid
          /\ \A d \in Clients : b.room[d] \in {app.room[d], NoRoom}
      BY <1>0, DeleteSound
    <3>2. app' = b
      BY <2>2
    <3> HIDE DEF b
    <3> QED
      BY <3>1, <3>2
  <2> QED
    BY <1>2, <2>1, <2>2
<1>4. IInv'
  BY <1>0, <1>1, <1>3, ServedInv
<1> QED
  BY <1>3, <1>4 DEF OthersStay

\* Whom the store has for a name is logged in under it, and the name is a user's.
LEMMA StoreNames ==
  ASSUME NEW a, Sound(a), NEW u \in Keys, a.store[u] # NoClient
  PROVE  /\ a.store[u] \in Clients /\ a.user[a.store[u]] = u /\ a.sid[a.store[u]] # 0
         /\ u \in Users
<1>1. a \in AppType /\ Owned(a)
  BY DEF Sound
<1>2. a.store[u] \in Clients
  BY <1>1, AppFields
<1> QED
  BY <1>1, <1>2 DEF Owned

\* A request replaces an entry where no user's is pending.
LEMMA RequestInv ==
  ASSUME IInv, UNCHANGED scene, NEW c \in Clients, Request(c)
  PROVE  /\ IInv' /\ NoneRemoved(app, app') /\ OthersStay(c)
         /\ \A t \in Tables, u \in Keys :
              Pending(app, t, u) => app'.reqs[t][u] = app.reqs[t][u]
<1> DEFINE t == req[c].table
           s == app.store[req[c].user]
           b == [app EXCEPT !.reqs[t][app.user[s]] = app.user[c]]
<1>0. /\ TypeOK /\ Sound(app) /\ app \in AppType /\ granted \subseteq Users \X Users
      /\ broken \in BOOLEAN /\ t \in Tables /\ req[c].user \in Keys
  BY Parts DEF IInv
<1>1. pc[c] = "lock" /\ UNCHANGED <<relaying, broken, granted>> /\ Reply(c, TRUE)
  BY DEF Request, Serving
<1>2. \/ app' = app
      \/ app' = b /\ s # NoClient /\ ~Pending(app, t, app.user[s])
  BY DEF Request
<1>3. ASSUME app' = b, s # NoClient, ~Pending(app, t, app.user[s])
      PROVE  /\ Sound(app') /\ app'.user = app.user /\ app'.sid = app.sid
             /\ app'.room = app.room /\ app'.name = app.name /\ app'.admins = app.admins
             /\ \A q \in Tables, u \in Keys :
                  Pending(app, q, u) => app'.reqs[q][u] = app.reqs[q][u]
  <2>1. app.user[s] \in Users /\ app.user[s] \in Keys /\ app.user[c] \in Keys
    BY <1>0, <1>3, StoreNames, AppFields
  <2> HIDE DEF s, t
  <2>2. app.user[s] # NoUser
    BY <2>1, Kinds
  <2>3. /\ Sound(b) /\ b.user = app.user /\ b.sid = app.sid /\ b.room = app.room
        /\ b.name = app.name /\ b.admins = app.admins
        /\ \A q \in Tables, w \in Keys :
             b.reqs[q][w] = IF q = t /\ w = app.user[s] THEN app.user[c] ELSE app.reqs[q][w]
    BY <1>0, <2>1, <2>2, EntrySound
  <2> HIDE DEF b
  <2> QED
    BY <1>3, <2>3
<1> HIDE DEF s, t, b
<1>4. /\ Sound(app') /\ app'.user = app.user /\ app'.sid = app.sid
      /\ app'.room = app.room /\ app'.name = app.name /\ app'.admins = app.admins
      /\ \A q \in Tables, u \in Keys :
           Pending(app, q, u) => app'.reqs[q][u] = app.reqs[q][u]
  BY <1>0, <1>2, <1>3
<1>5. IInv'
  BY <1>0, <1>1, <1>4, ServedInv
<1> QED
  BY <1>4, <1>5 DEF NoneRemoved, OthersStay

\* Answering a request empties its entry.
LEMMA DeclineInv ==
  ASSUME IInv, UNCHANGED scene, NEW c \in Clients, Decline(c)
  PROVE  IInv' /\ Mild(c)
<1> DEFINE t == req[c].table
           u == app.user[c]
           b == [app EXCEPT !.reqs[t][u] = NoUser]
<1>0. /\ TypeOK /\ Sound(app) /\ app \in AppType /\ granted \subseteq Users \X Users
      /\ broken \in BOOLEAN /\ t \in Tables /\ u \in Keys
  BY Parts, AppFields DEF IInv
<1>1. pc[c] = "lock" /\ UNCHANGED <<relaying, broken, granted>> /\ Reply(c, TRUE)
  BY DEF Decline, Serving
<1>2. app' = b
  BY DEF Decline
<1> HIDE DEF t, u
<1>3. /\ Sound(b) /\ b.user = app.user /\ b.sid = app.sid /\ b.room = app.room
      /\ b.name = app.name /\ b.admins = app.admins
      /\ \A q \in Tables, w \in Keys :
           b.reqs[q][w] = IF q = t /\ w = u THEN NoUser ELSE app.reqs[q][w]
  BY <1>0, EntrySound, Kinds
<1> HIDE DEF b
<1>4. /\ Sound(app') /\ NoneAsked(app, app') /\ app'.user = app.user /\ app'.sid = app.sid
      /\ app'.room = app.room /\ app'.name = app.name /\ app'.admins = app.admins
  BY <1>2, <1>3, Kinds DEF NoneAsked
<1>5. IInv'
  BY <1>0, <1>1, <1>4, ServedInv
<1> QED
  BY <1>4, <1>5 DEF Mild, NoneRemoved, OthersStay

\* A user accepts the file or the private conversation another one has asked for.
LEMMA AcceptInv ==
  ASSUME IInv, UNCHANGED scene, NEW c \in Clients, Accept(c)
  PROVE  IInv' /\ Mild(c)
<1> DEFINE t == req[c].table
           u == app.user[c]
           s == app.store[req[c].user]
           clear(a) == [a EXCEPT !.reqs[t][u] = NoUser]
           Kept(a) == /\ Sound(a) /\ NoneAsked(app, a) /\ NoneRemoved(app, a)
                      /\ a.user = app.user /\ a.sid = app.sid
                      /\ \A d \in Clients : a.room[d] = app.room[d] \/ app.sid[d] # 0
<1>0. /\ TypeOK /\ Sound(app) /\ app \in AppType /\ granted \subseteq Users \X Users
      /\ broken \in BOOLEAN /\ t \in Tables /\ u \in Keys /\ req[c].user \in Keys
  BY Parts, AppFields DEF IInv
<1>1. pc[c] = "lock" /\ UNCHANGED <<relaying, broken>> /\ Answers(c)
  BY DEF Accept, Serving
<1>2. /\ s \in Clients /\ app.sid[s] # 0 /\ app.user[s] \in Users /\ app.user[s] \in Keys
  BY <1>0, <1>1, StoreNames, Kinds DEF Answers
<1>3. u \in Users
  <2>1. app.reqs[t][u] \in Users
    BY <1>1 DEF Answers
  <2>2. app.reqs[t][NoUser] \notin Users
    BY <1>0 DEF Sound, Clean
  <2> QED
    BY <1>0, <2>1, <2>2 DEF Keys
<1> HIDE DEF t, u, s
<1>4. ASSUME NEW a, Kept(a)
      PROVE  Kept(clear(a))
  <2> DEFINE b == clear(a)
  <2>1. /\ Sound(b) /\ b.user = a.user /\ b.sid = a.sid /\ b.room = a.room
        /\ b.name = a.name /\ b.admins = a.admins
        /\ \A q \in Tables, w \in Keys :
             b.reqs[q][w] = IF q = t /\ w = u THEN NoUser ELSE a.reqs[q][w]
    BY <1>0, <1>4, EntrySound, Kinds
  <2> HIDE DEF b
  <2>2. Kept(b)
    BY <1>4, <2>1, Kinds DEF NoneAsked, NoneRemoved
  <2> QED
    BY <2>2 DEF b
<1>5. Kept(app)
  BY <1>0 DEF NoneAsked, NoneRemoved
<1>6. CASE req[c].table = "file"
  <2> DEFINE a == [app EXCEPT !.allow[c] = app.user[s]]
  <2>1. /\ app' = clear(a) /\ Reply(c, TRUE)
        /\ granted' = {g \in granted : g[1] # u} \cup {<<u, app.user[s]>>}
    BY <1>6 DEF Accept, t, u, s
  <2>2. /\ Sound(a) /\ a.user = app.user /\ a.sid = app.sid /\ a.room = app.room
        /\ a.reqs = app.reqs /\ a.name = app.name /\ a.admins = app.admins
    BY <1>0, <1>2, AllowSound
  <2> HIDE DEF a, clear
  <2>3. Kept(a)
    BY <2>2 DEF NoneAsked, NoneRemoved
  <2>4. Kept(app')
    BY <1>4, <2>1, <2>3
  <2>5. granted' \subseteq Users \X Users
    BY <1>0, <1>2, <1>3, <2>1
  <2> QED
    BY <1>0, <1>1, <2>1, <2>4, <2>5, ServedInv DEF Mild, OthersStay
<1>7. CASE req[c].table # "file"
  <2> DEFINE p  == PmAccept(app, s, u)
             a  == IF RoomLeft(app) THEN p ELSE app
             ok == RoomLeft(app) /\ app.store[u] # NoClient
  <2>1. app' = (IF ok THEN clear(a) ELSE a) /\ Reply(c, ok) /\ UNCHANGED granted
    BY <1>7 DEF Accept, t, u, s
  <2>2. ASSUME RoomLeft(app) PROVE Kept(p)
    <3> DEFINE r == app.made + 1
    <3>1. /\ Sound(p) /\ NoneAsked(app, p) /\ p.user = app.user /\ p.sid = app.sid
          /\ p.admins = app.admins
          /\ app.name[r] = NoName /\ \A q \in RoomIds \ {r} : p.name[q] = app.name[q]
          /\ \A d \in Clients : p.room[d] = IF d = s \/ d = app.store[u] THEN r ELSE app.room[d]
      BY <1>0, <1>2, <1>3, <2>2, AcceptSound
    <3>2. \A d \in Clients : d = app.store[u] => app.sid[d] # 0
      BY <1>0, StoreNames, Kinds
    <3> HIDE DEF p, r
    <3> QED
      BY <1>2, <3>1, <3>2 DEF NoneRemoved
  <2> HIDE DEF p, clear, ok
  <2>3. Kept(a)
    BY <1>5, <2>2
  <2> HIDE DEF a
  <2>4. Kept(app')
    BY <1>4, <2>1, <2>3
  <2> QED
    BY <1>0, <1>1, <2>1, <2>4, ServedInv DEF Mild, OthersStay
<1> QED
  BY <1>6, <1>7

\* A permission is used up.
LEMMA FileClearInv ==
  ASSUME IInv, UNCHANGED scene, NEW c \in Clients, FileClear(c)
  PROVE  IInv' /\ Mild(c)
<1> DEFINE t == req[c].peer
           b == [app EXCEPT !.allow[t] = NoUser]
<1>0. /\ TypeOK /\ Sound(app) /\ granted \subseteq Users \X Users
      /\ broken \in BOOLEAN /\ t \in Clients \cup {NoClient}
  BY Parts DEF IInv
<1>1. pc[c] = "clear" /\ UNCHANGED relaying /\ Reply(c, TRUE) /\ broken' \in BOOLEAN
      /\ granted' \subseteq granted
  BY <1>0 DEF FileClear
<1>2. app' = app \/ (t \in Clients /\ app' = b)
  BY <1>0 DEF FileClear
<1> HIDE DEF t
<1>3. t \in Clients => /\ Sound(b) /\ b.user = app.user /\ b.sid = app.sid
                       /\ b.room = app.room /\ b.reqs = app.reqs
                       /\ b.name = app.name /\ b.admins = app.admins
  BY <1>0, AllowSound, Kinds
<1> HIDE DEF b
<1>4. /\ Sound(app') /\ app'.user = app.user /\ app'.sid = app.sid
      /\ app'.room = app.room /\ app'.reqs = app.reqs
      /\ app'.name = app.name /\ app'.admins = app.admins
  BY <1>0, <1>2, <1>3
<1>5. IInv'
  BY <1>0, <1>1, <1>4, ServedInv
<1> QED
  BY <1>4, <1>5 DEF NoneAsked, Mild, NoneRemoved, OthersStay

\* An administrator ends another session, or the administrator's own.
LEMMA DisconnectInv ==
  ASSUME IInv, UNCHANGED scene, NEW c \in Clients, Disconnect(c)
  PROVE  IInv' /\ NoneAsked(app, app') /\ NoneRemoved(app, app')
<1> DEFINE t == app.store[req[c].user]
           b == UserLogout(app, t)
<1>0. /\ TypeOK /\ Sound(app) /\ Placed /\ Sensible /\ app \in AppType
      /\ req \in [Clients -> ReqType]
      /\ granted \subseteq Users \X Users /\ broken \in BOOLEAN /\ req[c].user \in Keys
  BY Parts DEF IInv
<1>1. pc[c] = "lock" /\ UNCHANGED <<relaying, broken>>
  BY DEF Disconnect, Serving
<1>2. CASE ~(IsAdmin(app, c) /\ t # NoClient)
  <2>1. UNCHANGED <<app, granted>> /\ Reply(c, TRUE)
    BY <1>2 DEF Disconnect
  <2> QED
    BY <1>0, <1>1, <2>1, ServedInv DEF NoneAsked, NoneRemoved
<1>3. CASE IsAdmin(app, c) /\ t # NoClient
  <2>1. /\ app' = b /\ granted' = GrantsWithout(t)
        /\ \/ t = c /\ Reply(c, FALSE)
           \/ t # c /\ Goto(c, "kick") /\ req' = [req EXCEPT ![c].peer = t]
    BY <1>3 DEF Disconnect
  <2>2. t \in Clients /\ app.sid[t] # 0
    BY <1>0, <1>3, StoreNames
  <2> HIDE DEF t
  <2>3. /\ Sound(b) /\ NoneAsked(app, b)
        /\ b.user = [app.user EXCEPT ![t] = NoUser] /\ b.sid = [app.sid EXCEPT ![t] = 0]
        /\ b.room[t] = NoRoom /\ \A d \in Clients \ {t} : b.room[d] = app.room[d]
        /\ b.name = app.name /\ b.admins = app.admins
    BY <1>0, <2>2, LogoutSound
  <2> HIDE DEF b
  <2>4. /\ Sound(app') /\ NoneAsked(app, app') /\ NoneRemoved(app, app')
        /\ app'.user[t] = NoUser /\ app'.sid[t] = 0 /\ app'.room[t] = NoRoom
        /\ \A d \in Clients \ {t} : /\ app'.user[d] = app.user[d] /\ app'.sid[d] = app.sid[d]
                                    /\ app'.room[d] = app.room[d]
    <3>1. Sound(app') /\ NoneAsked(app, app') /\ NoneRemoved(app, app')
      BY <2>1, <2>3 DEF NoneRemoved
    <3> QED
      BY <1>0, <2>1, <2>2, <2>3, <3>1, AppFields
  <2>5. granted' \subseteq Users \X Users
    BY <1>0, <2>1, <2>2, FewerGrants
  <2>6. Sound(app)'
    BY <2>4 DEF Sound, Owned, Housed, Known, Asked, Closed, Clean, Private
  <2>7. CASE t = c
    <3>1. /\ pc' \in [Clients -> Labels] /\ req' \in [Clients -> ReqType] /\ Sensible'
          /\ pc'[c] \in {"idle", "close"}
          /\ \A d \in Clients \ {c} : pc'[d] = pc[d] /\ req'[d] = req[d]
      BY <1>0, <2>1, <2>7, Replied
    <3>2. TypeOK'
      BY <1>0, <1>1, <2>4, <2>5, <3>1, NewApp
    <3>3. Placed'
      BY <1>0, <1>1, <2>4, <2>7, <3>1, PlacedKept
    <3> QED
      BY <2>4, <2>6, <3>1, <3>2, <3>3 DEF IInv
  <2>8. CASE t # c
    <3>1. /\ pc' \in [Clients -> Labels] /\ pc'[c] = "kick"
          /\ \A d \in Clients \ {c} : pc'[d] = pc[d]
      BY <1>0, <2>1, <2>8, Went DEF Labels
    <3>2. [req[c] EXCEPT !.peer = t] \in ReqType
      BY <1>0, <2>2 DEF ReqType
    <3>3. /\ req' \in [Clients -> ReqType] /\ req'[c] = [req[c] EXCEPT !.peer = t]
          /\ \A d \in Clients \ {c} : req'[d] = req[d]
      BY <1>0, <2>1, <2>8, <3>2
    <3>4. /\ req'[c].op = req[c].op /\ req'[c].name = req[c].name
          /\ req'[c].user = req[c].user /\ req'[c].peer = t
      BY <1>0, <3>3 DEF ReqType
    <3>a. \A d \in Clients : /\ req'[d].op = req[d].op /\ req'[d].name = req[d].name
                             /\ req'[d].user = req[d].user
      BY <3>3, <3>4
    <3>5. Sensible'
      BY <1>0, <3>a DEF Sensible
    <3>6. TypeOK'
      BY <1>0, <1>1, <2>4, <2>5, <3>1, <3>3, NewApp
    <3>7. \A d \in Clients : d = t \/ Kicked(d) => Kicked(d)'
      <4>1. \A e \in Clients : pc[e] = "kick" => pc'[e] = "kick" /\ req'[e] = req[e]
        BY <1>1, <3>1, <3>3
      <4>2. pc'[c] = "kick" /\ req'[c].peer = t
        BY <3>1, <3>4
      <4> QED
        BY <4>1, <4>2 DEF Kicked
    <3>8. Placed'
      <4> SUFFICES ASSUME NEW d \in Clients
                   PROVE  /\ pc'[d] = "login" => app'.sid[d] = 0 /\ app'.room[d] = NoRoom
                                                  /\ app'.user[d] \in Users
                          /\ pc'[d] = "off" => app'.sid[d] = 0
                          /\ pc'[d] = "lock" /\ app'.sid[d] = 0 =>
                               app'.user[d] = NoUser /\ Kicked(d)'
                          /\ app'.room[d] # NoRoom /\ app'.sid[d] = 0 => Kicked(d)'
        BY DEF Placed
      <4>1. CASE d = t
        <5>1. pc[t] # "login"
          BY <1>0, <2>2 DEF Placed
        <5>2. Kicked(d)'
          BY <3>7, <4>1
        <5> QED
          BY <2>4, <2>8, <3>1, <4>1, <5>1, <5>2
      <4>2. CASE d = c
        <5>1. app.room[c] # NoRoom /\ app.sid[c] = 0 => Kicked(c)
          BY <1>0 DEF Placed
        <5> QED
          BY <2>4, <2>8, <3>1, <3>7, <4>2, <5>1
      <4>3. CASE d # t /\ d # c
        BY <1>0, <2>4, <3>1, <3>7, <4>3 DEF Placed
      <4> QED
        BY <4>1, <4>2, <4>3
    <3> QED
      BY <2>4, <2>6, <3>5, <3>6, <3>8 DEF IInv
  <2> QED
    BY <2>7, <2>8
<1> QED
  BY <1>2, <1>3

\* What is left of the data and the grants when a session is freed.
LEMMA FreedSound ==
  ASSUME TypeOK, Sound(app), NEW t \in Clients, Freed(t)
  PROVE  /\ Sound(app') /\ NoneAsked(app, app') /\ NoneRemoved(app, app')
         /\ granted' \subseteq Users \X Users
         /\ app'.sid[t] = 0 /\ app'.room[t] = NoRoom
         /\ \A d \in Clients \ {t} : /\ app'.user[d] = app.user[d] /\ app'.sid[d] = app.sid[d]
                                     /\ app'.room[d] = app.room[d]
<1> DEFINE l == UserLogout(app, t)
<1>0. app \in AppType /\ Sound(app)
  BY Parts
<1>1. app' = [l EXCEPT !.allow[t] = NoUser] /\ granted' = GrantsWithout(t)
  BY DEF Freed
<1>2. /\ Sound(l) /\ NoneAsked(app, l)
      /\ l.user = [app.user EXCEPT ![t] = NoUser] /\ l.sid = [app.sid EXCEPT ![t] = 0]
      /\ l.room[t] = NoRoom /\ \A d \in Clients \ {t} : l.room[d] = app.room[d]
      /\ l.name = app.name /\ l.admins = app.admins
  BY LogoutSound
<1> HIDE DEF l
<1> DEFINE b == [l EXCEPT !.allow[t] = NoUser]
<1>3. /\ Sound(b) /\ b.user = l.user /\ b.sid = l.sid /\ b.room = l.room /\ b.reqs = l.reqs
      /\ b.name = l.name /\ b.admins = l.admins
  <2>1. Sound(l)
    BY <1>2
  <2> QED
    BY <2>1, AllowSound, Kinds
<1>b. app' = b
  BY <1>1
<1> HIDE DEF b
<1>4. Sound(app') /\ NoneAsked(app, app') /\ NoneRemoved(app, app')
  BY <1>b, <1>2, <1>3 DEF NoneAsked, NoneRemoved
<1>5. granted' \subseteq Users \X Users
  BY <1>1, FewerGrants
<1> QED
  BY <1>0, <1>b, <1>2, <1>3, <1>4, <1>5, AppFields

\* The request of c is served, and who waits to send to t, or to destroy it, finds
\* nothing where t was.
LEMMA Forgot ==
  ASSUME req \in [Clients -> ReqType], Sensible, NEW c \in Clients, NEW t \in Clients,
         req' = Forget(t, [req EXCEPT ![c] = NoReq])
  PROVE  /\ req' \in [Clients -> ReqType] /\ Sensible' /\ req'[c].op = "none"
         /\ \A d \in Clients \ {c} :
              /\ req'[d].op = req[d].op /\ req'[d].name = req[d].name /\ req'[d].user = req[d].user
              /\ req[d].peer # t => req'[d] = req[d]
<1> DEFINE q == [req EXCEPT ![c] = NoReq]
<1>1. NoReq \in ReqType /\ NoReq.op = "none"
  BY Kinds DEF NoReq, ReqType
<1> HIDE DEF NoReq
<1>2. /\ q \in [Clients -> ReqType] /\ q[c] = NoReq
      /\ \A d \in Clients \ {c} : q[d] = req[d]
  BY <1>1
<1> HIDE DEF q
<1>3. \A p \in ReqType : LET n == [p EXCEPT !.peer = NoClient]
                         IN n \in ReqType /\ n.op = p.op /\ n.name = p.name /\ n.user = p.user
  BY DEF ReqType
<1>4. req' = [d \in Clients |->
                IF d # t /\ q[d].peer = t THEN [q[d] EXCEPT !.peer = NoClient] ELSE q[d]]
  BY DEF Forget, q
<1>5. ASSUME NEW d \in Clients
      PROVE  /\ req'[d] \in ReqType
             /\ req'[d].op = q[d].op /\ req'[d].name = q[d].name /\ req'[d].user = q[d].user
             /\ q[d].peer # t => req'[d] = q[d]
  <2>1. CASE d # t /\ q[d].peer = t
    <3>1. req'[d] = [q[d] EXCEPT !.peer = NoClient] /\ q[d] \in ReqType
      BY <1>2, <1>4, <2>1
    <3> QED
      BY <1>3, <2>1, <3>1
  <2>2. CASE ~(d # t /\ q[d].peer = t)
    BY <1>2, <1>4, <2>2
  <2> QED
    BY <2>1, <2>2
<1>6. req' \in [Clients -> ReqType]
  BY <1>4, <1>5
<1>7. /\ req'[c].op = "none"
      /\ \A d \in Clients \ {c} :
           /\ req'[d].op = req[d].op /\ req'[d].name = req[d].name /\ req'[d].user = req[d].user
           /\ req[d].peer # t => req'[d] = req[d]
  BY <1>1, <1>2, <1>5
<1>8. Sensible'
  <2> SUFFICES ASSUME NEW d \in Clients
               PROVE  /\ req'[d].op = "join" => \E n \in Names : req'[d].name = {n}
                      /\ req'[d].op = "promote" => req'[d].user \in Users
    BY DEF Sensible
  <2>1. CASE d = c
    BY <1>7, <2>1
  <2>2. CASE d # c
    <3>1. req'[d].op = req[d].op /\ req'[d].name = req[d].name /\ req'[d].user = req[d].user
      BY <1>7, <2>2
    <3> QED
      BY <3>1 DEF Sensible
  <2> QED
    BY <2>1, <2>2
<1> QED
  BY <1>6, <1>7, <1>8

\* The session of t is freed, by its own worker or by that of c, which is then done.
LEMMA FreedInv ==
  ASSUME IInv, UNCHANGED <<scene, relaying, broken>>, NEW c \in Clients, NEW t \in Clients,
         Freed(t), pc[t] # "kick", pc[c] = "kick" => req[c].peer = t,
         req' = Forget(t, [req EXCEPT ![c] = NoReq]),
         pc' \in [Clients -> Labels], pc'[t] = "off", c # t => pc'[c] = "idle",
         \A d \in Clients \ {c, t} : pc'[d] = pc[d]
  PROVE  /\ IInv' /\ NoneAsked(app, app') /\ NoneRemoved(app, app')
         /\ \A d \in Clients \ {t} : app'.sid[d] = app.sid[d]
<1>0. /\ TypeOK /\ Sound(app) /\ Placed /\ Sensible /\ app \in AppType
      /\ req \in [Clients -> ReqType] /\ broken \in BOOLEAN
  BY Parts DEF IInv
<1>4. /\ Sound(app') /\ NoneAsked(app, app') /\ NoneRemoved(app, app')
      /\ app'.sid[t] = 0 /\ app'.room[t] = NoRoom
      /\ \A d \in Clients \ {t} : /\ app'.user[d] = app.user[d] /\ app'.sid[d] = app.sid[d]
                                  /\ app'.room[d] = app.room[d]
      /\ granted' \subseteq Users \X Users
  BY <1>0, FreedSound
<1>5. /\ req' \in [Clients -> ReqType] /\ Sensible'
      /\ req'[c].op = "none"
      /\ \A d \in Clients \ {c} :
           /\ req'[d].op = req[d].op /\ req'[d].name = req[d].name /\ req'[d].user = req[d].user
           /\ req[d].peer # t => req'[d] = req[d]
  BY <1>0, Forgot
<1>7. \A d \in Clients \ {t} : Kicked(d) => Kicked(d)'
  <2> SUFFICES ASSUME NEW d \in Clients \ {t}, NEW e \in Clients, pc[e] = "kick", req[e].peer = d
               PROVE  pc'[e] = "kick" /\ req'[e].peer = d
    BY DEF Kicked
  <2>1. e # c /\ e # t
    OBVIOUS
  <2> QED
    BY <1>5, <2>1
<1>8. Placed'
  <2> SUFFICES ASSUME NEW d \in Clients
               PROVE  /\ pc'[d] = "login" => app'.sid[d] = 0 /\ app'.room[d] = NoRoom
                                              /\ app'.user[d] \in Users
                      /\ pc'[d] = "off" => app'.sid[d] = 0
                      /\ pc'[d] = "lock" /\ app'.sid[d] = 0 =>
                           app'.user[d] = NoUser /\ Kicked(d)'
                      /\ app'.room[d] # NoRoom /\ app'.sid[d] = 0 => Kicked(d)'
    BY DEF Placed
  <2>1. CASE d = t
    BY <1>4, <2>1
  <2>2. CASE d # t /\ d = c
    <3>1. app.room[c] # NoRoom /\ app.sid[c] = 0 => Kicked(c)
      BY <1>0 DEF Placed
    <3> QED
      BY <1>4, <1>7, <2>2, <3>1
  <2>3. CASE d # t /\ d # c
    BY <1>0, <1>4, <1>7, <2>3 DEF Placed
  <2> QED
    BY <2>1, <2>2, <2>3
<1>9. TypeOK'
  BY <1>0, <1>4, <1>5, NewApp
<1>10. Sound(app)'
  BY <1>4 DEF Sound, Owned, Housed, Known, Asked, Closed, Clean, Private
<1> QED
  BY <1>4, <1>5, <1>8, <1>9, <1>10 DEF IInv

\* A worker frees its own session.
LEMMA CloseInv ==
  ASSUME IInv, UNCHANGED scene, NEW c \in Clients, Close(c)
  PROVE  IInv' /\ Mild(c)
<1>1. TypeOK
  BY DEF IInv
<1>2. /\ pc[c] = "close" /\ Freed(c) /\ Goto(c, "off") /\ UNCHANGED <<relaying, broken>>
      /\ req' = Forget(c, [req EXCEPT ![c] = NoReq])
  BY DEF Close
<1>3. /\ pc' \in [Clients -> Labels] /\ pc'[c] = "off" /\ \A d \in Clients \ {c} : pc'[d] = pc[d]
  BY <1>1, <1>2, Went DEF Labels
<1> QED
  BY <1>2, <1>3, FreedInv DEF Mild, OthersStay

\* A worker frees the session it has logged out, or C says nothing of what it does.
LEMMA KickInv ==
  ASSUME IInv, UNCHANGED scene, NEW c \in Clients, Kick(c)
  PROVE  IInv' /\ NoneAsked(app, app') /\ NoneRemoved(app, app')
<1> DEFINE t == req[c].peer
<1>1. /\ TypeOK /\ Sound(app) /\ Placed /\ Sensible /\ pc \in [Clients -> Labels]
      /\ req \in [Clients -> ReqType] /\ t \in Clients \cup {NoClient}
      /\ relaying \in Clients \cup {NoClient}
  BY Parts DEF IInv
<1>2. pc[c] = "kick" /\ UNCHANGED relaying
  BY DEF Kick
<1>3. CASE broken' = TRUE /\ UNCHANGED <<app, pc, req, granted>>
  <2>1. TypeOK' /\ Sound(app)' /\ NoneAsked(app, app')
    BY <1>1, <1>2, <1>3, SameApp
  <2>2. Placed' /\ Sensible'
    BY <1>1, <1>3 DEF Placed, Sensible, Kicked
  <2> QED
    BY <1>3, <2>1, <2>2 DEF IInv, NoneRemoved
<1>4. CASE ~(broken' = TRUE /\ UNCHANGED <<app, pc, req, granted>>)
  <2>1. /\ t # NoClient /\ pc[t] = "idle" /\ Freed(t) /\ UNCHANGED broken
        /\ pc' = [pc EXCEPT ![t] = "off", ![c] = "idle"]
        /\ req' = Forget(t, [req EXCEPT ![c] = NoReq])
    BY <1>4 DEF Kick
  <2>2. t \in Clients /\ t # c
    BY <1>1, <1>2, <2>1
  <2>3. /\ pc' \in [Clients -> Labels] /\ pc'[t] = "off" /\ pc'[c] = "idle"
        /\ \A d \in Clients \ {c, t} : pc'[d] = pc[d]
    BY <1>1, <2>1, <2>2 DEF Labels
  <2> QED
    BY <1>2, <2>1, <2>2, <2>3, FreedInv
<1> QED
  BY <1>3, <1>4

-----------------------------------------------------------------------------
(* All together.                                                           *)

\* What needs no administrator and replaces no entry that asks.
MildStep(c) ==
  \/ OutStep(c)
  \/ (\E u \in scene.users : LoginBegin(c, u)) \/ (\E right \in BOOLEAN : LoginTry(c, right))
  \/ Logout(c) \/ Join(c) \/ Accept(c) \/ Decline(c) \/ FileClear(c) \/ Close(c)

\* The cases of Next.
LEMMA StepKinds ==
  ASSUME TypeOK, Next
  PROVE  \/ UNCHANGED vars
         \/ \E c \in Clients : MildStep(c) \/ Promote(c) \/ Delete(c) \/ Request(c)
                                 \/ Disconnect(c) \/ Kick(c)
<1>1. scene.clients \subseteq Clients
  BY DEF TypeOK, Scenes
<1>2. CASE Rest
  BY <1>2 DEF Rest
<1>3. CASE \E c \in scene.clients :
             \/ Connect(c) \/ HangUp(c)
             \/ (\E u \in scene.users : LoginBegin(c, u))
             \/ (\E r \in Requests : Begin(c, r))
             \/ Serve(c) \/ Receive(c)
  BY <1>1, <1>3 DEF MildStep, OutStep, Serve, Receive
<1> QED
  BY <1>2, <1>3 DEF Next

\* Those keep the invariant, and are as mild as said.
LEMMA MildInv ==
  ASSUME IInv, NoWrap, UNCHANGED scene, NEW c \in Clients, MildStep(c)
  PROVE  IInv' /\ Mild(c)
<1>1. CASE OutStep(c)
  BY <1>1, OutInv DEF Mild, NoneRemoved, OthersStay
<1>2. CASE \E u \in scene.users : LoginBegin(c, u)
  BY <1>2, LoginBeginInv
<1>3. CASE \E right \in BOOLEAN : LoginTry(c, right)
  BY <1>3, LoginTryInv
<1>4. CASE Logout(c) \/ Join(c) \/ Accept(c)
  BY <1>4, LogoutInv, JoinInv, AcceptInv
<1>5. CASE Decline(c) \/ FileClear(c) \/ Close(c)
  BY <1>5, DeclineInv, FileClearInv, CloseInv
<1> QED
  BY <1>1, <1>2, <1>3, <1>4, <1>5 DEF MildStep

\* A pending request is not replaced by another.
NoneReplaced(a, b) ==
  \A t \in Tables, u \in Users :
    Pending(a, t, u) /\ Pending(b, t, u) => b.reqs[t][u] = a.reqs[t][u]

\* The same of every step.
LEMMA NextInv ==
  ASSUME IInv, NoWrap, [Next /\ UNCHANGED scene]_<<scene, vars>>
  PROVE  IInv' /\ NoneReplaced(app, app')
<1>0. TypeOK
  BY DEF IInv
<1>1. ASSUME NoneAsked(app, app') PROVE NoneReplaced(app, app')
  BY <1>1, Kinds DEF NoneAsked, NoneReplaced, Pending
<1>2. CASE UNCHANGED <<scene, vars>>
  <2>1. /\ app' = app /\ pc' = pc /\ req' = req /\ relaying' = relaying /\ broken' = broken
        /\ granted' = granted /\ scene' = scene
    BY <1>2 DEF vars
  <2>2. TypeOK' /\ Sound(app)' /\ NoneAsked(app, app')
    BY <1>0, <2>1, Parts, SameApp
  <2>3. Placed' /\ Sensible'
    BY <2>1 DEF IInv, Placed, Sensible, Kicked
  <2> QED
    BY <1>1, <2>2, <2>3 DEF IInv
<1>3. ASSUME Next, UNCHANGED scene, NEW c \in Clients, MildStep(c)
      PROVE  IInv' /\ NoneReplaced(app, app')
  BY <1>1, <1>3, MildInv DEF Mild
<1>4. ASSUME Next, UNCHANGED scene, NEW c \in Clients,
             Promote(c) \/ Delete(c) \/ Disconnect(c) \/ Kick(c)
      PROVE  IInv' /\ NoneReplaced(app, app')
  BY <1>1, <1>4, PromoteInv, DeleteInv, DisconnectInv, KickInv
<1>5. ASSUME Next, UNCHANGED scene, NEW c \in Clients, Request(c)
      PROVE  IInv' /\ NoneReplaced(app, app')
  BY <1>5, RequestInv, Kinds DEF NoneReplaced
<1> QED
  BY <1>0, <1>2, <1>3, <1>4, <1>5, StepKinds

\* One room, nobody there.
LEMMA InitInv ==
  ASSUME Init
  PROVE  IInv
<1>1. /\ scene \in Scenes /\ pc = [c \in Clients |-> "off"] /\ req = [c \in Clients |-> NoReq]
      /\ relaying = NoClient /\ broken = FALSE /\ granted = {}
  BY DEF Init
<1>2. /\ app.user = [c \in Clients |-> NoUser] /\ app.sid = [c \in Clients |-> 0]
      /\ app.room = [c \in Clients |-> NoRoom] /\ app.members = [r \in RoomIds |-> {}]
      /\ app.name = [r \in RoomIds |-> IF r = 1 THEN {General} ELSE NoName] /\ app.made = 1
      /\ app.reqs = [t \in Tables |-> [u \in Keys |-> Absent]]
      /\ app.store = [u \in Keys |-> NoClient] /\ app.admins = {Admin}
  BY DEF Init
<1>3. app \in AppType
  <2>1. 1 % IdSpace \in 0..IdSpace
    <3>1. \A n \in Nat \ {0} : 1 % n \in 0..n
      OBVIOUS
    <3> QED
      BY <3>1
  <2>2. {General} \in RoomNames /\ {Admin} \in SUBSET Keys
    BY Kinds DEF RoomNames
  <2>3. /\ [r \in RoomIds |-> IF r = 1 THEN {General} ELSE NoName] \in [RoomIds -> RoomNames]
        /\ [c \in Clients |-> NoUser] \in [Clients -> Keys]
        /\ [c \in Clients |-> 0] \in [Clients -> 0..IdSpace]
        /\ [c \in Clients |-> NoRoom] \in [Clients -> RoomIds \cup {NoRoom}]
        /\ [r \in RoomIds |-> {}] \in [RoomIds -> SUBSET Clients]
        /\ [t \in Tables |-> [u \in Keys |-> Absent]] \in [Tables -> [Keys -> Keys \cup {Absent}]]
        /\ [u \in Keys |-> NoClient] \in [Keys -> Clients \cup {NoClient}]
    BY <2>2, Kinds
  <2> QED
    BY <2>1, <2>2, <2>3, Kinds DEF Init, AppType
<1>4. TypeOK
  <2>1. NoReq \in ReqType
    BY Kinds DEF NoReq, ReqType
  <2> HIDE DEF NoReq
  <2> QED
    BY <1>1, <1>3, <2>1 DEF TypeOK, Labels
<1>5. Sound(app)
  <2>1. Owned(app) /\ Known(app) /\ Asked(app) /\ Closed(app)
    BY <1>2, Kinds DEF Owned, Known, Asked, Closed
  <2>2. Housed(app)
    BY <1>2, Kinds DEF Housed
  <2>3. Clean(app)
    BY <1>2, Kinds DEF Clean, Keys
  <2> QED
    BY <1>3, <2>1, <2>2, <2>3 DEF Sound
<1>6. Placed
  BY <1>1, <1>2 DEF Placed
<1>7. Sensible
  BY <1>1 DEF Sensible, NoReq
<1> QED
  BY <1>4, <1>5, <1>6, <1>7 DEF IInv

\* The invariant, as long as the session ids last.
THEOREM Invariance == SafetySpec /\ []NoWrap => []IInv
<1>1. Init => IInv
  BY InitInv
<1>2. IInv /\ NoWrap /\ [Next /\ UNCHANGED scene]_<<scene, vars>> => IInv'
  BY NextInv
<1> QED
  BY <1>1, <1>2, PTL DEF SafetySpec, Steps

-----------------------------------------------------------------------------
(* What follows from the invariant.                                        *)

\* Everything keeps its type.
THEOREM TypeCorrect == SafetySpec /\ []NoWrap => []TypeOK
<1>1. IInv => TypeOK
  BY DEF IInv
<1> QED
  BY <1>1, Invariance, PTL

\* The session store and the sessions agree, also after logins that were refused: the
\* store has a user's one session that has an id, and no session that is gone.
THEOREM SessionsCorrect == SafetySpec /\ []NoWrap => []SessionsAgree
<1>1. IInv => SessionsAgree
  <2> SUFFICES ASSUME IInv PROVE SessionsAgree
    OBVIOUS
  <2>1. Sound(app) /\ Placed
    BY DEF IInv
  <2>2. \A c \in Clients : app.sid[c] # 0 => app.store[app.user[c]] = c
    BY <2>1 DEF Sound, Owned
  <2>3. ASSUME NEW u \in Keys, app.store[u] # NoClient
        PROVE  /\ app.user[app.store[u]] = u /\ app.sid[app.store[u]] # 0
               /\ pc[app.store[u]] # "off"
    BY <2>1, <2>3, StoreNames DEF Placed
  <2> QED
    BY <2>2, <2>3 DEF SessionsAgree
<1> QED
  BY <1>1, Invariance, PTL

\* A room lists a session exactly when the session points to that room, and no session
\* points to a room that was deleted.
THEOREM MembershipCorrect == SafetySpec /\ []NoWrap => []MembershipAgrees
<1>1. IInv => MembershipAgrees
  <2> SUFFICES ASSUME IInv PROVE MembershipAgrees
    OBVIOUS
  <2>1. app \in AppType /\ Housed(app)
    BY DEF IInv, Sound
  <2>2. \A c \in Clients : app.room[c] # NoRoom => app.room[c] \in RoomIds
    BY <2>1, AppFields
  <2> QED
    BY <2>1, <2>2 DEF Housed, MembershipAgrees, Live
<1> QED
  BY <1>1, Invariance, PTL

\* Whoever is in a room is logged in, and no user is there twice, except a session that
\* an administrator has logged out and not yet destroyed.
THEOREM MembersCorrect == SafetySpec /\ []NoWrap => []MembersAreIn
<1>1. IInv => MembersAreIn
  <2> SUFFICES ASSUME IInv, NEW r \in RoomIds, NEW c \in app.members[r], ~Kicked(c)
               PROVE  /\ app.sid[c] # 0 /\ app.user[c] \in Users
                      /\ \A d \in app.members[r] : app.user[d] = app.user[c] => d = c
    BY DEF MembersAreIn, Kicked
  <2>1. app \in AppType /\ Owned(app) /\ Housed(app) /\ Known(app) /\ Placed
    BY DEF IInv, Sound
  <2>2. app.members[r] \subseteq Clients
    BY <2>1, AppFields
  <2>3. \A d \in app.members[r] : app.room[d] # NoRoom
    BY <2>1, <2>2, Kinds DEF Housed
  <2>4. app.sid[c] # 0 /\ app.user[c] \in Users
    BY <2>1, <2>2, <2>3 DEF Placed, Owned
  <2>5. ASSUME NEW d \in app.members[r], app.user[d] = app.user[c] PROVE d = c
    <3>1. app.sid[d] # 0
      BY <2>1, <2>2, <2>3, <2>4, <2>5, Kinds DEF Known
    <3> QED
      BY <2>1, <2>2, <2>4, <2>5, <3>1 DEF Owned
  <2> QED
    BY <2>4, <2>5
<1> QED
  BY <1>1, Invariance, PTL

\* Both request tables have an entry for whoever is in a room.
THEOREM EntriesCorrect == SafetySpec /\ []NoWrap => []RoomMeansEntries
<1>1. IInv => RoomMeansEntries
  BY DEF IInv, Sound, Asked, RoomMeansEntries
<1> QED
  BY <1>1, Invariance, PTL

\* A private room only ever contains its two users.
THEOREM PrivateCorrect == SafetySpec /\ []NoWrap => []PrivateIsPrivate
<1>1. IInv => PrivateIsPrivate
  <2> SUFFICES ASSUME IInv, NEW r \in Live(app), Private(app, r), NEW c \in app.members[r]
               PROVE  app.user[c] \in app.name[r]
    BY DEF PrivateIsPrivate
  <2>1. app \in AppType /\ Housed(app) /\ Closed(app) /\ r \in RoomIds
    BY DEF IInv, Sound, Live
  <2>2. c \in Clients
    BY <2>1, AppFields
  <2>3. app.room[c] = r
    BY <2>1, <2>2 DEF Housed
  <2> QED
    BY <2>1, <2>2, <2>3, Kinds DEF Closed
<1> QED
  BY <1>1, Invariance, PTL

\* A pending request is answered, withdrawn or forgotten before another user's can
\* take its place.
THEOREM PendingCorrect == SafetySpec /\ []NoWrap => PendingNotReplaced
<1>1. IInv /\ NoWrap /\ [Next /\ UNCHANGED scene]_<<scene, vars>> =>
        [\A t \in Tables, u \in Users :
           Pending(app, t, u) /\ Pending(app', t, u) => app'.reqs[t][u] = app.reqs[t][u]]_vars
  BY NextInv DEF NoneReplaced
<1> QED
  BY <1>1, Invariance, PTL DEF SafetySpec, Steps, PendingNotReplaced

\* Rooms disappear and administrators appear only by the hand of a logged in
\* administrator: one who has been logged out since the request was received has no
\* name, and none of the administrators is nameless.
LEMMA AdminHand ==
  ASSUME IInv, NoWrap, [Next /\ UNCHANGED scene]_<<scene, vars>>,
         app'.admins # app.admins \/ Live(app) \ Live(app') # {}
  PROVE  \E d \in Clients : /\ pc[d] = "lock" /\ pc'[d] = "idle"
                            /\ IsAdmin(app, d) /\ app.sid[d] # 0
<1>0. TypeOK /\ Placed /\ Sound(app)
  BY DEF IInv
<1>1. ~NoneRemoved(app, app')
  BY DEF NoneRemoved, Live
<1>2. app' # app
  BY <1>1 DEF NoneRemoved
<1>3. Next /\ UNCHANGED scene /\ ~UNCHANGED vars
  BY <1>2 DEF vars
<1>4. PICK c \in Clients : Promote(c) \/ Delete(c)
  <2>1. PICK c \in Clients : MildStep(c) \/ Promote(c) \/ Delete(c) \/ Request(c)
                               \/ Disconnect(c) \/ Kick(c)
    BY <1>0, <1>3, StepKinds
  <2>2. ~MildStep(c)
    BY <1>1, <1>3, MildInv DEF Mild
  <2>3. ~Request(c) /\ ~Disconnect(c) /\ ~Kick(c)
    BY <1>1, <1>3, RequestInv, DisconnectInv, KickInv
  <2> QED
    BY <2>1, <2>2, <2>3
<1>5. pc[c] = "lock" /\ Reply(c, TRUE) /\ IsAdmin(app, c)
  <2>1. CASE Promote(c)
    BY <1>2, <2>1 DEF Promote, Serving
  <2>2. CASE Delete(c)
    BY <1>2, <2>2 DEF Delete, Serving
  <2> QED
    BY <1>4, <2>1, <2>2
<1>6. pc'[c] = "idle"
  BY <1>0, <1>5, Replied DEF IInv
<1>7. app.sid[c] # 0
  <2>1. app.user[c] # NoUser
    BY <1>0, <1>5, Kinds DEF IsAdmin, Sound, Clean
  <2> QED
    BY <1>0, <1>5, <2>1 DEF Placed
<1> QED
  BY <1>5, <1>6, <1>7

\* The above, of every step.
THEOREM AdministerCorrect == SafetySpec /\ []NoWrap => OnlyAdminsAdminister
<1>1. IInv /\ NoWrap /\ [Next /\ UNCHANGED scene]_<<scene, vars>> =>
        [app'.admins # app.admins \/ Live(app) \ Live(app') # {} =>
           \E d \in Clients : /\ pc[d] = "lock" /\ pc'[d] = "idle"
                              /\ IsAdmin(app, d) /\ app.sid[d] # 0]_vars
  BY AdminHand
<1> QED
  BY <1>1, Invariance, PTL DEF SafetySpec, Steps, OnlyAdminsAdminister

\* Whoever's worker moves, it moves: a step that is mild changes the label.
LEMMA MildMoves ==
  ASSUME TypeOK, Sensible, NEW c \in Clients, MildStep(c)
  PROVE  pc'[c] # pc[c]
<1>1. ASSUME NEW label \in Labels, pc[c] # label, Goto(c, label)
      PROVE  pc'[c] # pc[c]
  BY <1>1, Went
<1>2. ASSUME NEW ok, Reply(c, ok), pc[c] \notin {"idle", "close"}
      PROVE  pc'[c] # pc[c]
  BY <1>2, Replied
<1>3. CASE Connect(c) \/ HangUp(c) \/ (\E r \in Requests : Begin(c, r)) \/ LoginInvalid(c)
             \/ FileLock(c)
  BY <1>1, <1>3 DEF Connect, HangUp, Begin, LoginInvalid, FileLock, Labels
<1>4. CASE MsgSend(c) \/ List(c) \/ NothingToAnswer(c) \/ Logout(c) \/ Join(c) \/ Accept(c)
             \/ Decline(c) \/ FileClear(c)
  <2>1. pc[c] \in {"lock", "clear"} /\ \E ok : Reply(c, ok)
    BY <1>4 DEF MsgSend, List, NothingToAnswer, Logout, Join, Accept, Decline, FileClear, Serving
  <2> QED
    BY <1>2, <2>1
<1>5. CASE FileSend(c) \/ (\E ok \in BOOLEAN : FileRelay(c, ok))
  <2>1. /\ pc[c] \in {"lock", "relay"}
        /\ Goto(c, "filelock") \/ Goto(c, "clear") \/ \E ok : Reply(c, ok)
    BY <1>5 DEF FileSend, FileRelay, Serving
  <2> QED
    BY <1>1, <1>2, <2>1 DEF Labels
<1>6. CASE (\E u \in scene.users : LoginBegin(c, u)) \/ (\E right \in BOOLEAN : LoginTry(c, right))
             \/ Close(c)
  BY <1>1, <1>6 DEF LoginBegin, LoginTry, Close, Labels
<1> QED
  BY <1>3, <1>4, <1>5, <1>6 DEF MildStep, OutStep

\* A session ends by a step of its own worker or because an administrator disconnects
\* it, whatever else other connections do.
THEOREM EndCorrect == SafetySpec /\ []NoWrap => OnlyAdminsEndSessions
<1> DEFINE Ended(c) ==
      \/ pc'[c] # pc[c]
      \/ \E d \in Clients : pc[d] = "kick" /\ pc'[d] = "idle"
      \/ \E d \in Clients : Serving(d, "disconnect") /\ IsAdmin(app, d) /\ pc'[d] # "lock"
<1>1. IInv /\ NoWrap /\ [Next /\ UNCHANGED scene]_<<scene, vars>> =>
        [\A c \in Clients : app.sid[c] # 0 /\ app'.sid[c] = 0 => Ended(c)]_vars
  <2> SUFFICES ASSUME IInv, NoWrap, [Next /\ UNCHANGED scene]_<<scene, vars>>,
                      NEW c \in Clients, app.sid[c] # 0, app'.sid[c] = 0
               PROVE  Ended(c)
    OBVIOUS
  <2>0. TypeOK /\ Sensible /\ pc \in [Clients -> Labels]
    BY Parts DEF IInv
  <2>1. Next /\ UNCHANGED scene /\ ~UNCHANGED vars
    BY DEF vars
  <2>2. PICK d \in Clients : MildStep(d) \/ Promote(d) \/ Delete(d) \/ Request(d)
                               \/ Disconnect(d) \/ Kick(d)
    BY <2>0, <2>1, StepKinds
  <2>3. CASE MildStep(d)
    <3>1. c = d
      BY <2>1, <2>3, MildInv DEF Mild, OthersStay
    <3> QED
      BY <2>0, <2>3, <3>1, MildMoves
  <2>4. CASE Promote(d) \/ Delete(d) \/ Request(d)
    <3>1. c = d
      BY <2>1, <2>4, PromoteInv, DeleteInv, RequestInv DEF OthersStay
    <3>2. pc[d] = "lock" /\ Reply(d, TRUE)
      BY <2>4 DEF Promote, Delete, Request, Serving
    <3>3. pc'[d] # "lock"
      BY <2>0, <3>2, Replied
    <3> QED
      BY <3>1, <3>2, <3>3
  <2>5. CASE Disconnect(d)
    <3>1. Serving(d, "disconnect") /\ IsAdmin(app, d)
      BY <2>5 DEF Disconnect
    <3>2. (\E ok : Reply(d, ok)) \/ Goto(d, "kick")
      BY <2>5 DEF Disconnect
    <3>3. pc'[d] # "lock"
      BY <2>0, <3>2, Replied, Went DEF Labels
    <3> QED
      BY <3>1, <3>3
  <2>6. CASE Kick(d)
    <3>1. app' # app
      OBVIOUS
    <3>2. pc[d] = "kick" /\ pc' = [pc EXCEPT ![req[d].peer] = "off", ![d] = "idle"]
      BY <2>6, <3>1 DEF Kick
    <3>3. pc'[d] = "idle"
      BY <2>0, <3>2
    <3> QED
      BY <3>2, <3>3
  <2> QED
    BY <2>2, <2>3, <2>4, <2>5, <2>6
<1> QED
  BY <1>1, Invariance, PTL DEF SafetySpec, Steps, OnlyAdminsEndSessions

\* What accepting a private conversation does to the two sessions.
LEMMA Meeting ==
  ASSUME IInv, NEW c \in Clients, Accept(c), req[c].table = "pm", pc'[c] = "idle"
  PROVE  LET s == app.store[req[c].user] IN
           /\ app'.room[c] = app'.room[s] /\ app'.room[c] \notin Live(app)
           /\ app'.members[app'.room[c]] = {c, s}
<1> DEFINE s == app.store[req[c].user]
           u == app.user[c]
           r == app.made + 1
           p == PmAccept(app, s, u)
           b == [p EXCEPT !.reqs[req[c].table][u] = NoUser]
           ok == RoomLeft(app) /\ app.store[u] # NoClient
<1>0. /\ TypeOK /\ Sound(app) /\ Placed /\ Sensible /\ Owned(app) /\ Clean(app)
      /\ app \in AppType /\ u \in Keys /\ req[c].user \in Keys /\ req[c].table \in Tables
  BY Parts, AppFields DEF IInv, Sound
<1>1. pc[c] = "lock" /\ Answers(c) /\ Reply(c, ok) /\ (ok => app' = b)
  BY DEF Accept, Serving
<1>2. ok
  <2> SUFFICES ASSUME ~ok PROVE FALSE
    OBVIOUS
  <2>1. pc \in [Clients -> Labels] /\ pc' = [pc EXCEPT ![c] = "close"]
    BY <1>0, <1>1, Parts DEF Reply, Goto
  <2> QED
    BY <2>1
<1>3. s \in Clients /\ app.sid[s] # 0
  BY <1>0, <1>1, StoreNames DEF Answers
<1>4. u \in Users
  BY <1>0, <1>1 DEF Answers, Clean, Keys
<1>5. app.store[u] = c
  <2>1. app.sid[c] # 0
    BY <1>0, <1>1, <1>4, Kinds DEF Placed
  <2> QED
    BY <1>0, <2>1 DEF Owned
<1>6. RoomLeft(app) /\ app' = b
  BY <1>1, <1>2
<1> HIDE DEF s, u, ok
<1>7. /\ Sound(p) /\ r \in RoomIds /\ app.name[r] = NoName
      /\ \A d \in Clients : p.room[d] = IF d = s \/ d = app.store[u] THEN r ELSE app.room[d]
      /\ \A d \in Clients : app.room[d] # r
  BY <1>0, <1>3, <1>4, <1>6, AcceptSound
<1> HIDE DEF p, r
<1>8. Sound(b) /\ b.room = p.room
  BY <1>0, <1>7, EntrySound, Kinds
<1> HIDE DEF b
<1>9. app'.room[c] = r /\ app'.room[s] = r
  BY <1>3, <1>5, <1>6, <1>7, <1>8
<1>10. app'.members[r] = {c, s}
  <2>1. \A d \in Clients : d \in b.members[r] <=> b.room[d] = r
    BY <1>7, <1>8 DEF Sound, Housed
  <2>2. b.members[r] \subseteq Clients
    BY <1>7, <1>8, AppFields DEF Sound
  <2>3. \A d \in Clients : d \in b.members[r] <=> d = c \/ d = s
    BY <1>5, <1>7, <1>8, <2>1
  <2> QED
    BY <1>3, <1>6, <2>2, <2>3
<1>11. r \notin Live(app)
  BY <1>7 DEF Live
<1> QED
  BY <1>9, <1>10, <1>11 DEF s

\* Accepting a private conversation puts both users in the same new private room and
\* in no other.
THEOREM AcceptCorrect == SafetySpec /\ []NoWrap => AcceptMeets
<1>1. IInv => [\A c \in Clients :
                 Accept(c) /\ req[c].table = "pm" /\ pc'[c] = "idle" =>
                   LET s == app.store[req[c].user] IN
                     /\ app'.room[c] = app'.room[s] /\ app'.room[c] \notin Live(app)
                     /\ app'.members[app'.room[c]] = {c, s}]_vars
  BY Meeting
<1> QED
  BY <1>1, Invariance, PTL DEF SafetySpec, Steps, AcceptMeets
=============================================================================
