----------------------------- MODULE WireProofs -----------------------------
(***************************************************************************)
(* One connection, for any requests, sizes of chunks and frames, and any   *)
(* number of messages of other workers: the client is sent whole frames,   *)
(* and each of its requests is taken whole, however recv cuts them up.     *)
(***************************************************************************)
EXTENDS Wire, DataLemmas

-----------------------------------------------------------------------------
(* What the client is sent.                                                *)

OutType == [holds : SUBSET Writers, put : [Writers -> 0..FrameSize], left : Int, torn : BOOLEAN]

\* client_t.lock has one holder at a time, and only its holder has a frame under way.
OneSender ==
  /\ out \in OutType
  /\ \A v, w \in out.holds : v = w
  /\ \A w \in Writers : out.put[w] # 0 => w \in out.holds

IInv == OneSender /\ FramesWhole

\* Nothing is sent before the first request.
LEMMA InitInv ==
  ASSUME FrameSize \in Nat, Messages \in Nat, Init
  PROVE  IInv
<1>1. 0 \in 0..FrameSize
  OBVIOUS
<1>2. out = [holds |-> {}, put |-> [w \in Writers |-> 0], left |-> Messages, torn |-> FALSE]
  BY DEF Init
<1> QED
  BY <1>1, <1>2 DEF IInv, OneSender, OutType, FramesWhole

\* While the holder of the lock sends, the other has nothing half sent.
LEMMA PartInv ==
  ASSUME FrameSize \in Nat, IInv, NEW w \in Writers, NEW n \in 1..FrameSize, SendPart(w, n)
  PROVE  IInv'
<1>0. /\ out \in OutType /\ w \in out.holds /\ out.put \in [Writers -> 0..FrameSize]
      /\ out.put[w] + n <= FrameSize /\ up' = up
  BY DEF IInv, OneSender, OutType, SendPart
<1>1. \A x \in Writers \ {w} : out.put[x] = 0
  BY <1>0 DEF IInv, OneSender
<1>2. \A x \in Writers \ {w} : ~Partial(x)
  BY <1>1 DEF Partial
<1>3. out' = [out EXCEPT !.put[w] = out.put[w] + n, !.torn = out.torn]
  BY <1>0, <1>2 DEF SendPart, OutType
<1>4. /\ out'.holds = out.holds /\ out'.torn = out.torn
      /\ out'.put = [out.put EXCEPT ![w] = out.put[w] + n]
      /\ out'.put \in [Writers -> 0..FrameSize] /\ out' \in OutType
  <2>1. out.put[w] + n \in 0..FrameSize
    BY <1>0
  <2> QED
    BY <1>0, <1>3, <2>1 DEF OutType
<1>5. OneSender'
  BY <1>0, <1>1, <1>4 DEF IInv, OneSender
<1>6. FramesWhole'
  BY <1>0, <1>4 DEF IInv, FramesWhole
<1> QED
  BY <1>5, <1>6 DEF IInv

\* sockutil_sendall gives the lock back, with its frame whole unless the connection
\* is gone.
LEMMA ReturnsInv ==
  ASSUME FrameSize \in Nat, IInv, NEW w \in Writers, SendReturns(w)
  PROVE  IInv'
<1>0. /\ out \in OutType /\ w \in out.holds /\ out.put \in [Writers -> 0..FrameSize]
      /\ out.left \in Int /\ out.holds \subseteq Writers /\ out.torn \in BOOLEAN
      /\ up' = up
      /\ out.put[w] = FrameSize \/ ~up
  BY DEF IInv, OneSender, OutType, SendReturns
<1>1. up => ~Partial(w)
  BY <1>0 DEF Partial
<1>2. /\ out'.holds = out.holds \ {w} /\ out'.put = [out.put EXCEPT ![w] = 0]
      /\ out'.left \in Int /\ out'.torn = (out.torn \/ Partial(w))
      /\ out' = [holds |-> out'.holds, put |-> out'.put, left |-> out'.left, torn |-> out'.torn]
  BY <1>0 DEF SendReturns
<1>3. out'.torn \in BOOLEAN
  BY <1>2
<1>4. out'.put \in [Writers -> 0..FrameSize] /\ out' \in OutType
  <2>1. 0 \in 0..FrameSize
    OBVIOUS
  <2>2. out'.put \in [Writers -> 0..FrameSize]
    BY <1>0, <1>2, <2>1
  <2> QED
    BY <1>0, <1>2, <1>3, <2>2 DEF OutType
<1>5. OneSender'
  BY <1>0, <1>2, <1>4 DEF IInv, OneSender
<1>6. FramesWhole'
  <2>1. CASE up
    BY <1>0, <1>1, <1>2, <2>1 DEF IInv, FramesWhole
  <2>2. CASE ~up
    BY <1>0, <2>2 DEF FramesWhole
  <2> QED
    BY <2>1, <2>2
<1> QED
  BY <1>5, <1>6 DEF IInv

\* Every step keeps it.
LEMMA NextInv ==
  ASSUME FrameSize \in Nat, IInv, [Next]_vars
  PROVE  IInv'
<1>1. CASE Break
  BY <1>1 DEF Break, IInv, OneSender, FramesWhole
<1>2. ASSUME UNCHANGED <<out, up>> PROVE IInv'
  BY <1>2 DEF IInv, OneSender, FramesWhole, OutType
<1>3. ASSUME NEW w \in Writers, SendLock(w) PROVE IInv'
  <2>1. /\ out \in OutType /\ out.holds = {} /\ out' = [out EXCEPT !.holds = {w}] /\ up' = up
    BY <1>3 DEF SendLock, IInv, OneSender
  <2>2. /\ out' \in OutType /\ out'.holds = {w} /\ out'.put = out.put /\ out'.torn = out.torn
    BY <2>1 DEF OutType
  <2> QED
    BY <2>1, <2>2 DEF IInv, OneSender, FramesWhole
<1>4. CASE \E w \in Writers : SendLock(w) \/ SendReturns(w) \/ \E n \in 1..FrameSize : SendPart(w, n)
  BY <1>3, <1>4, PartInv, ReturnsInv
<1>5. CASE \/ \E n \in 1..job.want : Recv(n)
           \/ RecvFails \/ Begin \/ Dispatch \/ RespondStarved \/ Header \/ Continue
           \/ Answer \/ DrainStarved \/ Rest \/ UNCHANGED vars
  BY <1>2, <1>5 DEF Recv, RecvFails, Begin, Dispatch, RespondStarved, Header, Continue,
                    Answer, DrainStarved, Rest, vars
<1> QED
  BY <1>1, <1>4, <1>5 DEF Next

\* Two workers that answer and notify one client at once, each in as many pieces as
\* send makes of it, never mix their frames, and while the connection works none
\* stays unfinished.
THEOREM FramesCorrect ==
  ASSUME FrameSize \in Nat, Messages \in Nat
  PROVE  Spec => []FramesWhole
<1>1. Init => IInv
  BY InitInv
<1>2. IInv /\ [Next]_vars => IInv'
  BY NextInv
<1>3. IInv => FramesWhole
  BY DEF IInv
<1> QED
  BY <1>1, <1>2, <1>3, PTL DEF Spec

-----------------------------------------------------------------------------
(* What the client sends.                                                  *)

\* The pieces of todo have n bytes: f counts what is left after each.
Pieces(todo, n) ==
  \E f \in [0..Len(todo) -> Nat] :
    /\ f[0] = n /\ f[Len(todo)] = 0
    /\ \A i \in 1..Len(todo) : f[i - 1] = todo[i] + f[i]

\* When there are no more pieces all the bytes are taken.
LEMMA PiecesNone ==
  ASSUME NEW n, Pieces(<<>>, n)
  PROVE  n = 0
BY DEF Pieces

\* A piece taken leaves the others.
LEMMA PiecesTail ==
  ASSUME NEW todo \in Seq(Nat), todo # <<>>, NEW n, Pieces(todo, n)
  PROVE  /\ n \in Nat /\ Head(todo) \in Nat /\ Tail(todo) \in Seq(Nat)
         /\ Pieces(Tail(todo), n - Head(todo))
<1> DEFINE t == Tail(todo)
<1>1. /\ Head(todo) = todo[1] /\ Head(todo) \in Nat /\ t \in Seq(Nat) /\ Len(t) = Len(todo) - 1
      /\ \A i \in 1..Len(t) : t[i] = todo[i + 1]
  BY HeadTailProperties
<1>2. Len(t) \in Nat /\ Len(todo) = Len(t) + 1
  BY <1>1, LenProperties
<1>3. PICK f \in [0..Len(todo) -> Nat] :
        /\ f[0] = n /\ f[Len(todo)] = 0
        /\ \A i \in 1..Len(todo) : f[i - 1] = todo[i] + f[i]
  BY DEF Pieces
<1> HIDE DEF t
<1> DEFINE g == [i \in 0..Len(t) |-> f[i + 1]]
<1>4. \A i \in 0..Len(t) : i + 1 \in 0..Len(todo) /\ i + 1 \in 1..Len(todo)
  BY <1>2
<1>5. g \in [0..Len(t) -> Nat] /\ \A i \in 0..Len(t) : g[i] = f[i + 1]
  BY <1>4
<1> HIDE DEF g
<1>6. f[0] \in Nat /\ f[1] \in Nat /\ f[0] = todo[1] + f[1]
  <2>1. 0 \in 0..Len(todo) /\ 1 \in 0..Len(todo) /\ 1 \in 1..Len(todo) /\ 1 - 1 = 0
    BY <1>2
  <2>2. f[1 - 1] = todo[1] + f[1]
    BY <1>3, <2>1
  <2> QED
    BY <1>3, <2>1, <2>2
<1>7. g[0] = n - Head(todo)
  BY <1>1, <1>2, <1>3, <1>5, <1>6
<1>8. g[Len(t)] = 0
  BY <1>2, <1>3, <1>5
<1>9. ASSUME NEW i \in 1..Len(t) PROVE g[i - 1] = t[i] + g[i]
  <2>1. i - 1 \in 0..Len(t) /\ i \in 0..Len(t) /\ (i - 1) + 1 = i /\ (i + 1) - 1 = i
        /\ i + 1 \in 1..Len(todo)
    BY <1>2
  <2>2. g[i - 1] = f[i] /\ g[i] = f[i + 1] /\ t[i] = todo[i + 1]
    BY <1>1, <1>5, <2>1
  <2>3. f[(i + 1) - 1] = todo[i + 1] + f[i + 1]
    BY <1>3, <2>1
  <2> QED
    BY <2>1, <2>2, <2>3
<1>10. Pieces(t, n - Head(todo))
  BY <1>5, <1>7, <1>8, <1>9 DEF Pieces
<1> QED
  BY <1>1, <1>3, <1>6, <1>10 DEF t

\* The lengths a request announces are those of what follows its header.
LEMMA PiecesParts ==
  ASSUME NEW parts \in Seq(Nat), Len(parts) <= 2
  PROVE  Sum(parts) \in Nat /\ Pieces(parts, Sum(parts))
<1>1. Len(parts) \in Nat /\ DOMAIN parts = 1..Len(parts) /\ \A i \in 1..Len(parts) : parts[i] \in Nat
  BY LenProperties
<1>2. CASE Len(parts) = 0
  <2>1. parts = <<>>
    BY <1>2, EmptySeq
  <2> DEFINE f == [i \in 0..0 |-> 0]
  <2>2. f \in [0..Len(parts) -> Nat] /\ f[0] = 0 /\ f[Len(parts)] = 0
    BY <1>2
  <2>3. \A i \in 1..Len(parts) : FALSE
    BY <1>2
  <2>4. Sum(parts) = 0
    BY <2>1 DEF Sum
  <2> QED
    BY <2>2, <2>3, <2>4 DEF Pieces
<1>3. CASE Len(parts) = 1
  <2>1. parts # <<>> /\ parts[1] \in Nat
    BY <1>1, <1>3, EmptySeq
  <2> DEFINE f == [i \in 0..1 |-> IF i = 0 THEN parts[1] ELSE 0]
  <2>2. f \in [0..Len(parts) -> Nat] /\ f[0] = parts[1] /\ f[1] = 0
    BY <1>3, <2>1
  <2> HIDE DEF f
  <2>3. \A i \in 1..Len(parts) : f[i - 1] = parts[i] + f[i]
    BY <1>3, <2>1, <2>2
  <2>4. Sum(parts) = parts[1]
    BY <1>3, <2>1 DEF Sum
  <2> QED
    BY <1>3, <2>1, <2>2, <2>3, <2>4 DEF Pieces
<1>4. CASE Len(parts) = 2
  <2>1. parts # <<>> /\ parts[1] \in Nat /\ parts[2] \in Nat
    BY <1>1, <1>4, EmptySeq
  <2> DEFINE f == [i \in 0..2 |-> IF i = 0 THEN parts[1] + parts[2]
                                  ELSE IF i = 1 THEN parts[2] ELSE 0]
  <2>2. f \in [0..Len(parts) -> Nat] /\ f[0] = parts[1] + parts[2] /\ f[1] = parts[2] /\ f[2] = 0
    BY <1>4, <2>1
  <2> HIDE DEF f
  <2>3. ASSUME NEW i \in 1..Len(parts) PROVE f[i - 1] = parts[i] + f[i]
    <3>1. i = 1 \/ i = 2
      BY <1>4
    <3>2. CASE i = 1
      BY <2>1, <2>2, <3>2
    <3>3. CASE i = 2
      BY <2>1, <2>2, <3>3
    <3> QED
      BY <3>1, <3>2, <3>3
  <2>4. Sum(parts) = parts[1] + parts[2] /\ parts[1] + parts[2] \in Nat
    BY <1>4, <2>1 DEF Sum
  <2> QED
    BY <1>4, <2>2, <2>3, <2>4 DEF Pieces
<1> QED
  BY <1>1, <1>2, <1>3, <1>4

\* What div gives: enough pieces of size c for n bytes, and none too many.
LEMMA EnoughPieces ==
  ASSUME NEW n \in Nat, NEW c \in Nat \ {0}
  PROVE  LET k == (n + c - 1) \div c
         IN  k \in Nat /\ n <= k * c /\ \A i \in 1..k : (i - 1) * c < n
<1> DEFINE k == (n + c - 1) \div c
           m == n + c - 1
<1>1. m \in Nat
  OBVIOUS
<1>2. k \in Nat /\ c * k <= m /\ m < c * k + c
  BY <1>1
<1> QED
  BY <1>2

\* sockutil_drain asks for all the bytes it was told of, the last time for what is
\* left of them.
LEMMA DrainAll ==
  ASSUME ChunkSize \in Nat \ {0}, NEW n \in Nat
  PROVE  DrainPieces(n) \in Seq(Nat) /\ Pieces(DrainPieces(n), n)
<1> DEFINE c == ChunkSize
           k == (n + c - 1) \div c
           f == [i \in 0..k |-> IF n < i * c THEN 0 ELSE n - i * c]
           d == DrainPieces(n)
<1>1. k \in Nat /\ n <= k * c /\ \A i \in 1..k : (i - 1) * c < n
  BY EnoughPieces
<1>2. d = [i \in 1..k |-> Umin(n - (i - 1) * c, c)]
  BY DEF DrainPieces
<1>3. c \in Nat \ {0} /\ \A i \in 0..k : i * c \in Nat
  BY <1>1
<1>4. ASSUME NEW i \in 1..k PROVE i * c \in Nat /\ (i - 1) * c = i * c - c /\ i - 1 \in 0..k /\ i \in 0..k
  BY <1>1
<1>5. k * c \in Nat /\ k \in 0..k /\ 0 * c = 0 /\ 0 \in 0..k
  BY <1>1
<1> HIDE DEF c, k
<1>6. \A i \in 0..k : f[i] = IF n < i * c THEN 0 ELSE n - i * c
  OBVIOUS
<1>7. f \in [0..k -> Nat]
  BY <1>3
<1> HIDE DEF f
<1>8. f[0] = n /\ f[k] = 0
  BY <1>1, <1>5, <1>6
<1>9. ASSUME NEW i \in 1..k
      PROVE  Umin(n - (i - 1) * c, c) \in Nat /\ f[i - 1] = Umin(n - (i - 1) * c, c) + f[i]
  <2> DEFINE x == i * c
  <2>1. x \in Nat /\ (i - 1) * c = x - c /\ x - c < n /\ i - 1 \in 0..k /\ i \in 0..k
    BY <1>1, <1>4
  <2>2. f[i] = IF n < x THEN 0 ELSE n - x
    BY <1>6, <2>1
  <2>3. f[i - 1] = IF n < x - c THEN 0 ELSE n - (x - c)
    BY <1>6, <2>1
  <2> HIDE DEF x
  <2> QED
    BY <1>3, <2>1, <2>2, <2>3 DEF Umin
<1> HIDE DEF d
<1>10. d \in [1..k -> Nat] /\ \A i \in 1..k : d[i] = Umin(n - (i - 1) * c, c)
  BY <1>2, <1>9
<1>11. d \in Seq(Nat) /\ Len(d) = k
  BY <1>1, <1>10
<1>12. Pieces(d, n)
  <2>1. \A i \in 1..Len(d) : f[i - 1] = d[i] + f[i]
    BY <1>9, <1>10, <1>11
  <2> QED
    BY <1>7, <1>8, <1>11, <2>1 DEF Pieces
<1> QED
  BY <1>11, <1>12 DEF d

\* The requests stand one behind the other in what the client sends.
LEMMA StartsAre ==
  ASSUME WireAssumption, NEW rs \in [1..Length -> Requests]
  PROVE  /\ StartOf(rs, 1) = 0
         /\ \A i \in 1..Length : StartOf(rs, i + 1) = StartOf(rs, i) + SizeOf(rs[i])
         /\ \A i \in 1..(Length + 1) : StartOf(rs, i) \in Nat
<1> DEFINE n == Length
           g == [p \in (1..n) \X Nat |-> p[2] + SizeOf(rs[p[1]])]
           F(x) == [k \in 1..(n + 1) |-> IF k = 1 THEN 0 ELSE x[k - 1] + SizeOf(rs[k - 1])]
           at == CHOOSE x : x = F(x)
<1>0. \A i : StartOf(rs, i) = at[i]
  BY DEF StartOf
<1> HIDE DEF at
<1>1. n \in Nat
  BY DEF WireAssumption
<1>2. \A i \in 1..n : SizeOf(rs[i]) \in Nat
  <2> SUFFICES ASSUME NEW i \in 1..n PROVE SizeOf(rs[i]) \in Nat
    OBVIOUS
  <2>1. Sum(rs[i].parts) \in Nat
    BY PiecesParts DEF WireAssumption
  <2> QED
    BY <2>1 DEF SizeOf, HeaderSize
<1>3. \A i \in 1..n, x \in Nat : g[<<i, x>>] = x + SizeOf(rs[i]) /\ g[<<i, x>>] \in Nat
  BY <1>2
<1> HIDE DEF g
<1>4. PICK f \in [0..n -> Nat] : f[0] = 0 /\ \A i \in 1..n : f[i] = g[<<i, f[i - 1]>>]
  <2>1. \E f \in [0..n -> Nat] : Iterates(f, n, 0, g)
    BY <1>1, <1>3, Recursion
  <2> QED
    BY <2>1 DEF Iterates
<1> DEFINE h == [k \in 1..(n + 1) |-> f[k - 1]]
<1> HIDE DEF n
<1>5. h = F(h)
  <2>1. ASSUME NEW k \in 1..(n + 1)
        PROVE  h[k] = IF k = 1 THEN 0 ELSE h[k - 1] + SizeOf(rs[k - 1])
    <3>1. CASE k = 1
      BY <1>1, <1>4, <3>1
    <3>2. CASE k # 1
      <4>1. k - 1 \in 1..n /\ k - 1 \in 1..(n + 1) /\ (k - 1) - 1 \in 0..n
        BY <1>1, <3>2
      <4>2. h[k] = f[k - 1] /\ h[k - 1] = f[(k - 1) - 1]
        BY <4>1
      <4>3. f[k - 1] = g[<<k - 1, f[(k - 1) - 1]>>] /\ f[(k - 1) - 1] \in Nat
        BY <1>4, <4>1
      <4> QED
        BY <1>3, <3>2, <4>1, <4>2, <4>3
    <3> QED
      BY <3>1, <3>2
  <2> HIDE DEF h
  <2>2. h = [k \in 1..(n + 1) |-> h[k]]
    BY DEF h
  <2> QED
    BY <2>1, <2>2
<1> HIDE DEF F, h
<1>6. at = F(at)
  BY <1>5 DEF at
<1>7. \A k \in 1..(n + 1) : at[k] = IF k = 1 THEN 0 ELSE at[k - 1] + SizeOf(rs[k - 1])
  BY <1>6 DEF F
<1>8. at[1] = 0
  BY <1>1, <1>7
<1>9. ASSUME NEW i \in 1..n PROVE at[i + 1] = at[i] + SizeOf(rs[i])
  <2>1. i + 1 \in 1..(n + 1) /\ i + 1 # 1 /\ (i + 1) - 1 = i
    BY <1>1
  <2> QED
    BY <1>7, <2>1
<1>10. \A i \in 1..(n + 1) : at[i] \in Nat
  <2> DEFINE T == {m \in Nat : m <= n => at[m + 1] \in Nat}
  <2>1. 0 \in T
    BY <1>8
  <2>2. ASSUME NEW m \in T PROVE m + 1 \in T
    <3>1. CASE m + 1 <= n
      <4>1. m \in Nat /\ m <= n /\ at[m + 1] \in Nat /\ m + 1 \in 1..n /\ m + 1 \in Nat
        BY <1>1, <3>1
      <4>2. at[(m + 1) + 1] = at[m + 1] + SizeOf(rs[m + 1]) /\ SizeOf(rs[m + 1]) \in Nat
        BY <1>2, <1>9, <4>1 DEF n
      <4> QED
        BY <4>1, <4>2
    <3>2. CASE ~(m + 1 <= n)
      BY <3>2
    <3> QED
      BY <3>1, <3>2
  <2>3. T \in SUBSET Nat
    OBVIOUS
  <2> HIDE DEF T
  <2>4. T = Nat
    BY <2>1, <2>2, <2>3, SetInduction
  <2> SUFFICES ASSUME NEW i \in 1..(n + 1) PROVE at[i] \in Nat
    OBVIOUS
  <2>5. i - 1 \in Nat /\ i - 1 <= n /\ (i - 1) + 1 = i
    BY <1>1
  <2>6. i - 1 \in T
    BY <2>4, <2>5
  <2> QED
    BY <2>5, <2>6 DEF T
<1> QED
  BY <1>0, <1>8, <1>9, <1>10 DEF n

\* The worker's local variables.  Only a receive waits for bytes, and a worker goes
\* on to the next request only when all the bytes of one came.
Worker(j) ==
  /\ j = [pc |-> j.pc, cur |-> j.cur, item |-> j.item, size |-> j.size, want |-> j.want,
          todo |-> j.todo, whole |-> j.whole]
  /\ j.pc \in {"idle", "opcode", "header", "payload", "drain", "send", "end"}
  /\ j.cur \in 1..(Length + 1)
  /\ j.pc \notin {"idle", "end"} => j.cur \in 1..Length
  /\ j.size \in 0..MaxPacket /\ j.want \in Nat /\ j.todo \in Seq(Nat) /\ j.whole \in BOOLEAN
  /\ j.pc \in {"idle", "send", "end"} => j.want = 0
  /\ j.pc = "idle" => j.whole

\* Where in the requests rs a worker j that has taken t bytes is.
Place(rs, t, j) ==
  /\ j.pc = "idle" => t = StartOf(rs, j.cur)
  /\ j.pc = "opcode" => t + j.want = StartOf(rs, j.cur) + 1
  /\ j.pc = "header" => rs[j.cur].op # "default" /\ t + j.want = StartOf(rs, j.cur) + 2
  /\ j.pc \in {"payload", "drain"} => Pieces(j.todo, StartOf(rs, j.cur + 1) - t - j.want)
  /\ j.pc = "send" => t = StartOf(rs, j.cur + 1)

Placed == starved \/ ~job.whole \/ Place(reqs, taken, job)

Streams ==
  /\ reqs \in [1..Length -> Requests]
  /\ taken \in 0..StartOf(reqs, Length + 1)
  /\ up \in BOOLEAN /\ starved \in BOOLEAN

TakeInv == Streams /\ Worker(job) /\ Placed

\* A worker answers when it is done with the request, and waits for the lock and for
\* send before it takes the next.
SyncInv == IInv /\ TakeInv /\ ("reply" \in out.holds => job.pc = "send")

\* The first request is where the stream starts.
LEMMA InitSync ==
  ASSUME WireAssumption, Init
  PROVE  SyncInv
<1>1. IInv
  BY InitInv DEF WireAssumption
<1>2. reqs \in [1..Length -> Requests] /\ taken = 0 /\ up = TRUE /\ starved = FALSE
      /\ out.holds = {}
  BY DEF Init
<1>3. StartOf(reqs, 1) = 0 /\ StartOf(reqs, Length + 1) \in Nat
  BY <1>2, StartsAre DEF WireAssumption
<1>4. /\ job = [pc |-> "idle", cur |-> 1, item |-> Nothing, size |-> 0, want |-> 0,
                todo |-> <<>>, whole |-> TRUE]
  BY DEF Init
<1>5. Worker(job)
  BY <1>4 DEF Worker, WireAssumption
<1>6. Place(reqs, taken, job)
  BY <1>2, <1>3, <1>4 DEF Place
<1>7. 0 \in 0..StartOf(reqs, Length + 1)
  BY <1>3
<1>8. Streams
  BY <1>2, <1>7 DEF Streams
<1>9. Placed
  BY <1>6 DEF Placed
<1>10. ~("reply" \in out.holds)
  BY <1>2
<1> QED
  BY <1>1, <1>5, <1>8, <1>9, <1>10 DEF SyncInv, TakeInv

\* A receive moves what it was waiting for to what is taken.
LEMMA RecvSync ==
  ASSUME WireAssumption, TakeInv, NEW n \in 1..job.want, Recv(n)
  PROVE  TakeInv' /\ job'.pc = job.pc
<1>1. /\ Worker(job) /\ Streams /\ Placed
  BY DEF TakeInv
<1>2. /\ n <= job.want /\ taken + n <= StartOf(reqs, Length + 1) /\ taken' = taken + n
      /\ reqs' = reqs /\ up' = up /\ starved' = starved
  BY DEF Recv, Start
<1>3. job' = [job EXCEPT !.want = @ - n]
  BY DEF Recv
<1>4. /\ job'.want = job.want - n /\ job'.pc = job.pc /\ job'.cur = job.cur
      /\ job'.todo = job.todo /\ job'.whole = job.whole /\ job'.size = job.size
      /\ job'.item = job.item
      /\ job' = [pc |-> job'.pc, cur |-> job'.cur, item |-> job'.item, size |-> job'.size,
                 want |-> job'.want, todo |-> job'.todo, whole |-> job'.whole]
  BY <1>1, <1>3 DEF Worker
<1>5. job.want \in Nat /\ n \in Nat \ {0} /\ n <= job.want
  BY <1>1, <1>2 DEF Worker
<1>6. job'.want \in Nat /\ job.pc \notin {"idle", "send", "end"}
  BY <1>1, <1>4, <1>5 DEF Worker
<1>7. Worker(job')
  BY <1>1, <1>4, <1>6 DEF Worker
<1>8. reqs \in [1..Length -> Requests] /\ StartOf(reqs, Length + 1) \in Nat /\ taken \in Nat
  BY <1>1, StartsAre DEF Streams, WireAssumption
<1>9. Streams'
  BY <1>1, <1>2, <1>5, <1>8 DEF Streams
<1>10. job.cur \in 1..Length /\ job.cur + 1 \in 1..(Length + 1)
  BY <1>1, <1>6 DEF Worker, WireAssumption
<1>11. StartOf(reqs, job.cur + 1) \in Nat
  BY <1>8, <1>10, StartsAre
<1>12. ASSUME Place(reqs, taken, job) PROVE Place(reqs, taken', job')
  <2>1. taken' + job'.want = taken + job.want
    BY <1>2, <1>4, <1>5, <1>8
  <2>2. \A x \in Nat : x - taken' - job'.want = x - taken - job.want
    BY <1>2, <1>4, <1>5, <1>8
  <2> QED
    BY <1>4, <1>6, <1>11, <1>12, <2>1, <2>2 DEF Place
<1>13. Placed'
  BY <1>1, <1>2, <1>4, <1>12 DEF Placed
<1> QED
  BY <1>4, <1>7, <1>9, <1>13 DEF TakeInv

\* A step of the handler that takes nothing leaves the stream as it is.
LEMMA StreamStays ==
  ASSUME WireAssumption, Streams, UNCHANGED <<reqs, taken, up>>, starved' \in BOOLEAN
  PROVE  /\ Streams' /\ taken \in Nat
         /\ \A i \in 1..(Length + 1) : StartOf(reqs, i) \in Nat
         /\ \A i \in 1..Length : StartOf(reqs, i + 1) = StartOf(reqs, i) + SizeOf(reqs[i])
<1>1. reqs \in [1..Length -> Requests]
  BY DEF Streams
<1>2. /\ \A i \in 1..(Length + 1) : StartOf(reqs, i) \in Nat
      /\ \A i \in 1..Length : StartOf(reqs, i + 1) = StartOf(reqs, i) + SizeOf(reqs[i])
  BY <1>1, StartsAre
<1>3. Length + 1 \in 1..(Length + 1)
  BY DEF WireAssumption
<1> QED
  BY <1>1, <1>2, <1>3 DEF Streams

\* What a step that changes j to k must leave right.
Keeps(k) == Worker(k) /\ (starved' \/ ~k.whole \/ Place(reqs, taken, k))

\* A receive that fails leaves bytes behind, and the worker remembers it.
LEMMA RecvFailsSync ==
  ASSUME WireAssumption, TakeInv, RecvFails
  PROVE  Keeps(job')
<1>1. Worker(job)
  BY DEF TakeInv
<1>2. job.want > 0 /\ job' = [job EXCEPT !.want = 0, !.whole = FALSE,
                                         !.todo = IF job.pc = "drain" THEN <<>> ELSE @]
  BY DEF RecvFails
<1>3. job.pc \notin {"idle", "send", "end"}
  BY <1>1, <1>2 DEF Worker
<1>4. job' = [pc |-> job.pc, cur |-> job.cur, item |-> job.item, size |-> job.size, want |-> 0,
              todo |-> IF job.pc = "drain" THEN <<>> ELSE job.todo, whole |-> FALSE]
  BY <1>1, <1>2 DEF Worker
<1>5. (IF job.pc = "drain" THEN <<>> ELSE job.todo) \in Seq(Nat)
  BY <1>1 DEF Worker
<1>6. Worker(job')
  BY <1>1, <1>3, <1>4, <1>5 DEF Worker
<1> QED
  BY <1>4, <1>6 DEF Keeps

\* The worker starts where the request does.
LEMMA BeginSync ==
  ASSUME WireAssumption, TakeInv, Begin
  PROVE  Keeps(job')
<1>1. Worker(job) /\ Streams
  BY DEF TakeInv
<1>2. /\ job.cur <= Length /\ taken = StartOf(reqs, job.cur)
      /\ job' = [job EXCEPT !.pc = "opcode", !.want = 1, !.size = 1, !.item = Nothing,
                            !.whole = TRUE]
      /\ UNCHANGED <<reqs, taken, up, starved>>
  BY DEF Begin, Start
<1>3. job' = [pc |-> "opcode", cur |-> job.cur, item |-> Nothing, size |-> 1, want |-> 1,
              todo |-> job.todo, whole |-> TRUE]
  BY <1>1, <1>2 DEF Worker
<1>4. job.cur \in 1..Length
  BY <1>1, <1>2 DEF Worker, WireAssumption
<1>5. Worker(job')
  BY <1>1, <1>3, <1>4 DEF Worker, WireAssumption
<1>6. Place(reqs, taken, job')
  BY <1>2, <1>3 DEF Place
<1> QED
  BY <1>5, <1>6 DEF Keeps

\* One byte is the opcode, and all there is of a request that has none that exists.
LEMMA DispatchSync ==
  ASSUME WireAssumption, TakeInv, Dispatch
  PROVE  Keeps(job')
<1> DEFINE op == IF job.whole THEN reqs[job.cur].op ELSE "default"
<1>1. Worker(job) /\ Streams /\ Placed
  BY DEF TakeInv
<1>2. job.pc = "opcode" /\ job.want = 0 /\ UNCHANGED <<reqs, taken, up, starved>>
  BY DEF Dispatch, Returned
<1>3. job' = IF op = "default" THEN [job EXCEPT !.pc = "send"]
             ELSE [job EXCEPT !.pc = "header", !.item.op = op, !.want = HeaderSize]
  BY DEF Dispatch
<1>4. /\ taken \in Nat /\ job.cur \in 1..Length /\ StartOf(reqs, job.cur) \in Nat
      /\ StartOf(reqs, job.cur + 1) = StartOf(reqs, job.cur) + SizeOf(reqs[job.cur])
  <2>1. job.cur \in 1..Length /\ job.cur \in 1..(Length + 1)
    BY <1>1, <1>2 DEF Worker
  <2>2. starved' \in BOOLEAN
    BY <1>1, <1>2 DEF Streams
  <2> QED
    BY <1>1, <1>2, <2>1, <2>2, StreamStays
<1>5. CASE op = "default"
  <2>1. job' = [pc |-> "send", cur |-> job.cur, item |-> job.item, size |-> job.size,
                want |-> job.want, todo |-> job.todo, whole |-> job.whole]
    BY <1>1, <1>3, <1>5 DEF Worker
  <2>2. Worker(job')
    BY <1>1, <1>2, <1>4, <2>1 DEF Worker
  <2>3. ASSUME job.whole, Place(reqs, taken, job) PROVE Place(reqs, taken, job')
    <3>1. taken = StartOf(reqs, job.cur) + 1
      BY <1>2, <1>4, <2>3 DEF Place
    <3>2. SizeOf(reqs[job.cur]) = 1
      BY <1>5, <2>3 DEF SizeOf
    <3> QED
      BY <1>4, <2>1, <3>1, <3>2 DEF Place
  <2> QED
    BY <1>1, <1>2, <2>1, <2>2, <2>3 DEF Keeps, Placed
<1>6. CASE op # "default"
  <2>1. job' = [pc |-> "header", cur |-> job.cur, item |-> job'.item, size |-> job.size,
                want |-> 1, todo |-> job.todo, whole |-> job.whole]
    BY <1>1, <1>3, <1>6 DEF Worker, HeaderSize
  <2>2. Worker(job')
    BY <1>1, <1>2, <1>4, <2>1 DEF Worker
  <2>3. ASSUME job.whole, Place(reqs, taken, job) PROVE Place(reqs, taken, job')
    <3>1. taken = StartOf(reqs, job.cur) + 1
      BY <1>2, <1>4, <2>3 DEF Place
    <3>2. reqs[job.cur].op # "default"
      BY <1>6, <2>3
    <3>3. taken + 1 = StartOf(reqs, job.cur) + 2
      BY <1>4, <3>1
    <3> QED
      BY <2>1, <3>2, <3>3 DEF Place
  <2> QED
    BY <1>1, <1>2, <2>1, <2>2, <2>3 DEF Keeps, Placed
<1> QED
  BY <1>5, <1>6

\* A request refused leaves as many bytes to drain as one accepted has to receive.
LEMMA HeaderSync ==
  ASSUME WireAssumption, TakeInv, Header
  PROVE  Keeps(job')
<1>1. Worker(job) /\ Streams /\ Placed
  BY DEF TakeInv
<1>2. job.pc = "header" /\ job.want = 0 /\ UNCHANGED <<reqs, taken, up, starved>>
  BY DEF Header, Returned
<1>3. PICK r \in IF job.whole THEN {reqs[job.cur]} ELSE {q \in Requests : q.op = job.item.op} :
       job' = [job EXCEPT !.item = r,
                          !.pc   = IF Refuses(r) THEN "drain" ELSE "payload",
                          !.todo = IF Refuses(r) THEN DrainPieces(Sum(r.parts)) ELSE r.parts,
                          !.size = 1 + HeaderSize + IF Refuses(r) THEN 0 ELSE Sum(r.parts)]
  BY DEF Header
<1> DEFINE pc == IF Refuses(r) THEN "drain" ELSE "payload"
           todo == IF Refuses(r) THEN DrainPieces(Sum(r.parts)) ELSE r.parts
           size == 1 + HeaderSize + IF Refuses(r) THEN 0 ELSE Sum(r.parts)
           total == Sum(r.parts)
<1>4. job' = [pc |-> pc, cur |-> job.cur, item |-> r, size |-> size,
              want |-> job.want, todo |-> todo, whole |-> job.whole]
  BY <1>1, <1>3 DEF Worker
<1>5. /\ taken \in Nat /\ job.cur \in 1..Length /\ StartOf(reqs, job.cur) \in Nat
      /\ StartOf(reqs, job.cur + 1) = StartOf(reqs, job.cur) + SizeOf(reqs[job.cur])
  <2>1. job.cur \in 1..Length /\ job.cur \in 1..(Length + 1)
    BY <1>1, <1>2 DEF Worker
  <2>2. starved' \in BOOLEAN
    BY <1>1, <1>2 DEF Streams
  <2> QED
    BY <1>1, <1>2, <2>1, <2>2, StreamStays
<1>6. r \in Requests
  BY <1>1, <1>3, <1>5 DEF Streams
<1>7. r.parts \in Seq(Nat) /\ total \in Nat /\ Pieces(r.parts, total)
  BY <1>6, PiecesParts DEF WireAssumption
<1>8. todo \in Seq(Nat) /\ Pieces(todo, total)
  <2>1. DrainPieces(total) \in Seq(Nat) /\ Pieces(DrainPieces(total), total)
    BY <1>7, DrainAll DEF WireAssumption
  <2> QED
    BY <1>7, <2>1
<1>9. size \in 0..MaxPacket
  <2>1. CASE Refuses(r)
    BY <2>1 DEF HeaderSize, WireAssumption
  <2>2. CASE ~Refuses(r)
    <3>1. ~(1 + HeaderSize + total > MaxPacket)
      BY <2>2 DEF Refuses, Overflow
    <3> HIDE DEF total
    <3>2. size = 2 + total
      BY <1>7, <2>2 DEF HeaderSize, total
    <3> QED
      BY <1>7, <3>1, <3>2 DEF HeaderSize, WireAssumption
  <2> QED
    BY <2>1, <2>2
<1>10. pc \in {"payload", "drain"}
  OBVIOUS
<1> HIDE DEF pc, todo, size, total
<1>11. Worker(job')
  BY <1>1, <1>2, <1>4, <1>5, <1>8, <1>9, <1>10 DEF Worker
<1>12. ASSUME job.whole, Place(reqs, taken, job) PROVE Place(reqs, taken, job')
  <2>1. taken = StartOf(reqs, job.cur) + 2 /\ reqs[job.cur].op # "default" /\ r = reqs[job.cur]
    BY <1>2, <1>3, <1>5, <1>12 DEF Place
  <2>2. SizeOf(r) = 2 + total
    BY <1>7, <2>1 DEF SizeOf, HeaderSize, total
  <2>3. StartOf(reqs, job.cur + 1) - taken - 0 = total
    BY <1>5, <1>7, <2>1, <2>2
  <2> QED
    BY <1>2, <1>4, <1>8, <1>10, <2>3 DEF Place
<1> QED
  BY <1>1, <1>2, <1>4, <1>11, <1>12 DEF Keeps, Placed

\* The next receive waits for the next piece.
LEMMA ContinueSync ==
  ASSUME WireAssumption, TakeInv, Continue
  PROVE  Keeps(job')
<1>1. Worker(job) /\ Streams /\ Placed
  BY DEF TakeInv
<1>2. /\ job.pc \in {"payload", "drain"} /\ job.want = 0 /\ job.todo # <<>>
      /\ UNCHANGED <<reqs, taken, up, starved>>
  BY DEF Continue
<1>3. job' = [job EXCEPT !.want = Head(job.todo), !.todo = Tail(@)]
  BY DEF Continue
<1>4. job' = [pc |-> job.pc, cur |-> job.cur, item |-> job.item, size |-> job.size,
              want |-> Head(job.todo), todo |-> Tail(job.todo), whole |-> job.whole]
  BY <1>1, <1>3 DEF Worker
<1>5. job.todo \in Seq(Nat) /\ Head(job.todo) \in Nat /\ Tail(job.todo) \in Seq(Nat)
  BY <1>1, <1>2, HeadTailProperties DEF Worker
<1>6. Worker(job')
  BY <1>1, <1>2, <1>4, <1>5 DEF Worker
<1>7. ASSUME Place(reqs, taken, job) PROVE Place(reqs, taken, job')
  <2> DEFINE n == StartOf(reqs, job.cur + 1) - taken - job.want
  <2>1. Pieces(job.todo, n)
    BY <1>2, <1>7 DEF Place
  <2>2. n \in Nat /\ Pieces(Tail(job.todo), n - Head(job.todo))
    BY <1>2, <1>5, <2>1, PiecesTail
  <2>3. /\ taken \in Nat /\ StartOf(reqs, job.cur + 1) \in Nat
    <3>1. job.cur + 1 \in 1..(Length + 1)
      BY <1>1, <1>2 DEF Worker, WireAssumption
    <3>2. starved' \in BOOLEAN
      BY <1>1, <1>2 DEF Streams
    <3> QED
      BY <1>1, <1>2, <3>1, <3>2, StreamStays
  <2>4. n - Head(job.todo) = StartOf(reqs, job.cur + 1) - taken - Head(job.todo)
    BY <1>2, <1>5, <2>3
  <2> HIDE DEF n
  <2>5. Pieces(Tail(job.todo), StartOf(reqs, job.cur + 1) - taken - Head(job.todo))
    BY <2>2, <2>4
  <2> QED
    BY <1>2, <1>4, <2>5 DEF Place
<1> QED
  BY <1>1, <1>2, <1>4, <1>6, <1>7 DEF Keeps, Placed

\* No piece is left: the request is taken.
LEMMA AnswerSync ==
  ASSUME WireAssumption, TakeInv, Answer
  PROVE  Keeps(job')
<1>1. Worker(job) /\ Streams /\ Placed
  BY DEF TakeInv
<1>2. /\ job.pc \in {"payload", "drain"} /\ job.want = 0 /\ job.todo = <<>>
      /\ UNCHANGED <<reqs, taken, up, starved>>
  BY DEF Answer
<1>3. job' = [job EXCEPT !.pc = "send"]
  BY DEF Answer
<1>4. job' = [pc |-> "send", cur |-> job.cur, item |-> job.item, size |-> job.size,
              want |-> job.want, todo |-> job.todo, whole |-> job.whole]
  BY <1>1, <1>3 DEF Worker
<1>5. Worker(job')
  BY <1>1, <1>2, <1>4 DEF Worker
<1>6. ASSUME Place(reqs, taken, job) PROVE Place(reqs, taken, job')
  <2>1. Pieces(<<>>, StartOf(reqs, job.cur + 1) - taken - job.want)
    BY <1>2, <1>6 DEF Place
  <2>2. StartOf(reqs, job.cur + 1) - taken - 0 = 0
    BY <1>2, <2>1, PiecesNone
  <2>3. taken \in Nat /\ StartOf(reqs, job.cur + 1) \in Nat
    <3>1. job.cur + 1 \in 1..(Length + 1)
      BY <1>1, <1>2 DEF Worker, WireAssumption
    <3>2. starved' \in BOOLEAN
      BY <1>1, <1>2 DEF Streams
    <3> QED
      BY <1>1, <1>2, <3>1, <3>2, StreamStays
  <2>4. taken = StartOf(reqs, job.cur + 1)
    BY <2>2, <2>3
  <2> QED
    BY <1>4, <2>4 DEF Place
<1> QED
  BY <1>1, <1>2, <1>4, <1>5, <1>6 DEF Keeps, Placed

\* Without memory the worker leaves bytes behind.
LEMMA StarvedSync ==
  ASSUME WireAssumption, TakeInv, RespondStarved \/ DrainStarved
  PROVE  Keeps(job') /\ starved' = TRUE
<1>1. Worker(job)
  BY DEF TakeInv
<1>2. job.pc \in {"header", "drain"} /\ starved' = TRUE
  BY DEF RespondStarved, DrainStarved, Returned
<1>3. CASE RespondStarved
  <2>1. job' = [job EXCEPT !.pc = "send", !.want = 0]
    BY <1>3 DEF RespondStarved
  <2>2. job' = [pc |-> "send", cur |-> job.cur, item |-> job.item, size |-> job.size,
                want |-> 0, todo |-> job.todo, whole |-> job.whole]
    BY <1>1, <2>1 DEF Worker
  <2>3. Worker(job')
    BY <1>1, <1>2, <2>2 DEF Worker
  <2> QED
    BY <1>2, <2>3 DEF Keeps
<1>4. CASE DrainStarved
  <2>1. job' = [job EXCEPT !.pc = "send", !.todo = <<>>] /\ job.want = 0
    BY <1>4 DEF DrainStarved, Returned
  <2>2. job' = [pc |-> "send", cur |-> job.cur, item |-> job.item, size |-> job.size,
                want |-> 0, todo |-> <<>>, whole |-> job.whole]
    BY <1>1, <2>1 DEF Worker
  <2>3. <<>> \in Seq(Nat)
    OBVIOUS
  <2>4. Worker(job')
    BY <1>1, <1>2, <2>2, <2>3 DEF Worker
  <2> QED
    BY <1>2, <2>4 DEF Keeps
<1> QED
  BY <1>3, <1>4

\* The answer is sent: the worker stands at the next request.
LEMMA ReplySync ==
  ASSUME WireAssumption, TakeInv, job.pc = "send", SendReturns("reply")
  PROVE  Keeps(job')
<1>1. Worker(job) /\ Streams /\ Placed
  BY DEF TakeInv
<1>2. UNCHANGED <<reqs, taken, up, starved>>
  BY DEF SendReturns
<1>3. job' = [job EXCEPT !.pc = IF job.whole THEN "idle" ELSE "end", !.cur = @ + 1]
  BY DEF SendReturns
<1>4. job' = [pc |-> IF job.whole THEN "idle" ELSE "end", cur |-> job.cur + 1,
              item |-> job.item, size |-> job.size,
              want |-> job.want, todo |-> job.todo, whole |-> job.whole]
  BY <1>1, <1>3 DEF Worker
<1>5. job.cur \in 1..Length /\ job.cur + 1 \in 1..(Length + 1) /\ job.want = 0
  BY <1>1 DEF Worker, WireAssumption
<1>6. Worker(job')
  BY <1>1, <1>4, <1>5 DEF Worker
<1>7. ASSUME job.whole, Place(reqs, taken, job) PROVE Place(reqs, taken, job')
  <2>1. taken = StartOf(reqs, job.cur + 1)
    BY <1>7 DEF Place
  <2> QED
    BY <1>4, <1>7, <2>1 DEF Place
<1> QED
  BY <1>1, <1>2, <1>4, <1>6, <1>7 DEF Keeps, Placed

\* Every step keeps the worker in step with the stream.
LEMMA NextSync ==
  ASSUME WireAssumption, SyncInv, [Next]_vars
  PROVE  SyncInv'
<1>0. IInv' /\ IInv /\ TakeInv /\ ("reply" \in out.holds => job.pc = "send") /\ FrameSize \in Nat
      /\ Streams
  BY NextInv DEF SyncInv, WireAssumption, TakeInv
<1>1. ASSUME UNCHANGED <<reqs, taken, up>>, starved' \in BOOLEAN, Keeps(job')
      PROVE  TakeInv'
  <2>1. Streams'
    BY <1>0, <1>1, StreamStays
  <2>2. Placed'
    BY <1>1 DEF Keeps, Placed
  <2> QED
    BY <1>1, <2>1, <2>2 DEF Keeps, TakeInv
<1>2. ASSUME UNCHANGED <<reqs, taken, starved, job>>, up' \in BOOLEAN
      PROVE  TakeInv'
  BY <1>0, <1>2 DEF TakeInv, Streams, Placed
<1>3. CASE Break
  <2>1. UNCHANGED <<reqs, taken, starved, job, out>> /\ up' \in BOOLEAN
    BY <1>3 DEF Break
  <2> QED
    BY <1>0, <1>2, <2>1 DEF SyncInv
<1>4. ASSUME NEW n \in 1..job.want, Recv(n) PROVE SyncInv'
  <2>1. TakeInv' /\ job'.pc = job.pc /\ out' = out
    BY <1>0, <1>4, RecvSync DEF Recv
  <2> QED
    BY <1>0, <2>1 DEF SyncInv
<1>5. CASE RecvFails
  <2>1. Keeps(job') /\ out' = out /\ UNCHANGED <<reqs, taken, up, starved>>
    BY <1>0, <1>5, RecvFailsSync DEF RecvFails
  <2>2. job.want > 0
    BY <1>5 DEF RecvFails
  <2>3. job.pc # "send"
    BY <1>0, <2>2 DEF TakeInv, Worker
  <2>4. starved' \in BOOLEAN
    BY <1>0, <2>1 DEF Streams
  <2> QED
    BY <1>0, <1>1, <2>1, <2>3, <2>4 DEF SyncInv
<1>6. CASE Begin \/ Dispatch \/ Header \/ Continue \/ Answer
  <2>1. Keeps(job')
    BY <1>0, <1>6, BeginSync, DispatchSync, HeaderSync, ContinueSync, AnswerSync
  <2>2. out' = out /\ UNCHANGED <<reqs, taken, up, starved>> /\ job.pc # "send"
    BY <1>6 DEF Begin, Dispatch, Header, Continue, Answer, Returned
  <2>3. starved' \in BOOLEAN
    BY <1>0, <2>2 DEF Streams
  <2> QED
    BY <1>0, <1>1, <2>1, <2>2, <2>3 DEF SyncInv
<1>7. CASE RespondStarved \/ DrainStarved
  <2>1. Keeps(job') /\ starved' \in BOOLEAN
    BY <1>0, <1>7, StarvedSync
  <2>2. out' = out /\ UNCHANGED <<reqs, taken, up>> /\ job.pc # "send"
    BY <1>7 DEF RespondStarved, DrainStarved, Returned
  <2> QED
    BY <1>0, <1>1, <2>1, <2>2 DEF SyncInv
<1>8. ASSUME NEW w \in Writers, SendLock(w) PROVE SyncInv'
  <2>1. UNCHANGED <<reqs, taken, up, job, starved>> /\ up' \in BOOLEAN
    BY <1>0, <1>8 DEF SendLock, Streams
  <2>2. out'.holds = {w}
    BY <1>0, <1>8 DEF SendLock, IInv, OneSender, OutType
  <2>3. w = "reply" => job.pc = "send"
    BY <1>8 DEF SendLock, Wants
  <2> QED
    BY <1>0, <1>2, <2>1, <2>2, <2>3 DEF SyncInv
<1>9. ASSUME NEW w \in Writers, NEW n \in 1..FrameSize, SendPart(w, n) PROVE SyncInv'
  <2>1. UNCHANGED <<reqs, taken, up, job, starved>> /\ up' \in BOOLEAN
    BY <1>0, <1>9 DEF SendPart, Streams
  <2>2. out'.holds = out.holds
    BY <1>0, <1>9 DEF SendPart, IInv, OneSender, OutType
  <2> QED
    BY <1>0, <1>2, <2>1, <2>2 DEF SyncInv
<1>10. ASSUME NEW w \in Writers, SendReturns(w) PROVE SyncInv'
  <2>1. UNCHANGED <<reqs, taken, up, starved>> /\ up' \in BOOLEAN /\ starved' \in BOOLEAN
    BY <1>0, <1>10 DEF SendReturns, Streams
  <2>2. out'.holds = out.holds \ {w} /\ w \in out.holds
    BY <1>10 DEF SendReturns
  <2>3. CASE w = "reply"
    <3>1. Keeps(job')
      BY <1>0, <1>10, <2>2, <2>3, ReplySync
    <3> QED
      BY <1>0, <1>1, <2>1, <2>2, <2>3, <3>1 DEF SyncInv
  <2>4. CASE w # "reply"
    <3>1. job' = job
      BY <1>10, <2>4 DEF SendReturns
    <3> QED
      BY <1>0, <1>2, <2>1, <2>2, <3>1 DEF SyncInv
  <2> QED
    BY <2>3, <2>4
<1>11. CASE Rest \/ UNCHANGED vars
  <2>1. UNCHANGED <<reqs, taken, starved, job, out, up>> /\ up' \in BOOLEAN
    BY <1>0, <1>11 DEF Rest, vars, Streams
  <2> QED
    BY <1>0, <1>2, <2>1 DEF SyncInv
<1> QED
  BY <1>3, <1>4, <1>5, <1>6, <1>7, <1>8, <1>9, <1>10, <1>11 DEF Next

\* A worker in step that waits for a request is where it starts.
LEMMA SyncMeans ==
  ASSUME SyncInv
  PROVE  TypeOK /\ InSync
<1>1. Streams /\ Worker(job) /\ Placed /\ OneSender
  BY DEF SyncInv, TakeInv, IInv
<1>2. TypeOK
  <2>1. out.torn \in BOOLEAN /\ out.holds \subseteq Writers /\ out.put \in [Writers -> 0..FrameSize]
    BY <1>1 DEF OneSender, OutType
  <2>2. job.whole \in BOOLEAN /\ job.size \in 0..MaxPacket
        /\ job.pc \in {"idle", "opcode", "header", "payload", "drain", "send", "end"}
    BY <1>1 DEF Worker
  <2>3. /\ reqs \in [1..Length -> Requests] /\ taken \in 0..Start(Length + 1)
        /\ up \in BOOLEAN /\ starved \in BOOLEAN
    BY <1>1 DEF Streams, Start
  <2> QED
    BY <2>1, <2>2, <2>3 DEF TypeOK
<1>3. InSync
  BY <1>1 DEF Placed, Worker, Place, InSync, Start
<1> QED
  BY <1>2, <1>3

\* A worker that waits for a request has taken the ones before it, whole, and
\* nothing of this one, whatever pieces recv returns and whatever was refused,
\* unless an allocation failed; and it never puts more into a packet than fits.
THEOREM SyncCorrect ==
  ASSUME WireAssumption
  PROVE  Spec => [](TypeOK /\ InSync)
<1>1. Init => SyncInv
  BY InitSync
<1>2. SyncInv /\ [Next]_vars => SyncInv'
  BY NextSync
<1>3. SyncInv => TypeOK /\ InSync
  BY SyncMeans
<1> QED
  BY <1>1, <1>2, <1>3, PTL DEF Spec
=============================================================================
