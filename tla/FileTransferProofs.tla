------------------------- MODULE FileTransferProofs -------------------------
(***************************************************************************)
(* What TLC checks of FileTransfer on two senders and two targets, proved  *)
(* for any number of connections, any size of files and of sockets.        *)
(***************************************************************************)
EXTENDS FileTransfer, DataLemmas

USE TransferAssumption

Files == [name : Senders, buffer : Seq(Items)]

-----------------------------------------------------------------------------
(* The inductive invariant, in parts.                                      *)

\* The types, and those of what the clients keep.
Shapes ==
  /\ TypeOK
  /\ feed \in [Targets -> Seq(Items)]
  /\ taken \in [Targets -> Nat]
  /\ file \in [Targets -> [name : Senders \cup {NoSender}, buffer : Seq(Items)]]
  /\ written \in [Targets -> SUBSET Files]

\* How far a file has been sent and read, by the place of its worker, and who
\* has file_lock.  Nothing fails before the file is refused or relayed, and nothing
\* is relayed by a loop that has lost its place.
Progress ==
  \A s \in Senders :
    /\ read[s] <= sent[s] /\ sent[s] <= size[s]
    /\ pc[s] = "idle" => size[s] = 0
    /\ pc[s] # "idle" => 1 <= read[s]
    /\ pc[s] \in {"check", "want", "first"} => read[s] = 1
    /\ pc[s] \in {"idle", "check", "want", "first"} => ok[s]
    /\ lost[s] \/ pc[s] = "drain" => ~ok[s]
    /\ pc[s] \in {"loop", "drain"} => read[s] < size[s] \/ lost[s]
    /\ pc[s] = "end" => read[s] = size[s] \/ lost[s]
    /\ pc[s] \in {"first", "loop"} => lock = s
    /\ cut[s] => s \notin up /\ 2 <= sent[s]

\* A chunk starts a file; or it is the next one of the file before it, or stands for
\* the empty ones that follow.
Starts(q, i) ==
  q[i].n = 1 /\ q[i].kind # "empty" /\ \A k \in 1..(i - 1) : q[k].from # q[i].from

Follows(q, i) ==
  /\ i > 1 /\ q[i - 1].from = q[i].from /\ q[i - 1].kind # "empty"
  /\ q[i].n = IF q[i].kind = "empty" THEN q[i - 1].n ELSE q[i - 1].n + 1

InOrder(q) == \A i \in DOMAIN q : Starts(q, i) \/ Follows(q, i)

\* What a chunk in the feed of t says of its sender.
Sane(t, e) ==
  /\ t = target[e.from] /\ pc[e.from] \in {"loop", "end"}
  /\ 1 <= e.n /\ e.n <= read[e.from]
  /\ e.kind = "empty" => /\ e.from \notin up /\ pc[e.from] = "loop"
                         /\ e.n = read[e.from] /\ read[e.from] = sent[e.from]
                         /\ ~lost[e.from]
  /\ e.kind = "stale" => cut[e.from]

\* The n-th chunk of the file of s as its worker relays it.
ChunkOf(s, n) == Item(s, n, IF cut[s] /\ n = sent[s] THEN "stale" ELSE "whole")

\* The relay goes well, or has ended well, and its target hears it.
Heard(s) == pc[s] \in {"loop", "end"} /\ ok[s] /\ target[s] \in up

\* A relay that is heard has sent all chunks it has read; while it goes on, the last
\* one read is the last in the target's feed.
Relayed ==
  /\ \A t \in Targets : \A e \in Elements(feed[t]) : Sane(t, e)
  /\ \A t \in Targets : InOrder(feed[t])
  /\ \A s \in Senders : Heard(s) /\ pc[s] = "loop" =>
       LET f == feed[target[s]] IN
         f # <<>> /\ f[Len(f)].from = s /\ f[Len(f)].n = read[s]
  /\ \A s \in Senders : Heard(s) =>
       \A n \in 1..read[s] : ChunkOf(s, n) \in Elements(feed[target[s]])

\* What a client has of the file it is receiving: the chunks up to the one it took
\* last, which may be empty.  And it has none only after a last chunk.
ListenerOf(t) ==
  LET f == file[t]
      b == f.buffer
      last == feed[t][taken[t]]
  IN /\ taken[t] <= Len(feed[t])
     /\ f.name = NoSender =>
          b = <<>> /\ (taken[t] = 0 \/ FlagLast(last))
     /\ f.name # NoSender =>
          /\ taken[t] >= 1 /\ b # <<>> /\ b[Len(b)] = last
          /\ \A i \in DOMAIN b :
               /\ b[i].from = f.name
               /\ i < Len(b) \/ last.kind # "empty" => b[i].n = i /\ b[i].kind # "empty"
               /\ b[i].kind = "stale" => cut[f.name]
          /\ pc[f.name] # "idle"

Listening == \A t \in Targets : ListenerOf(t)

\* The files on a client's disk.
OnDisk ==
  \A t \in Targets : \A f \in written[t] :
    /\ pc[f.name] # "idle"
    /\ \A i \in DOMAIN f.buffer : f.buffer[i].from = f.name /\ f.buffer[i].n = i
    /\ Len(f.buffer) = size[f.name]
    /\ cut[f.name] \/ \A i \in DOMAIN f.buffer : f.buffer[i].kind = "whole"

IInv == Shapes /\ Progress /\ Relayed /\ Listening /\ OnDisk

-----------------------------------------------------------------------------
(* Feeds.                                                                  *)

\* The last of a queue is in it.
LEMMA LastElement ==
  ASSUME NEW S, NEW q \in Seq(S), q # <<>>
  PROVE  Len(q) \in DOMAIN q /\ q[Len(q)] \in Elements(q) /\ q[Len(q)] \in S
<1>1. DOMAIN q = 1..Len(q) /\ Len(q) \in Nat /\ q \in [1..Len(q) -> S]
  BY LenProperties
<1>2. Len(q) # 0
  BY EmptySeq
<1> QED
  BY <1>1, <1>2 DEF Elements

\* A chunk goes to the end of a feed.
LEMMA AppendParts ==
  ASSUME NEW S, NEW q \in Seq(S), NEW e \in S
  PROVE  /\ Append(q, e) \in Seq(S) /\ Append(q, e) # <<>>
         /\ Len(q) \in Nat /\ DOMAIN q = 1..Len(q)
         /\ Len(Append(q, e)) = Len(q) + 1
         /\ DOMAIN Append(q, e) = DOMAIN q \cup {Len(q) + 1}
         /\ \A i \in 1..Len(q) : Append(q, e)[i] = q[i]
         /\ Append(q, e)[Len(q) + 1] = e
         /\ Elements(Append(q, e)) = Elements(q) \cup {e}
<1>1. Append(q, e) \in Seq(S) /\ Append(q, e) # <<>> /\ Elements(Append(q, e)) = Elements(q) \cup {e}
  BY AppendQueue
<1>2. /\ Len(Append(q, e)) = Len(q) + 1
      /\ \A i \in 1..Len(q) : Append(q, e)[i] = q[i]
      /\ Append(q, e)[Len(q) + 1] = e
  BY AppendProperties
<1>3. Len(q) \in Nat /\ DOMAIN q = 1..Len(q) /\ DOMAIN Append(q, e) = 1..Len(Append(q, e))
  BY <1>1, LenProperties
<1>4. DOMAIN Append(q, e) = DOMAIN q \cup {Len(q) + 1}
  BY <1>2, <1>3
<1> QED
  BY <1>1, <1>2, <1>3, <1>4

\* A feed stays in order if the chunk starts a file nothing of which is there, or
\* goes on where the last one ended.
LEMMA AppendInOrder ==
  ASSUME NEW q \in Seq(Items), InOrder(q), NEW e \in Items,
         \/ e.n = 1 /\ e.kind # "empty" /\ \A d \in Elements(q) : d.from # e.from
         \/ /\ q # <<>> /\ q[Len(q)].from = e.from /\ q[Len(q)].kind # "empty"
            /\ e.n = IF e.kind = "empty" THEN q[Len(q)].n ELSE q[Len(q)].n + 1
  PROVE  InOrder(Append(q, e))
<1> DEFINE r == Append(q, e)
           l == Len(q)
<1>1. /\ l \in Nat /\ DOMAIN q = 1..l /\ DOMAIN r = (1..l) \cup {l + 1}
      /\ \A i \in 1..l : r[i] = q[i]
      /\ r[l + 1] = e
  BY AppendParts
<1>2. q # <<>> => l >= 1
  BY <1>1, LastElement
<1>3. q[Len(q)] = q[l]
  OBVIOUS
<1> HIDE DEF r, l
<1>4. ASSUME NEW i \in 1..l PROVE Starts(r, i) \/ Follows(r, i)
  <2>1. i \in DOMAIN q /\ r[i] = q[i] /\ \A k \in 1..(i - 1) : r[k] = q[k]
    BY <1>1
  <2>2. i > 1 => r[i - 1] = q[i - 1]
    BY <1>1
  <2>3. CASE Starts(q, i)
    BY <2>1, <2>3 DEF Starts
  <2>4. CASE Follows(q, i)
    BY <2>1, <2>2, <2>4 DEF Follows
  <2> QED
    BY <2>1, <2>3, <2>4 DEF InOrder
<1>5. Starts(r, l + 1) \/ Follows(r, l + 1)
  <2>1. CASE e.n = 1 /\ e.kind # "empty" /\ \A d \in Elements(q) : d.from # e.from
    <3>1. \A k \in 1..((l + 1) - 1) : r[k].from # e.from
      BY <1>1, <2>1 DEF Elements
    <3> QED
      BY <1>1, <2>1, <3>1 DEF Starts
  <2>2. CASE /\ q # <<>> /\ q[Len(q)].from = e.from /\ q[Len(q)].kind # "empty"
             /\ e.n = IF e.kind = "empty" THEN q[Len(q)].n ELSE q[Len(q)].n + 1
    <3>1. l + 1 > 1 /\ r[(l + 1) - 1] = q[l]
      BY <1>1, <1>2, <2>2
    <3> QED
      BY <1>1, <1>3, <2>2, <3>1 DEF Follows
  <2> QED
    BY <2>1, <2>2
<1>6. InOrder(r)
  BY <1>1, <1>4, <1>5 DEF InOrder
<1> QED
  BY <1>6 DEF r

\* The chunk e becomes the last one in the feed of u, or is it already.
Writes(u, e) ==
  LET q == feed[u] IN
    \/ feed' = [feed EXCEPT ![u] = Append(@, e)] /\ (q = <<>> \/ q[Len(q)] # e)
    \/ feed' = feed /\ q # <<>> /\ q[Len(q)] = e

\* What msg_send does to the target's feed: the chunk is its last one then, and the
\* relay's status is as it was, as it is when the target is gone and nothing is
\* written; or nothing is written and the relay has failed.
LEMMA Delivered ==
  ASSUME Shapes, NEW s \in Senders, NEW e \in Items, NEW memory \in BOOLEAN,
         Deliver(s, e, memory)
  PROVE  /\ ok' \in [Senders -> BOOLEAN]
         /\ \A r \in Senders \ {s} : ok'[r] = ok[r]
         /\ \/ ok' = ok /\ target[s] \in up /\ Writes(target[s], e)
            \/ ok' = ok /\ target[s] \notin up /\ feed' = feed
            \/ ~ok'[s] /\ feed' = feed
<1>1. ok \in [Senders -> BOOLEAN]
  BY DEF Shapes, TypeOK
<1>2. CASE memory /\ target[s] \in up
  BY <1>1, <1>2 DEF Deliver, Writes
<1>3. CASE memory /\ target[s] \notin up
  BY <1>1, <1>3 DEF Deliver
<1>4. CASE ~memory
  BY <1>1, <1>4 DEF Deliver, Fail
<1> QED
  BY <1>2, <1>3, <1>4

\* A feed that grows by a chunk keeps what it has.
LEMMA FeedGrows ==
  ASSUME Shapes, NEW u \in Targets, NEW e \in Items, feed' = [feed EXCEPT ![u] = Append(@, e)]
  PROVE  /\ feed' \in [Targets -> Seq(Items)]
         /\ \A t \in Targets : /\ Len(feed[t]) <= Len(feed'[t])
                               /\ \A i \in 1..Len(feed[t]) : feed'[t][i] = feed[t][i]
                               /\ t # u => feed'[t] = feed[t]
         /\ feed'[u] = Append(feed[u], e)
         /\ Elements(feed'[u]) = Elements(feed[u]) \cup {e}
<1>1. feed \in [Targets -> Seq(Items)]
  BY DEF Shapes
<1>2. \A t \in Targets : feed'[t] = IF t = u THEN Append(feed[t], e) ELSE feed[t]
  BY <1>1
<1>3. \A t \in Targets : feed[t] \in Seq(Items)
  BY <1>1
<1>4. /\ Append(feed[u], e) \in Seq(Items)
      /\ Len(feed[u]) \in Nat /\ Len(Append(feed[u], e)) = Len(feed[u]) + 1
      /\ \A i \in 1..Len(feed[u]) : Append(feed[u], e)[i] = feed[u][i]
      /\ Elements(Append(feed[u], e)) = Elements(feed[u]) \cup {e}
  BY <1>3, AppendParts
<1>5. feed' \in [Targets -> Seq(Items)]
  BY <1>1, <1>4
<1>6. \A t \in Targets : Len(feed[t]) \in Nat
  BY <1>3, LenProperties
<1>7. ASSUME NEW t \in Targets
      PROVE  /\ Len(feed[t]) <= Len(feed'[t])
             /\ \A i \in 1..Len(feed[t]) : feed'[t][i] = feed[t][i]
  BY <1>2, <1>4, <1>6
<1> QED
  BY <1>2, <1>4, <1>5, <1>7

-----------------------------------------------------------------------------
(* Types and progress.                                                     *)

\* The steps of a worker that refuses a file, or reads it to nobody.
Reads(s) ==
  (\E memory \in BOOLEAN : Refuse(s, memory) \/ DrainChunk(s, memory)) \/ ReadAstray(s)

\* The steps that neither relay a chunk nor take one from a feed.
QuietStep ==
  \/ \E s \in Senders :
       \/ \E n \in 1..MaxChunks : Put(s, n)
       \/ SendChunk(s) \/ SenderGone(s) \/ Reads(s)
       \/ Allow(s) \/ FileLock(s)
  \/ \E t \in Targets : TargetGone(t)
  \/ RegistryShutdown
  \/ UNCHANGED vars

RelayStep(s) ==
  \E fine, memory \in BOOLEAN :
    RelayFirst(s, fine, memory) \/ RelayChunk(s, fine, memory) \/ RelayNothing(s, memory)

\* Every step is quiet, relays something or is a listener's.
LEMMA StepKinds ==
  [Next]_vars =>
    QuietStep \/ (\E s \in Senders : RelayStep(s)) \/ (\E t \in Targets : Take(t))
  BY DEF Next, Work, QuietStep, Reads, RelayStep, DrainNothing, Rest

\* Nothing is asked, relayed or written at first.
LEMMA InitInv == Init => IInv
<1> SUFFICES ASSUME Init PROVE IInv
  OBVIOUS
<1>1. Shapes
  <2>1. /\ feed \in [Targets -> Seq(Items)] /\ taken \in [Targets -> Nat]
        /\ written \in [Targets -> SUBSET Files]
        /\ \A t \in Targets : feed[t] = <<>> /\ taken[t] = 0 /\ file[t] = NoFile
    BY DEF Init
  <2>2. /\ NoFile \in [name : Senders \cup {NoSender}, buffer : Seq(Items)]
        /\ NoFile.name = NoSender /\ NoFile.buffer = <<>>
    BY DEF NoFile
  <2>3. file \in [Targets -> [name : Senders \cup {NoSender}, buffer : Seq(Items)]]
    BY <2>2 DEF Init
  <2>4. \A t \in Targets : /\ feed[t] \in Seq(Items) /\ taken[t] \in 0..Len(feed[t])
                           /\ file[t].name \in Senders \cup {NoSender}
                           /\ file[t].buffer \in Seq(Items)
    BY <2>1, <2>2
  <2>5. 0 \in 0..MaxChunks
    OBVIOUS
  <2>6. /\ pc \in [Senders -> {"idle", "check", "drain", "want", "first", "loop", "end"}]
        /\ size \in [Senders -> 0..MaxChunks] /\ target \in [Senders -> Targets]
        /\ sent \in [Senders -> 0..MaxChunks] /\ read \in [Senders -> 0..MaxChunks]
        /\ cut \in [Senders -> BOOLEAN] /\ up \subseteq Senders \cup Targets
        /\ lost \in [Senders -> BOOLEAN] /\ ok \in [Senders -> BOOLEAN]
        /\ lock \in Senders \cup {NoSender} /\ closing \in BOOLEAN
    BY <2>5 DEF Init
  <2>7. TypeOK
    BY <2>4, <2>6 DEF TypeOK
  <2> QED
    BY <2>1, <2>3, <2>7 DEF Shapes
<1>2. Progress
  <2>1. \A s \in Senders : /\ pc[s] = "idle" /\ size[s] = 0 /\ sent[s] = 0 /\ read[s] = 0 /\ ok[s]
                            /\ ~lost[s] /\ ~cut[s]
    BY DEF Init
  <2>2. 0 <= 0
    OBVIOUS
  <2> QED
    BY <2>1, <2>2 DEF Progress
<1>3. Relayed
  BY EmptyQueue DEF Init, Relayed, Heard, InOrder, Elements
<1>4. Listening
  BY DEF Init, Listening, ListenerOf, NoFile
<1>5. OnDisk
  BY DEF Init, OnDisk
<1> QED
  BY <1>1, <1>2, <1>3, <1>4, <1>5 DEF IInv

\* The types of a step that leaves feeds and clients alone.
LEMMA QuietShapes ==
  ASSUME IInv, QuietStep
  PROVE  Shapes'
<1> USE DEF clientVars
<1>0. Shapes /\ Progress
  BY DEF IInv
<1>1. UNCHANGED <<target, feed, taken, file, written>>
  BY DEF QuietStep, Put, SendChunk, SenderGone, Reads, Refuse, Allow, FileLock, DrainChunk,
         ReadAstray, TargetGone, RegistryShutdown, vars
<1>2. /\ pc' \in [Senders -> {"idle", "check", "drain", "want", "first", "loop", "end"}]
      /\ lock' \in Senders \cup {NoSender}
      /\ closing' \in BOOLEAN /\ up' \subseteq Senders \cup Targets
      /\ cut' \in [Senders -> BOOLEAN]
  <2>0. /\ pc \in [Senders -> {"idle", "check", "drain", "want", "first", "loop", "end"}]
        /\ lock \in Senders \cup {NoSender}
        /\ closing \in BOOLEAN /\ up \subseteq Senders \cup Targets
        /\ cut \in [Senders -> BOOLEAN]
    BY <1>0 DEF Shapes, TypeOK
  <2>1. pc' \in [Senders -> {"idle", "check", "drain", "want", "first", "loop", "end"}]
    BY <2>0 DEF QuietStep, Put, SendChunk, SenderGone, Reads, Refuse, Allow, FileLock, DrainChunk,
           ReadAstray, Goto, After, TargetGone, RegistryShutdown, vars
  <2>2. lock' \in Senders \cup {NoSender} /\ closing' \in BOOLEAN
    BY <2>0 DEF QuietStep, Put, SendChunk, SenderGone, Reads, Refuse, Allow, FileLock, DrainChunk,
           ReadAstray, Goto, After, TargetGone, RegistryShutdown, vars
  <2>3. up' \subseteq Senders \cup Targets /\ cut' \in [Senders -> BOOLEAN]
    BY <2>0 DEF QuietStep, Put, SendChunk, SenderGone, Reads, Refuse, Allow, FileLock, DrainChunk,
           ReadAstray, Goto, After, TargetGone, RegistryShutdown, vars
  <2> QED
    BY <2>1, <2>2, <2>3
<1>3. ok' \in [Senders -> BOOLEAN] /\ lost' \in [Senders -> BOOLEAN]
  BY <1>0 DEF QuietStep, Put, SendChunk, SenderGone, Reads, Refuse, Allow, FileLock, DrainChunk,
         Drain, ReadAstray, TargetGone, RegistryShutdown, vars, Shapes, TypeOK
<1>4. /\ size' \in [Senders -> 0..MaxChunks] /\ sent' \in [Senders -> 0..MaxChunks]
      /\ read' \in [Senders -> 0..MaxChunks]
  <2>1. /\ size \in [Senders -> 0..MaxChunks] /\ sent \in [Senders -> 0..MaxChunks]
        /\ read \in [Senders -> 0..MaxChunks]
    BY <1>0 DEF Shapes, TypeOK
  <2>2. \A s \in Senders : /\ sent[s] < size[s] => sent[s] + 1 \in 0..MaxChunks
                           /\ read[s] < sent[s] => read[s] + 1 \in 0..MaxChunks
                           /\ read[s]..sent[s] \subseteq 0..MaxChunks
    BY <2>1
  <2>3. 1 \in 0..MaxChunks /\ 1..MaxChunks \subseteq 0..MaxChunks
    OBVIOUS
  <2>4. ASSUME NEW s \in Senders, NEW n \in 1..MaxChunks, Put(s, n)
        PROVE  /\ size' \in [Senders -> 0..MaxChunks] /\ sent' \in [Senders -> 0..MaxChunks]
               /\ read' \in [Senders -> 0..MaxChunks]
    <3>1. size' = [size EXCEPT ![s] = n] /\ sent' = [sent EXCEPT ![s] = 1] /\ read' = [read EXCEPT ![s] = 1]
      BY <2>4 DEF Put
    <3> QED
      BY <2>1, <2>3, <3>1
  <2>5. ASSUME NEW s \in Senders,
               SendChunk(s) \/ SenderGone(s) \/ Reads(s) \/ Allow(s) \/ FileLock(s)
        PROVE  /\ size' \in [Senders -> 0..MaxChunks] /\ sent' \in [Senders -> 0..MaxChunks]
               /\ read' \in [Senders -> 0..MaxChunks]
    <3>1. /\ size' = size
          /\ sent' = sent \/ (sent[s] < size[s] /\ sent' = [sent EXCEPT ![s] = sent[s] + 1])
      BY <2>5 DEF SendChunk, Sending, SenderGone, Reads, Refuse, Allow, FileLock, DrainChunk,
                  ReadAstray
    <3>2. \/ read' = read
          \/ read[s] < sent[s] /\ read' = [read EXCEPT ![s] = read[s] + 1]
          \/ \E n \in read[s]..sent[s] : read' = [read EXCEPT ![s] = n]
      BY <2>5 DEF SendChunk, SenderGone, Reads, Refuse, Allow, FileLock, DrainChunk, TakeChunk,
                  Arrived, ReadAstray
    <3> QED
      BY <2>1, <2>2, <3>1, <3>2
  <2>6. CASE (\E t \in Targets : TargetGone(t)) \/ RegistryShutdown \/ UNCHANGED vars
    BY <2>1, <2>6 DEF TargetGone, RegistryShutdown, vars
  <2> QED
    BY <2>4, <2>5, <2>6 DEF QuietStep
<1>5. target' \in [Senders -> Targets]
  BY <1>0, <1>1 DEF Shapes, TypeOK
<1>6. TypeOK'
  BY <1>0, <1>1, <1>2, <1>3, <1>4, <1>5 DEF Shapes, TypeOK
<1> QED
  BY <1>0, <1>1, <1>6 DEF Shapes

\* What a worker that refuses or drains does to its own file; it is not one that is
\* relayed, unless the worker has lost its place in it.
LEMMA ReadsCases ==
  ASSUME IInv, NEW s \in Senders, Reads(s)
  PROVE  /\ UNCHANGED <<size, sent, cut, up, feed, target>>
         /\ \A r \in Senders \ {s} : /\ pc'[r] = pc[r] /\ read'[r] = read[r]
                                     /\ ok'[r] = ok[r] /\ lost'[r] = lost[r]
         /\ pc[s] \in {"check", "drain", "loop"} /\ ~ok'[s]
         /\ pc'[s] \in {"drain", "loop", "end"} /\ (pc'[s] = "loop" => pc[s] = "loop")
         /\ pc[s] = "loop" => lost[s]
         /\ lost[s] => lost'[s] /\ ok'[s] = ok[s]
         /\ read[s] <= read'[s] /\ read'[s] <= sent[s]
         /\ (pc'[s] = "end" <=> read'[s] = size[s]) \/ lost'[s]
         /\ lock' = lock \/ (lock = s /\ lock' = NoSender /\ pc'[s] = "end")
<1> USE DEF clientVars
<1>0. Shapes /\ Progress
  BY DEF IInv
<1>1. /\ size[s] \in Nat /\ sent[s] \in Nat /\ read[s] \in Nat
      /\ read \in [Senders -> 0..MaxChunks] /\ lost \in [Senders -> BOOLEAN]
      /\ pc \in [Senders -> {"idle", "check", "drain", "want", "first", "loop", "end"}]
      /\ ok \in [Senders -> BOOLEAN]
  BY <1>0 DEF Shapes, TypeOK
<1>2. ASSUME NEW memory \in BOOLEAN, Refuse(s, memory)
      PROVE  /\ UNCHANGED <<size, sent, cut, up, feed, target, read, lock>>
             /\ pc[s] = "check" /\ pc' = [pc EXCEPT ![s] = IF size[s] > 1 THEN "drain" ELSE "end"]
             /\ ok' = [ok EXCEPT ![s] = FALSE] /\ lost' = [lost EXCEPT ![s] = ~memory]
  BY <1>2 DEF Refuse, Goto, More
<1>3. ASSUME NEW memory \in BOOLEAN, DrainChunk(s, memory)
      PROVE  /\ UNCHANGED <<size, sent, cut, up, feed, target, ok>>
             /\ pc[s] = "drain" /\ ~lost[s] /\ read[s] < sent[s]
             /\ read' = [read EXCEPT ![s] = read[s] + 1] /\ lost' = [lost EXCEPT ![s] = ~memory]
             /\ pc' = [pc EXCEPT ![s] = IF read'[s] = size[s] THEN "end" ELSE "drain"]
             /\ lock' = IF read'[s] = size[s] /\ lock = s THEN NoSender ELSE lock
  BY <1>3 DEF DrainChunk, TakeChunk, Arrived, Drain, After
<1>4. ASSUME ReadAstray(s)
      PROVE  /\ UNCHANGED <<size, sent, cut, up, feed, target, ok, lost>>
             /\ pc[s] \in {"loop", "drain"} /\ lost[s]
             /\ \E n \in read[s]..sent[s] : read' = [read EXCEPT ![s] = n]
             /\ \/ pc' = [pc EXCEPT ![s] = "end"]
                \/ pc' = [pc EXCEPT ![s] = pc[s]] /\ lock' = lock
             /\ lock' = lock \/ (lock = s /\ lock' = NoSender)
  <2>1. After(s, pc[s], TRUE) \/ After(s, pc[s], FALSE)
    BY <1>4 DEF ReadAstray
  <2>2. /\ \/ pc' = [pc EXCEPT ![s] = "end"]
           \/ pc' = [pc EXCEPT ![s] = pc[s]] /\ lock' = lock
        /\ lock' = lock \/ (lock = s /\ lock' = NoSender)
    BY <2>1 DEF After
  <2> QED
    BY <1>4, <2>2 DEF ReadAstray
<1>5. read[s] <= sent[s] /\ (lost[s] \/ pc[s] = "drain" => ~ok[s]) /\ (pc[s] = "check" => ok[s] /\ read[s] = 1)
  BY <1>0 DEF Progress
<1>6. ASSUME NEW memory \in BOOLEAN, Refuse(s, memory)
      PROVE  /\ \A r \in Senders \ {s} : /\ pc'[r] = pc[r] /\ read'[r] = read[r]
                                         /\ ok'[r] = ok[r] /\ lost'[r] = lost[r]
             /\ pc[s] = "check" /\ ~ok'[s] /\ ~lost[s] /\ read'[s] = read[s] /\ lock' = lock
             /\ pc'[s] = IF size[s] > 1 THEN "drain" ELSE "end"
             /\ size[s] >= 1 /\ read[s] = 1
  <2>1. size[s] >= 1
    BY <1>0, <1>1, <1>2, <1>5, <1>6 DEF Progress
  <2> QED
    BY <1>1, <1>2, <1>5, <1>6, <2>1
<1>7. ASSUME NEW memory \in BOOLEAN, DrainChunk(s, memory)
      PROVE  /\ \A r \in Senders \ {s} : /\ pc'[r] = pc[r] /\ read'[r] = read[r]
                                         /\ ok'[r] = ok[r] /\ lost'[r] = lost[r]
             /\ pc[s] = "drain" /\ ~ok'[s] /\ ~lost[s] /\ read'[s] = read[s] + 1
             /\ pc'[s] = IF read'[s] = size[s] THEN "end" ELSE "drain"
             /\ lock' = lock \/ (lock = s /\ lock' = NoSender /\ pc'[s] = "end")
  BY <1>1, <1>3, <1>5, <1>7
<1>8. ASSUME ReadAstray(s)
      PROVE  /\ \A r \in Senders \ {s} : /\ pc'[r] = pc[r] /\ read'[r] = read[r]
                                         /\ ok'[r] = ok[r] /\ lost'[r] = lost[r]
             /\ pc[s] \in {"loop", "drain"} /\ ~ok'[s] /\ lost[s] /\ lost'[s] /\ ok'[s] = ok[s]
             /\ read[s] <= read'[s] /\ read'[s] <= sent[s]
             /\ pc'[s] \in {pc[s], "end"}
             /\ lock' = lock \/ (lock = s /\ lock' = NoSender /\ pc'[s] = "end")
  <2>1. PICK n \in read[s]..sent[s] : read' = [read EXCEPT ![s] = n]
    BY <1>4, <1>8
  <2>2. n \in Nat /\ read[s] <= n /\ n <= sent[s]
    BY <1>1, <2>1
  <2>3. read'[s] = n /\ \A r \in Senders \ {s} : read'[r] = read[r]
    BY <1>1, <2>1
  <2> QED
    BY <1>1, <1>4, <1>5, <1>8, <2>2, <2>3
<1>9. CASE \E memory \in BOOLEAN : Refuse(s, memory)
  <2>1. UNCHANGED <<size, sent, cut, up, feed, target>>
    BY <1>2, <1>9
  <2> QED
    BY <1>1, <1>5, <1>6, <1>9, <2>1
<1>10. CASE \E memory \in BOOLEAN : DrainChunk(s, memory)
  <2>1. UNCHANGED <<size, sent, cut, up, feed, target>> /\ read[s] < sent[s]
    BY <1>3, <1>10
  <2> QED
    BY <1>1, <1>7, <1>10, <2>1
<1>11. CASE ReadAstray(s)
  <2>1. UNCHANGED <<size, sent, cut, up, feed, target>>
    BY <1>4, <1>11
  <2> QED
    BY <1>8, <1>11, <2>1
<1> QED
  BY <1>9, <1>10, <1>11 DEF Reads

\* Outside the relay a worker reads no more than was sent, and takes file_lock only
\* when it is free.
LEMMA QuietProgress ==
  ASSUME IInv, QuietStep
  PROVE  Progress'
<1>0. Shapes /\ Progress
  BY DEF IInv
<1>1. \A s \in Senders : size[s] \in Nat /\ sent[s] \in Nat /\ read[s] \in Nat
  BY <1>0 DEF Shapes, TypeOK
<1>2. ASSUME NEW s \in Senders, NEW n \in 1..MaxChunks, Put(s, n) PROVE Progress'
  <2>1. /\ pc[s] = "idle" /\ pc'[s] = "check" /\ size'[s] = n /\ sent'[s] = 1 /\ read'[s] = 1
        /\ \A r \in Senders \ {s} : /\ pc'[r] = pc[r] /\ size'[r] = size[r] /\ sent'[r] = sent[r]
                                   /\ read'[r] = read[r]
        /\ UNCHANGED <<cut, up, ok, lost, lock>> /\ n \in Nat /\ 1 <= n
    BY <1>0, <1>2 DEF Put, Shapes, TypeOK
  <2>2. ok[s] /\ ~lost[s] /\ ~cut[s]
    BY <1>0, <1>1, <2>1 DEF Progress
  <2> QED
    BY <1>0, <2>1, <2>2 DEF Progress
<1>3. ASSUME NEW s \in Senders, SendChunk(s) \/ SenderGone(s) PROVE Progress'
  <2>1. UNCHANGED <<pc, size, read, lock, ok, lost>>
    BY <1>3 DEF SendChunk, SenderGone
  <2>2. sent' = sent \/ (sent[s] < size[s] /\ sent' = [sent EXCEPT ![s] = @ + 1])
    BY <1>3 DEF SendChunk, SenderGone, Sending
  <2>3. \A r \in Senders : sent'[r] = sent[r] \/ (sent[r] < size[r] /\ sent'[r] = sent[r] + 1)
    BY <1>0, <2>2 DEF Shapes, TypeOK
  <2>4. \A r \in Senders : read[r] <= sent'[r] /\ sent'[r] <= size[r] /\ sent[r] <= sent'[r]
    BY <1>0, <1>1, <2>3 DEF Progress
  <2>5. \A r \in Senders : cut'[r] => \/ cut[r] /\ up' \subseteq up
                                      \/ r = s /\ s \notin up' /\ sent[s] < size[s] /\ sent'[s] = sent[s] + 1
    BY <1>0, <1>3 DEF SendChunk, SenderGone, Shapes, TypeOK
  <2>6. sent[s] < size[s] => 1 <= sent[s]
    BY <1>0, <1>1 DEF Progress
  <2>7. \A r \in Senders : cut'[r] => r \notin up' /\ 2 <= sent'[r]
    <3> SUFFICES ASSUME NEW r \in Senders, cut'[r] PROVE r \notin up' /\ 2 <= sent'[r]
      OBVIOUS
    <3>1. CASE cut[r] /\ up' \subseteq up
      <4>1. r \notin up /\ 2 <= sent[r]
        BY <1>0, <3>1 DEF Progress
      <4>2. sent[r] <= sent'[r] /\ sent'[r] \in Nat
        BY <1>1, <2>3, <2>4
      <4> QED
        BY <1>1, <3>1, <4>1, <4>2
    <3>2. CASE r = s /\ s \notin up' /\ sent[s] < size[s] /\ sent'[s] = sent[s] + 1
      BY <1>1, <2>6, <3>2
    <3> QED
      BY <2>5, <3>1, <3>2
  <2> QED
    BY <1>0, <2>1, <2>4, <2>7 DEF Progress
<1>4. ASSUME NEW s \in Senders, Allow(s) \/ FileLock(s) PROVE Progress'
  <2>1. UNCHANGED <<size, read, sent, ok, lost, cut, up>>
    BY <1>4 DEF Allow, FileLock
  <2>2. CASE Allow(s)
    <3>1. /\ pc[s] = "check" /\ lock' = lock /\ \A r \in Senders \ {s} : pc'[r] = pc[r]
          /\ pc'[s] = "want"
      BY <1>0, <2>2 DEF Allow, Goto, Shapes, TypeOK
    <3> QED
      BY <1>0, <1>1, <2>1, <3>1 DEF Progress
  <2>3. CASE FileLock(s)
    <3>1. /\ pc[s] = "want" /\ lock = NoSender /\ lock' = s
          /\ pc'[s] = "first" /\ \A r \in Senders \ {s} : pc'[r] = pc[r]
      BY <1>0, <2>3 DEF FileLock, Goto, Shapes, TypeOK
    <3> QED
      BY <1>0, <1>1, <2>1, <3>1 DEF Progress
  <2> QED
    BY <1>4, <2>2, <2>3
<1>5. ASSUME NEW s \in Senders, Reads(s) PROVE Progress'
  <2>1. /\ UNCHANGED <<size, sent, cut, up>>
        /\ \A r \in Senders \ {s} : /\ pc'[r] = pc[r] /\ read'[r] = read[r]
                                    /\ ok'[r] = ok[r] /\ lost'[r] = lost[r]
        /\ pc[s] \in {"check", "drain", "loop"} /\ ~ok'[s]
        /\ pc'[s] \in {"drain", "loop", "end"} /\ (pc'[s] = "loop" => pc[s] = "loop")
        /\ read[s] <= read'[s] /\ read'[s] <= sent[s]
        /\ (pc'[s] = "end" <=> read'[s] = size[s]) \/ lost'[s]
        /\ lock' = lock \/ (lock = s /\ lock' = NoSender /\ pc'[s] = "end")
    BY <1>5, ReadsCases
  <2>2. read'[s] \in Nat /\ 1 <= read[s] /\ sent[s] <= size[s]
    BY <1>0, <1>5, <2>1, QuietShapes DEF Progress, Shapes, TypeOK
  <2>3. /\ read'[s] <= sent'[s] /\ sent'[s] <= size'[s] /\ 1 <= read'[s]
        /\ pc'[s] \in {"loop", "drain"} => read'[s] < size'[s] \/ lost'[s]
        /\ pc'[s] = "end" => read'[s] = size'[s] \/ lost'[s]
        /\ pc'[s] = "loop" => lock' = s
        /\ cut'[s] => s \notin up' /\ 2 <= sent'[s]
    BY <1>0, <1>1, <2>1, <2>2 DEF Progress
  <2>4. ASSUME NEW r \in Senders, r # s
        PROVE  /\ read'[r] <= sent'[r] /\ sent'[r] <= size'[r]
               /\ pc'[r] = "idle" => size'[r] = 0
               /\ pc'[r] # "idle" => 1 <= read'[r]
               /\ pc'[r] \in {"check", "want", "first"} => read'[r] = 1
               /\ pc'[r] \in {"idle", "check", "want", "first"} => ok'[r]
               /\ lost'[r] \/ pc'[r] = "drain" => ~ok'[r]
               /\ pc'[r] \in {"loop", "drain"} => read'[r] < size'[r] \/ lost'[r]
               /\ pc'[r] = "end" => read'[r] = size'[r] \/ lost'[r]
               /\ pc'[r] \in {"first", "loop"} => lock' = r
               /\ cut'[r] => r \notin up' /\ 2 <= sent'[r]
    BY <1>0, <2>1, <2>4 DEF Progress
  <2> QED
    BY <2>1, <2>3, <2>4 DEF Progress
<1>6. CASE (\E t \in Targets : TargetGone(t)) \/ RegistryShutdown \/ UNCHANGED vars
  <2>1. UNCHANGED <<pc, size, read, sent, lock, ok, lost, cut>> /\ up' \subseteq up
    BY <1>6 DEF TargetGone, RegistryShutdown, vars
  <2> QED
    BY <1>0, <2>1 DEF Progress
<1> QED
  BY <1>2, <1>3, <1>4, <1>5, <1>6 DEF QuietStep

\* A step of the relay that writes the chunk e to its target: the next one of the
\* file, or an empty one when nothing comes any more.
Relays(s, e) ==
  /\ e.from = s /\ e.n = read'[s] /\ ok[s] /\ ok' = ok /\ target[s] \in up
  /\ pc[s] = "first" => e.n = 1 /\ e.kind # "empty"
  /\ e.kind # "empty" => e = ChunkOf(s, read'[s]) /\ (pc[s] = "loop" => read'[s] = read[s] + 1)
  /\ e.kind = "empty" => pc[s] = "loop" /\ s \notin up /\ read'[s] = read[s] /\ read[s] = sent[s]
  /\ Writes(target[s], e)

\* One that writes nothing: it has failed, or the target is gone.
Silent(s) == feed' = feed /\ (~ok'[s] \/ (ok' = ok /\ target[s] \notin up))

\* What msg_send makes of a round of the relay.
LEMMA Rounds ==
  ASSUME Shapes, NEW s \in Senders, NEW e \in Items, NEW memory \in BOOLEAN,
         Deliver(s, e, memory), ok[s],
         e.from = s, e.n = read'[s], pc[s] = "first" => e.n = 1 /\ e.kind # "empty",
         e.kind # "empty" => e = ChunkOf(s, read'[s]) /\ (pc[s] = "loop" => read'[s] = read[s] + 1),
         e.kind = "empty" => pc[s] = "loop" /\ s \notin up /\ read'[s] = read[s] /\ read[s] = sent[s]
  PROVE  /\ ok' \in [Senders -> BOOLEAN] /\ \A r \in Senders \ {s} : ok'[r] = ok[r]
         /\ Relays(s, e) \/ Silent(s)
<1>1. /\ ok' \in [Senders -> BOOLEAN]
      /\ \A r \in Senders \ {s} : ok'[r] = ok[r]
      /\ \/ ok' = ok /\ target[s] \in up /\ Writes(target[s], e)
         \/ ok' = ok /\ target[s] \notin up /\ feed' = feed
         \/ ~ok'[s] /\ feed' = feed
  BY Delivered
<1>2. CASE ok' = ok /\ target[s] \in up /\ Writes(target[s], e)
  BY <1>1, <1>2 DEF Relays
<1>3. CASE feed' = feed /\ (~ok'[s] \/ (ok' = ok /\ target[s] \notin up))
  BY <1>1, <1>3 DEF Silent
<1> QED
  BY <1>1, <1>2, <1>3

\* A relay that fails tells nobody.
LEMMA FailSilent ==
  ASSUME Shapes, NEW s \in Senders, Fail(s)
  PROVE  /\ ok' \in [Senders -> BOOLEAN] /\ \A r \in Senders \ {s} : ok'[r] = ok[r]
         /\ Silent(s)
<1>1. ok \in [Senders -> BOOLEAN]
  BY DEF Shapes, TypeOK
<1> QED
  BY <1>1 DEF Fail, Silent

\* Where a step of the relay leaves its worker.
Moves(s) ==
  /\ ok' \in [Senders -> BOOLEAN] /\ lost' \in [Senders -> BOOLEAN]
  /\ read' \in [Senders -> 0..MaxChunks]
  /\ pc' \in [Senders -> {"idle", "check", "drain", "want", "first", "loop", "end"}]
  /\ \A r \in Senders \ {s} : /\ ok'[r] = ok[r] /\ pc'[r] = pc[r]
                              /\ read'[r] = read[r] /\ lost'[r] = lost[r]
  /\ read[s] <= read'[s] /\ read'[s] <= sent[s]
  /\ pc'[s] \in {"loop", "drain", "end"} /\ (pc'[s] = "end" <=> read'[s] = size[s])
  /\ pc'[s] = "drain" => pc[s] = "first" /\ ~ok'[s]
  /\ lost'[s] => ~ok'[s] /\ read'[s] = read[s] + 1
  /\ lock' = IF pc'[s] = "end" THEN NoSender ELSE s

\* A step of a relay: how far it reads, where it goes, and which chunk becomes the last
\* one in the target's feed, if the relay has not failed and is heard.
LEMMA RelayCases ==
  ASSUME IInv, NEW s \in Senders, RelayStep(s)
  PROVE  /\ pc[s] \in {"first", "loop"} /\ lock = s /\ ~lost[s]
         /\ UNCHANGED <<size, target, sent, cut, up, closing, taken, file, written>>
         /\ Moves(s)
         /\ Silent(s) \/ \E e \in Items : Relays(s, e)
<1> USE DEF clientVars
<1>0. Shapes /\ Progress
  BY DEF IInv
<1>1. /\ size[s] \in 0..MaxChunks /\ sent[s] \in 0..MaxChunks /\ read[s] \in 0..MaxChunks
      /\ ok \in [Senders -> BOOLEAN] /\ read \in [Senders -> 0..MaxChunks]
      /\ lost \in [Senders -> BOOLEAN]
      /\ pc \in [Senders -> {"idle", "check", "drain", "want", "first", "loop", "end"}]
      /\ read[s] <= sent[s] /\ sent[s] <= size[s]
  BY <1>0 DEF Shapes, TypeOK, Progress
<1>2. /\ pc[s] \in {"first", "loop"} /\ lock = s /\ ~lost[s]
      /\ UNCHANGED <<size, target, sent, cut, up, closing, taken, file, written>>
  BY <1>0 DEF RelayStep, RelayFirst, RelayChunk, RelayNothing, TakeChunk, Progress
<1>3. ASSUME NEW n \in 0..MaxChunks, NEW k \in {"whole", "stale", "empty"}
      PROVE  /\ Item(s, n, k) \in Items
             /\ Item(s, n, k).from = s /\ Item(s, n, k).n = n /\ Item(s, n, k).kind = k
  BY DEF Item, Items
<1>4. ASSUME NEW n \in 0..MaxChunks
      PROVE  /\ ChunkOf(s, n) \in Items
             /\ ChunkOf(s, n).from = s /\ ChunkOf(s, n).n = n /\ ChunkOf(s, n).kind # "empty"
  <2>1. (IF cut[s] /\ n = sent[s] THEN "stale" ELSE "whole") \in {"whole", "stale"}
    OBVIOUS
  <2> QED
    BY <1>3, <2>1 DEF ChunkOf
<1>5. ASSUME NEW loop \in {"loop", "drain"}, NEW last \in BOOLEAN, After(s, loop, last)
      PROVE  /\ pc' \in [Senders -> {"idle", "check", "drain", "want", "first", "loop", "end"}]
             /\ \A r \in Senders \ {s} : pc'[r] = pc[r]
             /\ pc'[s] = IF last THEN "end" ELSE loop
             /\ lock' = IF last THEN NoSender ELSE s
  BY <1>1, <1>2, <1>5 DEF After
<1>6. ASSUME NEW fine \in BOOLEAN, NEW memory \in BOOLEAN, RelayFirst(s, fine, memory)
      PROVE  Moves(s) /\ (Silent(s) \/ \E e \in Items : Relays(s, e))
  <2>1. read' = read /\ lost' = lost /\ read[s] = 1 /\ ok[s] /\ pc[s] = "first"
    BY <1>0, <1>6 DEF RelayFirst, Progress
  <2>2. After(s, IF fine THEN "loop" ELSE "drain", ~More(s))
    BY <1>6 DEF RelayFirst
  <2>3. (IF fine THEN "loop" ELSE "drain") \in {"loop", "drain"} /\ (~More(s)) \in BOOLEAN
    BY DEF More
  <2>4. /\ pc' \in [Senders -> {"idle", "check", "drain", "want", "first", "loop", "end"}]
        /\ \A r \in Senders \ {s} : pc'[r] = pc[r]
        /\ pc'[s] = IF ~More(s) THEN "end" ELSE IF fine THEN "loop" ELSE "drain"
        /\ lock' = IF ~More(s) THEN NoSender ELSE s
    BY <1>5, <2>2, <2>3
  <2>5. ~More(s) <=> read[s] = size[s]
    BY <1>1, <2>1 DEF More
  <2>6. /\ ok' \in [Senders -> BOOLEAN] /\ \A r \in Senders \ {s} : ok'[r] = ok[r]
        /\ Silent(s) \/ \E e \in Items : Relays(s, e)
        /\ fine \/ ~ok'[s]
    <3>1. CASE fine
      <4>1. Deliver(s, Item(s, 1, "whole"), memory)
        BY <1>6, <3>1 DEF RelayFirst
      <4>2. cut[s] => 1 # sent[s]
        BY <1>0, <1>1 DEF Progress
      <4>3. Item(s, 1, "whole") = ChunkOf(s, 1)
        BY <4>2 DEF ChunkOf
      <4>4. 1 \in 0..MaxChunks
        OBVIOUS
      <4> DEFINE e == ChunkOf(s, 1)
      <4>5. e \in Items /\ e.from = s /\ e.n = 1 /\ e.kind # "empty"
        BY <1>4, <4>4
      <4>6. e = ChunkOf(s, read'[s]) /\ Deliver(s, e, memory)
        BY <2>1, <4>1, <4>3
      <4> HIDE DEF e
      <4>7. /\ ok' \in [Senders -> BOOLEAN] /\ \A r \in Senders \ {s} : ok'[r] = ok[r]
            /\ Relays(s, e) \/ Silent(s)
        BY <1>0, <2>1, <4>5, <4>6, Rounds
      <4> QED
        BY <3>1, <4>5, <4>7
    <3>2. CASE ~fine
      <4>1. Fail(s)
        BY <1>6, <3>2 DEF RelayFirst
      <4>2. ~ok'[s]
        BY <1>1, <4>1 DEF Fail
      <4> QED
        BY <1>0, <4>1, <4>2, FailSilent
    <3> QED
      BY <3>1, <3>2
  <2>7. Moves(s)
    BY <1>1, <1>2, <2>1, <2>4, <2>5, <2>6 DEF Moves
  <2> QED
    BY <2>6, <2>7
<1>7. ASSUME NEW fine \in BOOLEAN, NEW memory \in BOOLEAN, RelayChunk(s, fine, memory)
      PROVE  Moves(s) /\ (Silent(s) \/ \E e \in Items : Relays(s, e))
  <2>1. /\ read' = [read EXCEPT ![s] = read[s] + 1] /\ read[s] < sent[s] /\ pc[s] = "loop"
        /\ After(s, "loop", read'[s] = size[s])
    BY <1>7 DEF RelayChunk, TakeChunk, Arrived
  <2>2. /\ read' \in [Senders -> 0..MaxChunks] /\ read'[s] = read[s] + 1 /\ read'[s] \in 0..MaxChunks
        /\ \A r \in Senders \ {s} : read'[r] = read[r]
    BY <1>1, <2>1
  <2>3. /\ pc' \in [Senders -> {"idle", "check", "drain", "want", "first", "loop", "end"}]
        /\ \A r \in Senders \ {s} : pc'[r] = pc[r]
        /\ pc'[s] = IF read'[s] = size[s] THEN "end" ELSE "loop"
        /\ lock' = IF read'[s] = size[s] THEN NoSender ELSE s
    BY <1>1, <1>2, <2>1 DEF After
  <2>4. /\ ok' \in [Senders -> BOOLEAN] /\ \A r \in Senders \ {s} : ok'[r] = ok[r]
        /\ lost' \in [Senders -> BOOLEAN] /\ \A r \in Senders \ {s} : lost'[r] = lost[r]
        /\ lost'[s] => ~ok'[s]
        /\ Silent(s) \/ \E e \in Items : Relays(s, e)
    <3>1. CASE ok[s] /\ fine
      <4>1. Deliver(s, Relayable(s), memory) /\ lost' = lost
        BY <1>7, <3>1 DEF RelayChunk
      <4>2. Relayable(s) = ChunkOf(s, read[s] + 1)
        BY DEF Relayable, ChunkOf, Broken
      <4> DEFINE e == ChunkOf(s, read'[s])
      <4>3. e \in Items /\ e.from = s /\ e.n = read'[s] /\ e.kind # "empty"
        BY <1>4, <2>2
      <4>4. Deliver(s, e, memory) /\ e = ChunkOf(s, read'[s])
        BY <2>2, <4>1, <4>2
      <4> HIDE DEF e
      <4>5. /\ ok' \in [Senders -> BOOLEAN] /\ \A r \in Senders \ {s} : ok'[r] = ok[r]
            /\ Relays(s, e) \/ Silent(s)
        BY <1>0, <2>1, <2>2, <3>1, <4>3, <4>4, Rounds
      <4> QED
        BY <1>1, <1>2, <4>1, <4>3, <4>5
    <3>2. CASE ~(ok[s] /\ fine)
      <4>1. Fail(s) /\ lost' = [lost EXCEPT ![s] = ~memory]
        BY <1>7, <3>2 DEF RelayChunk, Drain
      <4>2. ~ok'[s]
        BY <1>1, <4>1 DEF Fail
      <4> QED
        BY <1>0, <1>1, <4>1, <4>2, FailSilent
    <3> QED
      BY <3>1, <3>2
  <2>5. Moves(s)
    BY <1>1, <2>1, <2>2, <2>3, <2>4 DEF Moves
  <2> QED
    BY <2>4, <2>5
<1>8. ASSUME NEW memory \in BOOLEAN, RelayNothing(s, memory)
      PROVE  Moves(s) /\ (Silent(s) \/ \E e \in Items : Relays(s, e))
  <2>1. /\ ~(read[s] < sent[s]) /\ read' = read /\ lost' = lost /\ s \notin up /\ pc[s] = "loop"
        /\ After(s, "loop", FALSE)
    BY <1>8 DEF RelayNothing, Arrived
  <2>2. read[s] = sent[s] /\ read'[s] = read[s]
    BY <1>1, <2>1
  <2>3. /\ pc' \in [Senders -> {"idle", "check", "drain", "want", "first", "loop", "end"}]
        /\ \A r \in Senders \ {s} : pc'[r] = pc[r]
        /\ pc'[s] = "loop" /\ lock' = s
    BY <1>5, <2>1
  <2>4. /\ ok' \in [Senders -> BOOLEAN] /\ \A r \in Senders \ {s} : ok'[r] = ok[r]
        /\ Silent(s) \/ \E e \in Items : Relays(s, e)
    <3>1. CASE ok[s]
      <4> DEFINE e == Item(s, read[s], "empty")
      <4>1. e \in Items /\ e.from = s /\ e.n = read'[s] /\ e.kind = "empty"
        BY <1>1, <1>3, <2>2
      <4>2. Deliver(s, e, memory)
        BY <1>8, <3>1 DEF RelayNothing
      <4> HIDE DEF e
      <4>3. /\ ok' \in [Senders -> BOOLEAN] /\ \A r \in Senders \ {s} : ok'[r] = ok[r]
            /\ Relays(s, e) \/ Silent(s)
        BY <1>0, <2>1, <2>2, <3>1, <4>1, <4>2, Rounds
      <4> QED
        BY <4>1, <4>3
    <3>2. CASE ~ok[s]
      BY <1>1, <1>8, <3>2 DEF RelayNothing, Silent
    <3> QED
      BY <3>1, <3>2
  <2>5. read[s] < size[s]
    BY <1>0, <1>2, <2>1 DEF Progress
  <2>6. Moves(s)
    BY <1>1, <1>2, <2>1, <2>2, <2>3, <2>4, <2>5 DEF Moves
  <2> QED
    BY <2>4, <2>6
<1>9. Moves(s) /\ (Silent(s) \/ \E e \in Items : Relays(s, e))
  BY <1>6, <1>7, <1>8 DEF RelayStep
<1> QED
  BY <1>2, <1>9

\* The relay keeps the types.
LEMMA RelayShapes ==
  ASSUME IInv, NEW s \in Senders, RelayStep(s)
  PROVE  Shapes'
<1>0. Shapes /\ target[s] \in Targets
  BY DEF IInv, Shapes, TypeOK
<1>1. /\ pc' \in [Senders -> {"idle", "check", "drain", "want", "first", "loop", "end"}]
      /\ ok' \in [Senders -> BOOLEAN] /\ read' \in [Senders -> 0..MaxChunks]
      /\ lost' \in [Senders -> BOOLEAN] /\ lock' \in Senders \cup {NoSender}
      /\ UNCHANGED <<size, target, sent, cut, up, closing, taken, file, written>>
  BY RelayCases DEF Moves
<1>2. feed' = feed \/ \E e \in Items : feed' = [feed EXCEPT ![target[s]] = Append(@, e)]
  BY RelayCases DEF Silent, Relays, Writes
<1>3. /\ feed' \in [Targets -> Seq(Items)]
      /\ \A t \in Targets : Len(feed[t]) <= Len(feed'[t])
  <2>1. CASE feed' = feed
    <3>1. \A t \in Targets : Len(feed[t]) \in Nat
      BY <1>0, LenProperties DEF Shapes
    <3> QED
      BY <1>0, <2>1, <3>1 DEF Shapes
  <2>2. ASSUME NEW e \in Items, feed' = [feed EXCEPT ![target[s]] = Append(@, e)]
        PROVE  /\ feed' \in [Targets -> Seq(Items)]
               /\ \A t \in Targets : Len(feed[t]) <= Len(feed'[t])
    BY <1>0, <2>2, FeedGrows
  <2> QED
    BY <1>2, <2>1, <2>2
<1>4. \A t \in Targets : /\ feed'[t] \in Seq(Items) /\ taken'[t] \in 0..Len(feed'[t])
  <2> SUFFICES ASSUME NEW t \in Targets
               PROVE  feed'[t] \in Seq(Items) /\ taken'[t] \in 0..Len(feed'[t])
    OBVIOUS
  <2>1. feed'[t] \in Seq(Items) /\ Len(feed[t]) <= Len(feed'[t]) /\ taken'[t] = taken[t]
    BY <1>1, <1>3
  <2>2. Len(feed[t]) \in Nat /\ Len(feed'[t]) \in Nat
    BY <1>0, <2>1, LenProperties DEF Shapes
  <2>3. taken[t] \in 0..Len(feed[t])
    BY <1>0 DEF Shapes, TypeOK
  <2> QED
    BY <2>1, <2>2, <2>3
<1>5. TypeOK'
  BY <1>0, <1>1, <1>4 DEF Shapes, TypeOK
<1> QED
  BY <1>0, <1>1, <1>3, <1>5 DEF Shapes

\* The relay stays inside the file's chunks, with file_lock held until it ends.
LEMMA RelayProgress ==
  ASSUME IInv, NEW s \in Senders, RelayStep(s)
  PROVE  Progress'
<1>1. Progress /\ \A r \in Senders : size[r] \in Nat /\ sent[r] \in Nat /\ read[r] \in Nat
  BY DEF IInv, Shapes, TypeOK
<1>2. /\ pc[s] \in {"first", "loop"} /\ lock = s /\ ~lost[s]
      /\ UNCHANGED <<size, sent, cut, up>>
      /\ \A r \in Senders \ {s} : /\ ok'[r] = ok[r] /\ pc'[r] = pc[r]
                                  /\ read'[r] = read[r] /\ lost'[r] = lost[r]
      /\ read[s] <= read'[s] /\ read'[s] <= sent[s]
      /\ pc'[s] \in {"loop", "drain", "end"} /\ (pc'[s] = "end" <=> read'[s] = size[s])
      /\ lost'[s] \/ pc'[s] = "drain" => ~ok'[s]
      /\ lock' = IF pc'[s] = "end" THEN NoSender ELSE s
  BY RelayCases DEF Moves
<1>3. read'[s] \in Nat
  BY RelayCases DEF Moves
<1>4. \A r \in Senders \ {s} : pc[r] \notin {"first", "loop"}
  BY <1>1, <1>2 DEF Progress
<1>5. ASSUME NEW r \in Senders, r # s
      PROVE  /\ read'[r] <= sent'[r] /\ sent'[r] <= size'[r]
             /\ pc'[r] = "idle" => size'[r] = 0
             /\ pc'[r] # "idle" => 1 <= read'[r]
             /\ pc'[r] \in {"check", "want", "first"} => read'[r] = 1
             /\ pc'[r] \in {"idle", "check", "want", "first"} => ok'[r]
             /\ lost'[r] \/ pc'[r] = "drain" => ~ok'[r]
             /\ pc'[r] \in {"loop", "drain"} => read'[r] < size'[r] \/ lost'[r]
             /\ pc'[r] = "end" => read'[r] = size'[r] \/ lost'[r]
             /\ pc'[r] \notin {"first", "loop"}
             /\ cut'[r] => r \notin up' /\ 2 <= sent'[r]
  BY <1>1, <1>2, <1>4, <1>5 DEF Progress
<1>6. /\ read'[s] <= sent'[s] /\ sent'[s] <= size'[s] /\ 1 <= read'[s]
      /\ pc'[s] \in {"loop", "drain"} => read'[s] < size'[s]
      /\ pc'[s] = "end" => read'[s] = size'[s]
      /\ pc'[s] = "loop" => lock' = s
      /\ cut'[s] => s \notin up' /\ 2 <= sent'[s]
  <2>1. 1 <= read[s] /\ sent[s] <= size[s] /\ (cut[s] => s \notin up /\ 2 <= sent[s])
    BY <1>1, <1>2 DEF Progress
  <2>2. size'[s] = size[s] /\ sent'[s] = sent[s] /\ cut'[s] = cut[s] /\ up' = up
    BY <1>2
  <2> QED
    BY <1>1, <1>2, <1>3, <2>1, <2>2
<1> QED
  BY <1>2, <1>5, <1>6 DEF Progress

\* A listener takes the next item of its socket, once, and takes it whole.
LEMMA TakeShapes ==
  ASSUME IInv, NEW t \in Targets, Take(t)
  PROVE  /\ Shapes' /\ Progress'
         /\ taken[t] + 1 \in DOMAIN feed[t] /\ feed[t][taken[t] + 1] \in Items
         /\ Received(file[t], feed[t][taken[t] + 1]) \in
              [name : Senders \cup {NoSender}, buffer : Seq(Items)]
<1> DEFINE item == feed[t][taken[t] + 1]
           f == Received(file[t], item)
<1>0. Shapes /\ Progress
  BY DEF IInv
<1>1. /\ feed[t] \in Seq(Items) /\ Len(feed[t]) \in Nat /\ DOMAIN feed[t] = 1..Len(feed[t])
      /\ taken[t] \in 0..Len(feed[t]) /\ feed[t] \in [1..Len(feed[t]) -> Items]
      /\ file[t] \in [name : Senders \cup {NoSender}, buffer : Seq(Items)]
  BY <1>0, LenProperties DEF Shapes, TypeOK
<1>2. taken[t] < Len(feed[t])
  BY DEF Take
<1>3. taken[t] + 1 \in DOMAIN feed[t] /\ item \in Items
  BY <1>1, <1>2
<1>4. item.from \in Senders
  BY <1>3 DEF Items
<1> HIDE DEF item
<1>5. f \in [name : Senders \cup {NoSender}, buffer : Seq(Items)]
  <2>1. <<item>> \in Seq(Items) /\ Append(file[t].buffer, item) \in Seq(Items)
    BY <1>1, <1>3, AppendQueue
  <2>2. [name |-> item.from, buffer |-> <<item>>] \in [name : Senders \cup {NoSender}, buffer : Seq(Items)]
    BY <1>4, <2>1
  <2>3. [file[t] EXCEPT !.buffer = Append(@, item)] \in [name : Senders \cup {NoSender}, buffer : Seq(Items)]
    BY <1>1, <2>1
  <2> QED
    BY <2>2, <2>3 DEF Received
<1> HIDE DEF f
<1>6. /\ taken' = [taken EXCEPT ![t] = taken[t] + 1]
      /\ file' = [file EXCEPT ![t] = IF FlagLast(item) THEN NoFile ELSE f]
      /\ written' = IF FlagLast(item) /\ f.name # NoSender
                    THEN [written EXCEPT ![t] = @ \cup {f}] ELSE written
      /\ UNCHANGED <<pc, size, target, sent, read, cut, up, lost, ok, lock, feed, closing>>
  BY DEF Take, item, f
<1>7. NoFile \in [name : Senders \cup {NoSender}, buffer : Seq(Items)]
  BY DEF NoFile
<1>8. file' \in [Targets -> [name : Senders \cup {NoSender}, buffer : Seq(Items)]]
  BY <1>0, <1>5, <1>6, <1>7 DEF Shapes
<1>9. written' \in [Targets -> SUBSET Files]
  <2>1. f.name # NoSender => f \in Files
    BY <1>5 DEF Files
  <2> QED
    BY <1>0, <1>6, <2>1 DEF Shapes
<1>10. taken' \in [Targets -> Nat] /\ \A u \in Targets : taken'[u] \in 0..Len(feed[u])
  <2>1. taken[t] + 1 \in 0..Len(feed[t]) /\ taken[t] + 1 \in Nat
    BY <1>1, <1>2
  <2> QED
    BY <1>0, <1>6, <2>1 DEF Shapes, TypeOK
<1>11. \A u \in Targets : /\ file'[u].name \in Senders \cup {NoSender}
                          /\ file'[u].buffer \in Seq(Items)
  BY <1>8
<1>12. TypeOK'
  BY <1>0, <1>6, <1>10, <1>11 DEF Shapes, TypeOK
<1>13. Shapes'
  BY <1>0, <1>6, <1>8, <1>9, <1>10, <1>12 DEF Shapes
<1>14. Progress'
  BY <1>0, <1>6 DEF Progress
<1> QED
  BY <1>3, <1>5, <1>13, <1>14 DEF item, f

-----------------------------------------------------------------------------
(* Feeds.                                                                  *)

\* A chunk in a feed comes from a sender whose relay has begun.
LEMMA FromSenders ==
  ASSUME Shapes, NEW t \in Targets, NEW e \in Elements(feed[t])
  PROVE  e \in Items /\ e.from \in Senders
<1>1. feed[t] \in Seq(Items)
  BY DEF Shapes
<1>2. e \in Items
  BY <1>1, QueueType
<1> QED
  BY <1>2 DEF Items

\* What a step may do to a relay without a word to its target: its sender may go,
\* but takes nothing back; a worker that has lost its place may read on.
Quiet(s) ==
  /\ pc[s] \in {"loop", "end"} =>
       /\ pc'[s] \in {"loop", "end"} /\ ok'[s] = ok[s]
       /\ lost[s] \/ (~lost'[s] /\ pc'[s] = pc[s] /\ read'[s] = read[s])
       /\ read[s] <= read'[s]
       /\ cut[s] => cut'[s]
       /\ s \notin up => sent'[s] = sent[s] /\ cut'[s] = cut[s]
       /\ cut'[s] /\ ~cut[s] => read[s] < sent'[s]
  /\ pc[s] \notin {"loop", "end"} => pc'[s] # "loop" /\ (pc'[s] = "end" => ~ok'[s])

\* A step that writes to no feed, and does not touch a relay that has begun except
\* that its sender may go.
LEMMA RelayedKept ==
  ASSUME IInv, UNCHANGED <<feed, target>>, up' \subseteq up, \A s \in Senders : Quiet(s),
         read' \in [Senders -> 0..MaxChunks]
  PROVE  Relayed'
<1>0. Shapes /\ Relayed /\ Progress /\ \A s \in Senders : target[s] \in Targets
  BY DEF IInv, Shapes, TypeOK
<1>1. ASSUME NEW t \in Targets, NEW e \in Elements(feed[t]) PROVE Sane(t, e)'
  <2>1. e.from \in Senders /\ Sane(t, e) /\ e.n \in Nat
    BY <1>0, FromSenders DEF Relayed, Items
  <2>2. Quiet(e.from) /\ read[e.from] \in Nat /\ read'[e.from] \in Nat
    BY <1>0, <2>1 DEF Shapes, TypeOK
  <2>3. e.n <= read'[e.from] /\ pc'[e.from] \in {"loop", "end"} /\ (e.kind = "stale" => cut'[e.from])
    BY <2>1, <2>2 DEF Sane, Quiet
  <2>4. e.kind = "empty" => /\ e.from \notin up' /\ pc'[e.from] = "loop"
                            /\ e.n = read'[e.from] /\ read'[e.from] = sent'[e.from]
                            /\ ~lost'[e.from]
    BY <2>1, <2>2 DEF Sane, Quiet
  <2> QED
    BY <2>1, <2>3, <2>4 DEF Sane
<1>2. ASSUME NEW s \in Senders, Heard(s)'
      PROVE  /\ Heard(s) /\ pc'[s] = pc[s] /\ read'[s] = read[s]
             /\ \A n \in 1..read[s] : ChunkOf(s, n)' = ChunkOf(s, n)
  <2>1. Quiet(s) /\ pc'[s] \in {"loop", "end"} /\ ok'[s] /\ target[s] \in up
    BY <1>2 DEF Heard
  <2>2. pc[s] \in {"loop", "end"} /\ ok[s]
    BY <2>1 DEF Quiet
  <2>3. ~lost[s]
    BY <1>0, <2>2 DEF Progress
  <2>4. Heard(s) /\ pc'[s] = pc[s] /\ read'[s] = read[s]
    BY <2>1, <2>2, <2>3 DEF Heard, Quiet
  <2>5. ASSUME NEW n \in 1..read[s] PROVE (cut'[s] /\ n = sent'[s]) <=> (cut[s] /\ n = sent[s])
    <3>1. n <= read[s] /\ read[s] \in Nat /\ n \in Nat
      BY <1>0 DEF Shapes, TypeOK
    <3>2. CASE cut[s]
      <4>1. s \notin up
        BY <1>0, <3>2 DEF Progress
      <4> QED
        BY <2>1, <2>2, <3>2, <4>1 DEF Quiet
    <3>3. CASE ~cut[s] /\ cut'[s]
      <4>1. read[s] < sent'[s]
        BY <2>1, <2>2, <3>3 DEF Quiet
      <4>2. n # sent'[s]
        BY <3>1, <4>1
      <4> QED
        BY <3>3, <4>2
    <3>4. CASE ~cut[s] /\ ~cut'[s]
      BY <3>4
    <3> QED
      BY <3>2, <3>3, <3>4
  <2>6. ASSUME NEW n \in 1..read[s] PROVE ChunkOf(s, n)' = ChunkOf(s, n)
    BY <2>5, <2>6 DEF ChunkOf, Item
  <2> QED
    BY <2>4, <2>6
<1>3. ASSUME NEW s \in Senders, Heard(s)', pc'[s] = "loop"
      PROVE  LET f == feed[target[s]] IN f # <<>> /\ f[Len(f)].from = s /\ f[Len(f)].n = read'[s]
  BY <1>0, <1>2, <1>3 DEF Relayed
<1>4. ASSUME NEW s \in Senders, Heard(s)', NEW n \in 1..read'[s]
      PROVE  ChunkOf(s, n)' \in Elements(feed[target[s]])
  BY <1>0, <1>2, <1>4 DEF Relayed
<1>5. \A t \in Targets : Elements(feed[t])' = Elements(feed[t]) /\ InOrder(feed[t])'
  BY <1>0 DEF Relayed
<1> QED
  BY <1>1, <1>3, <1>4, <1>5 DEF Relayed

\* Nothing is written to a target outside the relay.
LEMMA QuietRelayed ==
  ASSUME IInv, QuietStep
  PROVE  Relayed'
<1> USE DEF clientVars
<1>0. Shapes /\ Progress /\ \A s \in Senders : read[s] \in Nat /\ sent[s] \in Nat
  BY DEF IInv, Shapes, TypeOK
<1>1. UNCHANGED <<feed, target>>
  BY DEF QuietStep, Put, SendChunk, SenderGone, Reads, Refuse, Allow, FileLock, DrainChunk,
         ReadAstray, TargetGone, RegistryShutdown, vars
<1>2. read' \in [Senders -> 0..MaxChunks]
  BY QuietShapes DEF Shapes, TypeOK
<1>3. \A r \in Senders : read[r] <= read[r] /\ (lost[r] => ~ok[r])
  BY <1>0 DEF Progress
<1>4. ASSUME NEW s \in Senders, NEW n \in 1..MaxChunks, Put(s, n) PROVE Relayed'
  <2>1. /\ pc[s] = "idle" /\ pc'[s] = "check"
        /\ \A r \in Senders \ {s} : /\ pc'[r] = pc[r] /\ sent'[r] = sent[r] /\ read'[r] = read[r]
        /\ UNCHANGED <<cut, up, ok, lost>>
    BY <1>0, <1>4 DEF Put, Shapes, TypeOK
  <2>2. \A r \in Senders : Quiet(r)
    BY <1>3, <2>1 DEF Quiet
  <2> QED
    BY <1>1, <1>2, <2>1, <2>2, RelayedKept
<1>5. ASSUME NEW s \in Senders, SendChunk(s) \/ SenderGone(s) PROVE Relayed'
  <2>1. /\ UNCHANGED <<pc, read, ok, lost>> /\ s \in up /\ up' \subseteq up
        /\ \A r \in Senders : cut[r] => cut'[r]
        /\ \A r \in Senders \ {s} : sent'[r] = sent[r] /\ cut'[r] = cut[r]
        /\ cut'[s] /\ ~cut[s] => sent'[s] = sent[s] + 1
    BY <1>0, <1>5 DEF SendChunk, Sending, SenderGone, Shapes, TypeOK
  <2>2. cut'[s] /\ ~cut[s] => read[s] < sent'[s]
    BY <1>0, <2>1 DEF Progress
  <2>3. \A r \in Senders : Quiet(r)
    BY <1>3, <2>1, <2>2 DEF Quiet
  <2> QED
    BY <1>1, <1>2, <2>1, <2>3, RelayedKept
<1>6. ASSUME NEW s \in Senders, Allow(s) \/ FileLock(s) PROVE Relayed'
  <2>1. /\ UNCHANGED <<read, ok, lost, size, sent, cut, up>>
        /\ pc[s] \in {"check", "want"} /\ pc'[s] \in {"want", "first"}
        /\ \A r \in Senders \ {s} : pc'[r] = pc[r]
    BY <1>0, <1>6 DEF Allow, FileLock, Goto, Shapes, TypeOK
  <2>2. \A r \in Senders : Quiet(r)
    BY <1>3, <2>1 DEF Quiet
  <2> QED
    BY <1>1, <1>2, <2>1, <2>2, RelayedKept
<1>7. ASSUME NEW s \in Senders, Reads(s) PROVE Relayed'
  <2>1. /\ UNCHANGED <<sent, cut, up>>
        /\ \A r \in Senders \ {s} : /\ pc'[r] = pc[r] /\ read'[r] = read[r]
                                    /\ ok'[r] = ok[r] /\ lost'[r] = lost[r]
        /\ pc[s] \in {"check", "drain", "loop"} /\ ~ok'[s]
        /\ pc'[s] \in {"drain", "loop", "end"} /\ (pc'[s] = "loop" => pc[s] = "loop")
        /\ pc[s] = "loop" => lost[s]
        /\ lost[s] => ok'[s] = ok[s]
        /\ read[s] <= read'[s]
    BY <1>7, ReadsCases
  <2>2. pc[s] = "loop" => pc'[s] \in {"loop", "end"}
    <3>1. Reads(s) /\ pc[s] = "loop" => ReadAstray(s)
      BY DEF Reads, Refuse, DrainChunk, Goto
    <3>2. ReadAstray(s) /\ pc[s] = "loop" => pc'[s] \in {"loop", "end"}
      BY <1>0 DEF ReadAstray, After, Shapes, TypeOK
    <3> QED
      BY <1>7, <3>1, <3>2
  <2>3. \A r \in Senders : Quiet(r)
    BY <1>3, <2>1, <2>2 DEF Quiet
  <2> QED
    BY <1>1, <1>2, <2>1, <2>3, RelayedKept
<1>8. CASE (\E t \in Targets : TargetGone(t)) \/ RegistryShutdown \/ UNCHANGED vars
  <2>1. UNCHANGED <<pc, read, ok, lost, size, sent, cut>> /\ up' \subseteq up
    BY <1>8 DEF TargetGone, RegistryShutdown, vars
  <2>2. \A r \in Senders : Quiet(r)
    BY <1>3, <2>1 DEF Quiet
  <2> QED
    BY <1>1, <1>2, <2>1, <2>2, RelayedKept
<1> QED
  BY <1>4, <1>5, <1>6, <1>7, <1>8 DEF QuietStep

\* What a chunk in a feed says of its sender outlasts a step of the relay.
LEMMA SaneKept ==
  ASSUME IInv, NEW s \in Senders, RelayStep(s),
         NEW t \in Targets, NEW e \in Elements(feed[t])
  PROVE  Sane(t, e)'
<1>0. Shapes /\ Relayed /\ Progress
  BY DEF IInv
<1>1. /\ pc[s] \in {"first", "loop"}
      /\ UNCHANGED <<size, target, sent, cut, up>>
      /\ \A r \in Senders \ {s} : /\ pc'[r] = pc[r] /\ read'[r] = read[r] /\ lost'[r] = lost[r]
      /\ read[s] <= read'[s] /\ read'[s] <= sent[s]
      /\ pc'[s] \in {"loop", "drain", "end"} /\ (pc'[s] = "end" <=> read'[s] = size[s])
      /\ pc'[s] = "drain" => pc[s] = "first"
      /\ lost'[s] => read'[s] = read[s] + 1
  BY RelayCases DEF Moves
<1>2. /\ read[s] \in Nat /\ read'[s] \in Nat /\ sent[s] \in Nat /\ size[s] \in Nat
      /\ sent[s] <= size[s]
  BY <1>0, RelayCases DEF Moves, Shapes, TypeOK, Progress
<1>3. e \in Items /\ e.from \in Senders /\ Sane(t, e)
  BY <1>0, FromSenders DEF Relayed
<1>4. CASE e.from # s
  BY <1>1, <1>3, <1>4 DEF Sane
<1>5. CASE e.from = s
  <2>1. /\ pc[s] = "loop" /\ t = target[s] /\ 1 <= e.n /\ e.n <= read[s] /\ e.n \in Nat
        /\ e.kind = "empty" => s \notin up /\ e.n = read[s] /\ read[s] = sent[s] /\ ~lost[s]
        /\ e.kind = "stale" => cut[s]
    BY <1>1, <1>3, <1>5 DEF Sane, Items
  <2>2. pc'[s] \in {"loop", "end"} /\ e.n <= read'[s]
    BY <1>1, <1>2, <2>1
  <2>3. e.kind = "empty" => read'[s] = read[s] /\ pc'[s] = "loop" /\ ~lost'[s]
    <3>1. ~lost[s] => read[s] < size[s]
      BY <1>0, <2>1 DEF Progress
    <3> QED
      BY <1>1, <1>2, <2>1, <2>2, <3>1
  <2> QED
    BY <1>1, <1>5, <2>1, <2>2, <2>3 DEF Sane
<1> QED
  BY <1>4, <1>5

\* A relay that fails, or that is not heard, writes nothing.
LEMMA SilentRelayed ==
  ASSUME IInv, NEW s \in Senders, RelayStep(s), Silent(s)
  PROVE  Relayed'
<1>0. Shapes /\ Relayed /\ Progress /\ \A r \in Senders : target[r] \in Targets
  BY DEF IInv, Shapes, TypeOK
<1>1. /\ pc[s] \in {"first", "loop"}
      /\ UNCHANGED <<size, target, sent, cut, up, feed>>
      /\ \A r \in Senders \ {s} : /\ ok'[r] = ok[r] /\ pc'[r] = pc[r]
                                  /\ read'[r] = read[r] /\ lost'[r] = lost[r]
      /\ read[s] <= read'[s] /\ read'[s] <= sent[s]
      /\ pc'[s] \in {"loop", "drain", "end"} /\ (pc'[s] = "end" <=> read'[s] = size[s])
      /\ pc'[s] = "drain" => pc[s] = "first"
      /\ lost'[s] => read'[s] = read[s] + 1
      /\ ~ok'[s] \/ target[s] \notin up
  BY RelayCases DEF Moves, Silent
<1>2. /\ read[s] \in Nat /\ read'[s] \in Nat /\ sent[s] \in Nat /\ size[s] \in Nat
      /\ sent[s] <= size[s]
  BY <1>0, RelayCases DEF Moves, Shapes, TypeOK, Progress
<1>3. ASSUME NEW t \in Targets, NEW e \in Elements(feed[t]) PROVE Sane(t, e)'
  BY <1>0, <1>3, SaneKept
<1>4. ASSUME NEW r \in Senders, Heard(r)'
      PROVE  /\ Heard(r) /\ pc'[r] = pc[r] /\ read'[r] = read[r]
             /\ \A n \in 1..read[r] : ChunkOf(r, n)' = ChunkOf(r, n)
  <2>1. r # s
    BY <1>1, <1>4 DEF Heard
  <2> QED
    BY <1>1, <1>4, <2>1 DEF Heard, ChunkOf, Item
<1>5. ASSUME NEW r \in Senders, Heard(r)', pc'[r] = "loop"
      PROVE  LET f == feed[target[r]] IN f # <<>> /\ f[Len(f)].from = r /\ f[Len(f)].n = read'[r]
  BY <1>0, <1>4, <1>5 DEF Relayed
<1>6. ASSUME NEW r \in Senders, Heard(r)', NEW n \in 1..read'[r]
      PROVE  ChunkOf(r, n)' \in Elements(feed[target[r]])
  BY <1>0, <1>4, <1>6 DEF Relayed
<1>7. \A t \in Targets : Elements(feed[t])' = Elements(feed[t]) /\ InOrder(feed[t])'
  BY <1>0, <1>1 DEF Relayed
<1> QED
  BY <1>1, <1>3, <1>5, <1>6, <1>7 DEF Relayed

\* A relay writes the next chunk after the one before, or the first.
LEMMA WroteRelayed ==
  ASSUME IInv, NEW s \in Senders, RelayStep(s), NEW e \in Items, Relays(s, e)
  PROVE  Relayed'
<1> DEFINE u == target[s]
           q == feed[u]
<1>0. Shapes /\ Relayed /\ Progress /\ (\A r \in Senders : target[r] \in Targets) /\ u \in Targets
  BY DEF IInv, Shapes, TypeOK
<1>1. /\ pc[s] \in {"first", "loop"} /\ lock = s /\ ~lost[s]
      /\ UNCHANGED <<size, target, sent, cut, up>>
      /\ \A r \in Senders \ {s} : pc'[r] = pc[r] /\ read'[r] = read[r] /\ lost'[r] = lost[r]
      /\ read[s] <= read'[s] /\ read'[s] <= sent[s] /\ ~lost'[s]
      /\ pc'[s] \in {"loop", "end"} /\ (pc'[s] = "end" <=> read'[s] = size[s])
  BY RelayCases DEF Moves, Relays
<1>2. /\ e.from = s /\ e.n = read'[s] /\ ok[s] /\ ok' = ok /\ u \in up
      /\ pc[s] = "first" => e.n = 1 /\ e.kind # "empty"
      /\ e.kind # "empty" => e = ChunkOf(s, read'[s]) /\ (pc[s] = "loop" => read'[s] = read[s] + 1)
      /\ e.kind = "empty" => pc[s] = "loop" /\ s \notin up /\ read'[s] = read[s] /\ read[s] = sent[s]
      /\ Writes(u, e)
      /\ read[s] \in Nat /\ read'[s] \in Nat /\ sent[s] \in Nat /\ size[s] \in Nat
      /\ sent[s] <= size[s] /\ 1 <= read[s]
      /\ pc[s] = "first" => read[s] = 1
  BY <1>0, <1>1, RelayCases DEF Moves, Relays, Shapes, TypeOK, Progress
<1>3. q \in Seq(Items) /\ InOrder(q)
  BY <1>0 DEF Shapes, Relayed
<1>4. e.kind = "empty" => pc'[s] = "loop"
  <2>1. pc[s] = "loop" => read[s] < size[s]
    BY <1>0, <1>1 DEF Progress
  <2> QED
    BY <1>1, <1>2, <2>1
<1>5. Sane(u, e)'
  <2>1. e.kind = "stale" => cut[s]
    <3>1. e.kind = "stale" => e = Item(s, read'[s], IF cut[s] /\ read'[s] = sent[s] THEN "stale" ELSE "whole")
      BY <1>2 DEF ChunkOf
    <3> QED
      BY <3>1 DEF Item
  <2> QED
    BY <1>1, <1>2, <1>4, <2>1 DEF Sane
<1>6. \A t \in Targets : \A d \in Elements(feed[t]) : Sane(t, d)'
  BY SaneKept
<1>7. feed'[u] # <<>> /\ feed'[u][Len(feed'[u])] = e /\ Elements(feed'[u]) = Elements(q) \cup {e}
  <2>1. CASE feed' = [feed EXCEPT ![u] = Append(@, e)]
    <3>1. feed'[u] = Append(q, e)
      BY <1>0, <2>1, FeedGrows
    <3> QED
      BY <1>3, <3>1, AppendParts
  <2>2. CASE feed' = feed /\ q # <<>> /\ q[Len(q)] = e
    BY <1>3, <2>2, LastElement
  <2> QED
    BY <1>2, <2>1, <2>2 DEF Writes
<1>8. \A t \in Targets \ {u} : feed'[t] = feed[t]
  BY <1>0, <1>2, FeedGrows DEF Writes
<1>9. InOrder(feed'[u])
  <2>1. CASE feed' = [feed EXCEPT ![u] = Append(@, e)] /\ (q = <<>> \/ q[Len(q)] # e)
    <3>1. CASE pc[s] = "first"
      <4>1. \A d \in Elements(q) : d.from # e.from
        BY <1>0, <1>2, <3>1 DEF Relayed, Sane
      <4>2. e.n = 1 /\ e.kind # "empty"
        BY <1>2, <3>1
      <4>3. InOrder(Append(q, e))
        BY <1>2, <1>3, <4>1, <4>2, AppendInOrder
      <4> QED
        BY <1>0, <2>1, <4>3, FeedGrows
    <3>2. CASE pc[s] = "loop"
      <4>1. q # <<>> /\ q[Len(q)].from = s /\ q[Len(q)].n = read[s]
        BY <1>0, <1>2, <3>2 DEF Relayed, Heard
      <4>2. e.n = IF e.kind = "empty" THEN q[Len(q)].n ELSE q[Len(q)].n + 1
        BY <1>2, <3>2, <4>1
      <4>3. q[Len(q)] \in Elements(q) /\ q[Len(q)] \in Items
        BY <1>3, <4>1, LastElement
      <4>4. CASE q[Len(q)].kind # "empty"
        <5>1. InOrder(Append(q, e))
          BY <1>2, <1>3, <4>1, <4>2, <4>4, AppendInOrder
        <5> QED
          BY <1>0, <2>1, <5>1, FeedGrows
      <4>5. q[Len(q)].kind # "empty"
        <5> SUFFICES ASSUME q[Len(q)].kind = "empty" PROVE FALSE
          OBVIOUS
        <5>1. read[s] = sent[s]
          BY <1>0, <1>2, <4>1, <4>3 DEF Relayed, Sane
        <5>2. e.kind = "empty" /\ read'[s] = read[s]
          BY <1>1, <1>2, <3>2, <5>1
        <5>3. q[Len(q)] = e
          BY <1>2, <4>1, <4>3, <5>2 DEF Items
        <5> QED
          BY <2>1, <4>1, <5>3
      <4> QED
        BY <4>4, <4>5
    <3> QED
      BY <1>1, <3>1, <3>2
  <2>2. CASE feed' = feed
    BY <1>3, <2>2
  <2> QED
    BY <1>2, <2>1, <2>2 DEF Writes
<1>10. \A t \in Targets : InOrder(feed'[t])
  BY <1>0, <1>8, <1>9 DEF Relayed
<1>11. ASSUME NEW t \in Targets, NEW d \in Elements(feed'[t]) PROVE Sane(t, d)'
  <2>1. CASE d \in Elements(feed[t])
    BY <1>6, <2>1
  <2>2. CASE d \notin Elements(feed[t])
    <3>1. t = u /\ d = e
      BY <1>7, <1>8, <1>11, <2>2
    <3> QED
      BY <1>1, <1>5, <3>1 DEF Sane
  <2> QED
    BY <2>1, <2>2
<1>12. ASSUME NEW r \in Senders, r # s, Heard(r)'
       PROVE  /\ Heard(r) /\ pc'[r] = pc[r] /\ read'[r] = read[r] /\ pc[r] # "loop"
              /\ \A n \in 1..read[r] : ChunkOf(r, n)' = ChunkOf(r, n)
  <2>1. pc[r] # "loop"
    BY <1>0, <1>1, <1>12 DEF Progress
  <2> QED
    BY <1>1, <1>2, <1>12, <2>1 DEF Heard, ChunkOf, Item
<1>13. ASSUME NEW r \in Senders, Heard(r)', pc'[r] = "loop"
       PROVE  LET f == feed'[target[r]] IN f # <<>> /\ f[Len(f)].from = r /\ f[Len(f)].n = read'[r]
  <2>1. r = s
    BY <1>12, <1>13
  <2> QED
    BY <1>2, <1>7, <2>1
<1>14. ASSUME NEW r \in Senders, Heard(r)', NEW n \in 1..read'[r]
       PROVE  ChunkOf(r, n)' \in Elements(feed'[target[r]])
  <2>1. Elements(feed[target[r]]) \subseteq Elements(feed'[target[r]])
    BY <1>0, <1>7, <1>8
  <2>2. CASE r # s
    <3>1. Heard(r) /\ n \in 1..read[r] /\ ChunkOf(r, n)' = ChunkOf(r, n)
      BY <1>12, <1>14, <2>2
    <3> QED
      BY <1>0, <2>1, <3>1 DEF Relayed
  <2>3. CASE r = s
    <3>1. ChunkOf(s, n)' = ChunkOf(s, n)
      BY <1>1 DEF ChunkOf, Item
    <3>2. CASE n = read'[s] /\ e.kind # "empty"
      BY <1>2, <1>7, <2>3, <3>1, <3>2
    <3>3. CASE n # read'[s] \/ e.kind = "empty"
      <4>1. n \in 1..read'[s]
        BY <1>14, <2>3
      <4>2. pc[s] = "loop"
        BY <1>1, <1>2, <3>3, <4>1
      <4>3. n \in 1..read[s]
        <5>1. read'[s] = read[s] \/ (read'[s] = read[s] + 1 /\ n # read'[s])
          BY <1>2, <3>3, <4>2
        <5>2. read[s] \in Nat
          BY <1>2
        <5> QED
          BY <4>1, <5>1, <5>2
      <4>4. Heard(s)
        BY <1>2, <4>2 DEF Heard
      <4>5. ChunkOf(s, n) \in Elements(feed[target[s]])
        BY <1>0, <4>3, <4>4 DEF Relayed
      <4> QED
        BY <2>1, <2>3, <3>1, <4>5
    <3> QED
      BY <3>2, <3>3
  <2> QED
    BY <2>2, <2>3
<1> QED
  BY <1>1, <1>10, <1>11, <1>13, <1>14 DEF Relayed

-----------------------------------------------------------------------------
(* Clients.                                                                *)

\* A client's file stands for what it took, and a feed that grows at its end changes
\* nothing of that.
LEMMA ListeningKept ==
  ASSUME IInv, UNCHANGED <<taken, file, written>>,
         \A t \in Targets : /\ Len(feed[t]) <= Len(feed'[t])
                            /\ \A i \in 1..Len(feed[t]) : feed'[t][i] = feed[t][i],
         feed' \in [Targets -> Seq(Items)],
         \A s \in Senders : /\ pc[s] # "idle" => pc'[s] # "idle" /\ size'[s] = size[s]
                            /\ cut[s] => cut'[s]
  PROVE  Listening' /\ OnDisk'
<1>0. Shapes /\ Relayed /\ Listening /\ OnDisk
  BY DEF IInv
<1>1. ASSUME NEW t \in Targets PROVE ListenerOf(t)'
  <2> DEFINE k == taken[t]
             last == feed[t][k]
             b == file[t].buffer
  <2>1. /\ feed[t] \in Seq(Items) /\ Len(feed[t]) \in Nat /\ DOMAIN feed[t] = 1..Len(feed[t])
        /\ k \in 0..Len(feed[t]) /\ Len(feed'[t]) \in Nat
    BY <1>0, LenProperties DEF Shapes, TypeOK
  <2>2. k <= Len(feed'[t])
    BY <2>1
  <2>3. file[t].name \in Senders \cup {NoSender} /\ b \in Seq(Items) /\ NoSender \notin Senders
    BY <1>0 DEF Shapes
  <2>4. ASSUME k # 0
        PROVE  feed'[t][k] = last /\ last.from \in Senders /\ size'[last.from] = size[last.from]
    <3>1. k \in 1..Len(feed[t])
      BY <2>1, <2>4
    <3>2. last \in Elements(feed[t])
      BY <2>1, <3>1 DEF Elements
    <3>3. last.from \in Senders /\ pc[last.from] # "idle"
      BY <1>0, <3>2, FromSenders DEF Relayed, Sane
    <3> QED
      BY <3>1, <3>3
  <2>5. ListenerOf(t)
    BY <1>0 DEF Listening
  <2>6. CASE file[t].name = NoSender
    <3>1. b = <<>> /\ (k = 0 \/ FlagLast(last))
      BY <2>5, <2>6 DEF ListenerOf
    <3>2. k = 0 \/ FlagLast(feed[t][k])'
      BY <2>4, <3>1 DEF FlagLast
    <3> QED
      BY <2>2, <2>6, <3>1, <3>2 DEF ListenerOf
  <2>7. CASE file[t].name # NoSender
    <3>1. /\ k >= 1 /\ b # <<>> /\ b[Len(b)] = last
          /\ \A i \in DOMAIN b :
               /\ b[i].from = file[t].name
               /\ i < Len(b) \/ last.kind # "empty" => b[i].n = i /\ b[i].kind # "empty"
               /\ b[i].kind = "stale" => cut[file[t].name]
          /\ pc[file[t].name] # "idle"
      BY <2>5, <2>7 DEF ListenerOf
    <3>2. feed'[t][k] = last /\ pc'[file[t].name] # "idle" /\ (cut[file[t].name] => cut'[file[t].name])
      BY <2>1, <2>3, <2>4, <2>7, <3>1
    <3> QED
      BY <2>2, <2>7, <3>1, <3>2 DEF ListenerOf
  <2> QED
    BY <2>6, <2>7
<1>2. OnDisk'
  <2> SUFFICES ASSUME NEW t \in Targets, NEW f \in written[t]
               PROVE  /\ pc'[f.name] # "idle"
                      /\ \A i \in DOMAIN f.buffer : f.buffer[i].from = f.name /\ f.buffer[i].n = i
                      /\ Len(f.buffer) = size'[f.name]
                      /\ cut'[f.name] \/ \A i \in DOMAIN f.buffer : f.buffer[i].kind = "whole"
    BY DEF OnDisk
  <2>1. f.name \in Senders
    BY <1>0 DEF Shapes, Files
  <2> QED
    BY <1>0, <2>1 DEF OnDisk
<1> QED
  BY <1>1, <1>2 DEF Listening

\* No listener's file changes outside Take.
LEMMA QuietListening ==
  ASSUME IInv, QuietStep
  PROVE  Listening' /\ OnDisk'
<1> USE DEF clientVars
<1>0. Shapes /\ Progress
  BY DEF IInv
<1>1. UNCHANGED <<feed, taken, file, written>>
  BY DEF QuietStep, Put, SendChunk, SenderGone, Reads, Refuse, Allow, FileLock, DrainChunk,
         ReadAstray, TargetGone, RegistryShutdown, vars
<1>2. /\ feed' \in [Targets -> Seq(Items)]
      /\ \A t \in Targets : /\ Len(feed[t]) <= Len(feed'[t])
                             /\ \A i \in 1..Len(feed[t]) : feed'[t][i] = feed[t][i]
  <2>1. \A t \in Targets : Len(feed[t]) \in Nat
    BY <1>0, LenProperties DEF Shapes
  <2> QED
    BY <1>0, <1>1, <2>1 DEF Shapes
<1>3. \A s \in Senders : pc[s] # "idle" => pc'[s] # "idle" /\ size'[s] = size[s]
  <2>1. ASSUME NEW s \in Senders, NEW n \in 1..MaxChunks, Put(s, n)
        PROVE  \A r \in Senders : pc[r] # "idle" => pc'[r] # "idle" /\ size'[r] = size[r]
    BY <1>0, <2>1 DEF Put, Shapes, TypeOK
  <2>2. ASSUME NEW s \in Senders,
               SendChunk(s) \/ SenderGone(s) \/ Allow(s) \/ FileLock(s)
        PROVE  \A r \in Senders : pc[r] # "idle" => pc'[r] # "idle" /\ size'[r] = size[r]
    BY <1>0, <2>2 DEF SendChunk, SenderGone, Allow, FileLock, Goto, Shapes, TypeOK
  <2>3. CASE (\E t \in Targets : TargetGone(t)) \/ RegistryShutdown \/ UNCHANGED vars
    BY <2>3 DEF TargetGone, RegistryShutdown, vars
  <2>4. ASSUME NEW s \in Senders, Reads(s)
        PROVE  \A r \in Senders : pc[r] # "idle" => pc'[r] # "idle" /\ size'[r] = size[r]
    BY <2>4, ReadsCases
  <2> QED
    BY <2>1, <2>2, <2>3, <2>4 DEF QuietStep
<1>4. \A s \in Senders : cut[s] => cut'[s]
  BY <1>0 DEF QuietStep, Put, SendChunk, SenderGone, Reads, Refuse, Allow, FileLock, DrainChunk,
         ReadAstray, TargetGone, RegistryShutdown, vars, Shapes, TypeOK
<1> QED
  BY <1>1, <1>2, <1>3, <1>4, ListeningKept

\* What a listener has already taken does not change when more is relayed to it.
LEMMA RelayListening ==
  ASSUME IInv, NEW s \in Senders, RelayStep(s)
  PROVE  Listening' /\ OnDisk'
<1>0. Shapes /\ target[s] \in Targets
  BY DEF IInv, Shapes, TypeOK
<1>1. /\ UNCHANGED <<taken, file, written, size, cut>>
      /\ pc'[s] # "idle" /\ \A r \in Senders \ {s} : pc'[r] = pc[r]
  BY RelayCases DEF Moves
<1>2. feed' = feed \/ \E e \in Items : feed' = [feed EXCEPT ![target[s]] = Append(@, e)]
  BY RelayCases DEF Silent, Relays, Writes
<1>3. \A t \in Targets : /\ Len(feed[t]) <= Len(feed'[t])
                         /\ \A i \in 1..Len(feed[t]) : feed'[t][i] = feed[t][i]
  <2>1. CASE feed' = feed
    <3>1. \A t \in Targets : Len(feed[t]) \in Nat
      BY <1>0, LenProperties DEF Shapes
    <3> QED
      BY <2>1, <3>1
  <2>2. CASE \E e \in Items : feed' = [feed EXCEPT ![target[s]] = Append(@, e)]
    BY <1>0, <2>2, FeedGrows
  <2> QED
    BY <1>2, <2>1, <2>2
<1>4. feed' \in [Targets -> Seq(Items)]
  BY RelayShapes DEF Shapes
<1> QED
  BY <1>1, <1>3, <1>4, ListeningKept

-----------------------------------------------------------------------------
(* Every step keeps the invariant.                                         *)

\* A round of a relay.
LEMMA RelayRelayed ==
  ASSUME IInv, NEW s \in Senders, RelayStep(s)
  PROVE  Relayed'
<1>1. CASE Silent(s)
  BY <1>1, SilentRelayed
<1>2. ASSUME NEW e \in Items, Relays(s, e) PROVE Relayed'
  BY <1>2, WroteRelayed
<1> QED
  BY <1>1, <1>2, RelayCases

\* The listener's step is not the server's.
LEMMA TakeRelayed ==
  ASSUME IInv, NEW t \in Targets, Take(t)
  PROVE  Relayed'
<1>1. UNCHANGED <<pc, size, target, sent, read, cut, up, lost, ok, lock, feed, closing>>
  BY DEF Take
<1>2. read \in [Senders -> 0..MaxChunks]
  BY DEF IInv, Shapes, TypeOK
<1>3. ASSUME NEW s \in Senders PROVE Quiet(s)
  <2>1. read[s] \in Nat /\ (lost[s] \/ ~lost[s])
    BY <1>2
  <2> QED
    BY <1>1, <2>1 DEF Quiet
<1> QED
  BY <1>1, <1>2, <1>3, RelayedKept

\* What a listener has of a file once it has taken the next chunk of its feed: that
\* chunk and all before it, because a chunk that starts a file displaces the last
\* one, and one that goes on finds the file it goes on with.
LEMMA ReceivedFile ==
  ASSUME IInv, NEW t \in Targets, taken[t] + 1 \in DOMAIN feed[t]
  PROVE  LET item == feed[t][taken[t] + 1]
             f    == Received(file[t], item)
             b    == f.buffer
         IN /\ f.name \in Senders /\ f.name = item.from /\ pc[f.name] # "idle"
            /\ b \in Seq(Items) /\ b # <<>> /\ b[Len(b)] = item
            /\ \A i \in DOMAIN b :
                 /\ b[i].from = f.name
                 /\ i < Len(b) \/ item.kind # "empty" => b[i].n = i /\ b[i].kind # "empty"
                 /\ b[i].kind = "stale" => cut[f.name]
<1> DEFINE k    == taken[t]
           q    == feed[t]
           item == q[k + 1]
           last == q[k]
           b    == file[t].buffer
           f    == Received(file[t], item)
<1>0. Shapes /\ Progress /\ Relayed /\ ListenerOf(t)
  BY DEF IInv, Listening
<1>1. /\ q \in Seq(Items) /\ Len(q) \in Nat /\ DOMAIN q = 1..Len(q) /\ InOrder(q)
      /\ k \in Nat /\ k + 1 \in 1..Len(q)
      /\ b \in Seq(Items) /\ file[t] \in [name : Senders \cup {NoSender}, buffer : Seq(Items)]
  BY <1>0, LenProperties DEF Shapes, Relayed
<1>2. item \in Elements(q)
  BY <1>1 DEF Elements
<1>3. /\ item \in Items /\ item.from \in Senders /\ Sane(t, item) /\ item.n \in Nat
      /\ item.kind \in {"whole", "stale", "empty"}
  BY <1>0, <1>2, FromSenders DEF Relayed, Items
<1>4. Starts(q, k + 1) \/ Follows(q, k + 1)
  BY <1>1 DEF InOrder
<1> DEFINE Good ==
             /\ f.name \in Senders /\ f.name = item.from /\ pc[f.name] # "idle"
             /\ f.buffer \in Seq(Items) /\ f.buffer # <<>> /\ f.buffer[Len(f.buffer)] = item
             /\ \A i \in DOMAIN f.buffer :
                  /\ f.buffer[i].from = f.name
                  /\ i < Len(f.buffer) \/ item.kind # "empty" =>
                       f.buffer[i].n = i /\ f.buffer[i].kind # "empty"
                  /\ f.buffer[i].kind = "stale" => cut[f.name]
<1>5. CASE Starts(q, k + 1)
  <2>1. item.n = 1 /\ item.kind # "empty"
    BY <1>5 DEF Starts
  <2>2. f = [name |-> item.from, buffer |-> <<item>>]
    BY <2>1 DEF Received, FlagFirst
  <2>3. f.name = item.from /\ f.buffer = <<item>>
    BY <2>2
  <2>4. /\ <<item>> \in Seq(Items) /\ <<item>> # <<>> /\ Len(<<item>>) = 1
        /\ DOMAIN <<item>> = {1} /\ <<item>>[1] = item
    BY <1>3
  <2>5. pc[item.from] # "idle" /\ (item.kind = "stale" => cut[item.from])
    BY <1>3 DEF Sane
  <2> QED
    BY <1>3, <2>1, <2>3, <2>4, <2>5
<1>6. CASE Follows(q, k + 1)
  <2>1. /\ k >= 1 /\ last.from = item.from /\ last.kind # "empty"
        /\ item.n = IF item.kind = "empty" THEN last.n ELSE last.n + 1
    <3>1. (k + 1) - 1 = k
      BY <1>1
    <3> QED
      BY <1>1, <1>6, <3>1 DEF Follows
  <2>2. last \in Elements(q)
    BY <1>1, <2>1 DEF Elements
  <2>3. last \in Items /\ Sane(t, last) /\ last.n \in Nat /\ 1 <= last.n
    BY <1>0, <2>2, FromSenders DEF Relayed, Items, Sane
  <2>4. ~FlagFirst(item)
    BY <2>1, <2>3 DEF FlagFirst
  <2>5. f = [file[t] EXCEPT !.buffer = Append(b, item)]
    BY <2>4 DEF Received
  <2>6. f.name = file[t].name /\ f.buffer = Append(b, item)
    BY <1>1, <2>5
  <2>7. file[t].name # NoSender
    <3> SUFFICES ASSUME file[t].name = NoSender PROVE FALSE
      OBVIOUS
    <3>1. last.n = size[item.from]
      BY <1>0, <1>1, <2>1 DEF ListenerOf, FlagLast
    <3>2. /\ item.n <= read[item.from] /\ read[item.from] <= sent[item.from]
          /\ sent[item.from] <= size[item.from]
          /\ item.kind = "empty" => /\ pc[item.from] = "loop" /\ item.n = read[item.from]
                                     /\ read[item.from] < size[item.from]
      BY <1>0, <1>3 DEF Sane, Progress
    <3>3. /\ read[item.from] \in Nat /\ sent[item.from] \in Nat /\ size[item.from] \in Nat
      BY <1>0, <1>3 DEF Shapes, TypeOK
    <3> QED
      BY <1>3, <2>1, <2>3, <3>1, <3>2, <3>3
  <2>8. /\ b # <<>> /\ b[Len(b)] = last
        /\ \A i \in DOMAIN b : /\ b[i].from = file[t].name
                               /\ b[i].n = i /\ b[i].kind # "empty"
                               /\ b[i].kind = "stale" => cut[file[t].name]
        /\ pc[file[t].name] # "idle"
    BY <1>0, <2>1, <2>7 DEF ListenerOf
  <2>9. Len(b) \in DOMAIN b
    BY <1>1, <2>8, LastElement
  <2>10. last.from = file[t].name /\ last.n = Len(b)
    BY <2>8, <2>9
  <2>11. /\ Append(b, item) \in Seq(Items) /\ Append(b, item) # <<>>
         /\ Len(b) \in Nat /\ DOMAIN b = 1..Len(b)
         /\ Len(Append(b, item)) = Len(b) + 1
         /\ DOMAIN Append(b, item) = DOMAIN b \cup {Len(b) + 1}
         /\ \A i \in 1..Len(b) : Append(b, item)[i] = b[i]
         /\ Append(b, item)[Len(b) + 1] = item
    BY <1>1, <1>3, AppendParts
  <2>12. item.kind = "stale" => cut[item.from]
    BY <1>3 DEF Sane
  <2>13. ASSUME NEW i \in DOMAIN f.buffer
         PROVE  /\ f.buffer[i].from = f.name
                /\ i < Len(f.buffer) \/ item.kind # "empty" =>
                     f.buffer[i].n = i /\ f.buffer[i].kind # "empty"
                /\ f.buffer[i].kind = "stale" => cut[f.name]
    <3>1. CASE i \in DOMAIN b
      <4>1. f.buffer[i] = b[i] /\ i \in Nat
        BY <2>6, <2>11, <3>1
      <4> QED
        BY <2>6, <2>8, <3>1, <4>1
    <3>2. CASE i = Len(b) + 1
      <4>1. f.buffer[i] = item /\ Len(f.buffer) = i
        BY <2>6, <2>11, <3>2
      <4>2. item.from = f.name
        BY <2>1, <2>6, <2>10
      <4>3. item.kind # "empty" => item.n = i
        BY <2>1, <2>10, <3>2
      <4>4. i \in Nat /\ ~(i < i)
        BY <2>11, <3>2
      <4> QED
        BY <2>12, <4>1, <4>2, <4>3, <4>4
    <3> QED
      BY <2>6, <2>11, <3>1, <3>2
  <2>14. f.name \in Senders /\ f.name = item.from /\ pc[f.name] # "idle"
    BY <1>3, <2>1, <2>6, <2>8, <2>10
  <2>15. f.buffer \in Seq(Items) /\ f.buffer # <<>> /\ f.buffer[Len(f.buffer)] = item
    BY <2>6, <2>11
  <2> QED
    BY <2>13, <2>14, <2>15
<1> QED
  BY <1>4, <1>5, <1>6

\* The listener's step: a last chunk has the file written and forgotten, any other
\* one leaves it with what it has received.
LEMMA TakeListening ==
  ASSUME IInv, NEW t \in Targets, Take(t)
  PROVE  Listening' /\ OnDisk'
<1> DEFINE item == feed[t][taken[t] + 1]
           f    == Received(file[t], item)
<1>0. Shapes /\ Listening /\ OnDisk /\ Progress
  BY DEF IInv
<1>1. /\ Shapes' /\ taken[t] + 1 \in DOMAIN feed[t]
      /\ f \in [name : Senders \cup {NoSender}, buffer : Seq(Items)]
  BY TakeShapes
<1>2. /\ f.name \in Senders /\ f.name = item.from /\ pc[f.name] # "idle"
      /\ f.buffer \in Seq(Items) /\ f.buffer # <<>> /\ f.buffer[Len(f.buffer)] = item
      /\ \A i \in DOMAIN f.buffer :
           /\ f.buffer[i].from = f.name
           /\ i < Len(f.buffer) \/ item.kind # "empty" =>
                f.buffer[i].n = i /\ f.buffer[i].kind # "empty"
           /\ f.buffer[i].kind = "stale" => cut[f.name]
  BY <1>1, ReceivedFile
<1>3. /\ feed[t] \in Seq(Items) /\ Len(feed[t]) \in Nat /\ DOMAIN feed[t] = 1..Len(feed[t])
      /\ taken[t] \in Nat
  BY <1>0, LenProperties DEF Shapes
<1>4. /\ taken' = [taken EXCEPT ![t] = taken[t] + 1]
      /\ file' = [file EXCEPT ![t] = IF FlagLast(item) THEN NoFile ELSE f]
      /\ written' = IF FlagLast(item) /\ f.name # NoSender
                    THEN [written EXCEPT ![t] = @ \cup {f}] ELSE written
      /\ UNCHANGED <<pc, size, target, sent, read, cut, up, lost, ok, lock, feed, closing>>
  BY DEF Take
<1>5. /\ taken'[t] = taken[t] + 1 /\ file'[t] = IF FlagLast(item) THEN NoFile ELSE f
      /\ \A u \in Targets \ {t} : taken'[u] = taken[u] /\ file'[u] = file[u]
  BY <1>0, <1>4 DEF Shapes
<1>6. NoSender \notin Senders
  OBVIOUS
<1> DEFINE l == taken[t] + 1
<1>7. l >= 1 /\ l <= Len(feed[t]) /\ l # 0
  BY <1>1, <1>3
<1>8. ListenerOf(t)'
  <2>1. feed'[t] = feed[t] /\ feed'[t][taken'[t]] = item
    BY <1>4, <1>5
  <2>2. CASE FlagLast(item)
    <3>1. file'[t].name = NoSender /\ file'[t].buffer = <<>>
      BY <1>5, <2>2 DEF NoFile
    <3>2. FlagLast(feed[t][taken[t]])'
      BY <1>4, <2>1, <2>2 DEF FlagLast
    <3>3. taken'[t] <= Len(feed'[t])
      BY <1>5, <1>7, <2>1
    <3> QED
      BY <3>1, <3>2, <3>3 DEF ListenerOf
  <2>3. CASE ~FlagLast(item)
    <3>1. file'[t] = f
      BY <1>5, <2>3
    <3> HIDE DEF f, item
    <3>2. pc' = pc /\ cut' = cut
      BY <1>4
    <3>3. taken'[t] <= Len(feed'[t]) /\ taken'[t] >= 1
      BY <1>5, <1>7, <2>1
    <3> QED
      BY <1>2, <1>6, <2>1, <3>1, <3>2, <3>3 DEF ListenerOf
  <2> QED
    BY <2>2, <2>3
<1>9. ASSUME NEW u \in Targets \ {t} PROVE ListenerOf(u)'
  <2>1. ListenerOf(u)
    BY <1>0 DEF Listening
  <2>2. taken'[u] = taken[u] /\ file'[u] = file[u] /\ feed' = feed /\ size' = size
        /\ pc' = pc /\ cut' = cut
    BY <1>4, <1>5
  <2> QED
    BY <2>1, <2>2 DEF ListenerOf, FlagLast
<1>10. OnDisk'
  <2> SUFFICES ASSUME NEW u \in Targets, NEW g \in written'[u]
               PROVE  /\ pc[g.name] # "idle"
                      /\ \A i \in DOMAIN g.buffer : g.buffer[i].from = g.name /\ g.buffer[i].n = i
                      /\ Len(g.buffer) = size[g.name]
                      /\ cut[g.name] \/ \A i \in DOMAIN g.buffer : g.buffer[i].kind = "whole"
    BY <1>4 DEF OnDisk
  <2>1. CASE g \in written[u]
    BY <1>0, <2>1 DEF OnDisk
  <2>2. CASE g \notin written[u]
    <3>1. g = f /\ FlagLast(item)
      BY <1>0, <1>4, <2>2 DEF Shapes
    <3>2. item.kind # "empty" /\ item.n = size[item.from]
      BY <3>1 DEF FlagLast
    <3> HIDE DEF f, item
    <3>3. Len(f.buffer) \in DOMAIN f.buffer
      BY <1>2, LastElement
    <3>4. \A i \in DOMAIN f.buffer : f.buffer[i] \in Items
      BY <1>2, LenProperties
    <3>5. \A i \in DOMAIN f.buffer : f.buffer[i].kind \in {"whole", "stale", "empty"}
      BY <3>4 DEF Items
    <3>6. Len(f.buffer) = size[f.name]
      BY <1>2, <3>2, <3>3
    <3> QED
      BY <1>2, <3>1, <3>2, <3>5, <3>6
  <2> QED
    BY <2>1, <2>2
<1> QED
  BY <1>8, <1>9, <1>10 DEF Listening

\* Every step keeps all parts.
LEMMA NextInv == IInv /\ [Next]_vars => IInv'
<1> SUFFICES ASSUME IInv, [Next]_vars PROVE IInv'
  OBVIOUS
<1>1. CASE QuietStep
  BY <1>1, QuietShapes, QuietProgress, QuietRelayed, QuietListening DEF IInv
<1>2. ASSUME NEW s \in Senders, RelayStep(s) PROVE IInv'
  BY <1>2, RelayShapes, RelayProgress, RelayRelayed, RelayListening DEF IInv
<1>3. ASSUME NEW t \in Targets, Take(t) PROVE IInv'
  BY <1>3, TakeShapes, TakeRelayed, TakeListening DEF IInv
<1> QED
  BY <1>1, <1>2, <1>3, StepKinds

-----------------------------------------------------------------------------
(* The theorems.                                                           *)

\* The parts hold in every state of every behaviour, whether or not workers, senders
\* and listeners ever go on.
THEOREM Invariance == SafetySpec => []IInv
<1>1. Init => IInv
  BY InitInv
<1>2. IInv /\ [Next]_vars => IInv'
  BY NextInv
<1> QED
  BY <1>1, <1>2, PTL DEF SafetySpec

\* The counters stay in their ranges: no relay reads or sends past the last chunk, and
\* no listener runs ahead of its feed.
THEOREM TypeCorrect == SafetySpec => []TypeOK
<1>1. IInv => TypeOK
  BY DEF IInv, Shapes
<1> QED
  BY <1>1, Invariance, PTL

\* However many relays there are to one target, what it is sent is one file after
\* another, the chunks of each in order from its first one.
THEOREM ContiguousCorrect == SafetySpec => []FilesContiguous
<1>1. ASSUME IInv PROVE FilesContiguous
  <2>0. Shapes /\ Relayed
    BY <1>1 DEF IInv
  <2> SUFFICES ASSUME NEW t \in Targets, NEW i \in DOMAIN feed[t]
               PROVE  \/ feed[t][i].n = 1 /\ \A k \in 1..(i - 1) : feed[t][k].from # feed[t][i].from
                      \/ /\ i > 1 /\ feed[t][i - 1].from = feed[t][i].from
                         /\ feed[t][i].n - feed[t][i - 1].n \in {0, 1}
    BY DEF FilesContiguous
  <2>1. /\ InOrder(feed[t]) /\ DOMAIN feed[t] = 1..Len(feed[t]) /\ Len(feed[t]) \in Nat
        /\ feed[t] \in [1..Len(feed[t]) -> Items]
    BY <2>0, LenProperties DEF Shapes, Relayed
  <2>2. CASE Starts(feed[t], i)
    BY <2>2 DEF Starts
  <2>3. CASE Follows(feed[t], i)
    <3>1. i - 1 \in DOMAIN feed[t]
      BY <2>1, <2>3 DEF Follows
    <3>2. feed[t][i] \in Items /\ feed[t][i - 1] \in Items
      BY <2>1, <3>1
    <3>3. feed[t][i].n \in Nat /\ feed[t][i - 1].n \in Nat
      BY <3>2 DEF Items
    <3> QED
      BY <2>3, <3>3 DEF Follows
  <2> QED
    BY <2>1, <2>2, <2>3 DEF InOrder
<1> QED
  BY <1>1, Invariance, PTL

\* A worker leaves opcode_file_send with a part of the file unread only if a drain
\* had no memory.
THEOREM ReadToLastCorrect == SafetySpec => []ReadToLast
<1>1. IInv => ReadToLast
  BY DEF IInv, Progress, ReadToLast
<1> QED
  BY <1>1, Invariance, PTL

\* A transfer that answers success has sent its target the whole file, if the target
\* is still there.
THEOREM SuccessCorrect == SafetySpec => []SuccessMeansWhole
<1>1. ASSUME IInv PROVE SuccessMeansWhole
  <2>0. Shapes /\ Relayed /\ Progress
    BY <1>1 DEF IInv
  <2> SUFFICES ASSUME NEW s \in Senders, pc[s] = "end", ok[s], target[s] \in up, NEW n \in 1..size[s]
               PROVE  \E i \in DOMAIN feed[target[s]] :
                        feed[target[s]][i] = Item(s, n, IF cut[s] /\ n = size[s] THEN "stale" ELSE "whole")
    BY DEF SuccessMeansWhole
  <2>1. read[s] = size[s] /\ read[s] <= sent[s] /\ sent[s] <= size[s]
    BY <2>0 DEF Progress
  <2>2. sent[s] = size[s]
    BY <2>0, <2>1 DEF Shapes, TypeOK
  <2>3. ChunkOf(s, n) \in Elements(feed[target[s]])
    BY <2>0, <2>1 DEF Relayed, Heard
  <2>4. ChunkOf(s, n) = Item(s, n, IF cut[s] /\ n = size[s] THEN "stale" ELSE "whole")
    BY <2>2 DEF ChunkOf
  <2> QED
    BY <2>3, <2>4 DEF Elements
<1> QED
  BY <1>1, Invariance, PTL

\* What a client writes to its disk under a file's name is that file and nothing else.
THEOREM WrittenCorrect == SafetySpec => []WrittenIsSent
<1>1. IInv => WrittenIsSent
  BY DEF IInv, OnDisk, WrittenIsSent
<1> QED
  BY <1>1, Invariance, PTL
=============================================================================
