---------------------------- MODULE FileTransfer ----------------------------
(***************************************************************************)
(* How a file crosses the server (chat/src/chat_transfer.c): the sender's  *)
(* worker reads chunks from the sender's socket and writes them to the     *)
(* target's, one file at a time (file_lock), until the chunk that carries  *)
(* FILE_CHUNK_FLAG_LAST.  A file that is refused, or that fails halfway,   *)
(* is read to its last chunk all the same, or the next bytes would be      *)
(* taken for an opcode.                                                    *)
(*                                                                         *)
(* The statuses of the receives in these loops are ignored, so what a loop *)
(* does when the sender is gone follows from the header it is left with:   *)
(* zeroed in file_relay, the previous one in drain_file_chunks, and in     *)
(* both without the last flag.  That of sockutil_sendall is ignored too    *)
(* (msg_send): a relay to a target whose socket is down goes on, and       *)
(* answers success.  And so is that of sockutil_drain: when its buffer     *)
(* cannot be had, the bytes it was to skip are taken for headers.          *)
(*                                                                         *)
(* Of the target only its socket matters here (up); that its client_t may  *)
(* be freed while the file lasts is Chat's broken.                         *)
(*                                                                         *)
(* The connections are chat clients (chat/chat_client.py), with two        *)
(* threads.  The prompt thread sends a whole file in one sendall, with     *)
(* _listener_lock held; the listener thread takes that lock to handle what *)
(* arrives.  So a client that is still sending does not receive, and the   *)
(* sockets between it and the server hold only so much.                    *)
(***************************************************************************)
EXTENDS Naturals, Sequences

CONSTANTS
  Senders,    \* connections that send one file each
  Targets,    \* connections that receive; a connection may do both
  NoSender,   \* file_lock is free; no file is being received
  MaxChunks,  \* bound: the chunks of a file
  SocketSize  \* the chunks a socket holds that its reader has not taken

ASSUME TransferAssumption ==
  /\ NoSender \notin Senders /\ MaxChunks \in Nat \ {0}
  /\ SocketSize \in Nat \ {0}

VARIABLES
  pc,      \* where the sender's worker is in opcode_file_send
  size,    \* the chunks of the file; the last one has the flag
  target,  \* p_target
  sent,    \* how many chunks the sender has put into its socket
  read,    \* how many the worker has taken out
  cut,     \* the sender went away inside its last chunk
  up,      \* the connections whose socket works
  lost,    \* a drain got no memory: its bytes are taken for headers
  ok,      \* what is answered is RETCODE_SUCCESS, so far
  lock,    \* who holds file_lock
  feed,    \* what was written to each target
  closing, \* registry_shutdown has been called
  taken,   \* how much of its feed each target's listener has handled
  file,    \* its _file_recv_name and _file_recv_buffer
  written  \* history: the files it has written to disk

clientVars == <<taken, file, written>>

vars == <<pc, size, target, sent, read, cut, up, lost, ok, lock, feed, closing, clientVars>>

NoFile == [name |-> NoSender, buffer |-> <<>>]

Init ==
  /\ pc = [s \in Senders |-> "idle"]
  /\ size = [s \in Senders |-> 0]
  /\ target \in [Senders -> Targets]
  /\ sent = [s \in Senders |-> 0]
  /\ read = [s \in Senders |-> 0]
  /\ cut = [s \in Senders |-> FALSE]
  /\ up = Senders \cup Targets
  /\ lost = [s \in Senders |-> FALSE]
  /\ ok = [s \in Senders |-> TRUE]
  /\ lock = NoSender
  /\ feed = [t \in Targets |-> <<>>]
  /\ closing = FALSE
  /\ taken = [t \in Targets |-> 0]
  /\ file = [t \in Targets |-> NoFile]
  /\ written = [t \in Targets |-> {}]

-----------------------------------------------------------------------------
(* The clients.                                                            *)

\* The request comes with the first chunk, which the worker has read with it.
Put(s, n) ==
  /\ pc[s] = "idle" /\ s \in up
  /\ pc' = [pc EXCEPT ![s] = "check"]
  /\ size' = [size EXCEPT ![s] = n]
  /\ sent' = [sent EXCEPT ![s] = 1]
  /\ read' = [read EXCEPT ![s] = 1]
  /\ UNCHANGED <<target, cut, up, lost, ok, lock, feed, closing, clientVars>>

\* sendall is under way, with _listener_lock held.
Sending(c) == c \in Senders \cap up /\ sent[c] < size[c]

\* Mutant: one chunk too many.
SendChunkMore(s) ==
  /\ s \in up /\ sent[s] <= size[s]
  /\ sent' = [sent EXCEPT ![s] = @ + 1]
  /\ UNCHANGED <<pc, size, target, read, cut, up, lost, ok, lock, feed, closing, clientVars>>

\* The next chunk of sendall fits into the socket.
SendChunk(s) ==
  /\ Sending(s)
  /\ sent[s] - read[s] < SocketSize
  /\ sent' = [sent EXCEPT ![s] = @ + 1]
  /\ UNCHANGED <<pc, size, target, read, cut, up, lost, ok, lock, feed, closing, clientVars>>

FlagFirst(item) == item.n = 1 /\ item.kind # "empty"

FlagLast(item) == item.n = size[item.from] /\ item.kind # "empty"

\* Mutant: a new file does not displace what is left of an unfinished one.
ReceivedAdds(f, item) ==
  IF FlagFirst(item)
  THEN [name |-> item.from, buffer |-> Append(f.buffer, item)]
  ELSE [f EXCEPT !.buffer = Append(@, item)]

\* opcode_msg_recv: the first chunk starts a file, the others are added.
Received(f, item) ==
  IF FlagFirst(item)
  THEN [name |-> item.from, buffer |-> <<item>>]
  ELSE [f EXCEPT !.buffer = Append(@, item)]

\* The listener of a client handles the next chunk; the last one has the file
\* written, if its first one was seen.
Take(t) ==
  LET item == feed[t][taken[t] + 1]
      f    == Received(file[t], item)
  IN /\ t \in up /\ ~Sending(t)
     /\ taken[t] < Len(feed[t])
     /\ taken' = [taken EXCEPT ![t] = @ + 1]
     /\ file' = [file EXCEPT ![t] = IF FlagLast(item) THEN NoFile ELSE f]
     /\ written' = IF FlagLast(item) /\ f.name # NoSender
                   THEN [written EXCEPT ![t] = @ \cup {f}] ELSE written
     /\ UNCHANGED <<pc, size, target, sent, read, cut, up, lost, ok, lock, feed, closing>>

\* Between two chunks, or after the header of one.
SenderGone(s) ==
  /\ s \in up
  /\ up' = up \ {s}
  /\ \/ UNCHANGED <<sent, cut>>
     \/ /\ sent[s] < size[s]
        /\ sent' = [sent EXCEPT ![s] = @ + 1]
        /\ cut' = [cut EXCEPT ![s] = TRUE]
  /\ UNCHANGED <<pc, size, target, read, lost, ok, lock, feed, closing, clientVars>>

TargetGone(t) ==
  /\ t \in up
  /\ up' = up \ {t}
  /\ UNCHANGED <<pc, size, target, sent, read, cut, lost, ok, lock, feed, closing, clientVars>>

\* registry_shutdown shuts every client's socket down.
RegistryShutdown ==
  /\ ~closing
  /\ closing' = TRUE
  /\ up' = {}
  /\ UNCHANGED <<pc, size, target, sent, read, cut, lost, ok, lock, feed, clientVars>>

-----------------------------------------------------------------------------
(* opcode_file_send.                                                       *)

More(s) == size[s] > 1   \* the first chunk was not the last

Goto(s, from, to) == pc[s] = from /\ pc' = [pc EXCEPT ![s] = to]

\* Mutant: the rest of a refused file is not read.
RefuseAtOnce(s, memory) ==
  /\ Goto(s, "check", "end")
  /\ ok' = [ok EXCEPT ![s] = FALSE]
  /\ lost' = [lost EXCEPT ![s] = ~memory]
  /\ UNCHANGED <<size, target, sent, read, cut, up, lock, feed, closing, clientVars>>

\* Chunk too large, bad session, no room, target offline or not allowed.  A chunk
\* that is too large is drained first.
Refuse(s, memory) ==
  /\ Goto(s, "check", IF More(s) THEN "drain" ELSE "end")
  /\ ok' = [ok EXCEPT ![s] = FALSE]
  /\ lost' = [lost EXCEPT ![s] = ~memory]
  /\ UNCHANGED <<size, target, sent, read, cut, up, lock, feed, closing, clientVars>>

Allow(s) ==
  /\ Goto(s, "check", "want")
  /\ UNCHANGED <<size, target, sent, read, cut, up, lost, ok, lock, feed, closing, clientVars>>

\* Mutant: no file_lock.
FileLockNone(s) ==
  /\ Goto(s, "want", "first")
  /\ lock' = s
  /\ UNCHANGED <<size, target, sent, read, cut, up, lost, ok, feed, closing, clientVars>>

FileLock(s) ==
  /\ Goto(s, "want", "first")
  /\ lock = NoSender
  /\ lock' = s
  /\ UNCHANGED <<size, target, sent, read, cut, up, lost, ok, feed, closing, clientVars>>

Unread(t) == Len(feed[t]) - taken[t]

Fail(s) == ok' = [ok EXCEPT ![s] = FALSE] /\ UNCHANGED feed

\* msg_send to the target, which blocks while the target's socket is full, and
\* the worker with it.  It fails only if there is no memory for the message: to a
\* socket that is down nothing is written, and that is a success.  The empty
\* chunks of a sender that is gone are all alike: one stands for any number in a
\* row.
Deliver(s, item, memory) ==
  LET t == target[s]
      f == feed[t]
  IN \/ ~memory /\ Fail(s)
     \/ /\ memory /\ t \in up
        /\ Unread(t) < SocketSize
        /\ feed' = IF f # <<>> /\ f[Len(f)] = item THEN feed
                   ELSE [feed EXCEPT ![t] = Append(@, item)]
        /\ UNCHANGED ok
     \/ memory /\ t \notin up /\ UNCHANGED <<feed, ok>>

Item(s, n, kind) == [from |-> s, n |-> n, kind |-> kind]

\* The loop goes on to the next chunk, or file_relay returns and the lock is
\* given back.
After(s, loop, last) ==
  /\ pc' = [pc EXCEPT ![s] = IF last THEN "end" ELSE loop]
  /\ lock' = IF last /\ lock = s THEN NoSender ELSE lock

\* The relay buffer cannot be had, or the first chunk is written.
RelayFirst(s, buffer, memory) ==
  /\ pc[s] = "first"
  /\ IF buffer THEN Deliver(s, Item(s, 1, "whole"), memory) ELSE Fail(s)
  /\ After(s, IF buffer THEN "loop" ELSE "drain", ~More(s))
  /\ UNCHANGED <<size, target, sent, read, cut, up, lost, closing, clientVars>>

\* A chunk can be read, if only in part.
Arrived(s) == read[s] < sent[s]

Broken(s) == cut[s] /\ read[s] + 1 = sent[s]

\* The header of the next chunk is taken, and with it the chunk.
TakeChunk(s) ==
  /\ ~lost[s] /\ Arrived(s)
  /\ read' = [read EXCEPT ![s] = @ + 1]

\* sockutil_drain, whose status nobody looks at.
Drain(s, memory) == lost' = [lost EXCEPT ![s] = ~memory]

\* The chunk just taken, as it is relayed.
Relayable(s) == Item(s, read[s] + 1, IF Broken(s) THEN "stale" ELSE "whole")

\* Mutant: a chunk that is too large is skipped, and the status stays good.
RelayChunkSkips(s, fits, memory) ==
  /\ pc[s] = "loop"
  /\ TakeChunk(s)
  /\ IF ok[s] /\ fits
     THEN Deliver(s, Relayable(s), memory) /\ UNCHANGED lost
     ELSE Drain(s, memory) /\ UNCHANGED <<ok, feed>>
  /\ After(s, "loop", read'[s] = size[s])
  /\ UNCHANGED <<size, target, sent, cut, up, closing, clientVars>>

\* One round of file_relay's loop.  fits: chunk_size <= g_file_chunk_size.
RelayChunk(s, fits, memory) ==
  /\ pc[s] = "loop"
  /\ TakeChunk(s)
  /\ IF ok[s] /\ fits
     THEN Deliver(s, Relayable(s), memory) /\ UNCHANGED lost
     ELSE Drain(s, memory) /\ Fail(s)
  /\ After(s, "loop", read'[s] = size[s])
  /\ UNCHANGED <<size, target, sent, cut, up, closing, clientVars>>

\* The same with nothing to receive: recv fails at once, the header is zero.
RelayNothing(s, memory) ==
  /\ pc[s] = "loop"
  /\ ~lost[s] /\ ~Arrived(s) /\ s \notin up
  /\ IF ok[s] THEN Deliver(s, Item(s, read[s], "empty"), memory) ELSE UNCHANGED <<ok, feed>>
  /\ After(s, "loop", FALSE)
  /\ UNCHANGED <<size, target, sent, read, cut, up, lost, closing, clientVars>>

\* Mutant: the flag of the chunk before is looked at.
DrainChunkOn(s, memory) ==
  /\ pc[s] = "drain"
  /\ TakeChunk(s) /\ Drain(s, memory)
  /\ After(s, "drain", read[s] = size[s])
  /\ UNCHANGED <<size, target, sent, cut, up, ok, feed, closing, clientVars>>

\* drain_file_chunks, with file_lock held or not.
DrainChunk(s, memory) ==
  /\ pc[s] = "drain"
  /\ TakeChunk(s) /\ Drain(s, memory)
  /\ After(s, "drain", read'[s] = size[s])
  /\ UNCHANGED <<size, target, sent, cut, up, ok, feed, closing, clientVars>>

DrainNothing(s) ==
  /\ pc[s] = "drain"
  /\ ~lost[s] /\ ~Arrived(s) /\ s \notin up
  /\ UNCHANGED vars

\* A loop that has lost its place takes any part of what was sent for the next
\* header and its chunk, and any of them for the last one.
ReadAstray(s) ==
  /\ lost[s] /\ pc[s] \in {"loop", "drain"}
  /\ \E n \in read[s]..sent[s] : read' = [read EXCEPT ![s] = n]
  /\ \E last \in BOOLEAN : After(s, pc[s], last)
  /\ UNCHANGED <<size, target, sent, cut, up, lost, ok, feed, closing, clientVars>>

\* No file is under way.
Rest ==
  /\ \A s \in Senders : pc[s] \in {"idle", "end"}
  /\ UNCHANGED vars
-----------------------------------------------------------------------------
\* A step of the worker.  fine: the relay buffer can be had, the next chunk is not
\* too large.  memory: so can what msg_send or sockutil_drain asks for.
Work(s, fine, memory) ==
  \/ Refuse(s, memory) \/ Allow(s) \/ FileLock(s)
  \/ RelayFirst(s, fine, memory) \/ RelayChunk(s, fine, memory)
  \/ RelayNothing(s, memory)
  \/ DrainChunk(s, memory) \/ DrainNothing(s)

Next ==
  \/ \E s \in Senders :
       \/ \E n \in 1..MaxChunks : Put(s, n)
       \/ SendChunk(s) \/ SenderGone(s)
       \/ \E fine, memory \in BOOLEAN : Work(s, fine, memory)
       \/ ReadAstray(s)
  \/ \E t \in Targets : TargetGone(t) \/ Take(t)
  \/ RegistryShutdown
  \/ Rest

SafetySpec == Init /\ [][Next]_vars

\* Workers run, file_lock starves nobody, a sender that has begun a file and
\* stays connected goes on sending it, and a client that is connected and not
\* sending handles what it receives.  A chunk that is too large, or memory that
\* runs out, is no way out for a worker that waits for the target to read.
Fairness ==
  /\ \A s \in Senders : WF_vars(Work(s, TRUE, TRUE)) /\ SF_vars(FileLock(s)) /\ WF_vars(SendChunk(s))
  /\ \A t \in Targets : WF_vars(Take(t))

Spec == SafetySpec /\ Fairness
-----------------------------------------------------------------------------
(* Properties.                                                             *)

Items == [from : Senders, n : 0..MaxChunks, kind : {"whole", "stale", "empty"}]

TypeOK ==
  /\ pc \in [Senders -> {"idle", "check", "drain", "want", "first", "loop", "end"}]
  /\ size \in [Senders -> 0..MaxChunks]
  /\ target \in [Senders -> Targets]
  /\ sent \in [Senders -> 0..MaxChunks]
  /\ read \in [Senders -> 0..MaxChunks]
  /\ cut \in [Senders -> BOOLEAN]
  /\ up \subseteq Senders \cup Targets
  /\ lost \in [Senders -> BOOLEAN]
  /\ ok \in [Senders -> BOOLEAN]
  /\ lock \in Senders \cup {NoSender}
  /\ closing \in BOOLEAN
  /\ \A t \in Targets :
       /\ feed[t] \in Seq(Items)
       /\ taken[t] \in 0..Len(feed[t])
       /\ file[t].name \in Senders \cup {NoSender}
       /\ file[t].buffer \in Seq(Items)

\* What a target receives is whole files one after another: two files are
\* never mixed, and the chunks of each come in order from its first one, also
\* when some relays fail and senders go away.
FilesContiguous ==
  \A t \in Targets : \A i \in DOMAIN feed[t] :
    LET f == feed[t] IN
      \/ f[i].n = 1 /\ \A k \in 1..(i - 1) : f[k].from # f[i].from
      \/ i > 1 /\ f[i - 1].from = f[i].from /\ f[i].n - f[i - 1].n \in {0, 1}

\* Whatever becomes of a file, refused, relayed or failed halfway, the worker
\* leaves opcode_file_send with the file read to its last chunk, so that the next
\* byte is the next opcode; unless one of the drains that skip a chunk had no
\* memory, which nobody looks at.
ReadToLast == \A s \in Senders : pc[s] = "end" => read[s] = size[s] \/ lost[s]

\* When a transfer answers success and the target is still there, what the target
\* was sent is the file: every chunk, and whole, unless the sender went away in
\* the last one.  Of a target that is gone the answer says nothing.
SuccessMeansWhole ==
  \A s \in Senders : pc[s] = "end" /\ ok[s] /\ target[s] \in up =>
    \A n \in 1..size[s] : \E i \in DOMAIN feed[target[s]] :
      feed[target[s]][i] = Item(s, n, IF cut[s] /\ n = size[s] THEN "stale" ELSE "whole")

\* What a client writes to disk under the name of a file is that file and
\* nothing else: its chunks from the first to the last, also after files that
\* were given up halfway, unless its sender went away in the last one.
WrittenIsSent ==
  \A t \in Targets : \A f \in written[t] :
    /\ \A i \in DOMAIN f.buffer : f.buffer[i].from = f.name /\ f.buffer[i].n = i
    /\ Len(f.buffer) = size[f.name]
    /\ cut[f.name] \/ \A i \in DOMAIN f.buffer : f.buffer[i].kind = "whole"

\* The worker of s holds file_lock to write to a client that is itself in
\* sendall, and so does not read.
Stalled(s) == pc[s] \in {"first", "loop"} /\ Sending(target[s])

\* As long as senders stay connected and no drain is short of memory, every
\* transfer ends, whether it is refused, too large, or its target goes away; and
\* nobody waits for file_lock for ever.  Only, the client a file is relayed to must not be
\* sending one then: two clients that send each other files, or one that sends
\* itself one, can block the relay that holds file_lock, and every transfer
\* after it.
TransfersEnd ==
  [](Senders \subseteq up /\ \A s \in Senders : ~Stalled(s) /\ ~lost[s]) =>
     \A s \in Senders : pc[s] \notin {"idle", "end"} ~> pc[s] = "end"

\* registry_shutdown unblocks the workers (registry.h: "Shutdown all client
\* sockets to unblock workers blocked in recv()"), so that tpool_wait can
\* return.
ShutdownUnblocks ==
  closing ~> \A s \in Senders : pc[s] \in {"idle", "end"}
=============================================================================
