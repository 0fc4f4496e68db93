-------------------------------- MODULE Wire --------------------------------
(***************************************************************************)
(* One connection as bytes: sockutil/src/sockutil.c, the receiving half of *)
(* the chat opcodes, and what is sent back.  TCP has no messages: where a  *)
(* request ends follows from its header, and a handler that refuses one    *)
(* must still take all of it (sockutil_drain), or the worker takes what is *)
(* left for the next opcode.  The handlers ignore what their receives      *)
(* return.  (FileTransfer has OPCODE_FILE_SEND, and what follows it.)      *)
(*                                                                         *)
(* Two workers may send to a connection at once: its own, to answer, and   *)
(* another's, in msg_send.  client_t.lock keeps them apart.                *)
(***************************************************************************)
EXTENDS Bytes

CONSTANTS
  Requests,   \* what a client may send
  Length,     \* how many requests it sends
  MaxPacket,  \* g_max_packet_size
  ChunkSize,  \* g_chunk_size
  FrameSize,  \* the bytes of an answer, and of a message
  Messages    \* bound: what others send to this client

VARIABLES
  reqs,        \* the requests, in order
  taken,       \* how many of their bytes the worker has received
  up,          \* the client is connected and the server runs
  job,         \* the worker: p_request, p_response and its local variables
  out,         \* the senders: who holds client_t.lock, and what is sent
  starved      \* an allocation failed

vars == <<reqs, taken, up, job, out, starved>>

HeaderSize == 1

\* A request announces at most two lengths; a packet has room for an opcode and
\* a header.
WireAssumption ==
  /\ FrameSize \in Nat /\ Messages \in Nat /\ Length \in Nat
  /\ ChunkSize \in Nat \ {0}
  /\ MaxPacket \in Nat /\ 2 <= MaxPacket
  /\ \A r \in Requests : r.parts \in Seq(Nat) /\ Len(r.parts) <= 2

\* The lengths of what follows a header, in the order it is received.  An opcode
\* that does not exist has no header either.
Sum(parts) == IF parts = <<>> THEN 0 ELSE IF Len(parts) = 1 THEN parts[1] ELSE parts[1] + parts[2]

SizeOf(r) == IF r.op = "default" THEN 1 ELSE 1 + HeaderSize + Sum(r.parts)

\* Where the i-th of the requests starts.
StartOf(rs, i) ==
  LET at[k \in 1..(Length + 1)] == IF k = 1 THEN 0 ELSE at[k - 1] + SizeOf(rs[k - 1])
  IN at[i]

Start(i) == StartOf(reqs, i)

Writers == {"reply", "message"}

Nothing == [op |-> "default", parts |-> <<>>, valid |-> FALSE]

Init ==
  /\ reqs \in [1..Length -> Requests]
  /\ taken = 0
  /\ up = TRUE
  /\ job = [pc |-> "idle", cur |-> 1, item |-> Nothing, size |-> 0, want |-> 0,
            todo |-> <<>>, whole |-> TRUE]
  /\ out = [holds |-> {}, put |-> [w \in Writers |-> 0], left |-> Messages, torn |-> FALSE]
  /\ starved = FALSE

\* The client closes or dies, or handle_sigint stops the server: from now on a
\* recv and a send may fail, at once or after some more bytes.
Break ==
  /\ up
  /\ up' = FALSE
  /\ UNCHANGED <<reqs, taken, job, out, starved>>
----------------------------------------------------------------------------
(* sockutil_recvall.                                                       *)

\* recv returns some of what is asked for.
Recv(n) ==
  /\ n <= job.want /\ taken + n <= Start(Length + 1)
  /\ taken' = taken + n
  /\ job' = [job EXCEPT !.want = @ - n]
  /\ UNCHANGED <<reqs, up, out, starved>>

\* recv returns 0 or an error.  EINTR is one only while the server stops.
\* sockutil_drain gives up; the handlers do not notice.
RecvFails ==
  /\ job.want > 0
  /\ ~up
  /\ job' = [job EXCEPT !.want = 0, !.whole = FALSE,
                        !.todo = IF job.pc = "drain" THEN <<>> ELSE @]
  /\ UNCHANGED <<reqs, taken, up, out, starved>>

\* Mutant: the last piece is as large as the others.
DrainPiecesFull(n) == [i \in 1..((n + ChunkSize - 1) \div ChunkSize) |-> ChunkSize]

\* The receives of sockutil_drain.
DrainPieces(n) ==
  [i \in 1..((n + ChunkSize - 1) \div ChunkSize) |-> Umin(n - (i - 1) * ChunkSize, ChunkSize)]
----------------------------------------------------------------------------
(* chat_client_run and the opcodes.                                        *)

\* The handler goes on when a receive has returned.
Returned(label) == job.pc = label /\ job.want = 0

\* epoll has reported the connection: the opcode is received.
Begin ==
  /\ job.pc = "idle"
  /\ job.cur <= Length
  /\ taken = Start(job.cur)
  /\ job' = [job EXCEPT !.pc = "opcode", !.want = 1, !.size = 1, !.item = Nothing,
                        !.whole = TRUE]
  /\ UNCHANGED <<reqs, taken, up, out, starved>>

\* dispatch_opcode.  The packet is zero where nothing was received: OPCODE_DEFAULT.
Dispatch ==
  LET op == IF job.whole THEN reqs[job.cur].op ELSE "default"
  IN /\ Returned("opcode")
     /\ job' = IF op = "default" THEN [job EXCEPT !.pc = "send"]
               ELSE [job EXCEPT !.pc = "header", !.item.op = op, !.want = HeaderSize]
     /\ UNCHANGED <<reqs, taken, up, out, starved>>

\* opcode_respond asks for the memory of its notification before it receives
\* anything; if it gets none, the header stays unread.
RespondStarved ==
  /\ job.pc = "header" /\ job.want = HeaderSize
  /\ job.item.op = "respond"
  /\ starved' = TRUE
  /\ job' = [job EXCEPT !.pc = "send", !.want = 0]
  /\ UNCHANGED <<reqs, taken, up, out>>

\* p_request->size, header included, and what is still to come.
Overflow(r) == 1 + HeaderSize + Sum(r.parts) > MaxPacket

\* Who is sent away before the payload is received.  Only opcode_echo checks the
\* session first.
Refuses(r) == Overflow(r) \/ (r.op = "echo" /\ ~r.valid)

\* A header that was not received whole may say anything.
Header ==
  /\ Returned("header")
  /\ \E r \in IF job.whole THEN {reqs[job.cur]} ELSE {q \in Requests : q.op = job.item.op} :
       job' = [job EXCEPT !.item = r,
                          !.pc   = IF Refuses(r) THEN "drain" ELSE "payload",
                          !.todo = IF Refuses(r) THEN DrainPieces(Sum(r.parts)) ELSE r.parts,
                          !.size = 1 + HeaderSize + IF Refuses(r) THEN 0 ELSE Sum(r.parts)]
  /\ UNCHANGED <<reqs, taken, up, out, starved>>

\* The next receive of the payload, or of sockutil_drain.
Continue ==
  /\ job.pc \in {"payload", "drain"} /\ job.want = 0
  /\ job.todo # <<>>
  /\ job' = [job EXCEPT !.want = Head(job.todo), !.todo = Tail(@)]
  /\ UNCHANGED <<reqs, taken, up, out, starved>>

\* Everything is received, or sockutil_drain gave up.
Answer ==
  /\ job.pc \in {"payload", "drain"} /\ job.want = 0
  /\ job.todo = <<>>
  /\ job' = [job EXCEPT !.pc = "send"]
  /\ UNCHANGED <<reqs, taken, up, out, starved>>

\* sockutil_drain has no memory for its buffer: nothing is drained.
DrainStarved ==
  /\ Returned("drain")
  /\ job.todo = DrainPieces(Sum(job.item.parts)) /\ job.todo # <<>>
  /\ starved' = TRUE
  /\ job' = [job EXCEPT !.pc = "send", !.todo = <<>>]
  /\ UNCHANGED <<reqs, taken, up, out>>
----------------------------------------------------------------------------
(* What is sent: the response, and messages of other workers (msg_send).   *)

Wants(w) == IF w = "reply" THEN job.pc = "send" ELSE out.left > 0

\* Mutant: client_t.lock is not taken.
SendLockNone(w) ==
  /\ Wants(w) /\ w \notin out.holds
  /\ out' = [out EXCEPT !.holds = @ \cup {w}]
  /\ UNCHANGED <<reqs, taken, up, job, starved>>

SendLock(w) ==
  /\ Wants(w) /\ out.holds = {}
  /\ out' = [out EXCEPT !.holds = {w}]
  /\ UNCHANGED <<reqs, taken, up, job, starved>>

Partial(w) == out.put[w] \in 1..(FrameSize - 1)

\* send takes n bytes of what sockutil_sendall has left.
SendPart(w, n) ==
  /\ w \in out.holds
  /\ out.put[w] + n <= FrameSize
  /\ out' = [out EXCEPT !.put[w] = @ + n,
                        !.torn = @ \/ \E x \in Writers \ {w} : Partial(x)]
  /\ UNCHANGED <<reqs, taken, up, job, starved>>

\* sockutil_sendall returns, with the frame sent or given up; nobody looks which.
\* A worker that has answered waits for the next request, if there may be one: a
\* connection that failed is destroyed by what epoll reports next.
SendReturns(w) ==
  /\ w \in out.holds
  /\ out.put[w] = FrameSize \/ ~up
  /\ out' = [holds |-> out.holds \ {w},
             put   |-> [out.put EXCEPT ![w] = 0],
             left  |-> IF w = "message" THEN out.left - 1 ELSE out.left,
             torn  |-> out.torn \/ Partial(w)]
  /\ IF w = "reply"
     THEN job' = [job EXCEPT !.pc = IF job.whole THEN "idle" ELSE "end", !.cur = @ + 1]
     ELSE UNCHANGED job
  /\ UNCHANGED <<reqs, taken, up, starved>>

\* The client has asked everything, or what is left of a request nobody took
\* stands where the next one should.
Rest ==
  /\ job.pc = "end" \/ (job.pc = "idle" /\ (job.cur > Length \/ taken # Start(job.cur)))
  /\ UNCHANGED vars

Next ==
  \/ Break
  \/ \E n \in 1..job.want : Recv(n)
  \/ RecvFails
  \/ Begin \/ Dispatch \/ RespondStarved \/ Header \/ Continue \/ Answer \/ DrainStarved
  \/ \E w \in Writers : SendLock(w) \/ SendReturns(w) \/ \E n \in 1..FrameSize : SendPart(w, n)
  \/ Rest

Spec == Init /\ [][Next]_vars
----------------------------------------------------------------------------
TypeOK ==
  /\ reqs \in [1..Length -> Requests]
  /\ taken \in 0..Start(Length + 1)
  /\ {up, starved, job.whole, out.torn} \subseteq BOOLEAN
  /\ job.pc \in {"idle", "opcode", "header", "payload", "drain", "send", "end"}
  /\ job.size \in 0..MaxPacket          \* p_packet has no more room
  /\ out.holds \subseteq Writers
  /\ out.put \in [Writers -> 0..FrameSize]

\* When the worker is done with a request it has taken all of it and nothing of
\* the next, however recv cuts the bytes up and whatever the request is refused
\* for.  Only an allocation that fails leaves bytes behind.
InSync == job.pc = "idle" => taken = Start(job.cur) \/ starved

\* What a client receives is a sequence of whole frames: answers and messages do
\* not mix, also when send takes a few bytes at a time.  Only a connection that is
\* gone, or a server that stops, leaves one unfinished.
FramesWhole == out.torn => ~up
=============================================================================
