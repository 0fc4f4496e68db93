----------------------------- MODULE Libraries -----------------------------
(***************************************************************************)
(* The three containers and a connection's bytes.  A behaviour is about    *)
(* one of the four, which the initial state picks; the others' variables   *)
(* are unused.                                                             *)
(***************************************************************************)
EXTENDS Integers

CONSTANTS
  ListData, ListNodes,                                \* Sll
  Keys, Values, Absent, Capacity, HashSpace,          \* HashTable
  TreeData, TreeNodes,                                \* Bst
  Requests, Length, MaxPacket, ChunkSize, FrameSize, Messages  \* Wire

VARIABLES
  which,
  made, len, ret, live, heap, walk, p_head, buckets, blocks,  \* the containers
  reqs, taken, up, job, out, starved                 \* the connection

box  == <<made, len, ret, live, heap, walk, p_head, buckets, blocks>>
wire == <<reqs, taken, up, job, out, starved>>

List == INSTANCE Sll WITH Data <- ListData, MaxNodes <- ListNodes

Table == INSTANCE HashTable

Tree == INSTANCE Bst WITH Data <- TreeData, MaxNodes <- TreeNodes

Stream == INSTANCE Wire

\* What the modules are for.
ASSUME LibrariesAssumption ==
  /\ List!SllAssumption /\ Table!TableAssumption /\ Tree!BstAssumption
  /\ Stream!WireAssumption

None == <<"unused">>

NoBox ==
  /\ made = FALSE /\ len = 0 /\ ret = None /\ live = {} /\ heap = None /\ walk = None
  /\ p_head = 0 /\ buckets = None /\ blocks = 0

NoWire ==
  /\ reqs = None /\ taken = 0 /\ up = FALSE /\ job = None /\ out = None
  /\ starved = FALSE

Init ==
  \/ /\ which = "list" /\ List!Init
     /\ buckets = None /\ blocks = 0 /\ NoWire
  \/ /\ which = "table" /\ Table!Init
     /\ live = {} /\ heap = None /\ p_head = 0 /\ NoWire
  \/ /\ which = "tree" /\ Tree!Init
     /\ walk = None /\ p_head = 0 /\ buckets = None /\ blocks = 0 /\ NoWire
  \/ which = "stream" /\ Stream!Init /\ NoBox

Next ==
  \/ which = "list" /\ List!Next /\ UNCHANGED <<which, buckets, blocks, wire>>
  \/ which = "table" /\ Table!Next /\ UNCHANGED <<which, live, heap, p_head, wire>>
  \/ which = "tree" /\ Tree!Next /\ UNCHANGED <<which, walk, p_head, buckets, blocks, wire>>
  \/ which = "stream" /\ Stream!Next /\ UNCHANGED <<which, box>>

Spec == Init /\ [][Next]_<<which, box, wire>>
----------------------------------------------------------------------------
\* A list's links lead, without a loop, to exactly the nodes that are allocated, a
\* tree's to each of them once, and len counts them; sll_foreach never holds the
\* address of a freed node between two calls of the function it applies.  No call of
\* sll.c or bst.c, failed allocations included, leaks a node, loses the tail of the
\* list or the subtree of a moved successor, or keeps a link to a freed node.
LinksAreWhole ==
  /\ which = "list" => List!Whole /\ List!WalkIsLive
  /\ which = "tree" => Tree!Whole

\* sll.c keeps the promises of List: each call returns and does what the sequence
\* says, and a walk visits every element that was there, once, in order.
ImplementsList ==
  /\ which = "list" => List!Abstract!Init
  /\ [][which = "list" => List!Abstract!Next]_<<which, List!Abstract!vars>>

\* Every item is in the bucket its hash selects and no key has two items, so that
\* one probe of one bucket of ht.c finds all there is to find.  The heap holds the
\* table's own blocks and five for each item, and nothing once the table is destroyed
\* or could not be made: whatever allocation of whatever call fails, ht.c forgets no
\* block and frees none twice.
TableIsWhole == which = "table" => Table!Placed /\ Table!NoLeak

\* ht.c keeps the promises of Map, also for keys that share a bucket or a hash: each
\* call returns what the map says, a call that runs out of memory changes nothing,
\* a walk visits every key once, and the table is shown as empty only when it is.
ImplementsMap ==
  /\ which = "table" => Table!Abstract!Init
  /\ [][which = "table" => Table!Abstract!Next]_<<which, Table!Abstract!vars>>

\* bst.c keeps the promises of SortedSet: what was set and not deleted is found, and
\* nothing else; a walk shows it in ascending order, also strings that are prefixes
\* of one another.
ImplementsSortedSet ==
  /\ which = "tree" => Tree!Abstract!Init
  /\ [][which = "tree" => Tree!Abstract!Next]_<<which, Tree!Abstract!vars>>

\* A worker that is done with a request has taken all of it and nothing of the next,
\* so that an oversized request, or one without a session, costs only itself; and no
\* request makes a handler write past g_max_packet_size bytes of p_packet.
WorkersInSync == which = "stream" => Stream!TypeOK /\ Stream!InSync

\* What a client is sent is a sequence of whole frames, whoever sends at once.
FramesWhole == which = "stream" => Stream!FramesWhole
=============================================================================
