---------------------------- MODULE MCLibraries -----------------------------
EXTENDS Libraries

\* Two strings, one a prefix of the other, in a list that may hold both twice.
MCListData == {<<1>>, <<1, 1>>}

\* With four hashes, <<1>> and <<5>> have one hash and one length, <<2>> and <<1, 1>>
\* one hash; each pair shares a bucket of two.
MCKeys == {<<1>>, <<5>>, <<2>>, <<1, 1>>}

\* A node can have a successor that is not its child and has a child of its own.
MCTreeData == {<<1>>, <<1, 1>>, <<1, 2>>, <<2>>, <<2, 1>>}

\* A request is too large from three bytes of payload on, which sockutil_drain
\* takes in two pieces.
Request(op, parts, valid) == [op |-> op, parts |-> parts, valid |-> valid]

MCRequests ==
  {Request(op, <<>>, TRUE) : op \in {"default", "fixed"}}
    \cup {Request("echo", <<n>>, v) : n \in {0, 2, 3}, v \in BOOLEAN}
    \cup {Request("name", <<n>>, TRUE) : n \in {0, 2, 3}}
    \cup {Request("respond", <<2>>, TRUE)}
    \cup {Request("login", p, TRUE) : p \in {<<1, 1>>, <<1, 2>>}}
=============================================================================
