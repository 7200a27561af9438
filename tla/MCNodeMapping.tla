---------------------------- MODULE MCNodeMapping ----------------------------
(* A small instance of NodeMapping for TLC. *)
EXTENDS NodeMapping

\* Kinds scaled down so that five bytes take a node through all of them.
MCWidth == [Node4 |-> 2, Node16 |-> 3, Node48 |-> 4, Node256 |-> 5]

\* A child for each byte, and a second one that takes the place of the third.
MCChild == 10..15

MCPairs == {<<b, 10 + b>> : b \in Byte} \cup {<<2, 15>>}

\* One load for each kind.
MCLoads == {[b \in S |-> 10 + b] : S \in {{3}, {0, 2, 4}, {1, 2, 3, 4}, Byte}}
==============================================================================
