--------------------------- MODULE MCRadixQueries ---------------------------
(* Small instances of RadixQueries for TLC. *)
EXTENDS RadixQueries

CONSTANTS v, s

MCWidth == [Node4 |-> 2, Node16 |-> 3, Node48 |-> 4, Node256 |-> 5]

\* Paths of up to three nodes that part at each of their bytes.
MCKey == {<<>>, <<1>>, <<1, 1>>, <<1, 2, 1>>, <<1, 2, 2>>, <<2>>, <<2, 1, 1>>, <<3, 1>>}

\* Keys of the tree, and keys that end inside a path or leave it.
MCProbe == MCKey \cup {<<1, 2>>, <<1, 3>>, <<2, 1>>, <<3>>, <<2, 1, 1, 1>>, <<1, 2, 3>>}

MCBounds ==
  [type : {"unbounded"}, key : {<<>>}]
    \cup [type : {"included", "excluded"}, key : {<<1>>, <<1, 2>>, <<1, 2, 1>>, <<2, 1>>}]

MCCalls ==
  [op : {"insert"}, key : MCKey, val : {v}, act : {"none"}]
    \cup [op : {"remove"}, key : MCKey, val : {v}, act : {"none"}]
    \cup [op : {"get", "try_insert"}, key : {<<1, 1>>}, val : {v}, act : {"none"}]
    \* The value at which a visit stops, between others below a common prefix.
    \cup [op : {"get_mut"}, key : {<<1, 1>>, <<1, 2, 1>>}, val : {s}, act : {"none"}]
    \cup [op : {"update"}, key : {<<2>>}, val : {v}, act : {"insert"}]

\* What a versioned tree loses before it is converted stays as uncollapsed paths.
MCVersionedCalls ==
  {c \in MCCalls : \/ c.op = "insert"
                   \/ c.op = "remove" /\ c.key \in {<<>>, <<1>>, <<1, 2, 1>>, <<2>>}}

Item(k) == [key |-> k, val |-> s]

MCPartner ==
  {<<Item(<<1, 2, 1>>), Item(<<1, 2, 2>>), Item(<<2, 1, 1>>)>>,
   <<Item(<<1>>), Item(<<1, 2>>), Item(<<1, 2, 2>>)>>,
   <<Item(<<2, 1, 1>>)>>,
   <<Item(<<>>), Item(<<1, 1>>), Item(<<1, 2, 2>>), Item(<<2>>), Item(<<3, 1>>)>>}
=============================================================================
