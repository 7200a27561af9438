----------------------------- MODULE MCRadixTree -----------------------------
(* Small instances of RadixTree for TLC. *)
EXTENDS RadixRefinement

CONSTANTS v, s

\* Kinds scaled down so that five bytes take a node through all of them.
MCWidth == [Node4 |-> 2, Node16 |-> 3, Node48 |-> 4, Node256 |-> 5]

\* The empty key, five keys that part at the first byte, and keys below one of
\* them: every place, every kind and chains of nodes occur.
MCKey == {<<>>, <<1>>, <<2>>, <<3>>, <<4>>, <<5>>, <<1, 1>>, <<1, 2>>,
          <<1, 1, 1>>}

Call(op, keys, val, act) == [op : {op}, key : keys, val : {val}, act : {act}]

MCCalls ==
  Call("insert", {<<1>>, <<2>>, <<1, 2>>, <<1, 1, 1>>}, v, "none")
    \cup Call("get", {<<1, 1>>}, v, "none")
    \cup Call("try_insert", {<<3>>, <<4>>}, v, "none")
    \cup Call("get_mut", {<<1>>}, v, "none")
    \cup Call("remove", {<<>>, <<1>>, <<2>>, <<1, 2>>, <<1, 1, 1>>}, v, "none")
    \cup Call("update", {<<1>>, <<3>>, <<4>>, <<5>>, <<1, 1>>}, v, "remove")
    \cup Call("update", {<<5>>, <<1, 1>>}, v, "insert")
    \cup Call("update", {<<1>>}, v, "err")
    \cup Call("update", {<<2>>}, v, "keep")
    \cup Call("update", {<<1, 2>>}, v, "panic")

MCVersionedCalls ==
  Call("insert", MCKey \ {<<>>}, v, "none")
    \cup Call("remove", {<<1>>, <<2>>, <<3>>, <<4>>, <<5>>}, v, "none")

Item(k, x) == [key |-> k, val |-> x]

MCLoads ==
  {<<>>,
   <<Item(<<1>>, s), Item(<<1>>, v), Item(<<1, 2>>, v)>>,
   <<Item(<<>>, v), Item(<<1>>, v), Item(<<1, 1, 1>>, v), Item(<<2>>, s),
     Item(<<3>>, v), Item(<<4>>, v)>>,
   <<Item(<<2>>, v), Item(<<1, 2>>, v)>>}
==============================================================================
