-------------------------- MODULE MCVersionedLive --------------------------
(* A small instance of VersionedTree for the liveness property, which needs   *)
(* fairness and bears no symmetry.                                            *)
EXTENDS MCBuiltTrees

CONSTANTS h1, v1

MCKey == {<<1, 1>>, <<1, 1, 1>>, <<1, 2>>}

MCNode == Handle \X (1..8)
MCArena == [h \in Handle |-> {h} \X (1..8)]

Live(op, key, acts) == [op : {op}, key : {key}, val : {v1}, act : acts]

\* Each goes down one edge at least: the path copied on the way down and on the
\* way up, a key at the leaf and below it, a callback that declines there and
\* one that panics, which leaves an empty tree to the calls that follow.
LiveCalls ==
  Live("insert", <<1, 1, 1>>, {"none"}) \cup Live("remove", <<1, 2>>, {"none"})
    \cup Live("get_mut", <<1, 1>>, {"none"})
    \cup Live("update", <<1, 1, 1>>, {"keep", "insert"})
    \cup Live("update", <<1, 1>>, {"panic"})

LiveInit == StartsWith(h1, InnerHeap(h1, v1), 2)

\* Trees that come from different calls of new() share nothing.
OneFamily == live # {} => \A h \in Handle : ~New(h)

LiveSpec == LiveInit /\ [][Next /\ OneFamily]_vars /\ Fairness
=============================================================================
