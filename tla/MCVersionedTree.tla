-------------------------- MODULE MCVersionedTree --------------------------
(* Small instances of VersionedTree for TLC. *)
EXTENDS VersionedRefinement, VersionedInvariant, TLC

CONSTANTS v1, v2

\* One key a proper prefix of the others, which part after one byte: between
\* them every case of insert_recurse occurs.
MCKey == {<<1>>, <<1, 1>>, <<1, 2>>}

\* Each thread names its allocations apart from the others', so that the order
\* in which two threads allocate does not multiply the states.
MCNode == Handle \X (1..8)
MCArena == [h \in Handle |-> {h} \X (1..8)]

Plain(op, keys, val) == [op : {op}, key : keys, val : {val}, act : {"none"}]
WithCallback(op, keys, acts) == [op : {op}, key : keys, val : {v1}, act : acts]

CrudCalls ==
  Plain("insert", {<<1>>, <<1, 1>>}, v1) \cup Plain("remove", {<<1>>, <<1, 1>>}, v1)

HandleSymmetry == Permutations(Handle)

-----------------------------------------------------------------------------
(* Trees that come from different calls of new() share nothing: one family  *)
(* of clones and snapshots is enough.                                       *)
OneFamily == live # {} => \A h \in Handle : ~New(h)

FamilySpec == RInit /\ [][RNext /\ OneFamily]_rvars
=============================================================================
