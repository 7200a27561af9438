-------------------------- MODULE RadixRefinement --------------------------
(***************************************************************************)
(* RadixTree implements OrderedMap: the map is the entries of the tree.    *)
(* `seen` holds it, so that TLC walks the tree once for each state and not *)
(* once for each call the user could make.                                 *)
(***************************************************************************)
EXTENDS RadixTree

VARIABLE seen

rvars == <<vars, seen>>

\* The map that a tree holds.
ContentsOf(r) ==
  LET entries == ToSet(EntriesOf(r)) IN
  [k \in Key |-> LET here == {x \in entries : x.key = k}
                 IN  IF here = {} THEN None ELSE (CHOOSE x \in here : TRUE).val]

RInit == Init /\ seen = ContentsOf(root)

RNext == Next /\ \E r \in {root'} : seen' = ContentsOf(r)

RSpec == RInit /\ [][RNext]_rvars

Promise == INSTANCE OrderedMap WITH
  map <- seen, Calls <- Calls \cup VersionedCalls

\* Whatever the shape of the tree, a call changes the map it holds, and answers,
\* as the same call on a plain map: splitting, growing, shrinking, collapsing and
\* pruning neither lose an entry nor invent one (insert_k, try_insert_k, remove_k,
\* update_k, try_update_k, bulk_load_sorted, into_unversioned).
ImplementsOrderedMap == Promise!AbsSpec
=============================================================================
