------------------------------ MODULE NodeBoxes ------------------------------
(***************************************************************************)
(* The arrays under the sorted tables of NodeMapping: each                 *)
(* SortedKeyedMapping owns a Box of slots, apart from the children in      *)
(* them, which NodeMapping counts.                                         *)
(***************************************************************************)
EXTENDS NodeMapping

CONSTANT MaxBoxes  \* bound on the arrays

VARIABLE boxes  \* the arrays allocated and not freed

BoxesOf(t) == IF Sorted(t) THEN 1 ELSE 0

\* The tables in use and the arrays they own.
Owned == BoxesOf(table) + BoxesOf(copy)

\* A new table comes with an array, and one that is dropped frees its own.
Balanced == ~IntoUnversioned /\ boxes' = boxes + Owned' - Owned

\* SortedKeyedMapping::into_iter: the iterator takes the array and frees it.  The
\* mapping gets a fresh one in its place, and is forgotten with it.
IntoIter == IntoUnversioned /\ boxes' = boxes + Owned' - Owned + BoxesOf(table)

BoxesInit == Init /\ boxes = 0

BoxesNext == ((Next /\ Balanced) \/ IntoIter) /\ boxes' <= MaxBoxes

BoxesSpec == BoxesInit /\ [][BoxesNext]_<<vars, boxes>>

\* "Prevent Drop from running on self since we've moved out the children"
\* (sorted_keyed_mapping.rs:44): a mapping that is forgotten has nothing left to
\* release, so that every array belongs to a table in use.
NothingForgotten == boxes = Owned
==============================================================================
