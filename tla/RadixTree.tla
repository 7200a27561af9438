----------------------------- MODULE RadixTree -----------------------------
(***************************************************************************)
(* AdaptiveRadixTree (rart/src/tree.rs) and its nodes (rart/src/node.rs):  *)
(* how a mutation finds its place, splits, grows, shrinks, collapses and   *)
(* prunes nodes, and keeps the count of entries.                           *)
(*                                                                         *)
(* A node owns its children, so a tree is a value: a node is a record with *)
(* its children in a function on edge bytes.  The recursive functions of   *)
(* the code are recursive operators here, on a node and the part of the    *)
(* key below it.                                                           *)
(*                                                                         *)
(* A tree is filled by calls, by bulk_load_sorted, or is what              *)
(* into_unversioned makes of a versioned tree, whose nodes never shrink.   *)
(***************************************************************************)
EXTENDS NodeKinds, Sequences, FiniteSets, SequencesExt, TLC

CONSTANTS
  Byte,         \* key bytes
  Key,          \* keys: sequences of bytes
  Val,          \* values
  Scratch,      \* what a callback writes to the slot it is lent
  None,         \* Option::None
  PartialSize,  \* the N of ArrayKey<N> and ArrPartial<N>
  Calls,        \* the calls the user makes
  VersionedCalls, \* those made before into_unversioned
  Loads         \* inputs of bulk_load_sorted

ASSUME KeyAssumption == Key \subseteq Seq(Byte) /\ \A k \in Key : Len(k) <= PartialSize
ASSUME ByteAssumption == Cardinality(Byte) <= Width["Node256"]

VARIABLES
  mode,   \* "owned", "versioned" or, after into_unversioned, "converted"
  root,   \* the root node, or None
  len,    \* the number of entries (a versioned tree does not count them)
  ret     \* the answer to the last call

vars == <<mode, root, len, ret>>

-----------------------------------------------------------------------------
(* Nodes *)

NewLeaf(p, v) == [prefix |-> p, value |-> v, kind |-> "Empty", kids |-> <<>>]

NewInner(p) == [prefix |-> p, value |-> None, kind |-> "Node4", kids |-> <<>>]

Edges(n) == DOMAIN n.kids

NumChildren(n) == Cardinality(Edges(n))

IsLeaf(n) == n.kind = "Empty"

\* An inner node with neither children nor a value.
Hollow(n) == ~IsLeaf(n) /\ NumChildren(n) = 0 /\ n.value = None

IsFull(n) == NumChildren(n) >= Width[n.kind]

\* add_child: a leaf becomes a Node4, a full node grows.
AddChild(n, e, child) ==
  LET kind == CASE IsLeaf(n) -> "Node4"
                [] ~IsLeaf(n) /\ IsFull(n) -> Larger(n.kind)
                [] OTHER -> n.kind
  IN  [n EXCEPT !.kind = kind, !.kids = (e :> child) @@ n.kids]

WithoutEdge(n, e) == [n EXCEPT !.kids = [f \in Edges(n) \ {e} |-> n.kids[f]]]

\* Fault: the collapsed node keeps the child's prefix alone.
CollapseForgetsPrefix(n) == n.kids[CHOOSE e \in Edges(n) : TRUE]

\* shrink of a Node4: the only child is collapsed into the node.
Collapse(n) ==
  LET child == n.kids[CHOOSE e \in Edges(n) : TRUE]
  IN  [child EXCEPT !.prefix = n.prefix \o child.prefix]

\* Fault: a node shrinks one child too late.
ShrinkTooLate(n) ==
  CASE n.kind = "Node4" ->
         IF NumChildren(n) = 1 /\ n.value = None THEN Collapse(n) ELSE n
    [] OTHER ->
         IF NumChildren(n) < Width[Smaller(n.kind)]
         THEN [n EXCEPT !.kind = Smaller(n.kind)] ELSE n

\* delete_child on what is left of the node, and shrink.
Shrink(n) ==
  CASE n.kind = "Node4" ->
         IF NumChildren(n) = 1 /\ n.value = None THEN Collapse(n) ELSE n
    [] OTHER ->
         IF NumChildren(n) < Width[Smaller(n.kind)] + 1
         THEN [n EXCEPT !.kind = Smaller(n.kind)] ELSE n

DeleteChild(n, e) == Shrink(WithoutEdge(n, e))

-----------------------------------------------------------------------------
(* Matching a node against the part of a key that is left below its parent *)

\* Partial::prefix_length_key
PrefixLength(p, k) ==
  Cardinality({i \in 1..Len(p) : i <= Len(k) /\ \A j \in 1..i : p[j] = k[j]})

PartialBefore(p, i) == SubSeq(p, 1, i)

PartialAfter(p, i) == SubSeq(p, i + 1, Len(p))

\* What is left of k below n, and the edge it leaves n by.
Below(n, k) == PartialAfter(k, Len(n.prefix))

EdgeOf(n, k) == k[Len(n.prefix) + 1]

\* The cases that insert_recurse and try_update_recurse tell apart.
Place(n, k) ==
  LET common == PrefixLength(n.prefix, k) IN
  CASE common = Len(n.prefix) /\ common = Len(k) -> "at"
    [] common # Len(n.prefix) /\ common = Len(k) -> "inside"
    [] common # Len(n.prefix) /\ common # Len(k) -> "diverges"
    [] OTHER -> IF EdgeOf(n, k) \in Edges(n) THEN "child" ELSE "missing"

\* get_bytes_iterate, get_iterate_mut: the value at k.
RECURSIVE ValueAt(_, _)
ValueAt(n, k) ==
  CASE Place(n, k) = "at"    -> n.value
    [] Place(n, k) = "child" -> ValueAt(n.kids[EdgeOf(n, k)], Below(n, k))
    [] OTHER                 -> None

Get(k) == IF root = None THEN None ELSE ValueAt(root, k)

-----------------------------------------------------------------------------
(* insert_recurse *)

\* The key ends inside the prefix of n: n goes below a new node with value v.
SplitAt(n, i, v) ==
  AddChild([NewInner(PartialBefore(n.prefix, i)) EXCEPT !.value = v],
           n.prefix[i + 1], [n EXCEPT !.prefix = PartialAfter(@, i)])

\* n with v at k, whatever is there now.
RECURSIVE PutAt(_, _, _)
PutAt(n, k, v) ==
  LET common == PrefixLength(n.prefix, k)
      leaf == NewLeaf(PartialAfter(k, common), v)
      fork == NewInner(PartialBefore(n.prefix, common))
      lower == [n EXCEPT !.prefix = PartialAfter(@, common)]
  IN  CASE Place(n, k) = "at" -> [n EXCEPT !.value = v]
        [] Place(n, k) = "inside" -> SplitAt(n, common, v)
        [] Place(n, k) = "diverges" ->
             AddChild(AddChild(fork, n.prefix[common + 1], lower), k[common + 1], leaf)
        [] Place(n, k) = "missing" -> AddChild(n, EdgeOf(n, k), leaf)
        [] OTHER -> [n EXCEPT !.kids[EdgeOf(n, k)] = PutAt(@, Below(n, k), v)]

Put(r, k, v) == IF r = None THEN NewLeaf(k, v) ELSE PutAt(r, k, v)

-----------------------------------------------------------------------------
(* remove_k and remove_recurse *)

\* remove_recurse from n, below whose prefix k is what is left of the key: the
\* node that n becomes and the value taken out.  A child that is a leaf, or has
\* lost its last child and its value, is deleted from n.
RECURSIVE RemoveBelow(_, _)
RemoveBelow(n, k) ==
  LET e == k[1]
      child == n.kids[e]
      emptied == [child EXCEPT !.value = None]
      deeper == RemoveBelow(child, Below(child, k))
      with(c) == [n EXCEPT !.kids[e] = c]
      found(c, v) ==
        [node |-> IF v # None /\ (IsLeaf(c) \/ Hollow(c)) THEN DeleteChild(n, e) ELSE with(c),
         out  |-> v]
      nothing == [node |-> n, out |-> None]
  IN  IF e \notin Edges(n) THEN nothing
      ELSE CASE PrefixLength(child.prefix, k) # Len(child.prefix) -> nothing
             [] Len(child.prefix) = Len(k) -> found(emptied, child.value)
             [] IsLeaf(child) -> nothing
             [] OTHER ->
                  IF deeper.out # None /\ Hollow(deeper.node)
                  THEN [node |-> DeleteChild(n, e), out |-> deeper.out]
                  ELSE [node |-> with(deeper.node), out |-> deeper.out]

\* Fault: an inner root that has lost its value and its last child stays.
RemoveKeepsHollowRoot(k) ==
  LET taken == [root EXCEPT !.value = None]
      below == RemoveBelow(root, Below(root, k))
      nothing == [node |-> root, out |-> None]
  IN  IF root = None THEN nothing
      ELSE CASE PrefixLength(root.prefix, k) # Len(root.prefix) -> nothing
             [] Len(root.prefix) = Len(k) ->
                  [node |-> IF IsLeaf(root) THEN None ELSE taken, out |-> root.value]
             [] OTHER -> below

\* remove_k: the root and the value taken out.
RemoveK(k) ==
  LET taken == [root EXCEPT !.value = None]
      below == RemoveBelow(root, Below(root, k))
      nothing == [node |-> root, out |-> None]
  IN  IF root = None THEN nothing
      ELSE CASE PrefixLength(root.prefix, k) # Len(root.prefix) -> nothing
             [] Len(root.prefix) = Len(k) ->
                  [node |-> IF NumChildren(root) = 0 THEN None ELSE taken,
                   out  |-> root.value]
             [] OTHER ->
                  [node |-> IF Hollow(below.node) THEN None ELSE below.node,
                   out  |-> below.out]

\* remove_k of the versioned tree, which knows that k is there: nodes never
\* shrink, and one that has lost its last child and its value becomes None.
RECURSIVE VersionedRemoved(_, _)
VersionedRemoved(n, k) ==
  LET e == EdgeOf(n, k)
      child == VersionedRemoved(n.kids[e], Below(n, k))
      left == CASE Len(n.prefix) = Len(k) -> [n EXCEPT !.value = None]
                [] Len(n.prefix) # Len(k) /\ child = None -> WithoutEdge(n, e)
                [] OTHER -> [n EXCEPT !.kids[e] = child]
  IN  IF NumChildren(left) = 0 /\ left.value = None THEN None ELSE left

-----------------------------------------------------------------------------
(* update_k and try_update_k *)

\* apply_occupied_update and, restoring the value on an error,
\* apply_occupied_update_rollback.  The callback writes to the slot it is lent.
OccupiedUpdate(n, c) ==
  LET holds(v) == [n EXCEPT !.value = v] IN
  CASE c.act = "insert" -> [node |-> holds(c.val), result |-> "changed"]
    [] c.act = "remove" ->
         [node |-> holds(None),
          result |-> IF NumChildren(n) = 0 THEN "remove_current" ELSE "removed"]
    [] c.act = "err" -> [node |-> n, result |-> "err"]
    [] OTHER -> [node |-> holds(Scratch),
                 result |-> IF c.act = "keep" THEN "changed" ELSE c.act]

\* vacant_update, and the insertion in each of its callers.
VacantUpdate(n, k, c) ==
  IF c.act = "insert" THEN [node |-> PutAt(n, k, c.val), result |-> "inserted"]
  ELSE [node |-> n,
        result |-> IF c.act \in {"err", "panic"} THEN c.act ELSE "unchanged"]

\* try_update_recurse_with and try_update_recurse_with_rollback: what n becomes
\* and an UpdateRecurseResult, or "err", or "panic".
RECURSIVE UpdateAt(_, _, _)
UpdateAt(n, k, c) ==
  LET e == EdgeOf(n, k)
      below == UpdateAt(n.kids[e], Below(n, k), c)
      without == DeleteChild(n, e)
      empty == NumChildren(without) = 0 /\ without.value = None
  IN  CASE Place(n, k) = "child" ->
             IF below.result = "remove_current"
             THEN [node |-> without, result |-> IF empty THEN "remove_current" ELSE "removed"]
             ELSE [below EXCEPT !.node = [n EXCEPT !.kids[e] = below.node]]
        [] Place(n, k) = "at" /\ n.value # None -> OccupiedUpdate(n, c)
        [] OTHER -> VacantUpdate(n, k, c)

\* The same on an empty tree.
UpdateRoot(k, c) ==
  IF root # None THEN UpdateAt(root, k, c)
  ELSE IF c.act = "insert" THEN [node |-> NewLeaf(k, c.val), result |-> "inserted"]
       ELSE [node |-> None,
             result |-> IF c.act \in {"err", "panic"} THEN c.act ELSE "unchanged"]

-----------------------------------------------------------------------------
(* bulk_load_sorted *)

KeyLess(a, b) ==
  LET common == PrefixLength(a, b) IN
  /\ common < Len(b)
  /\ common = Len(a) \/ a[common + 1] < b[common + 1]

Sorted(items) == \A i \in 1..Len(items) - 1 : ~KeyLess(items[i + 1].key, items[i].key)

\* Of adjacent entries with one key the last is kept.
Unique(items) ==
  FoldLeft(LAMBDA u, x : IF u # <<>> /\ Last(u).key = x.key
                         THEN Append(Front(u), x) ELSE Append(u, x),
           <<>>, items)

\* build_bulk_node and build_bulk_node_by_index, on strictly ascending items
\* whose keys begin at the node's depth.
RECURSIVE BuildBulk(_)
BuildBulk(items) ==
  LET first == items[1]
      p == PartialBefore(first.key, PrefixLength(first.key, Last(items).key))
      edge(x) == x.key[Len(p) + 1]
      below == IF first.key = p THEN Tail(items) ELSE items
      edges == {edge(x) : x \in ToSet(below)}
      group(e) == SelectSeq(below, LAMBDA x : edge(x) = e)
      cut(s) == [i \in DOMAIN s |-> [s[i] EXCEPT !.key = PartialAfter(@, Len(p))]]
  IN  IF Len(items) = 1 THEN NewLeaf(first.key, first.val)
      ELSE [prefix |-> p, value |-> IF first.key = p THEN first.val ELSE None,
            kind |-> BulkKind(Cardinality(edges)),
            kids |-> [e \in edges |-> BuildBulk(cut(group(e)))]]

-----------------------------------------------------------------------------
(* Walking the whole tree *)

\* Fault: the edges of n come in the wrong order.
EdgesInReverse(n) ==
  [i \in 1..NumChildren(n) |->
     CHOOSE e \in Edges(n) : Cardinality({f \in Edges(n) : f > e}) = i - 1]

\* The edges of n in the order its iterator yields them.
EdgesInOrder(n) ==
  [i \in 1..NumChildren(n) |->
     CHOOSE e \in Edges(n) : Cardinality({f \in Edges(n) : f < e}) = i - 1]

\* for_each_view and iter from a node whose parent's key is `above`.
RECURSIVE EntriesBelow(_, _)
EntriesBelow(n, above) ==
  LET key == above \o n.prefix
      own == IF n.value = None THEN <<>> ELSE <<[key |-> key, val |-> n.value]>>
  IN  FoldLeft(LAMBDA done, e : done \o EntriesBelow(n.kids[e], key), own, EdgesInOrder(n))

EntriesOf(r) == IF r = None THEN <<>> ELSE EntriesBelow(r, <<>>)

Entries == EntriesOf(root)

RECURSIVE Subtree(_)
Subtree(n) == {n} \cup UNION {Subtree(n.kids[e]) : e \in Edges(n)}

Nodes == IF root = None THEN {} ELSE Subtree(root)

-----------------------------------------------------------------------------

Init ==
  /\ mode \in {"owned", "versioned"}
  /\ root = None
  /\ len = 0
  /\ ret = None

Owned == mode # "versioned" /\ UNCHANGED mode

\* The count after an insertion: the first one sets it to 1.
Counted == IF root = None THEN 1 ELSE len + 1

GetK(c) ==
  /\ Owned /\ c.op = "get"
  /\ ret' = Get(c.key)
  /\ UNCHANGED <<root, len>>

\* Fault: every insertion counts.
InsertCountsAlways(c) ==
  /\ Owned /\ c.op = "insert"
  /\ ret' = Get(c.key)
  /\ root' = Put(root, c.key, c.val)
  /\ len' = Counted

\* insert_k: Replaced answers the old value, Inserted counts.
Insert(c) ==
  /\ Owned /\ c.op = "insert"
  /\ ret' = Get(c.key)
  /\ root' = Put(root, c.key, c.val)
  /\ len' = IF ret' = None THEN Counted ELSE len

\* try_insert_k: an occupied slot is left as it is.
TryInsert(c) ==
  /\ Owned /\ c.op = "try_insert"
  /\ ret' = Get(c.key)
  /\ IF ret' = None
     THEN root' = Put(root, c.key, c.val) /\ len' = Counted
     ELSE UNCHANGED <<root, len>>

\* get_mut_k, and what its caller writes.
GetMut(c) ==
  /\ Owned /\ c.op = "get_mut"
  /\ ret' = Get(c.key)
  /\ root' = IF ret' = None THEN root ELSE PutAt(root, c.key, c.val)
  /\ UNCHANGED len

\* Fault: a removal counts although the key is not there.
DeleteKCountsAlways(c) ==
  /\ Owned /\ c.op = "remove"
  /\ root' = RemoveK(c.key).node
  /\ ret' = RemoveK(c.key).out
  /\ len' = len - 1

\* remove_k, delete_k
DeleteK(c) ==
  /\ Owned /\ c.op = "remove"
  /\ LET removed == RemoveK(c.key) IN
       /\ root' = removed.node
       /\ ret' = removed.out
       /\ len' = IF removed.out = None THEN len ELSE len - 1

\* update_k (whose callback cannot fail) and try_update_k.
Update(c) ==
  /\ Owned /\ c.op = "update"
  /\ LET updated == UpdateRoot(c.key, c)
         result == updated.result IN
       /\ root' = IF result = "remove_current" THEN None ELSE updated.node
       /\ len' = CASE result = "inserted" -> Counted
                   [] result \in {"removed", "remove_current"} -> len - 1
                   [] OTHER -> len
       /\ ret' = CASE result \in {"err", "panic"} -> result
                   [] result = "unchanged" -> "false"
                   [] OTHER -> "true"

\* bulk_load_sorted (and its variants) in place of a tree that is still empty.
BulkLoad(items) ==
  /\ Owned /\ root = None
  /\ IF Sorted(items)
     THEN /\ root' = IF items = <<>> THEN None ELSE BuildBulk(Unique(items))
          /\ len' = Len(Unique(items))
          /\ ret' = None
     ELSE ret' = "panic" /\ UNCHANGED <<root, len>>

\* The insert_k and remove_k of VersionedAdaptiveRadixTree.
VersionedInsert(c) ==
  /\ mode = "versioned" /\ c.op = "insert"
  /\ ret' = Get(c.key)
  /\ root' = Put(root, c.key, c.val)
  /\ UNCHANGED <<mode, len>>

VersionedRemove(c) ==
  /\ mode = "versioned" /\ c.op = "remove"
  /\ ret' = Get(c.key)
  /\ root' = IF ret' = None THEN root ELSE VersionedRemoved(root, c.key)
  /\ UNCHANGED <<mode, len>>

\* into_unversioned, convert_to_unversioned_node: every node keeps its kind.
IntoUnversioned ==
  /\ mode = "versioned"
  /\ mode' = "converted"
  /\ len' = Len(Entries)
  /\ UNCHANGED <<root, ret>>

Next ==
  \/ \E c \in Calls :
       GetK(c) \/ Insert(c) \/ TryInsert(c) \/ GetMut(c) \/ DeleteK(c) \/ Update(c)
  \/ \E items \in Loads : BulkLoad(items)
  \/ \E c \in VersionedCalls : VersionedInsert(c) \/ VersionedRemove(c)
  \/ IntoUnversioned

Spec == Init /\ [][Next]_vars

-----------------------------------------------------------------------------
(* Properties *)

\* The fields hold what their Rust types let them hold.
TypeOK ==
  /\ mode \in {"owned", "versioned", "converted"}
  /\ len \in Nat
  /\ ret \in Val \cup {None, "true", "false", "err", "panic"}
  /\ \A n \in Nodes :
       /\ n.prefix \in Seq(Byte) /\ n.value \in Val \cup {None}
       /\ n.kind \in {"Empty"} \cup ToSet(Kind) /\ Edges(n) \subseteq Byte

\* len() is the number of entries, through replaced and refused insertions,
\* failing updates, duplicate keys in a bulk load and a conversion.
LenRight == mode # "versioned" => len = Len(Entries)

\* Every node is one the code expects to meet: a leaf has a value (the code
\* panics with "corruption: missing value" otherwise), an inner node is not
\* hollow, no node has more children than its table has room for, and the edge
\* to a child is the first byte of the child's prefix.
RadixShape ==
  \A n \in Nodes :
    /\ IsLeaf(n) => n.value # None /\ Edges(n) = {}
    /\ ~Hollow(n)
    /\ ~IsLeaf(n) => NumChildren(n) <= Width[n.kind]
    /\ \A e \in Edges(n) : n.kids[e].prefix # <<>> /\ n.kids[e].prefix[1] = e

\* A tree that was never versioned has no node larger than its children need
\* (grow and shrink agree about the thresholds, bulk loading with both).
SizedToFit ==
  mode = "owned" =>
    \A n \in Nodes :
      n.kind \in {"Node16", "Node48", "Node256"} =>
        NumChildren(n) > Width[Smaller(n.kind)]

\* partial_extended_with asserts that the prefixes it joins are shorter than N
\* together (array_partial.rs:89).  A root that grows a longer prefix got it there.
CollapseFits ==
  [][(root # None /\ root' # None /\ Len(root'.prefix) > Len(root.prefix))
       => Len(root'.prefix) < PartialSize]_vars
=============================================================================
