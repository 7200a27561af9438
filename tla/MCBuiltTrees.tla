---------------------------- MODULE MCBuiltTrees ----------------------------
(* Trees that a handle may have built before an instance of VersionedTree   *)
(* begins: the one that inserting <<1, 1>> makes, and the one that <<1, 2>> *)
(* then makes of it.                                                        *)
EXTENDS VersionedTree, TLC

LeafHeap(h, v) == (<<h, 1>> :> NewLeaf(<<1, 1>>, v, 1)) @@ [n \in Node |-> None]

InnerHeap(h, v) ==
  (<<h, 1>> :> NewInner(<<1>>, None, [b \in Byte |-> <<h, 1 + b>>], 2)) @@
  (<<h, 2>> :> NewLeaf(<<1>>, v, 2)) @@
  (<<h, 3>> :> NewLeaf(<<2>>, v, 2)) @@ [n \in Node |-> None]

\* The handle h, at version t, is the only one and holds the tree; no call runs.
StartsWith(h, built, t) ==
  /\ heap = built
  /\ live = {h}
  /\ root = [g \in Handle |-> IF g = h THEN <<h, 1>> ELSE None]
  /\ version = [g \in Handle |-> IF g = h THEN t ELSE 0]
  /\ call = [g \in Handle |-> None]
  /\ todo = [g \in Handle |-> <<>>]
  /\ ret = [g \in Handle |-> None]
  /\ pc = [g \in Handle |-> "idle"]
  /\ cur = [g \in Handle |-> None]
  /\ depth = [g \in Handle |-> 0]
  /\ trail = [g \in Handle |-> <<>>]
  /\ edge = [g \in Handle |-> None]
  /\ res = [g \in Handle |-> None]
  /\ drops = [g \in Handle |-> {}]
=============================================================================
