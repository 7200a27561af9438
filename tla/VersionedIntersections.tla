----------------------- MODULE VersionedIntersections -----------------------
(***************************************************************************)
(* The intersection of two VersionedAdaptiveRadixTrees                     *)
(* (rart/src/versioned_tree.rs): both trees are walked in lock step, by    *)
(* two handles that nobody writes to meanwhile and that may share nodes    *)
(* with each other and with those that others write to.                    *)
(***************************************************************************)
EXTENDS VersionedReads

-----------------------------------------------------------------------------
(* Two nodes, from offset i in the prefix of l and j in that of r. *)

PrefixFrom(n, i) == SubSeq(heap[n].prefix, i + 1, Len(heap[n].prefix))

Matched(l, i, r, j) == PrefixLengthKey(PrefixFrom(l, i), PrefixFrom(r, j), 0)

\* Both prefixes end here, and both nodes have a value.
MeetAt(l, i, r, j) ==
  /\ i + Matched(l, i, r, j) = Len(heap[l].prefix)
  /\ j + Matched(l, i, r, j) = Len(heap[r].prefix)
  /\ heap[l].value # None /\ heap[r].value # None

\* The edges both nodes have, in ascending order.
SharedEdges(l, r) == SetToSortSeq(Edges(heap[l]) \cap Edges(heap[r]), <)

Descent(spelt, l, i, r, j) == [spelt |-> spelt, l |-> l, i |-> i, r |-> r, j |-> j]

SharedChildren(l, r) ==
  LET shared == SharedEdges(l, r) IN
  [x \in DOMAIN shared |->
     Descent(<<>>, heap[l].kids[shared[x]], 0, heap[r].kids[shared[x]], 0)]

\* Fault: a prefix that goes on past the other's is not followed.
DescentsAligned(l, i, r, j) ==
  IF PrefixFrom(l, i) = PrefixFrom(r, j) THEN SharedChildren(l, r) ELSE <<>>

\* Where the walk goes on, with the edge byte it spells itself: the longer prefix
\* leads through a child of the shorter one, whose own first byte is that edge.
Descents(l, i, r, j) ==
  LET p == heap[l].prefix
      q == heap[r].prefix
      x == i + Matched(l, i, r, j)
      y == j + Matched(l, i, r, j)
  IN  CASE x < Len(p) /\ y < Len(q) -> <<>>
        [] x < Len(p) /\ y = Len(q) /\ p[x + 1] \in Edges(heap[r]) ->
             <<Descent(<<p[x + 1]>>, l, x + 1, heap[r].kids[p[x + 1]], 1)>>
        [] x = Len(p) /\ y < Len(q) /\ q[y + 1] \in Edges(heap[l]) ->
             <<Descent(<<q[y + 1]>>, heap[l].kids[q[y + 1]], 1, r, y + 1)>>
        [] x = Len(p) /\ y = Len(q) -> SharedChildren(l, r)
        [] OTHER -> <<>>

\* intersect_nodes: the matched bytes are copied to a buffer.
RECURSIVE IntersectNodes(_, _, _, _, _)
IntersectNodes(l, i, r, j, key_buf) ==
  LET key == key_buf \o SubSeq(heap[l].prefix, i + 1, i + Matched(l, i, r, j))
      own == IF MeetAt(l, i, r, j)
             THEN <<[key |-> key, left |-> heap[l].value, right |-> heap[r].value]>> ELSE <<>>
      deeper(done, d) == done \o IntersectNodes(d.l, d.i, d.r, d.j, key \o d.spelt)
  IN  FoldLeft(deeper, own, Descents(l, i, r, j))

\* intersect_nodes_lending: the key in segments, cut from the left prefix and,
\* for an edge met inside the right prefix, from that one.
RECURSIVE IntersectLending(_, _, _, _, _)
IntersectLending(l, i, r, j, segments) ==
  LET piece(p) == IF p = <<>> THEN <<>> ELSE <<p>>
      here == segments \o piece(SubSeq(heap[l].prefix, i + 1, i + Matched(l, i, r, j)))
      own == IF MeetAt(l, i, r, j)
             THEN <<[segments |-> here, left |-> heap[l].value, right |-> heap[r].value]>> ELSE <<>>
      deeper(done, d) == done \o IntersectLending(d.l, d.i, d.r, d.j, here \o piece(d.spelt))
  IN  FoldLeft(deeper, own, Descents(l, i, r, j))

\* intersect_nodes_values: no key at all.
RECURSIVE IntersectValues(_, _, _, _)
IntersectValues(l, i, r, j) ==
  LET own == IF MeetAt(l, i, r, j) THEN <<<<heap[l].value, heap[r].value>>>> ELSE <<>>
      deeper(done, d) == done \o IntersectValues(d.l, d.i, d.r, d.j)
  IN  FoldLeft(deeper, own, Descents(l, i, r, j))

\* intersect_with, intersect_lending_with, intersect_values_with: nothing is
\* shared with an empty tree, and intersect_count counts what they meet.
Intersect(g, h) ==
  LET meet(none, some) == IF root[g] = None \/ root[h] = None THEN none ELSE some
      values == meet(<<>>, IntersectValues(root[g], 0, root[h], 0))
  IN  [entries |-> meet(<<>>, IntersectNodes(root[g], 0, root[h], 0, <<>>)),
       views   |-> meet(<<>>, IntersectLending(root[g], 0, root[h], 0, <<>>)),
       values  |-> values,
       count   |-> Len(values)]

-----------------------------------------------------------------------------
(* Properties *)

Resting == {h \in live : Running(h, "idle") /\ cursor[h] = None}

\* Two trees that share nodes, or compress the same keys differently, meet at
\* the keys both hold, in order: with keys, with keys in segments, and as values
\* alone (intersect_with, intersect_lending_with, intersect_values_with).
IntersectionsRight ==
  \A g \in Resting : \A h \in Resting \ {g} :
    LET met == Intersect(g, h)
        keys == InOrder(Holds(g) \cap Holds(h))
        both == [i \in DOMAIN keys |->
                   [key |-> keys[i], left |-> Get(root[g], keys[i]), right |-> Get(root[h], keys[i])]]
    IN  /\ met.entries = both
        /\ [i \in DOMAIN met.views |->
              [met.views[i] EXCEPT !.segments = FlattenSeq(@)]] =
             [i \in DOMAIN both |->
                [segments |-> both[i].key, left |-> both[i].left, right |-> both[i].right]]
        /\ met.values = [i \in DOMAIN both |-> <<both[i].left, both[i].right>>]
        /\ met.count = Len(keys)
=============================================================================
