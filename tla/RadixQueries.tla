---------------------------- MODULE RadixQueries ----------------------------
(***************************************************************************)
(* The reading side of AdaptiveRadixTree: iteration (rart/src/iter.rs),    *)
(* ranges (rart/src/range.rs), prefix and longest-prefix queries and the   *)
(* lock-step intersection of two trees (rart/src/tree.rs).  They change    *)
(* nothing, so what they should yield is stated of every tree that         *)
(* RadixTree can reach.                                                    *)
(***************************************************************************)
EXTENDS RadixTree

CONSTANTS
  Probe,    \* keys asked for, in the tree or not
  Partner,  \* what the trees to intersect with are bulk-loaded from
  Bounds    \* range bounds: [type |-> ..., key |-> ...]

ASSUME ProbeAssumption == Probe \subseteq Seq(Byte)
ASSUME PartnerAssumption == \A items \in Partner : Sorted(items) /\ items # <<>>
ASSUME BoundsAssumption ==
  \A b \in Bounds : b.type \in {"unbounded", "included", "excluded"} /\ b.key \in Seq(Byte)

IsBounded(b) == b.type # "unbounded"

Own(n, key) == IF n.value = None THEN <<>> ELSE <<[key |-> key, val |-> n.value]>>

\* What loops that stop or begin at the first element with a property yield.
UpTo(s, Bad(_)) ==
  LET bad == {i \in DOMAIN s : Bad(s[i])} IN
  IF bad = {} THEN s ELSE SubSeq(s, 1, (CHOOSE i \in bad : \A j \in bad : i <= j) - 1)

From(s, Good(_)) ==
  LET good == {i \in DOMAIN s : Good(s[i])} IN
  IF good = {} THEN <<>> ELSE SubSeq(s, CHOOSE i \in good : \A j \in good : i <= j, Len(s))

\* A prefix as a piece of a key: an empty one is not pushed.
Segment(p) == IF p = <<>> THEN <<>> ELSE <<p>>

-----------------------------------------------------------------------------
(* Keys that are prefixes of a key *)

RECURSIVE PrefixMatches(_, _, _)

\* Fault: the value where the path ends short of the key is not met.
PrefixMatchesDropsEnd(n, k, above) ==
  LET key == above \o n.prefix IN
  CASE Place(n, k) = "child" ->
         Own(n, key) \o PrefixMatches(n.kids[EdgeOf(n, k)], Below(n, k), key)
    [] Place(n, k) = "at" -> Own(n, key)
    [] OTHER -> <<>>

\* prefix_match_for_each_impl and PrefixMatchIter: the entries on the path.
PrefixMatches(n, k, above) ==
  LET key == above \o n.prefix IN
  CASE Place(n, k) = "child" ->
         Own(n, key) \o PrefixMatches(n.kids[EdgeOf(n, k)], Below(n, k), key)
    [] Place(n, k) \in {"at", "missing"} -> Own(n, key)
    [] OTHER -> <<>>

\* prefix_match_for_each, prefix_match_iter
PrefixMatching(k) == IF root = None THEN <<>> ELSE PrefixMatches(root, k, <<>>)

RECURSIVE LongestPrefix(_, _, _, _)

\* Fault: what was met before is forgotten when the walk fails.
LongestPrefixForgetsBest(n, k, above, best) ==
  LET key == above \o n.prefix IN
  CASE Place(n, k) = "child" ->
         LongestPrefix(n.kids[EdgeOf(n, k)], Below(n, k), key, Own(n, key))
    [] Place(n, k) \in {"at", "missing"} -> Own(n, key)
    [] OTHER -> <<>>

\* longest_prefix_match_iterate, longest_prefix_value_bytes_iterate and
\* longest_prefix_match_lending: the last value met, a sequence of at most one.
LongestPrefix(n, k, above, best) ==
  LET key == above \o n.prefix
      here == IF n.value = None THEN best ELSE Own(n, key)
  IN  CASE Place(n, k) = "child" ->
             LongestPrefix(n.kids[EdgeOf(n, k)], Below(n, k), key, here)
        [] Place(n, k) \in {"at", "missing"} -> here
        [] OTHER -> best

\* longest_prefix_match, longest_prefix_value, with_longest_prefix_match_view
LongestPrefixMatch(k) == IF root = None THEN <<>> ELSE LongestPrefix(root, k, <<>>, <<>>)

-----------------------------------------------------------------------------
(* Keys that begin with a prefix *)

RECURSIVE FindPrefixSubtree(_, _, _)

\* Fault: a prefix that ends inside a node's prefix is not found.
FindPrefixSubtreeExact(n, k, above) ==
  CASE Place(n, k) = "at" -> <<[node |-> n, above |-> above]>>
    [] Place(n, k) = "child" ->
         FindPrefixSubtree(n.kids[EdgeOf(n, k)], Below(n, k), above \o Segment(n.prefix))
    [] OTHER -> <<>>

\* find_prefix_subtree, find_prefix_subtree_node, find_prefix_subtree_view: the
\* node below which all keys begin with k, and the pieces of the key above it (a
\* sequence of at most one).
FindPrefixSubtree(n, k, above) ==
  CASE Place(n, k) \in {"at", "inside"} -> <<[node |-> n, above |-> above]>>
    [] Place(n, k) = "child" ->
         FindPrefixSubtree(n.kids[EdgeOf(n, k)], Below(n, k), above \o Segment(n.prefix))
    [] OTHER -> <<>>

SubtreeFor(k) == IF root = None THEN <<>> ELSE FindPrefixSubtree(root, k, <<>>)

\* prefix_iter
PrefixIter(k) ==
  LET found == SubtreeFor(k) IN
  IF found = <<>> THEN <<>> ELSE EntriesBelow(found[1].node, FlattenSeq(found[1].above))

\* ValuesIter: no key is kept while it descends.
RECURSIVE ValuesBelow(_)
ValuesBelow(n) ==
  FoldLeft(LAMBDA done, e : done \o ValuesBelow(n.kids[e]),
           IF n.value = None THEN <<>> ELSE <<n.value>>, EdgesInOrder(n))

\* prefix_values_for_each
PrefixValues(k) ==
  LET found == SubtreeFor(k) IN IF found = <<>> THEN <<>> ELSE ValuesBelow(found[1].node)

\* Fault: the value that stops the visit is kept from the visitor.
TryPrefixValuesShort(k, last) == UpTo(PrefixValues(k), LAMBDA val : val = last)

\* try_prefix_values_for_each, whose callback stops or fails at the value `last`.
TryPrefixValues(k, last) ==
  LET values == PrefixValues(k)
      stops == {i \in DOMAIN values : values[i] = last}
  IN  IF stops = {} THEN values
      ELSE SubSeq(values, 1, CHOOSE i \in stops : \A j \in stops : i <= j)

\* visit_each: what lies below n, each entry with the pieces of its key.
RECURSIVE SegmentedBelow(_, _)
SegmentedBelow(n, above) ==
  LET segments == above \o Segment(n.prefix)
      own == IF n.value = None THEN <<>> ELSE <<[segments |-> segments, val |-> n.value]>>
  IN  FoldLeft(LAMBDA done, e : done \o SegmentedBelow(n.kids[e], segments),
               own, EdgesInOrder(n))

\* for_each_view
EachView == IF root = None THEN <<>> ELSE SegmentedBelow(root, <<>>)

\* prefix_for_each_view: the segments start with those of the path walked.
PrefixView(k) ==
  LET found == SubtreeFor(k) IN
  IF found = <<>> THEN <<>> ELSE SegmentedBelow(found[1].node, found[1].above)

-----------------------------------------------------------------------------
(* range *)

StartsIn(b, k) ==
  CASE b.type = "unbounded" -> TRUE
    [] b.type = "included"  -> ~KeyLess(k, b.key)
    [] b.type = "excluded"  -> KeyLess(b.key, k)

EndsIn(b, k) ==
  CASE b.type = "unbounded" -> TRUE
    [] b.type = "included"  -> ~KeyLess(b.key, k)
    [] b.type = "excluded"  -> KeyLess(k, b.key)

\* Fault: the child on the bound's own edge is skipped.
PositionedSkipsEdge(n, seek) ==
  LET common == PrefixLength(n.prefix, seek) IN
  IF common = Len(n.prefix) /\ Len(seek) > common
  THEN {e \in Edges(n) : e > seek[common + 1]} ELSE Edges(n)

\* build_positioned_stack: the edges of the root that are followed at all.
Positioned(n, seek) ==
  LET common == PrefixLength(n.prefix, seek) IN
  CASE common = Len(seek) -> Edges(n)
    [] common < Len(seek) /\ common < Len(n.prefix) ->
         IF n.prefix[common + 1] < seek[common + 1] THEN {} ELSE Edges(n)
    [] OTHER -> {e \in Edges(n) : e >= seek[common + 1]}

Followed(start) == IF IsBounded(start) THEN Positioned(root, start.key) ELSE Edges(root)

FollowedInOrder(start) == SelectSeq(EdgesInOrder(root), LAMBDA e : e \in Followed(start))

\* Iter::new_with_start_bound: entries are passed over until one is past the
\* start bound; from there on none is checked.
IterFrom(start) ==
  LET kids == FoldLeft(LAMBDA done, e : done \o EntriesBelow(root.kids[e], root.prefix),
                       <<>>, FollowedInOrder(start))
  IN  (IF StartsIn(start, root.prefix) THEN Own(root, root.prefix) ELSE <<>>)
        \o From(kids, LAMBDA x : StartsIn(start, x.key))

\* range: the iterator stops at the first entry past the end bound.
RangeOf(start, end) ==
  IF root = None THEN <<>>
  ELSE UpTo(IterFrom(start), LAMBDA x : ~EndsIn(end, x.key))

-----------------------------------------------------------------------------
(* for_each_range_view: keys stay in pieces, one for each prefix on the path *)

\* cmp_segments_to_slice
RECURSIVE CmpSegments(_, _)
CmpSegments(segments, k) ==
  LET p == Head(segments)
      common == PrefixLength(p, k)
  IN  CASE segments = <<>> -> IF k = <<>> THEN "equal" ELSE "less"
        [] segments # <<>> /\ common < Len(p) ->
             IF common < Len(k) /\ p[common + 1] < k[common + 1] THEN "less" ELSE "greater"
        [] segments # <<>> /\ common = Len(p) /\ common < Len(k) -> "less"
        [] OTHER -> CmpSegments(Tail(segments), <<>>)

\* LendingKeyView: to_vec and eq_slice
ToVec(segments) == FlattenSeq(segments)

RECURSIVE EqSegments(_, _)
EqSegments(segments, k) ==
  IF segments = <<>> THEN TRUE
  ELSE /\ PartialBefore(k, Len(Head(segments))) = Head(segments)
       /\ EqSegments(Tail(segments), PartialAfter(k, Len(Head(segments))))

\* Fault: a longer key with the same beginning is equal.
EqSliceAsPrefix(segments, k) == EqSegments(segments, k)

EqSlice(segments, k) == Len(ToVec(segments)) = Len(k) /\ EqSegments(segments, k)

Keyed(views) == [i \in DOMAIN views |-> [key |-> ToVec(views[i].segments), val |-> views[i].val]]

\* Fault: an included end bound is left out.
WithinEndStrict(end, segments) ==
  ~IsBounded(end) \/ CmpSegments(segments, end.key) = "less"

\* within_end_bound
WithinEnd(end, segments) ==
  LET order == CmpSegments(segments, end.key) IN
  ~IsBounded(end) \/ order = "less" \/ (order = "equal" /\ end.type = "included")

\* LendingKeyView::cmp_slice, a copy of cmp_segments_to_slice
CmpSlice(segments, k) == CmpSegments(segments, k)

\* The start bound as for_each_with_bounds applies it to the root.
PastStart(start, segments) ==
  LET order == CmpSlice(segments, start.key) IN
  ~IsBounded(start) \/ order = "greater" \/ (order = "equal" /\ start.type = "included")

\* for_each_with_bounds, visit_each
RangeView(start, end) ==
  IF root = None \/ ~WithinEnd(end, Segment(root.prefix)) THEN <<>>
  ELSE LET own == IF PastStart(start, Segment(root.prefix)) THEN Own(root, root.prefix) ELSE <<>>
           kids == FoldLeft(LAMBDA done, e : done \o SegmentedBelow(root.kids[e], Segment(root.prefix)),
                            <<>>, FollowedInOrder(start))
           visited == UpTo(kids, LAMBDA x : ~WithinEnd(end, x.segments))
       IN  own \o Keyed(visited)

-----------------------------------------------------------------------------
(* Intersection of two trees, walked in lock step from offset i in the prefix *)
(* of l and j in that of r                                                    *)

Matched(l, i, r, j) == PrefixLength(PartialAfter(l.prefix, i), PartialAfter(r.prefix, j))

\* Both prefixes end here, and both nodes have a value.
MeetAt(l, i, r, j) ==
  /\ i + Matched(l, i, r, j) = Len(l.prefix)
  /\ j + Matched(l, i, r, j) = Len(r.prefix)
  /\ l.value # None /\ r.value # None

Descent(spelt, l, i, r, j) == [spelt |-> spelt, l |-> l, i |-> i, r |-> r, j |-> j]

\* The children on edges both nodes have, in the order of the one with fewer.
SharedChildren(l, r) ==
  LET fewer == IF NumChildren(l) <= NumChildren(r) THEN l ELSE r
      shared == SelectSeq(EdgesInOrder(fewer), LAMBDA e : e \in Edges(l) \cap Edges(r))
  IN  [x \in DOMAIN shared |-> Descent(<<>>, l.kids[shared[x]], 0, r.kids[shared[x]], 0)]

\* Fault: a prefix that goes on past the other's is not followed.
DescentsAligned(l, i, r, j) ==
  IF PartialAfter(l.prefix, i) = PartialAfter(r.prefix, j) THEN SharedChildren(l, r) ELSE <<>>

\* Where the walk goes on, with the edge byte it spells itself: the longer prefix
\* leads through a child of the shorter one, whose own first byte is that edge.
Descents(l, i, r, j) ==
  LET p == l.prefix
      q == r.prefix
      x == i + Matched(l, i, r, j)
      y == j + Matched(l, i, r, j)
  IN  CASE x < Len(p) /\ y < Len(q) -> <<>>
        [] x < Len(p) /\ y = Len(q) /\ p[x + 1] \in Edges(r) ->
             <<Descent(<<p[x + 1]>>, l, x + 1, r.kids[p[x + 1]], 1)>>
        [] x = Len(p) /\ y < Len(q) /\ q[y + 1] \in Edges(l) ->
             <<Descent(<<q[y + 1]>>, l.kids[q[y + 1]], 1, r, y + 1)>>
        [] x = Len(p) /\ y = Len(q) -> SharedChildren(l, r)
        [] OTHER -> <<>>

\* intersect_nodes: the matched bytes are copied to a buffer.
RECURSIVE IntersectNodes(_, _, _, _, _)
IntersectNodes(l, i, r, j, above) ==
  LET key == above \o PartialBefore(PartialAfter(l.prefix, i), Matched(l, i, r, j))
      own == IF MeetAt(l, i, r, j) THEN <<[key |-> key, left |-> l.value, right |-> r.value]>>
             ELSE <<>>
      deeper(done, d) == done \o IntersectNodes(d.l, d.i, d.r, d.j, key \o d.spelt)
  IN  FoldLeft(deeper, own, Descents(l, i, r, j))

\* intersect_nodes_lending: they stay segments of the two trees' prefixes.
RECURSIVE IntersectLending(_, _, _, _, _)
IntersectLending(l, i, r, j, above) ==
  LET matched == PartialBefore(PartialAfter(l.prefix, i), Matched(l, i, r, j))
      segments == above \o Segment(matched)
      own == IF MeetAt(l, i, r, j)
             THEN <<[segments |-> segments, left |-> l.value, right |-> r.value]>> ELSE <<>>
      deeper(done, d) ==
        done \o IntersectLending(d.l, d.i, d.r, d.j, segments \o Segment(d.spelt))
  IN  FoldLeft(deeper, own, Descents(l, i, r, j))

\* intersect_nodes_values: no key at all.
RECURSIVE IntersectValues(_, _, _, _)
IntersectValues(l, i, r, j) ==
  LET own == IF MeetAt(l, i, r, j) THEN <<[left |-> l.value, right |-> r.value]>> ELSE <<>>
      deeper(done, d) == done \o IntersectValues(d.l, d.i, d.r, d.j)
  IN  FoldLeft(deeper, own, Descents(l, i, r, j))

\* intersect_with, intersect_lending_with, intersect_values_with, intersect_count
IntersectionOf(left, right) ==
  LET none == left = None \/ right = None
      values == IF none THEN <<>> ELSE IntersectValues(left, 0, right, 0)
  IN  [entries |-> IF none THEN <<>> ELSE IntersectNodes(left, 0, right, 0, <<>>),
       views   |-> IF none THEN <<>> ELSE IntersectLending(left, 0, right, 0, <<>>),
       values  |-> values,
       count   |-> Len(values)]

-----------------------------------------------------------------------------
(* get_tree_stats (rart/src/stats.rs).  The densities are the quotients of   *)
(* two of the counts and are left to the reader of the record.               *)

NoStats ==
  [nodes |-> [k \in ToSet(Kind) |-> 0], children |-> [k \in ToSet(Kind) |-> 0],
   leaves |-> 0, values |-> 0, height |-> 0]

\* update_tree_stats: the counts of the nodes of n's kind.
CountInner(n, st) ==
  [st EXCEPT !.nodes[n.kind] = @ + 1, !.children[n.kind] = @ + NumChildren(n)]

CountNode(n, st, height) ==
  LET seen == [st EXCEPT !.height = IF height > @ THEN height ELSE @,
                         !.values = IF n.value # None THEN @ + 1 ELSE @]
  IN  IF IsLeaf(n) THEN [seen EXCEPT !.leaves = @ + 1] ELSE CountInner(n, seen)

RECURSIVE StatsBelow(_, _, _)

\* Fault: a node whose value has children below it is left out.
StatsBelowStops(n, st, height) ==
  IF n.value # None THEN CountNode(n, st, height)
  ELSE FoldLeft(LAMBDA done, e : StatsBelow(n.kids[e], done, height + 1),
                CountNode(n, st, height), EdgesInOrder(n))

\* get_tree_stats_recurse
StatsBelow(n, st, height) ==
  FoldLeft(LAMBDA done, e : StatsBelow(n.kids[e], done, height + 1),
           CountNode(n, st, height), EdgesInOrder(n))

GetTreeStats ==
  LET st == IF root = None THEN NoStats ELSE StatsBelow(root, NoStats, 1)
      total(count(_)) == FoldLeft(LAMBDA done, k : done + count(k), 0, Kind)
  IN  st @@ [inner |-> total(LAMBDA k : st.nodes[k]),
             childrenInAll |-> total(LAMBDA k : st.children[k]),
             width |-> total(LAMBDA k : Width[k] * st.nodes[k])]

-----------------------------------------------------------------------------
(* Properties *)

InRange(start, end, x) == StartsIn(start, x.key) /\ EndsIn(end, x.key)

\* Iteration yields every key the tree answers for, with its value, once and in
\* ascending order (iter, for_each_view against get_bytes).
IterRight ==
  /\ \A i \in 1..Len(Entries) - 1 : KeyLess(Entries[i].key, Entries[i + 1].key)
  /\ \A k \in Probe : Get(k) # None <=> [key |-> k, val |-> Get(k)] \in ToSet(Entries)
  /\ \A x \in ToSet(Entries) : Get(x.key) = x.val

\* The keys that are prefixes of k are found from the shortest to the longest
\* (prefix_match_for_each, PrefixMatchIter).
PrefixMatchRight ==
  \A k \in Probe :
    PrefixMatching(k) = SelectSeq(Entries, LAMBDA x : IsPrefix(x.key, k))

\* The longest-prefix lookups answer the last of them, also when the walk goes
\* on past it and fails (longest_prefix_match and its variants).
LongestPrefixRight ==
  \A k \in Probe :
    LET all == SelectSeq(Entries, LAMBDA x : IsPrefix(x.key, k)) IN
    LongestPrefixMatch(k) = IF all = <<>> THEN <<>> ELSE <<Last(all)>>

\* A prefix query yields the keys that begin with the prefix and no other,
\* wherever in a compressed path the prefix ends, as entries, as views in pieces and
\* as values; a visit that may stop hands out each value up to the one that stops
\* it, that one included, and none after it (prefix_iter and its variants,
\* try_prefix_values_for_each).
PrefixIterRight ==
  \A k \in Probe :
    LET below == SelectSeq(Entries, LAMBDA x : IsPrefix(k, x.key))
        stopped == TryPrefixValues(k, Scratch)
    IN  /\ PrefixIter(k) = below
        /\ Keyed(PrefixView(k)) = below
        /\ PrefixValues(k) = [i \in DOMAIN below |-> below[i].val]
        /\ IsPrefix(stopped, PrefixValues(k))
        /\ \A i \in DOMAIN below :
             i \in DOMAIN stopped <=> \A j \in 1..i - 1 : below[j].val # Scratch

\* The pieces of a visited key are the key, and equal to it alone
\* (for_each_view, LendingKeyView::to_vec and eq_slice).
ViewRight ==
  /\ Keyed(EachView) = Entries
  /\ \A x \in ToSet(EachView) : \A k \in Probe : EqSlice(x.segments, k) <=> ToVec(x.segments) = k

\* A range yields the entries within its bounds, although only the root is
\* positioned and only the first entry held against the start bound (range).
RangeRight ==
  \A start, end \in Bounds :
    RangeOf(start, end) = SelectSeq(Entries, LAMBDA x : InRange(start, end, x))

\* The lending range visit misses no entry of the range and keeps the order
\* (for_each_range_view).
RangeViewComplete ==
  \A start, end \in Bounds :
    SelectSeq(RangeView(start, end), LAMBDA x : InRange(start, end, x))
      = SelectSeq(Entries, LAMBDA x : InRange(start, end, x))

\* It visits "key-value pairs within a specified range" (tree.rs:886): none
\* before the start bound and none past the end bound.
RangeViewWithin ==
  \A start, end \in Bounds : \A x \in ToSet(RangeView(start, end)) : InRange(start, end, x)

\* Two trees compress their paths differently; still the two, walked in step,
\* meet at exactly the keys that both hold, in order, with the value of each,
\* whether keys, their pieces, values alone or a count are asked for
\* (intersect_with, intersect_lending_with, intersect_values_with, intersect_count).
IntersectRight ==
  \A items \in Partner :
    LET other == BuildBulk(Unique(items))
        both == SelectSeq(Entries, LAMBDA x : ValueAt(other, x.key) # None)
        pairs == [i \in DOMAIN both |->
                    [left |-> both[i].val, right |-> ValueAt(other, both[i].key)]]
        keyed(met) == [i \in DOMAIN met |-> ToVec(met[i].segments)]
        right == IntersectionOf(root, other)
        left == IntersectionOf(other, root)
    IN  /\ right.values = pairs
        /\ right.count = Len(both)
        /\ right.entries = [i \in DOMAIN both |-> [key |-> both[i].key] @@ pairs[i]]
        /\ keyed(right.views) = [i \in DOMAIN both |-> both[i].key]
        /\ \A i \in DOMAIN both : /\ right.views[i].left = pairs[i].left
                                  /\ left.values[i] = [left |-> pairs[i].right, right |-> pairs[i].left]
        /\ [i \in DOMAIN left.entries |-> left.entries[i].key] = [i \in DOMAIN both |-> both[i].key]
        /\ keyed(left.views) = [i \in DOMAIN both |-> both[i].key]

\* The statistics agree with what the tree shows otherwise: its size, one parent
\* for every node but the root, no table beyond its width, and the longest path a
\* visitor walks to an entry (get_tree_stats against len and for_each_view).
StatsRight ==
  LET st == GetTreeStats
      walked == {Len(x.segments) + (IF root.prefix = <<>> THEN 1 ELSE 0) : x \in ToSet(EachView)}
  IN  IF root = None THEN st.values = 0 /\ st.inner = 0 /\ st.height = 0
      ELSE /\ mode # "versioned" => st.values = len
           /\ st.leaves + st.inner = st.childrenInAll + 1
           /\ \A k \in ToSet(Kind) : st.children[k] <= Width[k] * st.nodes[k]
           /\ st.height \in walked /\ \A h \in walked : h <= st.height
=============================================================================
