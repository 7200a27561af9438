--------------------------- MODULE VersionedReads ---------------------------
(***************************************************************************)
(* Reading a VersionedAdaptiveRadixTree while other handles of its family  *)
(* are written to (rart/src/versioned_tree.rs).                            *)
(*                                                                         *)
(* An iterator borrows its handle, so that handle cannot change, but it    *)
(* may be cloned and snapshotted meanwhile, and the copies, in other       *)
(* threads, write to a family of nodes that the iterator is walking        *)
(* through.  `cursor[h]` is the iterator or the running visit of h: a      *)
(* stack of node iterators and the key so far for everything that lists    *)
(* entries, one node and a depth for everything that follows one key.  A   *)
(* step of a cursor is one turn of the loop in next(), visit_each(),       *)
(* get_iterate() or find_prefix_subtree().  What a cursor has yielded      *)
(* stays borrowed: `got` names the nodes whose values the user may still   *)
(* look at.                                                                *)
(***************************************************************************)
EXTENDS VersionedTree

CONSTANT Queries  \* what is asked of trees: [kind, key, start, end]

Kinds ==
  {"get", "iter", "values", "view", "prefix_match", "prefix_match_each", "prefix_iter",
   "prefix_values", "prefix_view", "range", "range_view"}

\* values_iter and the prefix queries that hand out no key
Keyless == {"values", "prefix_values"}

Views == {"view", "prefix_view", "range_view"}

Below == {"prefix_iter", "prefix_values", "prefix_view"}

ASSUME ByteAssumption == Byte \subseteq Nat

ASSUME QueriesAssumption ==
  \A q \in Queries :
    /\ q.kind \in Kinds /\ q.key \in Seq(Byte)
    /\ \A b \in {q.start, q.end} :
         b.type \in {"unbounded", "included", "excluded"} /\ b.key \in Seq(Byte)

VARIABLES
  cursor,  \* cursor[h] : the iterator that borrows h, or None
  promise  \* promise[h] : what its query was to yield when it began

readVars == <<cursor, promise>>
allVars == <<vars, readVars>>

-----------------------------------------------------------------------------
(* Keys and bounds *)

\* KeyTrait::cmp: byte by byte, a proper prefix first.
KeyLess(k, l) ==
  LET common == PrefixLengthKey(k, l, 0) IN
  IF common < Len(k) /\ common < Len(l) THEN k[common + 1] < l[common + 1]
  ELSE common < Len(l)

Unbounded == [type |-> "unbounded", key |-> <<>>]

\* key_order against the start bound
StartsIn(b, k) ==
  CASE b.type = "unbounded" -> TRUE
    [] b.type = "included"  -> ~KeyLess(k, b.key)
    [] b.type = "excluded"  -> KeyLess(b.key, k)

\* VersionedRange::next against the end bound
EndsIn(b, k) ==
  CASE b.type = "unbounded" -> TRUE
    [] b.type = "included"  -> ~KeyLess(b.key, k)
    [] b.type = "excluded"  -> KeyLess(k, b.key)

\* cmp_segments_to_slice: a segment that matches a part of a longer slice
\* decides at once.
CmpSegments(segments, slice) ==
  LET cmp[i \in 1..Len(segments) + 1] ==
        LET left == IF i = 1 THEN slice ELSE <<>> IN
        IF i > Len(segments) THEN IF left = <<>> THEN "equal" ELSE "less"
        ELSE LET segment == segments[i]
                 common == PrefixLengthKey(segment, left, 0)
             IN  CASE common < Len(segment) ->
                        IF common < Len(left) /\ segment[common + 1] < left[common + 1]
                        THEN "less" ELSE "greater"
                   [] common = Len(segment) /\ common < Len(left) -> "less"
                   [] OTHER -> cmp[i + 1]
  IN  cmp[1]

\* within_end_bound
WithinEnd(b, segments) ==
  LET order == CmpSegments(segments, b.key) IN
  b.type = "unbounded" \/ order = "less" \/ (order = "equal" /\ b.type = "included")

\* The start bound as for_each_with_bounds applies it to the root.
PastStart(b, segments) ==
  LET order == CmpSegments(segments, b.key) IN
  b.type = "unbounded" \/ order = "greater" \/ (order = "equal" /\ b.type = "included")

-----------------------------------------------------------------------------
(* Frames of the stack *)

Edges(nd) == {b \in Byte : nd.kids[b] # None}

\* A node iterator at its first edge, below a path of length m.
NodeIter(n, m) == [node |-> n, edges |-> Edges(heap[n]), mark |-> m]

Pieces(nd) == IF nd.prefix = <<>> THEN <<>> ELSE <<nd.prefix>>

\* What a node adds to the path: cur_key is bytes, cur_segments one piece for
\* each prefix that is not empty.
Part(kind, nd) == IF kind \in Views THEN Pieces(nd) ELSE nd.prefix

KeyOf(kind, path) ==
  CASE kind \in Keyless -> <<>>
    [] kind \in Views   -> FlattenSeq(path)
    [] OTHER            -> path

\* build_positioned_stack: the edges of the root that are followed at all.
Positioned(kind, n, seek) ==
  LET p == heap[n].prefix
      common == PrefixLengthKey(p, seek, 0)
      past == IF common < Len(p) THEN common < Len(seek) /\ p[common + 1] < seek[common + 1]
              ELSE Len(seek) # Len(p) /\ \A b \in Edges(heap[n]) : b < seek[Len(p) + 1]
      first == IF common = Len(p) /\ Len(seek) # Len(p) THEN seek[Len(p) + 1] ELSE 0
      f == NodeIter(n, Len(Part(kind, heap[n])))
  IN  IF past THEN <<>> ELSE <<[f EXCEPT !.edges = {b \in @ : b >= first}]>>

-----------------------------------------------------------------------------
(* A query begins. *)

Idle == [at |-> None, depth |-> 0, path |-> <<>>, first |-> None, stack |-> <<>>,
         from |-> Unbounded, got |-> <<>>, query |-> None]

\* The listing of what lies at and below n, to which `path` leads: the iterators
\* keep no stack for a leaf, values_iter an empty node iterator.
Listing(kind, n, path) ==
  [Idle EXCEPT !.path = path,
     !.first = IF heap[n].value = None THEN None ELSE n,
     !.stack = IF heap[n].leaf /\ kind \notin Keyless THEN <<>>
               ELSE <<NodeIter(n, Len(path))>>]

\* VersionedIter::new_with_start_bound, with VersionedIterInner's.
RangeFrom(n, start) ==
  LET c == Listing("range", n, heap[n].prefix) IN
  IF start.type = "unbounded" THEN c
  ELSE [c EXCEPT !.first = IF StartsIn(start, heap[n].prefix) THEN @ ELSE None,
                 !.stack = IF heap[n].leaf THEN <<>> ELSE Positioned("range", n, start.key),
                 !.from = start]

\* VersionedLendingIterInner::for_each_with_bounds
RangeViewFrom(n, start, end) ==
  LET segments == Pieces(heap[n])
      c == Listing("range_view", n, segments)
  IN  IF ~WithinEnd(end, segments) THEN Idle
      ELSE [c EXCEPT !.first = IF PastStart(start, segments) THEN @ ELSE None,
                     !.stack = IF heap[n].leaf \/ start.type = "unbounded" THEN @
                               ELSE Positioned("range_view", n, start.key)]

\* VersionedLendingIterInner::for_each
ViewFrom(n) == Listing("view", n, Pieces(heap[n]))

\* VersionedValuesIter::new
ValuesFrom(n) == Listing("values", n, <<>>)

\* What follows one key begins at the root, prefix_match with an empty cur_key.
WalkFrom(n, kind) ==
  [Idle EXCEPT !.at = n, !.path = IF kind \in Below THEN Part(kind, heap[n]) ELSE <<>>]

CursorFor(r, q) ==
  CASE r = None -> Idle
    [] r # None /\ q.kind = "iter" -> Listing("iter", r, heap[r].prefix)
    [] r # None /\ q.kind = "values" -> ValuesFrom(r)
    [] r # None /\ q.kind = "view" -> ViewFrom(r)
    [] r # None /\ q.kind = "range" -> RangeFrom(r, q.start)
    [] r # None /\ q.kind = "range_view" -> RangeViewFrom(r, q.start, q.end)
    [] OTHER -> WalkFrom(r, q.kind)

-----------------------------------------------------------------------------
(* What a query promises: entries of the map the handle holds. *)

Holds(h) == {k \in Key : Get(root[h], k) # None}

Wanted(q, k) ==
  CASE q.kind = "get" -> k = q.key
    [] q.kind \in {"prefix_match", "prefix_match_each"} -> IsPrefix(k, q.key)
    [] q.kind \in Below -> IsPrefix(q.key, k)
    [] q.kind \in {"range", "range_view"} -> StartsIn(q.start, k) /\ EndsIn(q.end, k)
    [] OTHER -> TRUE

InOrder(keys) ==
  [i \in 1..Cardinality(keys) |->
     CHOOSE k \in keys : Cardinality({l \in keys : KeyLess(l, k)}) = i - 1]

Promised(h, q) ==
  LET keys == InOrder({k \in Holds(h) : Wanted(q, k)}) IN
  [i \in DOMAIN keys |-> [key |-> IF q.kind \in Keyless THEN <<>> ELSE keys[i],
                          val |-> Get(root[h], keys[i])]]

-----------------------------------------------------------------------------
(* Steps of cursors.  A cursor with nothing left to do answers None. *)

Asked(h, kinds) == cursor[h] # None /\ cursor[h].query.kind \in kinds

Exhausted(c) == c.at = None /\ c.first = None /\ c.stack = <<>>

Becomes(h, c) ==
  /\ cursor' = [cursor EXCEPT ![h] = [c EXCEPT !.query = cursor[h].query]]
  /\ UNCHANGED <<vars, promise>>

\* A query is asked of a handle at rest.
Open(h, q) ==
  /\ h \in live /\ Running(h, "idle") /\ cursor[h] = None
  /\ cursor' = [cursor EXCEPT ![h] = [CursorFor(root[h], q) EXCEPT !.query = q]]
  /\ promise' = [promise EXCEPT ![h] = Promised(h, q)]
  /\ UNCHANGED vars

\* The iterator is dropped, or the visit stopped, whether it is done or not.
Close(h) ==
  /\ cursor[h] # None
  /\ cursor' = [cursor EXCEPT ![h] = None]
  /\ promise' = [promise EXCEPT ![h] = <<>>]
  /\ UNCHANGED vars

Yield(c, key, n) == Append(c.got, [key |-> key, node |-> n])

\* The entry of the node the listing began with.
YieldRoot(h) ==
  LET c == cursor[h]
      past == c.query.kind = "range" /\ ~EndsIn(c.query.end, c.path)
  IN
  /\ c # None /\ c.first # None
  /\ Becomes(h, IF past THEN [Idle EXCEPT !.got = c.got]
                ELSE [c EXCEPT !.first = None,
                               !.got = Yield(c, KeyOf(c.query.kind, c.path), c.first)])

\* next(), visit_each(): the topmost node iterator is at its end.
LeaveNode(h) ==
  LET c == cursor[h]
      top == IF Len(c.stack) > 1 THEN Last(Front(c.stack)) ELSE Last(c.stack)
  IN
  /\ c # None /\ c.first = None /\ c.stack # <<>> /\ Last(c.stack).edges = {}
  /\ Becomes(h, [c EXCEPT !.stack = Front(@), !.path = SubSeq(@, 1, top.mark)])

\* The topmost node iterator has a next child, and the cursor moves on to it:
\* its part joins the path, and its node iterator, if it is an inner node, the
\* stack.
NextEdge(c) ==
  LET edges == Last(c.stack).edges IN CHOOSE b \in edges : \A e \in edges : b <= e

NextChild(c) == heap[Last(c.stack).node].kids[NextEdge(c)]

AtChild(h, kinds) ==
  /\ Asked(h, kinds) /\ cursor[h].first = None /\ cursor[h].stack # <<>>
  /\ Last(cursor[h].stack).edges # {}

Entered(c, path) ==
  LET kid == NextChild(c)
      rest == [c.stack EXCEPT ![Len(c.stack)].edges = @ \ {NextEdge(c)}]
  IN  [c EXCEPT !.path = path,
                !.stack = IF heap[kid].leaf THEN rest ELSE Append(rest, NodeIter(kid, Len(path)))]

\* Fault: the path is not cut back to where the parent's frame had it.
PathToUncut(c) == c.path \o Part(c.query.kind, heap[NextChild(c)])

PathTo(c) ==
  SubSeq(c.path, 1, Last(c.stack).mark) \o Part(c.query.kind, heap[NextChild(c)])

\* VersionedIterInner::next, VersionedRange::next: entries are passed over until
\* one is past the start bound, and the range ends with the first past its end.
NextEntry(h) ==
  LET c == cursor[h]
      kid == NextChild(c)
      key == PathTo(c)
      next == Entered(c, key)
  IN
  /\ AtChild(h, {"iter", "prefix_iter", "range"})
  /\ Becomes(h, IF heap[kid].value = None \/ ~StartsIn(c.from, key) THEN next
                ELSE IF c.query.kind = "range" /\ ~EndsIn(c.query.end, key)
                THEN [Idle EXCEPT !.got = c.got]
                ELSE [next EXCEPT !.from = Unbounded, !.got = Yield(c, key, kid)])

\* VersionedLendingIterInner::visit_each: the key stays in segments, and the end
\* bound is held against them.
NextView(h) ==
  LET c == cursor[h]
      kid == NextChild(c)
      segments == PathTo(c)
      next == Entered(c, segments)
  IN
  /\ AtChild(h, Views)
  /\ Becomes(h, IF heap[kid].value = None THEN next
                ELSE IF c.query.kind = "range_view" /\ ~WithinEnd(c.query.end, segments)
                THEN [Idle EXCEPT !.got = c.got]
                ELSE [next EXCEPT !.got = Yield(c, FlattenSeq(segments), kid)])

\* VersionedValuesIter::next
NextValue(h) ==
  LET c == cursor[h]
      kid == NextChild(c)
      next == Entered(c, c.path)
  IN
  /\ AtChild(h, Keyless)
  /\ Becomes(h, IF heap[kid].value = None THEN next
                ELSE [next EXCEPT !.got = Yield(c, <<>>, kid)])

-----------------------------------------------------------------------------
(* Cursors that follow one key, a node at a time. *)

PlaceAt(c) == Place(heap[c.at], c.query.key, c.depth)

Lower(c) == c.depth + Len(heap[c.at].prefix)

ChildAt(c) == heap[c.at].kids[EdgeOf(heap[c.at], c.query.key, c.depth)]

\* get_iterate
GetStep(h) ==
  LET c == cursor[h]
      place == PlaceAt(c)
  IN
  /\ Asked(h, {"get"}) /\ c.at # None
  /\ Becomes(h, CASE place = "child" -> [c EXCEPT !.at = ChildAt(c), !.depth = Lower(c)]
                  [] place = "at" /\ heap[c.at].value # None ->
                       [Idle EXCEPT !.got = Yield(c, c.query.key, c.at)]
                  [] OTHER -> Idle)

\* VersionedPrefixMatchIter::next, which rebuilds the keys it yields, and
\* prefix_match_for_each_impl, which cuts them from the probe key.
NextMatch(h) ==
  LET c == cursor[h]
      place == PlaceAt(c)
      key == c.path \o heap[c.at].prefix
      cut == SubSeq(c.query.key, 1, Lower(c))
      here == IF heap[c.at].value = None THEN c.got
              ELSE Yield(c, IF c.query.kind = "prefix_match" THEN key ELSE cut, c.at)
  IN
  /\ Asked(h, {"prefix_match", "prefix_match_each"}) /\ c.at # None
  /\ Becomes(h, CASE place = "child" ->
                       [c EXCEPT !.at = ChildAt(c), !.depth = Lower(c), !.path = key, !.got = here]
                  [] place \in {"at", "below", "missing"} -> [Idle EXCEPT !.got = here]
                  [] OTHER -> [Idle EXCEPT !.got = c.got])

\* find_prefix_subtree, find_prefix_subtree_node, find_prefix_subtree_view: the
\* node below which all keys begin with the prefix, and its own key.
SeekPrefix(h) ==
  LET c == cursor[h]
      place == PlaceAt(c)
      kid == ChildAt(c)
  IN
  /\ Asked(h, Below) /\ c.at # None
  /\ Becomes(h, CASE place \in {"at", "inside"} ->
                       Listing(c.query.kind, c.at, c.path)
                  [] place = "child" ->
                       [c EXCEPT !.at = kid, !.depth = Lower(c),
                                 !.path = @ \o Part(c.query.kind, heap[kid])]
                  [] OTHER -> Idle)

-----------------------------------------------------------------------------

Continue(h) ==
  \/ Close(h) \/ YieldRoot(h) \/ LeaveNode(h) \/ NextEntry(h) \/ NextView(h) \/ NextValue(h)
  \/ GetStep(h) \/ NextMatch(h) \/ SeekPrefix(h)

\* A borrowed handle may be copied, and neither be written to nor dropped.
UseUnborrowed(h) ==
  \/ cursor[h] = None /\ (New(h) \/ DropHandle(h) \/ \E c \in Calls : Invoke(h, c))
  \/ \E g \in Handle : Clone(g, h) \/ Snapshot(g, h)

ReadsInit == Init /\ cursor = [h \in Handle |-> None] /\ promise = [h \in Handle |-> <<>>]

Others(h) == (Advance(h) \/ UseUnborrowed(h)) /\ UNCHANGED readVars

ReadsNext ==
  \E h \in Handle : Others(h) \/ Continue(h) \/ \E q \in Queries : Open(h, q)

ReadsSpec == ReadsInit /\ [][ReadsNext]_allVars

-----------------------------------------------------------------------------
(* Properties *)

\* What a cursor has yielded, with the values as its user sees them now.  The
\* lending range visit is held only to the entries within its range: that it
\* visits others as well is shown of the owned tree (RadixQueries).
Seen(h) ==
  LET c == cursor[h]
      all == [i \in DOMAIN c.got |-> [key |-> c.got[i].key, val |-> heap[c.got[i].node].value]]
  IN  IF c.query.kind = "range_view" THEN SelectSeq(all, LAMBDA x : Wanted(c.query, x.key))
      ELSE all

\* A reader sees the map its handle held when it began to read, in ascending
\* order and nothing else, whatever is done to clones and snapshots of the
\* handle meanwhile: what it has yielded so far begins that answer, what it
\* still holds borrowed has not changed, and at its end the answer is complete
\* (iter, values_iter, range, the prefix and longest-prefix queries, the views
\* and get_k).
ReadersSeeTheirMap ==
  \A h \in Handle : cursor[h] # None =>
    /\ IsPrefix(Seen(h), promise[h])
    /\ Exhausted(cursor[h]) => Seen(h) = promise[h]

Borrows(h) ==
  LET c == cursor[h] IN
  ({c.at, c.first} \cup {c.stack[i].node : i \in DOMAIN c.stack}
     \cup {c.got[i].node : i \in DOMAIN c.got}) \ {None}

\* No step of anyone writes to a node a reader stands on or has a value of, and
\* none frees it: a &'a Node and a &'a V stay what they are (the Arcs above them
\* are held by the borrowed handle alone, or by others as well).
ReadersAreUndisturbed ==
  [][\A h \in Handle : cursor[h] # None =>
       \A n \in Borrows(h) : heap'[n] = heap[n] /\ heap[n] # None]_allVars
=============================================================================
