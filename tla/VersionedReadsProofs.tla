------------------------ MODULE VersionedReadsProofs ------------------------
(***************************************************************************)
(* That readers are undisturbed, for any number of handles, nodes, calls   *)
(* and queries.  What an iterator or a visit stands on, and what it has    *)
(* lent out, can be reached from the root of the handle it borrows         *)
(* (ReadInv); other threads leave all of that as it is (OthersKept), and   *)
(* the borrowed handle's own thread does nothing else meanwhile.           *)
(***************************************************************************)
EXTENDS VersionedBorrowProofs, VersionedReads

-----------------------------------------------------------------------------
(* The nodes of a handle at rest *)

\* What lies at and below the root of h.
Reached(h) == {n \in Alive : root[h] \in Alive /\ \A C : Downward(C) /\ root[h] \in C => n \in C}

LEMMA RootReached ==
  ASSUME IInv, NEW h \in Handle, pc[h] = "idle", root[h] # None
  PROVE  root[h] \in Reached(h)
BY WasResting DEF Reached

LEMMA ChildReached ==
  ASSUME IInv, NEW h \in Handle, NEW n \in Reached(h), NEW b \in Byte, heap[n].kids[b] # None
  PROVE  heap[n].kids[b] \in Reached(h)
BY DEF Reached, Downward, IInv, HeapInv

-----------------------------------------------------------------------------
(* Cursors *)

\* A node iterator that is somewhere in the edges of a node of h.
FrameRight(h, f) ==
  /\ f = [node |-> f.node, edges |-> f.edges, mark |-> f.mark]
  /\ f.node \in Reached(h) /\ f.edges \subseteq Edges(heap[f.node])

StackRight(h, s) == \E F : s \in Seq(F) /\ \A f \in F : FrameRight(h, f)

\* What was yielded are values of nodes of h.
GotRight(h, s) == \E G : s \in Seq(G) /\ \A g \in G : g.node \in Reached(h)

\* A cursor of h that follows the key k, if any.
CursorRight(h, c, k) ==
  /\ c = [at |-> c.at, depth |-> c.depth, path |-> c.path, first |-> c.first,
          stack |-> c.stack, from |-> c.from, got |-> c.got, query |-> c.query]
  /\ c.at # None => c.at \in Reached(h) /\ c.depth \in Nat /\ c.depth <= Len(k)
  /\ c.first # None => c.first \in Reached(h)
  /\ StackRight(h, c.stack) /\ GotRight(h, c.got)

Reading(h) ==
  LET c == cursor[h] IN
  c # None =>
    /\ h \in live /\ Running(h, "idle")
    /\ c.query \in Queries /\ CursorRight(h, c, c.query.key)

\* Every reader stands on nodes of its own handle, which rests meanwhile.
ReadInv == DOMAIN cursor = Handle /\ \A h \in Handle : Reading(h)

-----------------------------------------------------------------------------
(* What cursors are made of *)

LEMMA NothingRight ==
  ASSUME NEW h PROVE StackRight(h, <<>>) /\ GotRight(h, <<>>)
<1>1. PICK F : F = {}
  OBVIOUS
<1>2. /\ <<>> \in Seq(F)
      /\ \A f \in F : FrameRight(h, f) /\ f.node \in Reached(h)
  BY <1>1
<1> QED BY <1>2 DEF StackRight, GotRight

LEMMA AppendRight ==
  ASSUME NEW h
  PROVE  /\ \A s, f : StackRight(h, s) /\ FrameRight(h, f) => StackRight(h, Append(s, f))
         /\ \A s, g : GotRight(h, s) /\ g.node \in Reached(h) => GotRight(h, Append(s, g))
<1>1. ASSUME NEW s, NEW f, StackRight(h, s), FrameRight(h, f)
      PROVE  StackRight(h, Append(s, f))
  <2>1. PICK F : s \in Seq(F) /\ \A x \in F : FrameRight(h, x)
    BY <1>1 DEF StackRight
  <2>2. Append(s, f) \in Seq(F \cup {f})
    BY <2>1
  <2> QED BY <1>1, <2>1, <2>2 DEF StackRight
<1>2. ASSUME NEW s, NEW g, GotRight(h, s), g.node \in Reached(h)
      PROVE  GotRight(h, Append(s, g))
  <2>1. PICK G : s \in Seq(G) /\ \A x \in G : x.node \in Reached(h)
    BY <1>2 DEF GotRight
  <2>2. Append(s, g) \in Seq(G \cup {g})
    BY <2>1
  <2> QED BY <1>2, <2>1, <2>2 DEF GotRight
<1> QED BY <1>1, <1>2

LEMMA OneRight ==
  ASSUME NEW h, NEW f, FrameRight(h, f)
  PROVE  StackRight(h, <<f>>)
<1>1. PICK F : F = {f}
  OBVIOUS
<1>2. <<f>> \in Seq(F) /\ \A x \in F : FrameRight(h, x)
  BY <1>1
<1> QED BY <1>2 DEF StackRight

\* A stack without its topmost frame, and with another in its place.
LEMMA TopRight ==
  ASSUME NEW h, NEW s, s # <<>>, StackRight(h, s)
  PROVE  /\ Len(s) \in DOMAIN s /\ Last(s) = s[Len(s)] /\ FrameRight(h, Last(s))
         /\ StackRight(h, Front(s))
         /\ \A f : FrameRight(h, f) => StackRight(h, [s EXCEPT ![Len(s)] = f])
<1>1. PICK F : s \in Seq(F) /\ \A x \in F : FrameRight(h, x)
  BY DEF StackRight
<1>2. Len(s) \in DOMAIN s /\ Last(s) = s[Len(s)] /\ Last(s) \in F
  BY <1>1 DEF Last
<1>3. Front(s) \in Seq(F)
  BY <1>1 DEF Front
<1>4. ASSUME NEW f, FrameRight(h, f) PROVE StackRight(h, [s EXCEPT ![Len(s)] = f])
  <2>1. [s EXCEPT ![Len(s)] = f] \in Seq(F \cup {f})
    BY <1>1
  <2> QED BY <1>1, <1>4, <2>1 DEF StackRight
<1> QED BY <1>1, <1>2, <1>3, <1>4 DEF StackRight

\* The cursor with another of its parts.
LEMMA PartsRight ==
  ASSUME NEW h, NEW c, NEW k, CursorRight(h, c, k)
  PROVE  /\ \A x : CursorRight(h, [c EXCEPT !.path = x], k)
         /\ \A x : CursorRight(h, [c EXCEPT !.from = x], k)
         /\ \A x : CursorRight(h, [c EXCEPT !.query = x], k)
         /\ \A x : x = None \/ x \in Reached(h) => CursorRight(h, [c EXCEPT !.first = x], k)
         /\ \A x : StackRight(h, x) => CursorRight(h, [c EXCEPT !.stack = x], k)
         /\ \A x : GotRight(h, x) => CursorRight(h, [c EXCEPT !.got = x], k)
         /\ \A x, d : x \in Reached(h) /\ d \in Nat /\ d <= Len(k) =>
              CursorRight(h, [c EXCEPT !.at = x, !.depth = d], k)
<1>1. ASSUME NEW x PROVE CursorRight(h, [c EXCEPT !.path = x], k)
  BY DEF CursorRight
<1>2. ASSUME NEW x PROVE CursorRight(h, [c EXCEPT !.from = x], k)
  BY DEF CursorRight
<1>3. ASSUME NEW x PROVE CursorRight(h, [c EXCEPT !.query = x], k)
  BY DEF CursorRight
<1>4. ASSUME NEW x, x = None \/ x \in Reached(h) PROVE CursorRight(h, [c EXCEPT !.first = x], k)
  BY <1>4 DEF CursorRight
<1>5. ASSUME NEW x, StackRight(h, x) PROVE CursorRight(h, [c EXCEPT !.stack = x], k)
  BY <1>5 DEF CursorRight
<1>6. ASSUME NEW x, GotRight(h, x) PROVE CursorRight(h, [c EXCEPT !.got = x], k)
  BY <1>6 DEF CursorRight
<1>7. ASSUME NEW x \in Reached(h), NEW d \in Nat, d <= Len(k)
      PROVE  CursorRight(h, [c EXCEPT !.at = x, !.depth = d], k)
  <2>1. PICK a : a = [c EXCEPT !.at = x]
    OBVIOUS
  <2>2. a = [at |-> x, depth |-> c.depth, path |-> c.path, first |-> c.first,
             stack |-> c.stack, from |-> c.from, got |-> c.got, query |-> c.query]
    BY <2>1 DEF CursorRight
  <2>3. [a EXCEPT !.depth = d] =
          [at |-> x, depth |-> d, path |-> c.path, first |-> c.first,
           stack |-> c.stack, from |-> c.from, got |-> c.got, query |-> c.query]
    BY <2>2
  <2>4. [c EXCEPT !.at = x, !.depth = d] = [a EXCEPT !.depth = d]
    BY <2>1
  <2> QED BY <1>7, <2>3, <2>4 DEF CursorRight
<1> QED BY <1>1, <1>2, <1>3, <1>4, <1>5, <1>6, <1>7

\* A cursor that has come to its end.
LEMMA IdleRight ==
  ASSUME NEW h, NEW k, NEW s, GotRight(h, s)
  PROVE  CursorRight(h, [Idle EXCEPT !.got = s], k) /\ CursorRight(h, Idle, k)
<1>1. CursorRight(h, Idle, k)
  BY NothingRight DEF Idle, CursorRight
<1> QED BY <1>1, PartsRight

\* One more entry is lent out.
LEMMA YieldRight ==
  ASSUME NEW h, NEW c, GotRight(h, c.got), NEW n \in Reached(h), NEW key
  PROVE  GotRight(h, Yield(c, key, n))
BY AppendRight DEF Yield

-----------------------------------------------------------------------------
(* A query begins. *)

LEMMA NodeIterRight ==
  ASSUME NEW h, NEW n \in Reached(h), NEW m
  PROVE  FrameRight(h, NodeIter(n, m)) /\ StackRight(h, <<NodeIter(n, m)>>)
<1>1. FrameRight(h, NodeIter(n, m))
  BY DEF FrameRight, NodeIter
<1> QED BY <1>1, OneRight

LEMMA ListingRight ==
  ASSUME NEW h, NEW n \in Reached(h), NEW kind, NEW path, NEW k
  PROVE  CursorRight(h, Listing(kind, n, path), k)
<1> DEFINE first == IF heap[n].value = None THEN None ELSE n
           stack == IF heap[n].leaf /\ kind \notin Keyless THEN <<>>
                    ELSE <<NodeIter(n, Len(path))>>
<1>1. StackRight(h, stack)
  BY NothingRight, NodeIterRight
<1>2. first = None \/ first \in Reached(h)
  OBVIOUS
<1>3. PICK a : a = [Idle EXCEPT !.path = path]
  OBVIOUS
<1>4. CursorRight(h, a, k)
  BY <1>3, NothingRight, IdleRight, PartsRight
<1>5. PICK b : b = [a EXCEPT !.first = first]
  OBVIOUS
<1>6. CursorRight(h, b, k)
  BY <1>2, <1>4, <1>5, PartsRight
<1>7. CursorRight(h, [b EXCEPT !.stack = stack], k)
  BY <1>1, <1>6, PartsRight
<1>8. Listing(kind, n, path) = [b EXCEPT !.stack = stack]
  BY <1>3, <1>5 DEF Listing
<1> QED BY <1>7, <1>8

LEMMA PositionedRight ==
  ASSUME NEW h, NEW n \in Reached(h), NEW kind, NEW seek
  PROVE  StackRight(h, Positioned(kind, n, seek))
<1> DEFINE f == NodeIter(n, Len(Part(kind, heap[n])))
<1>1. FrameRight(h, f)
  BY NodeIterRight
<1>2. ASSUME NEW S, S \subseteq f.edges PROVE StackRight(h, <<[f EXCEPT !.edges = S]>>)
  <2> HIDE DEF f
  <2>1. FrameRight(h, [f EXCEPT !.edges = S])
    BY <1>1, <1>2 DEF FrameRight
  <2> QED BY <2>1, OneRight
<1>3. \A first : {b \in f.edges : b >= first} \subseteq f.edges
  OBVIOUS
<1>4. \A first : StackRight(h, <<[f EXCEPT !.edges = {b \in f.edges : b >= first}]>>)
  BY <1>2, <1>3
<1> QED BY <1>4, NothingRight DEF Positioned

\* The cursor of a new query stands on nodes of its handle.
LEMMA CursorForRight ==
  ASSUME NEW h, NEW q, q.key \in Seq(Byte), root[h] = None \/ root[h] \in Reached(h)
  PROVE  CursorRight(h, CursorFor(root[h], q), q.key)
<1>1. CursorRight(h, Idle, q.key)
  BY NothingRight, IdleRight
<1>2. CASE root[h] = None
  BY <1>1, <1>2 DEF CursorFor
<1>3. CASE root[h] # None
  <2>1. PICK r \in Reached(h) : r = root[h]
    BY <1>3
  <2>2. \A kind, path : CursorRight(h, Listing(kind, r, path), q.key)
    BY ListingRight
  <2>3. CursorRight(h, RangeFrom(r, q.start), q.key)
    <3> DEFINE start == q.start
               c == Listing("range", r, heap[r].prefix)
               first == IF StartsIn(start, heap[r].prefix) THEN c.first ELSE None
               stack == IF heap[r].leaf THEN <<>> ELSE Positioned("range", r, start.key)
    <3>1. CursorRight(h, c, q.key)
      BY <2>2
    <3>2. StackRight(h, stack)
      BY NothingRight, PositionedRight
    <3> HIDE DEF c
    <3>3. PICK a : a = [c EXCEPT !.first = first]
      OBVIOUS
    <3>4. CursorRight(h, a, q.key)
      <4>1. first = None \/ first \in Reached(h)
        BY <3>1 DEF CursorRight
      <4> QED BY <3>1, <3>3, <4>1, PartsRight
    <3>5. PICK b : b = [a EXCEPT !.stack = stack]
      OBVIOUS
    <3>6. CursorRight(h, b, q.key)
      BY <3>2, <3>4, <3>5, PartsRight
    <3>7. CursorRight(h, [b EXCEPT !.from = start], q.key)
      BY <3>6, PartsRight
    <3>8. [c EXCEPT !.first = first, !.stack = stack, !.from = start] = [b EXCEPT !.from = start]
      BY <3>3, <3>5
    <3> QED BY <3>1, <3>7, <3>8 DEF RangeFrom, c
  <2>4. CursorRight(h, RangeViewFrom(r, q.start, q.end), q.key)
    <3> DEFINE start == q.start
               segments == Pieces(heap[r])
               c == Listing("range_view", r, segments)
               first == IF PastStart(start, segments) THEN c.first ELSE None
               stack == IF heap[r].leaf \/ start.type = "unbounded" THEN c.stack
                        ELSE Positioned("range_view", r, start.key)
    <3>1. CursorRight(h, c, q.key)
      BY <2>2
    <3> HIDE DEF c
    <3>2. StackRight(h, stack)
      BY <3>1, PositionedRight DEF CursorRight
    <3>3. PICK a : a = [c EXCEPT !.first = first]
      OBVIOUS
    <3>4. CursorRight(h, a, q.key)
      <4>1. first = None \/ first \in Reached(h)
        BY <3>1 DEF CursorRight
      <4> QED BY <3>1, <3>3, <4>1, PartsRight
    <3>5. CursorRight(h, [a EXCEPT !.stack = stack], q.key)
      BY <3>2, <3>4, PartsRight
    <3>6. [c EXCEPT !.first = first, !.stack = stack] = [a EXCEPT !.stack = stack]
      BY <3>3
    <3> QED BY <1>1, <3>5, <3>6 DEF RangeViewFrom, c
  <2>5. CursorRight(h, WalkFrom(r, q.kind), q.key)
    <3>1. PICK path : path = IF q.kind \in Below THEN Part(q.kind, heap[r]) ELSE <<>>
      OBVIOUS
    <3>2. PICK a : a = [Idle EXCEPT !.at = r]
      OBVIOUS
    <3>3. a = [at |-> r, depth |-> 0, path |-> <<>>, first |-> None, stack |-> <<>>,
               from |-> Unbounded, got |-> <<>>, query |-> None]
      BY <3>2 DEF Idle
    <3>4. CursorRight(h, a, q.key)
      <4>1. 0 \in Nat /\ 0 <= Len(q.key)
        OBVIOUS
      <4> QED BY <3>3, <4>1, NothingRight DEF CursorRight
    <3>5. [Idle EXCEPT !.at = r, !.path = path] = [a EXCEPT !.path = path]
      BY <3>2
    <3>6. CursorRight(h, [a EXCEPT !.path = path], q.key)
      BY <3>4, PartsRight
    <3> QED BY <3>1, <3>5, <3>6 DEF WalkFrom
  <2> QED BY <1>3, <2>1, <2>2, <2>3, <2>4, <2>5 DEF CursorFor, ValuesFrom, ViewFrom
<1> QED BY <1>2, <1>3

-----------------------------------------------------------------------------
(* The steps of a cursor *)

\* The cursor c of h goes on as one that still stands on nodes of h.
StaysRight(h, c) == \E x : Becomes(h, x) /\ CursorRight(h, x, c.query.key)

\* The next child is found, and belongs to h as well.
LEMMA NextChildRight ==
  ASSUME IInv, NEW h \in Handle, NEW c, NEW k, CursorRight(h, c, k),
         c.stack # <<>>, Last(c.stack).edges # {}
  PROVE  NextEdge(c) \in Last(c.stack).edges /\ NextChild(c) \in Reached(h)
<1>1. FrameRight(h, Last(c.stack))
  BY TopRight DEF CursorRight
<1>2. PICK edges : edges = Last(c.stack).edges
  OBVIOUS
<1>3. edges \subseteq Byte /\ edges # {}
  BY <1>1, <1>2 DEF FrameRight, Edges
<1>4. \E b \in edges : \A e \in edges : b <= e
  BY <1>3, Least, ByteAssumption
<1>5. NextEdge(c) \in edges
  BY <1>2, <1>4 DEF NextEdge
<1>6. /\ Last(c.stack).node \in Reached(h) /\ NextEdge(c) \in Byte
      /\ heap[Last(c.stack).node].kids[NextEdge(c)] # None
  BY <1>1, <1>2, <1>5 DEF FrameRight, Edges
<1> QED BY <1>2, <1>5, <1>6, ChildReached DEF NextChild

LEMMA EnteredRight ==
  ASSUME IInv, NEW h \in Handle, NEW c, NEW k, CursorRight(h, c, k),
         c.stack # <<>>, Last(c.stack).edges # {}, NEW path
  PROVE  CursorRight(h, Entered(c, path), k) /\ Entered(c, path).got = c.got
<1>1. NextChild(c) \in Reached(h)
  BY NextChildRight
<1>2. PICK e, kid : e = NextEdge(c) /\ kid = NextChild(c)
  OBVIOUS
<1>3. PICK s : s = c.stack
  OBVIOUS
<1>4. PICK f : f = [Last(s) EXCEPT !.edges = @ \ {e}]
  OBVIOUS
<1>5. StackRight(h, s) /\ FrameRight(h, Last(s)) /\ Last(s) = s[Len(s)] /\ Len(s) \in DOMAIN s
  BY <1>3, TopRight DEF CursorRight
<1>6. FrameRight(h, f)
  BY <1>4, <1>5 DEF FrameRight
<1>7. PICK rest : rest = [s EXCEPT ![Len(s)] = f]
  OBVIOUS
<1>8. StackRight(h, rest)
  BY <1>3, <1>5, <1>6, <1>7, TopRight
<1>9. rest = [s EXCEPT ![Len(s)].edges = @ \ {e}]
  BY <1>4, <1>5, <1>7
<1>10. PICK stack : stack = IF heap[kid].leaf THEN rest ELSE Append(rest, NodeIter(kid, Len(path)))
  OBVIOUS
<1>11. StackRight(h, stack)
  BY <1>1, <1>2, <1>8, <1>10, NodeIterRight, AppendRight
<1>12. PICK a : a = [c EXCEPT !.path = path]
  OBVIOUS
<1>13. CursorRight(h, a, k) /\ a.got = c.got
  BY <1>12, PartsRight DEF CursorRight
<1>14. CursorRight(h, [a EXCEPT !.stack = stack], k)
  BY <1>11, <1>13, PartsRight
<1>15. [a EXCEPT !.stack = stack].got = a.got
  BY <1>13 DEF CursorRight
<1>16. Entered(c, path) = [a EXCEPT !.stack = stack]
  BY <1>2, <1>3, <1>9, <1>10, <1>12 DEF Entered
<1> QED BY <1>13, <1>14, <1>15, <1>16

LEMMA YieldRootRight ==
  ASSUME NEW h \in Handle, CursorRight(h, cursor[h], cursor[h].query.key), YieldRoot(h)
  PROVE  StaysRight(h, cursor[h])
<1>1. PICK c : c = cursor[h]
  OBVIOUS
<1>2. PICK past : past = (c.query.kind = "range" /\ ~EndsIn(c.query.end, c.path))
  OBVIOUS
<1>3. PICK got : got = Yield(c, KeyOf(c.query.kind, c.path), c.first)
  OBVIOUS
<1>4. c.first \in Reached(h) /\ GotRight(h, c.got) /\ CursorRight(h, c, c.query.key)
  BY <1>1 DEF YieldRoot, CursorRight
<1>5. GotRight(h, got)
  BY <1>3, <1>4, YieldRight
<1>6. PICK a : a = [c EXCEPT !.first = None]
  OBVIOUS
<1>7. CursorRight(h, a, c.query.key)
  BY <1>4, <1>6, PartsRight
<1>8. CursorRight(h, [a EXCEPT !.got = got], c.query.key)
  BY <1>5, <1>7, PartsRight
<1>9. [a EXCEPT !.got = got] = [c EXCEPT !.first = None, !.got = got]
  BY <1>6
<1>10. CursorRight(h, [Idle EXCEPT !.got = c.got], c.query.key)
  BY <1>4, IdleRight
<1>11. Becomes(h, IF past THEN [Idle EXCEPT !.got = c.got]
                  ELSE [c EXCEPT !.first = None, !.got = got])
  BY <1>1, <1>2, <1>3 DEF YieldRoot
<1> QED BY <1>1, <1>8, <1>9, <1>10, <1>11 DEF StaysRight

LEMMA LeaveNodeRight ==
  ASSUME NEW h \in Handle, CursorRight(h, cursor[h], cursor[h].query.key), LeaveNode(h)
  PROVE  StaysRight(h, cursor[h])
<1>1. PICK c : c = cursor[h]
  OBVIOUS
<1>2. PICK path : Becomes(h, [c EXCEPT !.stack = Front(c.stack), !.path = path])
  BY <1>1 DEF LeaveNode
<1>3. StackRight(h, Front(c.stack)) /\ CursorRight(h, c, c.query.key)
  BY <1>1, TopRight DEF LeaveNode, CursorRight
<1>4. PICK a : a = [c EXCEPT !.stack = Front(c.stack)]
  OBVIOUS
<1>5. CursorRight(h, [a EXCEPT !.path = path], c.query.key)
  BY <1>3, <1>4, PartsRight
<1>6. [a EXCEPT !.path = path] = [c EXCEPT !.stack = Front(c.stack), !.path = path]
  BY <1>4
<1> QED BY <1>1, <1>2, <1>5, <1>6 DEF StaysRight

\* A child that has something to yield, and one that has not.
LEMMA YieldedRight ==
  ASSUME IInv, NEW h \in Handle, NEW c, NEW k, CursorRight(h, c, k),
         c.stack # <<>>, Last(c.stack).edges # {}, NEW path, NEW key
  PROVE  /\ CursorRight(h, Entered(c, path), k)
         /\ CursorRight(h, [Entered(c, path) EXCEPT !.got = Yield(c, key, NextChild(c))], k)
         /\ CursorRight(h, [Entered(c, path) EXCEPT !.from = Unbounded,
                                                    !.got = Yield(c, key, NextChild(c))], k)
         /\ CursorRight(h, [Idle EXCEPT !.got = c.got], k)
<1>1. PICK e : e = Entered(c, path)
  OBVIOUS
<1>2. CursorRight(h, e, k)
  BY <1>1, EnteredRight
<1>3. PICK got : got = Yield(c, key, NextChild(c))
  OBVIOUS
<1>4. GotRight(h, c.got)
  BY DEF CursorRight
<1>5. NextChild(c) \in Reached(h)
  BY NextChildRight
<1>6. GotRight(h, got)
  BY <1>3, <1>4, <1>5, YieldRight
<1>7. CursorRight(h, [e EXCEPT !.got = got], k)
  BY <1>2, <1>6, PartsRight
<1>8. PICK a : a = [e EXCEPT !.from = Unbounded]
  OBVIOUS
<1>9. CursorRight(h, a, k)
  BY <1>2, <1>8, PartsRight
<1>10. CursorRight(h, [a EXCEPT !.got = got], k)
  BY <1>6, <1>9, PartsRight
<1>11. [a EXCEPT !.got = got] = [e EXCEPT !.from = Unbounded, !.got = got]
  BY <1>8
<1>12. CursorRight(h, [Idle EXCEPT !.got = c.got], k)
  BY <1>4, IdleRight
<1> QED BY <1>1, <1>2, <1>3, <1>7, <1>10, <1>11, <1>12

LEMMA NextEntryRight ==
  ASSUME IInv, NEW h \in Handle, CursorRight(h, cursor[h], cursor[h].query.key), NextEntry(h)
  PROVE  StaysRight(h, cursor[h])
<1>1. PICK c : c = cursor[h]
  OBVIOUS
<1>2. CursorRight(h, c, c.query.key) /\ c.stack # <<>> /\ Last(c.stack).edges # {}
  BY <1>1 DEF NextEntry, AtChild
<1>3. PICK key : key = PathTo(c)
  OBVIOUS
<1>4. PICK x : x = IF heap[NextChild(c)].value = None \/ ~StartsIn(c.from, key) THEN Entered(c, key)
                   ELSE IF c.query.kind = "range" /\ ~EndsIn(c.query.end, key)
                   THEN [Idle EXCEPT !.got = c.got]
                   ELSE [Entered(c, key) EXCEPT !.from = Unbounded,
                                                !.got = Yield(c, key, NextChild(c))]
  OBVIOUS
<1>5. Becomes(h, x)
  BY <1>1, <1>3, <1>4 DEF NextEntry
<1>6. /\ CursorRight(h, Entered(c, key), c.query.key)
      /\ CursorRight(h, [Idle EXCEPT !.got = c.got], c.query.key)
      /\ CursorRight(h, [Entered(c, key) EXCEPT !.from = Unbounded,
                                                !.got = Yield(c, key, NextChild(c))], c.query.key)
  BY <1>2, YieldedRight
<1>7. CursorRight(h, x, c.query.key)
  BY <1>4, <1>6
<1> QED BY <1>1, <1>5, <1>7 DEF StaysRight

LEMMA NextViewRight ==
  ASSUME IInv, NEW h \in Handle, CursorRight(h, cursor[h], cursor[h].query.key), NextView(h)
  PROVE  StaysRight(h, cursor[h])
<1>1. PICK c : c = cursor[h]
  OBVIOUS
<1>2. CursorRight(h, c, c.query.key) /\ c.stack # <<>> /\ Last(c.stack).edges # {}
  BY <1>1 DEF NextView, AtChild
<1>3. PICK segments : segments = PathTo(c)
  OBVIOUS
<1>4. PICK key : key = FlattenSeq(segments)
  OBVIOUS
<1>5. PICK x : x = IF heap[NextChild(c)].value = None THEN Entered(c, segments)
                   ELSE IF c.query.kind = "range_view" /\ ~WithinEnd(c.query.end, segments)
                   THEN [Idle EXCEPT !.got = c.got]
                   ELSE [Entered(c, segments) EXCEPT !.got = Yield(c, key, NextChild(c))]
  OBVIOUS
<1>6. Becomes(h, x)
  BY <1>1, <1>3, <1>4, <1>5 DEF NextView
<1>7. /\ CursorRight(h, Entered(c, segments), c.query.key)
      /\ CursorRight(h, [Idle EXCEPT !.got = c.got], c.query.key)
      /\ CursorRight(h, [Entered(c, segments) EXCEPT !.got = Yield(c, key, NextChild(c))],
                     c.query.key)
  BY <1>2, YieldedRight
<1>8. CursorRight(h, x, c.query.key)
  BY <1>5, <1>7
<1> QED BY <1>1, <1>6, <1>8 DEF StaysRight

LEMMA NextValueRight ==
  ASSUME IInv, NEW h \in Handle, CursorRight(h, cursor[h], cursor[h].query.key), NextValue(h)
  PROVE  StaysRight(h, cursor[h])
<1>1. PICK c : c = cursor[h]
  OBVIOUS
<1>2. CursorRight(h, c, c.query.key) /\ c.stack # <<>> /\ Last(c.stack).edges # {}
  BY <1>1 DEF NextValue, AtChild
<1>3. PICK x : x = IF heap[NextChild(c)].value = None THEN Entered(c, c.path)
                   ELSE [Entered(c, c.path) EXCEPT !.got = Yield(c, <<>>, NextChild(c))]
  OBVIOUS
<1>4. Becomes(h, x)
  BY <1>1, <1>3 DEF NextValue
<1>5. /\ CursorRight(h, Entered(c, c.path), c.query.key)
      /\ CursorRight(h, [Entered(c, c.path) EXCEPT !.got = Yield(c, <<>>, NextChild(c))],
                     c.query.key)
  BY <1>2, YieldedRight
<1>6. CursorRight(h, x, c.query.key)
  BY <1>3, <1>5
<1> QED BY <1>1, <1>4, <1>6 DEF StaysRight

\* Where the walk for a key goes on, and how deep.
LEMMA ChildAtRight ==
  ASSUME IInv, NEW h \in Handle, NEW c, c.query.key \in Seq(Byte),
         CursorRight(h, c, c.query.key), c.at # None, PlaceAt(c) = "child"
  PROVE  ChildAt(c) \in Reached(h) /\ Lower(c) \in Nat /\ Lower(c) <= Len(c.query.key)
<1>1. PICK n, k : n = c.at /\ k = c.query.key
  OBVIOUS
<1>2. n \in Reached(h) /\ c.depth \in Nat /\ c.depth <= Len(k) /\ k \in Seq(Byte)
  BY <1>1 DEF CursorRight
<1>3. heap[n] \in VersionedNode
  BY <1>2, AliveTyped DEF Reached, IInv
<1>4. Place(heap[n], k, c.depth) = "child"
  BY <1>1 DEF PlaceAt
<1>5. /\ c.depth + Len(heap[n].prefix) < Len(k) /\ EdgeOf(heap[n], k, c.depth) \in Byte
      /\ heap[n].kids[EdgeOf(heap[n], k, c.depth)] # None
  BY <1>2, <1>3, <1>4, PlaceBounds
<1>6. Len(heap[n].prefix) \in Nat
  BY <1>3 DEF VersionedNode
<1>7. heap[n].kids[EdgeOf(heap[n], k, c.depth)] \in Reached(h)
  BY <1>2, <1>5, ChildReached
<1>8. PICK d : d = c.depth + Len(heap[n].prefix)
  OBVIOUS
<1>9. Len(k) \in Nat
  BY <1>2
<1>10. d \in Nat /\ d <= Len(k)
  BY <1>2, <1>5, <1>6, <1>8, <1>9
<1>11. ChildAt(c) = heap[n].kids[EdgeOf(heap[n], k, c.depth)] /\ Lower(c) = d
  BY <1>1, <1>8 DEF ChildAt, Lower
<1> QED BY <1>1, <1>7, <1>10, <1>11

LEMMA GetStepRight ==
  ASSUME IInv, NEW h \in Handle, CursorRight(h, cursor[h], cursor[h].query.key),
         cursor[h].query.key \in Seq(Byte), GetStep(h)
  PROVE  StaysRight(h, cursor[h])
<1>1. PICK c : c = cursor[h]
  OBVIOUS
<1>2. PICK k : k = c.query.key
  OBVIOUS
<1>3. CursorRight(h, c, k) /\ k \in Seq(Byte) /\ c.at # None
  BY <1>1, <1>2 DEF GetStep
<1>4. PICK below : below = [c EXCEPT !.at = ChildAt(c), !.depth = Lower(c)]
  OBVIOUS
<1>5. PICK found : found = [Idle EXCEPT !.got = Yield(c, k, c.at)]
  OBVIOUS
<1>6. PICK x : x = CASE PlaceAt(c) = "child" -> below
                     [] PlaceAt(c) = "at" /\ heap[c.at].value # None -> found
                     [] OTHER -> Idle
  OBVIOUS
<1>7. Becomes(h, x)
  BY <1>1, <1>2, <1>4, <1>5, <1>6 DEF GetStep
<1>8. PlaceAt(c) = "child" => CursorRight(h, below, k)
  BY <1>2, <1>3, <1>4, ChildAtRight, PartsRight
<1>9. CursorRight(h, found, k) /\ CursorRight(h, Idle, k)
  <2>1. GotRight(h, c.got) /\ c.at \in Reached(h)
    BY <1>3 DEF CursorRight
  <2> QED BY <1>5, <2>1, YieldRight, IdleRight
<1>10. CursorRight(h, x, k)
  BY <1>6, <1>8, <1>9
<1> QED BY <1>1, <1>2, <1>7, <1>10 DEF StaysRight

LEMMA NextMatchRight ==
  ASSUME IInv, NEW h \in Handle, CursorRight(h, cursor[h], cursor[h].query.key),
         cursor[h].query.key \in Seq(Byte), NextMatch(h)
  PROVE  StaysRight(h, cursor[h])
<1>1. PICK c : c = cursor[h]
  OBVIOUS
<1>2. PICK k : k = c.query.key
  OBVIOUS
<1>3. CursorRight(h, c, k) /\ k \in Seq(Byte) /\ c.at # None
  BY <1>1, <1>2 DEF NextMatch
<1>4. PICK key : key = c.path \o heap[c.at].prefix
  OBVIOUS
<1>5. PICK yielded : yielded = IF c.query.kind = "prefix_match" THEN key ELSE SubSeq(k, 1, Lower(c))
  OBVIOUS
<1>6. PICK here : here = IF heap[c.at].value = None THEN c.got ELSE Yield(c, yielded, c.at)
  OBVIOUS
<1>7. PICK below : below = [c EXCEPT !.at = ChildAt(c), !.depth = Lower(c),
                                     !.path = key, !.got = here]
  OBVIOUS
<1>8. PICK x : x = CASE PlaceAt(c) = "child" -> below
                     [] PlaceAt(c) \in {"at", "below", "missing"} -> [Idle EXCEPT !.got = here]
                     [] OTHER -> [Idle EXCEPT !.got = c.got]
  OBVIOUS
<1>9. Becomes(h, x)
  BY <1>1, <1>2, <1>4, <1>5, <1>6, <1>7, <1>8 DEF NextMatch
<1>10. GotRight(h, c.got) /\ GotRight(h, here)
  <2>1. GotRight(h, c.got) /\ c.at \in Reached(h)
    BY <1>3 DEF CursorRight
  <2> QED BY <1>6, <2>1, YieldRight
<1>11. ASSUME PlaceAt(c) = "child" PROVE CursorRight(h, below, k)
  <2>1. PICK a : a = [c EXCEPT !.at = ChildAt(c), !.depth = Lower(c)]
    OBVIOUS
  <2>2. CursorRight(h, a, k)
    BY <1>2, <1>3, <1>11, <2>1, ChildAtRight, PartsRight
  <2>3. PICK b : b = [a EXCEPT !.path = key]
    OBVIOUS
  <2>4. CursorRight(h, b, k)
    BY <2>2, <2>3, PartsRight
  <2>5. CursorRight(h, [b EXCEPT !.got = here], k)
    BY <1>10, <2>4, PartsRight
  <2>6. below = [b EXCEPT !.got = here]
    BY <1>7, <2>1, <2>3
  <2> QED BY <2>5, <2>6
<1>12. /\ CursorRight(h, [Idle EXCEPT !.got = here], k)
       /\ CursorRight(h, [Idle EXCEPT !.got = c.got], k)
  BY <1>10, IdleRight
<1>13. CursorRight(h, x, k)
  BY <1>8, <1>11, <1>12
<1> QED BY <1>1, <1>2, <1>9, <1>13 DEF StaysRight

LEMMA SeekPrefixRight ==
  ASSUME IInv, NEW h \in Handle, CursorRight(h, cursor[h], cursor[h].query.key),
         cursor[h].query.key \in Seq(Byte), SeekPrefix(h)
  PROVE  StaysRight(h, cursor[h])
<1>1. PICK c : c = cursor[h]
  OBVIOUS
<1>2. PICK k : k = c.query.key
  OBVIOUS
<1>3. CursorRight(h, c, k) /\ k \in Seq(Byte) /\ c.at # None /\ c.at \in Reached(h)
  BY <1>1, <1>2 DEF SeekPrefix, CursorRight
<1>4. PICK path : path = c.path \o Part(c.query.kind, heap[ChildAt(c)])
  OBVIOUS
<1>5. PICK below : below = [c EXCEPT !.at = ChildAt(c), !.depth = Lower(c), !.path = path]
  OBVIOUS
<1>6. PICK found : found = Listing(c.query.kind, c.at, c.path)
  OBVIOUS
<1>7. PICK x : x = CASE PlaceAt(c) \in {"at", "inside"} -> found
                     [] PlaceAt(c) = "child" -> below
                     [] OTHER -> Idle
  OBVIOUS
<1>8. Becomes(h, x)
  BY <1>1, <1>4, <1>5, <1>6, <1>7 DEF SeekPrefix
<1>9. ASSUME PlaceAt(c) = "child" PROVE CursorRight(h, below, k)
  <2>1. PICK a : a = [c EXCEPT !.at = ChildAt(c), !.depth = Lower(c)]
    OBVIOUS
  <2>2. CursorRight(h, a, k)
    BY <1>2, <1>3, <1>9, <2>1, ChildAtRight, PartsRight
  <2>3. CursorRight(h, [a EXCEPT !.path = path], k)
    BY <2>2, PartsRight
  <2>4. below = [a EXCEPT !.path = path]
    BY <1>5, <2>1
  <2> QED BY <2>3, <2>4
<1>10. CursorRight(h, found, k)
  BY <1>3, <1>6, ListingRight
<1>11. CursorRight(h, Idle, k)
  BY NothingRight, IdleRight
<1>12. CursorRight(h, x, k)
  BY <1>7, <1>9, <1>10, <1>11
<1> QED BY <1>1, <1>2, <1>8, <1>12 DEF StaysRight

-----------------------------------------------------------------------------
(* What others do while a handle is read *)

\* The nodes that h reaches are left as they are.
Undisturbed(h) ==
  /\ \A n \in Reached(h) : n \in Reached(h)' /\ heap'[n] = heap[n]
  /\ (h \in live /\ Running(h, "idle")) => (h \in live /\ Running(h, "idle"))'

\* At rest, a thread does nothing by itself.
LEMMA IdleIsIdle ==
  ASSUME NEW h \in Handle, Running(h, "idle")
  PROVE  ~Advance(h)
<1> USE DEF Running
<1>1. ~Release(h) /\ ~Plan(h) /\ ~StartEmpty(h) /\ ~Start(h) /\ ~Return(h)
  BY DEF Release, Plan, StartEmpty, Start, Return
<1>2. ~EnsureCowOwned(h) /\ ~EnsureCowShared(h) /\ ~Descend(h) /\ ~Follow(h)
  BY DEF EnsureCowOwned, EnsureCowShared, Ensuring, Descend, Unwrapped, Follow
<1>3. ~ReplaceValue(h) /\ ~TakeValue(h) /\ ~RemoveLeaf(h) /\ ~AddLeaf(h) /\ ~Split(h)
  BY DEF ReplaceValue, TakeValue, RemoveLeaf, AddLeaf, Split, Unwrapped
<1>4. ~PathReady(h) /\ ~Decline(h) /\ ~CallbackPanic(h)
  BY DEF PathReady, Decline, CallbackPanic, Unwrapped
<1>5. ~Reattach(h) /\ ~Backtrack(h) /\ ~Lift(h) /\ ~SwapChild(h) /\ ~Install(h) /\ ~WriteThrough(h)
  BY DEF Reattach, Backtrack, Lift, SwapChild, Unwrapped, Install, WriteThrough
<1> QED BY <1>1, <1>2, <1>3, <1>4, <1>5 DEF Advance

\* No step of g takes away another handle.
LEMMA OthersLive ==
  ASSUME NEW g \in Handle, Advance(g) \/ Use(g), NEW h \in Handle \ {g}, h \in live
  PROVE  h \in live'
<1> USE DEF handleVars
<1>1. CASE Use(g)
  BY <1>1 DEF Use, New, DropHandle, Clone, Snapshot, CopyHandle, Invoke
<1>2. CASE Advance(g)
  <2>1. CASE Release(g) \/ Plan(g) \/ StartEmpty(g) \/ Start(g) \/ Return(g)
    BY <2>1 DEF Release, Plan, StartEmpty, Start, Return
  <2>2. CASE EnsureCowOwned(g) \/ EnsureCowShared(g) \/ Descend(g) \/ Follow(g)
    BY <2>2 DEF EnsureCowOwned, EnsureCowShared, Descend, Follow
  <2>3. CASE ReplaceValue(g) \/ TakeValue(g) \/ RemoveLeaf(g) \/ AddLeaf(g) \/ Split(g)
    BY <2>3 DEF ReplaceValue, TakeValue, RemoveLeaf, AddLeaf, Split
  <2>4. CASE PathReady(g) \/ Decline(g) \/ CallbackPanic(g) \/ Reattach(g) \/ Backtrack(g)
    BY <2>4 DEF PathReady, Decline, CallbackPanic, Reattach, Backtrack
  <2>5. CASE Lift(g) \/ SwapChild(g) \/ Install(g) \/ WriteThrough(g)
    BY <2>5 DEF Lift, SwapChild, Install, WriteThrough
  <2> QED BY <1>2, <2>1, <2>2, <2>3, <2>4, <2>5 DEF Advance
<1> QED BY <1>1, <1>2

\* What is kept stays within reach.
LEMMA KeptReached ==
  ASSUME NEW h \in Handle, root[h] \in Alive, root'[h] = root[h], NEW C, Kept(C), root[h] \in C
  PROVE  \A n \in Reached(h) : n \in Reached(h)' /\ heap'[n] = heap[n]
<1>1. Downward(C) /\ \A n \in C : n \in Alive' /\ heap'[n] = heap[n]
  BY DEF Kept
<1>2. ASSUME NEW n \in Reached(h) PROVE n \in C
  BY <1>1 DEF Reached
<1>3. ASSUME NEW n \in Reached(h), NEW D, Downward(D)', root[h] \in D PROVE n \in D
  <2>1. PICK B : B = C \cap D
    OBVIOUS
  <2>2. Downward(B)
    <3>1. B \subseteq Alive
      BY <1>1, <2>1 DEF Downward
    <3>2. ASSUME NEW m \in B, NEW b \in Byte, heap[m].kids[b] # None
          PROVE  heap[m].kids[b] \in B
      <4>1. heap[m].kids[b] \in C /\ heap'[m] = heap[m] /\ m \in D
        BY <1>1, <2>1, <3>2 DEF Downward
      <4>2. heap'[m].kids[b] \in D
        BY <1>3, <3>2, <4>1 DEF Downward
      <4> QED BY <2>1, <4>1, <4>2
    <3> QED BY <3>1, <3>2 DEF Downward
  <2>3. n \in B
    BY <1>3, <2>1, <2>2 DEF Reached
  <2> QED BY <2>1, <2>3
<1>4. root'[h] \in Alive'
  BY <1>1
<1> QED BY <1>1, <1>2, <1>3, <1>4 DEF Reached

\* Nobody disturbs a reader: not the others, whatever they do to copies of its
\* handle, and not its own thread, which the borrow keeps from writing.
LEMMA OthersLeave ==
  ASSUME IInv, IInv', ShapeInv, ShapeInv', BorrowInv, NEW h \in Handle, Reading(h),
         cursor[h] # None, NEW g \in Handle, Others(g)
  PROVE  Undisturbed(h)
<1>1. h \in live /\ Running(h, "idle") /\ pc[h] = "idle"
  BY DEF Reading, Running
<1>2. g # h
  <2>1. ASSUME g = h PROVE FALSE
    <3>1. UseUnborrowed(h)
      BY <1>1, <2>1, IdleIsIdle DEF Others
    <3> QED BY <1>1, <3>1 DEF UseUnborrowed, Clone, Snapshot, CopyHandle
  <2> QED BY <2>1
<1>3. Advance(g) \/ Use(g)
  BY DEF Others, UseUnborrowed, Use
<1>4. SameLocals(h)
  BY <1>2, <1>3, NextConduct DEF Conduct, LocalFrame
<1>5. h \in live' /\ Running(h, "idle")'
  BY <1>1, <1>2, <1>3, <1>4, OthersLive DEF Running, SameLocals
<1>6. CASE root[h] = None
  <2>1. None \notin Alive
    BY AliveTyped DEF IInv
  <2> QED BY <1>5, <1>6, <2>1 DEF Undisturbed, Reached
<1>7. CASE root[h] # None
  <2>1. root[h] \in Alive
    BY <1>1, <1>7, WasResting
  <2>2. ThreadBorrow(g) /\ h \in Handle \ {g}
    BY <1>2 DEF BorrowInv
  <2>3. PICK C : Kept(C) /\ \A n \in Alive : n \in InHands(h) => n \in C
    BY <1>3, <2>2, OthersKept
  <2>4. root[h] \in C
    BY <2>1, <2>3 DEF InHands
  <2> QED BY <1>4, <1>5, <2>1, <2>3, <2>4, KeptReached DEF Undisturbed, SameLocals
<1> QED BY <1>6, <1>7

\* Steps of readers change no node.
LEMMA ReadsLeave ==
  ASSUME NEW h \in Handle, UNCHANGED vars
  PROVE  Undisturbed(h)
<1>1. heap' = heap /\ root' = root /\ live' = live /\ pc' = pc /\ drops' = drops
  BY DEF vars
<1>2. Alive' = Alive
  BY <1>1 DEF Alive
<1>3. \A C : Downward(C)' <=> Downward(C)
  BY <1>1, <1>2 DEF Downward
<1>4. Reached(h)' = Reached(h)
  BY <1>1, <1>2, <1>3 DEF Reached
<1> QED BY <1>1, <1>4 DEF Undisturbed, Running

\* So a cursor on nodes of h stays one.
LEMMA CursorStays ==
  ASSUME NEW h \in Handle, Undisturbed(h)
  PROVE  \A c, k : CursorRight(h, c, k) => CursorRight(h, c, k)'
<1>1. \A n \in Reached(h) : n \in Reached(h)' /\ heap'[n] = heap[n]
  BY DEF Undisturbed
<1>2. ASSUME NEW f, FrameRight(h, f) PROVE FrameRight(h, f)'
  BY <1>1, <1>2 DEF FrameRight, Edges
<1>3. ASSUME NEW s, StackRight(h, s) PROVE StackRight(h, s)'
  <2>1. PICK F : s \in Seq(F) /\ \A f \in F : FrameRight(h, f)
    BY <1>3 DEF StackRight
  <2>2. s \in Seq(F) /\ \A f \in F : FrameRight(h, f)'
    BY <1>2, <2>1
  <2> QED BY <2>2 DEF StackRight
<1>4. ASSUME NEW s, GotRight(h, s) PROVE GotRight(h, s)'
  <2>1. PICK G : s \in Seq(G) /\ \A x \in G : x.node \in Reached(h)
    BY <1>4 DEF GotRight
  <2>2. s \in Seq(G) /\ \A x \in G : x.node \in Reached(h)'
    BY <1>1, <2>1
  <2> QED BY <2>2 DEF GotRight
<1> QED BY <1>1, <1>3, <1>4 DEF CursorRight

-----------------------------------------------------------------------------
(* The invariant of readers *)

LEMMA QueryKey ==
  ASSUME NEW q \in Queries PROVE q.key \in Seq(Byte)
BY QueriesAssumption

\* A reader that does not move stays where it is.
LEMMA ReadingStays ==
  ASSUME NEW h \in Handle, Reading(h), cursor[h] # None => Undisturbed(h), cursor'[h] = cursor[h]
  PROVE  Reading(h)'
<1>1. CASE cursor[h] = None
  BY <1>1 DEF Reading
<1>2. CASE cursor[h] # None
  <2>1. PICK c : c = cursor[h]
    OBVIOUS
  <2>2. /\ h \in live /\ Running(h, "idle") /\ c.query \in Queries
        /\ CursorRight(h, c, c.query.key)
    BY <1>2, <2>1 DEF Reading
  <2>3. CursorRight(h, c, c.query.key)' /\ h \in live' /\ Running(h, "idle")'
    BY <1>2, <2>2, CursorStays DEF Undisturbed
  <2> QED BY <2>1, <2>2, <2>3 DEF Reading
<1> QED BY <1>1, <1>2

\* A query begins, or a cursor moves, at nodes of its own handle.
LEMMA ReadingMoves ==
  ASSUME NEW h \in Handle, DOMAIN cursor = Handle, h \in live, Running(h, "idle"), UNCHANGED vars,
         NEW q \in Queries, NEW x, CursorRight(h, x, q.key),
         cursor' = [cursor EXCEPT ![h] = [x EXCEPT !.query = q]]
  PROVE  Reading(h)'
<1>1. PICK c : c = [x EXCEPT !.query = q]
  OBVIOUS
<1>2. CursorRight(h, c, q.key)
  BY <1>1, PartsRight
<1>3. c.query = q
  BY <1>1 DEF CursorRight
<1>4. Undisturbed(h)
  BY ReadsLeave
<1>5. CursorRight(h, c, q.key)' /\ h \in live' /\ Running(h, "idle")'
  BY <1>2, <1>4, CursorStays DEF Undisturbed
<1>6. cursor'[h] = c
  BY <1>1
<1> QED BY <1>3, <1>5, <1>6 DEF Reading

LEMMA OpenReading ==
  ASSUME IInv, DOMAIN cursor = Handle, NEW h \in Handle, NEW q \in Queries, Open(h, q)
  PROVE  Reading(h)'
<1>1. /\ h \in live /\ Running(h, "idle") /\ UNCHANGED vars
      /\ cursor' = [cursor EXCEPT ![h] = [CursorFor(root[h], q) EXCEPT !.query = q]]
  BY DEF Open
<1>2. root[h] = None \/ root[h] \in Reached(h)
  BY <1>1, RootReached DEF Running
<1>3. CursorRight(h, CursorFor(root[h], q), q.key)
  BY <1>2, QueryKey, CursorForRight
<1>4. PICK x : x = CursorFor(root[h], q)
  OBVIOUS
<1> QED BY <1>1, <1>3, <1>4, ReadingMoves

LEMMA ContinueReading ==
  ASSUME IInv, DOMAIN cursor = Handle, NEW h \in Handle, Reading(h), Continue(h)
  PROVE  Reading(h)'
<1>1. CASE Close(h)
  <2>1. cursor'[h] = None
    BY <1>1 DEF Close
  <2> QED BY <2>1 DEF Reading
<1>2. CASE ~Close(h)
  <2>1. cursor[h] # None
    BY <1>2 DEF Continue, YieldRoot, LeaveNode, NextEntry, NextView, NextValue, AtChild, Asked,
      GetStep, NextMatch, SeekPrefix
  <2>2. PICK q \in Queries : q = cursor[h].query
    BY <2>1 DEF Reading
  <2>3. /\ h \in live /\ Running(h, "idle")
        /\ CursorRight(h, cursor[h], cursor[h].query.key) /\ cursor[h].query.key \in Seq(Byte)
    BY <2>1, <2>2, QueryKey DEF Reading
  <2>4. StaysRight(h, cursor[h])
    BY <1>2, <2>3, YieldRootRight, LeaveNodeRight, NextEntryRight, NextViewRight, NextValueRight,
      GetStepRight, NextMatchRight, SeekPrefixRight DEF Continue
  <2>5. PICK x : Becomes(h, x) /\ CursorRight(h, x, q.key)
    BY <2>2, <2>4 DEF StaysRight
  <2> QED BY <2>2, <2>3, <2>5, ReadingMoves DEF Becomes
<1> QED BY <1>1, <1>2

LEMMA NextReads ==
  ASSUME IInv, IInv', ShapeInv, ShapeInv', BorrowInv, ReadInv, ReadsNext
  PROVE  ReadInv'
<1>1. DOMAIN cursor = Handle /\ \A h \in Handle : Reading(h)
  BY DEF ReadInv
<1>2. PICK g \in Handle : Others(g) \/ Continue(g) \/ \E q \in Queries : Open(g, q)
  BY DEF ReadsNext
<1>3. CASE Others(g)
  <2>1. cursor' = cursor
    BY <1>3 DEF Others, readVars
  <2>2. ASSUME NEW h \in Handle PROVE Reading(h)'
    <3>1. cursor[h] # None => Undisturbed(h)
      BY <1>1, <1>3, OthersLeave
    <3> QED BY <1>1, <2>1, <3>1, ReadingStays
  <2> QED BY <1>1, <2>1, <2>2 DEF ReadInv
<1>4. CASE Continue(g) \/ \E q \in Queries : Open(g, q)
  <2>1. UNCHANGED vars /\ DOMAIN cursor' = Handle /\ \A h \in Handle \ {g} : cursor'[h] = cursor[h]
    BY <1>1, <1>4 DEF Continue, Close, YieldRoot, LeaveNode, NextEntry, NextView, NextValue,
      GetStep, NextMatch, SeekPrefix, Becomes, Open
  <2>2. Reading(g)'
    BY <1>1, <1>4, ContinueReading, OpenReading
  <2>3. ASSUME NEW h \in Handle \ {g} PROVE Reading(h)'
    BY <1>1, <2>1, ReadsLeave, ReadingStays
  <2> QED BY <2>1, <2>2, <2>3 DEF ReadInv
<1> QED BY <1>2, <1>3, <1>4

\* Nobody moves.
LEMMA StutterReads ==
  ASSUME ReadInv, UNCHANGED allVars
  PROVE  ReadInv'
<1>1. UNCHANGED vars /\ cursor' = cursor
  BY DEF allVars, readVars
<1>2. ASSUME NEW h \in Handle PROVE Reading(h)'
  BY <1>1, ReadsLeave, ReadingStays DEF ReadInv
<1> QED BY <1>1, <1>2 DEF ReadInv

LEMMA ReadsStep ==
  ASSUME IInv, IInv', ShapeInv, ShapeInv', BorrowInv, ReadInv, [ReadsNext]_allVars
  PROVE  ReadInv'
<1>1. CASE ReadsNext
  BY <1>1, NextReads
<1>2. CASE UNCHANGED allVars
  BY <1>2, StutterReads
<1> QED BY <1>1, <1>2

-----------------------------------------------------------------------------
(* The theorems *)

\* What a reader borrows are nodes of its handle.
LEMMA BorrowsReached ==
  ASSUME NEW h \in Handle, Reading(h), cursor[h] # None
  PROVE  Borrows(h) \subseteq Reached(h)
<1>1. PICK c : c = cursor[h]
  OBVIOUS
<1>2. CursorRight(h, c, c.query.key)
  BY <1>1 DEF Reading
<1>3. ASSUME NEW i \in DOMAIN c.stack PROVE c.stack[i].node \in Reached(h)
  <2>1. PICK F : c.stack \in Seq(F) /\ \A f \in F : FrameRight(h, f)
    BY <1>2 DEF CursorRight, StackRight
  <2>2. c.stack[i] \in F
    BY <2>1
  <2> QED BY <2>1, <2>2 DEF FrameRight
<1>4. ASSUME NEW i \in DOMAIN c.got PROVE c.got[i].node \in Reached(h)
  <2>1. PICK G : c.got \in Seq(G) /\ \A x \in G : x.node \in Reached(h)
    BY <1>2 DEF CursorRight, GotRight
  <2>2. c.got[i] \in G
    BY <2>1
  <2> QED BY <2>1, <2>2
<1> QED BY <1>1, <1>2, <1>3, <1>4 DEF Borrows, CursorRight

\* What a step leaves undisturbed of a reader is all that the reader borrows.
LEMMA StepLeaves ==
  ASSUME IInv, IInv', ShapeInv, ShapeInv', BorrowInv, ReadInv, [ReadsNext]_allVars,
         NEW h \in Handle, cursor[h] # None, NEW n \in Borrows(h)
  PROVE  heap'[n] = heap[n] /\ heap[n] # None
<1>1. Reading(h) /\ n \in Reached(h)
  BY BorrowsReached DEF ReadInv
<1>2. Undisturbed(h)
  <2>1. CASE \E g \in Handle : Others(g)
    BY <1>1, <2>1, OthersLeave
  <2>2. CASE UNCHANGED vars
    BY <2>2, ReadsLeave
  <2>3. CASE \E g \in Handle : Continue(g) \/ \E q \in Queries : Open(g, q)
    <3>1. UNCHANGED vars
      BY <2>3 DEF Continue, Close, YieldRoot, LeaveNode, NextEntry, NextView, NextValue,
        GetStep, NextMatch, SeekPrefix, Becomes, Open
    <3> QED BY <3>1, ReadsLeave
  <2> QED BY <2>1, <2>2, <2>3 DEF ReadsNext, allVars
<1> QED BY <1>1, <1>2 DEF Undisturbed, Reached, Alive

\* Readers only read: to the trees they are nothing.
LEMMA ReadsAreSteps == ReadsSpec => Spec
<1>1. ReadsInit => Init
  BY DEF ReadsInit
<1>2. [ReadsNext]_allVars => [Next]_vars
  <2>1. ASSUME NEW h \in Handle, Others(h) PROVE Next
    BY <2>1 DEF Others, UseUnborrowed, Next, Use
  <2>2. ASSUME NEW h \in Handle, Continue(h) \/ \E q \in Queries : Open(h, q)
        PROVE  UNCHANGED vars
    BY <2>2 DEF Continue, Close, YieldRoot, LeaveNode, NextEntry, NextView, NextValue,
      GetStep, NextMatch, SeekPrefix, Becomes, Open
  <2>3. UNCHANGED allVars => UNCHANGED vars
    BY DEF allVars
  <2> QED BY <2>1, <2>2, <2>3 DEF ReadsNext
<1> QED BY <1>1, <1>2, PTL DEF ReadsSpec, Spec

\* Every iterator and every visit stands on nodes that its own handle reaches,
\* and so is every node whose value it has lent out, while other threads write
\* to copies of the handle.
THEOREM ReadInvariance == ReadsSpec => []ReadInv
<1>1. ReadsInit => ReadInv
  BY DEF ReadsInit, ReadInv, Reading
<1>2. /\ IInv /\ IInv' /\ ShapeInv /\ ShapeInv' /\ BorrowInv /\ ReadInv /\ [ReadsNext]_allVars
      => ReadInv'
  BY ReadsStep
<1>3. ReadsSpec => []IInv /\ []ShapeInv /\ []BorrowInv
  BY ReadsAreSteps, Invariance, ShapeInvariance, BorrowInvariance, PTL
<1> QED BY <1>1, <1>2, <1>3, PTL DEF ReadsSpec

\* No step of anyone writes to, or frees, a node that a reader stands on or has
\* lent the value of.
THEOREM ReadersAreUndisturbedHolds == ReadsSpec => ReadersAreUndisturbed
<1>1. /\ IInv /\ IInv' /\ ShapeInv /\ ShapeInv' /\ BorrowInv /\ ReadInv /\ [ReadsNext]_allVars
      => [\A h \in Handle : cursor[h] # None =>
            \A n \in Borrows(h) : heap'[n] = heap[n] /\ heap[n] # None]_allVars
  BY StepLeaves
<1>2. ReadsSpec => []IInv /\ []ShapeInv /\ []BorrowInv /\ []ReadInv
  BY ReadsAreSteps, Invariance, ShapeInvariance, BorrowInvariance, ReadInvariance, PTL
<1> QED BY <1>1, <1>2, PTL DEF ReadsSpec, ReadersAreUndisturbed
=============================================================================
