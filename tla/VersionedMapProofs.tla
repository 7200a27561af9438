------------------------- MODULE VersionedMapProofs -------------------------
(***************************************************************************)
(* What every step of a call does to the map that its tree stands for,     *)
(* while the tree is in pieces and others share parts of it.               *)
(***************************************************************************)
EXTENDS VersionedBorrowProofs, VersionedRefinement

-----------------------------------------------------------------------------
(* Lookups below a node *)

\* The bytes of a prefix and of what is left of a key.
LEMMA PrefixBytes ==
  ASSUME NEW nd \in VersionedNode
  PROVE  nd.prefix \in Seq(Byte) /\ Len(nd.prefix) \in Nat
BY DEF VersionedNode

\* The next byte of a key that is not used up, and what comes from there on.
LEMMA BytesLeft ==
  ASSUME NEW k \in Seq(Byte), NEW e \in Nat, e < Len(k)
  PROVE  k[e + 1] \in Byte /\ Rest(k, e) \in Seq(Byte)
<1>1. e + 1 \in 1..Len(k)
  OBVIOUS
<1>2. k[e + 1] \in Byte
  BY <1>1
<1>3. e <= Len(k)
  OBVIOUS
<1>4. Rest(k, e) \in Seq(Byte)
  BY <1>3, RestBytes
<1> QED BY <1>2, <1>4

\* There is nothing in an empty tree.
LEMMA GetNone ==
  ASSUME NEW k PROVE Get(None, k) = None
BY DEF Get, Found, Path

\* What a node answers for the rest of a key, from its own fields.
GetLaw ==
  TreeHeap => \A n \in Alive : \A k \in Seq(Byte) : \A d \in Nat : d <= Len(k) =>
    LET p == heap[n].prefix
        below == d + Len(p)
    IN  /\ ~PrefixAt(p, k, d) => Get(n, Rest(k, d)) = None
        /\ PrefixAt(p, k, d) /\ below = Len(k) => Get(n, Rest(k, d)) = heap[n].value
        /\ PrefixAt(p, k, d) /\ below < Len(k) =>
             Get(n, Rest(k, d)) = Get(heap[n].kids[k[below + 1]], Rest(k, below))

\* It holds.
LEMMA GetLawHolds == GetLaw
<1> SUFFICES ASSUME TreeHeap, NEW n \in Alive, NEW k \in Seq(Byte), NEW d \in Nat, d <= Len(k),
                    NEW p, p = heap[n].prefix
             PROVE  /\ ~PrefixAt(p, k, d) => Get(n, Rest(k, d)) = None
                    /\ PrefixAt(p, k, d) /\ d + Len(p) = Len(k) =>
                         Get(n, Rest(k, d)) = heap[n].value
                    /\ PrefixAt(p, k, d) /\ d + Len(p) < Len(k) =>
                         Get(n, Rest(k, d)) = Get(heap[n].kids[k[d + Len(p) + 1]],
                                                  Rest(k, d + Len(p)))
  BY DEF GetLaw
<1>1. heap[n] \in VersionedNode
  BY AliveTyped DEF TreeHeap
<1>2. PICK nd \in VersionedNode : nd = heap[n]
  BY <1>1
<1>3. p \in Seq(Byte) /\ Len(p) \in Nat /\ Len(k) \in Nat
  BY <1>1 DEF VersionedNode
<1>4. PICK q \in Seq(Byte) : q = Rest(k, d) /\ Len(q) = Len(k) - d
  BY RestBytes
<1>5. /\ Place(nd, q, 0) = Place(nd, k, d)
      /\ Len(p) < Len(k) - d => EdgeOf(nd, q, 0) = EdgeOf(nd, k, d)
  BY <1>2, <1>3, <1>4, PlaceShift
<1>6. /\ Place(nd, q, 0) = "at" => Get(n, q) = heap[n].value
      /\ Place(nd, q, 0) = "child" =>
           Get(n, q) = Get(nd.kids[EdgeOf(nd, q, 0)], Rest(q, Len(p)))
      /\ Place(nd, q, 0) \notin {"at", "child"} => Get(n, q) = None
  <2>1. PICK c : c = heap[n].kids[EdgeOf(heap[n], q, 0)]
    OBVIOUS
  <2>2. PICK e : e = Len(heap[n].prefix)
    OBVIOUS
  <2>3. /\ Place(heap[n], q, 0) = "at" => Get(n, q) = heap[n].value
        /\ Place(heap[n], q, 0) = "child" => Get(n, q) = Get(c, Rest(q, e))
        /\ Place(heap[n], q, 0) \notin {"at", "child"} => Get(n, q) = None
    BY <2>1, <2>2, GetUnfold
  <2> QED BY <1>2, <2>1, <2>2, <2>3
<1>7. /\ Place(nd, k, d) = "at" <=> PrefixAt(p, k, d) /\ d + Len(p) = Len(k)
      /\ Place(nd, k, d) = "child" <=>
           /\ PrefixAt(p, k, d) /\ d + Len(p) < Len(k)
           /\ ~nd.leaf /\ nd.kids[EdgeOf(nd, k, d)] # None
  BY <1>2, PlaceMeans
<1>8. CASE ~PrefixAt(p, k, d)
  BY <1>4, <1>5, <1>6, <1>7, <1>8
<1>9. CASE PrefixAt(p, k, d) /\ d + Len(p) = Len(k)
  BY <1>3, <1>4, <1>5, <1>6, <1>7, <1>9
<1>10. CASE PrefixAt(p, k, d) /\ d + Len(p) < Len(k)
  <2>1. EdgeOf(nd, q, 0) = EdgeOf(nd, k, d)
    BY <1>3, <1>5, <1>10
  <2>2. EdgeOf(nd, k, d) = k[d + Len(p) + 1] /\ k[d + Len(p) + 1] \in Byte
    BY <1>2, <1>3, <1>10 DEF EdgeOf
  <2>3. Rest(q, Len(p)) = Rest(k, d + Len(p))
    BY <1>3, <1>4, <1>10, RestRest
  <2>4. CASE nd.kids[EdgeOf(nd, k, d)] = None
    <3>1. Get(n, q) = None
      BY <1>5, <1>6, <1>7, <1>10, <2>4
    <3> QED BY <1>2, <1>3, <1>4, <1>10, <2>2, <2>4, <3>1, GetNone
  <2>5. CASE nd.kids[EdgeOf(nd, k, d)] # None
    <3>1. ~nd.leaf
      BY <1>2, <2>2, <2>5 DEF TreeHeap, EdgesRight
    <3>2. Place(nd, k, d) = "child"
      BY <1>7, <1>10, <2>5, <3>1
    <3> QED BY <1>2, <1>3, <1>4, <1>5, <1>6, <1>10, <2>1, <2>2, <2>3, <3>2
  <2> QED BY <2>4, <2>5
<1> QED BY <1>3, <1>8, <1>9, <1>10 DEF PrefixAt

-----------------------------------------------------------------------------
(* Lookups before and after a step *)

\* A part of the heap that a step leaves as it is, but for version stamps.
Spared(C) == Downward(C) /\ \A n \in C : SameRoute(n) /\ heap'[n].value = heap[n].value

\* Lookups there have the same answers after the step.
LEMMA GetSpared ==
  ASSUME TreeHeap, TreeHeap', NEW C, Spared(C), NEW r \in C \cup {None}, NEW k \in Seq(Byte)
  PROVE  Get(r, k)' = Get(r, k)
<1>1. CASE r = None
  <2>1. Get(None, k) = None /\ Get(None, k)' = None
    BY GetNone DEF Get, Found, Path
  <2> QED BY <1>1, <2>1
<1>2. CASE r \in C
  BY <1>2, GetSame DEF Spared
<1> QED BY <1>1, <1>2

\* A step that writes to no node but n, which no node points to, spares the rest.
LEMMA SparedAround ==
  ASSUME IInv, NEW n, ~HeldByParent(n), \A m \in Alive : m # n => heap'[m] = heap[m]
  PROVE  Spared(Alive \ {n})
<1>1. None \notin Alive
  BY AliveTyped DEF IInv
<1>2. Downward(Alive \ {n})
  BY DEF Downward, IInv, HeapInv, HeldByParent
<1>3. \A m \in Alive \ {n} : SameRoute(m) /\ heap'[m].value = heap[m].value
  BY DEF SameRoute, Alive
<1> QED BY <1>2, <1>3 DEF Spared

\* What n, whose prefix is p, answers for the rest of k below the depth d.
Unfolds(n, p, k, d) ==
  /\ ~PrefixAt(p, k, d) => Get(n, Rest(k, d)) = None
  /\ PrefixAt(p, k, d) /\ d + Len(p) = Len(k) => Get(n, Rest(k, d)) = heap[n].value
  /\ PrefixAt(p, k, d) /\ d + Len(p) < Len(k) =>
       Get(n, Rest(k, d)) = Get(heap[n].kids[k[d + Len(p) + 1]], Rest(k, d + Len(p)))

\* Lookups unfold at any node.
LEMMA GetLawBefore ==
  ASSUME TreeHeap, NEW n \in Alive, NEW p \in Seq(Byte), p = heap[n].prefix,
         NEW k \in Seq(Byte), NEW d \in Nat, d <= Len(k)
  PROVE  Unfolds(n, p, k, d)
BY GetLawHolds DEF GetLaw, Unfolds

\* The same after a step.
LEMMA GetLawAfter ==
  ASSUME TreeHeap', NEW n \in Alive', NEW p \in Seq(Byte), p = heap'[n].prefix,
         NEW k \in Seq(Byte), NEW d \in Nat, d <= Len(k)
  PROVE  Unfolds(n, p, k, d)'
<1>1. GetLaw'
  BY GetLawHolds, PTL
<1> QED BY <1>1 DEF GetLaw, Unfolds

-----------------------------------------------------------------------------
(* Keys that go the same way *)

\* k has not left the way of key above the depth d.
Along(k, key, d) == d = 0 \/ Joins(k, key, d)

\* Two keys that share a byte share the ones before it.
LEMMA JoinsDown ==
  ASSUME NEW k \in Seq(Byte), NEW key \in Seq(Byte), NEW d \in Nat, NEW e \in Nat, d <= e,
         Joins(k, key, e)
  PROVE  Joins(k, key, d)
<1>1. Len(k) \in Nat /\ Len(key) \in Nat /\ e < Len(k) /\ e < Len(key)
      /\ \A j \in 1..e + 1 : k[j] = key[j]
  BY DEF Joins
<1>2. \A j \in 1..d + 1 : j \in 1..e + 1
  OBVIOUS
<1> QED BY <1>1, <1>2 DEF Joins

\* A key joins itself anywhere.
LEMMA JoinsItself ==
  ASSUME NEW k, NEW d, d < Len(k)
  PROVE  Joins(k, k, d)
BY DEF Joins

\* A key that gets to a node on the way of `key` goes on along it if it matches
\* the node's prefix and takes the same edge.
JoinsBy(k, key, p, d, e, b) ==
  Joins(k, key, e) <=> PrefixAt(p, k, d) /\ e < Len(k) /\ k[e + 1] = b

\* ... and it does.
LEMMA JoinsMeans ==
  ASSUME NEW k \in Seq(Byte), NEW key \in Seq(Byte), NEW d \in Nat, Along(k, key, d),
         d <= Len(k), NEW p \in Seq(Byte), NEW b, NEW e \in Nat, e = d + Len(p),
         e < Len(key), \A i \in 1..Len(p) : p[i] = key[d + i], key[e + 1] = b
  PROVE  JoinsBy(k, key, p, d, e, b)
<1>1. Len(k) \in Nat /\ Len(key) \in Nat /\ Len(p) \in Nat /\ e \in Nat /\ d <= e
  OBVIOUS
<1>2. \A j \in 1..d : k[j] = key[j]
  <2>1. CASE d = 0
    BY <2>1
  <2>2. CASE Joins(k, key, d)
    <3>1. \A j \in 1..d : j \in 1..d + 1
      OBVIOUS
    <3> QED BY <2>2, <3>1 DEF Joins
  <2> QED BY <2>1, <2>2 DEF Along
<1>3. ASSUME Joins(k, key, e) PROVE PrefixAt(p, k, d) /\ e < Len(k) /\ k[e + 1] = b
  <2>1. e < Len(k) /\ \A j \in 1..e + 1 : k[j] = key[j]
    BY <1>3 DEF Joins
  <2>2. k[e + 1] = b
    <3>1. e + 1 \in 1..e + 1
      BY <1>1
    <3> QED BY <2>1, <3>1
  <2>3. ASSUME NEW i \in 1..Len(p) PROVE p[i] = k[d + i]
    <3>1. d + i \in 1..e + 1
      BY <1>1, <2>3
    <3> QED BY <2>1, <2>3, <3>1
  <2>4. d + Len(p) <= Len(k)
    BY <1>1, <2>1
  <2> QED BY <2>1, <2>2, <2>3, <2>4 DEF PrefixAt
<1>4. ASSUME PrefixAt(p, k, d), e < Len(k), k[e + 1] = b PROVE Joins(k, key, e)
  <2>1. ASSUME NEW j \in 1..e + 1 PROVE k[j] = key[j]
    <3>1. CASE j \in 1..d
      BY <1>2, <3>1
    <3>2. CASE j = e + 1
      BY <1>4, <3>2
    <3>3. CASE j \notin 1..d /\ j # e + 1
      <4>1. PICK i \in 1..Len(p) : j = d + i
        <5>1. j - d \in 1..Len(p) /\ j = d + (j - d)
          BY <1>1, <2>1, <3>3
        <5> QED BY <5>1
      <4>2. p[i] = k[d + i] /\ p[i] = key[d + i]
        BY <1>4 DEF PrefixAt
      <4> QED BY <4>1, <4>2
    <3> QED BY <3>1, <3>2, <3>3
  <2> QED BY <1>4, <2>1 DEF Joins
<1> QED BY <1>3, <1>4 DEF JoinsBy

\* The same of a node that `key` goes through by the edge b.
LEMMA JoinsBelow ==
  ASSUME NEW n, heap[n] \in VersionedNode, NEW b, NEW d \in Nat, NEW key \in Seq(Byte),
         OnKey([node |-> n, edge |-> b, depth |-> d], key),
         NEW k \in Seq(Byte), Along(k, key, d), d <= Len(k)
  PROVE  LET e == d + Len(heap[n].prefix)
         IN  /\ e \in Nat
             /\ Joins(k, key, e) <=> PrefixAt(heap[n].prefix, k, d) /\ e < Len(k) /\ k[e + 1] = b
<1>1. PICK p \in Seq(Byte) : p = heap[n].prefix /\ Len(p) \in Nat
  BY PrefixBytes
<1>2. PICK e \in Nat : e = d + Len(p)
  BY <1>1
<1>3. e < Len(key) /\ (\A i \in 1..Len(p) : p[i] = key[d + i]) /\ key[e + 1] = b
  BY <1>1, <1>2 DEF OnKey
<1>4. JoinsBy(k, key, p, d, e, b)
  BY <1>2, <1>3, JoinsMeans
<1> QED BY <1>1, <1>2, <1>4 DEF JoinsBy

\* A key that has come all the way along and has the same bytes left is the key.
LEMMA SameKey ==
  ASSUME NEW k \in Seq(Byte), NEW key \in Seq(Byte), NEW d \in Nat, Along(k, key, d),
         d <= Len(k), d <= Len(key), NEW p \in Seq(Byte),
         PrefixAt(p, k, d), d + Len(p) = Len(k), PrefixAt(p, key, d), d + Len(p) = Len(key)
  PROVE  k = key
<1>1. Len(k) \in Nat /\ Len(key) \in Nat /\ Len(p) \in Nat /\ Len(k) = Len(key)
  OBVIOUS
<1>2. ASSUME NEW j \in 1..Len(k) PROVE k[j] = key[j]
  <2>1. CASE j \in 1..d
    <3>1. Joins(k, key, d) /\ j \in 1..d + 1
      BY <2>1 DEF Along
    <3> QED BY <3>1 DEF Joins
  <2>2. CASE j \notin 1..d
    <3>1. PICK i \in 1..Len(p) : j = d + i
      <4>1. j - d \in 1..Len(p) /\ j = d + (j - d)
        BY <1>1, <1>2, <2>2
      <4> QED BY <4>1
    <3> QED BY <3>1 DEF PrefixAt
  <2> QED BY <2>1, <2>2
<1> QED BY <1>1, <1>2, SeqEqual

-----------------------------------------------------------------------------
(* Lookups in a node that a step has rewritten *)

\* Behind the prefix p, c holds for k what n held before.
SameThere(n, c, p, k, d) ==
  /\ PrefixAt(p, k, d) /\ d + Len(p) = Len(k) => heap'[c].value = heap[n].value
  /\ PrefixAt(p, k, d) /\ d + Len(p) < Len(k) =>
       Get(heap[c].kids[k[d + Len(p) + 1]], Rest(k, d + Len(p)))'
         = Get(heap[n].kids[k[d + Len(p) + 1]], Rest(k, d + Len(p)))

\* A node whose value and children answer a key as those of another did.
LEMMA NodeKept ==
  ASSUME TreeHeap, TreeHeap', NEW n \in Alive, NEW c \in Alive', NEW p \in Seq(Byte),
         p = heap[n].prefix, p = heap'[c].prefix,
         NEW k \in Seq(Byte), NEW d \in Nat, d <= Len(k)
  PROVE  SameThere(n, c, p, k, d) => Get(c, Rest(k, d))' = Get(n, Rest(k, d))
<1>1. Len(p) \in Nat /\ Len(k) \in Nat
  OBVIOUS
<1>2. /\ ~PrefixAt(p, k, d) => Get(n, Rest(k, d)) = None
      /\ PrefixAt(p, k, d) /\ d + Len(p) = Len(k) => Get(n, Rest(k, d)) = heap[n].value
      /\ PrefixAt(p, k, d) /\ d + Len(p) < Len(k) =>
           Get(n, Rest(k, d)) = Get(heap[n].kids[k[d + Len(p) + 1]], Rest(k, d + Len(p)))
  <2>1. Unfolds(n, p, k, d)
    BY GetLawBefore
  <2> QED BY <2>1 DEF Unfolds
<1>3. /\ ~PrefixAt(p, k, d) => Get(c, Rest(k, d))' = None
      /\ PrefixAt(p, k, d) /\ d + Len(p) = Len(k) => Get(c, Rest(k, d))' = heap'[c].value
      /\ PrefixAt(p, k, d) /\ d + Len(p) < Len(k) =>
           Get(c, Rest(k, d))' = Get(heap[c].kids[k[d + Len(p) + 1]], Rest(k, d + Len(p)))'
  <2>1. Unfolds(c, p, k, d)'
    BY GetLawAfter
  <2> QED BY <2>1 DEF Unfolds
<1>4. PrefixAt(p, k, d) => d + Len(p) = Len(k) \/ d + Len(p) < Len(k)
  BY <1>1 DEF PrefixAt
<1> QED BY <1>2, <1>3, <1>4 DEF SameThere

\* A node with nothing below it, after the step, answers its own key at most.
LEMMA LeafGet ==
  ASSUME TreeHeap', NEW c \in Alive', NEW p \in Seq(Byte), p = heap'[c].prefix, heap'[c].kids = NoKids,
         NEW k \in Seq(Byte), NEW d \in Nat, d <= Len(k)
  PROVE  Get(c, Rest(k, d))' = IF PrefixAt(p, k, d) /\ d + Len(p) = Len(k)
                               THEN heap'[c].value ELSE None
<1>1. Len(p) \in Nat /\ Len(k) \in Nat
  OBVIOUS
<1>2. /\ ~PrefixAt(p, k, d) => Get(c, Rest(k, d))' = None
      /\ PrefixAt(p, k, d) /\ d + Len(p) = Len(k) => Get(c, Rest(k, d))' = heap'[c].value
      /\ PrefixAt(p, k, d) /\ d + Len(p) < Len(k) =>
           Get(c, Rest(k, d))' = Get(heap[c].kids[k[d + Len(p) + 1]], Rest(k, d + Len(p)))'
  <2>1. Unfolds(c, p, k, d)'
    BY GetLawAfter
  <2> QED BY <2>1 DEF Unfolds
<1>3. CASE PrefixAt(p, k, d) /\ d + Len(p) < Len(k)
  <2>1. d + Len(p) + 1 \in 1..Len(k)
    BY <1>1, <1>3
  <2>2. k[d + Len(p) + 1] \in Byte
    BY <2>1
  <2>3. heap'[c].kids[k[d + Len(p) + 1]] = None
    BY <2>2 DEF NoKids
  <2>4. Get(None, Rest(k, d + Len(p)))' = None
    BY GetNone DEF Get, Found, Path
  <2> QED BY <1>1, <1>2, <1>3, <2>3, <2>4
<1>4. PrefixAt(p, k, d) => d + Len(p) = Len(k) \/ d + Len(p) < Len(k)
  BY <1>1 DEF PrefixAt
<1> QED BY <1>2, <1>3, <1>4

\* The same before the step.
LEMMA LeafGetBefore ==
  ASSUME TreeHeap, NEW n \in Alive, NEW p \in Seq(Byte), p = heap[n].prefix, heap[n].kids = NoKids,
         NEW k \in Seq(Byte), NEW d \in Nat, d <= Len(k)
  PROVE  Get(n, Rest(k, d)) = IF PrefixAt(p, k, d) /\ d + Len(p) = Len(k)
                              THEN heap[n].value ELSE None
<1>1. Len(p) \in Nat /\ Len(k) \in Nat
  OBVIOUS
<1>2. /\ ~PrefixAt(p, k, d) => Get(n, Rest(k, d)) = None
      /\ PrefixAt(p, k, d) /\ d + Len(p) = Len(k) => Get(n, Rest(k, d)) = heap[n].value
      /\ PrefixAt(p, k, d) /\ d + Len(p) < Len(k) =>
           Get(n, Rest(k, d)) = Get(heap[n].kids[k[d + Len(p) + 1]], Rest(k, d + Len(p)))
  <2>1. Unfolds(n, p, k, d)
    BY GetLawBefore
  <2> QED BY <2>1 DEF Unfolds
<1>3. CASE PrefixAt(p, k, d) /\ d + Len(p) < Len(k)
  <2>1. d + Len(p) + 1 \in 1..Len(k)
    BY <1>1, <1>3
  <2>2. k[d + Len(p) + 1] \in Byte
    BY <2>1
  <2>3. heap[n].kids[k[d + Len(p) + 1]] = None
    BY <2>2 DEF NoKids
  <2>4. Get(None, Rest(k, d + Len(p))) = None
    BY GetNone
  <2> QED BY <1>1, <1>2, <1>3, <2>3, <2>4
<1>4. PrefixAt(p, k, d) => d + Len(p) = Len(k) \/ d + Len(p) < Len(k)
  BY <1>1 DEF PrefixAt
<1> QED BY <1>2, <1>3, <1>4

\* The children that p has with r under the edge b.
WithChild(p, b, r) == [e \in Byte |-> IF e = b THEN r ELSE heap[p].kids[e]]

\* p is left with these children, and freed, c being None, if it is empty then.
Becomes(p, b, r, c) ==
  IF WithChild(p, b, r) = NoKids /\ heap[p].value = None THEN c = None
  ELSE /\ c = p /\ p \in Alive' /\ heap'[p].prefix = heap[p].prefix
       /\ heap'[p].value = heap[p].value /\ heap'[p].kids = WithChild(p, b, r)

\* After the step, c answers the keys along `key` as r does below its node, and
\* the others as p did.
AnswersWith(c, key, d, below, r, p) ==
  \A k \in Seq(Byte) : Along(k, key, d) /\ d <= Len(k) =>
    Get(c, Rest(k, d))' = IF Joins(k, key, below) THEN Get(r, Rest(k, below))
                                                  ELSE Get(p, Rest(k, d))

\* A node that has got the child r under the edge b, or lost the one it had
\* there: keys that take the edge are answered by r, others as they were.  What
\* is left empty is freed, and answers nothing either way.
LEMMA SettledGet ==
  ASSUME TreeHeap, TreeHeap', NEW p \in Alive, ~HeldByParent(p), Spared(Alive \ {p}),
         NEW b \in Byte, NEW d \in Nat, NEW key \in Seq(Byte),
         OnKey([node |-> p, edge |-> b, depth |-> d], key),
         NEW below \in Nat, below = d + Len(heap[p].prefix),
         NEW r \in (Alive \ {p}) \cup {None}, NEW c, Becomes(p, b, r, c)
  PROVE  AnswersWith(c, key, d, below, r, p)
<1> SUFFICES ASSUME NEW k \in Seq(Byte), Along(k, key, d), d <= Len(k)
             PROVE  Get(c, Rest(k, d))' = IF Joins(k, key, below) THEN Get(r, Rest(k, below))
                                                                  ELSE Get(p, Rest(k, d))
  BY DEF AnswersWith
<1>1. heap[p] \in VersionedNode /\ None \notin Alive
  BY AliveTyped DEF TreeHeap
<1> PICK kids : kids = WithChild(p, b, r)
  OBVIOUS
<1> PICK q \in Seq(Byte) : q = heap[p].prefix /\ Len(q) \in Nat /\ below = d + Len(q)
  BY <1>1, PrefixBytes
<1>2. Len(k) \in Nat
  OBVIOUS
<1>3. Joins(k, key, below) <=> PrefixAt(q, k, d) /\ below < Len(k) /\ k[below + 1] = b
  BY <1>1, <1>2, JoinsBelow
<1>4. below < Len(k) => k[below + 1] \in Byte /\ Rest(k, below) \in Seq(Byte)
  BY BytesLeft
<1>5. \A e \in Byte : kids[e] = IF e = b THEN r ELSE heap[p].kids[e]
  BY DEF WithChild
<1>6. \A e \in Byte : kids[e] \in (Alive \ {p}) \cup {None}
  BY <1>5 DEF HeldByParent, TreeHeap, HeapInv
<1>7. \A e \in Byte : \A x \in Seq(Byte) : Get(kids[e], x)' = Get(kids[e], x)
  <2> SUFFICES ASSUME NEW e \in Byte, NEW x \in Seq(Byte) PROVE Get(kids[e], x)' = Get(kids[e], x)
    OBVIOUS
  <2>1. PICK y \in (Alive \ {p}) \cup {None} : y = kids[e]
    BY <1>6
  <2>2. Get(y, x)' = Get(y, x)
    BY GetSpared
  <2> QED BY <2>1, <2>2
<1>8. /\ ~PrefixAt(q, k, d) => Get(p, Rest(k, d)) = None
      /\ PrefixAt(q, k, d) /\ below = Len(k) => Get(p, Rest(k, d)) = heap[p].value
      /\ PrefixAt(q, k, d) /\ below < Len(k) =>
           Get(p, Rest(k, d)) = Get(heap[p].kids[k[below + 1]], Rest(k, below))
  <2>1. /\ ~PrefixAt(q, k, d) => Get(p, Rest(k, d)) = None
        /\ PrefixAt(q, k, d) /\ d + Len(q) = Len(k) => Get(p, Rest(k, d)) = heap[p].value
        /\ PrefixAt(q, k, d) /\ d + Len(q) < Len(k) =>
             Get(p, Rest(k, d)) = Get(heap[p].kids[k[d + Len(q) + 1]], Rest(k, d + Len(q)))
    <3>1. Unfolds(p, q, k, d)
      BY <1>1, GetLawBefore
    <3> QED BY <3>1 DEF Unfolds
  <2> QED BY <1>2, <2>1
<1>9. PrefixAt(q, k, d) => below = Len(k) \/ below < Len(k)
  BY <1>2 DEF PrefixAt
<1>10. CASE kids = NoKids /\ heap[p].value = None
  <2>1. Get(c, Rest(k, d))' = None
    <3>1. c = None
      BY <1>10 DEF Becomes
    <3>2. Get(None, Rest(k, d))' = None
      BY GetNone DEF Get, Found, Path
    <3> QED BY <3>1, <3>2
  <2>2. \A e \in Byte : kids[e] = None
    BY <1>10 DEF NoKids
  <2>3. r = None /\ (\A x : Get(None, x) = None)
    BY <2>2, <1>5, GetNone
  <2>4. \A e \in Byte : e # b => heap[p].kids[e] = None
    BY <1>5, <2>2
  <2>5. ~Joins(k, key, below) => Get(p, Rest(k, d)) = None
    BY <1>3, <1>4, <1>8, <1>9, <1>10, <2>3, <2>4
  <2> QED BY <2>1, <2>3, <2>5
<1>11. CASE ~(kids = NoKids /\ heap[p].value = None)
  <2>1. /\ c = p /\ p \in Alive' /\ q = heap'[p].prefix
        /\ heap'[p].value = heap[p].value /\ heap'[p].kids = kids
    BY <1>11 DEF Becomes
  <2>2. /\ ~PrefixAt(q, k, d) => Get(p, Rest(k, d))' = None
        /\ PrefixAt(q, k, d) /\ below = Len(k) => Get(p, Rest(k, d))' = heap'[p].value
        /\ PrefixAt(q, k, d) /\ below < Len(k) =>
             Get(p, Rest(k, d))' = Get(heap[p].kids[k[below + 1]], Rest(k, below))'
    <3>1. /\ ~PrefixAt(q, k, d) => Get(p, Rest(k, d))' = None
          /\ PrefixAt(q, k, d) /\ d + Len(q) = Len(k) => Get(p, Rest(k, d))' = heap'[p].value
          /\ PrefixAt(q, k, d) /\ d + Len(q) < Len(k) =>
               Get(p, Rest(k, d))' = Get(heap[p].kids[k[d + Len(q) + 1]], Rest(k, d + Len(q)))'
      <4>1. Unfolds(p, q, k, d)'
        BY <2>1, GetLawAfter
      <4> QED BY <4>1 DEF Unfolds
    <3> QED BY <1>2, <3>1
  <2>3. PrefixAt(q, k, d) /\ below < Len(k) =>
          Get(p, Rest(k, d))' = Get(kids[k[below + 1]], Rest(k, below))
    BY <1>4, <1>7, <2>1, <2>2
  <2>4. /\ PrefixAt(q, k, d) /\ below < Len(k) /\ k[below + 1] = b =>
              kids[k[below + 1]] = r
        /\ PrefixAt(q, k, d) /\ below < Len(k) /\ k[below + 1] # b =>
              kids[k[below + 1]] = heap[p].kids[k[below + 1]]
    BY <1>4, <1>5
  <2> QED BY <1>3, <1>4, <1>8, <1>9, <2>1, <2>2, <2>3, <2>4
<1> QED BY <1>10, <1>11

-----------------------------------------------------------------------------
(* The activations of a call *)

\* Keys inside an activation have come along the call's key so far.
LEMMA InsideMeans ==
  ASSUME IInv, NEW h \in Handle, pc[h] \in InTree, ThreadRoute(h),
         NEW k \in Key, Inside(h, k), NEW d, d = depth[h]
  PROVE  Along(k, Step(h).key, d) /\ d <= Len(k) /\ d \in Nat /\ k \in Seq(Byte)
         /\ Rest(k, d) \in Seq(Byte)
<1>1. k \in Seq(Byte) /\ Len(k) \in Nat
  BY KeyAssumption
<1>2. d \in Nat
  BY DepthOnKey
<1>3. trail[h] = <<>> => d = 0
  <2>1. trail[h] = <<>> => Len(trail[h]) = 0
    OBVIOUS
  <2> QED BY <2>1 DEF ThreadRoute, DepthBelow
<1>4. Along(k, Step(h).key, d) /\ d <= Len(k)
  BY <1>1, <1>2, <1>3 DEF Inside, Along, Joins
<1> QED BY <1>1, <1>2, <1>4, RestBytes

\* The same for the suspended ones.
LEMMA ReachesMeans ==
  ASSUME IInv, NEW h \in Handle, pc[h] \in InTree, ThreadRoute(h), NEW i \in Frames(h),
         NEW k \in Key, Reaches(h, i, k), NEW d, d = trail[h][i].depth
  PROVE  Along(k, Step(h).key, d) /\ d <= Len(k) /\ d \in Nat /\ k \in Seq(Byte)
         /\ Rest(k, d) \in Seq(Byte)
<1>1. k \in Seq(Byte) /\ Len(k) \in Nat
  BY KeyAssumption
<1>2. d \in Nat
  BY WasInTree DEF Frame
<1>3. i = 1 => d = 0
  <2>1. d = DepthBelow(h, i - 1)
    BY DEF ThreadRoute
  <2> QED BY <2>1 DEF DepthBelow
<1>4. Along(k, Step(h).key, d) /\ d <= Len(k)
  BY <1>1, <1>2, <1>3 DEF Reaches, Along, Joins
<1> QED BY <1>1, <1>2, <1>4, RestBytes

\* What gets inside the running activation has come through the one above.
LEMMA InsideReaches ==
  ASSUME IInv, NEW h \in Handle, pc[h] \in InTree, ThreadRoute(h), trail[h] # <<>>,
         NEW L, L = Len(trail[h]), NEW k \in Key
  PROVE  /\ L \in Frames(h) /\ depth[h] = DepthBelow(h, L)
         /\ trail[h][L].depth \in Nat /\ depth[h] \in Nat
         /\ Len(heap[trail[h][L].node].prefix) \in Nat
         /\ depth[h] = trail[h][L].depth + Len(heap[trail[h][L].node].prefix)
         /\ Inside(h, k) <=> Joins(k, Step(h).key, depth[h])
         /\ Inside(h, k) => Reaches(h, L, k)
<1>1. L \in Nat /\ L \in Frames(h) /\ L # 0
  BY WasInTree DEF Frames
<1>2. depth[h] = DepthBelow(h, L)
  BY DEF ThreadRoute
<1>3. trail[h][L].depth \in Nat /\ trail[h][L].node \in Alive /\ TypeOK
  BY <1>1, WasInTree DEF Frame
<1>4. Len(heap[trail[h][L].node].prefix) \in Nat
  BY <1>3, AliveTyped DEF VersionedNode
<1>5. depth[h] = trail[h][L].depth + Len(heap[trail[h][L].node].prefix)
  BY <1>1, <1>2 DEF DepthBelow
<1>6. Inside(h, k) <=> Joins(k, Step(h).key, depth[h])
  BY DEF Inside
<1>7. Inside(h, k) => Reaches(h, L, k)
  <2>1. k \in Seq(Byte) /\ Step(h).key \in Seq(Byte)
    BY WasInTree, KeyAssumption
  <2>2. depth[h] \in Nat /\ trail[h][L].depth <= depth[h]
    BY <1>3, <1>4, <1>5
  <2>3. Joins(k, Step(h).key, depth[h]) => Joins(k, Step(h).key, trail[h][L].depth)
    BY <1>3, <2>1, <2>2, JoinsDown
  <2> QED BY <1>6, <2>3 DEF Reaches
<1> QED BY <1>1, <1>2, <1>3, <1>4, <1>5, <1>6, <1>7

\* An activation whose node is as it was shows what it showed.
LEMMA FrameStays ==
  ASSUME IInv, NEW h \in Handle, pc[h] \in InTree, ThreadRoute(h), NEW i \in Frames(h),
         trail'[h][i] = trail[h][i], Step(h)' = Step(h), NEW n, n = trail[h][i].node,
         heap'[n].prefix = heap[n].prefix,
         \A q \in Seq(Byte) : Get(n, q)' = Get(n, q),
         NEW m, FrameShows(h, i, m), NEW m2, \A k \in Key : k # Step(h).key => m2[k] = m[k]
  PROVE  FrameShows(h, i, m2)'
<1> PICK d, key : d = trail[h][i].depth /\ key = Step(h).key
  OBVIOUS
<1>1. i # 0
  BY WasInTree DEF Frames
<1>2. PICK e : e = DepthBelow(h, i)
  OBVIOUS
<1>3. DepthBelow(h, i)' = e
  BY <1>1, <1>2 DEF DepthBelow
<1>4. e < Len(key)
  <2>1. OnKey(trail[h][i], key)
    BY DEF ThreadRoute
  <2> QED BY <1>1, <1>2, <2>1 DEF OnKey, DepthBelow
<1>5. \A k : Reaches(h, i, k)' <=> Reaches(h, i, k)
  BY DEF Reaches
<1>6. ASSUME NEW k \in Key, Reaches(h, i, k), ~Joins(k, key, e)
      PROVE  m2[k] = Get(n, Rest(k, d))'
  <2>1. k # key
    BY <1>4, <1>6, JoinsItself
  <2>2. m[k] = Get(n, Rest(k, d))
    BY <1>2, <1>6 DEF FrameShows
  <2>3. Rest(k, d) \in Seq(Byte)
    BY <1>6, ReachesMeans
  <2> QED BY <2>1, <2>2, <2>3
<1>7. n = trail'[h][i].node /\ d = trail'[h][i].depth /\ key = Step(h).key'
  OBVIOUS
<1> QED BY <1>3, <1>5, <1>6, <1>7 DEF FrameShows

\* The activations that stay suspended while the thread makes a step.
LEMMA FramesKept ==
  ASSUME IInv, IInv', ShapeInv, ShapeInv', NEW h \in Handle, pc[h] \in InTree, ThreadRoute(h),
         Step(h)' = Step(h), NEW C, Spared(C),
         NEW m, \A i \in Frames(h) : FrameShows(h, i, m),
         NEW m2, \A k \in Key : k # Step(h).key => m2[k] = m[k],
         NEW i \in Frames(h), trail'[h][i] = trail[h][i], trail[h][i].node \in C
  PROVE  FrameShows(h, i, m2)'
<1>1. PICK n \in C : n = trail[h][i].node
  OBVIOUS
<1>2. heap'[n].prefix = heap[n].prefix
  BY DEF Spared, SameRoute
<1>3. TreeHeap /\ TreeHeap'
  BY TreeHeapHolds DEF TreeHeap, IInv, ShapeInv
<1>4. \A q \in Seq(Byte) : Get(n, q)' = Get(n, q)
  BY <1>3, GetSpared
<1>5. FrameShows(h, i, m)
  OBVIOUS
<1> QED BY <1>1, <1>2, <1>4, <1>5, FrameStays

\* A thread that stays where it is, while nothing it holds changes.
LEMMA StillShows ==
  ASSUME IInv, IInv', ShapeInv, ShapeInv', NEW h \in Handle, ThreadRoute(h), SameWalk(h),
         root'[h] = root[h], NEW C, Spared(C),
         \A n \in Alive : n \in TrailNodes(h) \cup {cur[h], res[h], root[h]} => n \in C,
         NEW m, Shows(h, m)
  PROVE  Shows(h, m)'
<1>1. TreeHeap /\ TreeHeap' /\ None \notin Alive
  BY TreeHeapHolds, AliveTyped DEF TreeHeap, IInv, ShapeInv
<1>2. \A n \in C \cup {None} : \A q \in Seq(Byte) : Get(n, q)' = Get(n, q)
  BY <1>1, GetSpared
<1>3. /\ pc'[h] = pc[h] /\ todo'[h] = todo[h] /\ Step(h)' = Step(h) /\ trail'[h] = trail[h]
      /\ cur'[h] = cur[h] /\ res'[h] = res[h] /\ depth'[h] = depth[h]
  BY DEF SameWalk, Step
<1>4. \A n \in {cur[h], res[h], root[h]} : n \in C \cup {None}
  BY DEF IInv, ThreadInv, HoldsAlive
<1>5. CASE pc[h] \notin InTree
  <2>1. m = Contents(h)
    BY <1>5 DEF Shows
  <2>2. \A k \in Key : Get(root[h], k)' = Get(root[h], k)
    <3>1. PICK r \in C \cup {None} : r = root[h]
      BY <1>4
    <3>2. \A k \in Key : Get(r, k)' = Get(r, k)
      BY <1>2, KeyAssumption
    <3> QED BY <3>1, <3>2
  <2>3. Contents(h)' = Contents(h)
    BY <2>2 DEF Contents
  <2> QED BY <1>3, <1>5, <2>1, <2>3 DEF Shows
<1>6. CASE pc[h] \in InTree
  <2>1. Frames(h)' = Frames(h) /\ \A i \in Frames(h) : trail[h][i].node \in C
    <3>1. \A i \in Frames(h) : trail[h][i].node \in TrailNodes(h) /\ trail[h][i].node \in Alive
      BY <1>6, WasInTree DEF Frames, TrailNodes
    <3> QED BY <1>3, <3>1 DEF Frames
  <2>2. \A i \in Frames(h) : FrameShows(h, i, m)
    BY <1>6 DEF Shows
  <2>3. \A i \in Frames(h)' : FrameShows(h, i, m)'
    <3> SUFFICES ASSUME NEW i \in Frames(h) PROVE FrameShows(h, i, m)'
      BY <2>1
    <3>1. trail'[h][i] = trail[h][i] /\ trail[h][i].node \in C /\ \A k \in Key : m[k] = m[k]
      BY <1>3, <2>1
    <3> QED BY <1>3, <1>6, <2>2, <3>1, FramesKept
  <2>4. \A k : Inside(h, k)' <=> Inside(h, k)
    BY <1>3 DEF Inside
  <2>5. PICK x, y, d, key : x = cur[h] /\ y = res[h] /\ d = depth[h] /\ key = Step(h).key
    OBVIOUS
  <2>6. x \in C \cup {None} /\ y \in C \cup {None}
    BY <1>4, <2>5
  <2>7. PICK below : below = d + Len(heap[x].prefix)
    OBVIOUS
  <2>8. pc[h] \in {"lift", "fix"} => below = d + Len(heap'[x].prefix) /\ below \in Nat
    <3> SUFFICES ASSUME pc[h] \in {"lift", "fix"}
                 PROVE  below = d + Len(heap'[x].prefix) /\ below \in Nat
      OBVIOUS
    <3>1. x \in Alive /\ heap[x] \in VersionedNode /\ d \in Nat
      BY <1>6, <2>5, WasInTree DEF TypeOK
    <3>2. x \in C
      BY <1>1, <2>6, <3>1
    <3>3. heap'[x].prefix = heap[x].prefix
      BY <3>2 DEF Spared, SameRoute
    <3> QED BY <2>7, <3>1, <3>3 DEF VersionedNode
  <2>9. ASSUME NEW k \in Key, Inside(h, k) PROVE InnerGet(h, k)' = InnerGet(h, k)
    <3>1. Rest(k, d) \in Seq(Byte) /\ k \in Seq(Byte)
      BY <1>6, <2>5, <2>9, InsideMeans
    <3>2. Get(x, Rest(k, d))' = Get(x, Rest(k, d)) /\ Get(y, Rest(k, d))' = Get(y, Rest(k, d))
      BY <1>2, <2>6, <3>1
    <3>3. pc[h] \in {"lift", "fix"} /\ Joins(k, key, below) =>
            Get(y, Rest(k, below))' = Get(y, Rest(k, below))
      <4> SUFFICES ASSUME pc[h] \in {"lift", "fix"}, Joins(k, key, below)
                   PROVE  Get(y, Rest(k, below))' = Get(y, Rest(k, below))
        OBVIOUS
      <4>1. below \in Nat /\ below < Len(k) /\ Len(k) \in Nat
        BY <2>8, <3>1 DEF Joins
      <4>2. Rest(k, below) \in Seq(Byte)
        BY <3>1, <4>1, RestBytes
      <4> QED BY <1>2, <2>6, <4>2
    <3>4. InnerGet(h, k) =
            CASE pc[h] \in {"visit", "edit"} -> Get(x, Rest(k, d))
              [] pc[h] \in {"lift", "fix"} -> IF Joins(k, key, below) THEN Get(y, Rest(k, below))
                                                                     ELSE Get(x, Rest(k, d))
              [] OTHER -> Get(y, Rest(k, d))
      BY <2>5, <2>7 DEF InnerGet
    <3>5. CASE pc[h] \in {"visit", "edit"}
      BY <1>3, <2>5, <3>2, <3>4, <3>5 DEF InnerGet
    <3>6. CASE pc[h] \in {"lift", "fix"}
      BY <1>3, <2>5, <2>8, <3>2, <3>3, <3>4, <3>6 DEF InnerGet
    <3>7. CASE pc[h] \notin {"visit", "edit", "lift", "fix"}
      BY <1>3, <2>5, <3>2, <3>4, <3>7 DEF InnerGet
    <3> QED BY <3>5, <3>6, <3>7
  <2>10. InnerShows(h, m)'
    <3>1. InnerShows(h, m)
      BY <1>6 DEF Shows
    <3> QED BY <2>4, <2>9, <3>1 DEF InnerShows
  <2> QED BY <1>3, <1>6, <2>3, <2>10 DEF Shows
<1> QED BY <1>5, <1>6

-----------------------------------------------------------------------------
(* What the walk of a call does to its map *)

\* A step that writes to no allocated node spares them all.
LEMMA SparedAll ==
  ASSUME IInv, \A n \in Alive : heap'[n] = heap[n]
  PROVE  Spared(Alive)
<1>1. None \notin Alive
  BY AliveTyped DEF IInv
<1>2. Downward(Alive)
  BY DEF Downward, IInv, HeapInv
<1>3. \A n \in Alive : SameRoute(n) /\ heap'[n].value = heap[n].value
  BY DEF SameRoute, Alive
<1> QED BY <1>2, <1>3 DEF Spared

\* The whole of a key.
LEMMA WholeRest ==
  ASSUME NEW k \in Seq(Byte)
  PROVE  Rest(k, 0) = k
<1>1. 0 \in Nat /\ 0 <= Len(k) /\ Len(k) \in Nat
  OBVIOUS
<1>2. /\ Rest(k, 0) \in Seq(Byte) /\ Len(Rest(k, 0)) = Len(k) - 0
      /\ \A i \in 1..Len(k) - 0 : Rest(k, 0)[i] = k[0 + i]
  BY <1>1, RestBytes
<1>3. Len(Rest(k, 0)) = Len(k) /\ \A i \in 1..Len(k) : Rest(k, 0)[i] = k[i]
  BY <1>1, <1>2
<1> QED BY <1>2, <1>3, SeqEqual

\* A thread that stays in its tree, with suspended activations that are as they
\* were or new ones that show their part.
LEMMA WalkShows ==
  ASSUME IInv, IInv', ShapeInv, ShapeInv', NEW h \in Handle, pc[h] \in InTree,
         pc'[h] \in InTree, ThreadRoute(h), Step(h)' = Step(h), NEW C, Spared(C),
         NEW m, Shows(h, m), NEW m2, \A k \in Key : k # Step(h).key => m2[k] = m[k],
         \A i \in Frames(h)' :
           \/ i \in Frames(h) /\ trail'[h][i] = trail[h][i] /\ trail[h][i].node \in C
           \/ FrameShows(h, i, m2)',
         InnerShows(h, m2)'
  PROVE  Shows(h, m2)'
<1>1. \A i \in Frames(h) : FrameShows(h, i, m)
  BY DEF Shows
<1>2. ASSUME NEW i \in Frames(h)' PROVE FrameShows(h, i, m2)'
  <2>1. CASE i \in Frames(h) /\ trail'[h][i] = trail[h][i] /\ trail[h][i].node \in C
    BY <1>1, <2>1, FramesKept
  <2> QED BY <2>1
<1> QED BY <1>2 DEF Shows

\* What the running activation can tell of the call's key on the way down.
LEMMA HereValue ==
  ASSUME IInv, ShapeInv, NEW h \in Handle, pc[h] \in {"visit", "edit"}, ThreadRoute(h),
         NEW m, Shows(h, m), NEW key, key = Step(h).key, NEW d \in Nat, d = depth[h]
  PROVE  /\ key \in Key /\ key \in Seq(Byte) /\ Inside(h, key) /\ d <= Len(key)
         /\ m[key] = Get(cur[h], Rest(key, d))
         /\ PlaceOf(h) = "at" => m[key] = heap[cur[h]].value
         /\ PlaceOf(h) \notin {"at", "child"} => m[key] = None
<1>1. /\ pc[h] \in InTree /\ TypeOK /\ Step(h) \in Call /\ cur[h] \in Alive
      /\ heap[cur[h]] \in VersionedNode /\ trail[h] \in Seq(Frame)
  BY WasInTree DEF InTree
<1>2. key \in Key /\ key \in Seq(Byte) /\ d <= Len(key)
  <2>1. key \in Key
    BY <1>1 DEF Call
  <2> QED BY <1>1, <2>1, DepthOnKey, KeyAssumption
<1>3. Inside(h, key)
  <2>1. trail[h] # <<>> => d < Len(key)
    BY DEF ShapeInv, ThreadShape
  <2> QED BY <2>1, JoinsItself DEF Inside
<1>4. m[key] = Get(cur[h], Rest(key, d))
  <2>1. InnerShows(h, m)
    BY <1>1 DEF Shows
  <2>2. InnerGet(h, key) = Get(cur[h], Rest(key, d))
    BY DEF InnerGet
  <2> QED BY <1>2, <1>3, <2>1, <2>2 DEF InnerShows
<1>5. PICK nd \in VersionedNode : nd = heap[cur[h]]
  BY <1>1
<1>6. PICK p \in Seq(Byte) : p = nd.prefix /\ Len(p) \in Nat
  BY PrefixBytes
<1>7. TreeHeap
  BY TreeHeapHolds
<1>8. Unfolds(cur[h], p, key, d)
  BY <1>1, <1>2, <1>5, <1>6, <1>7, GetLawBefore
<1>9. /\ PlaceOf(h) = Place(nd, key, d)
      /\ Place(nd, key, d) = "at" <=> PrefixAt(p, key, d) /\ d + Len(p) = Len(key)
      /\ Place(nd, key, d) = "child" <=>
           /\ PrefixAt(p, key, d) /\ d + Len(p) < Len(key)
           /\ ~nd.leaf /\ nd.kids[EdgeOf(nd, key, d)] # None
  <2>1. PlaceOf(h) = Place(nd, key, d)
    BY <1>5 DEF PlaceOf
  <2>2. /\ Place(nd, key, d) = "at" <=> PrefixAt(nd.prefix, key, d) /\ d + Len(nd.prefix) = Len(key)
        /\ Place(nd, key, d) = "child" <=>
             /\ PrefixAt(nd.prefix, key, d) /\ d + Len(nd.prefix) < Len(key)
             /\ ~nd.leaf /\ nd.kids[EdgeOf(nd, key, d)] # None
    BY <1>2, PlaceMeans
  <2> QED BY <1>6, <2>1, <2>2
<1>10. PlaceOf(h) = "at" => m[key] = heap[cur[h]].value
  BY <1>4, <1>8, <1>9 DEF Unfolds
<1>11. ASSUME PlaceOf(h) \notin {"at", "child"} PROVE m[key] = None
  <2>1. CASE ~PrefixAt(p, key, d)
    BY <1>4, <1>8, <2>1 DEF Unfolds
  <2>2. CASE PrefixAt(p, key, d)
    <3>1. d + Len(p) < Len(key)
      <4>1. d + Len(p) <= Len(key) /\ Len(key) \in Nat
        BY <1>2, <2>2 DEF PrefixAt
      <4>2. d + Len(p) # Len(key)
        BY <1>9, <1>11, <2>2
      <4> QED BY <1>6, <4>1, <4>2
    <3>2. nd.leaf \/ nd.kids[EdgeOf(nd, key, d)] = None
      BY <1>9, <1>11, <2>2, <3>1
    <3>3. EdgeOf(nd, key, d) = key[d + Len(p) + 1] /\ key[d + Len(p) + 1] \in Byte
      <4>1. d + Len(p) \in Nat
        BY <1>6
      <4>2. key[d + Len(p) + 1] \in Byte
        BY <1>2, <3>1, <4>1, BytesLeft
      <4> QED BY <1>6, <4>2 DEF EdgeOf
    <3>4. nd.kids[key[d + Len(p) + 1]] = None
      BY <1>1, <1>5, <3>2, <3>3 DEF ShapeInv, EdgesRight
    <3>5. m[key] = Get(heap[cur[h]].kids[key[d + Len(p) + 1]], Rest(key, d + Len(p)))
      BY <1>4, <1>8, <2>2, <3>1 DEF Unfolds
    <3> QED BY <1>5, <3>4, <3>5, GetNone
  <2> QED BY <2>1, <2>2
<1> QED BY <1>2, <1>3, <1>4, <1>10, <1>11

\* The nodes of the suspended activations are allocated.
LEMMA TrailAlive ==
  ASSUME IInv, NEW h \in Handle, pc[h] \in InTree
  PROVE  TrailNodes(h) \subseteq Alive
BY WasInTree DEF TrailNodes, Frames

\* What is returned in the place of n answers like n, but v for the key.
AnswersBut(c, key, d, v, n) ==
  \A k \in Seq(Byte) : Along(k, key, d) /\ d <= Len(k) =>
    Get(c, Rest(k, d))' = IF k = key THEN v ELSE Get(n, Rest(k, d))

\* The map m2 has v for the key, and is m elsewhere.
DiffersAt(m, m2, key, v) == m2[key] = v /\ \A k \in Key : k # key => m2[k] = m[k]

\* The activation where the walk ends returns c instead of its node.
TurnsBack(h, c, C) ==
  /\ pc[h] \in {"visit", "edit"} /\ pc'[h] = "up" /\ todo'[h] = todo[h] /\ trail'[h] = trail[h]
  /\ depth'[h] = depth[h] /\ Spared(C) /\ TrailNodes(h) \subseteq C /\ c = res'[h]

\* The end of the descent: what is returned answers the keys inside as the node
\* did, but for the call's key.
LEMMA TurnShows ==
  ASSUME IInv, IInv', ShapeInv, ShapeInv', NEW h \in Handle, ThreadRoute(h),
         NEW m, Shows(h, m), NEW key, key = Step(h).key, NEW d \in Nat, d = depth[h],
         NEW n, n = cur[h], NEW C, NEW c, TurnsBack(h, c, C),
         NEW v, AnswersBut(c, key, d, v, n), NEW m2, DiffersAt(m, m2, key, v)
  PROVE  Shows(h, m2)'
<1>1. /\ pc[h] \in {"visit", "edit"} /\ pc'[h] = "up" /\ todo'[h] = todo[h] /\ trail'[h] = trail[h]
      /\ depth'[h] = depth[h] /\ Spared(C) /\ TrailNodes(h) \subseteq C /\ c = res'[h]
  BY DEF TurnsBack
<1>2. /\ pc[h] \in InTree /\ pc'[h] \in InTree /\ Step(h)' = Step(h)
      /\ \A k : Inside(h, k)' <=> Inside(h, k)
  BY <1>1 DEF InTree, Step, Inside
<1>3. \A i \in Frames(h)' : i \in Frames(h) /\ trail'[h][i] = trail[h][i] /\ trail[h][i].node \in C
  <2>1. Frames(h)' = Frames(h)
    BY <1>1 DEF Frames
  <2>2. \A i \in Frames(h) : trail[h][i].node \in TrailNodes(h)
    BY <1>2, WasInTree DEF Frames, TrailNodes
  <2> QED BY <1>1, <2>1, <2>2
<1>4. m2[key] = v /\ \A k \in Key : k # key => m2[k] = m[k]
  BY DEF DiffersAt
<1>5. ASSUME NEW k \in Key, Inside(h, k) PROVE m2[k] = InnerGet(h, k)'
  <2>1. Along(k, key, d) /\ d <= Len(k) /\ k \in Seq(Byte)
    BY <1>2, <1>5, InsideMeans
  <2>2. m[k] = Get(n, Rest(k, d))
    <3>1. InnerShows(h, m)
      BY <1>2 DEF Shows
    <3> QED BY <1>1, <1>5, <3>1 DEF InnerShows, InnerGet
  <2>3. Get(c, Rest(k, d))' = IF k = key THEN v ELSE Get(n, Rest(k, d))
    BY <2>1 DEF AnswersBut
  <2>4. InnerGet(h, k)' = Get(c, Rest(k, d))'
    BY <1>1 DEF InnerGet
  <2> QED BY <1>4, <2>2, <2>3, <2>4
<1>6. InnerShows(h, m2)'
  BY <1>2, <1>5 DEF InnerShows
<1> QED BY <1>1, <1>2, <1>3, <1>4, <1>6, WalkShows

\* cow_path_to_key at its end, and update with a callback that declines.
LEMMA StayShows ==
  ASSUME IInv, IInv', ShapeInv, ShapeInv', NEW h \in Handle, ThreadRoute(h),
         PathReady(h) \/ Decline(h), NEW m, Shows(h, m)
  PROVE  Shows(h, m)'
<1>1. /\ pc[h] \in {"visit", "edit"} /\ pc[h] \in InTree /\ TypeOK /\ cur[h] \in Alive
      /\ heap' = heap /\ todo' = todo /\ trail' = trail /\ depth' = depth
  <2>1. /\ pc[h] \in {"visit", "edit"} /\ pc[h] \in InTree
        /\ heap' = heap /\ todo' = todo /\ trail' = trail /\ depth' = depth
    BY DEF PathReady, Decline, Unwrapped, Running, InTree, callVars, walkVars
  <2> QED BY <2>1, WasInTree
<1>2. pc'[h] = "up" /\ res'[h] = cur[h]
  BY <1>1 DEF PathReady, Decline, ReturnNode, TypeOK
<1>3. Spared(Alive) /\ TreeHeap /\ TreeHeap'
  BY <1>1, SparedAll, TreeHeapHolds DEF TreeHeap, IInv, ShapeInv
<1>4. PICK d \in Nat : d = depth[h]
  BY <1>1, DepthOnKey
<1> PICK key : key = Step(h).key
  OBVIOUS
<1>5. m[key] = Get(cur[h], Rest(key, d)) /\ key \in Key
  BY <1>1, <1>4, HereValue
<1>6. PICK r \in Alive \cup {None} : r = cur[h]
  BY <1>1
<1>7. AnswersBut(r, key, d, m[key], r)
  <2> SUFFICES ASSUME NEW k \in Seq(Byte), d <= Len(k)
               PROVE  Get(r, Rest(k, d))' = IF k = key THEN m[key] ELSE Get(r, Rest(k, d))
    BY DEF AnswersBut
  <2>1. Rest(k, d) \in Seq(Byte)
    BY RestBytes
  <2>2. Get(r, Rest(k, d))' = Get(r, Rest(k, d))
    BY <1>3, <2>1, GetSpared
  <2> QED BY <1>5, <1>6, <2>2
<1>8. TurnsBack(h, r, Alive)
  BY <1>1, <1>2, <1>3, <1>6, TrailAlive DEF TurnsBack
<1>9. DiffersAt(m, m, key, m[key])
  BY DEF DiffersAt
<1> QED BY <1>4, <1>6, <1>7, <1>8, <1>9, TurnShows

\* The walk begins at the root, with the whole key.
LEMMA StartShows ==
  ASSUME IInv, IInv', ShapeInv, ShapeInv', NEW h \in Handle, Start(h), NEW m, Shows(h, m)
  PROVE  Shows(h, m)'
<1>1. /\ pc[h] \notin InTree /\ TypeOK /\ heap' = heap /\ trail' = trail /\ ThreadInv(h)
      /\ root[h] # None
  BY DEF Start, Running, InTree, IInv
<1>2. pc'[h] = "visit" /\ cur'[h] = root[h] /\ depth'[h] = 0
  BY <1>1 DEF Start, TypeOK
<1>3. trail'[h] = <<>> /\ Frames(h)' = {}
  <2>1. trail'[h] = <<>>
    BY <1>1 DEF ThreadInv, PhaseOf
  <2> QED BY <2>1 DEF Frames
<1>4. PICK r \in Alive : r = root[h]
  BY <1>1 DEF ThreadInv, HoldsAlive
<1>5. Spared(Alive) /\ TreeHeap /\ TreeHeap'
  BY <1>1, SparedAll, TreeHeapHolds DEF TreeHeap, IInv, ShapeInv
<1>6. ASSUME NEW k \in Key PROVE m[k] = InnerGet(h, k)'
  <2>1. k \in Seq(Byte)
    BY KeyAssumption
  <2>2. m[k] = Get(r, k)
    BY <1>1, <1>4 DEF Shows, Contents
  <2>3. Get(r, k)' = Get(r, k)
    BY <1>5, <2>1, GetSpared
  <2>4. Rest(k, 0) = k
    BY <2>1, WholeRest
  <2>5. InnerGet(h, k)' = Get(r, Rest(k, 0))'
    BY <1>2, <1>4 DEF InnerGet
  <2> QED BY <2>2, <2>3, <2>4, <2>5
<1>7. InnerShows(h, m)'
  BY <1>6 DEF InnerShows
<1> QED BY <1>2, <1>3, <1>7 DEF Shows, InTree

\* ensure_cow_node: what it returns answers as what it was given did.
LEMMA EnsuredGet ==
  ASSUME IInv, IInv', ShapeInv, ShapeInv', NEW h \in Handle,
         EnsureCowOwned(h) \/ EnsureCowShared(h), NEW n, n = cur[h], NEW c, c = cur'[h]
  PROVE  /\ Spared(Alive) /\ heap'[c].prefix = heap[n].prefix
         /\ \A k \in Seq(Byte) : \A d \in Nat : d <= Len(k) =>
              Get(c, Rest(k, d))' = Get(n, Rest(k, d))
<1>1. TypeOK /\ n \in Node /\ n \in Alive /\ heap[n] \in VersionedNode /\ Target(h) \in Nat
  BY WasEnsuring DEF EnsureCowOwned, EnsureCowShared, IInv
<1>2. TreeHeap /\ TreeHeap'
  BY TreeHeapHolds DEF TreeHeap, IInv, ShapeInv
<1>3. Downward(Alive)
  BY AliveTyped DEF Downward, IInv, HeapInv
<1>4. CASE EnsureCowOwned(h)
  <2>1. heap' = [heap EXCEPT ![n].version = Target(h)] /\ c = n
    BY <1>4 DEF EnsureCowOwned
  <2>2. \A m \in Alive : SameRoute(m) /\ heap'[m].value = heap[m].value
    <3> SUFFICES ASSUME NEW m \in Alive PROVE SameRoute(m) /\ heap'[m].value = heap[m].value
      OBVIOUS
    <3>1. m \in Node /\ heap[m] \in VersionedNode /\ heap[m] # None
      BY <1>1, AliveTyped DEF Alive
    <3>2. CASE m # n
      <4>1. heap'[m] = heap[m]
        BY <1>1, <2>1, <3>1, <3>2 DEF TypeOK
      <4> QED BY <3>1, <4>1 DEF SameRoute
    <3>3. CASE m = n
      <4>1. heap'[m] = [heap[m] EXCEPT !.version = Target(h)]
        BY <1>1, <2>1, <3>1, <3>3 DEF TypeOK
      <4>2. heap'[m] \in VersionedNode
        BY <1>1, <3>1, <4>1 DEF VersionedNode
      <4>3. heap'[m] # None
        BY <4>2, NoneAssumption
      <4> QED BY <3>1, <4>1, <4>3 DEF SameRoute, VersionedNode
    <3> QED BY <3>2, <3>3
  <2>3. Spared(Alive)
    BY <1>3, <2>2 DEF Spared
  <2>4. heap'[c].prefix = heap[n].prefix
    BY <1>1, <2>1, <2>2 DEF SameRoute
  <2>5. \A k \in Seq(Byte) : \A d \in Nat : d <= Len(k) => Get(n, Rest(k, d))' = Get(n, Rest(k, d))
    <3> SUFFICES ASSUME NEW k \in Seq(Byte), NEW d \in Nat, d <= Len(k)
                 PROVE  Get(n, Rest(k, d))' = Get(n, Rest(k, d))
      OBVIOUS
    <3>1. Rest(k, d) \in Seq(Byte)
      BY RestBytes
    <3>2. n \in Alive \cup {None}
      BY <1>1
    <3> QED BY <1>2, <2>3, <3>1, <3>2, GetSpared
  <2> QED BY <2>1, <2>3, <2>4, <2>5
<1>5. CASE EnsureCowShared(h)
  <2>1. heap' = [heap EXCEPT ![c] = CowClone(heap[n], Target(h))] /\ c \in Node \ Alive
    BY <1>1, <1>5, FreshNames DEF EnsureCowShared, TypeOK
  <2>2. PICK nd : nd = CowClone(heap[n], Target(h))
    OBVIOUS
  <2>3. /\ nd \in VersionedNode /\ nd.prefix = heap[n].prefix /\ nd.value = heap[n].value
        /\ nd.kids = heap[n].kids
    BY <1>1, <2>2 DEF CowClone, VersionedNode
  <2>4. \A m \in Alive : heap'[m] = heap[m]
    BY <1>1, <2>1 DEF TypeOK, Alive
  <2>5. Spared(Alive)
    BY <2>4, SparedAll
  <2>6. heap'[c] = nd /\ c \in Alive'
    <3>1. heap'[c] = nd
      BY <1>1, <2>1, <2>2 DEF TypeOK
    <3>2. nd # None
      BY <2>3, NoneAssumption
    <3> QED BY <2>1, <3>1, <3>2 DEF Alive
  <2>7. ASSUME NEW k \in Seq(Byte), NEW d \in Nat, d <= Len(k)
        PROVE  Get(c, Rest(k, d))' = Get(n, Rest(k, d))
    <3>1. PICK p \in Seq(Byte) : p = heap[n].prefix /\ Len(p) \in Nat
      BY <1>1, PrefixBytes
    <3>2. PICK e \in Nat : e = d + Len(p)
      BY <3>1
    <3>3. e < Len(k) => Get(heap[c].kids[k[e + 1]], Rest(k, e))'
                          = Get(heap[n].kids[k[e + 1]], Rest(k, e))
      <4> SUFFICES ASSUME e < Len(k)
                   PROVE  Get(heap[c].kids[k[e + 1]], Rest(k, e))'
                            = Get(heap[n].kids[k[e + 1]], Rest(k, e))
        OBVIOUS
      <4>1. k[e + 1] \in Byte /\ Rest(k, e) \in Seq(Byte)
        BY BytesLeft
      <4>2. PICK y \in Alive \cup {None} : y = heap[n].kids[k[e + 1]]
        BY <1>1, <1>3, <4>1 DEF Downward
      <4>3. Get(y, Rest(k, e))' = Get(y, Rest(k, e))
        BY <1>2, <2>5, <4>1, GetSpared
      <4>4. heap'[c].kids[k[e + 1]] = y
        BY <2>3, <2>6, <4>2
      <4> QED BY <4>2, <4>3, <4>4
    <3>4. heap'[c].value = heap[n].value /\ p = heap'[c].prefix
      BY <2>3, <2>6, <3>1
    <3>5. d + Len(p) < Len(k) => Get(heap[c].kids[k[d + Len(p) + 1]], Rest(k, d + Len(p)))'
                                   = Get(heap[n].kids[k[d + Len(p) + 1]], Rest(k, d + Len(p)))
      BY <3>2, <3>3
    <3>6. SameThere(n, c, p, k, d)
      BY <3>4, <3>5 DEF SameThere
    <3>7. /\ TreeHeap /\ TreeHeap' /\ n \in Alive /\ c \in Alive'
          /\ p = heap[n].prefix /\ p = heap'[c].prefix
      BY <1>1, <1>2, <2>6, <3>1, <3>4
    <3>8. SameThere(n, c, p, k, d) => Get(c, Rest(k, d))' = Get(n, Rest(k, d))
      BY <2>7, <3>7, NodeKept
    <3> QED BY <3>6, <3>8
  <2> QED BY <2>3, <2>5, <2>6, <2>7
<1> QED BY <1>4, <1>5

\* It leaves the map alone, on the way down and on the way up.
LEMMA EnsureShows ==
  ASSUME IInv, IInv', ShapeInv, ShapeInv', NEW h \in Handle, ThreadRoute(h),
         EnsureCowOwned(h) \/ EnsureCowShared(h), NEW m, Shows(h, m)
  PROVE  Shows(h, m)'
<1>1. TypeOK /\ pc[h] \in {"visit", "lift"} /\ pc[h] \in InTree /\ drops[h] = {}
  BY WasEnsuring DEF EnsureCowOwned, EnsureCowShared, IInv
<1>2. /\ todo'[h] = todo[h] /\ trail'[h] = trail[h] /\ depth'[h] = depth[h] /\ res'[h] = res[h]
      /\ pc'[h] = IF pc[h] = "visit" THEN "edit" ELSE "fix"
  BY <1>1 DEF EnsureCowOwned, EnsureCowShared, Ensured, TypeOK, callVars, walkVars
<1>3. /\ pc'[h] \in InTree /\ Step(h)' = Step(h) /\ Frames(h)' = Frames(h)
      /\ \A k : Inside(h, k)' <=> Inside(h, k)
  BY <1>1, <1>2 DEF InTree, Step, Inside, Frames
<1>4. PICK n, c, y, key : n = cur[h] /\ c = cur'[h] /\ y = res[h] /\ key = Step(h).key
  OBVIOUS
<1>5. /\ Spared(Alive) /\ heap'[c].prefix = heap[n].prefix
      /\ \A k \in Seq(Byte) : \A d \in Nat : d <= Len(k) =>
           Get(c, Rest(k, d))' = Get(n, Rest(k, d))
  BY <1>4, EnsuredGet
<1>6. TreeHeap /\ TreeHeap'
  BY TreeHeapHolds DEF TreeHeap, IInv, ShapeInv
<1>7. /\ y \in Alive \cup {None} /\ heap[n] \in VersionedNode
      /\ \A i \in Frames(h) : trail[h][i].node \in Alive
  BY <1>1, <1>4, WasInTree
<1>8. PICK d \in Nat : d = depth[h]
  BY <1>1, DepthOnKey
<1>9. PICK e \in Nat : e = d + Len(heap[n].prefix)
  BY <1>7, PrefixBytes
<1>10. ASSUME NEW k \in Key, Inside(h, k) PROVE m[k] = InnerGet(h, k)'
  <2>1. d <= Len(k) /\ k \in Seq(Byte)
    BY <1>1, <1>8, <1>10, InsideMeans
  <2>2. m[k] = InnerGet(h, k)
    BY <1>1, <1>10 DEF Shows, InnerShows
  <2>3. Get(c, Rest(k, d))' = Get(n, Rest(k, d))
    BY <1>5, <2>1
  <2>4. CASE pc[h] = "visit"
    <3>1. InnerGet(h, k) = Get(n, Rest(k, d))
      BY <1>4, <1>8, <2>4 DEF InnerGet
    <3>2. InnerGet(h, k)' = Get(c, Rest(k, d))'
      BY <1>2, <1>4, <1>8, <2>4 DEF InnerGet
    <3> QED BY <2>2, <2>3, <3>1, <3>2
  <2>5. CASE pc[h] = "lift"
    <3>1. InnerGet(h, k) = IF Joins(k, key, e) THEN Get(y, Rest(k, e)) ELSE Get(n, Rest(k, d))
      BY <1>4, <1>8, <1>9, <2>5 DEF InnerGet
    <3>2. /\ pc'[h] = "fix" /\ cur'[h] = c /\ res'[h] = y /\ depth'[h] = d
          /\ Step(h).key' = key /\ e = d + Len(heap'[c].prefix)
      BY <1>2, <1>3, <1>4, <1>5, <1>8, <1>9, <2>5
    <3>3. InnerGet(h, k)' = IF Joins(k, key, e) THEN Get(y, Rest(k, e))' ELSE Get(c, Rest(k, d))'
      BY <3>2 DEF InnerGet
    <3>4. Joins(k, key, e) => Get(y, Rest(k, e))' = Get(y, Rest(k, e))
      <4> SUFFICES ASSUME Joins(k, key, e) PROVE Get(y, Rest(k, e))' = Get(y, Rest(k, e))
        OBVIOUS
      <4>1. Rest(k, e) \in Seq(Byte)
        BY <2>1, BytesLeft DEF Joins
      <4> QED BY <1>5, <1>6, <1>7, <4>1, GetSpared
    <3> QED BY <2>2, <2>3, <3>1, <3>3, <3>4
  <2> QED BY <1>1, <2>4, <2>5
<1>11. InnerShows(h, m)'
  BY <1>3, <1>10 DEF InnerShows
<1>12. \A i \in Frames(h)' : i \in Frames(h) /\ trail'[h][i] = trail[h][i] /\ trail[h][i].node \in Alive
  BY <1>2, <1>3, <1>7
<1>13. \A k \in Key : k # Step(h).key => m[k] = m[k]
  OBVIOUS
<1> QED BY <1>1, <1>3, <1>5, <1>11, <1>12, <1>13, WalkShows

\* The key goes on below a node it has a child in.
LEMMA GoesBelow ==
  ASSUME IInv, NEW h \in Handle, pc[h] \in {"visit", "edit"}, PlaceOf(h) = "child",
         NEW n, n = cur[h], NEW key, key = Step(h).key, NEW d \in Nat, d = depth[h],
         d <= Len(key), NEW p \in Seq(Byte), p = heap[n].prefix, NEW e \in Nat, e = d + Len(p),
         NEW b, b = EdgeOf(heap[n], key, d)
  PROVE  /\ key \in Seq(Byte) /\ n \in Alive /\ heap[n] \in VersionedNode /\ Len(key) \in Nat
         /\ b \in Byte /\ heap[n].kids[b] \in Alive /\ e < Len(key) /\ b = key[e + 1]
         /\ OnKey([node |-> n, edge |-> b, depth |-> d], key)
<1>1. /\ pc[h] \in InTree /\ n \in Alive /\ heap[n] \in VersionedNode
      /\ key \in Seq(Byte) /\ Len(key) \in Nat
  BY WasInTree DEF InTree
<1>2. Place(heap[n], key, d) = "child"
  BY DEF PlaceOf
<1>3. PICK nd \in VersionedNode : nd = heap[n]
  BY <1>1
<1>4. PrefixAt(p, key, d) /\ d + Len(p) < Len(key)
  BY <1>1, <1>2, <1>3, PlaceMeans
<1>5. b = key[e + 1]
  BY DEF EdgeOf
<1>6. b \in Byte
  BY <1>1, <1>4, <1>5, BytesLeft
<1>7. nd.kids[b] # None
  BY <1>1, <1>2, <1>3, PlaceMeans
<1>8. heap[n].kids[b] \in Alive
  BY <1>1, <1>3, <1>6, <1>7 DEF IInv, HeapInv
<1>9. OnKey([node |-> n, edge |-> b, depth |-> d], key)
  BY <1>4, <1>5 DEF OnKey, PrefixAt
<1> QED BY <1>1, <1>4, <1>5, <1>6, <1>8, <1>9

\* What the keys that get to n at the depth d find behind its edge b, which is on
\* the way of `key`.
EdgeAnswers(n, p, key, d, e, b, k) ==
  /\ JoinsBy(k, key, p, d, e, b)
  /\ Joins(k, key, e) => /\ Get(n, Rest(k, d)) = Get(heap[n].kids[b], Rest(k, e))
                         /\ Rest(k, e) \in Seq(Byte)

\* At a node that `key` goes through by the edge b, the keys that go the same
\* way are answered by the child there.
LEMMA ChildAnswers ==
  ASSUME TreeHeap, NEW n \in Alive, NEW key \in Seq(Byte), NEW d \in Nat, NEW p \in Seq(Byte),
         p = heap[n].prefix, NEW e \in Nat, e = d + Len(p), NEW b \in Byte,
         OnKey([node |-> n, edge |-> b, depth |-> d], key),
         NEW k \in Seq(Byte), Along(k, key, d), d <= Len(k)
  PROVE  EdgeAnswers(n, p, key, d, e, b, k)
<1>1. heap[n] \in VersionedNode
  BY AliveTyped DEF TreeHeap
<1>2. Joins(k, key, e) <=> PrefixAt(p, k, d) /\ e < Len(k) /\ k[e + 1] = b
  BY <1>1, JoinsBelow
<1>3. Unfolds(n, p, k, d)
  BY GetLawBefore
<1>4. Joins(k, key, e) => Get(n, Rest(k, d)) = Get(heap[n].kids[b], Rest(k, e))
  BY <1>2, <1>3 DEF Unfolds
<1>5. Joins(k, key, e) => Rest(k, e) \in Seq(Byte)
  BY <1>2, BytesLeft
<1> QED BY <1>2, <1>4, <1>5 DEF EdgeAnswers, JoinsBy

\* A step that changes what hangs off n under the edge b, and nothing in C, which
\* holds all of n's children.
ChangesEdge(C, n, b) ==
  /\ Spared(C) /\ \A c \in Byte : heap[n].kids[c] \in C \cup {None}
  /\ n \in Alive' /\ heap'[n].prefix = heap[n].prefix /\ heap'[n].value = heap[n].value
  /\ \A c \in Byte : c # b => heap'[n].kids[c] = heap[n].kids[c]

\* The other keys are answered as before by such a node.
LEMMA OtherEdges ==
  ASSUME TreeHeap, TreeHeap', NEW n \in Alive, NEW key \in Seq(Byte), NEW d \in Nat,
         NEW p \in Seq(Byte), p = heap[n].prefix, NEW e \in Nat, e = d + Len(p),
         NEW b \in Byte, OnKey([node |-> n, edge |-> b, depth |-> d], key),
         NEW C, ChangesEdge(C, n, b),
         NEW k \in Seq(Byte), Along(k, key, d), d <= Len(k), ~Joins(k, key, e)
  PROVE  Get(n, Rest(k, d))' = Get(n, Rest(k, d))
<1>1. ~(PrefixAt(p, k, d) /\ e < Len(k) /\ k[e + 1] = b)
  <2>1. EdgeAnswers(n, p, key, d, e, b, k)
    BY ChildAnswers
  <2> QED BY <2>1 DEF EdgeAnswers, JoinsBy
<1>2. PrefixAt(p, k, d) /\ e < Len(k) =>
        Get(heap[n].kids[k[e + 1]], Rest(k, e))' = Get(heap[n].kids[k[e + 1]], Rest(k, e))
  <2> SUFFICES ASSUME PrefixAt(p, k, d), e < Len(k)
               PROVE  Get(heap[n].kids[k[e + 1]], Rest(k, e))'
                        = Get(heap[n].kids[k[e + 1]], Rest(k, e))
    OBVIOUS
  <2>1. k[e + 1] \in Byte /\ Rest(k, e) \in Seq(Byte) /\ k[e + 1] # b
    BY <1>1, BytesLeft
  <2>2. PICK y \in C \cup {None} : y = heap[n].kids[k[e + 1]]
    BY <2>1 DEF ChangesEdge
  <2>3. heap'[n].kids[k[e + 1]] = y
    BY <2>1, <2>2 DEF ChangesEdge
  <2>4. Get(y, Rest(k, e))' = Get(y, Rest(k, e))
    BY <2>1, GetSpared DEF ChangesEdge
  <2> QED BY <2>2, <2>3, <2>4
<1>3. PrefixAt(p, k, d) /\ d + Len(p) < Len(k) =>
        Get(heap[n].kids[k[d + Len(p) + 1]], Rest(k, d + Len(p)))'
          = Get(heap[n].kids[k[d + Len(p) + 1]], Rest(k, d + Len(p)))
  BY <1>2
<1>4. PrefixAt(p, k, d) /\ d + Len(p) = Len(k) => heap'[n].value = heap[n].value
  BY DEF ChangesEdge
<1>5. p = heap'[n].prefix /\ n \in Alive'
  BY DEF ChangesEdge
<1>6. SameThere(n, n, p, k, d)
  BY <1>3, <1>4 DEF SameThere
<1> QED BY <1>5, <1>6, NodeKept

\* The activation of f is suspended, and that of its child runs.
PushedOn(h, f) ==
  /\ trail'[h] = Append(trail[h], f) /\ depth'[h] = f.depth + Len(heap[f.node].prefix)
  /\ pc'[h] = "visit" /\ todo'[h] = todo[h] /\ cur'[h] = heap[f.node].kids[f.edge]

\* Into a child, which update leaves in its parent and the others take out: the
\* parent keeps the keys that do not go that way.
LEMMA PushedShows ==
  ASSUME IInv, IInv', ShapeInv, ShapeInv', NEW h \in Handle, ThreadRoute(h),
         pc[h] \in {"visit", "edit"}, NEW m, Shows(h, m),
         NEW n \in Alive, n = cur[h], NEW key \in Seq(Byte), key = Step(h).key,
         NEW d \in Nat, d = depth[h], NEW p \in Seq(Byte), p = heap[n].prefix,
         NEW e \in Nat, e = d + Len(p), NEW b \in Byte,
         NEW f, f = [node |-> n, edge |-> b, depth |-> d], OnKey(f, key), PushedOn(h, f),
         NEW C, ChangesEdge(C, n, b), TrailNodes(h) \subseteq C
  PROVE  Shows(h, m)'
<1>1. f.node = n /\ f.depth = d /\ f.edge = b
  OBVIOUS
<1>2. PICK L : L = Len(trail[h])
  OBVIOUS
<1>3. /\ pc[h] \in InTree /\ pc'[h] \in InTree /\ trail[h] \in Seq(Frame) /\ L \in Nat
      /\ Frames(h) = 1..L /\ \A i \in 1..L : trail[h][i].node \in TrailNodes(h)
  BY <1>2, WasInTree DEF InTree, Frames, TrailNodes, PushedOn
<1>4. trail'[h] = Append(trail[h], [node |-> cur[h], edge |-> b, depth |-> depth[h]])
  BY DEF PushedOn
<1>5. /\ Frames(h)' = 1..L + 1 /\ trail'[h] # <<>> /\ trail'[h][L + 1] = f
      /\ \A i \in 1..L : trail'[h][i] = trail[h][i]
  <2>1. trail'[h] = Append(trail[h], f)
    BY DEF PushedOn
  <2>2. Frames(h)' = 1..L + 1 /\ trail'[h] \in Seq(Frame)
    BY <1>2, <1>4, Pushed
  <2>3. Len(trail'[h]) = L + 1
    BY <1>2, <1>3, <2>1
  <2>4. trail'[h] # <<>>
    BY <1>3, <2>3
  <2>5. trail'[h][L + 1] = f /\ \A i \in 1..L : trail'[h][i] = trail[h][i]
    BY <1>2, <1>3, <2>1
  <2> QED BY <2>2, <2>4, <2>5
<1>6. /\ Step(h)' = Step(h) /\ TreeHeap /\ TreeHeap' /\ pc'[h] = "visit" /\ depth'[h] = e
      /\ Spared(C) /\ cur'[h] = heap[n].kids[b]
  BY <1>1, TreeHeapHolds DEF TreeHeap, IInv, ShapeInv, Step, PushedOn, ChangesEdge
<1>7. \A k \in Key : Inside(h, k) =>
        k \in Seq(Byte) /\ Along(k, key, d) /\ d <= Len(k) /\ m[k] = Get(n, Rest(k, d))
  <2> SUFFICES ASSUME NEW k \in Key, Inside(h, k)
               PROVE  k \in Seq(Byte) /\ Along(k, key, d) /\ d <= Len(k) /\ m[k] = Get(n, Rest(k, d))
    OBVIOUS
  <2>1. k \in Seq(Byte) /\ Along(k, key, d) /\ d <= Len(k)
    BY <1>3, InsideMeans
  <2>2. m[k] = InnerGet(h, k)
    BY <1>3 DEF Shows, InnerShows
  <2> QED BY <2>1, <2>2 DEF InnerGet
<1>8. L = 0 <=> trail[h] = <<>>
  BY <1>2, <1>3
<1>9. \A k \in Key : Inside(h, k)' <=> Joins(k, key, e)
  BY <1>5, <1>6 DEF Inside
<1>10. \A k \in Key : Joins(k, key, e) => Inside(h, k)
  <2> SUFFICES ASSUME NEW k \in Key, Joins(k, key, e) PROVE Inside(h, k)
    OBVIOUS
  <2>1. k \in Seq(Byte) /\ d <= e
    BY KeyAssumption
  <2>2. Joins(k, key, d)
    BY <2>1, JoinsDown
  <2> QED BY <2>2 DEF Inside
<1>11. InnerShows(h, m)'
  <2>1. ASSUME NEW k \in Key, Joins(k, key, e) PROVE m[k] = InnerGet(h, k)'
    <3>1. PICK y \in C \cup {None} : y = heap[n].kids[b]
      BY DEF ChangesEdge
    <3>2. k \in Seq(Byte) /\ Along(k, key, d) /\ d <= Len(k) /\ m[k] = Get(n, Rest(k, d))
      BY <1>7, <1>10, <2>1
    <3>3. k \in Seq(Byte) /\ Along(k, key, d) /\ d <= Len(k) /\ TreeHeap
      BY <1>6, <3>2
    <3>4. Get(n, Rest(k, d)) = Get(heap[n].kids[b], Rest(k, e)) /\ Rest(k, e) \in Seq(Byte)
      <4>1. EdgeAnswers(n, p, key, d, e, b, k)
        BY <3>3, ChildAnswers
      <4> QED BY <2>1, <4>1 DEF EdgeAnswers
    <3>5. Get(y, Rest(k, e))' = Get(y, Rest(k, e))
      BY <1>6, <3>4, GetSpared
    <3>6. InnerGet(h, k)' = Get(y, Rest(k, e))'
      BY <1>6, <3>1 DEF InnerGet
    <3> QED BY <3>1, <3>2, <3>4, <3>5, <3>6
  <2> QED BY <1>9, <2>1 DEF InnerShows
<1>12. FrameShows(h, L + 1, m)'
  <2>1. DepthBelow(h, L + 1)' = e
    <3>1. L + 1 # 0 /\ heap'[n].prefix = p
      BY <1>3 DEF ChangesEdge
    <3> QED BY <1>1, <1>5, <3>1 DEF DepthBelow
  <2>2. \A k : Reaches(h, L + 1, k)' => Inside(h, k)
    <3>1. L + 1 = 1 <=> L = 0
      BY <1>3
    <3> QED BY <1>1, <1>5, <1>6, <1>8, <3>1 DEF Reaches, Inside
  <2>3. ASSUME NEW k \in Key, Inside(h, k), ~Joins(k, key, e)
        PROVE  m[k] = Get(n, Rest(k, d))'
    <3>1. k \in Seq(Byte) /\ Along(k, key, d) /\ d <= Len(k) /\ m[k] = Get(n, Rest(k, d))
      BY <1>7, <2>3
    <3>2. Get(n, Rest(k, d))' = Get(n, Rest(k, d))
      BY <1>6, <2>3, <3>1, OtherEdges
    <3> QED BY <3>1, <3>2
  <2>4. trail'[h][L + 1].node = n /\ trail'[h][L + 1].depth = d /\ Step(h).key' = key
    BY <1>1, <1>5, <1>6
  <2> QED BY <2>1, <2>2, <2>3, <2>4 DEF FrameShows
<1>13. \A i \in Frames(h)' :
         \/ i \in Frames(h) /\ trail'[h][i] = trail[h][i] /\ trail[h][i].node \in C
         \/ FrameShows(h, i, m)'
  <2> SUFFICES ASSUME NEW i \in 1..L + 1, i # L + 1
               PROVE  i \in Frames(h) /\ trail'[h][i] = trail[h][i] /\ trail[h][i].node \in C
    BY <1>5, <1>12
  <2>1. i \in 1..L
    BY <1>3
  <2> QED BY <1>3, <1>5, <2>1
<1>14. \A k \in Key : k # Step(h).key => m[k] = m[k]
  OBVIOUS
<1> QED BY <1>3, <1>6, <1>11, <1>13, <1>14, WalkShows

\* Every descent does that.
LEMMA DownShows ==
  ASSUME IInv, IInv', ShapeInv, ShapeInv', NEW h \in Handle, ThreadRoute(h),
         Descend(h) \/ Follow(h), NEW m, Shows(h, m)
  PROVE  Shows(h, m)'
<1>1. TypeOK /\ pc[h] \in {"visit", "edit"} /\ pc[h] \in InTree /\ PlaceOf(h) = "child"
  BY DEF Descend, Follow, Unwrapped, Running, IInv, InTree
<1>2. PICK n \in Alive : n = cur[h] /\ n \in Node /\ heap[n] \in VersionedNode
  BY <1>1, AtHand
<1>3. PICK d \in Nat : d = depth[h] /\ d <= Len(Step(h).key)
  BY <1>1, DepthOnKey
<1>4. PICK p \in Seq(Byte) : p = heap[n].prefix /\ Len(p) \in Nat
  BY <1>2, PrefixBytes
<1>5. PICK e \in Nat : e = d + Len(p)
  BY <1>4
<1>6. PICK key \in Seq(Byte) : key = Step(h).key
  BY <1>1, WasInTree
<1>7. PICK b : b = EdgeOf(heap[n], key, d)
  OBVIOUS
<1>8. b \in Byte /\ OnKey([node |-> n, edge |-> b, depth |-> d], key)
  BY <1>1, <1>2, <1>3, <1>4, <1>5, <1>6, <1>7, GoesBelow
<1> PICK f : f = [node |-> n, edge |-> b, depth |-> d]
  OBVIOUS
<1>9. f.node = n /\ f.edge = b /\ f.depth = d
  OBVIOUS
<1>10. PushedOn(h, f)
  <2>1. /\ trail'[h] = Append(trail[h], f) /\ depth'[h] = d + Len(heap[n].prefix)
        /\ pc'[h] = "visit" /\ todo'[h] = todo[h] /\ cur'[h] = heap[n].kids[b]
    BY <1>1, <1>2, <1>3, <1>6, <1>7, <1>9 DEF Descend, Follow, Running, TypeOK, callVars
  <2> QED BY <1>9, <2>1 DEF PushedOn
<1>11. TrailNodes(h) \subseteq Alive
  BY <1>1, TrailAlive
<1>12. CASE Descend(h)
  <2>1. heap' = [heap EXCEPT ![n] = DeleteChild(@, b)] /\ pc[h] = "edit"
    BY <1>2, <1>3, <1>6, <1>7, <1>12 DEF Descend, Unwrapped, Running
  <2>2. ~HeldElsewhere(h, n) /\ n \notin TrailNodes(h)
    BY <1>1, <1>2, <2>1, AtHand
  <2>3. heap'[n] = DeleteChild(heap[n], b) /\ \A x \in Alive : x # n => heap'[x] = heap[x]
    BY <1>1, <1>2, <2>1 DEF TypeOK, Alive
  <2>4. Spared(Alive \ {n})
    BY <2>2, <2>3, SparedAround DEF HeldElsewhere
  <2>5. /\ heap'[n] # None /\ heap'[n].prefix = heap[n].prefix /\ heap'[n].value = heap[n].value
        /\ \A c \in Byte : c # b => heap'[n].kids[c] = heap[n].kids[c]
    <3>1. DeleteChild(heap[n], b) # None
          /\ \A c \in Byte : DeleteChild(heap[n], b).kids[c] = IF c = b THEN None ELSE heap[n].kids[c]
      BY <1>2, <1>8, ChildDeleted
    <3>2. /\ DeleteChild(heap[n], b).prefix = heap[n].prefix
          /\ DeleteChild(heap[n], b).value = heap[n].value
      BY <1>2 DEF DeleteChild, VersionedNode
    <3> QED BY <2>3, <3>1, <3>2
  <2>6. \A c \in Byte : heap[n].kids[c] \in (Alive \ {n}) \cup {None}
    BY <2>2 DEF IInv, HeapInv, HeldElsewhere, HeldByParent
  <2>7. ChangesEdge(Alive \ {n}, n, b)
    BY <1>2, <2>4, <2>5, <2>6 DEF ChangesEdge, Alive
  <2>8. TrailNodes(h) \subseteq Alive \ {n}
    BY <1>11, <2>2
  <2> QED BY <1>1, <1>2, <1>3, <1>4, <1>5, <1>6, <1>8, <1>9, <1>10, <2>7, <2>8, PushedShows
<1>13. CASE Follow(h)
  <2>1. heap' = heap
    BY <1>13 DEF Follow
  <2>2. ChangesEdge(Alive, n, b)
    <3>1. Spared(Alive)
      BY <2>1, SparedAll
    <3>2. \A c \in Byte : heap[n].kids[c] \in Alive \cup {None}
      BY DEF IInv, HeapInv
    <3> QED BY <2>1, <3>1, <3>2 DEF ChangesEdge, Alive
  <2>3. TrailNodes(h) \subseteq Alive
    BY <1>11
  <2> QED BY <1>1, <1>2, <1>3, <1>4, <1>5, <1>6, <1>8, <1>9, <1>10, <2>2, <2>3, PushedShows
<1> QED BY <1>12, <1>13

\* A caller that takes back what its child's activation returned, r, under the
\* edge b of its node p.
TakesBack(h, p, nd, b, r) ==
  /\ Settle(h, p, nd) /\ nd.prefix = heap[p].prefix /\ nd.value = heap[p].value
  /\ nd.kids = WithChild(p, b, r)

\* What the caller returns then.
LEMMA TakenBack ==
  ASSUME IInv, IInv', ShapeInv, ShapeInv', NEW h \in Handle, NEW p \in Alive,
         NEW nd \in VersionedNode, NEW b \in Byte, NEW r \in (Alive \ {p}) \cup {None},
         TakesBack(h, p, nd, b, r), ~HeldByParent(p),
         NEW d \in Nat, NEW key \in Seq(Byte), OnKey([node |-> p, edge |-> b, depth |-> d], key),
         NEW below \in Nat, below = d + Len(heap[p].prefix), NEW c, c = res'[h]
  PROVE  Spared(Alive \ {p}) /\ AnswersWith(c, key, d, below, r, p)
<1>1. TypeOK /\ p \in Node /\ heap[p] \in VersionedNode /\ TreeHeap /\ TreeHeap'
  BY AliveTyped, TreeHeapHolds DEF TreeHeap, IInv, ShapeInv
<1>2. PICK empties \in BOOLEAN : empties <=> nd.kids = NoKids /\ nd.value = None
  OBVIOUS
<1>3. /\ heap' = [heap EXCEPT ![p] = IF empties THEN None ELSE nd]
      /\ c = IF empties THEN None ELSE p
  BY <1>1, <1>2 DEF TakesBack, Settle, TypeOK
<1>4. heap'[p] = (IF empties THEN None ELSE nd) /\ \A x \in Alive : x # p => heap'[x] = heap[x]
  BY <1>1, <1>3 DEF TypeOK, Alive
<1>5. Spared(Alive \ {p})
  BY <1>4, SparedAround
<1>6. /\ nd.prefix = heap[p].prefix /\ nd.value = heap[p].value /\ nd # None
      /\ nd.kids = WithChild(p, b, r)
  BY NoneAssumption DEF TakesBack
<1>7. Becomes(p, b, r, c)
  <2>1. empties <=> WithChild(p, b, r) = NoKids /\ heap[p].value = None
    BY <1>2, <1>6
  <2>2. CASE empties
    BY <1>3, <2>1, <2>2 DEF Becomes
  <2>3. CASE ~empties
    <3>1. c = p /\ heap'[p] = nd
      BY <1>3, <1>4, <2>3
    <3>2. p \in Alive'
      BY <1>1, <1>6, <3>1 DEF Alive
    <3> QED BY <1>6, <2>1, <2>3, <3>1, <3>2 DEF Becomes
  <2> QED BY <2>2, <2>3
<1>8. AnswersWith(c, key, d, below, r, p)
  BY <1>1, <1>5, <1>7, SettledGet
<1> QED BY <1>5, <1>8

\* The frame f is the innermost one, and the caller resumes there: `below` is the
\* depth of the activation that has returned r.
Resumes(h, f, key, below, r) ==
  /\ pc[h] = "up" /\ trail[h] # <<>> /\ todo'[h] = todo[h]
  /\ trail'[h] = Front(trail[h]) /\ depth'[h] = f.depth
  /\ f = trail[h][Len(trail[h])] /\ key = Step(h).key /\ below = depth[h] /\ r = res[h]

\* What the caller can tell of its node, its edge and its depth.
LEMMA Resuming ==
  ASSUME IInv, NEW h \in Handle, ThreadRoute(h), NEW f, NEW key, NEW below, NEW r,
         Resumes(h, f, key, below, r)
  PROVE  /\ pc[h] \in InTree /\ f.node \in Alive /\ f.edge \in Byte /\ f.depth \in Nat
         /\ key \in Seq(Byte) /\ below \in Nat /\ below = f.depth + Len(heap[f.node].prefix)
         /\ OnKey(f, key) /\ r \in Alive \cup {None}
         /\ Len(trail[h]) \in Frames(h) /\ DepthBelow(h, Len(trail[h])) = below
         /\ \A i \in Frames(h)' : /\ i \in Frames(h) /\ i # Len(trail[h])
                                  /\ trail'[h][i] = trail[h][i] /\ trail[h][i].node \in Alive
<1>1. /\ pc[h] \in InTree /\ trail[h] # <<>> /\ trail'[h] = Front(trail[h]) /\ TypeOK
      /\ f = trail[h][Len(trail[h])] /\ key = Step(h).key /\ below = depth[h] /\ r = res[h]
  BY DEF Resumes, InTree, IInv
<1>2. PICK L : L = Len(trail[h])
  OBVIOUS
<1>3. /\ L \in Frames(h) /\ f.edge \in Byte /\ f.depth \in Nat
      /\ \A i \in Frames(h)' : i \in Frames(h) /\ i # L /\ trail'[h][i] = trail[h][i]
  BY <1>1, <1>2, Popped
<1>4. f.node \in Alive /\ \A i \in Frames(h) : trail[h][i].node \in Alive
  BY <1>1, <1>2, <1>3, WasInTree
<1>5. key \in Seq(Byte) /\ r \in Alive \cup {None}
  BY <1>1, WasInTree
<1>6. below = DepthBelow(h, L) /\ below \in Nat /\ OnKey(f, key)
  BY <1>1, <1>2, <1>3, DepthOnKey DEF ThreadRoute
<1>7. L # 0
  BY <1>3 DEF Frames
<1>8. below = f.depth + Len(heap[f.node].prefix)
  BY <1>1, <1>2, <1>6, <1>7 DEF DepthBelow
<1> QED BY <1>1, <1>2, <1>3, <1>4, <1>5, <1>6, <1>8

\* The keys inside the caller are answered by its node or, below it, by r.
LEMMA ResumedMap ==
  ASSUME IInv, NEW h \in Handle, ThreadRoute(h), NEW f, NEW key, NEW below, NEW r,
         Resumes(h, f, key, below, r), NEW m, Shows(h, m), NEW k \in Key, Inside(h, k)',
         NEW d, d = f.depth
  PROVE  /\ k \in Seq(Byte) /\ Along(k, key, d) /\ d <= Len(k)
         /\ m[k] = IF Joins(k, key, below) THEN Get(r, Rest(k, below)) ELSE Get(f.node, Rest(k, d))
<1>1. /\ pc[h] = "up" /\ pc[h] \in InTree /\ trail[h] # <<>> /\ todo'[h] = todo[h]
      /\ trail'[h] = Front(trail[h]) /\ depth'[h] = d /\ Step(h)' = Step(h)
      /\ f = trail[h][Len(trail[h])] /\ key = Step(h).key /\ below = depth[h] /\ r = res[h]
  BY DEF Resumes, InTree, Step
<1>2. PICK L : L = Len(trail[h])
  OBVIOUS
<1>3. L \in Frames(h) /\ DepthBelow(h, L) = below
  BY <1>2, Resuming
<1>4. Reaches(h, L, k)
  <2>1. trail'[h] = <<>> => L = 1
    <3>1. trail[h] \in Seq(Frame) /\ L \in Nat
      BY <1>1, <1>2, WasInTree
    <3>2. L >= 1
      BY <1>3 DEF Frames
    <3>3. Len(trail'[h]) = L - 1
      BY <1>1, <1>2, <3>1, <3>2 DEF Front
    <3>4. trail'[h] = <<>> => Len(trail'[h]) = 0
      OBVIOUS
    <3> QED BY <3>1, <3>3, <3>4
  <2> QED BY <1>1, <1>2, <2>1 DEF Inside, Reaches
<1>5. k \in Seq(Byte) /\ Along(k, key, d) /\ d <= Len(k)
  BY <1>1, <1>2, <1>3, <1>4, ReachesMeans
<1>6. CASE Joins(k, key, below)
  <2>1. Inside(h, k)
    BY <1>1, <1>6 DEF Inside
  <2>2. m[k] = Get(r, Rest(k, below))
    BY <1>1, <2>1 DEF Shows, InnerShows, InnerGet
  <2> QED BY <1>5, <1>6, <2>2
<1>7. CASE ~Joins(k, key, below)
  <2>1. FrameShows(h, L, m)
    BY <1>1, <1>3 DEF Shows
  <2>2. m[k] = Get(f.node, Rest(k, d))
    BY <1>1, <1>2, <1>3, <1>4, <1>7, <2>1 DEF FrameShows
  <2> QED BY <1>5, <1>7, <2>2
<1> QED BY <1>6, <1>7

\* insert, remove and get_mut: the caller puts back what its child became.
LEMMA ReattachShows ==
  ASSUME IInv, IInv', ShapeInv, ShapeInv', NEW h \in Handle, ThreadRoute(h),
         Reattach(h), NEW m, Shows(h, m)
  PROVE  Shows(h, m)'
<1>1. /\ TypeOK /\ pc[h] = "up" /\ pc[h] \in InTree /\ trail[h] # <<>> /\ TopDown(h)
      /\ pc'[h] = "up" /\ pc'[h] \in InTree /\ todo'[h] = todo[h] /\ Step(h)' = Step(h)
  BY DEF IInv, Reattach, Running, InTree, callVars, Step
<1> PICK L, key, below, r : L = Len(trail[h]) /\ key = Step(h).key /\ below = depth[h] /\ r = res[h]
  OBVIOUS
<1> PICK f : f = trail[h][L]
  OBVIOUS
<1>2. f = Last(trail[h])
  BY DEF Last
<1>3. Resumes(h, f, key, below, r)
  <2>1. trail'[h] = Front(trail[h]) /\ depth'[h] = f.depth
    BY <1>1, <1>2 DEF Reattach, Resume, TypeOK
  <2> QED BY <1>1, <2>1 DEF Resumes
<1>4. /\ f.node \in Alive /\ f.edge \in Byte /\ f.depth \in Nat /\ key \in Seq(Byte)
      /\ below \in Nat /\ below = f.depth + Len(heap[f.node].prefix) /\ OnKey(f, key)
      /\ r \in Alive \cup {None} /\ L \in Frames(h)
      /\ \A i \in Frames(h)' : /\ i \in Frames(h) /\ i # L
                               /\ trail'[h][i] = trail[h][i] /\ trail[h][i].node \in Alive
  BY <1>3, Resuming
<1>5. PICK p \in Alive, b \in Byte, d \in Nat : p = f.node /\ b = f.edge /\ d = f.depth
  BY <1>4
<1>6. OnKey([node |-> p, edge |-> b, depth |-> d], key)
  BY <1>4, <1>5 DEF OnKey
<1>7. /\ ~HeldByParent(p) /\ p # res[h]
      /\ \A i \in Frames(h) : i # L => trail[h][i].node # p
  <2>1. AloneOnTrail(h, L)
    BY <1>1, <1>4, WasInTree DEF ThreadInv, TrailExclusive
  <2> QED BY <1>5, <2>1 DEF AloneOnTrail, HeldElsewhere
<1>8. r \in (Alive \ {p}) \cup {None} /\ heap[p] \in VersionedNode
  BY <1>1, <1>4, <1>7, AliveTyped
<1>9. PICK nd \in VersionedNode : TakesBack(h, p, nd, b, r)
  <2>1. PICK nd : nd = IF r = None THEN heap[p] ELSE AddChild(heap[p], b, r)
    OBVIOUS
  <2>2. Settle(h, p, nd)
    BY <1>2, <1>5, <2>1 DEF Reattach
  <2>3. heap[p].kids[b] = None
    <3>1. LinkBelow(h, L)
      BY <1>1, <1>4 DEF ThreadRoute
    <3> QED BY <1>1, <1>5, <3>1 DEF LinkBelow
  <2>4. CASE r = None
    <3>1. heap[p].kids = WithChild(p, b, r)
      BY <1>8, <2>3, <2>4 DEF WithChild, VersionedNode
    <3> QED BY <1>8, <2>1, <2>2, <2>4, <3>1 DEF TakesBack
  <2>5. CASE r # None
    <3>1. r \in Node
      BY <1>8, <2>5 DEF Alive
    <3>2. nd \in VersionedNode /\ \A e \in Byte : nd.kids[e] = IF e = b THEN r ELSE heap[p].kids[e]
      BY <1>8, <2>1, <2>5, <3>1, ChildEdits
    <3>3. nd.prefix = heap[p].prefix /\ nd.value = heap[p].value
      BY <1>8, <2>1, <2>5 DEF AddChild, VersionedNode
    <3>4. nd.kids = WithChild(p, b, r)
      BY <3>2 DEF WithChild, VersionedNode
    <3> QED BY <2>2, <3>2, <3>3, <3>4 DEF TakesBack
  <2> QED BY <2>4, <2>5
<1> PICK c : c = res'[h]
  OBVIOUS
<1>10. Spared(Alive \ {p}) /\ AnswersWith(c, key, d, below, r, p)
  <2>1. below = d + Len(heap[p].prefix) /\ below \in Nat /\ key \in Seq(Byte)
    BY <1>4, <1>5
  <2> QED BY <1>6, <1>7, <1>8, <1>9, <2>1, TakenBack
<1>11. ASSUME NEW k \in Key, Inside(h, k)' PROVE m[k] = InnerGet(h, k)'
  <2>1. /\ k \in Seq(Byte) /\ Along(k, key, d) /\ d <= Len(k)
        /\ m[k] = IF Joins(k, key, below) THEN Get(r, Rest(k, below)) ELSE Get(p, Rest(k, d))
    BY <1>3, <1>5, <1>11, ResumedMap
  <2>2. Get(c, Rest(k, d))' = IF Joins(k, key, below) THEN Get(r, Rest(k, below))
                                                      ELSE Get(p, Rest(k, d))
    BY <1>10, <2>1 DEF AnswersWith
  <2>3. depth'[h] = d
    BY <1>3, <1>5 DEF Resumes
  <2>4. InnerGet(h, k)' = Get(c, Rest(k, d))'
    BY <1>1, <2>3 DEF InnerGet
  <2> QED BY <2>1, <2>2, <2>4
<1>12. InnerShows(h, m)'
  BY <1>11 DEF InnerShows
<1>13. \A i \in Frames(h)' :
         i \in Frames(h) /\ trail'[h][i] = trail[h][i] /\ trail[h][i].node \in Alive \ {p}
  BY <1>4, <1>7
<1>14. \A k \in Key : k # Step(h).key => m[k] = m[k]
  OBVIOUS
<1> QED BY <1>1, <1>10, <1>12, <1>13, <1>14, WalkShows

\* update: on the way up, nothing has changed below, or the caller is about to
\* make its node writable.
LEMMA ClimbShows ==
  ASSUME IInv, IInv', ShapeInv, ShapeInv', NEW h \in Handle, ThreadRoute(h),
         Backtrack(h) \/ Lift(h), NEW m, Shows(h, m)
  PROVE  Shows(h, m)'
<1>1. /\ TypeOK /\ pc[h] = "up" /\ pc[h] \in InTree /\ trail[h] # <<>> /\ ~TopDown(h)
      /\ todo'[h] = todo[h] /\ Step(h)' = Step(h) /\ heap' = heap
  BY DEF IInv, Backtrack, Lift, Running, InTree, callVars, Step
<1> PICK L, key, below, r : L = Len(trail[h]) /\ key = Step(h).key /\ below = depth[h] /\ r = res[h]
  OBVIOUS
<1> PICK f : f = trail[h][L]
  OBVIOUS
<1>2. f = Last(trail[h])
  BY DEF Last
<1>3. Resumes(h, f, key, below, r)
  <2>1. trail'[h] = Front(trail[h]) /\ depth'[h] = f.depth
    BY <1>1, <1>2 DEF Backtrack, Lift, Resume, TypeOK
  <2> QED BY <1>1, <2>1 DEF Resumes
<1>4. /\ f.node \in Alive /\ f.edge \in Byte /\ f.depth \in Nat /\ key \in Seq(Byte)
      /\ below \in Nat /\ below = f.depth + Len(heap[f.node].prefix) /\ OnKey(f, key)
      /\ r \in Alive \cup {None} /\ L \in Frames(h)
      /\ \A i \in Frames(h)' : /\ i \in Frames(h) /\ i # L
                               /\ trail'[h][i] = trail[h][i] /\ trail[h][i].node \in Alive
  BY <1>3, Resuming
<1>5. PICK p \in Alive, b \in Byte, d \in Nat : p = f.node /\ b = f.edge /\ d = f.depth
  BY <1>4
<1>6. Spared(Alive) /\ TreeHeap /\ TreeHeap'
  BY <1>1, SparedAll, TreeHeapHolds DEF TreeHeap, IInv, ShapeInv
<1>7. pc'[h] \in InTree /\ depth'[h] = d
  BY <1>1, <1>3, <1>5 DEF Backtrack, Lift, InTree, TypeOK, Resumes
<1>8. ASSUME NEW k \in Key, Inside(h, k)' PROVE m[k] = InnerGet(h, k)'
  <2>1. /\ k \in Seq(Byte) /\ Along(k, key, d) /\ d <= Len(k)
        /\ m[k] = IF Joins(k, key, below) THEN Get(r, Rest(k, below)) ELSE Get(p, Rest(k, d))
    BY <1>3, <1>5, <1>8, ResumedMap
  <2>2. Get(p, Rest(k, d))' = Get(p, Rest(k, d))
    <3>1. Rest(k, d) \in Seq(Byte) /\ p \in Alive \cup {None}
      BY <2>1, RestBytes
    <3> QED BY <1>6, <3>1, GetSpared
  <2>3. CASE Backtrack(h)
    <3>1. pc'[h] = "up" /\ res'[h] = p /\ ret[h] = "false"
      BY <1>1, <1>2, <1>5, <2>3 DEF Backtrack, TypeOK
    <3>2. InnerGet(h, k)' = Get(p, Rest(k, d))'
      BY <1>7, <3>1 DEF InnerGet
    <3>3. heap[p].kids[b] = r
      <4>1. LinkBelow(h, L)
        BY <1>1, <1>4 DEF ThreadRoute
      <4> QED BY <1>1, <1>5, <3>1, <4>1 DEF LinkBelow
    <3>4. Joins(k, key, below) => Get(p, Rest(k, d)) = Get(r, Rest(k, below))
      <4>1. PICK q \in Seq(Byte) : q = heap[p].prefix
        BY <1>6, AliveTyped, PrefixBytes DEF TreeHeap
      <4>2. below = d + Len(q) /\ OnKey([node |-> p, edge |-> b, depth |-> d], key)
        BY <1>4, <1>5, <4>1 DEF OnKey
      <4> SUFFICES ASSUME Joins(k, key, below) PROVE Get(p, Rest(k, d)) = Get(r, Rest(k, below))
        OBVIOUS
      <4>3. TreeHeap /\ key \in Seq(Byte) /\ below \in Nat /\ k \in Seq(Byte)
            /\ Along(k, key, d) /\ d <= Len(k)
        BY <1>4, <1>6, <2>1
      <4>4. Get(p, Rest(k, d)) = Get(heap[p].kids[b], Rest(k, below))
        <5>1. EdgeAnswers(p, q, key, d, below, b, k)
          BY <4>1, <4>2, <4>3, ChildAnswers
        <5> QED BY <5>1 DEF EdgeAnswers
      <4> QED BY <3>3, <4>4
    <3> QED BY <2>1, <2>2, <3>2, <3>4
  <2>4. CASE Lift(h)
    <3>1. pc'[h] = "lift" /\ res'[h] = r /\ cur'[h] = p /\ Step(h).key' = key
      BY <1>1, <1>2, <1>5, <2>4 DEF Lift, TypeOK
    <3>2. d + Len(heap'[p].prefix) = below
      BY <1>1, <1>4, <1>5
    <3>3. InnerGet(h, k)' = IF Joins(k, key, below) THEN Get(r, Rest(k, below))'
                                                    ELSE Get(p, Rest(k, d))'
      BY <1>7, <3>1, <3>2 DEF InnerGet
    <3>4. Joins(k, key, below) => Get(r, Rest(k, below))' = Get(r, Rest(k, below))
      <4> SUFFICES ASSUME Joins(k, key, below) PROVE Get(r, Rest(k, below))' = Get(r, Rest(k, below))
        OBVIOUS
      <4>1. Rest(k, below) \in Seq(Byte)
        BY <1>4, <2>1, BytesLeft DEF Joins
      <4> QED BY <1>4, <1>6, <4>1, GetSpared
    <3> QED BY <2>1, <2>2, <3>3, <3>4
  <2> QED BY <2>3, <2>4
<1>9. InnerShows(h, m)'
  BY <1>8 DEF InnerShows
<1>10. \A k \in Key : k # Step(h).key => m[k] = m[k]
  OBVIOUS
<1> QED BY <1>1, <1>4, <1>6, <1>7, <1>9, <1>10, WalkShows

\* update: the caller puts what its child became in the child's place.
LEMMA SwapShows ==
  ASSUME IInv, IInv', ShapeInv, ShapeInv', NEW h \in Handle, ThreadRoute(h),
         SwapChild(h), NEW m, Shows(h, m)
  PROVE  Shows(h, m)'
<1>1. /\ TypeOK /\ pc[h] = "fix" /\ pc[h] \in InTree /\ pc'[h] = "up" /\ pc'[h] \in InTree
      /\ todo'[h] = todo[h] /\ Step(h)' = Step(h) /\ trail'[h] = trail[h] /\ depth'[h] = depth[h]
  BY DEF IInv, SwapChild, Unwrapped, Running, InTree, TypeOK, callVars, Step
<1>2. PICK p \in Alive : p = cur[h] /\ heap[p] \in VersionedNode
  BY <1>1, AtHand
<1>3. PICK d \in Nat : d = depth[h]
  BY <1>1, DepthOnKey
<1>4. PICK b \in Byte : b = edge[h]
  BY <1>1, WasInTree DEF ThreadInv, PhaseOf
<1>5. PICK key \in Seq(Byte) : key = Step(h).key
  BY <1>1, WasInTree
<1>6. PICK below \in Nat : below = d + Len(heap[p].prefix)
  BY <1>2, PrefixBytes
<1>7. OnKey([node |-> p, edge |-> b, depth |-> d], key)
  BY <1>1, <1>2, <1>3, <1>4, <1>5 DEF ThreadRoute, Resumed
<1>8. ~HeldByParent(p) /\ p # res[h] /\ p \notin TrailNodes(h)
  BY <1>1, <1>2, AtHand DEF HeldElsewhere
<1>9. PICK r \in (Alive \ {p}) \cup {None} : r = res[h]
  BY <1>1, <1>8, WasInTree
<1>10. PICK nd \in VersionedNode : TakesBack(h, p, nd, b, r)
  <2>1. PICK x : x = DeleteChild(heap[p], b)
    OBVIOUS
  <2>2. PICK nd : nd = IF r = None THEN x ELSE AddChild(x, b, r)
    OBVIOUS
  <2>3. Settle(h, p, nd)
    BY <1>2, <1>4, <1>9, <2>1, <2>2 DEF SwapChild
  <2>4. /\ x \in VersionedNode
        /\ \A e \in Byte : x.kids[e] = IF e = b THEN None ELSE heap[p].kids[e]
    BY <1>2, <2>1, ChildDeleted
  <2>5. x.prefix = heap[p].prefix /\ x.value = heap[p].value
    BY <1>2, <2>1 DEF DeleteChild, VersionedNode
  <2>6. CASE r = None
    <3>1. x.kids = WithChild(p, b, r)
      BY <2>4, <2>6 DEF WithChild, VersionedNode
    <3> QED BY <2>2, <2>3, <2>4, <2>5, <2>6, <3>1 DEF TakesBack
  <2>7. CASE r # None
    <3>1. r \in Node
      BY <2>7 DEF Alive
    <3>2. nd \in VersionedNode /\ \A e \in Byte : nd.kids[e] = IF e = b THEN r ELSE x.kids[e]
      BY <2>2, <2>4, <2>7, <3>1, ChildEdits
    <3>3. nd.prefix = x.prefix /\ nd.value = x.value
      BY <2>2, <2>4, <2>7 DEF AddChild, VersionedNode
    <3>4. nd.kids = WithChild(p, b, r)
      BY <2>4, <3>2 DEF WithChild, VersionedNode
    <3> QED BY <2>3, <2>5, <3>2, <3>3, <3>4 DEF TakesBack
  <2> QED BY <2>6, <2>7
<1>11. PICK c : c = res'[h]
  OBVIOUS
<1>12. Spared(Alive \ {p}) /\ AnswersWith(c, key, d, below, r, p)
  BY <1>6, <1>7, <1>8, <1>10, <1>11, TakenBack
<1>13. ASSUME NEW k \in Key, Inside(h, k) PROVE m[k] = InnerGet(h, k)'
  <2>1. k \in Seq(Byte) /\ Along(k, key, d) /\ d <= Len(k)
    BY <1>1, <1>3, <1>5, <1>13, InsideMeans
  <2>2. Get(c, Rest(k, d))' = IF Joins(k, key, below) THEN Get(r, Rest(k, below))
                                                      ELSE Get(p, Rest(k, d))
    BY <1>12, <2>1 DEF AnswersWith
  <2>3. InnerGet(h, k)' = Get(c, Rest(k, d))'
    BY <1>1, <1>3, <1>11 DEF InnerGet
  <2>4. InnerGet(h, k) = IF Joins(k, key, below) THEN Get(r, Rest(k, below))
                                                 ELSE Get(p, Rest(k, d))
    BY <1>1, <1>2, <1>3, <1>5, <1>6, <1>9 DEF InnerGet
  <2>5. m[k] = InnerGet(h, k)
    BY <1>1, <1>13 DEF Shows, InnerShows
  <2> QED BY <2>2, <2>3, <2>4, <2>5
<1>14. \A k \in Key : Inside(h, k)' => Inside(h, k)
  BY <1>1 DEF Inside
<1>15. InnerShows(h, m)'
  BY <1>13, <1>14 DEF InnerShows
<1>16. \A i \in Frames(h)' :
         i \in Frames(h) /\ trail'[h][i] = trail[h][i] /\ trail[h][i].node \in Alive \ {p}
  <2>1. \A i \in Frames(h) : trail[h][i].node \in Alive /\ trail[h][i].node \in TrailNodes(h)
    BY <1>1, WasInTree DEF TrailNodes, Frames
  <2> QED BY <1>1, <1>8, <2>1 DEF Frames
<1>17. \A k \in Key : k # Step(h).key => m[k] = m[k]
  OBVIOUS
<1> QED BY <1>1, <1>12, <1>15, <1>16, <1>17, WalkShows

\* Once the recursion is over the handle has the map back: a root that has
\* nothing left answers nothing.
LEMMA InstallShows ==
  ASSUME IInv, IInv', ShapeInv, ShapeInv', NEW h \in Handle, ThreadRoute(h), Install(h),
         NEW m \in [Key -> Val \cup {None}], Shows(h, m)
  PROVE  m = Contents(h)' /\ Shows(h, m)'
<1>1. /\ TypeOK /\ pc[h] = "up" /\ pc[h] \in InTree /\ trail[h] = <<>> /\ heap' = heap
      /\ pc'[h] \notin InTree
  BY DEF IInv, Install, Running, InTree, TypeOK
<1>2. depth[h] = 0
  BY <1>1 DEF ThreadRoute, DepthBelow
<1>3. PICK r \in Alive \cup {None} : r = res[h]
  BY <1>1, WasInTree
<1>4. PICK c : c = root'[h]
  OBVIOUS
<1>5. c = r \/ (c = None /\ r # None /\ heap[r].kids = NoKids /\ heap[r].value = None)
  BY <1>1, <1>3, <1>4 DEF Install, TypeOK
<1>6. Spared(Alive) /\ TreeHeap /\ TreeHeap'
  BY <1>1, SparedAll, TreeHeapHolds DEF TreeHeap, IInv, ShapeInv
<1>7. ASSUME NEW k \in Key PROVE m[k] = Get(c, k)'
  <2>1. k \in Seq(Byte) /\ Rest(k, 0) = k /\ Len(k) \in Nat
    BY KeyAssumption, WholeRest
  <2>2. m[k] = Get(r, k)
    <3>1. Inside(h, k) /\ InnerShows(h, m)
      BY <1>1 DEF Inside, Shows
    <3>2. InnerGet(h, k) = Get(r, Rest(k, 0))
      BY <1>1, <1>2, <1>3 DEF InnerGet
    <3> QED BY <2>1, <3>1, <3>2 DEF InnerShows
  <2>3. CASE c = r
    <3>1. c \in Alive \cup {None}
      BY <1>3, <2>3
    <3> QED BY <1>6, <2>1, <2>2, <2>3, <3>1, GetSpared
  <2>4. CASE c # r
    <3>1. c = None /\ r \in Alive /\ heap[r].kids = NoKids /\ heap[r].value = None
      BY <1>3, <1>5, <2>4
    <3>2. PICK p \in Seq(Byte) : p = heap[r].prefix
      BY <1>6, <3>1, AliveTyped, PrefixBytes DEF TreeHeap
    <3>3. Get(r, Rest(k, 0)) = None
      BY <1>6, <2>1, <3>1, <3>2, LeafGetBefore
    <3>4. Get(c, k)' = None
      <4>1. Get(c, k) = None /\ c \in Alive \cup {None}
        BY <3>1, GetNone
      <4> QED BY <1>6, <2>1, <4>1, GetSpared
    <3> QED BY <2>1, <2>2, <3>3, <3>4
  <2> QED BY <2>3, <2>4
<1>8. m = Contents(h)'
  BY <1>4, <1>7 DEF Contents
<1> QED BY <1>1, <1>8 DEF Shows

\* A release frees what the owner has let go of, and nothing that shows.
LEMMA ReleaseShows ==
  ASSUME IInv, IInv', ShapeInv, ShapeInv', NEW h \in Handle, ThreadRoute(h), Release(h),
         NEW m, Shows(h, m)
  PROVE  Shows(h, m)'
<1>1. TypeOK /\ SameWalk(h) /\ root'[h] = root[h] /\ None \notin Alive
  BY AliveTyped DEF IInv, Release, SameWalk, handleVars, callVars, walkVars
<1>2. PICK n \in drops[h] :
        IF LastReference(h, n) THEN heap' = [heap EXCEPT ![n] = None] ELSE heap' = heap
  BY DEF Release
<1>3. CASE LastReference(h, n)
  <2>1. ~HeldByParent(n) /\ ~HeldByRoot(n) /\ n \notin TrailNodes(h) \cup {cur[h], res[h]}
    BY <1>3 DEF LastReference, HeldElsewhere
  <2>2. n \in Node
    BY <1>1 DEF TypeOK
  <2>3. \A x \in Alive : x # n => heap'[x] = heap[x]
    BY <1>1, <1>2, <1>3, <2>2 DEF TypeOK, Alive
  <2>4. Spared(Alive \ {n})
    BY <2>1, <2>3, SparedAround
  <2>5. \A x \in Alive : x \in TrailNodes(h) \cup {cur[h], res[h], root[h]} => x \in Alive \ {n}
    BY <2>1 DEF HeldByRoot
  <2> QED BY <1>1, <2>4, <2>5, StillShows
<1>4. CASE ~LastReference(h, n)
  <2>1. Spared(Alive)
    BY <1>2, <1>4, SparedAll
  <2> QED BY <1>1, <2>1, StillShows
<1> QED BY <1>3, <1>4

-----------------------------------------------------------------------------
(* The steps that change what a key has *)

\* A map with another value for one key.
LEMMA OneKey ==
  ASSUME NEW m \in [Key -> Val \cup {None}], NEW key \in Key, NEW v \in Val \cup {None},
         NEW m2, m2 = [m EXCEPT ![key] = v]
  PROVE  /\ m2 \in [Key -> Val \cup {None}] /\ m2[key] = v
         /\ \A k \in Key : k # key => m2[k] = m[k]
OBVIOUS

\* Then the map has that value for the key, and is the same elsewhere.
LEMMA ChangedShows ==
  ASSUME IInv, IInv', ShapeInv, ShapeInv', NEW h \in Handle, ThreadRoute(h),
         NEW m \in [Key -> Val \cup {None}], Shows(h, m), NEW key, key = Step(h).key,
         NEW d \in Nat, d = depth[h], NEW n, n = cur[h], NEW C, NEW c, TurnsBack(h, c, C),
         NEW v \in Val \cup {None}, AnswersBut(c, key, d, v, n)
  PROVE  Shows(h, [m EXCEPT ![key] = v])'
<1>1. PICK m2 : m2 = [m EXCEPT ![key] = v]
  OBVIOUS
<1>2. key \in Key
  BY WasInTree DEF TurnsBack, InTree, Call
<1>3. DiffersAt(m, m2, key, v)
  BY <1>1, <1>2 DEF DiffersAt
<1>4. Shows(h, m2)'
  BY <1>3, TurnShows
<1> QED BY <1>1, <1>4

\* c is n with v in it, or nothing, if n has no children and would have no value.
Revalues(C, n, c, v) ==
  /\ Spared(C) /\ \A b \in Byte : heap[n].kids[b] \in C \cup {None}
  /\ \/ c = None /\ v = None /\ heap[n].kids = NoKids
     \/ /\ c = n /\ n \in Alive' /\ heap'[n].prefix = heap[n].prefix
        /\ heap'[n].kids = heap[n].kids /\ heap'[n].value = v

\* What c answers then, if the walk for the key ends at n.
LEMMA RevaluedGet ==
  ASSUME TreeHeap, TreeHeap', NEW n \in Alive, NEW key \in Seq(Byte), NEW d \in Nat, d <= Len(key),
         NEW p \in Seq(Byte), p = heap[n].prefix, PrefixAt(p, key, d), d + Len(p) = Len(key),
         NEW C, NEW c, NEW v, Revalues(C, n, c, v)
  PROVE  AnswersBut(c, key, d, v, n)
<1> SUFFICES ASSUME NEW k \in Seq(Byte), Along(k, key, d), d <= Len(k)
             PROVE  Get(c, Rest(k, d))' = IF k = key THEN v ELSE Get(n, Rest(k, d))
  BY DEF AnswersBut
<1>1. PrefixAt(p, k, d) /\ d + Len(p) = Len(k) => k = key
  BY SameKey
<1>2. CASE c = None /\ v = None /\ heap[n].kids = NoKids
  <2>1. Get(n, Rest(k, d)) = IF PrefixAt(p, k, d) /\ d + Len(p) = Len(k)
                             THEN heap[n].value ELSE None
    BY <1>2, LeafGetBefore
  <2>2. Get(c, Rest(k, d))' = None
    BY <1>2, GetNone DEF Get, Found, Path
  <2> QED BY <1>1, <1>2, <2>1, <2>2
<1>3. CASE /\ c = n /\ n \in Alive' /\ heap'[n].prefix = heap[n].prefix
           /\ heap'[n].kids = heap[n].kids /\ heap'[n].value = v
  <2>1. p = heap'[n].prefix
    BY <1>3
  <2>2. CASE k = key
    <3>1. Unfolds(n, p, k, d)'
      BY <1>3, <2>1, GetLawAfter
    <3>2. Get(n, Rest(k, d))' = heap'[n].value
      BY <2>2, <3>1 DEF Unfolds
    <3> QED BY <1>3, <2>2, <3>2
  <2>3. CASE k # key
    <3>1. PrefixAt(p, k, d) /\ d + Len(p) < Len(k) =>
            Get(heap[n].kids[k[d + Len(p) + 1]], Rest(k, d + Len(p)))'
              = Get(heap[n].kids[k[d + Len(p) + 1]], Rest(k, d + Len(p)))
      <4> SUFFICES ASSUME d + Len(p) < Len(k)
                   PROVE  Get(heap[n].kids[k[d + Len(p) + 1]], Rest(k, d + Len(p)))'
                            = Get(heap[n].kids[k[d + Len(p) + 1]], Rest(k, d + Len(p)))
        OBVIOUS
      <4>1. PICK e \in Nat : e = d + Len(p) /\ e < Len(k)
        OBVIOUS
      <4>2. PICK b \in Byte : b = k[e + 1] /\ Rest(k, e) \in Seq(Byte)
        BY <4>1, BytesLeft
      <4>3. PICK x \in C \cup {None} : x = heap[n].kids[b]
        BY <4>2 DEF Revalues
      <4>4. Get(x, Rest(k, e))' = Get(x, Rest(k, e))
        BY <4>2, GetSpared DEF Revalues
      <4>5. x = heap'[n].kids[b]
        BY <1>3, <4>3
      <4> QED BY <4>1, <4>2, <4>3, <4>4, <4>5
    <3>2. Get(n, Rest(k, d))' = Get(n, Rest(k, d))
      <4>1. SameThere(n, n, p, k, d)
        BY <1>1, <2>3, <3>1 DEF SameThere
      <4>2. n \in Alive'
        BY <1>3
      <4> QED BY <2>1, <4>1, <4>2, NodeKept
    <3> QED BY <1>3, <2>3, <3>2
  <2> QED BY <2>2, <2>3
<1> QED BY <1>2, <1>3 DEF Revalues

\* What the step s, once it has come to its key's place, leaves there.
Brings(s) ==
  IF s.op = "remove" \/ (s.op = "update" /\ s.act = "remove") THEN None
  ELSE IF s.op = "update" /\ s.act = "keep" THEN Scratch ELSE s.val

\* ... is a value or nothing.
LEMMA BringsTyped ==
  ASSUME NEW s \in Call
  PROVE  Brings(s) \in Val \cup {None} /\ s.key \in Key /\ s.key \in Seq(Byte)
BY ValAssumption, KeyAssumption DEF Brings, Call

\* The running activation's node, its prefix, and how far down the key it is.
LEMMA HereOnKey ==
  ASSUME IInv, NEW h \in Handle, ThreadRoute(h), pc[h] \in {"visit", "edit"}
  PROVE  \E n \in Alive, p \in Seq(Byte), d \in Nat, key \in Seq(Byte) :
           /\ n = cur[h] /\ p = heap[n].prefix /\ d = depth[h] /\ key = Step(h).key
           /\ heap[n] \in VersionedNode /\ Len(p) \in Nat /\ d <= Len(key)
           /\ PlaceOf(h) = "at" <=> PrefixAt(p, key, d) /\ d + Len(p) = Len(key)
           /\ PlaceOf(h) \in {"below", "missing", "child"} <=>
                PrefixAt(p, key, d) /\ d + Len(p) < Len(key)
<1>1. pc[h] \in InTree
  BY DEF InTree
<1>2. PICK n \in Alive : n = cur[h] /\ heap[n] \in VersionedNode
  BY AtHand
<1>3. PICK d \in Nat : d = depth[h] /\ d <= Len(Step(h).key)
  BY <1>1, DepthOnKey
<1>4. PICK p \in Seq(Byte) : p = heap[n].prefix /\ Len(p) \in Nat
  BY <1>2, PrefixBytes
<1>5. PICK key \in Seq(Byte) : key = Step(h).key
  BY <1>1, WasInTree
<1>6. LET place == Place(heap[n], key, d)
      IN  /\ place = "at" <=> PrefixAt(p, key, d) /\ d + Len(p) = Len(key)
          /\ place \in {"below", "missing", "child"} <=>
               PrefixAt(p, key, d) /\ d + Len(p) < Len(key)
  <2>1. PICK nd \in VersionedNode : nd = heap[n] /\ nd.prefix = p
    BY <1>2, <1>4
  <2>2. d <= Len(key)
    BY <1>3, <1>5
  <2>3. LET place == Place(nd, key, d)
        IN  /\ place = "at" <=> PrefixAt(nd.prefix, key, d) /\ d + Len(nd.prefix) = Len(key)
            /\ place \in {"below", "missing", "child"} <=>
                 PrefixAt(nd.prefix, key, d) /\ d + Len(nd.prefix) < Len(key)
    BY <2>2, PlaceMeans
  <2> QED BY <2>1, <2>3
<1>7. PlaceOf(h) = Place(heap[n], key, d)
  BY <1>2, <1>3, <1>5 DEF PlaceOf
<1> QED BY <1>2, <1>3, <1>4, <1>5, <1>6, <1>7

\* The key's node takes a value, loses it, or goes with it.
LEMMA ValueShows ==
  ASSUME IInv, IInv', ShapeInv, ShapeInv', NEW h \in Handle, ThreadRoute(h),
         ReplaceValue(h) \/ TakeValue(h) \/ RemoveLeaf(h),
         NEW m \in [Key -> Val \cup {None}], Shows(h, m), NEW s \in Call, s = Step(h)
  PROVE  Shows(h, [m EXCEPT ![s.key] = Brings(s)])'
<1>1. /\ TypeOK /\ pc[h] \in {"visit", "edit"} /\ pc[h] \in InTree /\ PlaceOf(h) = "at"
  BY DEF IInv, ReplaceValue, TakeValue, RemoveLeaf, Unwrapped, Running, InTree
<1>2. PICK n \in Alive, p \in Seq(Byte), d \in Nat, key \in Seq(Byte) :
           /\ n = cur[h] /\ p = heap[n].prefix /\ d = depth[h] /\ key = Step(h).key
           /\ heap[n] \in VersionedNode /\ d <= Len(key)
           /\ PrefixAt(p, key, d) /\ d + Len(p) = Len(key)
  BY <1>1, HereOnKey
<1>3. PICK v \in Val \cup {None} : v = Brings(s)
  BY BringsTyped
<1>4. PICK c : c = res'[h]
  OBVIOUS
<1>5. /\ pc'[h] = "up" /\ todo'[h] = todo[h] /\ trail'[h] = trail[h] /\ depth'[h] = depth[h]
  BY <1>1 DEF TypeOK, ReplaceValue, TakeValue, RemoveLeaf, ReturnNode, walkVars
<1>6. TrailNodes(h) \subseteq Alive
  BY <1>1, TrailAlive
<1>7. \E C : TurnsBack(h, c, C) /\ Revalues(C, n, c, v)
  <2>1. CASE RemoveLeaf(h)
    <3>1. heap' = heap /\ c = None /\ s.op = "remove" /\ heap[n].leaf
      BY <1>1, <1>2, <1>4, <2>1 DEF RemoveLeaf, ReturnNode, TypeOK
    <3>2. v = None /\ heap[n].kids = NoKids
      <4>1. heap[n].kids \in [Byte -> Node \cup {None}]
        BY <1>2 DEF VersionedNode
      <4>2. \A b \in Byte : heap[n].kids[b] = None
        BY <3>1 DEF ShapeInv, EdgesRight
      <4>3. heap[n].kids = NoKids
        BY <4>1, <4>2 DEF NoKids
      <4> QED BY <1>3, <3>1, <4>3 DEF Brings
    <3>3. Spared(Alive)
      BY <3>1, SparedAll
    <3>4. \A b \in Byte : heap[n].kids[b] \in Alive \cup {None}
      BY DEF IInv, HeapInv
    <3> QED BY <1>1, <1>4, <1>5, <1>6, <3>1, <3>2, <3>3, <3>4 DEF TurnsBack, Revalues
  <2>2. CASE ReplaceValue(h) \/ TakeValue(h)
    <3>1. pc[h] = "edit"
      BY <2>2 DEF ReplaceValue, TakeValue, Unwrapped, Running
    <3>2. ~HeldElsewhere(h, n) /\ n \notin TrailNodes(h) /\ None \notin Alive
      BY <1>2, <3>1, AtHand
    <3>3. \/ /\ heap' = [heap EXCEPT ![n] = [@ EXCEPT !.value = v]] /\ c = n
          \/ /\ heap' = [heap EXCEPT ![n] = None] /\ c = None /\ v = None /\ heap[n].kids = NoKids
      <4>1. CASE ReplaceValue(h)
        <5>1. heap' = [heap EXCEPT ![n].value = v] /\ c = n
          BY <1>1, <1>2, <1>3, <1>4, <4>1 DEF ReplaceValue, Writes, TopDown, Brings, ReturnNode, TypeOK
        <5> QED BY <5>1
      <4>2. CASE TakeValue(h)
        <5>1. v = None
          BY <1>3, <4>2 DEF TakeValue, Brings, TopDown
        <5>2. PICK empties \in BOOLEAN : empties <=> heap[n].kids = NoKids
          OBVIOUS
        <5>3. heap' = [heap EXCEPT ![n] = IF empties THEN None ELSE [@ EXCEPT !.value = None]]
              /\ c = IF empties THEN None ELSE n
          BY <1>1, <1>2, <1>4, <4>2, <5>2 DEF TakeValue, ReturnNode, TypeOK
        <5> QED BY <5>1, <5>2, <5>3
      <4> QED BY <2>2, <4>1, <4>2
    <3>4. n \in Node /\ \A x \in Alive : x # n => heap'[x] = heap[x]
      BY <1>1, <1>2, <3>3 DEF TypeOK, Alive
    <3>5. Spared(Alive \ {n})
      BY <3>2, <3>4, SparedAround DEF HeldElsewhere
    <3>6. \A b \in Byte : heap[n].kids[b] \in (Alive \ {n}) \cup {None}
      BY <3>2 DEF IInv, HeapInv, HeldElsewhere, HeldByParent
    <3>7. \/ c = None /\ v = None /\ heap[n].kids = NoKids
          \/ /\ c = n /\ n \in Alive' /\ heap'[n].prefix = heap[n].prefix
             /\ heap'[n].kids = heap[n].kids /\ heap'[n].value = v
      <4>1. CASE heap' = [heap EXCEPT ![n] = [@ EXCEPT !.value = v]] /\ c = n
        <5>1. heap'[n] = [heap[n] EXCEPT !.value = v]
          BY <1>1, <3>4, <4>1 DEF TypeOK
        <5>2. /\ heap'[n] \in VersionedNode /\ heap'[n].prefix = heap[n].prefix
              /\ heap'[n].kids = heap[n].kids /\ heap'[n].value = v
          BY <1>2, <5>1 DEF VersionedNode
        <5>3. n \in Alive'
          BY <3>4, <5>2, NoneAssumption DEF Alive
        <5> QED BY <4>1, <5>2, <5>3
      <4> QED BY <3>3, <4>1
    <3> QED BY <1>1, <1>4, <1>5, <1>6, <3>2, <3>5, <3>6, <3>7 DEF TurnsBack, Revalues
  <2> QED BY <2>1, <2>2
<1>8. PICK C : TurnsBack(h, c, C) /\ Revalues(C, n, c, v)
  BY <1>7
<1>9. AnswersBut(c, key, d, v, n)
  <2>1. TreeHeap /\ TreeHeap'
    BY TreeHeapHolds DEF TreeHeap, IInv, ShapeInv
  <2> QED BY <1>2, <1>8, <2>1, RevaluedGet
<1>10. Shows(h, [m EXCEPT ![key] = v])'
  BY <1>2, <1>8, <1>9, ChangedShows
<1> QED BY <1>2, <1>3, <1>10

\* The node n has the prefix p and, at the depth d of the key, the edge b below it
\* at the depth e.
EdgeAt(n, p, key, d, e, b) ==
  /\ n \in Alive /\ p \in Seq(Byte) /\ key \in Seq(Byte) /\ d \in Nat /\ e \in Nat /\ b \in Byte
  /\ p = heap[n].prefix /\ e = d + Len(p) /\ OnKey([node |-> n, edge |-> b, depth |-> d], key)

\* The key k gets down to the depth d along the key.
GetsTo(k, key, d) == k \in Seq(Byte) /\ Along(k, key, d) /\ d <= Len(k)

\* The keys that go down that edge, before and after the edge changes.
LEMMA EdgeBefore ==
  ASSUME TreeHeap, NEW n, NEW p, NEW key, NEW d, NEW e, NEW b, EdgeAt(n, p, key, d, e, b),
         NEW k, GetsTo(k, key, d), Joins(k, key, e)
  PROVE  /\ e < Len(k) /\ Rest(k, e) \in Seq(Byte) /\ e < Len(key)
         /\ Get(n, Rest(k, d)) = Get(heap[n].kids[b], Rest(k, e))
<1>1. /\ n \in Alive /\ p \in Seq(Byte) /\ key \in Seq(Byte) /\ d \in Nat /\ e \in Nat /\ b \in Byte
      /\ p = heap[n].prefix /\ e = d + Len(p) /\ OnKey([node |-> n, edge |-> b, depth |-> d], key)
      /\ k \in Seq(Byte) /\ Along(k, key, d) /\ d <= Len(k)
  BY DEF EdgeAt, GetsTo
<1>2. EdgeAnswers(n, p, key, d, e, b, k)
  BY <1>1, ChildAnswers
<1> QED BY <1>2 DEF EdgeAnswers, Joins

\* After it they go on to what hangs there.
LEMMA EdgeAfter ==
  ASSUME TreeHeap, TreeHeap', NEW n, NEW p, NEW key, NEW d, NEW e, NEW b,
         EdgeAt(n, p, key, d, e, b), NEW C, ChangesEdge(C, n, b),
         NEW c, c = heap'[n].kids[b], NEW k, GetsTo(k, key, d)
  PROVE  /\ ~Joins(k, key, e) => Get(n, Rest(k, d))' = Get(n, Rest(k, d))
         /\ Joins(k, key, e) => Get(n, Rest(k, d))' = Get(c, Rest(k, e))'
<1>1. /\ n \in Alive /\ p \in Seq(Byte) /\ key \in Seq(Byte) /\ d \in Nat /\ e \in Nat /\ b \in Byte
      /\ p = heap[n].prefix /\ e = d + Len(p) /\ OnKey([node |-> n, edge |-> b, depth |-> d], key)
      /\ k \in Seq(Byte) /\ Along(k, key, d) /\ d <= Len(k)
  BY DEF EdgeAt, GetsTo
<1>2. ~Joins(k, key, e) => Get(n, Rest(k, d))' = Get(n, Rest(k, d))
  BY <1>1, OtherEdges
<1>3. ASSUME Joins(k, key, e) PROVE Get(n, Rest(k, d))' = Get(c, Rest(k, e))'
  <2>1. PrefixAt(p, k, d) /\ e < Len(k) /\ k[e + 1] = b
    <3>1. EdgeAnswers(n, p, key, d, e, b, k)
      BY <1>1, ChildAnswers
    <3> QED BY <1>3, <3>1 DEF EdgeAnswers, JoinsBy
  <2>2. n \in Alive' /\ p = heap'[n].prefix
    BY <1>1 DEF ChangesEdge
  <2>3. Unfolds(n, p, k, d)'
    BY <1>1, <2>2, GetLawAfter
  <2>4. Get(n, Rest(k, d))' = Get(heap[n].kids[k[d + Len(p) + 1]], Rest(k, d + Len(p)))'
    BY <1>1, <2>1, <2>3 DEF Unfolds
  <2> QED BY <1>1, <2>1, <2>4
<1> QED BY <1>2, <1>3

\* Of the keys that go down an edge with a key, only that key has the same rest.
LEMMA RestOfKey ==
  ASSUME NEW k \in Seq(Byte), NEW key \in Seq(Byte), NEW e \in Nat, Joins(k, key, e),
         NEW q, q = Rest(key, e)
  PROVE  PrefixAt(q, k, e) /\ e + Len(q) = Len(k) <=> k = key
<1>1. /\ e < Len(key) /\ e < Len(k) /\ Len(key) \in Nat /\ Len(k) \in Nat
      /\ e <= Len(key) /\ e <= Len(k)
  BY DEF Joins
<1>2. /\ q \in Seq(Byte) /\ Len(q) = Len(key) - e
      /\ \A i \in 1..Len(key) - e : q[i] = key[e + i]
  BY <1>1, RestBytes
<1>3. PrefixAt(q, key, e) /\ e + Len(q) = Len(key)
  BY <1>1, <1>2 DEF PrefixAt
<1>4. Along(k, key, e) /\ e <= Len(k) /\ e <= Len(key)
  BY <1>1 DEF Along
<1>5. PrefixAt(q, k, e) /\ e + Len(q) = Len(k) => k = key
  BY <1>2, <1>3, <1>4, SameKey
<1> QED BY <1>3, <1>5

\* A new leaf with the rest q of the key and the value v hangs on the edge b of n.
GrowsLeaf(C, n, b, q, v) ==
  /\ ChangesEdge(C, n, b) /\ heap[n].kids[b] = None
  /\ \E c \in Alive' : /\ heap'[n].kids[b] = c /\ heap'[c].prefix = q
                       /\ heap'[c].kids = NoKids /\ heap'[c].value = v

\* What n answers then.
LEMMA GrownGet ==
  ASSUME TreeHeap, TreeHeap', NEW n, NEW p, NEW key, NEW d, NEW e, NEW b,
         EdgeAt(n, p, key, d, e, b), NEW q, q = Rest(key, e), NEW C, NEW v,
         GrowsLeaf(C, n, b, q, v)
  PROVE  AnswersBut(n, key, d, v, n)
<1> SUFFICES ASSUME NEW k, GetsTo(k, key, d)
             PROVE  Get(n, Rest(k, d))' = IF k = key THEN v ELSE Get(n, Rest(k, d))
  BY DEF AnswersBut, GetsTo
<1>1. key \in Seq(Byte) /\ k \in Seq(Byte) /\ e \in Nat /\ e < Len(key) /\ ChangesEdge(C, n, b)
  BY DEF EdgeAt, GetsTo, GrowsLeaf, OnKey
<1>2. PICK c \in Alive' : /\ heap'[n].kids[b] = c /\ heap'[c].prefix = q
                          /\ heap'[c].kids = NoKids /\ heap'[c].value = v
  BY DEF GrowsLeaf
<1>3. /\ ~Joins(k, key, e) => Get(n, Rest(k, d))' = Get(n, Rest(k, d))
      /\ Joins(k, key, e) => Get(n, Rest(k, d))' = Get(c, Rest(k, e))'
  BY <1>1, <1>2, EdgeAfter
<1>4. CASE ~Joins(k, key, e)
  <2>1. k # key
    BY <1>1, <1>4, JoinsItself
  <2> QED BY <1>3, <1>4, <2>1
<1>5. CASE Joins(k, key, e)
  <2>1. e < Len(k) /\ Get(n, Rest(k, d)) = Get(heap[n].kids[b], Rest(k, e))
    BY <1>5, EdgeBefore
  <2>2. Get(n, Rest(k, d)) = None
    BY <2>1, GetNone DEF GrowsLeaf
  <2>3. Get(c, Rest(k, e))' = IF PrefixAt(q, k, e) /\ e + Len(q) = Len(k)
                              THEN heap'[c].value ELSE None
    <3>1. e <= Len(k)
      BY <1>1, <2>1
    <3>2. q \in Seq(Byte) /\ q = heap'[c].prefix
      BY <1>1, <1>2, BytesLeft
    <3> QED BY <1>1, <1>2, <3>1, <3>2, LeafGet
  <2>4. PrefixAt(q, k, e) /\ e + Len(q) = Len(k) <=> k = key
    BY <1>1, <1>5, RestOfKey
  <2> QED BY <1>2, <1>3, <1>5, <2>2, <2>3, <2>4
<1> QED BY <1>4, <1>5

\* A leaf is added below the node where the walk ends.
LEMMA LeafShows ==
  ASSUME IInv, IInv', ShapeInv, ShapeInv', NEW h \in Handle, ThreadRoute(h),
         AddLeaf(h), NeedsCow(h),
         NEW m \in [Key -> Val \cup {None}], Shows(h, m), NEW s \in Call, s = Step(h)
  PROVE  Shows(h, [m EXCEPT ![s.key] = Brings(s)])'
<1>1. /\ TypeOK /\ pc[h] = "edit" /\ pc[h] \in InTree /\ PlaceOf(h) \in {"below", "missing"}
  BY DEF IInv, AddLeaf, Unwrapped, Running, InTree
<1>2. PICK n \in Alive, p \in Seq(Byte), d \in Nat, key \in Seq(Byte) :
           /\ n = cur[h] /\ p = heap[n].prefix /\ d = depth[h] /\ key = Step(h).key
           /\ heap[n] \in VersionedNode /\ Len(p) \in Nat /\ d <= Len(key)
           /\ PrefixAt(p, key, d) /\ d + Len(p) < Len(key)
  BY <1>1, HereOnKey
<1>3. PICK e \in Nat : e = d + Len(p) /\ e < Len(key)
  BY <1>2
<1>4. PICK b \in Byte, q \in Seq(Byte) : b = key[e + 1] /\ q = Rest(key, e)
  BY <1>3, BytesLeft
<1>5. OnKey([node |-> n, edge |-> b, depth |-> d], key)
  BY <1>2, <1>3, <1>4 DEF OnKey, PrefixAt
<1>6. Brings(s) = s.val /\ s.val \in Val
  <2>1. s.op \notin {"remove", "get_mut"} /\ (s.op # "insert" => s.act = "insert")
    BY <1>1 DEF NeedsCow, Occupied
  <2> QED BY <2>1 DEF Brings, Call
<1>7. PICK v \in Val \cup {None} : v = Brings(s)
  BY BringsTyped
<1>8. PICK c : c = New1(h)
  OBVIOUS
<1>9. /\ heap' = [heap EXCEPT ![c] = NewLeaf(q, v, Target(h)), ![n] = AddChild(@, b, c)]
      /\ Free(h) # {} /\ ReturnNode(h, n)
  <2>1. EdgeOf(heap[n], key, d) = b
    BY <1>2, <1>3, <1>4 DEF EdgeOf
  <2> QED BY <1>2, <1>3, <1>4, <1>6, <1>7, <1>8, <2>1 DEF AddLeaf
<1>10. /\ c \in Node \ Alive /\ c \notin Alive /\ n \in Node /\ c # n /\ Target(h) \in Nat
       /\ ~HeldElsewhere(h, n) /\ n \notin TrailNodes(h) /\ None \notin Alive
  BY <1>1, <1>2, <1>8, <1>9, FreshNames, AtHand, WasInTree
<1>11. PICK t \in Nat : t = Target(h)
  BY <1>10
<1>12. /\ heap'[c] = NewLeaf(q, v, t) /\ heap'[n] = AddChild(heap[n], b, c)
       /\ \A x \in Alive : x # n => heap'[x] = heap[x]
  BY <1>1, <1>9, <1>10, <1>11 DEF TypeOK, Alive
<1>13. heap[n].kids[b] = None
  <2>1. PlaceOf(h) = "below" => heap[n].leaf
    BY <1>2 DEF PlaceOf, Place
  <2>2. PlaceOf(h) # "child"
    BY <1>1
  <2>3. EdgeOf(heap[n], key, d) = b
    BY <1>2, <1>3, <1>4 DEF EdgeOf
  <2>4. PlaceOf(h) = "missing" => heap[n].kids[b] = None
    BY <1>2, <2>3 DEF PlaceOf, Place
  <2>5. heap[n].leaf => heap[n].kids[b] = None
    BY DEF ShapeInv, EdgesRight
  <2> QED BY <1>1, <2>1, <2>4, <2>5
<1>14. GrowsLeaf(Alive \ {n}, n, b, q, v)
  <2>1. Spared(Alive \ {n})
    BY <1>10, <1>12, SparedAround DEF HeldElsewhere
  <2>2. \A x \in Byte : heap[n].kids[x] \in (Alive \ {n}) \cup {None}
    BY <1>10 DEF IInv, HeapInv, HeldElsewhere, HeldByParent
  <2>3. /\ heap'[n] # None
        /\ \A x \in Byte : heap'[n].kids[x] = IF x = b THEN c ELSE heap[n].kids[x]
    <3>1. c \in Node
      BY <1>10
    <3>2. /\ AddChild(heap[n], b, c) # None
          /\ \A x \in Byte : AddChild(heap[n], b, c).kids[x] = IF x = b THEN c ELSE heap[n].kids[x]
      <4>1. PICK nd \in VersionedNode : nd = heap[n]
        BY <1>2
      <4> QED BY <3>1, <4>1, ChildEdits
    <3> QED BY <1>12, <3>2
  <2>4. heap'[n].prefix = heap[n].prefix /\ heap'[n].value = heap[n].value
    BY <1>2, <1>12 DEF AddChild, VersionedNode
  <2>5. n \in Alive'
    BY <1>10, <2>3 DEF Alive
  <2>6. ChangesEdge(Alive \ {n}, n, b)
    BY <2>1, <2>2, <2>3, <2>4, <2>5 DEF ChangesEdge
  <2>7. heap'[c].prefix = q /\ heap'[c].kids = NoKids /\ heap'[c].value = v
    BY <1>12 DEF NewLeaf
  <2>8. c \in Alive'
    <3>1. NoKids \in [Byte -> Node \cup {None}]
      BY DEF NoKids
    <3>2. NewLeaf(q, v, t) \in VersionedNode
      BY <3>1 DEF NewLeaf, VersionedNode
    <3> QED BY <1>10, <1>12, <3>2, NoneAssumption DEF Alive
  <2> QED BY <1>13, <2>3, <2>6, <2>7, <2>8 DEF GrowsLeaf
<1>15. AnswersBut(n, key, d, v, n)
  <2>1. TreeHeap /\ TreeHeap'
    BY TreeHeapHolds DEF TreeHeap, IInv, ShapeInv
  <2>2. EdgeAt(n, p, key, d, e, b)
    BY <1>2, <1>3, <1>4, <1>5 DEF EdgeAt
  <2> QED BY <1>4, <1>14, <2>1, <2>2, GrownGet
<1>16. TurnsBack(h, n, Alive \ {n})
  <2>1. /\ pc'[h] = "up" /\ todo'[h] = todo[h] /\ trail'[h] = trail[h] /\ depth'[h] = depth[h]
        /\ n = res'[h]
    BY <1>1, <1>9 DEF TypeOK, AddLeaf, ReturnNode, walkVars
  <2>2. TrailNodes(h) \subseteq Alive \ {n}
    BY <1>1, <1>10, TrailAlive
  <2>3. Spared(Alive \ {n})
    BY <1>14 DEF GrowsLeaf, ChangesEdge
  <2> QED BY <1>1, <2>1, <2>2, <2>3 DEF TurnsBack
<1>17. Shows(h, [m EXCEPT ![key] = v])'
  BY <1>2, <1>7, <1>15, <1>16, ChangedShows
<1> QED BY <1>2, <1>7, <1>17

\* The first bytes of a prefix.
LEMMA HeadBytes ==
  ASSUME NEW p \in Seq(Byte), NEW c \in Nat, c <= Len(p)
  PROVE  /\ SubSeq(p, 1, c) \in Seq(Byte) /\ Len(SubSeq(p, 1, c)) = c
         /\ \A i \in 1..c : SubSeq(p, 1, c)[i] = p[i]
OBVIOUS

\* The two parts of a prefix cut in two, against a key.
CutsInTwo(p, p1, p2, c, k, d, e) ==
  /\ p1 \in Seq(Byte) /\ p2 \in Seq(Byte) /\ e + Len(p2) = d + Len(p) /\ d + Len(p1) = e
  /\ PrefixAt(p1, k, d) <=> e <= Len(k) /\ \A i \in 1..c : p[i] = k[d + i]
  /\ PrefixAt(p, k, d) <=> PrefixAt(p1, k, d) /\ PrefixAt(p2, k, e)
  /\ PrefixAt(p, k, d) /\ c < Len(p) => e < Len(k) /\ k[e + 1] = p[c + 1]

\* The prefix matches a key if its two parts do.
LEMMA CutPrefix ==
  ASSUME NEW p \in Seq(Byte), NEW c \in Nat, c <= Len(p), NEW k \in Seq(Byte), NEW d \in Nat,
         NEW e, e = d + c, NEW p1, p1 = SubSeq(p, 1, c), NEW p2, p2 = Rest(p, c)
  PROVE  CutsInTwo(p, p1, p2, c, k, d, e)
<1>1. p1 \in Seq(Byte) /\ Len(p1) = c /\ \A i \in 1..c : p1[i] = p[i]
  BY HeadBytes
<1>2. /\ p2 \in Seq(Byte) /\ Len(p2) = Len(p) - c /\ Len(p) - c \in Nat
      /\ \A i \in 1..Len(p) - c : p2[i] = p[c + i]
  BY RestBytes
<1>3. Len(p) \in Nat /\ Len(k) \in Nat
  OBVIOUS
<1>4. PrefixAt(p1, k, d) <=> e <= Len(k) /\ \A i \in 1..c : p[i] = k[d + i]
  BY <1>1 DEF PrefixAt
<1>5. PrefixAt(p2, k, e) <=> d + Len(p) <= Len(k) /\ \A i \in 1..Len(p) - c : p[c + i] = k[d + (c + i)]
  <2>1. e + Len(p2) = d + Len(p)
    BY <1>2, <1>3
  <2>2. \A i \in 1..Len(p) - c : e + i = d + (c + i)
    BY <1>3
  <2> QED BY <1>2, <2>1, <2>2 DEF PrefixAt
<1>6. ASSUME PrefixAt(p, k, d) PROVE PrefixAt(p1, k, d) /\ PrefixAt(p2, k, e)
  <2>1. d + Len(p) <= Len(k) /\ \A i \in 1..Len(p) : p[i] = k[d + i]
    BY <1>6 DEF PrefixAt
  <2>2. \A i \in 1..c : i \in 1..Len(p)
    BY <1>3
  <2>3. \A i \in 1..Len(p) - c : c + i \in 1..Len(p)
    BY <1>3
  <2> QED BY <1>3, <1>4, <1>5, <2>1, <2>2, <2>3
<1>7. ASSUME PrefixAt(p1, k, d), PrefixAt(p2, k, e) PROVE PrefixAt(p, k, d)
  <2>1. ASSUME NEW i \in 1..Len(p) PROVE p[i] = k[d + i]
    <3>1. CASE i \in 1..c
      BY <1>4, <1>7, <3>1
    <3>2. CASE i \notin 1..c
      <4>1. PICK j \in 1..Len(p) - c : i = c + j
        <5>1. i - c \in 1..Len(p) - c /\ i = c + (i - c)
          BY <1>3, <2>1, <3>2
        <5> QED BY <5>1
      <4> QED BY <1>5, <1>7, <4>1
    <3> QED BY <3>1, <3>2
  <2> QED BY <1>5, <1>7, <2>1 DEF PrefixAt
<1>8. PrefixAt(p, k, d) /\ c < Len(p) => e < Len(k) /\ k[e + 1] = p[c + 1]
  <2> SUFFICES ASSUME PrefixAt(p, k, d), c < Len(p) PROVE e < Len(k) /\ k[e + 1] = p[c + 1]
    OBVIOUS
  <2>1. c + 1 \in 1..Len(p) /\ d + (c + 1) = e + 1
    BY <1>3
  <2>2. d + Len(p) <= Len(k) /\ p[c + 1] = k[d + (c + 1)]
    BY <2>1 DEF PrefixAt
  <2>3. k[e + 1] = p[c + 1]
    BY <2>1, <2>2
  <2>4. e < Len(k)
    BY <1>3, <2>2
  <2> QED BY <2>3, <2>4
<1>9. e + Len(p2) = d + Len(p) /\ d + Len(p1) = e
  BY <1>1, <1>2, <1>3
<1>10. PrefixAt(p, k, d) <=> PrefixAt(p1, k, d) /\ PrefixAt(p2, k, e)
  BY <1>6, <1>7
<1> QED BY <1>1, <1>2, <1>4, <1>8, <1>9, <1>10 DEF CutsInTwo

\* c2 is a copy of n, whose prefix is p, that starts c bytes further down.
CopiesFrom(n, p, c, c2) ==
  /\ n \in Alive /\ p = heap[n].prefix /\ c <= Len(p) /\ c2 \in Alive'
  /\ heap'[c2].prefix = Rest(p, c) /\ heap'[c2].value = heap[n].value
  /\ heap'[c2].kids = heap[n].kids

\* The key k, met at the depth d, has the first c bytes of p, and is at e then.
PassesHead(p, c, k, d, e) ==
  /\ p \in Seq(Byte) /\ c \in Nat /\ k \in Seq(Byte) /\ d \in Nat /\ e \in Nat /\ e = d + c
  /\ PrefixAt(SubSeq(p, 1, c), k, d)

\* It answers there as n did.
LEMMA LowerCopy ==
  ASSUME TreeHeap, TreeHeap', Spared(Alive), NEW n, NEW c2, NEW p, NEW c, CopiesFrom(n, p, c, c2),
         NEW k, NEW d, NEW e, PassesHead(p, c, k, d, e)
  PROVE  Get(c2, Rest(k, e))' = Get(n, Rest(k, d))
<1>0. PICK p1 : p1 = SubSeq(p, 1, c)
  OBVIOUS
<1> p \in Seq(Byte) /\ c \in Nat /\ k \in Seq(Byte) /\ d \in Nat /\ e \in Nat /\ e = d + c
    /\ p1 = SubSeq(p, 1, c) /\ PrefixAt(p1, k, d)
  BY <1>0 DEF PassesHead
<1>1. /\ n \in Alive /\ p = heap[n].prefix /\ c <= Len(p) /\ c2 \in Alive'
      /\ heap'[c2].prefix = Rest(p, c) /\ heap'[c2].value = heap[n].value
      /\ heap'[c2].kids = heap[n].kids
  BY DEF CopiesFrom
<1>2. PICK p2 \in Seq(Byte) : p2 = Rest(p, c) /\ p2 = heap'[c2].prefix
  BY <1>1, RestBytes
<1>3. /\ e + Len(p2) = d + Len(p) /\ e <= Len(k) /\ d <= Len(k)
      /\ Len(k) \in Nat /\ Len(p) \in Nat
      /\ PrefixAt(p, k, d) <=> PrefixAt(p2, k, e)
  <2>1. c <= Len(p) /\ e = d + c /\ p1 = SubSeq(p, 1, c) /\ p2 = Rest(p, c)
    BY <1>0, <1>1, <1>2
  <2>2. CutsInTwo(p, p1, p2, c, k, d, e)
    BY <2>1, CutPrefix
  <2>3. e + Len(p2) = d + Len(p) /\ (PrefixAt(p1, k, d) => e <= Len(k))
    BY <2>2 DEF CutsInTwo
  <2>4. PrefixAt(p, k, d) <=> PrefixAt(p1, k, d) /\ PrefixAt(p2, k, e)
    BY <2>2 DEF CutsInTwo
  <2>5. /\ Len(k) \in Nat /\ Len(p) \in Nat /\ e <= Len(k) /\ d <= Len(k)
    BY <2>1, <2>3
  <2> QED BY <2>3, <2>4, <2>5
<1>4. Unfolds(n, p, k, d)
  BY <1>1, <1>3, GetLawBefore
<1>5. Unfolds(c2, p2, k, e)'
  BY <1>1, <1>2, <1>3, GetLawAfter
<1>6. PICK f \in Nat : f = d + Len(p)
  OBVIOUS
<1>7. /\ ~PrefixAt(p, k, d) => Get(c2, Rest(k, e))' = None
      /\ PrefixAt(p, k, d) /\ f = Len(k) => Get(c2, Rest(k, e))' = heap'[c2].value
      /\ PrefixAt(p, k, d) /\ f < Len(k) =>
           Get(c2, Rest(k, e))' = Get(heap[c2].kids[k[f + 1]], Rest(k, f))'
  BY <1>3, <1>5, <1>6 DEF Unfolds
<1>8. /\ ~PrefixAt(p, k, d) => Get(n, Rest(k, d)) = None
      /\ PrefixAt(p, k, d) /\ f = Len(k) => Get(n, Rest(k, d)) = heap[n].value
      /\ PrefixAt(p, k, d) /\ f < Len(k) => Get(n, Rest(k, d)) = Get(heap[n].kids[k[f + 1]], Rest(k, f))
  BY <1>4, <1>6 DEF Unfolds
<1>9. f < Len(k) => Get(heap[c2].kids[k[f + 1]], Rest(k, f))' = Get(heap[n].kids[k[f + 1]], Rest(k, f))
  <2> SUFFICES ASSUME f < Len(k)
               PROVE  Get(heap[c2].kids[k[f + 1]], Rest(k, f))' = Get(heap[n].kids[k[f + 1]], Rest(k, f))
    OBVIOUS
  <2>1. PICK b \in Byte : b = k[f + 1] /\ Rest(k, f) \in Seq(Byte)
    BY BytesLeft
  <2>2. PICK x \in Alive \cup {None} : x = heap[n].kids[b]
    BY <1>1, <2>1 DEF TreeHeap, HeapInv
  <2>3. Get(x, Rest(k, f))' = Get(x, Rest(k, f))
    BY <2>1, GetSpared
  <2> QED BY <1>1, <2>1, <2>2, <2>3
<1>10. PrefixAt(p, k, d) => f = Len(k) \/ f < Len(k)
  BY <1>3, <1>6 DEF PrefixAt
<1> QED BY <1>1, <1>7, <1>8, <1>9, <1>10

\* c1 takes the place of n: it has the first c bytes of n's prefix p, below it a copy
\* of n with the others, and v for the key, which leaves p there or ends.
ForksAt(n, p, key, d, c, c1, v) ==
  LET e == d + c IN
  /\ c < Len(p) /\ p[c + 1] \in Byte /\ PrefixAt(SubSeq(p, 1, c), key, d)
  /\ c1 \in Alive' /\ heap'[c1].prefix = SubSeq(p, 1, c)
  /\ \E c2 \in Alive' : /\ heap'[c1].kids[p[c + 1]] = c2 /\ heap'[c2].prefix = Rest(p, c)
                        /\ heap'[c2].value = heap[n].value /\ heap'[c2].kids = heap[n].kids
  /\ e = Len(key) => /\ heap'[c1].value = v
                     /\ \A b \in Byte : b # p[c + 1] => heap'[c1].kids[b] = None
  /\ e # Len(key) =>
       /\ heap'[c1].value = None /\ key[e + 1] # p[c + 1]
       /\ \A b \in Byte : b # p[c + 1] /\ b # key[e + 1] => heap'[c1].kids[b] = None
       /\ \E c3 \in Alive' : /\ heap'[c1].kids[key[e + 1]] = c3 /\ heap'[c3].prefix = Rest(key, e)
                             /\ heap'[c3].kids = NoKids /\ heap'[c3].value = v

\* What c1 answers.
LEMMA ForkGet ==
  ASSUME TreeHeap, TreeHeap', Spared(Alive), NEW n \in Alive, NEW p \in Seq(Byte),
         p = heap[n].prefix, NEW key \in Seq(Byte), NEW d \in Nat, NEW c \in Nat, NEW c1, NEW v,
         ForksAt(n, p, key, d, c, c1, v)
  PROVE  AnswersBut(c1, key, d, v, n)
<1> SUFFICES ASSUME NEW k, GetsTo(k, key, d)
             PROVE  Get(c1, Rest(k, d))' = IF k = key THEN v ELSE Get(n, Rest(k, d))
  BY DEF AnswersBut, GetsTo
<1>1. k \in Seq(Byte) /\ Along(k, key, d) /\ d <= Len(k) /\ Len(k) \in Nat
  BY DEF GetsTo
<1>2. PICK e \in Nat : e = d + c
  OBVIOUS
<1>3. PICK p1, p2 : p1 = SubSeq(p, 1, c) /\ p2 = Rest(p, c)
  OBVIOUS
<1>4. /\ c < Len(p) /\ c <= Len(p) /\ p[c + 1] \in Byte /\ PrefixAt(p1, key, d)
      /\ c1 \in Alive' /\ heap'[c1].prefix = p1
  BY <1>3 DEF ForksAt
<1>5. CutsInTwo(p, p1, p2, c, k, d, e)
  BY <1>1, <1>2, <1>3, <1>4, CutPrefix
<1>6. /\ p1 \in Seq(Byte) /\ d + Len(p1) = e
      /\ PrefixAt(p, k, d) => PrefixAt(p1, k, d) /\ e < Len(k) /\ k[e + 1] = p[c + 1]
  BY <1>4, <1>5 DEF CutsInTwo
<1>7. e <= Len(key) /\ d <= Len(key) /\ Len(key) \in Nat
  BY <1>2, <1>4, <1>6 DEF PrefixAt
<1>8. ~PrefixAt(p, k, d) => Get(n, Rest(k, d)) = None
  <2>1. Unfolds(n, p, k, d)
    BY <1>1, GetLawBefore
  <2> QED BY <2>1 DEF Unfolds
<1>9. /\ ~PrefixAt(p1, k, d) => Get(c1, Rest(k, d))' = None
      /\ PrefixAt(p1, k, d) /\ e = Len(k) => Get(c1, Rest(k, d))' = heap'[c1].value
      /\ PrefixAt(p1, k, d) /\ e < Len(k) =>
           Get(c1, Rest(k, d))' = Get(heap[c1].kids[k[e + 1]], Rest(k, e))'
  <2>1. Unfolds(c1, p1, k, d)'
    BY <1>1, <1>4, <1>6, GetLawAfter
  <2> QED BY <1>6, <2>1 DEF Unfolds
<1>10. CASE ~PrefixAt(p1, k, d)
  BY <1>4, <1>6, <1>8, <1>9, <1>10
<1>11. CASE PrefixAt(p1, k, d) /\ e = Len(k)
  <2>1. Get(n, Rest(k, d)) = None
    BY <1>6, <1>8, <1>11
  <2>2. Get(c1, Rest(k, d))' = heap'[c1].value
    BY <1>9, <1>11
  <2>3. CASE e = Len(key)
    <3>1. k = key
      BY <1>1, <1>4, <1>6, <1>7, <1>11, <2>3, SameKey
    <3>2. heap'[c1].value = v
      BY <1>2, <2>3 DEF ForksAt
    <3> QED BY <2>2, <3>1, <3>2
  <2>4. CASE e # Len(key)
    <3>1. heap'[c1].value = None
      BY <1>2, <2>4 DEF ForksAt
    <3> QED BY <1>11, <2>1, <2>2, <2>4, <3>1
  <2> QED BY <2>3, <2>4
<1>12. CASE PrefixAt(p1, k, d) /\ e < Len(k)
  <2>1. PICK b \in Byte : b = k[e + 1] /\ Rest(k, e) \in Seq(Byte)
    BY <1>1, <1>12, BytesLeft
  <2>2. PICK x : x = heap'[c1].kids[b]
    OBVIOUS
  <2>3. Get(c1, Rest(k, d))' = Get(x, Rest(k, e))'
    BY <1>9, <1>12, <2>1, <2>2
  <2>4. CASE b = p[c + 1]
    <3>1. k # key
      <4>1. e # Len(key) => key[e + 1] # p[c + 1]
        BY <1>2 DEF ForksAt
      <4>2. e # Len(k) /\ k[e + 1] = p[c + 1]
        BY <1>1, <1>12, <2>1, <2>4
      <4> QED BY <4>1, <4>2
    <3>2. CopiesFrom(n, p, c, x)
      <4>1. /\ x \in Alive' /\ heap'[x].prefix = Rest(p, c)
            /\ heap'[x].value = heap[n].value /\ heap'[x].kids = heap[n].kids
        BY <2>2, <2>4 DEF ForksAt
      <4> QED BY <1>4, <4>1 DEF CopiesFrom
    <3>3. Get(x, Rest(k, e))' = Get(n, Rest(k, d))
      <4>1. PassesHead(p, c, k, d, e)
        BY <1>1, <1>2, <1>3, <1>12 DEF PassesHead
      <4> QED BY <3>2, <4>1, LowerCopy
    <3> QED BY <2>3, <3>1, <3>3
  <2>5. CASE b # p[c + 1] /\ e # Len(key) /\ b = key[e + 1]
    <3>1. Get(n, Rest(k, d)) = None
      BY <1>6, <1>8, <2>1, <2>5
    <3>2. /\ x \in Alive' /\ heap'[x].prefix = Rest(key, e)
          /\ heap'[x].kids = NoKids /\ heap'[x].value = v
      BY <1>2, <2>2, <2>5 DEF ForksAt
    <3>3. PICK q \in Seq(Byte) : q = Rest(key, e) /\ q = heap'[x].prefix
      BY <1>7, <3>2, RestBytes
    <3>4. Get(x, Rest(k, e))' = IF PrefixAt(q, k, e) /\ e + Len(q) = Len(k) THEN v ELSE None
      <4>1. e <= Len(k)
        BY <1>1, <1>12
      <4>2. Get(x, Rest(k, e))' = IF PrefixAt(q, k, e) /\ e + Len(q) = Len(k)
                                  THEN heap'[x].value ELSE None
        BY <1>1, <3>2, <3>3, <4>1, LeafGet
      <4> QED BY <3>2, <4>2
    <3>5. Joins(k, key, e)
      <4>1. e < Len(key) /\ key[e + 1] = b
        BY <1>7, <2>5
      <4>2. \A i \in 1..Len(p1) : p1[i] = key[d + i]
        BY <1>4 DEF PrefixAt
      <4>3. JoinsBy(k, key, p1, d, e, b)
        BY <1>1, <1>6, <4>1, <4>2, JoinsMeans
      <4> QED BY <1>12, <2>1, <4>3 DEF JoinsBy
    <3>6. PrefixAt(q, k, e) /\ e + Len(q) = Len(k) <=> k = key
      <4>1. k \in Seq(Byte) /\ e \in Nat /\ q = Rest(key, e)
        BY <1>1, <3>3
      <4> QED BY <3>5, <4>1, RestOfKey
    <3> QED BY <2>3, <3>1, <3>4, <3>6
  <2>6. CASE b # p[c + 1] /\ ~(e # Len(key) /\ b = key[e + 1])
    <3>1. Get(n, Rest(k, d)) = None
      BY <1>6, <1>8, <2>1, <2>6
    <3>2. k # key
      BY <1>12, <2>1, <2>6
    <3>3. x = None
      BY <1>2, <2>2, <2>6 DEF ForksAt
    <3>4. Get(x, Rest(k, e))' = None
      BY <3>3, GetNone DEF Get, Found, Path
    <3> QED BY <2>3, <3>1, <3>2, <3>4
  <2> QED BY <2>4, <2>5, <2>6
<1>13. PrefixAt(p1, k, d) => e = Len(k) \/ e < Len(k)
  BY <1>1, <1>6 DEF PrefixAt
<1> QED BY <1>10, <1>11, <1>12, <1>13

\* A node whose prefix the key leaves, or ends in, is split.
LEMMA SplitShows ==
  ASSUME IInv, IInv', ShapeInv, ShapeInv', NEW h \in Handle, ThreadRoute(h), Split(h),
         NEW m \in [Key -> Val \cup {None}], Shows(h, m), NEW s \in Call, s = Step(h)
  PROVE  Shows(h, [m EXCEPT ![s.key] = Brings(s)])'
<1>1. /\ TypeOK /\ pc[h] = "visit" /\ pc[h] \in InTree
      /\ s.op = "insert" \/ (s.op = "update" /\ s.act = "insert")
  BY DEF IInv, Split, Running, InTree, TopDown
<1>2. PICK n \in Alive, p \in Seq(Byte), d \in Nat, key \in Seq(Byte) :
           /\ n = cur[h] /\ p = heap[n].prefix /\ d = depth[h] /\ key = Step(h).key
           /\ heap[n] \in VersionedNode /\ d <= Len(key)
  BY <1>1, HereOnKey
<1>3. PICK v \in Val \cup {None} : v = s.val /\ v = Brings(s)
  BY <1>1, BringsTyped DEF Brings
<1>4. PICK c1, c2, c3 \in Node, c \in Nat : IsSplit(h, c1, c2, c3, c)
  BY SplitMeans
<1>5. /\ c < Len(p) /\ p[c + 1] \in Byte /\ MatchesFor(p, key, d, c)
      /\ PlaceOf(h) = "inside" <=> d + c = Len(key)
      /\ res'[h] = c1 /\ c1 # c2 /\ c1 # c3
      /\ \A x \in Alive : heap'[x] = heap[x]
      /\ c1 \in Alive' /\ c2 \in Alive'
  BY <1>2, <1>4 DEF IsSplit
<1>6. /\ heap'[c1].prefix = SubSeq(p, 1, c)
      /\ heap'[c1].value = IF d + c = Len(key) THEN v ELSE None
      /\ \A b \in Byte : heap'[c1].kids[b] = IF d + c # Len(key) /\ b = key[d + c + 1] THEN c3
                                             ELSE IF b = p[c + 1] THEN c2 ELSE None
      /\ heap'[c2].prefix = SubSeq(p, c + 1, Len(p))
      /\ heap'[c2].value = heap[n].value /\ heap'[c2].kids = heap[n].kids
  BY <1>2, <1>3, <1>4, <1>5 DEF IsSplit
<1>7. d + c # Len(key) =>
        /\ c3 \in Alive' /\ key[d + c + 1] \in Byte /\ heap'[c3].prefix = Rest(key, d + c)
        /\ heap'[c3].value = v /\ heap'[c3].kids = NoKids
  BY <1>2, <1>3, <1>4, <1>5 DEF IsSplit
<1>8. ForksAt(n, p, key, d, c, c1, v)
  <2>1. PrefixAt(SubSeq(p, 1, c), key, d)
    <3>1. PICK p1 : p1 = SubSeq(p, 1, c)
      OBVIOUS
    <3>2. p1 \in Seq(Byte) /\ Len(p1) = c /\ \A i \in 1..c : p1[i] = p[i]
      BY <1>5, <3>1, HeadBytes
    <3> QED BY <1>5, <3>1, <3>2 DEF MatchesFor, PrefixAt
  <2>2. d + c # Len(key) => key[d + c + 1] # p[c + 1]
    <3>1. d + c # Len(key) => d + c < Len(key)
      BY <1>5 DEF MatchesFor
    <3> QED BY <1>5, <3>1 DEF MatchesFor
  <2>3. heap'[c1].kids[p[c + 1]] = c2 /\ heap'[c2].prefix = Rest(p, c)
    BY <1>5, <1>6, <2>2 DEF Rest
  <2> QED BY <1>5, <1>6, <1>7, <2>1, <2>2, <2>3 DEF ForksAt
<1>9. Spared(Alive)
  BY <1>5, SparedAll
<1>10. AnswersBut(c1, key, d, v, n)
  <2>1. TreeHeap /\ TreeHeap'
    BY TreeHeapHolds DEF TreeHeap, IInv, ShapeInv
  <2> QED BY <1>2, <1>8, <1>9, <2>1, ForkGet
<1>11. TurnsBack(h, c1, Alive)
  <2>1. /\ pc'[h] = "up" /\ todo'[h] = todo[h] /\ trail'[h] = trail[h] /\ depth'[h] = depth[h]
    BY <1>1 DEF TypeOK, Split, ReturnNode, walkVars
  <2>2. TrailNodes(h) \subseteq Alive
    BY <1>1, TrailAlive
  <2> QED BY <1>1, <1>5, <1>9, <2>1, <2>2 DEF TurnsBack
<1>12. Shows(h, [m EXCEPT ![key] = v])'
  BY <1>2, <1>10, <1>11, ChangedShows
<1> QED BY <1>2, <1>3, <1>12

=============================================================================
