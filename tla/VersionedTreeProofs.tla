------------------------ MODULE VersionedTreeProofs ------------------------
(***************************************************************************)
(* IInv is an invariant of VersionedTree for every set of handles, keys    *)
(* and calls, every arena and every bound; type correctness, NoUnwrapPanic *)
(* and StampsOrdered follow.                                               *)
(***************************************************************************)
EXTENDS VersionedInvariant, Integers, FiniteSetTheorems, TLAPS

USE KeyAssumption, ArenaAssumption, ValAssumption, CallsAssumption,
    BoundAssumption, NoneAssumption

-----------------------------------------------------------------------------
(* Operators *)

\* An allocated node is a VersionedNode.
LEMMA AliveTyped ==
  ASSUME TypeOK, NEW n \in Alive
  PROVE  n \in Node /\ heap[n] \in VersionedNode /\ n # None
BY DEF TypeOK, Alive

\* The names given to new allocations are free and distinct.
LEMMA FreshNames ==
  ASSUME TypeOK, NEW h \in Handle
  PROVE  /\ Free(h) # {} => New1(h) \in Node \ Alive
         /\ Free(h) \ {New1(h), New2(h)} # {} =>
              /\ New1(h) \in Node \ Alive /\ New2(h) \in Node \ Alive
              /\ New3(h) \in Node \ Alive
              /\ New1(h) # New2(h) /\ New1(h) # New3(h) /\ New2(h) # New3(h)
<1>1. Free(h) \subseteq Node \ Alive
  BY DEF Free, TypeOK
<1>2. ASSUME NEW S, S # {} PROVE Pick(S) \in S
  BY <1>2 DEF Pick
<1>3. Free(h) # {} => New1(h) \in Free(h)
  BY <1>2 DEF New1
<1>4. ASSUME Free(h) \ {New1(h), New2(h)} # {}
      PROVE  /\ New2(h) \in Free(h) \ {New1(h)}
             /\ New3(h) \in Free(h) \ {New1(h), New2(h)}
  <2>1. Free(h) \ {New1(h)} # {}
    BY <1>4
  <2>2. New2(h) \in Free(h) \ {New1(h)}
    BY <1>2, <2>1 DEF New2
  <2>3. New3(h) \in Free(h) \ {New1(h), New2(h)}
    BY <1>2, <1>4 DEF New3
  <2> QED
    BY <2>2, <2>3
<1> QED
  BY <1>1, <1>3, <1>4

\* An interval of positions is finite.
LEMMA Interval ==
  ASSUME NEW n \in Nat
  PROVE  IsFiniteSet(1..n) /\ Cardinality(1..n) = n
<1>1. IsFiniteSet(1..n)
  BY FS_Interval
<1>2. Cardinality(1..n) = IF 1 > n THEN 0 ELSE n - 1 + 1
  BY FS_Interval
<1> QED
  BY <1>1, <1>2

\* Partial::prefix_length_key stays inside the prefix and inside the key.
LEMMA PrefixLengthBounds ==
  ASSUME NEW p \in Seq(Byte), NEW k \in Seq(Byte), NEW d \in Nat, d <= Len(k)
  PROVE  /\ PrefixLengthKey(p, k, d) \in Nat
         /\ PrefixLengthKey(p, k, d) <= Len(p)
         /\ d + PrefixLengthKey(p, k, d) <= Len(k)
<1> DEFINE S == {i \in 1..Len(p) : d + i <= Len(k) /\ \A j \in 1..i : p[j] = k[d + j]}
<1>1. /\ IsFiniteSet(1..Len(p)) /\ Cardinality(1..Len(p)) = Len(p)
      /\ IsFiniteSet(1..(Len(k) - d)) /\ Cardinality(1..(Len(k) - d)) = Len(k) - d
  <2>1. Len(p) \in Nat /\ Len(k) - d \in Nat
    OBVIOUS
  <2> QED
    BY <2>1, Interval
<1>2. S \subseteq 1..Len(p) /\ S \subseteq 1..(Len(k) - d)
  OBVIOUS
<1>3. IsFiniteSet(S) /\ Cardinality(S) <= Len(p) /\ Cardinality(S) <= Len(k) - d
  BY <1>1, <1>2, FS_Subset
<1>4. Cardinality(S) \in Nat
  BY <1>3, FS_CardinalityType
<1> QED
  BY <1>3, <1>4 DEF PrefixLengthKey

\* Where the walk stands, in bytes.
LEMMA PlaceBounds ==
  ASSUME NEW nd \in VersionedNode, NEW k \in Seq(Byte), NEW d \in Nat, d <= Len(k)
  PROVE  LET common == PrefixLengthKey(nd.prefix, k, d)
             p == Place(nd, k, d)
         IN  /\ common \in Nat /\ common <= Len(nd.prefix) /\ d + common <= Len(k)
             /\ p \in {"inside", "diverges"} => common < Len(nd.prefix)
             /\ p = "diverges" => d + common < Len(k)
             /\ p \in {"below", "missing", "child"} =>
                  d + Len(nd.prefix) < Len(k) /\ EdgeOf(nd, k, d) \in Byte
             /\ p = "child" => nd.kids[EdgeOf(nd, k, d)] # None /\ ~nd.leaf
             /\ p \in {"at", "inside", "diverges", "below", "missing", "child"}
<1> DEFINE common == PrefixLengthKey(nd.prefix, k, d)
<1>1. nd.prefix \in Seq(Byte) /\ Len(nd.prefix) \in Nat /\ Len(k) \in Nat
  BY DEF VersionedNode
<1>2. common \in Nat /\ common <= Len(nd.prefix) /\ d + common <= Len(k)
  BY <1>1, PrefixLengthBounds
<1>3. Place(nd, k, d) \in {"inside", "diverges"} => common < Len(nd.prefix)
  BY <1>1, <1>2 DEF Place
<1>4. Place(nd, k, d) = "diverges" => d + common < Len(k)
  BY SMTT(30), <1>1, <1>2 DEF Place
<1>5. Place(nd, k, d) \in {"below", "missing", "child"} => d + Len(nd.prefix) < Len(k)
  BY <1>1, <1>2 DEF Place
<1>6. d + Len(nd.prefix) < Len(k) => EdgeOf(nd, k, d) \in Byte
  BY <1>1 DEF EdgeOf
<1>7. Place(nd, k, d) = "child" => nd.kids[EdgeOf(nd, k, d)] # None /\ ~nd.leaf
  BY DEF Place
<1>8. Place(nd, k, d) \in {"at", "inside", "diverges", "below", "missing", "child"}
  BY DEF Place
<1> QED
  BY <1>2, <1>3, <1>4, <1>5, <1>6, <1>7, <1>8

-----------------------------------------------------------------------------
(* What a step of one thread leaves to the others.  A step of the thread of  *)
(* h may write to, or free, only nodes that nothing outside the thread       *)
(* points to; and no reference comes from nowhere: a node that no root, no   *)
(* parent and no hand of this thread pointed to is still not pointed to.     *)

SameLocals(g) ==
  /\ root'[g] = root[g] /\ version'[g] = version[g]
  /\ call'[g] = call[g] /\ todo'[g] = todo[g] /\ ret'[g] = ret[g]
  /\ pc'[g] = pc[g] /\ cur'[g] = cur[g] /\ depth'[g] = depth[g]
  /\ trail'[g] = trail[g] /\ edge'[g] = edge[g]
  /\ res'[g] = res[g] /\ drops'[g] = drops[g]

LocalFrame(h) == \A g \in Handle \ {h} : SameLocals(g)

Unwritten(n) ==
  heap'[n] # None /\ heap'[n].kids = heap[n].kids /\ heap'[n].version = heap[n].version

HeapFrame(h) == \A n \in Alive : HeldElsewhere(h, n) => Unwritten(n)

Loose(h, n) == ~HeldByRoot(n) /\ ~HeldByParent(n) /\ n \notin InHand(h)

RefFrame(h) == \A n \in Alive : Loose(h, n) => Loose(h, n)'

\* The Arcs in the hands of a thread, one by one.
LEMMA InHandDef ==
  ASSUME TypeOK, NEW h \in Handle, NEW n \in Node
  PROVE  n \in InHand(h) <=> \/ n = cur[h] \/ n = res[h] \/ n \in drops[h]
                             \/ \E i \in Frames(h) : trail[h][i].node = n
BY DEF TypeOK, InHand, TrailNodes, Frames

\* A step of h that only writes to nodes nothing else points to leaves the
\* invariant of every other thread as it was: this is what makes handles isolated.
LEMMA OthersStep ==
  ASSUME IInv, NEW h \in Handle, TypeOK',
         LocalFrame(h), HeapFrame(h), RefFrame(h),
         NEW g \in Handle \ {h}
  PROVE  ThreadInv(g)'
<1>1. SameLocals(g) /\ ThreadInv(g) /\ TypeOK /\ HeapInv
  BY DEF LocalFrame, IInv
<1>2. Step(g)' = Step(g) /\ TopDown(g)' = TopDown(g) /\ Target(g)' = Target(g)
      /\ Frames(g)' = Frames(g)
  BY <1>1 DEF SameLocals, Step, TopDown, Target, Frames
<1>3. PhaseOf(g)'
  BY <1>1, <1>2 DEF ThreadInv, PhaseOf, SameLocals
<1>4. ASSUME NEW n \in Alive, root[g] = n \/ n \in InHand(g) \/ HeldByParent(n)
      PROVE  Unwritten(n) /\ n \in Alive'
  BY <1>4 DEF HeapFrame, HeldElsewhere, HeldByRoot, Unwritten, Alive
<1>5. /\ root[g] # None => root[g] \in Alive' /\ Unwritten(root[g])
      /\ cur[g] # None => cur[g] \in Alive' /\ Unwritten(cur[g])
      /\ res[g] # None => res[g] \in Alive' /\ Unwritten(res[g])
      /\ \A i \in Frames(g) : trail[g][i].node \in Alive' /\ Unwritten(trail[g][i].node)
      /\ \A n \in drops[g] : n \in Alive'
  <2>1. /\ root[g] # None => root[g] \in Alive
        /\ cur[g] # None => cur[g] \in Alive
        /\ res[g] # None => res[g] \in Alive
        /\ \A i \in Frames(g) : trail[g][i].node \in Alive
        /\ drops[g] \subseteq Alive
    BY <1>1 DEF ThreadInv, HoldsAlive
  <2>2. /\ cur[g] # None => cur[g] \in InHand(g)
        /\ res[g] # None => res[g] \in InHand(g)
        /\ \A i \in Frames(g) : trail[g][i].node \in InHand(g)
        /\ drops[g] \subseteq InHand(g)
    BY <1>1, <2>1, InHandDef DEF Alive
  <2> QED
    BY <1>4, <2>1, <2>2
<1>6. HoldsAlive(g)'
  BY <1>1, <1>2, <1>5 DEF HoldsAlive, SameLocals
<1>7. ASSUME NEW n \in Alive, ~HeldElsewhere(g, n)
      PROVE  ~HeldElsewhere(g, n)'
  <2>1. Loose(h, n) /\ \A f \in Handle \ {g} : n \notin InHand(f)
    BY <1>7 DEF HeldElsewhere, Loose
  <2>2. Loose(h, n)'
    BY <2>1 DEF RefFrame
  <2>3. \A f \in Handle \ {g} : n \notin InHand(f)'
    BY <2>1, <2>2 DEF Loose, LocalFrame, SameLocals, InHand, TrailNodes
  <2> QED
    BY <2>2, <2>3 DEF HeldElsewhere, Loose
<1>8. TrailExclusive(g)'
  <2>1. ASSUME pc[g] \in InTree, TopDown(g), NEW i \in Frames(g)
        PROVE  AloneOnTrail(g, i)'
    <3>1. AloneOnTrail(g, i) /\ trail[g][i].node \in Alive
      BY <1>1, <2>1 DEF ThreadInv, TrailExclusive, HoldsAlive
    <3>2. ~HeldElsewhere(g, trail[g][i].node)'
      BY <1>7, <3>1, <1>1 DEF AloneOnTrail, SameLocals
    <3> QED
      BY <1>1, <1>2, <3>1, <3>2 DEF AloneOnTrail, SameLocals
  <2> QED
    BY <1>1, <1>2, <2>1 DEF TrailExclusive, SameLocals
<1>9. CurExclusive(g)'
  <2>1. ASSUME pc[g] \in {"edit", "fix"}
        PROVE  SoleCur(g)'
    <3>1. SoleCur(g) /\ cur[g] \in Alive
      BY <1>1, <2>1 DEF ThreadInv, CurExclusive, HoldsAlive, PhaseOf
    <3>2. ~HeldElsewhere(g, cur[g])'
      BY <1>7, <3>1, <1>1 DEF SoleCur, SameLocals
    <3> QED
      BY <1>1, <3>1, <3>2 DEF SoleCur, SameLocals, TrailNodes
  <2> QED
    BY <1>1, <2>1 DEF CurExclusive, SameLocals
<1>10. StampsOf(g)'
  <2>1. ASSUME pc[g] = "edit", NEW b \in Byte, heap[cur[g]].kids[b] # None
        PROVE  Unwritten(heap[cur[g]].kids[b])
    <3>1. cur[g] \in Alive
      BY <1>1, <2>1 DEF ThreadInv, HoldsAlive, PhaseOf
    <3>2. heap[cur[g]].kids[b] \in Alive /\ HeldByParent(heap[cur[g]].kids[b])
      BY <1>1, <2>1, <3>1 DEF HeapInv, HeldByParent
    <3> QED
      BY <1>4, <3>2
  <2>2. pc[g] \in {"visit", "edit", "lift", "fix"} => cur[g] # None
    BY <1>1 DEF ThreadInv, PhaseOf
  <2>3. StampsOf(g)
    BY <1>1 DEF ThreadInv
  <2>4. root'[g] # None => heap'[root'[g]].version <= version'[g]
    BY <1>1, <1>5, <2>3 DEF StampsOf, SameLocals, Unwritten
  <2>5. pc'[g] \in {"visit", "lift"} => heap'[cur'[g]].version < Target(g)'
    BY <1>1, <1>2, <1>5, <2>2, <2>3 DEF StampsOf, SameLocals, Unwritten
  <2>6. pc'[g] \in {"edit", "fix"} => heap'[cur'[g]].version = Target(g)'
    BY <1>1, <1>2, <1>5, <2>2, <2>3 DEF StampsOf, SameLocals, Unwritten
  <2>7. ASSUME pc'[g] = "edit", NEW b \in Byte, heap'[cur'[g]].kids[b] # None
        PROVE  heap'[heap'[cur'[g]].kids[b]].version < Target(g)'
    <3>1. pc[g] = "edit" /\ heap'[cur'[g]].kids[b] = heap[cur[g]].kids[b]
      BY <1>1, <1>5, <2>2, <2>7 DEF SameLocals, Unwritten
    <3>2. heap[heap[cur[g]].kids[b]].version < Target(g)
      BY <2>3, <2>7, <3>1 DEF StampsOf
    <3> QED
      BY <1>2, <2>1, <2>7, <3>1, <3>2 DEF Unwritten
  <2>8. pc'[g] \in {"up", "lift", "fix"} /\ res'[g] # None =>
          /\ heap'[res'[g]].version <= Target(g)'
          /\ ~TopDown(g)' /\ ret'[g] = "false" => heap'[res'[g]].version < Target(g)'
    BY <1>1, <1>2, <1>5, <2>3 DEF StampsOf, SameLocals, Unwritten
  <2>9. ASSUME pc'[g] \in InTree, NEW i \in Frames(g)
        PROVE  IF TopDown(g)' THEN heap'[trail'[g][i].node].version = Target(g)'
                              ELSE heap'[trail'[g][i].node].version < Target(g)'
    <3>1. heap'[trail'[g][i].node].version = heap[trail[g][i].node].version
      BY <1>1, <1>5 DEF SameLocals, Unwritten
    <3>2. IF TopDown(g) THEN heap[trail[g][i].node].version = Target(g)
                        ELSE heap[trail[g][i].node].version < Target(g)
      BY <1>1, <2>3, <2>9 DEF StampsOf, SameLocals
    <3> QED
      BY <1>2, <3>1, <3>2
  <2> QED
    BY <1>2, <2>4, <2>5, <2>6, <2>7, <2>8, <2>9 DEF StampsOf
<1> QED
  BY <1>3, <1>6, <1>8, <1>9, <1>10 DEF ThreadInv

\* So it is enough to look at h itself and at the heap.
LEMMA StepKeeps ==
  ASSUME IInv, NEW h \in Handle, TypeOK', HeapInv', ThreadInv(h)',
         LocalFrame(h), HeapFrame(h), RefFrame(h)
  PROVE  IInv'
<1>1. ASSUME NEW g \in Handle
      PROVE  ThreadInv(g)'
  <2>1. CASE g = h
    BY <2>1
  <2>2. CASE g # h
    BY <2>2, OthersStep
  <2> QED
    BY <2>1, <2>2
<1> QED
  BY <1>1 DEF IInv

\* A step that leaves the heap alone.
LEMMA SameHeap ==
  ASSUME IInv, heap' = heap, NEW h \in Handle, TypeOK', LocalFrame(h), ThreadInv(h)',
         \A n \in Alive : Loose(h, n) => root'[h] # n /\ n \notin InHand(h)'
  PROVE  IInv'
<1>1. Alive' = Alive /\ TypeOK /\ HeapInv
  BY DEF Alive, IInv
<1>2. HeapInv'
  BY <1>1 DEF HeapInv
<1>3. HeapFrame(h)
  BY DEF HeapFrame, Unwritten, Alive
<1>4. RefFrame(h)
  <2>1. ASSUME NEW n \in Alive, Loose(h, n)
        PROVE  ~HeldByRoot(n)' /\ ~HeldByParent(n)'
    BY <1>1, <2>1 DEF Loose, HeldByRoot, HeldByParent, LocalFrame, SameLocals
  <2> QED
    BY <2>1 DEF RefFrame, Loose
<1> QED
  BY <1>2, <1>3, <1>4, StepKeeps

-----------------------------------------------------------------------------
(* The operations, one by one. *)

\* There is nothing at the start.
LEMMA InitOK == Init => IInv
<1> SUFFICES ASSUME Init PROVE IInv
  OBVIOUS
<1>1. TypeOK
  BY DEF Init, TypeOK, Phase, Answers
<1>2. Alive = {}
  BY DEF Init, Alive
<1>3. HeapInv
  BY <1>2 DEF HeapInv
<1>4. ASSUME NEW h \in Handle
      PROVE  ThreadInv(h)
  <2>1. Frames(h) = {} /\ pc[h] = "idle" /\ root[h] = None
    BY DEF Init, Frames
  <2> QED
    BY <2>1 DEF Init, ThreadInv, PhaseOf, HoldsAlive, TrailExclusive, CurExclusive,
                StampsOf, InTree
<1> QED
  BY <1>1, <1>3, <1>4 DEF IInv

\* A thread that is not inside a tree holds the handle's root and no more.
LEMMA Resting ==
  ASSUME NEW h \in Handle, TypeOK',
         pc'[h] \in {"idle", "plan", "next", "write"},
         cur'[h] = None, res'[h] = None, trail'[h] = <<>>,
         root'[h] # None => root'[h] \in Alive' /\ heap'[root'[h]].version <= version'[h],
         drops'[h] \subseteq Alive',
         pc'[h] = "write" => todo'[h] # <<>>,
         pc'[h] = "plan" => call'[h] # None
  PROVE  ThreadInv(h)'
<1>1. Frames(h)' = {}
  BY DEF Frames
<1> QED
  BY <1>1 DEF ThreadInv, PhaseOf, HoldsAlive, TrailExclusive, CurExclusive, StampsOf, InTree

\* What is known before the step of a thread that is not inside a tree.
LEMMA WasResting ==
  ASSUME IInv, NEW h \in Handle, pc[h] \in {"idle", "plan", "next", "write"}
  PROVE  /\ cur[h] = None /\ res[h] = None /\ trail[h] = <<>>
         /\ Frames(h) = {} /\ InHand(h) = drops[h] /\ drops[h] \subseteq Alive
         /\ root[h] # None =>
              /\ root[h] \in Alive /\ heap[root[h]].version \in Nat
              /\ heap[root[h]].version <= version[h]
<1>1. TypeOK /\ ThreadInv(h)
  BY DEF IInv
<1>2. cur[h] = None /\ res[h] = None /\ trail[h] = <<>> /\ Frames(h) = {}
  BY <1>1 DEF ThreadInv, PhaseOf, InTree, Frames
<1>3. drops[h] \subseteq Alive /\ None \notin Alive
  BY <1>1 DEF ThreadInv, HoldsAlive, Alive
<1>4. InHand(h) = drops[h]
  BY <1>2, <1>3 DEF InHand, TrailNodes
<1>5. root[h] # None => root[h] \in Alive /\ heap[root[h]].version <= version[h]
  BY <1>1 DEF ThreadInv, HoldsAlive, StampsOf
<1>6. root[h] # None => heap[root[h]].version \in Nat
  BY <1>1, <1>5, AliveTyped DEF VersionedNode
<1> QED
  BY <1>2, <1>3, <1>4, <1>5, <1>6

\* new()
LEMMA NewOK == ASSUME IInv, NEW h \in Handle, New(h) PROVE IInv'
<1>1. TypeOK /\ Alive' = Alive
  BY DEF IInv, New, Alive
<1> USE DEF New, Running, callVars, walkVars
<1>2. TypeOK'
  BY <1>1 DEF TypeOK
<1>3. LocalFrame(h)
  BY DEF LocalFrame, SameLocals
<1>4. ThreadInv(h)'
  BY <1>1, <1>2, WasResting, Resting
<1>5. \A n \in Alive : Loose(h, n) => root'[h] # n /\ n \notin InHand(h)'
  BY DEF Loose, InHand, TrailNodes, HeldByRoot
<1> QED
  BY <1>2, <1>3, <1>4, <1>5, SameHeap

\* clone() and snapshot(): the copy's version is at least the original's.
LEMMA CopyHandleOK ==
  ASSUME IInv, NEW h \in Handle, NEW g \in Handle, NEW v \in Nat,
         CopyHandle(g, h, v), v >= version[g]
  PROVE  IInv'
<1>1. TypeOK /\ Alive' = Alive
  BY DEF IInv, CopyHandle, Alive
<1> USE DEF CopyHandle, Running, callVars, walkVars
<1>2. TypeOK'
  BY <1>1 DEF TypeOK
<1>3. LocalFrame(h)
  BY <1>1 DEF LocalFrame, SameLocals, TypeOK
<1>4. /\ root'[h] = root[g] /\ version'[h] = v /\ version[g] \in Nat
      /\ root[g] # None => heap[root[g]].version <= v
  BY <1>1, WasResting DEF TypeOK
<1>5. ThreadInv(h)'
  BY <1>1, <1>2, <1>4, WasResting, Resting
<1>6. \A n \in Alive : Loose(h, n) => root'[h] # n /\ n \notin InHand(h)'
  BY <1>4 DEF Loose, HeldByRoot, InHand, TrailNodes
<1> QED
  BY <1>2, <1>3, <1>5, <1>6, SameHeap

\* Dropping a handle: the thread still has to release its root.
LEMMA DropHandleOK == ASSUME IInv, NEW h \in Handle, DropHandle(h) PROVE IInv'
<1>1. TypeOK /\ Alive' = Alive
  BY DEF IInv, DropHandle, Alive
<1> USE DEF DropHandle, Running, callVars, walkVars
<1>2. TypeOK'
  BY <1>1 DEF TypeOK
<1>3. LocalFrame(h)
  BY <1>1 DEF LocalFrame, SameLocals, TypeOK
<1>4. root'[h] = None /\ drops'[h] = {root[h]} \ {None}
  BY <1>1 DEF TypeOK
<1>5. ThreadInv(h)'
  BY <1>1, <1>2, <1>4, WasResting, Resting
<1>6. InHand(h)' = {root[h]} \ {None}
  BY <1>4, WasResting DEF InHand, TrailNodes, Frames
<1>7. \A n \in Alive : Loose(h, n) => root'[h] # n /\ n \notin InHand(h)'
  BY <1>1, <1>4, <1>6 DEF Loose, HeldByRoot, Alive
<1> QED
  BY <1>2, <1>3, <1>5, <1>7, SameHeap

\* The beginning of a public call.
LEMMA InvokeOK ==
  ASSUME IInv, NEW h \in Handle, NEW c \in Calls, Invoke(h, c) PROVE IInv'
<1>1. TypeOK /\ Alive' = Alive /\ c \in Call
  BY DEF IInv, Invoke, Alive
<1> USE DEF Invoke, Running, handleVars, walkVars
<1>2. TypeOK'
  BY <1>1 DEF TypeOK, Phase
<1>3. LocalFrame(h)
  BY <1>1 DEF LocalFrame, SameLocals, TypeOK
<1>4. pc'[h] = "plan" /\ call'[h] = c
  BY <1>1 DEF TypeOK
<1>5. ThreadInv(h)'
  BY <1>1, <1>2, <1>4, WasResting, Resting
<1>6. \A n \in Alive : Loose(h, n) => root'[h] # n /\ n \notin InHand(h)'
  BY DEF Loose, HeldByRoot, InHand, TrailNodes
<1> QED
  BY <1>2, <1>3, <1>5, <1>6, SameHeap

\* The end of a public call.
LEMMA ReturnOK == ASSUME IInv, NEW h \in Handle, Return(h) PROVE IInv'
<1>1. TypeOK /\ Alive' = Alive
  BY DEF IInv, Return, Alive
<1> USE DEF Return, Running, handleVars, walkVars
<1>2. TypeOK'
  BY <1>1 DEF TypeOK, Phase, Answers
<1>3. LocalFrame(h)
  BY <1>1 DEF LocalFrame, SameLocals, TypeOK
<1>4. pc'[h] = "idle"
  BY <1>1 DEF TypeOK
<1>5. ThreadInv(h)'
  BY <1>1, <1>2, <1>4, WasResting, Resting
<1>6. \A n \in Alive : Loose(h, n) => root'[h] # n /\ n \notin InHand(h)'
  BY DEF Loose, HeldByRoot, InHand, TrailNodes
<1> QED
  BY <1>2, <1>3, <1>5, <1>6, SameHeap

\* The value get_k returns.
LEMMA GetTyped ==
  ASSUME TypeOK, NEW r, NEW k
  PROVE  Get(r, k) \in Val \cup {None}
<1>1. CASE Found(r, k) = {}
  BY <1>1 DEF Get
<1>2. CASE Found(r, k) # {}
  <2>1. Pick(Found(r, k)) \in Alive
    BY <1>2 DEF Pick, Found
  <2> QED
    BY <1>2, <2>1, AliveTyped DEF Get, VersionedNode
<1> QED
  BY <1>1, <1>2

\* Sequences of one and two elements.
LEMMA ShortSeq ==
  ASSUME NEW S, NEW a \in S, NEW b \in S
  PROVE  <<a>> \in Seq(S) /\ <<a, b>> \in Seq(S)
OBVIOUS

\* What try_update strings together is a sequence of calls.
LEMMA StepsTyped ==
  ASSUME NEW c \in Call, NEW old \in Val \cup {None}
  PROVE  /\ TryUpdateSteps(c, old) \in Seq(Call)
         /\ TryUpdateAnswer(c, old) \in Answers
<1>1. /\ [c EXCEPT !.op = "insert"] \in Call
      /\ [c EXCEPT !.op = "remove"] \in Call
      /\ \A v \in Val : [c EXCEPT !.op = "get_mut", !.val = v] \in Call
  BY DEF Call, Op
<1> DEFINE insert == [c EXCEPT !.op = "insert"]
           delete == [c EXCEPT !.op = "remove"]
           scribble == [c EXCEPT !.op = "get_mut", !.val = Scratch]
           write == [c EXCEPT !.op = "get_mut", !.val = c.val]
           restore == [c EXCEPT !.op = "get_mut", !.val = old]
           steps == TryUpdateSteps(c, old)
<1>2. TryUpdateSteps(c, old) \in Seq(Call)
  <2>1. /\ insert \in Call /\ delete \in Call /\ scribble \in Call
        /\ write \in Call
        /\ old # None => restore \in Call
    BY <1>1 DEF Call
  <2>2. \/ steps = <<>>
        \/ steps = <<insert>>
        \/ steps = <<scribble>>
        \/ steps = <<scribble, write>>
        \/ steps = <<scribble, delete>>
        \/ old # None /\ steps = <<scribble, restore>>
    BY DEF TryUpdateSteps
  <2> HIDE DEF insert, delete, scribble, write, restore, steps
  <2>3. steps \in Seq(Call)
    <3>1. CASE steps = <<>>
      BY <3>1
    <3>2. CASE steps = <<insert>>
      BY <2>1, <3>2, ShortSeq
    <3>3. CASE steps = <<scribble>>
      BY <2>1, <3>3, ShortSeq
    <3>4. CASE steps = <<scribble, write>>
      BY <2>1, <3>4, ShortSeq
    <3>5. CASE steps = <<scribble, delete>>
      BY <2>1, <3>5, ShortSeq
    <3>6. CASE old # None /\ steps = <<scribble, restore>>
      BY <2>1, <3>6, ShortSeq
    <3> QED
      BY <2>2, <3>1, <3>2, <3>3, <3>4, <3>5, <3>6
  <2> QED
    BY <2>3 DEF steps
<1>3. TryUpdateAnswer(c, old) \in Answers
  BY DEF TryUpdateAnswer, Answers
<1> QED
  BY <1>2, <1>3

\* Planning a call looks at the tree and changes nothing in it.
LEMMA PlanOK == ASSUME IInv, NEW h \in Handle, Plan(h) PROVE IInv'
<1> DEFINE old == Get(root[h], call[h].key)
<1>1. TypeOK /\ Alive' = Alive /\ pc[h] = "plan" /\ call[h] \in Call
  BY DEF IInv, Plan, Alive, Running, TypeOK, ThreadInv, PhaseOf
<1>2. old \in Val \cup {None}
  BY <1>1, GetTyped
<1>3. /\ TryUpdateSteps(call[h], old) \in Seq(Call)
      /\ TryUpdateAnswer(call[h], old) \in Answers
  BY <1>1, <1>2, StepsTyped
<1>4. todo' \in [Handle -> Seq(Call)]
  BY <1>1, <1>3 DEF Plan, TypeOK
<1>5. ret' \in [Handle -> Answers]
  BY <1>1, <1>3 DEF Plan, TypeOK, Answers
<1>6. TypeOK'
  BY <1>1, <1>4, <1>5 DEF Plan, TypeOK, Phase, handleVars, walkVars
<1>7. LocalFrame(h)
  BY <1>1 DEF LocalFrame, SameLocals, TypeOK, Plan, handleVars, walkVars
<1>8. pc'[h] = "next"
  BY <1>1 DEF TypeOK, Plan
<1>9. ThreadInv(h)'
  BY <1>1, <1>6, <1>8, WasResting, Resting DEF Plan, handleVars, walkVars
<1>10. \A n \in Alive : Loose(h, n) => root'[h] # n /\ n \notin InHand(h)'
  BY DEF Loose, HeldByRoot, InHand, TrailNodes, Plan, handleVars, walkVars
<1> QED
  BY <1>6, <1>7, <1>9, <1>10, SameHeap DEF Plan

\* What is known of the operation a thread is carrying out.
LEMMA StepTyped ==
  ASSUME TypeOK, NEW h \in Handle, todo[h] # <<>>
  PROVE  /\ Step(h) \in Call /\ Step(h).key \in Seq(Byte)
         /\ Step(h).val \in Val /\ Step(h).op \in Op
         /\ Len(Step(h).key) \in Nat
         /\ Tail(todo[h]) \in Seq(Call) /\ Target(h) \in Nat /\ version[h] \in Nat
<1>1. todo[h] \in Seq(Call) /\ version[h] \in Nat
  BY DEF TypeOK
<1>2. Step(h) \in Call /\ Tail(todo[h]) \in Seq(Call)
  BY <1>1 DEF Step
<1>3. Step(h).key \in Seq(Byte) /\ Step(h).val \in Val /\ Step(h).op \in Op
  BY <1>2 DEF Call
<1> QED
  BY <1>1, <1>2, <1>3 DEF Target

\* The root Arc moves into the hands of the recursion.
LEMMA StartOK == ASSUME IInv, NEW h \in Handle, Start(h) PROVE IInv'
<1>1. /\ TypeOK /\ Alive' = Alive /\ pc[h] = "next" /\ todo[h] # <<>> /\ root[h] # None
  BY DEF IInv, Start, Alive, Running
<1>2. /\ TopDown(h)' = TopDown(h) /\ Step(h)' = Step(h)
      /\ Len(Step(h).key) \in Nat /\ version[h] \in Nat
  BY <1>1, StepTyped DEF Start, TopDown, Step, callVars
<1>3. TypeOK'
  BY <1>1, <1>2 DEF TypeOK, Start, Phase, callVars
<1>4. LocalFrame(h)
  BY <1>1 DEF LocalFrame, SameLocals, TypeOK, Start, callVars
<1>5. /\ cur'[h] = root[h] /\ root'[h] = None /\ depth'[h] = 0 /\ pc'[h] = "visit"
      /\ version'[h] = IF TopDown(h) THEN version[h] + 1 ELSE version[h]
      /\ heap' = heap /\ trail' = trail /\ res' = res /\ drops' = drops /\ todo' = todo
  BY <1>1 DEF TypeOK, Start, callVars
<1>6. /\ res[h] = None /\ trail[h] = <<>> /\ Frames(h)' = {} /\ drops[h] \subseteq Alive
      /\ root[h] \in Alive /\ heap[root[h]].version \in Nat
      /\ heap[root[h]].version <= version[h]
  BY <1>1, <1>5, WasResting DEF Frames
<1>7. ThreadInv(h)'
  <2>1. PhaseOf(h)'
    BY <1>1, <1>2, <1>5, <1>6 DEF PhaseOf, InTree
  <2>2. HoldsAlive(h)' /\ TrailExclusive(h)' /\ CurExclusive(h)'
    BY <1>1, <1>5, <1>6 DEF HoldsAlive, TrailExclusive, CurExclusive
  <2>3. heap'[cur'[h]].version < Target(h)'
    BY <1>2, <1>5, <1>6 DEF Target
  <2>4. StampsOf(h)'
    BY <1>5, <1>6, <2>3 DEF StampsOf, InTree
  <2> QED
    BY <2>1, <2>2, <2>4 DEF ThreadInv
<1>8. \A n \in Alive : Loose(h, n) => root'[h] # n /\ n \notin InHand(h)'
  BY <1>1, <1>5 DEF Loose, HeldByRoot, InHand, TrailNodes, Alive
<1> QED
  BY <1>3, <1>4, <1>5, <1>7, <1>8, SameHeap

\* What is known before the step of a thread that is inside a tree.
LEMMA WasInTree ==
  ASSUME IInv, NEW h \in Handle, pc[h] \in InTree
  PROVE  /\ TypeOK /\ HeapInv /\ ThreadInv(h) /\ todo[h] # <<>> /\ root[h] = None
         /\ Step(h) \in Call /\ Step(h).key \in Seq(Byte) /\ Step(h).val \in Val
         /\ Len(Step(h).key) \in Nat /\ Target(h) \in Nat /\ version[h] \in Nat
         /\ trail[h] \in Seq(Frame) /\ Len(trail[h]) \in Nat
         /\ \A i \in Frames(h) : trail[h][i].node \in Alive /\ trail[h][i] \in Frame
         /\ pc[h] \in {"visit", "edit", "lift", "fix"} =>
              /\ cur[h] \in Alive /\ cur[h] \in Node /\ cur[h] # None
              /\ heap[cur[h]] \in VersionedNode /\ heap[cur[h]].version \in Nat
         /\ res[h] # None => res[h] \in Alive /\ heap[res[h]].version \in Nat
         /\ drops[h] \subseteq Alive /\ None \notin Alive
<1>1. TypeOK /\ HeapInv /\ ThreadInv(h)
  BY DEF IInv
<1>2. todo[h] # <<>> /\ root[h] = None
  BY <1>1 DEF ThreadInv, PhaseOf
<1>3. /\ Step(h) \in Call /\ Step(h).key \in Seq(Byte) /\ Step(h).val \in Val
      /\ Len(Step(h).key) \in Nat /\ Target(h) \in Nat /\ version[h] \in Nat
  BY <1>1, <1>2, StepTyped
<1>4. trail[h] \in Seq(Frame)
  BY <1>1 DEF TypeOK
<1>5. \A i \in Frames(h) : trail[h][i].node \in Alive /\ trail[h][i] \in Frame
  BY <1>1, <1>4 DEF ThreadInv, HoldsAlive, Frames
<1>6. pc[h] \in {"visit", "edit", "lift", "fix"} => cur[h] \in Alive
  BY <1>1 DEF ThreadInv, HoldsAlive, PhaseOf
<1>7. res[h] # None => res[h] \in Alive
  BY <1>1 DEF ThreadInv, HoldsAlive
<1>8. \A n \in Alive : heap[n] \in VersionedNode /\ heap[n].version \in Nat /\ n \in Node /\ n # None
  BY <1>1, AliveTyped DEF VersionedNode
<1>9. drops[h] \subseteq Alive
  BY <1>1 DEF ThreadInv, HoldsAlive
<1> QED
  BY <1>1, <1>2, <1>3, <1>4, <1>5, <1>6, <1>7, <1>8, <1>9

\* A node nothing outside the thread of h pointed to stays so.
LEMMA OwnView ==
  ASSUME NEW h \in Handle, LocalFrame(h), NEW n \in Node, ~HeldElsewhere(h, n),
         root'[h] # n, ~HeldByParent(n)'
  PROVE  ~HeldElsewhere(h, n)'
BY DEF HeldElsewhere, HeldByRoot, LocalFrame, SameLocals, InHand, TrailNodes

\* What is known of the node an activation stands at.
LEMMA AtNode ==
  ASSUME IInv, NEW h \in Handle, pc[h] \in {"visit", "edit"}
  PROVE  LET nd == heap[cur[h]]
             common == PrefixLengthKey(nd.prefix, Step(h).key, depth[h])
         IN  /\ depth[h] \in Nat /\ depth[h] <= Len(Step(h).key) /\ res[h] = None
             /\ nd.prefix \in Seq(Byte) /\ Len(nd.prefix) \in Nat
             /\ common \in Nat /\ common <= Len(nd.prefix)
             /\ depth[h] + common <= Len(Step(h).key)
             /\ PlaceOf(h) \in {"inside", "diverges"} => common < Len(nd.prefix)
             /\ PlaceOf(h) = "diverges" => depth[h] + common < Len(Step(h).key)
             /\ PlaceOf(h) \in {"below", "missing", "child"} =>
                  /\ depth[h] + Len(nd.prefix) < Len(Step(h).key)
                  /\ EdgeOf(nd, Step(h).key, depth[h]) \in Byte
             /\ PlaceOf(h) = "child" => nd.kids[EdgeOf(nd, Step(h).key, depth[h])] # None
             /\ PlaceOf(h) \in {"at", "inside", "diverges", "below", "missing", "child"}
<1>1. pc[h] \in InTree
  BY DEF InTree
<1>2. depth[h] \in Nat /\ depth[h] <= Len(Step(h).key) /\ res[h] = None
  BY <1>1, WasInTree DEF TypeOK, ThreadInv, PhaseOf
<1>3. heap[cur[h]] \in VersionedNode /\ Step(h).key \in Seq(Byte)
  BY <1>1, WasInTree
<1>4. heap[cur[h]].prefix \in Seq(Byte) /\ Len(heap[cur[h]].prefix) \in Nat
  BY <1>3 DEF VersionedNode
<1> QED
  BY <1>2, <1>3, <1>4, PlaceBounds DEF PlaceOf

\* The frame an activation leaves on the trail when it descends.
LEMMA Pushed ==
  ASSUME IInv, NEW h \in Handle, pc[h] \in {"visit", "edit"}, NEW b \in Byte,
         trail'[h] = Append(trail[h], [node |-> cur[h], edge |-> b, depth |-> depth[h]])
  PROVE  /\ trail'[h] \in Seq(Frame)
         /\ Frames(h)' = 1..Len(trail[h]) + 1
         /\ \A i \in Frames(h)' :
              \/ i \in Frames(h) /\ trail'[h][i] = trail[h][i]
              \/ i = Len(trail[h]) + 1 /\ trail'[h][i].node = cur[h]
<1> DEFINE f == [node |-> cur[h], edge |-> b, depth |-> depth[h]]
<1>1. trail[h] \in Seq(Frame) /\ cur[h] \in Node
  BY WasInTree DEF InTree
<1>2. f \in Frame /\ f.node = cur[h]
  <2>1. depth[h] \in Nat
    BY DEF IInv, TypeOK
  <2> QED
    BY <1>1, <2>1 DEF Frame
<1> HIDE DEF f
<1>3. trail'[h] = Append(trail[h], f)
  BY DEF f
<1> QED
  BY <1>1, <1>2, <1>3 DEF Frames

\* The descent of update, over a heap it leaves alone.
LEMMA FollowOK == ASSUME IInv, NEW h \in Handle, Follow(h) PROVE IInv'
<1> DEFINE n == cur[h]
           b == EdgeOf(heap[n], Step(h).key, depth[h])
           c == heap[n].kids[b]
<1>1. /\ pc[h] = "visit" /\ drops[h] = {} /\ ~TopDown(h) /\ PlaceOf(h) = "child"
      /\ pc[h] \in InTree
  BY DEF Follow, Running, InTree
<1>2. Alive' = Alive /\ TopDown(h)' = TopDown(h) /\ Step(h)' = Step(h) /\ Target(h)' = Target(h)
  BY DEF Follow, Alive, TopDown, Step, Target, handleVars, callVars
<1>3. depth[h] \in Nat /\ depth[h] <= Len(Step(h).key) /\ res[h] = None
  BY <1>1, AtNode
<1>4. /\ depth[h] + Len(heap[n].prefix) <= Len(Step(h).key)
      /\ Len(heap[n].prefix) \in Nat /\ b \in Byte /\ c # None
  BY <1>1, <1>3, AtNode, WasInTree
<1>5. c \in Alive /\ c \in Node /\ heap[c].version \in Nat /\ heap[c].version <= heap[n].version
  BY <1>1, <1>4, WasInTree, AliveTyped DEF HeapInv, VersionedNode
<1>6. /\ cur'[h] = c /\ heap' = heap /\ trail'[h] = Append(trail[h], [node |-> n, edge |-> b, depth |-> depth[h]])
      /\ depth'[h] = depth[h] + Len(heap[n].prefix) /\ pc' = pc /\ root' = root /\ ret' = ret
      /\ res' = res /\ drops' = drops /\ version' = version /\ todo' = todo /\ call' = call
  BY <1>1, WasInTree DEF TypeOK, Follow, handleVars, callVars
<1>7. /\ trail'[h] \in Seq(Frame)
      /\ Frames(h)' = 1..Len(trail[h]) + 1
      /\ \A i \in Frames(h)' : \/ i \in Frames(h) /\ trail'[h][i] = trail[h][i]
                               \/ i = Len(trail[h]) + 1 /\ trail'[h][i].node = n
  BY <1>1, <1>4, <1>6, Pushed
<1>8. TypeOK'
  <2>1. trail' \in [Handle -> Seq(Frame)]
    BY <1>1, <1>7, WasInTree DEF TypeOK, Follow
  <2>2. cur' \in [Handle -> Node \cup {None}]
    <3>1. cur' = [cur EXCEPT ![h] = c]
      BY Zenon DEF Follow
    <3>2. cur \in [Handle -> Node \cup {None}]
      BY DEF IInv, TypeOK
    <3> HIDE DEF c
    <3> QED
      BY <1>5, <3>1, <3>2
  <2>3. depth' \in [Handle -> Nat]
    <3> DEFINE d == depth[h] + Len(heap[n].prefix)
    <3>1. d \in Nat
      BY <1>3, <1>4
    <3>2. depth' = [depth EXCEPT ![h] = d]
      BY Zenon DEF Follow
    <3>3. depth \in [Handle -> Nat]
      BY DEF IInv, TypeOK
    <3> HIDE DEF d
    <3> QED
      BY <3>1, <3>2, <3>3
  <2> QED
    BY <1>1, <2>1, <2>2, <2>3, WasInTree DEF TypeOK, Follow, handleVars, callVars
<1>9. LocalFrame(h)
  BY <1>1, WasInTree DEF LocalFrame, SameLocals, TypeOK, Follow, handleVars, callVars
<1> HIDE DEF n, b, c
<1>10. n = cur[h]
  BY DEF n
<1>11. ThreadInv(h)'
  <2>1. PhaseOf(h)'
    BY <1>1, <1>2, <1>3, <1>4, <1>5, <1>6, WasInTree DEF ThreadInv, PhaseOf, InTree
  <2>2. HoldsAlive(h)'
    BY <1>1, <1>2, <1>5, <1>6, <1>7, <1>10, WasInTree DEF HoldsAlive
  <2>3. TrailExclusive(h)' /\ CurExclusive(h)'
    BY <1>1, <1>2, <1>6 DEF TrailExclusive, CurExclusive
  <2>4. heap[n].version < Target(h) /\ heap[n].version \in Nat /\ Target(h) \in Nat
    BY <1>1, <1>10, WasInTree DEF ThreadInv, StampsOf
  <2>5. \A i \in Frames(h) : heap[trail[h][i].node].version < Target(h)
    BY <1>1, WasInTree DEF ThreadInv, StampsOf
  <2>6. \A i \in Frames(h)' : heap[trail'[h][i].node].version < Target(h)
    BY <1>7, <2>4, <2>5
  <2>7. heap[c].version < Target(h)
    BY <1>5, <2>4
  <2>8. StampsOf(h)'
    BY <1>1, <1>2, <1>3, <1>6, <2>6, <2>7, WasInTree DEF StampsOf
  <2> QED
    BY <2>1, <2>2, <2>3, <2>8 DEF ThreadInv
<1>12. \A m \in Alive : Loose(h, m) => root'[h] # m /\ m \notin InHand(h)'
  <2> SUFFICES ASSUME NEW m \in Alive, Loose(h, m)
               PROVE  root'[h] # m /\ m \notin InHand(h)'
    OBVIOUS
  <2>1. m # c
    BY <1>1, <1>4, <1>10, WasInTree DEF Loose, HeldByParent, c
  <2>2. m # n /\ m # root[h] /\ \A i \in Frames(h) : trail[h][i].node # m
    BY <1>1, <1>10, WasInTree, InHandDef DEF Loose, HeldByRoot, Alive
  <2>3. m \notin InHand(h)'
    BY <1>1, <1>3, <1>6, <1>7, <2>1, <2>2 DEF InHand, TrailNodes, Frames
  <2> QED
    BY <1>6, <2>2, <2>3
<1> QED
  BY <1>6, <1>8, <1>9, <1>11, <1>12, SameHeap

\* The trail after the caller of the running activation has been resumed.
LEMMA Popped ==
  ASSUME IInv, NEW h \in Handle, trail[h] # <<>>, trail'[h] = Front(trail[h])
  PROVE  /\ trail'[h] \in Seq(Frame) /\ Frames(h)' \subseteq Frames(h)
         /\ Len(trail[h]) \in Frames(h) \ Frames(h)'
         /\ \A i \in Frames(h)' : trail'[h][i] = trail[h][i]
         /\ Last(trail[h]) = trail[h][Len(trail[h])]
         /\ Last(trail[h]) \in Frame /\ Last(trail[h]).node \in Node
         /\ Last(trail[h]).edge \in Byte /\ Last(trail[h]).depth \in Nat
<1>1. trail[h] \in Seq(Frame) /\ Len(trail[h]) \in Nat \ {0}
  BY DEF IInv, TypeOK
<1>2. Last(trail[h]) = trail[h][Len(trail[h])] /\ Last(trail[h]) \in Frame
  BY <1>1 DEF Last
<1>3. /\ Last(trail[h]).node \in Node /\ Last(trail[h]).edge \in Byte
      /\ Last(trail[h]).depth \in Nat
  BY <1>2 DEF Frame
<1>4. /\ Front(trail[h]) \in Seq(Frame) /\ Len(Front(trail[h])) = Len(trail[h]) - 1
      /\ \A i \in 1..Len(trail[h]) - 1 : Front(trail[h])[i] = trail[h][i]
  BY <1>1 DEF Front
<1> QED
  BY <1>1, <1>2, <1>3, <1>4 DEF Frames

\* The frames that stay on the trail stay exclusive.
LEMMA TrailStays ==
  ASSUME IInv, NEW h \in Handle, pc[h] \in InTree, LocalFrame(h), root'[h] = None,
         TopDown(h)' => TopDown(h), Frames(h)' \subseteq Frames(h),
         \A i \in Frames(h)' : trail'[h][i] = trail[h][i],
         TopDown(h) => \A i \in Frames(h)' :
           /\ ~HeldByParent(trail[h][i].node)'
           /\ trail[h][i].node # cur'[h] /\ trail[h][i].node # res'[h]
           /\ trail[h][i].node \notin drops'[h]
  PROVE  TrailExclusive(h)'
<1> SUFFICES ASSUME TopDown(h), NEW i \in Frames(h)'
             PROVE  AloneOnTrail(h, i)'
  BY DEF TrailExclusive
<1>1. i \in Frames(h) /\ trail'[h][i] = trail[h][i]
  OBVIOUS
<1> DEFINE n == trail[h][i].node
<1>2. AloneOnTrail(h, i) /\ n \in Node /\ n # None
  BY <1>1, WasInTree DEF ThreadInv, TrailExclusive, Alive
<1>3. ~HeldElsewhere(h, n) /\ \A j \in Frames(h) : j # i => trail[h][j].node # n
  BY <1>2 DEF AloneOnTrail
<1>4. ~HeldByParent(n)' /\ n # cur'[h] /\ n # res'[h] /\ n \notin drops'[h]
  BY <1>1 DEF HeldByParent
<1>5. n' = n
  BY <1>1
<1> HIDE DEF n
<1>6. ~HeldElsewhere(h, n)'
  BY <1>2, <1>3, <1>4, <1>5, OwnView DEF HeldByParent
<1>7. \A j \in Frames(h)' : j # i => trail'[h][j].node # n
  BY <1>3
<1> QED
  BY <1>1, <1>4, <1>5, <1>6, <1>7 DEF AloneOnTrail, n

\* The same trail, and the same parents.
LEMMA SameTrail ==
  ASSUME IInv, NEW h \in Handle, pc[h] \in InTree, LocalFrame(h), heap' = heap,
         root'[h] = None, trail'[h] = trail[h], TopDown(h)' => TopDown(h),
         TopDown(h) => \A i \in Frames(h) :
           /\ trail[h][i].node # cur'[h] /\ trail[h][i].node # res'[h]
           /\ trail[h][i].node \notin drops'[h]
  PROVE  TrailExclusive(h)'
<1>1. Frames(h)' = Frames(h)
  BY DEF Frames
<1>2. ASSUME TopDown(h), NEW i \in Frames(h)
      PROVE  ~HeldByParent(trail[h][i].node)'
  BY <1>2, WasInTree
     DEF ThreadInv, TrailExclusive, AloneOnTrail, HeldElsewhere, HeldByParent, Alive
<1> QED
  BY <1>1, <1>2, TrailStays

\* remove and delete let go of a leaf.
LEMMA RemoveLeafOK == ASSUME IInv, NEW h \in Handle, RemoveLeaf(h) PROVE IInv'
<1>1. /\ pc[h] = "visit" /\ drops[h] = {} /\ TopDown(h) /\ pc[h] \in InTree
      /\ res[h] = None /\ Alive' = Alive
  BY AtNode DEF RemoveLeaf, Running, TopDown, InTree, Alive
<1>2. TopDown(h)' = TopDown(h) /\ Step(h)' = Step(h) /\ Target(h)' = Target(h) /\ Frames(h)' = Frames(h)
  BY DEF RemoveLeaf, TopDown, Step, Target, Frames, handleVars, walkVars
<1>3. Report(h, heap[cur[h]].value) \in Answers
  BY <1>1, WasInTree DEF Report, VersionedNode, TypeOK, Answers
<1>4. TypeOK'
  BY <1>1, <1>3, WasInTree DEF TypeOK, RemoveLeaf, ReturnNode, Phase, handleVars, walkVars
<1>5. LocalFrame(h)
  BY <1>1, WasInTree DEF LocalFrame, SameLocals, TypeOK, RemoveLeaf, ReturnNode, handleVars, walkVars
<1>6. /\ cur'[h] = None /\ res'[h] = None /\ pc'[h] = "up" /\ drops'[h] = {cur[h]}
      /\ heap' = heap /\ root' = root /\ trail' = trail /\ todo' = todo /\ version' = version
  BY <1>1, WasInTree DEF TypeOK, RemoveLeaf, ReturnNode, handleVars, walkVars
<1>7. ThreadInv(h)'
  <2>1. PhaseOf(h)'
    BY <1>1, <1>2, <1>6, WasInTree DEF PhaseOf, InTree
  <2>2. HoldsAlive(h)'
    BY <1>1, <1>2, <1>6, WasInTree DEF HoldsAlive
  <2>3. TrailExclusive(h)'
    BY <1>1, <1>2, <1>5, <1>6, WasInTree, SameTrail DEF ThreadInv, TrailExclusive, AloneOnTrail, Alive
  <2>4. StampsOf(h)' /\ CurExclusive(h)'
    BY <1>1, <1>2, <1>6, WasInTree DEF StampsOf, CurExclusive, ThreadInv
  <2> QED
    BY <2>1, <2>2, <2>3, <2>4 DEF ThreadInv
<1>8. InHand(h)' = InHand(h)
  BY <1>1, <1>6 DEF InHand, TrailNodes
<1> QED
  BY <1>4, <1>5, <1>6, <1>7, <1>8, SameHeap DEF Loose, HeldByRoot

\* cow_path_to_key at the key's node.
LEMMA PathReadyOK == ASSUME IInv, NEW h \in Handle, PathReady(h) PROVE IInv'
<1>1. /\ pc[h] = "edit" /\ drops[h] = {} /\ TopDown(h) /\ pc[h] \in InTree
      /\ res[h] = None /\ Alive' = Alive
  BY AtNode DEF PathReady, Unwrapped, Running, TopDown, InTree, Alive
<1>2. TopDown(h)' = TopDown(h) /\ Step(h)' = Step(h) /\ Target(h)' = Target(h) /\ Frames(h)' = Frames(h)
  BY DEF PathReady, TopDown, Step, Target, Frames, handleVars, callVars, walkVars
<1>3. TypeOK'
  BY <1>1, WasInTree DEF TypeOK, PathReady, ReturnNode, Phase, handleVars, callVars, walkVars
<1>4. LocalFrame(h)
  BY <1>1, WasInTree
     DEF LocalFrame, SameLocals, TypeOK, PathReady, ReturnNode, handleVars, callVars, walkVars
<1>5. /\ cur'[h] = None /\ res'[h] = cur[h] /\ pc'[h] = "up" /\ drops' = drops
      /\ heap' = heap /\ root' = root /\ trail' = trail /\ todo' = todo /\ version' = version
      /\ heap[cur[h]].version = Target(h)
  BY <1>1, WasInTree
     DEF TypeOK, PathReady, ReturnNode, handleVars, callVars, walkVars, ThreadInv, StampsOf
<1>6. ThreadInv(h)'
  <2>1. PhaseOf(h)'
    BY <1>1, <1>2, <1>5, WasInTree DEF PhaseOf, InTree
  <2>2. HoldsAlive(h)'
    BY <1>1, <1>2, <1>5, WasInTree DEF HoldsAlive
  <2>3. TrailExclusive(h)'
    BY <1>1, <1>2, <1>4, <1>5, WasInTree, SameTrail DEF ThreadInv, TrailExclusive, AloneOnTrail, Alive
  <2>4. StampsOf(h)' /\ CurExclusive(h)'
    BY <1>1, <1>2, <1>5, WasInTree DEF StampsOf, CurExclusive, ThreadInv
  <2> QED
    BY <2>1, <2>2, <2>3, <2>4 DEF ThreadInv
<1>7. InHand(h)' = InHand(h)
  BY <1>1, <1>5 DEF InHand, TrailNodes
<1> QED
  BY <1>3, <1>4, <1>5, <1>6, <1>7, SameHeap DEF Loose, HeldByRoot

\* update at a vacant slot its callback does not fill.
LEMMA DeclineOK == ASSUME IInv, NEW h \in Handle, Decline(h) PROVE IInv'
<1>1. /\ pc[h] = "visit" /\ drops[h] = {} /\ ~TopDown(h) /\ pc[h] \in InTree
      /\ res[h] = None /\ Alive' = Alive
  BY AtNode DEF Decline, Vacant, Running, InTree, Alive
<1>2. TopDown(h)' = TopDown(h) /\ Step(h)' = Step(h) /\ Target(h)' = Target(h) /\ Frames(h)' = Frames(h)
  BY DEF Decline, TopDown, Step, Target, Frames, handleVars, walkVars
<1>3. TypeOK'
  BY <1>1, WasInTree DEF TypeOK, Decline, ReturnNode, Phase, Answers, handleVars, walkVars
<1>4. LocalFrame(h)
  BY <1>1, WasInTree DEF LocalFrame, SameLocals, TypeOK, Decline, ReturnNode, handleVars, walkVars
<1>5. /\ cur'[h] = None /\ res'[h] = cur[h] /\ pc'[h] = "up" /\ drops' = drops
      /\ heap' = heap /\ root' = root /\ trail' = trail /\ todo' = todo /\ version' = version
      /\ ret'[h] = "false" /\ heap[cur[h]].version < Target(h)
  BY <1>1, WasInTree DEF TypeOK, Decline, ReturnNode, handleVars, walkVars, ThreadInv, StampsOf
<1>6. ThreadInv(h)'
  <2>1. PhaseOf(h)'
    BY <1>1, <1>2, <1>5, WasInTree DEF PhaseOf, InTree
  <2>2. HoldsAlive(h)'
    BY <1>1, <1>2, <1>5, WasInTree DEF HoldsAlive
  <2>3. TrailExclusive(h)' /\ CurExclusive(h)'
    BY <1>1, <1>2, <1>5 DEF TrailExclusive, CurExclusive
  <2>4. StampsOf(h)'
    BY <1>1, <1>2, <1>5, WasInTree DEF StampsOf, ThreadInv
  <2> QED
    BY <2>1, <2>2, <2>3, <2>4 DEF ThreadInv
<1>7. InHand(h)' = InHand(h)
  BY <1>1, <1>5 DEF InHand, TrailNodes
<1> QED
  BY <1>3, <1>4, <1>5, <1>6, <1>7, SameHeap DEF Loose, HeldByRoot

\* Unwinding: every Arc in hand is let go of.
LEMMA CallbackPanicOK == ASSUME IInv, NEW h \in Handle, CallbackPanic(h) PROVE IInv'
<1>1. /\ pc[h] \in {"visit", "edit"} /\ drops[h] = {} /\ pc[h] \in InTree
      /\ res[h] = None /\ Alive' = Alive
  BY AtNode DEF CallbackPanic, Unwrapped, Running, InTree, Alive
<1>2. InHand(h) \subseteq Alive
  BY <1>1, WasInTree DEF InHand, TrailNodes, Frames, ThreadInv, HoldsAlive
<1>3. TypeOK'
  BY <1>1, <1>2, WasInTree DEF TypeOK, CallbackPanic, Phase, Answers, handleVars, Alive
<1>4. LocalFrame(h)
  BY <1>1, WasInTree DEF LocalFrame, SameLocals, TypeOK, CallbackPanic, handleVars
<1>5. /\ cur'[h] = None /\ res' = res /\ pc'[h] = "next" /\ drops'[h] = InHand(h)
      /\ heap' = heap /\ root' = root /\ trail'[h] = <<>>
  BY <1>1, WasInTree DEF TypeOK, CallbackPanic, handleVars
<1>6. ThreadInv(h)'
  BY <1>1, <1>2, <1>3, <1>5, WasInTree, Resting
<1>7. InHand(h)' = InHand(h)
  <2>1. TrailNodes(h)' = {}
    BY <1>5 DEF TrailNodes
  <2> QED
    BY <1>1, <1>2, <1>5, <2>1, WasInTree DEF InHand
<1> QED
  BY <1>3, <1>4, <1>5, <1>6, <1>7, SameHeap DEF Loose, HeldByRoot

\* update returns unchanged through a caller.
LEMMA BacktrackOK == ASSUME IInv, NEW h \in Handle, Backtrack(h) PROVE IInv'
<1> DEFINE p == Last(trail[h]).node
<1>1. /\ pc[h] = "up" /\ drops[h] = {} /\ ~TopDown(h) /\ ret[h] = "false" /\ trail[h] # <<>>
      /\ pc[h] \in InTree /\ Alive' = Alive
  BY DEF Backtrack, Resume, Running, InTree, Alive
<1>2. TopDown(h)' = TopDown(h) /\ Step(h)' = Step(h) /\ Target(h)' = Target(h)
  BY DEF Backtrack, Resume, TopDown, Step, Target, handleVars, callVars
<1>3. res[h] # None /\ cur[h] = None
  BY <1>1, WasInTree DEF ThreadInv, PhaseOf
<1>4. /\ res'[h] = p /\ trail'[h] = Front(trail[h]) /\ drops'[h] = {res[h]}
      /\ heap' = heap /\ root' = root /\ pc' = pc /\ cur' = cur /\ todo' = todo
      /\ version' = version /\ ret' = ret
  BY <1>1, WasInTree DEF TypeOK, Backtrack, Resume, handleVars, callVars
<1>5. /\ trail'[h] \in Seq(Frame) /\ Frames(h)' \subseteq Frames(h)
      /\ \A i \in Frames(h)' : trail'[h][i] = trail[h][i]
      /\ \E i \in Frames(h) : p = trail[h][i].node
      /\ Last(trail[h]).depth \in Nat
  BY <1>1, <1>4, Popped
<1>6. p \in Alive /\ p \in Node /\ p # None /\ heap[p].version < Target(h)
  BY <1>1, <1>5, WasInTree, AliveTyped DEF ThreadInv, StampsOf
<1>7. TypeOK'
  <2>1. /\ res' \in [Handle -> Node \cup {None}] /\ trail' \in [Handle -> Seq(Frame)]
        /\ drops' \in [Handle -> SUBSET Node] /\ depth' \in [Handle -> Nat]
    BY <1>1, <1>3, <1>5, <1>6, WasInTree DEF TypeOK, Backtrack, Resume, Alive
  <2> QED
    BY <1>1, <2>1, WasInTree DEF TypeOK, Backtrack, Resume, handleVars, callVars
<1>8. LocalFrame(h)
  BY <1>1, WasInTree DEF LocalFrame, SameLocals, TypeOK, Backtrack, Resume, handleVars, callVars
<1> HIDE DEF p
<1>9. ThreadInv(h)'
  <2>1. PhaseOf(h)'
    BY <1>1, <1>2, <1>3, <1>4, <1>6, WasInTree DEF PhaseOf, InTree
  <2>2. HoldsAlive(h)'
    BY <1>1, <1>2, <1>3, <1>4, <1>5, <1>6, WasInTree DEF HoldsAlive
  <2>3. TrailExclusive(h)' /\ CurExclusive(h)'
    BY <1>1, <1>2, <1>4 DEF TrailExclusive, CurExclusive
  <2>4. \A i \in Frames(h)' : heap[trail'[h][i].node].version < Target(h)
    BY <1>1, <1>5, WasInTree DEF ThreadInv, StampsOf
  <2>5. StampsOf(h)'
    BY <1>1, <1>2, <1>4, <1>6, <2>4, WasInTree, AliveTyped DEF StampsOf, VersionedNode
  <2> QED
    BY <2>1, <2>2, <2>3, <2>5 DEF ThreadInv
<1>10. \A m \in Alive : m \notin InHand(h) => m \notin InHand(h)'
  <2> SUFFICES ASSUME NEW m \in Alive, m \notin InHand(h)
               PROVE  m \notin InHand(h)'
    OBVIOUS
  <2>1. m \in Node /\ m # res[h] /\ \A i \in Frames(h) : trail[h][i].node # m
    BY <1>1, WasInTree, InHandDef DEF Alive
  <2>2. m # p /\ m \notin TrailNodes(h)'
    <3>1. PICK q : q = trail'[h]
      OBVIOUS
    <3>2. DOMAIN q = 1..Len(q)
      BY <1>5, <3>1
    <3>3. Frames(h)' = 1..Len(q)
      BY <3>1 DEF Frames
    <3>4. DOMAIN trail'[h] = Frames(h)'
      BY <3>1, <3>2, <3>3
    <3>5. \A i \in DOMAIN trail'[h] : trail'[h][i].node # m
      BY <1>5, <2>1, <3>4
    <3>6. m \notin TrailNodes(h)'
      BY <3>5, <3>4 DEF TrailNodes, Frames
    <3> QED
      BY <1>5, <2>1, <3>6
  <2> QED
    BY <1>1, <1>3, <1>4, <1>6, <2>1, <2>2, WasInTree DEF InHand, ThreadInv, PhaseOf
<1> QED
  BY <1>4, <1>7, <1>8, <1>9, <1>10, SameHeap DEF Loose, HeldByRoot

\* update returns changed to a caller, which is going to make its node writable.
LEMMA LiftOK == ASSUME IInv, NEW h \in Handle, Lift(h) PROVE IInv'
<1> DEFINE p == Last(trail[h]).node
<1>1. /\ pc[h] = "up" /\ drops[h] = {} /\ ~TopDown(h) /\ ret[h] = "true" /\ trail[h] # <<>>
      /\ pc[h] \in InTree /\ Alive' = Alive
  BY DEF Lift, Running, InTree, Alive
<1>2. TopDown(h)' = TopDown(h) /\ Step(h)' = Step(h) /\ Target(h)' = Target(h)
  BY DEF Lift, Resume, TopDown, Step, Target, handleVars, callVars
<1>3. cur[h] = None
  BY <1>1, WasInTree DEF ThreadInv, PhaseOf
<1>4. /\ cur'[h] = p /\ trail'[h] = Front(trail[h]) /\ edge'[h] = Last(trail[h]).edge
      /\ heap' = heap /\ root' = root /\ pc'[h] = "lift" /\ res' = res /\ todo' = todo
      /\ version' = version /\ ret' = ret /\ drops' = drops
  BY <1>1, WasInTree DEF TypeOK, Lift, Resume, handleVars, callVars
<1>5. /\ trail'[h] \in Seq(Frame) /\ Frames(h)' \subseteq Frames(h)
      /\ \A i \in Frames(h)' : trail'[h][i] = trail[h][i]
      /\ \E i \in Frames(h) : p = trail[h][i].node
      /\ edge'[h] \in Byte /\ Last(trail[h]).depth \in Nat
  BY <1>1, <1>4, Popped
<1>6. p \in Alive /\ p \in Node /\ p # None /\ heap[p].version < Target(h)
  BY <1>1, <1>5, WasInTree, AliveTyped DEF ThreadInv, StampsOf
<1>7. TypeOK'
  <2>1. /\ cur' \in [Handle -> Node \cup {None}] /\ trail' \in [Handle -> Seq(Frame)]
        /\ edge' \in [Handle -> Byte \cup {None}] /\ pc' \in [Handle -> Phase]
        /\ depth' \in [Handle -> Nat]
    BY <1>1, <1>4, <1>5, <1>6, WasInTree DEF TypeOK, Lift, Resume, Phase
  <2> QED
    BY <1>1, <2>1, WasInTree DEF TypeOK, Lift, Resume, handleVars, callVars
<1>8. LocalFrame(h)
  BY <1>1, WasInTree DEF LocalFrame, SameLocals, TypeOK, Lift, Resume, handleVars, callVars
<1> HIDE DEF p
<1>9. ThreadInv(h)'
  <2>1. PhaseOf(h)'
    BY <1>1, <1>2, <1>3, <1>4, <1>5, <1>6, WasInTree DEF PhaseOf, InTree
  <2>2. HoldsAlive(h)'
    BY <1>1, <1>2, <1>3, <1>4, <1>5, <1>6, WasInTree DEF HoldsAlive
  <2>3. TrailExclusive(h)' /\ CurExclusive(h)'
    BY <1>1, <1>2, <1>4 DEF TrailExclusive, CurExclusive
  <2>4. \A i \in Frames(h)' : heap[trail'[h][i].node].version < Target(h)
    BY <1>1, <1>5, WasInTree DEF ThreadInv, StampsOf
  <2>5. res[h] # None => heap[res[h]].version <= Target(h)
    BY <1>1, WasInTree DEF ThreadInv, StampsOf
  <2>6. StampsOf(h)'
    BY <1>1, <1>2, <1>4, <1>6, <2>4, <2>5, WasInTree DEF StampsOf
  <2> QED
    BY <2>1, <2>2, <2>3, <2>6 DEF ThreadInv
<1>10. \A m \in Alive : m \notin InHand(h) => m \notin InHand(h)'
  <2> SUFFICES ASSUME NEW m \in Alive, m \notin InHand(h)
               PROVE  m \notin InHand(h)'
    OBVIOUS
  <2>1. m \in Node /\ m # res[h] /\ \A i \in Frames(h) : trail[h][i].node # m
    BY <1>1, WasInTree, InHandDef DEF Alive
  <2>2. m # p
    BY <1>5, <2>1
  <2>3. DOMAIN trail'[h] = Frames(h)'
    BY <1>5 DEF Frames
  <2>4. \A i \in DOMAIN trail'[h] : trail'[h][i].node # m
    <3> SUFFICES ASSUME NEW i \in DOMAIN trail'[h]
                 PROVE  trail'[h][i].node # m
      OBVIOUS
    <3>1. i \in Frames(h)' /\ i \in Frames(h)
      BY <1>5, <2>3
    <3> QED
      BY <1>5, <2>1, <3>1
  <2>5. m \notin TrailNodes(h)'
    BY <2>4 DEF TrailNodes
  <2> QED
    BY <1>1, <1>4, <2>1, <2>2, <2>5 DEF InHand
<1> QED
  BY <1>4, <1>7, <1>8, <1>9, <1>10, SameHeap DEF Loose, HeldByRoot

\* The handle gets its root back.
LEMMA InstallOK == ASSUME IInv, NEW h \in Handle, Install(h) PROVE IInv'
<1>1. /\ pc[h] = "up" /\ drops[h] = {} /\ trail[h] = <<>> /\ pc[h] \in InTree /\ Alive' = Alive
      /\ cur[h] = None
  BY WasInTree DEF Install, Running, InTree, Alive, ThreadInv, PhaseOf
<1>2. /\ res[h] # None => res[h] \in Alive /\ heap[res[h]].version \in Nat
                          /\ heap[res[h]].version <= Target(h)
      /\ ~TopDown(h) => /\ ret[h] \in {"true", "false"}
                        /\ ret[h] = "false" => res[h] # None /\ heap[res[h]].version < Target(h)
  BY <1>1, WasInTree DEF ThreadInv, PhaseOf, StampsOf
<1>3. /\ root'[h] \in {res[h], None} /\ drops'[h] \subseteq {res[h]} /\ None \notin drops'[h]
      /\ version'[h] = IF ~TopDown(h) /\ ret[h] = "true" THEN version[h] + 1 ELSE version[h]
      /\ heap' = heap /\ cur' = cur /\ res'[h] = None /\ trail' = trail
      /\ pc'[h] = (IF Step(h).op = "get_mut" THEN "write" ELSE "next")
      /\ todo'[h] = (IF Step(h).op = "get_mut" THEN todo[h] ELSE Tail(todo[h]))
  BY <1>1, WasInTree DEF TypeOK, Install
<1>4. TypeOK'
  <2>1. /\ root' \in [Handle -> Node \cup {None}] /\ version' \in [Handle -> Nat]
        /\ res' \in [Handle -> Node \cup {None}] /\ depth' \in [Handle -> Nat]
    BY <1>1, WasInTree DEF TypeOK, Install
  <2>2. drops' \in [Handle -> SUBSET Node]
    BY <1>1, WasInTree DEF TypeOK, Install, Alive
  <2>3. todo' \in [Handle -> Seq(Call)] /\ pc' \in [Handle -> Phase]
    <3>1. Tail(todo[h]) \in Seq(Call) /\ todo[h] \in Seq(Call)
      BY <1>1, WasInTree, StepTyped DEF TypeOK
    <3> QED
      BY <1>1, <3>1, WasInTree DEF TypeOK, Install, Phase
  <2> QED
    BY <1>1, <2>1, <2>2, <2>3, WasInTree DEF TypeOK, Install
<1>5. LocalFrame(h)
  BY <1>1, WasInTree DEF LocalFrame, SameLocals, TypeOK, Install
<1>6. root'[h] # None => root'[h] \in Alive /\ heap[root'[h]].version <= version'[h]
  <2>1. version[h] \in Nat
    BY <1>1, WasInTree
  <2> QED
    BY <1>2, <1>3, <2>1 DEF Target
<1>7. ThreadInv(h)'
  BY <1>1, <1>2, <1>3, <1>4, <1>6, WasInTree, Resting
<1>8. \A m \in Alive : Loose(h, m) => root'[h] # m /\ m \notin InHand(h)'
  <2>1. TrailNodes(h)' = {}
    BY <1>1, <1>3 DEF TrailNodes
  <2> QED
    BY <1>1, <1>3, <2>1, WasInTree DEF Loose, InHand
<1> QED
  BY <1>3, <1>4, <1>5, <1>7, <1>8, SameHeap

-----------------------------------------------------------------------------
(* Steps that write values only. *)

SameShape ==
  \A n \in Node : /\ heap'[n] = None <=> heap[n] = None
                  /\ heap[n] # None => heap'[n].kids = heap[n].kids
                                       /\ heap'[n].version = heap[n].version

\* Writing values changes no parent, no child and no stamp.
LEMMA ShapeKept ==
  ASSUME IInv, SameShape, NEW h \in Handle
  PROVE  /\ Alive' = Alive /\ HeapInv' /\ HeapFrame(h)
         /\ \A n \in Node : HeldByParent(n)' <=> HeldByParent(n)
<1>1. Alive' = Alive
  BY DEF SameShape, Alive
<1>2. \A n \in Alive : heap'[n].kids = heap[n].kids /\ heap'[n].version = heap[n].version
                       /\ heap'[n] # None
  BY DEF SameShape, Alive
<1>3. HeapInv'
  BY <1>1, <1>2 DEF HeapInv, IInv
<1>4. HeapFrame(h)
  BY <1>2 DEF HeapFrame, Unwritten
<1>5. \A n \in Node : HeldByParent(n)' <=> HeldByParent(n)
  BY <1>1, <1>2 DEF HeldByParent
<1> QED
  BY <1>1, <1>3, <1>4, <1>5

\* Nor does it disturb any other thread.
LEMMA ShapeStep ==
  ASSUME IInv, SameShape, NEW h \in Handle, TypeOK', LocalFrame(h), ThreadInv(h)',
         \A n \in Alive : Loose(h, n) => root'[h] # n /\ n \notin InHand(h)'
  PROVE  IInv'
<1>1. RefFrame(h)
  <2>1. ASSUME NEW n \in Alive, Loose(h, n)
        PROVE  ~HeldByRoot(n)' /\ ~HeldByParent(n)'
    BY <2>1, ShapeKept DEF Loose, HeldByRoot, LocalFrame, SameLocals, Alive
  <2> QED
    BY <2>1 DEF RefFrame, Loose
<1> QED
  BY <1>1, ShapeKept, StepKeeps

\* Writing a value leaves the shape of the heap alone.
LEMMA ValueWrite ==
  ASSUME TypeOK, NEW n \in Alive, NEW v \in Val \cup {None},
         heap' = [heap EXCEPT ![n].value = v]
  PROVE  SameShape /\ heap' \in [Node -> VersionedNode \cup {None}]
<1> DEFINE x == [heap[n] EXCEPT !.value = v]
<1>1. heap[n] \in VersionedNode /\ heap[n] # None /\ n \in Node
  BY AliveTyped DEF Alive
<1>2. x \in VersionedNode /\ x.kids = heap[n].kids /\ x.version = heap[n].version
  BY <1>1 DEF VersionedNode
<1>3. heap' = [heap EXCEPT ![n] = x] /\ x # None
  BY <1>2
<1> HIDE DEF x
<1>4. heap \in [Node -> VersionedNode \cup {None}]
  BY DEF TypeOK
<1> QED
  BY <1>1, <1>2, <1>3, <1>4 DEF SameShape

\* A call that has written the value of the node it owns returns the node.
LEMMA ValueReturned ==
  ASSUME IInv, NEW h \in Handle, pc[h] = "edit", drops[h] = {}, SoleCur(h),
         NEW v \in Val \cup {None}, heap' = [heap EXCEPT ![cur[h]].value = v],
         NEW a \in Answers, ret' = [ret EXCEPT ![h] = a], ~TopDown(h) => a = "true",
         ReturnNode(h, cur[h]), UNCHANGED <<handleVars, call, todo, walkVars, drops>>
  PROVE  IInv'
<1> DEFINE n == cur[h]
<1> USE DEF handleVars, walkVars
<1>1. pc[h] \in InTree /\ res[h] = None /\ n \in Alive
  BY AtNode, WasInTree DEF InTree
<1>2. TopDown(h)' = TopDown(h) /\ Step(h)' = Step(h) /\ Target(h)' = Target(h) /\ Frames(h)' = Frames(h)
  BY DEF TopDown, Step, Target, Frames
<1>3. ret' \in [Handle -> Answers] /\ (~TopDown(h) => ret'[h] = "true")
  BY <1>1, WasInTree DEF TypeOK
<1>4. heap' \in [Node -> VersionedNode \cup {None}] /\ SameShape
  BY <1>1, WasInTree, ValueWrite
<1>5. TypeOK'
  BY <1>1, <1>3, <1>4, WasInTree DEF TypeOK, ReturnNode, Phase
<1>6. LocalFrame(h)
  BY <1>1, WasInTree DEF LocalFrame, SameLocals, TypeOK, ReturnNode
<1>7. /\ cur'[h] = None /\ res'[h] = n /\ pc'[h] = "up" /\ drops' = drops
      /\ root' = root /\ trail' = trail /\ todo' = todo /\ version' = version
  BY <1>1, WasInTree DEF TypeOK, ReturnNode
<1>8. /\ heap[n].version = Target(h) /\ Alive' = Alive
      /\ \A m \in Alive : heap'[m].version = heap[m].version
  BY <1>1, <1>4, WasInTree, ShapeKept DEF ThreadInv, StampsOf, SameShape, Alive
<1> HIDE DEF n
<1>9. n = cur[h]
  BY DEF n
<1>10. ThreadInv(h)'
  <2>1. PhaseOf(h)'
    BY <1>1, <1>2, <1>3, <1>7, <1>9, WasInTree DEF PhaseOf, InTree
  <2>2. HoldsAlive(h)'
    BY <1>1, <1>2, <1>7, <1>8, <1>9, WasInTree DEF HoldsAlive
  <2>3. TrailExclusive(h)'
    <3>1. TopDown(h) => \A i \in Frames(h) :
             /\ ~HeldByParent(trail[h][i].node) /\ trail[h][i].node # n
             /\ trail[h][i].node \in Node /\ trail[h][i].node # None
      BY <1>1, <1>9, WasInTree DEF ThreadInv, TrailExclusive, AloneOnTrail, HeldElsewhere, Alive
    <3>2. TopDown(h) => \A i \in Frames(h) : ~HeldByParent(trail[h][i].node)'
      BY <1>4, <1>7, <3>1, ShapeKept
    <3> QED
      BY <1>1, <1>2, <1>6, <1>7, <3>1, <3>2, WasInTree, TrailStays
  <2>4. CurExclusive(h)' /\ StampsOf(h)'
    BY <1>1, <1>2, <1>3, <1>7, <1>8, <1>9, WasInTree DEF StampsOf, CurExclusive, ThreadInv
  <2> QED
    BY <2>1, <2>2, <2>3, <2>4 DEF ThreadInv
<1>11. InHand(h)' = InHand(h)
  BY <1>1, <1>7, <1>9 DEF InHand, TrailNodes
<1> QED
  BY <1>4, <1>5, <1>6, <1>7, <1>10, <1>11, ShapeStep DEF Loose, HeldByRoot

\* insert and update write the value.
LEMMA ReplaceValueOK == ASSUME IInv, NEW h \in Handle, ReplaceValue(h) PROVE IInv'
<1> DEFINE s == Step(h)
           v == IF ~TopDown(h) /\ s.act = "keep" THEN Scratch ELSE s.val
           a == IF s.op = "insert" THEN Report(h, heap[cur[h]].value) ELSE "true"
<1>1. pc[h] = "edit" /\ drops[h] = {} /\ pc[h] \in InTree /\ SoleCur(h)
  BY DEF ReplaceValue, Unwrapped, Running, InTree
<1>2. v \in Val
  BY <1>1, WasInTree
<1>3. a \in Answers /\ (~TopDown(h) => a = "true")
  <2>1. heap[cur[h]].value \in Val \cup {None}
    BY <1>1, WasInTree DEF VersionedNode
  <2>2. Report(h, heap[cur[h]].value) \in Answers
    BY <1>1, <2>1, WasInTree DEF Report, TypeOK, Answers
  <2> QED
    BY <2>2 DEF Answers, TopDown
<1>4. /\ heap' = [heap EXCEPT ![cur[h]].value = v] /\ ret' = [ret EXCEPT ![h] = a]
      /\ ReturnNode(h, cur[h]) /\ UNCHANGED <<handleVars, call, todo, walkVars, drops>>
  BY DEF ReplaceValue
<1> HIDE DEF v, a
<1> QED
  BY <1>1, <1>2, <1>3, <1>4, ValueReturned

\* get_mut writes through the path it has made its own.
LEMMA WriteThroughOK == ASSUME IInv, NEW h \in Handle, WriteThrough(h) PROVE IInv'
<1>1. PICK n \in Found(root[h], Step(h).key) :
        /\ ret' = [ret EXCEPT ![h] = Report(h, heap[n].value)]
        /\ heap' = [heap EXCEPT ![n].value = Step(h).val]
  BY DEF WriteThrough
<1>2. /\ TypeOK /\ pc[h] = "write" /\ drops[h] = {} /\ todo[h] # <<>>
      /\ n \in Alive /\ n \in Node /\ heap[n] \in VersionedNode
      /\ Step(h).val \in Val /\ Tail(todo[h]) \in Seq(Call)
  <2>1. TypeOK /\ pc[h] = "write" /\ drops[h] = {} /\ todo[h] # <<>>
    BY DEF WriteThrough, Running, IInv, ThreadInv, PhaseOf
  <2>2. n \in Alive
    BY DEF Found
  <2> QED
    BY <2>1, <2>2, AliveTyped, StepTyped
<1>3. heap' \in [Node -> VersionedNode \cup {None}] /\ SameShape
  BY <1>1, <1>2, ValueWrite
<1>4. ret' \in [Handle -> Answers]
  <2>1. heap[n].value \in Val \cup {None}
    BY <1>2 DEF VersionedNode
  <2>2. Report(h, heap[n].value) \in Answers
    BY <1>2, <2>1 DEF Report, TypeOK, Answers
  <2> QED
    BY <1>1, <1>2, <2>2 DEF TypeOK
<1>5. TypeOK'
  BY <1>2, <1>3, <1>4 DEF TypeOK, WriteThrough, Phase, handleVars, walkVars
<1>6. LocalFrame(h)
  BY <1>1, <1>2 DEF LocalFrame, SameLocals, TypeOK, WriteThrough, handleVars, walkVars
<1>7. /\ pc'[h] = "next" /\ cur' = cur /\ res' = res /\ trail' = trail /\ root' = root
      /\ drops' = drops /\ version' = version
  BY <1>2 DEF TypeOK, WriteThrough, handleVars, walkVars
<1>8. root[h] # None => root[h] \in Alive' /\ heap'[root[h]].version = heap[root[h]].version
  BY <1>2, <1>3, ShapeKept, WasResting DEF SameShape, Alive
<1>9. ThreadInv(h)'
  BY <1>2, <1>3, <1>5, <1>7, <1>8, ShapeKept, WasResting, Resting
<1>10. InHand(h)' = InHand(h)
  BY <1>7 DEF InHand, TrailNodes
<1> QED
  BY <1>3, <1>5, <1>6, <1>7, <1>9, <1>10, ShapeStep DEF Loose, HeldByRoot

-----------------------------------------------------------------------------
(* Steps that allocate, free or relink nodes. *)

\* Only the Arc a thread was returning gets a new parent.
NewParents(h) ==
  \A x \in Alive : HeldByParent(x)' => HeldByParent(x) \/ x = res[h]

\* A step that writes to nodes nothing else points to, and gives no other Arc a
\* new parent than the one the thread was returning, keeps the invariant.
LEMMA HeapStep ==
  ASSUME IInv, NEW h \in Handle, TypeOK', HeapInv', LocalFrame(h), ThreadInv(h)',
         NewParents(h),
         \A m \in Alive : heap'[m] = heap[m] \/ ~HeldElsewhere(h, m),
         \A m \in Alive : Loose(h, m) => root'[h] # m /\ m \notin InHand(h)'
  PROVE  IInv'
<1>1. TypeOK
  BY DEF IInv
<1>2. HeapFrame(h)
  BY DEF HeapFrame, Unwritten, Alive
<1>3. RefFrame(h)
  <2> SUFFICES ASSUME NEW m \in Alive, Loose(h, m)
               PROVE  ~HeldByRoot(m)' /\ ~HeldByParent(m)'
    BY DEF RefFrame, Loose
  <2>1. m # res[h]
    BY <1>1, InHandDef DEF Loose, Alive
  <2>2. ~HeldByParent(m)'
    BY <2>1 DEF NewParents, Loose
  <2>3. ~HeldByRoot(m)'
    BY DEF Loose, HeldByRoot, LocalFrame, SameLocals
  <2> QED
    BY <2>2, <2>3
<1> QED
  BY <1>2, <1>3, StepKeeps

\* remove and update take the value; a node left empty goes.
LEMMA TakeValueOK == ASSUME IInv, NEW h \in Handle, TakeValue(h) PROVE IInv'
<1> DEFINE n == cur[h]
           s == Step(h)
           a == IF s.op = "remove" THEN Report(h, heap[n].value) ELSE "true"
<1>1. /\ pc[h] = "edit" /\ drops[h] = {} /\ pc[h] \in InTree /\ SoleCur(h)
      /\ res[h] = None /\ n \in Alive /\ n \in Node /\ n # None
  BY AtNode, WasInTree DEF TakeValue, Unwrapped, Running, InTree
<1>2. a \in Answers /\ (~TopDown(h) => a = "true")
  <2>1. heap[n].value \in Val \cup {None}
    BY <1>1, WasInTree DEF VersionedNode
  <2>2. Report(h, heap[n].value) \in Answers
    BY <1>1, <2>1, WasInTree DEF Report, TypeOK, Answers
  <2> QED
    BY <2>2 DEF Answers, TopDown
<1>3. ret' = [ret EXCEPT ![h] = a] /\ UNCHANGED <<handleVars, call, todo, walkVars, drops>>
  BY DEF TakeValue
<1> HIDE DEF a
<1>4. CASE heap[n].kids # NoKids
  <2>1. heap' = [heap EXCEPT ![n].value = None] /\ ReturnNode(h, n)
    BY <1>4 DEF TakeValue
  <2> QED
    BY <1>1, <1>2, <1>3, <2>1, ValueReturned
<1>5. CASE heap[n].kids = NoKids
  <2> USE DEF handleVars, walkVars
  <2>1. heap' = [heap EXCEPT ![n] = None] /\ ReturnNode(h, None)
    BY <1>5 DEF TakeValue
  <2>2. TopDown(h)' = TopDown(h) /\ Step(h)' = Step(h) /\ Target(h)' = Target(h) /\ Frames(h)' = Frames(h)
    BY <1>3 DEF TopDown, Step, Target, Frames
  <2>3. TypeOK'
    BY <1>1, <1>2, <1>3, <2>1, WasInTree DEF TypeOK, ReturnNode, Phase
  <2>4. LocalFrame(h)
    BY <1>1, <1>3, <2>1, WasInTree DEF LocalFrame, SameLocals, TypeOK, ReturnNode
  <2>5. /\ cur'[h] = None /\ res'[h] = None /\ pc'[h] = "up" /\ drops' = drops
        /\ root' = root /\ trail' = trail /\ todo' = todo /\ version' = version
        /\ ret'[h] = a
    BY <1>1, <1>3, <2>1, WasInTree DEF TypeOK, ReturnNode
  <2>6. /\ Alive' = Alive \ {n} /\ ~HeldElsewhere(h, n) /\ ~HeldByParent(n)
        /\ \A m \in Alive \ {n} : heap'[m] = heap[m]
    BY <1>1, <2>1, WasInTree DEF Alive, TypeOK, SoleCur, HeldElsewhere
  <2>7. \A m \in Alive : HeldByParent(m)' => HeldByParent(m)
    BY <2>6 DEF HeldByParent
  <2>8. HeapInv'
    BY <1>1, <2>6, WasInTree DEF HeapInv, HeldByParent
  <2> HIDE DEF n
  <2>9. n = cur[h]
    BY DEF n
  <2>10. ThreadInv(h)'
    <3>1. PhaseOf(h)'
      BY <1>1, <1>2, <1>3, <2>2, <2>5, <2>9, WasInTree DEF PhaseOf, InTree
    <3>2. n \notin TrailNodes(h)
      BY <1>1, <2>9 DEF SoleCur
    <3>3. HoldsAlive(h)'
      BY <1>1, <2>2, <2>5, <2>6, <3>2, WasInTree DEF HoldsAlive, TrailNodes, Frames
    <3>4. TrailExclusive(h)'
      <4>1. TopDown(h) => \A i \in Frames(h) :
               ~HeldByParent(trail[h][i].node) /\ trail[h][i].node \in Alive
        BY <1>1, WasInTree DEF ThreadInv, TrailExclusive, AloneOnTrail, HeldElsewhere
      <4>2. TopDown(h) => \A i \in Frames(h) : ~HeldByParent(trail[h][i].node)'
        BY <2>5, <2>7, <4>1
      <4> QED
        BY <1>1, <2>2, <2>4, <2>5, <4>1, <4>2, WasInTree, TrailStays
    <3>5. StampsOf(h)'
      <4>1. \A i \in Frames(h) : heap'[trail[h][i].node] = heap[trail[h][i].node]
        BY <1>1, <2>6, <3>2, WasInTree DEF TrailNodes, Frames
      <4> QED
        BY <1>1, <2>2, <2>5, <4>1, WasInTree DEF StampsOf, ThreadInv
    <3> QED
      BY <2>5, <3>1, <3>3, <3>4, <3>5 DEF ThreadInv, CurExclusive
  <2>11. InHand(h)' \subseteq InHand(h)
    BY <2>5 DEF InHand, TrailNodes
  <2> QED
    BY <1>1, <2>3, <2>4, <2>5, <2>6, <2>7, <2>8, <2>10, <2>11, HeapStep
       DEF NewParents, Loose, HeldByRoot
<1> QED
  BY <1>4, <1>5

\* A thread lets go of an Arc; the last one frees the node.
LEMMA ReleaseOK == ASSUME IInv, NEW h \in Handle, Release(h) PROVE IInv'
<1> USE DEF handleVars, callVars, walkVars
<1>1. PICK n \in drops[h] :
        IF LastReference(h, n)
        THEN /\ heap' = [heap EXCEPT ![n] = None]
             /\ drops' = [drops EXCEPT ![h] = (@ \ {n}) \cup Children(heap[n])]
        ELSE /\ drops' = [drops EXCEPT ![h] = @ \ {n}]
             /\ UNCHANGED heap
  BY DEF Release
<1>2. /\ UNCHANGED <<live, root, version, call, todo, ret, pc, cur, depth, trail, edge, res>>
      /\ TypeOK /\ HeapInv /\ ThreadInv(h)
      /\ drops[h] \subseteq Alive /\ n \in Alive /\ n \in Node /\ n # None
  BY DEF Release, IInv, ThreadInv, HoldsAlive, Alive
<1>3. /\ TopDown(h)' = TopDown(h) /\ Step(h)' = Step(h) /\ Target(h)' = Target(h)
      /\ Frames(h)' = Frames(h) /\ TrailNodes(h)' = TrailNodes(h)
  BY <1>2 DEF TopDown, Step, Target, Frames, TrailNodes
<1>4. PhaseOf(h)'
  BY <1>2, <1>3 DEF ThreadInv, PhaseOf
<1>5. CASE ~LastReference(h, n)
  <2>1. heap' = heap /\ drops'[h] = drops[h] \ {n} /\ drops' = [drops EXCEPT ![h] = @ \ {n}]
        /\ Alive' = Alive
    BY <1>1, <1>2, <1>5 DEF TypeOK, Alive
  <2>2. TypeOK'
    BY <1>2, <2>1 DEF TypeOK
  <2>3. LocalFrame(h)
    BY <1>2, <2>1 DEF LocalFrame, SameLocals, TypeOK
  <2>4. \A m \in Node : ~HeldElsewhere(h, m) => ~HeldElsewhere(h, m)'
    BY <1>2, <2>1, <2>3 DEF HeldElsewhere, HeldByRoot, HeldByParent, LocalFrame, SameLocals,
                            InHand, TrailNodes
  <2>5. TrailExclusive(h)'
    <3>1. ASSUME pc[h] \in InTree, TopDown(h), NEW i \in Frames(h)
          PROVE  AloneOnTrail(h, i)'
      <4>1. AloneOnTrail(h, i) /\ trail[h][i].node \in Node
        BY <3>1, <1>2, WasInTree DEF ThreadInv, TrailExclusive, Alive
      <4> QED
        BY <1>2, <1>3, <2>1, <2>4, <4>1 DEF AloneOnTrail
    <3> QED
      BY <1>2, <1>3, <3>1 DEF TrailExclusive
  <2>6. CurExclusive(h)'
    <3>1. pc[h] \in {"edit", "fix"} => SoleCur(h) /\ cur[h] \in Node
      BY <1>2, WasInTree DEF ThreadInv, CurExclusive, InTree
    <3> QED
      BY <1>2, <1>3, <2>1, <2>4, <3>1 DEF CurExclusive, SoleCur
  <2>7. ThreadInv(h)'
    BY <1>2, <1>3, <1>4, <2>1, <2>5, <2>6 DEF ThreadInv, HoldsAlive, StampsOf
  <2>8. InHand(h)' \subseteq InHand(h)
    BY <1>2, <1>3, <2>1 DEF InHand
  <2> QED
    BY <1>2, <2>1, <2>2, <2>3, <2>7, <2>8, SameHeap DEF Loose, HeldByRoot
<1>6. CASE LastReference(h, n)
  <2>1. /\ heap' = [heap EXCEPT ![n] = None]
        /\ drops' = [drops EXCEPT ![h] = (@ \ {n}) \cup Children(heap[n])]
    BY <1>1, <1>6
  <2>2. /\ ~HeldElsewhere(h, n) /\ ~HeldByRoot(n) /\ ~HeldByParent(n)
        /\ n # cur[h] /\ n # res[h] /\ n \notin TrailNodes(h)
    BY <1>6 DEF LastReference, HeldElsewhere
  <2>3. /\ Alive' = Alive \ {n} /\ \A m \in Alive \ {n} : heap'[m] = heap[m]
        /\ drops'[h] = (drops[h] \ {n}) \cup Children(heap[n])
    BY <1>2, <2>1 DEF Alive, TypeOK
  <2>4. \A c \in Children(heap[n]) : c \in Alive \ {n} /\ HeldByParent(c)
    BY <1>2, <2>2 DEF Children, HeapInv, HeldByParent
  <2>5. TypeOK'
    <3>1. drops' \in [Handle -> SUBSET Node]
      BY <1>2, <2>1, <2>4 DEF TypeOK, Alive
    <3> QED
      BY <1>2, <2>1, <3>1 DEF TypeOK
  <2>6. LocalFrame(h)
    BY <1>2, <2>1 DEF LocalFrame, SameLocals, TypeOK
  <2>7. \A m \in Alive : HeldByParent(m)' => HeldByParent(m)
    BY <2>3 DEF HeldByParent
  <2>8. HeapInv'
    BY <1>2, <2>2, <2>3 DEF HeapInv, HeldByParent
  <2>9. \A m \in Alive : ~HeldElsewhere(h, m) => ~HeldElsewhere(h, m)' /\ m \notin Children(heap[n])
    <3> SUFFICES ASSUME NEW m \in Alive, ~HeldElsewhere(h, m)
                 PROVE  ~HeldElsewhere(h, m)' /\ m \notin Children(heap[n])
      OBVIOUS
    <3>1. ~HeldByParent(m) /\ root[h] # m /\ m \in Node
      BY DEF HeldElsewhere, HeldByRoot, Alive
    <3> QED
      BY <1>2, <2>4, <2>6, <2>7, <3>1, OwnView
  <2>10. HoldsAlive(h)'
    <3>1. root[h] # n
      BY <2>2 DEF HeldByRoot
    <3>2. \A i \in Frames(h) : trail[h][i].node # n
      BY <2>2 DEF TrailNodes, Frames
    <3> QED
      BY <1>2, <1>3, <2>2, <2>3, <2>4, <3>1, <3>2 DEF ThreadInv, HoldsAlive
  <2>11. TrailExclusive(h)'
    <3>1. ASSUME pc[h] \in InTree, TopDown(h), NEW i \in Frames(h)
          PROVE  AloneOnTrail(h, i)'
      <4>1. AloneOnTrail(h, i) /\ trail[h][i].node \in Alive
        BY <3>1, <1>2, WasInTree DEF ThreadInv, TrailExclusive
      <4> QED
        BY <1>2, <1>3, <2>3, <2>9, <4>1 DEF AloneOnTrail
    <3> QED
      BY <1>2, <1>3, <3>1 DEF TrailExclusive
  <2>12. CurExclusive(h)'
    <3>1. pc[h] \in {"edit", "fix"} => SoleCur(h) /\ cur[h] \in Alive
      BY <1>2, WasInTree DEF ThreadInv, CurExclusive, InTree
    <3> QED
      BY <1>2, <1>3, <2>3, <2>9, <3>1 DEF CurExclusive, SoleCur
  <2>13. StampsOf(h)'
    <3>1. \A m \in Alive \ {n} : heap'[m].version = heap[m].version /\ heap'[m].kids = heap[m].kids
      BY <2>3
    <3>2. /\ root[h] # None => root[h] \in Alive \ {n}
          /\ cur[h] # None => cur[h] \in Alive \ {n}
          /\ res[h] # None => res[h] \in Alive \ {n}
          /\ \A i \in Frames(h) : trail[h][i].node \in Alive \ {n}
      BY <1>2, <1>3, <2>3, <2>10 DEF HoldsAlive
    <3>3. pc[h] = "edit" => \A b \in Byte : heap[cur[h]].kids[b] # None =>
            heap[cur[h]].kids[b] \in Alive \ {n}
      BY <1>2, <2>2, <3>2 DEF HeapInv, HeldByParent, ThreadInv, PhaseOf
    <3>4. pc[h] \in {"visit", "edit", "lift", "fix"} => cur[h] # None
      BY <1>2 DEF ThreadInv, PhaseOf
    <3>5. StampsOf(h)
      BY <1>2 DEF ThreadInv
    <3> QED
      BY <1>2, <1>3, <3>1, <3>2, <3>3, <3>4, <3>5 DEF StampsOf
  <2>14. \A m \in Alive : Loose(h, m) => root'[h] # m /\ m \notin InHand(h)'
    BY <1>2, <1>3, <2>3, <2>4 DEF Loose, HeldByRoot, InHand
  <2> QED
    BY <1>4, <2>2, <2>3, <2>5, <2>6, <2>7, <2>8, <2>10, <2>11, <2>12, <2>13, <2>14, HeapStep
       DEF ThreadInv, NewParents
<1> QED
  BY <1>5, <1>6

\* Nothing points to a name that is not allocated.
LEMMA FreshUnheld ==
  ASSUME IInv, NEW n \in Node \ Alive
  PROVE  ~HeldByRoot(n) /\ ~HeldByParent(n) /\ \A g \in Handle : n \notin InHand(g)
<1>1. \A g \in Handle : HoldsAlive(g)
  BY DEF IInv, ThreadInv
<1>2. HeapInv /\ TypeOK
  BY DEF IInv
<1>3. ~HeldByRoot(n)
  BY <1>1 DEF HeldByRoot, HoldsAlive
<1>4. ~HeldByParent(n)
  BY <1>2 DEF HeldByParent, HeapInv
<1>5. \A g \in Handle : n \notin InHand(g)
  BY <1>1, <1>2, InHandDef DEF HoldsAlive
<1> QED
  BY <1>3, <1>4, <1>5

\* VersionedNode::new_leaf and new_inner build nodes.
LEMMA NewNodeTyped ==
  ASSUME NEW p \in Seq(Byte), NEW v \in Val \cup {None}, NEW t \in Nat,
         NEW kids \in [Byte -> Node \cup {None}]
  PROVE  /\ NewLeaf(p, v, t) \in VersionedNode /\ NewInner(p, v, kids, t) \in VersionedNode
         /\ NewLeaf(p, v, t).version = t /\ NewInner(p, v, kids, t).version = t
         /\ NewLeaf(p, v, t).kids = NoKids /\ NewInner(p, v, kids, t).kids = kids
         /\ NewLeaf(p, v, t) # None /\ NewInner(p, v, kids, t) # None
<1>1. NoKids \in [Byte -> Node \cup {None}]
  BY DEF NoKids
<1>2. NewLeaf(p, v, t) \in VersionedNode
  BY <1>1 DEF NewLeaf, VersionedNode
<1>3. NewInner(p, v, kids, t) \in VersionedNode
  BY DEF NewInner, VersionedNode
<1> QED
  BY <1>2, <1>3 DEF NewLeaf, NewInner

\* The first key of an empty tree.
LEMMA StartEmptyOK == ASSUME IInv, NEW h \in Handle, StartEmpty(h) PROVE IInv'
<1> DEFINE s == Step(h)
           inserts == s.op = "insert" \/ s.act = "insert"
           c == New1(h)
           t == version[h] + 1
           leaf == NewLeaf(s.key, s.val, t)
<1> USE DEF walkVars
<1>1. /\ TypeOK /\ HeapInv /\ ThreadInv(h) /\ pc[h] = "next" /\ todo[h] # <<>>
      /\ root[h] = None /\ drops[h] = {}
  BY DEF IInv, StartEmpty, Running
<1>2. s.key \in Seq(Byte) /\ s.val \in Val /\ t \in Nat /\ Tail(todo[h]) \in Seq(Call)
  BY <1>1, StepTyped
<1>3. /\ leaf \in VersionedNode /\ leaf.version = t /\ leaf.kids = NoKids /\ leaf # None
  BY <1>2, NewNodeTyped DEF NoKids
<1>4. inserts => c \in Node /\ c \notin Alive /\ c # None
  BY <1>1, FreshNames DEF StartEmpty
<1>5. /\ inserts => heap' = [heap EXCEPT ![c] = leaf] /\ root' = [root EXCEPT ![h] = c]
                     /\ version' = [version EXCEPT ![h] = t]
      /\ ~inserts => UNCHANGED <<heap, root, version>>
      /\ todo' = [todo EXCEPT ![h] = Tail(@)]
      /\ UNCHANGED <<live, call, pc, cur, depth, trail, edge, res, drops>>
  BY DEF StartEmpty
<1>6. ret' \in [Handle -> Answers] /\ \A g \in Handle \ {h} : ret'[g] = ret[g]
  <2> DEFINE a == IF s.op = "insert" THEN Report(h, None)
                  ELSE IF s.act = "panic" THEN "panic"
                  ELSE IF inserts THEN "true" ELSE "false"
  <2>1. a \in Answers
    BY <1>1 DEF Report, TypeOK, Answers
  <2>2. ret' = [ret EXCEPT ![h] = a]
    BY DEF StartEmpty
  <2> HIDE DEF a
  <2> QED
    BY <1>1, <2>1, <2>2 DEF TypeOK
<1> HIDE DEF inserts, c, t, leaf
<1>7. TypeOK'
  <2>1. /\ heap' \in [Node -> VersionedNode \cup {None}]
        /\ root' \in [Handle -> Node \cup {None}] /\ version' \in [Handle -> Nat]
    <3>1. /\ heap \in [Node -> VersionedNode \cup {None}]
          /\ root \in [Handle -> Node \cup {None}] /\ version \in [Handle -> Nat]
      BY <1>1 DEF TypeOK
    <3>2. CASE inserts
      <4>1. /\ heap' = [heap EXCEPT ![c] = leaf] /\ root' = [root EXCEPT ![h] = c]
            /\ version' = [version EXCEPT ![h] = t]
        BY <1>5, <3>2
      <4>2. c \in Node /\ leaf \in VersionedNode /\ t \in Nat
        BY <1>2, <1>3, <1>4, <3>2
      <4> QED
        BY <3>1, <4>1, <4>2
    <3>3. CASE ~inserts
      <4>1. heap' = heap /\ root' = root /\ version' = version
        BY <1>5, <3>3
      <4> QED
        BY <3>1, <4>1
    <3> QED
      BY <3>2, <3>3
  <2>2. todo' \in [Handle -> Seq(Call)]
    BY <1>1, <1>2, <1>5 DEF TypeOK
  <2> QED
    BY <1>1, <1>5, <1>6, <2>1, <2>2 DEF TypeOK
<1>8. LocalFrame(h)
  BY <1>1, <1>5, <1>6 DEF LocalFrame, SameLocals, TypeOK
<1>9. /\ \A m \in Alive : heap'[m] = heap[m]
      /\ inserts => Alive' = Alive \cup {c} /\ heap'[c] = leaf /\ root'[h] = c /\ version'[h] = t
      /\ ~inserts => Alive' = Alive /\ root'[h] = None
  BY <1>1, <1>3, <1>4, <1>5 DEF Alive, TypeOK
<1>10. /\ \A m \in Alive' : \/ m \in Alive /\ heap'[m] = heap[m]
                            \/ \A b \in Byte : heap'[m].kids[b] = None
  BY <1>3, <1>9 DEF NoKids
<1>11. HeapInv'
  BY <1>1, <1>9, <1>10 DEF HeapInv
<1>12. ThreadInv(h)'
  <2>1. /\ cur'[h] = None /\ res'[h] = None /\ trail'[h] = <<>> /\ drops'[h] = {} /\ pc'[h] = "next"
    BY <1>1, <1>5, WasResting
  <2>2. version[h] \in Nat /\ t \in Nat
    BY <1>1, <1>2 DEF TypeOK
  <2>3. root'[h] # None => root'[h] \in Alive' /\ heap'[root'[h]].version <= version'[h]
    BY <1>3, <1>9, <2>2
  <2> QED
    BY <1>7, <2>1, <2>3, Resting
<1>13. NewParents(h)
  BY <1>4, <1>9, <1>10 DEF NewParents, HeldByParent, Alive
<1>14. \A m \in Alive : Loose(h, m) => root'[h] # m /\ m \notin InHand(h)'
  BY <1>4, <1>5, <1>9 DEF Loose, InHand, TrailNodes, Alive
<1> QED
  BY <1>7, <1>8, <1>9, <1>11, <1>12, <1>13, <1>14, HeapStep

\* What is known when ensure_cow_node is called.
LEMMA WasEnsuring ==
  ASSUME IInv, NEW h \in Handle, Ensuring(h)
  PROVE  /\ pc[h] \in {"visit", "lift"} /\ pc[h] \in InTree /\ drops[h] = {}
         /\ cur[h] \in Alive /\ cur[h] \in Node /\ cur[h] # None
         /\ heap[cur[h]] \in VersionedNode
         /\ heap[cur[h]].version \in Nat /\ Target(h) \in Nat
         /\ heap[cur[h]].version < Target(h)
         /\ \A b \in Byte : heap[cur[h]].kids[b] # None =>
              /\ heap[cur[h]].kids[b] \in Alive
              /\ heap[heap[cur[h]].kids[b]].version \in Nat
              /\ heap[heap[cur[h]].kids[b]].version < Target(h)
<1>1. pc[h] \in {"visit", "lift"} /\ pc[h] \in InTree /\ drops[h] = {}
  BY DEF Ensuring, Running, InTree
<1>2. /\ cur[h] \in Alive /\ cur[h] \in Node /\ cur[h] # None /\ heap[cur[h]] \in VersionedNode
      /\ heap[cur[h]].version \in Nat /\ Target(h) \in Nat
      /\ heap[cur[h]].version < Target(h)
  BY <1>1, WasInTree DEF ThreadInv, StampsOf
<1>3. ASSUME NEW b \in Byte, heap[cur[h]].kids[b] # None
      PROVE  /\ heap[cur[h]].kids[b] \in Alive
             /\ heap[heap[cur[h]].kids[b]].version \in Nat
             /\ heap[heap[cur[h]].kids[b]].version < Target(h)
  <2> DEFINE k == heap[cur[h]].kids[b]
  <2>1. k \in Alive /\ heap[k].version <= heap[cur[h]].version
    BY <1>1, <1>2, <1>3, WasInTree DEF HeapInv
  <2>2. heap[k].version \in Nat
    BY <1>1, <2>1, WasInTree, AliveTyped DEF VersionedNode
  <2> QED
    BY <1>2, <2>1, <2>2
<1> QED
  BY <1>1, <1>2, <1>3

\* ensure_cow_node on a node nobody else holds: the stamp alone never decides,
\* because it is always below the target.
LEMMA EnsureCowOwnedOK == ASSUME IInv, NEW h \in Handle, EnsureCowOwned(h) PROVE IInv'
<1> DEFINE n == cur[h]
           x == [heap[n] EXCEPT !.version = Target(h)]
<1> USE DEF handleVars, callVars, walkVars
<1>1. /\ pc[h] \in {"visit", "lift"} /\ pc[h] \in InTree /\ drops[h] = {} /\ SoleCur(h)
      /\ n \in Alive /\ n \in Node /\ n # None
  BY WasEnsuring DEF EnsureCowOwned
<1>2. x \in VersionedNode /\ x.version = Target(h) /\ x.kids = heap[n].kids /\ x # None
  BY WasEnsuring DEF EnsureCowOwned, VersionedNode
<1>3. /\ heap' = [heap EXCEPT ![n] = x] /\ pc' = [pc EXCEPT ![h] = IF @ = "visit" THEN "edit" ELSE "fix"]
      /\ UNCHANGED <<live, root, version, call, todo, ret, cur, depth, trail, edge, res, drops>>
  BY DEF EnsureCowOwned, Ensured
<1>4. /\ TopDown(h)' = TopDown(h) /\ Step(h)' = Step(h) /\ Target(h)' = Target(h)
      /\ Frames(h)' = Frames(h) /\ TrailNodes(h)' = TrailNodes(h) /\ InHand(h)' = InHand(h)
  BY <1>3 DEF TopDown, Step, Target, Frames, TrailNodes, InHand
<1>5. \A b \in Byte : heap[n].kids[b] # None =>
        heap[n].kids[b] \in Alive /\ heap[heap[n].kids[b]].version < Target(h)
        /\ heap[heap[n].kids[b]].version \in Nat /\ Target(h) \in Nat
  BY WasEnsuring DEF EnsureCowOwned
<1> HIDE DEF x, n
<1>6. n = cur[h]
  BY DEF n
<1>7. TypeOK'
  <2>1. heap' \in [Node -> VersionedNode \cup {None}] /\ pc' \in [Handle -> Phase]
    BY <1>1, <1>2, <1>3, WasInTree DEF TypeOK, Phase
  <2> QED
    BY <1>1, <1>3, <2>1, WasInTree DEF TypeOK
<1>8. LocalFrame(h)
  BY <1>1, <1>3, WasInTree DEF LocalFrame, SameLocals, TypeOK
<1>9. /\ Alive' = Alive /\ \A m \in Alive \ {n} : heap'[m] = heap[m]
      /\ heap'[n] = x /\ \A m \in Alive : heap'[m].kids = heap[m].kids
  BY <1>1, <1>2, <1>3, WasInTree DEF Alive, TypeOK
<1>10. ~HeldElsewhere(h, n) /\ ~HeldByParent(n) /\ n # res[h] /\ n \notin TrailNodes(h)
  BY <1>1, <1>6 DEF SoleCur, HeldElsewhere
<1>11. \A m : HeldByParent(m)' <=> HeldByParent(m)
  BY <1>9 DEF HeldByParent
<1>12. HeapInv'
  <2> SUFFICES ASSUME NEW m \in Alive, NEW b \in Byte, heap[m].kids[b] # None
               PROVE  heap[m].kids[b] \in Alive /\ heap'[heap[m].kids[b]].version <= heap'[m].version
    BY <1>9 DEF HeapInv
  <2>1. /\ heap[m].kids[b] \in Alive /\ heap[m].kids[b] # n
        /\ heap[heap[m].kids[b]].version <= heap[m].version
    BY <1>1, <1>10, WasInTree DEF HeapInv, HeldByParent
  <2>2. CASE m = n
    BY <1>2, <1>5, <1>9, <2>1, <2>2
  <2>3. CASE m # n
    BY <1>9, <2>1, <2>3
  <2> QED
    BY <2>2, <2>3
<1>13. ThreadInv(h)'
  <2>1. pc'[h] = IF pc[h] = "visit" THEN "edit" ELSE "fix"
    BY <1>1, <1>3, WasInTree DEF TypeOK
  <2>2. PhaseOf(h)'
    BY <1>1, <1>3, <1>4, <2>1, WasInTree DEF ThreadInv, PhaseOf, InTree
  <2>3. HoldsAlive(h)'
    BY <1>1, <1>3, <1>4, <1>9, WasInTree DEF ThreadInv, HoldsAlive
  <2>4. \A m \in Node : ~HeldElsewhere(h, m) => ~HeldElsewhere(h, m)'
    <3>1. root'[h] = None /\ None \notin Node
      BY <1>1, <1>3, WasInTree
    <3>2. \A m \in Node : ~HeldElsewhere(h, m) => root'[h] # m /\ ~HeldByParent(m)'
      BY <1>11, <3>1 DEF HeldElsewhere
    <3> QED
      BY <1>8, <3>2, OwnView
  <2>5. TrailExclusive(h)'
    <3>1. TopDown(h) => \A i \in Frames(h) : AloneOnTrail(h, i) /\ trail[h][i].node \in Node
      BY <1>1, WasInTree DEF ThreadInv, TrailExclusive, Alive
    <3>2. TopDown(h) => \A i \in Frames(h) : AloneOnTrail(h, i)'
      BY <1>3, <1>4, <2>4, <3>1 DEF AloneOnTrail
    <3> QED
      BY <1>4, <3>2 DEF TrailExclusive
  <2>6. CurExclusive(h)'
    BY <1>1, <1>3, <1>4, <1>6, <2>4 DEF CurExclusive, SoleCur
  <2>7. StampsOf(h)'
    <3>1. \A i \in Frames(h) : heap'[trail[h][i].node] = heap[trail[h][i].node]
      BY <1>1, <1>9, <1>10, WasInTree DEF TrailNodes, Frames
    <3>2. res[h] # None => heap'[res[h]] = heap[res[h]]
      BY <1>1, <1>9, <1>10, WasInTree
    <3>3. \A b \in Byte : heap'[n].kids[b] # None =>
            heap'[heap'[n].kids[b]].version < Target(h)
      <4> SUFFICES ASSUME NEW b \in Byte, heap[n].kids[b] # None
                   PROVE  heap'[heap[n].kids[b]].version < Target(h)
        BY <1>1, <1>9
      <4>1. heap[n].kids[b] # n
        BY <1>1, <1>10 DEF HeldByParent
      <4> QED
        BY <1>5, <1>9, <4>1
    <3>4. \A i \in Frames(h) :
            IF TopDown(h) THEN heap[trail[h][i].node].version = Target(h)
                          ELSE heap[trail[h][i].node].version < Target(h)
      BY <1>1, WasInTree DEF ThreadInv, StampsOf
    <3>5. pc[h] = "lift" /\ res[h] # None =>
            /\ heap[res[h]].version <= Target(h)
            /\ ~TopDown(h) /\ ret[h] = "false" => heap[res[h]].version < Target(h)
      BY <1>1, WasInTree DEF ThreadInv, StampsOf
    <3> QED
      BY <1>1, <1>2, <1>3, <1>4, <1>6, <1>9, <2>1, <3>1, <3>2, <3>3, <3>4, <3>5, WasInTree
         DEF StampsOf
  <2> QED
    BY <2>2, <2>3, <2>5, <2>6, <2>7 DEF ThreadInv
<1> QED
  BY <1>3, <1>4, <1>7, <1>8, <1>9, <1>10, <1>11, <1>12, <1>13, HeapStep
     DEF NewParents, Loose, HeldByRoot

\* A name that nobody held is not held elsewhere once only h has taken it.
LEMMA FreshForOwner ==
  ASSUME IInv, NEW h \in Handle, LocalFrame(h), NEW n \in Node \ Alive,
         root'[h] # n, ~HeldByParent(n)'
  PROVE  ~HeldElsewhere(h, n)'
<1>1. ~HeldElsewhere(h, n)
  BY FreshUnheld DEF HeldElsewhere
<1> QED
  BY <1>1, OwnView

\* add_child and delete_child change one edge and nothing else.
LEMMA ChildEdits ==
  ASSUME NEW nd \in VersionedNode, NEW b \in Byte, NEW c \in Node
  PROVE  /\ AddChild(nd, b, c) \in VersionedNode /\ AddChild(nd, b, c) # None
         /\ AddChild(nd, b, c).version = nd.version
         /\ \A e \in Byte : AddChild(nd, b, c).kids[e] = IF e = b THEN c ELSE nd.kids[e]
         /\ DeleteChild(nd, b) \in VersionedNode /\ DeleteChild(nd, b) # None
         /\ DeleteChild(nd, b).version = nd.version
         /\ \A e \in Byte : DeleteChild(nd, b).kids[e] = IF e = b THEN None ELSE nd.kids[e]
<1> DEFINE with == [nd.kids EXCEPT ![b] = c]
           without == [nd.kids EXCEPT ![b] = None]
<1>1. nd.kids \in [Byte -> Node \cup {None}]
  BY DEF VersionedNode
<1>2. with \in [Byte -> Node \cup {None}] /\ without \in [Byte -> Node \cup {None}]
  BY <1>1
<1>3. /\ AddChild(nd, b, c) = [nd EXCEPT !.leaf = FALSE, !.kids = with]
      /\ DeleteChild(nd, b) = [nd EXCEPT !.kids = without]
  BY DEF AddChild, DeleteChild
<1> HIDE DEF with, without
<1>4. [nd EXCEPT !.leaf = FALSE, !.kids = with] \in VersionedNode
  BY <1>2 DEF VersionedNode
<1>5. [nd EXCEPT !.kids = without] \in VersionedNode
  BY <1>2 DEF VersionedNode
<1>6. LET x == [nd EXCEPT !.leaf = FALSE, !.kids = with]
      IN  x.version = nd.version /\ x.kids = with
  BY DEF VersionedNode
<1>7. LET x == [nd EXCEPT !.kids = without]
      IN  x.version = nd.version /\ x.kids = without
  BY DEF VersionedNode
<1>8. \A e \in Byte : /\ with[e] = IF e = b THEN c ELSE nd.kids[e]
                      /\ without[e] = IF e = b THEN None ELSE nd.kids[e]
  BY <1>1 DEF with, without
<1>9. AddChild(nd, b, c) # None /\ DeleteChild(nd, b) # None
  BY <1>3, <1>4, <1>5
<1> QED
  BY <1>3, <1>4, <1>5, <1>6, <1>7, <1>8, <1>9

\* The half of it that needs no new child
LEMMA ChildDeleted ==
  ASSUME NEW nd \in VersionedNode, NEW b \in Byte
  PROVE  /\ DeleteChild(nd, b) \in VersionedNode /\ DeleteChild(nd, b) # None
         /\ DeleteChild(nd, b).version = nd.version
         /\ \A e \in Byte : DeleteChild(nd, b).kids[e] = IF e = b THEN None ELSE nd.kids[e]
<1> DEFINE without == [nd.kids EXCEPT ![b] = None]
<1>1. without \in [Byte -> Node \cup {None}] /\ \A e \in Byte : without[e] = IF e = b THEN None ELSE nd.kids[e]
  BY DEF VersionedNode
<1>2. DeleteChild(nd, b) = [nd EXCEPT !.kids = without]
  BY DEF DeleteChild
<1> HIDE DEF without
<1>3. DeleteChild(nd, b) \in VersionedNode
  BY <1>1, <1>2 DEF VersionedNode
<1>4. DeleteChild(nd, b).version = nd.version /\ DeleteChild(nd, b).kids = without
  BY <1>2 DEF VersionedNode
<1>5. DeleteChild(nd, b) # None
  BY <1>3, NoneAssumption
<1> QED BY <1>1, <1>3, <1>4, <1>5

\* ensure_cow_node on a shared node: the copy is nobody else's, and its children's
\* stamps are below its own.
LEMMA EnsureCowSharedOK == ASSUME IInv, NEW h \in Handle, EnsureCowShared(h) PROVE IInv'
<1> DEFINE n == cur[h]
           c == New1(h)
           x == CowClone(heap[n], Target(h))
<1> USE DEF handleVars, callVars, walkVars
<1>1. /\ pc[h] \in {"visit", "lift"} /\ pc[h] \in InTree /\ drops[h] = {}
      /\ n \in Alive /\ n \in Node /\ n # None
  BY WasEnsuring DEF EnsureCowShared
<1>2. x \in VersionedNode /\ x.version = Target(h) /\ x.kids = heap[n].kids /\ x # None
  BY SMTT(30), WasEnsuring DEF EnsureCowShared, VersionedNode, CowClone
<1>3. c \in Node /\ c \notin Alive /\ c # None
  BY <1>1, WasInTree, FreshNames DEF EnsureCowShared
<1>4. /\ heap' = [heap EXCEPT ![c] = x] /\ cur' = [cur EXCEPT ![h] = c]
      /\ drops' = [drops EXCEPT ![h] = {n}]
      /\ pc' = [pc EXCEPT ![h] = IF @ = "visit" THEN "edit" ELSE "fix"]
      /\ UNCHANGED <<live, root, version, call, todo, ret, depth, trail, edge, res>>
  BY DEF EnsureCowShared, Ensured
<1>5. /\ TopDown(h)' = TopDown(h) /\ Step(h)' = Step(h) /\ Target(h)' = Target(h)
      /\ Frames(h)' = Frames(h) /\ TrailNodes(h)' = TrailNodes(h)
  BY <1>4 DEF TopDown, Step, Target, Frames, TrailNodes
<1>6. \A b \in Byte : heap[n].kids[b] # None =>
        heap[n].kids[b] \in Alive /\ heap[heap[n].kids[b]].version < Target(h)
        /\ heap[heap[n].kids[b]].version \in Nat /\ Target(h) \in Nat
  BY WasEnsuring DEF EnsureCowShared
<1> HIDE DEF x, n, c
<1>7. n = cur[h]
  BY DEF n
<1>8. TypeOK'
  <2>1. heap' \in [Node -> VersionedNode \cup {None}] /\ pc' \in [Handle -> Phase]
    BY <1>1, <1>2, <1>3, <1>4, WasInTree DEF TypeOK, Phase
  <2>2. cur' \in [Handle -> Node \cup {None}] /\ drops' \in [Handle -> SUBSET Node]
    BY <1>1, <1>3, <1>4, WasInTree DEF TypeOK
  <2> QED
    BY <1>1, <1>4, <2>1, <2>2, WasInTree DEF TypeOK
<1>9. LocalFrame(h)
  BY <1>1, <1>4, WasInTree DEF LocalFrame, SameLocals, TypeOK
<1>10. /\ Alive' = Alive \cup {c} /\ heap'[c] = x /\ \A m \in Alive : heap'[m] = heap[m]
       /\ cur'[h] = c /\ drops'[h] = {n} /\ pc'[h] = IF pc[h] = "visit" THEN "edit" ELSE "fix"
  BY <1>1, <1>2, <1>3, <1>4, WasInTree DEF Alive, TypeOK
<1>11. \A m \in Node : HeldByParent(m)' => HeldByParent(m)
  BY <1>1, <1>2, <1>10 DEF HeldByParent
<1>12. HeapInv'
  <2>1. \A m \in Alive : \A b \in Byte : heap'[m].kids[b] # None =>
          /\ heap'[m].kids[b] \in Alive
          /\ heap'[heap'[m].kids[b]].version <= heap'[m].version
    BY <1>1, <1>10, WasInTree DEF HeapInv
  <2>2. \A b \in Byte : heap'[c].kids[b] # None =>
          /\ heap'[c].kids[b] \in Alive
          /\ heap'[heap'[c].kids[b]].version <= heap'[c].version
    BY <1>2, <1>6, <1>10
  <2> QED
    BY <1>10, <2>1, <2>2 DEF HeapInv
<1>13. \A i \in Frames(h) : trail[h][i].node \in Alive
  BY <1>1, WasInTree
<1>14. ThreadInv(h)'
  <2>1. PhaseOf(h)'
    BY <1>1, <1>3, <1>4, <1>5, <1>10, WasInTree DEF ThreadInv, PhaseOf, InTree
  <2>2. HoldsAlive(h)'
    BY <1>1, <1>4, <1>5, <1>10, WasInTree DEF ThreadInv, HoldsAlive
  <2>3. TrailExclusive(h)'
    <3>1. TopDown(h) => \A i \in Frames(h) :
             /\ ~HeldByParent(trail[h][i].node) /\ trail[h][i].node # n
             /\ trail[h][i].node # res[h] /\ trail[h][i].node \in Node
      BY <1>1, <1>7, WasInTree DEF ThreadInv, TrailExclusive, AloneOnTrail, HeldElsewhere, Alive
    <3>2. TopDown(h) => \A i \in Frames(h) : ~HeldByParent(trail[h][i].node)'
      BY <1>4, <1>11, <3>1
    <3>3. root'[h] = None /\ trail'[h] = trail[h] /\ res'[h] = res[h]
      BY <1>1, <1>4, WasInTree
    <3> QED
      BY <1>1, <1>3, <1>5, <1>9, <1>10, <1>13, <3>1, <3>2, <3>3, TrailStays
  <2>4. CurExclusive(h)'
    <3>1. PICK k \in Node : k = c
      BY <1>3
    <3>2. ~HeldByParent(k)'
      BY <1>3, <1>11, <3>1, FreshUnheld
    <3>3. ~HeldElsewhere(h, k)'
      BY <1>1, <1>3, <1>4, <1>9, <3>1, <3>2, FreshForOwner, WasInTree
    <3>4. c # res[h] /\ c \notin TrailNodes(h) /\ c # n
      BY <1>1, <1>3, <1>13, WasInTree DEF TrailNodes, Frames
    <3> QED
      BY <1>4, <1>5, <1>10, <3>1, <3>3, <3>4 DEF CurExclusive, SoleCur
  <2>5. StampsOf(h)'
    <3>1. \A i \in Frames(h) : heap'[trail[h][i].node] = heap[trail[h][i].node]
      BY <1>10, <1>13
    <3>2. res[h] # None => heap'[res[h]] = heap[res[h]]
      BY <1>1, <1>10, WasInTree
    <3>3. \A b \in Byte : heap'[c].kids[b] # None =>
            heap'[heap'[c].kids[b]].version < Target(h)
      BY <1>2, <1>6, <1>10
    <3>4. \A i \in Frames(h) :
            IF TopDown(h) THEN heap[trail[h][i].node].version = Target(h)
                          ELSE heap[trail[h][i].node].version < Target(h)
      BY <1>1, WasInTree DEF ThreadInv, StampsOf
    <3>5. pc[h] = "lift" /\ res[h] # None =>
            /\ heap[res[h]].version <= Target(h)
            /\ ~TopDown(h) /\ ret[h] = "false" => heap[res[h]].version < Target(h)
      BY <1>1, WasInTree DEF ThreadInv, StampsOf
    <3> QED
      BY <1>1, <1>2, <1>4, <1>5, <1>10, <3>1, <3>2, <3>3, <3>4, <3>5, WasInTree DEF StampsOf
  <2> QED
    BY <2>1, <2>2, <2>3, <2>4, <2>5 DEF ThreadInv
<1>15. \A m \in Alive : Loose(h, m) => root'[h] # m /\ m \notin InHand(h)'
  <2>1. n \in InHand(h)
    BY <1>1, <1>7 DEF InHand
  <2> QED
    BY <1>1, <1>3, <1>4, <1>5, <1>7, <1>10, <2>1, WasInTree DEF Loose, InHand, HeldByRoot
<1>16. NewParents(h)
  BY <1>1, <1>11 DEF NewParents, Alive
<1> QED
  BY <1>8, <1>9, <1>10, <1>12, <1>14, <1>15, <1>16, HeapStep

\* insert, remove and get_mut take the child out and go down: the node left behind
\* stays the thread's own.
LEMMA DescendOK == ASSUME IInv, NEW h \in Handle, Descend(h) PROVE IInv'
<1> DEFINE n == cur[h]
           b == EdgeOf(heap[n], Step(h).key, depth[h])
           c == heap[n].kids[b]
           x == DeleteChild(heap[n], b)
<1> USE DEF handleVars, callVars, walkVars
<1>1. /\ pc[h] = "edit" /\ pc[h] \in InTree /\ drops[h] = {} /\ SoleCur(h) /\ TopDown(h)
      /\ res[h] = None /\ root[h] = None
      /\ n \in Alive /\ n \in Node /\ n # None /\ heap[n] \in VersionedNode
      /\ heap[n].version = Target(h)
  <2>1. pc[h] = "edit" /\ pc[h] \in InTree /\ drops[h] = {} /\ SoleCur(h) /\ TopDown(h)
    BY DEF Descend, Unwrapped, Running, InTree
  <2> QED
    BY <2>1, AtNode, WasInTree DEF ThreadInv, StampsOf
<1>2. /\ depth[h] \in Nat /\ depth[h] + Len(heap[n].prefix) <= Len(Step(h).key)
      /\ Len(heap[n].prefix) \in Nat /\ b \in Byte /\ c # None
  <2>1. PlaceOf(h) = "child" /\ pc[h] \in {"visit", "edit"}
    BY <1>1 DEF Descend
  <2>2. /\ depth[h] \in Nat /\ Len(heap[n].prefix) \in Nat /\ b \in Byte /\ c # None
        /\ depth[h] + Len(heap[n].prefix) < Len(Step(h).key)
    BY <2>1, AtNode
  <2>3. Len(Step(h).key) \in Nat
    BY <1>1, WasInTree
  <2> QED
    BY SMTT(30), <2>2, <2>3
<1>3. /\ c \in Alive /\ c \in Node /\ heap[c].version < Target(h) /\ HeldByParent(c)
      /\ ~HeldByParent(n) /\ ~HeldElsewhere(h, n) /\ n \notin TrailNodes(h) /\ c # n
  <2>1. pc[h] = "edit" /\ pc[h] \in InTree /\ HeapInv /\ StampsOf(h) /\ SoleCur(h)
    BY <1>1, WasInTree DEF ThreadInv
  <2>2. c \in Alive /\ c \in Node
    BY <1>1, <1>2, <2>1 DEF HeapInv, Alive
  <2>3. heap[c].version < Target(h)
    BY <1>2, <2>1 DEF StampsOf
  <2>4. HeldByParent(c)
    BY <1>1, <1>2 DEF HeldByParent
  <2>5. ~HeldByParent(n) /\ ~HeldElsewhere(h, n) /\ n \notin TrailNodes(h)
    BY <2>1 DEF SoleCur, HeldElsewhere
  <2> QED
    BY <2>2, <2>3, <2>4, <2>5
<1>4. /\ x \in VersionedNode /\ x.version = heap[n].version /\ x # None
      /\ \A e \in Byte : x.kids[e] # None => x.kids[e] = heap[n].kids[e]
  <2>1. heap[n] \in VersionedNode /\ b \in Byte /\ c \in Node
    BY <1>1, <1>2, <1>3
  <2> HIDE DEF n, b, c
  <2> QED
    BY SMTT(30), <1>1, <2>1, ChildEdits
<1>5. /\ heap' = [heap EXCEPT ![n] = x] /\ cur' = [cur EXCEPT ![h] = c]
      /\ trail' = [trail EXCEPT ![h] = Append(@, [node |-> n, edge |-> b, depth |-> depth[h]])]
      /\ depth' = [depth EXCEPT ![h] = @ + Len(heap[n].prefix)]
      /\ pc' = [pc EXCEPT ![h] = "visit"]
      /\ UNCHANGED <<live, root, version, call, todo, ret, edge, res, drops>>
  BY DEF Descend
<1>6. TopDown(h)' = TopDown(h) /\ Step(h)' = Step(h) /\ Target(h)' = Target(h)
  BY <1>5 DEF TopDown, Step, Target
<1>7. /\ trail'[h] \in Seq(Frame)
      /\ Frames(h)' = 1..Len(trail[h]) + 1
      /\ \A i \in Frames(h)' : \/ i \in Frames(h) /\ trail'[h][i] = trail[h][i]
                               \/ i = Len(trail[h]) + 1 /\ trail'[h][i].node = n
  <2>1. trail'[h] = Append(trail[h], [node |-> cur[h], edge |-> b, depth |-> depth[h]])
    BY <1>1, <1>5, WasInTree DEF TypeOK
  <2> QED
    BY <1>1, <1>2, <2>1, Pushed
<1> HIDE DEF x, n, c, b
<1>8. n = cur[h]
  BY DEF n
<1>9. TypeOK'
  <2>1. heap' \in [Node -> VersionedNode \cup {None}] /\ pc' \in [Handle -> Phase]
    BY <1>1, <1>4, <1>5, WasInTree DEF TypeOK, Phase
  <2>2. cur' \in [Handle -> Node \cup {None}] /\ depth' \in [Handle -> Nat]
    BY <1>1, <1>2, <1>3, <1>5, WasInTree DEF TypeOK
  <2>3. trail' \in [Handle -> Seq(Frame)]
    BY <1>1, <1>5, <1>7, WasInTree DEF TypeOK
  <2> QED
    BY <1>1, <1>5, <2>1, <2>2, <2>3, WasInTree DEF TypeOK
<1>10. LocalFrame(h)
  BY <1>1, <1>5, WasInTree DEF LocalFrame, SameLocals, TypeOK
<1>11. /\ Alive' = Alive /\ heap'[n] = x /\ \A m \in Alive \ {n} : heap'[m] = heap[m]
       /\ \A m \in Alive : heap'[m].version = heap[m].version
       /\ cur'[h] = c /\ pc'[h] = "visit" /\ depth'[h] = depth[h] + Len(heap[n].prefix)
  BY <1>1, <1>4, <1>5, WasInTree DEF Alive, TypeOK
<1>12. \A m \in Node : HeldByParent(m)' => HeldByParent(m)
  <2> SUFFICES ASSUME NEW m \in Node, NEW p \in Alive, NEW e \in Byte, heap'[p].kids[e] = m
               PROVE  heap[p].kids[e] = m
    BY <1>11 DEF HeldByParent
  <2>1. m # None
    OBVIOUS
  <2> QED
    BY <1>4, <1>11, <2>1
<1>13. HeapInv'
  <2> SUFFICES ASSUME NEW p \in Alive, NEW e \in Byte, heap'[p].kids[e] # None
               PROVE  heap'[p].kids[e] \in Alive /\ heap'[heap'[p].kids[e]].version <= heap'[p].version
    BY <1>11 DEF HeapInv
  <2>1. heap'[p].kids[e] = heap[p].kids[e]
    BY <1>4, <1>11
  <2> QED
    BY <1>1, <1>11, <2>1, WasInTree DEF HeapInv
<1>14. ThreadInv(h)'
  <2>1. PhaseOf(h)'
    BY <1>1, <1>2, <1>3, <1>5, <1>6, <1>11, WasInTree DEF ThreadInv, PhaseOf, InTree
  <2>2. HoldsAlive(h)'
    BY <1>1, <1>3, <1>5, <1>7, <1>11, WasInTree DEF ThreadInv, HoldsAlive
  <2>3. TrailExclusive(h)'
    <3>1. ASSUME NEW i \in Frames(h)
          PROVE  /\ AloneOnTrail(h, i) /\ trail[h][i].node \in Node /\ trail[h][i].node # n
                 /\ ~HeldByParent(trail[h][i].node) /\ trail[h][i].node # None
                 /\ trail[h][i].node # c
      BY <1>1, <1>3, <1>8, <3>1, WasInTree
         DEF ThreadInv, TrailExclusive, AloneOnTrail, HeldElsewhere, Alive
    <3>2. ASSUME NEW i \in Frames(h)'
          PROVE  AloneOnTrail(h, i)'
      <4>1. PICK m \in Node : m = trail'[h][i].node
        BY <1>1, <1>7, <3>1
      <4>2. m # c /\ m # None /\ ~HeldElsewhere(h, m) /\ ~HeldByParent(m)
        BY <1>1, <1>3, <1>7, <3>1, <4>1 DEF AloneOnTrail
      <4>3. \A j \in Frames(h)' : j # i => trail'[h][j].node # m
        <5>1. Len(trail[h]) + 1 \notin Frames(h)
          BY <1>1, WasInTree DEF Frames
        <5> QED
          BY <1>7, <3>1, <4>1, <5>1 DEF AloneOnTrail
      <4>4. ~HeldElsewhere(h, m)'
        <5>1. root'[h] # m /\ ~HeldByParent(m)'
          BY <1>1, <1>5, <1>12, <4>2
        <5> QED
          BY <1>10, <4>2, <5>1, OwnView
      <4> QED
        BY <1>1, <1>5, <1>11, <4>1, <4>2, <4>3, <4>4 DEF AloneOnTrail
    <3> QED
      BY <3>2 DEF TrailExclusive
  <2>4. StampsOf(h)'
    <3>1. \A i \in Frames(h) : heap[trail[h][i].node].version = Target(h)
      BY <1>1, WasInTree DEF ThreadInv, StampsOf
    <3>2. \A i \in Frames(h)' : heap'[trail'[h][i].node].version = Target(h)
      BY SMTT(30), <1>1, <1>7, <1>11, <3>1, WasInTree
    <3> QED
      BY <1>1, <1>3, <1>5, <1>6, <1>11, <3>2 DEF StampsOf
  <2> QED
    BY <1>11, <2>1, <2>2, <2>3, <2>4 DEF ThreadInv, CurExclusive
<1>15. \A m \in Alive : Loose(h, m) => root'[h] # m /\ m \notin InHand(h)'
  <2> SUFFICES ASSUME NEW m \in Alive, Loose(h, m)
               PROVE  root'[h] # m /\ m \notin InHand(h)'
    OBVIOUS
  <2>1. m # c /\ m # n /\ m # root[h] /\ \A i \in Frames(h) : trail[h][i].node # m
    BY <1>1, <1>3, <1>8, WasInTree, InHandDef DEF Loose, HeldByRoot, Alive
  <2>2. m \notin InHand(h)'
    BY <1>1, <1>5, <1>7, <1>11, <2>1 DEF InHand, TrailNodes, Frames
  <2> QED
    BY <1>5, <2>1, <2>2
<1>16. NewParents(h)
  BY <1>12 DEF NewParents, Alive
<1> QED
  BY <1>3, <1>9, <1>10, <1>11, <1>13, <1>14, <1>15, <1>16, HeapStep

\* The descent is over, and the tree below has changed.
LEMMA TurnBack ==
  ASSUME IInv, NEW h \in Handle, pc[h] \in InTree, LocalFrame(h),
         cur'[h] = None, pc'[h] = "up", root'[h] = None, trail'[h] = trail[h],
         todo'[h] = todo[h], version'[h] = version[h],
         ~TopDown(h) => ret'[h] = "true",
         res'[h] # None => res'[h] \in Alive' /\ heap'[res'[h]].version = Target(h),
         drops'[h] \subseteq Alive',
         \A i \in Frames(h) : /\ trail[h][i].node \in Alive'
                             /\ heap'[trail[h][i].node] = heap[trail[h][i].node],
         TopDown(h) => \A i \in Frames(h) :
           trail[h][i].node # res'[h] /\ trail[h][i].node \notin drops'[h],
         \A m \in Alive : HeldByParent(m)' => HeldByParent(m)
  PROVE  ThreadInv(h)'
<1>1. /\ TopDown(h)' = TopDown(h) /\ Step(h)' = Step(h) /\ Target(h)' = Target(h)
      /\ Frames(h)' = Frames(h) /\ Target(h) \in Nat
  BY WasInTree DEF TopDown, Step, Target, Frames
<1>2. PhaseOf(h)'
  BY <1>1, WasInTree DEF PhaseOf, InTree
<1>3. HoldsAlive(h)'
  BY <1>1 DEF HoldsAlive
<1>4. TrailExclusive(h)'
  <2>1. TopDown(h) => \A i \in Frames(h) :
          /\ trail[h][i].node \in Alive /\ trail[h][i].node # None
          /\ ~HeldByParent(trail[h][i].node)
    BY WasInTree DEF ThreadInv, TrailExclusive, AloneOnTrail, HeldElsewhere
  <2>2. ASSUME TopDown(h), NEW i \in Frames(h)
        PROVE  ~HeldByParent(trail[h][i].node)'
    <3>1. PICK m \in Alive : m = trail[h][i].node /\ ~HeldByParent(m)
      BY <2>1, <2>2
    <3>2. m = trail'[h][i].node /\ ~HeldByParent(m)'
      BY <3>1
    <3> QED
      BY <3>1, <3>2
  <2> QED
    BY <1>1, <2>1, <2>2, TrailStays
<1>5. StampsOf(h)'
  <2>1. \A i \in Frames(h) :
          IF TopDown(h) THEN heap[trail[h][i].node].version = Target(h)
                        ELSE heap[trail[h][i].node].version < Target(h)
    BY WasInTree DEF ThreadInv, StampsOf
  <2> QED
    BY <1>1, <2>1 DEF StampsOf
<1> QED
  BY <1>2, <1>3, <1>4, <1>5 DEF ThreadInv, CurExclusive

\* A new leaf below the node in hand.
LEMMA AddLeafOK == ASSUME IInv, NEW h \in Handle, AddLeaf(h) PROVE IInv'
<1> DEFINE n == cur[h]
           s == Step(h)
           d == depth[h] + Len(heap[n].prefix)
           b == EdgeOf(heap[n], s.key, depth[h])
           c == New1(h)
           leaf == NewLeaf(Rest(s.key, d), s.val, Target(h))
           x == AddChild(heap[n], b, c)
           a == IF TopDown(h) THEN Report(h, None) ELSE "true"
<1> USE DEF handleVars, walkVars
<1>1. /\ pc[h] = "edit" /\ pc[h] \in InTree /\ drops[h] = {} /\ SoleCur(h)
      /\ res[h] = None /\ root[h] = None
      /\ n \in Alive /\ n \in Node /\ n # None /\ heap[n] \in VersionedNode
      /\ heap[n].version = Target(h) /\ Target(h) \in Nat
  <2>1. pc[h] = "edit" /\ pc[h] \in InTree /\ drops[h] = {} /\ SoleCur(h)
    BY DEF AddLeaf, Unwrapped, Running, InTree
  <2> QED
    BY <2>1, AtNode, WasInTree DEF ThreadInv, StampsOf
<1>2. b \in Byte /\ Rest(s.key, d) \in Seq(Byte) /\ s.val \in Val
  <2>1. PlaceOf(h) \in {"below", "missing", "child"}
    BY DEF AddLeaf
  <2>2. depth[h] \in Nat /\ Len(heap[n].prefix) \in Nat /\ b \in Byte
    BY <1>1, <2>1, AtNode
  <2>3. s.key \in Seq(Byte) /\ Len(s.key) \in Nat /\ s.val \in Val
    BY <1>1, WasInTree
  <2>4. d + 1 \in Nat \ {0}
    BY <2>2
  <2> HIDE DEF d
  <2> QED
    BY <2>2, <2>3, <2>4 DEF Rest
<1>3. c \in Node /\ c \notin Alive /\ c # None /\ c # n
  BY <1>1, WasInTree, FreshNames DEF AddLeaf
<1>4. /\ leaf \in VersionedNode /\ leaf # None /\ leaf.version = Target(h)
      /\ \A e \in Byte : leaf.kids[e] = None
  BY <1>1, <1>2, NewNodeTyped DEF NoKids
<1>5. /\ x \in VersionedNode /\ x # None /\ x.version = Target(h)
      /\ \A e \in Byte : x.kids[e] = c \/ x.kids[e] = heap[n].kids[e]
  <2>1. heap[n] \in VersionedNode /\ b \in Byte /\ c \in Node
    BY <1>1, <1>2, <1>3
  <2> HIDE DEF n, b, c
  <2> QED
    BY SMTT(30), <1>1, <2>1, ChildEdits
<1>6. /\ heap' = [heap EXCEPT ![c] = leaf, ![n] = x]
      /\ ret' = [ret EXCEPT ![h] = a] /\ res' = [res EXCEPT ![h] = n]
      /\ cur' = [cur EXCEPT ![h] = None] /\ pc' = [pc EXCEPT ![h] = "up"]
      /\ UNCHANGED <<live, root, version, call, todo, depth, trail, edge, drops>>
  <2>1. heap' = [heap EXCEPT ![c] = leaf, ![n] = AddChild(@, b, c)]
    BY DEF AddLeaf
  <2>2. heap' = [heap EXCEPT ![c] = leaf, ![n] = x]
    BY <1>3, <2>1
  <2> QED
    BY <2>2 DEF AddLeaf, ReturnNode
<1>7. a \in Answers /\ (~TopDown(h) => a = "true")
  BY <1>1, WasInTree DEF Report, TypeOK, Answers
<1> HIDE DEF n, d, b, c, leaf, x, a
<1>8. n = cur[h]
  BY DEF n
<1>9. TypeOK'
  <2>1. heap' \in [Node -> VersionedNode \cup {None}]
    BY <1>1, <1>3, <1>4, <1>5, <1>6, WasInTree DEF TypeOK
  <2> QED
    BY <1>1, <1>6, <1>7, <2>1, WasInTree DEF TypeOK, Phase
<1>10. LocalFrame(h)
  BY <1>1, <1>6, WasInTree DEF LocalFrame, SameLocals, TypeOK
<1>11. /\ Alive' = Alive \cup {c} /\ heap'[c] = leaf /\ heap'[n] = x
       /\ \A m \in Alive \ {n} : heap'[m] = heap[m]
       /\ cur'[h] = None /\ res'[h] = n /\ pc'[h] = "up" /\ ret'[h] = a
  <2>1. TypeOK
    BY <1>1, WasInTree
  <2>2. \A m \in Node : heap'[m] = IF m = n THEN x ELSE IF m = c THEN leaf ELSE heap[m]
    BY <1>1, <1>3, <1>6, <2>1 DEF TypeOK
  <2>3. /\ Alive' = Alive \cup {c} /\ heap'[c] = leaf /\ heap'[n] = x
        /\ \A m \in Alive \ {n} : heap'[m] = heap[m]
    BY <1>1, <1>3, <1>4, <1>5, <2>2 DEF Alive
  <2> QED
    BY <1>6, <2>1, <2>3 DEF TypeOK
<1>12. ~HeldElsewhere(h, n) /\ ~HeldByParent(n) /\ n \notin TrailNodes(h)
  BY <1>1, <1>8 DEF SoleCur, HeldElsewhere
<1>13. \A m \in Alive : HeldByParent(m)' => HeldByParent(m)
  <2> SUFFICES ASSUME NEW m \in Alive, NEW p \in Alive \cup {c}, NEW e \in Byte, heap'[p].kids[e] = m
               PROVE  p \in Alive /\ heap[p].kids[e] = m
    BY <1>11 DEF HeldByParent
  <2>1. m # None /\ m # c
    BY <1>1, <1>3, WasInTree
  <2> QED
    BY <1>4, <1>5, <1>11, <2>1
<1>14. HeapInv'
  <2> SUFFICES ASSUME NEW p \in Alive \cup {c}, NEW e \in Byte, heap'[p].kids[e] # None
               PROVE  /\ heap'[p].kids[e] \in Alive \cup {c}
                      /\ heap'[heap'[p].kids[e]].version <= heap'[p].version
    BY <1>11 DEF HeapInv
  <2>1. p \in Alive
    BY <1>4, <1>11
  <2>2. CASE p = n /\ heap'[p].kids[e] = c
    BY <1>1, <1>4, <1>5, <1>11, <2>2
  <2>3. CASE heap'[p].kids[e] = heap[p].kids[e]
    <3>1. /\ heap[p].kids[e] \in Alive /\ heap[p].kids[e] # n
          /\ heap[heap[p].kids[e]].version <= heap[p].version
      BY <1>1, <1>12, <2>1, <2>3, WasInTree DEF HeapInv, HeldByParent
    <3>2. heap'[p].version = heap[p].version
      BY <1>1, <1>5, <1>11, <2>1
    <3> QED
      BY <1>11, <2>3, <3>1, <3>2
  <2> QED
    BY <1>5, <1>11, <2>1, <2>2, <2>3
<1>15. ThreadInv(h)'
  <2>1. \A i \in Frames(h) : trail[h][i].node \in Alive /\ trail[h][i].node # n
    BY <1>1, <1>12, WasInTree DEF TrailNodes, Frames
  <2>2. drops'[h] = {} /\ root'[h] = None /\ trail'[h] = trail[h] /\ todo'[h] = todo[h]
        /\ version'[h] = version[h]
    BY <1>1, <1>6
  <2> QED
    BY <1>1, <1>5, <1>7, <1>10, <1>11, <1>13, <2>1, <2>2, TurnBack
<1>16. \A m \in Alive : Loose(h, m) => root'[h] # m /\ m \notin InHand(h)'
  <2>1. InHand(h)' = InHand(h)
    BY <1>1, <1>6, <1>8, <1>11 DEF InHand, TrailNodes
  <2> QED
    BY <1>6, <2>1 DEF Loose, HeldByRoot
<1> QED
  BY <1>9, <1>10, <1>11, <1>12, <1>13, <1>14, <1>15, <1>16, HeapStep DEF NewParents

\* A new inner node above a copy of the node in hand.
LEMMA SplitOK == ASSUME IInv, NEW h \in Handle, Split(h) PROVE IInv'
<1> DEFINE n == cur[h]
           nd == heap[n]
           s == Step(h)
           t == Target(h)
           common == PrefixLengthKey(nd.prefix, s.key, depth[h])
           ends == PlaceOf(h) = "inside"
           copy == [CowClone(nd, t) EXCEPT !.prefix = SubSeq(@, common + 1, Len(@))]
           leaf == NewLeaf(Rest(s.key, depth[h] + common), s.val, t)
           kids == [NoKids EXCEPT ![nd.prefix[common + 1]] = New2(h)]
           both == [kids EXCEPT ![s.key[depth[h] + common + 1]] = New3(h)]
           head == SubSeq(nd.prefix, 1, common)
           top == IF ends THEN NewInner(head, s.val, kids, t) ELSE NewInner(head, None, both, t)
           c1 == New1(h)
           c2 == New2(h)
           c3 == New3(h)
           new == IF ends THEN {c1, c2} ELSE {c1, c2, c3}
           a == IF TopDown(h) THEN Report(h, None) ELSE "true"
<1> USE DEF handleVars, walkVars
<1>1. /\ pc[h] = "visit" /\ pc[h] \in InTree /\ drops[h] = {}
      /\ PlaceOf(h) \in {"inside", "diverges"}
  BY DEF Split, Running, InTree
<1>2. /\ res[h] = None /\ root[h] = None /\ nd \in VersionedNode
      /\ n \in Alive /\ n \in Node /\ n # None
      /\ nd.version < t /\ t \in Nat /\ nd.version \in Nat
  BY <1>1, AtNode, WasInTree DEF ThreadInv, StampsOf
<1>3. /\ nd.prefix \in Seq(Byte) /\ Len(nd.prefix) \in Nat
      /\ common \in Nat /\ common < Len(nd.prefix)
      /\ depth[h] \in Nat /\ depth[h] + common <= Len(s.key)
      /\ ~ends => depth[h] + common < Len(s.key)
  BY <1>1, AtNode
<1>4. s.key \in Seq(Byte) /\ Len(s.key) \in Nat /\ s.val \in Val
  BY <1>1, WasInTree
<1>5. /\ c1 \in Node \ Alive /\ c2 \in Node \ Alive /\ c3 \in Node \ Alive
      /\ c1 # c2 /\ c1 # c3 /\ c2 # c3 /\ c1 # None /\ c2 # None /\ c3 # None
      /\ c1 # n /\ c2 # n /\ c3 # n
  <2>1. Free(h) \ {New1(h), New2(h)} # {}
    BY DEF Split
  <2> QED
    BY <1>1, <1>2, <2>1, WasInTree, FreshNames
<1>6. /\ heap' = IF ends THEN [heap EXCEPT ![c1] = top, ![c2] = copy]
                         ELSE [heap EXCEPT ![c1] = top, ![c2] = copy, ![c3] = leaf]
      /\ ret' = [ret EXCEPT ![h] = a] /\ res' = [res EXCEPT ![h] = c1]
      /\ cur' = [cur EXCEPT ![h] = None] /\ pc' = [pc EXCEPT ![h] = "up"]
      /\ drops' = [drops EXCEPT ![h] = {n}]
      /\ UNCHANGED <<live, root, version, call, todo, depth, trail, edge>>
  BY DEF Split, ReturnNode
<1>7. a \in Answers /\ (~TopDown(h) => a = "true")
  BY <1>1, WasInTree DEF Report, TypeOK, Answers
<1>8. /\ head \in Seq(Byte) /\ nd.prefix[common + 1] \in Byte
      /\ SubSeq(nd.prefix, common + 1, Len(nd.prefix)) \in Seq(Byte)
      /\ ~ends => s.key[depth[h] + common + 1] \in Byte
      /\ Rest(s.key, depth[h] + common) \in Seq(Byte)
  <2> HIDE DEF nd, common, s, ends
  <2>1. common + 1 \in 1..Len(nd.prefix) /\ depth[h] + common + 1 \in Nat \ {0}
    BY <1>3
  <2>2. head \in Seq(Byte) /\ nd.prefix[common + 1] \in Byte
        /\ SubSeq(nd.prefix, common + 1, Len(nd.prefix)) \in Seq(Byte)
    BY <1>3, <2>1
  <2>3. ~ends => s.key[depth[h] + common + 1] \in Byte
    BY <1>3, <1>4
  <2>4. Rest(s.key, depth[h] + common) \in Seq(Byte)
    BY <1>4, <2>1 DEF Rest
  <2> QED
    BY <2>2, <2>3, <2>4
<1>9. /\ leaf \in VersionedNode /\ leaf # None /\ leaf.version = t
      /\ \A e \in Byte : leaf.kids[e] = None
  BY <1>2, <1>4, <1>8, NewNodeTyped DEF NoKids
<1>10. /\ copy \in VersionedNode /\ copy # None /\ copy.version = t /\ copy.kids = nd.kids
  <2> DEFINE tail == SubSeq(nd.prefix, common + 1, Len(nd.prefix))
  <2>1. copy = [CowClone(nd, t) EXCEPT !.prefix = tail]
    BY DEF CowClone, VersionedNode
  <2>2. tail \in Seq(Byte)
    BY <1>8
  <2> HIDE DEF tail, copy, nd
  <2>3. [CowClone(nd, t) EXCEPT !.prefix = tail] \in VersionedNode
    BY <1>2, <2>2 DEF CowClone, VersionedNode
  <2> QED
    BY <1>2, <2>1, <2>3 DEF CowClone, VersionedNode
<1>11. /\ kids \in [Byte -> Node \cup {None}] /\ (~ends => both \in [Byte -> Node \cup {None}])
       /\ \A e \in Byte : kids[e] \in {None, c2}
       /\ ~ends => \A e \in Byte : both[e] \in {None, c2, c3}
  <2>1. /\ NoKids \in [Byte -> Node \cup {None}] /\ \A e \in Byte : NoKids[e] = None
    BY DEF NoKids
  <2>2. /\ kids \in [Byte -> Node \cup {None}] /\ \A e \in Byte : kids[e] \in {None, c2}
    BY <1>5, <1>8, <2>1
  <2> HIDE DEF kids, ends
  <2>3. ~ends => /\ both \in [Byte -> Node \cup {None}]
                 /\ \A e \in Byte : both[e] \in {None, c2, c3}
    BY <1>5, <1>8, <2>2
  <2> QED
    BY <2>2, <2>3
<1>12. /\ top \in VersionedNode /\ top # None /\ top.version = t
       /\ \A e \in Byte : top.kids[e] \in {None} \cup (new \ {c1})
  <2> HIDE DEF kids, both, head, ends
  <2>1. CASE ends
    <3>1. /\ top \in VersionedNode /\ top # None /\ top.version = t /\ top.kids = kids
      BY <1>2, <1>4, <1>8, <1>11, <2>1, NewNodeTyped
    <3> HIDE DEF top
    <3> QED
      BY <1>5, <1>11, <2>1, <3>1
  <2>2. CASE ~ends
    <3>1. /\ top \in VersionedNode /\ top # None /\ top.version = t /\ top.kids = both
      BY <1>2, <1>8, <1>11, <2>2, NewNodeTyped
    <3> HIDE DEF top
    <3> QED
      BY <1>5, <1>11, <2>2, <3>1
  <2> QED
    BY <2>1, <2>2
<1>13. \A b \in Byte : nd.kids[b] # None =>
         /\ nd.kids[b] \in Alive /\ heap[nd.kids[b]].version < t
  <2> SUFFICES ASSUME NEW b \in Byte, nd.kids[b] # None
               PROVE  nd.kids[b] \in Alive /\ heap[nd.kids[b]].version < t
    OBVIOUS
  <2>1. nd.kids[b] \in Alive /\ heap[nd.kids[b]].version <= nd.version
    BY <1>1, <1>2, WasInTree DEF HeapInv
  <2>2. heap[nd.kids[b]].version \in Nat
    BY <1>1, <2>1, WasInTree, AliveTyped DEF VersionedNode
  <2> QED
    BY <1>2, <2>1, <2>2
<1> HIDE DEF n, nd, s, t, common, ends, copy, leaf, kids, both, head, top, c1, c2, c3, a
<1>14. n = cur[h] /\ nd = heap[n] /\ t = Target(h)
  BY DEF n, nd, t
<1>15. /\ heap' \in [Node -> VersionedNode \cup {None}]
       /\ \A m \in Node : heap'[m] = IF m = c1 THEN top ELSE IF m = c2 THEN copy
                                      ELSE IF ~ends /\ m = c3 THEN leaf ELSE heap[m]
  <2>1. heap \in [Node -> VersionedNode \cup {None}]
    BY <1>1, WasInTree DEF TypeOK
  <2>2. CASE ends
    BY <1>5, <1>6, <1>10, <1>12, <2>1, <2>2
  <2>3. CASE ~ends
    BY <1>5, <1>6, <1>9, <1>10, <1>12, <2>1, <2>3
  <2> QED
    BY <2>2, <2>3
<1>16. TypeOK'
  <2>1. heap' \in [Node -> VersionedNode \cup {None}]
    BY <1>15
  <2>2. res' \in [Handle -> Node \cup {None}] /\ drops' \in [Handle -> SUBSET Node]
    BY <1>1, <1>2, <1>5, <1>6, WasInTree DEF TypeOK
  <2>3. ret' \in [Handle -> Answers] /\ cur' \in [Handle -> Node \cup {None}] /\ pc' \in [Handle -> Phase]
    BY <1>1, <1>6, <1>7, WasInTree DEF TypeOK, Phase
  <2>4. UNCHANGED <<live, root, version, call, todo, depth, trail, edge>>
    BY <1>6
  <2> QED
    BY <1>1, <2>1, <2>2, <2>3, <2>4, WasInTree DEF TypeOK
<1>17. LocalFrame(h)
  BY <1>1, <1>6, WasInTree DEF LocalFrame, SameLocals, TypeOK
<1>18. /\ Alive' = Alive \cup new /\ \A m \in Alive : heap'[m] = heap[m]
       /\ heap'[c1] = top /\ heap'[c2] = copy /\ (~ends => heap'[c3] = leaf)
       /\ \A m \in new : heap'[m].version = t
  <2>1. /\ heap'[c1] = top /\ heap'[c2] = copy /\ (~ends => heap'[c3] = leaf)
        /\ \A m \in Alive : heap'[m] = heap[m]
    BY <1>5, <1>15 DEF Alive
  <2>2. Alive' = Alive \cup new
    BY <1>5, <1>9, <1>10, <1>12, <1>15 DEF Alive
  <2>3. \A m \in new : heap'[m].version = t
    BY <1>9, <1>10, <1>12, <2>1
  <2> QED
    BY <2>1, <2>2, <2>3
<1>19. \A p \in new : \A e \in Byte :
         \/ heap'[p].kids[e] = None \/ heap'[p].kids[e] \in new
         \/ heap'[p].kids[e] = nd.kids[e]
  BY <1>9, <1>10, <1>12, <1>18
<1>20. new \cap Alive = {}
  BY <1>5
<1> HIDE DEF new
<1>21. \A m \in Alive : HeldByParent(m)' => HeldByParent(m)
  <2> SUFFICES ASSUME NEW m \in Alive, NEW p \in Alive \cup new, NEW e \in Byte, heap'[p].kids[e] = m
               PROVE  \E q \in Alive : heap[q].kids[e] = m
    BY <1>18 DEF HeldByParent
  <2>1. m # None /\ m \notin new
    BY <1>1, <1>20, WasInTree
  <2>2. CASE p \in Alive
    BY <1>18, <2>2
  <2>3. CASE p \in new
    BY <1>2, <1>14, <1>19, <2>1, <2>3
  <2> QED
    BY <2>2, <2>3
<1>22. HeapInv'
  <2> SUFFICES ASSUME NEW p \in Alive \cup new, NEW e \in Byte, heap'[p].kids[e] # None
               PROVE  /\ heap'[p].kids[e] \in Alive \cup new
                      /\ heap'[heap'[p].kids[e]].version <= heap'[p].version
    BY <1>18 DEF HeapInv
  <2>1. CASE p \in Alive
    BY <1>1, <1>18, <2>1, WasInTree DEF HeapInv
  <2>2. CASE p \in new /\ heap'[p].kids[e] \in new
    BY <1>2, <1>18, <2>2
  <2>3. CASE p \in new /\ heap'[p].kids[e] = nd.kids[e]
    <3>1. nd.kids[e] \in Alive /\ heap[nd.kids[e]].version < t
      BY <1>13, <2>3
    <3>2. heap[nd.kids[e]].version \in Nat
      BY <1>1, <3>1, WasInTree, AliveTyped DEF VersionedNode
    <3> QED
      BY <1>2, <1>18, <2>3, <3>1, <3>2
  <2> QED
    BY <1>19, <2>1, <2>2, <2>3
<1>23. c1 \in new
  BY DEF new
<1>24. ThreadInv(h)'
  <2>1. \A i \in Frames(h) : trail[h][i].node \in Alive
    BY <1>1, WasInTree
  <2>2. TopDown(h) => \A i \in Frames(h) : trail[h][i].node # n
    BY <1>1, <1>14, WasInTree DEF ThreadInv, TrailExclusive, AloneOnTrail
  <2>3. /\ drops'[h] = {n} /\ root'[h] = None /\ trail'[h] = trail[h] /\ todo'[h] = todo[h]
        /\ version'[h] = version[h] /\ cur'[h] = None /\ pc'[h] = "up" /\ res'[h] = c1
        /\ ret'[h] = a
    BY <1>1, <1>2, <1>6, WasInTree DEF TypeOK
  <2> QED
    BY <1>1, <1>2, <1>5, <1>7, <1>14, <1>17, <1>18, <1>21, <1>23, <2>1, <2>2, <2>3, TurnBack
<1>25. \A m \in Alive : Loose(h, m) => root'[h] # m /\ m \notin InHand(h)'
  <2>1. TrailNodes(h)' = TrailNodes(h) /\ n \in InHand(h)
    BY <1>2, <1>6, <1>14 DEF TrailNodes, InHand
  <2>2. cur'[h] = None /\ res'[h] = c1 /\ drops'[h] = {n} /\ root' = root
    BY <1>1, <1>6, WasInTree DEF TypeOK
  <2> QED
    BY <1>5, <2>1, <2>2 DEF Loose, HeldByRoot, InHand
<1> QED
  BY <1>16, <1>17, <1>18, <1>21, <1>22, <1>24, <1>25, HeapStep DEF NewParents

-----------------------------------------------------------------------------
(* The return. *)

\* What a caller does with its own node when the recursion comes back: nobody
\* else holds the node p, and nd is p with at most the returned Arc added.
LEMMA Settled ==
  ASSUME IInv, NEW h \in Handle, pc[h] \in InTree, NEW p \in Alive, NEW nd \in VersionedNode,
         Settle(h, p, nd), nd.version = heap[p].version, nd # None,
         ~HeldElsewhere(h, p), res[h] # p,
         \A b \in Byte : nd.kids[b] # None =>
           nd.kids[b] = heap[p].kids[b] \/ nd.kids[b] = res[h],
         res[h] # None => heap[res[h]].version <= heap[p].version
  PROVE  /\ heap' \in [Node -> VersionedNode \cup {None}]
         /\ res' \in [Handle -> Node \cup {None}]
         /\ \A g \in Handle \ {h} : res'[g] = res[g]
         /\ HeapInv' /\ NewParents(h)
         /\ \A m \in Alive \ {p} : m \in Alive' /\ heap'[m] = heap[m]
         /\ res'[h] \in {p, None}
         /\ res'[h] = p => p \in Alive' /\ heap'[p].version = heap[p].version
<1> DEFINE empties == nd.kids = NoKids /\ nd.value = None
<1>1. /\ heap' = [heap EXCEPT ![p] = IF empties THEN None ELSE nd]
      /\ res' = [res EXCEPT ![h] = IF empties THEN None ELSE p]
  BY DEF Settle
<1>2. /\ TypeOK /\ HeapInv /\ p \in Node /\ p # None /\ ~HeldByParent(p)
      /\ heap \in [Node -> VersionedNode \cup {None}] /\ res \in [Handle -> Node \cup {None}]
      /\ res[h] # None => res[h] \in Alive
  BY WasInTree DEF HeldElsewhere, Alive, TypeOK
<1> HIDE DEF empties
<1>3. /\ heap' \in [Node -> VersionedNode \cup {None}] /\ res' \in [Handle -> Node \cup {None}]
      /\ \A g \in Handle \ {h} : res'[g] = res[g]
      /\ \A m \in Alive \ {p} : m \in Alive' /\ heap'[m] = heap[m]
      /\ Alive' \subseteq Alive
      /\ res'[h] \in {p, None}
      /\ p \in Alive' => heap'[p] = nd
      /\ res'[h] = p => p \in Alive'
  BY <1>1, <1>2 DEF Alive
<1>4. NewParents(h)
  <2> SUFFICES ASSUME NEW x \in Alive, NEW m \in Alive', NEW b \in Byte, heap'[m].kids[b] = x
               PROVE  x = res[h] \/ \E q \in Alive : heap[q].kids[b] = x
    BY DEF NewParents, HeldByParent
  <2>1. x # None
    BY WasInTree
  <2>2. CASE m = p
    BY <1>3, <2>1, <2>2
  <2>3. CASE m # p
    BY <1>3, <2>3
  <2> QED
    BY <2>2, <2>3
<1>5. HeapInv'
  <2> SUFFICES ASSUME NEW m \in Alive', NEW b \in Byte, heap'[m].kids[b] # None
               PROVE  heap'[m].kids[b] \in Alive' /\ heap'[heap'[m].kids[b]].version <= heap'[m].version
    BY DEF HeapInv
  <2> DEFINE k == heap'[m].kids[b]
  <2>1. m \in Alive /\ heap'[m].version = heap[m].version
    BY <1>3
  <2>2. k = heap[m].kids[b] \/ (m = p /\ k = res[h])
    BY <1>3
  <2>3. k \in Alive /\ k # p /\ heap[k].version <= heap[m].version
    BY <1>2, <2>1, <2>2 DEF HeapInv, HeldByParent
  <2> HIDE DEF k
  <2>4. k \in Alive' /\ heap'[k].version <= heap'[m].version
    BY <1>3, <2>1, <2>3
  <2> QED
    BY <2>4 DEF k
<1> QED
  BY <1>3, <1>4, <1>5

\* insert, remove and get_mut put the child back.
LEMMA ReattachOK == ASSUME IInv, NEW h \in Handle, Reattach(h) PROVE IInv'
<1> DEFINE f == Last(trail[h])
           p == f.node
           nd == IF res[h] = None THEN heap[p] ELSE AddChild(heap[p], f.edge, res[h])
<1> USE DEF handleVars, callVars
<1>1. /\ pc[h] = "up" /\ pc[h] \in InTree /\ drops[h] = {} /\ trail[h] # <<>> /\ TopDown(h)
      /\ Settle(h, p, nd) /\ trail' = [trail EXCEPT ![h] = Front(@)]
      /\ depth' = [depth EXCEPT ![h] = f.depth]
      /\ UNCHANGED <<live, root, version, call, todo, ret, pc, cur, edge, drops>>
  BY DEF Reattach, Resume, Running, InTree
<1>2. /\ root[h] = None /\ cur[h] = None
      /\ res[h] # None => res[h] \in Alive /\ res[h] \in Node
                          /\ heap[res[h]].version <= Target(h)
  BY <1>1, WasInTree DEF ThreadInv, PhaseOf, StampsOf, Alive
<1>3. TopDown(h)' = TopDown(h) /\ Step(h)' = Step(h) /\ Target(h)' = Target(h)
  BY <1>1 DEF TopDown, Step, Target
<1>4. /\ trail'[h] = Front(trail[h]) /\ trail'[h] \in Seq(Frame) /\ Frames(h)' \subseteq Frames(h)
      /\ Len(trail[h]) \in Frames(h) \ Frames(h)' /\ p = trail[h][Len(trail[h])].node
      /\ \A i \in Frames(h)' : trail'[h][i] = trail[h][i]
      /\ p \in Node /\ f.edge \in Byte /\ f.depth \in Nat
  <2>1. trail'[h] = Front(trail[h])
    BY <1>1, WasInTree DEF TypeOK
  <2> QED
    BY <1>1, <2>1, Popped
<1>5. /\ p \in Alive /\ p # None /\ heap[p].version = Target(h) /\ heap[p] \in VersionedNode
      /\ AloneOnTrail(h, Len(trail[h])) /\ heap[p] # None
  <2>1. /\ HoldsAlive(h) /\ StampsOf(h) /\ TrailExclusive(h)
        /\ Len(trail[h]) \in Frames(h) /\ p = trail[h][Len(trail[h])].node
        /\ pc[h] \in InTree /\ TopDown(h)
    BY <1>1, <1>4, WasInTree DEF ThreadInv
  <2> HIDE DEF p
  <2>2. p \in Alive
    BY <2>1 DEF HoldsAlive
  <2>3. heap[p].version = Target(h)
    BY <2>1 DEF StampsOf
  <2>4. AloneOnTrail(h, Len(trail[h]))
    BY <2>1 DEF TrailExclusive
  <2> QED
    BY <1>1, <2>2, <2>3, <2>4, WasInTree, AliveTyped DEF Alive
<1>6. ~HeldElsewhere(h, p) /\ res[h] # p
      /\ \A j \in Frames(h) : j # Len(trail[h]) => trail[h][j].node # p
  BY <1>4, <1>5 DEF AloneOnTrail
<1>7. /\ nd \in VersionedNode /\ nd.version = heap[p].version /\ nd # None
      /\ \A b \in Byte : nd.kids[b] = heap[p].kids[b] \/ nd.kids[b] = res[h]
  <2>1. CASE res[h] = None
    BY <1>5, <2>1
  <2>2. CASE res[h] # None
    <3>1. heap[p] \in VersionedNode /\ f.edge \in Byte /\ res[h] \in Node
      BY <1>2, <1>4, <1>5, <2>2
    <3>2. nd = AddChild(heap[p], f.edge, res[h])
      BY <2>2
    <3> HIDE DEF nd, p, f
    <3> QED
      BY <3>1, <3>2, ChildEdits
  <2> QED
    BY <2>1, <2>2
<1> HIDE DEF f, p, nd
<1>8. /\ heap' \in [Node -> VersionedNode \cup {None}] /\ res' \in [Handle -> Node \cup {None}]
      /\ \A g \in Handle \ {h} : res'[g] = res[g]
      /\ HeapInv' /\ NewParents(h)
      /\ \A m \in Alive \ {p} : m \in Alive' /\ heap'[m] = heap[m]
      /\ res'[h] \in {p, None}
      /\ res'[h] = p => p \in Alive' /\ heap'[p].version = heap[p].version
  BY <1>1, <1>2, <1>5, <1>6, <1>7, Settled
<1>9. TypeOK'
  <2>1. trail' \in [Handle -> Seq(Frame)] /\ depth' \in [Handle -> Nat]
    BY <1>1, <1>4, WasInTree DEF TypeOK
  <2> QED
    BY <1>1, <1>8, <2>1, WasInTree DEF TypeOK
<1>10. LocalFrame(h)
  BY <1>1, <1>8, WasInTree DEF LocalFrame, SameLocals, TypeOK
<1>11. \A i \in Frames(h)' : /\ trail[h][i].node \in Alive /\ trail[h][i].node # p
                            /\ trail[h][i].node # res[h] /\ trail[h][i].node # None
                            /\ ~HeldByParent(trail[h][i].node)
                            /\ heap[trail[h][i].node].version = Target(h)
  <2>1. /\ pc[h] \in InTree /\ TopDown(h) /\ TrailExclusive(h) /\ StampsOf(h)
        /\ Frames(h)' \subseteq Frames(h) /\ Len(trail[h]) \in Frames(h) \ Frames(h)'
    BY <1>1, <1>4, WasInTree DEF ThreadInv
  <2> TAKE i \in Frames(h)'
  <2>2. i \in Frames(h) /\ i # Len(trail[h])
    BY <2>1
  <2>3. trail[h][i].node \in Alive /\ None \notin Alive
    BY <2>1, <2>2, WasInTree
  <2>4. trail[h][i].node # p
    BY <1>6, <2>2
  <2>5. AloneOnTrail(h, i)
    BY <2>1, <2>2 DEF TrailExclusive
  <2>6. trail[h][i].node # res[h] /\ ~HeldByParent(trail[h][i].node)
    BY <2>5 DEF AloneOnTrail, HeldElsewhere
  <2>7. heap[trail[h][i].node].version = Target(h)
    BY <2>1, <2>2 DEF StampsOf
  <2> QED
    BY <2>3, <2>4, <2>6, <2>7
<1>12. ThreadInv(h)'
  <2>1. PhaseOf(h)'
    BY <1>1, <1>2, <1>3, WasInTree DEF PhaseOf, InTree
  <2>2. HoldsAlive(h)'
    BY <1>1, <1>2, <1>4, <1>8, <1>11 DEF HoldsAlive
  <2>3. TrailExclusive(h)'
    <3>1. ASSUME NEW i \in Frames(h)'
          PROVE  ~HeldByParent(trail[h][i].node)'
      <4>1. PICK m \in Alive : m = trail[h][i].node /\ m # res[h] /\ ~HeldByParent(m)
        BY <1>11, <3>1
      <4>2. m = trail'[h][i].node /\ ~HeldByParent(m)'
        BY <1>4, <1>8, <4>1 DEF NewParents
      <4>3. i \in Frames(h)
        BY <1>4
      <4> QED
        BY <1>4, <4>1, <4>2
    <3>2. root'[h] = None /\ cur'[h] = None /\ drops'[h] = {} /\ res'[h] \in {p, None}
      BY <1>1, <1>2, <1>8
    <3>3. \A i \in Frames(h)' :
            /\ ~HeldByParent(trail[h][i].node)'
            /\ trail[h][i].node # cur'[h] /\ trail[h][i].node # res'[h]
            /\ trail[h][i].node \notin drops'[h]
      BY <1>11, <3>1, <3>2
    <3> QED
      BY <1>1, <1>3, <1>4, <1>10, <3>2, <3>3, TrailStays
  <2>4. StampsOf(h)'
    <3>1. \A i \in Frames(h)' : heap'[trail'[h][i].node].version = Target(h)'
      BY <1>3, <1>4, <1>8, <1>11
    <3>2. /\ TopDown(h)' /\ pc' = pc /\ ret' = ret /\ cur' = cur
          /\ res'[h] # None => res'[h] = p /\ heap'[p].version = Target(h)'
      BY <1>1, <1>3, <1>5, <1>8
    <3>3. pc[h] = "up" /\ cur[h] = None
      BY <1>1, <1>2
    <3> QED
      BY <1>1, <1>5, <3>1, <3>2, <3>3, <1>3, <1>4, <1>8, WasInTree DEF StampsOf
  <2> QED
    BY <1>1, <2>1, <2>2, <2>3, <2>4 DEF ThreadInv, CurExclusive
<1>13. \A m \in Alive : Loose(h, m) => root'[h] # m /\ m \notin InHand(h)'
  <2> SUFFICES ASSUME NEW m \in Alive, Loose(h, m)
               PROVE  root'[h] # m /\ m \notin InHand(h)'
    OBVIOUS
  <2>1. m # root[h] /\ \A i \in Frames(h) : trail[h][i].node # m
    BY <1>1, WasInTree, InHandDef DEF Loose, HeldByRoot, Alive
  <2>2. m # p
    BY <1>4, <2>1
  <2>3. m # None
    BY <1>1, WasInTree
  <2>4. m \notin TrailNodes(h)'
    <3>1. \A i \in Frames(h)' : trail'[h][i].node # m
      BY <1>4, <2>1
    <3> QED
      BY <3>1 DEF TrailNodes, Frames
  <2>5. root'[h] # m
    BY <1>1, <2>1
  <2> QED
    BY <1>1, <1>2, <1>4, <1>8, <2>1, <2>2, <2>3, <2>4, <2>5 DEF InHand
<1>14. \A m \in Alive : heap'[m] = heap[m] \/ ~HeldElsewhere(h, m)
  BY <1>6, <1>8
<1> QED
  BY <1>8, <1>9, <1>10, <1>12, <1>13, <1>14, HeapStep

\* update puts the new child in the place of the old one.
LEMMA SwapChildOK == ASSUME IInv, NEW h \in Handle, SwapChild(h) PROVE IInv'
<1> DEFINE n == cur[h]
           b == edge[h]
           without == DeleteChild(heap[n], b)
           nd == IF res[h] = None THEN without ELSE AddChild(without, b, res[h])
<1> USE DEF handleVars, callVars
<1>1. /\ pc[h] = "fix" /\ pc[h] \in InTree /\ drops[h] = {} /\ SoleCur(h)
      /\ Settle(h, n, nd) /\ cur' = [cur EXCEPT ![h] = None] /\ edge' = [edge EXCEPT ![h] = None]
      /\ drops' = [drops EXCEPT ![h] = {heap[n].kids[b]} \ {None}]
      /\ pc' = [pc EXCEPT ![h] = "up"]
      /\ UNCHANGED <<live, root, version, call, todo, ret, depth, trail>>
  BY DEF SwapChild, Unwrapped, Running, InTree
<1>2. /\ root[h] = None /\ ~TopDown(h) /\ b \in Byte /\ ret[h] = "true"
      /\ n \in Alive /\ n \in Node /\ n # None /\ heap[n] \in VersionedNode
      /\ heap[n].version = Target(h) /\ Target(h) \in Nat
      /\ res[h] # None => res[h] \in Alive /\ res[h] \in Node
                          /\ heap[res[h]].version <= Target(h)
  BY <1>1, WasInTree DEF ThreadInv, PhaseOf, StampsOf, Alive
<1>3. /\ TopDown(h)' = TopDown(h) /\ Step(h)' = Step(h) /\ Target(h)' = Target(h)
      /\ Frames(h)' = Frames(h) /\ TrailNodes(h)' = TrailNodes(h)
  BY <1>1 DEF TopDown, Step, Target, Frames, TrailNodes
<1>4. /\ ~HeldElsewhere(h, n) /\ ~HeldByParent(n) /\ res[h] # n /\ n \notin TrailNodes(h)
  BY <1>1 DEF SoleCur, HeldElsewhere
<1>5. /\ nd \in VersionedNode /\ nd.version = heap[n].version /\ nd # None
      /\ \A e \in Byte : nd.kids[e] # None =>
           nd.kids[e] = heap[n].kids[e] \/ nd.kids[e] = res[h]
  <2>1. heap[n] \in VersionedNode /\ b \in Byte /\ n \in Node
    BY <1>2
  <2> HIDE DEF n, b
  <2>2. /\ without \in VersionedNode /\ without.version = heap[n].version /\ without # None
        /\ \A e \in Byte : without.kids[e] = IF e = b THEN None ELSE heap[n].kids[e]
    BY <2>1, ChildEdits
  <2> HIDE DEF without
  <2>3. CASE res[h] = None
    BY <2>2, <2>3
  <2>4. CASE res[h] # None
    <3>1. PICK c \in Node : c = res[h] /\ nd = AddChild(without, b, c)
      BY <1>2, <2>4
    <3>2. without \in VersionedNode /\ b \in Byte
      BY <2>1, <2>2
    <3> HIDE DEF nd
    <3>3. /\ nd \in VersionedNode /\ nd.version = without.version /\ nd # None
          /\ \A e \in Byte : nd.kids[e] = IF e = b THEN c ELSE without.kids[e]
      BY <3>2, <3>1, ChildEdits
    <3> QED
      BY <2>2, <3>1, <3>3
  <2> QED
    BY <2>3, <2>4
<1>6. heap[n].kids[b] # None =>
        /\ heap[n].kids[b] \in Alive \ {n} /\ heap[n].kids[b] \in Node
        /\ HeldByParent(heap[n].kids[b])
  BY <1>1, <1>2, <1>4, WasInTree DEF HeapInv, HeldByParent, Alive
<1> HIDE DEF n, b, without, nd
<1>7. n = cur[h] /\ b = edge[h]
  BY DEF n, b
<1>8. /\ heap' \in [Node -> VersionedNode \cup {None}] /\ res' \in [Handle -> Node \cup {None}]
      /\ \A g \in Handle \ {h} : res'[g] = res[g]
      /\ HeapInv' /\ NewParents(h)
      /\ \A m \in Alive \ {n} : m \in Alive' /\ heap'[m] = heap[m]
      /\ res'[h] \in {n, None}
      /\ res'[h] = n => n \in Alive' /\ heap'[n].version = heap[n].version
  BY <1>1, <1>2, <1>4, <1>5, Settled
<1>9. TypeOK'
  <2>1. /\ cur' \in [Handle -> Node \cup {None}] /\ edge' \in [Handle -> Byte \cup {None}]
        /\ drops' \in [Handle -> SUBSET Node] /\ pc' \in [Handle -> Phase]
    BY <1>1, <1>6, WasInTree DEF TypeOK, Phase
  <2> QED
    BY <1>1, <1>8, <2>1, WasInTree DEF TypeOK
<1>10. LocalFrame(h)
  BY <1>1, <1>8, WasInTree DEF LocalFrame, SameLocals, TypeOK
<1>11. /\ cur'[h] = None /\ pc'[h] = "up" /\ drops'[h] = {heap[n].kids[b]} \ {None}
       /\ edge'[h] = None
  BY <1>1, WasInTree DEF TypeOK
<1>12. \A i \in Frames(h) : /\ trail[h][i].node \in Alive \ {n}
                           /\ heap[trail[h][i].node].version < Target(h)
  BY <1>1, <1>2, <1>4, WasInTree DEF ThreadInv, StampsOf, TrailNodes, Frames
<1>13. ThreadInv(h)'
  <2>1. PhaseOf(h)'
    BY <1>1, <1>2, <1>3, <1>11, WasInTree DEF PhaseOf, InTree
  <2>2. HoldsAlive(h)'
    BY <1>1, <1>2, <1>3, <1>6, <1>8, <1>11, <1>12 DEF HoldsAlive
  <2>3. TrailExclusive(h)' /\ CurExclusive(h)'
    BY <1>2, <1>3, <1>11 DEF TrailExclusive, CurExclusive
  <2>4. StampsOf(h)'
    BY <1>1, <1>2, <1>3, <1>8, <1>11, <1>12, WasInTree DEF StampsOf
  <2> QED
    BY <2>1, <2>2, <2>3, <2>4 DEF ThreadInv
<1>14. \A m \in Alive : Loose(h, m) => root'[h] # m /\ m \notin InHand(h)'
  <2> SUFFICES ASSUME NEW m \in Alive, Loose(h, m)
               PROVE  root'[h] # m /\ m \notin InHand(h)'
    OBVIOUS
  <2>1. /\ m # root[h] /\ m \notin TrailNodes(h) /\ m # n /\ m # None
        /\ m # heap[n].kids[b]
    BY <1>1, <1>2, <1>6, <1>7, WasInTree DEF Loose, HeldByRoot, InHand
  <2> QED
    BY <1>1, <1>3, <1>8, <1>11, <2>1 DEF InHand
<1>15. \A m \in Alive : heap'[m] = heap[m] \/ ~HeldElsewhere(h, m)
  BY <1>4, <1>8
<1> QED
  BY <1>8, <1>9, <1>10, <1>13, <1>14, <1>15, HeapStep

-----------------------------------------------------------------------------
(* The theorems. *)

\* Every step preserves the inductive invariant.
LEMMA NextOK == ASSUME IInv, [Next]_vars PROVE IInv'
<1>1. CASE UNCHANGED vars
  <2> USE <1>1 DEF vars
  <2>1. Alive' = Alive
    BY DEF Alive
  <2>2. TypeOK' /\ HeapInv'
    BY <2>1 DEF IInv, TypeOK, HeapInv
  <2>3. ASSUME NEW h \in Handle
        PROVE  ThreadInv(h)'
    <3>1. ThreadInv(h)
      BY DEF IInv
    <3>2. /\ TopDown(h)' = TopDown(h) /\ Step(h)' = Step(h) /\ Target(h)' = Target(h)
          /\ Frames(h)' = Frames(h) /\ TrailNodes(h)' = TrailNodes(h)
      BY DEF TopDown, Step, Target, Frames, TrailNodes
    <3>3. \A n \in Node : HeldElsewhere(h, n)' <=> HeldElsewhere(h, n)
      BY <2>1 DEF HeldElsewhere, HeldByRoot, HeldByParent, InHand, TrailNodes
    <3>4. PhaseOf(h)' /\ HoldsAlive(h)' /\ StampsOf(h)'
      BY <2>1, <3>1, <3>2 DEF ThreadInv, PhaseOf, HoldsAlive, StampsOf
    <3>5. TrailExclusive(h)'
      <4>1. ASSUME pc[h] \in InTree, TopDown(h), NEW i \in Frames(h)
            PROVE  AloneOnTrail(h, i)'
        <5>1. AloneOnTrail(h, i) /\ trail[h][i].node \in Node
          BY <3>1, <4>1 DEF ThreadInv, TrailExclusive, HoldsAlive, Alive
        <5> QED
          BY <3>2, <3>3, <5>1 DEF AloneOnTrail
      <4> QED
        BY <3>2, <4>1 DEF TrailExclusive
    <3>6. CurExclusive(h)'
      <4>1. pc[h] \in {"edit", "fix"} => SoleCur(h) /\ cur[h] \in Node
        BY <3>1 DEF ThreadInv, CurExclusive, PhaseOf, HoldsAlive, Alive
      <4> QED
        BY <3>2, <3>3, <4>1 DEF CurExclusive, SoleCur
    <3> QED
      BY <3>4, <3>5, <3>6 DEF ThreadInv
  <2> QED
    BY <2>2, <2>3 DEF IInv
<1>2. ASSUME NEW h \in Handle, Advance(h)
      PROVE  IInv'
  BY <1>2, ReleaseOK, PlanOK, StartEmptyOK, StartOK, ReturnOK, EnsureCowOwnedOK,
     EnsureCowSharedOK, DescendOK, FollowOK, ReplaceValueOK, TakeValueOK, RemoveLeafOK,
     AddLeafOK, SplitOK, PathReadyOK, DeclineOK, CallbackPanicOK, ReattachOK, BacktrackOK,
     LiftOK, SwapChildOK, InstallOK, WriteThroughOK DEF Advance
<1>3. ASSUME NEW h \in Handle, Use(h)
      PROVE  IInv'
  <2>1. ASSUME NEW g \in Handle, Clone(g, h) \/ Snapshot(g, h)
        PROVE  IInv'
    <3>1. version[g] \in Nat
      BY DEF IInv, TypeOK
    <3>2. CASE Clone(g, h)
      BY <3>1, <3>2, CopyHandleOK DEF Clone
    <3>3. CASE Snapshot(g, h)
      <4>1. version[g] + 1 \in Nat /\ version[g] + 1 >= version[g]
        BY <3>1
      <4>2. CopyHandle(g, h, version[g] + 1)
        BY <3>3 DEF Snapshot
      <4> QED
        BY <4>1, <4>2, CopyHandleOK
    <3> QED
      BY <2>1, <3>2, <3>3
  <2> QED
    BY <1>3, <2>1, NewOK, DropHandleOK, InvokeOK DEF Use
<1> QED
  BY <1>1, <1>2, <1>3 DEF Next

\* Whatever the users of the trees call, in whatever order, and however the
\* threads interleave, every thread holds what IInv says it holds.
THEOREM Invariance == Spec => []IInv
<1>1. Init => IInv
  BY InitOK
<1>2. IInv /\ [Next]_vars => IInv'
  BY NextOK
<1> QED
  BY <1>1, <1>2, PTL DEF Spec

\* Every variable keeps its type.
THEOREM TypeCorrect == Spec => []TypeOK
<1>1. IInv => TypeOK
  BY DEF IInv
<1> QED
  BY <1>1, Invariance, PTL

\* No Arc::try_unwrap after ensure_cow_node fails, so none of its callers
\* (insert_recurse, remove_recurse, delete_recurse, cow_path_to_key,
\* update_recurse) panics with "ensure_cow_node should have given us exclusive
\* ownership".
THEOREM NoUnwrapPanicHolds == Spec => []NoUnwrapPanic
<1>1. IInv => NoUnwrapPanic
  BY DEF IInv, ThreadInv, CurExclusive, NoUnwrapPanic, Running
<1> QED
  BY <1>1, Invariance, PTL

\* Stamps never grow on the way down, a handle's version is at least its
\* root's stamp, and ensure_cow_node meets only stamps below the target.
THEOREM StampsOrderedHolds == Spec => []StampsOrdered
<1>1. IInv => StampsOrdered
  <2> SUFFICES ASSUME IInv PROVE StampsOrdered
    OBVIOUS
  <2>1. \A n \in Alive : \A c \in Children(heap[n]) : heap[c].version <= heap[n].version
    BY DEF IInv, HeapInv, Children
  <2>2. \A h \in Handle : StampsOf(h)
    BY DEF IInv, ThreadInv
  <2> QED
    BY <2>1, <2>2 DEF StampsOrdered, StampsOf
<1> QED
  BY <1>1, Invariance, PTL

=============================================================================
