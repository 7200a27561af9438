------------------------ MODULE VersionedShapeProofs ------------------------
(***************************************************************************)
(* That every tree a handle holds is a radix tree without hollow nodes,    *)
(* for any number of handles, nodes and calls: ShapeInv is inductive, next *)
(* to IInv, and RadixShape follows. Then, what the walk for a key visits   *)
(* (Path) and what it finds (Get): laws of the operators VersionedTree     *)
(* describes get_iterate by, for every heap that satisfies the invariants. *)
(***************************************************************************)
EXTENDS VersionedTreeProofs, SequenceTheorems

USE KeyAssumption, ArenaAssumption, ValAssumption, CallsAssumption,
    BoundAssumption, NoneAssumption

-----------------------------------------------------------------------------
(* What a step has to do with the shape of the trees. *)

PrefixesKept == \A n \in Alive : n \in Alive' => heap'[n].prefix = heap[n].prefix

\* The children of a node after a step: those it had, or hung on the right edge.
EdgesHang ==
  \A m \in Alive' : \A b \in Byte : \A k \in Node : heap'[m].kids[b] = k =>
    \/ m \in Alive /\ heap[m].kids[b] = k /\ (heap'[m].leaf => heap[m].leaf)
    \/ ~heap'[m].leaf /\ HangsOn(k, b)'

\* A node hollow after a step is on the trail of h, or was before and not there.
HollowOnTrail(h) ==
  \A m \in Alive' : Hollow(m)' =>
    \/ InPieces(h, m)'
    \/ m \in Alive /\ Hollow(m) /\ ~InPieces(h, m)

\* What ThreadShape says of a thread depends on these alone.
SameWalk(g) ==
  /\ pc'[g] = pc[g] /\ todo'[g] = todo[g] /\ cur'[g] = cur[g] /\ depth'[g] = depth[g]
  /\ trail'[g] = trail[g] /\ edge'[g] = edge[g] /\ res'[g] = res[g]

\* Where a node hangs does not change while it is allocated.
LEMMA HangsStays ==
  ASSUME PrefixesKept, NEW n \in Alive, n \in Alive', NEW b, HangsOn(n, b)
  PROVE  HangsOn(n, b)'
BY DEF PrefixesKept, HangsOn

\* A thread that does not move keeps the shape of what it holds.
LEMMA WalkStays ==
  ASSUME IInv, IInv', PrefixesKept, NEW g \in Handle, ThreadShape(g), SameWalk(g)
  PROVE  ThreadShape(g)'
<1>1. /\ ThreadInv(g) /\ ThreadInv(g)' /\ TypeOK /\ Frames(g)' = Frames(g)
      /\ Step(g)' = Step(g)
  BY DEF IInv, SameWalk, Frames, Step
<1>2. trail[g] \in Seq(Frame) /\ Len(trail[g]) \in Nat
  BY <1>1 DEF TypeOK
<1>3. /\ \A i \in Frames(g) : trail[g][i].node \in Alive /\ trail[g][i].node \in Alive'
      /\ cur[g] # None => cur[g] \in Alive /\ cur[g] \in Alive'
      /\ res[g] # None => res[g] \in Alive /\ res[g] \in Alive'
  BY <1>1 DEF ThreadInv, HoldsAlive, SameWalk
<1>4. pc[g] \in {"visit", "edit", "lift", "fix"} => cur[g] # None
  BY <1>1 DEF ThreadInv, PhaseOf
<1>5. ASSUME NEW i \in Frames(g), i > 1
      PROVE  HangsOn(trail[g][i].node, trail[g][i - 1].edge)'
  <2>1. HangsOn(trail[g][i].node, trail[g][i - 1].edge)
    BY <1>5 DEF ThreadShape
  <2> QED BY <1>3, <2>1 DEF PrefixesKept, HangsOn, SameWalk
<1>6. ASSUME NEW n \in Alive, n \in Alive', NEW b, HangsOn(n, b)
      PROVE  heap'[n].prefix # <<>> /\ heap'[n].prefix[1] = b
  BY <1>6 DEF PrefixesKept, HangsOn
<1>7. ASSUME pc[g] \in {"visit", "edit", "lift", "fix"}, trail[g] # <<>>
      PROVE  heap'[cur[g]].prefix # <<>> /\ heap'[cur[g]].prefix[1] = trail[g][Len(trail[g])].edge
  <2>1. HangsOn(cur[g], trail[g][Len(trail[g])].edge)
    BY <1>7 DEF ThreadShape, HangsBelow
  <2> QED BY <1>3, <1>4, <1>6, <1>7, <2>1
<1>8. ASSUME pc[g] = "up", res[g] # None, trail[g] # <<>>
      PROVE  heap'[res[g]].prefix # <<>> /\ heap'[res[g]].prefix[1] = trail[g][Len(trail[g])].edge
  <2>1. HangsOn(res[g], trail[g][Len(trail[g])].edge)
    BY <1>8 DEF ThreadShape, HangsBelow
  <2> QED BY <1>3, <1>6, <1>8, <2>1
<1>9. ASSUME pc[g] \in {"lift", "fix"}, res[g] # None
      PROVE  heap'[res[g]].prefix # <<>> /\ heap'[res[g]].prefix[1] = edge[g]
  <2>1. HangsOn(res[g], edge[g])
    BY <1>9 DEF ThreadShape
  <2> QED BY <1>3, <1>6, <1>9, <2>1
<1>10. SameWalk(g)
  OBVIOUS
<1> QED
  <2>1. \A i \in Frames(g)' : i > 1 => HangsOn(trail[g][i].node, trail[g][i - 1].edge)'
    BY <1>1, <1>5
  <2>2. pc'[g] \in {"visit", "edit", "lift", "fix"} => HangsBelow(g, cur[g])'
    BY <1>7, <1>10 DEF SameWalk, HangsBelow, HangsOn
  <2>3. pc'[g] \in {"visit", "edit"} /\ trail'[g] # <<>> =>
          /\ depth'[g] < Len(Step(g)'.key)
          /\ Step(g)'.key[depth'[g] + 1] = trail'[g][Len(trail'[g])].edge
    BY <1>1, <1>10 DEF SameWalk, ThreadShape
  <2>4. pc'[g] = "up" /\ res'[g] # None => HangsBelow(g, res[g])'
    BY <1>8, <1>10 DEF SameWalk, HangsBelow, HangsOn
  <2>5. pc'[g] \in {"lift", "fix"} /\ res'[g] # None => HangsOn(res[g], edge[g])'
    BY <1>9, <1>10 DEF SameWalk, HangsOn
  <2> QED BY <2>1, <2>2, <2>3, <2>4, <2>5 DEF ThreadShape

\* So it is enough to look at the edges, the hollow nodes and the thread of h.
LEMMA ShapeFrame ==
  ASSUME IInv, IInv', ShapeInv, NEW h \in Handle, LocalFrame(h), PrefixesKept,
         EdgesHang, HollowOnTrail(h), ThreadShape(h)'
  PROVE  ShapeInv'
<1>1. TypeOK /\ TypeOK' /\ HeapInv /\ HeapInv' /\ EdgesRight /\ NoneHollow
  BY DEF IInv, ShapeInv
<1>2. ASSUME NEW g \in Handle PROVE ThreadShape(g)'
  <2>1. CASE g = h
    BY <2>1
  <2>2. CASE g # h
    <3>1. SameWalk(g) /\ ThreadShape(g)
      BY <2>2 DEF LocalFrame, SameLocals, SameWalk, ShapeInv
    <3> QED BY <3>1, WalkStays
  <2> QED BY <2>1, <2>2
<1>3. EdgesRight'
  <2>1. ASSUME NEW m \in Alive', NEW b \in Byte, NEW k \in Node, heap'[m].kids[b] = k
        PROVE  ~heap'[m].leaf /\ HangsOn(k, b)'
    <3>1. CASE m \in Alive /\ heap[m].kids[b] = k /\ (heap'[m].leaf => heap[m].leaf)
      <4>1. ~heap[m].leaf /\ HangsOn(k, b)
        BY <1>1, <3>1 DEF EdgesRight
      <4>2. k \in Alive /\ k \in Alive'
        BY <1>1, <2>1, <3>1 DEF HeapInv
      <4>3. HangsOn(k, b)'
        BY <4>1, <4>2, HangsStays
      <4> QED BY <3>1, <4>1, <4>3
    <3> QED BY <2>1, <3>1 DEF EdgesHang
  <2>2. ASSUME NEW m \in Alive', NEW b \in Byte, heap'[m].kids[b] # None
        PROVE  heap'[m].kids[b] \in Node
    BY <1>1, <2>2 DEF TypeOK, Alive, VersionedNode
  <2> QED BY <2>1, <2>2 DEF EdgesRight, HangsOn
<1>4. NoneHollow'
  <2> SUFFICES ASSUME NEW m \in Alive', Hollow(m)'
               PROVE  \E g \in Handle : InPieces(g, m)'
    BY DEF NoneHollow
  <2>1. CASE m \in Alive /\ Hollow(m) /\ ~InPieces(h, m)
    <3>1. PICK g \in Handle : InPieces(g, m)
      BY <1>1, <2>1 DEF NoneHollow
    <3>2. g # h
      BY <2>1, <3>1
    <3>3. InPieces(g, m)'
      BY <3>1, <3>2 DEF InPieces, LocalFrame, SameLocals, TopDown, Step, TrailNodes
    <3> QED BY <3>3
  <2> QED BY <2>1 DEF HollowOnTrail
<1> QED
  BY <1>2, <1>3, <1>4 DEF ShapeInv

\* What is hollow is held by nobody but the thread that took it apart: nothing
\* that a root, a node or a running activation points to is hollow.
LEMMA Solid ==
  ASSUME IInv, ShapeInv, NEW n \in Alive,
         HeldByRoot(n) \/ HeldByParent(n) \/ \E h \in Handle : n = cur[h]
  PROVE  ~Hollow(n)
<1> SUFFICES ASSUME Hollow(n) PROVE FALSE
  OBVIOUS
<1>1. PICK g \in Handle : InPieces(g, n)
  BY DEF ShapeInv, NoneHollow
<1>2. PICK i \in Frames(g) : trail[g][i].node = n
  BY <1>1 DEF InPieces, TrailNodes, Frames, IInv, TypeOK
<1>3. AloneOnTrail(g, i)
  BY <1>1, <1>2 DEF IInv, ThreadInv, TrailExclusive, InPieces
<1>4. ~HeldElsewhere(g, n) /\ n # cur[g]
  BY <1>2, <1>3 DEF AloneOnTrail
<1>5. PICK h \in Handle : n = cur[h]
  BY <1>4 DEF HeldElsewhere
<1>6. n \in InHand(h) /\ h # g
  BY <1>4, <1>5, AliveTyped DEF InHand, IInv
<1> QED BY <1>4, <1>6 DEF HeldElsewhere

\* A node that was allocated by this step.
WellMade(m) ==
  /\ ~Hollow(m)
  /\ \A b \in Byte : \A k \in Node : heap[m].kids[b] = k => ~heap[m].leaf /\ HangsOn(k, b)

\* A step that frees nodes, writes to at most the one node p, and allocates.
LEMMA HeapShape ==
  ASSUME IInv, IInv', ShapeInv, NEW h \in Handle, LocalFrame(h), NEW p,
         \A m \in Alive' \ {p} : m \in Alive => heap'[m] = heap[m],
         \A m \in Alive' \ {p} : m \notin Alive => WellMade(m)',
         p \in Alive' =>
           /\ p \in Alive /\ heap'[p].prefix = heap[p].prefix
           /\ heap'[p].leaf => heap[p].leaf
           /\ \A b \in Byte : \A k \in Node : heap'[p].kids[b] = k =>
                heap[p].kids[b] = k \/ (~heap'[p].leaf /\ HangsOn(k, b)')
           /\ Hollow(p)' => InPieces(h, p)',
         \A m \in Alive \ {p} : InPieces(h, m) => InPieces(h, m)',
         ThreadShape(h)'
  PROVE  ShapeInv'
<1>1. PrefixesKept
  BY DEF PrefixesKept
<1>2. EdgesHang
  <2> SUFFICES ASSUME NEW m \in Alive', NEW b \in Byte, NEW k \in Node, heap'[m].kids[b] = k
               PROVE  \/ m \in Alive /\ heap[m].kids[b] = k /\ (heap'[m].leaf => heap[m].leaf)
                      \/ ~heap'[m].leaf /\ HangsOn(k, b)'
    BY DEF EdgesHang
  <2>1. CASE m = p
    BY <2>1
  <2>2. CASE m # p /\ m \in Alive
    BY <2>2
  <2>3. CASE m # p /\ m \notin Alive
    BY <2>3 DEF WellMade
  <2> QED BY <2>1, <2>2, <2>3
<1>3. HollowOnTrail(h)
  <2> SUFFICES ASSUME NEW m \in Alive', Hollow(m)', ~InPieces(h, m)'
               PROVE  m \in Alive /\ Hollow(m) /\ ~InPieces(h, m)
    BY DEF HollowOnTrail
  <2>1. m # p
    OBVIOUS
  <2>2. m \in Alive
    BY <2>1 DEF WellMade
  <2>3. Hollow(m)
    BY <2>1, <2>2 DEF Hollow
  <2> QED BY <2>1, <2>2, <2>3
<1> QED BY <1>1, <1>2, <1>3, ShapeFrame

\* A step that leaves the heap alone.
LEMMA SameHeapShape ==
  ASSUME IInv, IInv', ShapeInv, NEW h \in Handle, LocalFrame(h), heap' = heap,
         \A n \in Alive : InPieces(h, n) => InPieces(h, n)',
         ThreadShape(h)'
  PROVE  ShapeInv'
<1>1. Alive' = Alive /\ None \notin Alive'
  BY DEF Alive
<1> QED BY <1>1, HeapShape

\* A thread whose trail is empty has nothing in pieces.
LEMMA NoPieces ==
  ASSUME NEW h \in Handle, trail[h] = <<>>, NEW n
  PROVE  ~InPieces(h, n)
BY DEF InPieces, TrailNodes

\* A thread whose trail is empty after a step has nothing to show for it.
LEMMA NoTrailShape ==
  ASSUME NEW h \in Handle, trail'[h] = <<>>, pc'[h] \notin {"lift", "fix"}
  PROVE  ThreadShape(h)'
BY DEF ThreadShape, Frames, HangsBelow

\* A step between two public calls, or between two operations of one.
LEMMA RestingShape ==
  ASSUME IInv, IInv', ShapeInv, NEW h \in Handle, LocalFrame(h), heap' = heap,
         trail[h] = <<>>, trail'[h] = <<>>, pc'[h] \notin {"lift", "fix"}
  PROVE  ShapeInv'
BY NoPieces, NoTrailShape, SameHeapShape

-----------------------------------------------------------------------------
(* The thread that takes the step *)

\* The frames of a trail that is as it was hang as they did.
LEMMA FramesStay ==
  ASSUME IInv, IInv', PrefixesKept, NEW h \in Handle, ThreadShape(h),
         NEW i \in Frames(h), i > 1, i \in Frames(h)',
         trail'[h][i] = trail[h][i], trail'[h][i - 1] = trail[h][i - 1]
  PROVE  HangsOn(trail[h][i].node, trail[h][i - 1].edge)'
<1>1. trail[h][i].node \in Alive /\ trail[h][i].node \in Alive'
  BY DEF IInv, ThreadInv, HoldsAlive
<1>2. HangsOn(trail[h][i].node, trail[h][i - 1].edge)
  BY DEF ThreadShape
<1> QED BY <1>1, <1>2 DEF PrefixesKept, HangsOn

\* The node of a running activation hangs where its caller found it, and so
\* does what the activation is about to return.
LEMMA BelowStays ==
  ASSUME IInv, IInv', PrefixesKept, NEW h \in Handle, trail'[h] = trail[h],
         NEW n \in Alive, n \in Alive', HangsBelow(h, n)
  PROVE  HangsBelow(h, n)'
<1>1. CASE trail[h] = <<>>
  BY <1>1 DEF HangsBelow
<1>2. CASE trail[h] # <<>>
  BY <1>2 DEF HangsBelow, HangsOn, PrefixesKept
<1> QED BY <1>1, <1>2

\* An activation that turns back returns what hangs below its caller's node.
LEMMA TurnBackShape ==
  ASSUME IInv, IInv', PrefixesKept, NEW h \in Handle, ThreadShape(h),
         pc'[h] = "up", trail'[h] = trail[h],
         res'[h] # None => HangsBelow(h, res[h])'
  PROVE  ThreadShape(h)'
<1>1. Frames(h)' = Frames(h)
  BY DEF Frames
<1>2. \A i \in Frames(h)' : i > 1 => HangsOn(trail[h][i].node, trail[h][i - 1].edge)'
  BY <1>1, FramesStay
<1> QED BY <1>2 DEF ThreadShape

\* The node that the innermost frame names hangs below the next one.
LEMMA PoppedShape ==
  ASSUME IInv, IInv', PrefixesKept, NEW h \in Handle, ThreadShape(h),
         trail[h] # <<>>, trail'[h] = Front(trail[h]),
         NEW n, n = Last(trail[h]).node
  PROVE  /\ \A i \in Frames(h)' : i > 1 => HangsOn(trail[h][i].node, trail[h][i - 1].edge)'
         /\ n \in Alive' => HangsBelow(h, n)'
<1> DEFINE l == Len(trail[h])
<1>1. trail[h] \in Seq(Frame) /\ l \in Nat \ {0}
  BY DEF IInv, TypeOK
<1>2. /\ Len(Front(trail[h])) = l - 1
      /\ \A i \in 1..l - 1 : Front(trail[h])[i] = trail[h][i]
  BY <1>1 DEF Front
<1>3. Frames(h) = 1..l /\ Frames(h)' = 1..l - 1 /\ trail[h][l].node = n
  BY <1>1, <1>2 DEF Frames, Last
<1>4. \A i \in Frames(h)' : i > 1 => HangsOn(trail[h][i].node, trail[h][i - 1].edge)'
  <2> SUFFICES ASSUME NEW i \in Frames(h)', i > 1
               PROVE  HangsOn(trail[h][i].node, trail[h][i - 1].edge)'
    OBVIOUS
  <2>1. i \in 1..l - 1 /\ i - 1 \in 1..l - 1
    BY <1>1, <1>3
  <2>2. trail'[h][i] = trail[h][i] /\ trail'[h][i - 1] = trail[h][i - 1]
    BY <1>2, <2>1
  <2>3. i \in Frames(h)
    BY <1>1, <1>3, <2>1
  <2> QED BY <2>2, <2>3, FramesStay
<1>5. ASSUME n \in Alive', trail'[h] # <<>>
      PROVE  heap'[n].prefix # <<>> /\ heap'[n].prefix[1] = trail'[h][Len(trail'[h])].edge
  <2>1. l > 1 /\ l \in Frames(h) /\ trail'[h][Len(trail'[h])] = trail[h][l - 1]
    BY <1>1, <1>2, <1>3, <1>5
  <2>2. HangsOn(n, trail[h][l - 1].edge)
    BY <1>3, <2>1 DEF ThreadShape
  <2>3. n \in Alive
    BY <1>3, <2>1 DEF IInv, ThreadInv, HoldsAlive
  <2> QED BY <1>5, <2>1, <2>2, <2>3 DEF PrefixesKept, HangsOn
<1> QED BY <1>4, <1>5 DEF HangsBelow, HangsOn

\* The child that the key leads to hangs below the frame that is pushed for it.
LEMMA DescendShape ==
  ASSUME IInv, IInv', ShapeInv, PrefixesKept, NEW h \in Handle,
         pc[h] \in {"visit", "edit"}, PlaceOf(h) = "child",
         NEW b, b = EdgeOf(heap[cur[h]], Step(h).key, depth[h]),
         trail'[h] = Append(trail[h], [node |-> cur[h], edge |-> b, depth |-> depth[h]]),
         cur'[h] = heap[cur[h]].kids[b], depth'[h] = depth[h] + Len(heap[cur[h]].prefix),
         pc'[h] = "visit", todo'[h] = todo[h]
  PROVE  ThreadShape(h)'
<1> DEFINE n == cur[h]
           c == heap[n].kids[b]
           l == Len(trail[h])
<1>1. ThreadShape(h) /\ EdgesRight
  BY DEF ShapeInv
<1>2. /\ n \in Alive /\ b \in Byte /\ c # None /\ depth[h] \in Nat
      /\ Len(heap[n].prefix) \in Nat /\ depth[h] + Len(heap[n].prefix) < Len(Step(h).key)
      /\ trail[h] \in Seq(Frame) /\ l \in Nat
  BY AtNode, WasInTree DEF InTree
<1>3. HangsOn(c, b) /\ c \in Alive
  BY <1>1, <1>2 DEF EdgesRight, IInv, HeapInv
<1>4. c \in Alive'
  BY <1>2 DEF IInv, ThreadInv, HoldsAlive
<1> HIDE DEF c
<1>5. heap'[c].prefix # <<>> /\ heap'[c].prefix[1] = b
  BY <1>3, <1>4 DEF PrefixesKept, HangsOn
<1>6. /\ Len(trail'[h]) = l + 1 /\ trail'[h][l + 1] = [node |-> n, edge |-> b, depth |-> depth[h]]
      /\ \A i \in 1..l : trail'[h][i] = trail[h][i]
  <2> DEFINE f == [node |-> n, edge |-> b, depth |-> depth[h]]
  <2>1. f \in Frame
    BY <1>2, AliveTyped DEF Frame, IInv
  <2> HIDE DEF f
  <2>2. trail'[h] = Append(trail[h], f)
    BY DEF f
  <2>3. /\ Len(trail'[h]) = l + 1 /\ trail'[h][l + 1] = f
        /\ \A i \in 1..l : trail'[h][i] = trail[h][i]
    BY <1>2, <2>1, <2>2
  <2> QED BY <2>3 DEF f
<1>7. ASSUME NEW i \in Frames(h)', i > 1
      PROVE  HangsOn(trail[h][i].node, trail[h][i - 1].edge)'
  <2>1. CASE i \in Frames(h)
    <3>1. i \in 1..l /\ i - 1 \in 1..l
      BY <1>2, <1>7, <2>1 DEF Frames
    <3> QED BY <1>1, <1>6, <1>7, <2>1, <3>1, FramesStay
  <2>2. CASE i = l + 1
    <3>1. trail'[h][i].node = n /\ trail'[h][i - 1] = trail[h][l] /\ trail[h] # <<>>
      BY <1>2, <1>6, <1>7, <2>2
    <3>2. HangsOn(n, trail[h][l].edge)
      BY <1>1, <3>1 DEF ThreadShape, HangsBelow
    <3>3. n \in Alive'
      BY <1>7, <3>1 DEF IInv, ThreadInv, HoldsAlive
    <3> QED BY <1>2, <3>1, <3>2, <3>3 DEF PrefixesKept, HangsOn
  <2> QED BY <1>2, <1>6, <1>7, <2>1, <2>2 DEF Frames
<1>8. HangsBelow(h, cur[h])'
  <2>1. cur'[h] = c
    BY DEF c
  <2> QED BY <1>2, <1>5, <1>6, <2>1 DEF HangsBelow, HangsOn
<1>9. /\ Step(h)' = Step(h) /\ depth'[h] < Len(Step(h).key)
      /\ Step(h).key[depth'[h] + 1] = b
  BY <1>2 DEF Step, EdgeOf
<1>10. trail'[h][Len(trail'[h])].edge = b
  BY <1>6
<1> QED BY <1>7, <1>8, <1>9, <1>10 DEF ThreadShape

-----------------------------------------------------------------------------
(* Steps that leave the heap alone *)

\* Handles come and go, calls begin and end.
LEMMA RestingStepShape ==
  ASSUME IInv, IInv', ShapeInv, NEW h \in Handle,
         \/ New(h) \/ DropHandle(h) \/ Plan(h) \/ Start(h) \/ Return(h) \/ Install(h)
         \/ \E g \in Handle : Clone(g, h) \/ Snapshot(g, h)
         \/ \E c \in Calls : Invoke(h, c)
  PROVE  ShapeInv'
<1> USE DEF handleVars, callVars, walkVars
<1>1. TypeOK
  BY DEF IInv
<1>2. LocalFrame(h) /\ heap' = heap /\ trail' = trail
  <2>1. CASE New(h) \/ DropHandle(h)
    BY <1>1, <2>1 DEF New, DropHandle, LocalFrame, SameLocals, TypeOK
  <2>2. CASE \E g \in Handle : Clone(g, h) \/ Snapshot(g, h)
    BY <1>1, <2>2 DEF Clone, Snapshot, CopyHandle, LocalFrame, SameLocals, TypeOK
  <2>3. CASE \E c \in Calls : Invoke(h, c)
    BY <1>1, <2>3 DEF Invoke, LocalFrame, SameLocals, TypeOK
  <2>4. CASE Plan(h)
    BY <1>1, <2>4 DEF Plan, LocalFrame, SameLocals, TypeOK
  <2>5. CASE Start(h) \/ Return(h)
    BY <1>1, <2>5 DEF Start, Return, LocalFrame, SameLocals, TypeOK
  <2>6. CASE Install(h)
    BY <1>1, <2>6 DEF Install, LocalFrame, SameLocals, TypeOK
  <2> QED BY <2>1, <2>2, <2>3, <2>4, <2>5, <2>6
<1>3. trail[h] = <<>> /\ pc'[h] \notin {"lift", "fix"}
  <2>1. CASE Install(h)
    BY <1>1, <2>1 DEF Install, TypeOK
  <2>2. CASE ~Install(h)
    <3>1. pc[h] \in {"idle", "plan", "next"}
      BY <2>2 DEF New, DropHandle, Clone, Snapshot, CopyHandle, Invoke, Plan, Start, Return, Running
    <3>2. trail[h] = <<>>
      BY <3>1, WasResting
    <3>3. pc'[h] \in {"idle", "plan", "next", "visit"}
      BY <1>1, <2>2 DEF New, DropHandle, Clone, Snapshot, CopyHandle, Invoke, Plan, Start,
                        Return, Running, TypeOK
    <3> QED BY <3>2, <3>3
  <2> QED BY <2>1, <2>2
<1> QED BY <1>2, <1>3, RestingShape

\* An activation of update has taken nothing to pieces.
LEMMA UpdateKeepsWhole ==
  ASSUME NEW h \in Handle, ~TopDown(h), NEW n PROVE ~InPieces(h, n)
BY DEF InPieces

\* An activation returns the node it stands at, or none.
LEMMA StayShape ==
  ASSUME IInv, IInv', ShapeInv, NEW h \in Handle, RemoveLeaf(h) \/ PathReady(h) \/ Decline(h)
  PROVE  ShapeInv'
<1> USE DEF handleVars, callVars, walkVars
<1>1. TypeOK /\ ThreadShape(h) /\ pc[h] \in {"visit", "edit"} /\ pc[h] \in InTree
  BY DEF IInv, ShapeInv, RemoveLeaf, PathReady, Decline, Unwrapped, Running, InTree
<1>2. /\ LocalFrame(h) /\ heap' = heap /\ trail' = trail /\ todo' = todo
      /\ pc'[h] = "up" /\ res'[h] \in {cur[h], None}
  <2>1. CASE RemoveLeaf(h)
    BY <1>1, <2>1 DEF RemoveLeaf, ReturnNode, LocalFrame, SameLocals, TypeOK
  <2>2. CASE PathReady(h)
    BY <1>1, <2>2 DEF PathReady, ReturnNode, LocalFrame, SameLocals, TypeOK
  <2>3. CASE Decline(h)
    BY <1>1, <2>3 DEF Decline, ReturnNode, LocalFrame, SameLocals, TypeOK
  <2> QED BY <2>1, <2>2, <2>3
<1>3. PrefixesKept /\ Alive' = Alive
  BY <1>2 DEF PrefixesKept, Alive
<1>4. \A n \in Alive : InPieces(h, n) => InPieces(h, n)'
  BY <1>2 DEF InPieces, InTree, TopDown, Step, TrailNodes
<1>5. HangsBelow(h, cur[h]) /\ cur[h] \in Alive
  BY <1>1, WasInTree DEF ThreadShape
<1>6. ASSUME NEW n \in Alive, n = cur[h], res'[h] # None
      PROVE  HangsBelow(h, res[h])'
  <2>1. HangsBelow(h, n)'
    BY <1>2, <1>3, <1>5, <1>6, BelowStays
  <2> QED BY <1>2, <1>6, <2>1 DEF HangsBelow, HangsOn
<1>7. ThreadShape(h)'
  BY <1>1, <1>2, <1>3, <1>5, <1>6, TurnBackShape
<1> QED BY <1>2, <1>4, <1>7, SameHeapShape

\* A callback that panics leaves no activation behind.
LEMMA CallbackPanicShape ==
  ASSUME IInv, IInv', ShapeInv, NEW h \in Handle, CallbackPanic(h) PROVE ShapeInv'
<1>1. TypeOK
  BY DEF IInv
<1>2. /\ LocalFrame(h) /\ heap' = heap /\ trail'[h] = <<>> /\ pc'[h] = "next" /\ ~TopDown(h)
  BY <1>1 DEF CallbackPanic, LocalFrame, SameLocals, TypeOK, handleVars
<1>3. ThreadShape(h)'
  BY <1>2, NoTrailShape
<1> QED BY <1>2, <1>3, UpdateKeepsWhole, SameHeapShape

\* The descent of update
LEMMA FollowShape ==
  ASSUME IInv, IInv', ShapeInv, NEW h \in Handle, Follow(h) PROVE ShapeInv'
<1> DEFINE b == EdgeOf(heap[cur[h]], Step(h).key, depth[h])
<1>1. TypeOK
  BY DEF IInv
<1>2. pc[h] = "visit" /\ ~TopDown(h) /\ PlaceOf(h) = "child"
  BY DEF Follow, Running
<1>3. /\ LocalFrame(h) /\ heap' = heap
      /\ trail'[h] = Append(trail[h], [node |-> cur[h], edge |-> b, depth |-> depth[h]])
      /\ cur'[h] = heap[cur[h]].kids[b] /\ depth'[h] = depth[h] + Len(heap[cur[h]].prefix)
      /\ pc'[h] = "visit" /\ todo'[h] = todo[h]
  BY <1>1, <1>2 DEF Follow, LocalFrame, SameLocals, TypeOK, handleVars, callVars
<1>4. PrefixesKept
  BY <1>3 DEF PrefixesKept
<1> HIDE DEF b
<1>5. b = EdgeOf(heap[cur[h]], Step(h).key, depth[h])
  BY DEF b
<1>6. ThreadShape(h)'
  BY <1>2, <1>3, <1>4, <1>5, DescendShape
<1> QED BY <1>2, <1>3, <1>6, UpdateKeepsWhole, SameHeapShape

\* The return of update through a level where nothing changed
LEMMA BacktrackShape ==
  ASSUME IInv, IInv', ShapeInv, NEW h \in Handle, Backtrack(h) PROVE ShapeInv'
<1>1. TypeOK /\ ThreadShape(h)
  BY DEF IInv, ShapeInv
<1>2. PICK n : n = Last(trail[h]).node
  OBVIOUS
<1>3. /\ LocalFrame(h) /\ heap' = heap /\ ~TopDown(h) /\ trail[h] # <<>>
      /\ trail'[h] = Front(trail[h]) /\ res'[h] = n /\ pc'[h] = "up"
  BY <1>1, <1>2 DEF Backtrack, Resume, Running, LocalFrame, SameLocals, TypeOK, handleVars, callVars
<1>4. PrefixesKept
  BY <1>3 DEF PrefixesKept
<1>5. res'[h] # None => res'[h] \in Alive'
  BY DEF IInv, ThreadInv, HoldsAlive
<1>6. /\ \A i \in Frames(h)' : i > 1 => HangsOn(trail[h][i].node, trail[h][i - 1].edge)'
      /\ n \in Alive' => HangsBelow(h, n)'
  BY <1>1, <1>2, <1>3, <1>4, PoppedShape
<1>7. res'[h] # None => HangsBelow(h, res[h])'
  BY <1>3, <1>5, <1>6 DEF HangsBelow, HangsOn
<1>8. ThreadShape(h)'
  BY <1>3, <1>6, <1>7 DEF ThreadShape
<1> QED BY <1>3, <1>8, UpdateKeepsWhole, SameHeapShape

\* The return of update through a level that it makes writable
LEMMA LiftShape ==
  ASSUME IInv, IInv', ShapeInv, NEW h \in Handle, Lift(h) PROVE ShapeInv'
<1>1. TypeOK /\ ThreadShape(h)
  BY DEF IInv, ShapeInv
<1>2. PICK n : n = Last(trail[h]).node
  OBVIOUS
<1>3. /\ LocalFrame(h) /\ heap' = heap /\ ~TopDown(h) /\ trail[h] # <<>> /\ pc[h] = "up"
      /\ trail'[h] = Front(trail[h]) /\ cur'[h] = n /\ pc'[h] = "lift" /\ res' = res
      /\ edge'[h] = Last(trail[h]).edge /\ Last(trail[h]) = trail[h][Len(trail[h])]
  BY <1>1, <1>2 DEF Lift, Resume, Running, LocalFrame, SameLocals, TypeOK, handleVars, callVars, Last
<1>4. PrefixesKept
  BY <1>3 DEF PrefixesKept
<1>5. cur'[h] \in Alive'
  BY <1>3 DEF IInv, ThreadInv, HoldsAlive, PhaseOf
<1>6. /\ \A i \in Frames(h)' : i > 1 => HangsOn(trail[h][i].node, trail[h][i - 1].edge)'
      /\ n \in Alive' => HangsBelow(h, n)'
  BY <1>1, <1>2, <1>3, <1>4, PoppedShape
<1>7. HangsBelow(h, cur[h])'
  BY <1>3, <1>5, <1>6 DEF HangsBelow, HangsOn
<1>8. res'[h] # None => HangsOn(res[h], edge[h])'
  BY <1>1, <1>3 DEF ThreadShape, HangsBelow, HangsOn
<1>9. ThreadShape(h)'
  BY <1>3, <1>6, <1>7, <1>8 DEF ThreadShape
<1> QED BY <1>3, <1>9, UpdateKeepsWhole, SameHeapShape

-----------------------------------------------------------------------------
(* Steps that free, stamp and write *)

\* Releasing an Arc frees at most its node.
LEMMA ReleaseShape ==
  ASSUME IInv, IInv', ShapeInv, NEW h \in Handle, Release(h) PROVE ShapeInv'
<1>1. TypeOK /\ ThreadShape(h)
  BY DEF IInv, ShapeInv
<1>2. PICK n \in drops[h] :
        /\ heap' = heap \/ heap' = [heap EXCEPT ![n] = None]
        /\ UNCHANGED <<live, root, version, call, todo, ret, pc, cur, depth, trail, edge, res>>
        /\ \A g \in Handle \ {h} : drops'[g] = drops[g]
  BY <1>1 DEF Release, TypeOK, handleVars, callVars, walkVars
<1>3. LocalFrame(h) /\ SameWalk(h)
  BY <1>2 DEF LocalFrame, SameLocals, SameWalk
<1>4. \A m \in Alive' : m \in Alive /\ heap'[m] = heap[m]
  BY <1>1, <1>2 DEF Alive, TypeOK
<1>5. PrefixesKept
  BY <1>4 DEF PrefixesKept
<1>6. ThreadShape(h)'
  BY <1>1, <1>3, <1>5, WalkStays
<1>7. \A m \in Alive : InPieces(h, m) => InPieces(h, m)'
  BY <1>3 DEF InPieces, TopDown, Step, TrailNodes, SameWalk
<1>8. None \notin Alive'
  BY DEF IInv, AliveTyped, Alive, TypeOK
<1> QED BY <1>3, <1>4, <1>6, <1>7, <1>8, HeapShape

\* Stamping a node
LEMMA EnsureCowOwnedShape ==
  ASSUME IInv, IInv', ShapeInv, NEW h \in Handle, EnsureCowOwned(h) PROVE ShapeInv'
<1>1. TypeOK /\ ThreadShape(h)
  BY DEF IInv, ShapeInv
<1>2. PICK n \in Alive : n = cur[h] /\ heap[n] \in VersionedNode /\ n \in Node
  BY WasEnsuring DEF EnsureCowOwned
<1>3. /\ pc[h] \in {"visit", "lift"} /\ LocalFrame(h) /\ trail' = trail /\ todo' = todo
      /\ cur' = cur /\ res' = res /\ depth' = depth /\ edge' = edge
      /\ pc'[h] = IF pc[h] = "visit" THEN "edit" ELSE "fix"
  BY <1>1 DEF EnsureCowOwned, Ensuring, Ensured, Running, LocalFrame, SameLocals, TypeOK,
              handleVars, callVars, walkVars
<1>4. /\ \A m \in Alive' : m # n => m \in Alive /\ heap'[m] = heap[m]
      /\ heap'[n].prefix = heap[n].prefix /\ heap'[n].value = heap[n].value
      /\ heap'[n].kids = heap[n].kids /\ heap'[n].leaf = heap[n].leaf
  BY <1>1, <1>2 DEF EnsureCowOwned, Alive, TypeOK, VersionedNode
<1>5. PrefixesKept
  BY <1>4 DEF PrefixesKept
<1>6. ~Hollow(n)'
  BY <1>2, <1>4, Solid DEF Hollow
<1>7. \A m \in Alive : InPieces(h, m) => InPieces(h, m)'
  BY <1>3 DEF InPieces, TopDown, Step, TrailNodes, InTree
<1>8. ThreadShape(h)'
  <2>1. Frames(h)' = Frames(h) /\ Step(h)' = Step(h)
    BY <1>3 DEF Frames, Step
  <2>2. \A i \in Frames(h)' : i > 1 => HangsOn(trail[h][i].node, trail[h][i - 1].edge)'
    BY <1>1, <1>3, <1>5, <2>1, FramesStay
  <2>3. n \in Alive' /\ (res'[h] # None => res'[h] \in Alive /\ res'[h] \in Alive')
    BY <1>1, <1>2, <1>3 DEF IInv, ThreadInv, HoldsAlive
  <2>4. HangsBelow(h, n)'
    BY <1>1, <1>2, <1>3, <1>5, <2>3, BelowStays DEF ThreadShape
  <2>5. HangsBelow(h, cur[h])'
    BY <1>2, <1>3, <2>4 DEF HangsBelow, HangsOn
  <2>6. pc'[h] = "fix" /\ res'[h] # None => HangsOn(res[h], edge[h])'
    BY <1>1, <1>3, <1>5, <2>3 DEF ThreadShape, PrefixesKept, HangsOn
  <2> QED BY <1>1, <1>3, <2>1, <2>2, <2>5, <2>6 DEF ThreadShape
<1> QED BY <1>3, <1>4, <1>6, <1>7, <1>8, HeapShape

\* Copying a node that is shared
LEMMA EnsureCowSharedShape ==
  ASSUME IInv, IInv', ShapeInv, NEW h \in Handle, EnsureCowShared(h) PROVE ShapeInv'
<1>1. TypeOK /\ ThreadShape(h) /\ EdgesRight
  BY DEF IInv, ShapeInv
<1>2. PICK n \in Alive : n = cur[h] /\ heap[n] \in VersionedNode /\ n \in Node
  BY WasEnsuring DEF EnsureCowShared
<1>3. PICK c \in Node : c = New1(h) /\ c \notin Alive
  BY <1>1, FreshNames DEF EnsureCowShared
<1>4. /\ pc[h] \in {"visit", "lift"} /\ LocalFrame(h) /\ trail' = trail /\ todo' = todo
      /\ cur'[h] = c /\ res' = res /\ depth' = depth /\ edge' = edge
      /\ pc'[h] = IF pc[h] = "visit" THEN "edit" ELSE "fix"
      /\ heap' = [heap EXCEPT ![c] = CowClone(heap[n], Target(h))]
  BY <1>1, <1>2, <1>3 DEF EnsureCowShared, Ensuring, Ensured, Running, LocalFrame, SameLocals,
              TypeOK, handleVars, callVars, walkVars
<1>5. /\ \A m \in Alive' : m # c => m \in Alive /\ heap'[m] = heap[m]
      /\ heap'[c].prefix = heap[n].prefix /\ heap'[c].value = heap[n].value
      /\ heap'[c].kids = heap[n].kids /\ heap'[c].leaf = heap[n].leaf
      /\ Alive \subseteq Alive'
  BY <1>1, <1>2, <1>3, <1>4 DEF CowClone, Alive, TypeOK, VersionedNode
<1>6. PrefixesKept
  BY <1>3, <1>5 DEF PrefixesKept
<1>7. WellMade(c)'
  <2>1. ~Hollow(c)'
    BY <1>2, <1>5, Solid DEF Hollow
  <2>2. ASSUME NEW b \in Byte, NEW k \in Node, heap'[c].kids[b] = k
        PROVE  ~heap'[c].leaf /\ HangsOn(k, b)'
    <3>1. ~heap[n].leaf /\ HangsOn(k, b) /\ k \in Alive
      BY <1>1, <1>2, <1>5, <2>2 DEF EdgesRight, IInv, HeapInv
    <3> QED BY <1>5, <1>6, <3>1, HangsStays
  <2> QED BY <2>1, <2>2 DEF WellMade
<1>8. \A m \in Alive : InPieces(h, m) => InPieces(h, m)'
  BY <1>4 DEF InPieces, TopDown, Step, TrailNodes, InTree
<1>9. ThreadShape(h)'
  <2>1. Frames(h)' = Frames(h) /\ Step(h)' = Step(h)
    BY <1>4 DEF Frames, Step
  <2>2. \A i \in Frames(h)' : i > 1 => HangsOn(trail[h][i].node, trail[h][i - 1].edge)'
    BY <1>1, <1>4, <1>6, <2>1, FramesStay
  <2>3. res'[h] # None => res'[h] \in Alive /\ res'[h] \in Alive'
    BY <1>1, <1>4, <1>5 DEF IInv, ThreadInv, HoldsAlive
  <2>4. HangsBelow(h, cur[h])'
    BY <1>1, <1>2, <1>4, <1>5 DEF ThreadShape, HangsBelow, HangsOn
  <2>5. pc'[h] = "fix" /\ res'[h] # None => HangsOn(res[h], edge[h])'
    BY <1>1, <1>4, <1>6, <2>3 DEF ThreadShape, PrefixesKept, HangsOn
  <2> QED BY <1>1, <1>4, <2>1, <2>2, <2>4, <2>5 DEF ThreadShape
<1>10. None \notin Alive'
  BY DEF IInv, AliveTyped, Alive, TypeOK
<1>11. \A m \in Alive' \ {None} : m \notin Alive => WellMade(m)'
  <2> SUFFICES ASSUME NEW m \in Alive', m \notin Alive PROVE WellMade(m)'
    OBVIOUS
  <2>1. m = c
    BY <1>5
  <2> QED BY <1>7, <2>1
<1> QED BY <1>3, <1>4, <1>5, <1>8, <1>9, <1>10, <1>11, HeapShape

\* Taking the child out of a node, to recurse into it
LEMMA DescendStepShape ==
  ASSUME IInv, IInv', ShapeInv, NEW h \in Handle, Descend(h) PROVE ShapeInv'
<1>1. TypeOK
  BY DEF IInv
<1>2. /\ pc[h] = "edit" /\ pc[h] \in InTree /\ TopDown(h) /\ PlaceOf(h) = "child"
  BY DEF Descend, Unwrapped, Running, InTree
<1>3. PICK n \in Alive : n = cur[h] /\ heap[n] \in VersionedNode /\ n \in Node
  BY <1>2, WasInTree
<1>4. PICK b \in Byte : b = EdgeOf(heap[cur[h]], Step(h).key, depth[h])
  BY <1>2, AtNode
<1>5. /\ LocalFrame(h) /\ heap' = [heap EXCEPT ![n] = DeleteChild(heap[n], b)]
      /\ trail'[h] = Append(trail[h], [node |-> n, edge |-> b, depth |-> depth[h]])
      /\ cur'[h] = heap[n].kids[b] /\ depth'[h] = depth[h] + Len(heap[n].prefix)
      /\ pc'[h] = "visit" /\ todo' = todo
  BY <1>1, <1>2, <1>3, <1>4 DEF Descend, LocalFrame, SameLocals, TypeOK, handleVars, callVars
<1>6. /\ \A m \in Alive' : m # n => m \in Alive /\ heap'[m] = heap[m]
      /\ heap'[n].prefix = heap[n].prefix /\ heap'[n].leaf = heap[n].leaf
      /\ heap'[n].kids = [heap[n].kids EXCEPT ![b] = None]
  BY <1>1, <1>3, <1>5 DEF DeleteChild, Alive, TypeOK, VersionedNode
<1>7. \A e \in Byte : \A k \in Node : heap'[n].kids[e] = k => heap[n].kids[e] = k
  BY <1>3, <1>6 DEF VersionedNode
<1>8. PrefixesKept
  BY <1>6 DEF PrefixesKept
<1>9. ThreadShape(h)'
  BY <1>2, <1>3, <1>4, <1>5, <1>8, DescendShape
<1>10. /\ InPieces(h, n)'
       /\ \A m \in Alive : InPieces(h, m) => InPieces(h, m)'
  <2>1. /\ pc'[h] \in InTree /\ TopDown(h)'
    BY <1>2, <1>5 DEF InTree, TopDown, Step
  <2> DEFINE f == [node |-> n, edge |-> b, depth |-> depth[h]]
             l == Len(trail[h])
  <2>2. trail[h] \in Seq(Frame) /\ l \in Nat
    BY <1>1 DEF TypeOK
  <2>3. f \in Frame /\ f.node = n
    BY <1>1, <1>3 DEF Frame, TypeOK
  <2> HIDE DEF f
  <2>4. trail'[h] = Append(trail[h], f)
    BY <1>5 DEF f
  <2>5. /\ DOMAIN trail[h] = 1..l /\ DOMAIN trail'[h] = 1..l + 1 /\ trail'[h][l + 1] = f
        /\ \A i \in 1..l : trail'[h][i] = trail[h][i]
    BY <2>2, <2>4, <2>3
  <2>6. l + 1 \in 1..l + 1 /\ 1..l \subseteq 1..l + 1
    BY <2>2
  <2>7. n \in TrailNodes(h)' /\ TrailNodes(h) \subseteq TrailNodes(h)'
    BY <2>5, <2>6, <2>3 DEF TrailNodes
  <2> QED BY <2>1, <2>7 DEF InPieces
<1>11. /\ LocalFrame(h)
       /\ \A m \in Alive' \ {n} : m \in Alive => heap'[m] = heap[m]
       /\ \A m \in Alive' \ {n} : m \notin Alive => WellMade(m)'
  BY <1>5, <1>6
<1>12. n \in Alive' =>
         /\ n \in Alive /\ heap'[n].prefix = heap[n].prefix
         /\ heap'[n].leaf => heap[n].leaf
         /\ \A e \in Byte : \A k \in Node : heap'[n].kids[e] = k =>
              heap[n].kids[e] = k \/ (~heap'[n].leaf /\ HangsOn(k, e)')
         /\ Hollow(n)' => InPieces(h, n)'
  BY <1>3, <1>6, <1>7, <1>10
<1>13. \A m \in Alive \ {n} : InPieces(h, m) => InPieces(h, m)'
  BY <1>10
<1> HIDE DEF LocalFrame
<1> QED BY <1>9, <1>11, <1>12, <1>13, HeapShape

-----------------------------------------------------------------------------
(* Steps that edit nodes and return them *)

\* An activation writes to its node, or frees it, and returns it, or nothing.
LEMMA ReturnedShape ==
  ASSUME IInv, IInv', ShapeInv, NEW h \in Handle, LocalFrame(h),
         pc[h] \in {"edit", "fix"}, NEW p \in Alive, p = cur[h],
         pc'[h] = "up", trail'[h] = trail[h], todo'[h] = todo[h], res'[h] \in {p, None},
         \A m \in Alive' \ {p} : m \in Alive => heap'[m] = heap[m],
         \A m \in Alive' \ {p} : m \notin Alive => WellMade(m)',
         p \in Alive' =>
           /\ heap'[p].prefix = heap[p].prefix
           /\ heap'[p].leaf => heap[p].leaf
           /\ \A b \in Byte : \A k \in Node : heap'[p].kids[b] = k =>
                heap[p].kids[b] = k \/ (~heap'[p].leaf /\ HangsOn(k, b)')
           /\ ~Hollow(p)'
  PROVE  ShapeInv'
<1>1. ThreadShape(h) /\ pc[h] \in InTree
  BY DEF ShapeInv, InTree
<1>2. PrefixesKept
  BY DEF PrefixesKept
<1>3. \A m \in Alive : InPieces(h, m) => InPieces(h, m)'
  BY DEF InPieces, TopDown, Step, TrailNodes, InTree
<1>4. res'[h] # None => HangsBelow(h, res[h])'
  <2>1. ASSUME res'[h] # None PROVE p \in Alive' /\ res'[h] = p
    BY <2>1 DEF IInv, ThreadInv, HoldsAlive
  <2>2. HangsBelow(h, p)
    BY <1>1 DEF ThreadShape
  <2>3. res'[h] # None => HangsBelow(h, p)'
    BY <1>2, <2>1, <2>2, BelowStays
  <2> QED BY <2>1, <2>3 DEF HangsBelow, HangsOn
<1>5. ThreadShape(h)'
  BY <1>1, <1>2, <1>4, TurnBackShape
<1> QED BY <1>3, <1>5, HeapShape

\* A value is put into the node found, or taken out of it.
LEMMA ReplaceValueShape ==
  ASSUME IInv, IInv', ShapeInv, NEW h \in Handle, ReplaceValue(h) PROVE ShapeInv'
<1>1. /\ TypeOK /\ pc[h] = "edit" /\ pc[h] \in InTree
  BY DEF IInv, ReplaceValue, Unwrapped, Running, InTree
<1>2. PICK n \in Alive : n = cur[h] /\ heap[n] \in VersionedNode /\ n \in Node
  BY <1>1, WasInTree
<1>3. PICK v \in Val : heap' = [heap EXCEPT ![n].value = v]
  <2>1. Step(h).val \in Val
    BY <1>1, WasInTree
  <2> QED BY <1>2, <2>1 DEF ReplaceValue
<1>4. /\ LocalFrame(h) /\ pc'[h] = "up" /\ trail' = trail /\ todo' = todo /\ res'[h] = n
  BY <1>1, <1>2 DEF ReplaceValue, ReturnNode, LocalFrame, SameLocals, TypeOK, handleVars, walkVars
<1>5. /\ \A m \in Alive' : m # n => m \in Alive /\ heap'[m] = heap[m]
      /\ heap'[n].prefix = heap[n].prefix /\ heap'[n].leaf = heap[n].leaf
      /\ heap'[n].kids = heap[n].kids /\ heap'[n].value = v
  BY <1>1, <1>2, <1>3 DEF Alive, TypeOK, VersionedNode
<1>6. ~Hollow(n)'
  BY <1>5 DEF Hollow
<1> QED BY <1>1, <1>2, <1>4, <1>5, <1>6, ReturnedShape

\* A value is taken out of a node: what is left must not be hollow.
LEMMA TakeValueShape ==
  ASSUME IInv, IInv', ShapeInv, NEW h \in Handle, TakeValue(h) PROVE ShapeInv'
<1>1. /\ TypeOK /\ pc[h] = "edit" /\ pc[h] \in InTree
  BY DEF IInv, TakeValue, Unwrapped, Running, InTree
<1>2. PICK n \in Alive : n = cur[h] /\ heap[n] \in VersionedNode /\ n \in Node
  BY <1>1, WasInTree
<1>3. /\ LocalFrame(h) /\ pc'[h] = "up" /\ trail' = trail /\ todo' = todo /\ res'[h] \in {n, None}
  BY <1>1, <1>2 DEF TakeValue, ReturnNode, LocalFrame, SameLocals, TypeOK, handleVars, walkVars
<1>4. heap' = [heap EXCEPT ![n] = IF heap[n].kids = NoKids THEN None
                                  ELSE [heap[n] EXCEPT !.value = None]]
  BY <1>2 DEF TakeValue
<1>5. \A m \in Alive' : m # n => m \in Alive /\ heap'[m] = heap[m]
  BY <1>1, <1>2, <1>4 DEF Alive, TypeOK
<1>6. n \in Alive' =>
        /\ heap'[n].prefix = heap[n].prefix /\ heap'[n].leaf = heap[n].leaf
        /\ heap'[n].kids = heap[n].kids /\ heap[n].kids # NoKids
  BY <1>1, <1>2, <1>4 DEF Alive, TypeOK, VersionedNode
<1>7. n \in Alive' => ~Hollow(n)'
  BY <1>6 DEF Hollow, NoKids
<1> QED BY <1>1, <1>2, <1>3, <1>5, <1>6, <1>7, ReturnedShape

\* get_mut writes through the path it has copied.
LEMMA WriteThroughShape ==
  ASSUME IInv, IInv', ShapeInv, NEW h \in Handle, WriteThrough(h) PROVE ShapeInv'
<1>1. /\ TypeOK /\ pc[h] = "write" /\ todo[h] # <<>> /\ trail[h] = <<>>
  BY WasResting DEF IInv, ThreadInv, PhaseOf, WriteThrough, Running
<1>2. PICK n \in Found(root[h], Step(h).key) : heap' = [heap EXCEPT ![n].value = Step(h).val]
  BY DEF WriteThrough
<1>3. n \in Alive /\ heap[n] \in VersionedNode /\ n \in Node /\ Step(h).val \in Val
  BY <1>1, <1>2, AliveTyped, StepTyped DEF Found
<1>4. /\ LocalFrame(h) /\ pc'[h] = "next" /\ trail' = trail
  <2>1. \A g \in Handle \ {h} : ret'[g] = ret[g]
    BY <1>1 DEF WriteThrough, TypeOK
  <2> QED BY <1>1, <2>1 DEF WriteThrough, LocalFrame, SameLocals, TypeOK, handleVars, walkVars
<1>5. /\ \A m \in Alive' : m # n => m \in Alive /\ heap'[m] = heap[m]
      /\ heap'[n].prefix = heap[n].prefix /\ heap'[n].leaf = heap[n].leaf
      /\ heap'[n].kids = heap[n].kids /\ heap'[n].value = Step(h).val
  BY <1>1, <1>2, <1>3 DEF Alive, TypeOK, VersionedNode
<1>6. ~Hollow(n)'
  BY <1>3, <1>5 DEF Hollow
<1>7. ThreadShape(h)'
  BY <1>1, <1>4, NoTrailShape
<1>8. \A m : ~InPieces(h, m)
  BY <1>1, NoPieces
<1> QED BY <1>3, <1>4, <1>5, <1>6, <1>7, <1>8, HeapShape

\* A part of a string begins with the byte it was cut at.
LEMMA SubSeqFirst ==
  ASSUME NEW s \in Seq(Byte), NEW m \in Nat \ {0}, NEW n \in Nat, m <= n, n <= Len(s)
  PROVE  SubSeq(s, m, n) \in Seq(Byte) /\ SubSeq(s, m, n) # <<>> /\ SubSeq(s, m, n)[1] = s[m]
<1>1. \A i \in m..n : s[i] \in Byte
  OBVIOUS
<1>2. /\ SubSeq(s, m, n) \in Seq(Byte) /\ Len(SubSeq(s, m, n)) = n - m + 1
      /\ \A i \in 1..n - m + 1 : SubSeq(s, m, n)[i] = s[m + i - 1]
  BY <1>1, SubSeqProperties
<1>3. 1 \in 1..n - m + 1 /\ m + 1 - 1 = m /\ n - m + 1 # 0
  OBVIOUS
<1>4. SubSeq(s, m, n)[1] = s[m]
  BY <1>2, <1>3
<1>5. SubSeq(s, m, n) # <<>>
  BY <1>2, <1>3
<1> QED BY <1>2, <1>4, <1>5

\* The rest of a key begins with the byte that the edge names.
LEMMA RestFirst ==
  ASSUME NEW k \in Seq(Byte), NEW d \in Nat, d < Len(k)
  PROVE  Rest(k, d) \in Seq(Byte) /\ Rest(k, d) # <<>> /\ Rest(k, d)[1] = k[d + 1]
BY SubSeqFirst DEF Rest

\* A leaf hangs on the first byte of its prefix, has a value and no children.
LEMMA NewLeafMade ==
  ASSUME NEW c \in Node, NEW p \in Seq(Byte), NEW v \in Val, NEW t \in Nat,
         heap'[c] = NewLeaf(p, v, t)
  PROVE  c \in Alive' /\ WellMade(c)' /\ heap'[c].prefix = p
<1>1. heap'[c].value = v /\ heap'[c].prefix = p /\ \A b \in Byte : heap'[c].kids[b] = None
  BY DEF NewLeaf, NoKids
<1>2. ~Hollow(c)'
  BY <1>1 DEF Hollow
<1>3. c \in Alive'
  BY NewNodeTyped, NoKids \in [Byte -> Node \cup {None}] DEF Alive, NoKids
<1> QED BY <1>1, <1>2, <1>3 DEF WellMade

\* A new leaf below the node in hand
LEMMA AddLeafShape ==
  ASSUME IInv, IInv', ShapeInv, NEW h \in Handle, AddLeaf(h) PROVE ShapeInv'
<1>1. /\ TypeOK /\ TypeOK' /\ pc[h] = "edit" /\ pc[h] \in InTree
      /\ PlaceOf(h) \in {"below", "missing", "child"}
  BY DEF IInv, AddLeaf, Unwrapped, Running, InTree
<1>2. PICK n \in Alive : n = cur[h] /\ heap[n] \in VersionedNode /\ n \in Node
  BY <1>1, WasInTree
<1>3. PICK b \in Byte : b = EdgeOf(heap[n], Step(h).key, depth[h])
  BY <1>1, <1>2, AtNode
<1>4. PICK c \in Node : c = New1(h) /\ c \notin Alive
  BY <1>1, FreshNames DEF AddLeaf
<1>5. PICK p \in Seq(Byte) : /\ p = Rest(Step(h).key, depth[h] + Len(heap[n].prefix))
                             /\ p # <<>> /\ p[1] = b
  <2> DEFINE d == depth[h] + Len(heap[n].prefix)
             k == Step(h).key
  <2>1. /\ depth[h] \in Nat /\ Len(heap[n].prefix) \in Nat
        /\ depth[h] + Len(heap[n].prefix) < Len(Step(h).key)
    BY <1>1, <1>2, AtNode
  <2>2. d \in Nat /\ d < Len(k) /\ k \in Seq(Byte) /\ b = k[d + 1] /\ Len(k) \in Nat
    BY <1>1, <1>3, <2>1, WasInTree DEF EdgeOf
  <2> HIDE DEF d, k
  <2>3. Rest(k, d) # <<>> /\ Rest(k, d)[1] = b /\ Rest(k, d) \in Seq(Byte)
    BY <2>2, RestFirst
  <2> QED BY <2>3 DEF d, k
<1>6. Step(h).val \in Val /\ Target(h) \in Nat
  BY <1>1, WasInTree
<1>7. /\ LocalFrame(h) /\ pc'[h] = "up" /\ trail' = trail /\ todo' = todo /\ res'[h] = n
  BY <1>1, <1>2 DEF AddLeaf, ReturnNode, LocalFrame, SameLocals, TypeOK, handleVars, walkVars
<1>8. heap' = [heap EXCEPT ![c] = NewLeaf(p, Step(h).val, Target(h)),
                           ![n] = AddChild(heap[n], b, c)]
  <2>1. heap' = [heap EXCEPT ![c] = NewLeaf(p, Step(h).val, Target(h)),
                             ![n] = AddChild(@, b, c)]
    BY <1>2, <1>3, <1>4, <1>5 DEF AddLeaf
  <2> QED BY <1>2, <1>4, <2>1
<1>9. /\ heap'[c] = NewLeaf(p, Step(h).val, Target(h)) /\ heap'[n] = AddChild(heap[n], b, c)
      /\ \A m \in Alive' : m # n /\ m # c => m \in Alive /\ heap'[m] = heap[m]
  BY <1>1, <1>2, <1>4, <1>8 DEF Alive, TypeOK
<1>10. c \in Alive' /\ WellMade(c)' /\ heap'[c].prefix = p
  BY <1>5, <1>6, <1>9, NewLeafMade
<1>11. /\ heap'[n].prefix = heap[n].prefix /\ ~heap'[n].leaf /\ heap'[n].kids[b] = c
       /\ \A e \in Byte : e # b => heap'[n].kids[e] = heap[n].kids[e]
  BY <1>2, <1>4, <1>9 DEF AddChild, VersionedNode
<1>12. HangsOn(c, b)'
  BY <1>5, <1>10 DEF HangsOn
<1>13. ~Hollow(n)'
  BY <1>4, <1>11 DEF Hollow, NoKids
<1>14. \A e \in Byte : \A k \in Node : heap'[n].kids[e] = k =>
         heap[n].kids[e] = k \/ (~heap'[n].leaf /\ HangsOn(k, e)')
  <2> SUFFICES ASSUME NEW e \in Byte, NEW k \in Node, heap'[n].kids[e] = k, heap[n].kids[e] # k
               PROVE  ~heap'[n].leaf /\ HangsOn(k, e)'
    OBVIOUS
  <2>1. e = b /\ k = c
    BY <1>11
  <2> QED BY <1>11, <1>12, <2>1
<1>15. \A m \in Alive' \ {n} : m \notin Alive => WellMade(m)'
  <2> SUFFICES ASSUME NEW m \in Alive' \ {n}, m \notin Alive PROVE WellMade(m)'
    OBVIOUS
  <2>1. m = c
    BY <1>9
  <2> QED BY <1>10, <2>1
<1> QED BY <1>1, <1>2, <1>4, <1>7, <1>9, <1>11, <1>13, <1>14, <1>15, ReturnedShape

\* The first key of an empty tree
LEMMA StartEmptyShape ==
  ASSUME IInv, IInv', ShapeInv, NEW h \in Handle, StartEmpty(h) PROVE ShapeInv'
<1>1. /\ TypeOK /\ TypeOK' /\ pc[h] = "next" /\ todo[h] # <<>> /\ trail[h] = <<>>
  BY WasResting DEF IInv, StartEmpty, Running
<1>2. LocalFrame(h) /\ trail' = trail /\ pc' = pc
  <2>1. PICK q, r, n, v :
          /\ todo' = [todo EXCEPT ![h] = q] /\ ret' = [ret EXCEPT ![h] = r]
          /\ root' = [root EXCEPT ![h] = n] \/ root' = root
          /\ version' = [version EXCEPT ![h] = v] \/ version' = version
    BY DEF StartEmpty
  <2>2. \A g \in Handle \ {h} : todo'[g] = todo[g] /\ ret'[g] = ret[g]
    BY <1>1, <2>1 DEF TypeOK
  <2>3. \A g \in Handle \ {h} : root'[g] = root[g]
    BY <1>1, <2>1 DEF TypeOK
  <2>4. \A g \in Handle \ {h} : version'[g] = version[g]
    BY <1>1, <2>1 DEF TypeOK
  <2> QED BY <2>1, <2>2, <2>3, <2>4 DEF StartEmpty, LocalFrame, SameLocals, walkVars
<1>3. CASE heap' = heap
  BY <1>1, <1>2, <1>3, RestingShape
<1>4. CASE heap' # heap
  <2>1. Free(h) # {} /\ heap' = [heap EXCEPT ![New1(h)] =
                                   NewLeaf(Step(h).key, Step(h).val, version[h] + 1)]
    BY <1>4 DEF StartEmpty
  <2>2. PICK c \in Node : c = New1(h) /\ c \notin Alive
    BY <1>1, <2>1, FreshNames
  <2>3. Step(h).key \in Seq(Byte) /\ Step(h).val \in Val /\ version[h] + 1 \in Nat
    BY <1>1, StepTyped
  <2>4. /\ heap'[c] = NewLeaf(Step(h).key, Step(h).val, version[h] + 1)
        /\ \A m \in Alive' : m # c => m \in Alive /\ heap'[m] = heap[m]
    BY <1>1, <2>1, <2>2 DEF Alive, TypeOK
  <2>5. \A m \in Alive' \ {None} : m \notin Alive => WellMade(m)'
    <3> SUFFICES ASSUME NEW m \in Alive', m \notin Alive PROVE WellMade(m)'
      OBVIOUS
    <3>1. m = c
      BY <2>4
    <3> QED BY <1>1, <2>3, <2>4, <3>1, NewLeafMade
  <2>6. ThreadShape(h)'
    BY <1>1, <1>2, NoTrailShape
  <2>7. None \notin Alive' /\ \A m : ~InPieces(h, m)
    BY <1>1, NoPieces DEF Alive
  <2> QED BY <1>2, <2>2, <2>4, <2>5, <2>6, <2>7, HeapShape
<1> QED BY <1>3, <1>4

\* A prefix that begins with the next byte of the key matches at least that byte.
LEMMA PrefixLengthPositive ==
  ASSUME NEW p \in Seq(Byte), NEW k \in Seq(Byte), NEW d \in Nat, d < Len(k),
         p # <<>>, p[1] = k[d + 1]
  PROVE  PrefixLengthKey(p, k, d) >= 1
<1> DEFINE S == {i \in 1..Len(p) : d + i <= Len(k) /\ \A j \in 1..i : p[j] = k[d + j]}
<1>1. Len(p) \in Nat \ {0} /\ Len(k) \in Nat
  OBVIOUS
<1>2. IsFiniteSet(1..Len(p)) /\ S \subseteq 1..Len(p)
  BY <1>1, Interval
<1>3. IsFiniteSet(S) /\ Cardinality(S) \in Nat
  BY <1>2, FS_Subset, FS_CardinalityType
<1>4. 1 \in S
  <2>1. 1 \in 1..Len(p) /\ d + 1 <= Len(k) /\ \A j \in 1..1 : j = 1
    BY <1>1
  <2> QED BY <2>1
<1> HIDE DEF S
<1>5. Cardinality(S) # 0
  BY <1>3, <1>4, FS_EmptySet
<1>6. PrefixLengthKey(p, k, d) = Cardinality(S)
  BY DEF PrefixLengthKey, S
<1> QED BY <1>3, <1>5, <1>6

\* A node is split: a new parent above a copy of it, and perhaps a new leaf.
LEMMA SplitShape ==
  ASSUME IInv, IInv', ShapeInv, NEW h \in Handle, Split(h) PROVE ShapeInv'
<1>1. /\ TypeOK /\ TypeOK' /\ pc[h] = "visit" /\ pc[h] \in InTree /\ ThreadShape(h)
      /\ PlaceOf(h) \in {"inside", "diverges"}
  BY DEF IInv, ShapeInv, Split, Running, InTree
<1>2. PICK n \in Alive : n = cur[h] /\ heap[n] \in VersionedNode /\ n \in Node
  BY <1>1, WasInTree
<1>3. PICK k \in Seq(Byte), d \in Nat : k = Step(h).key /\ d = depth[h] /\ Len(k) \in Nat
  BY <1>1, WasInTree, AtNode
<1>4. PICK p \in Seq(Byte), x \in Nat :
        /\ p = heap[n].prefix /\ x = PrefixLengthKey(p, k, d) /\ Len(p) \in Nat /\ x < Len(p)
        /\ d <= Len(k)
        /\ PlaceOf(h) = "diverges" => d + x < Len(k)
  BY <1>1, <1>2, <1>3, AtNode
<1>5. PICK t \in Nat, v \in Val : t = Target(h) /\ v = Step(h).val
  BY <1>1, WasInTree
<1>6. PICK c1 \in Node, c2 \in Node, c3 \in Node :
        /\ c1 = New1(h) /\ c2 = New2(h) /\ c3 = New3(h)
        /\ c1 \notin Alive /\ c2 \notin Alive /\ c3 \notin Alive
        /\ c1 # c2 /\ c1 # c3 /\ c2 # c3
  BY <1>1, FreshNames DEF Split
<1>7. PICK tail \in Seq(Byte), e \in Byte :
        tail = SubSeq(p, x + 1, Len(p)) /\ e = p[x + 1] /\ tail # <<>> /\ tail[1] = e
  <2> DEFINE m == x + 1
             l == Len(p)
  <2>1. m \in Nat \ {0} /\ l \in Nat /\ m <= l /\ l <= Len(p) /\ p[m] \in Byte
    BY <1>4
  <2> HIDE DEF m, l
  <2>2. SubSeq(p, m, l) \in Seq(Byte) /\ SubSeq(p, m, l) # <<>> /\ SubSeq(p, m, l)[1] = p[m]
    BY <2>1, SubSeqFirst
  <2> QED BY <2>1, <2>2 DEF m, l
<1>8. PICK head : head = SubSeq(p, 1, x)
  OBVIOUS
<1>9. PICK rest : rest = Rest(k, d + x)
  OBVIOUS
<1>10. /\ heap' = IF PlaceOf(h) = "inside"
                  THEN [heap EXCEPT
                          ![c1] = NewInner(head, v, [NoKids EXCEPT ![e] = c2], t),
                          ![c2] = [CowClone(heap[n], t) EXCEPT !.prefix = tail]]
                  ELSE [heap EXCEPT
                          ![c1] = NewInner(head, None,
                            [[NoKids EXCEPT ![e] = c2] EXCEPT ![k[d + x + 1]] = c3], t),
                          ![c2] = [CowClone(heap[n], t) EXCEPT !.prefix = tail],
                          ![c3] = NewLeaf(rest, v, t)]
       /\ pc' = [pc EXCEPT ![h] = "up"] /\ res' = [res EXCEPT ![h] = c1]
  <2>1. [CowClone(heap[n], t) EXCEPT !.prefix = SubSeq(@, x + 1, Len(@))]
          = [CowClone(heap[n], t) EXCEPT !.prefix = tail]
    BY <1>2, <1>4, <1>7 DEF CowClone, VersionedNode
  <2> QED BY <1>2, <1>3, <1>4, <1>5, <1>6, <1>7, <1>8, <1>9, <2>1 DEF Split, ReturnNode
<1>11. LocalFrame(h) /\ pc'[h] = "up" /\ trail' = trail /\ todo' = todo /\ res'[h] = c1
  <2>1. /\ UNCHANGED <<handleVars, call, todo, walkVars>>
        /\ ret' = [ret EXCEPT ![h] = IF TopDown(h) THEN Report(h, None) ELSE "true"]
        /\ drops' = [drops EXCEPT ![h] = {n}] /\ cur' = [cur EXCEPT ![h] = None]
    BY <1>2 DEF Split, ReturnNode
  <2>2. pc'[h] = "up" /\ res'[h] = c1
    BY <1>1, <1>10 DEF TypeOK
  <2>3. \A g \in Handle \ {h} :
          /\ ret'[g] = ret[g] /\ pc'[g] = pc[g] /\ cur'[g] = cur[g]
          /\ res'[g] = res[g] /\ drops'[g] = drops[g]
    BY <1>1, <1>10, <2>1 DEF TypeOK
  <2> QED BY <2>1, <2>2, <2>3 DEF LocalFrame, SameLocals, handleVars, walkVars
<1>12. /\ \A m \in Alive : heap'[m] = heap[m]
       /\ heap'[c2] = [CowClone(heap[n], t) EXCEPT !.prefix = tail]
       /\ \A m \in Alive' \ Alive : m \in {c1, c2, c3}
  <2>1. heap \in [Node -> VersionedNode \cup {None}] /\ Alive \subseteq Node
    BY <1>1 DEF Alive, TypeOK
  <2>2. CASE PlaceOf(h) = "inside"
    <3>1. heap' = [heap EXCEPT
                     ![c1] = NewInner(head, v, [NoKids EXCEPT ![e] = c2], t),
                     ![c2] = [CowClone(heap[n], t) EXCEPT !.prefix = tail]]
      BY <1>10, <2>2
    <3> QED BY <1>6, <2>1, <3>1 DEF Alive
  <2>3. CASE PlaceOf(h) # "inside"
    <3>1. heap' = [heap EXCEPT
                     ![c1] = NewInner(head, None,
                       [[NoKids EXCEPT ![e] = c2] EXCEPT ![k[d + x + 1]] = c3], t),
                     ![c2] = [CowClone(heap[n], t) EXCEPT !.prefix = tail],
                     ![c3] = NewLeaf(rest, v, t)]
      BY <1>10, <2>3
    <3> QED BY <1>6, <2>1, <3>1 DEF Alive
  <2> QED BY <2>2, <2>3
<1>13. /\ heap'[c2].prefix = tail /\ heap'[c2].kids = heap[n].kids
       /\ heap'[c2].leaf = heap[n].leaf /\ heap'[c2].value = heap[n].value
  BY <1>2, <1>12 DEF CowClone, VersionedNode
<1>14. HangsOn(c2, e)'
  BY <1>7, <1>13 DEF HangsOn
<1>15. WellMade(c2)'
  <2>1. ~Hollow(n)
    BY <1>2, Solid
  <2>2. ASSUME NEW b \in Byte, NEW m \in Node, heap[n].kids[b] = m
        PROVE  ~heap[n].leaf /\ HangsOn(m, b)'
    <3>1. m \in Alive /\ ~heap[n].leaf /\ HangsOn(m, b)
      BY <1>1, <1>2, <2>2 DEF ShapeInv, EdgesRight, IInv, HeapInv
    <3> QED BY <1>12, <3>1 DEF HangsOn
  <2> QED BY <1>13, <2>1, <2>2 DEF WellMade, Hollow
<1>16. heap'[c1].prefix = head /\ \A m \in Alive' : m \notin Alive => WellMade(m)'
  <2>1. CASE PlaceOf(h) = "inside"
    <3>1. heap'[c1] = NewInner(head, v, [NoKids EXCEPT ![e] = c2], t)
      BY <1>1, <1>6, <1>10, <2>1 DEF TypeOK
    <3>2. /\ heap'[c1].prefix = head /\ ~heap'[c1].leaf /\ heap'[c1].value = v
          /\ \A b \in Byte : heap'[c1].kids[b] = IF b = e THEN c2 ELSE None
      BY <3>1 DEF NewInner, NoKids
    <3>3. ~Hollow(c1)'
      BY <3>2 DEF Hollow
    <3>4. WellMade(c1)'
      BY <1>14, <3>2, <3>3 DEF WellMade
    <3>5. c3 \notin Alive'
      BY <1>1, <1>6, <1>10, <2>1 DEF Alive, TypeOK
    <3>6. ASSUME NEW m \in Alive', m \notin Alive PROVE WellMade(m)'
      <4>1. m = c1 \/ m = c2
        BY <1>12, <3>5, <3>6
      <4> QED BY <1>15, <3>4, <4>1
    <3> QED BY <3>2, <3>6
  <2>2. CASE PlaceOf(h) = "diverges"
    <3>1. PICK b \in Byte : b = k[d + x + 1]
      BY <1>3, <1>4, <2>2
    <3>2. /\ heap'[c3] = NewLeaf(rest, v, t)
          /\ heap'[c1] = NewInner(head, None, [[NoKids EXCEPT ![e] = c2] EXCEPT ![b] = c3], t)
      BY <1>1, <1>6, <1>10, <2>2, <3>1 DEF TypeOK
    <3>3. /\ heap'[c1].prefix = head /\ ~heap'[c1].leaf
          /\ \A a \in Byte : heap'[c1].kids[a] = IF a = b THEN c3 ELSE IF a = e THEN c2 ELSE None
      BY <3>2 DEF NewInner, NoKids
    <3>4. rest \in Seq(Byte) /\ rest # <<>> /\ rest[1] = b
      <4>1. d + x \in Nat /\ d + x < Len(k) /\ d + x + 1 = (d + x) + 1
        BY <1>3, <1>4, <2>2
      <4> QED BY <1>9, <3>1, <4>1, RestFirst
    <3>5. WellMade(c3)' /\ heap'[c3].prefix = rest
      BY <3>2, <3>4, NewLeafMade
    <3>6. HangsOn(c3, b)'
      BY <3>4, <3>5 DEF HangsOn
    <3>7. ~Hollow(c1)'
      BY <3>3 DEF Hollow, NoKids
    <3>8. WellMade(c1)'
      BY <1>14, <3>3, <3>6, <3>7 DEF WellMade
    <3>9. ASSUME NEW m \in Alive', m \notin Alive PROVE WellMade(m)'
      <4>1. m = c1 \/ m = c2 \/ m = c3
        BY <1>12, <3>9
      <4> QED BY <1>15, <3>5, <3>8, <4>1
    <3> QED BY <3>3, <3>9
  <2> QED BY <1>1, <2>1, <2>2
<1>17. HangsBelow(h, res[h])'
  <2> SUFFICES ASSUME trail[h] # <<>>
               PROVE  head # <<>> /\ head[1] = trail[h][Len(trail[h])].edge
    BY <1>11, <1>16 DEF HangsBelow, HangsOn
  <2>1. /\ p # <<>> /\ p[1] = trail[h][Len(trail[h])].edge
        /\ d < Len(k) /\ k[d + 1] = p[1]
    BY <1>1, <1>2, <1>3, <1>4 DEF ThreadShape, HangsBelow, HangsOn
  <2>2. x >= 1
    BY <1>4, <2>1, PrefixLengthPositive
  <2> QED BY <1>4, <1>8, <2>1, <2>2, SubSeqFirst
<1>18. PrefixesKept
  BY <1>12 DEF PrefixesKept
<1>19. ThreadShape(h)'
  BY <1>1, <1>11, <1>17, <1>18, TurnBackShape
<1>20. \A m \in Alive : InPieces(h, m) => InPieces(h, m)'
  BY <1>1, <1>11 DEF InPieces, TopDown, Step, TrailNodes, InTree
<1>21. None \notin Alive'
  BY DEF Alive
<1> QED BY <1>11, <1>12, <1>16, <1>19, <1>20, <1>21, HeapShape

-----------------------------------------------------------------------------
(* The return *)

\* The caller's node takes the returned Arc under the edge b, or is freed.
LEMMA SettledShape ==
  ASSUME IInv, IInv', NEW h \in Handle, NEW p \in Alive, NEW nd \in VersionedNode,
         Settle(h, p, nd), nd.prefix = heap[p].prefix, nd.leaf => heap[p].leaf,
         NEW b \in Byte, res[h] # None => HangsOn(res[h], b),
         \A e \in Byte : nd.kids[e] # None /\ nd.kids[e] # heap[p].kids[e] =>
           e = b /\ nd.kids[e] = res[h] /\ ~nd.leaf
  PROVE  /\ \A m \in Alive' : m # p => m \in Alive /\ heap'[m] = heap[m]
         /\ PrefixesKept
         /\ res'[h] \in {p, None}
         /\ p \in Alive' =>
              /\ heap'[p].prefix = heap[p].prefix
              /\ heap'[p].leaf => heap[p].leaf
              /\ \A e \in Byte : \A k \in Node : heap'[p].kids[e] = k =>
                   heap[p].kids[e] = k \/ (~heap'[p].leaf /\ HangsOn(k, e)')
              /\ ~Hollow(p)'
<1>1. /\ TypeOK /\ HeapInv' /\ heap \in [Node -> VersionedNode \cup {None}]
      /\ res \in [Handle -> Node \cup {None}] /\ None \notin Node
      /\ res[h] # None => res[h] \in Alive
  BY DEF IInv, TypeOK, ThreadInv, HoldsAlive
<1>2. /\ heap' = [heap EXCEPT ![p] = IF nd.kids = NoKids /\ nd.value = None THEN None ELSE nd]
      /\ res' = [res EXCEPT ![h] = IF nd.kids = NoKids /\ nd.value = None THEN None ELSE p]
  BY DEF Settle
<1>3. /\ \A m \in Alive' : m # p => m \in Alive /\ heap'[m] = heap[m]
      /\ res'[h] \in {p, None}
      /\ p \in Alive' => heap'[p] = nd /\ ~(nd.kids = NoKids /\ nd.value = None)
  BY <1>1, <1>2 DEF Alive
<1>4. PrefixesKept
  BY <1>3 DEF PrefixesKept
<1>5. ASSUME p \in Alive', NEW e \in Byte, NEW k \in Node, heap'[p].kids[e] = k,
             heap[p].kids[e] # k
      PROVE  ~heap'[p].leaf /\ HangsOn(k, e)'
  <2>1. e = b /\ k = res[h] /\ ~nd.leaf /\ k # None
    BY <1>1, <1>3, <1>5
  <2>2. k \in Alive /\ k \in Alive' /\ HangsOn(k, e)
    BY <1>1, <1>5, <2>1 DEF HeapInv
  <2> QED BY <1>3, <1>4, <1>5, <2>1, <2>2, HangsStays
<1>6. p \in Alive' => ~Hollow(p)'
  BY <1>3 DEF Hollow
<1> QED BY <1>3, <1>4, <1>5, <1>6

\* insert, remove and get_mut put the child back, or free the parent.
LEMMA ReattachShape ==
  ASSUME IInv, IInv', ShapeInv, NEW h \in Handle, Reattach(h) PROVE ShapeInv'
<1>1. /\ TypeOK /\ ThreadShape(h) /\ pc[h] = "up" /\ pc[h] \in InTree
      /\ trail[h] # <<>> /\ TopDown(h)
  BY DEF IInv, ShapeInv, Reattach, Running, InTree
<1>2. trail'[h] = Front(trail[h])
  BY <1>1 DEF Reattach, Resume, TypeOK
<1>3. PICK p \in Alive, b \in Byte :
        /\ p = Last(trail[h]).node /\ b = Last(trail[h]).edge
        /\ Last(trail[h]) = trail[h][Len(trail[h])] /\ Len(trail[h]) \in Frames(h)
        /\ Frames(h)' \subseteq Frames(h) /\ \A i \in Frames(h)' : trail'[h][i] = trail[h][i]
        /\ Len(trail[h]) \notin Frames(h)'
  <2>1. trail[h][Len(trail[h])].node \in Alive
    BY <1>1, <1>2, WasInTree, Popped
  <2> QED BY <1>1, <1>2, <2>1, Popped
<1>4. heap[p] \in VersionedNode /\ p \in Node
  BY <1>1, <1>3, AliveTyped
<1>5. PICK nd : /\ nd = IF res[h] = None THEN heap[p] ELSE AddChild(heap[p], b, res[h])
                /\ Settle(h, p, nd)
  BY <1>3 DEF Reattach
<1>6. /\ nd \in VersionedNode /\ nd.prefix = heap[p].prefix /\ (nd.leaf => heap[p].leaf)
      /\ \A e \in Byte : nd.kids[e] # heap[p].kids[e] =>
           e = b /\ nd.kids[e] = res[h] /\ ~nd.leaf
  <2>1. CASE res[h] = None
    BY <1>4, <1>5, <2>1
  <2>2. CASE res[h] # None
    <3>1. PICK c \in Node, x \in VersionedNode :
            c = res[h] /\ x = heap[p] /\ nd = AddChild(x, b, c)
      BY <1>1, <1>4, <1>5, <2>2 DEF TypeOK
    <3>2. nd \in VersionedNode /\ \A e \in Byte : nd.kids[e] = IF e = b THEN c ELSE x.kids[e]
      BY <3>1, ChildEdits
    <3>3. nd.prefix = x.prefix /\ ~nd.leaf
      BY <3>1 DEF AddChild, VersionedNode
    <3> QED BY <3>1, <3>2, <3>3
  <2> QED BY <2>1, <2>2
<1>7. res[h] # None => HangsOn(res[h], b)
  BY <1>1, <1>3 DEF ThreadShape, HangsBelow
<1>8. /\ \A m \in Alive' : m # p => m \in Alive /\ heap'[m] = heap[m]
      /\ PrefixesKept
      /\ res'[h] \in {p, None}
      /\ p \in Alive' =>
           /\ heap'[p].prefix = heap[p].prefix
           /\ heap'[p].leaf => heap[p].leaf
           /\ \A e \in Byte : \A k \in Node : heap'[p].kids[e] = k =>
                heap[p].kids[e] = k \/ (~heap'[p].leaf /\ HangsOn(k, e)')
           /\ ~Hollow(p)'
  BY <1>5, <1>6, <1>7, SettledShape
<1>9. LocalFrame(h) /\ pc' = pc /\ todo' = todo
  <2>1. \A g \in Handle \ {h} :
          res'[g] = res[g] /\ trail'[g] = trail[g] /\ depth'[g] = depth[g]
    BY <1>1, <1>5 DEF Settle, Reattach, Resume, TypeOK
  <2> QED BY <2>1 DEF Reattach, Resume, LocalFrame, SameLocals, handleVars, callVars
<1>10. ThreadShape(h)'
  <2>1. /\ \A i \in Frames(h)' : i > 1 => HangsOn(trail[h][i].node, trail[h][i - 1].edge)'
        /\ p \in Alive' => HangsBelow(h, p)'
    BY <1>1, <1>2, <1>3, <1>8, PoppedShape
  <2>2. res'[h] # None => res'[h] = p /\ p \in Alive'
    BY <1>8 DEF IInv, ThreadInv, HoldsAlive
  <2>3. res'[h] # None => HangsBelow(h, res[h])'
    BY <2>1, <2>2 DEF HangsBelow, HangsOn
  <2> QED BY <1>1, <1>9, <2>1, <2>3 DEF ThreadShape
<1>11. ASSUME NEW m \in Alive \ {p}, InPieces(h, m) PROVE InPieces(h, m)'
  <2>1. PICK i \in Frames(h) : trail[h][i].node = m
    BY <1>1, <1>11 DEF InPieces, TrailNodes, Frames, TypeOK
  <2>2. i # Len(trail[h])
    BY <1>3, <1>11, <2>1
  <2>3. i \in Frames(h)'
    BY <1>1, <1>2, <2>1, <2>2 DEF Frames, Front, TypeOK
  <2>4. m \in TrailNodes(h)'
    BY <1>3, <2>1, <2>3 DEF TrailNodes, Frames
  <2> QED BY <1>1, <1>9, <2>4 DEF InPieces, TopDown, Step
<1> QED BY <1>8, <1>9, <1>10, <1>11, HeapShape

\* update puts the new child in the place of the old one.
LEMMA SwapChildShape ==
  ASSUME IInv, IInv', ShapeInv, NEW h \in Handle, SwapChild(h) PROVE ShapeInv'
<1>1. /\ TypeOK /\ ThreadShape(h) /\ pc[h] = "fix" /\ pc[h] \in InTree
  BY DEF IInv, ShapeInv, SwapChild, Unwrapped, Running, InTree
<1>2. PICK n \in Alive, b \in Byte : n = cur[h] /\ b = edge[h] /\ heap[n] \in VersionedNode
                                     /\ n \in Node
  BY <1>1, WasInTree DEF ThreadInv, PhaseOf
<1>3. PICK old : old = DeleteChild(heap[n], b)
  OBVIOUS
<1>4. PICK nd : /\ nd = IF res[h] = None THEN old ELSE AddChild(old, b, res[h])
                /\ Settle(h, n, nd)
  BY <1>2, <1>3 DEF SwapChild
<1>5. /\ old \in VersionedNode /\ \A e \in Byte : old.kids[e] = IF e = b THEN None ELSE heap[n].kids[e]
      /\ old.prefix = heap[n].prefix /\ old.leaf = heap[n].leaf
  <2>1. old \in VersionedNode /\ \A e \in Byte : old.kids[e] = IF e = b THEN None ELSE heap[n].kids[e]
    BY <1>2, <1>3, ChildDeleted
  <2> QED BY <1>2, <1>3, <2>1 DEF DeleteChild, VersionedNode
<1>6. /\ nd \in VersionedNode /\ nd.prefix = heap[n].prefix /\ (nd.leaf => heap[n].leaf)
      /\ \A e \in Byte : nd.kids[e] # None /\ nd.kids[e] # heap[n].kids[e] =>
           e = b /\ nd.kids[e] = res[h] /\ ~nd.leaf
  <2>1. CASE res[h] = None
    BY <1>4, <1>5, <2>1
  <2>2. CASE res[h] # None
    <3>1. PICK c \in Node : c = res[h] /\ nd = AddChild(old, b, c)
      BY <1>1, <1>4, <2>2 DEF TypeOK
    <3>2. nd \in VersionedNode /\ \A e \in Byte : nd.kids[e] = IF e = b THEN c ELSE old.kids[e]
      BY <1>5, <3>1, ChildEdits
    <3>3. nd.prefix = old.prefix /\ ~nd.leaf
      BY <1>5, <3>1 DEF AddChild, VersionedNode
    <3> QED BY <1>5, <3>1, <3>2, <3>3
  <2> QED BY <2>1, <2>2
<1>7. res[h] # None => HangsOn(res[h], b)
  BY <1>1, <1>2 DEF ThreadShape
<1>8. /\ \A m \in Alive' : m # n => m \in Alive /\ heap'[m] = heap[m]
      /\ res'[h] \in {n, None}
      /\ n \in Alive' =>
           /\ heap'[n].prefix = heap[n].prefix
           /\ heap'[n].leaf => heap[n].leaf
           /\ \A e \in Byte : \A k \in Node : heap'[n].kids[e] = k =>
                heap[n].kids[e] = k \/ (~heap'[n].leaf /\ HangsOn(k, e)')
           /\ ~Hollow(n)'
  BY <1>4, <1>6, <1>7, SettledShape
<1>9. LocalFrame(h) /\ pc'[h] = "up" /\ todo' = todo /\ trail' = trail
  <2>1. \A g \in Handle \ {h} : res'[g] = res[g]
    BY <1>1, <1>4 DEF Settle, TypeOK
  <2> QED BY <1>1, <2>1 DEF SwapChild, LocalFrame, SameLocals, TypeOK, handleVars, callVars
<1> QED BY <1>1, <1>2, <1>8, <1>9, ReturnedShape

-----------------------------------------------------------------------------
(* The theorems. *)

\* Every step preserves the invariant of the shape.
LEMMA NextShape == ASSUME IInv, IInv', ShapeInv, [Next]_vars PROVE ShapeInv'
<1>1. CASE UNCHANGED vars
  <2> USE <1>1 DEF vars
  <2>1. EdgesRight'
    BY DEF ShapeInv, EdgesRight, Alive, HangsOn
  <2>2. \A h \in Handle : \A n : InPieces(h, n)' <=> InPieces(h, n)
    BY DEF InPieces, TopDown, Step, TrailNodes
  <2>3. NoneHollow'
    BY <2>2 DEF ShapeInv, NoneHollow, Hollow, Alive
  <2>4. ASSUME NEW h \in Handle PROVE ThreadShape(h)'
    <3>1. ThreadShape(h) /\ PrefixesKept /\ SameWalk(h)
      BY DEF ShapeInv, PrefixesKept, SameWalk
    <3> QED BY <3>1, WalkStays
  <2> QED BY <2>1, <2>3, <2>4 DEF ShapeInv
<1>2. ASSUME NEW h \in Handle, Advance(h)
      PROVE  ShapeInv'
  <2>1. CASE Plan(h) \/ Start(h) \/ Return(h) \/ Install(h)
    BY <2>1, RestingStepShape
  <2>2. CASE RemoveLeaf(h) \/ PathReady(h) \/ Decline(h)
    BY <2>2, StayShape
  <2> QED
    BY <1>2, <2>1, <2>2, ReleaseShape, StartEmptyShape, EnsureCowOwnedShape,
       EnsureCowSharedShape, DescendStepShape, FollowShape, ReplaceValueShape,
       TakeValueShape, AddLeafShape, SplitShape, CallbackPanicShape, ReattachShape,
       BacktrackShape, LiftShape, SwapChildShape, WriteThroughShape DEF Advance
<1>3. ASSUME NEW h \in Handle, Use(h)
      PROVE  ShapeInv'
  BY <1>3, RestingStepShape DEF Use
<1> QED
  BY <1>1, <1>2, <1>3 DEF Next

\* Whatever is called and however the threads interleave, every piece a tree is
\* in hangs where it was found, and only an insert, remove or get_mut that has
\* taken a child out holds a hollow node.
THEOREM ShapeInvariance == Spec => []ShapeInv
<1>1. Init => ShapeInv
  <2> SUFFICES ASSUME Init PROVE ShapeInv
    OBVIOUS
  <2>1. Alive = {}
    BY DEF Init, Alive
  <2>2. \A h \in Handle : Frames(h) = {} /\ pc[h] = "idle"
    BY DEF Init, Frames
  <2> QED
    BY <2>1, <2>2 DEF ShapeInv, EdgesRight, NoneHollow, ThreadShape
<1>2. IInv /\ IInv' /\ ShapeInv /\ [Next]_vars => ShapeInv'
  BY NextShape
<1> QED
  BY <1>1, <1>2, Invariance, PTL DEF Spec

\* Every tree a handle holds is a radix tree: a child's prefix begins with the
\* byte of its edge, leaves have no children, and no node of a tree has neither
\* a value nor a child.
THEOREM RadixShapeHolds == Spec => []RadixShape
<1>1. IInv /\ ShapeInv => RadixShape
  <2> SUFFICES ASSUME IInv, ShapeInv, NEW n \in Alive
               PROVE  /\ Attached(n) => ~Hollow(n)
                      /\ \A b \in Byte : heap[n].kids[b] # None =>
                           ~heap[n].leaf /\ HangsOn(heap[n].kids[b], b)
    BY DEF RadixShape, Hollow, HangsOn
  <2>1. Attached(n) => ~Hollow(n)
    BY Solid DEF Attached
  <2> QED BY <2>1 DEF ShapeInv, EdgesRight
<1> QED
  BY <1>1, Invariance, ShapeInvariance, PTL

-----------------------------------------------------------------------------
(* Induction, over sets instead of predicates *)

\* A set of naturals that is not empty has a least element.
LEMMA Least ==
  ASSUME NEW T, T \subseteq Nat, T # {}
  PROVE  \E x \in T : \A y \in T : x <= y
<1> DEFINE R == {ss \in Nat \X Nat : ss[1] < ss[2]}
<1>1. IsWellFoundedOn(R, Nat)
  BY NatLessThanWellFounded DEF OpToRel
<1>2. \A x, y \in Nat : y < x => <<y, x>> \in R
  OBVIOUS
<1> HIDE DEF R
<1>3. PICK x \in T : \A y \in T : ~ (<<y, x>> \in R)
  BY <1>1, WFMin
<1>4. ASSUME NEW y \in T PROVE x <= y
  <2>1. x \in Nat /\ y \in Nat
    OBVIOUS
  <2>2. ~(y < x)
    BY <1>2, <1>3, <2>1
  <2> QED BY <2>1, <2>2
<1> QED BY <1>4

\* A set that has 0, and n + 1 whenever it has n, has every natural.
LEMMA Induction ==
  ASSUME NEW S, 0 \in S, \A n \in Nat : n \in S => n + 1 \in S
  PROVE  Nat \subseteq S
<1> SUFFICES ASSUME Nat \ S # {} PROVE FALSE
  OBVIOUS
<1>1. PICK m \in Nat \ S : \A y \in Nat \ S : m <= y
  BY Least
<1>2. m - 1 \in Nat /\ (m - 1) + 1 = m
  BY <1>1
<1>3. ~(m <= m - 1) /\ m # 0
  BY <1>1, <1>2
<1>4. m - 1 \in S
  BY <1>1, <1>2, <1>3
<1> QED BY <1>1, <1>2, <1>4

-----------------------------------------------------------------------------
(* The levels of a walk *)

\* f satisfies the recursion that defines Levels, for the levels up to n.
LevelsUpTo(f, r, k, n) ==
  f = [i \in 0..n |-> IF i = 0 THEN {[node |-> r, depth |-> 0]}
                      ELSE {Onward(w, k) : w \in {u \in f[i - 1] : GoesOn(u, k)}}]

\* The recursion has a solution for every number of levels.
LEMMA LevelsExist ==
  ASSUME NEW r, NEW k, NEW n \in Nat
  PROVE  \E f : LevelsUpTo(f, r, k, n)
<1> DEFINE Base == {[node |-> r, depth |-> 0]}
           Deeper(T) == {Onward(w, k) : w \in {u \in T : GoesOn(u, k)}}
           S == {m \in Nat : \E f : LevelsUpTo(f, r, k, m)}
<1>1. 0 \in S
  <2> DEFINE f == [i \in 0..0 |-> Base]
  <2>1. LevelsUpTo(f, r, k, 0)
    <3>1. \A i \in 0..0 : i = 0
      OBVIOUS
    <3> QED BY <3>1 DEF LevelsUpTo
  <2> QED BY <2>1
<1>2. ASSUME NEW m \in Nat, m \in S
      PROVE  m + 1 \in S
  <2>1. PICK f : LevelsUpTo(f, r, k, m)
    BY <1>2
  <2>2. f = [i \in 0..m |-> IF i = 0 THEN Base ELSE Deeper(f[i - 1])]
    BY <2>1 DEF LevelsUpTo
  <2> DEFINE g == [i \in 0..m + 1 |-> IF i <= m THEN f[i] ELSE Deeper(f[m])]
  <2> HIDE DEF Base, Deeper
  <2>3. ASSUME NEW i \in 0..m + 1
        PROVE  g[i] = IF i = 0 THEN Base ELSE Deeper(g[i - 1])
    <3>1. CASE i = 0
      BY <2>2, <3>1
    <3>2. CASE i # 0 /\ i <= m
      <4>1. i \in 0..m /\ i - 1 \in 0..m + 1 /\ i - 1 <= m
        BY <3>2
      <4>2. g[i] = f[i] /\ g[i - 1] = f[i - 1]
        BY <3>2, <4>1
      <4>3. f[i] = Deeper(f[i - 1])
        BY <2>2, <3>2, <4>1
      <4> HIDE DEF g
      <4> QED BY <3>2, <4>2, <4>3
    <3>3. CASE i = m + 1
      <4>1. g[i] = Deeper(f[m]) /\ g[i - 1] = f[m]
        BY <3>3
      <4> QED BY <3>3, <4>1
    <3> QED BY <3>1, <3>2, <3>3
  <2>4. g = [i \in 0..m + 1 |-> IF i = 0 THEN Base ELSE Deeper(g[i - 1])]
    BY <2>3
  <2>5. LevelsUpTo(g, r, k, m + 1)
    BY <2>4, Zenon DEF LevelsUpTo, Base, Deeper
  <2> HIDE DEF g
  <2>6. m + 1 \in Nat /\ \E e : LevelsUpTo(e, r, k, m + 1)
    BY <2>5
  <2> QED BY <2>6
<1> HIDE DEF S
<1>3. n \in S
  BY <1>1, <1>2, Induction
<1> QED BY <1>3 DEF S

\* The levels of a walk, by their recursion.
LEMMA LevelsDef ==
  ASSUME NEW r, NEW k \in Seq(Byte)
  PROVE  /\ Levels(r, k)[0] = {[node |-> r, depth |-> 0]}
         /\ \A i \in 1..Len(k) + 1 :
              Levels(r, k)[i] =
                {Onward(w, k) : w \in {u \in Levels(r, k)[i - 1] : GoesOn(u, k)}}
<1> DEFINE n == Len(k) + 1
           f == Levels(r, k)
           Deeper(T) == {Onward(w, k) : w \in {u \in T : GoesOn(u, k)}}
           Base == {[node |-> r, depth |-> 0]}
<1>1. n \in Nat
  OBVIOUS
<1>2. LevelsUpTo(f, r, k, n)
  <2>1. \E g : LevelsUpTo(g, r, k, n)
    BY <1>1, LevelsExist
  <2>2. f = CHOOSE g : LevelsUpTo(g, r, k, n)
    BY DEF Levels, LevelsUpTo
  <2> HIDE DEF f
  <2> QED BY <2>1, <2>2
<1>3. f = [i \in 0..n |-> IF i = 0 THEN Base ELSE Deeper(f[i - 1])]
  BY <1>2 DEF LevelsUpTo
<1> HIDE DEF f, n, Deeper, Base
<1>4. f[0] = Base
  BY <1>1, <1>3
<1>5. ASSUME NEW i \in 1..n
      PROVE  f[i] = Deeper(f[i - 1])
  <2>1. i \in 0..n /\ i # 0
    BY <1>1
  <2> QED BY <1>3, <2>1
<1> QED BY <1>4, <1>5 DEF f, n, Deeper, Base
-----------------------------------------------------------------------------
(* Paths *)

\* What the walk visits: a union of levels.
LEMMA PathDef ==
  ASSUME NEW r, r # None, NEW k \in Seq(Byte)
  PROVE  \A w : w \in Path(r, k) <=> \E i \in 0..Len(k) + 1 : w \in Levels(r, k)[i]
BY DEF Path

\* The walk visits no more than it must: any set of stops that has the first
\* one, and with each stop the next one, has the whole path.
LEMMA PathLeast ==
  ASSUME NEW r, r # None, NEW k \in Seq(Byte), NEW S,
         [node |-> r, depth |-> 0] \in S,
         \A w \in S : GoesOn(w, k) => Onward(w, k) \in S
  PROVE  Path(r, k) \subseteq S
<1> DEFINE T == {i \in Nat : i <= Len(k) + 1 => Levels(r, k)[i] \subseteq S}
<1>1. Len(k) \in Nat
  OBVIOUS
<1>2. 0 \in T
  BY LevelsDef
<1>3. ASSUME NEW i \in Nat, i \in T
      PROVE  i + 1 \in T
  <2> SUFFICES ASSUME i + 1 <= Len(k) + 1
               PROVE  Levels(r, k)[i + 1] \subseteq S
    OBVIOUS
  <2>1. Levels(r, k)[i] \subseteq S
    BY <1>1, <1>3
  <2>2. i + 1 \in 1..Len(k) + 1 /\ (i + 1) - 1 = i
    BY <1>1
  <2>3. Levels(r, k)[i + 1] =
          {Onward(w, k) : w \in {u \in Levels(r, k)[i] : GoesOn(u, k)}}
    BY <2>2, LevelsDef
  <2> QED BY <2>1, <2>3
<1> HIDE DEF T
<1>4. Nat \subseteq T
  BY <1>2, <1>3, Induction
<1>5. ASSUME NEW i \in 0..Len(k) + 1
      PROVE  Levels(r, k)[i] \subseteq S
  BY <1>1, <1>4 DEF T
<1> QED BY <1>5, PathDef

\* The heap that walks are made for.
TreeHeap == TypeOK /\ HeapInv /\ EdgesRight

\* A stop of a walk for k in the heap.
Stops(k) == {w \in [node : Alive, depth : Nat] : w.depth <= Len(k)}

\* From one stop to the next.
LEMMA OnwardStop ==
  ASSUME TreeHeap, NEW k \in Seq(Byte), NEW w \in Stops(k), GoesOn(w, k)
  PROVE  LET b == EdgeOf(heap[w.node], k, w.depth)
         IN  /\ b \in Byte /\ Onward(w, k).node = heap[w.node].kids[b]
             /\ Onward(w, k).depth = w.depth + Len(heap[w.node].prefix)
             /\ Onward(w, k) \in Stops(k) /\ Onward(w, k).depth < Len(k)
             /\ Len(heap[w.node].prefix) \in Nat
             /\ heap[Onward(w, k).node].prefix # <<>>
<1> DEFINE nd == heap[w.node]
           b == EdgeOf(nd, k, w.depth)
<1>1. w.node \in Alive /\ w.depth \in Nat /\ w.depth <= Len(k) /\ Len(k) \in Nat
  BY DEF Stops
<1>2. nd \in VersionedNode
  BY <1>1, AliveTyped DEF TreeHeap
<1>3. Place(nd, k, w.depth) = "child"
  BY DEF GoesOn
<1>4. nd.prefix \in Seq(Byte) /\ Len(nd.prefix) \in Nat
  BY <1>2 DEF VersionedNode
<1>5. w.depth + Len(nd.prefix) < Len(k) /\ b \in Byte /\ nd.kids[b] # None
  <2> HIDE DEF nd
  <2> QED BY <1>1, <1>2, <1>3, PlaceBounds
<1>6. nd.kids[b] \in Alive /\ heap[nd.kids[b]].prefix # <<>>
  BY <1>1, <1>5 DEF TreeHeap, HeapInv, EdgesRight, HangsOn
<1>7. /\ Onward(w, k).node = nd.kids[b]
      /\ Onward(w, k).depth = w.depth + Len(nd.prefix)
      /\ Onward(w, k) = [node |-> nd.kids[b], depth |-> w.depth + Len(nd.prefix)]
  BY DEF Onward
<1> HIDE DEF nd, b
<1>8. w.depth + Len(nd.prefix) \in Nat
  BY <1>1, <1>4
<1>9. Onward(w, k) \in Stops(k)
  BY <1>1, <1>5, <1>6, <1>7, <1>8 DEF Stops
<1> QED BY <1>4, <1>5, <1>6, <1>7, <1>9 DEF nd, b

\* The path starts at the root, and goes on as long as there is a child for the
\* key: prefixes below the root are not empty, so Len(k) + 1 steps are enough.
LEMMA PathClosed ==
  ASSUME TreeHeap, NEW r \in Alive, NEW k \in Seq(Byte)
  PROVE  /\ Path(r, k) \subseteq Stops(k)
         /\ [node |-> r, depth |-> 0] \in Path(r, k)
         /\ \A w \in Path(r, k) : GoesOn(w, k) => Onward(w, k) \in Path(r, k)
<1> DEFINE start == [node |-> r, depth |-> 0]
           Deep == {w \in Stops(k) : heap[w.node].prefix # <<>>}
           T == {i \in Nat : i <= Len(k) + 1 =>
                   Levels(r, k)[i] \subseteq
                     {w \in Stops(k) : i >= 1 => heap[w.node].prefix # <<>> /\ i <= w.depth + 1}}
<1>1. r # None /\ Len(k) \in Nat /\ start \in Stops(k)
  BY AliveTyped DEF Stops, TreeHeap
<1>2. 0 \in T
  BY <1>1, LevelsDef
<1>3. ASSUME NEW i \in Nat, i \in T
      PROVE  i + 1 \in T
  <2> SUFFICES ASSUME i + 1 <= Len(k) + 1, NEW w \in Levels(r, k)[i + 1]
               PROVE  /\ w \in Stops(k) /\ heap[w.node].prefix # <<>>
                      /\ i + 1 <= w.depth + 1
    OBVIOUS
  <2>1. i + 1 \in 1..Len(k) + 1 /\ (i + 1) - 1 = i /\ i <= Len(k) + 1
    BY <1>1
  <2>2. PICK u \in Levels(r, k)[i] : GoesOn(u, k) /\ w = Onward(u, k)
    BY <2>1, LevelsDef
  <2>3. u \in Stops(k) /\ (i >= 1 => heap[u.node].prefix # <<>> /\ i <= u.depth + 1)
    BY <1>3, <2>1
  <2>4. /\ w \in Stops(k) /\ heap[w.node].prefix # <<>>
        /\ w.depth = u.depth + Len(heap[u.node].prefix)
        /\ Len(heap[u.node].prefix) \in Nat
    BY <2>2, <2>3, OnwardStop
  <2>5. u.depth \in Nat /\ w.depth \in Nat
    BY <2>3, <2>4 DEF Stops
  <2>6. i >= 1 => Len(heap[u.node].prefix) >= 1
    <3>1. u.node \in Alive
      BY <2>3 DEF Stops
    <3>2. heap[u.node].prefix \in Seq(Byte)
      BY <3>1, AliveTyped DEF VersionedNode, TreeHeap
    <3> QED BY <2>3, <2>4, <3>2
  <2> QED BY <2>3, <2>4, <2>5, <2>6
<1> HIDE DEF T
<1>4. Nat \subseteq T
  BY <1>2, <1>3, Induction
<1>5. ASSUME NEW i \in 0..Len(k) + 1, NEW w \in Levels(r, k)[i]
      PROVE  w \in Stops(k) /\ (i >= 1 => heap[w.node].prefix # <<>> /\ i <= w.depth + 1)
  BY <1>1, <1>4, <1>5 DEF T
<1>6. Path(r, k) \subseteq Stops(k)
  BY <1>1, <1>5, PathDef
<1>7. start \in Path(r, k)
  <2>1. start \in Levels(r, k)[0] /\ 0 \in 0..Len(k) + 1
    BY <1>1, LevelsDef
  <2> QED BY <1>1, <2>1, PathDef
<1>8. ASSUME NEW w \in Path(r, k), GoesOn(w, k)
      PROVE  Onward(w, k) \in Path(r, k)
  <2>1. PICK i \in 0..Len(k) + 1 : w \in Levels(r, k)[i]
    BY <1>1, PathDef
  <2>2. w \in Stops(k) /\ (i >= 1 => heap[w.node].prefix # <<>> /\ i <= w.depth + 1)
    BY <1>5, <2>1
  <2>3. Onward(w, k).depth < Len(k) /\ Onward(w, k).depth \in Nat
    BY <1>8, <2>2, OnwardStop DEF Stops
  <2>4. /\ Onward(w, k).depth = w.depth + Len(heap[w.node].prefix)
        /\ Len(heap[w.node].prefix) \in Nat /\ w.depth \in Nat
    BY <1>8, <2>2, OnwardStop DEF Stops
  <2>5. i >= 1 => Len(heap[w.node].prefix) >= 1
    <3>1. w.node \in Alive
      BY <2>2 DEF Stops
    <3>2. heap[w.node].prefix \in Seq(Byte)
      BY <3>1, AliveTyped DEF VersionedNode, TreeHeap
    <3> QED BY <2>2, <2>4, <3>2
  <2>6. i + 1 \in 1..Len(k) + 1 /\ (i + 1) - 1 = i
    BY <1>1, <2>2, <2>3, <2>4, <2>5
  <2>7. Onward(w, k) \in Levels(r, k)[i + 1]
    BY <1>8, <2>1, <2>6, LevelsDef
  <2> QED BY <1>1, <2>6, <2>7, PathDef
<1> QED BY <1>6, <1>7, <1>8

\* What is left of a key, byte by byte.
LEMMA RestBytes ==
  ASSUME NEW k \in Seq(Byte), NEW d \in Nat, d <= Len(k)
  PROVE  /\ Rest(k, d) \in Seq(Byte) /\ Len(Rest(k, d)) = Len(k) - d
         /\ Len(k) - d \in Nat
         /\ \A i \in 1..Len(k) - d : Rest(k, d)[i] = k[d + i]
<1> DEFINE m == d + 1
           n == Len(k)
<1>1. m \in Int /\ n \in Int /\ d = m - 1 /\ m <= n + 1 /\ n - d \in Nat
  OBVIOUS
<1>2. \A i \in m..n : k[i] \in Byte
  OBVIOUS
<1> HIDE DEF m, n
<1>3. /\ SubSeq(k, m, n) \in Seq(Byte)
      /\ Len(SubSeq(k, m, n)) = IF m <= n THEN n - m + 1 ELSE 0
      /\ \A i \in 1..n - m + 1 : SubSeq(k, m, n)[i] = k[m + i - 1]
  BY <1>1, <1>2, SubSeqProperties
<1>4. Len(SubSeq(k, m, n)) = n - d
  BY <1>1, <1>3
<1>5. ASSUME NEW i \in 1..n - d
      PROVE  SubSeq(k, m, n)[i] = k[d + i]
  <2>1. i \in 1..n - m + 1 /\ m + i - 1 = d + i
    BY <1>1
  <2> QED BY <1>3, <2>1
<1> QED BY <1>1, <1>3, <1>4, <1>5 DEF Rest, m, n

\* Cutting a key and walking down it commute.
LEMMA PlaceShift ==
  ASSUME NEW nd \in VersionedNode, NEW k \in Seq(Byte), NEW d \in Nat, d <= Len(k),
         NEW e \in Nat, e <= Len(k) - d
  PROVE  /\ Place(nd, Rest(k, d), e) = Place(nd, k, d + e)
         /\ e + Len(nd.prefix) < Len(k) - d =>
              EdgeOf(nd, Rest(k, d), e) = EdgeOf(nd, k, d + e)
<1>1. PICK s : s = Rest(k, d)
  OBVIOUS
<1>2. /\ s \in Seq(Byte) /\ Len(s) = Len(k) - d /\ Len(s) \in Nat /\ Len(k) \in Nat
      /\ \A i \in 1..Len(s) : s[i] = k[d + i]
  <2>1. /\ Rest(k, d) \in Seq(Byte) /\ Len(Rest(k, d)) = Len(k) - d
        /\ Len(k) - d \in Nat
        /\ \A i \in 1..Len(k) - d : Rest(k, d)[i] = k[d + i]
    BY RestBytes
  <2>2. Len(k) \in Nat
    OBVIOUS
  <2>3. s \in Seq(Byte) /\ Len(s) = Len(k) - d /\ Len(s) \in Nat
    BY <1>1, <2>1
  <2>4. \A i \in 1..Len(s) : s[i] = k[d + i]
    BY <1>1, <2>1, <2>3, Zenon
  <2> QED BY <2>2, <2>3, <2>4
<1>3. PICK p \in Seq(Byte) : p = nd.prefix
  BY DEF VersionedNode
<1>4. ASSUME NEW i \in 1..Len(p)
      PROVE  (e + i <= Len(s) /\ \A j \in 1..i : p[j] = s[e + j])
              <=> ((d + e) + i <= Len(k) /\ \A j \in 1..i : p[j] = k[(d + e) + j])
  <2>1. e + i <= Len(s) <=> (d + e) + i <= Len(k)
    BY <1>2
  <2>2. ASSUME e + i <= Len(s), NEW j \in 1..i
        PROVE  s[e + j] = k[(d + e) + j]
    <3>1. e + j \in 1..Len(s) /\ d + (e + j) = (d + e) + j
      BY <1>2, <2>2
    <3> QED BY <1>2, <3>1
  <2> QED BY <2>1, <2>2
<1>5. PrefixLengthKey(p, s, e) = PrefixLengthKey(p, k, d + e)
  <2> DEFINE A == {i \in 1..Len(p) : e + i <= Len(s) /\ \A j \in 1..i : p[j] = s[e + j]}
             B == {i \in 1..Len(p) : (d + e) + i <= Len(k)
                                     /\ \A j \in 1..i : p[j] = k[(d + e) + j]}
  <2>1. A = B
    BY <1>4
  <2>2. PrefixLengthKey(p, s, e) = Cardinality(A) /\ PrefixLengthKey(p, k, d + e) = Cardinality(B)
    BY DEF PrefixLengthKey
  <2> HIDE DEF A, B
  <2> QED BY <2>1, <2>2
<1>6. Len(s) - e = Len(k) - (d + e)
  BY <1>2
<1>7. e + Len(p) < Len(s) => EdgeOf(nd, s, e) = EdgeOf(nd, k, d + e)
  <2> SUFFICES ASSUME e + Len(p) < Len(s)
               PROVE  s[e + Len(p) + 1] = k[(d + e) + Len(p) + 1]
    BY <1>3 DEF EdgeOf
  <2>1. Len(p) \in Nat
    OBVIOUS
  <2>2. e + Len(p) + 1 \in 1..Len(s) /\ d + (e + Len(p) + 1) = (d + e) + Len(p) + 1
    BY <1>2, <2>1
  <2> QED BY <1>2, <2>2
<1>8. PrefixLengthKey(nd.prefix, s, e) = Len(nd.prefix) /\ Len(nd.prefix) # Len(s) - e
        => e + Len(p) < Len(s)
  <2>1. e <= Len(s) /\ Len(p) \in Nat
    BY <1>2
  <2>2. PrefixLengthKey(p, s, e) \in Nat /\ e + PrefixLengthKey(p, s, e) <= Len(s)
    BY <1>2, <2>1, PrefixLengthBounds
  <2>3. PrefixLengthKey(nd.prefix, s, e) = PrefixLengthKey(p, s, e) /\ Len(nd.prefix) = Len(p)
    BY <1>3
  <2>4. PrefixLengthKey(p, s, e) = Len(p) /\ Len(p) # Len(s) - e => e + Len(p) < Len(s)
    <3> SUFFICES ASSUME PrefixLengthKey(p, s, e) = Len(p), Len(p) # Len(s) - e
                 PROVE  e + Len(p) < Len(s)
      OBVIOUS
    <3>1. e + Len(p) <= Len(s)
      BY <2>2
    <3>2. Len(p) \in Nat /\ Len(s) \in Nat
      BY <1>2, <2>1
    <3>3. ASSUME NEW x \in Nat, NEW y \in Nat, e + x <= y, x # y - e
          PROVE  e + x < y
      BY <3>3
    <3> QED BY <3>1, <3>2, <3>3
  <2> QED BY <2>3, <2>4
<1>9. Place(nd, s, e) = Place(nd, k, d + e)
  <2>1. PrefixLengthKey(nd.prefix, s, e) = PrefixLengthKey(nd.prefix, k, d + e)
    BY <1>3, <1>5
  <2>2. CASE PrefixLengthKey(nd.prefix, s, e) = Len(nd.prefix) /\ Len(nd.prefix) # Len(s) - e
    <3>1. EdgeOf(nd, s, e) = EdgeOf(nd, k, d + e)
      BY <1>7, <1>8, <2>2, Zenon
    <3> QED BY <1>6, <2>1, <2>2, <3>1 DEF Place
  <2>3. CASE ~(PrefixLengthKey(nd.prefix, s, e) = Len(nd.prefix) /\ Len(nd.prefix) # Len(s) - e)
    BY <1>6, <2>1, <2>3 DEF Place
  <2> QED BY <2>2, <2>3
<1> QED BY <1>1, <1>2, <1>3, <1>7, <1>9

\* Below the first stop, the walk for k is the walk for what is left of k.
LEMMA PathBelow ==
  ASSUME TreeHeap, NEW r \in Alive, NEW k \in Seq(Byte),
         Place(heap[r], k, 0) = "child",
         NEW d, d = Len(heap[r].prefix),
         NEW c, c = heap[r].kids[EdgeOf(heap[r], k, 0)]
  PROVE  /\ c \in Alive /\ d \in Nat /\ d < Len(k) /\ Rest(k, d) \in Seq(Byte)
         /\ \A w : w \in Path(r, k) <=>
              \/ w = [node |-> r, depth |-> 0]
              \/ \E u \in Path(c, Rest(k, d)) : w = [node |-> u.node, depth |-> d + u.depth]
<1> DEFINE start == [node |-> r, depth |-> 0]
           s == Rest(k, d)
           Shift(u) == [node |-> u.node, depth |-> d + u.depth]
           below == [node |-> c, depth |-> 0]
<1>1. /\ start \in Stops(k) /\ r # None /\ Len(k) \in Nat
      /\ start.node = r /\ start.depth = 0
  BY AliveTyped DEF Stops, TreeHeap
<1>2. GoesOn(start, k)
  BY <1>1 DEF GoesOn
<1>3. /\ Onward(start, k) \in Stops(k) /\ Onward(start, k).node = c
      /\ Onward(start, k).depth = d /\ d \in Nat /\ d < Len(k)
  <2>1. Onward(start, k).depth = 0 + Len(heap[r].prefix) /\ Len(heap[r].prefix) \in Nat
    BY <1>1, <1>2, OnwardStop
  <2>2. Onward(start, k) \in Stops(k) /\ Onward(start, k).node = c /\ Onward(start, k).depth < Len(k)
    BY <1>1, <1>2, OnwardStop
  <2> QED BY <2>1, <2>2
<1>4. c \in Alive /\ c # None
  BY <1>3, AliveTyped DEF Stops, TreeHeap
<1>5. s \in Seq(Byte) /\ Len(s) = Len(k) - d
  <2>1. d <= Len(k)
    BY <1>1, <1>3
  <2>2. Rest(k, d) \in Seq(Byte) /\ Len(Rest(k, d)) = Len(k) - d
    BY <1>3, <2>1, RestBytes
  <2> QED BY <2>2
<1>6. Onward(start, k) = Shift(below)
  BY <1>1, <1>3 DEF Onward
<1> HIDE DEF start, s, below
<1>7. ASSUME NEW u \in Stops(s)
      PROVE  /\ Shift(u) \in Stops(k) /\ Shift(u).node = u.node /\ Shift(u).depth = d + u.depth
             /\ GoesOn(Shift(u), k) <=> GoesOn(u, s)
             /\ GoesOn(u, s) => Onward(Shift(u), k) = Shift(Onward(u, s))
  <2>1. /\ u.node \in Alive /\ u.depth \in Nat /\ u.depth <= Len(k) - d
        /\ heap[u.node] \in VersionedNode
    BY <1>5, AliveTyped DEF Stops, TreeHeap
  <2>2. /\ Place(heap[u.node], s, u.depth) = Place(heap[u.node], k, d + u.depth)
        /\ u.depth + Len(heap[u.node].prefix) < Len(k) - d =>
             EdgeOf(heap[u.node], s, u.depth) = EdgeOf(heap[u.node], k, d + u.depth)
    <3>1. PICK x \in VersionedNode, e \in Nat : x = heap[u.node] /\ e = u.depth /\ e <= Len(k) - d
      BY <2>1
    <3>2. PICK y \in Nat : y = d /\ y <= Len(k) /\ e <= Len(k) - y
      BY <1>1, <1>3, <3>1
    <3>3. /\ Place(x, Rest(k, y), e) = Place(x, k, y + e)
          /\ e + Len(x.prefix) < Len(k) - y => EdgeOf(x, Rest(k, y), e) = EdgeOf(x, k, y + e)
      BY <3>2, PlaceShift
    <3>4. s = Rest(k, d)
      BY DEF s
    <3> QED BY <3>1, <3>2, <3>3, <3>4
  <2>3. Shift(u) \in Stops(k) /\ Shift(u).node = u.node /\ Shift(u).depth = d + u.depth
    BY <1>1, <1>3, <2>1 DEF Stops
  <2>4. GoesOn(Shift(u), k) <=> GoesOn(u, s)
    BY <2>2, <2>3 DEF GoesOn
  <2>5. ASSUME GoesOn(u, s)
        PROVE  Onward(Shift(u), k) = Shift(Onward(u, s))
    <3>1. /\ Onward(u, s).depth < Len(s) /\ Onward(u, s).depth = u.depth + Len(heap[u.node].prefix)
          /\ Len(heap[u.node].prefix) \in Nat
      BY <1>5, <2>5, OnwardStop
    <3>2. EdgeOf(heap[u.node], s, u.depth) = EdgeOf(heap[u.node], k, d + u.depth)
      BY <1>5, <2>2, <3>1
    <3>3. (d + u.depth) + Len(heap[u.node].prefix) = d + (u.depth + Len(heap[u.node].prefix))
      <4>1. \A x, y, z \in Nat : (z + x) + y = z + (x + y)
        OBVIOUS
      <4>2. d \in Nat /\ u.depth \in Nat /\ Len(heap[u.node].prefix) \in Nat
        BY <1>3, <2>1, <3>1
      <4> QED BY <4>1, <4>2, Zenon
    <3> QED BY <2>3, <3>2, <3>3 DEF Onward
  <2> QED BY <2>3, <2>4, <2>5
<1>8. /\ Path(r, k) \subseteq Stops(k) /\ start \in Path(r, k)
      /\ \A w \in Path(r, k) : GoesOn(w, k) => Onward(w, k) \in Path(r, k)
  BY PathClosed DEF start
<1>9. /\ Path(c, s) \subseteq Stops(s) /\ below \in Path(c, s)
      /\ \A w \in Path(c, s) : GoesOn(w, s) => Onward(w, s) \in Path(c, s)
  BY <1>4, <1>5, PathClosed DEF below
<1>10. ASSUME NEW w \in Path(r, k)
       PROVE  w = start \/ \E u \in Path(c, s) : w = Shift(u)
  <2> DEFINE S == {start} \cup {Shift(u) : u \in Path(c, s)}
  <2>1. start \in S
    OBVIOUS
  <2>2. ASSUME NEW v \in S, GoesOn(v, k)
        PROVE  Onward(v, k) \in S
    <3>1. CASE v = start
      BY <1>6, <1>9, <3>1
    <3>2. CASE v # start
      <4>1. PICK u \in Path(c, s) : v = Shift(u)
        BY <3>2
      <4>2. Onward(v, k) = Shift(Onward(u, s)) /\ Onward(u, s) \in Path(c, s)
        BY <1>7, <1>9, <2>2, <4>1
      <4> QED BY <4>2
    <3> QED BY <3>1, <3>2
  <2> HIDE DEF S
  <2>3. Path(r, k) \subseteq S
    BY <1>1, <2>1, <2>2, PathLeast DEF start
  <2> QED BY <2>3 DEF S
<1>11. ASSUME NEW u \in Path(c, s)
       PROVE  Shift(u) \in Path(r, k)
  <2> DEFINE S == {v \in Stops(s) : Shift(v) \in Path(r, k)}
  <2>1. below \in S
    BY <1>2, <1>6, <1>8, <1>9
  <2>2. ASSUME NEW v \in S, GoesOn(v, s)
        PROVE  Onward(v, s) \in S
    <3>1. Onward(v, s) \in Stops(s)
      BY <1>5, <2>2, OnwardStop
    <3>2. GoesOn(Shift(v), k) /\ Onward(Shift(v), k) = Shift(Onward(v, s)) /\ Shift(v) \in Path(r, k)
      BY <1>7, <2>2
    <3> QED BY <1>8, <3>1, <3>2
  <2> HIDE DEF S
  <2>3. Path(c, s) \subseteq S
    BY <1>4, <1>5, <2>1, <2>2, PathLeast DEF below
  <2> QED BY <2>3 DEF S
<1> QED BY <1>3, <1>4, <1>5, <1>8, <1>10, <1>11 DEF start, s

\* What get_k finds, one node at a time.
LEMMA GetUnfold ==
  ASSUME TreeHeap, NEW r \in Alive, NEW k \in Seq(Byte),
         NEW d, d = Len(heap[r].prefix),
         NEW c, c = heap[r].kids[EdgeOf(heap[r], k, 0)]
  PROVE  /\ Place(heap[r], k, 0) = "at" => Found(r, k) = {r} /\ Get(r, k) = heap[r].value
         /\ Place(heap[r], k, 0) = "child" =>
              Found(r, k) = Found(c, Rest(k, d)) /\ Get(r, k) = Get(c, Rest(k, d))
         /\ Place(heap[r], k, 0) \notin {"at", "child"} => Found(r, k) = {} /\ Get(r, k) = None
<1> DEFINE start == [node |-> r, depth |-> 0]
           Ends(w) == w.node \in Alive /\ Place(heap[w.node], k, w.depth) = "at"
<1>1. r # None /\ start.node = r /\ start.depth = 0
  BY AliveTyped DEF TreeHeap
<1>2. \A x : x \in Found(r, k) <=> \E w \in Path(r, k) : w.node = x /\ Ends(w)
  BY DEF Found
<1>3. CASE Place(heap[r], k, 0) # "child"
  <2>1. Path(r, k) \subseteq {start}
    <3>1. ~GoesOn(start, k)
      BY <1>1, <1>3 DEF GoesOn
    <3> HIDE DEF start
    <3>2. start \in {start} /\ \A w \in {start} : GoesOn(w, k) => Onward(w, k) \in {start}
      BY <3>1
    <3> QED BY <1>1, <3>2, PathLeast DEF start
  <2>2. start \in Path(r, k)
    BY PathClosed
  <2>3. Ends(start) <=> Place(heap[r], k, 0) = "at"
    BY <1>1
  <2> HIDE DEF start, Ends
  <2>4. Place(heap[r], k, 0) = "at" => Found(r, k) = {r}
    BY <1>1, <1>2, <2>1, <2>2, <2>3
  <2>5. Place(heap[r], k, 0) # "at" => Found(r, k) = {}
    BY <1>2, <2>1, <2>3
  <2>6. Pick({r}) = r
    BY DEF Pick
  <2> QED BY <1>3, <2>4, <2>5, <2>6 DEF Get
<1>4. CASE Place(heap[r], k, 0) = "child"
  <2> DEFINE s == Rest(k, d)
  <2>1. /\ c \in Alive /\ d \in Nat /\ d < Len(k) /\ s \in Seq(Byte)
        /\ \A w : w \in Path(r, k) <=>
             \/ w = start
             \/ \E u \in Path(c, s) : w = [node |-> u.node, depth |-> d + u.depth]
    BY <1>4, PathBelow
  <2>2. ~Ends(start)
    BY <1>1, <1>4
  <2>3. Path(c, s) \subseteq Stops(s)
    BY <2>1, PathClosed
  <2>4. ASSUME NEW u \in Path(c, s)
        PROVE  Ends([node |-> u.node, depth |-> d + u.depth])
                 <=> u.node \in Alive /\ Place(heap[u.node], s, u.depth) = "at"
    <3>1. d <= Len(k) /\ Len(s) = Len(k) - d
      <4>1. d <= Len(k)
        BY <2>1
      <4> QED BY <2>1, <4>1, RestBytes
    <3>2. u.node \in Alive /\ u.depth \in Nat /\ u.depth <= Len(k) - d
      BY <2>3, <3>1 DEF Stops
    <3>3. heap[u.node] \in VersionedNode
      BY <3>2, AliveTyped DEF TreeHeap
    <3>4. Place(heap[u.node], s, u.depth) = Place(heap[u.node], k, d + u.depth)
      BY <2>1, <3>1, <3>2, <3>3, PlaceShift
    <3> QED BY <3>4
  <2>5. \A x : x \in Found(c, s) <=>
          \E u \in Path(c, s) : u.node = x /\ u.node \in Alive /\ Place(heap[u.node], s, u.depth) = "at"
    BY DEF Found
  <2> HIDE DEF start, s, Ends
  <2>6. Found(r, k) = Found(c, s)
    <3>1. ASSUME NEW x \in Found(r, k)
          PROVE  x \in Found(c, s)
      <4>1. PICK w \in Path(r, k) : w.node = x /\ Ends(w)
        BY <1>2
      <4>2. PICK u \in Path(c, s) : w = [node |-> u.node, depth |-> d + u.depth]
        BY <2>1, <2>2, <4>1
      <4> QED BY <2>4, <2>5, <4>1, <4>2
    <3>2. ASSUME NEW x \in Found(c, s)
          PROVE  x \in Found(r, k)
      <4>1. PICK u \in Path(c, s) : u.node = x /\ u.node \in Alive /\ Place(heap[u.node], s, u.depth) = "at"
        BY <2>5
      <4> DEFINE w == [node |-> u.node, depth |-> d + u.depth]
      <4>2. w \in Path(r, k) /\ Ends(w) /\ w.node = x
        BY <2>1, <2>4, <4>1
      <4> QED BY <1>2, <4>2
    <3> QED BY <3>1, <3>2
  <2> QED BY <1>4, <2>6 DEF Get, s
<1> QED BY <1>3, <1>4
-----------------------------------------------------------------------------
(* Walks before and after a step *)

\* The laws above, as formulas that hold of every state, before a step and after.
PathClosedLaw ==
  TreeHeap => \A r \in Alive : \A k \in Seq(Byte) :
    /\ Path(r, k) \subseteq Stops(k)
    /\ [node |-> r, depth |-> 0] \in Path(r, k)
    /\ \A w \in Path(r, k) : GoesOn(w, k) => Onward(w, k) \in Path(r, k)

PathLeastLaw ==
  \A r : \A k \in Seq(Byte) : \A S :
    /\ r # None /\ [node |-> r, depth |-> 0] \in S
    /\ \A w \in S : GoesOn(w, k) => Onward(w, k) \in S
    => Path(r, k) \subseteq S

OnwardStopLaw ==
  TreeHeap => \A k \in Seq(Byte) : \A w \in Stops(k) : GoesOn(w, k) =>
    LET b == EdgeOf(heap[w.node], k, w.depth)
    IN  /\ b \in Byte /\ Onward(w, k).node = heap[w.node].kids[b]
        /\ Onward(w, k) \in Stops(k)

GetUnfoldLaw ==
  TreeHeap => \A r \in Alive : \A k \in Seq(Byte) :
    LET d == Len(heap[r].prefix)
        c == heap[r].kids[EdgeOf(heap[r], k, 0)]
    IN  /\ Place(heap[r], k, 0) = "at" => Found(r, k) = {r} /\ Get(r, k) = heap[r].value
        /\ Place(heap[r], k, 0) = "child" =>
             Found(r, k) = Found(c, Rest(k, d)) /\ Get(r, k) = Get(c, Rest(k, d))
        /\ Place(heap[r], k, 0) \notin {"at", "child"} => Found(r, k) = {} /\ Get(r, k) = None

\* They hold.
LEMMA PathClosedAlways == PathClosedLaw
BY PathClosed, Zenon DEF PathClosedLaw

\* They hold.
LEMMA PathLeastAlways == PathLeastLaw
BY PathLeast DEF PathLeastLaw

\* They hold.
LEMMA OnwardStopAlways == OnwardStopLaw
BY OnwardStop, Zenon DEF OnwardStopLaw

\* They hold.
LEMMA GetUnfoldAlways == GetUnfoldLaw
<1> SUFFICES ASSUME TreeHeap, NEW r \in Alive, NEW k \in Seq(Byte)
             PROVE
    LET d == Len(heap[r].prefix)
        c == heap[r].kids[EdgeOf(heap[r], k, 0)]
    IN  /\ Place(heap[r], k, 0) = "at" => Found(r, k) = {r} /\ Get(r, k) = heap[r].value
        /\ Place(heap[r], k, 0) = "child" =>
             Found(r, k) = Found(c, Rest(k, d)) /\ Get(r, k) = Get(c, Rest(k, d))
        /\ Place(heap[r], k, 0) \notin {"at", "child"} => Found(r, k) = {} /\ Get(r, k) = None
  BY DEF GetUnfoldLaw
<1> QED BY GetUnfold, Zenon

\* A set of nodes with everything that hangs below them.
Downward(C) ==
  C \subseteq Alive /\ \A n \in C : \A b \in Byte : heap[n].kids[b] # None => heap[n].kids[b] \in C

\* A step that leaves a node where walks go as it was.
SameRoute(n) ==
  /\ heap'[n] # None /\ heap'[n].prefix = heap[n].prefix
  /\ heap'[n].leaf = heap[n].leaf /\ heap'[n].kids = heap[n].kids

\* Walks that stay among such nodes visit and find the same after the step.
LEMMA PathSame ==
  ASSUME TreeHeap, TreeHeap', NEW C, Downward(C), \A n \in C : SameRoute(n),
         NEW r \in C, NEW k \in Seq(Byte)
  PROVE  Path(r, k)' = Path(r, k) /\ Found(r, k)' = Found(r, k)
         /\ \A w \in Path(r, k) : w.node \in C
<1>1. PathClosedLaw' /\ PathLeastLaw'
  BY PathClosedAlways, PathLeastAlways, PTL
<1> DEFINE start == [node |-> r, depth |-> 0]
           Inside == {w \in Stops(k) : w.node \in C}
<1>2. r \in Alive /\ r \in Alive' /\ r # None /\ start.node = r
  BY AliveTyped DEF Downward, SameRoute, Alive, TreeHeap
<1>3. ASSUME NEW w \in Inside
      PROVE  /\ GoesOn(w, k)' <=> GoesOn(w, k)
             /\ Onward(w, k)' = Onward(w, k)
             /\ GoesOn(w, k) => Onward(w, k) \in Inside
  <2>1. w.node \in C /\ SameRoute(w.node) /\ w \in Stops(k)
    OBVIOUS
  <2>2. EdgeOf(heap'[w.node], k, w.depth) = EdgeOf(heap[w.node], k, w.depth)
    BY <2>1 DEF EdgeOf, SameRoute
  <2>3. Place(heap'[w.node], k, w.depth) = Place(heap[w.node], k, w.depth)
    BY <2>1, <2>2 DEF Place, SameRoute
  <2>4. Onward(w, k)' = Onward(w, k)
    BY <2>1, <2>2 DEF Onward, SameRoute
  <2>5. ASSUME GoesOn(w, k) PROVE Onward(w, k) \in Inside
    <3>1. PICK b \in Byte : Onward(w, k).node = heap[w.node].kids[b] /\ Onward(w, k) \in Stops(k)
      BY <2>1, <2>5, OnwardStop
    <3>2. Onward(w, k).node # None
      BY <3>1, AliveTyped DEF Stops, TreeHeap
    <3>3. Onward(w, k).node \in C
      BY <2>1, <3>1, <3>2 DEF Downward
    <3> QED BY <3>1, <3>3
  <2> QED BY <2>3, <2>4, <2>5 DEF GoesOn
<1>4. /\ start \in Path(r, k) /\ start \in Path(r, k)'
      /\ Path(r, k) \subseteq Stops(k)
      /\ \A w \in Path(r, k) : GoesOn(w, k) => Onward(w, k) \in Path(r, k)
      /\ \A w \in Path(r, k)' : GoesOn(w, k)' => Onward(w, k)' \in Path(r, k)'
  <2>1. start' = start
    OBVIOUS
  <2> QED BY <1>1, <1>2, <2>1, PathClosed DEF PathClosedLaw
<1>5. start \in Inside
  BY <1>2, <1>4
<1> HIDE DEF start, Inside
<1>6. Path(r, k) \subseteq Inside
  BY <1>2, <1>3, <1>5, PathLeast DEF start
<1>7. Path(r, k) \subseteq Path(r, k)'
  <2> DEFINE S == Inside \cap Path(r, k)'
  <2>1. start \in S /\ \A w \in S : GoesOn(w, k) => Onward(w, k) \in S
    BY <1>3, <1>4, <1>5
  <2> HIDE DEF S
  <2>2. Path(r, k) \subseteq S
    BY <1>2, <2>1, PathLeast DEF start
  <2> QED BY <2>2 DEF S
<1>8. Path(r, k)' \subseteq Path(r, k)
  <2>1. \A w \in Path(r, k) : GoesOn(w, k)' => Onward(w, k)' \in Path(r, k)
    BY <1>3, <1>4, <1>6
  <2>2. [node |-> r, depth |-> 0] \in Path(r, k)
    BY <1>4 DEF start
  <2> QED BY <1>1, <1>2, <2>1, <2>2 DEF PathLeastLaw
<1>9. Path(r, k)' = Path(r, k)
  BY <1>7, <1>8
<1>10. \A w \in Path(r, k) : w.node \in C
  BY <1>6 DEF Inside
<1>11. ASSUME NEW w \in Path(r, k)
       PROVE  /\ w.node \in Alive' <=> w.node \in Alive
              /\ Place(heap'[w.node], k, w.depth) = Place(heap[w.node], k, w.depth)
  <2>1. SameRoute(w.node) /\ w.node \in Alive /\ w.node \in Alive'
    BY <1>10 DEF Downward, SameRoute, Alive
  <2>2. EdgeOf(heap'[w.node], k, w.depth) = EdgeOf(heap[w.node], k, w.depth)
    BY <2>1 DEF EdgeOf, SameRoute
  <2> QED BY <2>1, <2>2 DEF Place, SameRoute
<1>12. Found(r, k)' = Found(r, k)
  <2>1. \A x : x \in Found(r, k) <=> \E w \in Path(r, k) :
          w.node = x /\ w.node \in Alive /\ Place(heap[w.node], k, w.depth) = "at"
    BY DEF Found
  <2>2. \A x : x \in Found(r, k)' <=> \E w \in Path(r, k)' :
          w.node = x /\ w.node \in Alive' /\ Place(heap'[w.node], k, w.depth) = "at"
    BY DEF Found
  <2>3. \A x : x \in Found(r, k)' <=> x \in Found(r, k)
    BY <1>9, <1>11, <2>1, <2>2
  <2> QED BY <2>3
<1> QED BY <1>9, <1>10, <1>12

\* If the values there are kept as well, get_k answers the same.
LEMMA GetSame ==
  ASSUME TreeHeap, TreeHeap', NEW C, Downward(C),
         \A n \in C : SameRoute(n) /\ heap'[n].value = heap[n].value,
         NEW r \in C, NEW k \in Seq(Byte)
  PROVE  Get(r, k)' = Get(r, k)
<1>1. Found(r, k)' = Found(r, k) /\ \A w \in Path(r, k) : w.node \in C
  BY PathSame
<1>2. Found(r, k) \subseteq C
  BY <1>1 DEF Found
<1>3. Found(r, k) # {} => Pick(Found(r, k)) \in C
  BY <1>2 DEF Pick
<1> QED BY <1>1, <1>3 DEF Get
-----------------------------------------------------------------------------
(* What the common length of a prefix and a key says of their bytes *)

\* The first c bytes of p are those of k from d on, and there the match ends.
MatchesFor(p, k, d, c) ==
  /\ c <= Len(p) /\ d + c <= Len(k)
  /\ \A i \in 1..c : p[i] = k[d + i]
  /\ c < Len(p) /\ d + c < Len(k) => p[c + 1] # k[d + c + 1]

\* Partial::prefix_length_key counts the bytes before the first difference.
LEMMA PrefixLengthMeans ==
  ASSUME NEW p \in Seq(Byte), NEW k \in Seq(Byte), NEW d \in Nat, d <= Len(k)
  PROVE  \A c \in Nat : c = PrefixLengthKey(p, k, d) <=> MatchesFor(p, k, d, c)
<1> DEFINE S == {i \in 1..Len(p) : d + i <= Len(k) /\ \A j \in 1..i : p[j] = k[d + j]}
<1>1. Len(p) \in Nat /\ Len(k) \in Nat /\ PrefixLengthKey(p, k, d) = Cardinality(S)
  BY DEF PrefixLengthKey
<1>2. ASSUME NEW c \in Nat, MatchesFor(p, k, d, c)
      PROVE  c = PrefixLengthKey(p, k, d)
  <2>1. /\ c <= Len(p) /\ d + c <= Len(k) /\ \A i \in 1..c : p[i] = k[d + i]
        /\ c < Len(p) /\ d + c < Len(k) => p[c + 1] # k[d + c + 1]
    BY <1>2 DEF MatchesFor
  <2>2. ASSUME NEW i \in 1..c PROVE i \in S
    <3>1. i \in 1..Len(p) /\ d + i <= Len(k) /\ \A j \in 1..i : j \in 1..c
      BY <1>1, <2>1
    <3> QED BY <2>1, <3>1
  <2>3. ASSUME NEW i \in S PROVE i \in 1..c
    <3> SUFFICES ASSUME ~(i <= c) PROVE FALSE
      BY <1>1
    <3>1. /\ i \in 1..Len(p) /\ d + i <= Len(k) /\ \A j \in 1..i : p[j] = k[d + j]
          /\ c + 1 \in 1..i
      BY <1>1
    <3>2. c < Len(p) /\ d + c < Len(k) /\ d + (c + 1) = d + c + 1
      BY <1>1, <3>1
    <3> QED BY <2>1, <3>1, <3>2
  <2> HIDE DEF S
  <2>4. S = 1..c
    BY <2>2, <2>3
  <2> QED BY <1>1, <2>4, Interval
<1>3. \E c \in Nat : MatchesFor(p, k, d, c)
  <2> DEFINE T == {m \in Nat \ {0} : m \notin S}
  <2>1. Len(p) + 1 \in T
    BY <1>1
  <2>2. T \subseteq Nat /\ T # {}
    BY <2>1
  <2> HIDE DEF T
  <2>3. PICK m \in T : \A y \in T : m <= y
    BY <2>2, Least
  <2> DEFINE c == m - 1
  <2>4. m \in Nat \ {0} /\ m \notin S /\ c \in Nat /\ c + 1 = m
    BY <2>3 DEF T
  <2>5. \A i \in 1..c : i \in S
    <3> SUFFICES ASSUME NEW i \in 1..c, i \notin S PROVE FALSE
      OBVIOUS
    <3>1. i \in T /\ i < m
      BY <2>4 DEF T
    <3> QED BY <2>3, <2>4, <3>1
  <2>6. c <= Len(p) /\ d + c <= Len(k) /\ \A i \in 1..c : p[i] = k[d + i]
    <3>1. CASE c = 0
      BY <1>1, <3>1
    <3>2. CASE c # 0
      <4>1. c \in S /\ c \in 1..c
        BY <2>4, <2>5, <3>2
      <4> QED BY <1>1, <4>1
    <3> QED BY <3>1, <3>2
  <2>7. c < Len(p) /\ d + c < Len(k) => p[c + 1] # k[d + c + 1]
    <3> SUFFICES ASSUME c < Len(p), d + c < Len(k), p[c + 1] = k[d + c + 1]
                 PROVE  m \in S
      BY <2>4
    <3>1. m \in 1..Len(p) /\ d + m <= Len(k) /\ d + c + 1 = d + m
      BY <1>1, <2>4
    <3>2. ASSUME NEW j \in 1..m PROVE p[j] = k[d + j]
      <4>1. j \in 1..c \/ j = m
        BY <2>4
      <4> QED BY <2>4, <2>6, <3>1, <4>1
    <3> QED BY <3>1, <3>2
  <2> QED BY <2>4, <2>6, <2>7 DEF MatchesFor
<1> HIDE DEF S
<1>4. PICK c \in Nat : MatchesFor(p, k, d, c)
  BY <1>3
<1>5. c = PrefixLengthKey(p, k, d)
  BY <1>2, <1>4
<1> QED BY <1>2, <1>4, <1>5

\* The whole prefix is found in k at d.
PrefixAt(p, k, d) == d + Len(p) <= Len(k) /\ \A i \in 1..Len(p) : p[i] = k[d + i]

\* The places where the walk goes through a node's whole prefix, by their bytes.
LEMMA PlaceMeans ==
  ASSUME NEW nd \in VersionedNode, NEW k \in Seq(Byte), NEW d \in Nat, d <= Len(k)
  PROVE  LET p == nd.prefix
             place == Place(nd, k, d)
         IN  /\ place = "at" <=> PrefixAt(p, k, d) /\ d + Len(p) = Len(k)
             /\ place \in {"below", "missing", "child"} <=>
                  PrefixAt(p, k, d) /\ d + Len(p) < Len(k)
             /\ place = "child" <=>
                  /\ PrefixAt(p, k, d) /\ d + Len(p) < Len(k)
                  /\ ~nd.leaf /\ nd.kids[EdgeOf(nd, k, d)] # None
             /\ PrefixAt(p, k, d) <=> PrefixLengthKey(p, k, d) = Len(p)
<1>1. PICK p \in Seq(Byte) : p = nd.prefix
  BY DEF VersionedNode
<1>2. PICK c \in Nat : c = PrefixLengthKey(p, k, d)
  BY PrefixLengthBounds
<1>3. Len(p) \in Nat /\ Len(k) \in Nat /\ c <= Len(p) /\ d + c <= Len(k)
  <2>1. PrefixLengthKey(p, k, d) <= Len(p) /\ d + PrefixLengthKey(p, k, d) <= Len(k)
    BY PrefixLengthBounds
  <2> QED BY <1>2, <2>1
<1>4. PrefixAt(p, k, d) <=> c = Len(p)
  <2>1. Len(p) = PrefixLengthKey(p, k, d) <=> MatchesFor(p, k, d, Len(p))
    BY <1>3, PrefixLengthMeans
  <2>2. MatchesFor(p, k, d, Len(p)) <=> PrefixAt(p, k, d)
    BY <1>3 DEF MatchesFor, PrefixAt
  <2> QED BY <1>2, <2>1, <2>2
<1>5. c = Len(k) - d <=> d + c = Len(k)
  BY <1>3
<1>6. d + c < Len(k) <=> c # Len(k) - d
  BY <1>3
<1>7. PrefixLengthKey(nd.prefix, k, d) = c
  BY <1>1, <1>2
<1>8. /\ c = Len(p) /\ c = Len(k) - d => Place(nd, k, d) = "at"
      /\ c # Len(p) /\ c = Len(k) - d => Place(nd, k, d) = "inside"
      /\ c # Len(p) /\ c # Len(k) - d => Place(nd, k, d) = "diverges"
      /\ c = Len(p) /\ c # Len(k) - d =>
           Place(nd, k, d) = IF nd.leaf THEN "below"
                             ELSE IF nd.kids[EdgeOf(nd, k, d)] = None THEN "missing" ELSE "child"
  BY <1>1, <1>7 DEF Place
<1>9. Place(nd, k, d) = "at" <=> (c = Len(p) /\ c = Len(k) - d)
  BY <1>8
<1>10. Place(nd, k, d) \in {"below", "missing", "child"} <=> (c = Len(p) /\ c # Len(k) - d)
  BY <1>8
<1>11. Place(nd, k, d) = "child" <=>
         (c = Len(p) /\ c # Len(k) - d /\ ~nd.leaf /\ nd.kids[EdgeOf(nd, k, d)] # None)
  BY <1>8
<1>12. (c = Len(k) - d <=> c + d = Len(k)) /\ (c # Len(k) - d /\ c = Len(p) <=> c = Len(p) /\ d + Len(p) < Len(k))
  BY <1>3
<1> QED BY <1>1, <1>3, <1>4, <1>7, <1>9, <1>10, <1>11, <1>12
-----------------------------------------------------------------------------
(* What Split builds *)

\* The new node c1 keeps the first bytes of n's prefix, which agree with the
\* key, above a copy c2 of n and, unless the key ends there, above a leaf c3.
IsSplit(h, c1, c2, c3, common) ==
  LET n == cur[h]
      p == heap[n].prefix
      key == Step(h).key
      ends == PlaceOf(h) = "inside"
  IN
  /\ c1 # c2 /\ c1 # c3 /\ c2 # c3
  /\ c1 \notin Alive /\ c2 \notin Alive /\ c3 \notin Alive
  /\ common < Len(p) /\ p[common + 1] \in Byte
  /\ MatchesFor(p, key, depth[h], common)
  /\ ends <=> depth[h] + common = Len(key)
  /\ cur'[h] = None /\ res'[h] = c1 /\ drops'[h] = {n}
  /\ \A m \in Alive : m \in Alive' /\ heap'[m] = heap[m]
  /\ \A m \in Alive' : m \in Alive \/ m = c1 \/ m = c2 \/ (m = c3 /\ ~ends)
  /\ c1 \in Alive' /\ c2 \in Alive'
  /\ heap'[c1].prefix = SubSeq(p, 1, common) /\ ~heap'[c1].leaf
  /\ heap'[c1].value = IF ends THEN Step(h).val ELSE None
  /\ \A b \in Byte : heap'[c1].kids[b] = IF ~ends /\ b = key[depth[h] + common + 1] THEN c3
                                         ELSE IF b = p[common + 1] THEN c2 ELSE None
  /\ heap'[c2].prefix = SubSeq(p, common + 1, Len(p)) /\ heap'[c2].leaf = heap[n].leaf
  /\ heap'[c2].value = heap[n].value /\ heap'[c2].kids = heap[n].kids
  /\ ~ends => /\ c3 \in Alive' /\ key[depth[h] + common + 1] \in Byte
              /\ heap'[c3].prefix = Rest(key, depth[h] + common) /\ heap'[c3].leaf
              /\ heap'[c3].value = Step(h).val /\ heap'[c3].kids = NoKids

\* A split does no more and no less.
LEMMA SplitMeans ==
  ASSUME IInv, NEW h \in Handle, Split(h)
  PROVE  \E c1, c2, c3 \in Node : \E common \in Nat : IsSplit(h, c1, c2, c3, common)
<1> USE DEF handleVars, callVars, walkVars
<1>1. /\ TypeOK /\ pc[h] = "visit" /\ drops[h] = {} /\ PlaceOf(h) \in {"inside", "diverges"}
      /\ Free(h) \ {New1(h), New2(h)} # {} /\ pc[h] \in InTree
  BY DEF Split, Running, IInv, InTree
<1>2. PICK n, nd, p, s, key, t, d : /\ n = cur[h] /\ nd = heap[n] /\ p = nd.prefix
                                    /\ s = Step(h) /\ key = s.key /\ t = Target(h) /\ d = depth[h]
  OBVIOUS
<1>3. /\ n \in Alive /\ n \in Node /\ nd \in VersionedNode /\ s \in Call /\ key \in Seq(Byte)
      /\ s.val \in Val /\ t \in Nat /\ d \in Nat /\ d <= Len(key) /\ p \in Seq(Byte)
      /\ Len(key) \in Nat /\ Len(p) \in Nat
  BY <1>1, <1>2, WasInTree, AtNode DEF VersionedNode
<1>4. PICK common \in Nat : common = PrefixLengthKey(p, key, d)
  BY <1>3, PrefixLengthBounds
<1>5. MatchesFor(p, key, d, common)
  BY <1>3, <1>4, PrefixLengthMeans
<1>6. PICK ends \in BOOLEAN : ends <=> PlaceOf(h) = "inside"
  OBVIOUS
<1>7. common < Len(p) /\ d + common <= Len(key) /\ (ends <=> d + common = Len(key))
  <2>1. Place(nd, key, d) = PlaceOf(h)
    BY <1>2 DEF PlaceOf
  <2>2. common < Len(p) /\ d + common <= Len(key)
    BY <1>1, <1>2, <1>4, AtNode
  <2>3. ends <=> common = Len(key) - d
    BY <1>1, <1>2, <1>4, <1>6, <2>1 DEF Place
  <2> QED BY <1>3, <2>2, <2>3
<1>8. p[common + 1] \in Byte /\ (~ends => key[d + common + 1] \in Byte)
  BY <1>3, <1>7
<1>9. PICK c1, c2, c3 \in Node : /\ c1 = New1(h) /\ c2 = New2(h) /\ c3 = New3(h)
                                 /\ c1 # c2 /\ c1 # c3 /\ c2 # c3
                                 /\ c1 \notin Alive /\ c2 \notin Alive /\ c3 \notin Alive
  BY <1>1, FreshNames
<1>10. PICK kids, both, copy, leaf, top :
         /\ kids = [NoKids EXCEPT ![p[common + 1]] = c2]
         /\ both = [kids EXCEPT ![key[d + common + 1]] = c3]
         /\ copy = [CowClone(nd, t) EXCEPT !.prefix = SubSeq(@, common + 1, Len(@))]
         /\ leaf = NewLeaf(Rest(key, d + common), s.val, t)
         /\ top = IF ends THEN NewInner(SubSeq(p, 1, common), s.val, kids, t)
                          ELSE NewInner(SubSeq(p, 1, common), None, both, t)
  OBVIOUS
<1>11. /\ copy.prefix = SubSeq(p, common + 1, Len(p)) /\ copy.leaf = nd.leaf
       /\ copy.value = nd.value /\ copy.kids = nd.kids /\ copy # None
  <2>1. /\ CowClone(nd, t) \in VersionedNode /\ CowClone(nd, t).prefix = p
        /\ CowClone(nd, t).leaf = nd.leaf /\ CowClone(nd, t).value = nd.value
        /\ CowClone(nd, t).kids = nd.kids
    BY <1>2, <1>3 DEF CowClone, VersionedNode
  <2>2. SubSeq(p, common + 1, Len(p)) \in Seq(Byte)
    BY <1>3, <1>7
  <2>3. copy = [CowClone(nd, t) EXCEPT !.prefix = SubSeq(p, common + 1, Len(p))]
    BY <1>10, <2>1
  <2>4. copy \in VersionedNode
    BY <2>1, <2>2, <2>3 DEF VersionedNode
  <2> QED BY <2>1, <2>3, <2>4, NoneAssumption DEF VersionedNode
<1>12. /\ leaf.prefix = Rest(key, d + common) /\ leaf.leaf /\ leaf.value = s.val
       /\ leaf.kids = NoKids /\ leaf # None
  <2>1. Rest(key, d + common) \in Seq(Byte)
    <3>1. PICK m \in Nat : m = d + common
      BY <1>3
    <3>2. m <= Len(key)
      BY <1>7, <3>1
    <3> QED BY <1>3, <3>1, <3>2, RestBytes
  <2>2. leaf # None
    <3>1. s.val \in Val \cup {None} /\ NoKids \in [Byte -> Node \cup {None}]
      BY <1>3 DEF NoKids
    <3> QED BY <1>3, <1>10, <2>1, <3>1, NewNodeTyped
  <2> QED BY <1>10, <2>2 DEF NewLeaf
<1>13. /\ \A b \in Byte : kids[b] = IF b = p[common + 1] THEN c2 ELSE None
       /\ \A b \in Byte : both[b] = IF b = key[d + common + 1] THEN c3 ELSE kids[b]
       /\ kids \in [Byte -> Node \cup {None}] /\ both \in [Byte -> Node \cup {None}]
  BY <1>10 DEF NoKids
<1>14. /\ top.prefix = SubSeq(p, 1, common) /\ ~top.leaf
       /\ top.value = IF ends THEN s.val ELSE None
       /\ top.kids = IF ends THEN kids ELSE both
       /\ top # None
  <2>1. SubSeq(p, 1, common) \in Seq(Byte)
    BY <1>3, <1>7
  <2>2. top # None
    <3>1. s.val \in Val \cup {None} /\ None \in Val \cup {None}
      BY <1>3
    <3>2. PICK head \in Seq(Byte) : head = SubSeq(p, 1, common)
      BY <2>1
    <3>3. PICK v \in Val \cup {None} : v = s.val
      BY <3>1
    <3>4. NewInner(head, v, kids, t) # None
      BY <1>3, <1>13, NewNodeTyped
    <3>5. NewInner(head, None, both, t) # None
      BY <1>3, <1>13, <3>1, NewNodeTyped
    <3> QED BY <1>10, <3>2, <3>3, <3>4, <3>5
  <2> QED BY <1>10, <2>2 DEF NewInner
<1>15. /\ heap' = IF ends THEN [heap EXCEPT ![c1] = top, ![c2] = copy]
                          ELSE [heap EXCEPT ![c1] = top, ![c2] = copy, ![c3] = leaf]
       /\ cur'[h] = None /\ res'[h] = c1 /\ drops'[h] = {n}
  BY <1>1, <1>2, <1>4, <1>6, <1>9, <1>10 DEF Split, ReturnNode, TypeOK
<1>16. /\ \A m \in Alive : m \in Alive' /\ heap'[m] = heap[m]
       /\ \A m \in Alive' : m \in Alive \/ m = c1 \/ m = c2 \/ (m = c3 /\ ~ends)
       /\ c1 \in Alive' /\ c2 \in Alive' /\ (~ends => c3 \in Alive' /\ heap'[c3] = leaf)
       /\ heap'[c1] = top /\ heap'[c2] = copy
  BY <1>1, <1>9, <1>11, <1>12, <1>14, <1>15 DEF Alive, TypeOK
<1>17. \A b \in Byte : top.kids[b] = IF ~ends /\ b = key[d + common + 1] THEN c3
                                     ELSE IF b = p[common + 1] THEN c2 ELSE None
  BY <1>13, <1>14
<1>18. IsSplit(h, c1, c2, c3, common)
  <2>1. /\ common < Len(heap[cur[h]].prefix) /\ heap[cur[h]].prefix[common + 1] \in Byte
        /\ MatchesFor(heap[cur[h]].prefix, Step(h).key, depth[h], common)
        /\ PlaceOf(h) = "inside" <=> depth[h] + common = Len(Step(h).key)
    BY <1>2, <1>5, <1>6, <1>7, <1>8
  <2>2. /\ cur'[h] = None /\ res'[h] = c1 /\ drops'[h] = {cur[h]}
        /\ \A m \in Alive : m \in Alive' /\ heap'[m] = heap[m]
        /\ \A m \in Alive' : m \in Alive \/ m = c1 \/ m = c2 \/ (m = c3 /\ PlaceOf(h) # "inside")
        /\ c1 \in Alive' /\ c2 \in Alive'
    BY <1>2, <1>6, <1>15, <1>16
  <2>3. /\ heap'[c1].prefix = SubSeq(heap[cur[h]].prefix, 1, common) /\ ~heap'[c1].leaf
        /\ heap'[c1].value = IF PlaceOf(h) = "inside" THEN Step(h).val ELSE None
        /\ \A b \in Byte : heap'[c1].kids[b] =
             IF PlaceOf(h) # "inside" /\ b = Step(h).key[depth[h] + common + 1] THEN c3
             ELSE IF b = heap[cur[h]].prefix[common + 1] THEN c2 ELSE None
    BY <1>2, <1>6, <1>14, <1>16, <1>17
  <2>4. /\ heap'[c2].prefix = SubSeq(heap[cur[h]].prefix, common + 1, Len(heap[cur[h]].prefix))
        /\ heap'[c2].leaf = heap[cur[h]].leaf
        /\ heap'[c2].value = heap[cur[h]].value /\ heap'[c2].kids = heap[cur[h]].kids
    BY <1>2, <1>11, <1>16
  <2>5. PlaceOf(h) # "inside" =>
          /\ c3 \in Alive' /\ Step(h).key[depth[h] + common + 1] \in Byte
          /\ heap'[c3].prefix = Rest(Step(h).key, depth[h] + common) /\ heap'[c3].leaf
          /\ heap'[c3].value = Step(h).val /\ heap'[c3].kids = NoKids
    BY <1>2, <1>6, <1>8, <1>12, <1>16
  <2> QED BY <1>9, <2>1, <2>2, <2>3, <2>4, <2>5 DEF IsSplit
<1> QED BY <1>18
=============================================================================
