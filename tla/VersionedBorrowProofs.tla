----------------------- MODULE VersionedBorrowProofs -----------------------
(***************************************************************************)
(* That get_mut's borrow of the path it has copied never fails, that no    *)
(* step writes to a node that somebody else can see, and that no node is   *)
(* forgotten: every allocated node is held by a root, by a parent or by a  *)
(* thread, and no nodes hold only each other, so that once every handle is *)
(* dropped and the drops have run nothing is allocated.  For any number of *)
(* handles, nodes and calls.                                               *)
(***************************************************************************)
EXTENDS VersionedShapeProofs

USE KeyAssumption, ArenaAssumption, ValAssumption, CallsAssumption,
    BoundAssumption, NoneAssumption

-----------------------------------------------------------------------------
(* What every step of a thread does to nodes it did not make *)

\* The nodes a thread can get at: those in its hands and their children.
Reach(h, n) ==
  n \in InHand(h) \/ \E m \in InHand(h) : \E b \in Byte : heap[m].kids[b] = n

\* References to n come from the thread's own reach, or from a handle at rest.
Conduct(h) ==
  /\ LocalFrame(h)
  /\ \A m \in Alive' : \A b \in Byte : \A n \in Alive : heap'[m].kids[b] = n =>
       (m \in Alive /\ heap[m].kids[b] = n) \/ Reach(h, n)
  /\ \A n \in Alive : n \in InHand(h)' => Reach(h, n) \/ root[h] = n
  /\ \A n \in Alive : root'[h] = n =>
       Reach(h, n) \/ root[h] = n \/ \E g \in Handle : root[g] = n /\ pc[g] = "idle"

\* What others hold is left as it is.
Untouched(h) == \A n \in Alive : HeldElsewhere(h, n) => heap'[n] = heap[n]

\* A step that leaves the heap alone.
LEMMA SameHeapConduct ==
  ASSUME heap' = heap, NEW h \in Handle, LocalFrame(h),
         \A n \in Alive : n \in InHand(h)' => Reach(h, n) \/ root[h] = n,
         \A n \in Alive : root'[h] = n =>
           Reach(h, n) \/ root[h] = n \/ \E g \in Handle : root[g] = n /\ pc[g] = "idle"
  PROVE  Conduct(h) /\ Untouched(h)
BY DEF Conduct, Untouched, Alive

\* Handles come and go, calls begin and end.
LEMMA RestingConduct ==
  ASSUME IInv, NEW h \in Handle,
         \/ New(h) \/ DropHandle(h) \/ Plan(h) \/ Start(h) \/ Return(h) \/ Install(h)
         \/ \E g \in Handle : Clone(g, h) \/ Snapshot(g, h)
         \/ \E c \in Calls : Invoke(h, c)
  PROVE  Conduct(h) /\ Untouched(h)
<1> USE DEF handleVars, callVars, walkVars
<1>1. TypeOK
  BY DEF IInv
<1>2. CASE New(h) \/ Plan(h) \/ Return(h) \/ \E c \in Calls : Invoke(h, c)
  <2>1. /\ heap' = heap /\ root' = root /\ cur' = cur /\ res' = res /\ trail' = trail
        /\ drops' = drops /\ LocalFrame(h)
    BY <1>1, <1>2 DEF New, Plan, Return, Invoke, LocalFrame, SameLocals, TypeOK
  <2> QED BY <2>1, SameHeapConduct DEF InHand, TrailNodes, Reach
<1>3. CASE DropHandle(h)
  <2>1. /\ heap' = heap /\ cur' = cur /\ res' = res /\ trail' = trail
        /\ root'[h] = None /\ drops'[h] = {root[h]} \ {None} /\ LocalFrame(h)
    BY <1>1, <1>3 DEF DropHandle, LocalFrame, SameLocals, TypeOK
  <2>2. \A n \in InHand(h)' : n \in InHand(h) \/ n = root[h]
    BY <2>1 DEF InHand, TrailNodes
  <2>3. None \notin Alive
    BY <1>1, AliveTyped
  <2> QED BY <2>1, <2>2, <2>3, SameHeapConduct DEF Reach
<1>4. CASE Start(h)
  <2>1. /\ heap' = heap /\ cur'[h] = root[h] /\ res' = res /\ trail' = trail
        /\ root'[h] = None /\ drops' = drops /\ LocalFrame(h)
    BY <1>1, <1>4 DEF Start, LocalFrame, SameLocals, TypeOK
  <2>2. \A n \in InHand(h)' : n \in InHand(h) \/ n = root[h]
    BY <2>1 DEF InHand, TrailNodes
  <2>3. None \notin Alive
    BY <1>1, AliveTyped
  <2> QED BY <2>1, <2>2, <2>3, SameHeapConduct DEF Reach
<1>5. CASE Install(h)
  <2>1. /\ heap' = heap /\ cur' = cur /\ res'[h] = None /\ trail' = trail
        /\ root'[h] \in {res[h], None} /\ drops'[h] \in {{res[h]}, {}} /\ LocalFrame(h)
    BY <1>1, <1>5 DEF Install, LocalFrame, SameLocals, TypeOK
  <2>2. None \notin Alive
    BY <1>1, AliveTyped
  <2>3. \A n \in Alive : n \in InHand(h)' => n \in InHand(h)
    BY <2>1, <2>2 DEF InHand, TrailNodes
  <2>4. \A n \in Alive : root'[h] = n => n \in InHand(h)
    BY <2>1, <2>2 DEF InHand
  <2> QED BY <2>1, <2>3, <2>4, SameHeapConduct DEF Reach
<1>6. CASE \E g \in Handle : Clone(g, h) \/ Snapshot(g, h)
  <2>1. PICK g \in Handle : Clone(g, h) \/ Snapshot(g, h)
    BY <1>6
  <2>2. /\ heap' = heap /\ cur' = cur /\ res' = res /\ trail' = trail /\ drops' = drops
        /\ root'[h] = root[g] /\ pc[g] = "idle" /\ LocalFrame(h)
    BY <1>1, <2>1 DEF Clone, Snapshot, CopyHandle, LocalFrame, SameLocals, TypeOK, Running
  <2> QED BY <2>2, SameHeapConduct DEF InHand, TrailNodes, Reach
<1> QED BY <1>2, <1>3, <1>4, <1>5, <1>6

\* An activation hands over the node it stands at, or lets go of it.
LEMMA StayConduct ==
  ASSUME IInv, NEW h \in Handle,
         RemoveLeaf(h) \/ PathReady(h) \/ Decline(h) \/ CallbackPanic(h)
  PROVE  Conduct(h) /\ Untouched(h)
<1> USE DEF handleVars, callVars, walkVars
<1>1. TypeOK /\ None \notin Alive
  BY AliveTyped DEF IInv
<1>2. heap' = heap /\ root' = root /\ LocalFrame(h)
  BY <1>1 DEF RemoveLeaf, PathReady, Decline, CallbackPanic, ReturnNode, LocalFrame, SameLocals, TypeOK
<1>3. CASE RemoveLeaf(h) \/ PathReady(h) \/ Decline(h)
  <2>1. /\ cur'[h] = None /\ res'[h] \in {cur[h], None} /\ trail' = trail
        /\ drops'[h] \subseteq {cur[h]} \cup drops[h]
    BY <1>1, <1>3 DEF RemoveLeaf, PathReady, Decline, ReturnNode, TypeOK
  <2>2. \A n \in Alive : n \in InHand(h)' => n \in InHand(h)
    BY <1>1, <2>1 DEF InHand, TrailNodes
  <2> QED BY <1>2, <2>2, SameHeapConduct DEF Reach
<1>4. CASE CallbackPanic(h)
  <2>1. /\ cur'[h] = None /\ res' = res /\ trail'[h] = <<>> /\ drops'[h] = InHand(h)
    BY <1>1, <1>4 DEF CallbackPanic, TypeOK
  <2>2. \A n \in Alive : n \in InHand(h)' => n \in InHand(h)
    <3>1. TrailNodes(h)' = {}
      BY <2>1 DEF TrailNodes
    <3> QED BY <1>1, <2>1, <3>1 DEF InHand
  <2> QED BY <1>2, <2>2, SameHeapConduct DEF Reach
<1> QED BY <1>3, <1>4

\* What is on the trail after a frame has come off it.
LEMMA PoppedNodes ==
  ASSUME IInv, NEW h \in Handle, trail[h] # <<>>, trail'[h] = Front(trail[h])
  PROVE  /\ TrailNodes(h)' \subseteq TrailNodes(h)
         /\ Last(trail[h]).node \in TrailNodes(h)
<1>1. /\ trail[h] \in Seq(Frame) /\ trail'[h] \in Seq(Frame)
      /\ 1..Len(trail'[h]) \subseteq 1..Len(trail[h]) /\ Len(trail[h]) \in 1..Len(trail[h])
      /\ \A i \in 1..Len(trail'[h]) : trail'[h][i] = trail[h][i]
      /\ Last(trail[h]) = trail[h][Len(trail[h])]
  BY Popped DEF Frames, IInv, TypeOK
<1>2. DOMAIN trail[h] = 1..Len(trail[h]) /\ DOMAIN trail'[h] = 1..Len(trail'[h])
  BY <1>1
<1> QED BY <1>1, <1>2 DEF TrailNodes

\* update, on the way down and on the way back.
LEMMA UpdateWalkConduct ==
  ASSUME IInv, NEW h \in Handle, Follow(h) \/ Backtrack(h) \/ Lift(h)
  PROVE  Conduct(h) /\ Untouched(h)
<1> USE DEF handleVars, callVars, walkVars
<1>1. TypeOK /\ None \notin Alive
  BY AliveTyped DEF IInv
<1>2. heap' = heap /\ root' = root /\ LocalFrame(h)
  BY <1>1 DEF Follow, Backtrack, Lift, Resume, LocalFrame, SameLocals, TypeOK
<1>3. CASE Follow(h)
  <2> DEFINE b == EdgeOf(heap[cur[h]], Step(h).key, depth[h])
  <2>1. /\ cur'[h] = heap[cur[h]].kids[b] /\ res' = res /\ drops' = drops
        /\ trail'[h] = Append(trail[h], [node |-> cur[h], edge |-> b, depth |-> depth[h]])
    BY <1>1, <1>3 DEF Follow, TypeOK
  <2>2. pc[h] = "visit" /\ pc[h] \in InTree /\ b \in Byte
    BY <1>3, AtNode DEF Follow, Running, InTree
  <2>3. cur[h] \in InHand(h) /\ cur[h] # None
    BY <2>2, WasInTree DEF InHand
  <2>4. TrailNodes(h)' \subseteq TrailNodes(h) \cup {cur[h]}
    <3>1. /\ trail[h] \in Seq(Frame) /\ trail'[h] \in Seq(Frame)
          /\ \A i \in Frames(h)' : \/ i \in Frames(h) /\ trail'[h][i] = trail[h][i]
                                   \/ trail'[h][i].node = cur[h]
      BY <1>1, <2>1, <2>2, Pushed DEF TypeOK
    <3>2. DOMAIN trail[h] = Frames(h) /\ DOMAIN trail'[h] = Frames(h)'
      BY <3>1 DEF Frames
    <3> QED BY <3>1, <3>2 DEF TrailNodes
  <2> HIDE DEF b
  <2>5. \A n \in Alive : n \in InHand(h)' => Reach(h, n)
    BY <1>1, <2>1, <2>2, <2>3, <2>4 DEF InHand, Reach
  <2> QED BY <1>2, <2>5, SameHeapConduct
<1>4. CASE Backtrack(h)
  <2>1. /\ cur' = cur /\ res'[h] = Last(trail[h]).node /\ drops'[h] = {res[h]}
        /\ trail'[h] = Front(trail[h]) /\ trail[h] # <<>>
    BY <1>1, <1>4 DEF Backtrack, Resume, TypeOK
  <2>2. TrailNodes(h)' \subseteq TrailNodes(h) /\ Last(trail[h]).node \in TrailNodes(h)
    BY <2>1, PoppedNodes
  <2>3. \A n \in Alive : n \in InHand(h)' => n \in InHand(h)
    BY <1>1, <2>1, <2>2 DEF InHand
  <2> QED BY <1>2, <2>3, SameHeapConduct DEF Reach
<1>5. CASE Lift(h)
  <2>1. /\ cur'[h] = Last(trail[h]).node /\ res' = res /\ drops' = drops
        /\ trail'[h] = Front(trail[h]) /\ trail[h] # <<>>
    BY <1>1, <1>5 DEF Lift, Resume, TypeOK
  <2>2. TrailNodes(h)' \subseteq TrailNodes(h) /\ Last(trail[h]).node \in TrailNodes(h)
    BY <2>1, PoppedNodes
  <2>3. \A n \in Alive : n \in InHand(h)' => n \in InHand(h)
    BY <1>1, <2>1, <2>2 DEF InHand
  <2> QED BY <1>2, <2>3, SameHeapConduct DEF Reach
<1> QED BY <1>3, <1>4, <1>5
-----------------------------------------------------------------------------
(* Steps that change the heap: at most one allocated node, which nobody else *)
(* holds, is written to or freed.                                            *)

\* The nodes an activation works with, in its own view.
LEMMA AtHand ==
  ASSUME IInv, NEW h \in Handle, pc[h] \in {"visit", "edit", "lift", "fix"}
  PROVE  /\ cur[h] \in InHand(h) /\ cur[h] \in Alive /\ cur[h] \in Node
         /\ heap[cur[h]] \in VersionedNode /\ heap \in [Node -> VersionedNode \cup {None}]
         /\ None \notin Alive /\ root[h] = None
         /\ \A b \in Byte : \A n : heap[cur[h]].kids[b] = n => Reach(h, n)
         /\ pc[h] \in {"edit", "fix"} => ~HeldElsewhere(h, cur[h]) /\ cur[h] # res[h]
         /\ pc[h] \in {"edit", "fix"} => cur[h] \notin TrailNodes(h) /\ cur[h] \notin drops[h]
<1>1. cur[h] \in Alive /\ cur[h] \in Node /\ heap[cur[h]] \in VersionedNode /\ root[h] = None
      /\ cur[h] # None /\ None \notin Alive /\ TypeOK /\ ThreadInv(h)
  BY WasInTree DEF InTree
<1>2. cur[h] \in InHand(h)
  BY <1>1 DEF InHand
<1>3. pc[h] \in {"edit", "fix"} => SoleCur(h)
  BY <1>1 DEF ThreadInv, CurExclusive
<1> QED BY <1>1, <1>2, <1>3 DEF Reach, SoleCur, TypeOK

\* ensure_cow_node stamps the node, or copies it.
LEMMA EnsureCowConduct ==
  ASSUME IInv, NEW h \in Handle, EnsureCowOwned(h) \/ EnsureCowShared(h)
  PROVE  Conduct(h) /\ Untouched(h)
<1> USE DEF handleVars, callVars, walkVars
<1> DEFINE n == cur[h]
<1>1. TypeOK /\ pc[h] \in {"visit", "lift"} /\ heap[n].version < Target(h)
      /\ heap[n].version \in Nat /\ Target(h) \in Nat
  BY WasEnsuring DEF EnsureCowOwned, EnsureCowShared, IInv
<1>2. /\ n \in InHand(h) /\ n \in Alive /\ n \in Node /\ None \notin Alive
      /\ heap[n] \in VersionedNode
      /\ \A b \in Byte : \A k : heap[n].kids[b] = k => Reach(h, k)
  BY <1>1, AtHand
<1>3. LocalFrame(h) /\ root' = root /\ trail' = trail /\ res' = res /\ TrailNodes(h)' = TrailNodes(h)
  BY <1>1 DEF EnsureCowOwned, EnsureCowShared, Ensured, LocalFrame, SameLocals, TypeOK, TrailNodes
<1>4. CASE EnsureCowOwned(h)
  <2>1. SoleCur(h) /\ heap' = [heap EXCEPT ![n].version = Target(h)]
        /\ cur' = cur /\ drops' = drops
    BY <1>1, <1>4 DEF EnsureCowOwned
  <2>2. /\ \A m \in Alive \ {n} : heap'[m] = heap[m]
        /\ \A m \in Node : m \notin Alive => m \notin Alive'
        /\ heap'[n].kids = heap[n].kids
    BY <1>1, <1>2, <2>1 DEF Alive, TypeOK, VersionedNode
  <2>3. InHand(h)' = InHand(h)
    BY <1>3, <2>1 DEF InHand
  <2>4. \A m \in Alive' : m \in Alive /\ heap'[m].kids = heap[m].kids
    BY <1>2, <2>2 DEF Alive
  <2> QED BY <1>3, <2>1, <2>2, <2>3, <2>4 DEF Conduct, Untouched, SoleCur, Reach
<1>5. CASE EnsureCowShared(h)
  <2> DEFINE c == New1(h)
             x == CowClone(heap[n], Target(h))
  <2>1. /\ heap' = [heap EXCEPT ![c] = x] /\ cur'[h] = c /\ drops'[h] = {n}
        /\ c \in Node \ Alive
    BY <1>1, <1>5, FreshNames DEF EnsureCowShared, TypeOK
  <2>2. x.kids = heap[n].kids
    BY <1>1, <1>2 DEF CowClone, VersionedNode
  <2> HIDE DEF c, x
  <2>3. /\ \A m \in Alive : heap'[m] = heap[m]
        /\ \A m \in Alive' : m = c \/ m \in Alive
        /\ heap'[c] = x
    BY <1>1, <2>1 DEF Alive, TypeOK
  <2>4. \A m \in Alive : m \in InHand(h)' => m \in InHand(h)
    BY <1>2, <1>3, <2>1 DEF InHand
  <2>5. \A m \in Alive' : \A b \in Byte : \A k \in Alive : heap'[m].kids[b] = k =>
          (m \in Alive /\ heap[m].kids[b] = k) \/ Reach(h, k)
    BY <1>2, <2>2, <2>3
  <2> QED BY <1>3, <2>3, <2>4, <2>5 DEF Conduct, Untouched, Reach
<1> QED BY <1>4, <1>5

\* A value is put in, or taken out.
LEMMA ValueConduct ==
  ASSUME IInv, NEW h \in Handle, ReplaceValue(h) \/ TakeValue(h)
  PROVE  Conduct(h) /\ Untouched(h)
<1> USE DEF handleVars, callVars, walkVars
<1> DEFINE n == cur[h]
<1>1. TypeOK /\ pc[h] = "edit" /\ drops[h] = {}
  BY DEF ReplaceValue, TakeValue, Unwrapped, Running, IInv
<1>2. /\ n \in InHand(h) /\ n \in Alive /\ n \in Node /\ None \notin Alive
      /\ heap[n] \in VersionedNode /\ ~HeldElsewhere(h, n)
  BY <1>1, AtHand
<1>3. LocalFrame(h) /\ root' = root /\ trail' = trail /\ drops' = drops
      /\ TrailNodes(h)' = TrailNodes(h) /\ cur'[h] = None /\ res'[h] \in {n, None}
  BY <1>1 DEF ReplaceValue, TakeValue, ReturnNode, LocalFrame, SameLocals, TypeOK, TrailNodes
<1>4. /\ \A m \in Node \ {n} : heap'[m] = heap[m]
      /\ heap'[n] # None => heap'[n].kids = heap[n].kids
  <2>1. CASE ReplaceValue(h)
    BY <1>1, <1>2, <2>1 DEF ReplaceValue, TypeOK, VersionedNode
  <2>2. CASE TakeValue(h)
    BY <1>1, <1>2, <2>2 DEF TakeValue, TypeOK, VersionedNode
  <2> QED BY <2>1, <2>2
<1>5. \A m \in Alive : m \in InHand(h)' => m \in InHand(h)
  BY <1>2, <1>3 DEF InHand
<1>6. \A m \in Alive' : m \in Alive /\ heap'[m].kids = heap[m].kids
  BY <1>2, <1>4 DEF Alive
<1> QED BY <1>2, <1>3, <1>4, <1>5, <1>6 DEF Conduct, Untouched, Reach, Alive

\* A reference is released.
LEMMA ReleaseConduct ==
  ASSUME IInv, NEW h \in Handle, Release(h)
  PROVE  Conduct(h) /\ Untouched(h)
<1> USE DEF handleVars, callVars, walkVars
<1>1. TypeOK /\ None \notin Alive /\ drops[h] \subseteq Alive
  BY AliveTyped DEF IInv, ThreadInv, HoldsAlive
<1>2. PICK n \in drops[h] :
        IF LastReference(h, n)
        THEN heap' = [heap EXCEPT ![n] = None]
             /\ drops' = [drops EXCEPT ![h] = (@ \ {n}) \cup Children(heap[n])]
        ELSE drops' = [drops EXCEPT ![h] = @ \ {n}] /\ heap' = heap
  BY DEF Release
<1>3. n \in Alive /\ n \in Node /\ n \in InHand(h)
  BY <1>1, AliveTyped DEF InHand
<1>4. LocalFrame(h) /\ root' = root /\ trail' = trail /\ cur' = cur /\ res' = res
      /\ TrailNodes(h)' = TrailNodes(h)
  BY <1>1, <1>2 DEF Release, LocalFrame, SameLocals, TypeOK, TrailNodes
<1>5. /\ \A m \in Node \ {n} : heap'[m] = heap[m]
      /\ heap'[n] = heap[n] \/ (heap'[n] = None /\ ~HeldElsewhere(h, n))
      /\ drops'[h] \subseteq drops[h] \cup Children(heap[n])
  BY <1>1, <1>2, <1>3 DEF TypeOK, LastReference
<1>6. \A m \in Alive : m \in InHand(h)' => Reach(h, m)
  BY <1>3, <1>4, <1>5 DEF InHand, Reach, Children
<1> QED BY <1>3, <1>4, <1>5, <1>6 DEF Conduct, Untouched, Alive

\* A leaf is made, for an empty tree or below a node.
LEMMA LeafConduct ==
  ASSUME IInv, NEW h \in Handle, StartEmpty(h) \/ AddLeaf(h)
  PROVE  Conduct(h) /\ Untouched(h)
<1> USE DEF handleVars, callVars, walkVars
<1>1. TypeOK /\ None \notin Alive
  BY AliveTyped DEF IInv
<1>2. CASE StartEmpty(h)
  <2>1. /\ LocalFrame(h) /\ cur' = cur /\ res' = res /\ trail' = trail /\ drops' = drops
    BY <1>1, <1>2 DEF StartEmpty, LocalFrame, SameLocals, TypeOK
  <2>2. InHand(h)' = InHand(h)
    BY <2>1 DEF InHand, TrailNodes
  <2>3. CASE heap' = heap /\ root' = root
    BY <2>1, <2>2, <2>3, SameHeapConduct DEF Reach
  <2>4. CASE ~(heap' = heap /\ root' = root)
    <3> DEFINE c == New1(h)
               x == NewLeaf(Step(h).key, Step(h).val, version[h] + 1)
    <3>1. heap' = [heap EXCEPT ![c] = x] /\ root'[h] = c /\ Free(h) # {}
      BY <1>1, <1>2, <2>4 DEF StartEmpty, TypeOK
    <3>2. c \in Node \ Alive
      BY <1>1, <3>1, FreshNames
    <3>3. x.kids = NoKids
      BY DEF NewLeaf
    <3> HIDE DEF c, x
    <3>4. /\ \A m \in Alive : heap'[m] = heap[m]
          /\ \A m \in Alive' : m = c \/ m \in Alive
          /\ heap'[c] = x
      BY <1>1, <3>1, <3>2 DEF Alive, TypeOK
    <3>5. \A m \in Alive' : \A b \in Byte : \A k \in Alive : heap'[m].kids[b] = k =>
            m \in Alive /\ heap[m].kids[b] = k
      BY <1>1, <3>3, <3>4 DEF NoKids
    <3> QED BY <2>1, <2>2, <3>1, <3>2, <3>4, <3>5 DEF Conduct, Untouched, Reach
  <2> QED BY <2>3, <2>4
<1>3. CASE AddLeaf(h)
  <2> DEFINE n == cur[h]
             c == New1(h)
             d == depth[h] + Len(heap[n].prefix)
             b == EdgeOf(heap[n], Step(h).key, depth[h])
             x == NewLeaf(Rest(Step(h).key, d), Step(h).val, Target(h))
             y == AddChild(heap[n], b, c)
  <2>1. pc[h] = "edit" /\ drops[h] = {} /\ Free(h) # {}
    BY <1>3 DEF AddLeaf, Unwrapped, Running
  <2>2. /\ n \in InHand(h) /\ n \in Alive /\ n \in Node
        /\ heap[n] \in VersionedNode /\ ~HeldElsewhere(h, n)
    BY <2>1, AtHand
  <2>3. c \in Node \ Alive /\ c # n
    BY <1>1, <2>1, <2>2, FreshNames
  <2>4. x.kids = NoKids /\ b \in Byte
    BY <1>3, <2>1, AtNode DEF NewLeaf, AddLeaf
  <2>5. \A e \in Byte : y.kids[e] = IF e = b THEN c ELSE heap[n].kids[e]
    <3>1. heap[n] \in VersionedNode /\ b \in Byte /\ c \in Node
      BY <2>2, <2>3, <2>4
    <3> HIDE DEF n, b, c, x, d
    <3> QED BY <3>1, ChildEdits
  <2>6. LocalFrame(h) /\ root' = root /\ trail' = trail /\ drops' = drops
        /\ TrailNodes(h)' = TrailNodes(h) /\ cur'[h] = None /\ res'[h] = n
    BY <1>1, <1>3 DEF AddLeaf, ReturnNode, LocalFrame, SameLocals, TypeOK, TrailNodes
  <2>7. heap' = [heap EXCEPT ![c] = x, ![n] = y]
    <3>1. [heap EXCEPT ![c] = x][n] = heap[n]
      BY <1>1, <2>2, <2>3 DEF TypeOK
    <3> QED BY <1>3, <3>1 DEF AddLeaf
  <2> HIDE DEF c, x, y, b, d
  <2>8. /\ \A m \in Alive \ {n} : heap'[m] = heap[m]
        /\ \A m \in Alive' : m = c \/ m \in Alive
        /\ heap'[c] = x /\ heap'[n] = y
    BY <1>1, <2>2, <2>3, <2>7 DEF Alive, TypeOK
  <2>9. \A m \in Alive : m \in InHand(h)' => m \in InHand(h)
    BY <1>1, <2>2, <2>6 DEF InHand
  <2>10. \A m \in Alive' : \A e \in Byte : \A k \in Alive : heap'[m].kids[e] = k =>
           m \in Alive /\ heap[m].kids[e] = k
    BY <1>1, <2>2, <2>3, <2>4, <2>5, <2>8 DEF NoKids
  <2> QED BY <2>2, <2>6, <2>8, <2>9, <2>10 DEF Conduct, Untouched, Reach
<1> QED BY <1>2, <1>3

\* A node is split: a copy of it goes below a new one.
LEMMA SplitConduct ==
  ASSUME IInv, NEW h \in Handle, Split(h)
  PROVE  Conduct(h) /\ Untouched(h)
<1> DEFINE n == cur[h]
           nd == heap[n]
           s == Step(h)
           t == Target(h)
           common == PrefixLengthKey(nd.prefix, s.key, depth[h])
           ends == PlaceOf(h) = "inside"
           copy == [CowClone(nd, t) EXCEPT !.prefix = SubSeq(@, common + 1, Len(@))]
           leaf == NewLeaf(Rest(s.key, depth[h] + common), s.val, t)
           kids == [NoKids EXCEPT ![nd.prefix[common + 1]] = New2(h)]
           both == [kids EXCEPT ![s.key[depth[h] + common + 1]] = New3(h)]
           head == SubSeq(nd.prefix, 1, common)
           top == IF ends THEN NewInner(head, s.val, kids, t) ELSE NewInner(head, None, both, t)
           c1 == New1(h)
           c2 == New2(h)
           c3 == New3(h)
<1> USE DEF handleVars, callVars, walkVars
<1>1. TypeOK /\ pc[h] = "visit" /\ drops[h] = {}
  BY DEF Split, Running, IInv
<1>2. /\ n \in InHand(h) /\ n \in Alive /\ n \in Node /\ None \notin Alive /\ nd \in VersionedNode
      /\ \A b \in Byte : \A k : nd.kids[b] = k => Reach(h, k)
  BY <1>1, AtHand
<1>3. /\ c1 \in Node \ Alive /\ c2 \in Node \ Alive /\ c3 \in Node \ Alive
      /\ c1 # c2 /\ c1 # c3 /\ c2 # c3
  BY <1>1, FreshNames DEF Split
<1>4. heap' = IF ends THEN [heap EXCEPT ![c1] = top, ![c2] = copy]
                      ELSE [heap EXCEPT ![c1] = top, ![c2] = copy, ![c3] = leaf]
  BY DEF Split
<1>5. LocalFrame(h) /\ root' = root /\ trail' = trail /\ drops'[h] = {n}
      /\ TrailNodes(h)' = TrailNodes(h) /\ cur'[h] = None /\ res'[h] = c1
  BY <1>1 DEF Split, ReturnNode, LocalFrame, SameLocals, TypeOK, TrailNodes
<1>6. /\ copy.kids = nd.kids /\ leaf.kids = NoKids
      /\ top.kids = (IF ends THEN kids ELSE both)
  BY <1>2 DEF CowClone, VersionedNode, NewLeaf, NewInner
<1>7. \A b \in Byte : kids[b] \in {None, c2} /\ both[b] \in {None, c2, c3}
  BY DEF NoKids
<1> HIDE DEF top, copy, leaf, kids, both, ends, c1, c2, c3, nd
<1>8. /\ \A m \in Alive : heap'[m] = heap[m]
      /\ \A m \in Alive' : m \in Alive \/ m = c1 \/ m = c2 \/ (m = c3 /\ ~ends)
      /\ heap'[c1] = top /\ heap'[c2] = copy /\ ~ends => heap'[c3] = leaf
  BY <1>1, <1>3, <1>4 DEF Alive, TypeOK
<1>9. \A m \in Alive : m \in InHand(h)' => m \in InHand(h)
  BY <1>2, <1>3, <1>5 DEF InHand
<1>10. ASSUME NEW m \in Alive', NEW b \in Byte, NEW k \in Alive, heap'[m].kids[b] = k
       PROVE  (m \in Alive /\ heap[m].kids[b] = k) \/ Reach(h, k)
  <2>1. heap'[c1] = top /\ heap'[c2] = copy /\ (~ends => heap'[c3] = leaf)
    BY <1>1, <1>3, <1>4 DEF Alive, TypeOK
  <2>2. CASE m \in Alive
    BY <1>8, <1>10, <2>2
  <2>3. CASE m = c1
    BY <1>2, <1>3, <1>6, <1>7, <1>10, <2>1, <2>3
  <2>4. CASE m = c2
    BY <1>2, <1>6, <1>10, <2>1, <2>4
  <2>5. CASE m = c3 /\ ~ends
    BY <1>2, <1>6, <1>10, <2>1, <2>5 DEF NoKids
  <2> QED BY <1>8, <2>2, <2>3, <2>4, <2>5
<1> QED BY <1>5, <1>8, <1>9, <1>10 DEF Conduct, Untouched, Reach

\* A child is taken out of its parent.
LEMMA DescendConduct ==
  ASSUME IInv, NEW h \in Handle, Descend(h)
  PROVE  Conduct(h) /\ Untouched(h)
<1> USE DEF handleVars, callVars, walkVars
<1> DEFINE n == cur[h]
           b == EdgeOf(heap[n], Step(h).key, depth[h])
           y == DeleteChild(heap[n], b)
<1>1. TypeOK /\ pc[h] = "edit" /\ drops[h] = {} /\ PlaceOf(h) = "child"
  BY DEF Descend, Unwrapped, Running, IInv
<1>2. /\ n \in InHand(h) /\ n \in Alive /\ n \in Node /\ heap[n] \in VersionedNode
      /\ ~HeldElsewhere(h, n) /\ None \notin Alive
      /\ \A e \in Byte : \A k : heap[n].kids[e] = k => Reach(h, k)
  BY <1>1, AtHand
<1>3. b \in Byte
  BY <1>1, AtNode
<1>4. /\ heap' = [heap EXCEPT ![n] = y] /\ cur'[h] = heap[n].kids[b]
      /\ trail'[h] = Append(trail[h], [node |-> n, edge |-> b, depth |-> depth[h]])
      /\ root' = root /\ res' = res /\ drops' = drops /\ LocalFrame(h)
  BY <1>1 DEF Descend, LocalFrame, SameLocals, TypeOK
<1>5. \A e \in Byte : y.kids[e] \in {None, heap[n].kids[e]}
  BY <1>2, <1>3 DEF DeleteChild, VersionedNode
<1>6. TrailNodes(h)' \subseteq TrailNodes(h) \cup {n}
  <2>1. /\ trail[h] \in Seq(Frame) /\ trail'[h] \in Seq(Frame)
        /\ \A i \in Frames(h)' : \/ i \in Frames(h) /\ trail'[h][i] = trail[h][i]
                                 \/ trail'[h][i].node = n
    BY <1>1, <1>3, <1>4, Pushed DEF TypeOK
  <2>2. DOMAIN trail[h] = Frames(h) /\ DOMAIN trail'[h] = Frames(h)'
    BY <2>1 DEF Frames
  <2> QED BY <2>1, <2>2 DEF TrailNodes
<1> HIDE DEF y, b
<1>7. \A m \in Node \ {n} : heap'[m] = heap[m]
  BY <1>1, <1>4 DEF TypeOK
<1>8. heap'[n] = y
  BY <1>1, <1>2, <1>4 DEF TypeOK
<1>9. \A m \in Alive : m \in InHand(h)' => Reach(h, m)
  BY <1>2, <1>3, <1>4, <1>6 DEF InHand, Reach
<1> QED BY <1>2, <1>4, <1>5, <1>7, <1>8, <1>9 DEF Conduct, Untouched, Alive

\* The node of a frame gets its child back, or the new one.
LEMMA SettleConduct ==
  ASSUME IInv, NEW h \in Handle, Reattach(h) \/ SwapChild(h)
  PROVE  Conduct(h) /\ Untouched(h)
<1> USE DEF handleVars, callVars, walkVars
<1>1. TypeOK /\ None \notin Alive /\ pc[h] \in {"up", "fix"} /\ pc[h] \in InTree
      /\ (SwapChild(h) => pc[h] = "fix") /\ (Reattach(h) => pc[h] = "up" /\ TopDown(h))
  BY AliveTyped DEF IInv, Reattach, SwapChild, Unwrapped, Running, InTree
<1> DEFINE p == IF Reattach(h) THEN Last(trail[h]).node ELSE cur[h]
           e == IF Reattach(h) THEN Last(trail[h]).edge ELSE edge[h]
           base == IF Reattach(h) THEN heap[p] ELSE DeleteChild(heap[p], e)
           nd == IF res[h] = None THEN base ELSE AddChild(base, e, res[h])
<1>2. Reattach(h) => trail[h] # <<>> /\ trail'[h] = Front(trail[h])
  BY <1>1 DEF Reattach, Resume, TypeOK
<1>3. p \in Alive /\ p \in Node /\ heap[p] \in VersionedNode /\ e \in Byte
      /\ ~HeldElsewhere(h, p) /\ p \in InHand(h)
  <2>1. CASE Reattach(h)
    <3>1. Len(trail[h]) \in Frames(h) /\ Last(trail[h]) = trail[h][Len(trail[h])] /\ e \in Byte
      BY <1>2, <2>1, Popped
    <3>2. AloneOnTrail(h, Len(trail[h])) /\ p \in Alive
      BY <1>1, <2>1, <3>1, WasInTree DEF ThreadInv, TrailExclusive
    <3>3. p \in TrailNodes(h)
      BY <1>2, <2>1, PoppedNodes
    <3> QED BY <1>1, <2>1, <3>1, <3>2, <3>3, AliveTyped DEF AloneOnTrail, InHand
  <2>2. CASE ~Reattach(h)
    <3>1. pc[h] = "fix"
      BY <1>1, <2>2
    <3>2. edge[h] \in Byte
      BY <3>1, <1>1, WasInTree DEF ThreadInv, PhaseOf
    <3> QED BY <2>2, <3>1, <3>2, AtHand
  <2> QED BY <2>1, <2>2
<1>4. base \in VersionedNode /\ \A b \in Byte : base.kids[b] \in {None, heap[p].kids[b]}
  BY <1>3 DEF DeleteChild, VersionedNode
<1>5. res[h] # None => res[h] \in InHand(h) /\ res[h] \in Node
  BY <1>1 DEF InHand, TypeOK
<1>6. \A b \in Byte : nd.kids[b] \in {None, heap[p].kids[b], res[h]}
  <2> HIDE DEF base, p, e
  <2>1. CASE res[h] = None
    BY <1>4, <2>1
  <2>2. CASE res[h] # None
    <3>1. \A b \in Byte : AddChild(base, e, res[h]).kids[b] = IF b = e THEN res[h] ELSE base.kids[b]
      BY <1>3, <1>4, <1>5, <2>2, ChildEdits
    <3> QED BY <1>4, <2>2, <3>1
  <2> QED BY <2>1, <2>2
<1>7. Settle(h, p, nd)
  <2>1. CASE Reattach(h)
    BY <2>1 DEF Reattach
  <2>2. CASE ~Reattach(h)
    BY <2>2 DEF SwapChild
  <2> QED BY <2>1, <2>2
<1>8. /\ root' = root /\ LocalFrame(h) /\ cur'[h] \in {cur[h], None}
      /\ drops'[h] \subseteq drops[h] \cup ({heap[p].kids[e]} \ {None})
  <2>1. CASE Reattach(h)
    BY <1>1, <2>1 DEF Reattach, Settle, Resume, LocalFrame, SameLocals, TypeOK
  <2>2. CASE ~Reattach(h)
    BY <1>1, <2>2 DEF SwapChild, Settle, LocalFrame, SameLocals, TypeOK
  <2> QED BY <2>1, <2>2
<1>9. TrailNodes(h)' \subseteq TrailNodes(h)
  <2>1. CASE Reattach(h)
    BY <1>2, <2>1, PoppedNodes
  <2>2. CASE ~Reattach(h)
    BY <2>2 DEF SwapChild, TrailNodes
  <2> QED BY <2>1, <2>2
<1> HIDE DEF p, e, base, nd
<1>10. /\ \A m \in Node \ {p} : heap'[m] = heap[m]
       /\ heap'[p] \in {nd, None} /\ res'[h] \in {p, None}
  BY <1>1, <1>3, <1>7 DEF Settle, TypeOK
<1>11. \A m \in Alive : m \in InHand(h)' => Reach(h, m)
  BY <1>1, <1>3, <1>8, <1>9, <1>10 DEF InHand, Reach
<1>12. ASSUME NEW m \in Alive', NEW b \in Byte, NEW k \in Alive, heap'[m].kids[b] = k
       PROVE  (m \in Alive /\ heap[m].kids[b] = k) \/ Reach(h, k)
  <2>1. CASE m # p
    BY <1>10, <1>12, <2>1 DEF Alive
  <2>2. CASE m = p
    BY <1>1, <1>3, <1>5, <1>6, <1>10, <1>12, <2>2 DEF Alive, Reach
  <2> QED BY <2>1, <2>2
<1> QED BY <1>3, <1>8, <1>10, <1>11, <1>12 DEF Conduct, Untouched, Alive

\* The write through get_mut's reference: it changes a value, and no route.
LEMMA WriteThroughConduct ==
  ASSUME IInv, NEW h \in Handle, WriteThrough(h)
  PROVE  Conduct(h) /\ \A n \in Alive : SameRoute(n)
<1> USE DEF handleVars, callVars, walkVars
<1>1. TypeOK
  BY DEF IInv
<1>2. PICK n \in Found(root[h], Step(h).key) : heap' = [heap EXCEPT ![n].value = Step(h).val]
  BY DEF WriteThrough
<1>3. n \in Alive /\ n \in Node /\ heap[n] \in VersionedNode
  <2>1. n \in Alive
    BY DEF Found
  <2> QED BY <1>1, <2>1, AliveTyped
<1>4. \A m \in Alive : SameRoute(m)
  <2> DEFINE x == [heap[n] EXCEPT !.value = Step(h).val]
  <2>1. /\ x.prefix = heap[n].prefix /\ x.leaf = heap[n].leaf /\ x.kids = heap[n].kids
        /\ x # None
    <3>1. todo[h] # <<>>
      BY DEF WriteThrough, Running, IInv, ThreadInv, PhaseOf
    <3>2. Step(h).val \in Val
      BY <1>1, <3>1, StepTyped
    <3> QED BY <1>3, <3>2 DEF VersionedNode
  <2> HIDE DEF x
  <2>2. heap' = [heap EXCEPT ![n] = x]
    BY <1>2 DEF x
  <2> QED BY <1>1, <1>3, <2>1, <2>2 DEF SameRoute, TypeOK, Alive
<1>5. Alive' = Alive
  BY <1>1, <1>2, <1>3, <1>4 DEF SameRoute, Alive, TypeOK
<1>6. /\ root' = root /\ cur' = cur /\ res' = res /\ trail' = trail /\ drops' = drops
      /\ LocalFrame(h)
  BY <1>1, <1>2 DEF WriteThrough, LocalFrame, SameLocals, TypeOK
<1>7. InHand(h)' = InHand(h)
  BY <1>6 DEF InHand, TrailNodes
<1> QED BY <1>4, <1>5, <1>6, <1>7 DEF Conduct, Reach, SameRoute

\* Every step: a thread leaves alone what others hold, but for the values it
\* writes through references to nodes on a path that is not shared.
LEMMA NextConduct ==
  ASSUME IInv, NEW h \in Handle, Advance(h) \/ Use(h)
  PROVE  /\ Conduct(h)
         /\ Untouched(h) \/ WriteThrough(h)
<1>1. CASE Use(h)
  BY <1>1, RestingConduct DEF Use
<1>2. CASE Advance(h)
  <2>1. CASE Plan(h) \/ Start(h) \/ Return(h) \/ Install(h)
    BY <2>1, RestingConduct
  <2>2. CASE RemoveLeaf(h) \/ PathReady(h) \/ Decline(h) \/ CallbackPanic(h)
    BY <2>2, StayConduct
  <2>3. CASE Follow(h) \/ Backtrack(h) \/ Lift(h)
    BY <2>3, UpdateWalkConduct
  <2>4. CASE EnsureCowOwned(h) \/ EnsureCowShared(h)
    BY <2>4, EnsureCowConduct
  <2>5. CASE ReplaceValue(h) \/ TakeValue(h)
    BY <2>5, ValueConduct
  <2>6. CASE StartEmpty(h) \/ AddLeaf(h)
    BY <2>6, LeafConduct
  <2>7. CASE Reattach(h) \/ SwapChild(h)
    BY <2>7, SettleConduct
  <2> QED BY <1>2, <2>1, <2>2, <2>3, <2>4, <2>5, <2>6, <2>7, ReleaseConduct, SplitConduct,
             DescendConduct, WriteThroughConduct DEF Advance
<1> QED BY <1>1, <1>2
-----------------------------------------------------------------------------
(* Where the activations stand on the key *)

\* A frame that is as it was, in a node whose prefix is as it was.
LEMMA OnKeyStays ==
  ASSUME NEW f, NEW k, heap'[f.node].prefix = heap[f.node].prefix
  PROVE  OnKey(f, k)' <=> OnKey(f, k)
BY DEF OnKey

\* A thread whose trail does not get longer, and whose frames nobody writes to.
LEMMA RouteStep ==
  ASSUME IInv, IInv', NEW h \in Handle, ThreadRoute(h), pc[h] \in InTree, todo'[h] = todo[h],
         Frames(h)' \subseteq Frames(h),
         \A i \in Frames(h)' :
           /\ trail'[h][i] = trail[h][i]
           /\ heap'[trail[h][i].node].prefix = heap[trail[h][i].node].prefix
           /\ heap'[trail[h][i].node].kids = heap[trail[h][i].node].kids,
         depth'[h] = DepthBelow(h, Len(trail'[h])),
         \A i \in Frames(h)' : ~TopDown(h) /\ i = Len(trail'[h]) =>
           /\ pc'[h] = "visit" => heap[trail[h][i].node].kids[trail[h][i].edge] = cur'[h]
           /\ pc'[h] = "up" /\ ret'[h] = "false" =>
                heap[trail[h][i].node].kids[trail[h][i].edge] = res'[h],
         pc'[h] \in {"lift", "fix"} => OnKey(Resumed(h), Step(h).key)'
  PROVE  ThreadRoute(h)'
<1>1. /\ trail[h] \in Seq(Frame) /\ trail'[h] \in Seq(Frame)
      /\ Len(trail[h]) \in Nat /\ Len(trail'[h]) \in Nat
      /\ Step(h)' = Step(h) /\ TopDown(h)' = TopDown(h)
  BY DEF IInv, TypeOK, Step, TopDown
<1>2. Frames(h)' = 1..Len(trail'[h]) /\ Frames(h) = 1..Len(trail[h])
  BY DEF Frames
<1>3. \A i \in 0..Len(trail'[h]) : DepthBelow(h, i)' = DepthBelow(h, i)
  <2> SUFFICES ASSUME NEW i \in 0..Len(trail'[h]) PROVE DepthBelow(h, i)' = DepthBelow(h, i)
    OBVIOUS
  <2>1. CASE i = 0
    BY <2>1 DEF DepthBelow
  <2>2. CASE i # 0
    <3>1. i \in Frames(h)'
      BY <1>1, <1>2, <2>2
    <3> QED BY <2>2, <3>1 DEF DepthBelow
  <2> QED BY <2>1, <2>2
<1>4. ASSUME NEW i \in Frames(h)'
      PROVE  /\ OnKey(trail[h][i], Step(h).key)'
             /\ trail'[h][i].depth = DepthBelow(h, i - 1)'
             /\ LinkBelow(h, i)'
  <2>1. i \in Frames(h) /\ i - 1 \in 0..Len(trail'[h]) /\ i \in 1..Len(trail'[h])
    BY <1>1, <1>2, <1>4
  <2>2. OnKey(trail[h][i], Step(h).key) /\ trail[h][i].depth = DepthBelow(h, i - 1)
        /\ LinkBelow(h, i)
    BY <2>1 DEF ThreadRoute
  <2>3. OnKey(trail[h][i], Step(h).key)'
    BY <1>1, <1>4, <2>2 DEF OnKey
  <2>4. LinkBelow(h, i)'
    <3> DEFINE c == heap[trail[h][i].node].kids[trail[h][i].edge]
    <3>1. heap'[trail'[h][i].node].kids[trail'[h][i].edge] = c
      BY <1>4
    <3>2. TopDown(h) => c = None
      BY <2>2 DEF LinkBelow
    <3>3. ~TopDown(h) /\ i < Len(trail'[h]) => c = trail'[h][i + 1].node
      <4>1. i < Len(trail'[h]) => i + 1 \in Frames(h)' /\ i < Len(trail[h])
        BY <1>1, <1>2, <2>1
      <4> QED BY <2>2, <4>1 DEF LinkBelow
    <3>4. ~TopDown(h) /\ i = Len(trail'[h]) =>
            /\ pc'[h] = "visit" => c = cur'[h]
            /\ pc'[h] = "up" /\ ret'[h] = "false" => c = res'[h]
      OBVIOUS
    <3> HIDE DEF c
    <3> QED BY <1>1, <3>1, <3>2, <3>3, <3>4 DEF LinkBelow
  <2> QED BY <1>3, <1>4, <2>1, <2>2, <2>3, <2>4
<1>5. depth'[h] = DepthBelow(h, Len(trail[h]))'
  BY <1>1, <1>3
<1> QED BY <1>1, <1>4, <1>5 DEF ThreadRoute

\* A thread whose trail stays.
LEMMA RouteHere ==
  ASSUME IInv, IInv', NEW h \in Handle, ThreadRoute(h), pc[h] \in InTree, todo'[h] = todo[h],
         trail'[h] = trail[h], depth'[h] = depth[h],
         \A n \in TrailNodes(h) : heap'[n].prefix = heap[n].prefix /\ heap'[n].kids = heap[n].kids,
         \A i \in Frames(h) : ~TopDown(h) /\ i = Len(trail[h]) =>
           /\ pc'[h] = "visit" => heap[trail[h][i].node].kids[trail[h][i].edge] = cur'[h]
           /\ pc'[h] = "up" /\ ret'[h] = "false" =>
                heap[trail[h][i].node].kids[trail[h][i].edge] = res'[h],
         pc'[h] \in {"lift", "fix"} => OnKey(Resumed(h), Step(h).key)'
  PROVE  ThreadRoute(h)'
<1>1. Frames(h)' = Frames(h)
  BY DEF Frames
<1>2. \A i \in Frames(h) : trail[h][i].node \in TrailNodes(h)
  BY DEF Frames, TrailNodes, IInv, TypeOK
<1>3. depth[h] = DepthBelow(h, Len(trail[h]))
  BY DEF ThreadRoute
<1> QED BY <1>1, <1>2, <1>3, RouteStep

\* A thread that does not move.
LEMMA RouteStays ==
  ASSUME IInv, IInv', NEW g \in Handle, ThreadRoute(g), SameWalk(g), ret'[g] = ret[g],
         \A n \in Alive : n \in TrailNodes(g) \/ n = cur[g] =>
           heap'[n].prefix = heap[n].prefix /\ heap'[n].kids = heap[n].kids
  PROVE  ThreadRoute(g)'
<1>1. CASE pc[g] \notin InTree
  BY <1>1 DEF SameWalk, ThreadRoute
<1>2. CASE pc[g] \in InTree
  <2>1. TrailNodes(g) \subseteq Alive /\ (pc[g] \in {"lift", "fix"} => cur[g] \in Alive)
    BY <1>2, WasInTree DEF TrailNodes, Frames
  <2>2. /\ todo'[g] = todo[g] /\ trail'[g] = trail[g] /\ depth'[g] = depth[g] /\ pc'[g] = pc[g]
        /\ cur'[g] = cur[g] /\ res'[g] = res[g] /\ edge'[g] = edge[g] /\ Step(g)' = Step(g)
    BY DEF SameWalk, Step
  <2>3. \A i \in Frames(g) : ~TopDown(g) /\ i = Len(trail[g]) =>
           /\ pc'[g] = "visit" => heap[trail[g][i].node].kids[trail[g][i].edge] = cur'[g]
           /\ pc'[g] = "up" /\ ret'[g] = "false" =>
                heap[trail[g][i].node].kids[trail[g][i].edge] = res'[g]
    BY <1>2, <2>2 DEF ThreadRoute, LinkBelow
  <2>4. pc'[g] \in {"lift", "fix"} => OnKey(Resumed(g), Step(g).key)'
    <3> SUFFICES ASSUME pc[g] \in {"lift", "fix"}
                 PROVE  OnKey(Resumed(g), Step(g).key)'
      BY <2>2
    <3>1. OnKey(Resumed(g), Step(g).key)
      BY <1>2 DEF ThreadRoute
    <3>2. heap'[cur[g]].prefix = heap[cur[g]].prefix
      BY <2>1
    <3> QED BY <2>2, <3>1, <3>2 DEF OnKey, Resumed
  <2> QED BY <1>2, <2>1, <2>2, <2>3, <2>4, RouteHere
<1> QED BY <1>1, <1>2

\* What another thread does.
LEMMA RouteOthers ==
  ASSUME IInv, IInv', NEW h \in Handle, Conduct(h), Untouched(h) \/ WriteThrough(h),
         NEW g \in Handle \ {h}, ThreadRoute(g)
  PROVE  ThreadRoute(g)'
<1>1. SameLocals(g)
  BY DEF Conduct, LocalFrame
<1>2. ASSUME NEW n \in Alive, n \in TrailNodes(g) \/ n = cur[g]
      PROVE  heap'[n].prefix = heap[n].prefix /\ heap'[n].kids = heap[n].kids
  <2>1. HeldElsewhere(h, n)
    <3>1. n # None
      BY AliveTyped DEF IInv
    <3>2. n \in InHand(g)
      BY <1>2, <3>1 DEF InHand
    <3> QED BY <3>2 DEF HeldElsewhere
  <2> QED BY <1>2, <2>1, WriteThroughConduct DEF Untouched, SameRoute
<1> QED BY <1>1, <1>2, RouteStays DEF SameLocals, SameWalk

\* A thread that releases a reference.
LEMMA ReleaseRoute ==
  ASSUME IInv, IInv', NEW h \in Handle, ThreadRoute(h), Release(h)
  PROVE  ThreadRoute(h)'
<1> USE DEF handleVars, callVars, walkVars
<1>1. TypeOK /\ drops[h] \subseteq Alive
  BY DEF IInv, ThreadInv, HoldsAlive
<1>2. SameWalk(h) /\ ret'[h] = ret[h]
  BY DEF Release, SameWalk
<1>3. ASSUME NEW m \in Alive, m \in TrailNodes(h) \/ m = cur[h]
      PROVE  heap'[m] = heap[m]
  <2>1. PICK n \in drops[h] :
          heap' = IF LastReference(h, n) THEN [heap EXCEPT ![n] = None] ELSE heap
    BY DEF Release
  <2>2. LastReference(h, n) => m # n
    BY <1>3 DEF LastReference
  <2>3. n \in Node /\ m \in Node
    BY <1>1, AliveTyped
  <2> QED BY <1>1, <2>1, <2>2, <2>3 DEF TypeOK
<1> QED BY <1>2, <1>3, RouteStays

\* A thread that goes down to a child.
LEMMA PushedRoute ==
  ASSUME IInv, IInv', NEW h \in Handle, ThreadRoute(h),
         pc[h] \in {"visit", "edit"}, PlaceOf(h) = "child",
         NEW b, b = EdgeOf(heap[cur[h]], Step(h).key, depth[h]),
         trail'[h] = Append(trail[h], [node |-> cur[h], edge |-> b, depth |-> depth[h]]),
         depth'[h] = depth[h] + Len(heap[cur[h]].prefix),
         pc'[h] = "visit", todo'[h] = todo[h],
         ~TopDown(h) => pc[h] = "visit",
         \A n \in TrailNodes(h) : heap'[n].prefix = heap[n].prefix /\ heap'[n].kids = heap[n].kids,
         heap'[cur[h]].prefix = heap[cur[h]].prefix,
         heap'[cur[h]].kids[b] = IF TopDown(h) THEN None ELSE cur'[h]
  PROVE  ThreadRoute(h)'
<1> PICK n : n = cur[h]
  OBVIOUS
<1> PICK L : L = Len(trail[h])
  OBVIOUS
<1> PICK k : k = Step(h).key
  OBVIOUS
<1> PICK f : f = [node |-> n, edge |-> b, depth |-> depth[h]]
  OBVIOUS
<1>1. f.node = n /\ f.edge = b /\ f.depth = depth[h]
  OBVIOUS
<1>2. /\ pc[h] \in InTree /\ pc'[h] \in InTree /\ trail[h] \in Seq(Frame) /\ L \in Nat
      /\ n \in Alive /\ heap[n] \in VersionedNode /\ k \in Seq(Byte) /\ TypeOK
  BY WasInTree DEF InTree
<1>3. /\ depth[h] \in Nat /\ depth[h] <= Len(k) /\ Len(heap[n].prefix) \in Nat
      /\ heap[n].prefix \in Seq(Byte) /\ b \in Byte /\ Len(k) \in Nat
  BY <1>2, AtNode, WasInTree
<1>4. OnKey(f, k)
  <2>1. Place(heap[n], k, depth[h]) = "child"
    BY DEF PlaceOf
  <2>2. /\ PrefixAt(heap[n].prefix, k, depth[h])
        /\ depth[h] + Len(heap[n].prefix) < Len(k)
    BY <1>2, <1>3, <2>1, PlaceMeans
  <2>3. b = k[depth[h] + Len(heap[n].prefix) + 1]
    BY DEF EdgeOf
  <2> QED BY <1>1, <2>2, <2>3 DEF OnKey, PrefixAt
<1>5. /\ Frames(h)' = 1..L + 1 /\ Len(trail'[h]) = L + 1 /\ Frames(h) = 1..L
      /\ trail'[h][L + 1] = f
      /\ \A i \in 1..L : trail'[h][i] = trail[h][i]
  BY <1>2, <1>3, Pushed DEF Frames, Frame
<1>6. Step(h)' = Step(h) /\ TopDown(h)' = TopDown(h)
  BY DEF Step, TopDown
<1>7. /\ depth[h] = DepthBelow(h, L)
      /\ \A i \in 1..L : OnKey(trail[h][i], k) /\ trail[h][i].depth = DepthBelow(h, i - 1)
                         /\ LinkBelow(h, i)
  BY <1>2, <1>5 DEF ThreadRoute
<1>8. \A i \in 1..L : trail[h][i].node \in TrailNodes(h)
  BY <1>2 DEF TrailNodes
<1>9. \A i \in 0..L : DepthBelow(h, i)' = DepthBelow(h, i)
  <2> SUFFICES ASSUME NEW i \in 0..L PROVE DepthBelow(h, i)' = DepthBelow(h, i)
    OBVIOUS
  <2>1. CASE i = 0
    BY <2>1 DEF DepthBelow
  <2>2. CASE i # 0
    <3>1. i \in 1..L
      BY <1>2, <2>2
    <3> QED BY <1>5, <1>8, <2>2, <3>1 DEF DepthBelow
  <2> QED BY <2>1, <2>2
<1>10. depth'[h] = DepthBelow(h, L + 1)'
  <2>1. L + 1 # 0
    BY <1>2
  <2>2. depth'[h] = f.depth + Len(heap'[f.node].prefix)
    BY <1>1
  <2> QED BY <1>5, <2>1, <2>2 DEF DepthBelow
<1>11. ASSUME NEW i \in 1..L
       PROVE  /\ OnKey(trail[h][i], Step(h).key)'
              /\ trail'[h][i].depth = DepthBelow(h, i - 1)'
              /\ LinkBelow(h, i)'
  <2>1. i - 1 \in 0..L /\ i < L + 1 /\ i # L + 1 /\ i \in Nat
    BY <1>2, <1>11
  <2>2. OnKey(trail[h][i], k) /\ trail[h][i].depth = DepthBelow(h, i - 1) /\ LinkBelow(h, i)
    BY <1>7, <1>11
  <2>3. OnKey(trail[h][i], Step(h).key)'
    <3>1. PICK g : g = trail[h][i] /\ g = trail'[h][i]
      BY <1>5, <1>11
    <3>2. heap'[g.node].prefix = heap[g.node].prefix
      BY <1>8, <1>11, <3>1
    <3>3. OnKey(g, k)'
      BY <2>2, <3>1, <3>2 DEF OnKey
    <3> QED BY <1>6, <3>1, <3>3
  <2>4. trail'[h][i].depth = DepthBelow(h, i - 1)'
    BY <1>5, <1>9, <1>11, <2>1, <2>2
  <2>5. LinkBelow(h, i)'
    <3> DEFINE c == heap[trail[h][i].node].kids[trail[h][i].edge]
    <3>1. heap'[trail'[h][i].node].kids[trail'[h][i].edge] = c
      BY <1>5, <1>8, <1>11
    <3>2. TopDown(h) => c = None
      BY <2>2 DEF LinkBelow
    <3>3. ~TopDown(h) => c = trail'[h][i + 1].node
      <4>1. CASE i = L
        BY <1>1, <1>5, <2>2, <4>1 DEF LinkBelow
      <4>2. CASE i # L
        <5>1. i + 1 \in 1..L /\ i < L
          BY <1>2, <1>11, <4>2
        <5> QED BY <1>5, <2>2, <5>1 DEF LinkBelow
      <4> QED BY <4>1, <4>2
    <3> HIDE DEF c
    <3> QED BY <1>5, <1>6, <2>1, <3>1, <3>2, <3>3 DEF LinkBelow
  <2> QED BY <2>3, <2>4, <2>5
<1>12. /\ OnKey(trail[h][L + 1], Step(h).key)'
       /\ trail'[h][L + 1].depth = DepthBelow(h, (L + 1) - 1)'
       /\ LinkBelow(h, L + 1)'
  <2>1. OnKey(trail[h][L + 1], Step(h).key)'
    <3>1. heap'[f.node].prefix = heap[f.node].prefix
      BY <1>1
    <3>2. OnKey(f, k)'
      BY <1>4, <3>1 DEF OnKey
    <3> QED BY <1>5, <1>6, <3>2
  <2>2. (L + 1) - 1 = L /\ L \in 0..L /\ ~(L + 1 < L + 1)
    BY <1>2
  <2>3. trail'[h][L + 1].depth = DepthBelow(h, (L + 1) - 1)'
    BY <1>1, <1>5, <1>7, <1>9, <2>2
  <2>4. LinkBelow(h, L + 1)'
    <3>1. heap'[trail'[h][L + 1].node].kids[trail'[h][L + 1].edge]
            = IF TopDown(h) THEN None ELSE cur'[h]
      BY <1>1, <1>5
    <3>2. L + 1 = Len(trail'[h]) /\ pc'[h] = "visit"
      BY <1>5
    <3> QED BY <1>6, <2>2, <3>1, <3>2 DEF LinkBelow
  <2> QED BY <2>1, <2>3, <2>4
<1>13. \A i \in Frames(h)' : i \in 1..L \/ i = L + 1
  BY <1>2, <1>5
<1> QED BY <1>2, <1>5, <1>10, <1>11, <1>12, <1>13 DEF ThreadRoute

\* A thread that turns around with an answer: what it wrote is not on its trail.
LEMMA TurnedRoute ==
  ASSUME IInv, IInv', NEW h \in Handle, ThreadRoute(h), pc[h] \in InTree, pc'[h] = "up",
         todo'[h] = todo[h], trail'[h] = trail[h], depth'[h] = depth[h],
         \A n \in TrailNodes(h) : heap'[n] = heap[n],
         ~TopDown(h) /\ ret'[h] = "false" => pc[h] = "visit" /\ res'[h] = cur[h]
  PROVE  ThreadRoute(h)'
<1>1. \A i \in Frames(h) : ~TopDown(h) /\ i = Len(trail[h]) =>
         (pc'[h] = "up" /\ ret'[h] = "false" =>
              heap[trail[h][i].node].kids[trail[h][i].edge] = res'[h])
  BY DEF ThreadRoute, LinkBelow
<1> QED BY <1>1, RouteHere

\* What a thread writes is the node it stands at, or names that were free.
LEMMA WrittenHere ==
  ASSUME IInv, NEW h \in Handle, pc[h] \in {"visit", "edit", "fix"},
         \A n \in Alive : heap'[n] = heap[n] \/ (n = cur[h] /\ pc[h] \in {"edit", "fix"})
  PROVE  \A n \in TrailNodes(h) : heap'[n] = heap[n]
<1>1. TrailNodes(h) \subseteq Alive
  BY WasInTree DEF TrailNodes, Frames, InTree
<1> QED BY <1>1, AtHand

\* The answers at the end of the descent.
LEMMA AnswerRoute ==
  ASSUME IInv, IInv', NEW h \in Handle, ThreadRoute(h),
         \/ ReplaceValue(h) \/ TakeValue(h) \/ RemoveLeaf(h) \/ PathReady(h) \/ Decline(h)
         \/ AddLeaf(h) \/ Split(h)
  PROVE  ThreadRoute(h)'
<1> USE DEF handleVars, callVars, walkVars
<1>1. TypeOK
  BY DEF IInv
<1>2. /\ pc'[h] = "up" /\ todo'[h] = todo[h] /\ trail'[h] = trail[h] /\ depth'[h] = depth[h]
      /\ pc[h] \in {"visit", "edit"} /\ pc[h] \in {"visit", "edit", "fix"} /\ pc[h] \in InTree
      /\ cur[h] \in Node
  <2>1. pc[h] \in {"visit", "edit"}
    BY DEF ReplaceValue, TakeValue, RemoveLeaf, PathReady, Decline, AddLeaf, Split, Unwrapped, Running
  <2>2. /\ pc'[h] = "up" /\ todo'[h] = todo[h] /\ trail'[h] = trail[h] /\ depth'[h] = depth[h]
    BY <1>1 DEF ReplaceValue, TakeValue, RemoveLeaf, PathReady, Decline, AddLeaf, Split,
                ReturnNode, TypeOK
  <2> QED BY <2>1, <2>2, AtHand DEF InTree
<1>3. \A n \in TrailNodes(h) : heap'[n] = heap[n]
  <2>1. CASE RemoveLeaf(h) \/ PathReady(h) \/ Decline(h)
    BY <2>1 DEF RemoveLeaf, PathReady, Decline
  <2>2. CASE ReplaceValue(h) \/ TakeValue(h)
    <3>1. \A n \in Alive : heap'[n] = heap[n] \/ n = cur[h]
      BY <1>1, <1>2, <2>2 DEF ReplaceValue, TakeValue, TypeOK, Alive
    <3>2. pc[h] = "edit"
      BY <2>2 DEF ReplaceValue, TakeValue, Unwrapped, Running
    <3> QED BY <1>2, <3>1, <3>2, WrittenHere
  <2>3. CASE AddLeaf(h)
    <3>1. New1(h) \in Node \ Alive /\ pc[h] = "edit"
      BY <1>1, <2>3, FreshNames DEF AddLeaf, Unwrapped, Running
    <3>2. \A n \in Alive : heap'[n] = heap[n] \/ n = cur[h]
      BY <1>1, <1>2, <2>3, <3>1 DEF AddLeaf, TypeOK, Alive
    <3> QED BY <1>2, <3>1, <3>2, WrittenHere
  <2>4. CASE Split(h)
    <3>1. /\ New1(h) \in Node \ Alive /\ New2(h) \in Node \ Alive /\ New3(h) \in Node \ Alive
      BY <1>1, <2>4, FreshNames DEF Split
    <3>2. \A n \in Alive : heap'[n] = heap[n]
      BY <1>1, <2>4, <3>1 DEF Split, TypeOK, Alive
    <3> QED BY <1>2, <3>2, WrittenHere
  <2> QED BY <2>1, <2>2, <2>3, <2>4
<1>4. ~TopDown(h) /\ ret'[h] = "false" => pc[h] = "visit" /\ res'[h] = cur[h]
  <2> SUFFICES ASSUME ~TopDown(h), ret'[h] = "false"
               PROVE  pc[h] = "visit" /\ res'[h] = cur[h]
    OBVIOUS
  <2>1. Step(h).op = "update"
    BY DEF TopDown
  <2>2. ~ReplaceValue(h) /\ ~TakeValue(h)
    BY <1>1, <2>1 DEF ReplaceValue, TakeValue, TypeOK
  <2>3. ~RemoveLeaf(h) /\ ~PathReady(h)
    BY <2>1 DEF RemoveLeaf, PathReady
  <2>4. ~AddLeaf(h) /\ ~Split(h)
    BY <1>1 DEF AddLeaf, Split, TypeOK
  <2> QED BY <1>1, <2>2, <2>3, <2>4 DEF Decline, ReturnNode, Running, TypeOK
<1> QED BY <1>2, <1>3, <1>4, TurnedRoute

\* ensure_cow_node keeps the prefix and the children of the node.
LEMMA EnsureCowRoute ==
  ASSUME IInv, IInv', NEW h \in Handle, ThreadRoute(h), EnsureCowOwned(h) \/ EnsureCowShared(h)
  PROVE  ThreadRoute(h)'
<1> USE DEF handleVars, callVars, walkVars
<1>1. TypeOK /\ pc[h] \in {"visit", "lift"} /\ pc[h] \in InTree /\ cur[h] \in Node
      /\ cur[h] \in Alive /\ heap[cur[h]] \in VersionedNode /\ Target(h) \in Nat
  BY WasEnsuring DEF EnsureCowOwned, EnsureCowShared, IInv
<1>2. /\ todo'[h] = todo[h] /\ trail'[h] = trail[h] /\ depth'[h] = depth[h] /\ edge'[h] = edge[h]
      /\ pc'[h] = IF pc[h] = "visit" THEN "edit" ELSE "fix"
  BY <1>1 DEF EnsureCowOwned, EnsureCowShared, Ensured, TypeOK
<1>3. /\ \A n \in Alive : heap'[n].prefix = heap[n].prefix /\ heap'[n].kids = heap[n].kids
      /\ heap'[cur'[h]].prefix = heap[cur[h]].prefix
  <2>1. CASE EnsureCowOwned(h)
    <3>1. heap' = [heap EXCEPT ![cur[h]].version = Target(h)] /\ cur' = cur
      BY <2>1 DEF EnsureCowOwned
    <3>2. \A n \in Alive : heap'[n].prefix = heap[n].prefix /\ heap'[n].kids = heap[n].kids
      BY <1>1, <3>1, AliveTyped DEF TypeOK, VersionedNode
    <3> QED BY <1>1, <3>1, <3>2
  <2>2. CASE EnsureCowShared(h)
    <3> DEFINE c == New1(h)
               x == CowClone(heap[cur[h]], Target(h))
    <3>1. heap' = [heap EXCEPT ![c] = x] /\ cur'[h] = c /\ c \in Node \ Alive
      BY <1>1, <2>2, FreshNames DEF EnsureCowShared, TypeOK
    <3>2. x.prefix = heap[cur[h]].prefix
      BY <1>1 DEF CowClone, VersionedNode
    <3> HIDE DEF c, x
    <3>3. \A n \in Alive : heap'[n] = heap[n]
      BY <1>1, <3>1 DEF TypeOK, Alive
    <3>4. heap'[c] = x
      BY <1>1, <3>1 DEF TypeOK
    <3> QED BY <3>1, <3>2, <3>3, <3>4
  <2> QED BY <2>1, <2>2, <1>1 DEF EnsureCowOwned, EnsureCowShared
<1>4. TrailNodes(h) \subseteq Alive
  BY <1>1, WasInTree DEF TrailNodes, Frames
<1>5. pc'[h] \in {"lift", "fix"} => OnKey(Resumed(h), Step(h).key)'
  <2> SUFFICES ASSUME pc[h] = "lift" PROVE OnKey(Resumed(h), Step(h).key)'
    BY <1>1, <1>2
  <2>1. OnKey(Resumed(h), Step(h).key)
    BY <1>1 DEF ThreadRoute
  <2>2. Step(h)' = Step(h)
    BY <1>2 DEF Step
  <2> QED BY <1>2, <1>3, <2>1, <2>2 DEF OnKey, Resumed
<1>6. pc'[h] \in {"edit", "fix"}
  BY <1>1, <1>2
<1> QED BY <1>1, <1>2, <1>3, <1>4, <1>5, <1>6, RouteHere

\* insert, remove and get_mut take the child out, update leaves it.
LEMMA DownRoute ==
  ASSUME IInv, IInv', NEW h \in Handle, ThreadRoute(h), Descend(h) \/ Follow(h)
  PROVE  ThreadRoute(h)'
<1> USE DEF handleVars, callVars, walkVars
<1>1. PICK b : b = EdgeOf(heap[cur[h]], Step(h).key, depth[h])
  OBVIOUS
<1>2. TypeOK /\ pc[h] \in {"visit", "edit"} /\ pc[h] \in InTree /\ PlaceOf(h) = "child"
      /\ (~TopDown(h) => pc[h] = "visit")
  BY DEF Descend, Follow, Unwrapped, Running, IInv, InTree
<1>3. cur[h] \in Node /\ cur[h] \in Alive /\ heap[cur[h]] \in VersionedNode /\ b \in Byte
  BY <1>1, <1>2, AtNode, AtHand
<1>4. /\ trail'[h] = Append(trail[h], [node |-> cur[h], edge |-> b, depth |-> depth[h]])
      /\ depth'[h] = depth[h] + Len(heap[cur[h]].prefix)
      /\ pc'[h] = "visit" /\ todo'[h] = todo[h] /\ cur'[h] = heap[cur[h]].kids[b]
  BY <1>1, <1>2 DEF Descend, Follow, Running, TypeOK
<1>5. CASE Descend(h)
  <2>1. heap' = [heap EXCEPT ![cur[h]] = DeleteChild(@, b)] /\ TopDown(h) /\ pc[h] = "edit"
    BY <1>1, <1>5 DEF Descend, Unwrapped, Running
  <2>2. heap'[cur[h]] = DeleteChild(heap[cur[h]], b) /\ \A n \in Alive \ {cur[h]} : heap'[n] = heap[n]
    BY <1>2, <1>3, <2>1 DEF TypeOK, Alive
  <2>3. heap'[cur[h]].prefix = heap[cur[h]].prefix /\ heap'[cur[h]].kids[b] = None
    BY <1>3, <2>2 DEF DeleteChild, VersionedNode
  <2>4. \A n \in TrailNodes(h) : heap'[n] = heap[n]
    BY <2>1, <2>2, WrittenHere
  <2>5. \A n \in TrailNodes(h) : heap'[n].prefix = heap[n].prefix /\ heap'[n].kids = heap[n].kids
    BY <2>4
  <2>6. heap'[cur[h]].kids[b] = IF TopDown(h) THEN None ELSE cur'[h]
    BY <2>1, <2>3
  <2> QED BY <1>1, <1>2, <1>4, <2>1, <2>3, <2>5, <2>6, PushedRoute
<1>6. CASE Follow(h)
  <2>1. heap' = heap /\ ~TopDown(h)
    BY <1>6 DEF Follow
  <2> QED BY <1>1, <1>2, <1>4, <2>1, PushedRoute
<1> QED BY <1>5, <1>6

\* What is left when the innermost frame comes off.
LEMMA PoppedRoute ==
  ASSUME IInv, IInv', NEW h \in Handle, ThreadRoute(h), pc[h] \in InTree,
         trail[h] # <<>>, trail'[h] = Front(trail[h]), depth'[h] = Last(trail[h]).depth,
         todo'[h] = todo[h],
         \A n \in Alive : heap'[n] = heap[n] \/ (TopDown(h) /\ n = Last(trail[h]).node),
         ~TopDown(h) /\ ret'[h] = "false" => pc'[h] = "up" /\ res'[h] = Last(trail[h]).node,
         ~TopDown(h) => pc'[h] \in {"up", "lift"},
         pc'[h] \in {"lift", "fix"} => OnKey(Resumed(h), Step(h).key)'
  PROVE  ThreadRoute(h)'
<1> DEFINE L == Len(trail[h])
<1>1. /\ L \in Nat /\ L \in Frames(h) \ Frames(h)' /\ Frames(h)' \subseteq Frames(h)
      /\ \A i \in Frames(h)' : trail'[h][i] = trail[h][i]
      /\ Last(trail[h]) = trail[h][L] /\ trail[h] \in Seq(Frame)
  BY Popped, WasInTree
<1>2. Len(trail'[h]) = L - 1 /\ L - 1 \in Nat /\ Frames(h)' = 1..L - 1 /\ Frames(h) = 1..L
  BY <1>1 DEF Frames, Front
<1>3. \A i \in Frames(h) : trail[h][i].node \in Alive
  BY WasInTree
<1>4. ASSUME NEW i \in Frames(h)' PROVE heap'[trail[h][i].node] = heap[trail[h][i].node]
  <2>1. TopDown(h) => trail[h][i].node # Last(trail[h]).node
    <3>1. TopDown(h) => AloneOnTrail(h, i)
      BY <1>1, WasInTree DEF ThreadInv, TrailExclusive
    <3>2. L # i /\ L \in Frames(h)
      BY <1>1
    <3> QED BY <1>1, <3>1, <3>2 DEF AloneOnTrail
  <2> QED BY <1>1, <1>3, <2>1
<1>5. depth'[h] = DepthBelow(h, Len(trail'[h]))
  BY <1>1, <1>2 DEF ThreadRoute
<1>6. ASSUME NEW i \in Frames(h)', ~TopDown(h), i = Len(trail'[h])
      PROVE  /\ pc'[h] # "visit"
             /\ ret'[h] = "false" => heap[trail[h][i].node].kids[trail[h][i].edge] = res'[h]
  <2>1. i \in Frames(h) /\ i + 1 = L /\ i < L
    BY <1>1, <1>2, <1>6
  <2>2. heap[trail[h][i].node].kids[trail[h][i].edge] = trail[h][L].node
    BY <1>6, <2>1 DEF ThreadRoute, LinkBelow
  <2> QED BY <1>1, <1>6, <2>2
<1> HIDE DEF L
<1> QED BY <1>1, <1>4, <1>5, <1>6, RouteStep

\* The way back up.
LEMMA UpRoute ==
  ASSUME IInv, IInv', NEW h \in Handle, ThreadRoute(h), Reattach(h) \/ Backtrack(h) \/ Lift(h)
  PROVE  ThreadRoute(h)'
<1> USE DEF handleVars, callVars, walkVars
<1>1. TypeOK /\ pc[h] = "up" /\ pc[h] \in InTree
  BY DEF Reattach, Backtrack, Lift, Running, InTree, IInv
<1>2. /\ trail[h] # <<>> /\ trail'[h] = Front(trail[h]) /\ depth'[h] = Last(trail[h]).depth
      /\ todo'[h] = todo[h] /\ ret'[h] = ret[h]
  BY <1>1 DEF Reattach, Backtrack, Lift, Resume, TypeOK
<1>3. /\ Last(trail[h]) \in Frame /\ Last(trail[h]).node \in Node
      /\ Last(trail[h]) = trail[h][Len(trail[h])] /\ Len(trail[h]) \in Frames(h)
  BY <1>2, Popped
<1>4. CASE Reattach(h)
  <2>1. TopDown(h) /\ pc'[h] = "up"
    BY <1>1, <1>4 DEF Reattach
  <2>2. \A n \in Alive : heap'[n] = heap[n] \/ n = Last(trail[h]).node
    BY <1>1, <1>3, <1>4 DEF Reattach, Settle, TypeOK, Alive
  <2> QED BY <1>1, <1>2, <2>1, <2>2, PoppedRoute
<1>5. CASE Backtrack(h)
  <2>1. heap' = heap /\ pc'[h] = "up" /\ res'[h] = Last(trail[h]).node
    BY <1>1, <1>5 DEF Backtrack, TypeOK
  <2> QED BY <1>1, <1>2, <2>1, PoppedRoute
<1>6. CASE Lift(h)
  <2>1. /\ heap' = heap /\ pc'[h] = "lift" /\ cur'[h] = Last(trail[h]).node
        /\ edge'[h] = Last(trail[h]).edge /\ ret[h] = "true"
    BY <1>1, <1>6 DEF Lift, TypeOK
  <2>2. OnKey(Last(trail[h]), Step(h).key)
    BY <1>1, <1>3 DEF ThreadRoute
  <2>3. OnKey(Resumed(h), Step(h).key)'
    <3>1. Step(h)' = Step(h)
      BY <1>2 DEF Step
    <3> QED BY <1>2, <2>1, <2>2, <3>1 DEF OnKey, Resumed
  <2> QED BY <1>1, <1>2, <2>1, <2>3, PoppedRoute
<1> QED BY <1>4, <1>5, <1>6

\* update puts the new child in the place of the old one.
LEMMA SwapRoute ==
  ASSUME IInv, IInv', NEW h \in Handle, ThreadRoute(h), SwapChild(h)
  PROVE  ThreadRoute(h)'
<1> USE DEF handleVars, callVars, walkVars
<1>1. TypeOK /\ pc[h] = "fix" /\ pc[h] \in InTree
  BY DEF SwapChild, Unwrapped, Running, InTree, IInv
<1>2. /\ pc'[h] = "up" /\ todo'[h] = todo[h] /\ trail'[h] = trail[h] /\ depth'[h] = depth[h]
      /\ ret'[h] = ret[h] /\ cur[h] \in Node
  BY <1>1, AtHand DEF SwapChild, TypeOK
<1>3. \A n \in Alive : heap'[n] = heap[n] \/ n = cur[h]
  BY <1>1, <1>2 DEF SwapChild, Settle, TypeOK, Alive
<1>4. \A n \in TrailNodes(h) : heap'[n] = heap[n]
  BY <1>1, <1>3, WrittenHere
<1>5. ret[h] = "true"
  BY <1>1, WasInTree DEF ThreadInv, PhaseOf
<1> QED BY <1>1, <1>2, <1>4, <1>5, TurnedRoute

\* Outside a tree there is no trail.
LEMMA RestingRoute ==
  ASSUME IInv, NEW h \in Handle,
         \/ New(h) \/ DropHandle(h) \/ Plan(h) \/ StartEmpty(h) \/ Start(h) \/ Return(h)
         \/ Install(h) \/ CallbackPanic(h) \/ WriteThrough(h)
         \/ \E g \in Handle : Clone(g, h) \/ Snapshot(g, h)
         \/ \E c \in Calls : Invoke(h, c)
  PROVE  ThreadRoute(h)'
<1> USE DEF handleVars, callVars, walkVars
<1>1. TypeOK
  BY DEF IInv
<1>2. CASE Start(h)
  <2>1. pc[h] = "next" /\ trail'[h] = trail[h] /\ depth'[h] = 0 /\ pc'[h] = "visit"
    BY <1>1, <1>2 DEF Start, Running, TypeOK
  <2>2. trail'[h] = <<>>
    BY <2>1, WasResting
  <2>3. Len(trail'[h]) = 0 /\ Frames(h)' = {}
    BY <2>2 DEF Frames
  <2>4. DepthBelow(h, Len(trail[h]))' = 0
    BY <2>3 DEF DepthBelow
  <2> QED BY <2>1, <2>3, <2>4 DEF ThreadRoute
<1>3. CASE ~Start(h)
  <2>1. pc'[h] \notin InTree
    <3>1. CASE New(h) \/ DropHandle(h) \/ \E g \in Handle : Clone(g, h) \/ Snapshot(g, h)
      BY <1>1, <3>1 DEF New, DropHandle, Clone, Snapshot, CopyHandle, Running, InTree
    <3>2. CASE Plan(h) \/ StartEmpty(h) \/ Return(h) \/ Install(h)
      BY <1>1, <3>2 DEF Plan, StartEmpty, Return, Install, Running, InTree, TypeOK
    <3>3. CASE CallbackPanic(h) \/ WriteThrough(h) \/ \E c \in Calls : Invoke(h, c)
      BY <1>1, <3>3 DEF CallbackPanic, WriteThrough, Invoke, InTree, TypeOK
    <3> QED BY <1>3, <3>1, <3>2, <3>3
  <2> QED BY <2>1 DEF ThreadRoute
<1> QED BY <1>2, <1>3

\* Every step leaves every thread's activations where the key leads.
LEMMA NextRoute ==
  ASSUME IInv, IInv', RouteInv, [Next]_vars
  PROVE  RouteInv'
<1>1. CASE UNCHANGED vars
  <2>1. \A g \in Handle : SameWalk(g) /\ ret'[g] = ret[g]
    BY <1>1 DEF vars, SameWalk
  <2>2. heap' = heap
    BY <1>1 DEF vars
  <2> QED BY <2>1, <2>2, RouteStays DEF RouteInv
<1>2. CASE Next
  <2>1. PICK h \in Handle : Advance(h) \/ Use(h)
    BY <1>2 DEF Next
  <2>2. ThreadRoute(h)
    BY DEF RouteInv
  <2>3. ThreadRoute(h)'
    <3>1. CASE Use(h)
      BY <2>2, <3>1, RestingRoute DEF Use
    <3>2. CASE Advance(h)
      <4>1. CASE \/ Plan(h) \/ StartEmpty(h) \/ Start(h) \/ Return(h) \/ Install(h)
                 \/ CallbackPanic(h) \/ WriteThrough(h)
        BY <4>1, RestingRoute
      <4>2. CASE Reattach(h) \/ Backtrack(h) \/ Lift(h)
        BY <2>2, <4>2, UpRoute
      <4>3. CASE EnsureCowOwned(h) \/ EnsureCowShared(h)
        BY <2>2, <4>3, EnsureCowRoute
      <4>4. CASE Descend(h) \/ Follow(h)
        BY <2>2, <4>4, DownRoute
      <4>5. CASE \/ ReplaceValue(h) \/ TakeValue(h) \/ RemoveLeaf(h) \/ PathReady(h) \/ Decline(h)
                 \/ AddLeaf(h) \/ Split(h)
        BY <2>2, <4>5, AnswerRoute
      <4> QED BY <2>2, <3>2, <4>1, <4>2, <4>3, <4>4, <4>5, ReleaseRoute, SwapRoute DEF Advance
    <3> QED BY <2>1, <3>1, <3>2
  <2>4. \A g \in Handle \ {h} : ThreadRoute(g)'
    <3> SUFFICES ASSUME NEW g \in Handle \ {h} PROVE ThreadRoute(g)'
      OBVIOUS
    <3>1. ThreadRoute(g)
      BY DEF RouteInv
    <3> QED BY <2>1, <3>1, NextConduct, RouteOthers
  <2> QED BY <2>3, <2>4 DEF RouteInv
<1> QED BY <1>1, <1>2

\* Every suspended activation of every call stands on the call's key, at the
\* depth the nodes above it leave off, its child taken out or followed.
THEOREM RouteInvariance == Spec => []RouteInv
<1>1. Init => RouteInv
  BY DEF Init, RouteInv, ThreadRoute, InTree
<1>2. IInv /\ IInv' /\ RouteInv /\ [Next]_vars => RouteInv'
  BY NextRoute
<1> QED BY <1>1, <1>2, Invariance, PTL DEF Spec
-----------------------------------------------------------------------------
(* The path that get_mut has copied *)

\* The nodes a walk stops at.
OnPath(r, k) == {w.node : w \in Path(r, k)}

\* The invariants give the walk lemmas what they ask of the heap.
LEMMA TreeHeapHolds ==
  ASSUME IInv, ShapeInv
  PROVE  TreeHeap
BY DEF IInv, ShapeInv, TreeHeap

\* Every node on a path but the first has the node above it as a parent.
LEMMA Predecessor ==
  ASSUME TreeHeap, NEW r \in Alive, NEW k \in Seq(Byte), NEW n \in OnPath(r, k), n # r
  PROVE  \E u \in OnPath(r, k) : \E b \in Byte : u \in Alive /\ heap[u].kids[b] = n
<1> DEFINE Below(x) == x = r \/ \E u \in OnPath(r, k) : \E b \in Byte :
                                  u \in Alive /\ heap[u].kids[b] = x
           S == {w \in Path(r, k) : Below(w.node)}
<1>1. /\ Path(r, k) \subseteq Stops(k) /\ [node |-> r, depth |-> 0] \in Path(r, k)
      /\ \A w \in Path(r, k) : GoesOn(w, k) => Onward(w, k) \in Path(r, k)
  BY PathClosed
<1>2. r # None
  BY AliveTyped DEF TreeHeap
<1>3. [node |-> r, depth |-> 0] \in S
  BY <1>1
<1>4. ASSUME NEW w \in S, GoesOn(w, k) PROVE Onward(w, k) \in S
  <2>1. w \in Path(r, k) /\ w \in Stops(k) /\ Onward(w, k) \in Path(r, k)
    BY <1>1, <1>4
  <2>2. /\ EdgeOf(heap[w.node], k, w.depth) \in Byte
        /\ Onward(w, k).node = heap[w.node].kids[EdgeOf(heap[w.node], k, w.depth)]
    BY <1>4, <2>1, OnwardStop
  <2>3. w.node \in OnPath(r, k) /\ w.node \in Alive
    BY <2>1 DEF OnPath, Stops
  <2> QED BY <2>1, <2>2, <2>3
<1> HIDE DEF S
<1>5. Path(r, k) \subseteq S
  BY <1>2, <1>3, <1>4, PathLeast
<1>6. PICK w \in Path(r, k) : w.node = n
  BY DEF OnPath
<1> QED BY <1>5, <1>6 DEF S

\* A walk begins at its root and stops at allocated nodes only.
LEMMA PathAlive ==
  ASSUME TreeHeap, NEW r \in Alive, NEW k \in Seq(Byte)
  PROVE  OnPath(r, k) \subseteq Alive /\ r \in OnPath(r, k)
<1>1. Path(r, k) \subseteq Stops(k) /\ [node |-> r, depth |-> 0] \in Path(r, k)
  BY PathClosed
<1> QED BY <1>1 DEF OnPath, Stops

\* A thread that holds no node of a path that has no other links to it cannot
\* get at the path.
LEMMA OutOfReach ==
  ASSUME IInv, ShapeInv, NEW g \in Handle, NEW r \in Alive, NEW k \in Seq(Byte),
         \A n \in OnPath(r, k) :
           n \notin InHand(g) /\ (n # r => \A l, m \in Links(n) : l = m),
         Links(r) = {}
  PROVE  \A n \in OnPath(r, k) : n \in Alive /\ ~Reach(g, n)
<1> SUFFICES ASSUME NEW n \in OnPath(r, k) PROVE n \in Alive /\ ~Reach(g, n)
  OBVIOUS
<1>1. TreeHeap /\ n \in Alive
  BY TreeHeapHolds, PathAlive
<1>2. ASSUME NEW m \in InHand(g), NEW b \in Byte, heap[m].kids[b] = n
      PROVE  FALSE
  <2>1. m \in Alive
    <3>1. ThreadInv(g) /\ TypeOK
      BY DEF IInv
    <3> QED BY <3>1 DEF ThreadInv, HoldsAlive, InHand, TrailNodes, TypeOK, Frames
  <2>2. <<m, b>> \in Links(n)
    BY <1>2, <2>1 DEF Links
  <2>3. CASE n = r
    BY <2>2, <2>3
  <2>4. CASE n # r
    <3>1. PICK u \in OnPath(r, k), e \in Byte : u \in Alive /\ heap[u].kids[e] = n
      BY <1>1, <2>4, Predecessor
    <3>2. <<u, e>> \in Links(n)
      BY <3>1 DEF Links
    <3>3. u = m
      BY <2>2, <2>4, <3>2
    <3> QED BY <1>2, <3>3
  <2> QED BY <2>3, <2>4
<1> QED BY <1>1, <1>2 DEF Reach

\* What others hold keeps its paths.
LEMMA PathHeld ==
  ASSUME IInv, IInv', ShapeInv, ShapeInv', NEW g \in Handle,
         Untouched(g) \/ WriteThrough(g),
         NEW r \in Alive, HeldElsewhere(g, r), NEW k \in Seq(Byte)
  PROVE  Path(r, k)' = Path(r, k) /\ OnPath(r, k)' = OnPath(r, k) /\ r \in Alive'
<1> DEFINE C == {n \in Alive : HeldElsewhere(g, n)}
<1>1. TreeHeap /\ TreeHeap'
  BY TreeHeapHolds DEF TreeHeap, IInv, ShapeInv
<1>2. Downward(C)
  <2>1. C \subseteq Alive
    OBVIOUS
  <2>2. ASSUME NEW n \in C, NEW b \in Byte, heap[n].kids[b] # None
        PROVE  heap[n].kids[b] \in C
    BY <2>2 DEF IInv, HeapInv, HeldElsewhere, HeldByParent
  <2> QED BY <2>1, <2>2 DEF Downward
<1>3. \A n \in C : SameRoute(n)
  <2>1. CASE Untouched(g)
    BY <2>1 DEF Untouched, SameRoute, Alive
  <2>2. CASE WriteThrough(g)
    BY <2>2, WriteThroughConduct
  <2> QED BY <2>1, <2>2
<1>4. r \in C
  OBVIOUS
<1> HIDE DEF C
<1>5. Path(r, k)' = Path(r, k)
  BY <1>1, <1>2, <1>3, <1>4, PathSame
<1>6. r \in Alive'
  BY <1>2, <1>3, <1>4 DEF SameRoute, Alive, Downward
<1> QED BY <1>5, <1>6 DEF OnPath

\* A thread adds no link to a node that it cannot reach.
LEMMA LinksFewer ==
  ASSUME NEW g \in Handle, Conduct(g), NEW n \in Alive, ~Reach(g, n)
  PROVE  Links(n)' \subseteq Links(n)
BY DEF Conduct, Links

\* What another thread does to a path that this one has to itself.
LEMMA AloneOthers ==
  ASSUME IInv, IInv', ShapeInv, ShapeInv', NEW g \in Handle,
         Conduct(g), Untouched(g) \/ WriteThrough(g),
         NEW h \in Handle \ {g}, NEW r \in Alive, HeldElsewhere(g, r), NEW k \in Seq(Byte),
         \A n \in OnPath(r, k) :
           /\ n \notin InHand(g)
           /\ n # r => \A l, m \in Links(n) : l = m,
         Links(r) = {},
         \A n \in OnPath(r, k) : \A f \in Handle : root[f] = n => f = h /\ pc[h] # "idle"
  PROVE  /\ OnPath(r, k)' = OnPath(r, k)
         /\ \A n \in OnPath(r, k) :
              /\ Links(n)' \subseteq Links(n)
              /\ n \notin InHand(g)' /\ root'[g] # n
<1>1. OnPath(r, k)' = OnPath(r, k)
  BY PathHeld
<1>2. \A n \in OnPath(r, k) : n \in Alive /\ ~Reach(g, n)
  BY OutOfReach
<1>3. \A n \in OnPath(r, k) : root[g] # n /\ \A f \in Handle : ~(root[f] = n /\ pc[f] = "idle")
  OBVIOUS
<1>4. \A n \in OnPath(r, k) : n \notin InHand(g)' /\ root'[g] # n
  BY <1>2, <1>3 DEF Conduct
<1> QED BY <1>1, <1>2, <1>4, LinksFewer

\* The path, one node at a time.
OnPathLaw ==
  TreeHeap => \A r \in Alive : \A k \in Seq(Byte) :
    /\ Place(heap[r], k, 0) # "child" => OnPath(r, k) = {r}
    /\ Place(heap[r], k, 0) = "child" =>
         OnPath(r, k) = {r} \cup OnPath(heap[r].kids[EdgeOf(heap[r], k, 0)],
                                        Rest(k, Len(heap[r].prefix)))

\* The law holds in every state, so it may be cited primed.
LEMMA OnPathAlways == OnPathLaw
<1> SUFFICES ASSUME TreeHeap, NEW r \in Alive, NEW k \in Seq(Byte)
             PROVE  /\ Place(heap[r], k, 0) # "child" => OnPath(r, k) = {r}
                    /\ Place(heap[r], k, 0) = "child" =>
                         OnPath(r, k) = {r} \cup OnPath(heap[r].kids[EdgeOf(heap[r], k, 0)],
                                                        Rest(k, Len(heap[r].prefix)))
  BY DEF OnPathLaw
<1> DEFINE start == [node |-> r, depth |-> 0]
<1>1. CASE Place(heap[r], k, 0) # "child"
  <2>1. ~GoesOn(start, k) /\ r # None
    BY <1>1, AliveTyped DEF GoesOn, TreeHeap
  <2>2. Path(r, k) \subseteq {start}
    <3>1. \A w \in {start} : GoesOn(w, k) => Onward(w, k) \in {start}
      BY <2>1
    <3> QED BY <2>1, <3>1, PathLeast
  <2>3. start \in Path(r, k)
    BY PathClosed
  <2> QED BY <1>1, <2>2, <2>3 DEF OnPath
<1>2. CASE Place(heap[r], k, 0) = "child"
  <2>1. PICK d, c : d = Len(heap[r].prefix) /\ c = heap[r].kids[EdgeOf(heap[r], k, 0)]
    OBVIOUS
  <2>2. \A w : w \in Path(r, k) <=>
              \/ w = [node |-> r, depth |-> 0]
              \/ \E u \in Path(c, Rest(k, d)) : w = [node |-> u.node, depth |-> d + u.depth]
    BY <1>2, <2>1, PathBelow
  <2>3. ASSUME NEW n PROVE n \in OnPath(r, k) <=> n = r \/ n \in OnPath(c, Rest(k, d))
    <3>1. ASSUME n \in OnPath(r, k) PROVE n = r \/ n \in OnPath(c, Rest(k, d))
      BY <2>2, <3>1 DEF OnPath
    <3>2. ASSUME n = r PROVE n \in OnPath(r, k)
      BY <3>2, PathAlive
    <3>3. ASSUME n \in OnPath(c, Rest(k, d)) PROVE n \in OnPath(r, k)
      <4>1. PICK u \in Path(c, Rest(k, d)) : u.node = n
        BY <3>3 DEF OnPath
      <4>2. PICK w : w = [node |-> u.node, depth |-> d + u.depth]
        OBVIOUS
      <4>3. w \in Path(r, k) /\ w.node = n
        BY <2>2, <4>1, <4>2
      <4> QED BY <4>3 DEF OnPath
    <3> QED BY <3>1, <3>2, <3>3
  <2>4. OnPath(r, k) = {r} \cup OnPath(c, Rest(k, d))
    BY <2>3
  <2> QED BY <1>2, <2>1, <2>4
<1> QED BY <1>1, <1>2

\* The rest of a rest.
LEMMA RestRest ==
  ASSUME NEW k \in Seq(Byte), NEW d \in Nat, d <= Len(k), NEW e \in Nat, d + e <= Len(k)
  PROVE  Rest(Rest(k, d), e) = Rest(k, d + e)
<1>1. /\ Rest(k, d) \in Seq(Byte) /\ Len(Rest(k, d)) = Len(k) - d
      /\ \A i \in 1..Len(k) - d : Rest(k, d)[i] = k[d + i]
      /\ Len(k) \in Nat
  <2>1. d <= Len(k)
    OBVIOUS
  <2>2. Len(k) \in Nat
    OBVIOUS
  <2> QED BY <2>1, <2>2, RestBytes
<1>2. e <= Len(Rest(k, d)) /\ d + e \in Nat /\ d + e <= Len(k)
  BY <1>1
<1>3. /\ Rest(Rest(k, d), e) \in Seq(Byte) /\ Len(Rest(Rest(k, d), e)) = Len(Rest(k, d)) - e
      /\ \A i \in 1..Len(Rest(k, d)) - e : Rest(Rest(k, d), e)[i] = Rest(k, d)[e + i]
  BY <1>1, <1>2, RestBytes
<1>4. /\ Rest(k, d + e) \in Seq(Byte) /\ Len(Rest(k, d + e)) = Len(k) - (d + e)
      /\ \A i \in 1..Len(k) - (d + e) : Rest(k, d + e)[i] = k[(d + e) + i]
  <2>1. PICK x \in Nat : x = d + e
    BY <1>2
  <2>2. x <= Len(k)
    BY <1>2, <2>1
  <2>3. /\ Rest(k, x) \in Seq(Byte) /\ Len(Rest(k, x)) = Len(k) - x
        /\ \A i \in 1..Len(k) - x : Rest(k, x)[i] = k[x + i]
    BY <2>2, RestBytes
  <2> QED BY <2>1, <2>3
<1>5. PICK m \in Nat : m = Len(k) - (d + e)
  <2>1. \A n, x \in Nat : x <= n => n - x \in Nat
    OBVIOUS
  <2>2. Len(k) - (d + e) \in Nat
    BY <1>1, <1>2, <2>1, Zenon
  <2> QED BY <2>2
<1>6. Len(Rest(k, d)) - e = m
  BY <1>1, <1>5
<1>7. ASSUME NEW i \in 1..m PROVE Rest(Rest(k, d), e)[i] = Rest(k, d + e)[i]
  <2>1. e + i \in 1..Len(k) - d /\ d + (e + i) = (d + e) + i
    BY <1>1, <1>5, <1>7
  <2> QED BY <1>1, <1>3, <1>4, <1>5, <1>6, <2>1
<1> QED BY <1>3, <1>4, <1>5, <1>6, <1>7, SeqEqual

\* How far down the key a thread is.
LEMMA DepthOnKey ==
  ASSUME IInv, NEW h \in Handle, ThreadRoute(h), pc[h] \in InTree
  PROVE  depth[h] \in Nat /\ depth[h] <= Len(Step(h).key)
<1>1. /\ trail[h] \in Seq(Frame) /\ Len(trail[h]) \in Nat /\ Len(Step(h).key) \in Nat /\ TypeOK
      /\ \A i \in Frames(h) : trail[h][i].node \in Alive /\ trail[h][i] \in Frame
  BY WasInTree
<1>2. depth[h] = DepthBelow(h, Len(trail[h])) /\ depth[h] \in Nat
  BY <1>1 DEF ThreadRoute, TypeOK
<1>3. CASE Len(trail[h]) = 0
  BY <1>1, <1>2, <1>3 DEF DepthBelow
<1>4. CASE Len(trail[h]) # 0
  <2>1. Len(trail[h]) \in Frames(h)
    BY <1>1, <1>4 DEF Frames
  <2>2. OnKey(trail[h][Len(trail[h])], Step(h).key)
    BY <2>1 DEF ThreadRoute
  <2>3. PICK f : f = trail[h][Len(trail[h])]
    OBVIOUS
  <2>4. depth[h] = f.depth + Len(heap[f.node].prefix)
    BY <1>2, <1>4, <2>3 DEF DepthBelow
  <2>5. f.depth + Len(heap[f.node].prefix) <= Len(Step(h).key)
    <3>1. OnKey(f, Step(h).key) /\ f \in Frame /\ heap[f.node] \in VersionedNode
      BY <1>1, <2>1, <2>2, <2>3, AliveTyped
    <3>2. f.depth + Len(heap[f.node].prefix) < Len(Step(h).key)
      BY <3>1 DEF OnKey
    <3>3. f.depth \in Nat /\ Len(heap[f.node].prefix) \in Nat
      BY <3>1 DEF Frame, VersionedNode
    <3> QED BY <1>1, <3>2, <3>3
  <2> QED BY <1>2, <2>4, <2>5
<1> QED BY <1>3, <1>4

\* What the steps of other threads do to get_mut's path.
LEMMA BorrowOthers ==
  ASSUME IInv, IInv', ShapeInv, ShapeInv', NEW g \in Handle,
         Conduct(g), Untouched(g) \/ WriteThrough(g),
         NEW h \in Handle \ {g}, ThreadRoute(h), ThreadBorrow(h)
  PROVE  ThreadBorrow(h)'
<1>1. SameLocals(h) /\ TypeOK
  BY DEF Conduct, LocalFrame, IInv
<1>2. /\ Step(h)' = Step(h) /\ pc'[h] = pc[h] /\ drops'[h] = drops[h] /\ res'[h] = res[h]
      /\ root'[h] = root[h] /\ depth'[h] = depth[h] /\ cur'[h] = cur[h]
      /\ TrailNodes(h)' = TrailNodes(h) /\ InHand(h)' = InHand(h)
  BY <1>1 DEF SameLocals, Step, TrailNodes, InHand
<1>3. \A f \in Handle \ {g} : root'[f] = root[f] /\ InHand(f)' = InHand(f)
  BY DEF Conduct, LocalFrame, SameLocals, InHand, TrailNodes
<1>4. ASSUME pc[h] = "edit", Step(h).op = "get_mut"
      PROVE  PlaceOf(h)' \in {"at", "child"}
  <2>1. PlaceOf(h) \in {"at", "child"}
    BY <1>4 DEF ThreadBorrow
  <2>2. cur[h] \in Alive /\ cur[h] \in InHand(h)
    BY <1>4, AtHand
  <2>3. SameRoute(cur[h])
    <3>1. HeldElsewhere(g, cur[h])
      BY <2>2 DEF HeldElsewhere
    <3> QED BY <2>2, <3>1, WriteThroughConduct DEF Untouched, SameRoute, Alive
  <2>4. PlaceOf(h)' = PlaceOf(h)
    BY <1>2, <2>3 DEF PlaceOf, Place, EdgeOf, SameRoute
  <2> QED BY <2>1, <2>4
<1>5. ASSUME pc[h] = "up", Step(h).op = "get_mut"
      PROVE  PathAlone(h, res[h], Rest(Step(h).key, depth[h]))'
  <2>1. PICK r, k : r = res[h] /\ k = Rest(Step(h).key, depth[h])
    OBVIOUS
  <2>2. pc[h] \in InTree /\ r # None /\ r \in Alive /\ root[h] = None /\ None \notin Alive
    BY <1>5, <2>1, WasInTree DEF InTree, ThreadBorrow
  <2>3. k \in Seq(Byte)
    BY <2>1, <2>2, DepthOnKey, WasInTree, RestBytes
  <2>4. /\ \A n \in OnPath(r, k) :
             /\ \A f \in Handle : root[f] # n
             /\ \A f \in Handle \ {h} : n \notin InHand(f)
             /\ n \notin TrailNodes(h)
             /\ n # r => \A l, m \in Links(n) : l = m
        /\ Links(r) = {}
    BY <1>5, <2>1 DEF ThreadBorrow, PathAlone, OnPath
  <2>5. HeldElsewhere(g, r)
    BY <2>1, <2>2 DEF HeldElsewhere, InHand
  <2>6. /\ OnPath(r, k)' = OnPath(r, k)
        /\ \A n \in OnPath(r, k) :
             Links(n)' \subseteq Links(n) /\ n \notin InHand(g)' /\ root'[g] # n
    BY <2>2, <2>3, <2>4, <2>5, AloneOthers
  <2>7. r \in OnPath(r, k)
    BY <2>2, <2>3, PathAlive, TreeHeapHolds
  <2>8. \A n \in OnPath(r, k) :
             /\ \A f \in Handle : root'[f] # n
             /\ \A f \in Handle \ {h} : n \notin InHand(f)'
             /\ n \notin TrailNodes(h)'
             /\ n # r => \A l, m \in Links(n)' : l = m
    BY <1>2, <1>3, <2>4, <2>6
  <2>9. Links(r)' = {}
    BY <2>4, <2>6, <2>7
  <2>10. r = res'[h] /\ k = Rest(Step(h).key, depth[h])'
    BY <1>2, <2>1
  <2> QED BY <2>6, <2>8, <2>9, <2>10 DEF PathAlone, OnPath
<1>6. ASSUME pc[h] = "write", Step(h).op = "get_mut"
      PROVE  PathUnshared(h, Step(h).key)'
  <2>1. PICK r, k : r = root[h] /\ k = Step(h).key
    OBVIOUS
  <2>2. r # None /\ r \in Alive
    BY <1>6, <2>1, WasResting DEF ThreadBorrow
  <2>3. k \in Seq(Byte)
    <3>1. todo[h] # <<>>
      BY <1>6 DEF IInv, ThreadInv, PhaseOf
    <3> QED BY <1>1, <2>1, <3>1, StepTyped
  <2>4. \A n \in OnPath(r, k) :
             /\ \A f \in Handle : n \notin InHand(f)
             /\ \A f \in Handle \ {h} : root[f] # n
             /\ IF n = r THEN Links(n) = {} ELSE \A l, m \in Links(n) : l = m
    BY <1>6, <2>1 DEF ThreadBorrow, PathUnshared, OnPath
  <2>5. HeldElsewhere(g, r)
    BY <2>1 DEF HeldElsewhere, HeldByRoot
  <2>6. r \in OnPath(r, k)
    BY <2>2, <2>3, PathAlive, TreeHeapHolds
  <2>7. \A n \in OnPath(r, k) : \A f \in Handle : root[f] = n => f = h /\ pc[h] # "idle"
    BY <1>6, <2>4
  <2>8. Links(r) = {} /\ \A n \in OnPath(r, k) : n \notin InHand(g) /\ (n # r => \A l, m \in Links(n) : l = m)
    BY <2>4, <2>6
  <2>9. /\ OnPath(r, k)' = OnPath(r, k)
        /\ \A n \in OnPath(r, k) :
             Links(n)' \subseteq Links(n) /\ n \notin InHand(g)' /\ root'[g] # n
    BY <2>2, <2>3, <2>5, <2>7, <2>8, AloneOthers
  <2>10. \A n \in OnPath(r, k) :
             /\ \A f \in Handle : n \notin InHand(f)'
             /\ \A f \in Handle \ {h} : root'[f] # n
             /\ IF n = r THEN Links(n)' = {} ELSE \A l, m \in Links(n)' : l = m
    BY <1>2, <1>3, <2>4, <2>9
  <2>11. r = root'[h] /\ k = Step(h).key'
    BY <1>2, <2>1
  <2> QED BY <2>9, <2>10, <2>11 DEF PathUnshared, OnPath
<1> QED BY <1>2, <1>4, <1>5, <1>6 DEF ThreadBorrow

\* The key's node, copied: the path starts.
LEMMA PathReadyBorrow ==
  ASSUME IInv, IInv', ShapeInv, ShapeInv', NEW h \in Handle, ThreadRoute(h), PathReady(h)
  PROVE  ThreadBorrow(h)'
<1> USE DEF handleVars, callVars, walkVars
<1>1. PICK r, d, key, k : r = cur[h] /\ d = depth[h] /\ key = Step(h).key /\ k = Rest(key, d)
  OBVIOUS
<1>2. TypeOK /\ pc[h] = "edit" /\ pc[h] \in InTree /\ SoleCur(h) /\ drops[h] = {}
      /\ PlaceOf(h) = "at"
  BY DEF PathReady, Unwrapped, Running, InTree, IInv
<1>3. /\ heap' = heap /\ root' = root /\ trail' = trail /\ drops' = drops /\ depth' = depth
      /\ todo' = todo /\ pc'[h] = "up" /\ res'[h] = r
      /\ \A g \in Handle \ {h} : cur'[g] = cur[g] /\ res'[g] = res[g]
  BY <1>1, <1>2 DEF PathReady, ReturnNode, TypeOK
<1>4. /\ r \in Alive /\ r # None /\ heap[r] \in VersionedNode /\ root[h] = None
      /\ ~HeldElsewhere(h, r) /\ r \notin TrailNodes(h)
  BY <1>1, <1>2, AtHand
<1>5. d \in Nat /\ d <= Len(key) /\ key \in Seq(Byte)
  BY <1>1, <1>2, DepthOnKey, WasInTree
<1>6. k \in Seq(Byte) /\ Len(key) - d \in Nat /\ d + 0 = d
  BY <1>1, <1>5, RestBytes
<1>7. Place(heap[r], k, 0) = "at"
  <2>1. Place(heap[r], Rest(key, d), 0) = Place(heap[r], key, d + 0)
    BY <1>4, <1>5, <1>6, PlaceShift
  <2> QED BY <1>1, <1>2, <1>6, <2>1 DEF PlaceOf
<1>8. OnPath(r, k)' = {r}
  <2>1. OnPathLaw'
    BY OnPathAlways, PTL
  <2>2. TreeHeap' /\ r \in Alive' /\ Place(heap'[r], k, 0) # "child"
    BY <1>3, <1>4, <1>7 DEF IInv, ShapeInv, TreeHeap, Alive
  <2> QED BY <1>6, <2>1, <2>2 DEF OnPathLaw
<1>9. Links(r)' = {}
  <2>1. Links(r) = {}
    BY <1>4 DEF Links, HeldElsewhere, HeldByParent
  <2> QED BY <1>3, <2>1 DEF Links, Alive
<1>10. /\ \A g \in Handle : root'[g] # r
       /\ \A g \in Handle \ {h} : r \notin InHand(g)'
       /\ r \notin TrailNodes(h)'
  BY <1>3, <1>4 DEF HeldElsewhere, HeldByRoot, InHand, TrailNodes
<1>11. r = res'[h] /\ k = Rest(Step(h).key, depth[h])'
  BY <1>1, <1>3 DEF Step
<1>12. PathAlone(h, res[h], Rest(Step(h).key, depth[h]))'
  BY <1>8, <1>9, <1>10, <1>11 DEF PathAlone, OnPath
<1> QED BY <1>2, <1>3, <1>4, <1>12 DEF ThreadBorrow

\* The handle has its root back: the path is complete.
LEMMA InstallBorrow ==
  ASSUME IInv, IInv', ShapeInv, ShapeInv', NEW h \in Handle, ThreadRoute(h), ThreadBorrow(h),
         Install(h)
  PROVE  ThreadBorrow(h)'
<1> USE DEF handleVars, callVars, walkVars
<1>1. TypeOK /\ pc[h] = "up" /\ trail[h] = <<>> /\ drops[h] = {} /\ pc[h] \in InTree
  BY DEF Install, Running, InTree, IInv
<1>2. CASE Step(h).op # "get_mut"
  <2>1. pc'[h] = "next"
    BY <1>1, <1>2 DEF Install, TypeOK
  <2> QED BY <2>1 DEF ThreadBorrow
<1>3. CASE Step(h).op = "get_mut"
  <2>1. PICK r, k : r = res[h] /\ k = Step(h).key
    OBVIOUS
  <2>2. /\ heap' = heap /\ cur' = cur /\ trail' = trail /\ todo'[h] = todo[h] /\ pc'[h] = "write"
        /\ res'[h] = None /\ root'[h] = r /\ drops'[h] = {}
        /\ \A g \in Handle \ {h} : root'[g] = root[g] /\ res'[g] = res[g] /\ drops'[g] = drops[g]
    BY <1>1, <1>3, <2>1 DEF Install, TypeOK
  <2>3. r # None /\ r \in Alive /\ cur[h] = None /\ k \in Seq(Byte) /\ None \notin Alive
    BY <1>1, <1>3, <2>1, WasInTree DEF ThreadBorrow, ThreadInv, PhaseOf
  <2>4. depth[h] = 0
    BY <1>1 DEF ThreadRoute, DepthBelow
  <2>5. Rest(k, depth[h]) = k
    <3>1. Rest(k, 0) = k
      BY <2>3, SubSeqFull DEF Rest
    <3> QED BY <2>4, <3>1
  <2>6. /\ \A n \in OnPath(r, k) :
             /\ \A f \in Handle : root[f] # n
             /\ \A f \in Handle \ {h} : n \notin InHand(f)
             /\ n \notin TrailNodes(h)
             /\ n # r => \A l, m \in Links(n) : l = m
        /\ Links(r) = {}
    BY <1>1, <1>3, <2>1, <2>5 DEF ThreadBorrow, PathAlone, OnPath
  <2>7. OnPath(r, k)' = OnPath(r, k) /\ OnPath(r, k) \subseteq Alive
    <3>1. TreeHeap /\ TreeHeap'
      BY TreeHeapHolds DEF TreeHeap, IInv, ShapeInv
    <3>2. Downward(Alive) /\ \A n \in Alive : SameRoute(n)
      BY <2>2 DEF Downward, SameRoute, IInv, HeapInv, Alive
    <3>3. Path(r, k)' = Path(r, k)
      BY <2>3, <3>1, <3>2, PathSame
    <3> QED BY <2>3, <3>1, <3>3, PathAlive DEF OnPath
  <2>8. \A n : Links(n)' = Links(n)
    BY <2>2 DEF Links, Alive
  <2>9. InHand(h)' = {}
    <3>1. TrailNodes(h)' = {}
      BY <1>1, <2>2 DEF TrailNodes
    <3> QED BY <2>2, <2>3, <3>1 DEF InHand
  <2>10. \A f \in Handle \ {h} : InHand(f)' = InHand(f)
    BY <2>2 DEF InHand, TrailNodes
  <2>11. r = root'[h] /\ k = Step(h).key' /\ Step(h)' = Step(h)
    BY <2>1, <2>2 DEF Step
  <2>12. \A n \in OnPath(r, k) :
           /\ \A f \in Handle : n \notin InHand(f)'
           /\ \A f \in Handle \ {h} : root'[f] # n
           /\ IF n = r THEN Links(n)' = {} ELSE \A l, m \in Links(n)' : l = m
    BY <2>2, <2>6, <2>8, <2>9, <2>10
  <2>13. PathUnshared(h, Step(h).key)'
    BY <2>7, <2>11, <2>12 DEF PathUnshared, OnPath
  <2> QED BY <1>3, <2>2, <2>3, <2>11, <2>13 DEF ThreadBorrow
<1> QED BY <1>2, <1>3

\* The node above gets its child back: the path grows at its top.
LEMMA ReattachBorrow ==
  ASSUME IInv, IInv', ShapeInv, ShapeInv', NEW h \in Handle, ThreadRoute(h), ThreadBorrow(h),
         Reattach(h)
  PROVE  ThreadBorrow(h)'
<1> USE DEF handleVars, callVars, walkVars
<1>1. TypeOK /\ pc[h] = "up" /\ pc[h] \in InTree /\ TopDown(h) /\ drops[h] = {} /\ trail[h] # <<>>
  BY DEF Reattach, Running, InTree, IInv
<1>2. Step(h)' = Step(h) /\ pc'[h] = "up"
  BY <1>1 DEF Reattach, Step
<1>3. CASE Step(h).op # "get_mut"
  BY <1>2, <1>3 DEF ThreadBorrow
<1>4. CASE Step(h).op = "get_mut"
  <2>1. PICK f, p, e, r, key, fd :
          /\ f = Last(trail[h]) /\ p = f.node /\ e = f.edge /\ fd = f.depth
          /\ r = res[h] /\ key = Step(h).key
    OBVIOUS
  <2>2. PICK k, kp, nd : /\ k = Rest(key, depth[h]) /\ kp = Rest(key, fd)
                         /\ nd = AddChild(heap[p], e, r)
    OBVIOUS
  <2>3. /\ f = trail[h][Len(trail[h])] /\ Len(trail[h]) \in Frames(h) /\ p \in Node
        /\ e \in Byte /\ fd \in Nat /\ Frames(h)' \subseteq Frames(h)
        /\ Len(trail[h]) \notin Frames(h)'
        /\ trail'[h] = Front(trail[h])
        /\ \A i \in Frames(h)' : trail'[h][i] = trail[h][i]
    <3>1. trail'[h] = Front(trail[h])
      BY <1>1 DEF Reattach, Resume, TypeOK
    <3> QED BY <1>1, <2>1, <3>1, Popped
  <2>4. /\ r # None /\ r \in Alive /\ r \in Node /\ p \in Alive /\ heap[p] \in VersionedNode
        /\ None \notin Alive /\ key \in Seq(Byte) /\ Len(key) \in Nat /\ AloneOnTrail(h, Len(trail[h]))
        /\ cur[h] = None /\ root[h] = None
    <3>1. r # None
      BY <1>1, <1>4, <2>1 DEF ThreadBorrow
    <3>2. /\ r \in Alive /\ p \in Alive /\ None \notin Alive /\ key \in Seq(Byte)
          /\ Len(key) \in Nat /\ ThreadInv(h) /\ root[h] = None
      BY <1>1, <2>1, <2>3, <3>1, WasInTree
    <3>3. AloneOnTrail(h, Len(trail[h])) /\ cur[h] = None
      BY <1>1, <2>3, <3>2 DEF ThreadInv, TrailExclusive, PhaseOf
    <3> QED BY <1>1, <3>1, <3>2, <3>3, AliveTyped
  <2>5. ~HeldElsewhere(h, p) /\ p # r /\ \A i \in Frames(h)' : trail[h][i].node # p
    BY <2>1, <2>3, <2>4 DEF AloneOnTrail
  <2>6. /\ nd \in VersionedNode /\ nd.prefix = heap[p].prefix /\ nd.leaf = FALSE
        /\ \A b \in Byte : nd.kids[b] = IF b = e THEN r ELSE heap[p].kids[b]
        /\ nd # None /\ nd.kids # NoKids
    <3>1. nd \in VersionedNode /\ nd # None
      <4>1. AddChild(heap[p], e, r) \in VersionedNode
        BY <2>3, <2>4, ChildEdits
      <4> QED BY <2>2, <4>1, NoneAssumption
    <3>2. \A b \in Byte : nd.kids[b] = IF b = e THEN r ELSE heap[p].kids[b]
      <4>1. PICK np \in VersionedNode : np = heap[p]
        BY <2>4
      <4>2. \A b \in Byte : AddChild(np, e, r).kids[b] = IF b = e THEN r ELSE np.kids[b]
        BY <2>3, <2>4, ChildEdits
      <4> QED BY <2>2, <4>1, <4>2
    <3>3. nd.prefix = heap[p].prefix /\ nd.leaf = FALSE
      BY <2>2, <2>4 DEF AddChild, VersionedNode
    <3> QED BY <2>3, <2>4, <3>1, <3>3, <3>2 DEF NoKids
  <2>7. /\ heap' = [heap EXCEPT ![p] = nd] /\ res'[h] = p /\ root' = root /\ depth'[h] = fd
        /\ drops' = drops /\ cur' = cur
        /\ \A g \in Handle \ {h} : res'[g] = res[g] /\ trail'[g] = trail[g]
    <3>1. Settle(h, p, nd)
      BY <2>1, <2>2, <2>4 DEF Reattach
    <3>2. heap' = [heap EXCEPT ![p] = nd] /\ res' = [res EXCEPT ![h] = p]
      BY <2>6, <3>1 DEF Settle
    <3> QED BY <1>1, <2>1, <3>2 DEF Reattach, Resume, TypeOK
  <2>8. /\ heap'[p] = nd /\ \A n \in Node \ {p} : heap'[n] = heap[n]
        /\ p \in Alive' /\ Alive' = Alive
    BY <1>1, <2>4, <2>6, <2>7 DEF TypeOK, Alive
  <2>9. /\ OnKey(f, key) /\ depth[h] = fd + Len(nd.prefix) /\ nd.prefix \in Seq(Byte)
        /\ Len(nd.prefix) \in Nat /\ fd + Len(nd.prefix) < Len(key)
    <3>1. OnKey(f, key) /\ depth[h] = DepthBelow(h, Len(trail[h]))
      BY <1>1, <2>1, <2>3 DEF ThreadRoute
    <3>2. Len(trail[h]) # 0
      BY <2>3 DEF Frames
    <3>3. depth[h] = fd + Len(nd.prefix)
      BY <2>1, <2>3, <2>6, <3>1, <3>2 DEF DepthBelow
    <3>4. nd.prefix \in Seq(Byte) /\ Len(nd.prefix) \in Nat
      BY <2>6 DEF VersionedNode
    <3> QED BY <2>1, <2>6, <3>1, <3>3, <3>4 DEF OnKey
  <2>10. /\ kp \in Seq(Byte) /\ k \in Seq(Byte) /\ k = Rest(kp, Len(nd.prefix))
         /\ Place(nd, kp, 0) = "child" /\ EdgeOf(nd, kp, 0) = e
    <3>1. PICK m \in Nat : m = Len(nd.prefix)
      BY <2>9
    <3>2. fd <= Len(key) /\ fd + m <= Len(key) /\ m < Len(key) - fd /\ 0 + m < Len(key) - fd
          /\ fd + 0 = fd /\ Len(key) - fd \in Nat
      BY <2>3, <2>4, <2>9, <3>1
    <3>3. kp \in Seq(Byte)
      BY <2>2, <2>3, <2>4, <3>2, RestBytes
    <3>4. k = Rest(kp, m)
      BY <2>2, <2>3, <2>4, <2>9, <3>1, <3>2, RestRest
    <3>5. k \in Seq(Byte)
      <4>1. depth[h] \in Nat /\ depth[h] <= Len(key)
        BY <1>1, <2>1, DepthOnKey
      <4> QED BY <2>2, <2>4, <4>1, RestBytes
    <3>6. Place(nd, kp, 0) = Place(nd, key, fd) /\ EdgeOf(nd, kp, 0) = EdgeOf(nd, key, fd)
      <4>1. /\ Place(nd, Rest(key, fd), 0) = Place(nd, key, fd + 0)
            /\ 0 + Len(nd.prefix) < Len(key) - fd =>
                 EdgeOf(nd, Rest(key, fd), 0) = EdgeOf(nd, key, fd + 0)
        BY <2>3, <2>4, <2>6, <3>2, PlaceShift
      <4> QED BY <2>2, <3>1, <3>2, <4>1
    <3>7. EdgeOf(nd, key, fd) = e
      BY <2>1, <2>6, <2>9 DEF EdgeOf, OnKey
    <3>8. Place(nd, key, fd) = "child"
      <4>1. PrefixAt(nd.prefix, key, fd)
        <5>1. \A i \in 1..Len(nd.prefix) : nd.prefix[i] = key[fd + i]
          BY <2>1, <2>6, <2>9 DEF OnKey
        <5> QED BY <2>9, <3>1, <3>2, <5>1 DEF PrefixAt
      <4>2. ~nd.leaf /\ nd.kids[EdgeOf(nd, key, fd)] # None
        BY <2>3, <2>4, <2>6, <3>7
      <4> QED BY <2>3, <2>4, <2>6, <2>9, <3>2, <4>1, <4>2, PlaceMeans
    <3> QED BY <3>1, <3>3, <3>4, <3>5, <3>6, <3>7, <3>8
  <2>11. /\ \A n \in OnPath(r, k) :
             /\ \A g \in Handle : root[g] # n
             /\ \A g \in Handle \ {h} : n \notin InHand(g)
             /\ n \notin TrailNodes(h)
             /\ n # r => \A l, m \in Links(n) : l = m
         /\ Links(r) = {}
    BY <1>1, <1>4, <2>1, <2>2 DEF ThreadBorrow, PathAlone, OnPath
  <2>12. OnPath(r, k)' = OnPath(r, k) /\ OnPath(r, k) \subseteq Alive /\ r \in OnPath(r, k)
    <3> DEFINE C == Alive \ {p}
    <3>1. TreeHeap /\ TreeHeap'
      BY TreeHeapHolds DEF TreeHeap, IInv, ShapeInv
    <3>2. Downward(C)
      BY <2>5 DEF Downward, IInv, HeapInv, HeldElsewhere, HeldByParent
    <3>3. \A n \in C : SameRoute(n)
      BY <1>1, <2>8, AliveTyped DEF SameRoute, Alive
    <3>4. r \in C
      BY <2>4, <2>5
    <3> HIDE DEF C
    <3>5. Path(r, k)' = Path(r, k)
      BY <2>10, <3>1, <3>2, <3>3, <3>4, PathSame
    <3> QED BY <2>4, <2>10, <3>1, <3>5, PathAlive DEF OnPath
  <2>13. OnPath(p, kp)' = {p} \cup OnPath(r, k)
    <3>1. OnPathLaw'
      BY OnPathAlways, PTL
    <3>2. TreeHeap'
      BY TreeHeapHolds DEF TreeHeap, IInv, ShapeInv
    <3>3. /\ Place(heap'[p], kp, 0) = "child" /\ heap'[p].kids[EdgeOf(heap'[p], kp, 0)] = r
          /\ Rest(kp, Len(heap'[p].prefix)) = k
      BY <2>3, <2>6, <2>8, <2>10
    <3> QED BY <2>8, <2>10, <2>12, <3>1, <3>2, <3>3 DEF OnPathLaw
  <2>14. /\ Links(p)' = {}
         /\ Links(r)' \subseteq {<<p, e>>}
         /\ \A n \in OnPath(r, k) : n # r => Links(n)' \subseteq Links(n)
    <3>1. ASSUME NEW m \in Alive, NEW b \in Byte, NEW n, heap'[m].kids[b] = n
          PROVE  \/ m = p /\ b = e /\ n = r
                 \/ heap[m].kids[b] = n
      <4>1. m \in Node
        BY <1>1, AliveTyped
      <4> QED BY <2>6, <2>8, <3>1, <4>1
    <3>2. \A n : Links(n)' \subseteq Links(n) \cup (IF n = r THEN {<<p, e>>} ELSE {})
      BY <2>8, <3>1 DEF Links
    <3>3. Links(p) = {}
      BY <2>5 DEF HeldElsewhere, HeldByParent, Links
    <3> QED BY <2>5, <2>11, <3>2, <3>3
  <2>15. TrailNodes(h)' \subseteq TrailNodes(h) /\ p \notin TrailNodes(h)' /\ p \in TrailNodes(h)
    <3>1. TrailNodes(h)' \subseteq TrailNodes(h) /\ p \in TrailNodes(h)
      BY <1>1, <2>1, <2>3, PoppedNodes
    <3>2. DOMAIN trail'[h] = Frames(h)'
      <4>1. trail'[h] \in Seq(Frame)
        BY DEF IInv, TypeOK
      <4> QED BY <4>1 DEF Frames
    <3>3. p \notin TrailNodes(h)'
      BY <2>3, <2>5, <3>2 DEF TrailNodes
    <3> QED BY <3>1, <3>3
  <2>16. \A g \in Handle \ {h} : InHand(g)' = InHand(g)
    BY <2>7 DEF InHand, TrailNodes
  <2>17. /\ \A g \in Handle : root[g] # p
         /\ \A g \in Handle \ {h} : p \notin InHand(g)
    BY <2>5 DEF HeldElsewhere, HeldByRoot
  <2>18. \A n \in OnPath(p, kp)' :
           /\ \A g \in Handle : root'[g] # n
           /\ \A g \in Handle \ {h} : n \notin InHand(g)'
           /\ n \notin TrailNodes(h)'
           /\ n # p => \A l, m \in Links(n)' : l = m
    <3> SUFFICES ASSUME NEW n \in {p} \cup OnPath(r, k)
                 PROVE  /\ \A g \in Handle : root'[g] # n
                        /\ \A g \in Handle \ {h} : n \notin InHand(g)'
                        /\ n \notin TrailNodes(h)'
                        /\ n # p => \A l, m \in Links(n)' : l = m
      BY <2>13
    <3>1. CASE n = p
      BY <2>7, <2>15, <2>16, <2>17, <3>1
    <3>2. CASE n # p
      <4>1. \A l, m \in Links(n)' : l = m
        <5>1. CASE n = r
          BY <2>14, <5>1
        <5>2. CASE n # r
          BY <2>11, <2>14, <3>2, <5>2
        <5> QED BY <5>1, <5>2
      <4> QED BY <2>7, <2>11, <2>15, <2>16, <3>2, <4>1
    <3> QED BY <3>1, <3>2
  <2>19. p = res'[h] /\ kp = Rest(Step(h).key, depth[h])'
    BY <1>2, <2>1, <2>2, <2>7
  <2>20. PathAlone(h, res[h], Rest(Step(h).key, depth[h]))'
    BY <2>14, <2>18, <2>19 DEF PathAlone, OnPath
  <2> QED BY <1>1, <1>2, <2>4, <2>7, <2>20 DEF ThreadBorrow
<1> QED BY <1>3, <1>4

\* ensure_cow_node: get_mut only goes on from nodes on its path.
LEMMA EnsureCowBorrow ==
  ASSUME IInv, IInv', NEW h \in Handle, EnsureCowOwned(h) \/ EnsureCowShared(h)
  PROVE  ThreadBorrow(h)'
<1> USE DEF handleVars, callVars, walkVars
<1>1. TypeOK /\ pc[h] \in {"visit", "lift"} /\ cur[h] \in Node
      /\ cur[h] \in Alive /\ heap[cur[h]] \in VersionedNode /\ Target(h) \in Nat
  BY WasEnsuring DEF EnsureCowOwned, EnsureCowShared, IInv
<1>2. /\ todo'[h] = todo[h] /\ depth'[h] = depth[h] /\ Step(h)' = Step(h)
      /\ pc'[h] = IF pc[h] = "visit" THEN "edit" ELSE "fix"
  BY <1>1 DEF EnsureCowOwned, EnsureCowShared, Ensured, TypeOK, Step
<1>3. /\ heap'[cur'[h]].prefix = heap[cur[h]].prefix /\ heap'[cur'[h]].leaf = heap[cur[h]].leaf
      /\ heap'[cur'[h]].kids = heap[cur[h]].kids
  <2>1. CASE EnsureCowOwned(h)
    BY <1>1, <2>1 DEF EnsureCowOwned, TypeOK, VersionedNode
  <2>2. CASE EnsureCowShared(h)
    <3> DEFINE c == New1(h)
               x == CowClone(heap[cur[h]], Target(h))
    <3>1. heap' = [heap EXCEPT ![c] = x] /\ cur'[h] = c /\ c \in Node \ Alive
      BY <1>1, <2>2, FreshNames DEF EnsureCowShared, TypeOK
    <3>2. x.prefix = heap[cur[h]].prefix /\ x.leaf = heap[cur[h]].leaf /\ x.kids = heap[cur[h]].kids
      BY <1>1 DEF CowClone, VersionedNode
    <3> HIDE DEF c, x
    <3>3. heap'[c] = x
      BY <1>1, <3>1 DEF TypeOK
    <3> QED BY <3>1, <3>2, <3>3
  <2> QED BY <2>1, <2>2
<1>4. CASE pc[h] = "visit" /\ Step(h).op = "get_mut"
  <2>1. PlaceOf(h) \in {"at", "child"}
    BY <1>4 DEF EnsureCowOwned, EnsureCowShared, Ensuring, Running, NeedsCow
  <2>2. PlaceOf(h)' = PlaceOf(h)
    BY <1>2, <1>3 DEF PlaceOf, Place, EdgeOf
  <2>3. pc'[h] = "edit"
    BY <1>2, <1>4
  <2> QED BY <2>1, <2>2, <2>3 DEF ThreadBorrow
<1>5. CASE ~(pc[h] = "visit" /\ Step(h).op = "get_mut")
  BY <1>1, <1>2, <1>5 DEF ThreadBorrow
<1> QED BY <1>4, <1>5

\* Steps of other operations, or that leave the tree.
LEMMA OtherOpsBorrow ==
  ASSUME IInv, NEW h \in Handle, ThreadBorrow(h),
         \/ ReplaceValue(h) \/ TakeValue(h) \/ RemoveLeaf(h) \/ Split(h) \/ AddLeaf(h)
         \/ Decline(h) \/ Backtrack(h) \/ SwapChild(h)
  PROVE  ThreadBorrow(h)'
<1> USE DEF handleVars, callVars, walkVars
<1>1. TypeOK
  BY DEF IInv
<1>2. pc'[h] = "up" /\ Step(h)' = Step(h)
  BY <1>1 DEF ReplaceValue, TakeValue, RemoveLeaf, Split, AddLeaf, Decline, Backtrack, SwapChild,
              ReturnNode, Running, TypeOK, Step
<1>3. Step(h).op # "get_mut"
  <2>1. CASE ReplaceValue(h) \/ TakeValue(h) \/ RemoveLeaf(h) \/ Split(h)
    BY <2>1 DEF ReplaceValue, Writes, TakeValue, RemoveLeaf, Split, TopDown
  <2>2. CASE AddLeaf(h)
    <3>1. pc[h] = "edit" /\ PlaceOf(h) \in {"below", "missing"}
      BY <2>2 DEF AddLeaf, Unwrapped, Running
    <3> QED BY <3>1 DEF ThreadBorrow
  <2>3. CASE Decline(h) \/ Backtrack(h)
    BY <2>3 DEF Decline, Vacant, Backtrack, TopDown
  <2>4. CASE SwapChild(h)
    <3>1. pc[h] = "fix"
      BY <2>4 DEF SwapChild, Unwrapped, Running
    <3>2. ~TopDown(h)
      BY <3>1 DEF IInv, ThreadInv, PhaseOf
    <3> QED BY <3>2 DEF TopDown
  <2> QED BY <2>1, <2>2, <2>3, <2>4
<1> QED BY <1>2, <1>3 DEF ThreadBorrow

\* The steps after which get_mut has nothing in its hands that the write needs.
LEMMA AwayBorrow ==
  ASSUME IInv, NEW h \in Handle,
         \/ New(h) \/ DropHandle(h) \/ Plan(h) \/ StartEmpty(h) \/ Start(h) \/ Return(h)
         \/ CallbackPanic(h) \/ WriteThrough(h) \/ Descend(h) \/ Follow(h) \/ Lift(h)
         \/ \E g \in Handle : Clone(g, h) \/ Snapshot(g, h)
         \/ \E c \in Calls : Invoke(h, c)
  PROVE  ThreadBorrow(h)'
<1> USE DEF handleVars, callVars, walkVars
<1>1. TypeOK
  BY DEF IInv
<1>2. pc'[h] \notin {"edit", "up", "write"}
  <2>1. CASE New(h) \/ DropHandle(h) \/ \E g \in Handle : Clone(g, h) \/ Snapshot(g, h)
    BY <1>1, <2>1 DEF New, DropHandle, Clone, Snapshot, CopyHandle, Running
  <2>2. CASE Plan(h) \/ StartEmpty(h) \/ Start(h) \/ Return(h)
    BY <1>1, <2>2 DEF Plan, StartEmpty, Start, Return, Running, TypeOK
  <2>3. CASE Descend(h) \/ Follow(h) \/ Lift(h)
    BY <1>1, <2>3 DEF Descend, Follow, Lift, Running, TypeOK
  <2>4. CASE CallbackPanic(h) \/ WriteThrough(h) \/ \E c \in Calls : Invoke(h, c)
    BY <1>1, <2>4 DEF CallbackPanic, WriteThrough, Invoke, TypeOK
  <2> QED BY <2>1, <2>2, <2>3, <2>4
<1> QED BY <1>2 DEF ThreadBorrow

\* Nothing is released while get_mut hands its path back.
LEMMA ReleaseBorrow ==
  ASSUME IInv, NEW h \in Handle, ThreadBorrow(h), Release(h)
  PROVE  ThreadBorrow(h)'
<1> USE DEF handleVars, callVars, walkVars
<1>1. TypeOK /\ drops[h] # {} /\ drops[h] \subseteq Alive
  BY DEF Release, IInv, ThreadInv, HoldsAlive
<1>2. pc'[h] = pc[h] /\ Step(h)' = Step(h) /\ cur'[h] = cur[h] /\ depth'[h] = depth[h]
  BY DEF Release, Step
<1>3. pc[h] = "write" => Step(h).op = "get_mut"
  BY DEF ThreadBorrow
<1>4. ASSUME pc[h] = "edit", Step(h).op = "get_mut" PROVE PlaceOf(h)' \in {"at", "child"}
  <2>1. PICK n \in drops[h] :
          heap' = IF LastReference(h, n) THEN [heap EXCEPT ![n] = None] ELSE heap
    BY DEF Release
  <2>2. heap'[cur[h]] = heap[cur[h]]
    <3>1. LastReference(h, n) => n # cur[h]
      BY DEF LastReference
    <3>2. cur[h] \in Node
      BY <1>4, AtHand
    <3> QED BY <1>1, <2>1, <3>1, <3>2 DEF TypeOK
  <2>3. PlaceOf(h)' = PlaceOf(h)
    BY <1>2, <2>2 DEF PlaceOf
  <2> QED BY <1>4, <2>3 DEF ThreadBorrow
<1>5. Step(h).op = "get_mut" => pc[h] \notin {"up", "write"}
  BY <1>1 DEF ThreadBorrow
<1> QED BY <1>2, <1>3, <1>4, <1>5 DEF ThreadBorrow

\* Every step leaves get_mut the path it has copied.
LEMMA NextBorrow ==
  ASSUME IInv, IInv', ShapeInv, ShapeInv', RouteInv, BorrowInv, Next
  PROVE  BorrowInv'
<1>1. PICK h \in Handle : Advance(h) \/ Use(h)
  BY DEF Next
<1>2. ThreadRoute(h) /\ ThreadBorrow(h)
  BY DEF RouteInv, BorrowInv
<1>3. ThreadBorrow(h)'
  <2>1. CASE Use(h)
    BY <2>1, AwayBorrow DEF Use
  <2>2. CASE Advance(h)
    <3>1. CASE \/ Plan(h) \/ StartEmpty(h) \/ Start(h) \/ Return(h)
               \/ CallbackPanic(h) \/ WriteThrough(h) \/ Descend(h) \/ Follow(h) \/ Lift(h)
      BY <3>1, AwayBorrow
    <3>2. CASE \/ ReplaceValue(h) \/ TakeValue(h) \/ RemoveLeaf(h) \/ Split(h) \/ AddLeaf(h)
               \/ Decline(h) \/ Backtrack(h) \/ SwapChild(h)
      BY <1>2, <3>2, OtherOpsBorrow
    <3>3. CASE EnsureCowOwned(h) \/ EnsureCowShared(h)
      BY <3>3, EnsureCowBorrow
    <3>4. CASE PathReady(h) \/ Reattach(h) \/ Install(h) \/ Release(h)
      BY <1>2, <3>4, PathReadyBorrow, ReattachBorrow, InstallBorrow, ReleaseBorrow
    <3> QED BY <2>2, <3>1, <3>2, <3>3, <3>4 DEF Advance
  <2> QED BY <1>1, <2>1, <2>2
<1>4. ASSUME NEW g \in Handle \ {h} PROVE ThreadBorrow(g)'
  <2>1. ThreadRoute(g) /\ ThreadBorrow(g)
    BY DEF RouteInv, BorrowInv
  <2>2. Conduct(h) /\ (Untouched(h) \/ WriteThrough(h))
    BY <1>1, NextConduct
  <2>3. h \in Handle \ {g}
    OBVIOUS
  <2> QED BY <1>4, <2>1, <2>2, BorrowOthers
<1> QED BY <1>3, <1>4 DEF BorrowInv

\* Nothing changes for get_mut while nobody moves.
LEMMA StutterBorrow ==
  ASSUME BorrowInv, UNCHANGED vars
  PROVE  BorrowInv'
<1> SUFFICES ASSUME NEW h \in Handle PROVE ThreadBorrow(h)'
  BY DEF BorrowInv
<1>1. ThreadBorrow(h)
  BY DEF BorrowInv
<1>2. /\ heap' = heap /\ pc' = pc /\ todo' = todo /\ cur' = cur /\ depth' = depth
      /\ root' = root /\ drops' = drops /\ res' = res /\ trail' = trail
  BY DEF vars
<1>3. Step(h)' = Step(h)
  BY <1>2 DEF Step
<1>4. PlaceOf(h)' = PlaceOf(h)
  BY <1>2, <1>3 DEF PlaceOf
<1>5. ASSUME NEW r, NEW k PROVE Path(r, k)' = Path(r, k)
  BY <1>2 DEF Path, Levels, GoesOn, Onward
<1>6. ASSUME NEW n PROVE Links(n)' = Links(n)
  BY <1>2 DEF Links, Alive
<1>7. \A g : InHand(g)' = InHand(g) /\ TrailNodes(g)' = TrailNodes(g)
  BY <1>2 DEF InHand, TrailNodes
<1>8. ASSUME NEW r, NEW k, PathAlone(h, r, k) PROVE PathAlone(h, r, k)'
  <2>1. {w.node : w \in Path(r, k)}' = {w.node : w \in Path(r, k)}
    BY <1>5
  <2> QED BY <1>2, <1>6, <1>7, <1>8, <2>1 DEF PathAlone
<1>9. ASSUME NEW k, PathUnshared(h, k) PROVE PathUnshared(h, k)'
  <2>1. {w.node : w \in Path(root[h], k)}' = {w.node : w \in Path(root[h], k)}
    BY <1>2, <1>5
  <2> QED BY <1>2, <1>6, <1>7, <1>9, <2>1 DEF PathUnshared
<1>10. \A r, k : PathAlone(h, r, k) => PathAlone(h, r, k)'
  BY <1>8
<1>11. \A k : PathUnshared(h, k) => PathUnshared(h, k)'
  BY <1>9
<1> QED BY <1>1, <1>2, <1>3, <1>4, <1>10, <1>11 DEF ThreadBorrow

\* From the copy of a key's node to the write through the reference that
\* get_mut returns, every node on the path is held by the node above it alone.
THEOREM BorrowInvariance == Spec => []BorrowInv
<1>1. Init => BorrowInv
  BY DEF Init, BorrowInv, ThreadBorrow
<1>2. /\ IInv /\ IInv' /\ ShapeInv /\ ShapeInv' /\ RouteInv /\ BorrowInv /\ [Next]_vars
      => BorrowInv'
  BY NextBorrow, StutterBorrow
<1> QED BY <1>1, <1>2, Invariance, ShapeInvariance, RouteInvariance, PTL DEF Spec

\* Both: where the activations of a call stand, and that the path get_mut has
\* copied is shared with nobody.
THEOREM PathInvariance == Spec => []PathInv
BY RouteInvariance, BorrowInvariance, PTL DEF PathInv

\* Wherever get_mut borrows the path it has copied, Arc::get_mut succeeds.
THEOREM NoBorrowPanicHolds == Spec => []NoBorrowPanic
<1>1. BorrowInv => NoBorrowPanic
  BY DEF BorrowInv, ThreadBorrow, NoBorrowPanic, Running
<1> QED BY <1>1, BorrowInvariance, PTL

-----------------------------------------------------------------------------
(* What a step means to the other handles: what they hold, and all that is *)
(* below it, stays as it is. *)

\* The nodes in C stay as they are, and so do those below them.
Kept(C) == Downward(C) /\ \A n \in C : n \in Alive' /\ heap'[n] = heap[n]

\* What the handle g and its thread hold.
InHands(g) == TrailNodes(g) \cup {cur[g], res[g], root[g]}

\* Whatever another thread does, what g and its thread hold, and what the thread
\* has let go of and not yet released, is kept.
LEMMA AllKept ==
  ASSUME IInv, IInv', ShapeInv, ShapeInv', NEW h \in Handle, Advance(h) \/ Use(h), ThreadBorrow(h),
         NEW g \in Handle \ {h}
  PROVE  \E C : Kept(C) /\ \A n \in Alive : n \in InHand(g) \/ root[g] = n => n \in C
<1>1. TypeOK /\ HeapInv /\ TreeHeap /\ None \notin Alive
  BY TreeHeapHolds, AliveTyped DEF IInv, TreeHeap
<1>2. ASSUME NEW n \in Alive, n \in InHand(g) \/ root[g] = n
      PROVE  HeldElsewhere(h, n)
  BY <1>1, <1>2 DEF HeldElsewhere, HeldByRoot
<1>3. CASE Untouched(h)
  <2> DEFINE C == {n \in Alive : HeldElsewhere(h, n)}
  <2>1. Downward(C)
    BY <1>1 DEF Downward, HeapInv, HeldElsewhere, HeldByParent
  <2>2. \A n \in C : n \in Alive' /\ heap'[n] = heap[n]
    BY <1>3 DEF Untouched, Alive
  <2>3. \A n \in Alive : n \in InHand(g) \/ root[g] = n => n \in C
    BY <1>2
  <2> HIDE DEF C
  <2> QED BY <2>1, <2>2, <2>3 DEF Kept
<1>4. CASE WriteThrough(h)
  <2>1. PICK key : key = Step(h).key
    OBVIOUS
  <2>2. root[h] \in Alive /\ key \in Seq(Byte) /\ PathUnshared(h, key)
    <3>1. pc[h] = "write" /\ todo[h] # <<>> /\ root[h] # None /\ PathUnshared(h, key)
      BY <1>4, <2>1 DEF IInv, WriteThrough, Running, ThreadInv, PhaseOf, ThreadBorrow
    <3>2. root[h] \in Alive
      BY <3>1, WasResting
    <3>3. key \in Seq(Byte)
      BY <1>1, <2>1, <3>1, StepTyped DEF Call
    <3> QED BY <3>1, <3>2, <3>3
  <2>3. PICK r \in Alive : r = root[h]
    BY <2>2
  <2>4. /\ \A n \in OnPath(r, key) : IF n = r THEN Links(n) = {} ELSE \A l, m \in Links(n) : l = m
        /\ \A n \in OnPath(r, key) : n \notin InHand(g) /\ root[g] # n
    BY <2>2, <2>3 DEF PathUnshared, OnPath
  <2> DEFINE C == Alive \ OnPath(r, key)
  <2>5. ASSUME NEW n \in C, NEW b \in Byte, heap[n].kids[b] # None
        PROVE  heap[n].kids[b] \in C
    <3>1. PICK c \in Alive : c = heap[n].kids[b]
      BY <1>1, <2>5 DEF HeapInv
    <3>2. <<n, b>> \in Links(c)
      BY <3>1 DEF Links
    <3>3. ASSUME c \in OnPath(r, key) PROVE FALSE
      <4>1. c # r /\ \A l, m \in Links(c) : l = m
        BY <2>4, <3>2, <3>3
      <4>2. PICK u \in OnPath(r, key), e \in Byte : u \in Alive /\ heap[u].kids[e] = c
        BY <1>1, <2>2, <3>3, <4>1, Predecessor
      <4>3. <<u, e>> \in Links(c)
        BY <4>2 DEF Links
      <4>4. <<n, b>> = <<u, e>>
        BY <3>2, <4>1, <4>3
      <4> QED BY <4>2, <4>4
    <3> QED BY <3>1, <3>3
  <2>6. Downward(C)
    BY <2>5 DEF Downward
  <2>7. ASSUME NEW n \in C PROVE n \in Alive' /\ heap'[n] = heap[n]
    <3>1. PICK x \in Found(root[h], Step(h).key) : heap' = [heap EXCEPT ![x].value = Step(h).val]
      BY <1>4 DEF WriteThrough
    <3>2. x \in OnPath(r, key)
      BY <2>1, <2>3, <3>1 DEF Found, OnPath
    <3>3. heap'[n] = heap[n]
      BY <1>1, <3>1, <3>2 DEF TypeOK, Alive
    <3> QED BY <3>3 DEF Alive
  <2>8. ASSUME NEW n \in Alive, n \in InHand(g) \/ root[g] = n PROVE n \in C
    BY <2>4, <2>8
  <2> HIDE DEF C
  <2> QED BY <2>6, <2>7, <2>8 DEF Kept
<1> QED BY <1>3, <1>4, NextConduct

\* The same, of what g and its thread go on to use.
LEMMA OthersKept ==
  ASSUME IInv, IInv', ShapeInv, ShapeInv', NEW h \in Handle, Advance(h) \/ Use(h), ThreadBorrow(h),
         NEW g \in Handle \ {h}
  PROVE  \E C : Kept(C) /\ \A n \in Alive : n \in InHands(g) => n \in C
<1>1. PICK C : Kept(C) /\ \A n \in Alive : n \in InHand(g) \/ root[g] = n => n \in C
  BY AllKept
<1>2. ASSUME NEW n \in Alive, n \in InHands(g) PROVE n \in C
  <2>1. n # None
    BY AliveTyped DEF IInv
  <2> QED BY <1>1, <1>2, <2>1 DEF InHands, InHand
<1> QED BY <1>1, <1>2

-----------------------------------------------------------------------------
(* Writes are exclusive *)

\* One level below the nodes of T.
NextLevel(T) == UNION {Children(heap[n]) : n \in T \cap Alive}

\* f satisfies the recursion that defines Reachable, for the levels up to k.
BelowUpTo(f, T, k) == f = [i \in 0..k |-> IF i = 0 THEN T ELSE NextLevel(f[i - 1])]

\* The recursion has a solution for every number of levels.
LEMMA BelowExists ==
  ASSUME NEW T, NEW k \in Nat
  PROVE  \E f : BelowUpTo(f, T, k)
<1> DEFINE S == {m \in Nat : \E f : BelowUpTo(f, T, m)}
<1>1. 0 \in S
  <2> DEFINE f == [i \in 0..0 |-> T]
  <2>1. BelowUpTo(f, T, 0)
    <3>1. \A i \in 0..0 : i = 0
      OBVIOUS
    <3> QED BY <3>1 DEF BelowUpTo
  <2> QED BY <2>1
<1>2. ASSUME NEW m \in Nat, m \in S
      PROVE  m + 1 \in S
  <2>1. PICK f : BelowUpTo(f, T, m)
    BY <1>2
  <2>2. f = [i \in 0..m |-> IF i = 0 THEN T ELSE NextLevel(f[i - 1])]
    BY <2>1 DEF BelowUpTo
  <2> DEFINE g == [i \in 0..m + 1 |-> IF i <= m THEN f[i] ELSE NextLevel(f[m])]
  <2>3. ASSUME NEW i \in 0..m + 1
        PROVE  g[i] = IF i = 0 THEN T ELSE NextLevel(g[i - 1])
    <3>1. CASE i = 0
      BY <2>2, <3>1
    <3>2. CASE i # 0 /\ i <= m
      <4>1. i \in 0..m /\ i - 1 \in 0..m + 1 /\ i - 1 <= m
        BY <3>2
      <4>2. g[i] = f[i] /\ g[i - 1] = f[i - 1]
        BY <3>2, <4>1
      <4>3. f[i] = NextLevel(f[i - 1])
        BY <2>2, <3>2, <4>1
      <4> HIDE DEF g
      <4> QED BY <3>2, <4>2, <4>3
    <3>3. CASE i = m + 1
      <4>1. g[i] = NextLevel(f[m]) /\ g[i - 1] = f[m]
        BY <3>3
      <4> QED BY <3>3, <4>1
    <3> QED BY <3>1, <3>2, <3>3
  <2>4. g = [i \in 0..m + 1 |-> IF i = 0 THEN T ELSE NextLevel(g[i - 1])]
    BY <2>3
  <2>5. BelowUpTo(g, T, m + 1)
    BY <2>4, Zenon DEF BelowUpTo
  <2> HIDE DEF g
  <2>6. m + 1 \in Nat /\ \E e : BelowUpTo(e, T, m + 1)
    BY <2>5
  <2> QED BY <2>6
<1> HIDE DEF S
<1>3. k \in S
  BY <1>1, <1>2, Induction
<1> QED BY <1>3 DEF S

\* What g and its thread can get to lies in every set that has what they hold
\* and, with a node, those below it.
LEMMA ReachableWithin ==
  ASSUME IInv, NEW g \in Handle, NEW C, Downward(C),
         \A n \in Alive : n \in InHand(g) \/ root[g] = n => n \in C
  PROVE  Reachable(g) \subseteq C
<1> DEFINE T == (InHand(g) \cup {root[g]}) \ {None}
           k == Cardinality(Alive)
           f == CHOOSE e : BelowUpTo(e, T, k)
<1>1. k \in Nat
  <2>1. IsFiniteSet(Alive)
    BY NodeAssumption, FS_Subset DEF Alive
  <2> QED BY <2>1, FS_CardinalityType
<1>2. Reachable(g) = UNION {f[i] : i \in 0..k}
  BY DEF Reachable, BelowUpTo, NextLevel
<1>3. BelowUpTo(f, T, k)
  BY <1>1, BelowExists
<1> HIDE DEF f, k
<1>4. T \subseteq C
  <2>1. HoldsAlive(g) /\ trail[g] \in Seq(Frame)
    BY DEF IInv, ThreadInv, TypeOK
  <2>2. T \subseteq Alive
    BY <2>1 DEF HoldsAlive, InHand, TrailNodes, Frames
  <2> QED BY <2>2
<1>5. ASSUME NEW D \in SUBSET C PROVE NextLevel(D) \subseteq C
  BY DEF NextLevel, Children, Downward
<1> HIDE DEF T
<1>6. f = [i \in 0..k |-> IF i = 0 THEN T ELSE NextLevel(f[i - 1])]
  BY <1>3 DEF BelowUpTo
<1> DEFINE S == {i \in Nat : i <= k => f[i] \subseteq C}
<1>7. 0 \in S
  BY <1>1, <1>4, <1>6
<1>8. ASSUME NEW i \in Nat, i \in S PROVE i + 1 \in S
  <2> SUFFICES ASSUME i + 1 <= k PROVE f[i + 1] \subseteq C
    OBVIOUS
  <2>1. f[i] \in SUBSET C
    BY <1>1, <1>8
  <2>2. f[i + 1] = NextLevel(f[i])
    <3>1. i + 1 \in 0..k /\ i + 1 # 0 /\ (i + 1) - 1 = i
      BY <1>1
    <3> QED BY <1>6, <3>1
  <2> QED BY <1>5, <2>1, <2>2
<1> HIDE DEF S
<1>9. Nat \subseteq S
  BY <1>7, <1>8, Induction
<1>10. \A i \in 0..k : f[i] \subseteq C
  BY <1>1, <1>9 DEF S
<1> QED BY <1>2, <1>10

\* A step of one thread leaves every node alone that another can get to.
LEMMA StepSpares ==
  ASSUME IInv, IInv', ShapeInv, ShapeInv', BorrowInv, NEW h \in Handle, Advance(h),
         NEW g \in Handle \ {h}, NEW n \in Reachable(g)
  PROVE  heap'[n] = heap[n]
<1>1. PICK C : Kept(C) /\ \A m \in Alive : m \in InHand(g) \/ root[g] = m => m \in C
  BY AllKept DEF BorrowInv
<1>2. n \in C
  BY <1>1, ReachableWithin DEF Kept
<1> QED BY <1>1, <1>2 DEF Kept

\* A thread writes to a node, or frees it, only if no other handle or thread can
\* get to it, however far below what they hold it lies.
THEOREM WritesAreExclusiveHolds == Spec => WritesAreExclusive
<1> DEFINE Exclusive == \A n \in Alive : heap'[n] # heap[n] =>
             \A h \in Handle : Advance(h) =>
               \A g \in Handle \ {h} : n \notin Reachable(g)
<1>1. /\ IInv /\ IInv' /\ ShapeInv /\ ShapeInv' /\ BorrowInv /\ [Next]_vars
      => [Exclusive]_vars
  BY StepSpares
<1> HIDE DEF Exclusive
<1>2. [][Exclusive]_vars <=> WritesAreExclusive
  BY DEF Exclusive, WritesAreExclusive
<1> QED BY <1>1, <1>2, Invariance, ShapeInvariance, BorrowInvariance, PTL DEF Spec

-----------------------------------------------------------------------------
(* Nothing is left: the conclusion *)

\* With no handles, threads hold nothing and no root does; among nodes that
\* only parents hold, one would have none.
LEMMA NothingForgotten ==
  ASSUME IInv, LeakInv
  PROVE  NoLeak
<1> SUFFICES ASSUME live = {}, \A h \in Handle : drops[h] = {}, Alive # {} PROVE FALSE
  BY DEF NoLeak
<1>1. ASSUME NEW h \in Handle PROVE root[h] = None /\ InHand(h) = {}
  <2>1. pc[h] = "idle" /\ root[h] = None
    BY DEF LeakInv, DeadAtRest
  <2> QED BY <2>1, WasResting
<1>2. PICK n \in Alive : \A m \in Alive : \A b \in Byte : heap[m].kids[b] # n
  BY DEF LeakInv, Acyclic
<1>3. Held(n) /\ n # None
  BY AliveTyped DEF LeakInv, NoOrphans, IInv
<1> QED BY <1>1, <1>2, <1>3 DEF Held, Attached, HeldByRoot, HeldByParent

-----------------------------------------------------------------------------
(* Handles that do not exist *)

\* Only New, Clone and Snapshot bring a handle to life, and only DropHandle ends
\* it, which leaves it at rest.
LEMMA DeadStep ==
  ASSUME IInv, DeadAtRest, NEW h \in Handle, Advance(h) \/ Use(h)
  PROVE  DeadAtRest'
<1> USE DEF handleVars, callVars, walkVars
<1>1. TypeOK /\ LocalFrame(h)
  BY NextConduct DEF IInv, Conduct
<1>2. /\ \A g \in Handle \ {h} : g \in live <=> g \in live'
      /\ h \notin live' => pc'[h] = "idle" /\ root'[h] = None
  <2>1. CASE New(h) \/ \E g \in Handle : Clone(g, h) \/ Snapshot(g, h)
    BY <2>1 DEF New, Clone, Snapshot, CopyHandle
  <2>2. CASE DropHandle(h)
    BY <1>1, <2>2 DEF DropHandle, Running, TypeOK
  <2>3. CASE Release(h)
    BY <2>3 DEF Release, DeadAtRest
  <2>4. CASE \E c \in Calls : Invoke(h, c)
    BY <2>4 DEF Invoke
  <2>5. CASE ~Release(h) /\ Advance(h)
    <3>1. pc[h] # "idle" /\ live' = live
      <4>1. CASE Plan(h) \/ StartEmpty(h) \/ Start(h) \/ Return(h)
        BY <4>1 DEF Plan, StartEmpty, Start, Return, Running
      <4>2. CASE EnsureCowOwned(h) \/ EnsureCowShared(h) \/ Descend(h) \/ Follow(h)
        BY <4>2 DEF EnsureCowOwned, EnsureCowShared, Descend, Follow, Ensuring, Unwrapped, Running
      <4>3. CASE ReplaceValue(h) \/ TakeValue(h) \/ RemoveLeaf(h) \/ AddLeaf(h) \/ Split(h)
        BY <4>3 DEF ReplaceValue, TakeValue, RemoveLeaf, AddLeaf, Split, Unwrapped, Running
      <4>4. CASE PathReady(h) \/ Decline(h) \/ CallbackPanic(h) \/ WriteThrough(h)
        BY <4>4 DEF PathReady, Decline, CallbackPanic, WriteThrough, Unwrapped, Running
      <4>5. CASE Reattach(h) \/ Backtrack(h) \/ Lift(h) \/ SwapChild(h) \/ Install(h)
        BY <4>5 DEF Reattach, Backtrack, Lift, SwapChild, Install, Unwrapped, Running
      <4> QED BY <2>5, <4>1, <4>2, <4>3, <4>4, <4>5 DEF Advance
    <3>2. h \in live
      BY <3>1 DEF DeadAtRest
    <3> QED BY <3>1, <3>2
  <2> QED BY <2>1, <2>2, <2>3, <2>4, <2>5 DEF Use
<1> QED BY <1>1, <1>2 DEF DeadAtRest, LocalFrame, SameLocals

-----------------------------------------------------------------------------
(* How a step keeps hold of nodes *)

\* What a thread held or owned, what allocated nodes pointed to, and what is
\* new, are the nodes to look at.
LEMMA HeldStep ==
  ASSUME NoOrphans, NEW h \in Handle, LocalFrame(h),
         \A n \in Alive' : n \notin Alive => Held(n)',
         \A n \in Alive' : n \in InHand(h) \/ root[h] = n => Held(n)',
         \A m \in Alive : \A b \in Byte : \A n \in Alive' : heap[m].kids[b] = n => Held(n)'
  PROVE  NoOrphans'
<1> SUFFICES ASSUME NEW n \in Alive' PROVE Held(n)'
  BY DEF NoOrphans
<1>1. CASE n \notin Alive
  BY <1>1
<1>2. CASE n \in Alive
  <2>1. Held(n)
    BY <1>2 DEF NoOrphans
  <2>2. ASSUME NEW g \in Handle \ {h}, n \in InHand(g) \/ root[g] = n
        PROVE  Held(n)'
    <3>1. InHand(g)' = InHand(g) /\ root'[g] = root[g]
      BY DEF LocalFrame, SameLocals, InHand, TrailNodes
    <3> QED BY <2>2, <3>1 DEF Held, Attached, HeldByRoot
  <2> QED BY <2>1, <2>2 DEF Held, Attached, HeldByRoot, HeldByParent
<1> QED BY <1>1, <1>2

\* Who holds a node after a step: a thread, or a root.
LEMMA HeldInHand ==
  ASSUME NEW h \in Handle, NEW n, n \in InHand(h)' \/ root'[h] = n
  PROVE  Held(n)'
BY DEF Held, Attached, HeldByRoot

\* Or a parent.
LEMMA HeldAsChild ==
  ASSUME NEW m \in Alive', NEW b \in Byte, NEW n, heap'[m].kids[b] = n
  PROVE  Held(n)'
BY DEF Held, Attached, HeldByParent

\* New links go out only from nodes of T, which cannot close a cycle.
LEMMA AcyclicStep ==
  ASSUME Acyclic, NEW T,
         \A m \in Alive' : \A b \in Byte : \A n \in Alive' : heap'[m].kids[b] = n =>
           m \in T \/ (m \in Alive /\ n \in Alive /\ heap[m].kids[b] = n),
         \A S \in SUBSET (Alive') : S \cap T # {} =>
           \E n \in S : \A m \in S : \A b \in Byte : heap'[m].kids[b] # n
  PROVE  Acyclic'
<1> SUFFICES ASSUME NEW S \in SUBSET (Alive'), S # {}
             PROVE  \E n \in S : \A m \in S : \A b \in Byte : heap'[m].kids[b] # n
  BY DEF Acyclic
<1>1. CASE S \cap T # {}
  BY <1>1
<1>2. CASE S \cap T = {}
  <2>1. CASE S \cap Alive = {}
    BY <1>2, <2>1
  <2>2. CASE S \cap Alive # {}
    <3>1. PICK n \in S \cap Alive : \A m \in S \cap Alive : \A b \in Byte : heap[m].kids[b] # n
      BY <2>2 DEF Acyclic
    <3>2. ASSUME NEW m \in S, NEW b \in Byte, heap'[m].kids[b] = n PROVE FALSE
      <4>1. m \in Alive /\ heap[m].kids[b] = n
        BY <1>2, <3>1, <3>2
      <4> QED BY <3>1, <4>1
    <3> QED BY <3>1, <3>2
  <2> QED BY <2>1, <2>2
<1> QED BY <1>1, <1>2

\* New links go out only from a node that nothing points to.
LEMMA AcyclicFrom ==
  ASSUME Acyclic, NEW p \in Node,
         \A m \in Alive' : \A b \in Byte : \A n \in Alive' : heap'[m].kids[b] = n =>
           n # p /\ (m = p \/ (m \in Alive /\ n \in Alive /\ heap[m].kids[b] = n))
  PROVE  Acyclic'
<1> DEFINE T == {p}
<1>1. \A m \in Alive' : \A b \in Byte : \A n \in Alive' : heap'[m].kids[b] = n =>
           m \in T \/ (m \in Alive /\ n \in Alive /\ heap[m].kids[b] = n)
  OBVIOUS
<1>2. ASSUME NEW S \in SUBSET (Alive'), S \cap T # {}
      PROVE  \E n \in S : \A m \in S : \A b \in Byte : heap'[m].kids[b] # n
  <2>1. p \in S
    BY <1>2
  <2> QED BY <2>1
<1> HIDE DEF T
<1> QED BY <1>1, <1>2, AcyclicStep

\* A step that rewrites the node p, which no node points to, and what it makes
\* sure of: what was in the thread's hands, and p's children.
LEMMA EditLeak ==
  ASSUME IInv, LeakInv, NEW h \in Handle, LocalFrame(h), NEW p \in Node, ~HeldByParent(p),
         \A m \in Alive : m # p => m \in Alive' /\ heap'[m].kids = heap[m].kids,
         \A m \in Alive' : m \notin Alive /\ m # p => heap'[m].kids = NoKids,
         p \in Alive' => \A b \in Byte : heap'[p].kids[b] # p,
         \A n \in Alive' : n \notin Alive => Held(n)',
         \A n \in Alive' : n \in InHand(h) \/ root[h] = n => Held(n)',
         p \in Alive => \A b \in Byte : \A n \in Alive' : heap[p].kids[b] = n => Held(n)'
  PROVE  NoOrphans' /\ Acyclic'
<1>1. NoOrphans'
  <2>1. ASSUME NEW m \in Alive, NEW b \in Byte, NEW n \in Alive', heap[m].kids[b] = n
        PROVE  Held(n)'
    <3>1. CASE m = p
      BY <2>1, <3>1
    <3>2. CASE m # p
      BY <2>1, <3>2, HeldAsChild
    <3> QED BY <3>1, <3>2
  <2> QED BY <2>1, HeldStep DEF LeakInv
<1>2. Acyclic'
  <2>1. \A n \in Alive' : n # None
    BY NoneAssumption DEF Alive
  <2>2. ASSUME NEW m \in Alive', NEW b \in Byte, NEW n \in Alive', heap'[m].kids[b] = n
        PROVE  n # p /\ (m = p \/ (m \in Alive /\ n \in Alive /\ heap[m].kids[b] = n))
    <3>1. CASE m = p
      BY <2>2, <3>1
    <3>2. CASE m # p /\ m \notin Alive
      <4>1. NoKids[b] = n
        BY <2>2, <3>2
      <4> QED BY <2>1, <4>1 DEF NoKids
    <3>3. CASE m # p /\ m \in Alive
      <4>1. heap[m].kids[b] = n
        BY <2>2, <3>3
      <4>2. n \in Alive
        BY <2>1, <3>3, <4>1 DEF IInv, HeapInv
      <4>3. n # p
        BY <3>3, <4>1 DEF HeldByParent
      <4> QED BY <3>3, <4>1, <4>2, <4>3
    <3> QED BY <3>1, <3>2, <3>3
  <2>3. Acyclic
    BY DEF LeakInv
  <2>4. \A m \in Alive' : \A b \in Byte : \A n \in Alive' : heap'[m].kids[b] = n =>
           n # p /\ (m = p \/ (m \in Alive /\ n \in Alive /\ heap[m].kids[b] = n))
    BY <2>2
  <2> QED BY <2>3, <2>4, AcyclicFrom
<1> QED BY <1>1, <1>2

\* Links stay as they are, references change hands.
LEMMA SameLinksLeak ==
  ASSUME LeakInv, NEW h \in Handle, LocalFrame(h),
         Alive' = Alive, \A m \in Alive : heap'[m].kids = heap[m].kids,
         \A n \in Alive : n \in InHand(h) \/ root[h] = n => n \in InHand(h)' \/ root'[h] = n
  PROVE  NoOrphans' /\ Acyclic'
<1>1. NoOrphans'
  <2>1. \A n \in Alive' : n \in InHand(h) \/ root[h] = n => Held(n)'
    BY HeldInHand
  <2>2. ASSUME NEW m \in Alive, NEW b \in Byte, NEW n \in Alive', heap[m].kids[b] = n
        PROVE  Held(n)'
    BY <2>2 DEF Held, Attached, HeldByParent
  <2> QED BY <2>1, <2>2, HeldStep DEF LeakInv
<1>2. Acyclic'
  <2> SUFFICES ASSUME NEW S \in SUBSET (Alive'), S # {}
               PROVE  \E n \in S : \A m \in S : \A b \in Byte : heap'[m].kids[b] # n
    BY DEF Acyclic
  <2>1. PICK n \in S : \A m \in S : \A b \in Byte : heap[m].kids[b] # n
    BY DEF LeakInv, Acyclic
  <2>2. \A m \in S : heap'[m].kids = heap[m].kids
    OBVIOUS
  <2> QED BY <2>1, <2>2
<1> QED BY <1>1, <1>2

-----------------------------------------------------------------------------
(* The steps *)

\* The steps of a handle that leave the heap alone.
LEMMA RestingLeak ==
  ASSUME IInv, LeakInv, NEW h \in Handle,
         \/ New(h) \/ DropHandle(h) \/ Plan(h) \/ Start(h) \/ Return(h) \/ Install(h)
         \/ \E g \in Handle : Clone(g, h) \/ Snapshot(g, h)
         \/ \E c \in Calls : Invoke(h, c)
  PROVE  NoOrphans' /\ Acyclic'
<1> USE DEF handleVars, callVars, walkVars
<1>1. TypeOK /\ LocalFrame(h) /\ None \notin Alive
  BY RestingConduct, AliveTyped DEF IInv, Conduct
<1>2. heap' = heap /\ Alive' = Alive
  BY DEF New, DropHandle, Plan, Start, Return, Install, Clone, Snapshot, CopyHandle, Invoke, Alive
<1>3. \A n \in Alive : n \in InHand(h) \/ root[h] = n => n \in InHand(h)' \/ root'[h] = n
  <2>1. CASE New(h) \/ Plan(h) \/ Return(h) \/ \E c \in Calls : Invoke(h, c)
    BY <2>1 DEF New, Plan, Return, Invoke, InHand, TrailNodes
  <2>2. CASE \E g \in Handle : Clone(g, h) \/ Snapshot(g, h)
    <3>1. root[h] = None
      BY <2>2 DEF Clone, Snapshot, CopyHandle, LeakInv, DeadAtRest
    <3> QED BY <1>1, <2>2, <3>1 DEF Clone, Snapshot, CopyHandle, InHand, TrailNodes
  <2>3. CASE DropHandle(h)
    <3>1. drops[h] = {} /\ cur' = cur /\ res' = res /\ trail' = trail
          /\ drops'[h] = {root[h]} \ {None}
      BY <1>1, <2>3 DEF DropHandle, Running, TypeOK
    <3> QED BY <1>1, <3>1 DEF InHand, TrailNodes
  <2>4. CASE Start(h)
    <3>1. pc[h] = "next" /\ cur'[h] = root[h] /\ res' = res /\ trail' = trail /\ drops' = drops
      BY <1>1, <2>4 DEF Start, Running, TypeOK
    <3>2. cur[h] = None
      BY <3>1, WasResting
    <3> QED BY <1>1, <3>1, <3>2 DEF InHand, TrailNodes
  <2>5. CASE Install(h)
    <3>1. /\ pc[h] = "up" /\ drops[h] = {} /\ cur' = cur /\ trail' = trail
          /\ root'[h] = res[h] \/ drops'[h] = {res[h]}
      BY <1>1, <2>5 DEF Install, Running, TypeOK
    <3>2. root[h] = None
      BY <3>1, WasInTree DEF InTree
    <3> QED BY <1>1, <3>1, <3>2 DEF InHand, TrailNodes
  <2> QED BY <2>1, <2>2, <2>3, <2>4, <2>5
<1> QED BY <1>1, <1>2, <1>3, SameLinksLeak

\* The ends of a descent that leave the heap alone.
LEMMA StayLeak ==
  ASSUME IInv, LeakInv, NEW h \in Handle,
         RemoveLeaf(h) \/ PathReady(h) \/ Decline(h) \/ CallbackPanic(h)
  PROVE  NoOrphans' /\ Acyclic'
<1> USE DEF handleVars, callVars, walkVars
<1>1. TypeOK /\ LocalFrame(h) /\ None \notin Alive
  BY StayConduct, AliveTyped DEF IInv, Conduct
<1>2. heap' = heap /\ Alive' = Alive /\ root' = root
  BY DEF RemoveLeaf, PathReady, Decline, CallbackPanic, Alive
<1>3. pc[h] \in {"visit", "edit"} /\ drops[h] = {} /\ res[h] = None
  <2>1. pc[h] \in {"visit", "edit"} /\ drops[h] = {}
    BY DEF RemoveLeaf, PathReady, Decline, CallbackPanic, Unwrapped, Running
  <2> QED BY <2>1, AtNode
<1>4. \A n \in Alive : n \in InHand(h) => n \in InHand(h)'
  <2>1. CASE RemoveLeaf(h)
    BY <1>1, <1>3, <2>1 DEF RemoveLeaf, TypeOK, InHand, TrailNodes
  <2>2. CASE PathReady(h) \/ Decline(h)
    BY <1>1, <1>3, <2>2 DEF PathReady, Decline, ReturnNode, TypeOK, InHand, TrailNodes
  <2>3. CASE CallbackPanic(h)
    <3>1. drops'[h] = InHand(h)
      BY <1>1, <2>3 DEF CallbackPanic, TypeOK
    <3> QED BY <1>1, <3>1 DEF InHand
  <2> QED BY <2>1, <2>2, <2>3
<1> QED BY <1>1, <1>2, <1>4, SameLinksLeak

\* The nodes of the trail that a descent leaves behind.
LEMMA PushedAll ==
  ASSUME IInv, NEW h \in Handle, pc[h] \in {"visit", "edit"}, NEW b \in Byte,
         trail'[h] = Append(trail[h], [node |-> cur[h], edge |-> b, depth |-> depth[h]])
  PROVE  TrailNodes(h) \cup {cur[h]} \subseteq TrailNodes(h)'
<1>1. trail[h] \in Seq(Frame) /\ Len(trail[h]) \in Nat
  BY DEF IInv, TypeOK
<1>2. /\ DOMAIN trail'[h] = 1..Len(trail[h]) + 1 /\ DOMAIN trail[h] = 1..Len(trail[h])
      /\ \A i \in 1..Len(trail[h]) : trail'[h][i] = trail[h][i]
      /\ trail'[h][Len(trail[h]) + 1].node = cur[h]
  <2>1. trail'[h] \in Seq(Frame) /\ Frames(h)' = 1..Len(trail[h]) + 1
    BY Pushed
  <2>2. DOMAIN trail'[h] = Frames(h)'
    BY <2>1 DEF Frames
  <2> QED BY <1>1, <2>1, <2>2
<1>3. Len(trail[h]) + 1 \in 1..Len(trail[h]) + 1
      /\ \A i \in 1..Len(trail[h]) : i \in 1..Len(trail[h]) + 1
  BY <1>1
<1> QED BY <1>2, <1>3 DEF TrailNodes

\* And of the trail it was cut to.
LEMMA PoppedAll ==
  ASSUME IInv, NEW h \in Handle, trail[h] # <<>>, trail'[h] = Front(trail[h])
  PROVE  TrailNodes(h) \subseteq TrailNodes(h)' \cup {Last(trail[h]).node}
<1>1. Len(trail'[h]) = Len(trail[h]) - 1
  <2>1. trail[h] \in Seq(Frame) /\ Len(trail[h]) \in Nat /\ Len(trail[h]) # 0
    BY DEF IInv, TypeOK
  <2>2. Len(Front(trail[h])) = Len(trail[h]) - 1
    BY <2>1 DEF Front
  <2> QED BY <2>2
<1>2. /\ trail[h] \in Seq(Frame) /\ trail'[h] \in Seq(Frame)
      /\ \A i \in Frames(h)' : trail'[h][i] = trail[h][i]
      /\ Last(trail[h]) = trail[h][Len(trail[h])] /\ Len(trail[h]) \in Nat
  BY Popped DEF IInv, TypeOK
<1>3. DOMAIN trail[h] = 1..Len(trail[h]) /\ DOMAIN trail'[h] = Frames(h)'
      /\ Len(trail'[h]) = Len(trail[h]) - 1
  BY <1>1, <1>2 DEF Frames
<1>4. \A i \in 1..Len(trail[h]) : i = Len(trail[h]) \/ i \in Frames(h)'
  BY <1>2, <1>3 DEF Frames
<1> QED BY <1>2, <1>3, <1>4 DEF TrailNodes

\* update's way down and up, which shares the children it visits.
LEMMA UpdateWalkLeak ==
  ASSUME IInv, LeakInv, NEW h \in Handle, Follow(h) \/ Backtrack(h) \/ Lift(h)
  PROVE  NoOrphans' /\ Acyclic'
<1> USE DEF handleVars, callVars, walkVars
<1>1. TypeOK /\ LocalFrame(h) /\ None \notin Alive
  BY UpdateWalkConduct, AliveTyped DEF IInv, Conduct
<1>2. heap' = heap /\ Alive' = Alive /\ root' = root
  BY DEF Follow, Backtrack, Lift, Alive
<1>3. \A n \in Alive : n \in InHand(h) => n \in InHand(h)'
  <2>1. CASE Follow(h)
    <3>1. PICK b : b = EdgeOf(heap[cur[h]], Step(h).key, depth[h])
      OBVIOUS
    <3>2. pc[h] = "visit" /\ b \in Byte
      BY <2>1, <3>1, AtNode DEF Follow, Running
    <3>3. /\ res' = res /\ drops' = drops
          /\ trail'[h] = Append(trail[h], [node |-> cur[h], edge |-> b, depth |-> depth[h]])
      BY <1>1, <2>1, <3>1 DEF Follow, TypeOK
    <3>4. TrailNodes(h) \cup {cur[h]} \subseteq TrailNodes(h)'
      BY <3>2, <3>3, PushedAll
    <3> QED BY <1>1, <3>3, <3>4 DEF InHand
  <2>2. CASE Backtrack(h)
    <3>1. /\ cur' = cur /\ res'[h] = Last(trail[h]).node /\ drops'[h] = {res[h]} /\ drops[h] = {}
          /\ trail'[h] = Front(trail[h]) /\ trail[h] # <<>>
      BY <1>1, <2>2 DEF Backtrack, Resume, Running, TypeOK
    <3>2. TrailNodes(h) \subseteq TrailNodes(h)' \cup {Last(trail[h]).node}
      BY <3>1, PoppedAll
    <3> QED BY <1>1, <3>1, <3>2 DEF InHand
  <2>3. CASE Lift(h)
    <3>1. /\ cur'[h] = Last(trail[h]).node /\ res' = res /\ drops' = drops /\ pc[h] = "up"
          /\ trail'[h] = Front(trail[h]) /\ trail[h] # <<>>
      BY <1>1, <2>3 DEF Lift, Resume, Running, TypeOK
    <3>2. TrailNodes(h) \subseteq TrailNodes(h)' \cup {Last(trail[h]).node}
      BY <3>1, PoppedAll
    <3>3. cur[h] = None
      BY <3>1, WasInTree DEF InTree, ThreadInv, PhaseOf
    <3> QED BY <1>1, <3>1, <3>2, <3>3 DEF InHand
  <2> QED BY <2>1, <2>2, <2>3
<1> QED BY <1>1, <1>2, <1>3, SameLinksLeak

\* ensure_cow_node stamps a node, or points a copy at its children.
LEMMA EnsureCowLeak ==
  ASSUME IInv, LeakInv, NEW h \in Handle, EnsureCowOwned(h) \/ EnsureCowShared(h)
  PROVE  NoOrphans' /\ Acyclic'
<1> USE DEF handleVars, callVars, walkVars
<1>1. TypeOK /\ LocalFrame(h) /\ None \notin Alive
  BY EnsureCowConduct, AliveTyped DEF IInv, Conduct
<1>2. /\ drops[h] = {} /\ cur[h] \in Alive /\ cur[h] \in Node /\ heap[cur[h]] \in VersionedNode
      /\ Target(h) \in Nat
  BY WasEnsuring DEF EnsureCowOwned, EnsureCowShared
<1>3. root' = root /\ trail' = trail /\ res' = res /\ TrailNodes(h)' = TrailNodes(h)
  BY DEF EnsureCowOwned, EnsureCowShared, TrailNodes
<1>4. CASE EnsureCowOwned(h)
  <2>1. heap' = [heap EXCEPT ![cur[h]].version = Target(h)] /\ cur' = cur /\ drops' = drops
    BY <1>4 DEF EnsureCowOwned
  <2>2. PICK nd : nd = [heap[cur[h]] EXCEPT !.version = Target(h)]
    OBVIOUS
  <2>3. nd \in VersionedNode /\ nd.kids = heap[cur[h]].kids
    BY <1>2, <2>2 DEF VersionedNode
  <2>4. heap' = [heap EXCEPT ![cur[h]] = nd] /\ nd # None
    BY <1>1, <1>2, <2>1, <2>2, <2>3, NoneAssumption DEF TypeOK
  <2>5. Alive' = Alive /\ \A m \in Alive : heap'[m].kids = heap[m].kids
    BY <1>1, <1>2, <2>3, <2>4 DEF TypeOK, Alive
  <2>6. InHand(h)' = InHand(h)
    BY <1>3, <2>1 DEF InHand
  <2> QED BY <1>1, <1>3, <2>5, <2>6, SameLinksLeak
<1>5. CASE EnsureCowShared(h)
  <2>1. PICK c, x : c = New1(h) /\ x = CowClone(heap[cur[h]], Target(h))
    OBVIOUS
  <2>2. /\ heap' = [heap EXCEPT ![c] = x] /\ cur'[h] = c /\ c \in Node /\ c \notin Alive
        /\ drops'[h] = {cur[h]}
    BY <1>1, <1>5, <2>1, FreshNames DEF EnsureCowShared, TypeOK
  <2>3. x.kids = heap[cur[h]].kids /\ x # None
    <3>1. x \in VersionedNode
      BY <1>2, <2>1 DEF CowClone, VersionedNode
    <3> QED BY <1>2, <2>1, <3>1, NoneAssumption DEF CowClone, VersionedNode
  <2>4. /\ \A m \in Alive : m \in Alive' /\ heap'[m].kids = heap[m].kids
        /\ \A m \in Alive' : m = c \/ m \in Alive
        /\ heap'[c] = x
    BY <1>1, <2>2, <2>3 DEF Alive, TypeOK
  <2>5. ~HeldByParent(c)
    BY <2>2, FreshUnheld
  <2>6. \A b \in Byte : heap'[c].kids[b] # c
    BY <1>2, <2>3, <2>4, <2>5 DEF HeldByParent
  <2>7. c \in InHand(h)' /\ \A n \in Alive' : n \in InHand(h) => n \in InHand(h)'
    <3>1. c # None /\ cur[h] # None
      BY <1>2, <2>2, NoneAssumption
    <3> QED BY <1>2, <1>3, <2>2, <3>1 DEF InHand
  <2>8. \A n \in Alive' : n \notin Alive => Held(n)'
    BY <2>4, <2>7, HeldInHand
  <2>9. \A n \in Alive' : n \in InHand(h) \/ root[h] = n => Held(n)'
    BY <1>3, <2>7, HeldInHand
  <2> QED BY <1>1, <2>2, <2>4, <2>5, <2>6, <2>8, <2>9, EditLeak
<1> QED BY <1>4, <1>5

\* insert, remove and get_mut take the child out and hold it themselves.
LEMMA DescendLeak ==
  ASSUME IInv, LeakInv, NEW h \in Handle, Descend(h)
  PROVE  NoOrphans' /\ Acyclic'
<1> USE DEF handleVars, callVars, walkVars
<1>1. TypeOK /\ LocalFrame(h) /\ pc[h] = "edit" /\ drops[h] = {} /\ PlaceOf(h) = "child"
  BY DescendConduct DEF IInv, Conduct, Descend, Unwrapped, Running
<1>2. PICK p, b, c : p = cur[h] /\ b = EdgeOf(heap[p], Step(h).key, depth[h]) /\ c = heap[p].kids[b]
  OBVIOUS
<1>3. /\ p \in Alive /\ p \in Node /\ heap[p] \in VersionedNode /\ b \in Byte /\ c # None
      /\ ~HeldByParent(p) /\ root[h] = None /\ None \notin Alive /\ res[h] = None
  BY <1>1, <1>2, AtHand, AtNode DEF HeldElsewhere
<1>4. /\ heap' = [heap EXCEPT ![p] = DeleteChild(heap[p], b)] /\ cur'[h] = c
      /\ trail'[h] = Append(trail[h], [node |-> cur[h], edge |-> b, depth |-> depth[h]])
      /\ root' = root /\ res' = res /\ drops' = drops
  BY <1>1, <1>2 DEF Descend, TypeOK
<1>5. PICK nd \in VersionedNode : nd = DeleteChild(heap[p], b) /\ nd # None
                                   /\ \A e \in Byte : nd.kids[e] = IF e = b THEN None ELSE heap[p].kids[e]
  <2>1. PICK np \in VersionedNode : np = heap[p]
    BY <1>3
  <2>2. PICK any \in Node : TRUE
    BY <1>3
  <2>3. /\ DeleteChild(np, b) \in VersionedNode /\ DeleteChild(np, b) # None
        /\ \A e \in Byte : DeleteChild(np, b).kids[e] = IF e = b THEN None ELSE np.kids[e]
    BY <1>3, <2>2, ChildEdits
  <2>4. PICK nd : nd = DeleteChild(np, b)
    OBVIOUS
  <2>5. nd \in VersionedNode /\ nd # None
        /\ \A e \in Byte : nd.kids[e] = IF e = b THEN None ELSE np.kids[e]
    BY <2>3, <2>4
  <2> QED BY <2>1, <2>4, <2>5
<1>6. Alive' = Alive /\ heap'[p] = nd /\ \A m \in Alive : m # p => heap'[m] = heap[m]
  BY <1>1, <1>3, <1>4, <1>5 DEF TypeOK, Alive
<1>7. \A e \in Byte : heap'[p].kids[e] # p
  <2>1. \A e \in Byte : heap[p].kids[e] # p
    BY <1>3 DEF HeldByParent
  <2>2. p # None
    BY <1>3
  <2> QED BY <1>5, <1>6, <2>1, <2>2
<1>8. \A n \in Alive' : n \in InHand(h) => n \in InHand(h)'
  <2>1. TrailNodes(h) \cup {cur[h]} \subseteq TrailNodes(h)'
    BY <1>1, <1>3, <1>4, PushedAll
  <2> QED BY <1>1, <1>3, <1>4, <2>1 DEF InHand
<1>9. \A n \in Alive' : n \in InHand(h) \/ root[h] = n => Held(n)'
  BY <1>3, <1>6, <1>8, HeldInHand
<1>10. ASSUME NEW e \in Byte, NEW n \in Alive', heap[p].kids[e] = n
       PROVE  Held(n)'
  <2>1. CASE e = b
    <3>1. n \in InHand(h)'
      BY <1>2, <1>3, <1>4, <1>10, <2>1 DEF InHand
    <3> QED BY <3>1, HeldInHand
  <2>2. CASE e # b
    <3>1. heap'[p].kids[e] = n /\ p \in Alive'
      BY <1>3, <1>5, <1>6, <1>10, <2>2
    <3> QED BY <3>1, HeldAsChild
  <2> QED BY <2>1, <2>2
<1> QED BY <1>1, <1>3, <1>6, <1>7, <1>9, <1>10, EditLeak

\* A value is replaced or taken; a node that this empties has no children.
LEMMA ValueLeak ==
  ASSUME IInv, LeakInv, NEW h \in Handle, ReplaceValue(h) \/ TakeValue(h)
  PROVE  NoOrphans' /\ Acyclic'
<1> USE DEF handleVars, callVars, walkVars
<1>1. TypeOK /\ pc[h] = "edit" /\ drops[h] = {} /\ LocalFrame(h)
  BY ValueConduct DEF ReplaceValue, TakeValue, Unwrapped, Running, IInv, Conduct
<1>2. PICK p : p = cur[h]
  OBVIOUS
<1>3. /\ p \in Alive /\ p \in Node /\ None \notin Alive /\ heap[p] \in VersionedNode
      /\ ~HeldByParent(p) /\ res[h] = None
  BY <1>1, <1>2, AtHand, AtNode DEF HeldElsewhere
<1>4. /\ root' = root /\ trail' = trail /\ drops' = drops /\ TrailNodes(h)' = TrailNodes(h)
      /\ \A m \in Node : m # p => heap'[m] = heap[m]
      /\ \/ heap'[p] # None /\ heap'[p].kids = heap[p].kids /\ res'[h] = p
         \/ heap'[p] = None /\ heap[p].kids = NoKids
  <2>1. CASE ReplaceValue(h)
    <3>1. PICK v \in Val : heap' = [heap EXCEPT ![p].value = v]
      <4>1. Step(h).val \in Val
        BY <1>1, WasInTree DEF InTree
      <4> QED BY <1>2, <2>1, <4>1, ValAssumption DEF ReplaceValue
    <3>2. [heap[p] EXCEPT !.value = v] \in VersionedNode
      BY <1>3 DEF VersionedNode
    <3>3. heap'[p] = [heap[p] EXCEPT !.value = v] /\ \A m \in Node : m # p => heap'[m] = heap[m]
      BY <1>1, <1>3, <3>1 DEF TypeOK
    <3>4. heap'[p] # None /\ heap'[p].kids = heap[p].kids
      BY <1>3, <3>2, <3>3, NoneAssumption DEF VersionedNode
    <3> QED BY <1>1, <1>2, <2>1, <3>3, <3>4 DEF ReplaceValue, ReturnNode, TypeOK, TrailNodes
  <2>2. CASE TakeValue(h)
    <3>1. PICK x : x = IF heap[p].kids = NoKids THEN None ELSE [heap[p] EXCEPT !.value = None]
      OBVIOUS
    <3>2. heap' = [heap EXCEPT ![p] = x]
      BY <1>2, <2>2, <3>1 DEF TakeValue
    <3>3. heap'[p] = x /\ \A m \in Node : m # p => heap'[m] = heap[m]
      BY <1>1, <1>3, <3>2 DEF TypeOK
    <3>4. [heap[p] EXCEPT !.value = None] \in VersionedNode
          /\ [heap[p] EXCEPT !.value = None].kids = heap[p].kids
      BY <1>3 DEF VersionedNode
    <3>5. res'[h] = IF heap[p].kids = NoKids THEN None ELSE p
      BY <1>1, <1>2, <2>2 DEF TakeValue, ReturnNode, TypeOK
    <3> QED BY <2>2, <3>1, <3>3, <3>4, <3>5, NoneAssumption DEF TakeValue, TrailNodes
  <2> QED BY <2>1, <2>2
<1>5. /\ \A m \in Alive : m # p => m \in Alive' /\ heap'[m].kids = heap[m].kids
      /\ \A m \in Alive' : m \in Alive
  BY <1>3, <1>4 DEF Alive
<1>6. \A b \in Byte : heap[p].kids[b] # p
  BY <1>3 DEF HeldByParent
<1>7. p \in Alive' => heap'[p].kids = heap[p].kids /\ res'[h] = p
  BY <1>4 DEF Alive
<1>8. p \in Alive' => \A b \in Byte : heap'[p].kids[b] # p
  BY <1>6, <1>7
<1>9. \A n \in Alive' : n \in InHand(h) \/ root[h] = n => Held(n)'
  <2>1. \A n \in Alive' : n \in InHand(h) => n \in InHand(h)'
    BY <1>1, <1>2, <1>3, <1>4, <1>7 DEF InHand
  <2> QED BY <1>4, <2>1, HeldInHand
<1>10. ASSUME NEW b \in Byte, NEW n \in Alive', heap[p].kids[b] = n
       PROVE  Held(n)'
  <2>1. heap[p].kids # NoKids
    BY <1>3, <1>5, <1>10 DEF NoKids
  <2>2. p \in Alive' /\ heap'[p].kids[b] = n
    BY <1>3, <1>4, <1>10, <2>1 DEF Alive
  <2> QED BY <2>2, HeldAsChild
<1> QED BY <1>1, <1>3, <1>5, <1>8, <1>9, <1>10, EditLeak

\* The write through get_mut's reference.
LEMMA WriteThroughLeak ==
  ASSUME IInv, LeakInv, NEW h \in Handle, WriteThrough(h)
  PROVE  NoOrphans' /\ Acyclic'
<1> USE DEF handleVars, callVars, walkVars
<1>1. TypeOK /\ LocalFrame(h) /\ \A n \in Alive : SameRoute(n)
  BY WriteThroughConduct DEF IInv, Conduct
<1>2. root' = root /\ cur' = cur /\ res' = res /\ trail' = trail /\ drops' = drops
  BY DEF WriteThrough
<1>3. InHand(h)' = InHand(h)
  BY <1>2 DEF InHand, TrailNodes
<1>4. \A m \in Alive : m \in Alive' /\ heap'[m].kids = heap[m].kids
  BY <1>1 DEF SameRoute, Alive
<1>5. \A m \in Alive' : m \in Alive
  <2>1. PICK n \in Found(root[h], Step(h).key) : heap' = [heap EXCEPT ![n].value = Step(h).val]
    BY DEF WriteThrough
  <2>2. n \in Alive
    BY DEF Found
  <2> QED BY <1>1, <2>1, <2>2 DEF Alive, TypeOK
<1>6. Alive' = Alive
  BY <1>4, <1>5
<1> QED BY <1>1, <1>2, <1>3, <1>4, <1>6, SameLinksLeak

\* A released node lives on with who else holds it, or leaves its children to
\* the thread.
LEMMA ReleaseLeak ==
  ASSUME IInv, LeakInv, NEW h \in Handle, Release(h)
  PROVE  NoOrphans' /\ Acyclic'
<1> USE DEF handleVars, callVars, walkVars
<1>1. TypeOK /\ LocalFrame(h) /\ None \notin Alive /\ drops[h] \subseteq Alive
  BY ReleaseConduct, AliveTyped DEF IInv, Conduct, ThreadInv, HoldsAlive
<1>2. PICK p \in drops[h] :
        IF LastReference(h, p)
        THEN heap' = [heap EXCEPT ![p] = None]
             /\ drops' = [drops EXCEPT ![h] = (@ \ {p}) \cup Children(heap[p])]
        ELSE drops' = [drops EXCEPT ![h] = @ \ {p}] /\ heap' = heap
  BY DEF Release
<1>3. p \in Alive /\ p \in Node /\ heap[p] \in VersionedNode
  BY <1>1, AliveTyped
<1>4. /\ root' = root /\ trail' = trail /\ cur' = cur /\ res' = res
      /\ TrailNodes(h)' = TrailNodes(h) /\ drops[h] \ {p} \subseteq drops'[h]
  BY <1>1, <1>2 DEF Release, TypeOK, TrailNodes
<1>5. \A n : n # p /\ n \in InHand(h) => n \in InHand(h)'
  BY <1>4 DEF InHand
<1>6. CASE LastReference(h, p)
  <2>1. /\ heap' = [heap EXCEPT ![p] = None] /\ Children(heap[p]) \subseteq drops'[h]
        /\ ~HeldByParent(p)
    BY <1>1, <1>2, <1>6 DEF TypeOK, LastReference, HeldElsewhere
  <2>2. /\ \A m \in Alive : m # p => m \in Alive' /\ heap'[m] = heap[m]
        /\ \A m \in Alive' : m \in Alive /\ m # p
    BY <1>1, <1>3, <2>1 DEF TypeOK, Alive
  <2>3. \A n \in Alive' : n \in InHand(h) \/ root[h] = n => Held(n)'
    BY <1>4, <1>5, <2>2, HeldInHand
  <2>4. ASSUME NEW b \in Byte, NEW n \in Alive', heap[p].kids[b] = n
        PROVE  Held(n)'
    <3>1. n # None
      BY <1>1, <2>2
    <3>2. n \in Children(heap[p])
      BY <2>4, <3>1 DEF Children
    <3>3. n \in InHand(h)'
      BY <2>1, <3>1, <3>2 DEF InHand
    <3> QED BY <3>3, HeldInHand
  <2> QED BY <1>1, <1>3, <2>1, <2>2, <2>3, <2>4, EditLeak
<1>7. CASE ~LastReference(h, p)
  <2>1. heap' = heap /\ Alive' = Alive
    BY <1>2, <1>7 DEF Alive
  <2>2. ASSUME NEW m \in Alive, NEW b \in Byte, NEW n \in Alive', heap[m].kids[b] = n
        PROVE  Held(n)'
    BY <2>1, <2>2, HeldAsChild
  <2>3. Held(p)'
    <3>1. CASE p \in {cur[h], res[h]} \cup TrailNodes(h)
      <4>1. p \in InHand(h)'
        BY <1>1, <1>3, <1>4, <3>1 DEF InHand
      <4> QED BY <4>1, HeldInHand
    <3>2. CASE HeldByRoot(p) \/ HeldByParent(p)
      BY <1>4, <2>2, <2>1, <1>3, <3>2 DEF Held, Attached, HeldByRoot, HeldByParent
    <3>3. CASE \E g \in Handle \ {h} : p \in InHand(g)
      <4>1. PICK g \in Handle \ {h} : p \in InHand(g)
        BY <3>3
      <4>2. InHand(g)' = InHand(g)
        BY <1>1 DEF LocalFrame, SameLocals, InHand, TrailNodes
      <4> QED BY <4>1, <4>2, HeldInHand
    <3> QED BY <1>7, <3>1, <3>2, <3>3 DEF LastReference, HeldElsewhere
  <2>4. \A n \in Alive' : n \in InHand(h) \/ root[h] = n => Held(n)'
    <3> SUFFICES ASSUME NEW n \in Alive', n \in InHand(h) \/ root[h] = n PROVE Held(n)'
      OBVIOUS
    <3>1. CASE n = p
      BY <2>3, <3>1
    <3>2. CASE n # p
      BY <1>4, <1>5, <3>2, HeldInHand
    <3> QED BY <3>1, <3>2
  <2>5. NoOrphans'
    BY <1>1, <2>1, <2>2, <2>4, HeldStep DEF LeakInv
  <2>6. Acyclic'
    <3> SUFFICES ASSUME NEW S \in SUBSET (Alive'), S # {}
                 PROVE  \E n \in S : \A m \in S : \A b \in Byte : heap'[m].kids[b] # n
      BY DEF Acyclic
    <3>1. PICK n \in S : \A m \in S : \A b \in Byte : heap[m].kids[b] # n
      BY <2>1 DEF LeakInv, Acyclic
    <3> QED BY <2>1, <3>1
  <2> QED BY <2>5, <2>6
<1> QED BY <1>6, <1>7

\* A new leaf becomes the root of an empty tree.
LEMMA StartEmptyLeak ==
  ASSUME IInv, LeakInv, NEW h \in Handle, StartEmpty(h)
  PROVE  NoOrphans' /\ Acyclic'
<1> USE DEF handleVars, callVars, walkVars
<1>1. TypeOK /\ LocalFrame(h) /\ None \notin Alive /\ root[h] = None
  BY LeafConduct, AliveTyped DEF IInv, Conduct, StartEmpty
<1>2. cur' = cur /\ res' = res /\ trail' = trail /\ drops' = drops /\ InHand(h)' = InHand(h)
  BY DEF StartEmpty, InHand, TrailNodes
<1>3. CASE heap' = heap /\ root' = root
  <2>1. Alive' = Alive
    BY <1>3 DEF Alive
  <2> QED BY <1>1, <1>2, <1>3, <2>1, SameLinksLeak
<1>4. CASE ~(heap' = heap /\ root' = root)
  <2>1. PICK c, x : c = New1(h) /\ x = NewLeaf(Step(h).key, Step(h).val, version[h] + 1)
    OBVIOUS
  <2>2. heap' = [heap EXCEPT ![c] = x] /\ root'[h] = c /\ Free(h) # {}
    BY <1>1, <1>4, <2>1 DEF StartEmpty, TypeOK
  <2>3. c \in Node /\ c \notin Alive /\ x.kids = NoKids
    BY <1>1, <2>1, <2>2, FreshNames DEF NewLeaf
  <2>4. /\ \A m \in Alive : m \in Alive' /\ heap'[m].kids = heap[m].kids
        /\ \A m \in Alive' : m = c \/ m \in Alive
        /\ heap'[c] = x
    BY <1>1, <2>2, <2>3 DEF Alive, TypeOK
  <2>5. ~HeldByParent(c) /\ c # None
    BY <2>3, FreshUnheld, NoneAssumption
  <2>6. \A b \in Byte : heap'[c].kids[b] # c
    BY <2>3, <2>4, <2>5 DEF NoKids
  <2>7. \A n \in Alive' : n \notin Alive => Held(n)'
    BY <2>2, <2>4, HeldInHand
  <2>8. \A n \in Alive' : n \in InHand(h) \/ root[h] = n => Held(n)'
    <3>1. \A n \in Alive' : n # None
      BY NoneAssumption DEF Alive
    <3> QED BY <1>1, <1>2, <3>1, HeldInHand
  <2> QED BY <1>1, <2>3, <2>4, <2>5, <2>6, <2>7, <2>8, EditLeak
<1> QED BY <1>3, <1>4

\* A new leaf goes where the node has no child.
LEMMA AddLeafLeak ==
  ASSUME IInv, ShapeInv, LeakInv, NEW h \in Handle, AddLeaf(h)
  PROVE  NoOrphans' /\ Acyclic'
<1> USE DEF handleVars, callVars, walkVars
<1>1. /\ TypeOK /\ LocalFrame(h) /\ pc[h] = "edit" /\ drops[h] = {} /\ Free(h) # {}
      /\ PlaceOf(h) \in {"below", "missing"}
  BY LeafConduct DEF IInv, Conduct, AddLeaf, Unwrapped, Running
<1>2. PICK p, b, c : p = cur[h] /\ b = EdgeOf(heap[p], Step(h).key, depth[h]) /\ c = New1(h)
  OBVIOUS
<1>3. /\ p \in Alive /\ p \in Node /\ heap[p] \in VersionedNode /\ b \in Byte
      /\ ~HeldByParent(p) /\ root[h] = None /\ None \notin Alive /\ res[h] = None
      /\ c \in Node /\ c \notin Alive /\ c # p
  BY <1>1, <1>2, AtHand, AtNode, FreshNames DEF HeldElsewhere
<1>4. PICK x, y : /\ x = NewLeaf(Rest(Step(h).key, depth[h] + Len(heap[p].prefix)), Step(h).val, Target(h))
                  /\ y = AddChild(heap[p], b, c)
  OBVIOUS
<1>5. x.kids = NoKids /\ y # None
      /\ \A e \in Byte : y.kids[e] = IF e = b THEN c ELSE heap[p].kids[e]
  <2>1. PICK np \in VersionedNode : np = heap[p]
    BY <1>3
  <2>2. /\ AddChild(np, b, c) # None
        /\ \A e \in Byte : AddChild(np, b, c).kids[e] = IF e = b THEN c ELSE np.kids[e]
    <3>1. b \in Byte /\ c \in Node
      BY <1>3
    <3> QED BY <3>1, ChildEdits
  <2>3. x.kids = NoKids
    BY <1>4 DEF NewLeaf
  <2> QED BY <1>4, <2>1, <2>2, <2>3
<1>6. heap' = [heap EXCEPT ![c] = x, ![p] = y]
  <2>1. [heap EXCEPT ![c] = x][p] = heap[p]
    BY <1>1, <1>3 DEF TypeOK
  <2> QED BY <1>2, <1>4, <2>1 DEF AddLeaf
<1>7. /\ \A m \in Alive : m # p => m \in Alive' /\ heap'[m] = heap[m]
      /\ \A m \in Alive' : m = c \/ m \in Alive
      /\ heap'[c] = x /\ heap'[p] = y /\ p \in Alive'
  BY <1>1, <1>3, <1>5, <1>6 DEF Alive, TypeOK
<1>8. /\ root' = root /\ trail' = trail /\ drops' = drops /\ TrailNodes(h)' = TrailNodes(h)
      /\ cur'[h] = None /\ res'[h] = p
  BY <1>1, <1>2 DEF AddLeaf, ReturnNode, TypeOK, TrailNodes
<1>9. heap[p].kids[b] = None
  <2>1. Place(heap[p], Step(h).key, depth[h]) \in {"below", "missing"}
    BY <1>1, <1>2 DEF PlaceOf
  <2>2. heap[p].leaf \/ heap[p].kids[b] = None
    BY <1>2, <2>1 DEF Place
  <2> QED BY <1>3, <2>2 DEF ShapeInv, EdgesRight
<1>10. \A e \in Byte : heap'[p].kids[e] # p
  <2>1. \A e \in Byte : heap[p].kids[e] # p
    BY <1>3 DEF HeldByParent
  <2> QED BY <1>3, <1>5, <1>7, <2>1
<1>11. \A n \in Alive' : n \notin Alive => Held(n)'
  BY <1>3, <1>5, <1>7, HeldAsChild
<1>12. \A n \in Alive' : n \in InHand(h) \/ root[h] = n => Held(n)'
  <2>1. \A n \in Alive' : n # None
    BY NoneAssumption DEF Alive
  <2>2. \A n \in Alive' : n \in InHand(h) => n \in InHand(h)'
    BY <1>2, <1>3, <1>8, <2>1 DEF InHand
  <2> QED BY <1>3, <2>1, <2>2, HeldInHand
<1>13. ASSUME NEW e \in Byte, NEW n \in Alive', heap[p].kids[e] = n
       PROVE  Held(n)'
  <2>1. n # None
    BY NoneAssumption DEF Alive
  <2>2. heap'[p].kids[e] = n
    BY <1>5, <1>7, <1>9, <1>13, <2>1
  <2> QED BY <1>7, <2>2, HeldAsChild
<1>14. \A m \in Alive' : m \notin Alive /\ m # p => heap'[m].kids = NoKids
  BY <1>5, <1>7
<1> QED BY <1>1, <1>3, <1>7, <1>10, <1>11, <1>12, <1>13, <1>14, EditLeak

\* A node gets a child back and is returned, or is freed without children.
LEMMA SettleLeak ==
  ASSUME IInv, LeakInv, NEW h \in Handle, LocalFrame(h), root' = root, root[h] = None,
         NEW p \in Alive, NEW nd, nd # None, Settle(h, p, nd),
         ~HeldByParent(p), p # res[h],
         \A b \in Byte : nd.kids[b] \in {None, heap[p].kids[b], res[h]},
         res[h] # None => \E b \in Byte : nd.kids[b] = res[h],
         \A n \in Alive : n \in InHand(h) =>
           n = p \/ n = res[h] \/ n \in drops'[h] \/ n \in TrailNodes(h)',
         \A b \in Byte : \A n \in Alive : heap[p].kids[b] = n =>
           nd.kids[b] = n \/ n \in drops'[h]
  PROVE  NoOrphans' /\ Acyclic'
<1>1. TypeOK /\ None \notin Alive /\ p \in Node
  BY AliveTyped DEF IInv
<1>2. PICK gone \in BOOLEAN : gone <=> (nd.kids = NoKids /\ nd.value = None)
  OBVIOUS
<1>3. heap' = [heap EXCEPT ![p] = IF gone THEN None ELSE nd]
      /\ res' = [res EXCEPT ![h] = IF gone THEN None ELSE p]
  BY <1>2 DEF Settle
<1>4. /\ \A m \in Alive : m # p => m \in Alive' /\ heap'[m] = heap[m]
      /\ \A m \in Alive' : m \in Alive
      /\ p \in Alive' <=> ~gone
      /\ ~gone => heap'[p] = nd /\ res'[h] = p
  BY <1>1, <1>3 DEF TypeOK, Alive
<1>5. gone => \A b \in Byte : nd.kids[b] = None
  BY <1>2 DEF NoKids
<1>6. ASSUME NEW b \in Byte, NEW n \in Alive', nd.kids[b] = n
      PROVE  Held(n)'
  <2>1. n # None
    BY <1>1, <1>4
  <2>2. p \in Alive' /\ heap'[p].kids[b] = n
    BY <1>4, <1>5, <1>6, <2>1
  <2> QED BY <2>2, HeldAsChild
<1>7. \A n \in Alive' : n \in TrailNodes(h)' \/ n \in drops'[h] => Held(n)'
  <2>1. \A n \in Alive' : n # None
    BY <1>1, <1>4
  <2>2. \A n \in Alive' : n \in TrailNodes(h)' \/ n \in drops'[h] => n \in InHand(h)'
    BY <2>1 DEF InHand
  <2> QED BY <2>2, HeldInHand
<1>8. ASSUME NEW n \in Alive', n \in InHand(h) \/ root[h] = n
      PROVE  Held(n)'
  <2>1. n \in Alive /\ n # None
    BY <1>1, <1>4
  <2>2. CASE n = p
    <3>1. n \in InHand(h)'
      BY <1>4, <2>1, <2>2 DEF InHand
    <3> QED BY <3>1, HeldInHand
  <2>3. CASE n = res[h]
    BY <1>6, <2>1, <2>3
  <2>4. CASE n # p /\ n # res[h]
    BY <1>7, <1>8, <2>1, <2>4
  <2> QED BY <2>2, <2>3, <2>4
<1>9. ASSUME NEW b \in Byte, NEW n \in Alive', heap[p].kids[b] = n
      PROVE  Held(n)'
  <2>1. n \in Alive
    BY <1>4
  <2> QED BY <1>6, <1>7, <1>9, <2>1
<1>10. p \in Alive' => \A b \in Byte : heap'[p].kids[b] # p
  <2>1. \A b \in Byte : heap[p].kids[b] # p
    BY DEF HeldByParent
  <2>2. \A b \in Byte : nd.kids[b] # p
    BY <1>1, <2>1
  <2> QED BY <1>4, <2>2
<1> QED BY <1>1, <1>4, <1>8, <1>9, <1>10, EditLeak

\* insert, remove and get_mut put the child back where it was taken from.
LEMMA ReattachLeak ==
  ASSUME IInv, LeakInv, NEW h \in Handle, ThreadRoute(h), Reattach(h)
  PROVE  NoOrphans' /\ Acyclic'
<1> USE DEF handleVars, callVars, walkVars
<1>1. /\ TypeOK /\ LocalFrame(h) /\ pc[h] = "up" /\ pc[h] \in InTree /\ TopDown(h)
      /\ drops[h] = {} /\ trail[h] # <<>> /\ root' = root
  BY SettleConduct DEF Reattach, Running, InTree, IInv, Conduct
<1>2. PICK f, p, e, nd : /\ f = Last(trail[h]) /\ p = f.node /\ e = f.edge
                         /\ nd = IF res[h] = None THEN heap[p] ELSE AddChild(heap[p], e, res[h])
  OBVIOUS
<1>3. trail'[h] = Front(trail[h]) /\ Settle(h, p, nd)
  BY <1>1, <1>2 DEF Reattach, Resume, TypeOK
<1>4. /\ f = trail[h][Len(trail[h])] /\ Len(trail[h]) \in Frames(h) /\ e \in Byte
  BY <1>1, <1>2, <1>3, Popped
<1>5. /\ AloneOnTrail(h, Len(trail[h])) /\ p \in Alive /\ None \notin Alive /\ root[h] = None
      /\ cur[h] = None /\ (res[h] # None => res[h] \in Alive)
  BY <1>1, <1>2, <1>4, WasInTree DEF ThreadInv, TrailExclusive, PhaseOf
<1>6. heap[p] \in VersionedNode /\ p \in Node /\ ~HeldByParent(p) /\ p # res[h]
  BY <1>1, <1>2, <1>4, <1>5, AliveTyped DEF AloneOnTrail, HeldElsewhere
<1>7. heap[p].kids[e] = None
  BY <1>1, <1>2, <1>4 DEF ThreadRoute, LinkBelow
<1>8. nd # None /\ \A b \in Byte : nd.kids[b] = IF b = e /\ res[h] # None THEN res[h] ELSE heap[p].kids[b]
  <2>1. CASE res[h] = None
    BY <1>2, <1>6, <2>1, NoneAssumption
  <2>2. CASE res[h] # None
    <3>1. PICK np \in VersionedNode : np = heap[p]
      BY <1>6
    <3>2. PICK r \in Node : r = res[h]
      BY <1>1, <1>5, <2>2, AliveTyped
    <3>3. AddChild(np, e, r) # None
          /\ \A b \in Byte : AddChild(np, e, r).kids[b] = IF b = e THEN r ELSE np.kids[b]
      BY <1>4, ChildEdits
    <3> QED BY <1>2, <2>2, <3>1, <3>2, <3>3
  <2> QED BY <2>1, <2>2
<1>9. \A n \in Alive : n \in InHand(h) => n = p \/ n = res[h] \/ n \in TrailNodes(h)'
  <2>1. TrailNodes(h) \subseteq TrailNodes(h)' \cup {p}
    BY <1>1, <1>2, <1>3, PoppedAll
  <2> QED BY <1>1, <1>5, <2>1 DEF InHand
<1>10. \A b \in Byte : \A n \in Alive : heap[p].kids[b] = n => nd.kids[b] = n
  BY <1>5, <1>7, <1>8
<1>11. \A b \in Byte : nd.kids[b] \in {None, heap[p].kids[b], res[h]}
  BY <1>8
<1>12. res[h] # None => \E b \in Byte : nd.kids[b] = res[h]
  BY <1>4, <1>8
<1> QED BY <1>1, <1>3, <1>5, <1>6, <1>8, <1>9, <1>10, <1>11, <1>12, SettleLeak

\* update lets go of the old child when it puts the new one in its place.
LEMMA SwapChildLeak ==
  ASSUME IInv, LeakInv, NEW h \in Handle, SwapChild(h)
  PROVE  NoOrphans' /\ Acyclic'
<1> USE DEF handleVars, callVars, walkVars
<1>1. /\ TypeOK /\ LocalFrame(h) /\ pc[h] = "fix" /\ pc[h] \in InTree
      /\ drops[h] = {} /\ root' = root
  BY SettleConduct DEF SwapChild, Unwrapped, Running, InTree, IInv, Conduct
<1>2. PICK p, e, base, nd : /\ p = cur[h] /\ e = edge[h] /\ base = DeleteChild(heap[p], e)
                            /\ nd = IF res[h] = None THEN base ELSE AddChild(base, e, res[h])
  OBVIOUS
<1>3. /\ Settle(h, p, nd) /\ drops'[h] = {heap[p].kids[e]} \ {None}
      /\ TrailNodes(h)' = TrailNodes(h)
  BY <1>1, <1>2 DEF SwapChild, TypeOK, TrailNodes
<1>4. /\ p \in Alive /\ p \in Node /\ heap[p] \in VersionedNode /\ ~HeldByParent(p) /\ p # res[h]
      /\ None \notin Alive /\ root[h] = None
  BY <1>1, <1>2, AtHand DEF HeldElsewhere
<1>5. e \in Byte /\ (res[h] # None => res[h] \in Alive)
  BY <1>1, <1>2, WasInTree DEF ThreadInv, PhaseOf
<1>6. base \in VersionedNode /\ base # None
      /\ \A b \in Byte : base.kids[b] = IF b = e THEN None ELSE heap[p].kids[b]
  <2>1. PICK np \in VersionedNode : np = heap[p]
    BY <1>4
  <2> QED BY <1>2, <1>4, <1>5, <2>1, ChildDeleted
<1>7. nd # None /\ \A b \in Byte : nd.kids[b] = IF b = e THEN res[h] ELSE heap[p].kids[b]
  <2>1. CASE res[h] = None
    BY <1>2, <1>6, <2>1
  <2>2. CASE res[h] # None
    <3>1. PICK r \in Node : r = res[h]
      BY <1>1, <1>5, <2>2, AliveTyped
    <3>2. AddChild(base, e, r) # None
          /\ \A b \in Byte : AddChild(base, e, r).kids[b] = IF b = e THEN r ELSE base.kids[b]
      BY <1>5, <1>6, ChildEdits
    <3> QED BY <1>2, <1>6, <2>2, <3>1, <3>2
  <2> QED BY <2>1, <2>2
<1>8. \A n \in Alive : n \in InHand(h) => n = p \/ n = res[h] \/ n \in TrailNodes(h)'
  BY <1>1, <1>2, <1>3 DEF InHand
<1>9. \A b \in Byte : \A n \in Alive : heap[p].kids[b] = n => nd.kids[b] = n \/ n \in drops'[h]
  BY <1>3, <1>4, <1>7
<1>10. \A b \in Byte : nd.kids[b] \in {None, heap[p].kids[b], res[h]}
  BY <1>7
<1>11. res[h] # None => \E b \in Byte : nd.kids[b] = res[h]
  BY <1>5, <1>7
<1> QED BY <1>1, <1>3, <1>4, <1>7, <1>8, <1>9, <1>10, <1>11, SettleLeak

\* A split puts the copy and the new leaf below the new node.
LEMMA SplitLeak ==
  ASSUME IInv, LeakInv, NEW h \in Handle, Split(h)
  PROVE  NoOrphans' /\ Acyclic'
<1> USE DEF handleVars, callVars, walkVars
<1>1. /\ TypeOK /\ LocalFrame(h) /\ pc[h] = "visit" /\ drops[h] = {} /\ None \notin Alive
      /\ root' = root /\ TrailNodes(h)' = TrailNodes(h)
  <2>1. Conduct(h) /\ TypeOK
    BY SplitConduct DEF IInv
  <2>2. Running(h, "visit") /\ UNCHANGED <<root, trail>>
    BY DEF Split, ReturnNode
  <2>3. None \notin Alive
    BY <2>1, AliveTyped
  <2>4. TrailNodes(h)' = TrailNodes(h)
    BY <2>2 DEF TrailNodes
  <2> QED BY <2>1, <2>2, <2>3, <2>4 DEF Running, Conduct
<1>2. PICK c1, c2, c3 \in Node, common \in Nat : IsSplit(h, c1, c2, c3, common)
  BY SplitMeans
<1>3. PICK n, ends, b2, b3 : /\ n = cur[h] /\ ends = (PlaceOf(h) = "inside")
                             /\ b2 = heap[n].prefix[common + 1]
                             /\ b3 = Step(h).key[depth[h] + common + 1]
  OBVIOUS
<1>4. n \in Alive /\ heap[n] \in VersionedNode /\ root[h] = None /\ res[h] = None
      /\ depth[h] \in Nat /\ depth[h] <= Len(Step(h).key) /\ Len(Step(h).key) \in Nat
  BY <1>1, <1>3, AtHand, AtNode, WasInTree DEF InTree
<1>5. /\ c1 # c2 /\ c1 # c3 /\ c2 # c3
      /\ c1 \notin Alive /\ c2 \notin Alive /\ c3 \notin Alive
      /\ c1 # None /\ c2 # None /\ c3 # None
      /\ res'[h] = c1 /\ drops'[h] = {n}
  BY <1>2, <1>3, NoneAssumption DEF IsSplit
<1>6. /\ \A m \in Alive : m \in Alive' /\ heap'[m] = heap[m]
      /\ \A m \in Alive' : m \in Alive \/ m = c1 \/ m = c2 \/ (m = c3 /\ ~ends)
      /\ c1 \in Alive' /\ c2 \in Alive' /\ heap'[c2].kids = heap[n].kids
      /\ ~ends => heap'[c3].kids = NoKids /\ b3 \in Byte
  BY <1>2, <1>3 DEF IsSplit
<1>7. \A b \in Byte : heap'[c1].kids[b] = IF ~ends /\ b = b3 THEN c3
                                         ELSE IF b = b2 THEN c2 ELSE None
  BY <1>2, <1>3 DEF IsSplit
<1>8. b2 \in Byte /\ (~ends => b2 # b3)
  <2>1. /\ common < Len(heap[n].prefix) /\ b2 \in Byte
        /\ MatchesFor(heap[n].prefix, Step(h).key, depth[h], common)
        /\ ends <=> depth[h] + common = Len(Step(h).key)
    BY <1>2, <1>3 DEF IsSplit
  <2>2. /\ depth[h] + common <= Len(Step(h).key)
        /\ depth[h] + common < Len(Step(h).key) => b2 # b3
    BY <1>3, <2>1 DEF MatchesFor
  <2> QED BY <1>4, <2>1, <2>2
<1>9. \A b \in Byte : heap[n].kids[b] # None => heap[n].kids[b] \in Alive
  BY <1>4 DEF IInv, HeapInv
<1>10. NoOrphans'
  <2>1. \A m \in Alive' : m \notin Alive => Held(m)'
    <3>1. Held(c1)'
      <4>1. c1 \in InHand(h)'
        BY <1>5 DEF InHand
      <4> QED BY <4>1, HeldInHand
    <3>2. Held(c2)'
      <4>1. heap'[c1].kids[b2] = c2
        BY <1>7, <1>8
      <4> QED BY <1>6, <1>8, <4>1, HeldAsChild
    <3>3. ~ends => Held(c3)'
      <4>1. ~ends => heap'[c1].kids[b3] = c3 /\ b3 \in Byte
        BY <1>6, <1>7
      <4> QED BY <1>6, <4>1, HeldAsChild
    <3> QED BY <1>6, <3>1, <3>2, <3>3
  <2>2. \A m \in Alive' : m \in InHand(h) \/ root[h] = m => Held(m)'
    <3>1. \A m \in Alive' : m # None
      BY NoneAssumption DEF Alive
    <3>2. \A m \in Alive' : m \in InHand(h) => m \in InHand(h)'
      BY <1>1, <1>3, <1>4, <1>5, <3>1 DEF InHand
    <3> QED BY <1>4, <3>1, <3>2, HeldInHand
  <2>3. ASSUME NEW m \in Alive, NEW b \in Byte, NEW k \in Alive', heap[m].kids[b] = k
        PROVE  Held(k)'
    BY <1>6, <2>3, HeldAsChild
  <2> QED BY <1>1, <2>1, <2>2, <2>3, HeldStep DEF LeakInv
<1>11. Acyclic'
  <2>1. PICK T : T = {c1, c2}
    OBVIOUS
  <2>2. \A m \in Alive' : \A b \in Byte : \A k \in Alive' : heap'[m].kids[b] = k =>
          k # c1 /\ (k = c2 => m = c1)
    <3> SUFFICES ASSUME NEW m \in Alive', NEW b \in Byte, NEW k \in Alive', heap'[m].kids[b] = k
                 PROVE  k # c1 /\ (k = c2 => m = c1)
      OBVIOUS
    <3>1. k # None
      BY NoneAssumption DEF Alive
    <3>2. CASE m \in Alive
      <4>1. heap[m].kids[b] \in Alive
        BY <1>6, <3>1, <3>2 DEF IInv, HeapInv
      <4> QED BY <1>5, <1>6, <3>2, <4>1
    <3>3. CASE m = c1
      BY <1>5, <1>7, <3>1, <3>3
    <3>4. CASE m = c2
      BY <1>5, <1>6, <1>9, <3>1, <3>4
    <3>5. CASE m = c3 /\ ~ends
      BY <1>6, <3>1, <3>5 DEF NoKids
    <3> QED BY <1>6, <3>2, <3>3, <3>4, <3>5
  <2>3. \A m \in Alive' : \A b \in Byte : \A k \in Alive' : heap'[m].kids[b] = k =>
          m \in T \/ (m \in Alive /\ k \in Alive /\ heap[m].kids[b] = k)
    <3> SUFFICES ASSUME NEW m \in Alive', NEW b \in Byte, NEW k \in Alive', heap'[m].kids[b] = k
                 PROVE  m \in T \/ (m \in Alive /\ k \in Alive /\ heap[m].kids[b] = k)
      OBVIOUS
    <3>1. k # None
      BY NoneAssumption DEF Alive
    <3>2. CASE m \in Alive
      BY <1>6, <3>1, <3>2 DEF IInv, HeapInv
    <3>3. CASE m = c3 /\ ~ends
      BY <1>6, <3>1, <3>3 DEF NoKids
    <3> QED BY <1>6, <2>1, <3>2, <3>3
  <2>4. ASSUME NEW S \in SUBSET (Alive'), S \cap T # {}
        PROVE  \E k \in S : \A m \in S : \A b \in Byte : heap'[m].kids[b] # k
    <3>1. CASE c1 \in S
      BY <2>2, <3>1
    <3>2. CASE c1 \notin S
      <4>1. c2 \in S
        BY <2>1, <2>4, <3>2
      <4> QED BY <2>2, <3>2, <4>1
    <3> QED BY <3>1, <3>2
  <2>5. Acyclic
    BY DEF LeakInv
  <2> QED BY <2>3, <2>4, <2>5, AcyclicStep
<1> QED BY <1>10, <1>11

-----------------------------------------------------------------------------
(* Every step *)

\* Every step keeps hold of what is allocated, and closes no cycle.
LEMMA NextLeak ==
  ASSUME IInv, ShapeInv, RouteInv, LeakInv, NEW h \in Handle, Advance(h) \/ Use(h)
  PROVE  LeakInv'
<1>1. DeadAtRest'
  BY DeadStep DEF LeakInv
<1>2. NoOrphans' /\ Acyclic'
  <2>1. CASE \/ New(h) \/ DropHandle(h) \/ Plan(h) \/ Start(h) \/ Return(h) \/ Install(h)
             \/ \E g \in Handle : Clone(g, h) \/ Snapshot(g, h)
             \/ \E c \in Calls : Invoke(h, c)
    BY <2>1, RestingLeak
  <2>2. CASE RemoveLeaf(h) \/ PathReady(h) \/ Decline(h) \/ CallbackPanic(h)
    BY <2>2, StayLeak
  <2>3. CASE Follow(h) \/ Backtrack(h) \/ Lift(h)
    BY <2>3, UpdateWalkLeak
  <2>4. CASE EnsureCowOwned(h) \/ EnsureCowShared(h)
    BY <2>4, EnsureCowLeak
  <2>5. CASE ReplaceValue(h) \/ TakeValue(h)
    BY <2>5, ValueLeak
  <2>6. CASE Release(h) \/ StartEmpty(h) \/ Descend(h) \/ SwapChild(h)
    BY <2>6, ReleaseLeak, StartEmptyLeak, DescendLeak, SwapChildLeak
  <2>7. CASE AddLeaf(h) \/ Split(h) \/ WriteThrough(h)
    BY <2>7, AddLeafLeak, SplitLeak, WriteThroughLeak
  <2>8. CASE Reattach(h)
    BY <2>8, ReattachLeak DEF RouteInv
  <2> QED BY <2>1, <2>2, <2>3, <2>4, <2>5, <2>6, <2>7, <2>8 DEF Advance, Use
<1> QED BY <1>1, <1>2 DEF LeakInv

\* Nobody lets go of anything while nobody moves.
LEMMA StutterLeak ==
  ASSUME LeakInv, UNCHANGED vars
  PROVE  LeakInv'
<1>1. /\ heap' = heap /\ live' = live /\ root' = root /\ pc' = pc /\ cur' = cur
      /\ trail' = trail /\ res' = res /\ drops' = drops
  BY DEF vars
<1>2. Alive' = Alive
  BY <1>1 DEF Alive
<1>3. DeadAtRest'
  BY <1>1 DEF LeakInv, DeadAtRest
<1>4. NoOrphans'
  <2>1. \A n : Held(n)' <=> Held(n)
    BY <1>1, <1>2 DEF Held, Attached, HeldByRoot, HeldByParent, InHand, TrailNodes
  <2> QED BY <1>2, <2>1 DEF LeakInv, NoOrphans
<1>5. Acyclic'
  <2> SUFFICES ASSUME NEW S \in SUBSET (Alive'), S # {}
               PROVE  \E n \in S : \A m \in S : \A b \in Byte : heap'[m].kids[b] # n
    BY DEF Acyclic
  <2>1. PICK n \in S : \A m \in S : \A b \in Byte : heap[m].kids[b] # n
    BY <1>2 DEF LeakInv, Acyclic
  <2> QED BY <1>1, <2>1
<1> QED BY <1>3, <1>4, <1>5 DEF LeakInv

\* Every allocated node is held by a root, a parent or a thread, and whatever
\* nodes one picks, one of them has its parent elsewhere.
THEOREM LeakInvariance == Spec => []LeakInv
<1>1. Init => LeakInv
  <2> SUFFICES ASSUME Init PROVE LeakInv
    OBVIOUS
  <2>1. Alive = {}
    BY DEF Init, Alive
  <2> QED BY <2>1 DEF Init, LeakInv, DeadAtRest, NoOrphans, Acyclic
<1>2. IInv /\ ShapeInv /\ RouteInv /\ LeakInv /\ [Next]_vars => LeakInv'
  <2>1. IInv /\ ShapeInv /\ RouteInv /\ LeakInv /\ Next => LeakInv'
    BY NextLeak DEF Next
  <2> QED BY <2>1, StutterLeak
<1> QED BY <1>1, <1>2, Invariance, ShapeInvariance, RouteInvariance, PTL DEF Spec

\* Once every handle is dropped and the drops have run, nothing is allocated:
\* the trees of a family of snapshots free every node they share.
THEOREM NoLeakHolds == Spec => []NoLeak
<1>1. IInv /\ LeakInv => NoLeak
  BY NothingForgotten
<1> QED BY <1>1, Invariance, LeakInvariance, PTL
=============================================================================
