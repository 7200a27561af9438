------------------------- MODULE VersionedInvariant -------------------------
(***************************************************************************)
(* The inductive invariant behind the safety of VersionedTree: who holds   *)
(* what while calls are under way, and how version stamps are ordered.     *)
(* TLC checks it; VersionedTreeProofs proves it and derives NoUnwrapPanic  *)
(* and StampsOrdered from it.  ShapeInv adds what keeps the trees radix    *)
(* trees while they are in pieces (VersionedShapeProofs).                  *)
(***************************************************************************)
EXTENDS VersionedTree

InTree == {"visit", "edit", "up", "lift", "fix"}

Frames(h) == 1..Len(trail[h])

\* Which of a thread's variables mean something in which phase.
PhaseOf(h) ==
  /\ pc[h] \in InTree \cup {"write"} => todo[h] # <<>>
  /\ pc[h] \in {"visit", "edit", "lift", "fix"} <=> cur[h] # None
  /\ pc[h] \notin {"up", "lift", "fix"} => res[h] = None
  /\ pc[h] \notin InTree => trail[h] = <<>>
  /\ pc[h] \in InTree => root[h] = None
  /\ pc[h] \in {"lift", "fix"} => ~TopDown(h) /\ edge[h] \in Byte /\ ret[h] = "true"
  /\ pc[h] \in {"visit", "edit"} => depth[h] <= Len(Step(h).key)
  /\ pc[h] = "up" /\ ~TopDown(h) =>
       ret[h] \in {"true", "false"} /\ (ret[h] = "false" => res[h] # None)
  /\ pc[h] = "plan" => call[h] # None

\* A thread never holds a freed node.
HoldsAlive(h) ==
  /\ root[h] # None => root[h] \in Alive
  /\ cur[h] # None => cur[h] \in Alive
  /\ res[h] # None => res[h] \in Alive
  /\ \A i \in Frames(h) : trail[h][i].node \in Alive
  /\ drops[h] \subseteq Alive

\* insert, remove and get_mut have the nodes above them to themselves.
AloneOnTrail(h, i) ==
  LET n == trail[h][i].node IN
  /\ ~HeldElsewhere(h, n)
  /\ n # cur[h] /\ n # res[h] /\ n \notin drops[h]
  /\ \A j \in Frames(h) : j # i => trail[h][j].node # n

TrailExclusive(h) ==
  pc[h] \in InTree /\ TopDown(h) => \A i \in Frames(h) : AloneOnTrail(h, i)

\* What ensure_cow_node returns is held by nobody else.
CurExclusive(h) == pc[h] \in {"edit", "fix"} => SoleCur(h)

\* The stamps of the nodes in a thread's hands, against its target version.
StampsOf(h) ==
  /\ root[h] # None => heap[root[h]].version <= version[h]
  /\ pc[h] \in {"visit", "lift"} => heap[cur[h]].version < Target(h)
  /\ pc[h] = "edit" =>
       /\ heap[cur[h]].version = Target(h)
       /\ \A b \in Byte : heap[cur[h]].kids[b] # None =>
            heap[heap[cur[h]].kids[b]].version < Target(h)
  /\ pc[h] = "fix" => heap[cur[h]].version = Target(h)
  /\ pc[h] \in {"up", "lift", "fix"} /\ res[h] # None =>
       /\ heap[res[h]].version <= Target(h)
       /\ ~TopDown(h) /\ ret[h] = "false" => heap[res[h]].version < Target(h)
  /\ pc[h] \in InTree => \A i \in Frames(h) :
       IF TopDown(h) THEN heap[trail[h][i].node].version = Target(h)
                     ELSE heap[trail[h][i].node].version < Target(h)

ThreadInv(h) ==
  /\ PhaseOf(h) /\ HoldsAlive(h)
  /\ TrailExclusive(h) /\ CurExclusive(h) /\ StampsOf(h)

\* A node's children are allocated and their stamps no later than its own.
HeapInv ==
  \A n \in Alive : \A b \in Byte : heap[n].kids[b] # None =>
    /\ heap[n].kids[b] \in Alive
    /\ heap[heap[n].kids[b]].version <= heap[n].version

\* All of it: an invariant that every step preserves by itself.
IInv == TypeOK /\ HeapInv /\ \A h \in Handle : ThreadInv(h)

-----------------------------------------------------------------------------
(* The shape of the trees, and of the pieces they are in *)

\* n may be a child under the edge b.
HangsOn(n, b) == heap[n].prefix # <<>> /\ heap[n].prefix[1] = b

EdgesRight ==
  \A n \in Alive : \A b \in Byte : heap[n].kids[b] # None =>
    ~heap[n].leaf /\ HangsOn(heap[n].kids[b], b)

Hollow(n) == heap[n].value = None /\ heap[n].kids = NoKids

\* insert, remove and get_mut have taken the only child out of n.
InPieces(h, n) == pc[h] \in InTree /\ TopDown(h) /\ n \in TrailNodes(h)

NoneHollow == \A n \in Alive : Hollow(n) => \E h \in Handle : InPieces(h, n)

\* n was found, or goes back, under the edge that the innermost frame names.
HangsBelow(h, n) == trail[h] # <<>> => HangsOn(n, trail[h][Len(trail[h])].edge)

ThreadShape(h) ==
  /\ \A i \in Frames(h) : i > 1 => HangsOn(trail[h][i].node, trail[h][i - 1].edge)
  /\ pc[h] \in {"visit", "edit", "lift", "fix"} => HangsBelow(h, cur[h])
  /\ pc[h] \in {"visit", "edit"} /\ trail[h] # <<>> =>
       /\ depth[h] < Len(Step(h).key)
       /\ Step(h).key[depth[h] + 1] = trail[h][Len(trail[h])].edge
  /\ pc[h] = "up" /\ res[h] # None => HangsBelow(h, res[h])
  /\ pc[h] \in {"lift", "fix"} /\ res[h] # None => HangsOn(res[h], edge[h])

ShapeInv == EdgesRight /\ NoneHollow /\ \A h \in Handle : ThreadShape(h)

-----------------------------------------------------------------------------
(* Where the activations stand on the key *)

\* The depth of the child that hangs off the i-th activation.
DepthBelow(h, i) ==
  IF i = 0 THEN 0 ELSE trail[h][i].depth + Len(heap[trail[h][i].node].prefix)

\* The key k goes through the node of the activation f and down its edge.
OnKey(f, k) ==
  LET p == heap[f.node].prefix IN
  /\ f.depth + Len(p) < Len(k)
  /\ \A i \in 1..Len(p) : p[i] = k[f.depth + i]
  /\ k[f.depth + Len(p) + 1] = f.edge

\* What the activations took out of the parent is gone from it; what update
\* left there is what it went on to, or returns unchanged.
LinkBelow(h, i) ==
  LET f == trail[h][i]
      c == heap[f.node].kids[f.edge]
  IN  IF TopDown(h) THEN c = None
      ELSE /\ i < Len(trail[h]) => c = trail[h][i + 1].node
           /\ i = Len(trail[h]) /\ pc[h] = "visit" => c = cur[h]
           /\ i = Len(trail[h]) /\ pc[h] = "up" /\ ret[h] = "false" => c = res[h]

\* The activation of update that has resumed, as the frame it was.
Resumed(h) == [node |-> cur[h], edge |-> edge[h], depth |-> depth[h]]

ThreadRoute(h) ==
  pc[h] \in InTree =>
    /\ \A i \in Frames(h) :
         /\ OnKey(trail[h][i], Step(h).key)
         /\ trail[h][i].depth = DepthBelow(h, i - 1)
         /\ LinkBelow(h, i)
    /\ depth[h] = DepthBelow(h, Len(trail[h]))
    /\ pc[h] \in {"lift", "fix"} => OnKey(Resumed(h), Step(h).key)

\* Every node on the path for k from r is held by the node above it alone, and
\* r by the thread of h alone.
PathAlone(h, r, k) ==
  LET path == {w.node : w \in Path(r, k)} IN
  /\ \A n \in path :
       /\ \A g \in Handle : root[g] # n
       /\ \A g \in Handle \ {h} : n \notin InHand(g)
       /\ n \notin TrailNodes(h)
       /\ n # r => \A l, m \in Links(n) : l = m
  /\ Links(r) = {}

\* get_mut, from the copies it makes up to the write.
ThreadBorrow(h) ==
  /\ pc[h] = "write" => Step(h).op = "get_mut"
  /\ pc[h] \in {"edit", "up", "write"} /\ Step(h).op = "get_mut" =>
       /\ pc[h] = "edit" => PlaceOf(h) \in {"at", "child"}
       /\ pc[h] = "up" =>
            /\ drops[h] = {} /\ res[h] # None
            /\ PathAlone(h, res[h], Rest(Step(h).key, depth[h]))
       /\ pc[h] = "write" =>
            /\ drops[h] = {} /\ root[h] # None
            /\ PathUnshared(h, Step(h).key)

RouteInv == \A h \in Handle : ThreadRoute(h)

BorrowInv == \A h \in Handle : ThreadBorrow(h)

PathInv == RouteInv /\ BorrowInv

-----------------------------------------------------------------------------
(* What keeps allocated nodes within reach of a release *)

Held(n) == Attached(n) \/ \E h \in Handle : n \in InHand(h)

\* A handle that does not exist holds nothing but what it is letting go of.
DeadAtRest == \A h \in Handle \ live : pc[h] = "idle" /\ root[h] = None

NoOrphans == \A n \in Alive : Held(n)

\* Any nodes have one among them that none of them points to.
Acyclic ==
  \A S \in SUBSET Alive : S # {} =>
    \E n \in S : \A m \in S : \A b \in Byte : heap[m].kids[b] # n

LeakInv == DeadAtRest /\ NoOrphans /\ Acyclic
=============================================================================
