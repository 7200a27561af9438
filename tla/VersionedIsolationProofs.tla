---------------------- MODULE VersionedIsolationProofs ----------------------
(***************************************************************************)
(* VersionedTree implements SnapshotMaps, for every value of the constants *)
(* (Isolation).  MapInv is the invariant: every handle stands for a map,   *)
(* even while a call has its tree in pieces, and the call is on the way    *)
(* from the map its owner saw to the one the operation says.               *)
(* VersionedMapProofs shows what each step of a call does to that map;     *)
(* here are the last steps of get_mut, what a step means to the other      *)
(* handles, how a call's operations lead to what it promises, and the      *)
(* refinement itself.                                                      *)
(***************************************************************************)
EXTENDS VersionedMapProofs

-----------------------------------------------------------------------------
(* The one node that get_mut writes to *)

\* Every stop but the first is where the walk went on from another.
LEMMA CameFrom ==
  ASSUME TreeHeap, NEW r \in Alive, NEW k \in Seq(Byte), NEW w \in Path(r, k)
  PROVE  \/ w = [node |-> r, depth |-> 0]
         \/ \E u \in Path(r, k) : GoesOn(u, k) /\ w = Onward(u, k)
<1> DEFINE S == {x \in Path(r, k) : \/ x = [node |-> r, depth |-> 0]
                                    \/ \E u \in Path(r, k) : GoesOn(u, k) /\ x = Onward(u, k)}
<1>1. /\ [node |-> r, depth |-> 0] \in Path(r, k)
      /\ \A x \in Path(r, k) : GoesOn(x, k) => Onward(x, k) \in Path(r, k)
  BY PathClosed
<1>2. r # None
  BY AliveTyped DEF TreeHeap
<1>3. [node |-> r, depth |-> 0] \in S
  BY <1>1
<1>4. \A x \in S : GoesOn(x, k) => Onward(x, k) \in S
  BY <1>1
<1> HIDE DEF S
<1>5. Path(r, k) \subseteq S
  BY <1>2, <1>3, <1>4, PathLeast
<1> QED BY <1>5 DEF S

\* The walk goes on from w as a walk of its own would from w's node.
LEMMA StopShift ==
  ASSUME TreeHeap, NEW k \in Seq(Byte), NEW w \in Stops(k)
  PROVE  /\ w.node \in Alive /\ heap[w.node] \in VersionedNode /\ w.depth \in Nat /\ w.depth <= Len(k)
         /\ Rest(k, w.depth) \in Seq(Byte)
         /\ Place(heap[w.node], Rest(k, w.depth), 0) = Place(heap[w.node], k, w.depth)
<1>1. PICK d \in Nat : d = w.depth /\ d <= Len(k)
  BY DEF Stops
<1>2. PICK nd \in VersionedNode : nd = heap[w.node] /\ w.node \in Alive
  BY AliveTyped DEF Stops, TreeHeap
<1>3. /\ Rest(k, d) \in Seq(Byte) /\ Len(Rest(k, d)) = Len(k) - d /\ Len(k) - d \in Nat
      /\ 0 \in Nat /\ 0 <= Len(k) - d /\ d + 0 = d
  BY <1>1, RestBytes
<1>4. Place(nd, Rest(k, d), 0) = Place(nd, k, d)
  <2>1. Place(nd, Rest(k, d), 0) = Place(nd, k, d + 0)
    BY <1>1, <1>3, PlaceShift
  <2> QED BY <1>3, <2>1
<1> QED BY <1>1, <1>2, <1>3, <1>4

\* ... and finds the same: what is found from a stop is found from the next.
LEMMA FoundOnward ==
  ASSUME TreeHeap, NEW k \in Seq(Byte), NEW w \in Stops(k), GoesOn(w, k)
  PROVE  /\ Onward(w, k) \in Stops(k)
         /\ Found(Onward(w, k).node, Rest(k, Onward(w, k).depth)) = Found(w.node, Rest(k, w.depth))
<1>1. PICK d \in Nat, n \in Alive : d = w.depth /\ n = w.node /\ d <= Len(k)
  BY DEF Stops
<1>2. /\ heap[n] \in VersionedNode /\ Rest(k, d) \in Seq(Byte)
      /\ Place(heap[n], Rest(k, d), 0) = Place(heap[n], k, d)
  BY <1>1, StopShift
<1>3. PICK nd \in VersionedNode, e \in Nat : nd = heap[n] /\ e = Len(nd.prefix)
  BY <1>2, PrefixBytes
<1>4. PICK b \in Byte : \E x : /\ b = EdgeOf(nd, k, d) /\ x = Onward(w, k) /\ x.node = nd.kids[b]
                               /\ x.depth = d + e /\ x \in Stops(k) /\ x.depth < Len(k)
  BY <1>1, <1>3, OnwardStop
<1>5. PICK x : /\ b = EdgeOf(nd, k, d) /\ x = Onward(w, k) /\ x.node = nd.kids[b]
               /\ x.depth = d + e /\ x \in Stops(k) /\ x.depth < Len(k)
  BY <1>4
<1>6. EdgeOf(nd, Rest(k, d), 0) = b /\ Rest(Rest(k, d), e) = Rest(k, d + e)
  <2>1. 0 + e < Len(k) - d /\ d + 0 = d /\ d + e <= Len(k) /\ 0 <= Len(k) - d
    BY <1>1, <1>5
  <2>2. EdgeOf(nd, Rest(k, d), 0) = EdgeOf(nd, k, d + 0)
    BY <1>1, <1>3, <2>1, PlaceShift
  <2> QED BY <1>1, <1>5, <2>1, <2>2, RestRest
<1>7. Place(heap[n], Rest(k, d), 0) = "child"
  BY <1>1, <1>2 DEF GoesOn
<1>8. Found(n, Rest(k, d)) = Found(nd.kids[b], Rest(Rest(k, d), e))
  BY <1>2, <1>3, <1>6, <1>7, GetUnfold
<1> QED BY <1>1, <1>5, <1>6, <1>8

\* get_k finds one node at most.
LEMMA FoundAlone ==
  ASSUME TreeHeap, NEW r \in Alive, NEW k \in Seq(Byte), NEW n \in Found(r, k)
  PROVE  Found(r, k) = {n} /\ Get(r, k) = heap[n].value
<1> DEFINE start == [node |-> r, depth |-> 0]
           S == {w \in Stops(k) : Found(w.node, Rest(k, w.depth)) = Found(r, k)}
<1>1. r # None /\ start \in Stops(k) /\ Rest(k, start.depth) = k
  BY AliveTyped, WholeRest DEF Stops, TreeHeap
<1>2. start \in S
  BY <1>1
<1>3. \A w \in S : GoesOn(w, k) => Onward(w, k) \in S
  BY FoundOnward
<1> HIDE DEF S
<1>4. Path(r, k) \subseteq S
  BY <1>1, <1>2, <1>3, PathLeast
<1>5. PICK w \in Path(r, k) : w.node = n /\ Place(heap[n], k, w.depth) = "at"
  BY DEF Found
<1>6. w \in Stops(k) /\ Found(n, Rest(k, w.depth)) = Found(r, k)
  BY <1>4, <1>5 DEF S
<1>7. PICK q \in Seq(Byte) : q = Rest(k, w.depth) /\ n \in Alive /\ Place(heap[n], q, 0) = "at"
  BY <1>5, <1>6, StopShift
<1>8. Found(n, q) = {n}
  BY <1>7, GetUnfold
<1>9. Found(r, k) = {n}
  BY <1>6, <1>7, <1>8
<1>10. Pick({n}) = n
  BY DEF Pick
<1> QED BY <1>9, <1>10 DEF Get

\* Two keys have their first d bytes in common.
SameUpTo(k, key, d) == \A j \in 1..d : k[j] = key[j]

\* If they both match a prefix there, they have that in common too.
LEMMA SameFurther ==
  ASSUME NEW k, NEW key, NEW d \in Nat, SameUpTo(k, key, d), NEW p \in Seq(Byte),
         PrefixAt(p, k, d), PrefixAt(p, key, d)
  PROVE  SameUpTo(k, key, d + Len(p))
<1> SUFFICES ASSUME NEW j \in 1..d + Len(p) PROVE k[j] = key[j]
  BY DEF SameUpTo
<1>1. CASE j <= d
  BY <1>1 DEF SameUpTo
<1>2. CASE j > d
  <2>1. PICK i \in 1..Len(p) : j = d + i
    <3>1. j - d \in 1..Len(p) /\ j = d + (j - d)
      BY <1>2
    <3> QED BY <3>1
  <2> QED BY <2>1 DEF PrefixAt
<1> QED BY <1>1, <1>2

\* No field but the one above it holds a node on the path, and none its root.
OwnPath(r, key) ==
  Links(r) = {} /\ \A n \in OnPath(r, key) : n # r => \A l, m \in Links(n) : l = m

\* A walk that gets to a node on such a path has come down the path.
LEMMA MeetsPath ==
  ASSUME TreeHeap, NEW r \in Alive, NEW key \in Seq(Byte), OwnPath(r, key),
         NEW k \in Seq(Byte), NEW w \in Path(r, k), NEW u \in Path(r, key), u.node = w.node
  PROVE  u.depth = w.depth /\ SameUpTo(k, key, w.depth)
<1> DEFINE start == [node |-> r, depth |-> 0]
           Meets(x, y) == y.depth = x.depth /\ SameUpTo(k, key, x.depth)
           S == {x \in Stops(k) : \A y \in Path(r, key) : y.node = x.node => Meets(x, y)}
<1>1. r # None /\ start \in Stops(k) /\ Path(r, key) \subseteq Stops(key) /\ Path(r, k) \subseteq Stops(k)
  BY AliveTyped, PathClosed DEF Stops, TreeHeap
<1>2. ASSUME NEW y \in Path(r, key)
      PROVE  \/ y = start
             \/ \E v \in Path(r, key), b \in Byte :
                  /\ v \in Stops(key) /\ GoesOn(v, key) /\ y.node = heap[v.node].kids[b]
                  /\ y.depth = v.depth + Len(heap[v.node].prefix)
                  /\ <<v.node, b>> \in Links(y.node)
  <2>1. CASE y = start
    BY <2>1
  <2>2. CASE \E v \in Path(r, key) : GoesOn(v, key) /\ y = Onward(v, key)
    <3>1. PICK v \in Path(r, key) : GoesOn(v, key) /\ y = Onward(v, key)
      BY <2>2
    <3>2. v \in Stops(key)
      BY <1>1
    <3>3. PICK b \in Byte : /\ y.node = heap[v.node].kids[b]
                            /\ y.depth = v.depth + Len(heap[v.node].prefix)
      BY <3>1, <3>2, OnwardStop
    <3>4. <<v.node, b>> \in Links(y.node)
      BY <3>2, <3>3 DEF Links, Stops
    <3> QED BY <3>1, <3>2, <3>3, <3>4
  <2> QED BY <2>1, <2>2, CameFrom
<1>3. start \in S
  <2>1. ASSUME NEW y \in Path(r, key), y.node = r PROVE y = start
    BY <1>2, <2>1 DEF OwnPath
  <2>2. SameUpTo(k, key, 0)
    BY DEF SameUpTo
  <2> QED BY <1>1, <2>1, <2>2
<1>4. ASSUME NEW x \in S, GoesOn(x, k), NEW y \in Path(r, key), y.node = Onward(x, k).node
      PROVE  Meets(Onward(x, k), y)
  <2>1. PICK d \in Nat, n \in Alive : d = x.depth /\ n = x.node /\ d <= Len(k)
    BY DEF Stops
  <2>2. PICK nd \in VersionedNode, p \in Seq(Byte) : nd = heap[n] /\ p = nd.prefix
    BY AliveTyped, PrefixBytes DEF TreeHeap
  <2>3. PICK c \in Byte : /\ y.node = heap[n].kids[c] /\ Onward(x, k).depth = d + Len(p)
    BY <1>4, <2>1, <2>2, OnwardStop
  <2>4. <<n, c>> \in Links(y.node)
    BY <2>1, <2>3 DEF Links
  <2>5. y # start
    BY <2>4 DEF OwnPath
  <2>6. PICK v \in Path(r, key), b \in Byte :
                  /\ v \in Stops(key) /\ GoesOn(v, key) /\ y.node = heap[v.node].kids[b]
                  /\ y.depth = v.depth + Len(heap[v.node].prefix)
                  /\ <<v.node, b>> \in Links(y.node)
    BY <1>2, <2>5
  <2>7. v.node = n
    <3>1. y.node \in OnPath(r, key) /\ y.node # r
      BY <2>4 DEF OnPath, OwnPath
    <3>2. <<n, c>> = <<v.node, b>>
      BY <2>4, <2>6, <3>1 DEF OwnPath
    <3> QED BY <3>2
  <2>8. v.depth = d /\ SameUpTo(k, key, d)
    BY <2>1, <2>7
  <2>9. PrefixAt(p, k, d) /\ PrefixAt(p, key, d)
    <3>1. Place(nd, k, d) = "child" /\ Place(nd, key, d) = "child" /\ d <= Len(key)
      BY <1>4, <2>1, <2>2, <2>6, <2>7, <2>8 DEF GoesOn, Stops
    <3> QED BY <2>1, <2>2, <3>1, PlaceMeans
  <2>10. SameUpTo(k, key, d + Len(p))
    BY <2>8, <2>9, SameFurther
  <2> QED BY <2>2, <2>3, <2>6, <2>7, <2>8, <2>10
<1>5. \A x \in S : GoesOn(x, k) => Onward(x, k) \in S
  BY <1>4, OnwardStop
<1> HIDE DEF S
<1>6. Path(r, k) \subseteq S
  BY <1>1, <1>3, <1>5, PathLeast
<1> QED BY <1>6 DEF S

\* The node found for a key on such a path is found for no other key.
LEMMA FoundForOne ==
  ASSUME TreeHeap, NEW r \in Alive, NEW key \in Seq(Byte), OwnPath(r, key),
         NEW n \in Found(r, key), NEW k \in Seq(Byte), n \in Found(r, k)
  PROVE  k = key
<1>1. PICK w \in Path(r, k) : w.node = n /\ n \in Alive /\ Place(heap[n], k, w.depth) = "at"
  BY DEF Found
<1>2. PICK u \in Path(r, key) : u.node = n /\ Place(heap[n], key, u.depth) = "at"
  BY DEF Found
<1>3. u.depth = w.depth /\ SameUpTo(k, key, w.depth)
  BY <1>1, <1>2, MeetsPath
<1>4. w \in Stops(k) /\ u \in Stops(key)
  BY PathClosed
<1>5. PICK d \in Nat : d = w.depth /\ d <= Len(k) /\ d <= Len(key)
  BY <1>3, <1>4 DEF Stops
<1>6. PICK nd \in VersionedNode, p \in Seq(Byte) : nd = heap[n] /\ p = nd.prefix
  BY <1>1, AliveTyped, PrefixBytes DEF TreeHeap
<1>7. /\ PrefixAt(p, k, d) /\ d + Len(p) = Len(k)
      /\ PrefixAt(p, key, d) /\ d + Len(p) = Len(key)
  <2>1. Place(nd, k, d) = "at" /\ Place(nd, key, d) = "at"
    BY <1>1, <1>2, <1>3, <1>5, <1>6
  <2>2. PrefixAt(p, k, d) /\ d + Len(p) = Len(k)
    BY <1>5, <1>6, <2>1, PlaceMeans
  <2>3. PrefixAt(p, key, d) /\ d + Len(p) = Len(key)
    BY <1>5, <1>6, <2>1, PlaceMeans
  <2> QED BY <2>2, <2>3
<1>8. SameUpTo(k, key, Len(k))
  <2>1. SameUpTo(k, key, d + Len(p))
    BY <1>3, <1>5, <1>7, SameFurther
  <2> QED BY <1>7, <2>1
<1>9. Len(k) = Len(key) /\ \A j \in 1..Len(k) : k[j] = key[j]
  BY <1>7, <1>8 DEF SameUpTo
<1> QED BY <1>9

\* What a write through the reference to the value of key changes.
LEMMA WriteGet ==
  ASSUME IInv, IInv', ShapeInv, ShapeInv', NEW h \in Handle, ThreadBorrow(h), WriteThrough(h),
         NEW key, key = Step(h).key, NEW v, v = Step(h).val
  PROVE  /\ root[h] \in Alive /\ key \in Key /\ key \in Seq(Byte) /\ v \in Val
         /\ ret'[h] = Report(h, Get(root[h], key))
         /\ \A k \in Seq(Byte) : Get(root[h], k)' = IF k = key THEN v ELSE Get(root[h], k)
<1>1. /\ TypeOK /\ pc[h] = "write" /\ todo[h] # <<>> /\ root[h] # None /\ root' = root
      /\ PathUnshared(h, key)
  BY DEF IInv, WriteThrough, Running, ThreadInv, PhaseOf, ThreadBorrow, handleVars
<1>2. PICK n \in Found(root[h], key) : /\ ret' = [ret EXCEPT ![h] = Report(h, heap[n].value)]
                                       /\ heap' = [heap EXCEPT ![n].value = v]
  BY DEF WriteThrough
<1>3. PICK r \in Alive : r = root[h]
  BY <1>1, WasResting
<1>4. key \in Key /\ key \in Seq(Byte) /\ v \in Val
  BY <1>1, StepTyped DEF Call
<1>5. TreeHeap /\ TreeHeap'
  BY TreeHeapHolds DEF TreeHeap, IInv, ShapeInv
<1>6. OwnPath(r, key)
  <2>1. \A x \in OnPath(r, key) : IF x = r THEN Links(x) = {} ELSE \A l, m \in Links(x) : l = m
    BY <1>1, <1>3 DEF PathUnshared, OnPath
  <2>2. r \in OnPath(r, key)
    BY <1>3, <1>4, <1>5, PathAlive
  <2> QED BY <2>1, <2>2 DEF OwnPath
<1>7. \A x \in Alive : SameRoute(x)
  BY WriteThroughConduct
<1>8. n \in Alive /\ heap[n] \in VersionedNode
  BY <1>5, AliveTyped DEF Found, TreeHeap
<1>9. heap'[n].value = v /\ \A x \in Alive : x # n => heap'[x] = heap[x]
  BY <1>1, <1>2, <1>8 DEF TypeOK, VersionedNode, Alive
<1>10. Found(r, key) = {n} /\ Get(r, key) = heap[n].value
  BY <1>2, <1>3, <1>4, <1>5, FoundAlone
<1>11. ASSUME NEW k \in Seq(Byte)
       PROVE  Get(r, k)' = IF k = key THEN v ELSE Get(r, k)
  <2>1. Found(r, k)' = Found(r, k)
    <3>1. Downward(Alive)
      BY DEF Downward, IInv, HeapInv
    <3> QED BY <1>5, <1>7, <3>1, PathSame
  <2>2. CASE Found(r, k) = {}
    <3>1. k # key
      BY <1>10, <2>2
    <3> QED BY <2>1, <2>2, <3>1 DEF Get
  <2>3. CASE Found(r, k) # {}
    <3>1. PICK x \in Found(r, k) : TRUE
      BY <2>3
    <3>2. Found(r, k) = {x} /\ Get(r, k) = heap[x].value
      BY <1>5, FoundAlone
    <3>3. Get(r, k)' = heap'[x].value
      <4>1. Pick({x}) = x
        BY DEF Pick
      <4> QED BY <2>1, <3>2, <4>1 DEF Get
    <3>4. x = n <=> k = key
      <4>1. k = key => x = n
        BY <1>10, <3>2
      <4>2. x = n => k = key
        BY <1>2, <1>3, <1>4, <1>5, <1>6, <3>1, FoundForOne
      <4> QED BY <4>1, <4>2
    <3>5. x \in Alive
      BY <3>1 DEF Found
    <3> QED BY <1>9, <3>2, <3>3, <3>4, <3>5
  <2> QED BY <2>2, <2>3
<1>12. ret'[h] = Report(h, Get(r, key))
  BY <1>1, <1>2, <1>10 DEF TypeOK
<1> QED BY <1>1, <1>3, <1>4, <1>11, <1>12

\* ... is one change to the map.
LEMMA WriteShows ==
  ASSUME IInv, IInv', ShapeInv, ShapeInv', NEW h \in Handle, ThreadBorrow(h), WriteThrough(h),
         NEW m \in [Key -> Val \cup {None}], Shows(h, m), NEW s \in Call, s = Step(h)
  PROVE  /\ Shows(h, [m EXCEPT ![s.key] = s.val])'
         /\ ret'[h] = Report(h, m[s.key])
<1>1. /\ pc[h] = "write" /\ pc[h] \notin InTree /\ pc'[h] \notin InTree /\ root'[h] = root[h]
  BY DEF IInv, TypeOK, WriteThrough, Running, InTree, handleVars
<1>2. /\ s.key \in Key /\ s.val \in Val /\ ret'[h] = Report(h, Get(root[h], s.key))
      /\ \A k \in Seq(Byte) : Get(root[h], k)' = IF k = s.key THEN s.val ELSE Get(root[h], k)
  BY WriteGet
<1>3. m = Contents(h)
  BY <1>1 DEF Shows
<1>4. PICK m2 : m2 = [m EXCEPT ![s.key] = s.val]
  OBVIOUS
<1>5. PICK r : r = root[h] /\ r = root'[h]
  BY <1>1
<1>6. m2 = Contents(h)'
  <2>1. ASSUME NEW k \in Key PROVE m2[k] = Get(r, k)'
    <3>1. k \in Seq(Byte)
      BY KeyAssumption
    <3>2. Get(r, k)' = IF k = s.key THEN s.val ELSE Get(r, k)
      BY <1>2, <1>5, <3>1
    <3>3. m[k] = Get(r, k)
      BY <1>3, <1>5 DEF Contents
    <3> QED BY <1>4, <3>2, <3>3
  <2> QED BY <1>4, <1>5, <2>1 DEF Contents
<1>7. ret'[h] = Report(h, m[s.key])
  BY <1>2, <1>3 DEF Contents
<1> QED BY <1>1, <1>4, <1>6, <1>7 DEF Shows

-----------------------------------------------------------------------------
(* What a step means to the other handles *)

\* What is kept answers as before.
LEMMA KeptSpared ==
  ASSUME NEW C, Kept(C)
  PROVE  Spared(C)
BY DEF Kept, Spared, SameRoute, Alive

\* What there is to do for a call does not depend on the rest of the heap.
LEMMA NeedStays ==
  ASSUME NEW g \in Handle, todo'[g] = todo[g], depth'[g] = depth[g], cur'[g] = cur[g],
         heap'[cur[g]] = heap[cur[g]], NeedsCow(g)
  PROVE  NeedsCow(g)'
<1>1. Step(g)' = Step(g) /\ PlaceOf(g)' = PlaceOf(g) /\ Occupied(g)' = Occupied(g)
  BY DEF Step, PlaceOf, Occupied
<1> QED BY <1>1 DEF NeedsCow

\* A thread that stands where it stood, before a tree that shows what it
\* showed, has its map and its call as before.
LEMMA SameMap ==
  ASSUME NEW g \in Handle, pc'[g] = pc[g], todo'[g] = todo[g], call'[g] = call[g], ret'[g] = ret[g],
         NEW m \in [Key -> Val \cup {None}], Progress(g, m), Shows(g, m)',
         Meant(g), pc[g] = "edit" => NeedsCow(g)',
         seen'[g] = IF AtRest(g)' THEN Contents(g)' ELSE seen[g]
  PROVE  MapOf(g)' /\ Meant(g)' /\ seen'[g] = seen[g] /\ PendingCall(g)' = PendingCall(g)
<1>1. AtRest(g)' = AtRest(g) /\ Done(g)' = Done(g) /\ Left(g)' = Left(g)
  <2>1. Done(g)' = Done(g)
    BY DEF Done
  <2> QED BY <2>1 DEF AtRest, Left, Step
<1>2. seen'[g] = seen[g]
  <2>1. CASE AtRest(g)
    <3>1. m = seen[g]
      BY <2>1 DEF Progress
    <3>2. pc'[g] \notin InTree
      BY <2>1 DEF AtRest, Done, InTree
    <3>3. m = Contents(g)'
      BY <3>2 DEF Shows
    <3> QED BY <1>1, <2>1, <3>1, <3>3
  <2>2. CASE ~AtRest(g)
    BY <1>1, <2>2
  <2> QED BY <2>1, <2>2
<1>3. Progress(g, m)'
  <2>1. CASE AtRest(g) \/ pc[g] = "plan"
    BY <1>1, <1>2, <2>1 DEF Progress
  <2>2. CASE ~(AtRest(g) \/ pc[g] = "plan")
    <3>1. /\ call[g] # None /\ Leads(m, Left(g), call[g], seen[g])
          /\ RightAnswer(Left(g), call[g], seen[g], ret[g])
      BY <2>2 DEF Progress
    <3>2. /\ call'[g] # None /\ Leads(m, Left(g)', call'[g], seen'[g])
          /\ RightAnswer(Left(g)', call'[g], seen'[g], ret'[g])
      BY <1>1, <1>2, <3>1
    <3> QED BY <1>1, <2>2, <3>2 DEF Progress
  <2> QED BY <2>1, <2>2
<1>4. Meant(g)'
  BY DEF Meant
<1>5. PendingCall(g)' = PendingCall(g)
  BY <1>1 DEF PendingCall
<1> QED BY <1>2, <1>3, <1>4, <1>5 DEF MapOf

\* A step on another handle leaves a handle its map, and its call where it was.
LEMMA OthersMap ==
  ASSUME IInv, IInv', ShapeInv, ShapeInv', NEW h \in Handle, Advance(h) \/ Use(h), ThreadBorrow(h),
         NEW g \in Handle \ {h}, ThreadRoute(g), MapOf(g), Meant(g),
         seen'[g] = IF AtRest(g)' THEN Contents(g)' ELSE seen[g]
  PROVE  MapOf(g)' /\ Meant(g)' /\ seen'[g] = seen[g] /\ PendingCall(g)' = PendingCall(g)
<1>1. SameLocals(g)
  BY NextConduct DEF Conduct, LocalFrame
<1>2. /\ SameWalk(g) /\ root'[g] = root[g] /\ pc'[g] = pc[g] /\ todo'[g] = todo[g]
      /\ call'[g] = call[g] /\ ret'[g] = ret[g] /\ cur'[g] = cur[g] /\ depth'[g] = depth[g]
  BY <1>1 DEF SameLocals, SameWalk
<1>3. PICK C : Kept(C) /\ \A n \in Alive : n \in InHands(g) => n \in C
  BY OthersKept
<1>4. PICK m \in [Key -> Val \cup {None}] : Progress(g, m) /\ Shows(g, m)
  BY DEF MapOf
<1>5. Shows(g, m)'
  <2>1. \A n \in Alive : n \in TrailNodes(g) \cup {cur[g], res[g], root[g]} => n \in C
    BY <1>3 DEF InHands
  <2>2. Spared(C)
    BY <1>3, KeptSpared
  <2> QED BY <1>2, <1>4, <2>1, <2>2, StillShows
<1>6. pc[g] = "edit" => NeedsCow(g)'
  <2>1. SUFFICES ASSUME pc[g] = "edit" PROVE NeedsCow(g)'
    OBVIOUS
  <2>2. cur[g] \in Alive /\ NeedsCow(g)
    BY <2>1, AtHand DEF Meant
  <2>3. heap'[cur[g]] = heap[cur[g]]
    BY <1>3, <2>2 DEF Kept, InHands
  <2> QED BY <1>2, <2>2, <2>3, NeedStays
<1> QED BY <1>2, <1>4, <1>5, <1>6, SameMap

-----------------------------------------------------------------------------
(* How the operations of a call lead to what it promises *)

\* From m, the steps lead the call c on the map old to its result, and r is the
\* answer as far as it is known.
OnTheWay(m, steps, c, old, r) == Leads(m, steps, c, old) /\ RightAnswer(steps, c, old, r)

\* What the next operation can be.
LEMMA NextMeans ==
  ASSUME NEW m, NEW steps \in Seq(Call), steps # <<>>, NEW s, s = Head(steps),
         NEW c \in Call, NEW old, Leads(m, steps, c, old)
  PROVE  /\ s \in Call /\ s.key = c.key /\ s.op # "try_update"
         /\ c.op # "try_update" => s = c /\ m = old /\ Tail(steps) = <<>>
         /\ s.op = "update" => c.op # "try_update"
         /\ s.op = "get_mut" => m[s.key] # None
<1>1. 1 \in 1..Len(steps) /\ s = steps[1] /\ s \in Call
  OBVIOUS
<1>2. /\ s.key = c.key
      /\ c.op = "try_update" => s.op \notin {"update", "try_update"}
      /\ c.op # "try_update" => steps = <<c>> /\ m = old
      /\ s.op = "get_mut" => m[c.key] # None
  BY <1>1 DEF Leads
<1>3. steps = <<c>> => s = c /\ Tail(steps) = <<>>
  BY <1>1
<1> QED BY <1>1, <1>2, <1>3

\* Steps that lead where the call should: two at most.
LEMMA LeadsShort ==
  ASSUME NEW m, NEW steps, NEW c, NEW old, Leads(m, steps, c, old)
  PROVE  Len(steps) <= 2
BY DEF Leads

\* ... none,
LEMMA LeadsNone ==
  ASSUME NEW c, NEW old, NEW m, m = Maps!After(old, c)
  PROVE  Leads(m, <<>>, c, old)
<1>1. Len(<<>>) = 0 /\ \A i \in 1..Len(<<>>) : FALSE
  OBVIOUS
<1> QED BY <1>1 DEF Leads

\* ... one,
LEMMA LeadsOne ==
  ASSUME NEW c, NEW old, NEW m, NEW t, t.key = c.key,
         c.op = "try_update" => t.op \notin {"update", "try_update"},
         c.op # "try_update" => t = c /\ m = old,
         t.op = "get_mut" => m[c.key] # None, Maps!After(m, t) = Maps!After(old, c)
  PROVE  Leads(m, <<t>>, c, old)
<1>1. Len(<<t>>) = 1 /\ <<t>>[1] = t /\ <<t>> # <<>> /\ \A i \in 1..Len(<<t>>) : i = 1
  OBVIOUS
<1> QED BY <1>1 DEF Leads

\* ... or two, the first of which is the write of try_update.
LEMMA LeadsTwo ==
  ASSUME NEW c, NEW old, NEW m, NEW s, NEW t, s.key = c.key, t.key = c.key,
         c.op = "try_update", t.op \notin {"update", "try_update"},
         s.op = "get_mut", s.val # None, m[c.key] # None,
         Maps!After(Maps!After(m, s), t) = Maps!After(old, c)
  PROVE  Leads(m, <<s, t>>, c, old)
<1>1. /\ Len(<<s, t>>) = 2 /\ <<s, t>>[1] = s /\ <<s, t>>[2] = t /\ <<s, t>> # <<>>
      /\ \A i \in 1..Len(<<s, t>>) : i = 1 \/ i = 2
  OBVIOUS
<1> QED BY <1>1 DEF Leads

\* One or two steps.
LEMMA ShortSteps ==
  ASSUME NEW S, NEW steps \in Seq(S), steps # <<>>, Len(steps) <= 2
  PROVE  /\ Head(steps) \in S
         /\ \/ steps = <<Head(steps)>> /\ Tail(steps) = <<>>
            \/ \E t \in S : steps = <<Head(steps), t>> /\ Tail(steps) = <<t>>
<1>1. Len(steps) = 1 \/ Len(steps) = 2
  <2>1. \A seq \in Seq(S) : seq # <<>> => Len(seq) \in Nat \ {0}
    BY EmptySeq
  <2>2. PICK n \in Nat : n = Len(steps) /\ n # 0
    BY <2>1
  <2> QED BY <2>2
<1>2. PICK s, rest : s = Head(steps) /\ rest = Tail(steps)
  OBVIOUS
<1>3. /\ s = steps[1] /\ s \in S /\ rest \in Seq(S) /\ Len(rest) = Len(steps) - 1
      /\ \A i \in 1..Len(rest) : rest[i] = steps[i + 1]
  BY <1>1, <1>2, HeadTailProperties
<1>4. CASE Len(steps) = 1
  <2>1. rest = <<>>
    <3>1. \A seq \in Seq(S) : seq # <<>> => Len(seq) # 0
      <4>1. \A seq \in Seq(S) : seq # <<>> => Len(seq) \in Nat \ {0}
        BY EmptySeq
      <4> QED BY <4>1
    <3>2. rest \in Seq(S) /\ Len(rest) = 0
      BY <1>3, <1>4
    <3> QED BY <3>1, <3>2
  <2>2. <<s>> \in Seq(S) /\ Len(<<s>>) = 1 /\ <<s>>[1] = s
    BY <1>3
  <2>3. steps = <<s>>
    BY <1>3, <1>4, <2>2, SeqEqual
  <2> QED BY <1>2, <1>3, <2>1, <2>3
<1>5. CASE Len(steps) = 2
  <2>1. PICK t \in S : t = steps[2]
    <3>1. 2 \in 1..Len(steps)
      BY <1>5
    <3>2. steps[2] \in S
      BY <3>1, ElementOfSeq
    <3> QED BY <3>2
  <2>2. /\ <<t>> \in Seq(S) /\ Len(<<t>>) = 1 /\ <<t>>[1] = t
        /\ <<s, t>> \in Seq(S) /\ Len(<<s, t>>) = 2 /\ <<s, t>>[1] = s /\ <<s, t>>[2] = t
    BY <1>3, <2>1
  <2>3. steps = <<s, t>>
    BY <1>3, <1>5, <2>1, <2>2, SeqEqual
  <2>4. rest = <<t>>
    <3>1. Len(rest) = 1 /\ rest[1] = t
      BY <1>3, <1>5, <2>1
    <3> QED BY <1>3, <2>2, <3>1, SeqEqual
  <2> QED BY <1>2, <1>3, <2>1, <2>3, <2>4
<1> QED BY <1>1, <1>4, <1>5

\* Where one step leads, ...
LEMMA LeadsOneMeans ==
  ASSUME NEW c, NEW old, NEW m, NEW s, Leads(m, <<s>>, c, old)
  PROVE  Maps!After(m, s) = Maps!After(old, c)
<1>1. Len(<<s>>) = 1 /\ <<s>>[1] = s
  OBVIOUS
<1> QED BY <1>1 DEF Leads

\* ... and where two do.
LEMMA LeadsTwoMeans ==
  ASSUME NEW c, NEW old, NEW m, NEW s, NEW t, Leads(m, <<s, t>>, c, old)
  PROVE  /\ c.op = "try_update" /\ t.key = c.key /\ t.op \notin {"update", "try_update"}
         /\ s.op = "get_mut" /\ s.val # None /\ m[c.key] # None
         /\ Maps!After(Maps!After(m, s), t) = Maps!After(old, c)
<1>1. /\ Len(<<s, t>>) = 2 /\ <<s, t>>[1] = s /\ <<s, t>>[2] = t /\ <<s, t>> # <<>>
      /\ 2 \in 1..Len(<<s, t>>) /\ <<s, t>> # <<c>>
  <2>1. Len(<<c>>) = 1
    OBVIOUS
  <2> QED BY <2>1
<1>2. c.op = "try_update"
  <2>1. c.op # "try_update" => <<s, t>> = <<c>>
    BY <1>1 DEF Leads
  <2> QED BY <1>1, <2>1
<1> QED BY <1>1, <1>2 DEF Leads

\* An operation done, the rest lead on from there.
LEMMA LeadsOn ==
  ASSUME NEW m \in [Key -> Val \cup {None}], NEW steps \in Seq(Call), steps # <<>>,
         NEW s, s = Head(steps), NEW c \in Call, NEW old, Leads(m, steps, c, old),
         NEW a, a = Maps!After(m, s)
  PROVE  Leads(a, Tail(steps), c, old)
<1>1. s \in Call /\ c.key \in Key /\ s.key = c.key
  <2>1. s \in Call /\ s.key = c.key
    BY NextMeans
  <2>2. c.key \in Key
    BY DEF Call
  <2> QED BY <2>1, <2>2
<1>2. Len(steps) <= 2
  BY LeadsShort
<1>3. CASE steps = <<s>> /\ Tail(steps) = <<>>
  <2>1. a = Maps!After(old, c)
    <3>1. Leads(m, <<s>>, c, old)
      BY <1>3
    <3> QED BY <3>1, LeadsOneMeans
  <2> QED BY <1>3, <2>1, LeadsNone
<1>4. ASSUME NEW t \in Call, steps = <<s, t>>, Tail(steps) = <<t>>
      PROVE  Leads(a, Tail(steps), c, old)
  <2>1. Leads(m, <<s, t>>, c, old)
    BY <1>4
  <2>2. /\ c.op = "try_update" /\ t.key = c.key /\ t.op \notin {"update", "try_update"}
        /\ s.op = "get_mut" /\ s.val # None /\ m[c.key] # None
        /\ Maps!After(a, t) = Maps!After(old, c)
    BY <2>1, LeadsTwoMeans
  <2>3. a[c.key] # None
    <3>1. a = [m EXCEPT ![c.key] = s.val]
      BY <1>1, <2>2 DEF Maps!After, Maps!Present, Maps!Put
    <3> QED BY <1>1, <2>2, <3>1
  <2>4. Leads(a, <<t>>, c, old)
    BY <2>2, <2>3, LeadsOne
  <2> QED BY <1>4, <2>4
<1> QED BY <1>2, <1>3, <1>4, ShortSteps

\* ... and the answer is the call's.
LEMMA StepOn ==
  ASSUME NEW m \in [Key -> Val \cup {None}], NEW steps \in Seq(Call), steps # <<>>,
         NEW s, s = Head(steps), NEW c \in Call, NEW old, NEW r, OnTheWay(m, steps, c, old, r),
         NEW r2, r2 = IF c.op = "try_update" THEN r ELSE Maps!Answer(m, s)
  PROVE  OnTheWay(Maps!After(m, s), Tail(steps), c, old, r2)
<1>1. Leads(m, steps, c, old) /\ RightAnswer(steps, c, old, r)
  BY DEF OnTheWay
<1>2. Leads(Maps!After(m, s), Tail(steps), c, old)
  BY <1>1, LeadsOn
<1>3. r2 = Maps!Answer(old, c)
  <2>1. c.op # "try_update" => s = c /\ m = old
    BY <1>1, NextMeans
  <2>2. c.op = "try_update" => r = Maps!Answer(old, c)
    BY <1>1 DEF RightAnswer
  <2> QED BY <2>1, <2>2
<1> QED BY <1>2, <1>3 DEF OnTheWay, RightAnswer

\* What an operation leaves at its key, as the abstract map has it.
LEMMA Brought ==
  ASSUME NEW m \in [Key -> Val \cup {None}], NEW s \in Call, s.op \in {"insert", "remove", "update"},
         s.op = "update" => s.act \in {"insert", "remove", "keep"},
         s.op = "update" /\ s.act # "insert" => m[s.key] # None
  PROVE  /\ Maps!After(m, s) = [m EXCEPT ![s.key] = Brings(s)]
         /\ Maps!Answer(m, s) = IF s.op = "update" THEN "true" ELSE m[s.key]
BY DEF Maps!After, Maps!Answer, Maps!Put, Maps!Present, Maps!OccupiedSlot, Brings

-----------------------------------------------------------------------------
(* What each step of a call contributes *)

\* Between two steps a call is on its way from the map that the tree shows, ...
Underway(h, m) ==
  /\ m \in [Key -> Val \cup {None}] /\ Shows(h, m)
  /\ OnTheWay(m, Left(h), call[h], seen[h], ret[h])

\* ... and so it is after the step.
Arrives(h) ==
  \E m \in [Key -> Val \cup {None}] :
    Shows(h, m)' /\ OnTheWay(m, Left(h)', call[h], seen[h], ret'[h])

\* A step that leaves the map as it is and nothing less to do.
LEMMA SameArrives ==
  ASSUME NEW h \in Handle, NEW m, Underway(h, m), Shows(h, m)',
         Left(h)' = Left(h), ret'[h] = ret[h]
  PROVE  Arrives(h)
BY DEF Underway, Arrives

\* What is left to do, before the operation has changed the map, ...
LEMMA LeftBefore ==
  ASSUME NEW h \in Handle, pc[h] \notin {"up", "lift", "fix"} \/ Step(h).op = "get_mut"
  PROVE  Left(h) = todo[h]
BY DEF Left

\* ... and after a step that leaves the operations as they are.
LEMMA LeftAfter ==
  ASSUME NEW h \in Handle, todo'[h] = todo[h]
  PROVE  /\ pc'[h] \notin {"up", "lift", "fix"} \/ Step(h).op = "get_mut" => Left(h)' = todo[h]
         /\ pc'[h] \in {"up", "lift", "fix"} /\ Step(h).op # "get_mut" => Left(h)' = Tail(todo[h])
BY DEF Left, Step

\* The steps that go down, make nodes writable, come back or put the root back.
LEMMA QuietArrives ==
  ASSUME IInv, IInv', ShapeInv, ShapeInv', NEW h \in Handle, ThreadRoute(h),
         NEW m, Underway(h, m),
         \/ Start(h) \/ EnsureCowOwned(h) \/ EnsureCowShared(h) \/ Descend(h) \/ Follow(h)
         \/ PathReady(h) \/ Reattach(h) \/ Backtrack(h) \/ Lift(h) \/ SwapChild(h)
  PROVE  Arrives(h)
<1>1. TypeOK /\ m \in [Key -> Val \cup {None}] /\ Shows(h, m)
  BY DEF IInv, Underway
<1>2. Shows(h, m)'
  BY <1>1, StartShows, EnsureShows, DownShows, StayShows, ReattachShows, ClimbShows, SwapShows
<1>3. todo'[h] = todo[h] /\ ret'[h] = ret[h]
  BY <1>1 DEF Start, EnsureCowOwned, EnsureCowShared, Descend, Follow, PathReady, Reattach,
    Backtrack, Lift, SwapChild, callVars
<1>4. CASE Start(h) \/ Descend(h) \/ Follow(h)
  <2>1. pc[h] \notin {"up", "lift", "fix"} /\ pc'[h] \notin {"up", "lift", "fix"}
    BY <1>1, <1>4 DEF TypeOK, Start, Descend, Follow, Running, Unwrapped
  <2> QED BY <1>2, <1>3, <2>1, LeftBefore, LeftAfter, SameArrives
<1>5. CASE EnsureCowOwned(h) \/ EnsureCowShared(h)
  <2>1. \/ pc[h] = "visit" /\ pc'[h] = "edit"
        \/ pc[h] = "lift" /\ pc'[h] = "fix"
    BY <1>1, <1>5 DEF TypeOK, EnsureCowOwned, EnsureCowShared, Ensuring, Ensured, Running
  <2>2. Left(h)' = Left(h)
    BY <1>3, <2>1 DEF Left, Step
  <2> QED BY <1>2, <1>3, <2>2, SameArrives
<1>6. CASE PathReady(h)
  <2>1. pc[h] = "edit" /\ Step(h).op = "get_mut"
    BY <1>6 DEF PathReady, Running, Unwrapped
  <2>2. Left(h)' = todo[h] /\ Left(h) = todo[h]
    BY <1>3, <2>1, LeftBefore, LeftAfter
  <2> QED BY <1>2, <1>3, <2>2, SameArrives
<1>7. CASE Reattach(h) \/ Backtrack(h) \/ Lift(h) \/ SwapChild(h)
  <2>1. pc[h] \in {"up", "lift", "fix"} /\ pc'[h] \in {"up", "lift", "fix"}
    BY <1>1, <1>7 DEF TypeOK, Reattach, Backtrack, Lift, SwapChild, Running, Unwrapped
  <2>2. Left(h)' = Left(h)
    BY <1>3, <2>1 DEF Left, Step
  <2> QED BY <1>2, <1>3, <2>2, SameArrives
<1> QED BY <1>4, <1>5, <1>6, <1>7

\* ... and the one that gives the handle its root back.
LEMMA InstallArrives ==
  ASSUME IInv, IInv', ShapeInv, ShapeInv', NEW h \in Handle, ThreadRoute(h), Install(h),
         NEW m, Underway(h, m)
  PROVE  Arrives(h)
<1>1. TypeOK /\ m \in [Key -> Val \cup {None}] /\ Shows(h, m)
  BY DEF IInv, Underway
<1>2. Shows(h, m)'
  BY <1>1, InstallShows
<1>3. /\ pc[h] = "up" /\ ret'[h] = ret[h]
      /\ todo'[h] = IF Step(h).op = "get_mut" THEN todo[h] ELSE Tail(todo[h])
      /\ pc'[h] = IF Step(h).op = "get_mut" THEN "write" ELSE "next"
  BY <1>1 DEF TypeOK, Install, Running
<1>4. Left(h)' = Left(h)
  BY <1>3 DEF Left, Step
<1> QED BY <1>2, <1>3, <1>4, SameArrives

\* What the operation s under way is, as far as the rest of the call c goes.
OperationOf(s, c, m, old) ==
  /\ s \in Call /\ s.key = c.key /\ s.op # "try_update"
  /\ c.op # "try_update" => s = c /\ m = old
  /\ s.op = "update" => c.op # "try_update"
  /\ s.op = "get_mut" => m[s.key] # None

\* The first of the operations that are left is such a one.
LEMMA NextOf ==
  ASSUME NEW m, NEW steps \in Seq(Call), steps # <<>>, NEW s, s = Head(steps),
         NEW c \in Call, NEW old, Leads(m, steps, c, old)
  PROVE  OperationOf(s, c, m, old)
BY NextMeans DEF OperationOf

\* ... with the variables that hold them.
LEMMA OperationMeans ==
  ASSUME TypeOK, NEW h \in Handle, call[h] \in Call, NEW m, Underway(h, m), Left(h) = todo[h],
         todo[h] # <<>>, NEW s, s = Step(h)
  PROVE  OperationOf(s, call[h], m, seen[h])
<1>1. PICK steps \in Seq(Call) : steps = todo[h] /\ steps # <<>> /\ s = Head(steps)
  BY DEF TypeOK, Step
<1>2. PICK c \in Call : c = call[h]
  OBVIOUS
<1>3. PICK old : old = seen[h]
  OBVIOUS
<1>4. Leads(m, steps, c, old)
  BY <1>1, <1>2, <1>3 DEF Underway, OnTheWay
<1>5. OperationOf(s, c, m, old)
  BY <1>1, <1>4, NextOf
<1> QED BY <1>2, <1>3, <1>5

\* One operation done.
LEMMA OneDone ==
  ASSUME TypeOK, NEW h \in Handle, call[h] \in Call, NEW m, Underway(h, m), Left(h) = todo[h],
         todo[h] # <<>>, NEW s, s = Step(h), Left(h)' = Tail(todo[h]),
         NEW a \in [Key -> Val \cup {None}], a = Maps!After(m, s), Shows(h, a)',
         ret'[h] = IF call[h].op = "try_update" THEN ret[h] ELSE Maps!Answer(m, s)
  PROVE  Arrives(h)
<1>1. PICK steps \in Seq(Call) : steps = todo[h] /\ steps # <<>> /\ s = Head(steps)
  BY DEF TypeOK, Step
<1>2. PICK c \in Call : c = call[h]
  OBVIOUS
<1>3. m \in [Key -> Val \cup {None}] /\ OnTheWay(m, steps, c, seen[h], ret[h])
  BY <1>1, <1>2 DEF Underway
<1>4. PICK r2 : r2 = ret'[h] /\ r2 = IF c.op = "try_update" THEN ret[h] ELSE Maps!Answer(m, s)
  BY <1>2
<1>5. OnTheWay(Maps!After(m, s), Tail(steps), c, seen[h], r2)
  BY <1>1, <1>3, <1>4, StepOn
<1>6. OnTheWay(a, Left(h)', call[h], seen[h], ret'[h])
  BY <1>1, <1>2, <1>4, <1>5
<1> QED BY <1>6 DEF Arrives

\* ... that put or deleted the value of its key.
LEMMA ValueDone ==
  ASSUME TypeOK, NEW h \in Handle, call[h] \in Call, NEW m, Underway(h, m), Left(h) = todo[h],
         todo[h] # <<>>, NEW s, s = Step(h), Left(h)' = Tail(todo[h]),
         s.op \in {"insert", "remove", "update"},
         s.op = "update" => s.act \in {"insert", "remove", "keep"},
         s.op = "update" /\ s.act # "insert" => m[s.key] # None,
         Shows(h, [m EXCEPT ![s.key] = Brings(s)])',
         ret'[h] = IF s.op = "update" THEN "true" ELSE Report(h, m[s.key])
  PROVE  Arrives(h)
<1>1. s \in Call /\ (s.op = "update" => call[h].op # "try_update")
  <2>1. OperationOf(s, call[h], m, seen[h])
    BY OperationMeans
  <2> QED BY <2>1 DEF OperationOf
<1>2. m \in [Key -> Val \cup {None}]
  BY DEF Underway
<1>3. PICK a : a = [m EXCEPT ![s.key] = Brings(s)]
  OBVIOUS
<1>4. a = Maps!After(m, s) /\ Maps!Answer(m, s) = IF s.op = "update" THEN "true" ELSE m[s.key]
  BY <1>1, <1>2, <1>3, Brought
<1>5. a \in [Key -> Val \cup {None}]
  BY <1>1, <1>2, <1>3, BringsTyped, OneKey
<1>6. ret'[h] = IF call[h].op = "try_update" THEN ret[h] ELSE Maps!Answer(m, s)
  BY <1>1, <1>4 DEF Report
<1>7. Shows(h, a)'
  BY <1>3
<1> QED BY <1>4, <1>5, <1>6, <1>7, OneDone

\* An update that found its slot occupied has its key in the map.
LEMMA OccupiedHere ==
  ASSUME IInv, ShapeInv, NEW h \in Handle, pc[h] = "edit", ThreadRoute(h), NeedsCow(h),
         NEW m, Shows(h, m), NEW s, s = Step(h), s.op = "update", s.act # "insert"
  PROVE  m[s.key] # None
<1>1. PICK d \in Nat : d = depth[h]
  BY DEF IInv, TypeOK
<1>2. Occupied(h)
  BY DEF NeedsCow
<1>3. PlaceOf(h) = "at" => m[s.key] = heap[cur[h]].value
  BY <1>1, HereValue
<1> QED BY <1>2, <1>3 DEF Occupied

\* The steps that put or delete a value.
LEMMA ValueArrives ==
  ASSUME IInv, IInv', ShapeInv, ShapeInv', NEW h \in Handle, ThreadRoute(h),
         call[h] \in Call, NEW m, Underway(h, m), pc[h] = "edit" => NeedsCow(h),
         ReplaceValue(h) \/ TakeValue(h) \/ RemoveLeaf(h) \/ AddLeaf(h) \/ Split(h)
  PROVE  Arrives(h)
<1>1. TypeOK /\ m \in [Key -> Val \cup {None}] /\ Shows(h, m)
  BY DEF IInv, Underway
<1>2. /\ pc[h] \in {"visit", "edit"} /\ pc'[h] = "up" /\ todo'[h] = todo[h]
      /\ ReplaceValue(h) \/ TakeValue(h) \/ AddLeaf(h) => pc[h] = "edit"
  BY <1>1 DEF TypeOK, ReplaceValue, TakeValue, RemoveLeaf, AddLeaf, Split, Running, Unwrapped,
    ReturnNode
<1>3. PICK s \in Call : s = Step(h)
  BY <1>2, WasInTree DEF InTree
<1>4. todo[h] # <<>> /\ Left(h) = todo[h]
  BY <1>2, LeftBefore, WasInTree DEF InTree
<1>5. OperationOf(s, call[h], m, seen[h])
  BY <1>1, <1>3, <1>4, OperationMeans
<1>6. PICK d \in Nat : d = depth[h]
  BY <1>1 DEF TypeOK
<1>7. /\ PlaceOf(h) = "at" => m[s.key] = heap[cur[h]].value
      /\ PlaceOf(h) \notin {"at", "child"} => m[s.key] = None
  BY <1>1, <1>2, <1>3, <1>6, HereValue
<1>8. /\ s.op \in {"insert", "remove", "update"}
      /\ s.op = "update" => s.act \in {"insert", "remove", "keep"}
      /\ s.op = "update" /\ s.act # "insert" => pc[h] = "edit"
  <2>1. s.op \in Op /\ s.op # "try_update"
    BY <1>5 DEF OperationOf, Call
  <2>2. AddLeaf(h) => s.op = "insert" \/ (s.op = "update" /\ s.act = "insert")
    <3>1. AddLeaf(h) => NeedsCow(h) /\ PlaceOf(h) \in {"below", "missing"}
      BY <1>2 DEF AddLeaf
    <3> QED BY <1>3, <2>1, <3>1 DEF NeedsCow, Occupied, Op
  <2>3. ~AddLeaf(h) => \/ s.op \in {"insert", "remove"}
                       \/ s.op = "update" /\ s.act \in {"insert", "remove", "keep"}
    BY <1>3 DEF ReplaceValue, TakeValue, RemoveLeaf, Split, Writes, TopDown
  <2>4. Split(h) => s.op = "insert" \/ (s.op = "update" /\ s.act = "insert")
    BY <1>3 DEF Split, TopDown
  <2>5. RemoveLeaf(h) => s.op = "remove"
    BY <1>3 DEF RemoveLeaf
  <2> QED BY <1>2, <2>2, <2>3, <2>4, <2>5
<1>9. s.op = "update" /\ s.act # "insert" => m[s.key] # None
  BY <1>1, <1>3, <1>8, OccupiedHere
<1>10. ret'[h] = IF s.op = "update" THEN "true" ELSE Report(h, m[s.key])
  <2>1. CASE ReplaceValue(h)
    <3>1. /\ PlaceOf(h) = "at" /\ Writes(h)
          /\ ret'[h] = IF s.op = "insert" THEN Report(h, heap[cur[h]].value) ELSE "true"
      BY <1>1, <1>3, <2>1 DEF TypeOK, ReplaceValue
    <3>2. s.op = "insert" \/ s.op = "update"
      BY <1>3, <3>1 DEF Writes, TopDown
    <3> QED BY <1>7, <3>1, <3>2
  <2>2. CASE TakeValue(h)
    <3>1. /\ PlaceOf(h) = "at" /\ (s.op = "remove" \/ s.op = "update")
          /\ ret'[h] = IF s.op = "remove" THEN Report(h, heap[cur[h]].value) ELSE "true"
      BY <1>1, <1>3, <2>2 DEF TypeOK, TakeValue, TopDown
    <3> QED BY <1>7, <3>1
  <2>3. CASE RemoveLeaf(h)
    <3>1. PlaceOf(h) = "at" /\ s.op = "remove" /\ ret'[h] = Report(h, heap[cur[h]].value)
      BY <1>1, <1>3, <2>3 DEF TypeOK, RemoveLeaf
    <3> QED BY <1>7, <3>1
  <2>4. CASE AddLeaf(h) \/ Split(h)
    <3>1. /\ PlaceOf(h) \notin {"at", "child"}
          /\ ret'[h] = IF s.op # "update" THEN Report(h, None) ELSE "true"
      BY <1>1, <1>3, <2>4 DEF TypeOK, AddLeaf, Split, TopDown
    <3> QED BY <1>7, <3>1
  <2> QED BY <2>1, <2>2, <2>3, <2>4
<1>11. Shows(h, [m EXCEPT ![s.key] = Brings(s)])'
  <2>1. CASE ReplaceValue(h) \/ TakeValue(h) \/ RemoveLeaf(h)
    BY <1>1, <1>3, <2>1, ValueShows
  <2>2. CASE AddLeaf(h)
    <3>1. NeedsCow(h)
      BY <1>2, <2>2
    <3> QED BY <1>1, <1>3, <2>2, <3>1, LeafShows
  <2>3. CASE Split(h)
    BY <1>1, <1>3, <2>3, SplitShows
  <2> QED BY <2>1, <2>2, <2>3
<1>12. Left(h)' = Tail(todo[h])
  <2>1. s.op # "get_mut"
    BY <1>8
  <2> QED BY <1>2, <1>3, <2>1, LeftAfter
<1> QED BY <1>1, <1>3, <1>4, <1>8, <1>9, <1>10, <1>11, <1>12, ValueDone

\* The last step of get_mut.
LEMMA WriteArrives ==
  ASSUME IInv, IInv', ShapeInv, ShapeInv', NEW h \in Handle, ThreadBorrow(h), WriteThrough(h),
         call[h] \in Call, NEW m, Underway(h, m)
  PROVE  Arrives(h)
<1>1. TypeOK /\ m \in [Key -> Val \cup {None}] /\ Shows(h, m)
  BY DEF IInv, Underway
<1>2. /\ pc[h] = "write" /\ pc'[h] = "next" /\ todo'[h] = Tail(todo[h]) /\ Step(h).op = "get_mut"
      /\ todo[h] # <<>>
  BY <1>1 DEF TypeOK, WriteThrough, Running, ThreadBorrow, IInv, ThreadInv, PhaseOf
<1>3. PICK s \in Call : s = Step(h)
  BY <1>1, <1>2, StepTyped
<1>4. Left(h) = todo[h] /\ Left(h)' = Tail(todo[h])
  BY <1>2 DEF Left
<1>5. OperationOf(s, call[h], m, seen[h])
  BY <1>1, <1>2, <1>3, <1>4, OperationMeans
<1>6. s.op = "get_mut" /\ m[s.key] # None
  BY <1>2, <1>3, <1>5 DEF OperationOf
<1>7. PICK a : a = [m EXCEPT ![s.key] = s.val]
  OBVIOUS
<1>8. Shows(h, a)' /\ ret'[h] = Report(h, m[s.key])
  BY <1>1, <1>3, <1>7, WriteShows
<1>9. a = Maps!After(m, s) /\ Maps!Answer(m, s) = m[s.key]
  BY <1>6, <1>7 DEF Maps!After, Maps!Answer, Maps!Present, Maps!Put
<1>10. a \in [Key -> Val \cup {None}]
  BY <1>1, <1>7 DEF Call
<1>11. ret'[h] = IF call[h].op = "try_update" THEN ret[h] ELSE Maps!Answer(m, s)
  BY <1>8, <1>9 DEF Report
<1> QED BY <1>1, <1>2, <1>3, <1>4, <1>8, <1>9, <1>10, <1>11, OneDone

\* A call that is one operation has nothing left after it.
LEMMA LastMeans ==
  ASSUME NEW m, NEW steps \in Seq(Call), steps # <<>>, NEW c \in Call, NEW old,
         Leads(m, steps, c, old), c.op # "try_update"
  PROVE  Tail(steps) = <<>>
<1>1. PICK s : s = Head(steps)
  OBVIOUS
<1> QED BY <1>1, NextMeans

\* ... with the variables that hold it.
LEMMA NothingAfter ==
  ASSUME TypeOK, NEW h \in Handle, call[h] \in Call, NEW m, Underway(h, m), Left(h) = todo[h],
         todo[h] # <<>>, call[h].op # "try_update"
  PROVE  Tail(todo[h]) = <<>>
<1>1. PICK steps \in Seq(Call) : steps = todo[h] /\ steps # <<>>
  BY DEF TypeOK
<1>2. PICK c \in Call : c = call[h] /\ c.op # "try_update"
  OBVIOUS
<1>3. PICK old : old = seen[h]
  OBVIOUS
<1>4. Leads(m, steps, c, old)
  BY <1>1, <1>2, <1>3 DEF Underway, OnTheWay
<1>5. Tail(steps) = <<>>
  BY <1>1, <1>2, <1>4, LastMeans
<1> QED BY <1>1, <1>5

\* update when the callback does not want the slot, ...
LEMMA DeclineArrives ==
  ASSUME IInv, IInv', ShapeInv, ShapeInv', NEW h \in Handle, ThreadRoute(h), Decline(h),
         call[h] \in Call, NEW m, Underway(h, m)
  PROVE  Arrives(h)
<1>1. TypeOK /\ m \in [Key -> Val \cup {None}] /\ Shows(h, m)
  BY DEF IInv, Underway
<1>2. /\ pc[h] = "visit" /\ pc'[h] = "up" /\ todo'[h] = todo[h] /\ ret'[h] = "false"
      /\ Vacant(h) /\ Step(h).op = "update" /\ Step(h).act \in {"keep", "remove"}
  BY <1>1 DEF TypeOK, Decline, Running, ReturnNode, Vacant, TopDown
<1>3. PICK s \in Call : s = Step(h)
  BY <1>2, WasInTree DEF InTree
<1>4. todo[h] # <<>> /\ Left(h) = todo[h] /\ Left(h)' = Tail(todo[h])
  BY <1>2, LeftBefore, LeftAfter, WasInTree DEF InTree
<1>5. OperationOf(s, call[h], m, seen[h])
  BY <1>1, <1>3, <1>4, OperationMeans
<1>6. PICK d \in Nat : d = depth[h]
  BY <1>1 DEF TypeOK
<1>7. /\ PlaceOf(h) = "at" => m[s.key] = heap[cur[h]].value
      /\ PlaceOf(h) \notin {"at", "child"} => m[s.key] = None
  BY <1>1, <1>2, <1>3, <1>6, HereValue
<1>8. m[s.key] = None
  BY <1>2, <1>7 DEF Vacant, Occupied
<1>9. m = Maps!After(m, s) /\ Maps!Answer(m, s) = "false"
  BY <1>2, <1>3, <1>8 DEF Maps!After, Maps!Answer, Maps!Present
<1>10. Shows(h, m)'
  BY <1>1, StayShows
<1>11. ret'[h] = IF call[h].op = "try_update" THEN ret[h] ELSE Maps!Answer(m, s)
  BY <1>2, <1>3, <1>5, <1>9 DEF OperationOf
<1> QED BY <1>1, <1>3, <1>4, <1>9, <1>10, <1>11, OneDone

\* The map of an empty tree.
LEMMA EmptyShows ==
  ASSUME NEW h \in Handle, root'[h] = None, pc'[h] \notin InTree
  PROVE  Maps!EmptyMap = Contents(h)' /\ Shows(h, Maps!EmptyMap)'
<1>1. ASSUME NEW k PROVE Get(None, k)' = None
  BY GetNone DEF Get, Found, Path
<1>2. PICK r : r = root'[h] /\ r = None
  OBVIOUS
<1>3. Contents(h)' = [k \in Key |-> Get(r, k)']
  BY <1>2 DEF Contents
<1>4. Maps!EmptyMap = Contents(h)'
  BY <1>1, <1>2, <1>3 DEF Maps!EmptyMap
<1>5. Maps!EmptyMap' = Maps!EmptyMap
  BY DEF Maps!EmptyMap
<1> QED BY <1>4, <1>5 DEF Shows

\* ... and when it panics.
LEMMA PanicArrives ==
  ASSUME IInv, IInv', ShapeInv, ShapeInv', NEW h \in Handle, CallbackPanic(h),
         call[h] \in Call, NEW m, Underway(h, m)
  PROVE  Arrives(h)
<1>1. TypeOK /\ m \in [Key -> Val \cup {None}]
  BY DEF IInv, Underway
<1>2. /\ pc[h] \in {"visit", "edit"} /\ pc'[h] = "next" /\ todo'[h] = <<>> /\ ret'[h] = "panic"
      /\ Step(h).op = "update" /\ Step(h).act = "panic" /\ root'[h] = root[h]
  BY <1>1 DEF TypeOK, CallbackPanic, Running, Unwrapped, TopDown, handleVars
<1>3. PICK s \in Call : s = Step(h)
  BY <1>2, WasInTree DEF InTree
<1>4. todo[h] # <<>> /\ Left(h) = todo[h] /\ Left(h)' = <<>> /\ root[h] = None
  BY <1>2, LeftBefore, WasInTree DEF InTree, Left
<1>5. OperationOf(s, call[h], m, seen[h])
  BY <1>1, <1>3, <1>4, OperationMeans
<1>6. call[h].op # "try_update" /\ Left(h)' = Tail(todo[h])
  <2>1. call[h].op # "try_update"
    BY <1>2, <1>3, <1>5 DEF OperationOf
  <2>2. Tail(todo[h]) = <<>>
    BY <1>1, <1>4, <2>1, NothingAfter
  <2> QED BY <1>4, <2>1, <2>2
<1>7. Maps!EmptyMap = Maps!After(m, s) /\ Maps!Answer(m, s) = "panic"
  BY <1>2, <1>3 DEF Maps!After, Maps!Answer
<1>8. Shows(h, Maps!EmptyMap)'
  BY <1>2, <1>4, EmptyShows DEF InTree
<1>9. PICK a \in [Key -> Val \cup {None}] : a = Maps!EmptyMap
  BY DEF Maps!EmptyMap
<1>10. Shows(h, a)'
  <2>1. Maps!EmptyMap' = Maps!EmptyMap
    BY DEF Maps!EmptyMap
  <2> QED BY <1>8, <1>9, <2>1
<1>11. ret'[h] = IF call[h].op = "try_update" THEN ret[h] ELSE Maps!Answer(m, s)
  BY <1>2, <1>6, <1>7
<1> QED BY <1>1, <1>3, <1>4, <1>6, <1>7, <1>9, <1>10, <1>11, OneDone

\* The map of a tree that is one leaf.
LEMMA OneLeafShows ==
  ASSUME TreeHeap', NEW h \in Handle, pc'[h] \notin InTree, NEW c \in Alive', c = root'[h],
         NEW key \in Key, key = heap'[c].prefix, heap'[c].kids = NoKids,
         NEW v, v = heap'[c].value, NEW a, a = [Maps!EmptyMap EXCEPT ![key] = v]
  PROVE  Shows(h, a)'
<1>1. \A k \in Key : k \in Seq(Byte)
  BY KeyAssumption
<1>2. ASSUME NEW k \in Key
      PROVE  a[k] = Get(c, k)'
  <2>1. k \in Seq(Byte) /\ key \in Seq(Byte) /\ 0 <= Len(k) /\ Rest(k, 0) = k
    BY <1>1, WholeRest
  <2>2. Get(c, Rest(k, 0))' = IF PrefixAt(key, k, 0) /\ 0 + Len(key) = Len(k) THEN v ELSE None
    BY <2>1, LeafGet
  <2>3. PrefixAt(key, k, 0) /\ 0 + Len(key) = Len(k) <=> k = key
    <3>1. PrefixAt(key, k, 0) /\ 0 + Len(key) = Len(k) =>
            Len(key) = Len(k) /\ \A i \in 1..Len(key) : key[i] = k[i]
      BY <2>1 DEF PrefixAt
    <3>2. Len(key) = Len(k) /\ (\A i \in 1..Len(key) : key[i] = k[i]) => k = key
      BY <2>1, SeqEqual
    <3>3. k = key => PrefixAt(key, k, 0) /\ 0 + Len(key) = Len(k)
      BY <2>1 DEF PrefixAt
    <3> QED BY <3>1, <3>2, <3>3
  <2>4. a[k] = IF k = key THEN v ELSE None
    BY DEF Maps!EmptyMap
  <2>5. PICK q : q = Rest(k, 0) /\ q = k
    BY <2>1
  <2>6. Get(c, q)' = Get(c, k)'
    BY <2>5
  <2>7. Get(c, q)' = Get(c, Rest(k, 0))'
    BY <2>5
  <2> QED BY <2>2, <2>3, <2>4, <2>6, <2>7
<1>3. PICK r : r = root'[h] /\ r = c
  OBVIOUS
<1>4. a = Contents(h)'
  <2>1. Contents(h)' = [k \in Key |-> Get(r, k)']
    BY <1>3 DEF Contents
  <2>2. ASSUME NEW k \in Key PROVE a[k] = Get(r, k)'
    <3>1. Get(r, k)' = Get(c, k)'
      BY <1>3
    <3> QED BY <1>2, <3>1
  <2>3. a = [k \in Key |-> a[k]]
    BY DEF Maps!EmptyMap
  <2>4. a = [k \in Key |-> Get(r, k)']
    BY <2>2, <2>3
  <2> QED BY <2>1, <2>4
<1> QED BY <1>4 DEF Shows

\* A call on an empty tree.
LEMMA EmptyArrives ==
  ASSUME IInv, IInv', ShapeInv, ShapeInv', NEW h \in Handle, StartEmpty(h),
         call[h] \in Calls, NEW m, Underway(h, m)
  PROVE  Arrives(h)
<1>1. TypeOK /\ TypeOK' /\ m \in [Key -> Val \cup {None}] /\ Shows(h, m) /\ call[h] \in Call
  BY CallsAssumption DEF IInv, Underway
<1>2. /\ pc[h] = "next" /\ pc'[h] = "next" /\ todo[h] # <<>> /\ todo'[h] = Tail(todo[h])
      /\ root[h] = None /\ Step(h).op \in {"insert", "update"}
  BY <1>1 DEF TypeOK, StartEmpty, Running
<1>3. PICK s \in Call : s = Step(h)
  BY <1>1, <1>2, StepTyped
<1>4. Left(h) = todo[h] /\ Left(h)' = Tail(todo[h])
  BY <1>2 DEF Left
<1>5. OperationOf(s, call[h], m, seen[h])
  BY <1>1, <1>2, <1>3, <1>4, OperationMeans
<1>6. m = Maps!EmptyMap
  <2>1. m = Contents(h)
    BY <1>1, <1>2 DEF Shows, InTree
  <2>2. \A k : Get(None, k) = None
    BY GetNone
  <2>3. PICK r : r = root[h] /\ r = None
    BY <1>2
  <2>4. Contents(h) = [k \in Key |-> Get(r, k)]
    BY <2>3 DEF Contents
  <2> QED BY <2>1, <2>2, <2>3, <2>4 DEF Maps!EmptyMap
<1>7. ret'[h] = IF s.op = "insert" THEN Report(h, None)
                ELSE IF s.act = "panic" THEN "panic"
                ELSE IF s.act = "insert" THEN "true" ELSE "false"
  BY <1>1, <1>2, <1>3 DEF TypeOK, StartEmpty
<1>8. m[s.key] = None
  BY <1>3, <1>6 DEF Call, Maps!EmptyMap
<1>9. CASE s.op = "insert" \/ s.act = "insert"
  <2>1. PICK n \in Node \ Alive, t \in Nat : /\ heap' = [heap EXCEPT ![n] = NewLeaf(s.key, s.val, t)]
                                             /\ root' = [root EXCEPT ![h] = n]
    <3>1. /\ Free(h) # {}
          /\ heap' = [heap EXCEPT ![New1(h)] = NewLeaf(s.key, s.val, version[h] + 1)]
          /\ root' = [root EXCEPT ![h] = New1(h)]
      BY <1>3, <1>9 DEF StartEmpty
    <3>2. New1(h) \in Node \ Alive /\ version[h] + 1 \in Nat
      BY <1>1, <3>1, FreshNames DEF TypeOK
    <3> QED BY <3>1, <3>2
  <2>2. s.key \in Key /\ s.key \in Seq(Byte) /\ s.val \in Val
    BY <1>3, KeyAssumption DEF Call
  <2>3. heap'[n] = NewLeaf(s.key, s.val, t) /\ root'[h] = n /\ n \in Alive'
    <3>1. heap'[n] = NewLeaf(s.key, s.val, t) /\ root'[h] = n
      BY <1>1, <2>1 DEF TypeOK
    <3>2. NewLeaf(s.key, s.val, t) \in VersionedNode
      BY <2>1, <2>2 DEF NewLeaf, VersionedNode, NoKids
    <3> QED BY <2>1, <3>1, <3>2, NoneAssumption DEF Alive
  <2>4. heap'[n].prefix = s.key /\ heap'[n].kids = NoKids /\ heap'[n].value = s.val
    BY <2>3 DEF NewLeaf
  <2>5. PICK a : a = [m EXCEPT ![s.key] = s.val]
    OBVIOUS
  <2>6. Shows(h, a)'
    <3>1. TreeHeap'
      BY DEF TreeHeap, IInv, ShapeInv
    <3> QED BY <1>2, <1>6, <2>2, <2>3, <2>4, <2>5, <3>1, OneLeafShows DEF InTree
  <2>7. Brings(s) = s.val
    BY <1>2, <1>3, <1>9 DEF Brings
  <2>8. Shows(h, [m EXCEPT ![s.key] = Brings(s)])'
    BY <2>5, <2>6, <2>7
  <2>9. ret'[h] = IF s.op = "update" THEN "true" ELSE Report(h, m[s.key])
    BY <1>2, <1>3, <1>7, <1>8, <1>9
  <2> QED BY <1>1, <1>2, <1>3, <1>4, <1>9, <2>8, <2>9, ValueDone
<1>10. CASE s.op = "update" /\ s.act # "insert"
  <2>1. Shows(h, m)'
    <3>1. root'[h] = None
      BY <1>2, <1>3, <1>10 DEF StartEmpty
    <3>2. Shows(h, Maps!EmptyMap)'
      BY <1>2, <3>1, EmptyShows DEF InTree
    <3>3. Maps!EmptyMap' = Maps!EmptyMap
      BY DEF Maps!EmptyMap
    <3> QED BY <1>6, <3>2, <3>3
  <2>2. s = call[h] /\ call[h].op # "try_update"
    BY <1>5, <1>10 DEF OperationOf
  <2>3. s.act # "err"
    BY <1>10, <2>2, ActAssumption
  <2>4. m = Maps!After(m, s)
    BY <1>6, <1>8, <1>10 DEF Maps!After, Maps!Present
  <2>5. Maps!Answer(m, s) = IF s.act = "panic" THEN "panic" ELSE "false"
    BY <1>8, <1>10, <2>3 DEF Maps!Answer, Maps!Present
  <2>6. ret'[h] = IF call[h].op = "try_update" THEN ret[h] ELSE Maps!Answer(m, s)
    BY <1>7, <1>10, <2>2, <2>5
  <2> QED BY <1>1, <1>2, <1>3, <1>4, <2>1, <2>4, <2>6, OneDone
<1> QED BY <1>2, <1>3, <1>9, <1>10

-----------------------------------------------------------------------------
(* The operations that a call strings together *)

\* A value written over another is the one that stays.
LEMMA PutTwice ==
  ASSUME NEW m \in [Key -> Val \cup {None}], NEW k \in Key, NEW x, NEW y
  PROVE  [[m EXCEPT ![k] = x] EXCEPT ![k] = y] = [m EXCEPT ![k] = y]
OBVIOUS

\* get_mut on an occupied slot, and what comes after it.
LEMMA AfterWrite ==
  ASSUME NEW m \in [Key -> Val \cup {None}], NEW s, s.op = "get_mut", s.key \in Key, m[s.key] # None
  PROVE  Maps!After(m, s) = [m EXCEPT ![s.key] = s.val]
BY DEF Maps!After, Maps!Present, Maps!Put

\* ... and the two together.
LEMMA AfterTwo ==
  ASSUME NEW m \in [Key -> Val \cup {None}], NEW k \in Key, m[k] # None,
         NEW s, s.op = "get_mut", s.key = k, s.val # None,
         NEW t, t.op \in {"get_mut", "remove"}, t.key = k,
         NEW v, v = IF t.op = "remove" THEN None ELSE t.val
  PROVE  Maps!After(Maps!After(m, s), t) = [m EXCEPT ![k] = v]
<1>1. PICK a : a = [m EXCEPT ![k] = s.val]
  OBVIOUS
<1>2. Maps!After(m, s) = a
  BY <1>1, AfterWrite
<1>3. a[k] # None
  BY <1>1
<1>4. Maps!After(a, t) = [a EXCEPT ![k] = v]
  BY <1>3 DEF Maps!After, Maps!Present, Maps!Put
<1>5. [a EXCEPT ![k] = v] = [m EXCEPT ![k] = v]
  BY <1>1, PutTwice
<1> QED BY <1>2, <1>4, <1>5

\* The operations of try_update do what the call promises, its answer is the
\* one promised.
LEMMA TryUpdateLeads ==
  ASSUME NEW m \in [Key -> Val \cup {None}], NEW c \in Call, c.op = "try_update",
         NEW v, v = m[c.key]
  PROVE  OnTheWay(m, TryUpdateSteps(c, v), c, m, TryUpdateAnswer(c, v))
<1>1. c.key \in Key /\ c.val \in Val /\ c.act \in Act /\ c.val # None /\ Scratch # None
  BY NoneAssumption, ValAssumption DEF Call
<1>2. PICK steps : steps = TryUpdateSteps(c, v)
  OBVIOUS
<1>3. TryUpdateAnswer(c, v) = Maps!Answer(m, c)
  BY <1>1 DEF TryUpdateAnswer, Maps!Answer, Maps!Present, Act
<1>4. PICK ins : ins = [c EXCEPT !.op = "insert"]
  OBVIOUS
<1>5. PICK del : del = [c EXCEPT !.op = "remove"]
  OBVIOUS
<1>6. PICK s : s = [c EXCEPT !.op = "get_mut", !.val = Scratch]
  OBVIOUS
<1>7. PICK new : new = [c EXCEPT !.op = "get_mut", !.val = c.val]
  OBVIOUS
<1>8. PICK back : back = [c EXCEPT !.op = "get_mut", !.val = v]
  OBVIOUS
<1>9. /\ ins.key = c.key /\ ins.op = "insert" /\ ins.val = c.val
      /\ del.key = c.key /\ del.op = "remove"
      /\ s.key = c.key /\ s.op = "get_mut" /\ s.val = Scratch
      /\ new.key = c.key /\ new.op = "get_mut" /\ new.val = c.val
      /\ back.key = c.key /\ back.op = "get_mut" /\ back.val = v
  BY <1>4, <1>5, <1>6, <1>7, <1>8 DEF Call
<1>10. steps = IF v = None
               THEN IF c.act = "insert" THEN <<ins>> ELSE <<>>
               ELSE IF c.act = "insert" THEN <<s, new>>
               ELSE IF c.act = "remove" THEN <<s, del>>
               ELSE IF c.act = "err" THEN <<s, back>> ELSE <<s>>
  BY <1>2, <1>4, <1>5, <1>6, <1>7, <1>8 DEF TryUpdateSteps
<1>11. Leads(m, steps, c, m)
  <2>1. CASE v = None /\ c.act # "insert"
    <3>1. m = Maps!After(m, c)
      BY <2>1 DEF Maps!After, Maps!Present
    <3>2. Leads(m, <<>>, c, m)
      BY <3>1, LeadsNone
    <3> QED BY <1>10, <2>1, <3>2
  <2>2. CASE v = None /\ c.act = "insert"
    <3>1. Maps!After(m, ins) = Maps!After(m, c)
      BY <1>9, <2>2 DEF Maps!After, Maps!Present, Maps!Put
    <3>2. Leads(m, <<ins>>, c, m)
      BY <1>9, <3>1, LeadsOne
    <3> QED BY <1>10, <2>2, <3>2
  <2>3. CASE v # None /\ c.act \in {"insert", "remove", "err"}
    <3>1. PICK t : t = IF c.act = "insert" THEN new ELSE IF c.act = "remove" THEN del ELSE back
      OBVIOUS
    <3>2. PICK x : x = IF t.op = "remove" THEN None ELSE t.val
      OBVIOUS
    <3>3. t.key = c.key /\ t.op \in {"get_mut", "remove"} /\ x = Maps!OccupiedSlot(c, v)
      BY <1>9, <2>3, <3>1, <3>2 DEF Maps!OccupiedSlot
    <3>4. Maps!After(Maps!After(m, s), t) = [m EXCEPT ![c.key] = x]
      BY <1>1, <1>9, <2>3, <3>2, <3>3, AfterTwo
    <3>5. Maps!After(m, c) = [m EXCEPT ![c.key] = x]
      BY <2>3, <3>3 DEF Maps!After, Maps!Present, Maps!Put
    <3>6. Leads(m, <<s, t>>, c, m)
      <4>1. /\ t.op \notin {"update", "try_update"} /\ m[c.key] # None
            /\ Maps!After(Maps!After(m, s), t) = Maps!After(m, c)
        BY <2>3, <3>3, <3>4, <3>5
      <4> QED BY <1>1, <1>9, <3>3, <4>1, LeadsTwo
    <3>7. steps = <<s, t>>
      BY <1>10, <2>3, <3>1
    <3> QED BY <3>6, <3>7
  <2>4. CASE v # None /\ c.act \notin {"insert", "remove", "err"}
    <3>1. Maps!After(m, s) = [m EXCEPT ![c.key] = Scratch]
      BY <1>1, <1>9, <2>4, AfterWrite
    <3>2. Maps!After(m, c) = [m EXCEPT ![c.key] = Scratch]
      BY <2>4 DEF Maps!After, Maps!Present, Maps!Put, Maps!OccupiedSlot
    <3>3. Leads(m, <<s>>, c, m)
      BY <1>9, <2>4, <3>1, <3>2, LeadsOne
    <3> QED BY <1>10, <2>4, <3>3
  <2> QED BY <2>1, <2>2, <2>3, <2>4
<1> QED BY <1>2, <1>3, <1>11 DEF OnTheWay, RightAnswer

\* remove and get_mut of a key that is not there have nothing to do.
LEMMA AbsentLeads ==
  ASSUME NEW m \in [Key -> Val \cup {None}], NEW c \in Call, c.op \in {"remove", "get_mut"},
         m[c.key] = None
  PROVE  OnTheWay(m, <<>>, c, m, None)
<1>1. m = Maps!After(m, c)
  BY DEF Maps!After, Maps!Present, Maps!Put
<1>2. Maps!Answer(m, c) = None
  BY DEF Maps!Answer
<1> QED BY <1>1, <1>2, LeadsNone DEF OnTheWay, RightAnswer

\* Every other call is one operation.
LEMMA OneLeads ==
  ASSUME NEW m, NEW c \in Call, c.op # "try_update",
         c.op = "get_mut" => m[c.key] # None, NEW r
  PROVE  OnTheWay(m, <<c>>, c, m, r)
<1>1. Leads(m, <<c>>, c, m)
  BY LeadsOne
<1>2. <<c>> # <<>>
  OBVIOUS
<1> QED BY <1>1, <1>2 DEF OnTheWay, RightAnswer

\* The step that looks the key up and decides what to do.
LEMMA PlanArrives ==
  ASSUME IInv, NEW h \in Handle, Plan(h), call[h] \in Call,
         NEW m \in [Key -> Val \cup {None}], m = seen[h], Shows(h, m)
  PROVE  Arrives(h)
<1>1. PICK c \in Call : c = call[h]
  OBVIOUS
<1>2. PICK v : v = Get(root[h], c.key)
  OBVIOUS
<1>3. /\ TypeOK /\ pc[h] = "plan" /\ pc'[h] = "next" /\ root'[h] = root[h] /\ heap' = heap
      /\ todo'[h] = CASE c.op = "try_update" -> TryUpdateSteps(c, v)
                      [] c.op \in {"remove", "get_mut"} /\ v = None -> <<>>
                      [] OTHER -> <<c>>
      /\ ret'[h] = IF c.op = "try_update" THEN TryUpdateAnswer(c, v) ELSE None
  BY <1>1, <1>2 DEF IInv, TypeOK, Plan, Running, handleVars
<1>4. m = Contents(h)
  BY <1>3 DEF Shows, InTree
<1>5. v = m[c.key]
  BY <1>1, <1>2, <1>4 DEF Contents, Call
<1>6. Shows(h, m)'
  <2>1. Contents(h)' = Contents(h)
    <3>1. ASSUME NEW r, NEW k PROVE Get(r, k)' = Get(r, k)
      BY <1>3 DEF Get, Found, Path, Levels, GoesOn, Onward, Alive
    <3>2. PICK r : r = root[h] /\ r = root'[h]
      BY <1>3
    <3> QED BY <3>1, <3>2 DEF Contents
  <2> QED BY <1>3, <1>4, <2>1 DEF Shows, InTree
<1>7. Left(h)' = todo'[h]
  BY <1>3 DEF Left
<1>8. OnTheWay(m, todo'[h], c, m, ret'[h])
  <2>1. CASE c.op = "try_update"
    BY <1>3, <1>5, <2>1, TryUpdateLeads
  <2>2. CASE c.op \in {"remove", "get_mut"} /\ v = None
    BY <1>3, <1>5, <2>2, AbsentLeads
  <2>3. CASE c.op # "try_update" /\ ~(c.op \in {"remove", "get_mut"} /\ v = None)
    BY <1>3, <1>5, <2>3, OneLeads
  <2> QED BY <2>1, <2>2, <2>3
<1> QED BY <1>1, <1>6, <1>7, <1>8 DEF Arrives

-----------------------------------------------------------------------------
(* A step of the thread itself *)

\* The owner sees nothing of the step, ...
Unseen(h) == seen'[h] = seen[h] /\ PendingCall(h)' = PendingCall(h)

\* ... or it is where the call takes effect, all of it.
TakesEffect(h) ==
  /\ call[h] # None /\ PendingCall(h) = [call |-> call[h], done |-> FALSE, ret |-> None]
  /\ seen'[h] = Maps!After(seen[h], call[h])
  /\ PendingCall(h)' =
       [call |-> call[h], done |-> TRUE, ret |-> Maps!Answer(seen[h], call[h])]

\* A call that was on its way and still is, or has got where it leads.
LEMMA Arrived ==
  ASSUME NEW h \in Handle, call[h] # None, call[h] \in Calls, call'[h] = call[h], ~AtRest(h),
         pc'[h] \notin {"idle", "plan"}, pc'[h] = "edit" => NeedsCow(h)', Arrives(h),
         seen'[h] = IF AtRest(h)' THEN Contents(h)' ELSE seen[h]
  PROVE  MapOf(h)' /\ Meant(h)' /\ (Unseen(h) \/ TakesEffect(h))
<1>1. PICK m \in [Key -> Val \cup {None}] :
        Shows(h, m)' /\ OnTheWay(m, Left(h)', call[h], seen[h], ret'[h])
  BY DEF Arrives
<1>2. Meant(h)'
  BY DEF Meant
<1>3. Done(h) = FALSE /\ AtRest(h)' = Done(h)'
  BY DEF AtRest, Done
<1>4. PendingCall(h) = [call |-> call[h], done |-> FALSE, ret |-> None]
  BY <1>3 DEF PendingCall
<1>5. CASE Done(h)'
  <2>1. /\ Done(h)' = TRUE /\ pc'[h] = "next" /\ todo'[h] = <<>> /\ Left(h)' = <<>>
    BY <1>5 DEF Done, Left
  <2>2. m = Contents(h)' /\ seen'[h] = m
    BY <1>1, <1>3, <1>5, <2>1 DEF Shows, InTree
  <2>3. m = Maps!After(seen[h], call[h]) /\ ret'[h] = Maps!Answer(seen[h], call[h])
    <3>1. Leads(m, <<>>, call[h], seen[h]) /\ RightAnswer(<<>>, call[h], seen[h], ret'[h])
      BY <1>1, <2>1 DEF OnTheWay
    <3>2. Len(<<>>) = 0
      OBVIOUS
    <3> QED BY <3>1, <3>2 DEF Leads, RightAnswer
  <2>4. PendingCall(h)' =
          [call |-> call[h], done |-> TRUE, ret |-> Maps!Answer(seen[h], call[h])]
    BY <2>1, <2>3 DEF PendingCall
  <2>5. TakesEffect(h)
    BY <1>4, <2>2, <2>3, <2>4 DEF TakesEffect
  <2>6. MapOf(h)'
    <3>1. AtRest(h)'
      BY <1>3, <1>5
    <3>2. Progress(h, m)'
      BY <2>2, <3>1 DEF Progress
    <3> QED BY <1>1, <3>2 DEF MapOf
  <2> QED BY <1>2, <2>5, <2>6
<1>6. CASE ~Done(h)'
  <2>1. Done(h)' = FALSE /\ ~AtRest(h)' /\ seen'[h] = seen[h]
    BY <1>3, <1>6 DEF Done
  <2>2. PendingCall(h)' = PendingCall(h)
    BY <1>4, <2>1 DEF PendingCall
  <2>3. MapOf(h)'
    <3>1. /\ call'[h] # None /\ Leads(m, Left(h)', call'[h], seen'[h])
          /\ RightAnswer(Left(h)', call'[h], seen'[h], ret'[h])
      BY <1>1, <2>1 DEF OnTheWay
    <3>2. Progress(h, m)'
      BY <2>1, <3>1 DEF Progress
    <3> QED BY <1>1, <3>2 DEF MapOf
  <2> QED BY <1>2, <2>1, <2>2, <2>3 DEF Unseen
<1> QED BY <1>5, <1>6

\* What a node is good for does not depend on its stamp or its name.
LEMMA EnsureNeeds ==
  ASSUME IInv, NEW h \in Handle, EnsureCowOwned(h) \/ EnsureCowShared(h), pc'[h] = "edit"
  PROVE  NeedsCow(h)'
<1>1. /\ TypeOK /\ pc[h] = "visit" /\ NeedsCow(h) /\ todo'[h] = todo[h] /\ depth'[h] = depth[h]
  BY DEF IInv, TypeOK, EnsureCowOwned, EnsureCowShared, Ensuring, Ensured, Running, callVars, walkVars
<1>2. PICK n \in Node, nd \in VersionedNode : n = cur[h] /\ nd = heap[n] /\ n # None
  BY <1>1, AtHand DEF IInv
<1>3. PICK nd2 : nd2 = heap'[cur'[h]]
  OBVIOUS
<1>4. \E t : nd2 = [nd EXCEPT !.version = t]
  <2>1. CASE EnsureCowOwned(h)
    BY <1>1, <1>2, <1>3, <2>1 DEF TypeOK, EnsureCowOwned
  <2>2. CASE EnsureCowShared(h)
    <3>1. New1(h) \in Node \ Alive
      BY <1>1, <2>2, FreshNames DEF EnsureCowShared
    <3> QED BY <1>1, <1>2, <1>3, <2>2, <3>1 DEF TypeOK, EnsureCowShared, CowClone
  <2> QED BY <2>1, <2>2
<1>5. nd2.prefix = nd.prefix /\ nd2.value = nd.value /\ nd2.leaf = nd.leaf /\ nd2.kids = nd.kids
  BY <1>4 DEF VersionedNode
<1>6. \A k, d : Place(nd2, k, d) = Place(nd, k, d)
  BY <1>5 DEF Place, EdgeOf
<1>7. Step(h)' = Step(h) /\ PlaceOf(h)' = PlaceOf(h)
  BY <1>1, <1>2, <1>3, <1>6 DEF Step, PlaceOf
<1>8. Occupied(h)' = Occupied(h)
  BY <1>2, <1>3, <1>5, <1>7 DEF Occupied
<1> QED BY <1>1, <1>2, <1>3, <1>5, <1>7, <1>8 DEF NeedsCow

\* Where a call stands that is neither at rest nor about to begin.
LEMMA WasUnderway ==
  ASSUME NEW h \in Handle, MapOf(h), Meant(h), ~AtRest(h), pc[h] # "plan"
  PROVE  /\ \E m : Underway(h, m)
         /\ call[h] # None /\ call[h] \in Calls /\ call[h] \in Call
<1>1. PICK m \in [Key -> Val \cup {None}] : Progress(h, m) /\ Shows(h, m)
  BY DEF MapOf
<1>2. call[h] # None /\ OnTheWay(m, Left(h), call[h], seen[h], ret[h])
  BY <1>1 DEF Progress, OnTheWay
<1>3. Underway(h, m)
  BY <1>1, <1>2 DEF Underway
<1> QED BY <1>2, <1>3, CallsAssumption DEF Meant

\* The steps of a call but the first and the last, by what they do to the map.
Quiet(h) ==
  \/ Start(h) \/ EnsureCowOwned(h) \/ EnsureCowShared(h) \/ Descend(h) \/ Follow(h)
  \/ PathReady(h) \/ Reattach(h) \/ Backtrack(h) \/ Lift(h) \/ SwapChild(h)

Valued(h) == ReplaceValue(h) \/ TakeValue(h) \/ RemoveLeaf(h) \/ AddLeaf(h) \/ Split(h)

Working(h) ==
  \/ Quiet(h) \/ Install(h) \/ Valued(h) \/ WriteThrough(h) \/ Decline(h) \/ CallbackPanic(h)
  \/ StartEmpty(h)

\* All of them work on a call that goes on.
LEMMA WorkingMeans ==
  ASSUME IInv, NEW h \in Handle, Working(h)
  PROVE  /\ call'[h] = call[h] /\ ~AtRest(h) /\ pc[h] # "plan" /\ pc'[h] \notin {"idle", "plan"}
         /\ pc'[h] = "edit" => EnsureCowOwned(h) \/ EnsureCowShared(h)
<1>1. TypeOK
  BY DEF IInv
<1>2. CASE Start(h) \/ StartEmpty(h)
  BY <1>1, <1>2 DEF TypeOK, Start, StartEmpty, Running, AtRest, Done, callVars
<1>3. CASE EnsureCowOwned(h) \/ EnsureCowShared(h)
  BY <1>1, <1>3 DEF TypeOK, EnsureCowOwned, EnsureCowShared, Ensuring, Ensured, Running, AtRest,
    Done, callVars
<1>4. CASE Descend(h) \/ Follow(h) \/ PathReady(h) \/ Decline(h) \/ CallbackPanic(h)
  BY <1>1, <1>4 DEF TypeOK, Descend, Follow, PathReady, Decline, CallbackPanic, ReturnNode,
    Unwrapped, Running, AtRest, Done, callVars
<1>5. CASE Valued(h)
  BY <1>1, <1>5 DEF TypeOK, Valued, ReplaceValue, TakeValue, RemoveLeaf, AddLeaf, Split,
    ReturnNode, Unwrapped, Running, AtRest, Done
<1>6. CASE Reattach(h) \/ Backtrack(h) \/ Lift(h) \/ SwapChild(h) \/ Install(h) \/ WriteThrough(h)
  BY <1>1, <1>6 DEF TypeOK, Reattach, Backtrack, Lift, SwapChild, Install, WriteThrough,
    Unwrapped, Running, AtRest, Done, callVars
<1> QED BY <1>2, <1>3, <1>4, <1>5, <1>6 DEF Working, Quiet

\* Each of them brings the call on its way, or to its end.
LEMMA WorkingMap ==
  ASSUME IInv, IInv', ShapeInv, ShapeInv', NEW h \in Handle, ThreadRoute(h), ThreadBorrow(h),
         MapOf(h), Meant(h), Working(h),
         seen'[h] = IF AtRest(h)' THEN Contents(h)' ELSE seen[h]
  PROVE  MapOf(h)' /\ Meant(h)' /\ (Unseen(h) \/ TakesEffect(h))
<1>1. /\ call'[h] = call[h] /\ ~AtRest(h) /\ pc[h] # "plan" /\ pc'[h] \notin {"idle", "plan"}
      /\ pc'[h] = "edit" => EnsureCowOwned(h) \/ EnsureCowShared(h)
  BY WorkingMeans
<1>2. /\ \E m : Underway(h, m)
      /\ call[h] # None /\ call[h] \in Calls /\ call[h] \in Call
  BY <1>1, WasUnderway
<1>3. PICK m : Underway(h, m)
  BY <1>2
<1>4. pc'[h] = "edit" => NeedsCow(h)'
  BY <1>1, EnsureNeeds
<1>5. Arrives(h)
  <2>1. CASE Quiet(h)
    BY <1>3, <2>1, QuietArrives DEF Quiet
  <2>2. CASE Valued(h)
    <3>1. pc[h] = "edit" => NeedsCow(h)
      BY DEF Meant
    <3> QED BY <1>2, <1>3, <2>2, <3>1, ValueArrives DEF Valued
  <2>3. CASE Install(h)
    BY <1>3, <2>3, InstallArrives
  <2>4. CASE WriteThrough(h)
    BY <1>2, <1>3, <2>4, WriteArrives
  <2>5. CASE Decline(h)
    BY <1>2, <1>3, <2>5, DeclineArrives
  <2>6. CASE CallbackPanic(h)
    BY <1>2, <1>3, <2>6, PanicArrives
  <2>7. CASE StartEmpty(h)
    BY <1>2, <1>3, <2>7, EmptyArrives
  <2> QED BY <2>1, <2>2, <2>3, <2>4, <2>5, <2>6, <2>7 DEF Working
<1> QED BY <1>1, <1>2, <1>4, <1>5, Arrived

\* The call begins: what is to be done is decided on the map as the owner saw it.
LEMMA PlanMap ==
  ASSUME IInv, NEW h \in Handle, MapOf(h), Meant(h), Plan(h),
         seen'[h] = IF AtRest(h)' THEN Contents(h)' ELSE seen[h]
  PROVE  MapOf(h)' /\ Meant(h)' /\ (Unseen(h) \/ TakesEffect(h))
<1>1. /\ pc[h] = "plan" /\ pc'[h] = "next" /\ call'[h] = call[h]
  BY DEF IInv, TypeOK, Plan, Running
<1>2. call[h] # None /\ call[h] \in Calls /\ call[h] \in Call
  BY <1>1, CallsAssumption DEF Meant
<1>3. PICK m \in [Key -> Val \cup {None}] : Progress(h, m) /\ Shows(h, m)
  BY DEF MapOf
<1>4. m = seen[h]
  BY <1>1, <1>3 DEF Progress
<1>5. Arrives(h)
  BY <1>2, <1>3, <1>4, PlanArrives
<1>6. ~AtRest(h)
  BY <1>1 DEF AtRest, Done
<1> QED BY <1>1, <1>2, <1>5, <1>6, Arrived

\* What is let go of is nobody's map.
LEMMA ReleaseMap ==
  ASSUME IInv, IInv', ShapeInv, ShapeInv', NEW h \in Handle, ThreadRoute(h),
         MapOf(h), Meant(h), Release(h),
         seen'[h] = IF AtRest(h)' THEN Contents(h)' ELSE seen[h]
  PROVE  MapOf(h)' /\ Meant(h)' /\ Unseen(h)
<1>1. /\ TypeOK /\ pc'[h] = pc[h] /\ todo'[h] = todo[h] /\ call'[h] = call[h] /\ ret'[h] = ret[h]
      /\ cur'[h] = cur[h] /\ depth'[h] = depth[h]
  BY DEF IInv, Release, callVars, walkVars
<1>2. PICK m \in [Key -> Val \cup {None}] : Progress(h, m) /\ Shows(h, m)
  BY DEF MapOf
<1>3. Shows(h, m)'
  BY <1>2, ReleaseShows
<1>4. pc[h] = "edit" => NeedsCow(h)'
  <2>1. SUFFICES ASSUME pc[h] = "edit" PROVE NeedsCow(h)'
    OBVIOUS
  <2>2. NeedsCow(h)
    BY <2>1 DEF Meant
  <2>3. heap'[cur[h]] = heap[cur[h]]
    <3>1. PICK n \in drops[h] : heap' = IF LastReference(h, n) THEN [heap EXCEPT ![n] = None] ELSE heap
      BY DEF Release
    <3>2. LastReference(h, n) => n # cur[h]
      BY DEF LastReference
    <3>3. cur[h] \in Node
      BY <2>1, AtHand
    <3> QED BY <1>1, <3>1, <3>2, <3>3 DEF TypeOK
  <2> QED BY <1>1, <2>2, <2>3, NeedStays
<1>5. MapOf(h)' /\ Meant(h)' /\ seen'[h] = seen[h] /\ PendingCall(h)' = PendingCall(h)
  BY <1>1, <1>2, <1>3, <1>4, SameMap
<1> QED BY <1>5 DEF Unseen

-----------------------------------------------------------------------------
(* Calls come and go, and so do handles *)

\* A lookup that finds the heap as it was.
LEMMA SameLookups ==
  ASSUME heap' = heap, NEW g \in Handle, NEW h \in Handle, root'[h] = root[g]
  PROVE  Contents(h)' = Contents(g)
<1>1. ASSUME NEW r, NEW k PROVE Get(r, k)' = Get(r, k)
  BY DEF Get, Found, Path, Levels, GoesOn, Onward, Alive
<1>2. PICK r : r = root[g] /\ r = root'[h]
  OBVIOUS
<1> QED BY <1>1, <1>2 DEF Contents

\* At rest, the owner sees the tree.
LEMMA SeenAtRest ==
  ASSUME NEW h \in Handle, MapOf(h), AtRest(h)
  PROVE  seen[h] = Contents(h)
<1>1. PICK m \in [Key -> Val \cup {None}] : Progress(h, m) /\ Shows(h, m)
  BY DEF MapOf
<1>2. m = seen[h]
  BY <1>1 DEF Progress
<1>3. m = Contents(h)
  BY <1>1 DEF Shows, InTree, AtRest, Done
<1> QED BY <1>2, <1>3

\* Any lookup, before and after a step.
GetTypedLaw == TypeOK => \A r, k : Get(r, k) \in Val \cup {None}

\* GetTyped, to be cited of the state after a step.
LEMMA GetTypedHolds == GetTypedLaw
BY GetTyped DEF GetTypedLaw

\* ... and so it does when a handle comes to rest.
LEMMA RestsAgain ==
  ASSUME TypeOK', NEW h \in Handle, pc'[h] = "idle", call'[h] = None,
         seen'[h] = IF AtRest(h)' THEN Contents(h)' ELSE seen[h]
  PROVE  /\ MapOf(h)' /\ Meant(h)' /\ seen'[h] = Contents(h)' /\ PendingCall(h)' = None
         /\ seen'[h] \in [Key -> Val \cup {None}]
<1>1. AtRest(h)' /\ seen'[h] = Contents(h)'
  BY DEF AtRest
<1>2. Contents(h)' \in [Key -> Val \cup {None}]
  <2>1. ASSUME NEW r, NEW k PROVE Get(r, k)' \in Val \cup {None}
    <3>1. GetTypedLaw'
      BY GetTypedHolds, PTL
    <3> QED BY <3>1 DEF GetTypedLaw
  <2> QED BY <2>1 DEF Contents
<1>3. PICK m \in [Key -> Val \cup {None}] : m = Contents(h)'
  BY <1>2
<1>4. Progress(h, m)' /\ Shows(h, m)'
  BY <1>1, <1>3 DEF Progress, Shows, InTree
<1>5. MapOf(h)'
  BY <1>4 DEF MapOf
<1>6. Meant(h)' /\ PendingCall(h)' = None
  BY DEF Meant, PendingCall
<1> QED BY <1>1, <1>2, <1>5, <1>6

\* A call under way is not none.
LEMMA PendingRecord ==
  ASSUME NEW c \in Calls, NEW d \in BOOLEAN, NEW r \in Answers,
         NEW p, p = [call |-> c, done |-> d, ret |-> r]
  PROVE  p # None /\ p.call = c /\ p.done = d
<1>1. p \in [call : Calls, done : BOOLEAN, ret : Answers]
  OBVIOUS
<1>2. p # None
  BY <1>1, PendingAssumption
<1> QED BY <1>2

\* The call on h returns, its effect done.
LEMMA ReturnMap ==
  ASSUME IInv, IInv', NEW h \in Handle, MapOf(h), Meant(h), Return(h),
         seen'[h] = IF AtRest(h)' THEN Contents(h)' ELSE seen[h]
  PROVE  /\ MapOf(h)' /\ Meant(h)' /\ seen'[h] = seen[h]
         /\ PendingCall(h)' = None /\ PendingCall(h) # None /\ PendingCall(h).done
<1>1. /\ TypeOK /\ TypeOK' /\ pc[h] = "next" /\ todo[h] = <<>> /\ pc'[h] = "idle" /\ call'[h] = None
      /\ heap' = heap /\ root'[h] = root[h]
  BY DEF IInv, TypeOK, Return, Running, handleVars
<1>2. /\ MapOf(h)' /\ Meant(h)' /\ seen'[h] = Contents(h)' /\ PendingCall(h)' = None
  BY <1>1, RestsAgain
<1>3. Contents(h)' = Contents(h)
  BY <1>1, SameLookups
<1>4. seen[h] = Contents(h)
  BY <1>1, SeenAtRest DEF AtRest, Done
<1>5. PICK c \in Calls : c = call[h] /\ c # None
  BY <1>1 DEF Meant
<1>6. PICK r \in Answers : r = ret[h]
  BY <1>1 DEF TypeOK
<1>7. PendingCall(h) = [call |-> c, done |-> TRUE, ret |-> r]
  <2>1. Done(h) = TRUE
    BY <1>1 DEF Done
  <2> QED BY <1>5, <1>6, <2>1 DEF PendingCall
<1>8. PendingCall(h) # None /\ PendingCall(h).done
  <2>1. PICK d \in BOOLEAN : d = TRUE
    OBVIOUS
  <2>2. PICK p : p = [call |-> c, done |-> d, ret |-> r]
    OBVIOUS
  <2>3. p # None /\ p.done = d
    BY <1>5, <1>6, <2>2, PendingRecord
  <2>4. PendingCall(h) = p
    BY <1>7, <2>1, <2>2
  <2> QED BY <2>1, <2>3, <2>4
<1> QED BY <1>2, <1>3, <1>4, <1>8

\* The owner of h makes the call c.
LEMMA InvokeMap ==
  ASSUME IInv, NEW h \in Handle, NEW c \in Calls, MapOf(h), Meant(h), Invoke(h, c),
         seen'[h] = IF AtRest(h)' THEN Contents(h)' ELSE seen[h]
  PROVE  /\ MapOf(h)' /\ Meant(h)' /\ seen'[h] = seen[h] /\ PendingCall(h) = None
         /\ PendingCall(h)' = [call |-> c, done |-> FALSE, ret |-> None]
<1>1. /\ TypeOK /\ pc[h] = "idle" /\ pc'[h] = "plan" /\ call'[h] = c /\ c # None
      /\ heap' = heap /\ root'[h] = root[h]
  BY NoneAssumption, CallsAssumption DEF IInv, TypeOK, Invoke, Running, handleVars
<1>2. ~AtRest(h)' /\ Done(h)' = FALSE /\ seen'[h] = seen[h]
  BY <1>1 DEF AtRest, Done
<1>3. PICK m \in [Key -> Val \cup {None}] : Progress(h, m) /\ Shows(h, m)
  BY DEF MapOf
<1>4. Contents(h)' = Contents(h)
  BY <1>1, SameLookups
<1>5. m = seen[h] /\ m = Contents(h)
  BY <1>1, <1>3 DEF Progress, AtRest, Shows, InTree
<1>6. Progress(h, m)' /\ Shows(h, m)'
  BY <1>1, <1>2, <1>4, <1>5 DEF Progress, Shows, InTree
<1>7. MapOf(h)'
  BY <1>6 DEF MapOf
<1>8. PendingCall(h) = None
  BY <1>1 DEF Meant, PendingCall
<1>9. PendingCall(h)' = [call |-> c, done |-> FALSE, ret |-> None]
  BY <1>1, <1>2 DEF PendingCall
<1>10. Meant(h)'
  BY <1>1 DEF Meant
<1> QED BY <1>2, <1>7, <1>8, <1>9, <1>10

\* A handle comes or goes.
LEMMA HandleMap ==
  ASSUME IInv, IInv', NEW h \in Handle, MapOf(h), Meant(h),
         seen'[h] = IF AtRest(h)' THEN Contents(h)' ELSE seen[h]
  PROVE  /\ New(h) => /\ MapOf(h)' /\ Meant(h)' /\ Unseen(h)
         /\ DropHandle(h) => /\ MapOf(h)' /\ Meant(h)' /\ seen'[h] = Maps!EmptyMap
                             /\ PendingCall(h) = None /\ PendingCall(h)' = None
         /\ \A g \in Handle, v \in Nat : CopyHandle(g, h, v) /\ MapOf(g) /\ Meant(g) =>
              /\ MapOf(h)' /\ Meant(h)' /\ seen'[h] = seen[g]
              /\ PendingCall(g) = None /\ PendingCall(h)' = PendingCall(h)
<1>1. TypeOK /\ TypeOK'
  BY DEF IInv
<1>2. ASSUME pc[h] = "idle", pc' = pc, call' = call
      PROVE  /\ MapOf(h)' /\ Meant(h)' /\ seen'[h] = Contents(h)' /\ PendingCall(h)' = None
             /\ PendingCall(h) = None
  <2>1. pc'[h] = "idle" /\ call[h] = None /\ call'[h] = None
    BY <1>2 DEF Meant
  <2> QED BY <1>1, <2>1, RestsAgain DEF PendingCall
<1>3. ASSUME New(h) PROVE MapOf(h)' /\ Meant(h)' /\ Unseen(h)
  <2>1. pc[h] = "idle" /\ pc' = pc /\ call' = call /\ heap' = heap /\ root'[h] = root[h]
    BY <1>3 DEF New, Running, callVars
  <2>2. Contents(h)' = Contents(h) /\ seen[h] = Contents(h)
    BY <2>1, SameLookups, SeenAtRest DEF AtRest
  <2> QED BY <1>2, <2>1, <2>2 DEF Unseen
<1>4. ASSUME DropHandle(h)
      PROVE  /\ MapOf(h)' /\ Meant(h)' /\ seen'[h] = Maps!EmptyMap
             /\ PendingCall(h) = None /\ PendingCall(h)' = None
  <2>1. pc[h] = "idle" /\ pc' = pc /\ call' = call /\ root'[h] = None
    BY <1>1, <1>4 DEF TypeOK, DropHandle, Running, callVars
  <2>2. Maps!EmptyMap = Contents(h)'
    BY <2>1, EmptyShows DEF InTree
  <2> QED BY <1>2, <2>1, <2>2
<1>5. ASSUME NEW g \in Handle, NEW v \in Nat, CopyHandle(g, h, v), MapOf(g), Meant(g)
      PROVE  /\ MapOf(h)' /\ Meant(h)' /\ seen'[h] = seen[g]
             /\ PendingCall(g) = None /\ PendingCall(h)' = PendingCall(h)
  <2>1. /\ pc[h] = "idle" /\ pc[g] = "idle" /\ pc' = pc /\ call' = call /\ heap' = heap
        /\ root'[h] = root[g]
    BY <1>1, <1>5 DEF TypeOK, CopyHandle, Running, callVars
  <2>2. Contents(h)' = Contents(g) /\ seen[g] = Contents(g)
    BY <1>5, <2>1, SameLookups, SeenAtRest DEF AtRest
  <2>3. PendingCall(g) = None
    BY <1>5, <2>1 DEF Meant, PendingCall
  <2> QED BY <1>2, <2>1, <2>2, <2>3
<1> QED BY <1>3, <1>4, <1>5

-----------------------------------------------------------------------------
(* Every step is a step of SnapshotMaps, or none *)

\* The owners of the other handles see nothing of a step on h.
Elsewhere(h) ==
  \A g \in Handle \ {h} : seen'[g] = seen[g] /\ PendingCall(g)' = PendingCall(g)

\* What all owners see, as a function.
Typed == seen \in [Handle -> [Key -> Val \cup {None}]]

\* So only h's map and call change.
LEMMA OnlyHere ==
  ASSUME NEW h \in Handle, Typed, Typed', Elsewhere(h)
  PROVE  /\ seen' = [seen EXCEPT ![h] = seen'[h]]
         /\ [g \in Handle |-> PendingCall(g)]' =
              [[g \in Handle |-> PendingCall(g)] EXCEPT ![h] = PendingCall(h)']
BY DEF Elsewhere, Typed

\* No owner sees anything of the step.
LEMMA UnseenStep ==
  ASSUME NEW h \in Handle, Typed, Typed', Elsewhere(h), Unseen(h)
  PROVE  /\ seen' = seen
         /\ [g \in Handle |-> PendingCall(g)]' = [g \in Handle |-> PendingCall(g)]
BY DEF Elsewhere, Unseen, Typed

\* The step where the call on h takes effect.
LEMMA EffectStep ==
  ASSUME NEW h \in Handle, Typed, Typed', Elsewhere(h), TakesEffect(h), call[h] \in Calls,
         live' = live
  PROVE  Maps!AbsTakeEffect(h)
<1>1. PICK c \in Calls : c = call[h]
  OBVIOUS
<1>2. PICK d \in BOOLEAN : d = FALSE
  OBVIOUS
<1>3. PICK r \in Answers : r = None
  BY DEF Answers
<1>4. PICK p : p = PendingCall(h) /\ p = [call |-> c, done |-> d, ret |-> r]
  BY <1>1, <1>2, <1>3 DEF TakesEffect
<1>5. p # None /\ p.call = c /\ p.done = d
  BY <1>4, PendingRecord
<1>6. PICK P : P = [g \in Handle |-> PendingCall(g)]
  OBVIOUS
<1>7. P[h] = p
  BY <1>4, <1>6
<1>8. seen' = [seen EXCEPT ![h] = Maps!After(seen[h], c)]
  BY <1>1, OnlyHere DEF TakesEffect
<1>9. [g \in Handle |-> PendingCall(g)]' =
        [P EXCEPT ![h] = [call |-> c, done |-> TRUE, ret |-> Maps!Answer(seen[h], c)]]
  BY <1>1, <1>6, OnlyHere DEF TakesEffect
<1>10. P[h] # None /\ P[h].call = c /\ ~P[h].done
  BY <1>2, <1>5, <1>7
<1> QED BY <1>6, <1>8, <1>9, <1>10 DEF Maps!AbsTakeEffect

\* The call on h returns.
LEMMA ReturnStep ==
  ASSUME NEW h \in Handle, Typed, Typed', Elsewhere(h), seen'[h] = seen[h],
         PendingCall(h)' = None, PendingCall(h) # None, PendingCall(h).done, live' = live
  PROVE  Maps!AbsReturn(h)
<1>1. PICK P : P = [g \in Handle |-> PendingCall(g)]
  OBVIOUS
<1>2. P[h] # None /\ P[h].done
  BY <1>1
<1>3. seen' = seen /\ [g \in Handle |-> PendingCall(g)]' = [P EXCEPT ![h] = None]
  BY <1>1, OnlyHere DEF Typed
<1> QED BY <1>1, <1>2, <1>3 DEF Maps!AbsReturn

\* The owner of h makes the call c.
LEMMA InvokeStep ==
  ASSUME NEW h \in Handle, NEW c \in Calls, Typed, Typed', Elsewhere(h), seen'[h] = seen[h],
         PendingCall(h) = None, PendingCall(h)' = [call |-> c, done |-> FALSE, ret |-> None],
         h \in live, live' = live
  PROVE  Maps!AbsInvoke(h, c)
<1>1. PICK P : P = [g \in Handle |-> PendingCall(g)]
  OBVIOUS
<1>2. P[h] = None
  BY <1>1
<1>3. /\ seen' = [seen EXCEPT ![h] = seen'[h]]
      /\ [g \in Handle |-> PendingCall(g)]' = [P EXCEPT ![h] = PendingCall(h)']
  BY <1>1, OnlyHere
<1>4. seen' = seen
  BY <1>3 DEF Typed
<1>5. [g \in Handle |-> PendingCall(g)]' =
        [P EXCEPT ![h] = [call |-> c, done |-> FALSE, ret |-> None]]
  BY <1>3
<1> QED BY <1>1, <1>2, <1>4, <1>5 DEF Maps!AbsInvoke

\* The handle h is copied from g.
LEMMA CopyStep ==
  ASSUME NEW h \in Handle, NEW g \in Handle, Typed, Typed', Elsewhere(h), seen'[h] = seen[g],
         PendingCall(g) = None, PendingCall(h)' = PendingCall(h),
         g \in live, h \notin live, live' = live \cup {h}
  PROVE  Maps!AbsCopy(g, h)
<1>1. PICK P : P = [x \in Handle |-> PendingCall(x)]
  OBVIOUS
<1>2. P[g] = None
  BY <1>1
<1>3. /\ seen' = [seen EXCEPT ![h] = seen[g]]
      /\ [x \in Handle |-> PendingCall(x)]' = [P EXCEPT ![h] = PendingCall(h)]
  BY <1>1, OnlyHere
<1>4. [P EXCEPT ![h] = PendingCall(h)] = P
  BY <1>1
<1> QED BY <1>1, <1>2, <1>3, <1>4 DEF Maps!AbsCopy

\* The handle h is dropped.
LEMMA DropStep ==
  ASSUME NEW h \in Handle, Typed, Typed', Elsewhere(h), seen'[h] = Maps!EmptyMap,
         PendingCall(h) = None, PendingCall(h)' = None, h \in live, live' = live \ {h}
  PROVE  Maps!AbsDrop(h)
<1>1. PICK P : P = [x \in Handle |-> PendingCall(x)]
  OBVIOUS
<1>2. P[h] = None
  BY <1>1
<1>3. /\ seen' = [seen EXCEPT ![h] = Maps!EmptyMap]
      /\ [x \in Handle |-> PendingCall(x)]' = [P EXCEPT ![h] = None]
  BY <1>1, OnlyHere
<1>4. [P EXCEPT ![h] = None] = P
  BY <1>1
<1> QED BY <1>1, <1>2, <1>3, <1>4 DEF Maps!AbsDrop

\* A step on h, by what it does to the handles.
LEMMA StepsOn ==
  ASSUME NEW h \in Handle, Advance(h) \/ Use(h)
  PROVE  \/ Release(h) \/ Plan(h) \/ Return(h) \/ Working(h)
         \/ New(h) \/ DropHandle(h)
         \/ \E g \in Handle : CopyHandle(g, h, version[g]) \/ CopyHandle(g, h, version[g] + 1)
         \/ \E c \in Calls : Invoke(h, c)
BY DEF Advance, Use, Clone, Snapshot, Working, Quiet, Valued

\* A call at work leaves the set of handles alone.
LEMMA SameHandles ==
  ASSUME NEW h \in Handle, Release(h) \/ Plan(h) \/ Return(h) \/ Working(h)
  PROVE  live' = live
<1>1. CASE Release(h) \/ Plan(h) \/ Return(h)
  BY <1>1 DEF Release, Plan, Return, handleVars
<1>2. CASE Quiet(h)
  BY <1>2 DEF Quiet, Start, EnsureCowOwned, EnsureCowShared, Descend, Follow, PathReady,
    Reattach, Backtrack, Lift, SwapChild, Ensured, handleVars
<1>3. CASE Valued(h)
  BY <1>3 DEF Valued, ReplaceValue, TakeValue, RemoveLeaf, AddLeaf, Split, handleVars
<1>4. CASE Install(h) \/ WriteThrough(h) \/ Decline(h) \/ CallbackPanic(h) \/ StartEmpty(h)
  BY <1>4 DEF Install, WriteThrough, Decline, CallbackPanic, StartEmpty, handleVars
<1> QED BY <1>1, <1>2, <1>3, <1>4 DEF Working
\* The step on h itself: what it means for its tree, its call and its owner.
LEMMA StepHere ==
  ASSUME IInv, IInv', ShapeInv, ShapeInv', NEW h \in Handle, ThreadRoute(h), ThreadBorrow(h),
         Advance(h) \/ Use(h), \A g \in Handle : MapOf(g) /\ Meant(g),
         seen'[h] = IF AtRest(h)' THEN Contents(h)' ELSE seen[h],
         Typed, Typed', Elsewhere(h)
  PROVE  MapOf(h)' /\ Meant(h)' /\ [Maps!AbsNext]_(Maps!absVars)
<1>1. MapOf(h) /\ Meant(h)
  OBVIOUS
<1>2. live' = live /\ Unseen(h) => UNCHANGED Maps!absVars
  BY UnseenStep DEF Maps!absVars
<1>3. live' = live /\ TakesEffect(h) => Maps!AbsNext
  <2>1. SUFFICES ASSUME live' = live, TakesEffect(h) PROVE Maps!AbsNext
    OBVIOUS
  <2>2. call[h] \in Calls
    BY <1>1, <2>1 DEF Meant, TakesEffect
  <2>3. Maps!AbsTakeEffect(h)
    BY <2>1, <2>2, EffectStep
  <2> QED BY <2>3 DEF Maps!AbsNext
<1>4. CASE Release(h)
  <2>1. MapOf(h)' /\ Meant(h)' /\ Unseen(h)
    BY <1>1, <1>4, ReleaseMap
  <2> QED BY <1>2, <1>4, <2>1, SameHandles
<1>5. CASE Plan(h)
  <2>1. MapOf(h)' /\ Meant(h)' /\ (Unseen(h) \/ TakesEffect(h))
    BY <1>1, <1>5, PlanMap
  <2>2. live' = live
    BY <1>5, SameHandles
  <2> QED BY <1>2, <1>3, <2>1, <2>2
<1>6. CASE Working(h)
  <2>1. MapOf(h)' /\ Meant(h)' /\ (Unseen(h) \/ TakesEffect(h))
    BY <1>1, <1>6, WorkingMap
  <2>2. live' = live
    BY <1>6, SameHandles
  <2> QED BY <1>2, <1>3, <2>1, <2>2
<1>7. CASE Return(h)
  <2>1. /\ MapOf(h)' /\ Meant(h)' /\ seen'[h] = seen[h]
        /\ PendingCall(h)' = None /\ PendingCall(h) # None /\ PendingCall(h).done
    BY <1>1, <1>7, ReturnMap
  <2>2. live' = live
    BY <1>7, SameHandles
  <2>3. Maps!AbsReturn(h)
    BY <2>1, <2>2, ReturnStep
  <2> QED BY <2>1, <2>3 DEF Maps!AbsNext
<1>8. CASE New(h)
  <2>1. MapOf(h)' /\ Meant(h)' /\ Unseen(h)
    BY <1>1, <1>8, HandleMap
  <2>2. Maps!AbsNew(h)
    <3>1. h \notin live /\ live' = live \cup {h}
      BY <1>8 DEF New
    <3> QED BY <2>1, <3>1, UnseenStep DEF Maps!AbsNew
  <2> QED BY <2>1, <2>2 DEF Maps!AbsNext
<1>9. CASE DropHandle(h)
  <2>1. /\ MapOf(h)' /\ Meant(h)' /\ seen'[h] = Maps!EmptyMap
        /\ PendingCall(h) = None /\ PendingCall(h)' = None
    BY <1>1, <1>9, HandleMap
  <2>2. h \in live /\ live' = live \ {h}
    BY <1>9 DEF DropHandle
  <2>3. Maps!AbsDrop(h)
    BY <2>1, <2>2, DropStep
  <2> QED BY <2>1, <2>3 DEF Maps!AbsNext
<1>10. ASSUME NEW g \in Handle, NEW v \in Nat, CopyHandle(g, h, v)
       PROVE  MapOf(h)' /\ Meant(h)' /\ Maps!AbsNext
  <2>1. MapOf(g) /\ Meant(g)
    OBVIOUS
  <2>2. /\ MapOf(h)' /\ Meant(h)' /\ seen'[h] = seen[g]
        /\ PendingCall(g) = None /\ PendingCall(h)' = PendingCall(h)
    BY <1>1, <1>10, <2>1, HandleMap
  <2>3. g \in live /\ h \notin live /\ live' = live \cup {h}
    BY <1>10 DEF CopyHandle
  <2>4. Maps!AbsCopy(g, h)
    BY <2>2, <2>3, CopyStep
  <2> QED BY <2>2, <2>4 DEF Maps!AbsNext
<1>11. ASSUME NEW g \in Handle, CopyHandle(g, h, version[g]) \/ CopyHandle(g, h, version[g] + 1)
       PROVE  MapOf(h)' /\ Meant(h)' /\ Maps!AbsNext
  <2>1. version \in [Handle -> Nat]
    <3>1. TypeOK
      BY DEF IInv
    <3> QED BY <3>1 DEF TypeOK
  <2>2. version[g] \in Nat /\ version[g] + 1 \in Nat
    BY <2>1
  <2> QED BY <1>10, <1>11, <2>2
<1>12. ASSUME NEW c \in Calls, Invoke(h, c)
       PROVE  MapOf(h)' /\ Meant(h)' /\ Maps!AbsNext
  <2>1. /\ MapOf(h)' /\ Meant(h)' /\ seen'[h] = seen[h] /\ PendingCall(h) = None
        /\ PendingCall(h)' = [call |-> c, done |-> FALSE, ret |-> None]
    BY <1>1, <1>12, InvokeMap
  <2>2. h \in live /\ live' = live
    BY <1>12 DEF Invoke, handleVars
  <2>3. Maps!AbsInvoke(h, c)
    BY <2>1, <2>2, InvokeStep
  <2> QED BY <2>1, <2>3 DEF Maps!AbsNext
<1> QED BY <1>4, <1>5, <1>6, <1>7, <1>8, <1>9, <1>11, <1>12, StepsOn

\* What an owner sees is a map.
LEMMA SeenTyped ==
  ASSUME TypeOK', Typed,
         seen' = [h \in Handle |-> IF AtRest(h)' THEN Contents(h)' ELSE seen[h]]
  PROVE  Typed'
<1>1. ASSUME NEW r, NEW k PROVE Get(r, k)' \in Val \cup {None}
  <2>1. GetTypedLaw'
    BY GetTypedHolds, PTL
  <2> QED BY <2>1 DEF GetTypedLaw
<1>2. ASSUME NEW h \in Handle PROVE Contents(h)' \in [Key -> Val \cup {None}]
  BY <1>1 DEF Contents
<1>3. ASSUME NEW h \in Handle
      PROVE  (IF AtRest(h)' THEN Contents(h)' ELSE seen[h]) \in [Key -> Val \cup {None}]
  BY <1>2 DEF Typed
<1> QED BY <1>3 DEF Typed

\* Every step keeps the invariant, and is a step of SnapshotMaps or none.
LEMMA NextMap ==
  ASSUME IInv, IInv', ShapeInv, ShapeInv', PathInv, MapInv, RNext
  PROVE  MapInv' /\ [Maps!AbsNext]_(Maps!absVars)
<1>1. PICK h \in Handle : Advance(h) \/ Use(h)
  BY DEF RNext, Watch, Next
<1>2. \A g \in Handle : ThreadRoute(g) /\ ThreadBorrow(g)
  BY DEF PathInv, RouteInv, BorrowInv
<1>3. Typed /\ \A g \in Handle : MapOf(g) /\ Meant(g)
  BY DEF MapInv, Typed
<1>4. seen' = [g \in Handle |-> IF AtRest(g)' THEN Contents(g)' ELSE seen[g]]
  BY DEF RNext, Watch
<1>5. Typed'
  BY <1>3, <1>4, SeenTyped DEF IInv
<1>6. \A g \in Handle : seen'[g] = IF AtRest(g)' THEN Contents(g)' ELSE seen[g]
  BY <1>4
<1>7. ASSUME NEW g \in Handle \ {h}
      PROVE  MapOf(g)' /\ Meant(g)' /\ seen'[g] = seen[g] /\ PendingCall(g)' = PendingCall(g)
  <2>1. ThreadBorrow(h) /\ ThreadRoute(g) /\ MapOf(g) /\ Meant(g)
    BY <1>2, <1>3
  <2>2. seen'[g] = IF AtRest(g)' THEN Contents(g)' ELSE seen[g]
    BY <1>6
  <2> QED BY <1>1, <2>1, <2>2, OthersMap
<1>8. Elsewhere(h)
  BY <1>7 DEF Elsewhere
<1>9. MapOf(h)' /\ Meant(h)' /\ [Maps!AbsNext]_(Maps!absVars)
  <2>1. ThreadRoute(h) /\ ThreadBorrow(h)
    BY <1>2
  <2>2. seen'[h] = IF AtRest(h)' THEN Contents(h)' ELSE seen[h]
    BY <1>6
  <2> QED BY <1>1, <1>3, <1>5, <1>8, <2>1, <2>2, StepHere
<1>10. \A g \in Handle : MapOf(g)' /\ Meant(g)'
  BY <1>7, <1>9
<1> QED BY <1>5, <1>9, <1>10 DEF MapInv, Typed
\* Nothing happens.
LEMMA StutterMap ==
  ASSUME MapInv, UNCHANGED rvars
  PROVE  MapInv'
<1>1. /\ seen' = seen /\ heap' = heap /\ root' = root /\ pc' = pc /\ todo' = todo /\ call' = call
      /\ ret' = ret /\ cur' = cur /\ depth' = depth /\ trail' = trail /\ res' = res
  BY DEF rvars, vars
<1>2. ASSUME NEW r, NEW k PROVE Get(r, k)' = Get(r, k)
  BY <1>1 DEF Get, Found, Path, Levels, GoesOn, Onward, Alive
<1>3. ASSUME NEW h \in Handle PROVE MapOf(h)' /\ Meant(h)'
  <2>1. MapOf(h) /\ Meant(h)
    BY DEF MapInv
  <2>2. PICK m \in [Key -> Val \cup {None}] : Progress(h, m) /\ Shows(h, m)
    BY <2>1 DEF MapOf
  <2>3. Step(h)' = Step(h) /\ PlaceOf(h)' = PlaceOf(h)
    BY <1>1 DEF Step, PlaceOf
  <2>4. Contents(h)' = Contents(h)
    BY <1>1, <1>2 DEF Contents
  <2>5. AtRest(h)' = AtRest(h) /\ Left(h)' = Left(h)
    BY <1>1, <2>3 DEF AtRest, Done, Left
  <2>6. Progress(h, m)'
    BY <1>1, <2>2, <2>5 DEF Progress
  <2>7. Shows(h, m)'
    <3>1. Frames(h)' = Frames(h) /\ \A i : DepthBelow(h, i)' = DepthBelow(h, i)
      BY <1>1 DEF Frames, DepthBelow
    <3>2. \A k : InnerGet(h, k)' = InnerGet(h, k) /\ (Inside(h, k)' <=> Inside(h, k))
      BY <1>1, <1>2, <2>3 DEF InnerGet, Inside
    <3>3. \A i, k : Reaches(h, i, k)' <=> Reaches(h, i, k)
      BY <1>1, <2>3 DEF Reaches
    <3>4. \A i : FrameShows(h, i, m)' <=> FrameShows(h, i, m)
      BY <1>1, <1>2, <2>3, <3>1, <3>3 DEF FrameShows
    <3>5. InnerShows(h, m)' <=> InnerShows(h, m)
      BY <3>2 DEF InnerShows
    <3> QED BY <1>1, <2>2, <2>4, <3>1, <3>4, <3>5 DEF Shows
  <2>8. NeedsCow(h)' <=> NeedsCow(h)
    BY <1>1, <2>3 DEF NeedsCow, Occupied
  <2> QED BY <1>1, <2>1, <2>6, <2>7, <2>8 DEF MapOf, Meant
<1> QED BY <1>1, <1>3 DEF MapInv

\* To begin with there are no handles, and no map holds anything.
LEMMA InitMap ==
  ASSUME RInit
  PROVE  MapInv /\ Maps!AbsInit
<1>1. \A h \in Handle : /\ root[h] = None /\ pc[h] = "idle" /\ call[h] = None
                        /\ seen[h] = Contents(h)
  BY DEF RInit, Init
<1>2. ASSUME NEW h \in Handle PROVE Contents(h) = Maps!EmptyMap
  <2>1. \A k : Get(root[h], k) = None
    BY <1>1, GetNone
  <2> QED BY <2>1 DEF Contents, Maps!EmptyMap
<1>3. PICK e : e = Maps!EmptyMap
  OBVIOUS
<1>4. e \in [Key -> Val \cup {None}]
  BY <1>3 DEF Maps!EmptyMap
<1>5. seen = [h \in Handle |-> e]
  BY <1>2, <1>3 DEF RInit
<1>6. ASSUME NEW h \in Handle PROVE MapOf(h) /\ Meant(h) /\ PendingCall(h) = None
  <2>1. Progress(h, e) /\ Shows(h, e)
    BY <1>1, <1>2, <1>3, <1>5 DEF Progress, AtRest, Shows, InTree
  <2> QED BY <1>1, <1>4, <2>1 DEF MapOf, Meant, PendingCall
<1>7. MapInv
  BY <1>4, <1>5, <1>6 DEF MapInv
<1>8. Maps!AbsInit
  BY <1>3, <1>5, <1>6 DEF RInit, Init, Maps!AbsInit
<1> QED BY <1>7, <1>8

\* With what the owners see beside them, the trees behave as without.
LEMMA SameBehaviour == RSpec => Spec
<1>1. RInit => Init
  BY DEF RInit
<1>2. [RNext]_rvars => [Next]_vars
  BY DEF RNext, rvars
<1> QED BY <1>1, <1>2, PTL DEF RSpec, Spec

\* Every handle stands for a map at all times, even while a call has its tree
\* in pieces, and its call is on the way from the map that its owner saw to the
\* one that the operation says.
THEOREM MapInvariance == RSpec => []MapInv
<1>1. RInit => MapInv
  BY InitMap
<1>2. IInv /\ IInv' /\ ShapeInv /\ ShapeInv' /\ PathInv /\ MapInv /\ [RNext]_rvars => MapInv'
  BY NextMap, StutterMap
<1> QED
  BY <1>1, <1>2, SameBehaviour, Invariance, ShapeInvariance, PathInvariance, PTL DEF RSpec

\* Where the calls stand, and what maps the pieces in their hands are.
THEOREM CallInvariance == RSpec => []CallInv
BY SameBehaviour, PathInvariance, MapInvariance, PTL DEF CallInv

\* From any tree to begin with, every step of the copy-on-write trees is a step
\* of SnapshotMaps or none: a clone or a snapshot copies a map, and a call
\* changes its own handle's map in one step, as the operation says, and no
\* other's, whatever nodes the trees share.
THEOREM IsolationStepsHold == RSpec => IsolationSteps
<1>1. /\ IInv /\ IInv' /\ ShapeInv /\ ShapeInv' /\ PathInv /\ MapInv /\ [RNext]_rvars
      => [Maps!AbsNext]_(Maps!absVars)
  <2>1. ASSUME IInv, IInv', ShapeInv, ShapeInv', PathInv, MapInv, RNext
        PROVE  [Maps!AbsNext]_(Maps!absVars)
    BY <2>1, NextMap
  <2>2. ASSUME UNCHANGED rvars PROVE UNCHANGED Maps!absVars
    BY <2>2 DEF rvars, vars, Maps!absVars, PendingCall, Done
  <2> QED BY <2>1, <2>2
<1> QED
  BY <1>1, MapInvariance, SameBehaviour, Invariance, ShapeInvariance, PathInvariance, PTL
  DEF RSpec, IsolationSteps

\* VersionedTree implements SnapshotMaps: the trees that share nodes behave, to
\* their owners, as maps that share nothing.
THEOREM IsolationHolds == RSpec => Isolation
<1>1. RInit => Maps!AbsInit
  BY InitMap
<1> QED BY <1>1, IsolationStepsHold, PTL DEF RSpec, Isolation, IsolationSteps, Maps!AbsSpec
=============================================================================
