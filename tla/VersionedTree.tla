--------------------------- MODULE VersionedTree ---------------------------
(***************************************************************************)
(* The copy-on-write heap behind VersionedAdaptiveRadixTree                *)
(* (rart/src/versioned_tree.rs).                                           *)
(*                                                                         *)
(* A handle is a root pointer and a version number.  Handles share nodes   *)
(* through Arc; each handle is used by one thread at a time (a mutating    *)
(* call takes &mut self), but different handles are used by different      *)
(* threads, so calls on different handles interleave between any two       *)
(* steps of a call.  What threads see of each other is only whether an     *)
(* Arc is held by someone else: Arc::try_unwrap and the release of a       *)
(* reference ask exactly that (SoleCur, LastReference).                    *)
(*                                                                         *)
(* A recursive call (insert_recurse, remove_recurse, cow_path_to_key,      *)
(* update_recurse) is a descent and a return: `cur` is the Arc passed to   *)
(* the running activation, `trail` the nodes of the suspended ones, `res`  *)
(* the Arc being returned.  insert, remove and get_mut take the child out  *)
(* of its parent (delete_child) before they descend; update clones the     *)
(* child's Arc and leaves it in the parent.                                *)
(***************************************************************************)
EXTENDS Naturals, Sequences, FiniteSets, SequencesExt

CONSTANTS
  Handle,     \* handles
  Node,       \* names for VersionedNode allocations
  Arena,      \* Arena[h] : the names the thread that owns h gives its allocations
  Byte,       \* key bytes
  Key,        \* keys: sequences of bytes
  Val,        \* values
  Scratch,    \* what a callback writes to the slot it is lent
  None,       \* Option::None
  Calls,      \* the calls that users make
  MaxVersion  \* bound on a handle's version (u64 in the code)

Op == {"insert", "remove", "get_mut", "update", "try_update"}
Act == {"none", "insert", "remove", "keep", "err", "panic"}

Call == [op : Op, key : Key, val : Val, act : Act]

VersionedNode ==
  [prefix : Seq(Byte), value : Val \cup {None}, leaf : BOOLEAN,
   kids : [Byte -> Node \cup {None}], version : Nat]

\* A suspended activation: its node, the edge it went down, and its depth.
Frame == [node : Node, edge : Byte, depth : Nat]

Phase == {"idle", "plan", "next", "visit", "edit", "up", "lift", "fix", "write"}

Answers == Val \cup {None, "true", "false", "err", "panic"}

\* There is only so much memory.
ASSUME NodeAssumption == IsFiniteSet(Node)
ASSUME KeyAssumption == Key \subseteq Seq(Byte)
ASSUME ArenaAssumption == Arena \in [Handle -> SUBSET Node]
ASSUME ValAssumption == Scratch \in Val
ASSUME CallsAssumption == Calls \subseteq Call
ASSUME BoundAssumption == MaxVersion \in Nat
\* UpdateAction, unlike what try_update_k's callback returns, has no error.
ASSUME ActAssumption == \A c \in Calls : c.op = "update" => c.act # "err"
ASSUME NoneAssumption ==
  /\ None \notin Node /\ None \notin Val /\ None \notin Byte
  /\ None \notin Call /\ None \notin VersionedNode

VARIABLES
  heap,      \* heap[n] : the node allocated as n, or None
  live,      \* the handles that exist
  root,      \* root[h] : the handle's root Arc (None also while a call holds it)
  version,   \* version[h]
  call,      \* call[h] : the public call running on h, or None
  todo,      \* todo[h] : the internal operations it still has to perform
  ret,       \* ret[h] : its answer
  pc,        \* pc[h] : where the running operation stands
  cur,       \* cur[h] : the Arc in the hands of the running activation
  depth,     \* depth[h] : bytes of the key above the running activation's node
  trail,     \* trail[h] : the suspended activations, root first
  edge,      \* edge[h] : the edge byte of the activation update has resumed
  res,       \* res[h] : the Arc being returned to the caller
  drops      \* drops[h] : Arcs the thread has let go of and not yet released

handleVars == <<live, root, version>>
callVars == <<call, todo, ret>>
walkVars == <<depth, trail, edge>>
vars == <<heap, live, root, version, call, todo, ret, pc, cur, depth, trail,
          edge, res, drops>>

-----------------------------------------------------------------------------
(* Nodes *)

NoKids == [b \in Byte |-> None]

\* VersionedNode::new_leaf and new_inner
NewLeaf(p, v, t) ==
  [prefix |-> p, value |-> v, leaf |-> TRUE, kids |-> NoKids, version |-> t]

NewInner(p, v, kids, t) ==
  [prefix |-> p, value |-> v, leaf |-> FALSE, kids |-> kids, version |-> t]

\* cow_clone_inner: prefix and value are cloned, the children are shared.
CowClone(nd, t) == [nd EXCEPT !.version = t]

\* add_child: a leaf is promoted to an inner node first.
AddChild(nd, b, c) == [nd EXCEPT !.leaf = FALSE, !.kids = [nd.kids EXCEPT ![b] = c]]

DeleteChild(nd, b) == [nd EXCEPT !.kids = [nd.kids EXCEPT ![b] = None]]

Alive == {n \in Node : heap[n] # None}

Children(nd) == {nd.kids[b] : b \in Byte} \ {None}

\* Names for up to three new allocations.
Pick(S) == CHOOSE n \in S : TRUE
Free(h) == Arena[h] \ Alive
New1(h) == Pick(Free(h))
New2(h) == Pick(Free(h) \ {New1(h)})
New3(h) == Pick(Free(h) \ {New1(h), New2(h)})

-----------------------------------------------------------------------------
(* Matching a node's prefix against the rest of a key *)

\* KeyTrait::to_partial(d)
Rest(k, d) == SubSeq(k, d + 1, Len(k))

\* Partial::prefix_length_key
PrefixLengthKey(p, k, d) ==
  Cardinality({i \in 1..Len(p) : d + i <= Len(k) /\ \A j \in 1..i : p[j] = k[d + j]})

\* The byte that leads from nd to the child for k.
EdgeOf(nd, k, d) == k[d + Len(nd.prefix) + 1]

\* The cases that insert_recurse and update_recurse tell apart, in their order.
Place(nd, k, d) ==
  LET common == PrefixLengthKey(nd.prefix, k, d)
      length == Len(k) - d
  IN  CASE common = Len(nd.prefix) /\ common = length -> "at"
        [] common # Len(nd.prefix) /\ common = length -> "inside"
        [] common # Len(nd.prefix) /\ common # length -> "diverges"
        [] OTHER -> IF nd.leaf THEN "below"
                    ELSE IF nd.kids[EdgeOf(nd, k, d)] = None
                         THEN "missing" ELSE "child"

\* A stop of the walk for k is a node and the bytes of k above it.  The walk
\* goes on from w if there is a child for k.
GoesOn(w, k) == Place(heap[w.node], k, w.depth) = "child"

Onward(w, k) ==
  [node  |-> heap[w.node].kids[EdgeOf(heap[w.node], k, w.depth)],
   depth |-> w.depth + Len(heap[w.node].prefix)]

Levels(r, k) ==
  LET level[i \in 0..Len(k) + 1] ==
        IF i = 0 THEN {[node |-> r, depth |-> 0]}
        ELSE {Onward(w, k) : w \in {u \in level[i - 1] : GoesOn(u, k)}}
  IN  level

\* The nodes get_iterate visits for k from r, each with the depth it has there.
Path(r, k) ==
  LET levels == Levels(r, k)
  IN  IF r = None THEN {} ELSE UNION {levels[i] : i \in 0..Len(k) + 1}

\* The node where the walk for k ends well, if it does.
Found(r, k) ==
  {w.node : w \in {u \in Path(r, k) :
                     u.node \in Alive /\ Place(heap[u.node], k, u.depth) = "at"}}

\* get_k, get_iterate
Get(r, k) ==
  LET found == Found(r, k) IN IF found = {} THEN None ELSE heap[Pick(found)].value

-----------------------------------------------------------------------------
(* References.  A node is held by roots, by parents, and by threads. *)

TrailNodes(h) == {trail[h][i].node : i \in DOMAIN trail[h]}

InHand(h) == ({cur[h], res[h]} \cup TrailNodes(h) \cup drops[h]) \ {None}

HeldByRoot(n) == \E g \in Handle : root[g] = n

HeldByParent(n) == \E m \in Alive : \E b \in Byte : heap[m].kids[b] = n

HeldElsewhere(h, n) ==
  \/ HeldByRoot(n) \/ HeldByParent(n)
  \/ \E g \in Handle \ {h} : n \in InHand(g)

\* Arc::try_unwrap(cur) would succeed: the strong count is 1.
SoleCur(h) ==
  /\ ~HeldElsewhere(h, cur[h])
  /\ cur[h] # res[h] /\ cur[h] \notin TrailNodes(h) /\ cur[h] \notin drops[h]

\* Releasing n would take its strong count to 0.
LastReference(h, n) ==
  ~HeldElsewhere(h, n) /\ n \notin {cur[h], res[h]} \cup TrailNodes(h)

\* The fields that hold n.
Links(n) == {l \in Alive \X Byte : heap[l[1]].kids[l[2]] = n}

\* Arc::get_mut succeeds on every node from the root down to the key: each has
\* one reference, the root from the handle, the others from the node above.
PathUnshared(h, k) ==
  \A n \in {w.node : w \in Path(root[h], k)} :
    /\ \A g \in Handle : n \notin InHand(g)
    /\ \A g \in Handle \ {h} : root[g] # n
    /\ IF n = root[h] THEN Links(n) = {} ELSE \A l, m \in Links(n) : l = m

-----------------------------------------------------------------------------
(* The running operation *)

Running(h, phase) == pc[h] = phase /\ drops[h] = {}

Step(h) == Head(todo[h])

TopDown(h) == Step(h).op # "update"

\* insert, remove and get_mut bump the handle's version before they start,
\* update_k only once something changed.
Target(h) == IF TopDown(h) THEN version[h] ELSE version[h] + 1

PlaceOf(h) == Place(heap[cur[h]], Step(h).key, depth[h])

Occupied(h) == PlaceOf(h) = "at" /\ heap[cur[h]].value # None

\* update_recurse calls back with Slot::Vacant from here.
Vacant(h) == ~TopDown(h) /\ PlaceOf(h) # "child" /\ ~Occupied(h)

\* try_update answers what its callback decided, the others what they found.
Report(h, answer) == IF call[h].op = "try_update" THEN ret[h] ELSE answer

\* The activation leaves with the Arc n; a caller or the handle takes it.
ReturnNode(h, n) ==
  /\ res' = [res EXCEPT ![h] = n]
  /\ cur' = [cur EXCEPT ![h] = None]
  /\ pc' = [pc EXCEPT ![h] = "up"]

-----------------------------------------------------------------------------
(* Handles *)

Init ==
  /\ heap = [n \in Node |-> None]
  /\ live = {}
  /\ root = [h \in Handle |-> None]
  /\ version = [h \in Handle |-> 0]
  /\ call = [h \in Handle |-> None]
  /\ todo = [h \in Handle |-> <<>>]
  /\ ret = [h \in Handle |-> None]
  /\ pc = [h \in Handle |-> "idle"]
  /\ cur = [h \in Handle |-> None]
  /\ depth = [h \in Handle |-> 0]
  /\ trail = [h \in Handle |-> <<>>]
  /\ edge = [h \in Handle |-> None]
  /\ res = [h \in Handle |-> None]
  /\ drops = [h \in Handle |-> {}]

New(h) ==
  /\ h \notin live /\ Running(h, "idle")
  /\ live' = live \cup {h}
  /\ UNCHANGED <<heap, root, version, callVars, pc, cur, walkVars, res, drops>>

\* The copy g -> h gets the root Arc and the version v.
CopyHandle(g, h, v) ==
  /\ g \in live /\ Running(g, "idle")
  /\ h \notin live /\ Running(h, "idle")
  /\ v <= MaxVersion
  /\ live' = live \cup {h}
  /\ root' = [root EXCEPT ![h] = root[g]]
  /\ version' = [version EXCEPT ![h] = v]
  /\ UNCHANGED <<heap, callVars, pc, cur, walkVars, res, drops>>

\* Clone::clone keeps the version, snapshot() adds one.
Clone(g, h) == CopyHandle(g, h, version[g])

Snapshot(g, h) == CopyHandle(g, h, version[g] + 1)

\* Dropping the handle drops its root Arc.
DropHandle(h) ==
  /\ h \in live /\ Running(h, "idle")
  /\ live' = live \ {h}
  /\ root' = [root EXCEPT ![h] = None]
  /\ version' = [version EXCEPT ![h] = 0]
  /\ drops' = [drops EXCEPT ![h] = {root[h]} \ {None}]
  /\ UNCHANGED <<heap, callVars, pc, cur, walkVars, res>>

\* Fault: a freed node keeps its children.
ReleaseShallow(h) ==
  \E n \in drops[h] :
  /\ heap' = IF LastReference(h, n) THEN [heap EXCEPT ![n] = None] ELSE heap
  /\ drops' = [drops EXCEPT ![h] = @ \ {n}]
  /\ UNCHANGED <<handleVars, callVars, pc, cur, walkVars, res>>

\* Drop of an Arc: the last reference frees the node and drops its children.
\* (The order is that of the node's mapping, which the model leaves open.)
Release(h) ==
  \E n \in drops[h] :
  /\ IF LastReference(h, n)
     THEN /\ heap' = [heap EXCEPT ![n] = None]
          /\ drops' = [drops EXCEPT ![h] = (@ \ {n}) \cup Children(heap[n])]
     ELSE /\ drops' = [drops EXCEPT ![h] = @ \ {n}]
          /\ UNCHANGED heap
  /\ UNCHANGED <<handleVars, callVars, pc, cur, walkVars, res>>

-----------------------------------------------------------------------------
(* Public calls *)

Invoke(h, c) ==
  /\ h \in live /\ Running(h, "idle")
  /\ version[h] + (IF c.op = "try_update" THEN 2 ELSE 1) <= MaxVersion
  /\ call' = [call EXCEPT ![h] = c]
  /\ pc' = [pc EXCEPT ![h] = "plan"]
  /\ UNCHANGED <<heap, handleVars, todo, ret, cur, walkVars, res, drops>>

\* Fault: the old value is not put back when the callback fails.
TryUpdateStepsNoRollback(c, old) ==
  LET write(v) == [c EXCEPT !.op = "get_mut", !.val = v] IN
  CASE old = None -> IF c.act = "insert" THEN <<[c EXCEPT !.op = "insert"]>> ELSE <<>>
    [] old # None /\ c.act = "insert" -> <<write(Scratch), write(c.val)>>
    [] old # None /\ c.act = "remove" -> <<write(Scratch), [c EXCEPT !.op = "remove"]>>
    [] OTHER -> <<write(Scratch)>>

\* try_update_k: the operations it strings together once get_k has told it
\* whether the slot is occupied and its callback has answered c.act.
TryUpdateSteps(c, old) ==
  LET write(v) == [c EXCEPT !.op = "get_mut", !.val = v]
      insert == [c EXCEPT !.op = "insert"]
      delete == [c EXCEPT !.op = "remove"]
  IN  IF old = None
      THEN IF c.act = "insert" THEN <<insert>> ELSE <<>>
      ELSE CASE c.act = "insert" -> <<write(Scratch), write(c.val)>>
             [] c.act = "remove" -> <<write(Scratch), delete>>
             [] c.act = "err"    -> <<write(Scratch), write(old)>>
             [] OTHER            -> <<write(Scratch)>>

TryUpdateAnswer(c, old) ==
  CASE c.act \in {"err", "panic"} -> c.act
    [] c.act = "insert" -> "true"
    [] OTHER -> IF old = None THEN "false" ELSE "true"

\* remove, delete and get_mut look the key up before they change anything.
Plan(h) ==
  LET c == call[h]
      old == Get(root[h], c.key)
      steps == CASE c.op = "try_update" -> TryUpdateSteps(c, old)
                 [] c.op \in {"remove", "get_mut"} /\ old = None -> <<>>
                 [] OTHER -> <<c>>
  IN
  /\ Running(h, "plan")
  /\ todo' = [todo EXCEPT ![h] = steps]
  /\ ret' = [ret EXCEPT ![h] = IF c.op = "try_update" THEN TryUpdateAnswer(c, old) ELSE None]
  /\ pc' = [pc EXCEPT ![h] = "next"]
  /\ UNCHANGED <<heap, handleVars, call, cur, walkVars, res, drops>>

\* insert_k or update_k on an empty tree
StartEmpty(h) ==
  LET s == Step(h)
      inserts == s.op = "insert" \/ s.act = "insert"
      t == version[h] + 1
  IN
  /\ Running(h, "next") /\ todo[h] # <<>> /\ root[h] = None
  /\ s.op \in {"insert", "update"}
  /\ IF inserts
     THEN /\ Free(h) # {}
          /\ heap' = [heap EXCEPT ![New1(h)] = NewLeaf(s.key, s.val, t)]
          /\ root' = [root EXCEPT ![h] = New1(h)]
          /\ version' = [version EXCEPT ![h] = t]
     ELSE UNCHANGED <<heap, root, version>>
  /\ ret' = [ret EXCEPT ![h] = IF s.op = "insert" THEN Report(h, None)
                               ELSE IF s.act = "panic" THEN "panic"
                               ELSE IF inserts THEN "true" ELSE "false"]
  /\ todo' = [todo EXCEPT ![h] = Tail(@)]
  /\ UNCHANGED <<live, call, pc, cur, walkVars, res, drops>>

\* Fault: the handle's version is not bumped before the recursion.
StartSameVersion(h) ==
  /\ Running(h, "next") /\ todo[h] # <<>> /\ root[h] # None
  /\ cur' = [cur EXCEPT ![h] = root[h]]
  /\ root' = [root EXCEPT ![h] = None]
  /\ depth' = [depth EXCEPT ![h] = 0]
  /\ pc' = [pc EXCEPT ![h] = "visit"]
  /\ UNCHANGED <<heap, live, version, callVars, trail, edge, res, drops>>

\* Fault: a root that carries the handle's version is taken to be unshared.
StartTrusting(h) ==
  LET trusted == Step(h).op = "get_mut" /\ heap[root[h]].version = version[h] IN
  /\ Running(h, "next") /\ todo[h] # <<>> /\ root[h] # None
  /\ IF trusted
     THEN /\ pc' = [pc EXCEPT ![h] = "write"]
          /\ UNCHANGED <<cur, root, version>>
     ELSE /\ pc' = [pc EXCEPT ![h] = "visit"]
          /\ cur' = [cur EXCEPT ![h] = root[h]]
          /\ root' = [root EXCEPT ![h] = None]
          /\ version' = [version EXCEPT ![h] = IF TopDown(h) THEN @ + 1 ELSE @]
  /\ depth' = [depth EXCEPT ![h] = 0]
  /\ UNCHANGED <<heap, live, callVars, trail, edge, res, drops>>

\* The root Arc is taken out of the handle and passed to the recursion.
Start(h) ==
  /\ Running(h, "next") /\ todo[h] # <<>> /\ root[h] # None
  /\ cur' = [cur EXCEPT ![h] = root[h]]
  /\ root' = [root EXCEPT ![h] = None]
  /\ version' = [version EXCEPT ![h] = IF TopDown(h) THEN @ + 1 ELSE @]
  /\ depth' = [depth EXCEPT ![h] = 0]
  /\ pc' = [pc EXCEPT ![h] = "visit"]
  /\ UNCHANGED <<heap, live, callVars, trail, edge, res, drops>>

Return(h) ==
  /\ Running(h, "next") /\ todo[h] = <<>>
  /\ call' = [call EXCEPT ![h] = None]
  /\ ret' = [ret EXCEPT ![h] = None]
  /\ pc' = [pc EXCEPT ![h] = "idle"]
  /\ UNCHANGED <<heap, handleVars, todo, cur, walkVars, res, drops>>

-----------------------------------------------------------------------------
(* Descent *)

\* The cases of visit in which the operation goes on with ensure_cow_node(cur).
NeedsCow(h) ==
  LET p == PlaceOf(h)
      s == Step(h)
  IN  CASE s.op = "insert"  -> p \in {"at", "below", "missing", "child"}
        [] s.op = "remove"  -> p = "child" \/ (p = "at" /\ ~heap[cur[h]].leaf)
        [] s.op = "get_mut" -> p \in {"at", "child"}
        [] OTHER -> Occupied(h) \/ (s.act = "insert" /\ p \in {"at", "below", "missing"})

\* ensure_cow_node is called on the way down, and by update on the way up.
Ensuring(h) ==
  \/ Running(h, "visit") /\ NeedsCow(h)
  \/ Running(h, "lift")

Ensured(h) == pc' = [pc EXCEPT ![h] = IF @ = "visit" THEN "edit" ELSE "fix"]

\* Fault: any stamp up to the target is taken for ownership.
EnsureCowAnyStamp(h) ==
  /\ Ensuring(h)
  /\ heap[cur[h]].version <= Target(h) \/ SoleCur(h)
  /\ heap' = [heap EXCEPT ![cur[h]].version = Target(h)]
  /\ Ensured(h)
  /\ UNCHANGED <<handleVars, callVars, cur, walkVars, res, drops>>

\* ensure_cow_node: a node already stamped with the target version is used as
\* it is; one that nobody else holds is stamped and used as it is.
EnsureCowOwned(h) ==
  /\ Ensuring(h)
  /\ heap[cur[h]].version = Target(h) \/ SoleCur(h)
  /\ heap' = [heap EXCEPT ![cur[h]].version = Target(h)]
  /\ Ensured(h)
  /\ UNCHANGED <<handleVars, callVars, cur, walkVars, res, drops>>

\* Fault: the copy is stamped with the handle's version, not the target.
EnsureCowOldStamp(h) ==
  /\ Ensuring(h)
  /\ heap[cur[h]].version # Target(h) /\ ~SoleCur(h)
  /\ Free(h) # {}
  /\ heap' = [heap EXCEPT ![New1(h)] = CowClone(heap[cur[h]], version[h])]
  /\ cur' = [cur EXCEPT ![h] = New1(h)]
  /\ drops' = [drops EXCEPT ![h] = {cur[h]}]
  /\ Ensured(h)
  /\ UNCHANGED <<handleVars, callVars, walkVars, res>>

\* ensure_cow_node: a shared node is copied, and the shared Arc let go of.
EnsureCowShared(h) ==
  /\ Ensuring(h)
  /\ heap[cur[h]].version # Target(h) /\ ~SoleCur(h)
  /\ Free(h) # {}
  /\ heap' = [heap EXCEPT ![New1(h)] = CowClone(heap[cur[h]], Target(h))]
  /\ cur' = [cur EXCEPT ![h] = New1(h)]
  /\ drops' = [drops EXCEPT ![h] = {cur[h]}]
  /\ Ensured(h)
  /\ UNCHANGED <<handleVars, callVars, walkVars, res>>

\* Each caller of ensure_cow_node unwraps the Arc it got and panics if somebody
\* else holds it too; from a state with pc = "edit" or "fix" in which SoleCur
\* fails there is no step, and NoUnwrapPanic says that there is no such state.
Unwrapped(h, phase) == Running(h, phase) /\ SoleCur(h)

\* insert, remove, get_mut: take the child out and recurse into it.
Descend(h) ==
  LET n == cur[h]
      b == EdgeOf(heap[n], Step(h).key, depth[h])
  IN
  /\ Unwrapped(h, "edit") /\ TopDown(h) /\ PlaceOf(h) = "child"
  /\ heap' = [heap EXCEPT ![n] = DeleteChild(@, b)]
  /\ cur' = [cur EXCEPT ![h] = heap[n].kids[b]]
  /\ trail' = [trail EXCEPT ![h] = Append(@, [node |-> n, edge |-> b, depth |-> depth[h]])]
  /\ depth' = [depth EXCEPT ![h] = @ + Len(heap[n].prefix)]
  /\ pc' = [pc EXCEPT ![h] = "visit"]
  /\ UNCHANGED <<handleVars, callVars, edge, res, drops>>

\* update: clone the child's Arc and recurse; the node is not touched.
Follow(h) ==
  LET n == cur[h]
      b == EdgeOf(heap[n], Step(h).key, depth[h])
  IN
  /\ Running(h, "visit") /\ ~TopDown(h) /\ PlaceOf(h) = "child"
  /\ cur' = [cur EXCEPT ![h] = heap[n].kids[b]]
  /\ trail' = [trail EXCEPT ![h] = Append(@, [node |-> n, edge |-> b, depth |-> depth[h]])]
  /\ depth' = [depth EXCEPT ![h] = @ + Len(heap[n].prefix)]
  /\ UNCHANGED <<heap, handleVars, callVars, pc, edge, res, drops>>

-----------------------------------------------------------------------------
(* The end of the descent *)

Writes(h) == Step(h).op = "insert" \/ (~TopDown(h) /\ Step(h).act \in {"insert", "keep"})

\* The value goes into the node found; an update that keeps what it was lent
\* leaves there what its callback made of it.
ReplaceValue(h) ==
  LET s == Step(h)
      v == IF ~TopDown(h) /\ s.act = "keep" THEN Scratch ELSE s.val
  IN
  /\ Unwrapped(h, "edit") /\ PlaceOf(h) = "at" /\ Writes(h)
  /\ heap' = [heap EXCEPT ![cur[h]].value = v]
  /\ ret' = [ret EXCEPT ![h] =
               IF s.op = "insert" THEN Report(h, heap[cur[h]].value) ELSE "true"]
  /\ ReturnNode(h, cur[h])
  /\ UNCHANGED <<handleVars, call, todo, walkVars, drops>>

\* A node left with neither value nor children is not returned.
TakeValue(h) ==
  LET n == cur[h]
      s == Step(h)
      empties == heap[n].kids = NoKids
  IN
  /\ Unwrapped(h, "edit") /\ PlaceOf(h) = "at"
  /\ s.op = "remove" \/ (~TopDown(h) /\ s.act = "remove")
  /\ heap' = [heap EXCEPT ![n] = IF empties THEN None ELSE [@ EXCEPT !.value = None]]
  /\ ret' = [ret EXCEPT ![h] =
               IF s.op = "remove" THEN Report(h, heap[n].value) ELSE "true"]
  /\ ReturnNode(h, IF empties THEN None ELSE n)
  /\ UNCHANGED <<handleVars, call, todo, walkVars, drops>>

\* remove and delete let go of a leaf without copying it.
RemoveLeaf(h) ==
  /\ Running(h, "visit") /\ Step(h).op = "remove"
  /\ PlaceOf(h) = "at" /\ heap[cur[h]].leaf
  /\ ret' = [ret EXCEPT ![h] = Report(h, heap[cur[h]].value)]
  /\ drops' = [drops EXCEPT ![h] = {cur[h]}]
  /\ ReturnNode(h, None)
  /\ UNCHANGED <<heap, handleVars, call, todo, walkVars>>

\* Fault: the leaf's prefix starts after the edge byte.
AddLeafPastEdge(h) ==
  LET n == cur[h]
      s == Step(h)
      d == depth[h] + Len(heap[n].prefix)
      b == EdgeOf(heap[n], s.key, depth[h])
  IN
  /\ Unwrapped(h, "edit") /\ PlaceOf(h) \in {"below", "missing"}
  /\ Free(h) # {}
  /\ heap' = [heap EXCEPT ![New1(h)] = NewLeaf(Rest(s.key, d + 1), s.val, Target(h)),
                          ![n] = AddChild(@, b, New1(h))]
  /\ ret' = [ret EXCEPT ![h] = IF TopDown(h) THEN Report(h, None) ELSE "true"]
  /\ ReturnNode(h, n)
  /\ UNCHANGED <<handleVars, call, todo, walkVars, drops>>

\* A new leaf below a leaf, or on an edge the node does not have.
AddLeaf(h) ==
  LET n == cur[h]
      s == Step(h)
      d == depth[h] + Len(heap[n].prefix)
      b == EdgeOf(heap[n], s.key, depth[h])
  IN
  /\ Unwrapped(h, "edit") /\ PlaceOf(h) \in {"below", "missing"}
  /\ Free(h) # {}
  /\ heap' = [heap EXCEPT ![New1(h)] = NewLeaf(Rest(s.key, d), s.val, Target(h)),
                          ![n] = AddChild(@, b, New1(h))]
  /\ ret' = [ret EXCEPT ![h] = IF TopDown(h) THEN Report(h, None) ELSE "true"]
  /\ ReturnNode(h, n)
  /\ UNCHANGED <<handleVars, call, todo, walkVars, drops>>

\* The key ends inside the node's prefix or leaves it: a new inner node takes
\* the common part and a copy of the node, made whether it is shared or not.
Split(h) ==
  LET n == cur[h]
      nd == heap[n]
      s == Step(h)
      t == Target(h)
      common == PrefixLengthKey(nd.prefix, s.key, depth[h])
      ends == PlaceOf(h) = "inside"
      copy == [CowClone(nd, t) EXCEPT !.prefix = SubSeq(@, common + 1, Len(@))]
      leaf == NewLeaf(Rest(s.key, depth[h] + common), s.val, t)
      kids == [NoKids EXCEPT ![nd.prefix[common + 1]] = New2(h)]
      head == SubSeq(nd.prefix, 1, common)
  IN
  /\ Running(h, "visit") /\ PlaceOf(h) \in {"inside", "diverges"}
  /\ s.op = "insert" \/ (~TopDown(h) /\ s.act = "insert")
  /\ Free(h) \ {New1(h), New2(h)} # {}
  /\ heap' = IF ends
             THEN [heap EXCEPT ![New1(h)] = NewInner(head, s.val, kids, t), ![New2(h)] = copy]
             ELSE [heap EXCEPT
                     ![New1(h)] = NewInner(head, None,
                       [kids EXCEPT ![s.key[depth[h] + common + 1]] = New3(h)], t),
                     ![New2(h)] = copy, ![New3(h)] = leaf]
  /\ ret' = [ret EXCEPT ![h] = IF TopDown(h) THEN Report(h, None) ELSE "true"]
  /\ drops' = [drops EXCEPT ![h] = {n}]
  /\ ReturnNode(h, New1(h))
  /\ UNCHANGED <<handleVars, call, todo, walkVars>>

\* cow_path_to_key has reached the key's node.
PathReady(h) ==
  /\ Unwrapped(h, "edit") /\ Step(h).op = "get_mut" /\ PlaceOf(h) = "at"
  /\ ReturnNode(h, cur[h])
  /\ UNCHANGED <<heap, handleVars, callVars, walkVars, drops>>

\* update: the callback does not want the vacant slot; nothing has changed.
Decline(h) ==
  /\ Running(h, "visit") /\ Vacant(h) /\ Step(h).act \in {"keep", "remove"}
  /\ ret' = [ret EXCEPT ![h] = "false"]
  /\ ReturnNode(h, cur[h])
  /\ UNCHANGED <<heap, handleVars, call, todo, walkVars, drops>>

\* update: the callback panics.  Unwinding drops every Arc the activations
\* hold; the root was taken out of the handle and is not put back.
CallbackPanic(h) ==
  /\ \/ Running(h, "visit") /\ Vacant(h)
     \/ Unwrapped(h, "edit") /\ Occupied(h)
  /\ ~TopDown(h) /\ Step(h).act = "panic"
  /\ drops' = [drops EXCEPT ![h] = InHand(h)]
  /\ cur' = [cur EXCEPT ![h] = None]
  /\ trail' = [trail EXCEPT ![h] = <<>>]
  /\ todo' = [todo EXCEPT ![h] = <<>>]
  /\ ret' = [ret EXCEPT ![h] = "panic"]
  /\ pc' = [pc EXCEPT ![h] = "next"]
  /\ UNCHANGED <<heap, handleVars, call, depth, edge, res>>

-----------------------------------------------------------------------------
(* Return *)

\* Fault: a node is put back even if nothing is left in it.
SettleHollow(h, p, nd) ==
  /\ heap' = [heap EXCEPT ![p] = nd]
  /\ res' = [res EXCEPT ![h] = p]

\* Puts nd back as p, or frees p if it has neither value nor children.
Settle(h, p, nd) ==
  LET empties == nd.kids = NoKids /\ nd.value = None IN
  /\ heap' = [heap EXCEPT ![p] = IF empties THEN None ELSE nd]
  /\ res' = [res EXCEPT ![h] = IF empties THEN None ELSE p]

\* Fault: the caller goes on at the depth of its child.
ResumeBelow(h) ==
  /\ trail' = [trail EXCEPT ![h] = Front(@)]
  /\ UNCHANGED depth

\* The innermost suspended activation runs again.
Resume(h) ==
  /\ depth' = [depth EXCEPT ![h] = Last(trail[h]).depth]
  /\ trail' = [trail EXCEPT ![h] = Front(@)]

\* Fault: the child is not put back.
ReattachLost(h) ==
  /\ Running(h, "up") /\ trail[h] # <<>> /\ TopDown(h)
  /\ Settle(h, Last(trail[h]).node, heap[Last(trail[h]).node])
  /\ Resume(h)
  /\ UNCHANGED <<handleVars, callVars, pc, cur, edge, drops>>

\* insert, remove, get_mut: the caller puts the child back.
Reattach(h) ==
  LET f == Last(trail[h])
      nd == heap[f.node]
  IN
  /\ Running(h, "up") /\ trail[h] # <<>> /\ TopDown(h)
  /\ Settle(h, f.node, IF res[h] = None THEN nd ELSE AddChild(nd, f.edge, res[h]))
  /\ Resume(h)
  /\ UNCHANGED <<handleVars, callVars, pc, cur, edge, drops>>

\* Fault: a caller whose child has not changed looks the child up again.
BacktrackRetry(h) ==
  /\ Running(h, "up") /\ trail[h] # <<>> /\ ~TopDown(h) /\ ret[h] = "false"
  /\ cur' = [cur EXCEPT ![h] = Last(trail[h]).node]
  /\ res' = [res EXCEPT ![h] = None]
  /\ drops' = [drops EXCEPT ![h] = {res[h]}]
  /\ Resume(h)
  /\ pc' = [pc EXCEPT ![h] = "visit"]
  /\ UNCHANGED <<heap, handleVars, callVars, edge>>

\* update: nothing changed below; the caller returns its own Arc and drops the
\* child's.
Backtrack(h) ==
  /\ Running(h, "up") /\ trail[h] # <<>> /\ ~TopDown(h) /\ ret[h] = "false"
  /\ res' = [res EXCEPT ![h] = Last(trail[h]).node]
  /\ drops' = [drops EXCEPT ![h] = {res[h]}]
  /\ Resume(h)
  /\ UNCHANGED <<heap, handleVars, callVars, pc, cur, edge>>

\* update: something changed below; the caller makes its node writable.
Lift(h) ==
  /\ Running(h, "up") /\ trail[h] # <<>> /\ ~TopDown(h) /\ ret[h] = "true"
  /\ cur' = [cur EXCEPT ![h] = Last(trail[h]).node]
  /\ edge' = [edge EXCEPT ![h] = Last(trail[h]).edge]
  /\ Resume(h)
  /\ pc' = [pc EXCEPT ![h] = "lift"]
  /\ UNCHANGED <<heap, handleVars, callVars, res, drops>>

\* update: the new child takes the place of the old one.
SwapChild(h) ==
  LET n == cur[h]
      b == edge[h]
      without == DeleteChild(heap[n], b)
  IN
  /\ Unwrapped(h, "fix")
  /\ Settle(h, n, IF res[h] = None THEN without ELSE AddChild(without, b, res[h]))
  /\ cur' = [cur EXCEPT ![h] = None]
  /\ edge' = [edge EXCEPT ![h] = None]
  /\ drops' = [drops EXCEPT ![h] = {heap[n].kids[b]} \ {None}]
  /\ pc' = [pc EXCEPT ![h] = "up"]
  /\ UNCHANGED <<handleVars, callVars, depth, trail>>

\* The recursion is over: the handle gets its root back.
Install(h) ==
  LET r == res[h]
      hollow == r # None /\ ~heap[r].leaf /\ heap[r].kids = NoKids /\ heap[r].value = None
      writing == Step(h).op = "get_mut"
  IN
  /\ Running(h, "up") /\ trail[h] = <<>>
  /\ root' = [root EXCEPT ![h] = IF Step(h).op = "remove" /\ hollow THEN None ELSE r]
  /\ drops' = [drops EXCEPT ![h] = IF Step(h).op = "remove" /\ hollow THEN {r} ELSE {}]
  /\ version' = [version EXCEPT ![h] = IF ~TopDown(h) /\ ret[h] = "true" THEN @ + 1 ELSE @]
  /\ res' = [res EXCEPT ![h] = None]
  /\ depth' = [depth EXCEPT ![h] = 0]
  /\ todo' = [todo EXCEPT ![h] = IF writing THEN @ ELSE Tail(@)]
  /\ pc' = [pc EXCEPT ![h] = IF writing THEN "write" ELSE "next"]
  /\ UNCHANGED <<heap, live, call, ret, cur, trail, edge>>

\* get_iterate_mut_cow_ready, and the write through the reference it returns.
WriteThrough(h) ==
  /\ Running(h, "write") /\ PathUnshared(h, Step(h).key)
  /\ \E n \in Found(root[h], Step(h).key) :
       /\ ret' = [ret EXCEPT ![h] = Report(h, heap[n].value)]
       /\ heap' = [heap EXCEPT ![n].value = Step(h).val]
  /\ todo' = [todo EXCEPT ![h] = Tail(@)]
  /\ pc' = [pc EXCEPT ![h] = "next"]
  /\ UNCHANGED <<handleVars, call, cur, walkVars, res, drops>>

-----------------------------------------------------------------------------

\* A step of the thread that owns h, inside a call or inside the drop of h.
Advance(h) ==
  \/ Release(h) \/ Plan(h) \/ StartEmpty(h) \/ Start(h) \/ Return(h)
  \/ EnsureCowOwned(h) \/ EnsureCowShared(h) \/ Descend(h) \/ Follow(h)
  \/ ReplaceValue(h) \/ TakeValue(h) \/ RemoveLeaf(h) \/ AddLeaf(h) \/ Split(h)
  \/ PathReady(h) \/ Decline(h) \/ CallbackPanic(h)
  \/ Reattach(h) \/ Backtrack(h) \/ Lift(h) \/ SwapChild(h) \/ Install(h)
  \/ WriteThrough(h)

\* What the program that uses the trees decides to do next.
Use(h) ==
  \/ New(h) \/ DropHandle(h)
  \/ \E g \in Handle : Clone(g, h) \/ Snapshot(g, h)
  \/ \E c \in Calls : Invoke(h, c)

Next == \E h \in Handle : Advance(h) \/ Use(h)

Spec == Init /\ [][Next]_vars

-----------------------------------------------------------------------------
(* Properties *)

TypeOK ==
  /\ heap \in [Node -> VersionedNode \cup {None}]
  /\ live \subseteq Handle
  /\ root \in [Handle -> Node \cup {None}]
  /\ version \in [Handle -> Nat]
  /\ call \in [Handle -> Call \cup {None}]
  /\ todo \in [Handle -> Seq(Call)]
  /\ ret \in [Handle -> Answers]
  /\ pc \in [Handle -> Phase]
  /\ cur \in [Handle -> Node \cup {None}]
  /\ depth \in [Handle -> Nat]
  /\ trail \in [Handle -> Seq(Frame)]
  /\ edge \in [Handle -> Byte \cup {None}]
  /\ res \in [Handle -> Node \cup {None}]
  /\ drops \in [Handle -> SUBSET Node]

\* No call panics on a node it does not own alone: wherever the code unwraps
\* what ensure_cow_node gave it ("ensure_cow_node should have given us
\* exclusive ownership"), and wherever get_mut borrows the path it has copied
\* ("CoW path should be uniquely owned"), no other thread, handle or node holds
\* that Arc.
NoUnwrapPanic == \A h \in Handle : Running(h, "edit") \/ Running(h, "fix") => SoleCur(h)

NoBorrowPanic == \A h \in Handle : Running(h, "write") => PathUnshared(h, Step(h).key)

\* Why it holds: stamps never grow on the way down, a handle's version is at
\* least its root's stamp, and a call meets only stamps below its target, so
\* that the first test of ensure_cow_node never takes a shared node for an
\* owned one, whatever clones and snapshots were taken in whatever order.
StampsOrdered ==
  /\ \A n \in Alive : \A c \in Children(heap[n]) : heap[c].version <= heap[n].version
  /\ \A h \in Handle : root[h] # None => heap[root[h]].version <= version[h]
  /\ \A h \in Handle : pc[h] \in {"visit", "lift"} => heap[cur[h]].version < Target(h)

\* A node that a root or another node points to is never hollow, its children
\* hang on the edge their prefix begins with, and only inner nodes have any:
\* what get_iterate and the iterators assume of every tree.
Attached(n) == HeldByRoot(n) \/ HeldByParent(n)

RadixShape ==
  \A n \in Alive :
    /\ Attached(n) => heap[n].value # None \/ heap[n].kids # NoKids
    /\ \A b \in Byte : heap[n].kids[b] # None =>
         /\ ~heap[n].leaf
         /\ heap[heap[n].kids[b]].prefix # <<>>
         /\ heap[heap[n].kids[b]].prefix[1] = b

\* Nodes that no handle can reach any more are freed: once every handle is
\* dropped and the drops have run, nothing is allocated.
NoLeak == (live = {} /\ \A h \in Handle : drops[h] = {}) => Alive = {}

\* The nodes that g and its thread can get to: what they hold, and what is
\* below it.
Reachable(g) ==
  LET below[i \in 0..Cardinality(Alive)] ==
        IF i = 0 THEN (InHand(g) \cup {root[g]}) \ {None}
        ELSE UNION {Children(heap[n]) : n \in below[i - 1] \cap Alive}
  IN  UNION {below[i] : i \in 0..Cardinality(Alive)}

\* A thread writes to a node (its value, children or stamp), or frees it, only
\* if no other handle or thread can get to that node, from its root or from an
\* Arc in its hands, however far below: clones and snapshots never change under
\* their holders, whether the writer copied the path, reused a node by its
\* stamp or its count, or went through the reference of get_mut.
WritesAreExclusive ==
  [][\A n \in Alive : heap'[n] # heap[n] =>
       \A h \in Handle : Advance(h) =>
         \A g \in Handle \ {h} : n \notin Reachable(g)]_vars

-----------------------------------------------------------------------------
(* A thread inside a call, or inside the drop of a handle, goes on running. *)

Fairness == \A h \in Handle : WF_vars(Advance(h))

FairSpec == Spec /\ Fairness

\* Every call returns, whatever the threads of the other handles do meanwhile.
CallsReturn == \A h \in Handle : call[h] # None ~> call[h] = None
=============================================================================
