------------------------ MODULE VersionedRefinement ------------------------
(***************************************************************************)
(* VersionedTree implements SnapshotMaps.  While a call runs, its handle's *)
(* tree is in pieces and nobody may look at it (the call has &mut self);   *)
(* `seen` remembers what the owner saw before, and follows the tree        *)
(* whenever the handle is at rest.                                         *)
(***************************************************************************)
EXTENDS VersionedInvariant

VARIABLE seen

rvars == <<vars, seen>>

\* The map a handle stands for: get_k for every key.
Contents(h) == [k \in Key |-> Get(root[h], k)]

\* The call on h, if any, has done all it is going to do.
Done(h) == pc[h] = "next" /\ todo[h] = <<>>

AtRest(h) == pc[h] = "idle" \/ Done(h)

RInit == Init /\ seen = [h \in Handle |-> Contents(h)]

Watch == seen' = [h \in Handle |-> IF AtRest(h)' THEN Contents(h)' ELSE seen[h]]

RNext == Next /\ Watch

RSpec == RInit /\ [][RNext]_rvars

RFairSpec == RSpec /\ \A h \in Handle : WF_rvars(RNext /\ Advance(h))

PendingCall(h) ==
  IF call[h] = None THEN None
  ELSE [call |-> call[h], done |-> Done(h), ret |-> IF Done(h) THEN ret[h] ELSE None]

\* No call under way is taken for none.
ASSUME PendingAssumption == None \notin [call : Calls, done : BOOLEAN, ret : Answers]

Maps == INSTANCE SnapshotMaps WITH
  maps <- seen, pending <- [h \in Handle |-> PendingCall(h)]

\* Every handle behaves as a map of its own: copying a handle copies its map,
\* and a call changes its own handle's map, in one step, as the operation says,
\* and answers what the map held.
Isolation == Maps!AbsSpec

\* The same from any tree to begin with.
IsolationSteps == [][Maps!AbsNext]_(Maps!absVars)

-----------------------------------------------------------------------------
(* Why: the map that a tree in pieces stands for *)

\* The key k goes the same way as key from the depth d on.
Joins(k, key, d) ==
  d < Len(k) /\ d < Len(key) /\ \A j \in 1..d + 1 : k[j] = key[j]

\* The keys that get as far as the i-th activation, and as the innermost one.
Reaches(h, i, k) == i = 1 \/ Joins(k, Step(h).key, trail[h][i].depth)

Inside(h, k) == trail[h] = <<>> \/ Joins(k, Step(h).key, depth[h])

\* What the innermost activation has for such a key.
InnerGet(h, k) ==
  LET below == depth[h] + Len(heap[cur[h]].prefix) IN
  CASE pc[h] \in {"visit", "edit"} -> Get(cur[h], Rest(k, depth[h]))
    [] pc[h] \in {"lift", "fix"} -> IF Joins(k, Step(h).key, below)
                                   THEN Get(res[h], Rest(k, below))
                                   ELSE Get(cur[h], Rest(k, depth[h]))
    [] OTHER -> Get(res[h], Rest(k, depth[h]))

\* The pieces in the hands of a call, put together, are the map m: a key that
\* parts from the call's key below some activation is looked up there.
FrameShows(h, i, m) ==
  \A k \in Key : Reaches(h, i, k) /\ ~Joins(k, Step(h).key, DepthBelow(h, i)) =>
    m[k] = Get(trail[h][i].node, Rest(k, trail[h][i].depth))

InnerShows(h, m) == \A k \in Key : Inside(h, k) => m[k] = InnerGet(h, k)

Shows(h, m) ==
  IF pc[h] \in InTree THEN (\A i \in Frames(h) : FrameShows(h, i, m)) /\ InnerShows(h, m)
                      ELSE m = Contents(h)

\* The operations that have yet to change the map: on the way back up only that
\* of get_mut, which writes last.
Left(h) ==
  IF pc[h] \in {"up", "lift", "fix"} /\ Step(h).op # "get_mut" THEN Tail(todo[h]) ELSE todo[h]

\* From m, the steps lead where the call c on the map `old` should.
Leads(m, steps, c, old) ==
  /\ Len(steps) <= 2
  /\ \A i \in 1..Len(steps) :
       /\ steps[i].key = c.key
       /\ c.op = "try_update" => steps[i].op \notin {"update", "try_update"}
       /\ c.op # "try_update" => steps = <<c>> /\ m = old
  /\ steps # <<>> /\ steps[1].op = "get_mut" => m[c.key] # None
  /\ Len(steps) = 0 => m = Maps!After(old, c)
  /\ Len(steps) = 1 => Maps!After(m, steps[1]) = Maps!After(old, c)
  /\ Len(steps) = 2 =>
       /\ steps[1].op = "get_mut" /\ steps[1].val # None
       /\ Maps!After(Maps!After(m, steps[1]), steps[2]) = Maps!After(old, c)

\* ... and r is the answer, once it is known.
RightAnswer(steps, c, old, r) ==
  c.op = "try_update" \/ steps = <<>> => r = Maps!Answer(old, c)

\* How far the call on h is, if the map it has made so far is m.
Progress(h, m) ==
  IF AtRest(h) \/ pc[h] = "plan" THEN m = seen[h]
  ELSE /\ call[h] # None
       /\ Leads(m, Left(h), call[h], seen[h])
       /\ RightAnswer(Left(h), call[h], seen[h], ret[h])

MapOf(h) == \E m \in [Key -> Val \cup {None}] : Progress(h, m) /\ Shows(h, m)

\* A handle with a call to carry out is not idle, and ensure_cow_node was not
\* called in vain.
Meant(h) ==
  /\ pc[h] = "idle" <=> call[h] = None
  /\ call[h] \in Calls \cup {None}
  /\ pc[h] = "edit" => NeedsCow(h)

\* Every handle stands for a map at all times, and its call is on the way from
\* the map its owner saw to the one that the operation says.
MapInv ==
  /\ seen \in [Handle -> [Key -> Val \cup {None}]]
  /\ \A h \in Handle : MapOf(h) /\ Meant(h)

\* Where every call stands, and what the pieces in its hands are a map of.
CallInv == PathInv /\ MapInv
=============================================================================
