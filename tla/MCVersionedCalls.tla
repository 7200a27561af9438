-------------------------- MODULE MCVersionedCalls --------------------------
(* Four small instances of VersionedTree in one: the calls that copy on the   *)
(* way back up, the calls that are several operations, calls that bump the    *)
(* version before and after they work, mixed, and removals until nothing is   *)
(* left.                                                                      *)
EXTENDS MCVersionedTree, MCBuiltTrees

VARIABLE scene  \* which of the instances this is

UpdateCalls ==
  WithCallback("update", {<<1, 1>>}, {"remove", "panic"})
    \cup WithCallback("update", {<<1, 2>>}, {"remove"})

TryUpdateCalls ==
  WithCallback("try_update", {<<1, 1>>}, {"keep", "insert", "remove", "err"})
    \cup WithCallback("try_update", {<<1>>}, {"insert", "panic"})

MixedCalls ==
  Plain("insert", {<<1, 2>>}, v2) \cup Plain("remove", {<<1, 1>>}, v1)
    \cup Plain("get_mut", {<<1, 1>>}, v2)
    \cup WithCallback("update", {<<1, 1>>}, {"keep"})
    \cup WithCallback("update", {<<1>>}, {"insert"})

\* Both keys go: the second leaves its parent hollow.
PruneCalls == Plain("remove", {<<1, 1>>, <<1, 2>>}, v1)

AllCalls == UpdateCalls \cup TryUpdateCalls \cup MixedCalls \cup PruneCalls

SceneCalls ==
  [update |-> UpdateCalls, try_update |-> TryUpdateCalls, mixed |-> MixedCalls,
   prune |-> PruneCalls]

-----------------------------------------------------------------------------

Scenes ==
  /\ \E h \in Handle :
       \/ scene = "mixed" /\ StartsWith(h, LeafHeap(h, v1), 1)
       \/ scene \in {"update", "try_update", "prune"} /\ StartsWith(h, InnerHeap(h, v1), 2)
  /\ seen = [g \in Handle |-> Contents(g)]

\* No handle of another family, the calls of the scene, and no more than two
\* versions beyond the one it began with.
InScene ==
  \A h \in Handle :
    /\ ~New(h)
    /\ call[h] = None /\ call'[h] # None =>
         /\ call'[h] \in SceneCalls[scene]
         /\ scene = "mixed" => version[h] < MaxVersion - 1

ScenesSpec == Scenes /\ [][Next /\ InScene /\ Watch /\ UNCHANGED scene]_<<rvars, scene>>
=============================================================================
