---------------------------- MODULE SnapshotMaps ----------------------------
(***************************************************************************)
(* What a family of VersionedAdaptiveRadixTree handles promises its        *)
(* users, with no trees in it: every handle is an independent map.         *)
(* Copying a handle (clone, snapshot) copies the map; a call on a handle   *)
(* takes effect in one step, on that handle's map alone, and answers what  *)
(* the map held.  VersionedRefinement shows that the copy-on-write trees   *)
(* implement this module.                                                  *)
(***************************************************************************)
CONSTANTS
  Handle,    \* the tree handles (VersionedAdaptiveRadixTree values)
  Key,       \* the keys
  Val,       \* the values
  Scratch,   \* what a callback scribbles on the occupied slot it is lent
  None,      \* no value, no call
  Calls      \* the calls the users make

VARIABLES
  live,      \* the handles that exist
  maps,      \* maps[h] : the map the owner of h sees
  pending    \* pending[h] : the call running on h, or None

absVars == <<live, maps, pending>>

EmptyMap == [k \in Key |-> None]

(***************************************************************************)
(* The map after call c on map m, and the answer.  `act` is what the       *)
(* user's callback returns: Keep, Remove, Insert(val), an error, a panic.  *)
(***************************************************************************)
Present(m, c) == m[c.key] # None

Put(m, c, v) == [m EXCEPT ![c.key] = v]

\* An occupied slot after the callback of update / try_update returned.
OccupiedSlot(c, old) ==
  CASE c.act = "insert" -> c.val
    [] c.act = "remove" -> None
    [] c.act = "err"    -> old
    [] OTHER            -> Scratch

After(m, c) ==
  CASE c.op = "insert" -> Put(m, c, c.val)
    [] c.op = "remove" -> Put(m, c, None)
    [] c.op = "get_mut" -> IF Present(m, c) THEN Put(m, c, c.val) ELSE m
    [] c.op = "update" /\ c.act = "panic" -> EmptyMap
    [] OTHER ->
         IF Present(m, c) THEN Put(m, c, OccupiedSlot(c, m[c.key]))
         ELSE IF c.act = "insert" THEN Put(m, c, c.val) ELSE m

Answer(m, c) ==
  IF c.op \in {"insert", "remove", "get_mut"} THEN m[c.key]
  ELSE CASE c.act \in {"err", "panic"} -> c.act
         [] c.act = "insert" -> "true"
         [] OTHER -> IF Present(m, c) THEN "true" ELSE "false"

-----------------------------------------------------------------------------

AbsInit ==
  /\ live = {}
  /\ maps = [h \in Handle |-> EmptyMap]
  /\ pending = [h \in Handle |-> None]

\* VersionedAdaptiveRadixTree::new
AbsNew(h) ==
  /\ h \notin live
  /\ live' = live \cup {h}
  /\ UNCHANGED <<maps, pending>>

\* clone() and snapshot(): the copy starts with the original's map
AbsCopy(g, h) ==
  /\ g \in live /\ h \notin live /\ pending[g] = None
  /\ live' = live \cup {h}
  /\ maps' = [maps EXCEPT ![h] = maps[g]]
  /\ UNCHANGED pending

AbsDrop(h) ==
  /\ h \in live /\ pending[h] = None
  /\ live' = live \ {h}
  /\ maps' = [maps EXCEPT ![h] = EmptyMap]
  /\ UNCHANGED pending

AbsInvoke(h, c) ==
  /\ h \in live /\ pending[h] = None
  /\ pending' = [pending EXCEPT ![h] = [call |-> c, done |-> FALSE, ret |-> None]]
  /\ UNCHANGED <<live, maps>>

\* The call takes effect, in one step and on one map.
AbsTakeEffect(h) ==
  /\ pending[h] # None /\ ~pending[h].done
  /\ LET c == pending[h].call IN
       /\ maps' = [maps EXCEPT ![h] = After(maps[h], c)]
       /\ pending' = [pending EXCEPT ![h] =
                        [call |-> c, done |-> TRUE, ret |-> Answer(maps[h], c)]]
  /\ UNCHANGED live

AbsReturn(h) ==
  /\ pending[h] # None /\ pending[h].done
  /\ pending' = [pending EXCEPT ![h] = None]
  /\ UNCHANGED <<live, maps>>

AbsNext ==
  \E h \in Handle :
    \/ AbsNew(h)
    \/ \E g \in Handle : AbsCopy(g, h)
    \/ AbsDrop(h)
    \/ \E c \in Calls : AbsInvoke(h, c)
    \/ AbsTakeEffect(h)
    \/ AbsReturn(h)

AbsSpec == AbsInit /\ [][AbsNext]_absVars
=============================================================================
