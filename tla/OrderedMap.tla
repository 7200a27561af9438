----------------------------- MODULE OrderedMap -----------------------------
(***************************************************************************)
(* What an AdaptiveRadixTree promises its user, with no tree in it: a map  *)
(* from keys to values.  RadixTree shows that the tree implements it.      *)
(***************************************************************************)
EXTENDS Naturals, Sequences

CONSTANTS
  Key,       \* keys: sequences of bytes
  Val,       \* values
  Scratch,   \* what a callback scribbles on the occupied slot it is lent
  None,      \* no value
  Calls,     \* the calls the user makes
  Loads      \* the inputs of bulk_load_sorted: sequences of entries

VARIABLES
  map,       \* the map the user sees
  ret        \* the answer to the last call

absVars == <<map, ret>>

EmptyMap == [k \in Key |-> None]

\* Keys are ordered lexicographically.
KeyLess(a, b) ==
  \E n \in 0..Len(a) :
    /\ n < Len(b)
    /\ \A i \in 1..n : a[i] = b[i]
    /\ n = Len(a) \/ a[n + 1] < b[n + 1]

Ascending(s) == \A i \in 1..Len(s) - 1 : ~KeyLess(s[i + 1].key, s[i].key)

\* The entry for k that comes last in s decides.
Loaded(s) ==
  [k \in Key |->
     LET at == {i \in 1..Len(s) : s[i].key = k}
     IN  IF at = {} THEN None
         ELSE s[CHOOSE i \in at : \A j \in at : j <= i].val]

OccupiedSlot(c, old) ==
  CASE c.act = "insert" -> c.val
    [] c.act = "remove" -> None
    [] c.act = "err"    -> old
    [] OTHER            -> Scratch

After(c) ==
  LET put(v) == [map EXCEPT ![c.key] = v]
      present == map[c.key] # None
  IN  CASE c.op = "get" -> map
        [] c.op = "insert" -> put(c.val)
        [] c.op = "remove" -> put(None)
        [] c.op = "try_insert" -> IF present THEN map ELSE put(c.val)
        [] c.op = "get_mut" -> IF present THEN put(c.val) ELSE map
        [] OTHER -> IF present THEN put(OccupiedSlot(c, map[c.key]))
                    ELSE IF c.act = "insert" THEN put(c.val) ELSE map

Answer(c) ==
  IF c.op \in {"get", "insert", "try_insert", "remove", "get_mut"} THEN map[c.key]
  ELSE CASE c.act \in {"err", "panic"} -> c.act
         [] c.act = "insert" -> "true"
         [] OTHER -> IF map[c.key] # None THEN "true" ELSE "false"

-----------------------------------------------------------------------------

AbsInit == map = EmptyMap /\ ret = None

AbsCall(c) == ret' = Answer(c) /\ map' = After(c)

AbsLoad(s) ==
  IF Ascending(s) THEN map' = Loaded(s) /\ ret' = None
  ELSE ret' = "panic" /\ UNCHANGED map

AbsNext == (\E c \in Calls : AbsCall(c)) \/ (\E s \in Loads : AbsLoad(s))

AbsSpec == AbsInit /\ [][AbsNext]_absVars
=============================================================================
