-------------------------- MODULE MCVersionedReads --------------------------
(* Small instances of VersionedReads and VersionedIntersections for TLC. *)
EXTENDS VersionedIntersections, TLC

CONSTANTS h1, h2, v1, v2, v3, v4, v5, v6

VARIABLE alone  \* whether h1 is read with nobody else about

\* The value of each path.
MCVals == <<v1, v2, v3, v4, v5, v6>>
MCVal == {v1, v2, v3, v4, v5, v6}

\* The paths at which a tree may have nodes: they part at each of three bytes.
MCPaths == <<<<>>, <<1>>, <<1, 1>>, <<1, 1, 1>>, <<1, 2, 1>>, <<2, 1>>>>

MCKey == ToSet(MCPaths)

MCNode == Handle \X (1..12)

\* Names up to 6 are for the trees built before; what is allocated later has its own.
MCArena == [h \in Handle |-> {h} \X (7..12)]

Nr(p) == CHOOSE i \in DOMAIN MCPaths : MCPaths[i] = p

-----------------------------------------------------------------------------
(* Every tree a handle can hold over these paths: the nodes are closed under  *)
(* common prefixes, the childless ones have values, and any other node may    *)
(* have one or not (what is removed leaves its path in place).  A childless   *)
(* node is a leaf, or an inner node that has lost its children.               *)

CommonPrefix(p, q) == SubSeq(p, 1, PrefixLengthKey(p, q, 0))

Tips(P) == {p \in P : \A q \in P : IsPrefix(p, q) => q = p}

Closed(P) == \A p, q \in P : CommonPrefix(p, q) \in P

Trees ==
  UNION {{[nodes |-> P, keys |-> Tips(P) \cup S, shrunk |-> c] : S \in SUBSET (P \ Tips(P)),
          c \in BOOLEAN} : P \in {Q \in SUBSET MCKey : Q # {} /\ Closed(Q)}}

Above(t, p) == {q \in t.nodes : IsStrictPrefix(q, p)}

Parent(t, p) == CHOOSE q \in Above(t, p) : \A r \in Above(t, p) : IsPrefix(r, q)

RootOf(t) == CHOOSE p \in t.nodes : Above(t, p) = {}

NodeOf(h, t, p) ==
  LET start == IF p = RootOf(t) THEN 1 ELSE Len(Parent(t, p)) + 1
      under(b) == {q \in t.nodes \ {RootOf(t)} :
                     Parent(t, q) = p /\ q[Len(p) + 1] = b}
  IN  [prefix |-> SubSeq(p, start, Len(p)),
       value |-> IF p \in t.keys THEN MCVals[Nr(p)] ELSE None,
       leaf |-> p \in Tips(t.nodes) /\ ~t.shrunk,
       kids |-> [b \in Byte |-> IF under(b) = {} THEN None ELSE <<h, Nr(Pick(under(b)))>>],
       version |-> 1]

Built(h, t) == [n \in {<<h, Nr(p)>> : p \in t.nodes} |-> NodeOf(h, t, MCPaths[n[2]])]

Holding(trees) ==
  /\ heap = [n \in Node |->
               IF n[1] \in DOMAIN trees /\ n \in DOMAIN Built(n[1], trees[n[1]])
               THEN Built(n[1], trees[n[1]])[n] ELSE None]
  /\ live = DOMAIN trees
  /\ root = [h \in Handle |->
               IF h \in DOMAIN trees THEN <<h, Nr(RootOf(trees[h]))>> ELSE None]
  /\ version = [h \in Handle |-> IF h \in DOMAIN trees THEN 1 ELSE 0]
  /\ call = [h \in Handle |-> None]
  /\ todo = [h \in Handle |-> <<>>]
  /\ ret = [h \in Handle |-> None]
  /\ pc = [h \in Handle |-> "idle"]
  /\ cur = [h \in Handle |-> None]
  /\ depth = [h \in Handle |-> 0]
  /\ trail = [h \in Handle |-> <<>>]
  /\ edge = [h \in Handle |-> None]
  /\ res = [h \in Handle |-> None]
  /\ drops = [h \in Handle |-> {}]
  /\ cursor = [h \in Handle |-> None]
  /\ promise = [h \in Handle |-> <<>>]

-----------------------------------------------------------------------------
(* Every query on every tree, with nobody else about; h2 holds a tree to      *)
(* intersect with.                                                            *)

Partner ==
  [nodes |-> {<<>>, <<1>>, <<1, 1, 1>>, <<2, 1>>}, keys |-> {<<>>, <<1, 1, 1>>, <<2, 1>>},
   shrunk |-> FALSE]

Query(kinds, keys, starts, ends) == [kind : kinds, key : keys, start : starts, end : ends]

Everything == {Unbounded}

MCProbe == (MCKey \ {<<1, 2, 1>>}) \cup {<<1, 2>>, <<2>>, <<2, 1, 1>>}

MCBounds == Everything \cup [type : {"included", "excluded"}, key : {<<1, 1, 1>>, <<1, 2>>}]

QuietQueries ==
  Query({"iter", "values", "view"}, {<<>>}, Everything, Everything)
    \cup Query({"get", "prefix_match", "prefix_match_each"} \cup Below, MCProbe, Everything, Everything)
    \cup Query({"range", "range_view"}, {<<>>}, MCBounds, MCBounds)

-----------------------------------------------------------------------------
(* Queries of h1 against writes through copies of it. *)

Shared ==
  [nodes |-> {<<1>>, <<1, 1>>, <<1, 1, 1>>, <<1, 2, 1>>},
   keys |-> {<<1>>, <<1, 1, 1>>, <<1, 2, 1>>}, shrunk |-> FALSE]

WriteCalls(op, keys, act) == [op : {op}, key : keys, val : {MCVals[1]}, act : {act}]

RaceCalls ==
  WriteCalls("insert", {<<1, 1>>}, "none") \cup WriteCalls("get_mut", {<<1, 2, 1>>}, "none")
    \cup WriteCalls("remove", {<<1, 1, 1>>}, "none") \cup WriteCalls("update", {<<1>>}, "remove")

RaceQueries ==
  Query({"iter"}, {<<>>}, Everything, Everything)
    \cup Query({"get", "prefix_match", "prefix_view"}, {<<1, 1, 1>>}, Everything, Everything)
    \cup Query({"range"}, {<<>>}, [type : {"excluded"}, key : {<<1, 1>>}], Everything)

MCQueries == QuietQueries \cup RaceQueries

-----------------------------------------------------------------------------

\* h1 may have had an entry inserted before it is read; nobody makes another tree.
RaceNext ==
  \/ Continue(h1)
  \/ \E q \in RaceQueries : Open(h1, q)
  \/ \E h \in Handle :
       /\ Others(h) /\ ~New(h)
       /\ call'[h1] # None => call'[h1].op = "insert"

QuietNext == Continue(h1) \/ \E q \in QuietQueries : Open(h1, q)

MCInit ==
  \/ alone = TRUE /\ \E t \in Trees : Holding(h1 :> t @@ h2 :> Partner)
  \/ alone = FALSE /\ Holding(h1 :> Shared)

MCNext ==
  /\ \/ alone /\ QuietNext
     \/ ~alone /\ RaceNext
  /\ UNCHANGED alone

MCSpec == MCInit /\ [][MCNext]_<<allVars, alone>>
=============================================================================
