----------------------------- MODULE ChildTable -----------------------------
(***************************************************************************)
(* What an inner node promises about its children, whichever table of      *)
(* rart/src/mapping holds them: it is a partial function from edge bytes   *)
(* to children, a copy that a snapshot kept does not change with it, and   *)
(* its kind follows the number of children: the next larger one when it is *)
(* full, and, in the owned tree alone, the next smaller one as soon as the *)
(* children fit.                                                           *)
(***************************************************************************)
EXTENDS NodeKinds, FiniteSets

CONSTANTS
  Byte,   \* edge bytes
  Child,  \* children
  Pairs,  \* which child is ever stored under which byte
  Loads   \* children of bulk-loaded nodes: functions from bytes to children

VARIABLES
  kids,   \* kids[byte] : the child of the node under that byte
  kind,   \* the kind of the node, "Empty" while it has no table
  saved,  \* the children of the copy that a snapshot kept
  mode    \* "tree" (node.rs) or "versioned" (versioned_tree.rs)

Others(b) == [e \in DOMAIN kids \ {b} |-> kids[e]]

AbsInit == kids = <<>> /\ kind = "Empty" /\ saved = <<>> /\ mode \in {"tree", "versioned"}

AbsAdd(b, c) ==
  /\ b \notin DOMAIN kids
  /\ kids' = [e \in DOMAIN kids \cup {b} |-> IF e = b THEN c ELSE kids[e]]
  /\ kind' = IF kind = "Empty" THEN "Node4"
             ELSE IF Cardinality(DOMAIN kids) = Width[kind] THEN Larger(kind) ELSE kind
  /\ UNCHANGED <<saved, mode>>

\* A Node4 of the owned tree stays with one child when the node has a value.
AbsDelete(b) ==
  /\ b \in DOMAIN kids
  /\ kids' = Others(b)
  /\ kind' = IF /\ mode = "tree" /\ kind # "Node4"
                /\ Cardinality(DOMAIN kids) - 1 <= Width[Smaller(kind)]
             THEN Smaller(kind) ELSE kind
  /\ UNCHANGED <<saved, mode>>

\* Without a value it becomes its only child, here a leaf.
AbsCollapse(b) ==
  /\ mode = "tree" /\ kind = "Node4"
  /\ b \in DOMAIN kids /\ Cardinality(DOMAIN kids) = 2
  /\ kids' = <<>> /\ kind' = "Empty"
  /\ UNCHANGED <<saved, mode>>

AbsLoad(f) ==
  /\ mode = "tree" /\ kind = "Empty"
  /\ kids' = f /\ kind' = BulkKind(Cardinality(DOMAIN f))
  /\ UNCHANGED <<saved, mode>>

AbsClone == mode = "versioned" /\ saved' = kids /\ UNCHANGED <<kids, kind, mode>>

AbsForget == saved' = <<>> /\ UNCHANGED <<kids, kind, mode>>

AbsDrop ==
  /\ kids' = <<>> /\ kind' = "Empty" /\ mode' \in {"tree", "versioned"}
  /\ UNCHANGED saved

AbsConvert ==
  /\ mode = "versioned" /\ mode' = "tree"
  /\ saved' \in {saved, kids}
  /\ UNCHANGED <<kids, kind>>

AbsNext ==
  \/ \E p \in Pairs : AbsAdd(p[1], p[2])
  \/ \E b \in Byte : AbsDelete(b) \/ AbsCollapse(b)
  \/ \E f \in Loads : AbsLoad(f)
  \/ AbsClone \/ AbsForget \/ AbsDrop \/ AbsConvert

AbsSpec == AbsInit /\ [][AbsNext]_<<kids, kind, saved, mode>>
==============================================================================
