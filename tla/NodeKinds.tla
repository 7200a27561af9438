------------------------------ MODULE NodeKinds ------------------------------
(* The four kinds of inner nodes (Content, rart/src/node.rs), how many *)
(* children each has room for, and which comes next.                   *)
EXTENDS Naturals

CONSTANT Width  \* Width[kind] : children a node of that kind has room for

Kind == <<"Node4", "Node16", "Node48", "Node256">>

ASSUME WidthAssumption ==
  /\ \A i \in 1..4 : Width[Kind[i]] \in Nat \ {0}
  /\ \A i \in 1..3 : Width[Kind[i]] < Width[Kind[i + 1]]

Larger(kind) == Kind[CHOOSE i \in 2..4 : Kind[i - 1] = kind]

Smaller(kind) == Kind[CHOOSE i \in 1..3 : Kind[i + 1] = kind]

\* The kind of a bulk-loaded node with that many children.
BulkKind(count) ==
  Kind[CHOOSE i \in 1..4 : /\ count <= Width[Kind[i]]
                           /\ \A j \in 1..i - 1 : count > Width[Kind[j]]]
==============================================================================
