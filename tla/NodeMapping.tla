---------------------------- MODULE NodeMapping ----------------------------
(***************************************************************************)
(* The tables that hold the children of an inner node (rart/src/mapping):  *)
(* sorted arrays for a Node4 and a Node16, an array behind a byte index    *)
(* for a Node48, an array of all bytes for a Node256; how children enter   *)
(* and leave a slot, move from one table to the next when the node grows   *)
(* or shrinks, and are cloned for a snapshot.                              *)
(*                                                                         *)
(* The slots are MaybeUninit: nothing but the code's own bookkeeping says  *)
(* which of them hold a child, so it also decides what Drop releases.      *)
(* `refs` counts, for each child, the references the tables were given     *)
(* less those they gave back: a child dropped twice or never, or a         *)
(* reference read from an uninitialised slot, shows there.                 *)
(*                                                                         *)
(* A BitArray (utils/bitarray.rs) is a function whose domain are the bits  *)
(* that are set.  Positions start at 1.                                    *)
(***************************************************************************)
EXTENDS NodeKinds, Integers, Sequences, SequencesExt, FiniteSets

CONSTANTS
  LastByte,  \* the last edge byte, 255; also what an unused key slot holds
  Child,     \* children
  Uninit,    \* what an uninitialised slot holds; also the answer "no child"
  Pairs,     \* which child is ever stored under which byte
  Loads,     \* children of bulk-loaded nodes: functions from bytes to children
  MaxEdits   \* bound: changes of a node while a snapshot keeps a copy of it

Byte == 0..LastByte

ASSUME TableAssumption ==
  /\ LastByte \in Nat /\ LastByte + 1 = Width["Node256"]
  /\ Pairs \subseteq Byte \X Child
  /\ Uninit \notin Child
  /\ MaxEdits \in Nat
  /\ \A f \in Loads :
       /\ DOMAIN f # {} /\ f = [b \in DOMAIN f |-> f[b]]
       /\ \A b \in DOMAIN f : <<b, f[b]>> \in Pairs

VARIABLES
  table,  \* the table of the node
  copy,   \* the table a snapshot still uses, cloned by copy-on-write
  edits,  \* changes of the node since the copy was taken
  mode,   \* "tree": a node of the owned tree; "versioned": of the versioned one
  refs    \* refs[child] : references that the tables must still release

vars == <<table, copy, edits, mode, refs>>

Slot == Child \cup {Uninit}

NoTable == [kind |-> "Empty", n |-> 0]

Sorted(t) == t.kind \in {"Node4", "Node16"}

New(kind) ==
  CASE kind \in {"Node4", "Node16"} ->
         [kind |-> kind, keys |-> [i \in 1..Width[kind] |-> LastByte],
          slots |-> [i \in 1..Width[kind] |-> Uninit], n |-> 0]
    [] kind = "Node48" -> [kind |-> kind, index |-> <<>>, slots |-> <<>>, n |-> 0]
    [] kind = "Node256" -> [kind |-> kind, slots |-> <<>>, n |-> 0]
    [] kind = "Empty" -> NoTable

-----------------------------------------------------------------------------
(* Reading a table *)

\* Fault: the search leaves out the last key.
ShortBinaryFind(t, b) ==
  LET find[range \in (0..t.n) \X (0..t.n)] ==
        LET left == range[1]
            right == range[2]
            mid == (left + right) \div 2
        IN
        IF left >= right THEN 0
        ELSE CASE t.keys[mid + 1] < b -> find[<<mid + 1, right>>]
               [] t.keys[mid + 1] = b -> mid + 1
               [] t.keys[mid + 1] > b -> find[<<left, mid>>]
  IN  find[<<0, t.n - 1>>]

\* The position of a key in a sorted table, 0 when it is not there.
BinaryFind(t, b) ==
  LET find[range \in (0..t.n) \X (0..t.n)] ==
        LET left == range[1]
            right == range[2]
            mid == (left + right) \div 2
        IN
        IF left >= right THEN 0
        ELSE CASE t.keys[mid + 1] < b -> find[<<mid + 1, right>>]
               [] t.keys[mid + 1] = b -> mid + 1
               [] t.keys[mid + 1] > b -> find[<<left, mid>>]
  IN  find[<<0, t.n>>]

LinearFind(t, b) ==
  LET here == {i \in 1..t.n : t.keys[i] = b}
  IN  IF here = {} THEN 0 ELSE Min(here)

KeyPosition(t, b) == IF t.kind = "Node4" THEN LinearFind(t, b) ELSE BinaryFind(t, b)

SortedSeek(t, b) ==
  LET i == KeyPosition(t, b) IN IF i = 0 THEN Uninit ELSE t.slots[i]

IndexedSeek(t, b) == IF b \in DOMAIN t.index THEN t.slots[t.index[b]] ELSE Uninit

DirectSeek(t, b) == IF b \in DOMAIN t.slots THEN t.slots[b] ELSE Uninit

Seek(t, b) ==
  CASE t.kind = "Empty" -> Uninit
    [] Sorted(t) -> SortedSeek(t, b)
    [] t.kind = "Node48" -> IndexedSeek(t, b)
    [] t.kind = "Node256" -> DirectSeek(t, b)

\* The bits of a bit set from the lowest to the highest.
InOrder(bits) ==
  [i \in 1..Cardinality(bits) |->
     CHOOSE b \in bits : Cardinality({a \in bits : a < b}) = i - 1]

SortedEntries(t) == [i \in 1..t.n |-> <<t.keys[i], t.slots[i]>>]

IndexedEntries(t) ==
  LET bytes == InOrder(DOMAIN t.index)
  IN  [i \in DOMAIN bytes |-> <<bytes[i], t.slots[t.index[bytes[i]]]>>]

DirectEntries(t) ==
  LET bytes == InOrder(DOMAIN t.slots)
  IN  [i \in DOMAIN bytes |-> <<bytes[i], t.slots[bytes[i]]>>]

\* What iteration yields: pairs of a byte and a child.
Entries(t) ==
  CASE t.kind = "Empty" -> <<>>
    [] Sorted(t) -> SortedEntries(t)
    [] t.kind = "Node48" -> IndexedEntries(t)
    [] t.kind = "Node256" -> DirectEntries(t)

-----------------------------------------------------------------------------
(* Children enter and leave *)

InsertPosition(t, b) ==
  LET above == {i \in 1..t.n : b < t.keys[i]}
  IN  IF above = {} THEN t.n + 1 ELSE Min(above)

\* x at position p of a row; what stood at p..last moves up by one.
ShiftedIn(row, p, last, x) ==
  [i \in DOMAIN row |-> CASE i = p -> x
                          [] p < i /\ i <= last + 1 -> row[i - 1]
                          [] OTHER -> row[i]]

\* The whole row above p moves down by one.
ShiftedOut(row, p, filler) == Append(RemoveAt(row, p), filler)

\* Fault: the new child is put at the end without a search for its place.
UnsortedAdd(t, b, c) ==
  [t EXCEPT !.keys[t.n + 1] = b, !.slots[t.n + 1] = c, !.n = @ + 1]

SortedAdd(t, b, c) ==
  LET p == InsertPosition(t, b) IN
  [t EXCEPT !.keys = ShiftedIn(@, p, t.n, b),
            !.slots = ShiftedIn(@, p, t.n, c),
            !.n = @ + 1]

SortedDelete(t, p) ==
  [t EXCEPT !.keys = ShiftedOut(@, p, LastByte),
            !.slots = ShiftedOut(@, p, Uninit),
            !.n = @ - 1]

With(f, x, y) == [z \in DOMAIN f \cup {x} |-> IF z = x THEN y ELSE f[z]]

Without(f, x) == [y \in DOMAIN f \ {x} |-> f[y]]

FirstEmpty(t) == Min((1..Width["Node48"]) \ DOMAIN t.slots)

IndexedSet(t, b, c, pos) ==
  [t EXCEPT !.index = With(@, b, pos), !.slots = With(@, pos, c), !.n = @ + 1]

DirectAdd(t, b, c) == [t EXCEPT !.slots = With(@, b, c), !.n = @ + 1]

IndexedDelete(t, b) ==
  [t EXCEPT !.index = Without(@, b), !.slots = Without(@, t.index[b]), !.n = @ - 1]

\* add_child of each table: the node is known to have room.
AddTo(t, b, c) ==
  CASE Sorted(t) -> SortedAdd(t, b, c)
    [] t.kind = "Node48" -> IndexedSet(t, b, c, FirstEmpty(t))
    [] t.kind = "Node256" -> DirectAdd(t, b, c)

\* add_child_sorted: the byte is above all others.
AppendTo(t, b, c) ==
  CASE Sorted(t) ->
         [t EXCEPT !.keys[t.n + 1] = b, !.slots[t.n + 1] = c, !.n = @ + 1]
    [] t.kind = "Node48" -> IndexedSet(t, b, c, t.n + 1)
    [] t.kind = "Node256" -> DirectAdd(t, b, c)

DeleteFrom(t, b) ==
  CASE Sorted(t) -> SortedDelete(t, KeyPosition(t, b))
    [] t.kind = "Node48" -> IndexedDelete(t, b)
    [] t.kind = "Node256" -> [t EXCEPT !.slots = Without(@, b), !.n = @ - 1]

-----------------------------------------------------------------------------
(* Whole tables *)

\* A new table of that kind, filled in byte order.
Filled(kind, entries) ==
  LET t[n \in 0..Len(entries)] ==
        IF n = 0 THEN New(kind) ELSE AppendTo(t[n - 1], entries[n][1], entries[n][2])
  IN  t[Len(entries)]

\* A new table of that kind, filled by one add_child after another.
Rebuilt(kind, entries) ==
  LET t[n \in 0..Len(entries)] ==
        IF n = 0 THEN New(kind) ELSE AddTo(t[n - 1], entries[n][1], entries[n][2])
  IN  t[Len(entries)]

\* x, with fill after its first n elements.
Padded(kind, n, x, fill) ==
  [i \in 1..Width[kind] |-> IF i <= n THEN x[i] ELSE fill]

FromResized(t, kind) ==
  [kind |-> kind, keys |-> Padded(kind, t.n, t.keys, LastByte),
   slots |-> Padded(kind, t.n, t.slots, Uninit), n |-> t.n]

FromSortedKeyed(t) ==
  [kind |-> "Node48",
   index |-> [b \in {t.keys[i] : i \in 1..t.n} |-> CHOOSE i \in 1..t.n : t.keys[i] = b],
   slots |-> [i \in 1..t.n |-> t.slots[i]], n |-> t.n]

\* Fault: the slots are taken as they lie and not in the order of the bytes.
FromIndexedAsStored(t) ==
  LET bytes == InOrder(DOMAIN t.index)
      slots == InOrder(DOMAIN t.slots)
  IN
  [kind |-> "Node16", keys |-> Padded("Node16", t.n, bytes, LastByte),
   slots |-> Padded("Node16", t.n, [i \in DOMAIN slots |-> t.slots[slots[i]]], Uninit),
   n |-> t.n]

FromIndexed(t) ==
  LET bytes == InOrder(DOMAIN t.index) IN
  [kind |-> "Node16", keys |-> Padded("Node16", t.n, bytes, LastByte),
   slots |-> Padded("Node16", t.n,
               [i \in DOMAIN bytes |-> t.slots[t.index[bytes[i]]]], Uninit),
   n |-> t.n]

FromDirect(t) ==
  LET bytes == InOrder(DOMAIN t.slots) IN
  [kind |-> "Node48",
   index |-> [b \in DOMAIN t.slots |-> CHOOSE i \in DOMAIN bytes : bytes[i] = b],
   slots |-> [i \in DOMAIN bytes |-> t.slots[bytes[i]]], n |-> t.n]

DirectFromIndexed(t) ==
  [kind |-> "Node256", slots |-> [b \in DOMAIN t.index |-> t.slots[t.index[b]]],
   n |-> t.n]

\* grow and shrink of the owned tree: the children are moved, the count is
\* carried over.
Moved(t, kind) ==
  CASE Sorted(t) /\ kind # "Node48" -> FromResized(t, kind)
    [] Sorted(t) /\ kind = "Node48" -> FromSortedKeyed(t)
    [] t.kind = "Node48" /\ kind = "Node16" -> FromIndexed(t)
    [] t.kind = "Node48" /\ kind = "Node256" -> DirectFromIndexed(t)
    [] t.kind = "Node256" -> FromDirect(t)

\* Fault: the old table still counts the children that were moved out.
TakenKeepsCount(t) ==
  CASE Sorted(t) -> [t EXCEPT !.slots = [i \in DOMAIN @ |-> Uninit]]
    [] t.kind = "Node48" -> [t EXCEPT !.index = <<>>, !.slots = <<>>]
    [] t.kind = "Node256" -> [t EXCEPT !.slots = <<>>]

\* What is left of the old table when its children were moved out.
Taken(t) ==
  CASE Sorted(t) -> [t EXCEPT !.slots = [i \in DOMAIN @ |-> Uninit], !.n = 0]
    [] t.kind = "Node48" -> [t EXCEPT !.index = <<>>, !.slots = <<>>, !.n = 0]
    [] t.kind = "Node256" -> [t EXCEPT !.slots = <<>>]

\* cow_clone_inner: sorted tables are rebuilt, the others keep their slots.
CloneOf(t) ==
  IF Sorted(t) THEN Rebuilt(t.kind, Entries(t)) ELSE t

-----------------------------------------------------------------------------
(* References *)

One(c) == [s \in Slot |-> IF s = c THEN 1 ELSE 0]

Plus(f, g) == [s \in Slot |-> f[s] + g[s]]

Minus(f, g) == [s \in Slot |-> f[s] - g[s]]

\* The references that a walk over a table finds, and so clones.
HeldBy(t) ==
  LET es == Entries(t) IN
  [s \in Slot |-> Cardinality({i \in DOMAIN es : es[i][2] = s})]

\* The references that dropping a table releases: a sorted table goes by its
\* count, the others by their bits.
DropOf(t) ==
  [s \in Slot |->
     CASE t.kind = "Empty" -> 0
       [] Sorted(t) -> Cardinality({i \in 1..t.n : t.slots[i] = s})
       [] OTHER -> Cardinality({i \in DOMAIN t.slots : t.slots[i] = s})]

-----------------------------------------------------------------------------
(* Operations of a node *)

\* What is done to the table leaves a snapshot's copy alone.
KeepsCopy ==
  /\ copy = NoTable \/ edits < MaxEdits
  /\ edits' = IF copy = NoTable THEN 0 ELSE edits + 1
  /\ copy' = copy

IsFull(t) == t.kind \notin {"Empty", "Node256"} /\ t.n >= Width[t.kind]

\* Trees add a child only under a byte they did not find.
Addable(b) == Seek(table, b) = Uninit

AddChild(b, c) ==
  /\ Addable(b) /\ ~IsFull(table)
  /\ table' = AddTo(IF table = NoTable THEN New("Node4") ELSE table, b, c)
  /\ refs' = Plus(refs, One(c))
  /\ KeepsCopy /\ UNCHANGED mode

\* A node of the owned tree moves its children to the larger table.
AddChildGrow(b, c) ==
  /\ mode = "tree" /\ Addable(b) /\ IsFull(table)
  /\ table' = AddTo(Moved(table, Larger(table.kind)), b, c)
  /\ refs' = Minus(Plus(refs, One(c)), DropOf(Taken(table)))
  /\ KeepsCopy /\ UNCHANGED mode

\* Fault: the new table gets the references of the old one, which releases them.
AddChildGrowUncloned(b, c) ==
  /\ mode = "versioned" /\ Addable(b) /\ IsFull(table)
  /\ table' = AddTo(Rebuilt(Larger(table.kind), Entries(table)), b, c)
  /\ refs' = Minus(Plus(refs, One(c)), DropOf(table))
  /\ KeepsCopy /\ UNCHANGED mode

\* A versioned node clones them, one by one, and drops the old table.
AddChildGrowVersioned(b, c) ==
  /\ mode = "versioned" /\ Addable(b) /\ IsFull(table)
  /\ table' = AddTo(Rebuilt(Larger(table.kind), Entries(table)), b, c)
  /\ refs' = Minus(Plus(Plus(refs, One(c)), HeldBy(table)), DropOf(table))
  /\ KeepsCopy /\ UNCHANGED mode

\* Do the children left fit the next smaller table?
Shrinks(t) == t.kind # "Node4" /\ t.n <= Width[Smaller(t.kind)]

\* Only children that are there are deleted; a versioned node never shrinks,
\* and a Node4 with one child left stays if the node has a value.
DeleteChild(b) ==
  LET left == DeleteFrom(table, b) IN
  /\ Seek(table, b) # Uninit
  /\ mode = "versioned" \/ ~Shrinks(left)
  /\ table' = left
  /\ refs' = Minus(refs, One(Seek(table, b)))
  /\ KeepsCopy /\ UNCHANGED mode

DeleteChildShrink(b) ==
  LET left == DeleteFrom(table, b) IN
  /\ mode = "tree" /\ Seek(table, b) # Uninit /\ Shrinks(left)
  /\ table' = Moved(left, Smaller(left.kind))
  /\ refs' = Minus(Minus(refs, One(Seek(table, b))), DropOf(Taken(left)))
  /\ KeepsCopy /\ UNCHANGED mode

\* Without a value the node becomes its last child, which take_value_for_leaf
\* reads out; here that child is a leaf.
DeleteChildCollapse(b) ==
  LET left == DeleteFrom(table, b) IN
  /\ mode = "tree" /\ table.kind = "Node4" /\ Seek(table, b) # Uninit /\ left.n = 1
  /\ table' = NoTable
  /\ refs' = Minus(Minus(Minus(refs, One(Seek(table, b))), One(left.slots[1])),
                   DropOf([left EXCEPT !.slots[1] = Uninit, !.n = 0]))
  /\ KeepsCopy /\ UNCHANGED mode

\* A node of bulk_load_sorted gets the kind for its number of children.
BulkLoad(f) ==
  LET bytes == InOrder(DOMAIN f)
      loaded == Filled(BulkKind(Len(bytes)), [i \in DOMAIN bytes |-> <<bytes[i], f[bytes[i]]>>])
  IN
  /\ mode = "tree" /\ table = NoTable
  /\ table' = loaded
  /\ refs' = Plus(refs, [s \in Slot |-> Cardinality({b \in DOMAIN f : f[b] = s})])
  /\ KeepsCopy /\ UNCHANGED mode

CowClone ==
  /\ mode = "versioned" /\ copy = NoTable
  /\ table' = CloneOf(table) /\ copy' = table
  /\ refs' = Plus(refs, HeldBy(table))
  /\ UNCHANGED <<edits, mode>>

DropCopy ==
  /\ copy # NoTable
  /\ copy' = NoTable /\ edits' = 0
  /\ refs' = Minus(refs, DropOf(copy))
  /\ UNCHANGED <<table, mode>>

\* The node is dropped; the next one may be of either tree.
DropTable ==
  /\ table # NoTable
  /\ table' = NoTable /\ refs' = Minus(refs, DropOf(table))
  /\ mode' \in {"tree", "versioned"}
  /\ KeepsCopy

\* into_unversioned of a node no other tree has: its children are moved out.
IntoUnversioned ==
  /\ mode = "versioned" /\ mode' = "tree"
  /\ table' = Rebuilt(table.kind, Entries(table))
  /\ refs' = IF table = NoTable THEN refs ELSE Minus(refs, DropOf(Taken(table)))
  /\ KeepsCopy

\* Of a node that a snapshot has, too: they are cloned, and the snapshot keeps it.
IntoUnversionedShared ==
  /\ mode = "versioned" /\ mode' = "tree"
  /\ copy = NoTable /\ copy' = table
  /\ table' = Rebuilt(table.kind, Entries(table))
  /\ refs' = Plus(refs, HeldBy(table))
  /\ UNCHANGED edits

Init ==
  /\ table = NoTable /\ copy = NoTable /\ edits = 0
  /\ mode \in {"tree", "versioned"}
  /\ refs = [s \in Slot |-> 0]

Next ==
  \/ \E p \in Pairs : \/ AddChild(p[1], p[2])
                     \/ AddChildGrow(p[1], p[2])
                     \/ AddChildGrowVersioned(p[1], p[2])
  \/ \E b \in Byte : DeleteChild(b) \/ DeleteChildShrink(b) \/ DeleteChildCollapse(b)
  \/ \E f \in Loads : BulkLoad(f)
  \/ CowClone \/ DropCopy \/ DropTable
  \/ IntoUnversioned \/ IntoUnversionedShared

Spec == Init /\ [][Next]_vars

-----------------------------------------------------------------------------
(* Properties *)

Table ==
  {NoTable}
    \cup UNION {[kind : {k}, keys : [1..Width[k] -> Byte], slots : [1..Width[k] -> Slot],
                 n : 0..Width[k]] : k \in {"Node4", "Node16"}}

\* The variables have their types; the shape of a table is SlotsRight.
TypeOK ==
  /\ {table.kind, copy.kind} \subseteq ToSet(Kind) \cup {"Empty"}
  /\ Sorted(table) => table \in Table
  /\ Sorted(copy) => copy \in Table
  /\ edits \in 0..MaxEdits
  /\ mode \in {"tree", "versioned"}
  /\ refs \in [Slot -> Nat]

SortedRight(t) ==
  /\ \A i \in 2..t.n : t.keys[i - 1] < t.keys[i]
  /\ \A i \in 1..Width[t.kind] : (t.slots[i] = Uninit) <=> (i > t.n)
  /\ \A i \in t.n + 1..Width[t.kind] : t.keys[i] = LastByte

IndexedRight(t) ==
  /\ IsInjective(t.index) /\ Range(t.index) = DOMAIN t.slots
  /\ DOMAIN t.slots \subseteq 1..Width["Node48"]
  /\ t.n = Cardinality(DOMAIN t.index)

DirectRight(t) == DOMAIN t.slots \subseteq Byte /\ t.n = Cardinality(DOMAIN t.slots)

\* The bookkeeping that the unsafe blocks of the mappings rely on: in a sorted
\* table the first num_children slots and no others are initialised, under
\* ascending keys; in an indexed one each byte in use has a slot of its own and
\* no other slot is live; the count is the number of children.
SlotsRight ==
  \A t \in {table, copy} :
    /\ Sorted(t) => SortedRight(t)
    /\ t.kind = "Node48" => IndexedRight(t)
    /\ t.kind = "Node256" => DirectRight(t)

KidsOf(t) ==
  LET es == ToSet(Entries(t)) IN
  [b \in {e[1] : e \in es} |-> (CHOOSE e \in es : e[1] = b)[2]]

\* seek_child finds, under every byte, the child that iteration yields for it,
\* and nothing under the others, whichever search or index the table uses.
SeekRight ==
  \A t \in {table, copy} : LET kids == KidsOf(t) IN
    \A b \in Byte : Seek(t, b) = IF b \in DOMAIN kids THEN kids[b] ELSE Uninit

\* No reference is leaked, dropped twice or read from an uninitialised slot: the
\* tables in use hold every reference not yet released, however often children
\* were moved from table to table, cloned for a snapshot and dropped.
RefsRight == refs = Plus(HeldBy(table), HeldBy(copy))

Promise == INSTANCE ChildTable WITH
  kids <- KidsOf(table), kind <- table.kind, saved <- KidsOf(copy)

\* The tables are a partial function from bytes to children: growing, shrinking,
\* cloning and converting a table lose no child, invent none and swap none, and
\* leave a snapshot's copy alone (grow, shrink, cow_clone_inner,
\* convert_to_unversioned_node).
ImplementsChildTable == Promise!AbsSpec

-----------------------------------------------------------------------------
(* Why: what the tables hold *)

SlotTable(kind) ==
  [kind : {kind}, keys : [1..Width[kind] -> Byte], slots : [1..Width[kind] -> Slot],
   n : 0..Width[kind]]

\* t, a table of that kind, is in order and holds the children f.
SortedHolds(t, kind, f) ==
  /\ t \in SlotTable(kind) /\ SortedRight(t)
  /\ DOMAIN f = {t.keys[i] : i \in 1..t.n}
  /\ \A i \in 1..t.n : f[t.keys[i]] = t.slots[i]

IndexedHolds(t, f) ==
  /\ t = [kind |-> "Node48", index |-> t.index, slots |-> t.slots, n |-> t.n]
  /\ IndexedRight(t)
  /\ t.index \in [DOMAIN f -> DOMAIN t.slots]
  /\ t.slots \in [DOMAIN t.slots -> Child]
  /\ \A b \in DOMAIN f : f[b] = t.slots[t.index[b]]

DirectHolds(t, f) ==
  t = [kind |-> "Node256", slots |-> f, n |-> Cardinality(DOMAIN f)]

Holds(t, kind, f) ==
  /\ f \in [DOMAIN f -> Child] /\ DOMAIN f \subseteq Byte
  /\ t.kind = kind /\ t.n = Cardinality(DOMAIN f)
  /\ CASE kind = "Empty" -> t = NoTable /\ f = <<>>
       [] kind \in {"Node4", "Node16"} -> SortedHolds(t, kind, f)
       [] kind = "Node48" -> IndexedHolds(t, f)
       [] kind = "Node256" -> DirectHolds(t, f)

\* How many references to each child f is.
CountOf(f) == [s \in Slot |-> Cardinality({b \in DOMAIN f : f[b] = s})]

\* Each table is in order and holds some children, and the ledger knows them.
TableInv ==
  /\ \A t \in {table, copy} :
       t.kind \in ToSet(Kind) \cup {"Empty"} /\ Holds(t, t.kind, KidsOf(t))
  /\ refs = Plus(CountOf(KidsOf(table)), CountOf(KidsOf(copy)))
  /\ edits \in 0..MaxEdits /\ mode \in {"tree", "versioned"}

==============================================================================
