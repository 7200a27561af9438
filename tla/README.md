# Verification of rart: adaptive radix trees

This directory holds TLA+ models of rart (`src/rart`), the TLC configurations
that check them on small instances, and proofs checked by TLAPS. It is meant to
be read beside the Rust source; line numbers below refer to it.

    tlc -workers 2 -config VersionedCrud.cfg MCVersionedTree.tla     one run
    tlapm VersionedTreeProofs.tla                                    the proofs of one module

## 1. The system

rart is a library of ordered maps from byte-string keys to values, held as
adaptive radix trees. It has no I/O and starts no threads. Two trees are public.

| part | state | operations | promises |
|---|---|---|---|
| `AdaptiveRadixTree` (`tree.rs`) | `root: Option<DefaultNode>`, `len` | `insert`, `try_insert`, `get`, `get_mut`, `remove`/`delete`, `update`, `try_update`, `bulk_load_sorted`, queries | behaves as a sorted map; `len()` is its size; a failing callback leaves it as documented |
| nodes (`node.rs`) | compressed prefix, optional value, child table of one of four kinds | `add_child`, `delete_child`, `grow`, `shrink` | a node fits its table, is never hollow, and paths are collapsed when they can be |
| child tables (`mapping/*`, `utils/bitarray.rs`, `bitset.rs`) | sorted byte array + slots; 256-entry index + slots; 256 slots | add, delete, seek, iterate, convert between kinds | a map from edge bytes to children; slots in use are exactly the initialised ones |
| `VersionedAdaptiveRadixTree` (`versioned_tree.rs`) | `root: Option<Arc<VersionedNode>>`, `version: u64` | the same mutators, `clone`, `snapshot`, `into_unversioned`, queries, `Drop` | every handle is an independent map although handles share nodes; no call panics; nothing leaks |
| iterators and queries (`iter.rs`, `range.rs`, parts of both trees) | a stack of node iterators and the key so far | `iter`, `range`, `prefix_iter`, longest prefix, prefix matches, `for_each_*_view`, `intersect_*` | exactly the right entries, in ascending order |
| keys and partials (`keys/*`, `partials/*`) | byte arrays, inline, on the heap, or both | slicing, joining, common prefix, number and string encodings | order of the bytes is order of the values; no two keys confused |
| `utils/u8_keys.rs` | none | linear and binary search, SIMD search | the position of a byte among the keys in use |
| `stats.rs` | none | `get_tree_stats` | counts that agree with the tree |
| benches, fuzz targets | none | drive the library | none of their own |

How they interact. A public call walks the tree recursively with a key and a
depth; each node matches its prefix against what is left of the key
(`Partial::prefix_length_key`) and hands the rest to a child found through its
child table. A mutation comes back up the recursion and shrinks, collapses or
prunes. `update` and `try_update` call back into user code in the middle of
this, with a mutable slot. In the versioned tree the nodes are shared through
`Arc` by clones and snapshots, which other threads own; the only thing threads
see of each other is whether an `Arc` is held by someone else
(`Arc::try_unwrap`, `Arc::get_mut`, the last drop). `into_unversioned` turns a
versioned tree into an owned one, node by node.

### What is hard here

* **Sharing between threads.** Whether a node may be changed in place is decided
  from a version stamp or from a reference count, while other threads clone,
  snapshot, copy and release around the same nodes. Deciding wrongly either
  panics or changes a snapshot under its owner.
* **Trees in pieces.** During `insert`, `remove` and `get_mut` the child has been
  taken out of its parent and the root out of the handle; `update` keeps the
  child in place and swaps it on the way back. Every exit must put things back.
* **Callbacks.** They decline, insert, remove, fail, or panic, possibly after
  writing to the slot they were lent. `try_update` of the versioned tree is a
  sequence of four internal calls with a rollback.
* **Shape.** Splits, growth, shrinkage, collapsing and pruning, each with its own
  threshold; bulk loading chooses node kinds by yet another rule; converted trees
  contain nodes no owned tree would have.
* **Queries on compressed paths.** A prefix, a bound or the other tree's prefix may
  end in the middle of a node.
* **Readers among writers.** An iterator lends out values and keeps pointers into nodes
  that other threads may come to own.
* **Keys.** Three types with the same interface keep their bytes in a fixed array, in a
  vector, or inline until they must be boxed; what a truncation leaves behind the
  length must never count; words are compared where bytes are meant.

PROJECT.json lists these as hazards, each at its line, with the properties that
would catch it.

## 2. The modules

| module | models | lines of the source |
|---|---|---|
| `SnapshotMaps` | the promise of a family of versioned handles: independent maps, calls that take effect in one step | public API of `versioned_tree.rs` |
| `VersionedTree` | the copy-on-write heap, step by step, with any number of threads | `versioned_tree.rs` 182–264, 613–1001, 1166–1360, 2640–3170 |
| `VersionedRefinement` | `VersionedTree` implements `SnapshotMaps`; the map a tree in pieces stands for: `MapInv`, with `PathInv` together `CallInv` | |
| `VersionedInvariant` | the inductive invariants: `IInv`, `ShapeInv`, `RouteInv` and `BorrowInv` (together `PathInv`), `LeakInv` | |
| `VersionedTreeProofs`, `VersionedShapeProofs` | proofs of `IInv` and `ShapeInv`; lemmas about the walk from a root to a key | |
| `VersionedBorrowProofs` | proofs of `RouteInv`, `BorrowInv` and `LeakInv` | |
| `VersionedMapProofs`, `VersionedIsolationProofs` | proofs of `MapInv` and of the refinement | |
| `VersionedReads` | iterators, visits and queries that step through a versioned tree while clones of it are written to | `versioned_tree.rs` 35–80, 305–320, 391–605, 1361–2171, 2509–2601 |
| `VersionedIntersections` | the intersections of two versioned trees that others share nodes with | `versioned_tree.rs` 326–384, 2175–2507 |
| `VersionedReadsProofs` | proof that no step disturbs a reader | |
| `MCVersionedTree`, `MCVersionedCalls`, `MCVersionedLive`, `MCVersionedReads`; `MCBuiltTrees` | small instances; the trees some of them start from | |
| `NodeKinds` | the four kinds of nodes, their order and capacities | `node.rs` 35–47, 277–323 |
| `OrderedMap` | the promise of an owned tree: one map | public API of `tree.rs` |
| `RadixTree` | the owned tree and its nodes; bulk loading; conversion from a versioned tree | `tree.rs`, `node.rs`, `versioned_tree.rs` 786–846, 1037–1162, 2664–2851 |
| `RadixRefinement` | `RadixTree` implements `OrderedMap` | |
| `RadixQueries` | iteration, ranges, prefix queries, intersection, statistics | `iter.rs`, `range.rs`, `stats.rs`, `tree.rs` 268–446, 684–952, 1163–1714, 2301–2325 |
| `ChildTable` | the promise of a node about its children: a partial function on bytes | `Node` trait of `node.rs` |
| `NodeMapping` | the tables behind it: slots, indexes, bit sets, conversions, clones and drops | `mapping/*`, `utils/bitarray.rs`, `u8_keys.rs`, `node.rs` 131–347, `versioned_tree.rs` 1056–1162, 1234–1359 |
| `NodeBoxes` | the arrays that sorted tables own, over `NodeMapping` | `sorted_keyed_mapping.rs` 20–54, 99–107 |
| `NodeMappingProofs` | proofs about `NodeMapping` and its refinement of `ChildTable` | |
| `Keys` | array, vector and overflow keys, their prefixes and the key builder | `keys/*`, `partials/*` |
| `KeysProofs` | proofs about `Keys` | |
| `MCRadixTree`, `MCRadixQueries`, `MCNodeMapping`, `MCNodeBoxes`, `MCKeys` | small instances | |

Definitions preceded by a comment "Fault:" are not part of the models. Each is a plausible bug in one definition, used to confirm that a
property would notice it.

### VersionedTree

`heap` maps a name to a `VersionedNode` record or `None`; a name stands for an
allocation, and each thread draws names from an arena of its own (`Arena`).
`root[h]` and `version[h]` are the fields of handle `h`. A reference count is not
stored: `SoleCur(h)` and
`LastReference(h, n)` look for another root, parent,
activation or pending drop that holds the node, which is what the count counts.

A recursive call is a descent and a return. `cur` is the `Arc` passed to the
running activation, `trail` the frames of the suspended ones (their node, edge and
depth, which are locals of the recursive functions), `res` the `Arc` on its way back, `drops` what the thread has let go of and not yet released.
`pc` is the phase:

| `pc` | the thread is |
|---|---|
| `idle` | outside any call |
| `plan` | about to choose the internal operations of a public call (`try_update` has several) |
| `next` | between internal operations |
| `visit` | at the top of an activation, holding `cur` as it found it |
| `edit` | past `ensure_cow_node`, which promises it holds `cur` alone |
| `up` | returning; `lift`, `fix`: the same two stages for `update`, which copies on the way up |
| `write` | `get_mut` walking the copied path with `Arc::get_mut` |

One action is what happens between two points where another thread could notice
or interfere: an `ensure_cow_node` (`EnsureCowOwned`, `EnsureCowShared`), the
change to an unwrapped node (`ReplaceValue`, `TakeValue`, `AddLeaf`, `Descend`),
a split, the return through one level (`Reattach`, `Backtrack`, `Lift`,
`SwapChild`), the release of one `Arc` (`Release`, which frees a node only if it
was the last and then lets go of its children), the installation of the root.
`clone`, `snapshot`, `drop` and `new` are actions of the program that uses the
trees. `remove` and `delete` are one operation, as are `insert` and its variants
on the root; they differ in what they return. A `try_unwrap` that fails is not a
step: the state itself would violate `NoUnwrapPanic`.

Calls on one handle do not overlap (`&mut self`). Reads are left to `VersionedReads`.

### VersionedReads

It extends `VersionedTree` with `cursor[h]`, the iterator or running visit that borrows
handle `h`. While there is one, `h` is not written to and not dropped, but it may be
cloned and snapshotted, and the copies' threads take all the steps of `VersionedTree`.
A cursor is a stack of node iterators (the node, the edges not yet followed, where the
path above it ends), the key or the pieces of the key so far, what it has yielded and
from which nodes. Its step is one turn of the loop of `next()`, `visit_each()`,
`get_iterate()` or `find_prefix_subtree()`: it looks at one node. The kinds of query
differ as the code does: iterators keep no stack for a leaf, `values_iter` does; views
keep pieces of keys and compare them piece by piece with a bound; a range positions
the edges of the root. `promise[h]` is what the query should yield, taken from the
map when it began. An entry stays lent until the cursor is closed, and
`ReadersAreUndisturbed` says of every step of anyone that neither a node in `got`, nor
one on the stack, nor the one it stands at, is written or freed.

`VersionedIntersections` extends it with the three intersections, which change nothing and
keep two trees borrowed: operators on two roots. They are recursive, so they are kept
out of `VersionedReads`, which has a proof.

### RadixTree

Nodes own their children, so a tree is a value: a record with its children in a
function on edge bytes, and each recursive function of the code is a recursive
operator. One action is one public call, with everything it does. `ret` is its
answer, so that the refinement checks answers and not only contents.
`update`'s callback writes `Scratch` to the slot it is lent before it keeps,
removes, fails or panics; `update_k`'s callback cannot fail (its error type is
`Infallible`), so `err` is `try_update_k`, which restores the old value.
`mode = "versioned"` models the `insert` and `remove` of the versioned tree only
as far as they decide the shape of what `into_unversioned` then converts: nodes of
a versioned tree grow as owned ones do, and never shrink or collapse.

Left out: the branch of `build_bulk_node` for items that all have the same key
(`child_count == 0`), which unique input never reaches; debug assertions other
than the one in `CollapseFits` (a release build goes on, and so does the model).

### RadixQueries

The queries change nothing, so each is an operator that returns the sequence it
would yield, and what it should yield is an invariant: it is asked of every tree
`RadixTree` reaches. Variants that yield values, borrow a view, or stop early walk
the same way and share a definition. Iteration positioned by a start bound is
modelled as written: the root's edges are filtered, entries are passed over until
one satisfies the bound, and none is compared afterwards. `StatsBelow` is
`get_tree_stats` with its counters; the densities, quotients of two counts, are left out.

### NodeMapping

One node and its table, of either tree (`mode`), and the copy that a snapshot may
have kept of it. A sorted table is its arrays of keys and slots with the count; a
table with bit arrays has functions whose domains are the set bits. `Uninit` stands
for `MaybeUninit::uninit()`. One action is one operation of the node including the
growth or shrinkage that it triggers: the owned tree moves children to the new
table and then drops the old one (`Moved`, `Taken`, `DropOf`), the versioned tree
clones every `Arc` and drops the old table with its own (`Rebuilt`, `HeldBy`).
`refs` is a ledger kept beside the tables: an operation adds the references it is
given or clones and subtracts those it returns or drops, by the count and the bits
that the code goes by, never by what the table ought to hold. `RefsRight` compares
the two. `RadixTree` and `VersionedTree` take a node's children as a function on
bytes; `ImplementsChildTable` is what entitles them to. Deleting an absent byte
changes nothing and is no step; adding one that is present never happens, since
both trees look first. A `Node4` that collapses becomes its child, here a leaf.

`NodeBoxes` adds `boxes`, the number of arrays of slots allocated by sorted tables and not freed. Every operation
allocates those of the tables it makes and frees those of the tables it drops (`Balanced`), but
for `into_iter`, which allocates one more (`IntoIter`). The arrays of the other two kinds
are not counted: their iterators own the whole mapping.

### Keys

One program written against `KeyTrait` and `Partial` runs with the three key types at
once: two keys, a prefix and a builder, on which any legal sequence of operations is
performed, each by every type in its own way. An array keeps what lies past its
length, as `truncate` leaves it. An overflow key records whether it is inline or boxed.
`bytes`, `fragment` and `pushed` are what the operations mean; `value` is the number or
string a key was converted from. Preconditions that debug assertions state are guards:
they are the caller's duty in both trees. Numbers have two widths, signed and unsigned. `Endian` is
the machine's: `prefix_length_bytes` counts trailing zeros of the difference of two
words in memory order, which is the common prefix on a little-endian machine only; the
crate's targets are little-endian, so `Endian = "little"` in every run
(`"big"` refutes `PrefixLengthRight`). `VectorKey::to_be_u64` wants exactly eight
bytes where the others pad shorter keys, so it is compared at that length.

## 3. The runs

### Versioned tree

All have two handles (two threads) and two bytes. The first two use keys out of
`<<1>>`, `<<1,1>>`, `<<1,2>>` (one a proper prefix of the two others, which part after
one byte), the third `<<1,1,1>>` in place of `<<1>>`; each thread has eight allocations,
and there are at most two values and a bound `MaxVersion` on versions. Two handles are
enough for the sharing that matters: what a thread can observe is whether *someone* else
holds a node. Trees made by different calls of `new` share nothing, so one family is
explored (`OneFamily`). The two handles are interchangeable; symmetry is used in the
first two runs, whose properties are safety.

| run | from | calls | checks |
|---|---|---|---|
| `versioned_crud` | `new()` | insert, remove | `NoUnwrapPanic`, `StampsOrdered`, `CallInv`, `Isolation` |
| `versioned_calls` | an inner node with two leaves, or a leaf | four scenes: update removing and panicking; try_update with every outcome; insert, remove, get_mut and update together; removals of both keys | `IInv`, `NoBorrowPanic`, `RadixShape`, `ShapeInv`, `NoLeak`, `LeakInv`, `WritesAreExclusive`, `IsolationSteps` |
| `versioned_live` | an inner node with two leaves | insert, remove, get_mut, update, each of a key below the root | `CallsReturn` |
| `versioned_reads` | every tree over six paths; a shared tree | every query; insert, remove, get_mut and update by the copies | `ReadersSeeTheirMap`, `IntersectionsRight`, `ReadersAreUndisturbed` |

`versioned_calls` and `versioned_live` start from a built tree because building it with
both threads at work costs more states than all that follows; the start states
(`MCBuiltTrees`) are what inserting `<<1,1>>`, then `<<1,2>>`, leaves behind.

Which case occurs where is decided by the versions, since most calls need a higher
one than the last. `versioned_crud` has versions up to 3: a leaf below a leaf and a prefix
that is split where the key ends, but never two insertions and two removals on one
lineage, so no hollow inner node. That one takes the removals of `versioned_calls`, which
has two more versions than its trees: the second removal leaves the parent
hollow, and the root goes with it. There, too, insertions split a prefix where two keys part
and give an inner node a child on a free edge, and updates split one where their key ends and
give an inner node a value. The proofs cover trees of any height.

The invariants that end in `Inv` are the inductive ones of section 4. `IInv` contains the
typing of every variable (`TypeOK`) and implies `NoUnwrapPanic` and `StampsOrdered`,
`LeakInv` implies `NoLeak`. In `versioned_calls` and `versioned_reads` the
program may really stop once no version is left below the bound, so deadlock is not checked.

`versioned_reads` has two parts. In the quiet one (`alone`) nobody else is about, and
every query is asked of every tree a handle can hold over six paths that part at three
bytes: any set of nodes closed under common prefixes, any inner one with a value or without,
childless ones as leaves or as the inner nodes that removals leave. Probes and bounds lie on, between and beyond
the keys. In the other, one tree of four nodes is read while copies of it insert,
remove, write and update, one call before the next version bound; the interesting
interleavings are between one reader and one writer, and the reader may have written
before it reads, so that what it reads is partly its own and partly shared.

`Isolation` is the refinement: each handle is a map of its own, `clone` and
`snapshot` copy it, a call changes its own handle's map in one step and answers
what the map held. `seen` in `VersionedRefinement` remembers the map while the
handle is in pieces. `NoBorrowPanic` says the same of `get_mut`'s second walk as
`NoUnwrapPanic` of `ensure_cow_node`. `WritesAreExclusive` and `NoLeak` are the two
sides of reference counting. The first says who may write: when a step of a thread changes or
frees a node, no other handle or thread gets to that node, neither as a root, nor from an `Arc` in
its hands, nor through any number of edges below those (`Reachable`). The second
says that nothing unreachable stays.

**Fairness.** `CallsReturn` assumes weak fairness of `Advance(h)` for each handle
`h`: a thread inside a call, or inside the drop of a handle, is scheduled again.
That is the operating system's promise; no lock, queue or retry of the code is
involved, and nothing is assumed of the program that makes the calls. Every call of the run
goes down an edge: it copies the path on the way down or on the way up, puts a child back or swaps
it, walks the path again (`get_mut`), declines and goes back, or panics, after which calls
meet an empty tree. `MaxVersion` is one above the version of the tree that the run starts from: each handle makes
one call that bumps its version, after any number that decline or find nothing.

### Owned tree

| run | instance | checks |
|---|---|---|
| `radix_ops` | 9 keys over 5 bytes, kinds scaled to 2, 3, 4 and 5 children, all calls, bulk loads with duplicates and out of order, conversion | `TypeOK`, `LenRight`, `RadixShape`, `SizedToFit`, `ImplementsOrderedMap` |
| `radix_queries` | 8 keys up to 3 bytes, two values, one of which stops a visit, probes and bounds in and between them, 4 partner trees | `IterRight`, `PrefixMatchRight`, `LongestPrefixRight`, `PrefixIterRight`, `RangeRight`, `RangeViewComplete`, `ViewRight`, `IntersectRight`, `StatsRight` |
| `radix_collapse` | as `radix_ops` with no conversion | violates `CollapseFits` |
| `radix_range` | as `radix_queries` | violates `RangeViewWithin` |

`Width` gives each kind its capacity. The code's 4, 16, 48 and 256 are used in no
other way than through the order of these four numbers and the thresholds one
above the next smaller capacity, so 2, 3, 4 and 5 take a node through all kinds
with five bytes. A kind one larger than the last makes each threshold the most
delicate it can be: one child more or less changes the kind both ways. Every key may be
inserted by a versioned call, and the owned calls are spread over the keys so that
each operation meets each place a key can have. Bulk loading makes a new tree, so
it is enabled when the tree is empty. The partner trees of `IntersectRight` are
bulk-loaded and compress the same paths elsewhere.

### Child tables

| run | instance | checks |
|---|---|---|
| `node_mapping` | 5 bytes, one of them with two children, kinds of 2, 3, 4 and 5 | `TableInv`, `SlotsRight`, `SeekRight`, `RefsRight`, `ImplementsChildTable` |
| `node_boxes` | as `node_mapping`, at most 4 arrays | violates `NothingForgotten` |

`TableInv` is the inductive invariant of section 4 and implies `TypeOK`.
Every arrangement of children in the slots of a Node48 that additions and deletions
can produce occurs, every growth and shrinkage, the binary search on one to three keys,
and a bulk load of each kind. The last byte is a legal key and the filler of unused
key slots at once. `MaxEdits` bounds how often the node changes while a snapshot
keeps a copy: two changes are enough for a deletion and an addition, or an addition
and a growth, next to any copy, and nothing but the ledger connects the two tables.

### Keys

| run | instance | checks |
|---|---|---|
| `keys` | bytes of 2 bits, words of 2 bytes, arrays of 5, keys boxed from 4 bytes and prefixes from 3 | `SameBytes`, `StorageRight`, `EncodingsRight`, `PrefixLengthRight` |
| `key_equality` | the same, no conversions | violates `EqualWhenSame` |

An array is two words and a byte, so the count of common bytes by words has two whole
words and a tail. Both sides of the two limits of inline storage are reached by every
operation that can cross them. All numbers of one and of two bytes are converted,
signed and not, in pairs: the order of any two encodings is compared with that of the
numbers. The two bytes of slices differ in a bit that is not the lowest, so
that counting zero bits and counting zero bytes are told apart.

### What the failing runs show

* `CollapseFits`: `shrink` joins a Node4's prefix with its only child's through
  `partial_extended_with`, which asserts `self.len + other.len < SIZE`
  (`array_partial.rs:89`). `ArrayKey<N>` accepts N bytes (`array_key.rs:117`), so
  removing every other key panics in a debug build when the survivor is that long:
  any `u64` in an `ArrayKey<8>`. The copy that follows the assertion would fit.
* `RangeViewWithin`: `for_each_range_view` visits keys outside its range, on both
  sides. Only the root is positioned and only the root's own key is held
  against the start (`iter.rs:757`); and `cmp_segments_to_slice`
  (`iter.rs:485`) answers "less" when a piece of the key matches and the bound is
  longer than that piece, before it has seen the next piece. `LendingKeyView::cmp_slice`
  (`iter.rs:107`) compares in the same way. `RangeRight` holds: `range()` is not
  affected. `RangeViewComplete` holds: nothing in range is missed. `VersionedReads`
  has the same visit, and holds it to the entries within the range.
* `EqualWhenSame`: `truncate` leaves bytes behind in an `ArrayKey`, the derived
  `PartialEq` compares them, `Ord` does not. Neither tree compares keys for equality.
* `NothingForgotten`: `SortedKeyedMapping::into_iter` takes the array of slots, puts a fresh one
  in its place (`sorted_keyed_mapping.rs:39`) and forgets the mapping, which owns the fresh one
  (line 46). `into_unversioned` iterates every Node4 and Node16 that nobody else holds in
  this way (`versioned_tree.rs:1075`, `1083`), so each leaks one array; children are not
  leaked (`RefsRight` holds). The trace is two steps: a child is added to a versioned node, and
  the node is converted.

Some disagreements have no run. `array_key.rs:42` gives `ArrayKey<16>` to strings of up to 15
characters, whose 16 bytes would fit; `new_from_str` (line 59) asserts `s.len() + 1 < N` and panics on
15 in a debug build. The repository's README (line 408) says "Only copies
when nodes are actually shared"; splitting a prefix copies the node without asking whether
it is shared (`cow_clone_inner` at `versioned_tree.rs:2692`). The comment on `delete` (line 850) is
imprecise in the same way: at an inner node shared with a snapshot, `delete_recurse`
copies the node with its value before it clears the value. Results are not affected.

## 4. What is proved

`VersionedTreeProofs` proves, for any sets of handles, keys and values, finite or
not, any finite set of nodes, any arenas and any bound on versions:

| theorem | says |
|---|---|
| `Invariance` | `Spec => []IInv` |
| `TypeCorrect` | `Spec => []TypeOK`: a node's fields and a thread's hands keep their types |
| `NoUnwrapPanicHolds` | `Spec => []NoUnwrapPanic`: no call panics at `ensure_cow_node` |
| `StampsOrderedHolds` | `Spec => []StampsOrdered` |

and `VersionedShapeProofs`, for the same instances:

| theorem | says |
|---|---|
| `ShapeInvariance` | `Spec => []ShapeInv` |
| `RadixShapeHolds` | `Spec => []RadixShape`: trees are radix trees without hollow nodes |

and `VersionedBorrowProofs`:

| theorem | says |
|---|---|
| `WritesAreExclusiveHolds` | `Spec => WritesAreExclusive`: a thread writes to or frees only what no other handle or thread can get to |
| `RouteInvariance` | `Spec => []RouteInv` |
| `BorrowInvariance`, `PathInvariance` | `Spec => []BorrowInv`, and with it `[]PathInv` |
| `NoBorrowPanicHolds` | `Spec => []NoBorrowPanic`: `Arc::get_mut` succeeds on the whole path of `get_mut` |
| `LeakInvariance` | `Spec => []LeakInv` |
| `NoLeakHolds` | `Spec => []NoLeak`: when all handles are gone, so is every node |

and `VersionedIsolationProofs`, which rests on all of these:

| theorem | says |
|---|---|
| `MapInvariance`, `CallInvariance` | `RSpec => []MapInv`, and with `PathInv`, `[]CallInv` |
| `IsolationStepsHold` | `RSpec => IsolationSteps`: each step is one of `SnapshotMaps` or changes nothing an owner can see |
| `IsolationHolds` | `RSpec => Isolation`: `VersionedTree` implements `SnapshotMaps` |

`VersionedReadsProofs` proves of readers among writers, for the same instances and any
queries:

| theorem | says |
|---|---|
| `ReadInvariance` | `ReadsSpec => []ReadInv`: a reader stands on and has lent out nodes of its own handle, which rests |
| `ReadersAreUndisturbedHolds` | `ReadsSpec => ReadersAreUndisturbed`: no step writes or frees such a node |

`NodeMappingProofs` proves, for any four ascending capacities, the last of which is
the number of bytes, any children and any bulk loads:

| theorem | says |
|---|---|
| `TableInvariance` | `Spec => []TableInv`: each table is in order and holds some children, which the ledger knows |
| `TypeCorrect` | `Spec => []TypeOK` |
| `SlotsAreRight` | `Spec => []SlotsRight`: the slots that the unsafe blocks take for initialised are |
| `SeeksAreRight` | `Spec => []SeekRight`: every search finds what iteration yields |
| `RefsAreRight` | `Spec => []RefsRight`: no reference is leaked or released twice |
| `TablesAreChildTables` | `Spec => ImplementsChildTable`: `NodeMapping` implements `ChildTable` |

`KeysProofs` proves, for every size of arrays and of inline storage and any slices,
strings and numbers:

| theorem | says |
|---|---|
| `HoldingInvariant` | `Spec => []Holding`: each representation stands for the same bytes |
| `SameBytesHolds` | `Spec => []SameBytes` |
| `StorageRightHolds` | `Spec => []StorageRight`: boxed exactly when too long to be inline |

Assumptions: those named in `VersionedTree` (keys are byte sequences, `None` is
none of the other values, calls are calls, and a call of `update` does not ask for the outcome
`err`, since its callback's error type is `Infallible`; there are finitely many nodes, which only
`WritesAreExclusiveHolds` uses), in `VersionedRefinement` (`None` is no record
of a call under way), in `VersionedReads`
(bytes are numbers; a query is of a known kind, its key and its bounds are byte sequences), in `NodeKinds` (capacities are positive and ascend), in `NodeMapping`
(a Node256 has a slot for every byte, an uninitialised slot is no child, a bulk load is not empty
and keeps to `Pairs`) and in `Keys` (sizes are numbers, inputs are
byte sequences), which the runs evaluate. `EncodingAssumption` of `Keys`, that the
digits of an encoded number are bytes, is a fact and not a choice: the
provers have no theory of powers, so TLC evaluates it instead for the numbers of the runs.

**Argument, versioned trees.** `NoUnwrapPanic` is not inductive: `ensure_cow_node` trusts a stamp
equal to the target, so one must know that no shared node carries that stamp. `IInv`
says so by following, for each phase, the stamps of what a thread has in its hands:
while descending, `cur` is stamped below the target; after `ensure_cow_node` it
equals the target and all children are below it; on the way back what is returned
is at most the target. `HeapInv` (stamps never grow downward) carries the fact to
the next child, and `root`'s stamp is at most `version`, which is below the target of
every call that starts. `AloneOnTrail` says that the activations of `insert`,
`remove` and `get_mut` have their nodes to themselves, since the child was taken out
of its parent; that is why a returning activation may write to its node without
asking again. `HoldsAlive` says that a node in use is never freed.

Most of the work is that a step of one thread leaves the invariant of every other
thread alone. `OthersStep` states once what a step has to satisfy for that: it
touches only its own thread's variables, writes only to nodes that it holds alone or
has just allocated, and takes no new hold of a node of theirs. Then there is one
lemma per action (`...OK`), one step in it per conjunct, and `NextOK` puts them
together.

**Argument, shape.** While a call is under way a tree is in pieces, and `RadixShape` says
nothing of those: a node that goes back to its parent must still belong under the edge it
came from. `ThreadShape` says so of what a thread has in its hands, phase by phase: each
node on the trail, the node in hand and the node that is returned begin with the byte of
the frame above, and so does the rest of the key on the way down. This is why a split,
whose new parent takes over a part of the old prefix, takes at least one byte of it
(`PrefixLengthPositive`) unless it is the root. `NoneHollow` says that a node without
value and children is one that `insert`, `remove` or `get_mut` has just taken the only
child out of; as `IInv` says that nobody else holds such a node, no root, parent or other
thread ever meets one (`Solid`). `HeapShape` reduces an action to the one node it writes to and
the nodes it allocates; then there is one lemma per action again, and `NextShape`.

**Argument, paths.** `Path(r, k)`, the stops of the walk for `k` from `r`, is built level by
level, by a recursive function. The library's induction theorems take a predicate, which
the provers cannot supply; but a set has what is needed: `Induction` speaks of sets of
naturals and follows from the well-foundedness of `<`. With it the recursion is unfolded
(`LevelsDef`), and `Path` turns out to be the least set of stops that has the root and that
the walk does not leave (`PathLeast`, `PathClosed`; prefixes below an edge are not empty, so
the levels up to the length of the key are enough). From there on, what holds at every
stop is shown by putting the stops where it holds in a set. Hence the equations that unfold a
walk by one node (`PathBelow`, `GetUnfold`), and that a walk through nodes no step writes to
visits and finds the same after it (`PathSame`, `GetSame`).

**Argument, `get_mut`.** Three invariants lead to `NoBorrowPanic`. `RouteInv` relates the
frames of a thread to the key it works on: each frame's node stands on the key, at the depth
that the frames above leave off, and its edge is the key's next byte. So a child that
has been put back is found again by the second walk. `BorrowInv` says that from the first
copy on the way back up, every node of the path below the returned one is linked once,
namely from the path, and held by no root and no thread (`PathAlone`). Going up
one level extends it, since `ensure_cow_node` gave that node to this thread alone and
`AloneOnTrail` keeps it so. Other threads leave it alone because they reach the path
only through what they hold, and a node on the path is held by nobody else (`AloneOthers`): a
snapshot taken earlier shares what hangs off the path, never the path.

**Argument, exclusive writes.** What another thread can get to is bounded by a set: the nodes in
every set that has what the thread and its handle hold and, with a node, its children. A step
of `h` leaves such a set of any other `g` as it is (`AllKept`): it writes only to what it holds
alone, which a root, a hold or a node of the set would contradict; the write of `get_mut` goes to a node on its path,
which by `BorrowInv` nobody else enters (`PathUnshared`); and a node is freed only by its last reference. `Reachable(g)`, computed level by level,
lies in that set (`ReachableWithin`), so no node of it is written to or freed (`StepSpares`). The
number of levels is that of the allocated nodes, which is why they must be finitely many.

**Argument, leaks.** `NoLeak` needs two halves. `NoOrphans`: every allocated node is held by a
root, a parent or a thread; each action moves every hold it gives up to someone
else or to `drops` (`HeldStep`). `Acyclic`: of any set of allocated nodes one has no parent in
the set. When everything is dropped the set of all allocated nodes, were it not
empty, would have such a node, which nobody holds. `Acyclic` is stated of sets for this reason, and
it is inductive: a step puts children only below a node that no node points to, because
the thread has just allocated it or has it to itself (`AcyclicStep`).

**Argument, isolation.** The refinement needs a map for every handle at every moment. `Shows(h, m)` says that
the pieces in the hands of `h`'s call, put together, are the map `m`: a key is looked up at
the activation where it parts from the key of the call (`FrameShows`), and if it goes all the way
down, in what the innermost activation holds (`InnerGet`, which differs by phase). `Progress(h, m)`
says where the call is: the operations it has `Left`, carried out on `m`, lead to the map that
`SnapshotMaps!After` makes of what the owner saw (`Leads`), and the answer given so far is the right
one. `VersionedMapProofs` has one lemma for each thing that an action does to a tree: a walk through a
node with another value, a child replaced, a new leaf or a split prefix, and of the frames that
it leaves alone. Each action that descends or returns keeps `m`; the one that edits (`ReplaceValue`, `TakeValue`,
`AddLeaf`, `Split`, `WriteThrough`) takes `m` to `After` of one operation. What another thread
does changes no walk from a node of this one (`OthersMap`), since it writes only
to what nobody else holds. `try_update` is up to two operations, and `Leads` carries the
condition under which the second is its rollback. At rest `Shows` is `Contents`, and an
installed root with nothing left to do is the one abstract step.

**Argument, readers.** `ReadersAreUndisturbed` speaks of one step; to know which nodes a
cursor has at that step, its way there must be followed. `Reached(h)` are the nodes at and below
the root of `h`: those in every set that has the root and with a node its children. `ReadInv`
says that a handle with a cursor is live, its thread does nothing, and whatever the cursor stands
on, keeps on its stack or has lent out is in `Reached(h)`. A step of the cursor stays there, since it
moves from a node to one of its children (`ChildReached`); there is one lemma per step and per way a query
begins (`...Right`). A step of another thread leaves such a set of nodes as it is, as
`WritesAreExclusive` needed already: it writes only to what it holds alone, and frees
only what nobody holds any more, whereas every node of the set is held by a root or by
a node of the set (`OthersKept`, `KeptReached`). Hence `Reached(h)` is the same after the step, and so
is every node in it. Nothing is assumed of how deep the tree is or how much the reader has seen.

**Argument, child tables.** The properties speak of a table, and an operation must be
known to do to it what it does to its children. `Holds(t, kind, f)` relates the two: `t` is a table of that kind, in order,
and its children are the function `f` from bytes (`SortedHolds`, `IndexedHolds`, `DirectHolds`: the
keys in use and the slots beside them, the index followed by its slot, the slots
themselves). `TableInv` says that both tables hold the children they list, and that `refs` counts
those. There is one lemma for each operation of the mappings: adding to a table that holds `f` gives one
that holds `f` with one more child (`AddRight`, `AppendRight`), deleting gives `f` with one less
(`DeleteRight`), a conversion gives `f` in another kind (`MovedRight`, `FilledRight`), a search finds
`f[b]` (`SeekFinds`, and `BinaryFindRight` by the order of the keys), iteration lists `f` in ascending
order (`EntriesRight`, `InOrderRight`), and dropping or cloning gives back or takes the references
of `f` (`DropRight`, `HeldRight`). A table that is filled entry by entry, and a search that
halves a range, are functions on numbers; `Induction`, as for paths, unfolds them. The count of
a table has to agree with the size of `f` and the capacity of its kind exactly, since growth is
decided by the count and `first_empty().unwrap()` relies on growth having come in
time (`FirstEmptyRight`, `Full`). The ledger needs a little algebra (`PlusFacts`, `MinusFacts`): `Minus`
would go below zero if an operation released what it does not hold. Each action then shows
`TableInv'` and the step of `ChildTable` together, from the same lemmas.

**Argument, keys.** `SameBytes` alone is not inductive: an operation reads the array
itself, not its used part. `Holding` says of each representation which record stands for
a sequence (`data` agrees on the first `len` places, `len` is in range; inline or boxed by length). One lemma for each operation of each type says that it
takes what stands for `s` to what stands for the result on `s`; they rest on a handful of
lemmas on `SubSeq`, `\o` and filled arrays. Each action then combines three or six of them.

**A caution about the prover.** tlapm 1.4.5's translation for its SMT solver can take two different
`CASE` expressions for one when they occur in one obligation and begin with the same arm. To make
sure that no proof rests on it, all proofs were also run with every `CASE` expression
of the models and the proofs replaced by nested `IF`s whose conditions exclude each other. They go through,
but for one typing step of `NodeMappingProofs`, which the replacement itself makes untypable.

**Only model-checked**, and why:

* `EncodingsRight`, `PrefixLengthRight`: powers and digits.
* `RadixTree` with its refinement, `RadixQueries` and `VersionedIntersections`: recursive
  operators.
* `ReadersSeeTheirMap`: it needs the order in which each kind of walk lists the keys of a whole
  tree, and the sorted sequence of a map's keys that is compared with it; `ReadInv` says only
  which nodes a walk is at. Not attempted.
* `CallsReturn`: liveness.

## 5. What is not modelled

* Of the child tables: a by-value iterator dropped half-way, the words of a bit set
  (a bit set is the set of its bits, so the test of `first_empty` that
  the bit it found is one of the 48 and not of the 64 has nothing to tell apart) and the operations
  neither tree calls.
* The SIMD searches: intrinsics over 16 bytes with the contract of the linear search.
* Of the keys: `usize`, `isize` and 128 bits, instances of one macro of which two widths are
  modelled.
* How an iterator of the owned tree steps: it is `VersionedReads`' iterator with boxes
  instead of `Arc`s, on a tree that nobody else can reach; `RadixQueries` has what it yields.
* Memory ordering inside `Arc`: taken as the standard library documents it.
* Overflow of the 64-bit version: beyond any execution.
* The unused unsorted keyed mapping, benchmarks, fuzz targets and examples.

## 6. Plan

Done, and described above: the copy-on-write tree with its refinement, invariants and
proofs; readers among writers; the owned tree, its queries and statistics; the child
tables with their proof; keys and prefixes with their proof.

Left: the owned tree with its recursion written as functions over depths, so that
`RadixShape` and `ImplementsOrderedMap` can be proved; then `ReadersSeeTheirMap`, from
`VersionedReadsProofs` and the lemmas about walks.
