------------------------- MODULE NodeMappingProofs -------------------------
(***************************************************************************)
(* The child tables hold what they should (TableInv), for every width,     *)
(* every set of bytes and children: proofs of the properties of            *)
(* NodeMapping and of its refinement of ChildTable.                        *)
(***************************************************************************)
EXTENDS NodeMapping, FiniteSetTheorems, SequenceTheorems, TLAPS

-----------------------------------------------------------------------------
(* Numbers *)

\* A set of naturals that is not empty has a least element.
LEMMA Least ==
  ASSUME NEW S, S \subseteq Nat, S # {}
  PROVE  \E x \in S : \A y \in S : x <= y
<1> DEFINE R == {p \in Nat \X Nat : p[1] < p[2]}
<1>1. IsWellFoundedOn(R, Nat)
  BY NatLessThanWellFounded DEF OpToRel
<1>2. \A x, y \in Nat : y < x => <<y, x>> \in R
  OBVIOUS
<1> HIDE DEF R
<1>3. PICK x \in S : \A y \in S : ~ (<<y, x>> \in R)
  BY <1>1, WFMin
<1>4. ASSUME NEW y \in S PROVE x <= y
  <2>1. x \in Nat /\ y \in Nat
    OBVIOUS
  <2>2. ~(y < x)
    BY <1>2, <1>3, <2>1
  <2> QED BY <2>1, <2>2
<1> QED BY <1>4

\* A set that has 0, and n + 1 whenever it has n, has every natural.
LEMMA Induction ==
  ASSUME NEW S, 0 \in S, \A n \in Nat : n \in S => n + 1 \in S
  PROVE  Nat \subseteq S
<1> SUFFICES ASSUME Nat \ S # {} PROVE FALSE
  OBVIOUS
<1>1. PICK m \in Nat \ S : \A y \in Nat \ S : m <= y
  BY Least
<1>2. m - 1 \in Nat /\ (m - 1) + 1 = m
  BY <1>1
<1>3. ~(m <= m - 1)
  BY <1>1
<1>4. m - 1 \in S
  BY <1>1, <1>2, <1>3
<1> QED BY <1>1, <1>2, <1>4

\* Min is the least element.
LEMMA MinRight ==
  ASSUME NEW S, S \subseteq Nat, S # {}
  PROVE  Min(S) \in S /\ \A y \in S : Min(S) <= y
BY Least DEF Min

\* There is one function without arguments.
LEMMA EmptyFunction ==
  ASSUME NEW f, f = [x \in DOMAIN f |-> f[x]], DOMAIN f = {}
  PROVE  f = <<>>
<1>1. f = [x \in {} |-> x]
  BY SMT
<1>2. f = [i \in 1..0 |-> i]
  BY <1>1, SMT
<1>3. f \in Seq({}) /\ Len(f) = 0
  BY <1>2
<1> QED BY <1>3

\* Sets of edge bytes are finite.
LEMMA ByteSets ==
  ASSUME NEW S, S \subseteq Byte
  PROVE  /\ S \subseteq Nat /\ IsFiniteSet(S)
         /\ Cardinality(S) \in Nat /\ Cardinality(S) <= LastByte + 1
<1>1. LastByte \in Nat
  BY TableAssumption
<1>2. IsFiniteSet(Byte) /\ Cardinality(Byte) = LastByte + 1
  BY <1>1, FS_Interval DEF Byte
<1>3. Byte \subseteq Nat
  BY <1>1 DEF Byte
<1> QED BY <1>2, <1>3, FS_Subset, FS_CardinalityType

\* The widths of the kinds grow.
LEMMA Widths ==
  /\ Width["Node4"] \in Nat \ {0} /\ Width["Node16"] \in Nat \ {0}
  /\ Width["Node48"] \in Nat \ {0} /\ Width["Node256"] \in Nat \ {0}
  /\ Width["Node4"] < Width["Node16"] /\ Width["Node16"] < Width["Node48"]
  /\ Width["Node48"] < Width["Node256"] /\ Width["Node256"] = LastByte + 1
<1>1. Kind[1] = "Node4" /\ Kind[2] = "Node16" /\ Kind[3] = "Node48" /\ Kind[4] = "Node256"
  BY DEF Kind
<1>2. \A i \in 1..4 : Width[Kind[i]] \in Nat \ {0}
  BY WidthAssumption
<1>3. \A i \in 1..3 : Width[Kind[i]] < Width[Kind[i + 1]]
  BY WidthAssumption
<1>4. /\ Width[Kind[1]] < Width[Kind[1 + 1]] /\ Width[Kind[2]] < Width[Kind[2 + 1]]
      /\ Width[Kind[3]] < Width[Kind[3 + 1]]
  BY <1>3
<1>5. 1 \in 1..4 /\ 2 \in 1..4 /\ 3 \in 1..4 /\ 4 \in 1..4
  OBVIOUS
<1> QED BY <1>1, <1>2, <1>4, <1>5, TableAssumption

\* The kinds.
LEMMA Kinds == ToSet(Kind) = {"Node4", "Node16", "Node48", "Node256"}
BY DEF ToSet, Kind

\* The order of the kinds.
LEMMA Neighbours ==
  /\ Larger("Node4") = "Node16" /\ Larger("Node16") = "Node48" /\ Larger("Node48") = "Node256"
  /\ Smaller("Node16") = "Node4" /\ Smaller("Node48") = "Node16"
  /\ Smaller("Node256") = "Node48"
<1>1. Kind[1] = "Node4" /\ Kind[2] = "Node16" /\ Kind[3] = "Node48" /\ Kind[4] = "Node256"
  BY DEF Kind
<1>2. \A i \in 2..4 : i = 2 \/ i = 3 \/ i = 4
  OBVIOUS
<1>3. \A i \in 1..3 : i = 1 \/ i = 2 \/ i = 3
  OBVIOUS
<1>4. /\ (CHOOSE i \in 2..4 : Kind[i - 1] = "Node4") = 2
      /\ (CHOOSE i \in 2..4 : Kind[i - 1] = "Node16") = 3
      /\ (CHOOSE i \in 2..4 : Kind[i - 1] = "Node48") = 4
  BY <1>1, <1>2
<1>5. /\ (CHOOSE i \in 1..3 : Kind[i + 1] = "Node16") = 1
      /\ (CHOOSE i \in 1..3 : Kind[i + 1] = "Node48") = 2
      /\ (CHOOSE i \in 1..3 : Kind[i + 1] = "Node256") = 3
  BY <1>1, <1>3
<1> QED BY <1>1, <1>4, <1>5 DEF Larger, Smaller

-----------------------------------------------------------------------------
(* The bits of a set in order *)

\* How many elements of S are smaller.
Rank(S, b) == Cardinality({a \in S : a < b})

\* The larger of two has the higher rank.
LEMMA RankGrows ==
  ASSUME NEW S, S \subseteq Byte, NEW x \in S, NEW y \in S, x < y
  PROVE  Rank(S, x) < Rank(S, y)
<1> DEFINE X == {a \in S : a < x}
           Y == {a \in S : a < y}
<1>1. x \in Nat /\ y \in Nat /\ S \subseteq Nat /\ Y \subseteq Byte
  BY ByteSets
<1>2. X \subseteq Y /\ x \in Y /\ x \notin X
  <2>1. ASSUME NEW a \in S, a < x PROVE a < y
    <3>1. a \in Nat
      BY <1>1
    <3> QED BY <1>1, <2>1, <3>1
  <2>2. ~(x < x)
    BY <1>1
  <2> QED BY <2>1, <2>2
<1>3. IsFiniteSet(Y) /\ Cardinality(Y) \in Nat
  BY <1>1, ByteSets
<1> HIDE DEF X, Y
<1>4. Cardinality(X) <= Cardinality(Y) /\ Cardinality(X) # Cardinality(Y) /\ Cardinality(X) \in Nat
  BY <1>2, <1>3, FS_Subset, FS_CardinalityType
<1>5. Cardinality(X) < Cardinality(Y)
  BY <1>3, <1>4
<1> QED BY <1>5 DEF Rank, X, Y

\* Ranks start at 0.
LEMMA RankBound ==
  ASSUME NEW S, S \subseteq Byte, NEW x \in S
  PROVE  Rank(S, x) \in 0..Cardinality(S) - 1
<1> DEFINE X == {a \in S : a < x}
<1>1. IsFiniteSet(S) /\ Cardinality(S) \in Nat /\ X \subseteq S /\ x \notin X
  BY ByteSets
<1> HIDE DEF X
<1>2. Cardinality(X) <= Cardinality(S) /\ Cardinality(X) # Cardinality(S) /\ Cardinality(X) \in Nat
  BY <1>1, FS_Subset, FS_CardinalityType
<1>3. Cardinality(X) \in 0..Cardinality(S) - 1
  BY <1>1, <1>2
<1> QED BY <1>3 DEF Rank, X

\* Every rank below the number of elements is taken.
LEMMA RankOnto ==
  ASSUME NEW S, S \subseteq Byte, NEW i \in 1..Cardinality(S)
  PROVE  \E b \in S : Rank(S, b) = i - 1
<1> DEFINE n == Cardinality(S)
           T == 0..n - 1
           f == [b \in S |-> Rank(S, b)]
<1>1. n \in Nat /\ IsFiniteSet(S) /\ S \subseteq Nat
  BY ByteSets
<1>2. f \in [S -> T]
  BY RankBound
<1>3. ASSUME NEW x \in S, NEW y \in S, f[x] = f[y] PROVE x = y
  <2>1. Rank(S, x) = Rank(S, y)
    BY <1>3
  <2>2. PICK q \in T : q = Rank(S, x)
    BY RankBound
  <2>3. q \in Nat /\ ~(q < q) /\ x \in Nat /\ y \in Nat
    BY <1>1, <2>2
  <2>4. ~(x < y)
    BY <2>1, <2>2, <2>3, RankGrows
  <2>5. ~(y < x)
    BY <2>1, <2>2, <2>3, RankGrows
  <2> QED BY <2>3, <2>4, <2>5
<1>4. IsFiniteSet(T) /\ Cardinality(T) = n
  <2>1. 0 \in Int /\ n - 1 \in Int
    BY <1>1
  <2>2. IsFiniteSet(T) /\ Cardinality(T) = IF 0 > n - 1 THEN 0 ELSE (n - 1) - 0 + 1
    BY <2>1, FS_Interval
  <2> QED BY <1>1, <2>2
<1> HIDE DEF f, T, n
<1>5. f \in Injection(S, T)
  BY <1>2, <1>3 DEF Injection, IsInjective
<1>6. f \in Surjection(S, T)
  BY <1>1, <1>4, <1>5, FS_Injection DEF n
<1>7. i - 1 \in T
  BY <1>1 DEF T, n
<1>8. PICK b \in S : f[b] = i - 1
  BY <1>6, <1>7 DEF Surjection
<1> QED BY <1>8 DEF f

\* seq lists the set S from the lowest to the highest.
ListsBytes(seq, S) ==
  /\ Cardinality(S) \in Nat /\ seq \in [1..Cardinality(S) -> S] /\ Len(seq) = Cardinality(S)
  /\ \A i, j \in 1..Cardinality(S) : i < j => seq[i] < seq[j]
  /\ \A b \in S : \E i \in 1..Cardinality(S) : seq[i] = b

\* InOrder lists the bits that are set.
LEMMA InOrderRight ==
  ASSUME NEW S, S \subseteq Byte
  PROVE  ListsBytes(InOrder(S), S)
<1> DEFINE n == Cardinality(S)
           seq == InOrder(S)
<1>1. n \in Nat /\ S \subseteq Nat
  BY ByteSets
<1>2. seq = [i \in 1..n |-> CHOOSE b \in S : Rank(S, b) = i - 1]
  BY DEF InOrder, Rank
<1>3. ASSUME NEW i \in 1..n PROVE seq[i] \in S /\ Rank(S, seq[i]) = i - 1
  <2>1. seq[i] = CHOOSE b \in S : Rank(S, b) = i - 1
    BY <1>2
  <2> HIDE DEF seq
  <2> QED BY <2>1, RankOnto
<1> HIDE DEF seq, n
<1>4. seq \in [1..n -> S]
  BY <1>2, <1>3
<1>5. seq \in Seq(S) /\ Len(seq) = n
  BY <1>1, <1>4
<1>6. ASSUME NEW i \in 1..n, NEW j \in 1..n, i < j PROVE seq[i] < seq[j]
  <2>1. /\ seq[i] \in S /\ seq[j] \in S /\ seq[i] \in Nat /\ seq[j] \in Nat
        /\ Rank(S, seq[i]) = i - 1 /\ Rank(S, seq[j]) = j - 1
    BY <1>1, <1>3
  <2>2. i - 1 < j - 1 /\ i - 1 \in Nat /\ j - 1 \in Nat
    BY <1>1, <1>6
  <2>3. CASE seq[j] < seq[i]
    <3>1. j - 1 < i - 1
      BY <2>1, <2>3, RankGrows
    <3> QED BY <2>2, <3>1
  <2>4. CASE seq[j] = seq[i]
    BY <2>1, <2>2, <2>4
  <2> QED BY <2>1, <2>3, <2>4
<1>7. ASSUME NEW b \in S PROVE \E i \in 1..n : seq[i] = b
  <2>1. PICK r \in 0..n - 1 : Rank(S, b) = r
    BY RankBound DEF n
  <2>2. r + 1 \in 1..n /\ (r + 1) - 1 = r
    BY <1>1
  <2>3. /\ seq[r + 1] \in S /\ Rank(S, seq[r + 1]) = r
        /\ seq[r + 1] \in Nat /\ b \in Nat
    BY <1>1, <1>3, <2>2
  <2>4. ~(r < r)
    BY <1>1, <2>1
  <2>5. ~(seq[r + 1] < b)
    BY <2>1, <2>3, <2>4, RankGrows
  <2>6. ~(b < seq[r + 1])
    BY <2>1, <2>3, <2>4, RankGrows
  <2> QED BY <2>2, <2>3, <2>5, <2>6
<1> QED BY <1>1, <1>4, <1>5, <1>6, <1>7 DEF ListsBytes, n, seq

-----------------------------------------------------------------------------
(* Reading a table *)

\* es lists the children f under their bytes, from the lowest to the highest.
Lists(es, f) ==
  /\ Cardinality(DOMAIN f) \in Nat /\ Len(es) = Cardinality(DOMAIN f)
  /\ DOMAIN es = 1..Cardinality(DOMAIN f)
  /\ \A i \in 1..Cardinality(DOMAIN f) : es[i][1] \in DOMAIN f /\ es[i][2] = f[es[i][1]]
  /\ \A i, j \in 1..Cardinality(DOMAIN f) : i < j => es[i][1] < es[j][1]
  /\ \A b \in DOMAIN f : \E i \in 1..Cardinality(DOMAIN f) : es[i][1] = b

\* A list of pairs, entry by entry.
LEMMA ListOf ==
  ASSUME NEW n \in Nat, NEW x, NEW y, NEW es, es = [i \in 1..n |-> <<x[i], y[i]>>]
  PROVE  /\ Len(es) = n /\ DOMAIN es = 1..n
         /\ \A i \in 1..n : es[i][1] = x[i] /\ es[i][2] = y[i]
<1> DEFINE V == {<<x[i], y[i]>> : i \in 1..n}
<1>1. es \in [1..n -> V]
  OBVIOUS
<1> HIDE DEF V
<1>2. es \in Seq(V) /\ Len(es) = n
  BY <1>1
<1>3. \A i \in 1..n : es[i] = <<x[i], y[i]>>
  OBVIOUS
<1> QED BY <1>2, <1>3

\* The keys of a sorted table ascend.
LEMMA KeysAscend ==
  ASSUME NEW n \in Nat, NEW keys, \A i \in 1..n : keys[i] \in Nat,
         \A i \in 2..n : keys[i - 1] < keys[i]
  PROVE  \A i, j \in 1..n : i < j => keys[i] < keys[j]
<1> DEFINE S == {m \in Nat : \A i, j \in 1..n : i < j /\ j <= i + m => keys[i] < keys[j]}
<1>1. 0 \in S
  OBVIOUS
<1>2. ASSUME NEW m \in Nat, m \in S PROVE m + 1 \in S
  <2> SUFFICES ASSUME NEW i \in 1..n, NEW j \in 1..n, i < j, j <= i + (m + 1)
               PROVE  keys[i] < keys[j]
    OBVIOUS
  <2>1. CASE j = i + 1
    <3>1. j \in 2..n /\ j - 1 = i
      BY <2>1
    <3> QED BY <3>1
  <2>2. CASE j # i + 1
    <3>1. j - 1 \in 1..n /\ i < j - 1 /\ j - 1 <= i + m /\ j \in 2..n
      BY <2>2
    <3>2. keys[i] < keys[j - 1]
      BY <1>2, <3>1
    <3>3. keys[j - 1] < keys[j]
      BY <3>1
    <3>4. keys[i] \in Nat /\ keys[j - 1] \in Nat /\ keys[j] \in Nat
      BY <3>1
    <3> QED BY <3>2, <3>3, <3>4
  <2> QED BY <2>1, <2>2
<1> HIDE DEF S
<1>3. Nat \subseteq S
  BY <1>1, <1>2, Induction
<1>4. ASSUME NEW i \in 1..n, NEW j \in 1..n, i < j PROVE keys[i] < keys[j]
  <2>1. n \in S
    BY <1>3
  <2>2. j <= i + n
    OBVIOUS
  <2> QED BY <1>4, <2>1, <2>2 DEF S
<1> QED BY <1>4

\* What a sorted table in order looks like.
LEMMA SortedFacts ==
  ASSUME NEW kind \in {"Node4", "Node16"}, NEW f, NEW t, Holds(t, kind, f)
  PROVE  /\ Width[kind] \in Nat \ {0} /\ t.kind = kind
         /\ t.n \in 0..Width[kind] /\ t.n = Cardinality(DOMAIN f) /\ t.n \in Nat
         /\ t.keys \in [1..Width[kind] -> Byte] /\ t.slots \in [1..Width[kind] -> Slot]
         /\ \A i \in 1..t.n : t.keys[i] \in Nat /\ t.keys[i] \in DOMAIN f
                              /\ f[t.keys[i]] = t.slots[i] /\ t.slots[i] \in Child
         /\ \A i, j \in 1..t.n : i < j => t.keys[i] < t.keys[j]
         /\ \A b \in DOMAIN f : \E i \in 1..t.n : t.keys[i] = b
<1>1. SortedHolds(t, kind, f) /\ t.kind = kind /\ t.n = Cardinality(DOMAIN f)
      /\ f \in [DOMAIN f -> Child] /\ DOMAIN f \subseteq Byte
  BY DEF Holds
<1>2. t \in SlotTable(kind)
  BY <1>1 DEF SortedHolds
<1>3. t.n \in 0..Width[kind] /\ t.keys \in [1..Width[kind] -> Byte] /\ t.slots \in [1..Width[kind] -> Slot]
  BY <1>2 DEF SlotTable
<1>4. Width[kind] \in Nat \ {0}
  BY Widths
<1>5. t.n \in Nat /\ \A i \in 1..t.n : i \in 1..Width[kind]
  BY <1>3, <1>4
<1>6. \A b : b \in DOMAIN f <=> \E i \in 1..t.n : t.keys[i] = b
  BY <1>1 DEF SortedHolds
<1>7. \A i \in 1..t.n : f[t.keys[i]] = t.slots[i]
  BY <1>1 DEF SortedHolds
<1>8. \A i \in 2..t.n : t.keys[i - 1] < t.keys[i]
  BY <1>1 DEF SortedHolds, SortedRight
<1>9. \A i \in 1..t.n : t.keys[i] \in Nat
  BY <1>3, <1>5, ByteSets
<1>10. \A i, j \in 1..t.n : i < j => t.keys[i] < t.keys[j]
  BY <1>5, <1>8, <1>9, KeysAscend
<1>11. \A i \in 1..t.n : t.keys[i] \in DOMAIN f /\ t.slots[i] \in Child
  BY <1>1, <1>6, <1>7
<1> QED BY <1>1, <1>3, <1>4, <1>5, <1>6, <1>7, <1>9, <1>10, <1>11

\* Iteration yields the children under their bytes in ascending order.
LEMMA EntriesRight ==
  ASSUME NEW kind, NEW f, NEW t, Holds(t, kind, f),
         kind \in {"Empty", "Node4", "Node16", "Node48", "Node256"}
  PROVE  Lists(Entries(t), f)
<1> DEFINE n == Cardinality(DOMAIN f)
<1>1. f \in [DOMAIN f -> Child] /\ DOMAIN f \subseteq Byte /\ t.kind = kind /\ t.n = n
  BY DEF Holds
<1>2. n \in Nat
  BY <1>1, ByteSets
<1>3. CASE kind = "Empty"
  <2>1. f = <<>> /\ DOMAIN f = {}
    BY <1>3 DEF Holds
  <2>2. Entries(t) = <<>>
    BY <1>1, <1>3 DEF Entries, Sorted
  <2>3. n = 0
    BY <2>1, FS_EmptySet
  <2> QED BY <2>1, <2>2, <2>3 DEF Lists
<1>4. CASE kind \in {"Node4", "Node16"}
  <2>1. Entries(t) = [i \in 1..n |-> <<t.keys[i], t.slots[i]>>]
    BY <1>1, <1>4 DEF Entries, Sorted, SortedEntries
  <2>2. /\ Len(Entries(t)) = n /\ DOMAIN Entries(t) = 1..n
        /\ \A i \in 1..n : Entries(t)[i][1] = t.keys[i] /\ Entries(t)[i][2] = t.slots[i]
    BY <1>2, <2>1, ListOf
  <2> HIDE DEF n
  <2>3. /\ \A i \in 1..n : t.keys[i] \in DOMAIN f /\ f[t.keys[i]] = t.slots[i]
        /\ \A i, j \in 1..n : i < j => t.keys[i] < t.keys[j]
        /\ \A b \in DOMAIN f : \E i \in 1..n : t.keys[i] = b
    BY <1>1, <1>4, SortedFacts, SMTT(30)
  <2>4. ASSUME NEW i \in 1..n, NEW j \in 1..n, i < j PROVE Entries(t)[i][1] < Entries(t)[j][1]
    <3>1. Entries(t)[i][1] = t.keys[i] /\ Entries(t)[j][1] = t.keys[j]
      BY <2>2
    <3>2. t.keys[i] < t.keys[j]
      BY <2>3, <2>4
    <3> QED BY <3>1, <3>2
  <2>5. ASSUME NEW b \in DOMAIN f PROVE \E i \in 1..n : Entries(t)[i][1] = b
    <3>1. PICK i \in 1..n : t.keys[i] = b
      BY <2>3
    <3>2. Entries(t)[i][1] = b
      BY <2>2, <3>1
    <3> QED BY <3>2
  <2>6. ASSUME NEW i \in 1..n
        PROVE  Entries(t)[i][1] \in DOMAIN f /\ Entries(t)[i][2] = f[Entries(t)[i][1]]
    <3>1. Entries(t)[i][1] = t.keys[i] /\ Entries(t)[i][2] = t.slots[i]
      BY <2>2
    <3>2. t.keys[i] \in DOMAIN f /\ f[t.keys[i]] = t.slots[i]
      BY <2>3
    <3> QED BY <3>1, <3>2
  <2>7. Len(Entries(t)) = n /\ DOMAIN Entries(t) = 1..n
    BY <2>2
  <2> QED BY <1>2, <2>4, <2>5, <2>6, <2>7 DEF Lists, n
<1>5. CASE kind = "Node48"
  <2>1. IndexedHolds(t, f)
    BY <1>5 DEF Holds
  <2>2. DOMAIN t.index = DOMAIN f /\ \A b \in DOMAIN f : f[b] = t.slots[t.index[b]]
    BY <2>1 DEF IndexedHolds
  <2> DEFINE bytes == InOrder(DOMAIN f)
             kids == [i \in 1..n |-> t.slots[t.index[bytes[i]]]]
  <2>3. ListsBytes(bytes, DOMAIN f)
    BY <1>1, InOrderRight
  <2> HIDE DEF bytes
  <2>4. Entries(t) = [i \in 1..n |-> <<bytes[i], kids[i]>>]
    <3>1. DOMAIN bytes = 1..n
      BY <2>3 DEF ListsBytes
    <3>2. Entries(t) = [i \in DOMAIN bytes |-> <<bytes[i], t.slots[t.index[bytes[i]]]>>]
      BY <1>1, <1>5, <2>2 DEF Entries, Sorted, IndexedEntries, bytes
    <3> QED BY <3>1, <3>2
  <2> HIDE DEF kids
  <2>5. /\ Len(Entries(t)) = n /\ DOMAIN Entries(t) = 1..n
        /\ \A i \in 1..n : Entries(t)[i][1] = bytes[i] /\ Entries(t)[i][2] = kids[i]
    BY <1>2, <2>4, ListOf
  <2>6. \A i \in 1..n : bytes[i] \in DOMAIN f /\ kids[i] = f[bytes[i]]
    BY <2>2, <2>3 DEF ListsBytes, kids
  <2> QED BY <1>2, <2>3, <2>5, <2>6 DEF Lists, ListsBytes
<1>6. CASE kind = "Node256"
  <2>1. t.slots = f
    BY <1>6 DEF Holds, DirectHolds
  <2> DEFINE bytes == InOrder(DOMAIN f)
             kids == [i \in 1..n |-> f[bytes[i]]]
  <2>3. ListsBytes(bytes, DOMAIN f)
    BY <1>1, InOrderRight
  <2> HIDE DEF bytes
  <2>4. Entries(t) = [i \in 1..n |-> <<bytes[i], kids[i]>>]
    <3>1. DOMAIN bytes = 1..n
      BY <2>3 DEF ListsBytes
    <3>2. Entries(t) = [i \in DOMAIN bytes |-> <<bytes[i], f[bytes[i]]>>]
      BY <1>1, <1>6, <2>1 DEF Entries, Sorted, DirectEntries, bytes
    <3> QED BY <3>1, <3>2
  <2> HIDE DEF kids
  <2>5. /\ Len(Entries(t)) = n /\ DOMAIN Entries(t) = 1..n
        /\ \A i \in 1..n : Entries(t)[i][1] = bytes[i] /\ Entries(t)[i][2] = kids[i]
    BY <1>2, <2>4, ListOf
  <2>6. \A i \in 1..n : bytes[i] \in DOMAIN f /\ kids[i] = f[bytes[i]]
    BY <2>3 DEF ListsBytes, kids
  <2> QED BY <1>2, <2>3, <2>5, <2>6 DEF Lists, ListsBytes
<1> QED BY <1>3, <1>4, <1>5, <1>6

\* What a table that lists the children f tells of them is f.
LEMMA KidsRight ==
  ASSUME NEW f, f = [b \in DOMAIN f |-> f[b]], NEW t, Lists(Entries(t), f)
  PROVE  KidsOf(t) = f
<1> DEFINE n == Cardinality(DOMAIN f)
<1>1. PICK es : es = Entries(t)
  OBVIOUS
<1>2. /\ DOMAIN es = 1..n /\ \A i \in 1..n : es[i][1] \in DOMAIN f /\ es[i][2] = f[es[i][1]]
      /\ \A b \in DOMAIN f : \E i \in 1..n : es[i][1] = b
  BY <1>1 DEF Lists
<1> HIDE DEF n
<1>3. \A e \in ToSet(es) : e[1] \in DOMAIN f /\ e[2] = f[e[1]]
  BY <1>2 DEF ToSet
<1>4. \A b \in DOMAIN f : \E e \in ToSet(es) : e[1] = b
  BY <1>2 DEF ToSet
<1>5. {e[1] : e \in ToSet(es)} = DOMAIN f
  BY <1>3, <1>4
<1>6. ASSUME NEW b \in DOMAIN f
      PROVE  (CHOOSE e \in ToSet(es) : e[1] = b)[2] = f[b]
  <2>1. PICK e : e = CHOOSE x \in ToSet(es) : x[1] = b
    OBVIOUS
  <2>2. e \in ToSet(es) /\ e[1] = b
    BY <1>4, <2>1
  <2> QED BY <1>3, <2>1, <2>2
<1>7. KidsOf(t) = [b \in {e[1] : e \in ToSet(es)} |-> (CHOOSE e \in ToSet(es) : e[1] = b)[2]]
  BY <1>1 DEF KidsOf
<1> QED BY <1>5, <1>6, <1>7

-----------------------------------------------------------------------------
(* The binary search *)

\* One turn of the search, if g is what the next one finds.
FindStep(g, t, b, l, r) ==
  IF l >= r THEN 0
  ELSE LET mid == (l + r) \div 2 IN
       CASE t.keys[mid + 1] < b -> g[<<mid + 1, r>>]
         [] t.keys[mid + 1] = b -> mid + 1
         [] t.keys[mid + 1] > b -> g[<<l, mid>>]

\* The middle of a range lies in it.
LEMMA Middle ==
  ASSUME NEW l \in Nat, NEW r \in Nat, l < r
  PROVE  (l + r) \div 2 \in Nat /\ l <= (l + r) \div 2 /\ (l + r) \div 2 < r
OBVIOUS

\* g and h find the same in ranges shorter than that from l to r.
AgreeBelow(g, h, n, l, r) ==
  \A x, y \in 0..n : y + l < r + x => g[<<x, y>>] = h[<<x, y>>]

\* A turn depends on what is found in the shorter ranges alone.
LEMMA FindAgrees ==
  ASSUME NEW n \in Nat, NEW t, \A i \in 1..n : t.keys[i] \in Nat, NEW b \in Nat, NEW g, NEW h,
         NEW l \in 0..n, NEW r \in 0..n, AgreeBelow(g, h, n, l, r)
  PROVE  FindStep(g, t, b, l, r) = FindStep(h, t, b, l, r)
<1>1. CASE l >= r
  BY <1>1 DEF FindStep
<1>2. CASE ~(l >= r)
  <2>1. PICK mid \in Nat : mid = (l + r) \div 2 /\ l <= mid /\ mid < r
    BY <1>2, Middle
  <2>2. mid \in 0..n /\ mid + 1 \in 0..n /\ mid + 1 \in 1..n
    BY <2>1
  <2>3. g[<<mid + 1, r>>] = h[<<mid + 1, r>>]
    <3>1. r + l < r + (mid + 1)
      BY <2>1
    <3> QED BY <2>2, <3>1 DEF AgreeBelow
  <2>4. g[<<l, mid>>] = h[<<l, mid>>]
    <3>1. mid + l < r + l
      BY <2>1
    <3> QED BY <2>2, <3>1 DEF AgreeBelow
  <2>5. t.keys[mid + 1] \in Nat
    BY <2>2
  <2> QED BY <1>2, <2>1, <2>3, <2>4, <2>5 DEF FindStep
<1> QED BY <1>1, <1>2

\* g solves the recursion of the search.
SolvesFind(g, n, t, b) ==
  g = [p \in (0..n) \X (0..n) |-> FindStep(g, t, b, p[1], p[2])]

\* The recursion of the search has a solution.
LEMMA FindExists ==
  ASSUME NEW n \in Nat, NEW t, \A i \in 1..n : t.keys[i] \in Nat, NEW b \in Nat
  PROVE  \E g : SolvesFind(g, n, t, b)
<1> DEFINE Upto(g, m) == \A l, r \in 0..n : r <= l + m => g[<<l, r>>] = FindStep(g, t, b, l, r)
           S == {m \in Nat : \E g : Upto(g, m)}
           Turn(g) == [p \in (0..n) \X (0..n) |-> FindStep(g, t, b, p[1], p[2])]
<1>0. ASSUME NEW g, NEW l \in 0..n, NEW r \in 0..n
      PROVE  Turn(g)[<<l, r>>] = FindStep(g, t, b, l, r)
  OBVIOUS
<1>1. 0 \in S
  <2> DEFINE g == [p \in (0..n) \X (0..n) |-> 0]
  <2>1. ASSUME NEW l \in 0..n, NEW r \in 0..n, r <= l + 0
        PROVE  g[<<l, r>>] = FindStep(g, t, b, l, r)
    <3>1. l >= r
      BY <2>1
    <3> QED BY <3>1 DEF FindStep
  <2> HIDE DEF g
  <2>2. Upto(g, 0)
    BY <2>1
  <2> HIDE DEF Upto
  <2> QED BY <2>2
<1>2. ASSUME NEW m \in Nat, m \in S PROVE m + 1 \in S
  <2>1. PICK g : Upto(g, m)
    BY <1>2
  <2>2. PICK h : h = Turn(g)
    OBVIOUS
  <2>3. \A l, r \in 0..n : h[<<l, r>>] = FindStep(g, t, b, l, r)
    BY <1>0, <2>2
  <2>4. \A l, r \in 0..n : r <= l + m => g[<<l, r>>] = h[<<l, r>>]
    BY <2>1, <2>3
  <2>5. ASSUME NEW l \in 0..n, NEW r \in 0..n, r <= l + (m + 1)
        PROVE  h[<<l, r>>] = FindStep(h, t, b, l, r)
    <3>1. ASSUME NEW x \in 0..n, NEW y \in 0..n, y + l < r + x
          PROVE  g[<<x, y>>] = h[<<x, y>>]
      <4>1. y <= x + m
        BY <2>5, <3>1
      <4> QED BY <2>4, <4>1
    <3>2. AgreeBelow(g, h, n, l, r)
      BY <3>1 DEF AgreeBelow
    <3>3. FindStep(g, t, b, l, r) = FindStep(h, t, b, l, r)
      BY <3>2, FindAgrees, SMTT(30)
    <3> QED BY <2>3, <3>3
  <2>6. Upto(h, m + 1)
    BY <2>5
  <2> HIDE DEF Upto
  <2> QED BY <2>6
<1> HIDE DEF S
<1>3. Nat \subseteq S
  BY <1>1, <1>2, Induction
<1>4. PICK g : Upto(g, n)
  BY <1>3 DEF S
<1>5. PICK h : h = Turn(g)
  OBVIOUS
<1>6. \A l, r \in 0..n : h[<<l, r>>] = FindStep(g, t, b, l, r)
  BY <1>0, <1>5
<1>7. \A l, r \in 0..n : g[<<l, r>>] = h[<<l, r>>]
  <2>1. \A l, r \in 0..n : r <= l + n
    OBVIOUS
  <2> QED BY <1>4, <1>6, <2>1
<1>8. \A l, r \in 0..n : FindStep(g, t, b, l, r) = FindStep(h, t, b, l, r)
  <2> TAKE l, r \in 0..n
  <2>1. AgreeBelow(g, h, n, l, r)
    BY <1>7 DEF AgreeBelow
  <2> QED BY <2>1, FindAgrees
<1>9. h = Turn(h)
  BY <1>5, <1>8
<1> QED BY <1>9 DEF SolvesFind

\* What the search of a range answers: a place of b in it, or 0 if there is none.
FindRight(g, t, b, l, r) ==
  /\ g[<<l, r>>] \in Nat
  /\ g[<<l, r>>] # 0 => l < g[<<l, r>>] /\ g[<<l, r>>] <= r /\ t.keys[g[<<l, r>>]] = b
  /\ g[<<l, r>>] = 0 => \A i \in l + 1..r : t.keys[i] # b

\* If the search of shorter ranges is right, so is that of a range.
LEMMA FindStepRight ==
  ASSUME NEW n \in Nat, NEW t, \A i \in 1..n : t.keys[i] \in Nat, NEW b \in Nat,
         \A i, j \in 1..n : i < j => t.keys[i] < t.keys[j],
         NEW g, NEW l \in 0..n, NEW r \in 0..n, g[<<l, r>>] = FindStep(g, t, b, l, r),
         \A x, y \in 0..n : y + l < r + x => FindRight(g, t, b, x, y)
  PROVE  FindRight(g, t, b, l, r)
<1>1. CASE l >= r
  <2>1. g[<<l, r>>] = 0
    BY <1>1 DEF FindStep
  <2>2. \A i \in l + 1..r : FALSE
    BY <1>1
  <2> QED BY <2>1, <2>2 DEF FindRight
<1>2. CASE ~(l >= r)
  <2>1. PICK mid \in Nat : mid = (l + r) \div 2 /\ l <= mid /\ mid < r
    BY <1>2, Middle
  <2>2. mid \in 0..n /\ mid + 1 \in 0..n /\ mid + 1 \in 1..n
    BY <2>1
  <2>3. PICK q \in Nat : q = t.keys[mid + 1]
    BY <2>2
  <2>4. g[<<l, r>>] = CASE q < b -> g[<<mid + 1, r>>] [] q = b -> mid + 1 [] q > b -> g[<<l, mid>>]
    BY <1>2, <2>1, <2>3 DEF FindStep
  <2>5. CASE q < b
    <3>1. g[<<l, r>>] = g[<<mid + 1, r>>]
      BY <2>4, <2>5
    <3>2. FindRight(g, t, b, mid + 1, r)
      <4>1. r + l < r + (mid + 1)
        BY <2>1
      <4> QED BY <2>2, <4>1
    <3>3. \A i \in l + 1..mid + 1 : t.keys[i] # b
      <4> SUFFICES ASSUME NEW i \in l + 1..mid + 1 PROVE t.keys[i] # b
        OBVIOUS
      <4>1. i \in 1..n /\ (i = mid + 1 \/ i < mid + 1) /\ t.keys[i] \in Nat
        BY <2>2
      <4>2. t.keys[i] = q \/ t.keys[i] < q
        BY <2>2, <2>3, <4>1
      <4> QED BY <2>5, <4>1, <4>2
    <3>4. g[<<l, r>>] \in Nat /\ (g[<<l, r>>] # 0 => mid + 1 < g[<<l, r>>] /\ g[<<l, r>>] <= r /\ t.keys[g[<<l, r>>]] = b)
      BY <3>1, <3>2 DEF FindRight
    <3>5. g[<<l, r>>] = 0 => \A i \in mid + 2..r : t.keys[i] # b
      BY <3>1, <3>2 DEF FindRight
    <3>6. g[<<l, r>>] # 0 => l < g[<<l, r>>]
      BY <2>1, <3>4
    <3>7. \A i \in l + 1..r : i \in l + 1..mid + 1 \/ i \in mid + 2..r
      BY <2>1
    <3> QED BY <3>3, <3>4, <3>5, <3>6, <3>7 DEF FindRight
  <2>6. CASE q = b
    <3>1. g[<<l, r>>] = mid + 1
      BY <2>4, <2>6
    <3>2. mid + 1 \in Nat /\ mid + 1 # 0 /\ l < mid + 1 /\ mid + 1 <= r
      BY <2>1
    <3> QED BY <2>3, <2>6, <3>1, <3>2 DEF FindRight
  <2>7. CASE q > b
    <3>1. g[<<l, r>>] = g[<<l, mid>>]
      BY <2>4, <2>7
    <3>2. FindRight(g, t, b, l, mid)
      <4>1. mid + l < r + l
        BY <2>1
      <4> QED BY <2>2, <4>1
    <3>3. \A i \in mid + 1..r : t.keys[i] # b
      <4> SUFFICES ASSUME NEW i \in mid + 1..r PROVE t.keys[i] # b
        OBVIOUS
      <4>1. i \in 1..n /\ (i = mid + 1 \/ mid + 1 < i) /\ t.keys[i] \in Nat
        BY <2>2
      <4>2. t.keys[i] = q \/ q < t.keys[i]
        BY <2>2, <2>3, <4>1
      <4> QED BY <2>7, <4>1, <4>2
    <3>4. g[<<l, r>>] \in Nat /\ (g[<<l, r>>] # 0 => l < g[<<l, r>>] /\ g[<<l, r>>] <= mid /\ t.keys[g[<<l, r>>]] = b)
      BY <3>1, <3>2 DEF FindRight
    <3>5. g[<<l, r>>] = 0 => \A i \in l + 1..mid : t.keys[i] # b
      BY <3>1, <3>2 DEF FindRight
    <3>6. g[<<l, r>>] # 0 => g[<<l, r>>] <= r
      BY <2>1, <3>4
    <3>7. \A i \in l + 1..r : i \in l + 1..mid \/ i \in mid + 1..r
      BY <2>1
    <3> QED BY <3>3, <3>4, <3>5, <3>6, <3>7 DEF FindRight
  <2> QED BY <2>3, <2>5, <2>6, <2>7
<1> QED BY <1>1, <1>2

\* The search of a table in order.
LEMMA BinaryFindRight ==
  ASSUME NEW t, t.n \in Nat, \A i \in 1..t.n : t.keys[i] \in Nat, NEW b \in Nat,
         \A i, j \in 1..t.n : i < j => t.keys[i] < t.keys[j]
  PROVE  /\ BinaryFind(t, b) \in 0..t.n
         /\ BinaryFind(t, b) # 0 => t.keys[BinaryFind(t, b)] = b
         /\ BinaryFind(t, b) = 0 => \A i \in 1..t.n : t.keys[i] # b
<1>0. PICK n \in Nat : n = t.n
  OBVIOUS
<1>1. /\ n = t.n /\ \A i \in 1..n : t.keys[i] \in Nat
      /\ \A i, j \in 1..n : i < j => t.keys[i] < t.keys[j]
  BY <1>0
<1>2. PICK g : g = CHOOSE x : SolvesFind(x, n, t, b)
  OBVIOUS
<1>3. BinaryFind(t, b) = g[<<0, n>>]
  BY <1>1, <1>2 DEF BinaryFind, FindStep, SolvesFind
<1>4. SolvesFind(g, n, t, b)
  <2>1. \E x : SolvesFind(x, n, t, b)
    BY <1>1, FindExists
  <2> QED BY <1>2, <2>1
<1>5. \A l, r \in 0..n : g[<<l, r>>] = FindStep(g, t, b, l, r)
  BY <1>4 DEF SolvesFind
<1> DEFINE S == {m \in Nat : \A l, r \in 0..n : r < l + m => FindRight(g, t, b, l, r)}
<1>6. 0 \in S
  <2> SUFFICES ASSUME NEW l \in 0..n, NEW r \in 0..n, r < l + 0 PROVE FindRight(g, t, b, l, r)
    OBVIOUS
  <2>1. g[<<l, r>>] = 0
    <3>1. l >= r
      OBVIOUS
    <3>2. g[<<l, r>>] = FindStep(g, t, b, l, r)
      BY <1>5
    <3> QED BY <3>1, <3>2 DEF FindStep
  <2>2. \A i \in l + 1..r : FALSE
    OBVIOUS
  <2> QED BY <2>1, <2>2 DEF FindRight
<1>7. ASSUME NEW m \in Nat, m \in S PROVE m + 1 \in S
  <2> SUFFICES ASSUME NEW l \in 0..n, NEW r \in 0..n, r < l + (m + 1)
               PROVE  FindRight(g, t, b, l, r)
    OBVIOUS
  <2>1. ASSUME NEW x \in 0..n, NEW y \in 0..n, y + l < r + x PROVE FindRight(g, t, b, x, y)
    <3>1. y < x + m
      BY <2>1
    <3> QED BY <1>7, <3>1
  <2> QED BY <1>1, <1>5, <2>1, FindStepRight
<1> HIDE DEF S
<1>8. Nat \subseteq S
  BY <1>6, <1>7, Induction
<1>9. FindRight(g, t, b, 0, n)
  <2>1. n + 1 \in S /\ 0 \in 0..n /\ n \in 0..n /\ n < 0 + (n + 1)
    BY <1>8
  <2> QED BY <2>1 DEF S
<1> QED BY <1>1, <1>3, <1>9 DEF FindRight

-----------------------------------------------------------------------------
(* Finding and counting *)

\* A sorted table finds the place of every byte in it and of no other.
LEMMA PositionRight ==
  ASSUME NEW kind \in {"Node4", "Node16"}, NEW f, NEW t, Holds(t, kind, f), NEW b \in Byte
  PROVE  /\ b \in DOMAIN f => KeyPosition(t, b) \in 1..t.n /\ t.keys[KeyPosition(t, b)] = b
         /\ b \notin DOMAIN f => KeyPosition(t, b) = 0
<1>1. /\ t.kind = kind /\ t.n \in Nat
      /\ \A i \in 1..t.n : t.keys[i] \in Nat /\ t.keys[i] \in DOMAIN f
      /\ \A i, j \in 1..t.n : i < j => t.keys[i] < t.keys[j]
      /\ \A x \in DOMAIN f : \E i \in 1..t.n : t.keys[i] = x
  BY SortedFacts
<1>2. b \in Nat
  BY ByteSets
<1>3. CASE kind = "Node4"
  <2> DEFINE here == {i \in 1..t.n : t.keys[i] = b}
  <2>1. KeyPosition(t, b) = IF here = {} THEN 0 ELSE Min(here)
    BY <1>1, <1>3 DEF KeyPosition, LinearFind
  <2>2. here \subseteq Nat /\ \A i \in here : i \in 1..t.n /\ t.keys[i] = b
    BY <1>1
  <2>3. here = {} <=> b \notin DOMAIN f
    BY <1>1
  <2> HIDE DEF here
  <2>4. here # {} => Min(here) \in here
    BY <2>2, MinRight
  <2> QED BY <2>1, <2>2, <2>3, <2>4
<1>4. CASE kind = "Node16"
  <2>1. PICK i : i = BinaryFind(t, b)
    OBVIOUS
  <2>2. KeyPosition(t, b) = i
    BY <1>1, <1>4, <2>1 DEF KeyPosition
  <2>3. /\ i \in 0..t.n /\ (i # 0 => t.keys[i] = b)
        /\ i = 0 => \A j \in 1..t.n : t.keys[j] # b
    BY <1>1, <1>2, <2>1, BinaryFindRight
  <2>4. i # 0 => i \in 1..t.n /\ t.keys[i] \in DOMAIN f
    BY <1>1, <2>3
  <2> QED BY <1>1, <2>2, <2>3, <2>4
<1> QED BY <1>3, <1>4

\* seek_child finds the child under a byte, if there is one.
LEMMA SeekFinds ==
  ASSUME NEW kind, NEW f, NEW t, Holds(t, kind, f), NEW b \in Byte,
         kind \in {"Empty", "Node4", "Node16", "Node48", "Node256"}
  PROVE  Seek(t, b) = IF b \in DOMAIN f THEN f[b] ELSE Uninit
<1>1. t.kind = kind
  BY DEF Holds
<1>2. CASE kind = "Empty"
  <2>1. DOMAIN f = {}
    BY <1>2 DEF Holds
  <2> QED BY <1>1, <1>2, <2>1 DEF Seek, Sorted
<1>3. CASE kind \in {"Node4", "Node16"}
  <2>1. PICK i : i = KeyPosition(t, b)
    OBVIOUS
  <2>2. Seek(t, b) = IF i = 0 THEN Uninit ELSE t.slots[i]
    BY <1>1, <1>3, <2>1 DEF Seek, Sorted, SortedSeek
  <2>3. /\ b \in DOMAIN f => i \in 1..t.n /\ t.keys[i] = b
        /\ b \notin DOMAIN f => i = 0
    BY <1>3, <2>1, PositionRight
  <2>4. t.n \in Nat /\ \A j \in 1..t.n : f[t.keys[j]] = t.slots[j]
    BY <1>3, SortedFacts
  <2>5. CASE b \in DOMAIN f
    BY <2>2, <2>3, <2>4, <2>5
  <2>6. CASE b \notin DOMAIN f
    BY <2>2, <2>3, <2>6
  <2> QED BY <2>5, <2>6
<1>4. CASE kind = "Node48"
  <2>1. DOMAIN t.index = DOMAIN f /\ \A x \in DOMAIN f : f[x] = t.slots[t.index[x]]
    BY <1>4 DEF Holds, IndexedHolds
  <2> QED BY <1>1, <1>4, <2>1 DEF Seek, Sorted, IndexedSeek
<1>5. CASE kind = "Node256"
  <2>1. t.slots = f
    BY <1>5 DEF Holds, DirectHolds
  <2> QED BY <1>1, <1>5, <2>1 DEF Seek, Sorted, DirectSeek
<1> QED BY <1>2, <1>3, <1>4, <1>5

\* Sets that are matched one to one have as many elements.
LEMMA SameSize ==
  ASSUME NEW X, NEW Y, IsFiniteSet(Y), NEW m, \A x \in X : m[x] \in Y,
         \A x, y \in X : m[x] = m[y] => x = y, \A y \in Y : \E x \in X : m[x] = y
  PROVE  Cardinality(X) = Cardinality(Y)
<1> DEFINE g == [x \in X |-> m[x]]
<1>1. g \in [X -> Y] /\ \A x \in X : g[x] = m[x]
  OBVIOUS
<1> HIDE DEF g
<1>2. g \in Injection(X, Y)
  BY <1>1 DEF Injection, IsInjective
<1>3. g \in Surjection(X, Y)
  BY <1>1 DEF Surjection
<1> QED BY <1>2, <1>3, FS_Injection

\* Children under different bytes, and how often each is there.
LEMMA CountTyped ==
  ASSUME NEW f, f \in [DOMAIN f -> Child], DOMAIN f \subseteq Byte
  PROVE  /\ CountOf(f) \in [Slot -> Nat]
         /\ \A s : IsFiniteSet({b \in DOMAIN f : f[b] = s})
<1>1. ASSUME NEW s
      PROVE  IsFiniteSet({b \in DOMAIN f : f[b] = s}) /\ Cardinality({b \in DOMAIN f : f[b] = s}) \in Nat
  <2>1. {b \in DOMAIN f : f[b] = s} \subseteq Byte
    OBVIOUS
  <2> QED BY <2>1, ByteSets
<1> QED BY <1>1 DEF CountOf

\* Iteration comes by each reference once.
LEMMA HeldRight ==
  ASSUME NEW f, f \in [DOMAIN f -> Child], DOMAIN f \subseteq Byte, NEW t, Lists(Entries(t), f)
  PROVE  HeldBy(t) = CountOf(f)
<1>1. PICK es : es = Entries(t)
  OBVIOUS
<1>2. ASSUME NEW s \in Slot
      PROVE  Cardinality({i \in DOMAIN es : es[i][2] = s}) = Cardinality({b \in DOMAIN f : f[b] = s})
  <2> DEFINE X == {i \in DOMAIN es : es[i][2] = s}
             Y == {b \in DOMAIN f : f[b] = s}
             m == [i \in DOMAIN es |-> es[i][1]]
             n == Cardinality(DOMAIN f)
  <2>1. /\ n \in Nat /\ DOMAIN es = 1..n
        /\ \A i \in 1..n : es[i][1] \in DOMAIN f /\ es[i][2] = f[es[i][1]]
        /\ \A i, j \in 1..n : i < j => es[i][1] < es[j][1]
        /\ \A b \in DOMAIN f : \E i \in 1..n : es[i][1] = b
    BY <1>1 DEF Lists
  <2> HIDE DEF n
  <2>2. IsFiniteSet(Y)
    BY CountTyped
  <2>3. \A i \in X : m[i] \in Y
    BY <2>1
  <2>4. ASSUME NEW i \in X, NEW j \in X, m[i] = m[j] PROVE i = j
    <3>1. i \in 1..n /\ j \in 1..n /\ es[i][1] = es[j][1] /\ es[i][1] \in Nat
      BY <2>1, <2>4, ByteSets
    <3>2. ~(es[i][1] < es[j][1]) /\ ~(es[j][1] < es[i][1])
      BY <3>1
    <3>3. ~(i < j) /\ ~(j < i)
      BY <2>1, <3>1, <3>2
    <3> QED BY <2>1, <3>1, <3>3
  <2>5. \A b \in Y : \E i \in X : m[i] = b
    BY <2>1
  <2> HIDE DEF X, Y, m
  <2>6. Cardinality(X) = Cardinality(Y)
    BY <2>2, <2>3, <2>4, <2>5, SameSize
  <2> QED BY <2>6 DEF X, Y
<1>3. HeldBy(t) = [s \in Slot |-> Cardinality({i \in DOMAIN es : es[i][2] = s})]
  BY <1>1 DEF HeldBy
<1> QED BY <1>2, <1>3 DEF CountOf

\* Dropping a table releases each of its children once.
LEMMA DropRight ==
  ASSUME NEW kind, NEW f, NEW t, Holds(t, kind, f),
         kind \in {"Empty", "Node4", "Node16", "Node48", "Node256"}
  PROVE  DropOf(t) = CountOf(f)
<1>1. t.kind = kind /\ f \in [DOMAIN f -> Child] /\ DOMAIN f \subseteq Byte
  BY DEF Holds
<1>2. CASE kind = "Empty"
  <2>1. DOMAIN f = {}
    BY <1>2 DEF Holds
  <2>2. \A s : {b \in DOMAIN f : f[b] = s} = {}
    BY <2>1
  <2>3. CountOf(f) = [s \in Slot |-> 0]
    BY <2>2, FS_EmptySet DEF CountOf
  <2>4. DropOf(t) = [s \in Slot |-> 0]
    BY <1>1, <1>2 DEF DropOf, Sorted
  <2> QED BY <2>3, <2>4
<1>3. CASE kind \in {"Node4", "Node16"}
  <2>1. /\ t.n \in Nat
        /\ \A i \in 1..t.n : t.keys[i] \in Nat /\ t.keys[i] \in DOMAIN f /\ f[t.keys[i]] = t.slots[i]
        /\ \A i, j \in 1..t.n : i < j => t.keys[i] < t.keys[j]
        /\ \A x \in DOMAIN f : \E i \in 1..t.n : t.keys[i] = x
    BY <1>3, SortedFacts
  <2>2. ASSUME NEW s \in Slot
        PROVE  Cardinality({i \in 1..t.n : t.slots[i] = s}) = Cardinality({b \in DOMAIN f : f[b] = s})
    <3> DEFINE X == {i \in 1..t.n : t.slots[i] = s}
               Y == {b \in DOMAIN f : f[b] = s}
    <3>1. IsFiniteSet(Y)
      BY <1>1, CountTyped
    <3>2. \A i \in X : t.keys[i] \in Y
      BY <2>1
    <3>3. ASSUME NEW i \in X, NEW j \in X, t.keys[i] = t.keys[j] PROVE i = j
      <4>1. i \in 1..t.n /\ j \in 1..t.n /\ t.keys[i] \in Nat /\ t.keys[j] \in Nat
        BY <2>1
      <4>2. ~(t.keys[i] < t.keys[j]) /\ ~(t.keys[j] < t.keys[i])
        BY <3>3, <4>1
      <4>3. ~(i < j) /\ ~(j < i)
        BY <2>1, <4>1, <4>2
      <4> QED BY <2>1, <4>1, <4>3
    <3>4. \A b \in Y : \E i \in X : t.keys[i] = b
      BY <2>1
    <3> HIDE DEF X, Y
    <3>5. Cardinality(X) = Cardinality(Y)
      BY <3>1, <3>2, <3>3, <3>4, SameSize
    <3> QED BY <3>5 DEF X, Y
  <2>3. DropOf(t) = [s \in Slot |-> Cardinality({i \in 1..t.n : t.slots[i] = s})]
    BY <1>1, <1>3 DEF DropOf, Sorted
  <2> QED BY <2>2, <2>3 DEF CountOf
<1>4. CASE kind = "Node48"
  <2>1. /\ IsInjective(t.index) /\ DOMAIN t.index = DOMAIN f
        /\ \A b \in DOMAIN f : f[b] = t.slots[t.index[b]] /\ t.index[b] \in DOMAIN t.slots
        /\ \A i \in DOMAIN t.slots : \E b \in DOMAIN f : t.index[b] = i
    BY <1>4 DEF Holds, IndexedHolds, IndexedRight, Range
  <2>2. DOMAIN t.slots \subseteq 1..Width["Node48"] /\ IsFiniteSet(DOMAIN t.slots)
    <3>1. DOMAIN t.slots \subseteq 1..Width["Node48"]
      BY <1>4 DEF Holds, IndexedHolds, IndexedRight
    <3>2. IsFiniteSet(1..Width["Node48"])
      <4>1. 1 \in Int /\ Width["Node48"] \in Int
        BY Widths
      <4> QED BY <4>1, FS_Interval
    <3> QED BY <3>1, <3>2, FS_Subset
  <2>3. ASSUME NEW s \in Slot
        PROVE  Cardinality({i \in DOMAIN t.slots : t.slots[i] = s}) = Cardinality({b \in DOMAIN f : f[b] = s})
    <3> DEFINE X == {i \in DOMAIN t.slots : t.slots[i] = s}
               Y == {b \in DOMAIN f : f[b] = s}
    <3>1. IsFiniteSet(X)
      <4>1. X \subseteq DOMAIN t.slots
        OBVIOUS
      <4> HIDE DEF X
      <4> QED BY <2>2, <4>1, FS_Subset
    <3>2. \A b \in Y : t.index[b] \in X
      BY <2>1
    <3>3. \A b, c \in Y : t.index[b] = t.index[c] => b = c
      BY <2>1 DEF IsInjective
    <3>4. \A i \in X : \E b \in Y : t.index[b] = i
      BY <2>1
    <3> HIDE DEF X, Y
    <3>5. Cardinality(Y) = Cardinality(X)
      BY <3>1, <3>2, <3>3, <3>4, SameSize
    <3> QED BY <3>5 DEF X, Y
  <2>4. DropOf(t) = [s \in Slot |-> Cardinality({i \in DOMAIN t.slots : t.slots[i] = s})]
    BY <1>1, <1>4 DEF DropOf, Sorted
  <2> QED BY <2>3, <2>4 DEF CountOf
<1>5. CASE kind = "Node256"
  <2>1. t.slots = f
    BY <1>5 DEF Holds, DirectHolds
  <2>2. DropOf(t) = [s \in Slot |-> Cardinality({i \in DOMAIN t.slots : t.slots[i] = s})]
    BY <1>1, <1>5 DEF DropOf, Sorted
  <2> QED BY <2>1, <2>2 DEF CountOf
<1> QED BY <1>2, <1>3, <1>4, <1>5

\* What is left of a table whose children were moved out releases nothing.
LEMMA TakenDrops ==
  ASSUME NEW kind, NEW f, NEW t, Holds(t, kind, f),
         kind \in {"Node4", "Node16", "Node48", "Node256"}
  PROVE  DropOf(Taken(t)) = [s \in Slot |-> 0]
<1>1. t.kind = kind
  BY DEF Holds
<1>2. CASE kind \in {"Node4", "Node16"}
  <2>1. PICK left : left = Taken(t)
    OBVIOUS
  <2>2. left = [t EXCEPT !.slots = [i \in DOMAIN @ |-> Uninit], !.n = 0]
    BY <1>1, <1>2, <2>1 DEF Taken, Sorted
  <2>3. t \in SlotTable(kind)
    BY <1>2 DEF Holds, SortedHolds
  <2>4. left.n = 0 /\ left.kind = kind
    BY <1>1, <2>2, <2>3 DEF SlotTable
  <2>5. \A s : {i \in 1..left.n : left.slots[i] = s} = {}
    BY <2>4
  <2>6. DropOf(left) = [s \in Slot |-> Cardinality({i \in 1..left.n : left.slots[i] = s})]
    BY <1>2, <2>4 DEF DropOf, Sorted
  <2> QED BY <2>1, <2>5, <2>6, FS_EmptySet
<1>3. CASE kind \in {"Node48", "Node256"}
  <2>1. PICK left : left = Taken(t)
    OBVIOUS
  <2>2. left.kind = kind /\ DOMAIN left.slots = {}
    <3>1. CASE kind = "Node48"
      <4>1. PICK x, y, z : t = [kind |-> "Node48", index |-> x, slots |-> y, n |-> z]
        BY <3>1 DEF Holds, IndexedHolds
      <4>2. left = [t EXCEPT !.index = <<>>, !.slots = <<>>, !.n = 0]
        BY <1>1, <2>1, <3>1 DEF Taken, Sorted
      <4>3. left = [kind |-> "Node48", index |-> <<>>, slots |-> <<>>, n |-> 0]
        BY <4>1, <4>2
      <4> QED BY <3>1, <4>3
    <3>2. CASE kind = "Node256"
      <4>1. t = [kind |-> "Node256", slots |-> f, n |-> Cardinality(DOMAIN f)]
        BY <3>2 DEF Holds, DirectHolds
      <4>2. left = [t EXCEPT !.slots = <<>>]
        BY <1>1, <2>1, <3>2 DEF Taken, Sorted
      <4>3. left = [kind |-> "Node256", slots |-> <<>>, n |-> Cardinality(DOMAIN f)]
        BY <4>1, <4>2
      <4> QED BY <3>2, <4>3
    <3> QED BY <1>3, <3>1, <3>2
  <2>3. \A s : {i \in DOMAIN left.slots : left.slots[i] = s} = {}
    BY <2>2
  <2>4. DropOf(left) = [s \in Slot |-> Cardinality({i \in DOMAIN left.slots : left.slots[i] = s})]
    BY <1>3, <2>2 DEF DropOf, Sorted
  <2> QED BY <2>1, <2>3, <2>4, FS_EmptySet
<1> QED BY <1>2, <1>3

-----------------------------------------------------------------------------
(* Children enter and leave *)

\* f, a function from bytes to children.
Children(f) == f \in [DOMAIN f -> Child] /\ DOMAIN f \subseteq Byte

\* The first m of the rows list the children f in ascending order.
SortedRows(W, m, f, keys, slots) ==
  /\ keys \in [1..W -> Byte] /\ slots \in [1..W -> Slot]
  /\ m = Cardinality(DOMAIN f) /\ m \in 0..W
  /\ \A i \in 2..m : keys[i - 1] < keys[i]
  /\ \A i \in 1..m : keys[i] \in DOMAIN f /\ f[keys[i]] = slots[i]
  /\ \A i \in m + 1..W : keys[i] = LastByte /\ slots[i] = Uninit
  /\ \A b \in DOMAIN f : \E i \in 1..m : keys[i] = b

\* What makes a sorted table.
LEMMA MakeSorted ==
  ASSUME NEW kind \in {"Node4", "Node16"}, NEW f, Children(f), NEW W, W = Width[kind],
         NEW m, NEW keys, NEW slots, SortedRows(W, m, f, keys, slots),
         NEW r, r = [kind |-> kind, keys |-> keys, slots |-> slots, n |-> m]
  PROVE  Holds(r, kind, f)
<1>1. r.kind = kind /\ r.keys = keys /\ r.slots = slots /\ r.n = m
  OBVIOUS
<1>2. W \in Nat /\ m \in Nat
  BY Widths DEF SortedRows
<1>7. /\ keys \in [1..W -> Byte] /\ slots \in [1..W -> Slot]
      /\ m = Cardinality(DOMAIN f) /\ m \in 0..W
      /\ \A i \in 2..m : keys[i - 1] < keys[i]
      /\ \A i \in 1..m : keys[i] \in DOMAIN f /\ f[keys[i]] = slots[i]
      /\ \A i \in m + 1..W : keys[i] = LastByte /\ slots[i] = Uninit
      /\ \A b \in DOMAIN f : \E i \in 1..m : keys[i] = b
  BY DEF SortedRows
<1>3. r \in SlotTable(kind)
  BY <1>7 DEF SlotTable
<1>4. SortedRight(r)
  <2>1. \A i \in 2..m : keys[i - 1] < keys[i]
    BY <1>7
  <2>2. ASSUME NEW i \in 1..W PROVE (slots[i] = Uninit) <=> (i > m)
    <3>1. CASE i > m
      <4>1. i \in m + 1..W
        BY <1>2, <3>1
      <4> QED BY <1>7, <3>1, <4>1
    <3>2. CASE ~(i > m)
      <4>1. i \in 1..m
        BY <1>2, <3>2
      <4>2. slots[i] \in Child
        BY <1>7, <4>1 DEF Children
      <4> QED BY <3>2, <4>2, TableAssumption
    <3> QED BY <3>1, <3>2
  <2>3. \A i \in m + 1..W : keys[i] = LastByte
    BY <1>7
  <2> QED BY <1>1, <2>1, <2>2, <2>3 DEF SortedRight
<1>5. DOMAIN f = {keys[i] : i \in 1..m}
  <2>1. ASSUME NEW b \in DOMAIN f PROVE \E i \in 1..m : keys[i] = b
    BY <1>7
  <2>2. ASSUME NEW i \in 1..m PROVE keys[i] \in DOMAIN f
    BY <1>7
  <2> QED BY <2>1, <2>2
<1>6. SortedHolds(r, kind, f)
  <2>1. DOMAIN f = {r.keys[i] : i \in 1..r.n}
    BY <1>1, <1>5
  <2>2. ASSUME NEW i \in 1..r.n PROVE f[r.keys[i]] = r.slots[i]
    BY <1>1, <1>7
  <2> QED BY <1>3, <1>4, <2>1, <2>2 DEF SortedHolds
<1> QED BY <1>1, <1>6, <1>7 DEF Holds, Children

\* Each byte of f has a slot of its own, and that has its child.
IndexedRows(f, index, slots) ==
  /\ index \in [DOMAIN f -> DOMAIN slots] /\ slots \in [DOMAIN slots -> Child]
  /\ DOMAIN slots \subseteq 1..Width["Node48"]
  /\ \A a, b \in DOMAIN f : index[a] = index[b] => a = b
  /\ \A i \in DOMAIN slots : \E b \in DOMAIN f : index[b] = i
  /\ \A b \in DOMAIN f : f[b] = slots[index[b]]

\* What makes an indexed table.
LEMMA MakeIndexed ==
  ASSUME NEW f, Children(f), NEW index, NEW slots,
         IndexedRows(f, index, slots),
         NEW r, r = [kind |-> "Node48", index |-> index, slots |-> slots, n |-> Cardinality(DOMAIN f)]
  PROVE  Holds(r, "Node48", f)
<1>1. r.kind = "Node48" /\ r.index = index /\ r.slots = slots /\ r.n = Cardinality(DOMAIN f)
  OBVIOUS
<1>2. DOMAIN index = DOMAIN f
  BY DEF IndexedRows
<1>3. IsInjective(index) /\ Range(index) = DOMAIN slots
  BY <1>2 DEF IsInjective, Range, IndexedRows
<1>4. IndexedRight(r)
  BY <1>1, <1>2, <1>3 DEF IndexedRight, IndexedRows
<1>5. IndexedHolds(r, f)
  BY <1>1, <1>4 DEF IndexedHolds, IndexedRows
<1> QED BY <1>1, <1>5 DEF Holds, Children

\* What an indexed table looks like.
LEMMA IndexedFacts ==
  ASSUME NEW f, NEW t, Holds(t, "Node48", f)
  PROVE  /\ Children(f)
         /\ t = [kind |-> "Node48", index |-> t.index, slots |-> t.slots, n |-> Cardinality(DOMAIN f)]
         /\ t.index \in [DOMAIN f -> DOMAIN t.slots] /\ t.slots \in [DOMAIN t.slots -> Child]
         /\ DOMAIN t.slots \subseteq 1..Width["Node48"]
         /\ \A a, b \in DOMAIN f : t.index[a] = t.index[b] => a = b
         /\ \A i \in DOMAIN t.slots : \E b \in DOMAIN f : t.index[b] = i
         /\ \A b \in DOMAIN f : f[b] = t.slots[t.index[b]]
<1>1. IndexedHolds(t, f) /\ t.n = Cardinality(DOMAIN f)
  BY DEF Holds
<1>2. IndexedRight(t) /\ DOMAIN t.index = DOMAIN f
  BY <1>1 DEF IndexedHolds
<1>3. /\ \A a, b \in DOMAIN f : t.index[a] = t.index[b] => a = b
      /\ \A i \in DOMAIN t.slots : \E b \in DOMAIN f : t.index[b] = i
  BY <1>2 DEF IndexedRight, IsInjective, Range
<1>4. DOMAIN t.slots \subseteq 1..Width["Node48"]
  BY <1>2 DEF IndexedRight
<1>5. t = [kind |-> "Node48", index |-> t.index, slots |-> t.slots, n |-> Cardinality(DOMAIN f)]
  BY <1>1 DEF IndexedHolds
<1>6. Children(f)
  BY DEF Holds, Children
<1> QED BY <1>1, <1>3, <1>4, <1>5, <1>6 DEF IndexedHolds

\* g is f with one more child, c under b.
OneMore(f, b, c, g) ==
  /\ Children(g) /\ DOMAIN g = DOMAIN f \cup {b}
  /\ g[b] = c /\ \A x \in DOMAIN f : g[x] = f[x]
  /\ Cardinality(DOMAIN g) = Cardinality(DOMAIN f) + 1
  /\ Cardinality(DOMAIN f) \in Nat
  /\ CountOf(g) = Plus(CountOf(f), One(c))

\* That is With.
LEMMA WithFacts ==
  ASSUME NEW f, Children(f), NEW b \in Byte \ DOMAIN f, NEW c \in Child, NEW g, g = With(f, b, c)
  PROVE  OneMore(f, b, c, g)
<1>1. DOMAIN g = DOMAIN f \cup {b} /\ g[b] = c /\ \A x \in DOMAIN f : g[x] = f[x]
  BY DEF With
<1>2. Children(g)
  BY DEF With, Children
<1>3. IsFiniteSet(DOMAIN f) /\ Cardinality(DOMAIN f) \in Nat
  BY ByteSets DEF Children
<1>4. Cardinality(DOMAIN f \cup {b}) = Cardinality(DOMAIN f) + 1
  BY <1>3, FS_AddElement
<1>6. ASSUME NEW s \in Slot PROVE CountOf(g)[s] = CountOf(f)[s] + One(c)[s]
  <2> DEFINE X == {x \in DOMAIN f : f[x] = s}
             Y == {x \in DOMAIN g : g[x] = s}
  <2>1. CountOf(f)[s] = Cardinality(X) /\ CountOf(g)[s] = Cardinality(Y)
    BY DEF CountOf
  <2>2. IsFiniteSet(X) /\ Cardinality(X) \in Nat
    <3>1. X \subseteq Byte
      BY DEF Children
    <3> HIDE DEF X
    <3> QED BY <3>1, ByteSets
  <2>3. b \notin X
    OBVIOUS
  <2>4. CASE s = c
    <3>1. Y = X \cup {b}
      BY <1>1, <2>4
    <3>2. One(c)[s] = 1
      BY <2>4 DEF One
    <3> HIDE DEF X, Y
    <3>3. Cardinality(Y) = Cardinality(X) + 1
      BY <2>2, <2>3, <3>1, FS_AddElement
    <3> QED BY <2>1, <3>2, <3>3
  <2>5. CASE s # c
    <3>1. Y = X
      BY <1>1, <2>5
    <3>2. One(c)[s] = 0
      BY <2>5 DEF One
    <3> HIDE DEF X, Y
    <3> QED BY <2>1, <2>2, <3>1, <3>2
  <2> QED BY <2>4, <2>5
<1>7. CountOf(g) = Plus(CountOf(f), One(c))
  <2>1. CountOf(g) = [s \in Slot |-> CountOf(g)[s]]
    BY DEF CountOf
  <2> QED BY <1>6, <2>1 DEF Plus
<1> QED BY <1>1, <1>2, <1>3, <1>4, <1>7 DEF OneMore

\* g is f with one child less, that under b.
OneLess(f, b, g) ==
  /\ Children(g) /\ DOMAIN g = DOMAIN f \ {b}
  /\ \A x \in DOMAIN g : g[x] = f[x]
  /\ Cardinality(DOMAIN f) \in Nat /\ Cardinality(DOMAIN g) \in Nat
  /\ Cardinality(DOMAIN g) = Cardinality(DOMAIN f) - 1
  /\ CountOf(f) = Plus(CountOf(g), One(f[b]))

\* That is Without.
LEMMA WithoutFacts ==
  ASSUME NEW f, Children(f), NEW b \in DOMAIN f, NEW g, g = Without(f, b)
  PROVE  OneLess(f, b, g)
<1>1. DOMAIN g = DOMAIN f \ {b} /\ \A x \in DOMAIN g : g[x] = f[x]
  BY DEF Without
<1>2. Children(g)
  BY DEF Without, Children
<1>3. f[b] \in Child /\ b \in Byte \ DOMAIN g
  BY <1>1 DEF Children
<1>4. f = With(g, b, f[b])
  <2>1. DOMAIN g \cup {b} = DOMAIN f
    BY <1>1
  <2>2. f = [x \in DOMAIN f |-> f[x]]
    BY DEF Children
  <2>3. \A x \in DOMAIN f : f[x] = IF x = b THEN f[b] ELSE g[x]
    BY <1>1
  <2> QED BY <2>1, <2>2, <2>3 DEF With
<1>5. OneMore(g, b, f[b], f)
  BY <1>2, <1>3, <1>4, WithFacts
<1>6. /\ Cardinality(DOMAIN f) = Cardinality(DOMAIN g) + 1 /\ Cardinality(DOMAIN g) \in Nat
      /\ CountOf(f) = Plus(CountOf(g), One(f[b]))
  BY <1>5 DEF OneMore
<1>7. Cardinality(DOMAIN f) \in Nat /\ Cardinality(DOMAIN g) = Cardinality(DOMAIN f) - 1
  BY <1>6
<1> QED BY <1>1, <1>2, <1>6, <1>7 DEF OneLess

\* Where a new byte goes.
LEMMA InsertPlace ==
  ASSUME NEW kind \in {"Node4", "Node16"}, NEW f, NEW t, Holds(t, kind, f), NEW b \in Byte \ DOMAIN f
  PROVE  /\ InsertPosition(t, b) \in 1..t.n + 1
         /\ \A i \in 1..t.n : /\ i < InsertPosition(t, b) => t.keys[i] < b
                              /\ i >= InsertPosition(t, b) => b < t.keys[i]
<1> DEFINE above == {i \in 1..t.n : b < t.keys[i]}
<1>1. /\ t.n \in Nat
      /\ \A i \in 1..t.n : t.keys[i] \in Nat /\ t.keys[i] \in DOMAIN f
      /\ \A i, j \in 1..t.n : i < j => t.keys[i] < t.keys[j]
  BY SortedFacts
<1>2. b \in Nat
  BY ByteSets
<1>3. PICK p : p = InsertPosition(t, b)
  OBVIOUS
<1>4. p = IF above = {} THEN t.n + 1 ELSE Min(above)
  BY <1>3 DEF InsertPosition
<1>5. \A i \in 1..t.n : i \notin above => t.keys[i] < b
  BY <1>1, <1>2
<1>6. above \subseteq Nat /\ \A i \in above : i \in 1..t.n /\ b < t.keys[i]
  BY <1>1
<1>7. CASE above = {}
  <2>1. p = t.n + 1
    BY <1>4, <1>7
  <2>2. \A i \in 1..t.n : i < p /\ ~(i >= p) /\ t.keys[i] < b
    BY <1>1, <1>5, <1>7, <2>1
  <2> QED BY <1>1, <1>3, <2>1, <2>2
<1>8. CASE above # {}
  <2> HIDE DEF above
  <2>1. p \in above /\ \A i \in above : p <= i
    BY <1>4, <1>6, <1>8, MinRight
  <2>2. p \in 1..t.n /\ b < t.keys[p] /\ t.keys[p] \in Nat
    BY <1>1, <1>6, <2>1
  <2>3. \A i \in 1..t.n : i < p => t.keys[i] < b
    BY <1>1, <1>5, <2>1, <2>2
  <2>4. \A i \in 1..t.n : i >= p => b < t.keys[i]
    <3> TAKE i \in 1..t.n
    <3>1. CASE i = p
      BY <2>2, <3>1
    <3>2. CASE i > p
      <4>1. t.keys[p] < t.keys[i] /\ t.keys[i] \in Nat
        BY <1>1, <2>2, <3>2
      <4> QED BY <1>2, <2>2, <4>1
    <3> QED BY <1>1, <2>2, <3>1, <3>2
  <2>5. p \in 1..t.n + 1
    BY <1>1, <2>2
  <2> QED BY <1>3, <2>3, <2>4, <2>5
<1> QED BY <1>7, <1>8

\* What lies behind the children of a sorted table.
LEMMA SortedTail ==
  ASSUME NEW kind \in {"Node4", "Node16"}, NEW f, NEW t, Holds(t, kind, f)
  PROVE  /\ \A i \in t.n + 1..Width[kind] : t.keys[i] = LastByte /\ t.slots[i] = Uninit
         /\ t = [kind |-> kind, keys |-> t.keys, slots |-> t.slots, n |-> t.n]
<1>1. SortedRight(t) /\ t.kind = kind /\ t \in SlotTable(kind)
  BY DEF Holds, SortedHolds
<1>2. t.n \in Nat /\ Width[kind] \in Nat
  BY SortedFacts
<1>3. ASSUME NEW i \in t.n + 1..Width[kind] PROVE t.keys[i] = LastByte /\ t.slots[i] = Uninit
  <2>1. i \in 1..Width[kind] /\ i > t.n
    BY <1>2
  <2>2. t.keys[i] = LastByte
    BY <1>1 DEF SortedRight
  <2>3. t.slots[i] = Uninit
    BY <1>1, <2>1 DEF SortedRight
  <2> QED BY <2>2, <2>3
<1>4. t = [kind |-> kind, keys |-> t.keys, slots |-> t.slots, n |-> t.n]
  BY <1>1 DEF SlotTable
<1> QED BY <1>3, <1>4

\* new is row after x was put at p, the n elements of it from there moved up.
PutIn(W, n, p, X, x, row, new) ==
  /\ new \in [1..W -> X] /\ new[p] = x
  /\ \A i \in 1..p - 1 : new[i] = row[i]
  /\ \A i \in p + 1..n + 1 : new[i] = row[i - 1]
  /\ \A i \in n + 2..W : new[i] = row[i]

\* That is ShiftedIn.
LEMMA ShiftedInRow ==
  ASSUME NEW W \in Nat, NEW n \in Nat, n < W, NEW p \in 1..n + 1, NEW X, NEW x \in X,
         NEW row \in [1..W -> X], NEW new, new = ShiftedIn(row, p, n, x)
  PROVE  PutIn(W, n, p, X, x, row, new)
<1>1. new = [i \in 1..W |-> CASE i = p -> x
                              [] p < i /\ i <= n + 1 -> row[i - 1]
                              [] OTHER -> row[i]]
  BY DEF ShiftedIn
<1>2. p \in 1..W /\ new[p] = x
  BY <1>1
<1>3. ASSUME NEW i \in 1..p - 1 PROVE new[i] = row[i]
  <2>1. i \in 1..W /\ i # p /\ ~(p < i)
    OBVIOUS
  <2> QED BY <1>1, <2>1
<1>4. ASSUME NEW i \in p + 1..n + 1 PROVE new[i] = row[i - 1]
  <2>1. i \in 1..W /\ i # p /\ p < i /\ i <= n + 1
    OBVIOUS
  <2> QED BY <1>1, <2>1
<1>5. ASSUME NEW i \in n + 2..W PROVE new[i] = row[i]
  <2>1. i \in 1..W /\ i # p /\ ~(i <= n + 1)
    OBVIOUS
  <2> QED BY <1>1, <2>1
<1>6. ASSUME NEW i \in 1..W PROVE new[i] \in X
  <2>1. CASE i \in 1..p - 1
    BY <1>3, <2>1
  <2>2. CASE i = p
    BY <1>2, <2>2
  <2>3. CASE i \in p + 1..n + 1
    <3>1. i - 1 \in 1..W
      BY <2>3
    <3> QED BY <1>4, <2>3, <3>1
  <2>4. CASE i \in n + 2..W
    BY <1>5, <2>4
  <2>5. i \in 1..p - 1 \/ i = p \/ i \in p + 1..n + 1 \/ i \in n + 2..W
    OBVIOUS
  <2> QED BY <2>1, <2>2, <2>3, <2>4, <2>5
<1>7. new \in [1..W -> X]
  BY <1>1, <1>6
<1> QED BY <1>2, <1>3, <1>4, <1>5, <1>7 DEF PutIn

\* add_child of a sorted table.
LEMMA SortedAddRight ==
  ASSUME NEW kind \in {"Node4", "Node16"}, NEW f, NEW t, Holds(t, kind, f),
         NEW b \in Byte \ DOMAIN f, NEW c \in Child, t.n < Width[kind]
  PROVE  Holds(SortedAdd(t, b, c), kind, With(f, b, c))
<1>1. PICK n \in Nat, W \in Nat : n = t.n /\ W = Width[kind]
  BY SortedFacts
<1>2. /\ t.keys \in [1..W -> Byte] /\ t.slots \in [1..W -> Slot]
      /\ \A i \in 1..n : t.keys[i] \in Nat /\ t.keys[i] \in DOMAIN f
                         /\ f[t.keys[i]] = t.slots[i] /\ t.slots[i] \in Child
      /\ \A i, j \in 1..n : i < j => t.keys[i] < t.keys[j]
      /\ \A x \in DOMAIN f : \E i \in 1..n : t.keys[i] = x
      /\ n = Cardinality(DOMAIN f)
  BY <1>1, SortedFacts
<1>3. PICK p \in 1..n + 1 : p = InsertPosition(t, b)
  BY <1>1, InsertPlace
<1>4. \A i \in 1..n : (i < p => t.keys[i] < b) /\ (i >= p => b < t.keys[i])
  BY <1>1, <1>3, InsertPlace
<1>5. PICK keys, slots : keys = ShiftedIn(t.keys, p, n, b) /\ slots = ShiftedIn(t.slots, p, n, c)
  OBVIOUS
<1>6. n < W /\ b \in Byte /\ c \in Slot
  BY <1>1 DEF Slot
<1>7. /\ keys \in [1..W -> Byte] /\ keys[p] = b
      /\ \A i \in 1..p - 1 : keys[i] = t.keys[i]
      /\ \A i \in p + 1..n + 1 : keys[i] = t.keys[i - 1]
      /\ \A i \in n + 2..W : keys[i] = t.keys[i]
  <2>1. PutIn(W, n, p, Byte, b, t.keys, keys)
    BY <1>1, <1>2, <1>3, <1>5, <1>6, ShiftedInRow
  <2> QED BY <2>1 DEF PutIn
<1>8. /\ slots \in [1..W -> Slot] /\ slots[p] = c
      /\ \A i \in 1..p - 1 : slots[i] = t.slots[i]
      /\ \A i \in p + 1..n + 1 : slots[i] = t.slots[i - 1]
      /\ \A i \in n + 2..W : slots[i] = t.slots[i]
  <2>1. PutIn(W, n, p, Slot, c, t.slots, slots)
    BY <1>1, <1>2, <1>3, <1>5, <1>6, ShiftedInRow
  <2> QED BY <2>1 DEF PutIn
<1>9. SortedAdd(t, b, c) = [kind |-> kind, keys |-> keys, slots |-> slots, n |-> n + 1]
  <2>1. PICK x, y : x = t.keys /\ y = t.slots
    OBVIOUS
  <2>2. t = [kind |-> kind, keys |-> x, slots |-> y, n |-> n]
    BY <1>1, <2>1, SortedTail
  <2>3. SortedAdd(t, b, c) = [t EXCEPT !.keys = ShiftedIn(@, p, n, b),
                                       !.slots = ShiftedIn(@, p, n, c), !.n = @ + 1]
    BY <1>1, <1>3 DEF SortedAdd
  <2>4. keys = ShiftedIn(x, p, n, b) /\ slots = ShiftedIn(y, p, n, c)
    BY <1>5, <2>1
  <2> QED BY <2>2, <2>3, <2>4
<1>10. ASSUME NEW i \in 2..n + 1 PROVE keys[i - 1] < keys[i]
  <2>1. CASE i < p
    <3>1. i - 1 \in 1..p - 1 /\ i \in 1..p - 1 /\ i - 1 \in 1..n /\ i \in 1..n /\ i - 1 < i
      BY <1>1, <1>3, <2>1
    <3> QED BY <1>1, <1>2, <1>3, <1>7, <3>1
  <2>2. CASE i = p
    <3>1. i - 1 \in 1..p - 1 /\ i - 1 \in 1..n /\ i - 1 < p
      BY <1>1, <1>3, <2>2
    <3> QED BY <1>1, <1>3, <1>4, <1>7, <2>2, <3>1
  <2>3. CASE i = p + 1
    <3>1. i \in p + 1..n + 1 /\ i - 1 = p /\ p \in 1..n /\ p >= p
      BY <1>1, <1>3, <2>3
    <3>2. keys[i] = t.keys[p] /\ keys[i - 1] = b
      BY <1>7, <3>1
    <3>3. b < t.keys[p]
      BY <1>4, <3>1
    <3> QED BY <3>2, <3>3
  <2>4. CASE i > p + 1
    <3>1. /\ i \in p + 1..n + 1 /\ i - 1 \in p + 1..n + 1 /\ (i - 1) - 1 \in 1..n /\ i - 1 \in 1..n
          /\ (i - 1) - 1 < i - 1
      BY <1>1, <1>3, <2>4
    <3>2. keys[i] = t.keys[i - 1] /\ keys[i - 1] = t.keys[(i - 1) - 1]
      BY <1>7, <3>1
    <3>3. t.keys[(i - 1) - 1] < t.keys[i - 1]
      BY <1>2, <3>1
    <3> QED BY <3>2, <3>3
  <2> QED BY <1>1, <1>3, <2>1, <2>2, <2>3, <2>4
<1>11. PICK g : g = With(f, b, c)
  OBVIOUS
<1>12. /\ Children(g) /\ DOMAIN g = DOMAIN f \cup {b} /\ g[b] = c
       /\ \A x \in DOMAIN f : g[x] = f[x]
       /\ Cardinality(DOMAIN g) = n + 1
  <2>1. Children(f)
    BY DEF Holds, Children
  <2>2. OneMore(f, b, c, g)
    BY <1>11, <2>1, WithFacts
  <2> QED BY <1>2, <2>2 DEF OneMore
<1>13. ASSUME NEW i \in 1..n + 1 PROVE keys[i] \in DOMAIN g /\ g[keys[i]] = slots[i]
  <2>1. CASE i < p
    <3>1. i \in 1..p - 1 /\ i \in 1..n
      BY <1>1, <1>3, <2>1
    <3>2. keys[i] = t.keys[i] /\ slots[i] = t.slots[i]
      BY <1>7, <1>8, <3>1
    <3>3. t.keys[i] \in DOMAIN f /\ f[t.keys[i]] = t.slots[i]
      BY <1>2, <3>1
    <3>4. t.keys[i] \in DOMAIN g /\ g[t.keys[i]] = f[t.keys[i]]
      BY <1>12, <3>3
    <3> QED BY <3>2, <3>3, <3>4
  <2>2. CASE i = p
    BY <1>1, <1>3, <1>7, <1>8, <1>12, <2>2
  <2>3. CASE i > p
    <3>1. i \in p + 1..n + 1 /\ i - 1 \in 1..n
      BY <1>1, <1>3, <2>3
    <3>2. keys[i] = t.keys[i - 1] /\ slots[i] = t.slots[i - 1]
      BY <1>7, <1>8, <3>1
    <3>3. t.keys[i - 1] \in DOMAIN f /\ f[t.keys[i - 1]] = t.slots[i - 1]
      BY <1>2, <3>1
    <3>4. t.keys[i - 1] \in DOMAIN g /\ g[t.keys[i - 1]] = f[t.keys[i - 1]]
      BY <1>12, <3>3
    <3> QED BY <3>2, <3>3, <3>4
  <2> QED BY <1>1, <1>3, <2>1, <2>2, <2>3
<1>14. ASSUME NEW i \in (n + 1) + 1..W PROVE keys[i] = LastByte /\ slots[i] = Uninit
  <2>1. i \in n + 2..W /\ i \in n + 1..W
    BY <1>1, <1>3
  <2>2. t.keys[i] = LastByte /\ t.slots[i] = Uninit
    BY <1>1, <1>3, <2>1, SortedTail
  <2> QED BY <1>1, <1>3, <1>7, <1>8, <2>1, <2>2
<1>15. ASSUME NEW x \in DOMAIN g PROVE \E i \in 1..n + 1 : keys[i] = x
  <2>1. CASE x = b
    BY <1>1, <1>3, <1>7, <2>1
  <2>2. CASE x # b
    <3>1. PICK i \in 1..n : t.keys[i] = x
      BY <1>1, <1>2, <1>3, <1>12, <2>2
    <3>2. CASE i < p
      <4>1. i \in 1..p - 1 /\ i \in 1..n + 1
        BY <1>1, <1>3, <3>2
      <4> QED BY <1>1, <1>3, <1>7, <3>1, <4>1
    <3>3. CASE i >= p
      <4>1. i + 1 \in p + 1..n + 1 /\ (i + 1) - 1 = i /\ i + 1 \in 1..n + 1
        BY <1>1, <1>3, <3>3
      <4> QED BY <1>1, <1>3, <1>7, <3>1, <4>1
    <3> QED BY <1>1, <1>3, <3>2, <3>3
  <2> QED BY <1>1, <1>3, <2>1, <2>2
<1>16. PICK m : m = n + 1
  OBVIOUS
<1>17. m = Cardinality(DOMAIN g) /\ m \in 0..W
  BY <1>1, <1>3, <1>6, <1>12, <1>16
<1>18. SortedRows(W, m, g, keys, slots)
  BY <1>7, <1>8, <1>10, <1>12, <1>13, <1>14, <1>15, <1>16, <1>17 DEF SortedRows
<1>20. Holds(SortedAdd(t, b, c), kind, g)
  BY <1>1, <1>9, <1>12, <1>16, <1>18, MakeSorted
<1> QED BY <1>11, <1>20

\* new is row after the element at p was taken out, and x put at the end.
TakenOut(W, p, X, x, row, new) ==
  /\ new \in [1..W -> X] /\ new[W] = x
  /\ \A i \in 1..p - 1 : new[i] = row[i]
  /\ \A i \in p..W - 1 : new[i] = row[i + 1]

\* That is ShiftedOut.
LEMMA ShiftedOutRow ==
  ASSUME NEW W \in Nat, NEW p \in 1..W, NEW X, NEW x \in X,
         NEW row \in [1..W -> X], NEW new, new = ShiftedOut(row, p, x)
  PROVE  TakenOut(W, p, X, x, row, new)
<1>1. row \in Seq(X) /\ Len(row) = W
  OBVIOUS
<1>2. new = Append(RemoveAt(row, p), x)
  BY DEF ShiftedOut
<1>3. PICK low, high : low = SubSeq(row, 1, p - 1) /\ high = SubSeq(row, p + 1, W)
  OBVIOUS
<1>4. low \in Seq(X) /\ Len(low) = p - 1 /\ \A i \in 1..p - 1 : low[i] = row[i]
  BY <1>1, <1>3
<1>5. high \in Seq(X) /\ Len(high) = W - p /\ \A i \in 1..W - p : high[i] = row[p + i]
  BY <1>1, <1>3
<1>6. PICK rest : rest = low \o high
  OBVIOUS
<1>7. /\ rest \in Seq(X) /\ Len(rest) = Len(low) + Len(high)
      /\ \A i \in 1..Len(low) + Len(high) :
           rest[i] = IF i <= Len(low) THEN low[i] ELSE high[i - Len(low)]
  BY <1>4, <1>5, <1>6, ConcatProperties
<1>8. rest \in Seq(X) /\ Len(rest) = W - 1
  BY <1>4, <1>5, <1>7
<1>9. new = Append(rest, x)
  BY <1>1, <1>2, <1>3, <1>6 DEF RemoveAt
<1>10. new \in Seq(X) /\ Len(new) = W /\ new[W] = x /\ \A i \in 1..W - 1 : new[i] = rest[i]
  BY <1>8, <1>9
<1>11. ASSUME NEW i \in 1..p - 1 PROVE new[i] = row[i]
  <2>1. i \in 1..W - 1 /\ i <= Len(low) /\ i \in 1..Len(low) + Len(high)
    BY <1>4, <1>5
  <2> QED BY <1>4, <1>7, <1>10, <2>1
<1>12. ASSUME NEW i \in p..W - 1 PROVE new[i] = row[i + 1]
  <2>1. /\ i \in 1..W - 1 /\ ~(i <= Len(low)) /\ i \in 1..Len(low) + Len(high)
        /\ i - Len(low) \in 1..W - p /\ p + (i - Len(low)) = i + 1
    BY <1>4, <1>5
  <2>2. new[i] = high[i - Len(low)]
    BY <1>7, <1>10, <2>1
  <2>3. high[i - Len(low)] = row[p + (i - Len(low))]
    BY <1>5, <2>1
  <2> QED BY <2>1, <2>2, <2>3
<1> QED BY <1>10, <1>11, <1>12 DEF TakenOut

\* delete_child of a sorted table.
LEMMA SortedDeleteRight ==
  ASSUME NEW kind \in {"Node4", "Node16"}, NEW f, NEW t, Holds(t, kind, f), NEW b \in DOMAIN f
  PROVE  Holds(SortedDelete(t, KeyPosition(t, b)), kind, Without(f, b))
<1>1. PICK n \in Nat, W \in Nat : n = t.n /\ W = Width[kind]
  BY SortedFacts
<1>2. /\ t.keys \in [1..W -> Byte] /\ t.slots \in [1..W -> Slot] /\ n \in 0..W
      /\ \A i \in 1..n : t.keys[i] \in Nat /\ t.keys[i] \in DOMAIN f
                         /\ f[t.keys[i]] = t.slots[i] /\ t.slots[i] \in Child
      /\ \A i, j \in 1..n : i < j => t.keys[i] < t.keys[j]
      /\ \A x \in DOMAIN f : \E i \in 1..n : t.keys[i] = x
      /\ n = Cardinality(DOMAIN f)
  BY <1>1, SortedFacts
<1>3. PICK p \in 1..n : p = KeyPosition(t, b) /\ t.keys[p] = b
  <2>1. b \in Byte
    BY DEF Holds
  <2> QED BY <1>1, <2>1, PositionRight
<1>19. n \in Nat /\ W \in Nat /\ n <= W /\ p \in 1..n
  <2>1. n \in 0..W
    BY <1>2
  <2> QED BY <2>1
<1>4. p \in 1..W /\ LastByte \in Byte /\ Uninit \in Slot /\ n - 1 \in Nat
  <2>1. p \in 1..W /\ n - 1 \in Nat
    BY <1>19
  <2>2. LastByte \in Byte
    BY TableAssumption DEF Byte
  <2> QED BY <2>1, <2>2 DEF Slot
<1>5. PICK keys, slots : keys = ShiftedOut(t.keys, p, LastByte) /\ slots = ShiftedOut(t.slots, p, Uninit)
  OBVIOUS
<1>6. /\ keys \in [1..W -> Byte] /\ keys[W] = LastByte
      /\ \A i \in 1..p - 1 : keys[i] = t.keys[i]
      /\ \A i \in p..W - 1 : keys[i] = t.keys[i + 1]
  <2>1. TakenOut(W, p, Byte, LastByte, t.keys, keys)
    BY <1>1, <1>2, <1>4, <1>5, ShiftedOutRow
  <2> QED BY <2>1 DEF TakenOut
<1>7. /\ slots \in [1..W -> Slot] /\ slots[W] = Uninit
      /\ \A i \in 1..p - 1 : slots[i] = t.slots[i]
      /\ \A i \in p..W - 1 : slots[i] = t.slots[i + 1]
  <2>1. TakenOut(W, p, Slot, Uninit, t.slots, slots)
    BY <1>1, <1>2, <1>4, <1>5, ShiftedOutRow
  <2> QED BY <2>1 DEF TakenOut
<1>8. SortedDelete(t, p) = [kind |-> kind, keys |-> keys, slots |-> slots, n |-> n - 1]
  <2>1. PICK x, y : x = t.keys /\ y = t.slots
    OBVIOUS
  <2>2. t = [kind |-> kind, keys |-> x, slots |-> y, n |-> n]
    BY <1>1, <2>1, SortedTail
  <2>3. SortedDelete(t, p) = [t EXCEPT !.keys = ShiftedOut(@, p, LastByte),
                                       !.slots = ShiftedOut(@, p, Uninit), !.n = @ - 1]
    BY DEF SortedDelete
  <2>4. keys = ShiftedOut(x, p, LastByte) /\ slots = ShiftedOut(y, p, Uninit)
    BY <1>5, <2>1
  <2> QED BY <2>2, <2>3, <2>4
<1>9. PICK g : g = Without(f, b)
  OBVIOUS
<1>10. /\ Children(g) /\ DOMAIN g = DOMAIN f \ {b} /\ \A x \in DOMAIN g : g[x] = f[x]
       /\ Cardinality(DOMAIN g) = n - 1
  <2>1. Children(f)
    BY DEF Holds, Children
  <2>2. OneLess(f, b, g)
    BY <1>9, <2>1, WithoutFacts
  <2> QED BY <1>2, <2>2 DEF OneLess
<1>11. \A i \in 1..n : i # p => t.keys[i] # b
  <2> TAKE i \in 1..n
  <2>1. i < p => t.keys[i] < t.keys[p]
    BY <1>1, <1>2, <1>3
  <2>2. p < i => t.keys[p] < t.keys[i]
    BY <1>1, <1>2, <1>3
  <2>3. t.keys[p] \in Nat /\ t.keys[i] \in Nat
    BY <1>1, <1>2, <1>3
  <2> QED BY <1>3, <1>19, <2>1, <2>2, <2>3
<1>12. ASSUME NEW i \in 2..n - 1 PROVE keys[i - 1] < keys[i]
  <2>1. CASE i < p
    <3>1. i - 1 \in 1..p - 1 /\ i \in 1..p - 1 /\ i - 1 \in 1..n /\ i \in 1..n /\ i - 1 < i
      BY <1>19, <2>1
    <3> QED BY <1>2, <1>3, <1>6, <1>19, <3>1
  <2>2. CASE i = p
    <3>1. /\ i - 1 \in 1..p - 1 /\ i \in p..W - 1 /\ i - 1 \in 1..n /\ i + 1 \in 1..n
          /\ i - 1 < i + 1
      BY <1>19, <2>2
    <3>2. keys[i - 1] = t.keys[i - 1] /\ keys[i] = t.keys[i + 1]
      BY <1>6, <3>1
    <3>3. t.keys[i - 1] < t.keys[i + 1]
      BY <1>2, <3>1
    <3> QED BY <3>2, <3>3
  <2>3. CASE i > p
    <3>1. /\ i - 1 \in p..W - 1 /\ i \in p..W - 1 /\ (i - 1) + 1 \in 1..n /\ i + 1 \in 1..n
          /\ (i - 1) + 1 < i + 1
      BY <1>19, <2>3
    <3>2. keys[i - 1] = t.keys[(i - 1) + 1] /\ keys[i] = t.keys[i + 1]
      BY <1>6, <3>1
    <3>3. t.keys[(i - 1) + 1] < t.keys[i + 1]
      BY <1>2, <3>1
    <3> QED BY <3>2, <3>3
  <2> QED BY <1>19, <2>1, <2>2, <2>3
<1>13. ASSUME NEW i \in 1..n - 1 PROVE keys[i] \in DOMAIN g /\ g[keys[i]] = slots[i]
  <2>1. CASE i < p
    <3>1. i \in 1..p - 1 /\ i \in 1..n /\ i # p
      BY <1>19, <2>1
    <3>2. keys[i] = t.keys[i] /\ slots[i] = t.slots[i]
      BY <1>6, <1>7, <3>1
    <3>3. t.keys[i] \in DOMAIN f /\ f[t.keys[i]] = t.slots[i] /\ t.keys[i] # b
      BY <1>2, <1>11, <3>1
    <3> QED BY <1>10, <3>2, <3>3
  <2>2. CASE i >= p
    <3>1. i \in p..W - 1 /\ i + 1 \in 1..n /\ i + 1 # p
      BY <1>19, <2>2
    <3>2. keys[i] = t.keys[i + 1] /\ slots[i] = t.slots[i + 1]
      BY <1>6, <1>7, <3>1
    <3>3. t.keys[i + 1] \in DOMAIN f /\ f[t.keys[i + 1]] = t.slots[i + 1] /\ t.keys[i + 1] # b
      BY <1>2, <1>11, <3>1
    <3> QED BY <1>10, <3>2, <3>3
  <2> QED BY <1>19, <2>1, <2>2
<1>14. ASSUME NEW i \in (n - 1) + 1..W PROVE keys[i] = LastByte /\ slots[i] = Uninit
  <2>1. CASE i = W
    BY <1>6, <1>7, <2>1
  <2>2. CASE i # W
    <3>1. i \in p..W - 1 /\ i + 1 \in n + 1..W
      BY <1>19, <2>2
    <3>2. t.keys[i + 1] = LastByte /\ t.slots[i + 1] = Uninit
      BY <1>1, <1>3, <3>1, SortedTail
    <3> QED BY <1>6, <1>7, <3>1, <3>2
  <2> QED BY <1>19, <2>1, <2>2
<1>15. ASSUME NEW x \in DOMAIN g PROVE \E i \in 1..n - 1 : keys[i] = x
  <2>1. PICK i \in 1..n : t.keys[i] = x
    BY <1>1, <1>2, <1>3, <1>10
  <2>2. i # p
    BY <1>1, <1>3, <1>10, <2>1
  <2>3. CASE i < p
    <3>1. i \in 1..p - 1 /\ i \in 1..n - 1
      BY <1>19, <2>1, <2>3
    <3> QED BY <1>6, <2>1, <3>1
  <2>4. CASE i > p
    <3>1. i - 1 \in p..W - 1 /\ (i - 1) + 1 = i /\ i - 1 \in 1..n - 1
      BY <1>19, <2>1, <2>4
    <3> QED BY <1>6, <2>1, <3>1
  <2> QED BY <1>19, <2>1, <2>2, <2>3, <2>4
<1>16. PICK m : m = n - 1
  OBVIOUS
<1>17. m = Cardinality(DOMAIN g) /\ m \in 0..W
  <2>1. m = Cardinality(DOMAIN g)
    BY <1>10, <1>16
  <2>2. m \in 0..W
    BY <1>16, <1>19
  <2> QED BY <2>1, <2>2
<1>18. SortedRows(W, m, g, keys, slots)
  BY <1>6, <1>7, <1>10, <1>12, <1>13, <1>14, <1>15, <1>16, <1>17 DEF SortedRows
<1>20. Holds(SortedDelete(t, p), kind, g)
  BY <1>1, <1>8, <1>10, <1>16, <1>18, MakeSorted
<1> QED BY <1>3, <1>9, <1>20

\* Another value for one argument.
LEMMA WithDef ==
  ASSUME NEW f, NEW x, NEW y, NEW g, g = With(f, x, y)
  PROVE  /\ DOMAIN g = DOMAIN f \cup {x} /\ g[x] = y
         /\ \A z \in DOMAIN f : z # x => g[z] = f[z]
BY DEF With

\* One argument less.
LEMMA WithoutDef ==
  ASSUME NEW f, NEW x, NEW g, g = Without(f, x)
  PROVE  /\ DOMAIN g = DOMAIN f \ {x}
         /\ \A z \in DOMAIN f : z # x => g[z] = f[z]
BY DEF Without

\* A Node48 with room has an empty slot.
LEMMA FirstEmptyRight ==
  ASSUME NEW f, NEW t, Holds(t, "Node48", f), Cardinality(DOMAIN f) < Width["Node48"]
  PROVE  FirstEmpty(t) \in (1..Width["Node48"]) \ DOMAIN t.slots
<1>1. PICK W \in Nat : W = Width["Node48"]
  BY Widths
<1> DEFINE free == (1..W) \ DOMAIN t.slots
<1>2. IsFiniteSet(1..W) /\ Cardinality(1..W) = W
  BY <1>1, FS_Interval
<1>3. ASSUME free = {} PROVE FALSE
  <2>1. /\ \A b \in DOMAIN f : t.index[b] \in DOMAIN t.slots
        /\ DOMAIN t.slots \subseteq 1..W
        /\ \A a, b \in DOMAIN f : t.index[a] = t.index[b] => a = b
        /\ \A i \in DOMAIN t.slots : \E b \in DOMAIN f : t.index[b] = i
    BY <1>1, IndexedFacts
  <2>2. DOMAIN t.slots = 1..W
    BY <1>3, <2>1
  <2>3. Cardinality(DOMAIN f) = Cardinality(1..W)
    <3>1. PICK X, Y, m : X = DOMAIN f /\ Y = 1..W /\ m = t.index
      OBVIOUS
    <3>2. /\ IsFiniteSet(Y) /\ \A x \in X : m[x] \in Y
          /\ \A x, y \in X : m[x] = m[y] => x = y
          /\ \A y \in Y : \E x \in X : m[x] = y
      BY <1>2, <2>1, <2>2, <3>1
    <3>3. Cardinality(X) = Cardinality(Y)
      BY <3>2, SameSize
    <3> QED BY <3>1, <3>3
  <2>4. ~(W < W)
    BY <1>1
  <2> QED BY <1>1, <1>2, <2>3, <2>4
<1>4. free \subseteq Nat /\ free # {}
  BY <1>3
<1>5. FirstEmpty(t) = Min(free)
  BY <1>1 DEF FirstEmpty
<1> HIDE DEF free
<1>6. FirstEmpty(t) \in free
  BY <1>4, <1>5, MinRight
<1> QED BY <1>1, <1>6 DEF free

\* A child enters an empty slot of a Node48.
LEMMA IndexedSetRight ==
  ASSUME NEW f, NEW t, Holds(t, "Node48", f), NEW b \in Byte \ DOMAIN f, NEW c \in Child,
         NEW pos \in (1..Width["Node48"]) \ DOMAIN t.slots
  PROVE  Holds(IndexedSet(t, b, c, pos), "Node48", With(f, b, c))
<1>1. /\ Children(f) /\ t.index \in [DOMAIN f -> DOMAIN t.slots]
      /\ t.slots \in [DOMAIN t.slots -> Child]
      /\ DOMAIN t.slots \subseteq 1..Width["Node48"]
      /\ \A x, y \in DOMAIN f : t.index[x] = t.index[y] => x = y
      /\ \A i \in DOMAIN t.slots : \E x \in DOMAIN f : t.index[x] = i
      /\ \A x \in DOMAIN f : f[x] = t.slots[t.index[x]]
  BY IndexedFacts
<1>2. PICK n : n = Cardinality(DOMAIN f)
  OBVIOUS
<1>3. t = [kind |-> "Node48", index |-> t.index, slots |-> t.slots, n |-> n]
  BY <1>2, IndexedFacts
<1>4. PICK g, index, slots : g = With(f, b, c) /\ index = With(t.index, b, pos) /\ slots = With(t.slots, pos, c)
  OBVIOUS
<1>5. /\ Children(g) /\ DOMAIN g = DOMAIN f \cup {b} /\ g[b] = c
      /\ \A x \in DOMAIN f : g[x] = f[x]
      /\ Cardinality(DOMAIN g) = n + 1
  <2>1. OneMore(f, b, c, g)
    BY <1>1, <1>4, WithFacts
  <2> QED BY <1>2, <2>1 DEF OneMore
<1>6. /\ DOMAIN index = DOMAIN f \cup {b} /\ index[b] = pos
      /\ \A x \in DOMAIN f : index[x] = t.index[x]
      /\ index = [x \in DOMAIN index |-> index[x]]
  <2>1. DOMAIN t.index = DOMAIN f /\ \A x \in DOMAIN f : x # b
    BY <1>1
  <2>2. /\ DOMAIN index = DOMAIN t.index \cup {b} /\ index[b] = pos
        /\ \A x \in DOMAIN t.index : x # b => index[x] = t.index[x]
    BY <1>4 DEF With
  <2>3. index = [x \in DOMAIN index |-> index[x]]
    BY <1>4 DEF With
  <2> QED BY <2>1, <2>2, <2>3
<1>7. /\ DOMAIN slots = DOMAIN t.slots \cup {pos} /\ slots[pos] = c
      /\ \A i \in DOMAIN t.slots : i # pos /\ slots[i] = t.slots[i]
      /\ slots = [i \in DOMAIN slots |-> slots[i]]
  <2>1. /\ DOMAIN slots = DOMAIN t.slots \cup {pos} /\ slots[pos] = c
        /\ \A i \in DOMAIN t.slots : i # pos => slots[i] = t.slots[i]
    BY <1>4 DEF With
  <2>2. slots = [i \in DOMAIN slots |-> slots[i]]
    BY <1>4 DEF With
  <2> QED BY <2>1, <2>2
<1>8. IndexedSet(t, b, c, pos) = [kind |-> "Node48", index |-> index, slots |-> slots, n |-> n + 1]
  <2>1. IndexedSet(t, b, c, pos) = [t EXCEPT !.index = With(@, b, pos), !.slots = With(@, pos, c), !.n = @ + 1]
    BY DEF IndexedSet
  <2>2. PICK x, y : x = t.index /\ y = t.slots
    OBVIOUS
  <2>3. t = [kind |-> "Node48", index |-> x, slots |-> y, n |-> n]
    BY <1>3, <2>2
  <2>4. index = With(x, b, pos) /\ slots = With(y, pos, c)
    BY <1>4, <2>2
  <2> QED BY <2>1, <2>3, <2>4
<1>9. index \in [DOMAIN g -> DOMAIN slots]
  <2>1. \A x \in DOMAIN g : index[x] \in DOMAIN slots
    BY <1>1, <1>5, <1>6, <1>7
  <2> QED BY <1>5, <1>6, <2>1
<1>10. slots \in [DOMAIN slots -> Child]
  <2>1. \A i \in DOMAIN slots : slots[i] \in Child
    BY <1>1, <1>7
  <2> QED BY <1>7, <2>1
<1>11. DOMAIN slots \subseteq 1..Width["Node48"]
  BY <1>1, <1>7
<1>12. \A x \in DOMAIN f : t.index[x] # pos
  BY <1>1, <1>7
<1>13. ASSUME NEW x \in DOMAIN g, NEW y \in DOMAIN g, index[x] = index[y] PROVE x = y
  BY <1>1, <1>5, <1>6, <1>12, <1>13
<1>14. \A i \in DOMAIN slots : \E x \in DOMAIN g : index[x] = i
  BY <1>1, <1>5, <1>6, <1>7
<1>15. \A x \in DOMAIN g : g[x] = slots[index[x]]
  BY <1>1, <1>5, <1>6, <1>7
<1>16. IndexedRows(g, index, slots)
  BY <1>9, <1>10, <1>11, <1>13, <1>14, <1>15 DEF IndexedRows
<1>17. Holds(IndexedSet(t, b, c, pos), "Node48", g)
  BY <1>5, <1>8, <1>16, MakeIndexed
<1> QED BY <1>4, <1>17

\* A child leaves its slot of a Node48.
LEMMA IndexedDeleteRight ==
  ASSUME NEW f, NEW t, Holds(t, "Node48", f), NEW b \in DOMAIN f
  PROVE  Holds(IndexedDelete(t, b), "Node48", Without(f, b))
<1>1. /\ Children(f) /\ t.index \in [DOMAIN f -> DOMAIN t.slots]
      /\ t.slots \in [DOMAIN t.slots -> Child]
      /\ DOMAIN t.slots \subseteq 1..Width["Node48"]
      /\ \A x, y \in DOMAIN f : t.index[x] = t.index[y] => x = y
      /\ \A i \in DOMAIN t.slots : \E x \in DOMAIN f : t.index[x] = i
      /\ \A x \in DOMAIN f : f[x] = t.slots[t.index[x]]
  BY IndexedFacts
<1>2. PICK n, pos : n = Cardinality(DOMAIN f) /\ pos = t.index[b]
  OBVIOUS
<1>3. t = [kind |-> "Node48", index |-> t.index, slots |-> t.slots, n |-> n]
  BY <1>2, IndexedFacts
<1>4. PICK g, index, slots : g = Without(f, b) /\ index = Without(t.index, b) /\ slots = Without(t.slots, pos)
  OBVIOUS
<1>5. /\ Children(g) /\ DOMAIN g = DOMAIN f \ {b} /\ \A x \in DOMAIN g : g[x] = f[x]
      /\ Cardinality(DOMAIN g) = n - 1
  <2>1. OneLess(f, b, g)
    BY <1>1, <1>4, WithoutFacts
  <2> QED BY <1>2, <2>1 DEF OneLess
<1>6. /\ DOMAIN index = DOMAIN f \ {b}
      /\ \A x \in DOMAIN f : x # b => index[x] = t.index[x]
      /\ index = [x \in DOMAIN index |-> index[x]]
  <2>1. DOMAIN t.index = DOMAIN f
    BY <1>1
  <2>2. /\ DOMAIN index = DOMAIN t.index \ {b}
        /\ \A x \in DOMAIN t.index : x # b => index[x] = t.index[x]
    BY <1>4 DEF Without
  <2>3. index = [x \in DOMAIN index |-> index[x]]
    BY <1>4 DEF Without
  <2> QED BY <2>1, <2>2, <2>3
<1>7. /\ DOMAIN slots = DOMAIN t.slots \ {pos}
      /\ \A i \in DOMAIN t.slots : i # pos => slots[i] = t.slots[i]
      /\ slots = [i \in DOMAIN slots |-> slots[i]]
  <2>1. /\ DOMAIN slots = DOMAIN t.slots \ {pos}
        /\ \A i \in DOMAIN t.slots : i # pos => slots[i] = t.slots[i]
    BY <1>4 DEF Without
  <2>2. slots = [i \in DOMAIN slots |-> slots[i]]
    BY <1>4 DEF Without
  <2> QED BY <2>1, <2>2
<1>8. IndexedDelete(t, b) = [kind |-> "Node48", index |-> index, slots |-> slots, n |-> n - 1]
  <2>1. IndexedDelete(t, b) = [t EXCEPT !.index = Without(@, b), !.slots = Without(@, pos), !.n = @ - 1]
    BY <1>2 DEF IndexedDelete
  <2>2. PICK x, y : x = t.index /\ y = t.slots
    OBVIOUS
  <2>3. t = [kind |-> "Node48", index |-> x, slots |-> y, n |-> n]
    BY <1>3, <2>2
  <2>4. index = Without(x, b) /\ slots = Without(y, pos)
    BY <1>4, <2>2
  <2> QED BY <2>1, <2>3, <2>4
<1>9. \A x \in DOMAIN g : index[x] = t.index[x] /\ t.index[x] \in DOMAIN slots
  BY <1>1, <1>2, <1>5, <1>6, <1>7
<1>10. index \in [DOMAIN g -> DOMAIN slots]
  BY <1>5, <1>6, <1>9
<1>11. slots \in [DOMAIN slots -> Child]
  <2>1. \A i \in DOMAIN slots : slots[i] \in Child
    BY <1>1, <1>7
  <2> QED BY <1>7, <2>1
<1>12. DOMAIN slots \subseteq 1..Width["Node48"]
  BY <1>1, <1>7
<1>13. \A x, y \in DOMAIN g : index[x] = index[y] => x = y
  BY <1>1, <1>5, <1>9
<1>14. \A i \in DOMAIN slots : \E x \in DOMAIN g : index[x] = i
  BY <1>1, <1>2, <1>5, <1>7, <1>9
<1>15. \A x \in DOMAIN g : g[x] = slots[index[x]]
  BY <1>1, <1>5, <1>7, <1>9
<1>16. IndexedRows(g, index, slots)
  BY <1>10, <1>11, <1>12, <1>13, <1>14, <1>15 DEF IndexedRows
<1>17. Holds(IndexedDelete(t, b), "Node48", g)
  BY <1>5, <1>8, <1>16, MakeIndexed
<1> QED BY <1>4, <1>17

\* What a direct table looks like.
LEMMA DirectMeans ==
  ASSUME NEW f, NEW t
  PROVE  Holds(t, "Node256", f) <=>
           Children(f) /\ t = [kind |-> "Node256", slots |-> f, n |-> Cardinality(DOMAIN f)]
<1>1. ASSUME t = [kind |-> "Node256", slots |-> f, n |-> Cardinality(DOMAIN f)]
      PROVE  t.kind = "Node256" /\ t.n = Cardinality(DOMAIN f)
  BY <1>1
<1> QED BY <1>1 DEF Holds, DirectHolds, Children

\* A child enters and leaves a Node256.
LEMMA DirectRightAfter ==
  ASSUME NEW f, NEW t, Holds(t, "Node256", f)
  PROVE  /\ \A b \in Byte \ DOMAIN f, c \in Child :
              Holds(DirectAdd(t, b, c), "Node256", With(f, b, c))
         /\ \A b \in DOMAIN f :
              Holds([t EXCEPT !.slots = Without(@, b), !.n = @ - 1], "Node256", Without(f, b))
<1>1. Children(f)
  BY DirectMeans
<1>2. PICK n : n = Cardinality(DOMAIN f)
  OBVIOUS
<1>3. t = [kind |-> "Node256", slots |-> f, n |-> n]
  BY <1>2, DirectMeans
<1>4. ASSUME NEW b \in Byte \ DOMAIN f, NEW c \in Child
      PROVE  Holds(DirectAdd(t, b, c), "Node256", With(f, b, c))
  <2>1. PICK g : g = With(f, b, c)
    OBVIOUS
  <2>2. OneMore(f, b, c, g)
    BY <1>1, <2>1, WithFacts
  <2>3. Children(g) /\ Cardinality(DOMAIN g) = n + 1
    BY <1>2, <2>2 DEF OneMore
  <2>4. DirectAdd(t, b, c) = [t EXCEPT !.slots = With(@, b, c), !.n = @ + 1]
    BY DEF DirectAdd
  <2>5. DirectAdd(t, b, c) = [kind |-> "Node256", slots |-> g, n |-> n + 1]
    BY <1>3, <2>1, <2>4
  <2> QED BY <2>1, <2>3, <2>5, DirectMeans
<1>5. ASSUME NEW b \in DOMAIN f
      PROVE  Holds([t EXCEPT !.slots = Without(@, b), !.n = @ - 1], "Node256", Without(f, b))
  <2>1. PICK g : g = Without(f, b)
    OBVIOUS
  <2>2. OneLess(f, b, g)
    BY <1>1, <2>1, WithoutFacts
  <2>3. Children(g) /\ Cardinality(DOMAIN g) = n - 1
    BY <1>2, <2>2 DEF OneLess
  <2>4. [t EXCEPT !.slots = Without(@, b), !.n = @ - 1]
          = [kind |-> "Node256", slots |-> g, n |-> n - 1]
    <3>1. t = [kind |-> "Node256", slots |-> f, n |-> n]
      BY <1>3
    <3>2. PICK e : e = [t EXCEPT !.slots = Without(@, b), !.n = @ - 1]
      OBVIOUS
    <3>3. e = [kind |-> "Node256", slots |-> Without(f, b), n |-> n - 1]
      BY <3>1, <3>2
    <3> QED BY <2>1, <3>2, <3>3
  <2> QED BY <2>1, <2>3, <2>4, DirectMeans
<1> QED BY <1>4, <1>5

\* Is there room for one more child?
Room(kind, f) == kind = "Node256" \/ Cardinality(DOMAIN f) < Width[kind]

\* add_child.
LEMMA AddRight ==
  ASSUME NEW kind \in {"Node4", "Node16", "Node48", "Node256"}, NEW f, NEW t, Holds(t, kind, f),
         NEW b \in Byte \ DOMAIN f, NEW c \in Child, Room(kind, f)
  PROVE  Holds(AddTo(t, b, c), kind, With(f, b, c))
<1>1. t.kind = kind /\ t.n = Cardinality(DOMAIN f)
  BY DEF Holds
<1>2. CASE kind \in {"Node4", "Node16"}
  <2>1. AddTo(t, b, c) = SortedAdd(t, b, c)
    BY <1>1, <1>2 DEF AddTo, Sorted
  <2>2. t.n < Width[kind]
    BY <1>1, <1>2 DEF Room
  <2> QED BY <1>2, <2>1, <2>2, SortedAddRight
<1>3. CASE kind = "Node48"
  <2>1. AddTo(t, b, c) = IndexedSet(t, b, c, FirstEmpty(t))
    BY <1>1, <1>3 DEF AddTo, Sorted
  <2>2. Cardinality(DOMAIN f) < Width["Node48"] /\ Holds(t, "Node48", f)
    BY <1>3 DEF Room
  <2>3. FirstEmpty(t) \in (1..Width["Node48"]) \ DOMAIN t.slots
    BY <2>2, FirstEmptyRight
  <2> QED BY <1>3, <2>1, <2>2, <2>3, IndexedSetRight
<1>4. CASE kind = "Node256"
  <2>1. AddTo(t, b, c) = DirectAdd(t, b, c)
    BY <1>1, <1>4 DEF AddTo, Sorted
  <2> QED BY <1>4, <2>1, DirectRightAfter
<1> QED BY <1>2, <1>3, <1>4

\* An indexed table that was filled in order.
Packed(t) == t.kind = "Node48" => DOMAIN t.slots = 1..t.n

\* At the end of a sorted table, add_child_sorted does what add_child does.
LEMMA AppendIsAdd ==
  ASSUME NEW kind \in {"Node4", "Node16"}, NEW f, NEW t, Holds(t, kind, f),
         NEW b \in Byte \ DOMAIN f, NEW c \in Child, t.n < Width[kind], \A x \in DOMAIN f : x < b
  PROVE  AppendTo(t, b, c) = SortedAdd(t, b, c)
<1>1. PICK n \in Nat, W \in Nat : n = t.n /\ W = Width[kind]
  BY SortedFacts
<1>2. /\ t.keys \in [1..W -> Byte] /\ t.slots \in [1..W -> Slot] /\ t.kind = kind
      /\ \A i \in 1..n : t.keys[i] \in Nat /\ t.keys[i] \in DOMAIN f
  BY <1>1, SortedFacts
<1>3. PICK p \in 1..n + 1 : p = InsertPosition(t, b)
  BY <1>1, InsertPlace
<1>4. p = n + 1
  <2> SUFFICES ASSUME p # n + 1 PROVE FALSE
    OBVIOUS
  <2>1. p \in 1..n /\ p >= p
    OBVIOUS
  <2>2. b < t.keys[p]
    BY <1>1, <1>3, <2>1, InsertPlace
  <2>3. t.keys[p] < b /\ t.keys[p] \in Nat /\ b \in Nat
    BY <1>2, <2>1, ByteSets
  <2> QED BY <2>2, <2>3
<1>5. n < W /\ b \in Byte /\ c \in Slot
  BY <1>1 DEF Slot
<1>6. ASSUME NEW X, NEW row \in [1..W -> X], NEW x \in X
      PROVE  ShiftedIn(row, p, n, x) = [row EXCEPT ![n + 1] = x]
  <2>1. PICK new : new = ShiftedIn(row, p, n, x)
    OBVIOUS
  <2>2. /\ new \in [1..W -> X] /\ new[p] = x
        /\ \A i \in 1..p - 1 : new[i] = row[i]
        /\ \A i \in n + 2..W : new[i] = row[i]
    <3>1. PutIn(W, n, p, X, x, row, new)
      BY <1>1, <1>3, <1>5, <2>1, ShiftedInRow
    <3> QED BY <3>1 DEF PutIn
  <2>3. ASSUME NEW i \in 1..W PROVE new[i] = IF i = n + 1 THEN x ELSE row[i]
    <3>1. i \in 1..p - 1 \/ i = p \/ i \in n + 2..W
      BY <1>4
    <3> QED BY <1>4, <2>2, <3>1
  <2> QED BY <2>1, <2>2, <2>3
<1>7. /\ ShiftedIn(t.keys, p, n, b) = [t.keys EXCEPT ![n + 1] = b]
      /\ ShiftedIn(t.slots, p, n, c) = [t.slots EXCEPT ![n + 1] = c]
  <2>1. t.keys \in [1..W -> Byte] /\ t.slots \in [1..W -> Slot]
    BY <1>2
  <2>2. ShiftedIn(t.keys, p, n, b) = [t.keys EXCEPT ![n + 1] = b]
    BY <1>5, <1>6, <2>1
  <2>3. ShiftedIn(t.slots, p, n, c) = [t.slots EXCEPT ![n + 1] = c]
    BY <1>5, <1>6, <2>1
  <2> QED BY <2>2, <2>3
<1>8. PICK K, S : K = t.keys /\ S = t.slots
  OBVIOUS
<1>9. t = [kind |-> kind, keys |-> K, slots |-> S, n |-> n]
  BY <1>1, <1>8, SortedTail
<1>10. PICK K2, S2 : K2 = ShiftedIn(K, p, n, b) /\ S2 = ShiftedIn(S, p, n, c)
  OBVIOUS
<1>11. SortedAdd(t, b, c) = [kind |-> kind, keys |-> K2, slots |-> S2, n |-> n + 1]
  <2>1. SortedAdd(t, b, c) = [t EXCEPT !.keys = ShiftedIn(@, p, n, b),
                                       !.slots = ShiftedIn(@, p, n, c), !.n = @ + 1]
    BY <1>1, <1>3 DEF SortedAdd
  <2> QED BY <1>9, <1>10, <2>1
<1>12. AppendTo(t, b, c) = [kind |-> kind, keys |-> [K EXCEPT ![n + 1] = b],
                             slots |-> [S EXCEPT ![n + 1] = c], n |-> n + 1]
  <2>1. AppendTo(t, b, c) = [t EXCEPT !.keys[n + 1] = b, !.slots[n + 1] = c, !.n = @ + 1]
    BY <1>1, <1>2 DEF AppendTo, Sorted
  <2> QED BY <1>9, <2>1
<1>13. [K EXCEPT ![n + 1] = b] = K2 /\ [S EXCEPT ![n + 1] = c] = S2
  BY <1>7, <1>8, <1>10
<1> QED BY <1>11, <1>12, <1>13

\* add_child_sorted.
LEMMA AppendRight ==
  ASSUME NEW kind \in {"Node4", "Node16", "Node48", "Node256"}, NEW f, NEW t, Holds(t, kind, f),
         Packed(t), NEW b \in Byte \ DOMAIN f, NEW c \in Child, Room(kind, f),
         \A x \in DOMAIN f : x < b
  PROVE  Holds(AppendTo(t, b, c), kind, With(f, b, c)) /\ Packed(AppendTo(t, b, c))
<1>1. t.kind = kind /\ t.n = Cardinality(DOMAIN f)
  BY DEF Holds
<1>2. CASE kind \in {"Node4", "Node16"}
  <2>1. t.n < Width[kind]
    BY <1>1, <1>2 DEF Room
  <2>2. Holds(AppendTo(t, b, c), kind, With(f, b, c))
    BY <1>2, <2>1, AppendIsAdd, SortedAddRight
  <2> QED BY <1>2, <2>2 DEF Holds, Packed
<1>3. CASE kind = "Node48"
  <2>1. PICK n \in Nat, W \in Nat : n = t.n /\ W = Width["Node48"] /\ n < W
    <3>1. Cardinality(DOMAIN f) \in Nat
      BY ByteSets DEF Holds
    <3> QED BY <1>1, <1>3, <3>1, Widths DEF Room
  <2>2. AppendTo(t, b, c) = IndexedSet(t, b, c, n + 1)
    BY <1>1, <1>3, <2>1 DEF AppendTo, Sorted
  <2>3. DOMAIN t.slots = 1..n
    BY <1>1, <1>3, <2>1 DEF Packed
  <2>4. n + 1 \in (1..Width["Node48"]) \ DOMAIN t.slots
    BY <2>1, <2>3
  <2>5. Holds(AppendTo(t, b, c), "Node48", With(f, b, c))
    BY <1>3, <2>2, <2>4, IndexedSetRight
  <2>6. PICK r : r = IndexedSet(t, b, c, n + 1)
    OBVIOUS
  <2>7. DOMAIN r.slots = 1..n + 1 /\ r.n = n + 1
    <3>1. t = [kind |-> "Node48", index |-> t.index, slots |-> t.slots, n |-> n]
      BY <1>1, <1>3, <2>1, IndexedFacts
    <3>2. r = [t EXCEPT !.index = With(@, b, n + 1), !.slots = With(@, n + 1, c), !.n = @ + 1]
      BY <2>6 DEF IndexedSet
    <3>3. r.slots = With(t.slots, n + 1, c) /\ r.n = n + 1
      BY <3>1, <3>2
    <3>4. DOMAIN r.slots = DOMAIN t.slots \cup {n + 1}
      BY <3>3 DEF With
    <3>5. (1..n) \cup {n + 1} = 1..n + 1
      OBVIOUS
    <3> QED BY <2>3, <3>3, <3>4, <3>5
  <2> QED BY <1>3, <2>2, <2>5, <2>6, <2>7 DEF Packed
<1>4. CASE kind = "Node256"
  <2>1. AppendTo(t, b, c) = DirectAdd(t, b, c)
    BY <1>1, <1>4 DEF AppendTo, Sorted
  <2>2. Holds(AppendTo(t, b, c), kind, With(f, b, c))
    BY <1>4, <2>1, DirectRightAfter
  <2> QED BY <1>4, <2>2 DEF Holds, Packed
<1> QED BY <1>2, <1>3, <1>4

\* delete_child.
LEMMA DeleteRight ==
  ASSUME NEW kind \in {"Node4", "Node16", "Node48", "Node256"}, NEW f, NEW t, Holds(t, kind, f),
         NEW b \in DOMAIN f
  PROVE  Holds(DeleteFrom(t, b), kind, Without(f, b))
<1>1. t.kind = kind
  BY DEF Holds
<1>2. CASE kind \in {"Node4", "Node16"}
  <2>1. DeleteFrom(t, b) = SortedDelete(t, KeyPosition(t, b))
    BY <1>1, <1>2 DEF DeleteFrom, Sorted
  <2> QED BY <1>2, <2>1, SortedDeleteRight
<1>3. CASE kind = "Node48"
  <2>1. DeleteFrom(t, b) = IndexedDelete(t, b)
    BY <1>1, <1>3 DEF DeleteFrom, Sorted
  <2> QED BY <1>3, <2>1, IndexedDeleteRight
<1>4. CASE kind = "Node256"
  <2>1. DeleteFrom(t, b) = [t EXCEPT !.slots = Without(@, b), !.n = @ - 1]
    BY <1>1, <1>4 DEF DeleteFrom, Sorted
  <2> QED BY <1>4, <2>1, DirectRightAfter
<1> QED BY <1>2, <1>3, <1>4

-----------------------------------------------------------------------------
(* Whole tables *)

\* bytes lists the bytes of f from the lowest to the highest, kids their children.
ListsKids(bytes, kids, f) ==
  /\ Children(f) /\ Cardinality(DOMAIN f) \in Nat
  /\ \A i \in 1..Cardinality(DOMAIN f) : bytes[i] \in DOMAIN f /\ f[bytes[i]] = kids[i]
  /\ \A i, j \in 1..Cardinality(DOMAIN f) : i < j => bytes[i] < bytes[j]
  /\ \A b \in DOMAIN f : \E i \in 1..Cardinality(DOMAIN f) : bytes[i] = b

\* No byte is listed twice.
LEMMA ListedOnce ==
  ASSUME NEW bytes, NEW kids, NEW f, ListsKids(bytes, kids, f),
         NEW i \in 1..Cardinality(DOMAIN f), NEW j \in 1..Cardinality(DOMAIN f), bytes[i] = bytes[j]
  PROVE  i = j
<1>1. bytes[i] \in Nat /\ bytes[j] \in Nat
  BY ByteSets DEF ListsKids, Children
<1>2. ~(bytes[i] < bytes[j]) /\ ~(bytes[j] < bytes[i])
  BY <1>1
<1>3. ~(i < j) /\ ~(j < i)
  BY <1>2 DEF ListsKids
<1> QED BY <1>3 DEF ListsKids

\* A row and what fills it up.
LEMMA PaddedRow ==
  ASSUME NEW kind \in {"Node4", "Node16"}, NEW W \in Nat, W = Width[kind], NEW n \in 0..W, NEW X,
         NEW x, NEW fill \in X, \A i \in 1..n : x[i] \in X, NEW new, new = Padded(kind, n, x, fill)
  PROVE  /\ new \in [1..W -> X] /\ \A i \in 1..n : new[i] = x[i]
         /\ \A i \in n + 1..W : new[i] = fill
<1>1. new = [i \in 1..W |-> IF i <= n THEN x[i] ELSE fill]
  BY DEF Padded
<1>2. ASSUME NEW i \in 1..n PROVE new[i] = x[i]
  BY <1>1
<1>3. ASSUME NEW i \in n + 1..W PROVE new[i] = fill
  BY <1>1
<1>4. ASSUME NEW i \in 1..W PROVE new[i] \in X
  <2>1. CASE i <= n
    <3>1. i \in 1..n
      BY <2>1
    <3> QED BY <1>2, <3>1
  <2>2. CASE ~(i <= n)
    BY <1>1, <2>2
  <2> QED BY <2>1, <2>2
<1>5. new \in [1..W -> X]
  BY <1>1, <1>4
<1> QED BY <1>2, <1>3, <1>5

\* A sorted table made of such lists.
LEMMA MakePadded ==
  ASSUME NEW kind \in {"Node4", "Node16"}, NEW f, NEW bytes, NEW kids, ListsKids(bytes, kids, f),
         NEW n, n = Cardinality(DOMAIN f), n <= Width[kind]
  PROVE  Holds([kind |-> kind, keys |-> Padded(kind, n, bytes, LastByte),
                slots |-> Padded(kind, n, kids, Uninit), n |-> n], kind, f)
<1>1. PICK W \in Nat : W = Width[kind]
  BY Widths
<1>2. n \in Nat /\ n \in 0..W /\ Children(f)
  BY <1>1 DEF ListsKids
<1>3. /\ \A i \in 1..n : bytes[i] \in DOMAIN f /\ f[bytes[i]] = kids[i]
      /\ \A i, j \in 1..n : i < j => bytes[i] < bytes[j]
      /\ \A b \in DOMAIN f : \E i \in 1..n : bytes[i] = b
  BY DEF ListsKids
<1>4. \A i \in 1..n : bytes[i] \in Byte /\ kids[i] \in Slot
  BY <1>2, <1>3 DEF Children, Slot
<1>5. LastByte \in Byte /\ Uninit \in Slot
  BY TableAssumption DEF Byte, Slot
<1>6. PICK keys, slots : keys = Padded(kind, n, bytes, LastByte) /\ slots = Padded(kind, n, kids, Uninit)
  OBVIOUS
<1>7. /\ keys \in [1..W -> Byte] /\ \A i \in 1..n : keys[i] = bytes[i]
      /\ \A i \in n + 1..W : keys[i] = LastByte
  BY <1>1, <1>2, <1>4, <1>5, <1>6, PaddedRow
<1>8. /\ slots \in [1..W -> Slot] /\ \A i \in 1..n : slots[i] = kids[i]
      /\ \A i \in n + 1..W : slots[i] = Uninit
  BY <1>1, <1>2, <1>4, <1>5, <1>6, PaddedRow
<1>9. ASSUME NEW i \in 2..n PROVE keys[i - 1] < keys[i]
  <2>1. i - 1 \in 1..n /\ i \in 1..n /\ i - 1 < i
    BY <1>2
  <2> QED BY <1>3, <1>7, <2>1
<1>10. \A i \in 1..n : keys[i] \in DOMAIN f /\ f[keys[i]] = slots[i]
  BY <1>3, <1>7, <1>8
<1>11. \A b \in DOMAIN f : \E i \in 1..n : keys[i] = b
  BY <1>3, <1>7
<1>12. \A i \in n + 1..W : keys[i] = LastByte /\ slots[i] = Uninit
  BY <1>7, <1>8
<1>13. SortedRows(W, n, f, keys, slots)
  BY <1>2, <1>7, <1>8, <1>9, <1>10, <1>11, <1>12 DEF SortedRows
<1>14. Holds([kind |-> kind, keys |-> keys, slots |-> slots, n |-> n], kind, f)
  BY <1>1, <1>2, <1>13, MakeSorted
<1> QED BY <1>6, <1>14

\* The positions D of the bytes in that list, and their slots.
ListIndex(bytes, D, f) == [b \in DOMAIN f |-> CHOOSE i \in D : bytes[i] = b]

ListSlots(kids, D) == [i \in D |-> kids[i]]

\* An indexed table made of such lists.
LEMMA MakeListed ==
  ASSUME NEW f, NEW bytes, NEW kids, ListsKids(bytes, kids, f),
         NEW n, n = Cardinality(DOMAIN f), n <= Width["Node48"], NEW D, D = 1..n,
         NEW index, index = ListIndex(bytes, D, f), NEW slots, slots = ListSlots(kids, D),
         NEW r, r = [kind |-> "Node48", index |-> index, slots |-> slots, n |-> n]
  PROVE  Holds(r, "Node48", f)
<1>1. n \in Nat /\ Children(f) /\ Width["Node48"] \in Nat
  BY Widths DEF ListsKids
<1>2. /\ \A i \in 1..n : bytes[i] \in DOMAIN f /\ f[bytes[i]] = kids[i]
      /\ \A b \in DOMAIN f : \E i \in 1..n : bytes[i] = b
  BY DEF ListsKids
<1>3. \A b \in DOMAIN f : index[b] \in 1..n /\ bytes[index[b]] = b
  BY <1>2 DEF ListIndex
<1>4. DOMAIN slots = 1..n /\ \A i \in 1..n : slots[i] = kids[i] /\ kids[i] \in Child
  BY <1>1, <1>2 DEF Children, ListSlots
<1>5. index \in [DOMAIN f -> DOMAIN slots]
  BY <1>3, <1>4 DEF ListIndex
<1>6. slots \in [DOMAIN slots -> Child]
  BY <1>4 DEF ListSlots
<1>7. DOMAIN slots \subseteq 1..Width["Node48"]
  BY <1>1, <1>4
<1>8. \A a, b \in DOMAIN f : index[a] = index[b] => a = b
  BY <1>3
<1>9. ASSUME NEW i \in DOMAIN slots PROVE \E b \in DOMAIN f : index[b] = i
  <2>1. i \in 1..n /\ bytes[i] \in DOMAIN f
    BY <1>2, <1>4
  <2>2. index[bytes[i]] \in 1..n /\ bytes[index[bytes[i]]] = bytes[i]
    BY <1>3, <2>1
  <2>3. index[bytes[i]] = i
    BY <2>1, <2>2, ListedOnce
  <2> QED BY <2>1, <2>3
<1>10. \A b \in DOMAIN f : f[b] = slots[index[b]]
  BY <1>2, <1>3, <1>4
<1>11. IndexedRows(f, index, slots)
  BY <1>5, <1>6, <1>7, <1>8, <1>9, <1>10 DEF IndexedRows
<1> QED BY <1>1, <1>11, MakeIndexed

\* A sorted table lists its children.
LEMMA SortedLists ==
  ASSUME NEW kind \in {"Node4", "Node16"}, NEW f, NEW t, Holds(t, kind, f)
  PROVE  ListsKids(t.keys, t.slots, f)
<1>1. Children(f) /\ t.n = Cardinality(DOMAIN f)
  BY DEF Holds, Children
<1> QED BY <1>1, SortedFacts DEF ListsKids

\* The bits in order list the children under them.
LEMMA InOrderLists ==
  ASSUME NEW f, Children(f), NEW bytes, bytes = InOrder(DOMAIN f), NEW kids,
         \A i \in 1..Cardinality(DOMAIN f) : kids[i] = f[bytes[i]]
  PROVE  ListsKids(bytes, kids, f) /\ DOMAIN bytes = 1..Cardinality(DOMAIN f)
<1>1. ListsBytes(bytes, DOMAIN f)
  BY InOrderRight DEF Children
<1> QED BY <1>1 DEF ListsBytes, ListsKids

\* The children of a node that grows or shrinks move to the other table.
LEMMA MovedRight ==
  ASSUME NEW kind, NEW to, NEW f, NEW t, Holds(t, kind, f),
         <<kind, to>> \in {<<"Node4", "Node16">>, <<"Node16", "Node4">>, <<"Node16", "Node48">>,
                           <<"Node48", "Node16">>, <<"Node48", "Node256">>, <<"Node256", "Node48">>},
         to = "Node256" \/ Cardinality(DOMAIN f) <= Width[to]
  PROVE  Holds(Moved(t, to), to, f)
<1>1. t.kind = kind /\ t.n = Cardinality(DOMAIN f) /\ Children(f)
  BY DEF Holds, Children
<1>2. PICK n : n = Cardinality(DOMAIN f)
  OBVIOUS
<1>3. CASE kind \in {"Node4", "Node16"} /\ to \in {"Node4", "Node16"}
  <2>1. Moved(t, to) = FromResized(t, to)
    BY <1>1, <1>3 DEF Moved, Sorted
  <2>2. ListsKids(t.keys, t.slots, f)
    BY <1>3, SortedLists
  <2>3. FromResized(t, to) = [kind |-> to, keys |-> Padded(to, n, t.keys, LastByte),
                              slots |-> Padded(to, n, t.slots, Uninit), n |-> n]
    BY <1>1, <1>2 DEF FromResized
  <2>4. n <= Width[to]
    BY <1>2, <1>3
  <2> QED BY <1>2, <1>3, <2>1, <2>2, <2>3, <2>4, MakePadded
<1>4. CASE kind = "Node16" /\ to = "Node48"
  <2>1. Moved(t, to) = FromSortedKeyed(t)
    BY <1>1, <1>4 DEF Moved, Sorted
  <2>2. ListsKids(t.keys, t.slots, f) /\ SortedHolds(t, kind, f)
    BY <1>4, SortedLists DEF Holds
  <2>3. DOMAIN f = {t.keys[i] : i \in 1..t.n}
    BY <2>2 DEF SortedHolds
  <2>4. PICK D, index, slots : /\ D = 1..t.n
                               /\ index = [b \in DOMAIN f |-> CHOOSE i \in 1..t.n : t.keys[i] = b]
                               /\ slots = [i \in 1..t.n |-> t.slots[i]]
    OBVIOUS
  <2>5. FromSortedKeyed(t) = [kind |-> "Node48", index |-> index, slots |-> slots, n |-> t.n]
    BY <2>3, <2>4 DEF FromSortedKeyed
  <2>6. t.n <= Width["Node48"]
    BY <1>1, <1>4
  <2>7. index = ListIndex(t.keys, D, f) /\ slots = ListSlots(t.slots, D)
    BY <2>4 DEF ListIndex, ListSlots
  <2>8. D = 1..t.n /\ ListsKids(t.keys, t.slots, f) /\ t.n = Cardinality(DOMAIN f)
    BY <1>1, <2>2, <2>4
  <2>9. PICK r : r = FromSortedKeyed(t)
    OBVIOUS
  <2>10. r = [kind |-> "Node48", index |-> index, slots |-> slots, n |-> t.n]
    BY <2>5, <2>9
  <2>11. Holds(r, "Node48", f)
    BY <2>6, <2>7, <2>8, <2>10, MakeListed
  <2> QED BY <1>4, <2>1, <2>9, <2>11
<1>5. CASE kind = "Node48" /\ to = "Node16"
  <2>1. Moved(t, to) = FromIndexed(t)
    BY <1>1, <1>5 DEF Moved, Sorted
  <2>2. DOMAIN t.index = DOMAIN f /\ \A b \in DOMAIN f : f[b] = t.slots[t.index[b]]
    BY <1>5, IndexedFacts
  <2>3. PICK bytes : bytes = InOrder(DOMAIN f)
    OBVIOUS
  <2>4. PICK kids : kids = [i \in DOMAIN bytes |-> t.slots[t.index[bytes[i]]]]
    OBVIOUS
  <2>5. ListsBytes(bytes, DOMAIN f)
    BY <1>1, <2>3, InOrderRight DEF Children
  <2>6. \A i \in 1..Cardinality(DOMAIN f) : kids[i] = f[bytes[i]]
    BY <2>2, <2>4, <2>5 DEF ListsBytes
  <2>7. ListsKids(bytes, kids, f)
    BY <1>1, <2>3, <2>6, InOrderLists
  <2>8. FromIndexed(t) = [kind |-> "Node16", keys |-> Padded("Node16", n, bytes, LastByte),
                          slots |-> Padded("Node16", n, kids, Uninit), n |-> n]
    BY <1>1, <1>2, <2>2, <2>3, <2>4 DEF FromIndexed
  <2>9. n <= Width["Node16"]
    BY <1>2, <1>5
  <2>10. Holds(FromIndexed(t), "Node16", f)
    BY <1>2, <2>7, <2>8, <2>9, MakePadded
  <2> QED BY <1>5, <2>1, <2>10
<1>6. CASE kind = "Node48" /\ to = "Node256"
  <2>1. Moved(t, to) = DirectFromIndexed(t)
    BY <1>1, <1>6 DEF Moved, Sorted
  <2>2. DOMAIN t.index = DOMAIN f /\ \A b \in DOMAIN f : f[b] = t.slots[t.index[b]]
    BY <1>6, IndexedFacts
  <2>3. f = [b \in DOMAIN t.index |-> t.slots[t.index[b]]]
    <3>1. f = [b \in DOMAIN f |-> f[b]]
      BY <1>1 DEF Children
    <3> QED BY <2>2, <3>1
  <2>4. DirectFromIndexed(t) = [kind |-> "Node256", slots |-> f, n |-> Cardinality(DOMAIN f)]
    BY <1>1, <2>3 DEF DirectFromIndexed
  <2> QED BY <1>1, <1>6, <2>1, <2>4, DirectMeans
<1>7. CASE kind = "Node256" /\ to = "Node48"
  <2>1. Moved(t, to) = FromDirect(t)
    BY <1>1, <1>7 DEF Moved, Sorted
  <2>2. t.slots = f
    <3>1. t = [kind |-> "Node256", slots |-> f, n |-> Cardinality(DOMAIN f)]
      BY <1>7, DirectMeans
    <3> QED BY <3>1
  <2>3. PICK bytes : bytes = InOrder(DOMAIN t.slots)
    OBVIOUS
  <2>4. PICK kids, index : /\ kids = [i \in DOMAIN bytes |-> t.slots[bytes[i]]]
                           /\ index = [b \in DOMAIN t.slots |-> CHOOSE i \in DOMAIN bytes : bytes[i] = b]
    OBVIOUS
  <2>5. FromDirect(t) = [kind |-> "Node48", index |-> index, slots |-> kids, n |-> t.n]
    BY <2>3, <2>4 DEF FromDirect
  <2>6. ListsBytes(bytes, DOMAIN f)
    BY <1>1, <2>2, <2>3, InOrderRight DEF Children
  <2>7. PICK D : D = DOMAIN bytes /\ D = 1..n
    BY <1>2, <2>6 DEF ListsBytes
  <2>8. \A i \in 1..Cardinality(DOMAIN f) : kids[i] = f[bytes[i]]
    BY <1>2, <2>2, <2>4, <2>7
  <2>9. ListsKids(bytes, kids, f)
    BY <1>1, <2>2, <2>3, <2>8, InOrderLists
  <2>10. index = ListIndex(bytes, D, f)
    BY <2>2, <2>4, <2>7 DEF ListIndex
  <2>11. kids = ListSlots(kids, D)
    BY <2>4, <2>7 DEF ListSlots
  <2>12. n <= Width["Node48"]
    BY <1>2, <1>7
  <2>13. Holds([kind |-> "Node48", index |-> index, slots |-> kids, n |-> n], "Node48", f)
    BY <1>2, <2>7, <2>9, <2>10, <2>11, <2>12, MakeListed
  <2> QED BY <1>1, <1>2, <1>7, <2>1, <2>5, <2>13
<1> QED BY <1>3, <1>4, <1>5, <1>6, <1>7

\* No children.
LEMMA NoChildren ==
  /\ Children(<<>>) /\ DOMAIN <<>> = {} /\ Cardinality(DOMAIN <<>>) = 0
  /\ CountOf(<<>>) = [s \in Slot |-> 0]
<1>1. DOMAIN <<>> = {} /\ <<>> \in [{} -> Child]
  OBVIOUS
<1>2. Cardinality({}) = 0
  BY FS_EmptySet
<1>3. ASSUME NEW s PROVE {b \in DOMAIN <<>> : (<<>>)[b] = s} = {}
  BY <1>1
<1>4. CountOf(<<>>) = [s \in Slot |-> 0]
  BY <1>2, <1>3 DEF CountOf
<1> QED BY <1>1, <1>2, <1>4 DEF Children

\* A new table.
LEMMA NewRight ==
  ASSUME NEW kind \in {"Empty", "Node4", "Node16", "Node48", "Node256"}
  PROVE  Holds(New(kind), kind, <<>>) /\ Packed(New(kind))
<1>1. Children(<<>>) /\ DOMAIN <<>> = {} /\ Cardinality(DOMAIN <<>>) = 0
  BY NoChildren
<1>2. CASE kind = "Empty"
  <2>1. New(kind) = [kind |-> "Empty", n |-> 0]
    BY <1>2 DEF New, NoTable
  <2>2. New(kind).kind = "Empty" /\ New(kind).n = 0
    BY <2>1
  <2> QED BY <1>1, <1>2, <2>1, <2>2 DEF Holds, Children, NoTable, Packed
<1>3. CASE kind \in {"Node4", "Node16"}
  <2>1. PICK W \in Nat : W = Width[kind]
    BY <1>3, Widths
  <2>2. PICK keys, slots : keys = [i \in 1..W |-> LastByte] /\ slots = [i \in 1..W |-> Uninit]
    OBVIOUS
  <2>3. New(kind) = [kind |-> kind, keys |-> keys, slots |-> slots, n |-> 0]
    BY <1>3, <2>1, <2>2 DEF New
  <2>4. LastByte \in Byte /\ Uninit \in Slot
    BY TableAssumption DEF Byte, Slot
  <2>5. keys \in [1..W -> Byte] /\ slots \in [1..W -> Slot] /\ 0 \in 0..W
    BY <2>2, <2>4
  <2>6. PICK z : z = 0
    OBVIOUS
  <2>7. /\ z = Cardinality(DOMAIN <<>>) /\ z \in 0..W
        /\ \A i \in 2..z : keys[i - 1] < keys[i]
        /\ \A i \in 1..z : keys[i] \in DOMAIN <<>> /\ (<<>>)[keys[i]] = slots[i]
        /\ \A i \in z + 1..W : keys[i] = LastByte /\ slots[i] = Uninit
        /\ \A b \in DOMAIN <<>> : \E i \in 1..z : keys[i] = b
    BY <1>1, <2>2, <2>5, <2>6
  <2>8. New(kind) = [kind |-> kind, keys |-> keys, slots |-> slots, n |-> z]
    BY <2>3, <2>6
  <2>9. Holds(New(kind), kind, <<>>)
    <3>1. SortedRows(W, z, <<>>, keys, slots)
      BY <2>5, <2>7 DEF SortedRows
    <3> QED BY <1>1, <1>3, <2>1, <2>8, <3>1, MakeSorted
  <2> QED BY <1>3, <2>9 DEF Holds, Packed
<1>4. CASE kind = "Node48"
  <2>1. New(kind) = [kind |-> "Node48", index |-> <<>>, slots |-> <<>>, n |-> 0]
    BY <1>4 DEF New
  <2>2. PICK x, y : x = <<>> /\ y = <<>>
    OBVIOUS
  <2>3. /\ x \in [DOMAIN <<>> -> DOMAIN y] /\ y \in [DOMAIN y -> Child]
        /\ DOMAIN y \subseteq 1..Width["Node48"] /\ DOMAIN y = {}
    BY <1>1, <2>2 DEF Children
  <2>4. New(kind) = [kind |-> "Node48", index |-> x, slots |-> y, n |-> Cardinality(DOMAIN <<>>)]
    BY <1>1, <2>1, <2>2
  <2>5. Holds(New(kind), "Node48", <<>>)
    <3>1. PICK e : e = <<>>
      OBVIOUS
    <3>2. Children(e) /\ DOMAIN e = {}
      BY <1>1, <3>1
    <3>3. IndexedRows(e, x, y)
      BY <2>2, <2>3, <3>1, <3>2 DEF IndexedRows
    <3>4. New(kind) = [kind |-> "Node48", index |-> x, slots |-> y, n |-> Cardinality(DOMAIN e)]
      BY <2>4, <3>1
    <3>5. Holds(New(kind), "Node48", e)
      BY <3>2, <3>3, <3>4, MakeIndexed
    <3> QED BY <3>1, <3>5
  <2>6. New(kind).slots = <<>> /\ New(kind).n = 0
    BY <2>1
  <2> QED BY <1>1, <1>4, <2>5, <2>6 DEF Packed
<1>5. CASE kind = "Node256"
  <2>1. New(kind) = [kind |-> "Node256", slots |-> <<>>, n |-> Cardinality(DOMAIN <<>>)]
    BY <1>1, <1>5 DEF New
  <2>2. Holds(New(kind), "Node256", <<>>)
    BY <1>1, <2>1, DirectMeans
  <2> QED BY <1>5, <2>2 DEF Holds, Packed
<1> QED BY <1>2, <1>3, <1>4, <1>5

\* The first i children of a list.
First(f, es, i) == [b \in {es[j][1] : j \in 1..i} |-> f[b]]

\* A list's first children are those before, and one more, above them.
LEMMA FirstRight ==
  ASSUME NEW f, Children(f), NEW es, Lists(es, f), NEW n \in Nat, n = Cardinality(DOMAIN f)
  PROVE  /\ First(f, es, 0) = <<>> /\ First(f, es, n) = f
         /\ \A i \in 0..n : Cardinality(DOMAIN First(f, es, i)) = i
         /\ \A i \in 1..n :
              /\ es[i][1] \in Byte \ DOMAIN First(f, es, i - 1) /\ es[i][2] \in Child
              /\ \A x \in DOMAIN First(f, es, i - 1) : x < es[i][1]
              /\ First(f, es, i) = With(First(f, es, i - 1), es[i][1], es[i][2])
<1>1. /\ \A i \in 1..n : es[i][1] \in DOMAIN f /\ es[i][2] = f[es[i][1]]
      /\ \A i, j \in 1..n : i < j => es[i][1] < es[j][1]
      /\ \A b \in DOMAIN f : \E i \in 1..n : es[i][1] = b
  BY DEF Lists
<1>2. f = [b \in DOMAIN f |-> f[b]] /\ DOMAIN f \subseteq Byte /\ \A b \in DOMAIN f : f[b] \in Child
  BY DEF Children
<1>3. \A b \in DOMAIN f : b \in Nat
  BY <1>2, ByteSets
<1>4. First(f, es, 0) = <<>>
  <2>1. DOMAIN First(f, es, 0) = {} /\ First(f, es, 0) = [b \in DOMAIN First(f, es, 0) |-> First(f, es, 0)[b]]
    BY DEF First
  <2> QED BY <2>1, EmptyFunction
<1>5. First(f, es, n) = f
  <2>1. {es[j][1] : j \in 1..n} = DOMAIN f
    BY <1>1
  <2> QED BY <1>2, <2>1 DEF First
<1>6. ASSUME NEW i \in 0..n PROVE Cardinality(DOMAIN First(f, es, i)) = i
  <2> DEFINE Y == {es[j][1] : j \in 1..i}
             m == [j \in 1..i |-> es[j][1]]
  <2>1. \A j \in 1..i : j \in 1..n
    OBVIOUS
  <2>2. Y \subseteq Byte
    BY <1>1, <1>2, <2>1
  <2>3. IsFiniteSet(Y)
    BY <2>2, ByteSets
  <2>4. \A j \in 1..i : m[j] \in Y
    OBVIOUS
  <2>5. ASSUME NEW j \in 1..i, NEW k \in 1..i, m[j] = m[k] PROVE j = k
    <3>1. es[j][1] = es[k][1] /\ es[j][1] \in Nat /\ es[k][1] \in Nat /\ j \in 1..n /\ k \in 1..n
      BY <1>1, <1>3, <2>1, <2>5
    <3>2. ~(es[j][1] < es[k][1]) /\ ~(es[k][1] < es[j][1])
      BY <3>1
    <3>3. ~(j < k) /\ ~(k < j)
      BY <1>1, <3>1, <3>2
    <3> QED BY <3>3
  <2>6. \A y \in Y : \E j \in 1..i : m[j] = y
    OBVIOUS
  <2>7. DOMAIN First(f, es, i) = Y
    BY DEF First
  <2> HIDE DEF Y, m
  <2>8. Cardinality(1..i) = Cardinality(Y)
    BY <2>3, <2>4, <2>5, <2>6, SameSize
  <2>9. Cardinality(1..i) = i
    <3>1. 1 \in Int /\ i \in Int
      OBVIOUS
    <3>2. Cardinality(1..i) = IF 1 > i THEN 0 ELSE i - 1 + 1
      BY <3>1, FS_Interval
    <3> QED BY <3>2
  <2> QED BY <2>7, <2>8, <2>9
<1>7. ASSUME NEW i \in 1..n
      PROVE  /\ es[i][1] \in Byte \ DOMAIN First(f, es, i - 1) /\ es[i][2] \in Child
             /\ \A x \in DOMAIN First(f, es, i - 1) : x < es[i][1]
             /\ First(f, es, i) = With(First(f, es, i - 1), es[i][1], es[i][2])
  <2>1. DOMAIN First(f, es, i - 1) = {es[j][1] : j \in 1..i - 1}
    BY DEF First
  <2>2. ASSUME NEW x \in DOMAIN First(f, es, i - 1) PROVE x < es[i][1] /\ x # es[i][1]
    <3>1. PICK j \in 1..i - 1 : x = es[j][1]
      BY <2>1
    <3>2. j \in 1..n /\ j < i
      OBVIOUS
    <3>3. es[j][1] < es[i][1] /\ es[j][1] \in Nat /\ es[i][1] \in Nat
      BY <1>1, <1>3, <3>2
    <3> QED BY <3>1, <3>3
  <2>3. es[i][1] \in Byte /\ es[i][2] \in Child /\ es[i][2] = f[es[i][1]]
    BY <1>1, <1>2
  <2>4. {es[j][1] : j \in 1..i} = DOMAIN First(f, es, i - 1) \cup {es[i][1]}
    <3>1. \A j \in 1..i : j \in 1..i - 1 \/ j = i
      OBVIOUS
    <3>2. i \in 1..i /\ \A j \in 1..i - 1 : j \in 1..i
      OBVIOUS
    <3> QED BY <2>1, <3>1, <3>2
  <2>5. \A x \in DOMAIN First(f, es, i - 1) : First(f, es, i - 1)[x] = f[x]
    BY DEF First
  <2>6. First(f, es, i) = With(First(f, es, i - 1), es[i][1], es[i][2])
    <3>1. PICK h, D, b, c : /\ h = First(f, es, i - 1) /\ D = DOMAIN h
                            /\ b = es[i][1] /\ c = es[i][2]
      OBVIOUS
    <3>2. First(f, es, i) = [x \in D \cup {b} |-> f[x]]
      BY <2>4, <3>1 DEF First
    <3>3. \A x \in D \cup {b} : f[x] = IF x = b THEN c ELSE h[x]
      BY <2>3, <2>5, <3>1
    <3> QED BY <3>1, <3>2, <3>3 DEF With
  <2> QED BY <2>2, <2>3, <2>6
<1> QED BY <1>4, <1>5, <1>6, <1>7

\* Adding a child, at the end or in its place.
BuildStep(append, t, e) == IF append THEN AppendTo(t, e[1], e[2]) ELSE AddTo(t, e[1], e[2])

\* g solves the recursion of Filled and of Rebuilt.
Builds(g, kind, es, append) ==
  g = [n \in 0..Len(es) |-> IF n = 0 THEN New(kind) ELSE BuildStep(append, g[n - 1], es[n])]

\* That recursion has a solution.
LEMMA BuildExists ==
  ASSUME NEW kind, NEW es, Len(es) \in Nat, NEW append \in BOOLEAN
  PROVE  \E g : Builds(g, kind, es, append)
<1> DEFINE Upto(g, m) == \A i \in 0..m : g[i] = IF i = 0 THEN New(kind) ELSE BuildStep(append, g[i - 1], es[i])
           S == {m \in Nat : \E g : Upto(g, m)}
<1>1. 0 \in S
  <2>1. PICK g : g = [i \in 0..0 |-> New(kind)]
    OBVIOUS
  <2>2. Upto(g, 0)
    BY <2>1
  <2> HIDE DEF Upto
  <2> QED BY <2>2
<1>2. ASSUME NEW m \in Nat, m \in S PROVE m + 1 \in S
  <2>1. PICK g : Upto(g, m)
    BY <1>2
  <2>2. PICK last : last = BuildStep(append, g[m], es[m + 1])
    OBVIOUS
  <2>3. PICK h : h = [i \in 0..m + 1 |-> IF i <= m THEN g[i] ELSE last]
    OBVIOUS
  <2>4. \A i \in 0..m : h[i] = g[i]
    BY <2>3
  <2>5. h[m + 1] = last
    BY <2>3
  <2>6. ASSUME NEW i \in 0..m + 1
        PROVE  h[i] = IF i = 0 THEN New(kind) ELSE BuildStep(append, h[i - 1], es[i])
    <3>1. CASE i = m + 1
      <4>1. i # 0 /\ i - 1 = m /\ m \in 0..m
        BY <3>1
      <4> QED BY <2>2, <2>4, <2>5, <3>1, <4>1
    <3>2. CASE i = 0
      <4>1. i \in 0..m
        BY <3>2
      <4> QED BY <2>1, <2>4, <3>2, <4>1
    <3>3. CASE i # 0 /\ i # m + 1
      <4>1. i \in 0..m /\ i - 1 \in 0..m
        BY <3>3
      <4> QED BY <2>1, <2>4, <3>3, <4>1
    <3> QED BY <3>1, <3>2, <3>3
  <2>7. Upto(h, m + 1)
    BY <2>6
  <2> HIDE DEF Upto
  <2> QED BY <2>7
<1> HIDE DEF S
<1>3. Nat \subseteq S
  BY <1>1, <1>2, Induction
<1>4. PICK N \in Nat : N = Len(es)
  OBVIOUS
<1>5. PICK g : Upto(g, N)
  BY <1>3 DEF S
<1>6. PICK h : h = [i \in 0..N |-> g[i]]
  OBVIOUS
<1>7. \A i \in 0..N : h[i] = g[i]
  BY <1>6
<1>8. ASSUME NEW i \in 0..N
      PROVE  h[i] = IF i = 0 THEN New(kind) ELSE BuildStep(append, h[i - 1], es[i])
  <2>1. CASE i = 0
    BY <1>5, <1>7, <2>1
  <2>2. CASE i # 0
    <3>1. i - 1 \in 0..N
      BY <2>2
    <3> QED BY <1>5, <1>7, <2>2, <3>1
  <2> QED BY <2>1, <2>2
<1>9. h = [i \in 0..N |-> h[i]]
  BY <1>6
<1> QED BY <1>4, <1>8, <1>9 DEF Builds

\* A table that is filled from a list of children holds them.
LEMMA BuildRight ==
  ASSUME NEW kind \in {"Node4", "Node16", "Node48", "Node256"}, NEW f, Children(f), NEW es,
         Lists(es, f), kind = "Node256" \/ Cardinality(DOMAIN f) <= Width[kind],
         NEW append \in BOOLEAN, NEW g, Builds(g, kind, es, append)
  PROVE  Holds(g[Len(es)], kind, f)
<1>1. PICK n \in Nat : n = Cardinality(DOMAIN f)
  BY DEF Lists
<1>2. Len(es) = n
  BY <1>1 DEF Lists
<1>3. g[0] = New(kind) /\ \A i \in 1..n : g[i] = BuildStep(append, g[i - 1], es[i])
  BY <1>2 DEF Builds
<1> DEFINE Good(i) == Holds(g[i], kind, First(f, es, i)) /\ (append => Packed(g[i]))
           S == {i \in Nat : i <= n => Good(i)}
<1>4. First(f, es, 0) = <<>> /\ First(f, es, n) = f
  BY <1>1, FirstRight
<1>5. 0 \in S
  BY <1>3, <1>4, NewRight
<1>6. ASSUME NEW i \in Nat, i \in S, i + 1 <= n PROVE Good(i + 1)
  <2>1. i + 1 \in 1..n /\ (i + 1) - 1 = i /\ i \in 0..n
    BY <1>6
  <2>2. Holds(g[i], kind, First(f, es, i)) /\ (append => Packed(g[i]))
    BY <1>6
  <2>3. PICK h, b, c : h = First(f, es, i) /\ b = es[i + 1][1] /\ c = es[i + 1][2]
    OBVIOUS
  <2>4. /\ b \in Byte \ DOMAIN h /\ c \in Child /\ \A x \in DOMAIN h : x < b
        /\ First(f, es, i + 1) = With(h, b, c) /\ Cardinality(DOMAIN h) = i
    BY <1>1, <2>1, <2>3, FirstRight
  <2>5. Room(kind, h)
    <3>1. CASE kind # "Node256"
      <4>1. Width[kind] \in Nat /\ n <= Width[kind]
        BY <1>1, <3>1, Widths
      <4> QED BY <1>6, <2>4, <4>1 DEF Room
    <3> QED BY <3>1 DEF Room
  <2>6. g[i + 1] = IF append THEN AppendTo(g[i], b, c) ELSE AddTo(g[i], b, c)
    BY <1>3, <2>1, <2>3 DEF BuildStep
  <2>7. CASE append
    <3>1. Holds(AppendTo(g[i], b, c), kind, With(h, b, c)) /\ Packed(AppendTo(g[i], b, c))
      BY <2>2, <2>3, <2>4, <2>5, <2>7, AppendRight
    <3> QED BY <2>4, <2>6, <2>7, <3>1
  <2>8. CASE ~append
    <3>1. Holds(AddTo(g[i], b, c), kind, With(h, b, c))
      BY <2>2, <2>3, <2>4, <2>5, AddRight
    <3> QED BY <2>4, <2>6, <2>8, <3>1
  <2> QED BY <2>7, <2>8
<1>7. ASSUME NEW i \in Nat, i \in S PROVE i + 1 \in S
  BY <1>6, <1>7
<1> HIDE DEF S
<1>8. Nat \subseteq S
  BY <1>5, <1>7, Induction
<1>9. Good(n)
  BY <1>1, <1>8 DEF S
<1> QED BY <1>2, <1>4, <1>9

\* Filled and Rebuilt.
LEMMA FilledRight ==
  ASSUME NEW kind \in {"Node4", "Node16", "Node48", "Node256"}, NEW f, Children(f), NEW es,
         Lists(es, f), kind = "Node256" \/ Cardinality(DOMAIN f) <= Width[kind]
  PROVE  Holds(Filled(kind, es), kind, f) /\ Holds(Rebuilt(kind, es), kind, f)
<1>1. Len(es) \in Nat
  BY DEF Lists
<1>2. ASSUME NEW append \in BOOLEAN, NEW g, g = CHOOSE x : Builds(x, kind, es, append)
      PROVE  Holds(g[Len(es)], kind, f)
  <2>1. \E x : Builds(x, kind, es, append)
    BY <1>1, BuildExists
  <2>2. Builds(g, kind, es, append)
    BY <1>2, <2>1
  <2> QED BY <2>2, BuildRight
<1>3. PICK g : g = CHOOSE x : Builds(x, kind, es, TRUE)
  OBVIOUS
<1>4. Filled(kind, es) = g[Len(es)]
  BY <1>3 DEF Filled, Builds, BuildStep
<1>5. PICK h : h = CHOOSE x : Builds(x, kind, es, FALSE)
  OBVIOUS
<1>6. Rebuilt(kind, es) = h[Len(es)]
  BY <1>5 DEF Rebuilt, Builds, BuildStep
<1>7. Holds(g[Len(es)], kind, f)
  BY <1>2, <1>3
<1>8. Holds(h[Len(es)], kind, f)
  BY <1>2, <1>5
<1> QED BY <1>4, <1>6, <1>7, <1>8

\* Nothing is rebuilt without a table.
LEMMA RebuiltEmpty ==
  ASSUME NEW es, Lists(es, <<>>)
  PROVE  Rebuilt("Empty", es) = NoTable
<1>1. Len(es) = 0
  BY NoChildren DEF Lists
<1>2. PICK h : h = CHOOSE x : Builds(x, "Empty", es, FALSE)
  OBVIOUS
<1>3. Rebuilt("Empty", es) = h[Len(es)]
  BY <1>2 DEF Rebuilt, Builds, BuildStep
<1>4. Builds(h, "Empty", es, FALSE)
  <2>1. Len(es) \in Nat /\ FALSE \in BOOLEAN
    BY <1>1
  <2>2. \E x : Builds(x, "Empty", es, FALSE)
    BY <2>1, BuildExists
  <2> QED BY <1>2, <2>2
<1>5. h[0] = New("Empty")
  BY <1>1, <1>4 DEF Builds
<1> QED BY <1>1, <1>3, <1>5 DEF New

-----------------------------------------------------------------------------
(* What a table tells of itself *)

\* No kind holds more children than it has room for.
LEMMA Fits ==
  ASSUME NEW kind \in {"Node4", "Node16", "Node48", "Node256"}, NEW f, NEW t, Holds(t, kind, f)
  PROVE  Cardinality(DOMAIN f) \in Nat /\ Cardinality(DOMAIN f) <= Width[kind]
<1>1. DOMAIN f \subseteq Byte
  BY DEF Holds
<1>2. /\ Cardinality(DOMAIN f) \in Nat /\ Cardinality(DOMAIN f) <= LastByte + 1
  BY <1>1, ByteSets
<1>3. CASE kind \in {"Node4", "Node16"}
  <2>1. t.n \in 0..Width[kind] /\ t.n = Cardinality(DOMAIN f) /\ Width[kind] \in Nat
    BY <1>3, SortedFacts
  <2> QED BY <2>1
<1>4. CASE kind = "Node48"
  <2>1. PICK W \in Nat : W = Width["Node48"]
    BY Widths
  <2>2. /\ \A b \in DOMAIN f : t.index[b] \in DOMAIN t.slots
        /\ DOMAIN t.slots \subseteq 1..W
        /\ \A a, b \in DOMAIN f : t.index[a] = t.index[b] => a = b
        /\ \A i \in DOMAIN t.slots : \E b \in DOMAIN f : t.index[b] = i
    BY <1>4, <2>1, IndexedFacts
  <2>3. IsFiniteSet(1..W) /\ Cardinality(1..W) = W
    <3>1. 1 \in Int /\ W \in Int /\ (1 > W <=> W = 0)
      BY <2>1
    <3>2. IsFiniteSet(1..W) /\ Cardinality(1..W) = IF 1 > W THEN 0 ELSE W - 1 + 1
      BY <3>1, FS_Interval
    <3> QED BY <2>1, <3>1, <3>2
  <2>4. PICK D : D = DOMAIN t.slots
    OBVIOUS
  <2>5. IsFiniteSet(D) /\ Cardinality(D) <= Cardinality(1..W)
    BY <2>2, <2>3, <2>4, FS_Subset
  <2>6. Cardinality(DOMAIN f) = Cardinality(D)
    BY <2>2, <2>4, <2>5, SameSize
  <2> QED BY <1>2, <1>4, <2>1, <2>3, <2>5, <2>6
<1>5. CASE kind = "Node256"
  BY <1>2, <1>5, Widths
<1> QED BY <1>2, <1>3, <1>4, <1>5

\* Does a table hold what it tells of?
Sound(t) == t.kind \in ToSet(Kind) \cup {"Empty"} /\ Holds(t, t.kind, KidsOf(t))

\* A table that holds f tells of f.
LEMMA SoundWhen ==
  ASSUME NEW kind \in {"Empty", "Node4", "Node16", "Node48", "Node256"}, NEW f, NEW t, Holds(t, kind, f)
  PROVE  Sound(t) /\ KidsOf(t) = f /\ t.kind = kind
<1>1. t.kind = kind /\ f = [b \in DOMAIN f |-> f[b]]
  BY DEF Holds
<1>2. Lists(Entries(t), f)
  BY EntriesRight
<1>3. KidsOf(t) = f
  BY <1>1, <1>2, KidsRight
<1> QED BY <1>1, <1>3, Kinds DEF Sound

\* What a sound table is like.
LEMMA SoundFacts ==
  ASSUME NEW t, Sound(t), NEW f, f = KidsOf(t)
  PROVE  /\ t.kind \in {"Empty", "Node4", "Node16", "Node48", "Node256"} /\ Holds(t, t.kind, f)
         /\ Children(f) /\ t.n = Cardinality(DOMAIN f) /\ t.n \in Nat
         /\ t.kind = "Empty" => t = NoTable /\ f = <<>>
         /\ t.kind # "Empty" => t # NoTable /\ t.n <= Width[t.kind]
         /\ Lists(Entries(t), f)
         /\ HeldBy(t) = CountOf(f) /\ DropOf(t) = CountOf(f) /\ CountOf(f) \in [Slot -> Nat]
         /\ \A b \in Byte : Seek(t, b) = IF b \in DOMAIN f THEN f[b] ELSE Uninit
         /\ \A b \in Byte : (b \in DOMAIN f) <=> (Seek(t, b) # Uninit)
<1>1. t.kind \in {"Empty", "Node4", "Node16", "Node48", "Node256"} /\ Holds(t, t.kind, f)
  BY Kinds DEF Sound
<1>2. Children(f) /\ t.n = Cardinality(DOMAIN f) /\ DOMAIN f \subseteq Byte
  BY <1>1 DEF Holds, Children
<1>3. t.n \in Nat
  BY <1>2, ByteSets
<1>4. t.kind = "Empty" => t = NoTable /\ f = <<>>
  BY <1>1 DEF Holds
<1>5. t.kind # "Empty" => t # NoTable
  BY DEF NoTable
<1>6. t.kind # "Empty" => t.n <= Width[t.kind]
  BY <1>1, <1>2, Fits
<1>7. Lists(Entries(t), f)
  BY <1>1, EntriesRight
<1>8. CountOf(f) \in [Slot -> Nat] /\ HeldBy(t) = CountOf(f)
  BY <1>2, <1>7, CountTyped, HeldRight DEF Children
<1>9. DropOf(t) = CountOf(f)
  BY <1>1, DropRight
<1>10. \A b \in Byte : Seek(t, b) = IF b \in DOMAIN f THEN f[b] ELSE Uninit
  BY <1>1, SeekFinds
<1>11. ASSUME NEW b \in Byte PROVE (b \in DOMAIN f) <=> (Seek(t, b) # Uninit)
  <2>1. b \in DOMAIN f => f[b] \in Child /\ f[b] # Uninit
    BY <1>2, TableAssumption DEF Children
  <2> QED BY <1>10, <2>1
<1> QED BY <1>1, <1>2, <1>3, <1>4, <1>5, <1>6, <1>7, <1>8, <1>9, <1>10, <1>11

\* No references.
Nothing == [s \in Slot |-> 0]

\* References are one when a child is there once.
LEMMA OneTyped ==
  ASSUME NEW c
  PROVE  One(c) \in [Slot -> Nat] /\ Nothing \in [Slot -> Nat]
BY DEF One, Nothing

\* Sums of references.
LEMMA PlusFacts ==
  ASSUME NEW A \in [Slot -> Nat], NEW S \in [Slot -> Nat], NEW O \in [Slot -> Nat]
  PROVE  /\ Plus(A, S) \in [Slot -> Nat]
         /\ Plus(Plus(A, S), O) = Plus(Plus(A, O), S)
         /\ Plus(A, Nothing) = A /\ Plus(Nothing, A) = A
<1>1. Plus(A, S) \in [Slot -> Nat]
  BY DEF Plus
<1>2. Plus(Plus(A, S), O) = Plus(Plus(A, O), S)
  <2>1. \A s \in Slot : A[s] + S[s] + O[s] = A[s] + O[s] + S[s]
    OBVIOUS
  <2> QED BY <2>1 DEF Plus
<1>3. Plus(A, Nothing) = A
  <2>1. \A s \in Slot : A[s] + 0 = A[s]
    OBVIOUS
  <2>2. A = [s \in Slot |-> A[s]]
    OBVIOUS
  <2> QED BY <2>1, <2>2 DEF Plus, Nothing
<1>4. Plus(Nothing, A) = A
  <2>1. \A s \in Slot : 0 + A[s] = A[s]
    OBVIOUS
  <2>2. A = [s \in Slot |-> A[s]]
    OBVIOUS
  <2> QED BY <2>1, <2>2 DEF Plus, Nothing
<1> QED BY <1>1, <1>2, <1>3, <1>4

\* References that are given back.
LEMMA MinusFacts ==
  ASSUME NEW A \in [Slot -> Nat], NEW S \in [Slot -> Nat], NEW O \in [Slot -> Nat]
  PROVE  /\ Minus(Plus(Plus(A, O), S), O) = Plus(A, S)
         /\ Minus(Plus(A, O), O) = A /\ Minus(Plus(O, A), O) = A
         /\ Minus(A, Nothing) = A
<1>1. Minus(Plus(Plus(A, O), S), O) = Plus(A, S)
  <2>1. \A s \in Slot : (A[s] + O[s] + S[s]) - O[s] = A[s] + S[s]
    OBVIOUS
  <2> QED BY <2>1 DEF Plus, Minus
<1>2. A = [s \in Slot |-> A[s]]
  OBVIOUS
<1>3. Minus(Plus(A, O), O) = A
  <2>1. \A s \in Slot : (A[s] + O[s]) - O[s] = A[s]
    OBVIOUS
  <2> QED BY <1>2, <2>1 DEF Plus, Minus
<1>4. Minus(Plus(O, A), O) = A
  <2>1. \A s \in Slot : (O[s] + A[s]) - O[s] = A[s]
    OBVIOUS
  <2> QED BY <1>2, <2>1 DEF Plus, Minus
<1>5. Minus(A, Nothing) = A
  <2>1. \A s \in Slot : A[s] - 0 = A[s]
    OBVIOUS
  <2> QED BY <1>2, <2>1 DEF Minus, Nothing
<1> QED BY <1>1, <1>3, <1>4, <1>5

-----------------------------------------------------------------------------
(* The invariant, step by step *)

\* Sound tables, and the ledger knows what they hold.
Balanced(t, u, r) ==
  Sound(t) /\ Sound(u) /\ r = Plus(CountOf(KidsOf(t)), CountOf(KidsOf(u)))

\* What the invariant says, now and after a step.
LEMMA InvMeans ==
  /\ TableInv <=> /\ Balanced(table, copy, refs)
                  /\ edits \in 0..MaxEdits /\ mode \in {"tree", "versioned"}
  /\ TableInv' <=> /\ Balanced(table', copy', refs')
                   /\ edits' \in 0..MaxEdits /\ mode' \in {"tree", "versioned"}
<1>1. TableInv <=> /\ Balanced(table, copy, refs)
                   /\ edits \in 0..MaxEdits /\ mode \in {"tree", "versioned"}
  BY DEF TableInv, Balanced, Sound
<1>2. TableInv' <=> /\ Balanced(table', copy', refs')
                    /\ edits' \in 0..MaxEdits /\ mode' \in {"tree", "versioned"}
  BY DEF TableInv, Balanced, Sound
<1> QED BY <1>1, <1>2

\* The abstract specification has the kinds of this one.
LEMMA SameKinds ==
  ASSUME NEW x
  PROVE  /\ Promise!Larger(x) = Larger(x) /\ Promise!Smaller(x) = Smaller(x)
         /\ Promise!BulkKind(x) = BulkKind(x) /\ Promise!Cardinality(x) = Cardinality(x)
<1>1. Promise!Cardinality(x) = Cardinality(x)
  BY DEF Promise!Cardinality, Cardinality
<1>2. /\ Promise!Larger(x) = Larger(x) /\ Promise!Smaller(x) = Smaller(x)
      /\ Promise!BulkKind(x) = BulkKind(x)
  BY DEF Promise!Larger, Promise!Smaller, Promise!BulkKind, Promise!Kind,
         Larger, Smaller, BulkKind, Kind
<1> QED BY <1>1, <1>2

\* A step that leaves the snapshot's copy alone.
LEMMA KeptCopy ==
  ASSUME edits \in 0..MaxEdits, KeepsCopy
  PROVE  edits' \in 0..MaxEdits /\ copy' = copy
<1>1. MaxEdits \in Nat
  BY TableAssumption
<1> QED BY <1>1 DEF KeepsCopy

\* After a step that leaves the copy alone, the node's table holds g.
LEMMA Replaced ==
  ASSUME TableInv, KeepsCopy, mode' \in {"tree", "versioned"},
         NEW kind \in {"Empty", "Node4", "Node16", "Node48", "Node256"}, NEW g, Holds(table', kind, g),
         refs' = Plus(CountOf(g), CountOf(KidsOf(copy)))
  PROVE  TableInv' /\ KidsOf(table') = g /\ table'.kind = kind /\ copy' = copy
<1>1. /\ Balanced(table, copy, refs) /\ edits \in 0..MaxEdits
  BY InvMeans
<1>2. edits' \in 0..MaxEdits /\ copy' = copy
  BY <1>1, KeptCopy
<1>3. Sound(table') /\ KidsOf(table') = g /\ table'.kind = kind
  BY SoundWhen
<1>4. Balanced(table', copy', refs')
  BY <1>1, <1>2, <1>3 DEF Balanced
<1> QED BY <1>2, <1>3, <1>4, InvMeans

\* What a table of children of a node tells of it, and what the ledger says.
LEMMA Now ==
  ASSUME TableInv, NEW K, K = KidsOf(table), NEW S, S = KidsOf(copy)
  PROVE  /\ Sound(table) /\ Sound(copy) /\ Children(K) /\ Children(S)
         /\ CountOf(K) \in [Slot -> Nat] /\ CountOf(S) \in [Slot -> Nat]
         /\ refs = Plus(CountOf(K), CountOf(S)) /\ mode \in {"tree", "versioned"}
         /\ Cardinality(DOMAIN K) = table.n /\ table.n \in Nat
         /\ edits \in 0..MaxEdits
<1>1. /\ Sound(table) /\ Sound(copy) /\ refs = Plus(CountOf(K), CountOf(S))
      /\ mode \in {"tree", "versioned"} /\ edits \in 0..MaxEdits
  BY InvMeans DEF Balanced
<1>2. /\ Children(K) /\ CountOf(K) \in [Slot -> Nat] /\ Cardinality(DOMAIN K) = table.n
      /\ table.n \in Nat
  BY <1>1, SoundFacts
<1>3. Children(S) /\ CountOf(S) \in [Slot -> Nat]
  BY <1>1, SoundFacts
<1> QED BY <1>1, <1>2, <1>3

\* A child was added.
LEMMA Added ==
  ASSUME TableInv, KeepsCopy, mode' = mode, NEW b \in Byte, NEW c \in Child,
         b \notin DOMAIN KidsOf(table), refs' = Plus(refs, One(c)),
         NEW kind \in {"Node4", "Node16", "Node48", "Node256"},
         Holds(table', kind, With(KidsOf(table), b, c)),
         table.kind = "Empty" => kind = "Node4",
         table.kind # "Empty" /\ table.n = Width[table.kind] => kind = Larger(table.kind),
         table.kind # "Empty" /\ table.n # Width[table.kind] => kind = table.kind
  PROVE  TableInv' /\ Promise!AbsAdd(b, c)
<1>1. PICK K, S : K = KidsOf(table) /\ S = KidsOf(copy)
  OBVIOUS
<1>2. /\ Children(K) /\ CountOf(K) \in [Slot -> Nat] /\ CountOf(S) \in [Slot -> Nat]
      /\ refs = Plus(CountOf(K), CountOf(S)) /\ mode \in {"tree", "versioned"}
      /\ Cardinality(DOMAIN K) = table.n
  BY <1>1, Now
<1>3. CountOf(With(K, b, c)) = Plus(CountOf(K), One(c))
  <2>1. OneMore(K, b, c, With(K, b, c))
    BY <1>1, <1>2, WithFacts
  <2> QED BY <2>1 DEF OneMore
<1>4. refs' = Plus(CountOf(With(K, b, c)), CountOf(S))
  BY <1>2, <1>3, OneTyped, PlusFacts
<1>5. /\ TableInv' /\ KidsOf(table') = With(K, b, c) /\ table'.kind = kind /\ copy' = copy
  BY <1>1, <1>2, <1>4, Replaced
<1>6. kind = IF table.kind = "Empty" THEN "Node4"
             ELSE IF Cardinality(DOMAIN K) = Width[table.kind] THEN Larger(table.kind)
             ELSE table.kind
  BY <1>2
<1>7. Promise!AbsAdd(b, c)
  <2>1. With(KidsOf(table), b, c)
          = [e \in DOMAIN KidsOf(table) \cup {b} |-> IF e = b THEN c ELSE KidsOf(table)[e]]
    BY DEF With
  <2>2. table'.kind = IF table.kind = "Empty" THEN "Node4"
                      ELSE IF Promise!Cardinality(DOMAIN KidsOf(table)) = Width[table.kind]
                      THEN Promise!Larger(table.kind) ELSE table.kind
    BY <1>1, <1>5, <1>6, SameKinds
  <2> QED BY <1>1, <1>5, <2>1, <2>2 DEF Promise!AbsAdd
<1> QED BY <1>5, <1>7

\* AddChild.
LEMMA AddChildStep ==
  ASSUME TableInv, NEW b \in Byte, NEW c \in Child, AddChild(b, c)
  PROVE  TableInv' /\ Promise!AbsAdd(b, c)
<1>1. PICK K : K = KidsOf(table)
  OBVIOUS
<1>2. /\ Sound(table) /\ Children(K) /\ Cardinality(DOMAIN K) = table.n /\ table.n \in Nat
  BY <1>1, Now
<1>3. /\ table.kind \in {"Empty", "Node4", "Node16", "Node48", "Node256"} /\ Holds(table, table.kind, K)
      /\ table.kind = "Empty" => table = NoTable /\ K = <<>>
      /\ table.kind # "Empty" => table # NoTable /\ table.n <= Width[table.kind]
      /\ (b \in DOMAIN K) <=> (Seek(table, b) # Uninit)
  BY <1>1, <1>2, SoundFacts
<1>4. /\ Seek(table, b) = Uninit /\ ~IsFull(table) /\ refs' = Plus(refs, One(c)) /\ KeepsCopy
      /\ mode' = mode /\ table' = AddTo(IF table = NoTable THEN New("Node4") ELSE table, b, c)
  BY DEF AddChild, Addable
<1>5. b \notin DOMAIN K
  BY <1>3, <1>4
<1>6. CASE table.kind = "Empty"
  <2>1. PICK t : t = New("Node4")
    OBVIOUS
  <2>2. Holds(t, "Node4", K) /\ Cardinality(DOMAIN K) = 0
    BY <1>3, <1>6, <2>1, NewRight, NoChildren
  <2>3. Room("Node4", K)
    BY <2>2, Widths DEF Room
  <2>4. table' = AddTo(t, b, c)
    BY <1>3, <1>4, <1>6, <2>1
  <2>5. Holds(table', "Node4", With(K, b, c))
    BY <1>5, <2>2, <2>3, <2>4, AddRight
  <2> QED BY <1>1, <1>4, <1>5, <1>6, <2>5, Added
<1>7. CASE table.kind # "Empty"
  <2>1. PICK kind \in {"Node4", "Node16", "Node48", "Node256"} : kind = table.kind
    BY <1>3, <1>7
  <2>2. Room(kind, K) /\ table.n # Width[kind]
    <3>1. CASE kind = "Node256"
      <4>1. Cardinality(DOMAIN With(K, b, c)) = table.n + 1
        <5>1. OneMore(K, b, c, With(K, b, c))
          BY <1>2, <1>5, WithFacts
        <5> QED BY <1>2, <5>1 DEF OneMore
      <4>2. DOMAIN With(K, b, c) \subseteq Byte
        BY <1>2 DEF With, Children
      <4>3. table.n + 1 <= Width["Node256"]
        BY <4>1, <4>2, ByteSets, Widths
      <4> QED BY <1>2, <3>1, <4>3, Widths DEF Room
    <3>2. CASE kind # "Node256"
      BY <1>2, <1>4, <1>7, <2>1, <3>2, Widths DEF IsFull, Room
    <3> QED BY <3>1, <3>2
  <2>3. Holds(table', kind, With(K, b, c))
    BY <1>3, <1>4, <1>5, <1>7, <2>1, <2>2, AddRight
  <2> QED BY <1>1, <1>4, <1>5, <1>7, <2>1, <2>2, <2>3, Added
<1> QED BY <1>6, <1>7

\* The node is full: what holds before its children move to the larger table.
LEMMA Full ==
  ASSUME TableInv, NEW b \in Byte, Addable(b), IsFull(table), NEW K, K = KidsOf(table)
  PROVE  \E kind \in {"Node16", "Node48", "Node256"} :
           /\ kind = Larger(table.kind)
           /\ <<table.kind, kind>> \in {<<"Node4", "Node16">>, <<"Node16", "Node48">>, <<"Node48", "Node256">>}
           /\ Holds(table, table.kind, K) /\ Lists(Entries(table), K) /\ Children(K)
           /\ Cardinality(DOMAIN K) = table.n /\ table.n = Width[table.kind]
           /\ Cardinality(DOMAIN K) < Width[kind] /\ Room(kind, K)
           /\ b \notin DOMAIN K /\ table # NoTable
           /\ CountOf(K) \in [Slot -> Nat] /\ HeldBy(table) = CountOf(K) /\ DropOf(table) = CountOf(K)
           /\ DropOf(Taken(table)) = Nothing
<1>1. Sound(table)
  BY Now
<1>2. /\ table.kind \in {"Empty", "Node4", "Node16", "Node48", "Node256"} /\ Holds(table, table.kind, K)
      /\ Children(K) /\ table.n = Cardinality(DOMAIN K) /\ table.n \in Nat
      /\ table.kind # "Empty" => table # NoTable /\ table.n <= Width[table.kind]
      /\ Lists(Entries(table), K)
      /\ HeldBy(table) = CountOf(K) /\ DropOf(table) = CountOf(K) /\ CountOf(K) \in [Slot -> Nat]
      /\ (b \in DOMAIN K) <=> (Seek(table, b) # Uninit)
  BY <1>1, SoundFacts
<1>3. table.kind \in {"Node4", "Node16", "Node48"} /\ table.n >= Width[table.kind]
  BY <1>2 DEF IsFull
<1>4. b \notin DOMAIN K
  BY <1>2 DEF Addable
<1>5. table.n = Width[table.kind] /\ table # NoTable
  BY <1>2, <1>3, Widths
<1>6. PICK kind : kind = Larger(table.kind)
  OBVIOUS
<1>7. /\ kind \in {"Node16", "Node48", "Node256"}
      /\ <<table.kind, kind>> \in {<<"Node4", "Node16">>, <<"Node16", "Node48">>, <<"Node48", "Node256">>}
  BY <1>3, <1>6, Neighbours
<1>8. Width[table.kind] < Width[kind]
  BY <1>3, <1>6, Neighbours, Widths
<1>9. Cardinality(DOMAIN K) < Width[kind] /\ Room(kind, K)
  BY <1>2, <1>5, <1>8 DEF Room
<1>10. DropOf(Taken(table)) = Nothing
  BY <1>2, <1>3, TakenDrops DEF Nothing
<1> QED BY <1>2, <1>4, <1>5, <1>6, <1>7, <1>9, <1>10

\* AddChildGrow.
LEMMA AddChildGrowStep ==
  ASSUME TableInv, NEW b \in Byte, NEW c \in Child, AddChildGrow(b, c)
  PROVE  TableInv' /\ Promise!AbsAdd(b, c)
<1>1. PICK K, S : K = KidsOf(table) /\ S = KidsOf(copy)
  OBVIOUS
<1>2. /\ Addable(b) /\ IsFull(table) /\ table' = AddTo(Moved(table, Larger(table.kind)), b, c)
      /\ refs' = Minus(Plus(refs, One(c)), DropOf(Taken(table))) /\ KeepsCopy /\ mode' = mode
  BY DEF AddChildGrow
<1>3. PICK kind \in {"Node16", "Node48", "Node256"} :
        /\ kind = Larger(table.kind)
        /\ <<table.kind, kind>> \in {<<"Node4", "Node16">>, <<"Node16", "Node48">>, <<"Node48", "Node256">>}
        /\ Holds(table, table.kind, K) /\ table.n = Width[table.kind]
        /\ Cardinality(DOMAIN K) < Width[kind] /\ Room(kind, K)
        /\ b \notin DOMAIN K /\ DropOf(Taken(table)) = Nothing /\ Cardinality(DOMAIN K) = table.n
  BY <1>1, <1>2, Full
<1>4. /\ CountOf(K) \in [Slot -> Nat] /\ CountOf(S) \in [Slot -> Nat] /\ table.n \in Nat
      /\ refs = Plus(CountOf(K), CountOf(S))
  BY <1>1, Now
<1>5. Holds(Moved(table, kind), kind, K)
  <2>1. Cardinality(DOMAIN K) <= Width[kind]
    BY <1>3, <1>4, Widths
  <2> QED BY <1>3, <2>1, MovedRight
<1>6. Holds(table', kind, With(K, b, c))
  BY <1>2, <1>3, <1>5, AddRight
<1>7. refs' = Plus(refs, One(c))
  <2>1. refs \in [Slot -> Nat] /\ Plus(refs, One(c)) \in [Slot -> Nat]
    BY <1>4, OneTyped, PlusFacts
  <2> QED BY <1>2, <1>3, <2>1, MinusFacts
<1>8. table.kind # "Empty"
  BY <1>3
<1> QED BY <1>1, <1>2, <1>3, <1>6, <1>7, <1>8, Added

\* AddChildGrowVersioned.
LEMMA AddChildGrowVersionedStep ==
  ASSUME TableInv, NEW b \in Byte, NEW c \in Child, AddChildGrowVersioned(b, c)
  PROVE  TableInv' /\ Promise!AbsAdd(b, c)
<1>1. PICK K, S : K = KidsOf(table) /\ S = KidsOf(copy)
  OBVIOUS
<1>2. /\ Addable(b) /\ IsFull(table)
      /\ table' = AddTo(Rebuilt(Larger(table.kind), Entries(table)), b, c)
      /\ refs' = Minus(Plus(Plus(refs, One(c)), HeldBy(table)), DropOf(table))
      /\ KeepsCopy /\ mode' = mode
  BY DEF AddChildGrowVersioned
<1>3. PICK kind \in {"Node16", "Node48", "Node256"} :
        /\ kind = Larger(table.kind) /\ table.kind # "Empty"
        /\ Lists(Entries(table), K) /\ Children(K) /\ table.n = Width[table.kind]
        /\ Cardinality(DOMAIN K) < Width[kind] /\ Room(kind, K) /\ Cardinality(DOMAIN K) = table.n
        /\ b \notin DOMAIN K /\ HeldBy(table) = CountOf(K) /\ DropOf(table) = CountOf(K)
  <2>1. PICK kind \in {"Node16", "Node48", "Node256"} :
          /\ kind = Larger(table.kind)
          /\ <<table.kind, kind>> \in {<<"Node4", "Node16">>, <<"Node16", "Node48">>, <<"Node48", "Node256">>}
          /\ Lists(Entries(table), K) /\ Children(K) /\ table.n = Width[table.kind]
          /\ Cardinality(DOMAIN K) < Width[kind] /\ Room(kind, K) /\ Cardinality(DOMAIN K) = table.n
          /\ b \notin DOMAIN K /\ HeldBy(table) = CountOf(K) /\ DropOf(table) = CountOf(K)
    BY <1>1, <1>2, Full
  <2>2. table.kind # "Empty"
    BY <2>1
  <2> QED BY <2>1, <2>2
<1>4. /\ CountOf(K) \in [Slot -> Nat] /\ CountOf(S) \in [Slot -> Nat] /\ table.n \in Nat
      /\ refs = Plus(CountOf(K), CountOf(S))
  BY <1>1, Now
<1>5. Holds(Rebuilt(kind, Entries(table)), kind, K)
  <2>1. Cardinality(DOMAIN K) <= Width[kind]
    BY <1>3, <1>4, Widths
  <2> QED BY <1>3, <2>1, FilledRight
<1>6. Holds(table', kind, With(K, b, c))
  BY <1>2, <1>3, <1>5, AddRight
<1>7. refs' = Plus(refs, One(c))
  <2>1. refs \in [Slot -> Nat] /\ Plus(refs, One(c)) \in [Slot -> Nat]
    BY <1>4, OneTyped, PlusFacts
  <2> QED BY <1>2, <1>3, <1>4, <2>1, MinusFacts
<1> QED BY <1>1, <1>2, <1>3, <1>6, <1>7, Added

\* A child was deleted.
LEMMA Deleted ==
  ASSUME TableInv, KeepsCopy, mode' = mode, NEW b \in DOMAIN KidsOf(table),
         refs' = Minus(refs, One(KidsOf(table)[b])),
         NEW kind \in {"Node4", "Node16", "Node48", "Node256"},
         Holds(table', kind, Without(KidsOf(table), b)),
         kind = IF mode = "tree" /\ table.kind # "Node4" /\ table.n - 1 <= Width[Smaller(table.kind)]
                THEN Smaller(table.kind) ELSE table.kind
  PROVE  TableInv' /\ Promise!AbsDelete(b)
<1>1. PICK K, S : K = KidsOf(table) /\ S = KidsOf(copy)
  OBVIOUS
<1>2. /\ Children(K) /\ CountOf(S) \in [Slot -> Nat]
      /\ refs = Plus(CountOf(K), CountOf(S)) /\ mode \in {"tree", "versioned"}
      /\ Cardinality(DOMAIN K) = table.n
  BY <1>1, Now
<1>3. Children(Without(K, b)) /\ CountOf(K) = Plus(CountOf(Without(K, b)), One(K[b]))
  <2>1. OneLess(K, b, Without(K, b))
    BY <1>1, <1>2, WithoutFacts
  <2> QED BY <2>1 DEF OneLess
<1>4. CountOf(Without(K, b)) \in [Slot -> Nat]
  BY <1>3, CountTyped DEF Children
<1>5. refs' = Plus(CountOf(Without(K, b)), CountOf(S))
  BY <1>1, <1>2, <1>3, <1>4, OneTyped, MinusFacts
<1>6. /\ TableInv' /\ KidsOf(table') = Without(K, b) /\ table'.kind = kind /\ copy' = copy
  BY <1>1, <1>2, <1>5, Replaced
<1>7. kind = IF /\ mode = "tree" /\ table.kind # "Node4"
                /\ Cardinality(DOMAIN K) - 1 <= Width[Smaller(table.kind)]
             THEN Smaller(table.kind) ELSE table.kind
  BY <1>2
<1>8. Promise!AbsDelete(b)
  <2>1. Promise!Others(b) = Without(KidsOf(table), b)
    BY DEF Promise!Others, Without
  <2>2. table'.kind = IF /\ mode = "tree" /\ table.kind # "Node4"
                         /\ Promise!Cardinality(DOMAIN KidsOf(table)) - 1
                              <= Width[Promise!Smaller(table.kind)]
                      THEN Promise!Smaller(table.kind) ELSE table.kind
    BY <1>1, <1>6, <1>7, SameKinds
  <2> QED BY <1>1, <1>6, <2>1, <2>2 DEF Promise!AbsDelete
<1> QED BY <1>6, <1>8

\* What the table holds once a child is out.
LEMMA Left ==
  ASSUME TableInv, NEW b \in Byte, Seek(table, b) # Uninit, NEW K, K = KidsOf(table),
         NEW left, left = DeleteFrom(table, b)
  PROVE  /\ table.kind \in {"Node4", "Node16", "Node48", "Node256"} /\ Children(K)
         /\ b \in DOMAIN K /\ K[b] = Seek(table, b)
         /\ Holds(left, table.kind, Without(K, b)) /\ left.kind = table.kind
         /\ left.n = table.n - 1 /\ left.n \in Nat
         /\ left.n = Cardinality(DOMAIN Without(K, b))
<1>1. Sound(table) /\ Cardinality(DOMAIN K) = table.n /\ table.n \in Nat
  BY Now
<1>2. /\ table.kind \in {"Empty", "Node4", "Node16", "Node48", "Node256"} /\ Holds(table, table.kind, K)
      /\ table.kind = "Empty" => K = <<>>
      /\ Children(K)
      /\ \A x \in Byte : Seek(table, x) = IF x \in DOMAIN K THEN K[x] ELSE Uninit
  BY <1>1, SoundFacts
<1>3. b \in DOMAIN K /\ K[b] = Seek(table, b)
  BY <1>2
<1>4. table.kind \in {"Node4", "Node16", "Node48", "Node256"}
  <2>1. table.kind # "Empty"
    BY <1>2, <1>3, NoChildren
  <2> QED BY <1>2, <2>1
<1>5. Holds(left, table.kind, Without(K, b))
  BY <1>2, <1>3, <1>4, DeleteRight
<1>6. left.kind = table.kind /\ left.n = Cardinality(DOMAIN Without(K, b))
  BY <1>5 DEF Holds
<1>7. /\ Cardinality(DOMAIN Without(K, b)) \in Nat
      /\ Cardinality(DOMAIN Without(K, b)) = Cardinality(DOMAIN K) - 1
  <2>1. OneLess(K, b, Without(K, b))
    BY <1>2, <1>3, WithoutFacts
  <2> QED BY <2>1 DEF OneLess
<1>8. left.n = table.n - 1 /\ left.n \in Nat
  BY <1>1, <1>6, <1>7
<1> QED BY <1>2, <1>3, <1>4, <1>5, <1>6, <1>8

\* DeleteChild.
LEMMA DeleteChildStep ==
  ASSUME TableInv, NEW b \in Byte, DeleteChild(b)
  PROVE  TableInv' /\ Promise!AbsDelete(b)
<1>1. PICK K, left : K = KidsOf(table) /\ left = DeleteFrom(table, b)
  OBVIOUS
<1>2. /\ Seek(table, b) # Uninit /\ (mode = "versioned" \/ ~Shrinks(left)) /\ table' = left
      /\ refs' = Minus(refs, One(Seek(table, b))) /\ KeepsCopy /\ mode' = mode
  BY <1>1 DEF DeleteChild
<1>3. /\ table.kind \in {"Node4", "Node16", "Node48", "Node256"}
      /\ b \in DOMAIN K /\ K[b] = Seek(table, b)
      /\ Holds(left, table.kind, Without(K, b)) /\ left.kind = table.kind
      /\ left.n = table.n - 1
  BY <1>1, <1>2, Left
<1>4. ~(mode = "tree" /\ table.kind # "Node4" /\ table.n - 1 <= Width[Smaller(table.kind)])
  BY <1>2, <1>3 DEF Shrinks
<1>5. Holds(table', table.kind, Without(K, b)) /\ refs' = Minus(refs, One(K[b]))
  BY <1>2, <1>3
<1> QED BY <1>1, <1>2, <1>3, <1>4, <1>5, Deleted

\* DeleteChildShrink.
LEMMA DeleteChildShrinkStep ==
  ASSUME TableInv, NEW b \in Byte, DeleteChildShrink(b)
  PROVE  TableInv' /\ Promise!AbsDelete(b)
<1>1. PICK K, S, left : K = KidsOf(table) /\ S = KidsOf(copy) /\ left = DeleteFrom(table, b)
  OBVIOUS
<1>2. /\ Seek(table, b) # Uninit /\ mode = "tree" /\ Shrinks(left)
      /\ table' = Moved(left, Smaller(left.kind))
      /\ refs' = Minus(Minus(refs, One(Seek(table, b))), DropOf(Taken(left)))
      /\ KeepsCopy /\ mode' = mode
  BY <1>1 DEF DeleteChildShrink
<1>3. /\ table.kind \in {"Node4", "Node16", "Node48", "Node256"} /\ Children(K)
      /\ b \in DOMAIN K /\ K[b] = Seek(table, b)
      /\ Holds(left, table.kind, Without(K, b)) /\ left.kind = table.kind
      /\ left.n = table.n - 1 /\ left.n = Cardinality(DOMAIN Without(K, b))
  BY <1>1, <1>2, Left
<1>4. table.kind # "Node4" /\ table.n - 1 <= Width[Smaller(table.kind)]
  BY <1>2, <1>3 DEF Shrinks
<1>5. PICK kind : kind = Smaller(table.kind)
  OBVIOUS
<1>6. /\ kind \in {"Node4", "Node16", "Node48"}
      /\ <<table.kind, kind>> \in {<<"Node16", "Node4">>, <<"Node48", "Node16">>, <<"Node256", "Node48">>}
  BY <1>3, <1>4, <1>5, Neighbours
<1>7. Holds(table', kind, Without(K, b))
  <2>1. Cardinality(DOMAIN Without(K, b)) <= Width[kind]
    BY <1>3, <1>4, <1>5
  <2>2. table' = Moved(left, kind)
    BY <1>2, <1>3, <1>5
  <2> QED BY <1>3, <1>6, <2>1, <2>2, MovedRight
<1>8. refs' = Minus(refs, One(K[b]))
  <2>1. DropOf(Taken(left)) = Nothing
    BY <1>3, TakenDrops DEF Nothing
  <2>2. /\ refs = Plus(CountOf(K), CountOf(S)) /\ CountOf(S) \in [Slot -> Nat]
    BY <1>1, Now
  <2>3. Children(Without(K, b)) /\ CountOf(K) = Plus(CountOf(Without(K, b)), One(K[b]))
    <3>1. OneLess(K, b, Without(K, b))
      BY <1>3, WithoutFacts
    <3> QED BY <3>1 DEF OneLess
  <2>4. CountOf(Without(K, b)) \in [Slot -> Nat]
    BY <2>3, CountTyped DEF Children
  <2>5. Minus(refs, One(K[b])) = Plus(CountOf(Without(K, b)), CountOf(S))
    BY <2>2, <2>3, <2>4, OneTyped, MinusFacts
  <2>6. Minus(refs, One(K[b])) \in [Slot -> Nat]
    BY <2>2, <2>4, <2>5, PlusFacts
  <2>7. Minus(Minus(refs, One(K[b])), Nothing) = Minus(refs, One(K[b]))
    BY <2>6, MinusFacts
  <2> QED BY <1>2, <1>3, <2>1, <2>7
<1> QED BY <1>1, <1>2, <1>3, <1>4, <1>5, <1>6, <1>7, <1>8, Deleted

\* DeleteChildCollapse.
LEMMA DeleteChildCollapseStep ==
  ASSUME TableInv, NEW b \in Byte, DeleteChildCollapse(b)
  PROVE  TableInv' /\ Promise!AbsCollapse(b)
<1>1. PICK K, S, left, L : /\ K = KidsOf(table) /\ S = KidsOf(copy) /\ left = DeleteFrom(table, b)
                           /\ L = Without(K, b)
  OBVIOUS
<1>2. /\ mode = "tree" /\ table.kind = "Node4" /\ Seek(table, b) # Uninit /\ left.n = 1
      /\ table' = NoTable /\ KeepsCopy /\ mode' = mode
      /\ refs' = Minus(Minus(Minus(refs, One(Seek(table, b))), One(left.slots[1])),
                       DropOf([left EXCEPT !.slots[1] = Uninit, !.n = 0]))
  BY <1>1 DEF DeleteChildCollapse
<1>3. /\ b \in DOMAIN K /\ K[b] = Seek(table, b) /\ Children(K)
      /\ Holds(left, "Node4", L) /\ left.kind = "Node4"
      /\ left.n = table.n - 1
  BY <1>1, <1>2, Left
<1>4. /\ refs = Plus(CountOf(K), CountOf(S)) /\ CountOf(S) \in [Slot -> Nat]
      /\ Cardinality(DOMAIN K) = table.n /\ table.n \in Nat
  BY <1>1, Now
<1>5. CountOf(K) = Plus(CountOf(L), One(K[b])) /\ Children(L)
  <2>1. OneLess(K, b, L)
    BY <1>1, <1>3, WithoutFacts
  <2> QED BY <2>1 DEF OneLess
<1>6. CountOf(L) \in [Slot -> Nat]
  BY <1>5, CountTyped DEF Children
<1>7. CountOf(L) = One(left.slots[1])
  <2>1. DropOf(left) = CountOf(L)
    BY <1>3, DropRight
  <2>2. DropOf(left) = [s \in Slot |-> Cardinality({i \in 1..1 : left.slots[i] = s})]
    BY <1>2, <1>3 DEF DropOf, Sorted
  <2>3. ASSUME NEW s \in Slot
        PROVE  Cardinality({i \in 1..1 : left.slots[i] = s}) = IF s = left.slots[1] THEN 1 ELSE 0
    <3>1. CASE s = left.slots[1]
      <4>1. {i \in 1..1 : left.slots[i] = s} = {1}
        BY <3>1
      <4> QED BY <3>1, <4>1, FS_Singleton
    <3>2. CASE s # left.slots[1]
      <4>1. {i \in 1..1 : left.slots[i] = s} = {}
        BY <3>2
      <4> QED BY <3>2, <4>1, FS_EmptySet
    <3> QED BY <3>1, <3>2
  <2> QED BY <2>1, <2>2, <2>3 DEF One
<1>8. DropOf([left EXCEPT !.slots[1] = Uninit, !.n = 0]) = Nothing
  <2>1. PICK x, y, z : x = left.keys /\ y = left.slots /\ z = left.n
    OBVIOUS
  <2>2. left = [kind |-> "Node4", keys |-> x, slots |-> y, n |-> z]
    BY <1>3, <2>1, SortedTail
  <2>3. PICK e : e = [left EXCEPT !.slots[1] = Uninit, !.n = 0]
    OBVIOUS
  <2>4. e = [kind |-> "Node4", keys |-> x, slots |-> [y EXCEPT ![1] = Uninit], n |-> 0]
    BY <2>2, <2>3
  <2>5. e.kind = "Node4" /\ e.n = 0
    BY <2>4
  <2>6. DropOf(e) = [s \in Slot |-> Cardinality({i \in 1..0 : e.slots[i] = s})]
    BY <2>5 DEF DropOf, Sorted
  <2>7. \A s \in Slot : Cardinality({i \in 1..0 : e.slots[i] = s}) = 0
    <3> TAKE s \in Slot
    <3>1. {i \in 1..0 : e.slots[i] = s} = {}
      OBVIOUS
    <3> QED BY <3>1, FS_EmptySet
  <2> QED BY <2>3, <2>6, <2>7 DEF Nothing
<1>9. refs' = Plus(Nothing, CountOf(S))
  <2>1. PICK O, P : O = One(K[b]) /\ P = CountOf(L)
    OBVIOUS
  <2>2. O \in [Slot -> Nat] /\ P \in [Slot -> Nat]
    BY <1>6, <2>1, OneTyped
  <2>3. refs = Plus(Plus(P, O), CountOf(S))
    BY <1>4, <1>5, <2>1
  <2>4. Minus(refs, O) = Plus(P, CountOf(S))
    BY <1>4, <2>2, <2>3, MinusFacts
  <2>5. Minus(Minus(refs, O), P) = CountOf(S)
    BY <1>4, <2>2, <2>4, MinusFacts
  <2>6. Minus(CountOf(S), Nothing) = CountOf(S) /\ Plus(Nothing, CountOf(S)) = CountOf(S)
    BY <1>4, MinusFacts, PlusFacts
  <2> QED BY <1>2, <1>3, <1>7, <1>8, <2>1, <2>5, <2>6
<1>10. Holds(table', "Empty", <<>>)
  <2>1. New("Empty") = NoTable
    BY DEF New
  <2>2. Holds(New("Empty"), "Empty", <<>>)
    BY NewRight
  <2> QED BY <1>2, <2>1, <2>2
<1>11. CountOf(<<>>) = Nothing
  BY NoChildren DEF Nothing
<1>12. TableInv' /\ KidsOf(table') = <<>> /\ table'.kind = "Empty" /\ copy' = copy
  BY <1>1, <1>2, <1>9, <1>10, <1>11, Replaced
<1>13. Cardinality(DOMAIN K) = 2
  BY <1>2, <1>3, <1>4
<1>14. Promise!AbsCollapse(b)
  <2>1. mode = "tree" /\ table.kind = "Node4" /\ mode' = mode
    BY <1>2
  <2>2. b \in DOMAIN KidsOf(table) /\ Cardinality(DOMAIN KidsOf(table)) = 2
    BY <1>1, <1>3, <1>13
  <2>3. KidsOf(copy)' = KidsOf(copy) /\ KidsOf(table)' = <<>> /\ (table.kind)' = "Empty"
    BY <1>12
  <2> QED BY <2>1, <2>2, <2>3, SameKinds DEF Promise!AbsCollapse
<1> QED BY <1>12, <1>14

\* A count of children that fits the widest kind has a kind.
LEMMA BulkKindFits ==
  ASSUME NEW n \in Nat, n <= Width["Node256"]
  PROVE  BulkKind(n) \in {"Node4", "Node16", "Node48", "Node256"} /\ n <= Width[BulkKind(n)]
<1> DEFINE Fit(i) == n <= Width[Kind[i]] /\ \A j \in 1..i - 1 : n > Width[Kind[j]]
<1>1. /\ Kind[1] = "Node4" /\ Kind[2] = "Node16" /\ Kind[3] = "Node48" /\ Kind[4] = "Node256"
  BY DEF Kind
<1>2. \E i \in 1..4 : Fit(i)
  <2>1. /\ Width["Node4"] \in Nat /\ Width["Node16"] \in Nat /\ Width["Node48"] \in Nat
        /\ Width["Node256"] \in Nat
    BY Widths
  <2>2. CASE n <= Width["Node4"]
    <3>1. Fit(1)
      BY <1>1, <2>2
    <3> QED BY <3>1
  <2>3. CASE n > Width["Node4"] /\ n <= Width["Node16"]
    <3>1. Fit(2)
      BY <1>1, <2>3
    <3> QED BY <3>1
  <2>4. CASE n > Width["Node4"] /\ n > Width["Node16"] /\ n <= Width["Node48"]
    <3>1. Fit(3)
      <4>1. \A j \in 1..3 - 1 : j = 1 \/ j = 2
        OBVIOUS
      <4> QED BY <1>1, <2>4, <4>1
    <3> QED BY <3>1
  <2>5. CASE n > Width["Node4"] /\ n > Width["Node16"] /\ n > Width["Node48"]
    <3>1. Fit(4)
      <4>1. \A j \in 1..4 - 1 : j = 1 \/ j = 2 \/ j = 3
        OBVIOUS
      <4> QED BY <1>1, <2>5, <4>1
    <3> QED BY <3>1
  <2> QED BY <2>1, <2>2, <2>3, <2>4, <2>5
<1>3. BulkKind(n) = Kind[CHOOSE i \in 1..4 : Fit(i)]
  BY DEF BulkKind
<1> HIDE DEF Fit
<1>4. PICK i \in 1..4 : Fit(i) /\ BulkKind(n) = Kind[i]
  BY <1>2, <1>3
<1>5. n <= Width[Kind[i]]
  BY <1>4 DEF Fit
<1>6. i = 1 \/ i = 2 \/ i = 3 \/ i = 4
  BY <1>4
<1> QED BY <1>1, <1>4, <1>5, <1>6

\* The children f in the order of their bytes, as bulk_load_sorted has them.
LEMMA LoadLists ==
  ASSUME NEW f, Children(f), NEW bytes, bytes = InOrder(DOMAIN f),
         NEW es, es = [i \in DOMAIN bytes |-> <<bytes[i], f[bytes[i]]>>]
  PROVE  Lists(es, f) /\ Len(bytes) = Cardinality(DOMAIN f)
<1>1. PICK n \in Nat : n = Cardinality(DOMAIN f)
  BY ByteSets DEF Children
<1>2. ListsBytes(bytes, DOMAIN f)
  BY InOrderRight DEF Children
<1>3. /\ DOMAIN bytes = 1..n /\ \A i \in 1..n : bytes[i] \in DOMAIN f
      /\ \A i, j \in 1..n : i < j => bytes[i] < bytes[j]
      /\ \A b \in DOMAIN f : \E i \in 1..n : bytes[i] = b
      /\ Len(bytes) = n
  BY <1>1, <1>2 DEF ListsBytes
<1>4. PICK kids : kids = [i \in 1..n |-> f[bytes[i]]]
  OBVIOUS
<1>5. es = [i \in 1..n |-> <<bytes[i], kids[i]>>]
  BY <1>3, <1>4
<1>6. /\ Len(es) = n /\ DOMAIN es = 1..n
      /\ \A i \in 1..n : es[i][1] = bytes[i] /\ es[i][2] = kids[i]
  BY <1>5, ListOf
<1>7. /\ \A i \in 1..n : es[i][1] = bytes[i] /\ es[i][2] = f[bytes[i]]
  BY <1>4, <1>6
<1>8. ASSUME NEW i \in 1..n PROVE es[i][1] \in DOMAIN f /\ es[i][2] = f[es[i][1]]
  BY <1>3, <1>7
<1>9. ASSUME NEW i \in 1..n, NEW j \in 1..n, i < j PROVE es[i][1] < es[j][1]
  BY <1>3, <1>7, <1>9
<1>10. ASSUME NEW b \in DOMAIN f PROVE \E i \in 1..n : es[i][1] = b
  <2>1. PICK i \in 1..n : bytes[i] = b
    BY <1>3
  <2> QED BY <1>7, <2>1
<1> QED BY <1>1, <1>3, <1>6, <1>8, <1>9, <1>10, SMTT(30) DEF Lists

\* BulkLoad.
LEMMA BulkLoadStep ==
  ASSUME TableInv, NEW f \in Loads, BulkLoad(f)
  PROVE  TableInv' /\ Promise!AbsLoad(f)
<1>1. PICK K, S, bytes : K = KidsOf(table) /\ S = KidsOf(copy) /\ bytes = InOrder(DOMAIN f)
  OBVIOUS
<1>2. PICK es : es = [i \in DOMAIN bytes |-> <<bytes[i], f[bytes[i]]>>]
  OBVIOUS
<1>3. /\ mode = "tree" /\ table = NoTable /\ table' = Filled(BulkKind(Len(bytes)), es)
      /\ refs' = Plus(refs, CountOf(f)) /\ KeepsCopy /\ mode' = mode
  BY <1>1, <1>2 DEF BulkLoad, CountOf
<1>4. Children(f)
  <2>1. /\ f = [b \in DOMAIN f |-> f[b]] /\ \A b \in DOMAIN f : <<b, f[b]>> \in Byte \X Child
    BY TableAssumption
  <2>2. \A b \in DOMAIN f : b \in Byte /\ f[b] \in Child
    BY <2>1
  <2> QED BY <2>1, <2>2 DEF Children
<1>5. Lists(es, f) /\ Len(bytes) = Cardinality(DOMAIN f)
  BY <1>1, <1>2, <1>4, LoadLists
<1>6. PICK n \in Nat : n = Cardinality(DOMAIN f) /\ n <= Width["Node256"]
  BY <1>4, ByteSets, Widths DEF Children
<1>7. PICK kind \in {"Node4", "Node16", "Node48", "Node256"} : kind = BulkKind(n) /\ n <= Width[kind]
  BY <1>6, BulkKindFits
<1>8. Holds(table', kind, f)
  BY <1>3, <1>4, <1>5, <1>6, <1>7, FilledRight
<1>9. Sound(table) /\ CountOf(S) \in [Slot -> Nat] /\ refs = Plus(CountOf(K), CountOf(S))
  BY <1>1, Now
<1>10. table.kind = "Empty"
  BY <1>3 DEF NoTable
<1>11. K = <<>>
  BY <1>1, <1>9, <1>10, SoundFacts
<1>12. CountOf(f) \in [Slot -> Nat]
  BY <1>4, CountTyped DEF Children
<1>13. refs' = Plus(CountOf(f), CountOf(S))
  <2>1. CountOf(K) = Nothing
    BY <1>11, NoChildren DEF Nothing
  <2>2. refs' = Plus(Plus(Nothing, CountOf(S)), CountOf(f))
    BY <1>3, <1>9, <2>1
  <2>3. Plus(Plus(Nothing, CountOf(S)), CountOf(f)) = Plus(Plus(Nothing, CountOf(f)), CountOf(S))
    BY <1>9, <1>12, OneTyped, PlusFacts
  <2>4. Plus(Nothing, CountOf(f)) = CountOf(f)
    BY <1>12, PlusFacts
  <2> QED BY <2>2, <2>3, <2>4
<1>14. TableInv' /\ KidsOf(table') = f /\ table'.kind = kind /\ copy' = copy
  BY <1>1, <1>3, <1>8, <1>13, Replaced
<1> QED BY <1>1, <1>3, <1>6, <1>7, <1>10, <1>14, SameKinds DEF Promise!AbsLoad

\* A table that is cloned or converted holds what it held, and the empty table stays empty.
LEMMA Copied ==
  ASSUME NEW t, Sound(t), NEW K, K = KidsOf(t)
  PROVE  /\ Holds(CloneOf(t), t.kind, K)
         /\ Holds(Rebuilt(t.kind, Entries(t)), t.kind, K)
<1>1. /\ t.kind \in {"Empty", "Node4", "Node16", "Node48", "Node256"} /\ Holds(t, t.kind, K)
      /\ Children(K) /\ t.n = Cardinality(DOMAIN K) /\ Lists(Entries(t), K)
      /\ t.kind = "Empty" => t = NoTable /\ K = <<>>
      /\ t.kind # "Empty" => t.n <= Width[t.kind]
  BY SoundFacts
<1>2. Holds(Rebuilt(t.kind, Entries(t)), t.kind, K)
  <2>1. CASE t.kind = "Empty"
    <3>1. Rebuilt("Empty", Entries(t)) = NoTable
      BY <1>1, <2>1, RebuiltEmpty
    <3> QED BY <1>1, <2>1, <3>1
  <2>2. CASE t.kind # "Empty"
    <3>1. PICK kind \in {"Node4", "Node16", "Node48", "Node256"} : kind = t.kind
      BY <1>1, <2>2
    <3>2. Cardinality(DOMAIN K) <= Width[kind]
      BY <1>1, <2>2, <3>1
    <3>3. Holds(Rebuilt(kind, Entries(t)), kind, K)
      BY <1>1, <3>2, FilledRight
    <3> QED BY <3>1, <3>3
  <2> QED BY <2>1, <2>2
<1>3. Holds(CloneOf(t), t.kind, K)
  BY <1>1, <1>2 DEF CloneOf
<1> QED BY <1>2, <1>3

\* No table.
LEMMA NoTableSound == Sound(NoTable) /\ KidsOf(NoTable) = <<>> /\ NoTable.kind = "Empty"
<1>1. New("Empty") = NoTable
  BY DEF New
<1>2. Holds(NoTable, "Empty", <<>>)
  BY <1>1, NewRight
<1> QED BY <1>2, SoundWhen

\* CowClone.
LEMMA CowCloneStep ==
  ASSUME TableInv, CowClone
  PROVE  TableInv' /\ Promise!AbsClone
<1>1. PICK K : K = KidsOf(table)
  OBVIOUS
<1>2. /\ mode = "versioned" /\ copy = NoTable /\ table' = CloneOf(table) /\ copy' = table
      /\ refs' = Plus(refs, HeldBy(table)) /\ edits' = edits /\ mode' = mode
  BY DEF CowClone
<1>3. /\ Sound(table) /\ CountOf(K) \in [Slot -> Nat] /\ refs = Plus(CountOf(K), CountOf(KidsOf(copy)))
      /\ mode \in {"tree", "versioned"} /\ edits \in 0..MaxEdits
  BY <1>1, Now
<1>4. HeldBy(table) = CountOf(K) /\ table.kind \in {"Empty", "Node4", "Node16", "Node48", "Node256"}
  BY <1>1, <1>3, SoundFacts
<1>5. Holds(table', table.kind, K)
  BY <1>1, <1>2, <1>3, Copied
<1>6. Sound(table') /\ KidsOf(table') = K /\ table'.kind = table.kind
  BY <1>4, <1>5, SoundWhen
<1>7. refs' = Plus(CountOf(K), CountOf(K))
  <2>1. CountOf(KidsOf(copy)) = Nothing
    BY <1>2, NoTableSound, NoChildren DEF Nothing
  <2>2. Plus(CountOf(K), Nothing) = CountOf(K)
    BY <1>3, PlusFacts
  <2> QED BY <1>2, <1>3, <1>4, <2>1, <2>2
<1>8. Balanced(table', copy', refs')
  BY <1>1, <1>2, <1>3, <1>6, <1>7 DEF Balanced
<1>9. TableInv'
  BY <1>2, <1>3, <1>8, InvMeans
<1> QED BY <1>1, <1>2, <1>6, <1>9 DEF Promise!AbsClone

\* DropCopy.
LEMMA DropCopyStep ==
  ASSUME TableInv, DropCopy
  PROVE  TableInv' /\ Promise!AbsForget
<1>1. PICK K, S : K = KidsOf(table) /\ S = KidsOf(copy)
  OBVIOUS
<1>2. /\ copy' = NoTable /\ edits' = 0 /\ refs' = Minus(refs, DropOf(copy))
      /\ table' = table /\ mode' = mode
  BY DEF DropCopy
<1>3. /\ Sound(table) /\ Sound(copy) /\ CountOf(K) \in [Slot -> Nat] /\ CountOf(S) \in [Slot -> Nat]
      /\ refs = Plus(CountOf(K), CountOf(S)) /\ mode \in {"tree", "versioned"}
  BY <1>1, Now
<1>4. DropOf(copy) = CountOf(S)
  BY <1>1, <1>3, SoundFacts
<1>5. refs' = Plus(CountOf(K), CountOf(<<>>))
  <2>1. refs' = CountOf(K)
    BY <1>2, <1>3, <1>4, MinusFacts
  <2>2. CountOf(<<>>) = Nothing
    BY NoChildren DEF Nothing
  <2> QED BY <1>3, <2>1, <2>2, PlusFacts
<1>6. Sound(copy') /\ KidsOf(copy') = <<>>
  BY <1>2, NoTableSound
<1>7. Balanced(table', copy', refs')
  BY <1>1, <1>2, <1>3, <1>5, <1>6 DEF Balanced
<1>8. edits' \in 0..MaxEdits
  BY <1>2, TableAssumption
<1>9. TableInv'
  BY <1>2, <1>3, <1>7, <1>8, InvMeans
<1> QED BY <1>2, <1>6, <1>9 DEF Promise!AbsForget

\* DropTable.
LEMMA DropTableStep ==
  ASSUME TableInv, DropTable
  PROVE  TableInv' /\ Promise!AbsDrop
<1>1. PICK K, S : K = KidsOf(table) /\ S = KidsOf(copy)
  OBVIOUS
<1>2. /\ table' = NoTable /\ refs' = Minus(refs, DropOf(table))
      /\ mode' \in {"tree", "versioned"} /\ KeepsCopy
  BY DEF DropTable
<1>3. /\ Sound(table) /\ CountOf(K) \in [Slot -> Nat] /\ CountOf(S) \in [Slot -> Nat]
      /\ refs = Plus(CountOf(K), CountOf(S))
  BY <1>1, Now
<1>4. DropOf(table) = CountOf(K)
  BY <1>1, <1>3, SoundFacts
<1>5. refs' = Plus(CountOf(<<>>), CountOf(S))
  <2>1. refs' = CountOf(S)
    BY <1>2, <1>3, <1>4, MinusFacts
  <2>2. CountOf(<<>>) = Nothing
    BY NoChildren DEF Nothing
  <2> QED BY <1>3, <2>1, <2>2, PlusFacts
<1>6. Holds(table', "Empty", <<>>)
  BY <1>2, NewRight DEF New
<1>7. TableInv' /\ KidsOf(table') = <<>> /\ table'.kind = "Empty" /\ copy' = copy
  BY <1>1, <1>2, <1>5, <1>6, Replaced
<1> QED BY <1>2, <1>7 DEF Promise!AbsDrop

\* IntoUnversioned.
LEMMA IntoUnversionedStep ==
  ASSUME TableInv, IntoUnversioned
  PROVE  TableInv' /\ Promise!AbsConvert
<1>1. PICK K, S : K = KidsOf(table) /\ S = KidsOf(copy)
  OBVIOUS
<1>2. /\ mode = "versioned" /\ mode' = "tree" /\ table' = Rebuilt(table.kind, Entries(table))
      /\ refs' = IF table = NoTable THEN refs ELSE Minus(refs, DropOf(Taken(table)))
      /\ KeepsCopy
  BY DEF IntoUnversioned
<1>3. /\ Sound(table) /\ CountOf(K) \in [Slot -> Nat] /\ CountOf(S) \in [Slot -> Nat]
      /\ refs = Plus(CountOf(K), CountOf(S))
  BY <1>1, Now
<1>4. /\ table.kind \in {"Empty", "Node4", "Node16", "Node48", "Node256"} /\ Holds(table, table.kind, K)
      /\ table.kind = "Empty" => table = NoTable
  BY <1>1, <1>3, SoundFacts
<1>5. refs' = Plus(CountOf(K), CountOf(S))
  <2>1. CASE table = NoTable
    BY <1>2, <1>3, <2>1
  <2>2. CASE table # NoTable
    <3>1. table.kind \in {"Node4", "Node16", "Node48", "Node256"}
      BY <1>4, <2>2
    <3>2. DropOf(Taken(table)) = Nothing
      BY <1>4, <3>1, TakenDrops DEF Nothing
    <3>3. refs \in [Slot -> Nat]
      BY <1>3, PlusFacts
    <3>4. Minus(refs, Nothing) = refs
      BY <3>3, MinusFacts
    <3> QED BY <1>2, <1>3, <2>2, <3>2, <3>4
  <2> QED BY <2>1, <2>2
<1>6. Holds(table', table.kind, K)
  BY <1>1, <1>2, <1>3, Copied
<1>7. TableInv' /\ KidsOf(table') = K /\ table'.kind = table.kind /\ copy' = copy
  BY <1>1, <1>2, <1>4, <1>5, <1>6, Replaced
<1> QED BY <1>1, <1>2, <1>7 DEF Promise!AbsConvert

\* IntoUnversionedShared.
LEMMA IntoUnversionedSharedStep ==
  ASSUME TableInv, IntoUnversionedShared
  PROVE  TableInv' /\ Promise!AbsConvert
<1>1. PICK K : K = KidsOf(table)
  OBVIOUS
<1>2. /\ mode = "versioned" /\ mode' = "tree" /\ copy = NoTable /\ copy' = table
      /\ table' = Rebuilt(table.kind, Entries(table))
      /\ refs' = Plus(refs, HeldBy(table)) /\ edits' = edits
  BY DEF IntoUnversionedShared
<1>3. /\ Sound(table) /\ CountOf(K) \in [Slot -> Nat] /\ refs = Plus(CountOf(K), CountOf(KidsOf(copy)))
      /\ edits \in 0..MaxEdits
  BY <1>1, Now
<1>4. HeldBy(table) = CountOf(K) /\ table.kind \in {"Empty", "Node4", "Node16", "Node48", "Node256"}
  BY <1>1, <1>3, SoundFacts
<1>5. Holds(table', table.kind, K)
  BY <1>1, <1>2, <1>3, Copied
<1>6. Sound(table') /\ KidsOf(table') = K /\ table'.kind = table.kind
  BY <1>4, <1>5, SoundWhen
<1>7. refs' = Plus(CountOf(K), CountOf(K))
  <2>1. CountOf(KidsOf(copy)) = Nothing
    BY <1>2, NoTableSound, NoChildren DEF Nothing
  <2>2. Plus(CountOf(K), Nothing) = CountOf(K)
    BY <1>3, PlusFacts
  <2> QED BY <1>2, <1>3, <1>4, <2>1, <2>2
<1>8. Balanced(table', copy', refs')
  BY <1>1, <1>2, <1>3, <1>6, <1>7 DEF Balanced
<1>9. TableInv'
  BY <1>2, <1>3, <1>8, InvMeans
<1> QED BY <1>1, <1>2, <1>6, <1>9 DEF Promise!AbsConvert

\* Every step keeps the invariant and is one of the abstract table's.
LEMMA NextStep ==
  ASSUME TableInv, Next
  PROVE  TableInv' /\ Promise!AbsNext
<1>1. ASSUME NEW p \in Pairs,
             AddChild(p[1], p[2]) \/ AddChildGrow(p[1], p[2]) \/ AddChildGrowVersioned(p[1], p[2])
      PROVE  TableInv' /\ Promise!AbsNext
  <2>1. p[1] \in Byte /\ p[2] \in Child
    BY TableAssumption
  <2>2. TableInv' /\ Promise!AbsAdd(p[1], p[2])
    BY <1>1, <2>1, AddChildStep, AddChildGrowStep, AddChildGrowVersionedStep
  <2> QED BY <2>2 DEF Promise!AbsNext
<1>2. ASSUME NEW b \in Byte, DeleteChild(b) \/ DeleteChildShrink(b) \/ DeleteChildCollapse(b)
      PROVE  TableInv' /\ Promise!AbsNext
  <2>1. TableInv' /\ (Promise!AbsDelete(b) \/ Promise!AbsCollapse(b))
    BY <1>2, DeleteChildStep, DeleteChildShrinkStep, DeleteChildCollapseStep
  <2> QED BY <2>1 DEF Promise!AbsNext
<1>3. ASSUME NEW f \in Loads, BulkLoad(f)
      PROVE  TableInv' /\ Promise!AbsNext
  <2>1. TableInv' /\ Promise!AbsLoad(f)
    BY <1>3, BulkLoadStep
  <2> QED BY <2>1 DEF Promise!AbsNext
<1>4. CASE CowClone
  BY <1>4, CowCloneStep DEF Promise!AbsNext
<1>5. CASE DropCopy
  BY <1>5, DropCopyStep DEF Promise!AbsNext
<1>6. CASE DropTable
  BY <1>6, DropTableStep DEF Promise!AbsNext
<1>7. CASE IntoUnversioned
  BY <1>7, IntoUnversionedStep DEF Promise!AbsNext
<1>8. CASE IntoUnversionedShared
  BY <1>8, IntoUnversionedSharedStep DEF Promise!AbsNext
<1> QED BY <1>1, <1>2, <1>3, <1>4, <1>5, <1>6, <1>7, <1>8 DEF Next

\* There is no table at first.
LEMMA InitInv ==
  ASSUME Init
  PROVE  TableInv /\ Promise!AbsInit
<1>1. /\ table = NoTable /\ copy = NoTable /\ edits = 0 /\ mode \in {"tree", "versioned"}
      /\ refs = Nothing
  BY DEF Init, Nothing
<1>2. /\ Sound(table) /\ Sound(copy) /\ KidsOf(table) = <<>> /\ KidsOf(copy) = <<>>
      /\ table.kind = "Empty"
  BY <1>1, NoTableSound
<1>3. refs = Plus(CountOf(<<>>), CountOf(<<>>))
  <2>1. CountOf(<<>>) = Nothing
    BY NoChildren DEF Nothing
  <2> QED BY <1>1, <2>1, OneTyped, PlusFacts
<1>4. edits \in 0..MaxEdits
  BY <1>1, TableAssumption
<1>5. TableInv
  BY <1>1, <1>2, <1>3, <1>4, InvMeans DEF Balanced
<1> QED BY <1>1, <1>2, <1>5 DEF Promise!AbsInit

-----------------------------------------------------------------------------
(* The theorems *)

\* The invariant: each table, the node's and the snapshot's, is in order and
\* holds some children, and the ledger of references is that of those children,
\* whichever operations of rart/src/mapping were called.
THEOREM TableInvariance == Spec => []TableInv
<1>1. Init => TableInv
  BY InitInv
<1>2. TableInv /\ [Next]_vars => TableInv'
  <2>1. CASE Next
    BY <2>1, NextStep
  <2>2. CASE UNCHANGED vars
    BY <2>2 DEF vars, TableInv
  <2> QED BY <2>1, <2>2
<1> QED BY <1>1, <1>2, PTL DEF Spec

\* The type invariant follows from it.
LEMMA InvTyped == TableInv => TypeOK
<1> SUFFICES ASSUME TableInv PROVE TypeOK
  OBVIOUS
<1>1. PICK K, S : K = KidsOf(table) /\ S = KidsOf(copy)
  OBVIOUS
<1>2. /\ Sound(table) /\ Sound(copy) /\ edits \in 0..MaxEdits /\ mode \in {"tree", "versioned"}
      /\ CountOf(K) \in [Slot -> Nat] /\ CountOf(S) \in [Slot -> Nat]
      /\ refs = Plus(CountOf(K), CountOf(S))
  BY <1>1, Now
<1>3. refs \in [Slot -> Nat]
  BY <1>2, PlusFacts
<1>4. ASSUME NEW t, Sound(t)
      PROVE  t.kind \in ToSet(Kind) \cup {"Empty"} /\ (Sorted(t) => t \in Table)
  <2>1. t.kind \in ToSet(Kind) \cup {"Empty"} /\ Holds(t, t.kind, KidsOf(t))
    BY <1>4 DEF Sound
  <2>2. ASSUME Sorted(t) PROVE t \in Table
    <3>1. PICK kind \in {"Node4", "Node16"} : kind = t.kind
      BY <2>2 DEF Sorted
    <3>2. t \in SlotTable(kind)
      BY <2>1, <3>1 DEF Holds, SortedHolds
    <3> QED BY <3>2 DEF SlotTable, Table
  <2> QED BY <2>1, <2>2
<1>5. table.kind \in ToSet(Kind) \cup {"Empty"} /\ (Sorted(table) => table \in Table)
  BY <1>2, <1>4
<1>6. copy.kind \in ToSet(Kind) \cup {"Empty"} /\ (Sorted(copy) => copy \in Table)
  BY <1>2, <1>4
<1> QED BY <1>2, <1>3, <1>5, <1>6 DEF TypeOK

\* So does what the unsafe blocks rely on.
LEMMA InvSlots == TableInv => SlotsRight
<1> SUFFICES ASSUME TableInv, NEW t \in {table, copy}
             PROVE  /\ Sorted(t) => SortedRight(t)
                    /\ t.kind = "Node48" => IndexedRight(t)
                    /\ t.kind = "Node256" => DirectRight(t)
  BY DEF SlotsRight
<1>1. PICK f : f = KidsOf(t)
  OBVIOUS
<1>2. Sound(t)
  BY Now
<1>3. Holds(t, t.kind, f)
  BY <1>1, <1>2, SoundFacts
<1>4. ASSUME Sorted(t) PROVE SortedRight(t)
  <2>1. PICK kind \in {"Node4", "Node16"} : kind = t.kind
    BY <1>4 DEF Sorted
  <2> QED BY <1>3, <2>1 DEF Holds, SortedHolds
<1>5. ASSUME t.kind = "Node48" PROVE IndexedRight(t)
  BY <1>3, <1>5 DEF Holds, IndexedHolds
<1>6. ASSUME t.kind = "Node256" PROVE DirectRight(t)
  <2>1. Holds(t, "Node256", f)
    BY <1>3, <1>6
  <2>2. Children(f) /\ t = [kind |-> "Node256", slots |-> f, n |-> Cardinality(DOMAIN f)]
    BY <2>1, DirectMeans
  <2>3. t.slots = f /\ t.n = Cardinality(DOMAIN f)
    BY <2>2
  <2> QED BY <2>2, <2>3 DEF DirectRight, Children
<1> QED BY <1>4, <1>5, <1>6

\* The types of the variables.
THEOREM TypeCorrect == Spec => []TypeOK
BY TableInvariance, InvTyped, PTL

\* In a sorted table the first num_children slots and no others are
\* initialised, under ascending keys; in an indexed one every byte in use has a
\* slot of its own and no other slot is live: what the unsafe blocks of the
\* mappings rely on.
THEOREM SlotsAreRight == Spec => []SlotsRight
BY TableInvariance, InvSlots, PTL

\* seek_child finds what iteration yields, under every byte and for every kind,
\* the binary search of a Node16 included.
THEOREM SeeksAreRight == Spec => []SeekRight
<1>1. TableInv => SeekRight
  <2> SUFFICES ASSUME TableInv, NEW t \in {table, copy}, NEW b \in Byte
               PROVE  Seek(t, b) = IF b \in DOMAIN KidsOf(t) THEN KidsOf(t)[b] ELSE Uninit
    BY DEF SeekRight
  <2>1. Sound(t)
    BY Now
  <2> QED BY <2>1, SoundFacts
<1> QED BY <1>1, TableInvariance, PTL

\* However children are moved, cloned and dropped, the tables hold exactly the
\* references that were not yet given back: none is leaked, none dropped twice.
THEOREM RefsAreRight == Spec => []RefsRight
<1>1. TableInv => RefsRight
  <2> SUFFICES ASSUME TableInv PROVE RefsRight
    OBVIOUS
  <2>1. PICK K, S : K = KidsOf(table) /\ S = KidsOf(copy)
    OBVIOUS
  <2>2. Sound(table) /\ Sound(copy) /\ refs = Plus(CountOf(K), CountOf(S))
    BY <2>1, Now
  <2>3. HeldBy(table) = CountOf(K)
    BY <2>1, <2>2, SoundFacts
  <2>4. HeldBy(copy) = CountOf(S)
    BY <2>1, <2>2, SoundFacts
  <2> QED BY <2>2, <2>3, <2>4 DEF RefsRight
<1> QED BY <1>1, TableInvariance, PTL

\* The four tables implement a partial function from bytes to children, whose
\* kind follows the number of children, and leave a snapshot's copy alone.
THEOREM TablesAreChildTables == Spec => ImplementsChildTable
<1>1. Init => Promise!AbsInit
  BY InitInv
<1>2. TableInv /\ [Next]_vars
        => [Promise!AbsNext]_<<KidsOf(table), table.kind, KidsOf(copy), mode>>
  <2>1. CASE Next
    BY <2>1, NextStep
  <2>2. CASE UNCHANGED vars
    BY <2>2 DEF vars
  <2> QED BY <2>1, <2>2
<1> QED BY <1>1, <1>2, TableInvariance, PTL DEF Spec, ImplementsChildTable, Promise!AbsSpec

==============================================================================
