----------------------------- MODULE KeysProofs -----------------------------
(***************************************************************************)
(* That the three key types hold the same bytes, and that the boxed ones   *)
(* are boxed exactly when they must be, for every size of array and every  *)
(* inline size.                                                            *)
(*                                                                         *)
(* The inductive invariant (Holding) says of every key, prefix and builder *)
(* which bytes it holds; each operation maps holders of some bytes to a    *)
(* holder of the bytes the operation should give.                          *)
(***************************************************************************)
EXTENDS Keys, TLAPS, SequenceTheorems

Bytes == Seq(Byte)

ArrayType == [data : [1..ArraySize -> Byte], len : Nat]

BoxType(n) == [inline : [1..n -> Byte], len : Nat, overflow : Bytes \cup {None}]

\* An ArrayKey or ArrPartial that stands for b, whatever lies behind it.
ArrayHolds(k, b) ==
  /\ k \in ArrayType
  /\ k.len = Len(b) /\ Len(b) <= ArraySize
  /\ \A i \in 1..Len(b) : k.data[i] = b[i]

\* An OverflowKey, OverflowPartial or builder of inline size n that stands for b.
BoxHolds(n, k, b) ==
  /\ k \in BoxType(n)
  /\ k.len = Len(b)
  /\ Len(b) <= n => k.overflow = None /\ \A i \in 1..Len(b) : k.inline[i] = b[i]
  /\ Len(b) > n => k.overflow = b

KeyHolds(a, v, o, b) ==
  b \in Bytes /\ ArrayHolds(a, b) /\ v = [data |-> b] /\ BoxHolds(KeyInline, o, b)

PartialHolds(a, v, o, b) ==
  b \in Bytes /\ ArrayHolds(a, b) /\ v = [data |-> b] /\ BoxHolds(PartialInline, o, b)

KeysHolding ==
  /\ array \in [Slot -> ArrayType]
  /\ vector \in [Slot -> [data : Bytes]]
  /\ overflow \in [Slot -> BoxType(KeyInline)]
  /\ bytes \in [Slot -> Bytes]
  /\ \A s \in Slot : KeyHolds(array[s], vector[s], overflow[s], bytes[s])

PartialHolding == PartialHolds(arrPartial, vecPartial, ovfPartial, fragment)

BuilderHolding == pushed \in Bytes /\ Len(pushed) <= ArraySize /\ BoxHolds(KeyInline, builder, pushed)

Holding == KeysHolding /\ PartialHolding /\ BuilderHolding

-----------------------------------------------------------------------------
(* Slices and arrays *)

LEMMA Sizes == ArraySize \in Nat /\ KeyInline \in Nat /\ PartialInline \in Nat
BY SizesAssumption

\* The part of some bytes between two positions.
LEMMA SliceOf ==
  ASSUME NEW b \in Bytes, NEW o \in Nat, NEW e \in Nat, o <= e, e <= Len(b)
  PROVE  /\ Range0(b, o, e) \in Bytes
         /\ Len(Range0(b, o, e)) = e - o
         /\ \A i \in 1..(e - o) : Range0(b, o, e)[i] = b[o + i]
<1>1. \A i \in (o + 1)..e : b[i] \in Byte
  BY LenProperties DEF Bytes
<1>2. /\ SubSeq(b, o + 1, e) \in Seq(Byte)
      /\ Len(SubSeq(b, o + 1, e)) = IF o + 1 <= e THEN e - (o + 1) + 1 ELSE 0
      /\ \A i \in 1..(e - (o + 1) + 1) : SubSeq(b, o + 1, e)[i] = b[(o + 1) + i - 1]
  <2>1. o + 1 \in Int /\ e \in Int
    OBVIOUS
  <2> QED BY <1>1, <2>1, SubSeqProperties
<1> QED BY <1>2 DEF Range0, Bytes

LEMMA RestOf ==
  ASSUME NEW b \in Bytes, NEW d \in Nat, d <= Len(b)
  PROVE  Len(Range0(b, d, Len(b))) = Len(b) - d
<1>1. Len(b) \in Nat /\ Len(b) <= Len(b)
  BY LenProperties DEF Bytes
<1> QED BY <1>1, SliceOf

\* Two sequences of bytes of one length that agree everywhere are one.
LEMMA SameSequence ==
  ASSUME NEW b \in Bytes, NEW c \in Bytes, Len(b) = Len(c), \A i \in 1..Len(b) : b[i] = c[i]
  PROVE  b = c
BY SeqEqual DEF Bytes

\* Cutting the array and cutting the bytes it holds is the same.
LEMMA ArrayCut ==
  ASSUME NEW n \in Nat, NEW data \in [1..n -> Byte], NEW b \in Bytes, Len(b) <= n,
         \A i \in 1..Len(b) : data[i] = b[i],
         NEW o \in Nat, NEW e \in Nat, o <= e, e <= Len(b)
  PROVE  Range0(data, o, e) = Range0(b, o, e)
<1>1. data \in Bytes /\ Len(data) = n
  BY DEF Bytes
<1>2. Len(b) \in Nat
  BY LenProperties DEF Bytes
<1>3. /\ Range0(data, o, e) \in Bytes
      /\ Len(Range0(data, o, e)) = e - o
      /\ \A i \in 1..(e - o) : Range0(data, o, e)[i] = data[o + i]
  <2>1. e <= Len(data)
    BY <1>1, <1>2
  <2> QED BY <1>1, <2>1, SliceOf
<1>4. /\ Range0(b, o, e) \in Bytes
      /\ Len(Range0(b, o, e)) = e - o
      /\ \A i \in 1..(e - o) : Range0(b, o, e)[i] = b[o + i]
  BY SliceOf
<1>5. \A i \in 1..(e - o) : data[o + i] = b[o + i]
  BY <1>2
<1> QED BY <1>3, <1>4, <1>5, SameSequence

LEMMA ArrayUsed ==
  ASSUME NEW n \in Nat, NEW data \in [1..n -> Byte], NEW b \in Bytes, Len(b) <= n,
         \A i \in 1..Len(b) : data[i] = b[i]
  PROVE  Used(data, Len(b)) = b
<1>1. Len(b) \in Nat
  BY LenProperties DEF Bytes
<1>2. Range0(data, 0, Len(b)) = Range0(b, 0, Len(b))
  BY <1>1, ArrayCut
<1>3. SubSeq(b, 1, Len(b)) = b
  BY SubSeqFull DEF Bytes
<1> QED BY <1>2, <1>3 DEF Range0, Used

\* An array filled from some bytes holds them.
LEMMA FilledHolds ==
  ASSUME NEW n \in Nat, NEW b \in Bytes
  PROVE  /\ Filled(n, b) \in [1..n -> Byte]
         /\ Len(b) <= n => \A i \in 1..Len(b) : Filled(n, b)[i] = b[i]
<1>1. Len(b) \in Nat /\ \A i \in 1..Len(b) : b[i] \in Byte
  BY LenProperties DEF Bytes
<1>2. 0 \in Byte
  BY EncodingAssumption
<1> QED BY <1>1, <1>2 DEF Filled

-----------------------------------------------------------------------------
(* Arrays *)

LEMMA ArrayNewHolds ==
  ASSUME NEW b \in Bytes, Len(b) <= ArraySize
  PROVE  /\ ArrayHolds(ArrayNew(b), b)
         /\ ArrayHolds(ArrPartialNew(b), b)
<1>1. Len(b) \in Nat
  BY LenProperties DEF Bytes
<1> QED BY <1>1, Sizes, FilledHolds DEF ArrayHolds, ArrayType, ArrayNew, ArrPartialNew

LEMMA ArraySliceIs ==
  ASSUME NEW k, NEW b \in Bytes, ArrayHolds(k, b)
  PROVE  ArraySlice(k) = b
BY Sizes, ArrayUsed DEF ArrayHolds, ArrayType, ArraySlice

LEMMA ArrayCutHolds ==
  ASSUME NEW k, NEW b \in Bytes, ArrayHolds(k, b),
         NEW o \in Nat, NEW e \in Nat, o <= e, e <= Len(b)
  PROVE  ArrayHolds(ArrPartialNew(Range0(k.data, o, e)), Range0(b, o, e))
<1>1. Len(b) \in Nat
  BY LenProperties DEF Bytes
<1>2. Range0(k.data, o, e) = Range0(b, o, e)
  BY Sizes, ArrayCut DEF ArrayHolds, ArrayType
<1>3. Range0(b, o, e) \in Bytes /\ Len(Range0(b, o, e)) = e - o
  BY SliceOf
<1>4. e - o <= ArraySize
  BY <1>1, Sizes DEF ArrayHolds
<1> QED BY <1>2, <1>3, <1>4, ArrayNewHolds

LEMMA ArrayTruncateHolds ==
  ASSUME NEW k, NEW b \in Bytes, ArrayHolds(k, b), NEW d \in Nat, d <= Len(b)
  PROVE  ArrayHolds(ArrayTruncate(k, d), Range0(b, 0, d))
<1>1. Len(b) \in Nat
  BY LenProperties DEF Bytes
<1>2. /\ Range0(b, 0, d) \in Bytes
      /\ Len(Range0(b, 0, d)) = d
      /\ \A i \in 1..d : Range0(b, 0, d)[i] = b[i]
  <2>1. 0 \in Nat /\ 0 <= d
    OBVIOUS
  <2>2. /\ Range0(b, 0, d) \in Bytes
        /\ Len(Range0(b, 0, d)) = d - 0
        /\ \A i \in 1..(d - 0) : Range0(b, 0, d)[i] = b[0 + i]
    BY <2>1, SliceOf
  <2>3. \A i \in 1..d : 0 + i = i
    OBVIOUS
  <2> QED BY <2>2, <2>3
<1>3. k \in [data : [1..ArraySize -> Byte], len : Nat]
  BY DEF ArrayHolds, ArrayType
<1>4. ArrayTruncate(k, d) \in ArrayType /\ ArrayTruncate(k, d).len = d
      /\ ArrayTruncate(k, d).data = k.data
  BY <1>3 DEF ArrayType, ArrayTruncate
<1>5. d <= ArraySize /\ \A i \in 1..d : k.data[i] = b[i]
  BY <1>1, Sizes DEF ArrayHolds
<1> QED BY <1>2, <1>4, <1>5 DEF ArrayHolds

\* Joining, for keys and for prefixes.
LEMMA ArrayJoinHolds ==
  ASSUME NEW k, NEW b \in Bytes, ArrayHolds(k, b), NEW p, NEW c \in Bytes, ArrayHolds(p, c),
         Len(b) + Len(c) <= ArraySize
  PROVE  /\ ArrayHolds(ArrayExtend(k, p), b \o c)
         /\ ArrayHolds(ArrPartialExtended(k, p), b \o c)
<1>1. b \o c \in Bytes /\ Len(b \o c) = Len(b) + Len(c)
  BY ConcatProperties DEF Bytes
<1>2. ArrayHolds(ArrayNew(b \o c), b \o c)
  BY <1>1, ArrayNewHolds
<1>3. ArraySlice(k) = b /\ ArraySlice(p) = c
  BY ArraySliceIs
<1>4. k.len = Len(b) /\ p.len = Len(c)
  BY DEF ArrayHolds
<1>5. ArrayExtend(k, p) = ArrayNew(b \o c) /\ ArrPartialExtended(k, p) = ArrayNew(b \o c)
  BY <1>1, <1>3, <1>4 DEF ArrayExtend, ArrPartialExtended, ArrayNew
<1> QED BY <1>2, <1>5

\* A string and the zero behind it.
LEMMA ArrayStringHolds ==
  ASSUME NEW b \in Bytes, Len(b) < ArraySize
  PROVE  /\ Append(b, 0) \in Bytes
         /\ ArrayHolds(ArrayFromString(b), Append(b, 0))
         /\ ArrayHolds(ArrPartialKey(b), Append(b, 0))
<1>1. Len(b) \in Nat
  BY LenProperties DEF Bytes
<1>2. 0 \in Byte
  BY EncodingAssumption
<1>3. /\ Append(b, 0) \in Bytes
      /\ Len(Append(b, 0)) = Len(b) + 1
      /\ \A i \in 1..Len(b) : Append(b, 0)[i] = b[i]
      /\ Append(b, 0)[Len(b) + 1] = 0
  BY <1>2, AppendProperties DEF Bytes
<1>4. Filled(ArraySize, b) \in [1..ArraySize -> Byte]
  BY Sizes, FilledHolds
<1>5. \A i \in 1..(Len(b) + 1) : Filled(ArraySize, b)[i] = Append(b, 0)[i]
  BY <1>1, <1>3, Sizes DEF Filled
<1> QED
  BY <1>1, <1>3, <1>4, <1>5, Sizes DEF ArrayHolds, ArrayType, ArrayFromString, ArrPartialKey

-----------------------------------------------------------------------------
(* Inline and boxed storage *)

LEMMA NoneIsNoBytes == \A b \in Bytes : b # None
BY NoneAssumption DEF Bytes

LEMMA BoxNewHolds ==
  ASSUME NEW n \in Nat, NEW b \in Bytes
  PROVE  BoxHolds(n, IF Len(b) <= n THEN Inline(n, b) ELSE Boxed(n, b), b)
<1>1. Len(b) \in Nat
  BY LenProperties DEF Bytes
<1>2. <<>> \in Bytes
  BY DEF Bytes
<1>3. /\ Filled(n, b) \in [1..n -> Byte] /\ Filled(n, <<>>) \in [1..n -> Byte]
      /\ Len(b) <= n => \A i \in 1..Len(b) : Filled(n, b)[i] = b[i]
  BY <1>2, FilledHolds
<1>4. CASE Len(b) <= n
  <2>1. BoxHolds(n, Inline(n, b), b)
    BY <1>1, <1>3, <1>4 DEF BoxHolds, BoxType, Inline
  <2> QED BY <1>4, <2>1
<1>5. CASE Len(b) > n
  <2>1. BoxHolds(n, Boxed(n, b), b)
    BY <1>1, <1>3, <1>5 DEF BoxHolds, BoxType, Boxed
  <2> QED BY <1>1, <1>5, <2>1
<1> QED BY <1>1, <1>4, <1>5

LEMMA OverflowNewHolds ==
  ASSUME NEW b \in Bytes
  PROVE  /\ BoxHolds(KeyInline, OverflowNew(b), b)
         /\ BoxHolds(PartialInline, OvfPartialNew(b), b)
BY Sizes, BoxNewHolds DEF OverflowNew, OvfPartialNew

LEMMA BoxDataIs ==
  ASSUME NEW n \in Nat, NEW k, NEW b \in Bytes, BoxHolds(n, k, b)
  PROVE  (IF k.len <= n THEN Used(k.inline, k.len) ELSE k.overflow) = b
<1>1. Len(b) \in Nat
  BY LenProperties DEF Bytes
<1>2. CASE Len(b) <= n
  BY <1>1, <1>2, ArrayUsed DEF BoxHolds, BoxType
<1>3. CASE Len(b) > n
  BY <1>1, <1>3 DEF BoxHolds
<1> QED BY <1>1, <1>2, <1>3

LEMMA OverflowDataIs ==
  ASSUME NEW k, NEW b \in Bytes
  PROVE  /\ BoxHolds(KeyInline, k, b) => OverflowData(k) = b
         /\ BoxHolds(PartialInline, k, b) => OvfPartialData(k) = b
BY Sizes, BoxDataIs DEF OverflowData, OvfPartialData

\* Whether a builder is boxed says whether its bytes are.
LEMMA BuilderDataIs ==
  ASSUME NEW k, NEW b \in Bytes, BoxHolds(KeyInline, k, b)
  PROVE  /\ BuilderData(k) = b
         /\ k.overflow = None <=> Len(b) <= KeyInline
<1>1. Len(b) \in Nat
  BY LenProperties DEF Bytes
<1>2. k.overflow = None <=> Len(b) <= KeyInline
  BY <1>1, Sizes, NoneIsNoBytes DEF BoxHolds
<1>3. (IF k.len <= KeyInline THEN Used(k.inline, k.len) ELSE k.overflow) = b
  BY Sizes, BoxDataIs
<1> QED BY <1>2, <1>3 DEF BuilderData, BoxHolds

\* push: in place, into the box, or from the inline bytes to a box.
LEMMA PushHolds ==
  ASSUME NEW k, NEW b \in Bytes, BoxHolds(KeyInline, k, b), NEW x \in Byte
  PROVE  BoxHolds(KeyInline, BuilderPush(k, x), Append(b, x))
<1> DEFINE c == Append(b, x)
<1>1. Len(b) \in Nat
  BY LenProperties DEF Bytes
<1>2. /\ c \in Bytes /\ Len(c) = Len(b) + 1
      /\ \A i \in 1..Len(b) : c[i] = b[i]
      /\ c[Len(b) + 1] = x
  BY AppendProperties DEF Bytes
<1>3. k.overflow = None <=> Len(b) <= KeyInline
  BY BuilderDataIs
<1>4. /\ k \in [inline : [1..KeyInline -> Byte], len : Nat, overflow : Bytes \cup {None}]
      /\ k.len = Len(b)
      /\ Len(b) <= KeyInline => \A i \in 1..Len(b) : k.inline[i] = b[i]
      /\ Len(b) > KeyInline => k.overflow = b
  BY DEF BoxHolds, BoxType
<1>5. CASE Len(b) > KeyInline
  <2>1. BuilderPush(k, x) = [k EXCEPT !.overflow = Append(@, x), !.len = @ + 1]
    BY <1>1, <1>3, <1>5, Sizes DEF BuilderPush
  <2>2. BuilderPush(k, x) = [inline |-> k.inline, len |-> Len(c), overflow |-> c]
    BY <1>2, <1>4, <1>5, <2>1
  <2> QED BY <1>1, <1>2, <1>4, <1>5, <2>2, Sizes DEF BoxHolds, BoxType
<1>6. CASE Len(b) < KeyInline
  <2>1. k.overflow = None
    BY <1>1, <1>3, <1>6, Sizes
  <2>2. BuilderPush(k, x) = [k EXCEPT !.inline[k.len + 1] = x, !.len = @ + 1]
    BY <1>4, <1>6, <2>1 DEF BuilderPush
  <2>3. BuilderPush(k, x) =
          [inline |-> [k.inline EXCEPT ![Len(b) + 1] = x], len |-> Len(c), overflow |-> None]
    BY <1>2, <1>4, <2>1, <2>2
  <2>4. /\ [k.inline EXCEPT ![Len(b) + 1] = x] \in [1..KeyInline -> Byte]
        /\ \A i \in 1..Len(c) : [k.inline EXCEPT ![Len(b) + 1] = x][i] = c[i]
    BY <1>1, <1>2, <1>4, <1>6, Sizes
  <2> QED BY <1>1, <1>2, <1>6, <2>3, <2>4, Sizes DEF BoxHolds, BoxType
<1>7. CASE Len(b) = KeyInline
  <2>1. k.overflow = None
    BY <1>1, <1>3, <1>7, Sizes
  <2>2. BuilderPush(k, x) = [k EXCEPT !.overflow = Append(Used(k.inline, k.len), x), !.len = @ + 1]
    BY <1>1, <1>4, <1>7, <2>1, Sizes DEF BuilderPush
  <2>3. Used(k.inline, k.len) = b
    BY <2>1, BuilderDataIs DEF BuilderData
  <2>4. BuilderPush(k, x) = [inline |-> k.inline, len |-> Len(c), overflow |-> c]
    BY <1>2, <1>4, <2>2, <2>3
  <2> QED BY <1>1, <1>2, <1>4, <1>7, <2>4, Sizes DEF BoxHolds, BoxType
<1> QED BY <1>1, <1>5, <1>6, <1>7, Sizes

\* extend_from_slice: the same three ways.
LEMMA ExtendHolds ==
  ASSUME NEW k, NEW b \in Bytes, BoxHolds(KeyInline, k, b), NEW s \in Bytes
  PROVE  BoxHolds(KeyInline, BuilderExtend(k, s), b \o s)
<1> DEFINE c == b \o s
<1>1. Len(b) \in Nat /\ Len(s) \in Nat /\ \A i \in 1..Len(s) : s[i] \in Byte
  BY LenProperties DEF Bytes
<1>2. /\ c \in Bytes /\ Len(c) = Len(b) + Len(s)
      /\ \A i \in 1..(Len(b) + Len(s)) : c[i] = IF i <= Len(b) THEN b[i] ELSE s[i - Len(b)]
  BY ConcatProperties DEF Bytes
<1>3. k.overflow = None <=> Len(b) <= KeyInline
  BY BuilderDataIs
<1>4. /\ k \in [inline : [1..KeyInline -> Byte], len : Nat, overflow : Bytes \cup {None}]
      /\ k.len = Len(b)
      /\ Len(b) <= KeyInline => \A i \in 1..Len(b) : k.inline[i] = b[i]
      /\ Len(b) > KeyInline => k.overflow = b
  BY DEF BoxHolds, BoxType
<1>5. CASE Len(b) > KeyInline
  <2>1. BuilderExtend(k, s) = [k EXCEPT !.overflow = @ \o s, !.len = @ + Len(s)]
    BY <1>1, <1>3, <1>5, Sizes DEF BuilderExtend
  <2>2. BuilderExtend(k, s) = [inline |-> k.inline, len |-> Len(c), overflow |-> c]
    BY <1>2, <1>4, <1>5, <2>1
  <2> QED BY <1>1, <1>2, <1>4, <1>5, <2>2, Sizes DEF BoxHolds, BoxType
<1>6. CASE Len(b) + Len(s) <= KeyInline
  <2> DEFINE inline == [i \in 1..KeyInline |->
                          IF Len(b) < i /\ i <= Len(b) + Len(s) THEN s[i - Len(b)] ELSE k.inline[i]]
  <2>1. k.overflow = None
    BY <1>1, <1>3, <1>6, Sizes
  <2>2. BuilderExtend(k, s) =
          [k EXCEPT !.inline = [i \in 1..KeyInline |->
                                  IF k.len < i /\ i <= k.len + Len(s) THEN s[i - k.len] ELSE @[i]],
                    !.len = @ + Len(s)]
    BY <1>4, <1>6, <2>1 DEF BuilderExtend
  <2>3. BuilderExtend(k, s) = [inline |-> inline, len |-> Len(c), overflow |-> None]
    <3>1. inline = [i \in 1..KeyInline |->
                      IF k.len < i /\ i <= k.len + Len(s) THEN s[i - k.len] ELSE k.inline[i]]
      BY <1>4
    <3> HIDE DEF inline
    <3>2. BuilderExtend(k, s) = [k EXCEPT !.inline = inline, !.len = @ + Len(s)]
      BY <1>4, <2>2, <3>1
    <3> QED BY <1>2, <1>4, <2>1, <3>2
  <2>4. inline \in [1..KeyInline -> Byte]
    BY <1>1, <1>4, Sizes
  <2>5. \A i \in 1..Len(c) : inline[i] = c[i]
    BY <1>1, <1>2, <1>4, <1>6, Sizes
  <2> HIDE DEF inline
  <2> QED BY <1>1, <1>2, <1>6, <2>3, <2>4, <2>5, Sizes DEF BoxHolds, BoxType
<1>7. CASE Len(b) <= KeyInline /\ Len(b) + Len(s) > KeyInline
  <2>1. k.overflow = None
    BY <1>3, <1>7
  <2>2. BuilderExtend(k, s) = [k EXCEPT !.overflow = Used(k.inline, k.len) \o s, !.len = @ + Len(s)]
    BY <1>1, <1>4, <1>7, <2>1, Sizes DEF BuilderExtend
  <2>3. Used(k.inline, k.len) = b
    BY <2>1, BuilderDataIs DEF BuilderData
  <2>4. BuilderExtend(k, s) = [inline |-> k.inline, len |-> Len(c), overflow |-> c]
    BY <1>2, <1>4, <2>2, <2>3
  <2> QED BY <1>1, <1>2, <1>4, <1>7, <2>4, Sizes DEF BoxHolds, BoxType
<1> QED BY <1>1, <1>5, <1>6, <1>7, Sizes

\* finish: a key, boxed exactly when the bytes are too many.
LEMMA FinishHolds ==
  ASSUME NEW k, NEW b \in Bytes, BoxHolds(KeyInline, k, b)
  PROVE  BoxHolds(KeyInline, BuilderFinish(k), b)
<1>1. Len(b) \in Nat
  BY LenProperties DEF Bytes
<1>2. k.overflow = None <=> Len(b) <= KeyInline
  BY BuilderDataIs
<1>3. CASE k.overflow = None
  BY <1>3 DEF BuilderFinish
<1>4. CASE k.overflow # None
  <2>1. Len(b) > KeyInline
    BY <1>1, <1>2, <1>4, Sizes
  <2>2. BuilderFinish(k) = Boxed(KeyInline, b)
    BY <1>4, <2>1 DEF BuilderFinish, BoxHolds
  <2> QED BY <1>1, <2>1, <2>2, Sizes, BoxNewHolds
<1> QED BY <1>3, <1>4

-----------------------------------------------------------------------------
(* Every operation maps holders of some bytes to a holder of their result. *)

LEMMA NewKeyHolds ==
  ASSUME NEW b \in Bytes, Len(b) <= ArraySize
  PROVE  KeyHolds(ArrayNew(b), VectorNew(b), OverflowNew(b), b)
BY ArrayNewHolds, OverflowNewHolds DEF KeyHolds, VectorNew

LEMMA StringHolds ==
  ASSUME NEW b \in Bytes, Len(b) < ArraySize
  PROVE  /\ KeyHolds(ArrayFromString(b), VectorFromString(b), OverflowFromString(b), Append(b, 0))
         /\ PartialHolds(ArrPartialKey(b), VecPartialKey(b), OvfPartialKey(b), Append(b, 0))
BY ArrayStringHolds, OverflowNewHolds
   DEF KeyHolds, PartialHolds, VectorFromString, OverflowFromString, VecPartialKey, OvfPartialKey

LEMMA ExtendKeyHolds ==
  ASSUME NEW a, NEW v, NEW o, NEW b, KeyHolds(a, v, o, b),
         NEW p, NEW q, NEW r, NEW c, PartialHolds(p, q, r, c), Len(b) + Len(c) <= ArraySize
  PROVE  KeyHolds(ArrayExtend(a, p), VectorExtend(v, q), OverflowExtend(o, r), b \o c)
<1>1. b \in Bytes /\ c \in Bytes /\ b \o c \in Bytes
  BY ConcatProperties DEF KeyHolds, PartialHolds, Bytes
<1>2. ArrayHolds(ArrayExtend(a, p), b \o c)
  BY <1>1, ArrayJoinHolds DEF KeyHolds, PartialHolds
<1>3. VectorExtend(v, q) = [data |-> b \o c]
  BY DEF KeyHolds, PartialHolds, VectorExtend
<1>4. OverflowExtend(o, r) = OverflowNew(b \o c)
  BY <1>1, OverflowDataIs DEF KeyHolds, PartialHolds, OverflowExtend
<1> QED BY <1>1, <1>2, <1>3, <1>4, OverflowNewHolds DEF KeyHolds

LEMMA TruncateHolds ==
  ASSUME NEW a, NEW v, NEW o, NEW b, KeyHolds(a, v, o, b), NEW d \in Nat, d <= Len(b)
  PROVE  KeyHolds(ArrayTruncate(a, d), VectorTruncate(v, d), OverflowTruncate(o, d), Range0(b, 0, d))
<1>1. b \in Bytes /\ Range0(b, 0, d) \in Bytes
  BY SliceOf DEF KeyHolds
<1>2. ArrayHolds(ArrayTruncate(a, d), Range0(b, 0, d))
  BY <1>1, ArrayTruncateHolds DEF KeyHolds
<1>3. VectorTruncate(v, d) = [data |-> Range0(b, 0, d)]
  BY DEF KeyHolds, VectorTruncate
<1>4. OverflowTruncate(o, d) = OverflowNew(Range0(b, 0, d))
  BY <1>1, OverflowDataIs DEF KeyHolds, OverflowTruncate
<1> QED BY <1>1, <1>2, <1>3, <1>4, OverflowNewHolds DEF KeyHolds

LEMMA FromPartialHolds ==
  ASSUME NEW a, NEW v, NEW o, NEW b, PartialHolds(a, v, o, b)
  PROVE  KeyHolds(ArrayFromPartial(a), VectorFromPartial(v), OverflowFromPartial(o), b)
<1>1. b \in Bytes /\ ArraySlice(a) = b /\ a.len = Len(b) /\ Len(b) <= ArraySize
  BY ArraySliceIs DEF PartialHolds, ArrayHolds
<1>2. ArrayFromPartial(a) = ArrayNew(b)
  BY <1>1 DEF ArrayFromPartial, ArrayNew
<1>3. VectorFromPartial(v) = VectorNew(b)
  BY DEF PartialHolds, VectorFromPartial, VectorNew
<1>4. OverflowFromPartial(o) = OverflowNew(b)
  BY <1>1, OverflowDataIs DEF PartialHolds, OverflowFromPartial
<1> QED BY <1>1, <1>2, <1>3, <1>4, NewKeyHolds

LEMMA ToPartialHolds ==
  ASSUME NEW a, NEW v, NEW o, NEW b, KeyHolds(a, v, o, b), NEW d \in Nat, d <= Len(b)
  PROVE  PartialHolds(ArrayToPartial(a, d), VectorToPartial(v, d), OverflowToPartial(o, d),
                      Range0(b, d, Len(b)))
<1>1. b \in Bytes /\ Len(b) \in Nat /\ Range0(b, d, Len(b)) \in Bytes
  <2>1. b \in Bytes /\ Len(b) \in Nat
    BY LenProperties DEF KeyHolds, Bytes
  <2> QED BY <2>1, SliceOf
<1>2. a.len = Len(b) /\ o.len = Len(b)
  BY DEF KeyHolds, ArrayHolds, BoxHolds
<1>3. ArrayHolds(ArrayToPartial(a, d), Range0(b, d, Len(b)))
  BY <1>1, <1>2, ArrayCutHolds DEF KeyHolds, ArrayToPartial
<1>4. VectorToPartial(v, d) = [data |-> Range0(b, d, Len(b))]
  BY DEF KeyHolds, VectorToPartial, VecPartialNew
<1>5. OverflowToPartial(o, d) = OvfPartialNew(Range0(b, d, Len(b)))
  BY <1>1, <1>2, OverflowDataIs DEF KeyHolds, OverflowToPartial
<1> QED BY <1>1, <1>3, <1>4, <1>5, OverflowNewHolds DEF PartialHolds

\* partial_before, partial_from and partial_after cut between two positions.
LEMMA CutPartialHolds ==
  ASSUME NEW a, NEW v, NEW p, NEW b, PartialHolds(a, v, p, b),
         NEW o \in Nat, NEW e \in Nat, o <= e, e <= Len(b)
  PROVE  PartialHolds(ArrPartialNew(Range0(a.data, o, e)), VecPartialNew(Range0(v.data, o, e)),
                      OvfPartialNew(Range0(OvfPartialData(p), o, e)), Range0(b, o, e))
<1>1. b \in Bytes /\ Range0(b, o, e) \in Bytes
  BY SliceOf DEF PartialHolds
<1>2. ArrayHolds(ArrPartialNew(Range0(a.data, o, e)), Range0(b, o, e))
  BY <1>1, ArrayCutHolds DEF PartialHolds
<1>3. VecPartialNew(Range0(v.data, o, e)) = [data |-> Range0(b, o, e)]
  BY DEF PartialHolds, VecPartialNew
<1>4. OvfPartialData(p) = b
  BY <1>1, OverflowDataIs DEF PartialHolds
<1> QED BY <1>1, <1>2, <1>3, <1>4, OverflowNewHolds DEF PartialHolds

LEMMA JoinPartialHolds ==
  ASSUME NEW a, NEW v, NEW o, NEW b, PartialHolds(a, v, o, b),
         NEW p, NEW q, NEW r, NEW c, PartialHolds(p, q, r, c), Len(b) + Len(c) <= ArraySize
  PROVE  PartialHolds(ArrPartialExtended(a, p), VecPartialExtended(v, q), OvfPartialExtended(o, r),
                      b \o c)
<1>1. b \in Bytes /\ c \in Bytes /\ b \o c \in Bytes
  BY ConcatProperties DEF PartialHolds, Bytes
<1>2. ArrayHolds(ArrPartialExtended(a, p), b \o c)
  BY <1>1, ArrayJoinHolds DEF PartialHolds
<1>3. VecPartialExtended(v, q) = [data |-> b \o c]
  BY DEF PartialHolds, VecPartialExtended
<1>4. OvfPartialExtended(o, r) = OvfPartialNew(b \o c)
  BY <1>1, OverflowDataIs DEF PartialHolds, OvfPartialExtended
<1> QED BY <1>1, <1>2, <1>3, <1>4, OverflowNewHolds DEF PartialHolds

-----------------------------------------------------------------------------
(* The inductive invariant *)

LEMMA SetKeyHolding ==
  ASSUME KeysHolding, NEW s \in Slot,
         NEW a, NEW v, NEW o, NEW b, KeyHolds(a, v, o, b), NEW x, SetKey(s, a, v, o, b, x)
  PROVE  KeysHolding'
<1>1. a \in ArrayType /\ v \in [data : Bytes] /\ o \in BoxType(KeyInline) /\ b \in Bytes
  BY DEF KeyHolds, ArrayHolds, BoxHolds
<1>2. /\ array' = [array EXCEPT ![s] = a] /\ vector' = [vector EXCEPT ![s] = v]
      /\ overflow' = [overflow EXCEPT ![s] = o] /\ bytes' = [bytes EXCEPT ![s] = b]
  BY DEF SetKey
<1>3. /\ array' \in [Slot -> ArrayType] /\ vector' \in [Slot -> [data : Bytes]]
      /\ overflow' \in [Slot -> BoxType(KeyInline)] /\ bytes' \in [Slot -> Bytes]
  BY <1>1, <1>2 DEF KeysHolding
<1>4. ASSUME NEW t \in Slot
      PROVE  KeyHolds(array'[t], vector'[t], overflow'[t], bytes'[t])
  <2>1. CASE t = s
    BY <1>2, <2>1 DEF KeysHolding
  <2>2. CASE t # s
    <3>1. array'[t] = array[t] /\ vector'[t] = vector[t] /\ overflow'[t] = overflow[t]
          /\ bytes'[t] = bytes[t]
      BY <1>2, <2>2 DEF KeysHolding
    <3> QED BY <3>1 DEF KeysHolding
  <2> QED BY <2>1, <2>2
<1> QED BY <1>3, <1>4 DEF KeysHolding

LEMMA SetPartialHolding ==
  ASSUME NEW a, NEW v, NEW o, NEW b, PartialHolds(a, v, o, b), SetPartial(a, v, o, b)
  PROVE  PartialHolding'
BY DEF SetPartial, PartialHolding

LEMMA Untouched ==
  /\ KeysHolding /\ UNCHANGED keys => KeysHolding'
  /\ PartialHolding /\ UNCHANGED partials => PartialHolding'
  /\ BuilderHolding /\ UNCHANGED built => BuilderHolding'
BY DEF KeysHolding, PartialHolding, BuilderHolding, keys, partials, built

LEMMA InitHolding == Init => Holding
<1> SUFFICES ASSUME Init PROVE Holding
  OBVIOUS
<1>1. <<>> \in Bytes /\ Len(<<>>) = 0 /\ 0 <= ArraySize /\ 0 <= KeyInline
  BY Sizes DEF Bytes
<1>2. KeyHolds(ArrayNew(<<>>), VectorNew(<<>>), OverflowNew(<<>>), <<>>)
  BY <1>1, NewKeyHolds
<1>3. KeysHolding
  <2>1. /\ ArrayNew(<<>>) \in ArrayType /\ VectorNew(<<>>) \in [data : Bytes]
        /\ OverflowNew(<<>>) \in BoxType(KeyInline)
    BY <1>1, <1>2 DEF KeyHolds, ArrayHolds, BoxHolds
  <2> QED BY <1>1, <1>2, <2>1 DEF Init, KeysHolding
<1>4. PartialHolding
  BY <1>1, ArrayNewHolds, OverflowNewHolds DEF Init, PartialHolding, PartialHolds, VecPartialNew
<1>5. BuilderHolding
  <2>1. EmptyBuilder = OverflowNew(<<>>)
    BY <1>1 DEF EmptyBuilder, OverflowNew
  <2> QED BY <1>1, <2>1, OverflowNewHolds DEF Init, BuilderHolding
<1> QED BY <1>3, <1>4, <1>5 DEF Holding

LEMMA KeyStep ==
  ASSUME Holding, NEW s \in Slot, OnKey(s)
  PROVE  Holding'
<1>1. /\ KeyHolds(array[s], vector[s], overflow[s], bytes[s])
      /\ PartialHolds(arrPartial, vecPartial, ovfPartial, fragment)
      /\ KeysHolding /\ PartialHolding /\ BuilderHolding
  BY DEF Holding, KeysHolding, PartialHolding
<1>2. bytes[s] \in Bytes /\ Len(bytes[s]) \in Nat /\ Len(fragment) \in Nat
  BY <1>1, LenProperties DEF KeyHolds, PartialHolds, Bytes
<1>3. ASSUME NEW b \in Slices, NewFromSlice(s, b) PROVE Holding'
  <2>1. KeyHolds(ArrayNew(b), VectorNew(b), OverflowNew(b), b)
    BY <1>3, NewKeyHolds, InputsAssumption DEF NewFromSlice, Bytes
  <2>2. KeysHolding'
    BY <1>1, <1>3, <2>1, SetKeyHolding DEF NewFromSlice
  <2> QED BY <1>1, <1>3, <2>2, Untouched DEF NewFromSlice, Holding
<1>4. ASSUME NEW b \in Strings, FromString(s, b) PROVE Holding'
  <2>1. b \in Bytes /\ Len(b) \in Nat
    BY InputsAssumption, LenProperties DEF Bytes
  <2>2. KeyHolds(ArrayFromString(b), VectorFromString(b), OverflowFromString(b), Append(b, 0))
    BY <1>4, <2>1, StringHolds, Sizes DEF ArrayStringFits, FromString
  <2>3. KeysHolding'
    BY <1>1, <1>4, <2>2, SetKeyHolding DEF FromString
  <2> QED BY <1>1, <1>4, <2>3, Untouched DEF FromString, Holding
<1>5. ASSUME NEW x \in Numbers, FromNumber(s, x) PROVE Holding'
  <2> DEFINE b == Encoded(x)
  <2>1. b \in Bytes
    BY EncodingAssumption DEF Bytes
  <2>2. Len(b) <= ArraySize /\ UNCHANGED <<partials, built>>
        /\ SetKey(s, ArrayNew(b), VectorNew(b), OverflowNew(b), b, [number |-> x])
    BY <1>5 DEF FromNumber
  <2> HIDE DEF b
  <2>3. KeyHolds(ArrayNew(b), VectorNew(b), OverflowNew(b), b)
    BY <2>1, <2>2, NewKeyHolds
  <2>4. KeysHolding'
    BY <1>1, <2>2, <2>3, SetKeyHolding
  <2> QED BY <1>1, <2>2, <2>4, Untouched DEF Holding
<1>6. CASE ExtendFromPartial(s)
  <2>1. KeyHolds(ArrayExtend(array[s], arrPartial), VectorExtend(vector[s], vecPartial),
                 OverflowExtend(overflow[s], ovfPartial), bytes[s] \o fragment)
    BY <1>1, <1>6, ExtendKeyHolds DEF ExtendFromPartial
  <2>2. KeysHolding'
    BY <1>1, <1>6, <2>1, SetKeyHolding DEF ExtendFromPartial
  <2> QED BY <1>1, <1>6, <2>2, Untouched DEF ExtendFromPartial, Holding
<1>7. CASE NewFromPartial(s)
  <2>1. KeyHolds(ArrayFromPartial(arrPartial), VectorFromPartial(vecPartial),
                 OverflowFromPartial(ovfPartial), fragment)
    BY <1>1, FromPartialHolds
  <2>2. KeysHolding'
    BY <1>1, <1>7, <2>1, SetKeyHolding DEF NewFromPartial
  <2> QED BY <1>1, <1>7, <2>2, Untouched DEF NewFromPartial, Holding
<1>8. CASE Finish(s)
  <2>1. pushed \in Bytes /\ Len(pushed) <= ArraySize /\ BoxHolds(KeyInline, builder, pushed)
    BY <1>1 DEF BuilderHolding
  <2>2. KeyHolds(ArrayNew(pushed), VectorNew(pushed), BuilderFinish(builder), pushed)
    BY <2>1, ArrayNewHolds, FinishHolds DEF KeyHolds, VectorNew
  <2>3. KeysHolding'
    BY <1>1, <1>8, <2>2, SetKeyHolding DEF Finish
  <2>4. <<>> \in Bytes /\ Len(<<>>) <= ArraySize /\ EmptyBuilder = OverflowNew(<<>>)
    BY Sizes DEF Bytes, EmptyBuilder, OverflowNew
  <2>5. BuilderHolding'
    BY <1>8, <2>4, OverflowNewHolds DEF Finish, BuilderHolding
  <2> QED BY <1>1, <1>8, <2>3, <2>5, Untouched DEF Finish, Holding
<1>9. ASSUME NEW d \in Length, Truncate(s, d) PROVE Holding'
  <2>1. d \in Nat /\ d <= Len(bytes[s])
    BY <1>9, Sizes DEF Length, Truncate
  <2>2. KeyHolds(ArrayTruncate(array[s], d), VectorTruncate(vector[s], d),
                 OverflowTruncate(overflow[s], d), Range0(bytes[s], 0, d))
    BY <1>1, <2>1, TruncateHolds
  <2>3. KeysHolding'
    BY <1>1, <1>9, <2>2, SetKeyHolding DEF Truncate
  <2> QED BY <1>1, <1>9, <2>3, Untouched DEF Truncate, Holding
<1>10. ASSUME NEW d \in Length, d <= Len(bytes[s])
       PROVE  PartialHolds(ArrayToPartial(array[s], d), VectorToPartial(vector[s], d),
                           OverflowToPartial(overflow[s], d), Range0(bytes[s], d, Len(bytes[s])))
  <2>1. d \in Nat
    BY Sizes DEF Length
  <2> QED BY <1>1, <1>10, <2>1, ToPartialHolds
<1>11. ASSUME NEW d \in Length, ToPartial(s, d) PROVE Holding'
  <2>1. PartialHolding'
    BY <1>10, <1>11, SetPartialHolding DEF ToPartial
  <2> QED BY <1>1, <1>11, <2>1, Untouched DEF ToPartial, Holding
<1>12. ASSUME NEW d \in Length, PartialExtended(s, d) PROVE Holding'
  <2> DEFINE c == Range0(bytes[s], d, Len(bytes[s]))
  <2>1. d \in Nat /\ d <= Len(bytes[s])
    BY <1>12, Sizes DEF Length, PartialExtended
  <2>2. Len(c) = Len(bytes[s]) - d
    BY <1>2, <2>1, RestOf
  <2>3. Len(fragment) + Len(c) <= ArraySize
    BY <1>2, <1>12, <2>1, <2>2, Sizes DEF PartialExtended
  <2>4. PartialHolds(ArrayToPartial(array[s], d), VectorToPartial(vector[s], d),
                     OverflowToPartial(overflow[s], d), c)
    BY <1>10, <2>1
  <2>5. PartialHolds(ArrPartialExtended(arrPartial, ArrayToPartial(array[s], d)),
                     VecPartialExtended(vecPartial, VectorToPartial(vector[s], d)),
                     OvfPartialExtended(ovfPartial, OverflowToPartial(overflow[s], d)),
                     fragment \o c)
    BY <1>1, <2>3, <2>4, JoinPartialHolds
  <2>6. PartialHolding'
    BY <1>12, <2>5, SetPartialHolding DEF PartialExtended
  <2> QED BY <1>1, <1>12, <2>6, Untouched DEF PartialExtended, Holding
<1> QED
  BY <1>3, <1>4, <1>5, <1>6, <1>7, <1>8, <1>9, <1>11, <1>12 DEF OnKey

LEMMA PartialStep ==
  ASSUME Holding, OnPartial
  PROVE  Holding'
<1>1. /\ PartialHolds(arrPartial, vecPartial, ovfPartial, fragment)
      /\ KeysHolding /\ PartialHolding /\ BuilderHolding
  BY DEF Holding, PartialHolding
<1>2. /\ fragment \in Bytes /\ Len(fragment) \in Nat
      /\ arrPartial.len = Len(fragment) /\ ovfPartial.len = Len(fragment)
      /\ vecPartial = [data |-> fragment]
  BY <1>1, LenProperties DEF PartialHolds, ArrayHolds, BoxHolds, Bytes
<1>3. ASSUME NEW o \in Nat, NEW e \in Nat, o <= e, e <= Len(fragment),
             SetPartial(ArrPartialNew(Range0(arrPartial.data, o, e)),
                        VecPartialNew(Range0(vecPartial.data, o, e)),
                        OvfPartialNew(Range0(OvfPartialData(ovfPartial), o, e)),
                        Range0(fragment, o, e)),
             UNCHANGED <<keys, built>>
      PROVE  Holding'
  <2>1. PartialHolds(ArrPartialNew(Range0(arrPartial.data, o, e)),
                     VecPartialNew(Range0(vecPartial.data, o, e)),
                     OvfPartialNew(Range0(OvfPartialData(ovfPartial), o, e)),
                     Range0(fragment, o, e))
    BY <1>1, <1>3, CutPartialHolds
  <2>2. PartialHolding'
    BY <1>3, <2>1, SetPartialHolding
  <2> QED BY <1>1, <1>3, <2>2, Untouched DEF Holding
<1>4. ASSUME NEW b \in Slices, PartialKey(b) PROVE Holding'
  <2>1. b \in Bytes
    BY InputsAssumption DEF Bytes
  <2>2. PartialHolds(ArrPartialKey(b), VecPartialKey(b), OvfPartialKey(b), Append(b, 0))
    BY <1>4, <2>1, StringHolds DEF PartialKey
  <2>3. PartialHolding'
    BY <1>4, <2>2, SetPartialHolding DEF PartialKey
  <2> QED BY <1>1, <1>4, <2>3, Untouched DEF PartialKey, Holding
<1>5. ASSUME NEW n \in Length, PartialBefore(n) PROVE Holding'
  <2>1. 0 \in Nat /\ n \in Nat /\ 0 <= n /\ n <= Len(fragment)
    BY <1>5, Sizes DEF Length, PartialBefore
  <2> QED BY <1>3, <1>5, <2>1 DEF PartialBefore, ArrPartialBefore, VecPartialBefore, OvfPartialBefore
<1>6. ASSUME NEW o \in Length, NEW n \in Length, PartialFrom(o, n) PROVE Holding'
  <2>1. o \in Nat /\ o + n \in Nat /\ o <= o + n /\ o + n <= Len(fragment)
    BY <1>6, Sizes DEF Length, PartialFrom
  <2> QED BY <1>3, <1>6, <2>1 DEF PartialFrom, ArrPartialFrom, VecPartialFrom, OvfPartialFrom
<1>7. ASSUME NEW o \in Length, PartialAfter(o) PROVE Holding'
  <2>1. o \in Nat /\ o <= Len(fragment) /\ Len(fragment) <= Len(fragment)
    BY <1>2, <1>7, Sizes DEF Length, PartialAfter
  <2>2. /\ ArrPartialAfter(arrPartial, o) = ArrPartialNew(Range0(arrPartial.data, o, Len(fragment)))
        /\ VecPartialAfter(vecPartial, o) = VecPartialNew(Range0(vecPartial.data, o, Len(fragment)))
        /\ OvfPartialAfter(ovfPartial, o) =
             OvfPartialNew(Range0(OvfPartialData(ovfPartial), o, Len(fragment)))
    BY <1>2 DEF ArrPartialAfter, VecPartialAfter, OvfPartialAfter
  <2> QED BY <1>2, <1>3, <1>7, <2>1, <2>2 DEF PartialAfter
<1> QED BY <1>4, <1>5, <1>6, <1>7 DEF OnPartial

LEMMA BuilderStep ==
  ASSUME Holding, OnBuilder
  PROVE  Holding'
<1>1. /\ pushed \in Bytes /\ Len(pushed) <= ArraySize /\ BoxHolds(KeyInline, builder, pushed)
      /\ KeysHolding /\ PartialHolding
  BY DEF Holding, BuilderHolding
<1>2. Len(pushed) \in Nat
  BY <1>1, LenProperties DEF Bytes
<1>3. ASSUME NEW x \in Byte, Push(x) PROVE Holding'
  <2>1. BoxHolds(KeyInline, BuilderPush(builder, x), Append(pushed, x))
    BY <1>1, PushHolds
  <2>2. Append(pushed, x) \in Bytes /\ Len(Append(pushed, x)) = Len(pushed) + 1
    BY <1>1, AppendProperties DEF Bytes
  <2>3. BuilderHolding'
    BY <1>2, <1>3, <2>1, <2>2, Sizes DEF Push, BuilderHolding
  <2> QED BY <1>1, <1>3, <2>3, Untouched DEF Push, Holding
<1>4. ASSUME NEW b \in Slices, ExtendBuilder(b) PROVE Holding'
  <2>1. b \in Bytes
    BY InputsAssumption DEF Bytes
  <2>2. pushed \o b \in Bytes /\ Len(pushed \o b) = Len(pushed) + Len(b)
        /\ (b = <<>> => pushed \o b = pushed)
    BY <1>1, <2>1, ConcatProperties, ConcatEmptySeq DEF Bytes
  <2>3. BoxHolds(KeyInline, builder', pushed \o b)
    BY <1>1, <1>4, <2>1, <2>2, ExtendHolds DEF ExtendBuilder
  <2>4. BuilderHolding'
    BY <1>4, <2>2, <2>3 DEF ExtendBuilder, BuilderHolding
  <2> QED BY <1>1, <1>4, <2>4, Untouched DEF ExtendBuilder, Holding
<1> QED BY <1>3, <1>4 DEF OnBuilder

\* Each key, each prefix and the builder always hold the bytes they stand for.
THEOREM HoldingInvariant == Spec => []Holding
<1>1. Init => Holding
  BY InitHolding
<1>2. Holding /\ [Next]_vars => Holding'
  <2> SUFFICES ASSUME Holding, [Next]_vars PROVE Holding'
    OBVIOUS
  <2>1. CASE Next
    BY <2>1, KeyStep, PartialStep, BuilderStep DEF Next
  <2>2. CASE UNCHANGED vars
    BY <2>2, Untouched DEF Holding, vars
  <2> QED BY <2>1, <2>2
<1> QED BY <1>1, <1>2, PTL DEF Spec

-----------------------------------------------------------------------------
(* What it implies *)

\* Reading one byte of an array or of a box.
LEMMA ReadAt ==
  ASSUME NEW n \in Nat, NEW k, NEW b \in Bytes, BoxHolds(n, k, b), NEW i \in 1..Len(b)
  PROVE  (IF k.len <= n THEN k.inline[(i - 1) + 1] ELSE k.overflow[(i - 1) + 1]) = b[i]
<1>1. Len(b) \in Nat /\ (i - 1) + 1 = i
  BY LenProperties DEF Bytes
<1>2. CASE Len(b) <= n
  BY <1>1, <1>2 DEF BoxHolds
<1>3. CASE Len(b) > n
  BY <1>1, <1>3 DEF BoxHolds
<1> QED BY <1>1, <1>2, <1>3

LEMMA HoldingSameBytes == Holding => SameBytes
<1> SUFFICES ASSUME Holding PROVE SameBytes
  OBVIOUS
<1>1. ASSUME NEW s \in Slot
      PROVE  /\ ArraySlice(array[s]) = bytes[s]
             /\ vector[s].data = bytes[s]
             /\ OverflowData(overflow[s]) = bytes[s]
             /\ \A i \in DOMAIN bytes[s] :
                  /\ ArrayAt(array[s], i - 1) = bytes[s][i]
                  /\ OverflowAt(overflow[s], i - 1) = bytes[s][i]
  <2>1. /\ bytes[s] \in Bytes /\ ArrayHolds(array[s], bytes[s])
        /\ vector[s] = [data |-> bytes[s]] /\ BoxHolds(KeyInline, overflow[s], bytes[s])
    BY DEF Holding, KeysHolding, KeyHolds
  <2>2. DOMAIN bytes[s] = 1..Len(bytes[s]) /\ Len(bytes[s]) \in Nat
    BY <2>1, LenProperties DEF Bytes
  <2>3. ASSUME NEW i \in 1..Len(bytes[s])
        PROVE  /\ ArrayAt(array[s], i - 1) = bytes[s][i]
               /\ OverflowAt(overflow[s], i - 1) = bytes[s][i]
    <3>1. (i - 1) + 1 = i
      BY <2>2
    <3>2. ArrayAt(array[s], i - 1) = bytes[s][i]
      BY <2>1, <3>1 DEF ArrayAt, ArrayHolds
    <3> QED BY <2>1, <3>2, ReadAt, Sizes DEF OverflowAt
  <2> QED BY <2>1, <2>2, <2>3, ArraySliceIs, OverflowDataIs
<1>2. /\ fragment \in Bytes /\ ArrayHolds(arrPartial, fragment)
      /\ vecPartial = [data |-> fragment] /\ BoxHolds(PartialInline, ovfPartial, fragment)
  BY DEF Holding, PartialHolding, PartialHolds
<1>3. DOMAIN fragment = 1..Len(fragment)
  BY <1>2, LenProperties DEF Bytes
<1>4. /\ ArraySlice(arrPartial) = fragment
      /\ vecPartial.data = fragment
      /\ OvfPartialData(ovfPartial) = fragment
  BY <1>2, ArraySliceIs, OverflowDataIs
<1>5. \A i \in DOMAIN fragment : OvfPartialAt(ovfPartial, i - 1) = fragment[i]
  BY <1>2, <1>3, ReadAt, Sizes DEF OvfPartialAt
<1>6. BuilderData(builder) = pushed
  BY BuilderDataIs DEF Holding, BuilderHolding
<1> QED BY <1>1, <1>4, <1>5, <1>6 DEF SameBytes

LEMMA BoxSpilled ==
  ASSUME NEW n \in Nat, NEW k, NEW b \in Bytes, BoxHolds(n, k, b)
  PROVE  Spilled(k, n)
<1>1. Len(b) \in Nat
  BY LenProperties DEF Bytes
<1>2. b # None
  BY NoneIsNoBytes
<1> QED BY <1>1, <1>2 DEF BoxHolds, Spilled

LEMMA HoldingStorageRight == Holding => StorageRight
<1> SUFFICES ASSUME Holding PROVE StorageRight
  OBVIOUS
<1>1. \A s \in Slot : Spilled(overflow[s], KeyInline)
  BY BoxSpilled, Sizes DEF Holding, KeysHolding, KeyHolds
<1>2. Spilled(ovfPartial, PartialInline)
  BY BoxSpilled, Sizes DEF Holding, PartialHolding, PartialHolds
<1>3. Spilled(builder, KeyInline)
  BY BoxSpilled, Sizes DEF Holding, BuilderHolding
<1> QED BY <1>1, <1>2, <1>3 DEF StorageRight

\* Whatever operations made them, a key, a prefix and a builder read as the same
\* bytes in every representation, for every size of the arrays.
THEOREM SameBytesHolds == Spec => []SameBytes
<1>1. Holding => SameBytes
  BY HoldingSameBytes
<1> QED BY <1>1, HoldingInvariant, PTL

\* heap_data() is there exactly when the bytes do not fit inline, for every
\* inline size.
THEOREM StorageRightHolds == Spec => []StorageRight
<1>1. Holding => StorageRight
  BY HoldingStorageRight
<1> QED BY <1>1, HoldingInvariant, PTL
=============================================================================
