-------------------------------- MODULE Keys --------------------------------
(***************************************************************************)
(* The three key types and the prefixes cut from them (rart/src/keys,      *)
(* rart/src/partials).                                                     *)
(*                                                                         *)
(* One program written against KeyTrait and Partial runs with ArrayKey,    *)
(* VectorKey and OverflowKey at once: two keys, a prefix and a builder, on *)
(* which it performs any legal sequence of the traits' operations.  Beside *)
(* them, `bytes`, `fragment` and `pushed` say which bytes each of them     *)
(* stands for and `value` what a key was converted from.                   *)
(*                                                                         *)
(* An array of N bytes is a function on 1..N; what lies past the length in *)
(* use is kept, as the code keeps it.  A boxed slice is a sequence.        *)
(***************************************************************************)
EXTENDS Integers, Sequences, FiniteSets

CONSTANTS
  ArraySize,      \* N of ArrayKey<N> and ArrPartial<N>
  KeyInline,      \* N of OverflowKey<N, P>
  PartialInline,  \* P of OverflowKey<N, P>: the N of its OverflowPartial
  ByteBits,       \* bits of a byte (8 in the code)
  WordBytes,      \* bytes of a u64 (8 in the code)
  Endian,         \* of the machine: "little" or "big"
  None,           \* Option::None
  Slices,         \* byte slices that keys are made of
  Strings,        \* the bytes of strings that keys are made of
  Numbers         \* numbers that keys are made of: [signed, width, num]

Base == 2 ^ ByteBits
Byte == 0..(Base - 1)

Slot == {"left", "right"}

ASSUME SizesAssumption ==
  /\ ArraySize \in Nat /\ KeyInline \in Nat /\ PartialInline \in Nat
  /\ ByteBits \in Nat \ {0} /\ WordBytes \in Nat \ {0} /\ Endian \in {"little", "big"}
ASSUME InputsAssumption == Slices \subseteq Seq(Byte) /\ Strings \subseteq Seq(Byte)
ASSUME NumbersAssumption ==
  \A x \in Numbers :
    /\ x.signed \in BOOLEAN /\ x.width \in Nat \ {0} /\ x.num \in Int
    /\ IF x.signed THEN -(Base ^ x.width) <= 2 * x.num /\ 2 * x.num < Base ^ x.width
       ELSE 0 <= x.num /\ x.num < Base ^ x.width
ASSUME NoneAssumption == None \notin Seq(Byte)

VARIABLES
  array, vector, overflow,              \* of each slot, the key in each type
  arrPartial, vecPartial, ovfPartial,   \* the prefix in each type
  builder,                              \* an OverflowKeyBuilder
  bytes, fragment, pushed,              \* what they stand for
  value                                 \* of each slot, what its key encodes, or None

keys == <<array, vector, overflow, bytes, value>>
partials == <<arrPartial, vecPartial, ovfPartial, fragment>>
built == <<builder, pushed>>
vars == <<keys, partials, built>>

-----------------------------------------------------------------------------
(* Fixed arrays *)

\* [0; N] with s copied to its beginning
Filled(n, s) == [i \in 1..n |-> IF i <= Len(s) THEN s[i] ELSE 0]

\* data[..len]
Used(data, len) == SubSeq(data, 1, len)

\* Rust's slice ranges: [from..to]
Range0(s, from, to) == SubSeq(s, from + 1, to)

-----------------------------------------------------------------------------
(* ArrayKey and ArrPartial *)

ArraySlice(k) == Used(k.data, k.len)

\* at: the byte at a position is read from the array whatever the length.
ArrayAt(k, pos) == k.data[pos + 1]

ArrayNew(s) == [data |-> Filled(ArraySize, s), len |-> Len(s)]

\* new_from_str: the terminating NUL is the array's own zero.  A string that
\* would fill the array with it is refused by a debug assertion.
ArrayStringFits(s) == Len(s) + 1 < ArraySize

ArrayFromString(s) == [data |-> Filled(ArraySize, s), len |-> Len(s) + 1]

ArrayExtend(k, p) ==
  [data |-> Filled(ArraySize, ArraySlice(k) \o ArraySlice(p)), len |-> k.len + p.len]

\* truncate: the bytes cut off stay in the array.
ArrayTruncate(k, d) == [k EXCEPT !.len = d]

ArrayFromPartial(p) == [data |-> Filled(ArraySize, ArraySlice(p)), len |-> p.len]

ArrPartialNew(s) == [data |-> Filled(ArraySize, s), len |-> Len(s)]

ArrPartialKey(s) == [data |-> Filled(ArraySize, s), len |-> Len(s) + 1]

ArrayToPartial(k, d) == ArrPartialNew(Range0(k.data, d, k.len))

ArrPartialBefore(p, n) == ArrPartialNew(Range0(p.data, 0, n))

ArrPartialFrom(p, o, n) == ArrPartialNew(Range0(p.data, o, o + n))

ArrPartialAfter(p, o) == ArrPartialNew(Range0(p.data, o, p.len))

ArrPartialExtended(p, q) ==
  [data |-> Filled(ArraySize, ArraySlice(p) \o ArraySlice(q)), len |-> p.len + q.len]

-----------------------------------------------------------------------------
(* VectorKey and VectorPartial: the bytes themselves *)

VectorNew(s) == [data |-> s]

VectorFromString(s) == [data |-> Append(s, 0)]

VectorExtend(k, p) == [data |-> k.data \o p.data]

VectorTruncate(k, d) == [data |-> Range0(k.data, 0, d)]

VectorFromPartial(p) == [data |-> p.data]

VecPartialNew(s) == [data |-> s]

VecPartialKey(s) == [data |-> Append(s, 0)]

VectorToPartial(k, d) == VecPartialNew(Range0(k.data, d, Len(k.data)))

VecPartialBefore(p, n) == VecPartialNew(Range0(p.data, 0, n))

VecPartialFrom(p, o, n) == VecPartialNew(Range0(p.data, o, o + n))

VecPartialAfter(p, o) == VecPartialNew(Range0(p.data, o, Len(p.data)))

VecPartialExtended(p, q) == [data |-> p.data \o q.data]

-----------------------------------------------------------------------------
(* OverflowKey and OverflowPartial: inline, and boxed beyond the inline size *)

Inline(n, s) == [inline |-> Filled(n, s), len |-> Len(s), overflow |-> None]

Boxed(n, s) == [inline |-> Filled(n, <<>>), len |-> Len(s), overflow |-> s]

OverflowNew(s) == IF Len(s) <= KeyInline THEN Inline(KeyInline, s) ELSE Boxed(KeyInline, s)

\* data(): the inline bytes or heap_data(), which must be there.
OverflowData(k) == IF k.len <= KeyInline THEN Used(k.inline, k.len) ELSE k.overflow

\* at
OverflowAt(k, pos) == IF k.len <= KeyInline THEN k.inline[pos + 1] ELSE k.overflow[pos + 1]

OverflowFromString(s) == OverflowNew(Append(s, 0))

OvfPartialNew(s) ==
  IF Len(s) <= PartialInline THEN Inline(PartialInline, s) ELSE Boxed(PartialInline, s)

OvfPartialData(p) == IF p.len <= PartialInline THEN Used(p.inline, p.len) ELSE p.overflow

OvfPartialAt(p, pos) ==
  IF p.len <= PartialInline THEN p.inline[pos + 1] ELSE p.overflow[pos + 1]

OvfPartialKey(s) == OvfPartialNew(Append(s, 0))

OverflowExtend(k, p) == OverflowNew(OverflowData(k) \o OvfPartialData(p))

\* Fault: what is cut off a boxed key leaves it boxed.
OverflowTruncateBoxed(k, d) ==
  IF k.overflow = None THEN [k EXCEPT !.len = d]
  ELSE [k EXCEPT !.len = d, !.overflow = Range0(@, 0, d)]

OverflowTruncate(k, d) == OverflowNew(Range0(OverflowData(k), 0, d))

OverflowFromPartial(p) == OverflowNew(OvfPartialData(p))

OverflowToPartial(k, d) == OvfPartialNew(Range0(OverflowData(k), d, k.len))

OvfPartialBefore(p, n) == OvfPartialNew(Range0(OvfPartialData(p), 0, n))

OvfPartialFrom(p, o, n) == OvfPartialNew(Range0(OvfPartialData(p), o, o + n))

OvfPartialAfter(p, o) == OvfPartialNew(Range0(OvfPartialData(p), o, p.len))

OvfPartialExtended(p, q) == OvfPartialNew(OvfPartialData(p) \o OvfPartialData(q))

-----------------------------------------------------------------------------
(* OverflowKeyBuilder *)

EmptyBuilder == Inline(KeyInline, <<>>)

BuilderData(b) == IF b.overflow = None THEN Used(b.inline, b.len) ELSE b.overflow

\* push
BuilderPush(b, x) ==
  CASE b.overflow # None -> [b EXCEPT !.overflow = Append(@, x), !.len = @ + 1]
    [] b.overflow = None /\ b.len < KeyInline ->
         [b EXCEPT !.inline[b.len + 1] = x, !.len = @ + 1]
    [] OTHER -> [b EXCEPT !.overflow = Append(Used(b.inline, b.len), x), !.len = @ + 1]

\* Fault: the inline bytes are left behind when the builder spills.
BuilderExtendForget(b, s) ==
  IF b.overflow = None /\ b.len + Len(s) > KeyInline
  THEN [b EXCEPT !.overflow = s, !.len = @ + Len(s)]
  ELSE [b EXCEPT !.len = @ + Len(s),
                 !.inline = Filled(KeyInline, Used(b.inline, b.len) \o s),
                 !.overflow = IF @ = None THEN None ELSE @ \o s]

\* extend_from_slice
BuilderExtend(b, s) ==
  CASE b.overflow # None -> [b EXCEPT !.overflow = @ \o s, !.len = @ + Len(s)]
    [] b.overflow = None /\ b.len + Len(s) <= KeyInline ->
         [b EXCEPT !.inline = [i \in 1..KeyInline |->
                                 IF b.len < i /\ i <= b.len + Len(s) THEN s[i - b.len] ELSE @[i]],
                   !.len = @ + Len(s)]
    [] OTHER -> [b EXCEPT !.overflow = Used(b.inline, b.len) \o s, !.len = @ + Len(s)]

\* finish
BuilderFinish(b) == IF b.overflow = None THEN b ELSE Boxed(KeyInline, b.overflow)

-----------------------------------------------------------------------------
(* Numbers *)

\* to_be_bytes of a number of n bytes
BigEndian(x, n) == [i \in 1..n |-> (x \div (Base ^ (n - i))) % Base]

\* Fault: the sign bit is not flipped.
UnsignedAsIs(x) == x.num % (Base ^ x.width)

\* `as` the unsigned type, and for signed numbers the sign bit flipped
Unsigned(x) ==
  LET all == Base ^ x.width IN
  IF x.signed THEN ((x.num % all) + all \div 2) % all ELSE x.num

Encoded(x) == BigEndian(Unsigned(x), x.width)

\* What the arithmetic of powers comes to: TLAPS has no theory of them.
ASSUME EncodingAssumption == 0 \in Byte /\ \A x \in Numbers : Encoded(x) \in Seq(Byte)

\* from_be_bytes, from_le_bytes
Folded(s, weight) ==
  LET sum[i \in 0..Len(s)] == IF i = 0 THEN 0 ELSE sum[i - 1] + s[i] * weight[i] IN sum[Len(s)]

FromBigEndian(s) == Folded(s, [i \in 1..Len(s) |-> Base ^ (Len(s) - i)])

FromLittleEndian(s) == Folded(s, [i \in 1..Len(s) |-> Base ^ (i - 1)])

\* to_be_u64: the bytes, padded on the left
ToNumber(s) == FromBigEndian([i \in 1..(WordBytes - Len(s)) |-> 0] \o s)

-----------------------------------------------------------------------------
(* Comparing *)

Least(S) == CHOOSE x \in S : \A y \in S : x <= y

FromNative(s) == IF Endian = "little" THEN FromLittleEndian(s) ELSE FromBigEndian(s)

\* trailing_zeros of x ^ y, for x # y: the low bits on which they agree
TrailingZeros(x, y) ==
  CHOOSE t \in 0..(ByteBits * WordBytes - 1) :
    x % (2 ^ t) = y % (2 ^ t) /\ x % (2 ^ (t + 1)) # y % (2 ^ (t + 1))

\* Fault: the last bytes, fewer than a word, are not compared.
PrefixLengthBytesWords(l, r) ==
  LET len == IF Len(l) < Len(r) THEN Len(l) ELSE Len(r)
      words == len \div WordBytes
      word(s, w) == FromNative(Range0(s, w * WordBytes, (w + 1) * WordBytes))
      differ == {w \in 0..(words - 1) : word(l, w) # word(r, w)}
  IN  IF differ = {} THEN len
      ELSE Least(differ) * WordBytes
             + TrailingZeros(word(l, Least(differ)), word(r, Least(differ))) \div ByteBits

\* prefix_length_bytes: word by word, and byte by byte what is left.
PrefixLengthBytes(l, r) ==
  LET len == IF Len(l) < Len(r) THEN Len(l) ELSE Len(r)
      words == len \div WordBytes
      word(s, w) == FromNative(Range0(s, w * WordBytes, (w + 1) * WordBytes))
      differ == {w \in 0..(words - 1) : word(l, w) # word(r, w)}
      rest == {i \in (words * WordBytes)..(len - 1) : l[i + 1] # r[i + 1]}
  IN  CASE differ # {} ->
             Least(differ) * WordBytes
               + TrailingZeros(word(l, Least(differ)), word(r, Least(differ))) \div ByteBits
        [] differ = {} /\ rest # {} -> Least(rest)
        [] OTHER -> len

\* prefix_length_key: the prefix against the key from a depth on
PrefixLengthKey(p, k, d) ==
  LET len == IF Len(p) < Len(k) - d THEN Len(p) ELSE Len(k) - d IN
  PrefixLengthBytes(Range0(p, 0, len), Range0(k, d, d + len))

\* Ord of slices of bytes
Common(l, r) ==
  Cardinality({i \in 1..Len(l) : i <= Len(r) /\ \A j \in 1..i : l[j] = r[j]})

Less(l, r) ==
  LET c == Common(l, r) IN
  IF c < Len(l) /\ c < Len(r) THEN l[c + 1] < r[c + 1] ELSE c = Len(l) /\ c < Len(r)

ArrayLess(k, l) == Less(ArraySlice(k), ArraySlice(l))

VectorLess(k, l) == Less(k.data, l.data)

OverflowLess(k, l) == Less(OverflowData(k), OverflowData(l))

\* PartialEq, derived for ArrayKey and VectorKey
ArrayEqual(k, l) == k = l

VectorEqual(k, l) == k = l

OverflowEqual(k, l) == OverflowData(k) = OverflowData(l)

-----------------------------------------------------------------------------
(* The program *)

SetKey(s, a, v, o, b, x) ==
  /\ array' = [array EXCEPT ![s] = a]
  /\ vector' = [vector EXCEPT ![s] = v]
  /\ overflow' = [overflow EXCEPT ![s] = o]
  /\ bytes' = [bytes EXCEPT ![s] = b]
  /\ value' = [value EXCEPT ![s] = x]

SetPartial(a, v, o, b) ==
  /\ arrPartial' = a
  /\ vecPartial' = v
  /\ ovfPartial' = o
  /\ fragment' = b

\* new_from_slice
NewFromSlice(s, b) ==
  /\ Len(b) <= ArraySize
  /\ SetKey(s, ArrayNew(b), VectorNew(b), OverflowNew(b), b, None)
  /\ UNCHANGED <<partials, built>>

\* From<&str>
FromString(s, b) ==
  /\ ArrayStringFits(b)
  /\ SetKey(s, ArrayFromString(b), VectorFromString(b), OverflowFromString(b),
            Append(b, 0), [string |-> b])
  /\ UNCHANGED <<partials, built>>

\* From<u8> ... From<i128>
FromNumber(s, x) ==
  LET b == Encoded(x) IN
  /\ Len(b) <= ArraySize
  /\ SetKey(s, ArrayNew(b), VectorNew(b), OverflowNew(b), b, [number |-> x])
  /\ UNCHANGED <<partials, built>>

\* extend_from_partial
ExtendFromPartial(s) ==
  /\ Len(bytes[s]) + Len(fragment) <= ArraySize
  /\ SetKey(s, ArrayExtend(array[s], arrPartial), VectorExtend(vector[s], vecPartial),
            OverflowExtend(overflow[s], ovfPartial), bytes[s] \o fragment, None)
  /\ UNCHANGED <<partials, built>>

\* truncate
Truncate(s, d) ==
  /\ d <= Len(bytes[s])
  /\ SetKey(s, ArrayTruncate(array[s], d), VectorTruncate(vector[s], d),
            OverflowTruncate(overflow[s], d), Range0(bytes[s], 0, d), None)
  /\ UNCHANGED <<partials, built>>

\* new_from_partial
NewFromPartial(s) ==
  /\ SetKey(s, ArrayFromPartial(arrPartial), VectorFromPartial(vecPartial),
            OverflowFromPartial(ovfPartial), fragment, None)
  /\ UNCHANGED <<partials, built>>

\* to_partial
ToPartial(s, d) ==
  /\ d <= Len(bytes[s])
  /\ SetPartial(ArrayToPartial(array[s], d), VectorToPartial(vector[s], d),
                OverflowToPartial(overflow[s], d), Range0(bytes[s], d, Len(bytes[s])))
  /\ UNCHANGED <<keys, built>>

\* Partial::key
PartialKey(b) ==
  /\ Len(b) < ArraySize
  /\ SetPartial(ArrPartialKey(b), VecPartialKey(b), OvfPartialKey(b), Append(b, 0))
  /\ UNCHANGED <<keys, built>>

\* partial_before
PartialBefore(n) ==
  /\ n <= Len(fragment)
  /\ SetPartial(ArrPartialBefore(arrPartial, n), VecPartialBefore(vecPartial, n),
                OvfPartialBefore(ovfPartial, n), Range0(fragment, 0, n))
  /\ UNCHANGED <<keys, built>>

\* partial_from
PartialFrom(o, n) ==
  /\ o + n <= Len(fragment)
  /\ SetPartial(ArrPartialFrom(arrPartial, o, n), VecPartialFrom(vecPartial, o, n),
                OvfPartialFrom(ovfPartial, o, n), Range0(fragment, o, o + n))
  /\ UNCHANGED <<keys, built>>

\* partial_after
PartialAfter(o) ==
  /\ o <= Len(fragment)
  /\ SetPartial(ArrPartialAfter(arrPartial, o), VecPartialAfter(vecPartial, o),
                OvfPartialAfter(ovfPartial, o), Range0(fragment, o, Len(fragment)))
  /\ UNCHANGED <<keys, built>>

\* partial_extended_with, the other being cut from a key
PartialExtended(s, d) ==
  /\ d <= Len(bytes[s]) /\ Len(fragment) + Len(bytes[s]) - d < ArraySize
  /\ SetPartial(ArrPartialExtended(arrPartial, ArrayToPartial(array[s], d)),
                VecPartialExtended(vecPartial, VectorToPartial(vector[s], d)),
                OvfPartialExtended(ovfPartial, OverflowToPartial(overflow[s], d)),
                fragment \o Range0(bytes[s], d, Len(bytes[s])))
  /\ UNCHANGED <<keys, built>>

\* OverflowKeyBuilder::push and extend_from_slice, up to what an ArrayKey can hold
Push(x) ==
  /\ Len(pushed) < ArraySize
  /\ builder' = BuilderPush(builder, x)
  /\ pushed' = Append(pushed, x)
  /\ UNCHANGED <<keys, partials>>

ExtendBuilder(b) ==
  /\ Len(pushed) + Len(b) <= ArraySize
  /\ builder' = IF b = <<>> THEN builder ELSE BuilderExtend(builder, b)
  /\ pushed' = pushed \o b
  /\ UNCHANGED <<keys, partials>>

\* finish; the other types have no builder.
Finish(s) ==
  /\ SetKey(s, ArrayNew(pushed), VectorNew(pushed), BuilderFinish(builder), pushed, None)
  /\ builder' = EmptyBuilder
  /\ pushed' = <<>>
  /\ UNCHANGED partials

-----------------------------------------------------------------------------

Init ==
  /\ array = [s \in Slot |-> ArrayNew(<<>>)]
  /\ vector = [s \in Slot |-> VectorNew(<<>>)]
  /\ overflow = [s \in Slot |-> OverflowNew(<<>>)]
  /\ arrPartial = ArrPartialNew(<<>>)
  /\ vecPartial = VecPartialNew(<<>>)
  /\ ovfPartial = OvfPartialNew(<<>>)
  /\ builder = EmptyBuilder
  /\ bytes = [s \in Slot |-> <<>>]
  /\ fragment = <<>>
  /\ pushed = <<>>
  /\ value = [s \in Slot |-> None]

Length == 0..ArraySize

OnKey(s) ==
  \/ \E b \in Slices : NewFromSlice(s, b)
  \/ \E b \in Strings : FromString(s, b)
  \/ \E x \in Numbers : FromNumber(s, x)
  \/ ExtendFromPartial(s) \/ NewFromPartial(s) \/ Finish(s)
  \/ \E d \in Length : Truncate(s, d) \/ ToPartial(s, d) \/ PartialExtended(s, d)

OnPartial ==
  \/ \E b \in Slices : PartialKey(b)
  \/ \E n \in Length : PartialBefore(n) \/ PartialAfter(n) \/ \E o \in Length : PartialFrom(o, n)

OnBuilder == (\E x \in Byte : Push(x)) \/ \E b \in Slices : ExtendBuilder(b)

Next == OnPartial \/ OnBuilder \/ \E s \in Slot : OnKey(s)

Spec == Init /\ [][Next]_vars

-----------------------------------------------------------------------------
(* Properties *)

\* Whatever sequence of operations made them, a key, a prefix and a builder read
\* as the same bytes in every representation: nothing of what an array kept past
\* its length, and nothing left inline after a spill, comes back.
SameBytes ==
  /\ \A s \in Slot :
       /\ ArraySlice(array[s]) = bytes[s]
       /\ vector[s].data = bytes[s]
       /\ OverflowData(overflow[s]) = bytes[s]
       /\ \A i \in DOMAIN bytes[s] :
            /\ ArrayAt(array[s], i - 1) = bytes[s][i]
            /\ OverflowAt(overflow[s], i - 1) = bytes[s][i]
  /\ ArraySlice(arrPartial) = fragment
  /\ vecPartial.data = fragment
  /\ OvfPartialData(ovfPartial) = fragment
  /\ \A i \in DOMAIN fragment : OvfPartialAt(ovfPartial, i - 1) = fragment[i]
  /\ BuilderData(builder) = pushed

Spilled(x, n) == (x.overflow # None <=> x.len > n) /\ (x.overflow # None => Len(x.overflow) = x.len)

\* An OverflowKey, its prefix and its builder have boxed storage, of the length
\* they say, exactly when they are longer than their inline size: heap_data()
\* never panics and nothing that fits inline costs an allocation.
StorageRight ==
  /\ \A s \in Slot : Spilled(overflow[s], KeyInline)
  /\ Spilled(ovfPartial, PartialInline)
  /\ Spilled(builder, KeyInline)

\* Keys made of numbers of one type are ordered as the numbers, keys made of
\* strings as the strings, in every representation; and to_be_u64 gives back
\* the u64 that a key was made of.
EncodingsRight ==
  LET l == value["left"]
      r == value["right"]
      ordered(b) ==
        /\ ArrayLess(array["left"], array["right"]) <=> b
        /\ VectorLess(vector["left"], vector["right"]) <=> b
        /\ OverflowLess(overflow["left"], overflow["right"]) <=> b
  IN
  l # None /\ r # None =>
    CASE "number" \in DOMAIN l /\ "number" \in DOMAIN r ->
           /\ l.number.signed = r.number.signed /\ l.number.width = r.number.width =>
                ordered(l.number.num < r.number.num)
           /\ ~l.number.signed /\ l.number.width = WordBytes =>
                \A k \in {ArraySlice(array["left"]), vector["left"].data,
                          OverflowData(overflow["left"])} : ToNumber(k) = l.number.num
      [] "string" \in DOMAIN l /\ "string" \in DOMAIN r -> ordered(Less(l.string, r.string))
      [] OTHER -> TRUE

\* The common prefix of the prefix and either key from any depth on, counted by
\* words and bytes, is the longest one there is.
PrefixLengthRight ==
  \A s \in Slot : \A d \in 0..Len(bytes[s]) :
    LET common == Common(fragment, Range0(bytes[s], d, Len(bytes[s]))) IN
    /\ PrefixLengthKey(ArraySlice(arrPartial), ArraySlice(array[s]), d) = common
    /\ PrefixLengthKey(vecPartial.data, vector[s].data, d) = common
    /\ PrefixLengthKey(OvfPartialData(ovfPartial), OverflowData(overflow[s]), d) = common

\* Two keys are equal exactly when neither is before the other.
EqualWhenSame ==
  LET agree(equal, before, after) == equal <=> ~before /\ ~after IN
  /\ agree(ArrayEqual(array["left"], array["right"]),
           ArrayLess(array["left"], array["right"]), ArrayLess(array["right"], array["left"]))
  /\ agree(VectorEqual(vector["left"], vector["right"]),
           VectorLess(vector["left"], vector["right"]), VectorLess(vector["right"], vector["left"]))
  /\ agree(OverflowEqual(overflow["left"], overflow["right"]),
           OverflowLess(overflow["left"], overflow["right"]),
           OverflowLess(overflow["right"], overflow["left"]))
=============================================================================
