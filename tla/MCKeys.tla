------------------------------- MODULE MCKeys -------------------------------
(* A small instance of Keys for TLC: bytes of two bits, words of two bytes,   *)
(* arrays of two words and a byte, keys that spill at the fourth byte and     *)
(* prefixes at the third.                                                     *)
EXTENDS Keys

\* Two bytes that differ in a bit that is not the lowest.
MCBytes == {0, 2}

MCSlices == {<<>>, <<2>>, <<2, 0>>, <<0, 2, 2>>}

\* Strings that the code lets into such an array.
MCStrings == {<<>>, <<1>>, <<2>>, <<1, 3>>, <<1, 1, 1>>}

MCNumbers ==
  UNION {[signed : {FALSE}, width : {w}, num : 0..(4 ^ w - 1)]
           \cup [signed : {TRUE}, width : {w}, num : -(4 ^ w \div 2)..(4 ^ w \div 2 - 1)] :
         w \in {1, 2}}

\* The left key is made and remade of a prefix, a slice or a builder; or both
\* keys are converted from values, to be compared.
MCNext ==
  /\ Next
  /\ IF value'["left"] # None THEN fragment' = <<>> /\ pushed' = <<>>
     ELSE \A i \in 1..ArraySize : array'["left"].data[i] \in MCBytes
  /\ IF value'["right"] # None THEN value'["left"] # None
     ELSE array'["right"] = ArrayNew(<<>>)
  /\ pushed' # <<>> => fragment' = <<>> /\ \A i \in DOMAIN pushed' : pushed'[i] \in MCBytes

MCSpec == Init /\ [][MCNext]_vars
=============================================================================
