------------------------------- MODULE BitSets -------------------------------
(***************************************************************************)
(* Unsigned numbers as the sets of positions of their bits: numbers of 128 *)
(* bits are beyond TLC's integers, and most of the code only moves bits.   *)
(***************************************************************************)
EXTENDS Naturals, FiniteSets, FiniteSetsExt

\* Bits hi, hi - 1, ..., lo, the way the tables write them.
Bits(hi, lo) == lo..hi
Bit(i)       == {i}

ShiftLeft(bits, n)  == {b + n : b \in bits}
ShiftRight(bits, n) == {b - n : b \in {c \in bits : c >= n}}

\* The number has no bits above a width; the number without them.
Fits(bits, width) == \A b \in bits : b < width
Low(bits, width)  == bits \cap (0..width - 1)

\* a + b, bit by bit with the carry.
Plus(a, b) ==
  IF a \cap b = {} THEN a \cup b
  ELSE LET ones(x, y, z) == Cardinality({i \in 1..3 : <<x, y, z>>[i]})
           top == Max(a \cup b) + 1
           carry[i \in 0..top] ==
             i > 0 /\ ones(i - 1 \in a, i - 1 \in b, carry[i - 1]) > 1
       IN {i \in 0..top : ones(i \in a, i \in b, carry[i]) \in {1, 3}}
=============================================================================
