------------------------------- MODULE Word64 -------------------------------
(***************************************************************************)
(* 64-bit machine words (Go's uint64, int64 and time.Duration) for TLC,    *)
(* whose integers are 32-bit: a word is the sequence of its four 16-bit    *)
(* limbs, least significant first.  uint64 and int64 share the bits; a     *)
(* conversion between them (time.Duration(u)) leaves the word as it is,    *)
(* and int64 multiplication is the same bit operation as uint64            *)
(* multiplication, modulo 2^64.                                            *)
(***************************************************************************)
EXTENDS Integers, Sequences

Limb == 2^16

\* A word whose value n is below 2^31.
Word(n) == <<n % Limb, (n \div Limb) % Limb, 0, 0>>

\* The limbs of s times c, plus carry, with the final carry as one more
\* limb: the exact product.  c and carry stay below 2^15, so a limb product
\* stays below 2^31.
RECURSIVE MulLimbs(_, _, _)
MulLimbs(s, c, carry) ==
    IF s = <<>> THEN <<carry>>
    ELSE LET p == Head(s) * c + carry
         IN <<p % Limb>> \o MulLimbs(Tail(s), c, p \div Limb)

\* Multiplication modulo 2^64 by a factor below 2^15.
MulWord(w, c) == SubSeq(MulLimbs(w, c, 0), 1, 4)

\* The sign bit of an int64.
Negative(w) == w[4] >= Limb \div 2

\* time.Millisecond * time.Duration(u): u * 10^6 modulo 2^64, with
\* 10^6 = 15625 * 64.
MillisToNanos(u) == MulWord(MulWord(u, 15625), 64)

\* u * 10^6 exactly, as six limbs.
ExactNanos(u) == MulLimbs(MulLimbs(u, 15625, 0), 64, 0)

\* The integer an int64 word stands for, on the scale of ExactNanos: a
\* negative value is kept apart, a non-negative one is its limbs.
SignedValue(w) ==
    IF Negative(w) THEN [neg |-> TRUE, limbs |-> w]
    ELSE [neg |-> FALSE, limbs |-> w \o <<0, 0>>]

Natural(limbs) == [neg |-> FALSE, limbs |-> limbs]
=============================================================================
