------------------------------- MODULE Words -------------------------------
(***************************************************************************)
(* Machine words as sets of the positions of their one bits.  A word has   *)
(* WordBits bits and an operand is a whole word (W = 1, 64 bits on the     *)
(* machine) or its low half (W = 0, 32 bits): an instruction on a half     *)
(* leaves the high half of its destination zero.  CL is the low ByteBits   *)
(* bits of a word.                                                         *)
(***************************************************************************)
EXTENDS Integers, FiniteSets

CONSTANTS WordBits, ByteBits

\* A byte can hold the operand size, as 8 bits hold 64.
ASSUME WordsAssumption ==
  /\ WordBits \in Nat \ {0} /\ WordBits % 2 = 0
  /\ ByteBits \in Nat /\ 2 ^ ByteBits > WordBits /\ ByteBits <= WordBits

\* Arithmetic, said here because the provers know no law of powers.
ASSUME PowersAssumption ==
  \A n \in 0 .. WordBits : 2 ^ n \in Nat \ {0} /\ 2 ^ (n + 1) = 2 * 2 ^ n

Words == SUBSET (0 .. WordBits - 1)
Size(W) == IF W = 1 THEN WordBits ELSE WordBits \div 2
Ones(W) == 0 .. Size(W) - 1
Byte == 0 .. ByteBits - 1

Trunc(x, W) == x \intersect Ones(W)
Not(x, W) == Ones(W) \ x
And(x, y, W) == Trunc(x \intersect y, W)
Xor(x, y, W) == Trunc((x \ y) \union (y \ x), W)

\* The number a word stands for, and the word of a number.
Num(x) ==
  LET sum[m \in 0 .. WordBits] ==
        IF m = 0 THEN 0 ELSE sum[m - 1] + (IF m - 1 \in x THEN 2 ^ (m - 1) ELSE 0)
  IN  sum[WordBits]
Bits(n, len) == {i \in 0 .. len - 1 : (n \div 2 ^ i) % 2 = 1}

\* x - 1: the lowest one becomes a zero and the zeros below it ones.
Dec(x, W) ==
  LET y == Trunc(x, W)
  IN  IF y = {} THEN Ones(W)
      ELSE LET low == CHOOSE i \in y : \A j \in y : i <= j
           IN  (y \ {low}) \union (0 .. low - 1)
\* -x is the complement of x - 1.
Neg(x, W) == Not(Dec(x, W), W)

\* Shift counts are taken modulo the operand size.
Count(x, W) == Num(x \intersect Byte) % Size(W)

\* Mutant: the bits shifted out are kept.
ShlNoTrunc(x, c, W) == {i + c : i \in Trunc(x, W)}
Shl(x, c, W) == {i + c : i \in Trunc(x, W)} \intersect Ones(W)
Shr(x, c, W) == {i - c : i \in Trunc(x, W)} \intersect Ones(W)
Sar(x, c, W) ==
  Shr(x, c, W) \union {i \in Ones(W) : Size(W) - 1 \in x /\ i >= Size(W) - c}
Ror(x, c, W) == {(i - c) % Size(W) : i \in Trunc(x, W)}

\* BSWAP, with bytes of one bit.
Swap(x, W) == {Size(W) - 1 - i : i \in Trunc(x, W)}

Product(x, y, W) == Num(Trunc(x, W)) * Num(Trunc(y, W))
MulLow(x, y, W) == Bits(Product(x, y, W), Size(W))
MulHigh(x, y, W) == Bits(Product(x, y, W) \div 2 ^ Size(W), Size(W))

\* The low n bits of x.
Low(x, n) == x \intersect (0 .. n - 1)
=============================================================================
