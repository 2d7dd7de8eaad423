-------------------------- MODULE TrampolineProofs --------------------------
(***************************************************************************)
(* For words of any width, every instruction the decoders return, whatever *)
(* the registers and the memory hold and whenever an interrupt comes: a    *)
(* stub returns behind its CALL, leaves the caller's stack alone and gives *)
(* back every register it borrowed, but for the word that a MOVBE store to *)
(* the stack hits; and it computes what the comments say of every operand  *)
(* its builder gets right.                                                 *)
(***************************************************************************)
EXTENDS Trampoline, SequenceTheorems, NaturalsInduction, WellFoundedInduction, TLAPS

Insn(o, a, b) == [op |-> o, a |-> a, b |-> b]

\* The registers a stub pushes, in this order, and pops in the other one.
Saved(i) ==
  IF i.mnem \in Shifts
  THEN IF i.aux = RCX THEN <<>> ELSE IF i.dst = RCX THEN <<RAX>> ELSE <<RCX>>
  ELSE IF i.mnem \in BlsOps THEN <<PickTmp({i.dst} \union SrcReg(i.src))>>
  ELSE IF i.mnem = "ANDN" THEN <<PickTmp({i.dst, i.aux} \union SrcReg(i.src))>>
  ELSE IF i.mnem = "BZHI" THEN <<RCX, PickTmp({i.dst, i.aux, RCX} \union SrcReg(i.src))>>
  ELSE IF i.mnem = "MOVBE_st"
  THEN <<PickTmp({i.dst} \union (IF i.src.kind \in {"mem", "idx"} THEN {i.src.r} ELSE {}))>>
  ELSE <<>>

\* The registers the instruction writes, and those its stub writes.
Written(i) ==
  IF i.mnem = "MOVBE_st" THEN {} ELSE IF i.mnem = "MULX" THEN {i.dst, i.aux} ELSE {i.dst}
Touched(i) ==
  Written(i) \union {Saved(i)[n] : n \in 1 .. Len(Saved(i))}
    \union (IF i.mnem = "MULX" THEN {RAX, RDX} ELSE {})

\* What a stub consists of between its pushes and its pops.
TwoReg == AluOps \ {"ror", "restore"}
BodyInsns(i) ==
  [op : TwoReg, a : Touched(i), b : Regs] \union [op : {"ror"}, a : Touched(i), b : Nat]
    \union [op : {"testcl"}, a : Regs, b : Regs]
    \union (IF i.mnem = "MOVBE_st" THEN [op : {"store"}, a : Regs, b : Regs] ELSE {})
    \union (IF i.mnem = "MULX"
            THEN {Insn(o, r, IF r = RAX THEN 1 ELSE 2) : o \in {"save", "restore"}, r \in {RAX, RDX}}
                 \union [op : {"mul", "mulmem"}, a : Regs, b : Regs]
            ELSE {})

\* Code that pops the first j registers of s and returns.
Ending(c, s, j) ==
  /\ Len(c) >= j + 1
  /\ c[Len(c)] = Insn("ret", RAX, RAX)
  /\ \A n \in 1 .. j : c[Len(c) - n] = Insn("pop", s[n], s[n])

\* Code that pushes the others of s first and does something with them.
Wound(c, s, j, S) ==
  LET k == Len(s)
  IN  /\ Len(c) >= k - j + k + 1
      /\ \A n \in 1 .. k - j : c[n] = Insn("push", s[j + n], s[j + n])
      /\ \A n \in k - j + 1 .. Len(c) - k - 1 : c[n] \in S
      /\ Ending(c, s, k)

\* The word a store to the stack goes to; it may be the one the stub has saved.
Hit(n) == StackStore /\ n = StoreSlot
Intact == ~Hit(RetSlot + 1)

\* Only registers in T have changed.
Agree(T) == \A r \in Regs \ T : regs[r] = regs0[r]

AllOps == AluOps \union {"push", "pop", "save", "mul", "mulmem", "testcl", "store", "ret"}
AllInsns == [op : AllOps, a : Regs, b : Nat]

\* What the pushes left on the stack.
Kept(j) ==
  /\ ~Hit(RetSlot) => stack[RetSlot] = RetAddr
  /\ \A n \in 1 .. j : ~Hit(RetSlot + n) => stack[RetSlot + n] = regs0[Saved(info)[n]]

RunInv ==
  LET s == Saved(info)
  IN  \E j \in 0 .. Len(s) :
        /\ sp = RetSlot + j
        /\ Agree(Touched(info))
        /\ Kept(j)
        /\ \/ /\ Wound(code, s, j, BodyInsns(info))
              /\ j < Len(s) => regs = regs0
           \/ /\ Len(code) = j + 1 /\ Ending(code, s, j)
              /\ Intact /\ info.mnem # "MULX" => Agree(Written(info) \union {s[n] : n \in 1 .. j})

\* The stub of MULX saves both registers before it does anything else, and
\* restores what is not a destination at the very end.
Pending(c, o, r) == \E n \in 1 .. Len(c) : c[n].op = o /\ c[n].a = r
MulxOrder(c) ==
  \A m, n \in 1 .. Len(c) :
    m < n =>
      /\ c[n].op = "save" => c[m].op = "save" /\ c[m].a # c[n].a
      /\ c[m].op = "restore" =>
           c[n].op = "ret" \/ (c[n].op = "restore" /\ c[m].a # c[n].a)
\* RAX is saved one word above the stack pointer, RDX two.
Slot(r) == RetSlot + (IF r = RAX THEN 1 ELSE 2)
MulxState ==
  /\ MulxOrder(code)
  /\ \A r \in {RAX, RDX} :
       /\ IF Pending(code, "save", r) THEN regs[r] = regs0[r] ELSE stack[Slot(r)] = regs0[r]
       /\ r \notin Written(info) /\ ~Pending(code, "restore", r) =>
            /\ regs[r] = regs0[r]
            /\ \A n \in 1 .. Len(code) : code[n].op \in {"restore", "ret"}
MulxInv == info.mnem = "MULX" /\ W = 1 /\ ~interrupted /\ phase = "run" => MulxState

TypeInv ==
  /\ info \in Infos
  /\ regs0 \in [Regs -> Words] /\ regs \in [Regs -> Words]
  /\ flags \in FlagStates
  /\ heap \in [Words -> Words]
  /\ stack \in [Slots -> Words]
  /\ interrupted \in BOOLEAN
  /\ phase \in {"run", "returned", "lost"}
  /\ code \in Seq(AllInsns)

StubCore ==
  /\ TypeInv
  /\ phase = "run" => RunInv
  /\ phase # "run" => sp = CallerTop
  /\ \A n \in CallerSlots : ~Hit(n) => stack[n] = Frame[n]
  /\ phase = "lost" => Hit(RetSlot)

StubInv ==
  /\ StubCore
  /\ MulxInv
  /\ phase = "returned" /\ Conserves => Agree(Written(info))

-----------------------------------------------------------------------------
(* The stack. *)

\* The slots a stub uses lie above the caller's.
LEMMA SlotFacts ==
  /\ RetSlot = 0 /\ CallerTop = -1 /\ Above \in Nat /\ Below \in Nat /\ Below >= 2
  /\ \A n \in Slots : n \in Int /\ (n \in CallerSlots <=> n < 0)
  /\ \A n \in CallerSlots : n \in Slots /\ n < 0
  /\ 0 \in Slots /\ 1 \in Slots /\ 2 \in Slots
  /\ \A n \in Int : -Above <= n /\ n <= Below => n \in Slots
  BY TrampolineAssumption DEF TrampolineAssumption, RetSlot, CallerTop, CallerSlots, Slots

-----------------------------------------------------------------------------
(* Words. *)

\* An operand has at least one bit and at most those of a word.
LEMMA SizeFacts ==
  ASSUME NEW w \in {0, 1}
  PROVE  /\ Size(w) \in Nat \ {0} /\ Size(w) <= WordBits
         /\ WordBits \in Nat \ {0}
         /\ Ones(w) \in Words
<1>1. WordBits \in Nat \ {0} /\ WordBits % 2 = 0
  BY WordsAssumption DEF WordsAssumption
<1>2. Size(w) \in Nat \ {0} /\ Size(w) <= WordBits
  BY <1>1 DEF Size
<1> QED
  BY <1>1, <1>2 DEF Ones, Words

\* Bits of an operand are bits of a word.
LEMMA OperandWord ==
  ASSUME NEW w \in {0, 1}, NEW x, x \subseteq Ones(w)
  PROVE  x \in Words
  BY SizeFacts DEF Words

\* What the instructions compute are words.
LEMMA LogicWords ==
  ASSUME NEW w \in {0, 1}, NEW x \in Words, NEW y \in Words
  PROVE  /\ Trunc(x, w) \in Words /\ And(x, y, w) \in Words /\ Xor(x, y, w) \in Words
         /\ Not(x, w) \in Words
         /\ (x \ Byte) \union (y \intersect Byte) \in Words
         /\ (x \ Ones(w)) \union Trunc(y, w) \in Words
<1>1. /\ Trunc(x, w) \subseteq Ones(w) /\ And(x, y, w) \subseteq Ones(w) /\ Xor(x, y, w) \subseteq Ones(w)
      /\ Not(x, w) \subseteq Ones(w)
  BY DEF Trunc, And, Xor, Not
<1>2. (x \ Byte) \union (y \intersect Byte) \in Words /\ (x \ Ones(w)) \union Trunc(y, w) \in Words
  BY DEF Words, Trunc
<1> QED
  BY <1>1, <1>2, OperandWord

\* CL has bits of a word.
LEMMA ByteWord ==
  ASSUME NEW x \in Words
  PROVE  x \union Byte \in Words
<1>1. ByteBits \in Nat /\ ByteBits <= WordBits /\ WordBits \in Nat
  BY WordsAssumption DEF WordsAssumption
<1> QED
  BY <1>1 DEF Byte, Words

\* Shifts and rotates, by any count.
LEMMA ShiftWords ==
  ASSUME NEW w \in {0, 1}, NEW x \in Words, NEW c
  PROVE  /\ Shl(x, c, w) \in Words /\ Shr(x, c, w) \in Words /\ Sar(x, c, w) \in Words
<1>1. Shl(x, c, w) \subseteq Ones(w) /\ Shr(x, c, w) \subseteq Ones(w) /\ Sar(x, c, w) \subseteq Ones(w)
  BY DEF Shl, Shr, Sar
<1> QED
  BY <1>1, OperandWord

\* A rotation moves every bit to a place in the operand.
LEMMA RotateWord ==
  ASSUME NEW w \in {0, 1}, NEW x \in Words, NEW c \in Int
  PROVE  Ror(x, c, w) \in Words
<1>1. \A i \in Trunc(x, w) : i \in Int
  BY DEF Trunc, Words
<1>2. Size(w) \in Nat \ {0}
  BY SizeFacts
<1>3. \A i \in Trunc(x, w) : (i - c) % Size(w) \in 0 .. Size(w) - 1
  BY <1>1, <1>2
<1> QED
  BY <1>3, OperandWord DEF Ror, Ones

\* So does BSWAP.
LEMMA SwapWord ==
  ASSUME NEW w \in {0, 1}, NEW x \in Words
  PROVE  Swap(x, w) \in Words
<1>1. Size(w) \in Nat \ {0}
  BY SizeFacts
<1>2. \A i \in Trunc(x, w) : Size(w) - 1 - i \in 0 .. Size(w) - 1
  BY <1>1 DEF Trunc, Ones
<1> QED
  BY <1>2, OperandWord DEF Swap, Ones

\* The relation that a set of numbers is well-founded by.
LEMMA SmallerPairs ==
  ASSUME NEW x \in Nat, NEW y \in Nat, ~(<<y, x>> \in OpToRel(<, Nat))
  PROVE  x <= y
<1>1. y < x => <<y, x>> \in OpToRel(<, Nat)
  BY DEF OpToRel
<1> QED
  BY <1>1 DEF OpToRel

\* A set of numbers has a first one.
LEMMA LeastExists ==
  ASSUME NEW S, S \subseteq Nat, S # {}
  PROVE  \E x \in S : \A y \in S : x <= y
<1> DEFINE R == OpToRel(<, Nat)
<1>1. PICK x \in S : \A y \in S : ~(<<y, x>> \in R)
  BY NatLessThanWellFounded, WFMin
<1> QED
  BY <1>1, SmallerPairs

\* DEC and NEG: the lowest bit of an operand exists unless it is zero.
LEMMA DecWords ==
  ASSUME NEW w \in {0, 1}, NEW x \in Words
  PROVE  Dec(x, w) \in Words /\ Neg(x, w) \in Words
<1> DEFINE y == Trunc(x, w)
           low == CHOOSE i \in y : \A j \in y : i <= j
<1>1. y \subseteq Ones(w)
  BY DEF Trunc
<1>2. Dec(x, w) \subseteq Ones(w)
  <2>1. CASE y = {}
    BY <2>1 DEF Dec
  <2>2. CASE y # {}
    <3>1. y \subseteq Nat
      BY <1>1 DEF Ones
    <3>2. low \in y
      BY <2>2, <3>1, LeastExists
    <3>3. Dec(x, w) = (y \ {low}) \union (0 .. low - 1)
      BY <2>2 DEF Dec
    <3>4. low \in 0 .. Size(w) - 1 /\ Size(w) \in Nat
      BY <1>1, <3>2, SizeFacts DEF Ones
    <3> HIDE DEF low
    <3>5. 0 .. low - 1 \subseteq Ones(w)
      BY <3>4 DEF Ones
    <3> QED
      BY <1>1, <3>3, <3>5
  <2> QED
    BY <2>1, <2>2
<1>3. Neg(x, w) \subseteq Ones(w)
  BY DEF Neg, Not
<1> QED
  BY <1>2, <1>3, OperandWord

\* The halves of a product.
LEMMA ProductWords ==
  ASSUME NEW w \in {0, 1}, NEW x \in Words, NEW y \in Words
  PROVE  MulLow(x, y, w) \in Words /\ MulHigh(x, y, w) \in Words
<1>1. MulLow(x, y, w) \subseteq Ones(w) /\ MulHigh(x, y, w) \subseteq Ones(w)
  BY DEF MulLow, MulHigh, Bits, Ones
<1> QED
  BY <1>1, OperandWord

-----------------------------------------------------------------------------
(* The code still to run. *)

\* Running an instruction leaves the others where they were, counted from
\* the end.
LEMMA TailFacts ==
  ASSUME NEW S, NEW c \in Seq(S), c # <<>>
  PROVE  /\ Len(c) \in Nat \ {0} /\ Head(c) = c[1] /\ c[1] \in S
         /\ Tail(c) \in Seq(S) /\ Len(Tail(c)) = Len(c) - 1
         /\ \A n \in 1 .. Len(c) - 1 : Tail(c)[n] = c[n + 1]
  OBVIOUS

\* A push is followed by the other pushes.
LEMMA WoundPush ==
  ASSUME NEW S, NEW c \in Seq(AllInsns), NEW T, NEW s \in Seq(T), NEW j \in Nat, j < Len(s),
         Wound(c, s, j, S)
  PROVE  /\ c # <<>> /\ c[1] = Insn("push", s[j + 1], s[j + 1])
         /\ Wound(Tail(c), s, j + 1, S)
<1> DEFINE k == Len(s)
           l == Len(c)
           d == Tail(c)
<1>1. k \in Nat /\ l \in Nat /\ l >= k - j + k + 1 /\ j < k /\ l >= k + 2
  BY DEF Wound
<1>2. /\ \A n \in 1 .. k - j : c[n] = Insn("push", s[j + n], s[j + n])
      /\ \A n \in k - j + 1 .. l - k - 1 : c[n] \in S
      /\ c[l] = Insn("ret", RAX, RAX)
      /\ \A n \in 1 .. k : c[l - n] = Insn("pop", s[n], s[n])
  BY DEF Wound, Ending
<1>3. c # <<>>
  BY <1>1
<1>4. Len(d) = l - 1 /\ \A n \in 1 .. l - 1 : d[n] = c[n + 1]
  BY <1>3, TailFacts
<1> HIDE DEF k, l, d
<1>5. \A n \in 1 .. k - (j + 1) : d[n] = Insn("push", s[j + 1 + n], s[j + 1 + n])
  <2> SUFFICES ASSUME NEW n \in 1 .. k - (j + 1)
               PROVE  d[n] = Insn("push", s[j + 1 + n], s[j + 1 + n])
    OBVIOUS
  <2>1. n + 1 \in 1 .. k - j /\ n \in 1 .. l - 1 /\ j + (n + 1) = j + 1 + n
    BY <1>1
  <2> QED
    BY <1>2, <1>4, <2>1
<1>6. \A n \in k - (j + 1) + 1 .. l - 1 - k - 1 : d[n] \in S
  <2> SUFFICES ASSUME NEW n \in k - (j + 1) + 1 .. l - 1 - k - 1 PROVE d[n] \in S
    OBVIOUS
  <2>1. n + 1 \in k - j + 1 .. l - k - 1 /\ n \in 1 .. l - 1
    BY <1>1
  <2> QED
    BY <1>2, <1>4, <2>1
<1>7. d[l - 1] = Insn("ret", RAX, RAX)
  BY <1>1, <1>2, <1>4
<1>8. \A n \in 1 .. k : d[l - 1 - n] = Insn("pop", s[n], s[n])
  <2> SUFFICES ASSUME NEW n \in 1 .. k PROVE d[l - 1 - n] = Insn("pop", s[n], s[n])
    OBVIOUS
  <2>1. l - 1 - n \in 1 .. l - 1 /\ l - 1 - n + 1 = l - n
    BY <1>1
  <2> QED
    BY <1>2, <1>4, <2>1
<1>9. Len(d) >= k - (j + 1) + k + 1
  BY <1>1, <1>4
<1>10. c[1] = Insn("push", s[j + 1], s[j + 1])
  BY <1>1, <1>2 DEF k
<1> QED
  <2>1. Len(d) = l - 1 /\ Len(d) >= k + 1
    BY <1>1, <1>4
  <2>2. Ending(d, s, k)
    BY <1>7, <1>8, <2>1 DEF Ending
  <2>3. /\ \A n \in 1 .. k - (j + 1) : d[n] = Insn("push", s[j + 1 + n], s[j + 1 + n])
        /\ \A n \in k - (j + 1) + 1 .. Len(d) - k - 1 : d[n] \in S
    BY <1>5, <1>6, <2>1
  <2>4. Wound(d, s, j + 1, S)
    BY <1>9, <2>2, <2>3 DEF Wound, k
  <2> QED
    BY <1>3, <1>10, <2>4 DEF d

\* When everything is pushed, an instruction of the body is followed by the
\* rest of the body.
LEMMA WoundBody ==
  ASSUME NEW S, NEW c \in Seq(AllInsns), NEW T, NEW s \in Seq(T), Wound(c, s, Len(s), S),
         Len(c) # Len(s) + 1
  PROVE  /\ c # <<>> /\ c[1] \in S
         /\ Wound(Tail(c), s, Len(s), S)
<1> DEFINE k == Len(s)
           l == Len(c)
           d == Tail(c)
<1>1. k \in Nat /\ l \in Nat /\ l > k + 1
  BY DEF Wound
<1>2. /\ \A n \in 1 .. l - k - 1 : c[n] \in S
      /\ c[l] = Insn("ret", RAX, RAX)
      /\ \A n \in 1 .. k : c[l - n] = Insn("pop", s[n], s[n])
  BY <1>1 DEF Wound, Ending
<1>3. c # <<>>
  BY <1>1
<1>4. Len(d) = l - 1 /\ \A n \in 1 .. l - 1 : d[n] = c[n + 1]
  BY <1>3, TailFacts
<1> HIDE DEF k, l, d
<1>5. \A n \in 1 .. l - 1 - k - 1 : d[n] \in S
  <2> SUFFICES ASSUME NEW n \in 1 .. l - 1 - k - 1 PROVE d[n] \in S
    OBVIOUS
  <2>1. n + 1 \in 1 .. l - k - 1 /\ n \in 1 .. l - 1
    BY <1>1
  <2> QED
    BY <1>2, <1>4, <2>1
<1>6. d[l - 1] = Insn("ret", RAX, RAX)
  BY <1>1, <1>2, <1>4
<1>7. \A n \in 1 .. k : d[l - 1 - n] = Insn("pop", s[n], s[n])
  <2> SUFFICES ASSUME NEW n \in 1 .. k PROVE d[l - 1 - n] = Insn("pop", s[n], s[n])
    OBVIOUS
  <2>1. l - 1 - n \in 1 .. l - 1 /\ l - 1 - n + 1 = l - n
    BY <1>1
  <2> QED
    BY <1>2, <1>4, <2>1
<1>8. c[1] \in S
  BY <1>1, <1>2
<1>9. Len(d) = l - 1 /\ Len(d) >= k + 1
  BY <1>1, <1>4
<1>10. Ending(d, s, k)
  BY <1>6, <1>7, <1>9 DEF Ending
<1>11. Wound(d, s, k, S)
  BY <1>1, <1>5, <1>9, <1>10 DEF Wound, k
<1> QED
  BY <1>3, <1>8, <1>11 DEF d, k

\* A pop is followed by the other pops, in the end by the RET.
LEMMA EndingPop ==
  ASSUME NEW c \in Seq(AllInsns), NEW s, NEW j \in Nat, j # 0, Len(c) = j + 1, Ending(c, s, j)
  PROVE  /\ c # <<>> /\ c[1] = Insn("pop", s[j], s[j])
         /\ Len(Tail(c)) = j /\ Ending(Tail(c), s, j - 1)
<1> DEFINE d == Tail(c)
<1>1. /\ c[j + 1] = Insn("ret", RAX, RAX)
      /\ \A n \in 1 .. j : c[j + 1 - n] = Insn("pop", s[n], s[n])
  BY DEF Ending
<1>2. c # <<>>
  OBVIOUS
<1>3. Len(d) = j /\ \A n \in 1 .. j : d[n] = c[n + 1]
  BY <1>2, TailFacts
<1>4. c[1] = Insn("pop", s[j], s[j])
  BY <1>1
<1> HIDE DEF d
<1>5. d[j] = Insn("ret", RAX, RAX)
  BY <1>1, <1>3
<1>6. \A n \in 1 .. j - 1 : d[j - n] = Insn("pop", s[n], s[n])
  <2> SUFFICES ASSUME NEW n \in 1 .. j - 1 PROVE d[j - n] = Insn("pop", s[n], s[n])
    OBVIOUS
  <2>1. j - n \in 1 .. j /\ j - n + 1 = j + 1 - n
    OBVIOUS
  <2> QED
    BY <1>1, <1>3, <2>1
<1>7. Ending(d, s, j - 1)
  BY <1>3, <1>5, <1>6 DEF Ending
<1> QED
  BY <1>2, <1>3, <1>4, <1>7 DEF d

-----------------------------------------------------------------------------
(* The registers a stub takes. *)

\* The fixed order has a register that none of four is.
LEMMA PickTmpReg ==
  ASSUME NEW a \in Regs, NEW b \in Regs, NEW c \in Regs, NEW d \in Regs,
         NEW used, used \subseteq {a, b, c, d}
  PROVE  PickTmp(used) \in Regs
<1>1. Regs \ used # {} /\ Regs \ used \subseteq Nat
  BY DEF Regs
<1>2. \E r \in Regs \ used : \A q \in Regs \ used : r <= q
  BY <1>1, LeastExists
<1> QED
  BY <1>2 DEF PickTmp

Taken(s, n) == s \in Seq(Regs) /\ Len(s) = n

\* It takes at most two.
LEMMA SavedRegs ==
  ASSUME NEW i \in Infos
  PROVE  /\ Saved(i) \in Seq(Regs) /\ Len(Saved(i)) \in 0 .. 2
         /\ i.mnem = "MULX" => Saved(i) = <<>>
         /\ i.mnem = "MOVBE_st" => Len(Saved(i)) = 1
<1>1. i \in InfoType /\ (i.mnem # "RORX" => i.aux \in Regs)
  BY TrampolineAssumption DEF TrampolineAssumption
<1>2. i.dst \in Regs /\ i.src.r \in Regs /\ i.mnem \in Mnems
  BY <1>1 DEF InfoType, Operands
<1>3. RAX \in Regs /\ RCX \in Regs /\ RDX \in Regs
  BY DEF Regs, RAX, RCX, RDX
<1>4. SrcReg(i.src) \subseteq {i.src.r}
  BY DEF SrcReg
<1>5. PickTmp({i.dst} \union SrcReg(i.src)) \in Regs
  <2>1. {i.dst} \union SrcReg(i.src) \subseteq {i.dst, i.src.r, i.dst, i.dst}
    BY <1>4
  <2> QED
    BY <1>2, <2>1, PickTmpReg
<1>6. i.mnem # "RORX" => PickTmp({i.dst, i.aux} \union SrcReg(i.src)) \in Regs
  <2>1. {i.dst, i.aux} \union SrcReg(i.src) \subseteq {i.dst, i.aux, i.src.r, i.dst}
    BY <1>4
  <2> QED
    BY <1>1, <1>2, <2>1, PickTmpReg
<1>7. i.mnem # "RORX" => PickTmp({i.dst, i.aux, RCX} \union SrcReg(i.src)) \in Regs
  <2>1. {i.dst, i.aux, RCX} \union SrcReg(i.src) \subseteq {i.dst, i.aux, RCX, i.src.r}
    BY <1>4
  <2> QED
    BY <1>1, <1>2, <1>3, <2>1, PickTmpReg
<1>8. PickTmp({i.dst} \union (IF i.src.kind \in {"mem", "idx"} THEN {i.src.r} ELSE {})) \in Regs
  <2>1. {i.dst} \union (IF i.src.kind \in {"mem", "idx"} THEN {i.src.r} ELSE {})
          \subseteq {i.dst, i.src.r, i.dst, i.dst}
    OBVIOUS
  <2> QED
    BY <1>2, <2>1, PickTmpReg
<1>9. Taken(<<>>, 0) /\ \A r, q \in Regs : Taken(<<r>>, 1) /\ Taken(<<r, q>>, 2)
  BY DEF Taken
<1>10. i.mnem \in Shifts =>
         Saved(i) = <<>> \/ Saved(i) = <<RAX>> \/ Saved(i) = <<RCX>>
  BY DEF Saved
<1>11. i.mnem \in {"MULX", "RORX", "MOVBE_ld"} => Saved(i) = <<>>
  BY DEF Saved, Shifts, BlsOps
<1>12. i.mnem \in BlsOps => Saved(i) = <<PickTmp({i.dst} \union SrcReg(i.src))>>
  BY DEF Saved, Shifts, BlsOps
<1>13. i.mnem = "ANDN" => Saved(i) = <<PickTmp({i.dst, i.aux} \union SrcReg(i.src))>>
  BY DEF Saved, Shifts, BlsOps
<1>14. i.mnem = "BZHI" => Saved(i) = <<RCX, PickTmp({i.dst, i.aux, RCX} \union SrcReg(i.src))>>
  BY DEF Saved, Shifts, BlsOps
<1>15. i.mnem = "MOVBE_st" =>
         Saved(i) = <<PickTmp({i.dst} \union (IF i.src.kind \in {"mem", "idx"} THEN {i.src.r} ELSE {}))>>
  BY DEF Saved, Shifts, BlsOps
<1>16. CASE i.mnem \in Shifts
  <2>1. Taken(Saved(i), 0) \/ Taken(Saved(i), 1)
    BY <1>3, <1>9, <1>10, <1>16, Zenon
  <2> QED
    BY <1>16, <2>1 DEF Taken, Shifts
<1>17. CASE i.mnem \in {"MULX", "RORX", "MOVBE_ld"}
  <2>1. Taken(Saved(i), 0)
    BY <1>9, <1>11, <1>17, Zenon
  <2> QED
    BY <1>11, <1>17, <2>1 DEF Taken
<1>18. CASE i.mnem \in BlsOps
  <2>1. Taken(Saved(i), 1)
    BY <1>5, <1>9, <1>12, <1>18, Zenon
  <2> QED
    BY <1>18, <2>1 DEF Taken, BlsOps
<1>19. CASE i.mnem = "ANDN"
  <2>1. Taken(Saved(i), 1)
    <3>1. i.mnem # "RORX"
      BY <1>19
    <3> QED
      BY <1>6, <1>9, <1>13, <1>19, <3>1, Zenon
  <2> QED
    BY <1>19, <2>1 DEF Taken
<1>20. CASE i.mnem = "BZHI"
  <2>1. Taken(Saved(i), 2)
    <3>1. i.mnem # "RORX"
      BY <1>20
    <3> QED
      BY <1>3, <1>7, <1>9, <1>14, <1>20, <3>1, Zenon
  <2> QED
    BY <1>20, <2>1 DEF Taken
<1>21. CASE i.mnem = "MOVBE_st"
  <2>1. Taken(Saved(i), 1)
    BY <1>8, <1>9, <1>15, <1>21, Zenon
  <2> QED
    BY <1>21, <2>1 DEF Taken
<1> QED
  BY <1>2, <1>16, <1>17, <1>18, <1>19, <1>20, <1>21 DEF Mnems

-----------------------------------------------------------------------------
(* What the builders build. *)

\* What is written are registers.
LEMMA TouchedRegs ==
  ASSUME NEW i \in Infos
  PROVE  /\ Touched(i) \subseteq Regs /\ Written(i) \subseteq Touched(i)
         /\ \A n \in 1 .. Len(Saved(i)) : Saved(i)[n] \in Touched(i)
         /\ i.dst \in Regs /\ (i.mnem # "RORX" => i.aux \in Regs) /\ i.aux \in Nat
         /\ i.src \in Operands /\ i.mnem \in Mnems /\ i.W \in {0, 1}
<1>1. i \in InfoType /\ (i.mnem # "RORX" => i.aux \in Regs)
  BY TrampolineAssumption DEF TrampolineAssumption
<1>2. /\ i.dst \in Regs /\ i.aux \in Nat /\ i.src \in Operands /\ i.mnem \in Mnems
      /\ i.W \in {0, 1}
  BY <1>1 DEF InfoType
<1>3. \A n \in 1 .. Len(Saved(i)) : Saved(i)[n] \in Regs
  BY SavedRegs, ElementOfSeq
<1>4. RAX \in Regs /\ RDX \in Regs
  BY DEF RAX, RDX, Regs
<1> QED
  BY <1>1, <1>2, <1>3, <1>4 DEF Touched, Written

\* What the builders put between pushes and pops are instructions.
LEMMA BodyInsnsTyped ==
  ASSUME NEW i \in Infos
  PROVE  BodyInsns(i) \subseteq AllInsns
<1>1. Touched(i) \subseteq Regs
  BY TouchedRegs
<1>2. Regs \subseteq Nat /\ RAX \in Regs /\ RDX \in Regs
  BY DEF Regs, RAX, RDX
<1>3. TwoReg \subseteq AllOps /\ AluOps \subseteq AllOps
      /\ {"ror", "restore"} \subseteq AllOps
  BY DEF TwoReg, AllOps, AluOps
<1>4. ASSUME NEW x \in BodyInsns(i) PROVE x \in AllInsns
  <2>1. CASE x \in [op : TwoReg, a : Touched(i), b : Regs]
    BY <1>1, <1>2, <1>3, <2>1 DEF AllInsns
  <2>2. CASE x \in [op : {"ror"}, a : Touched(i), b : Nat]
    BY <1>1, <1>2, <1>3, <2>2 DEF AllInsns
  <2>3. CASE x \in [op : {"testcl", "store", "mul", "mulmem"}, a : Regs, b : Regs]
    BY <1>1, <1>2, <1>3, <2>3 DEF AllInsns, AllOps
  <2>4. CASE x \in {Insn(o, r, IF r = RAX THEN 1 ELSE 2) : o \in {"save", "restore"}, r \in {RAX, RDX}}
    BY <1>2, <1>3, <2>4 DEF AllInsns, AllOps, Insn
  <2> QED
    BY <2>1, <2>2, <2>3, <2>4 DEF BodyInsns
<1> QED
  BY <1>4

\* Code that begins with p and goes on with instructions of S.
Opens(c, p, S) ==
  /\ c \in Seq(AllInsns) /\ Len(c) >= Len(p)
  /\ \A n \in 1 .. Len(p) : c[n] = p[n]
  /\ \A n \in Len(p) + 1 .. Len(c) : c[n] \in S

\* Code begins with itself.
LEMMA OpensSelf ==
  ASSUME NEW p \in Seq(AllInsns), NEW S
  PROVE  Opens(p, p, S)
  BY DEF Opens

\* More instructions of S may follow.
LEMMA OpensAppend ==
  ASSUME NEW S, S \subseteq AllInsns, NEW p \in Seq(AllInsns), NEW c, Opens(c, p, S), NEW d \in Seq(S)
  PROVE  Opens(c \o d, p, S)
<1>1. c \in Seq(AllInsns) /\ d \in Seq(AllInsns)
  BY SeqMonotonic DEF Opens
<1>2. /\ c \o d \in Seq(AllInsns) /\ Len(c \o d) = Len(c) + Len(d)
      /\ \A n \in 1 .. Len(c) + Len(d) : (c \o d)[n] = IF n <= Len(c) THEN c[n] ELSE d[n - Len(c)]
  BY <1>1, ConcatProperties
<1>3. Len(p) \in Nat /\ Len(c) \in Nat /\ Len(d) \in Nat /\ Len(c) >= Len(p)
  BY <1>1 DEF Opens
<1>4. \A n \in 1 .. Len(p) : (c \o d)[n] = p[n]
  BY <1>2, <1>3 DEF Opens
<1>5. ASSUME NEW n \in Len(p) + 1 .. Len(c \o d) PROVE (c \o d)[n] \in S
  <2>1. CASE n <= Len(c)
    BY <1>2, <1>3, <2>1 DEF Opens
  <2>2. CASE n > Len(c)
    <3>1. n - Len(c) \in 1 .. Len(d)
      BY <1>2, <1>3, <2>2
    <3>2. d[n - Len(c)] \in S
      BY <3>1, ElementOfSeq
    <3> QED
      BY <1>2, <1>3, <2>2, <3>2
  <2> QED
    BY <1>2, <1>3, <2>1, <2>2
<1> QED
  BY <1>2, <1>3, <1>4, <1>5 DEF Opens

\* Such code followed by its pops.
LEMMA OpensWound ==
  ASSUME NEW S, NEW s \in Seq(Regs), NEW p \in Seq(AllInsns), Len(p) = Len(s),
         \A n \in 1 .. Len(s) : p[n] = Insn("push", s[n], s[n]),
         NEW c, Opens(c, p, S),
         NEW u \in Seq(AllInsns), Len(u) = Len(s) + 1, Ending(u, s, Len(s))
  PROVE  c \o u \in Seq(AllInsns) /\ Wound(c \o u, s, 0, S)
<1> DEFINE k == Len(s)
           l == Len(c)
           t == c \o u
<1>1. k \in Nat /\ l \in Nat /\ l >= k /\ c \in Seq(AllInsns)
  BY DEF Opens
<1>2. Len(u) = k + 1 /\ t \in Seq(AllInsns) /\ Len(t) = l + Len(u)
  BY <1>1, ConcatProperties
<1>3. ASSUME NEW n \in 1 .. l + Len(u)
      PROVE  t[n] = IF n <= l THEN c[n] ELSE u[n - l]
  BY <1>1, ConcatProperties
<1>4. /\ \A n \in 1 .. k : c[n] = Insn("push", s[n], s[n])
      /\ \A n \in k + 1 .. l : c[n] \in S
  BY DEF Opens
<1>5. u[k + 1] = Insn("ret", RAX, RAX) /\ \A n \in 1 .. k : u[k + 1 - n] = Insn("pop", s[n], s[n])
  BY DEF Ending
<1> HIDE DEF k, l, t
<1>6. Len(t) = l + k + 1
  BY <1>1, <1>2
<1>7. t[Len(t)] = Insn("ret", RAX, RAX)
  <2>1. Len(t) \in 1 .. l + Len(u) /\ ~(Len(t) <= l) /\ Len(t) - l = k + 1
    BY <1>1, <1>2, <1>6
  <2> QED
    BY <1>3, <1>5, <2>1
<1>8. ASSUME NEW n \in 1 .. k PROVE t[Len(t) - n] = Insn("pop", s[n], s[n])
  <2>1. Len(t) - n \in 1 .. l + Len(u) /\ ~(Len(t) - n <= l) /\ Len(t) - n - l = k + 1 - n
    BY <1>1, <1>2, <1>6
  <2> QED
    BY <1>3, <1>5, <2>1
<1>9. Ending(t, s, k)
  BY <1>1, <1>6, <1>7, <1>8 DEF Ending
<1>10. ASSUME NEW n \in 1 .. k PROVE t[n] = Insn("push", s[n], s[n])
  <2>1. n \in 1 .. l + Len(u) /\ n <= l
    BY <1>1, <1>2
  <2> QED
    BY <1>3, <1>4, <2>1
<1>11. ASSUME NEW n \in k + 1 .. Len(t) - k - 1 PROVE t[n] \in S
  <2>1. n \in 1 .. l + Len(u) /\ n <= l /\ n \in k + 1 .. l
    BY <1>1, <1>2, <1>6
  <2> QED
    BY <1>3, <1>4, <2>1
<1>12. Wound(t, s, 0, S)
  BY <1>1, <1>6, <1>9, <1>10, <1>11 DEF Wound, k
<1> QED
  BY <1>2, <1>12 DEF t

\* An instruction in front of others.
InFront(u, a, b) ==
  Len(u) = Len(b) + 1 /\ u[1] = a[1] /\ \A n \in 1 .. Len(b) : u[n + 1] = b[n]

\* What concatenation puts there.
LEMMA Prepended ==
  ASSUME NEW S, NEW a \in Seq(S), Len(a) = 1, NEW b \in Seq(S)
  PROVE  a \o b \in Seq(S) /\ InFront(a \o b, a, b)
<1> DEFINE u == a \o b
<1>1. u \in Seq(S) /\ Len(u) = Len(a) + Len(b)
  BY ConcatProperties
<1>2. ASSUME NEW n \in 1 .. Len(a) + Len(b)
      PROVE  u[n] = IF n <= Len(a) THEN a[n] ELSE b[n - Len(a)]
  BY ConcatProperties
<1>3. Len(b) \in Nat
  OBVIOUS
<1> HIDE DEF u
<1>4. ASSUME NEW n \in 1 .. Len(b) PROVE u[n + 1] = b[n]
  <2>1. n + 1 \in 1 .. Len(a) + Len(b) /\ ~(n + 1 <= Len(a)) /\ n + 1 - Len(a) = n
    BY <1>3
  <2> QED
    BY <1>2, <2>1
<1>5. u[1] = a[1]
  <2>1. 1 \in 1 .. Len(a) + Len(b) /\ 1 <= Len(a)
    BY <1>3
  <2> QED
    BY <1>2, <2>1
<1>6. Len(u) = Len(b) + 1
  BY <1>1, <1>3
<1> QED
  BY <1>1, <1>4, <1>5, <1>6 DEF u, InFront

\* The pops and the RET of a stub that has pushed two registers, one, or none.
LEMMA Closings ==
  ASSUME NEW S, NEW c, NEW r \in Regs, NEW q \in Regs
  PROVE  /\ Opens(c, <<>>, S) =>
              c \o ret \in Seq(AllInsns) /\ Wound(c \o ret, <<>>, 0, S)
         /\ Opens(c, push_r(r), S) =>
              /\ c \o pop_r(r) \o ret \in Seq(AllInsns)
              /\ Wound(c \o pop_r(r) \o ret, <<r>>, 0, S)
         /\ Opens(c, push_r(r) \o push_r(q), S) =>
              /\ c \o pop_r(q) \o pop_r(r) \o ret \in Seq(AllInsns)
              /\ Wound(c \o pop_r(q) \o pop_r(r) \o ret, <<r, q>>, 0, S)
<1>1. Regs \subseteq Nat /\ RAX \in Regs /\ {"push", "pop", "ret"} \subseteq AllOps
  BY DEF Regs, RAX, AllOps
<1>2. /\ Insn("ret", RAX, RAX) \in AllInsns
      /\ \A x \in Regs : Insn("push", x, x) \in AllInsns /\ Insn("pop", x, x) \in AllInsns
  BY <1>1 DEF AllInsns, Insn
<1>3. /\ ret = <<Insn("ret", RAX, RAX)>> /\ ret \in Seq(AllInsns)
      /\ \A x \in Regs : /\ push_r(x) = <<Insn("push", x, x)>> /\ push_r(x) \in Seq(AllInsns)
                         /\ pop_r(x) = <<Insn("pop", x, x)>> /\ pop_r(x) \in Seq(AllInsns)
  BY <1>2 DEF ret, push_r, pop_r, I, Insn
<1>4. Len(ret) = 1 /\ ret[1] = Insn("ret", RAX, RAX)
  BY <1>3
<1>5. ASSUME NEW x \in Regs
      PROVE  /\ pop_r(x) \o ret \in Seq(AllInsns) /\ Len(pop_r(x) \o ret) = 2
             /\ (pop_r(x) \o ret)[1] = Insn("pop", x, x)
             /\ (pop_r(x) \o ret)[2] = Insn("ret", RAX, RAX)
  <2>1. pop_r(x) \in Seq(AllInsns) /\ Len(pop_r(x)) = 1 /\ pop_r(x)[1] = Insn("pop", x, x)
    BY <1>3
  <2> DEFINE u == pop_r(x) \o ret
  <2>2. u \in Seq(AllInsns) /\ InFront(u, pop_r(x), ret)
    BY <1>3, <2>1, Prepended, Zenon
  <2> HIDE DEF u
  <2>3. 1 \in 1 .. Len(ret)
    BY <1>4
  <2>4. Len(u) = 2 /\ u[1] = Insn("pop", x, x) /\ u[2] = Insn("ret", RAX, RAX)
    BY <1>4, <2>1, <2>2, <2>3 DEF InFront
  <2> QED
    BY <2>2, <2>4 DEF u
<1>6. ASSUME Opens(c, <<>>, S)
      PROVE  c \o ret \in Seq(AllInsns) /\ Wound(c \o ret, <<>>, 0, S)
  <2> DEFINE s == <<>>
             p == <<>>
  <2>1. s \in Seq(Regs) /\ p \in Seq(AllInsns) /\ Len(s) = 0 /\ Len(p) = 0
    OBVIOUS
  <2>2. Opens(c, p, S)
    BY <1>6
  <2> HIDE DEF s, p
  <2>3. Len(ret) = Len(s) + 1 /\ Ending(ret, s, Len(s)) /\ Len(p) = Len(s)
    BY <1>4, <2>1 DEF Ending
  <2>4. \A n \in 1 .. Len(s) : p[n] = Insn("push", s[n], s[n])
    BY <2>1
  <2>5. c \o ret \in Seq(AllInsns) /\ Wound(c \o ret, s, 0, S)
    BY <1>3, <2>1, <2>2, <2>3, <2>4, OpensWound
  <2> QED
    BY <2>5 DEF s
<1>7. ASSUME Opens(c, push_r(r), S)
      PROVE  /\ c \o pop_r(r) \o ret \in Seq(AllInsns)
             /\ Wound(c \o pop_r(r) \o ret, <<r>>, 0, S)
  <2> DEFINE u == pop_r(r) \o ret
             s == <<r>>
             p == push_r(r)
  <2>1. /\ u \in Seq(AllInsns) /\ Len(u) = 2
        /\ u[1] = Insn("pop", r, r) /\ u[2] = Insn("ret", RAX, RAX)
    BY <1>5
  <2>2. s \in Seq(Regs) /\ Len(s) = 1 /\ s[1] = r
    OBVIOUS
  <2>3. p \in Seq(AllInsns) /\ Len(p) = 1 /\ p[1] = Insn("push", r, r)
    BY <1>3
  <2>4. c \o pop_r(r) \o ret = c \o u
    BY <1>3, <1>7 DEF Opens
  <2> HIDE DEF u, s, p
  <2>5. Len(u) = Len(s) + 1 /\ Ending(u, s, Len(s))
    BY <2>1, <2>2 DEF Ending
  <2>6. Len(p) = Len(s) /\ \A n \in 1 .. Len(s) : p[n] = Insn("push", s[n], s[n])
    BY <2>2, <2>3
  <2>7. Opens(c, p, S)
    BY <1>7 DEF p
  <2>8. c \o u \in Seq(AllInsns) /\ Wound(c \o u, s, 0, S)
    BY <2>1, <2>2, <2>3, <2>5, <2>6, <2>7, OpensWound
  <2> QED
    BY <2>4, <2>8 DEF s
<1>8. ASSUME Opens(c, push_r(r) \o push_r(q), S)
      PROVE  /\ c \o pop_r(q) \o pop_r(r) \o ret \in Seq(AllInsns)
             /\ Wound(c \o pop_r(q) \o pop_r(r) \o ret, <<r, q>>, 0, S)
  <2> DEFINE v == pop_r(r) \o ret
             u == pop_r(q) \o v
             s == <<r, q>>
             p == push_r(r) \o push_r(q)
  <2>1. /\ v \in Seq(AllInsns) /\ Len(v) = 2
        /\ v[1] = Insn("pop", r, r) /\ v[2] = Insn("ret", RAX, RAX)
    BY <1>5
  <2>2. s \in Seq(Regs) /\ Len(s) = 2 /\ s[1] = r /\ s[2] = q
    OBVIOUS
  <2>3. c \o pop_r(q) \o pop_r(r) \o ret = c \o u
    <3>1. c \in Seq(AllInsns) /\ pop_r(q) \in Seq(AllInsns) /\ pop_r(r) \in Seq(AllInsns)
      BY <1>3, <1>8 DEF Opens
    <3>2. c \o pop_r(q) \o pop_r(r) \o ret = c \o pop_r(q) \o v
      BY <1>3, <3>1
    <3> HIDE DEF v
    <3>3. c \o pop_r(q) \o v = c \o u
      BY <2>1, <3>1
    <3> QED
      BY <3>2, <3>3
  <2> HIDE DEF v
  <2>4. /\ u \in Seq(AllInsns) /\ Len(u) = 3 /\ u[1] = Insn("pop", q, q)
        /\ u[2] = Insn("pop", r, r) /\ u[3] = Insn("ret", RAX, RAX)
    <3>1. pop_r(q) \in Seq(AllInsns) /\ Len(pop_r(q)) = 1 /\ pop_r(q)[1] = Insn("pop", q, q)
      BY <1>3
    <3>2. u \in Seq(AllInsns) /\ InFront(u, pop_r(q), v)
      BY <2>1, <3>1, Prepended, Zenon
    <3>3. 1 \in 1 .. Len(v) /\ 2 \in 1 .. Len(v) /\ 1 + 1 = 2 /\ 2 + 1 = 3
      BY <2>1
    <3> HIDE DEF u
    <3> QED
      BY <2>1, <3>1, <3>2, <3>3 DEF InFront
  <2>5. /\ p \in Seq(AllInsns) /\ Len(p) = 2
        /\ p[1] = Insn("push", r, r) /\ p[2] = Insn("push", q, q)
    <3>1. push_r(r) \in Seq(AllInsns) /\ Len(push_r(r)) = 1 /\ push_r(r)[1] = Insn("push", r, r)
      BY <1>3
    <3>2. push_r(q) \in Seq(AllInsns) /\ Len(push_r(q)) = 1 /\ push_r(q)[1] = Insn("push", q, q)
      BY <1>3
    <3>3. p \in Seq(AllInsns) /\ InFront(p, push_r(r), push_r(q))
      BY <3>1, <3>2, Prepended, Zenon
    <3>4. 1 \in 1 .. Len(push_r(q)) /\ 1 + 1 = 2
      BY <3>2
    <3> HIDE DEF p
    <3> QED
      BY <3>1, <3>2, <3>3, <3>4 DEF InFront
  <2>6. Opens(c, p, S)
    BY <1>8
  <2> HIDE DEF u, s, p
  <2>7. Len(u) = Len(s) + 1 /\ Ending(u, s, Len(s))
    BY <2>2, <2>4 DEF Ending
  <2>8. Len(p) = Len(s) /\ \A n \in 1 .. Len(s) : p[n] = Insn("push", s[n], s[n])
    BY <2>2, <2>5
  <2>9. c \o u \in Seq(AllInsns) /\ Wound(c \o u, s, 0, S)
    BY <2>2, <2>4, <2>5, <2>6, <2>7, <2>8, OpensWound
  <2> QED
    BY <2>3, <2>9 DEF s
<1> QED
  BY <1>6, <1>7, <1>8

\* The pieces of code the builders put together.
LEMMA Pieces ==
  ASSUME NEW i \in Infos
  PROVE  /\ \A a \in Touched(i), b \in Regs :
              /\ \A o \in TwoReg : I(o, a, b) \in Seq(BodyInsns(i))
              /\ mov_rr(a, b) \in Seq(BodyInsns(i))
              /\ LoadSrc(a, i.src) \in Seq(BodyInsns(i))
              /\ a = RCX => mov_cl_reg(b) \in Seq(BodyInsns(i))
         /\ \A a \in Touched(i), n \in Nat : I("ror", a, n) \in Seq(BodyInsns(i))
         /\ I("testcl", RCX, RCX) \in Seq(BodyInsns(i))
         /\ \A a \in Regs : i.mnem = "MOVBE_st" => I("store", a, a) \in Seq(BodyInsns(i))
<1> DEFINE S == BodyInsns(i)
<1>1. \A x \in S : <<x>> \in Seq(S)
  OBVIOUS
<1>2. <<>> \in Seq(S)
  OBVIOUS
<1>3. i.src.r \in Regs /\ RCX \in Regs /\ Touched(i) \subseteq Regs
  BY TouchedRegs DEF Operands, Regs, RCX
<1>4. ASSUME NEW a \in Touched(i), NEW b \in Regs, NEW o \in TwoReg PROVE I(o, a, b) \in Seq(S)
  <2>1. [op |-> o, a |-> a, b |-> b] \in S
    BY DEF BodyInsns
  <2> QED
    BY <1>1, <2>1 DEF I
<1>5. {"mov", "load", "movcl"} \subseteq TwoReg
  BY DEF TwoReg, AluOps
<1>6. \A a \in Touched(i), b \in Regs : mov_rr(a, b) \in Seq(S)
  BY <1>2, <1>4, <1>5 DEF mov_rr
<1>7. \A a \in Touched(i) : LoadSrc(a, i.src) \in Seq(S)
  BY <1>3, <1>4, <1>5, <1>6 DEF LoadSrc
<1>8. RCX \in Touched(i) => \A b \in Regs : mov_cl_reg(b) \in Seq(S)
  BY <1>2, <1>4, <1>5 DEF mov_cl_reg
<1>9. ASSUME NEW a \in Touched(i), NEW n \in Nat PROVE I("ror", a, n) \in Seq(S)
  <2>1. [op |-> "ror", a |-> a, b |-> n] \in S
    BY DEF BodyInsns
  <2> QED
    BY <1>1, <2>1 DEF I
<1>10. I("testcl", RCX, RCX) \in Seq(S)
  <2>1. [op |-> "testcl", a |-> RCX, b |-> RCX] \in S
    BY <1>3 DEF BodyInsns
  <2> QED
    BY <1>1, <2>1 DEF I
<1>11. ASSUME NEW a \in Regs, i.mnem = "MOVBE_st" PROVE I("store", a, a) \in Seq(S)
  <2>1. [op |-> "store", a |-> a, b |-> a] \in S
    BY <1>11 DEF BodyInsns
  <2> QED
    BY <1>1, <2>1 DEF I
<1> HIDE DEF S
<1> QED
  BY <1>4, <1>6, <1>7, <1>8, <1>9, <1>10, <1>11 DEF S

\* Code without pushes.
LEMMA OpensBody ==
  ASSUME NEW S, S \subseteq AllInsns, NEW c \in Seq(S)
  PROVE  Opens(c, <<>>, S)
<1>1. c \in Seq(AllInsns)
  BY SeqMonotonic
<1>2. \A n \in 1 .. Len(c) : c[n] \in S
  BY ElementOfSeq
<1> QED
  BY <1>1, <1>2 DEF Opens

\* What a builder returns, the RET behind it, is wound around the pushes.
Built(i, c) == c \in Seq(AllInsns) /\ Wound(c, Saved(i), 0, BodyInsns(i))

\* The facts all builders need.
LEMMA BuilderFacts ==
  ASSUME NEW i \in Infos
  PROVE  /\ BodyInsns(i) \subseteq AllInsns
         /\ i.dst \in Regs /\ (i.mnem # "RORX" => i.aux \in Regs) /\ i.src.r \in Regs
         /\ {RAX, RCX, RDX} \subseteq Regs
         /\ i.mnem # "MOVBE_st" => i.dst \in Touched(i)
         /\ \A r \in Regs : push_r(r) \in Seq(AllInsns)
         /\ \A n \in 1 .. Len(Saved(i)) : Saved(i)[n] \in Touched(i)
<1>1. BodyInsns(i) \subseteq AllInsns
  BY BodyInsnsTyped
<1>2. i.src.r \in Regs /\ {RAX, RCX, RDX} \subseteq Regs
  BY TouchedRegs DEF Operands, Regs, RAX, RCX, RDX
<1>3. i.mnem # "MOVBE_st" => i.dst \in Touched(i)
  BY TouchedRegs DEF Written
<1>4. Regs \subseteq Nat /\ "push" \in AllOps
  BY DEF Regs, AllOps
<1>5. ASSUME NEW r \in Regs PROVE push_r(r) \in Seq(AllInsns)
  <2>1. [op |-> "push", a |-> r, b |-> r] \in AllInsns
    BY <1>4 DEF AllInsns
  <2> QED
    BY <2>1 DEF push_r, I
<1> QED
  BY <1>1, <1>2, <1>3, <1>5, TouchedRegs

\* SHLX, SHRX and SARX.
LEMMA ShiftCode ==
  ASSUME NEW i \in Infos, i.mnem \in Shifts
  PROVE  Built(i, MakeShift(i) \o ret)
<1> DEFINE S == BodyInsns(i)
<1>1. /\ S \subseteq AllInsns /\ i.dst \in Regs /\ i.aux \in Regs /\ RAX \in Regs /\ RCX \in Regs
      /\ i.dst \in Touched(i)
      /\ push_r(RAX) \in Seq(AllInsns) /\ push_r(RCX) \in Seq(AllInsns)
      /\ i.mnem # "RORX" /\ i.mnem # "MOVBE_st"
  BY BuilderFacts DEF Shifts
<1>2. i.mnem \in TwoReg /\ "mov" \in TwoReg
  BY DEF TwoReg, AluOps, Shifts
<1> HIDE DEF S
<1>3. CASE i.aux = RCX
  <2>1. LoadSrc(i.dst, i.src) \in Seq(S) /\ I(i.mnem, i.dst, RCX) \in Seq(S)
    BY <1>1, <1>2, Pieces, Zenon DEF S
  <2>2. Opens(LoadSrc(i.dst, i.src), <<>>, S)
    BY <1>1, <2>1, OpensBody
  <2>3. Opens(LoadSrc(i.dst, i.src) \o I(i.mnem, i.dst, RCX), <<>>, S)
    BY <1>1, <2>1, <2>2, EmptySeq, OpensAppend, Zenon
  <2>4. Saved(i) = <<>>
    BY <1>3 DEF Saved
  <2> QED
    BY <1>1, <1>3, <2>3, <2>4, Closings, Zenon DEF MakeShift, Built, S
<1>4. CASE i.aux # RCX /\ i.dst = RCX
  <2> DEFINE p == push_r(RAX)
  <2>1. Saved(i) = <<RAX>>
    BY <1>4 DEF Saved
  <2>2. RAX \in Touched(i)
    <3>1. 1 \in 1 .. Len(Saved(i)) /\ Saved(i)[1] = RAX
      BY <2>1
    <3> QED
      BY <3>1, BuilderFacts
  <2>3. /\ LoadSrc(RAX, i.src) \in Seq(S) /\ mov_cl_reg(i.aux) \in Seq(S)
        /\ I(i.mnem, RAX, RCX) \in Seq(S) /\ mov_rr(RCX, RAX) \in Seq(S)
    BY <1>1, <1>2, <1>4, <2>2, Pieces, Zenon DEF S
  <2>4. Opens(p, p, S)
    BY <1>1, OpensSelf
  <2>5. Opens(p \o LoadSrc(RAX, i.src), p, S)
    BY <1>1, <2>3, <2>4, OpensAppend, Zenon
  <2>6. Opens(p \o LoadSrc(RAX, i.src) \o mov_cl_reg(i.aux), p, S)
    BY <1>1, <2>3, <2>5, OpensAppend, Zenon
  <2>7. Opens(p \o LoadSrc(RAX, i.src) \o mov_cl_reg(i.aux) \o I(i.mnem, RAX, RCX), p, S)
    BY <1>1, <2>3, <2>6, OpensAppend, Zenon
  <2>8. Opens(p \o LoadSrc(RAX, i.src) \o mov_cl_reg(i.aux) \o I(i.mnem, RAX, RCX)
              \o mov_rr(RCX, RAX), p, S)
    BY <1>1, <2>3, <2>7, OpensAppend, Zenon
  <2> QED
    BY <1>1, <1>4, <2>1, <2>8, Closings, Zenon DEF MakeShift, Built, S
<1>5. CASE i.aux # RCX /\ i.dst # RCX
  <2> DEFINE p == push_r(RCX)
  <2>1. Saved(i) = <<RCX>>
    BY <1>5 DEF Saved
  <2>2. RCX \in Touched(i)
    <3>1. 1 \in 1 .. Len(Saved(i)) /\ Saved(i)[1] = RCX
      BY <2>1
    <3> QED
      BY <3>1, BuilderFacts
  <2>3. /\ mov_cl_reg(i.aux) \in Seq(S) /\ LoadSrc(i.dst, i.src) \in Seq(S)
        /\ I(i.mnem, i.dst, RCX) \in Seq(S)
    BY <1>1, <1>2, <2>2, Pieces, Zenon DEF S
  <2>4. Opens(p, p, S)
    BY <1>1, OpensSelf
  <2>5. Opens(p \o mov_cl_reg(i.aux), p, S)
    BY <1>1, <2>3, <2>4, OpensAppend, Zenon
  <2>6. Opens(p \o mov_cl_reg(i.aux) \o LoadSrc(i.dst, i.src), p, S)
    BY <1>1, <2>3, <2>5, OpensAppend, Zenon
  <2>7. Opens(p \o mov_cl_reg(i.aux) \o LoadSrc(i.dst, i.src) \o I(i.mnem, i.dst, RCX), p, S)
    BY <1>1, <2>3, <2>6, OpensAppend, Zenon
  <2> QED
    BY <1>1, <1>5, <2>1, <2>7, Closings, Zenon DEF MakeShift, Built, S
<1> QED
  BY <1>3, <1>4, <1>5

\* RORX.
LEMMA RorxCode ==
  ASSUME NEW i \in Infos, i.mnem = "RORX"
  PROVE  Built(i, MakeRorx(i) \o ret)
<1> DEFINE S == BodyInsns(i)
<1>1. /\ S \subseteq AllInsns /\ i.dst \in Touched(i) /\ RAX \in Regs
  BY BuilderFacts
<1>2. i.aux \in Nat
  BY TouchedRegs
<1> HIDE DEF S
<1>3. LoadSrc(i.dst, i.src) \in Seq(S) /\ I("ror", i.dst, i.aux) \in Seq(S)
  BY <1>1, <1>2, Pieces, Zenon DEF S
<1>4. Opens(LoadSrc(i.dst, i.src), <<>>, S)
  BY <1>1, <1>3, OpensBody
<1>5. Opens(LoadSrc(i.dst, i.src) \o I("ror", i.dst, i.aux), <<>>, S)
  BY <1>1, <1>3, <1>4, EmptySeq, OpensAppend, Zenon
<1>6. Saved(i) = <<>>
  BY DEF Saved, Shifts, BlsOps
<1> QED
  BY <1>1, <1>5, <1>6, Closings, Zenon DEF MakeRorx, Built, S

\* ANDN.
LEMMA AndnCode ==
  ASSUME NEW i \in Infos, i.mnem = "ANDN"
  PROVE  Built(i, MakeAndn(i) \o ret)
<1> DEFINE S == BodyInsns(i)
           tmp == PickTmp({i.dst, i.aux} \union SrcReg(i.src))
           and == IF i.src.kind = "reg" THEN I("and", tmp, i.src.r) ELSE I("andmem", tmp, tmp)
           p == push_r(tmp)
<1>1. /\ S \subseteq AllInsns /\ i.dst \in Regs /\ i.aux \in Regs /\ i.src.r \in Regs
      /\ i.dst \in Touched(i) /\ RAX \in Regs
  BY BuilderFacts
<1>2. {"mov", "not", "and", "andmem"} \subseteq TwoReg
  BY DEF TwoReg, AluOps, Shifts
<1>3. Saved(i) = <<tmp>>
  BY DEF Saved, Shifts, BlsOps
<1>4. tmp \in Touched(i) /\ tmp \in Regs
  <2> HIDE DEF tmp
  <2>1. 1 \in 1 .. Len(Saved(i)) /\ Saved(i)[1] = tmp
    BY <1>3
  <2> QED
    BY <2>1, BuilderFacts, TouchedRegs
<1>5. MakeAndn(i) = p \o mov_rr(tmp, i.aux) \o I("not", tmp, tmp) \o and
                      \o mov_rr(i.dst, tmp) \o pop_r(tmp)
  BY DEF MakeAndn
<1> HIDE DEF S, tmp
<1>6. and \in Seq(S)
  BY <1>1, <1>2, <1>4, Pieces, Zenon DEF S
<1> HIDE DEF and
<1>7. /\ mov_rr(tmp, i.aux) \in Seq(S) /\ I("not", tmp, tmp) \in Seq(S)
      /\ mov_rr(i.dst, tmp) \in Seq(S)
  BY <1>1, <1>2, <1>4, Pieces, Zenon DEF S
<1>8. p \in Seq(AllInsns)
  BY <1>4, BuilderFacts
<1>9. Opens(p, p, S)
  BY <1>8, OpensSelf
<1>10. Opens(p \o mov_rr(tmp, i.aux), p, S)
  BY <1>1, <1>6, <1>7, <1>8, <1>9, OpensAppend, Zenon
<1>11. Opens(p \o mov_rr(tmp, i.aux) \o I("not", tmp, tmp), p, S)
  BY <1>1, <1>6, <1>7, <1>8, <1>10, OpensAppend, Zenon
<1>12. Opens(p \o mov_rr(tmp, i.aux) \o I("not", tmp, tmp) \o and, p, S)
  BY <1>1, <1>6, <1>7, <1>8, <1>11, OpensAppend, Zenon
<1>13. Opens(p \o mov_rr(tmp, i.aux) \o I("not", tmp, tmp) \o and \o mov_rr(i.dst, tmp), p, S)
  BY <1>1, <1>6, <1>7, <1>8, <1>12, OpensAppend, Zenon
<1> QED
  BY <1>1, <1>3, <1>4, <1>5, <1>13, Closings, Zenon DEF Built, S

\* BLSR, BLSMSK and BLSI.
LEMMA BlsCode ==
  ASSUME NEW i \in Infos, i.mnem \in BlsOps
  PROVE  Built(i, MakeBls(i) \o ret)
<1> DEFINE S == BodyInsns(i)
           tmp == PickTmp({i.dst} \union SrcReg(i.src))
           last == CASE i.mnem = "BLSR"   -> I("dec", i.dst, i.dst) \o I("and", i.dst, tmp)
                     [] i.mnem = "BLSMSK" -> I("dec", i.dst, i.dst) \o I("xor", i.dst, tmp)
                     [] i.mnem = "BLSI"   -> I("neg", tmp, tmp) \o I("and", i.dst, tmp)
           p == push_r(tmp)
<1>1. /\ S \subseteq AllInsns /\ i.dst \in Regs /\ i.src.r \in Regs
      /\ i.dst \in Touched(i) /\ RAX \in Regs
  BY BuilderFacts DEF BlsOps
<1>2. {"mov", "dec", "and", "xor", "neg"} \subseteq TwoReg
  BY DEF TwoReg, AluOps, Shifts
<1>3. Saved(i) = <<tmp>>
  BY DEF Saved, Shifts, BlsOps
<1>4. tmp \in Touched(i) /\ tmp \in Regs
  <2> HIDE DEF tmp
  <2>1. 1 \in 1 .. Len(Saved(i)) /\ Saved(i)[1] = tmp
    BY <1>3
  <2> QED
    BY <2>1, BuilderFacts, TouchedRegs
<1>5. MakeBls(i) = p \o LoadSrc(tmp, i.src) \o mov_rr(i.dst, tmp) \o last \o pop_r(tmp)
  BY DEF MakeBls
<1> HIDE DEF S, tmp
<1>6. /\ I("dec", i.dst, i.dst) \in Seq(S) /\ I("and", i.dst, tmp) \in Seq(S)
      /\ I("xor", i.dst, tmp) \in Seq(S) /\ I("neg", tmp, tmp) \in Seq(S)
      /\ LoadSrc(tmp, i.src) \in Seq(S) /\ mov_rr(i.dst, tmp) \in Seq(S)
  BY <1>1, <1>2, <1>4, Pieces, Zenon DEF S
<1>7. last \in Seq(S)
  <2>1. /\ I("dec", i.dst, i.dst) \o I("and", i.dst, tmp) \in Seq(S)
        /\ I("dec", i.dst, i.dst) \o I("xor", i.dst, tmp) \in Seq(S)
        /\ I("neg", tmp, tmp) \o I("and", i.dst, tmp) \in Seq(S)
    BY <1>6, ConcatProperties, Zenon
  <2> QED
    BY <2>1 DEF BlsOps
<1> HIDE DEF last
<1>8. p \in Seq(AllInsns)
  BY <1>4, BuilderFacts
<1>9. Opens(p, p, S)
  BY <1>8, OpensSelf
<1>10. Opens(p \o LoadSrc(tmp, i.src), p, S)
  BY <1>1, <1>6, <1>7, <1>8, <1>9, OpensAppend, Zenon
<1>11. Opens(p \o LoadSrc(tmp, i.src) \o mov_rr(i.dst, tmp), p, S)
  BY <1>1, <1>6, <1>7, <1>8, <1>10, OpensAppend, Zenon
<1>12. Opens(p \o LoadSrc(tmp, i.src) \o mov_rr(i.dst, tmp) \o last, p, S)
  BY <1>1, <1>6, <1>7, <1>8, <1>11, OpensAppend, Zenon
<1> QED
  BY <1>1, <1>3, <1>4, <1>5, <1>12, Closings, Zenon DEF Built, S

\* BZHI.
LEMMA BzhiCode ==
  ASSUME NEW i \in Infos, i.mnem = "BZHI"
  PROVE  Built(i, MakeBzhi(i) \o ret)
<1> DEFINE S == BodyInsns(i)
           tmp == PickTmp({i.dst, i.aux, RCX} \union SrcReg(i.src))
           p == push_r(RCX) \o push_r(tmp)
<1>1. /\ S \subseteq AllInsns /\ i.dst \in Regs /\ i.aux \in Regs /\ RCX \in Regs
      /\ i.dst \in Touched(i)
  BY BuilderFacts
<1>2. {"mov", "orcl", "ones", "SHLX", "not", "and"} \subseteq TwoReg
  BY DEF TwoReg, AluOps, Shifts
<1>3. Saved(i) = <<RCX, tmp>>
  BY DEF Saved, Shifts, BlsOps
<1>4. tmp \in Touched(i) /\ tmp \in Regs /\ RCX \in Touched(i)
  <2> HIDE DEF tmp
  <2>1. /\ 1 \in 1 .. Len(Saved(i)) /\ Saved(i)[1] = RCX
        /\ 2 \in 1 .. Len(Saved(i)) /\ Saved(i)[2] = tmp
    BY <1>3
  <2> QED
    BY <2>1, BuilderFacts, TouchedRegs
<1>5. MakeBzhi(i) = p \o mov_rr(RCX, i.aux) \o I("orcl", RCX, RCX) \o LoadSrc(i.dst, i.src)
                      \o I("ones", tmp, tmp) \o I("SHLX", tmp, RCX) \o I("not", tmp, tmp)
                      \o I("testcl", RCX, RCX) \o I("and", i.dst, tmp) \o pop_r(tmp) \o pop_r(RCX)
  BY DEF MakeBzhi
<1> HIDE DEF S, tmp
<1>6. /\ mov_rr(RCX, i.aux) \in Seq(S) /\ I("orcl", RCX, RCX) \in Seq(S)
      /\ LoadSrc(i.dst, i.src) \in Seq(S) /\ I("ones", tmp, tmp) \in Seq(S)
      /\ I("SHLX", tmp, RCX) \in Seq(S) /\ I("not", tmp, tmp) \in Seq(S)
  BY <1>1, <1>2, <1>4, Pieces, Zenon DEF S
<1>7. I("testcl", RCX, RCX) \in Seq(S) /\ I("and", i.dst, tmp) \in Seq(S)
  BY <1>1, <1>2, <1>4, Pieces, Zenon DEF S
<1>8. p \in Seq(AllInsns)
  <2>1. push_r(RCX) \in Seq(AllInsns) /\ push_r(tmp) \in Seq(AllInsns)
    BY <1>1, <1>4, BuilderFacts
  <2> QED
    BY <2>1, ConcatProperties, Zenon
<1>9. Opens(p, p, S)
  BY <1>8, OpensSelf, Zenon
<1>10. Opens(p \o mov_rr(RCX, i.aux), p, S)
  BY <1>1, <1>6, <1>7, <1>8, <1>9, OpensAppend, Zenon
<1>11. Opens(p \o mov_rr(RCX, i.aux) \o I("orcl", RCX, RCX), p, S)
  BY <1>1, <1>6, <1>7, <1>8, <1>10, OpensAppend, Zenon
<1>12. Opens(p \o mov_rr(RCX, i.aux) \o I("orcl", RCX, RCX) \o LoadSrc(i.dst, i.src), p, S)
  BY <1>1, <1>6, <1>7, <1>8, <1>11, OpensAppend, Zenon
<1>13. Opens(p \o mov_rr(RCX, i.aux) \o I("orcl", RCX, RCX) \o LoadSrc(i.dst, i.src)
            \o I("ones", tmp, tmp), p, S)
  BY <1>1, <1>6, <1>7, <1>8, <1>12, OpensAppend, Zenon
<1>14. Opens(p \o mov_rr(RCX, i.aux) \o I("orcl", RCX, RCX) \o LoadSrc(i.dst, i.src)
            \o I("ones", tmp, tmp) \o I("SHLX", tmp, RCX), p, S)
  BY <1>1, <1>6, <1>7, <1>8, <1>13, OpensAppend, Zenon
<1>15. Opens(p \o mov_rr(RCX, i.aux) \o I("orcl", RCX, RCX) \o LoadSrc(i.dst, i.src)
            \o I("ones", tmp, tmp) \o I("SHLX", tmp, RCX) \o I("not", tmp, tmp), p, S)
  BY <1>1, <1>6, <1>7, <1>8, <1>14, OpensAppend, Zenon
<1>16. Opens(p \o mov_rr(RCX, i.aux) \o I("orcl", RCX, RCX) \o LoadSrc(i.dst, i.src)
            \o I("ones", tmp, tmp) \o I("SHLX", tmp, RCX) \o I("not", tmp, tmp)
                        \o I("testcl", RCX, RCX), p, S)
  BY <1>1, <1>6, <1>7, <1>8, <1>15, OpensAppend, Zenon
<1>17. Opens(p \o mov_rr(RCX, i.aux) \o I("orcl", RCX, RCX) \o LoadSrc(i.dst, i.src)
            \o I("ones", tmp, tmp) \o I("SHLX", tmp, RCX) \o I("not", tmp, tmp)
                        \o I("testcl", RCX, RCX) \o I("and", i.dst, tmp), p, S)
  BY <1>1, <1>6, <1>7, <1>8, <1>16, OpensAppend, Zenon
<1> QED
  BY <1>1, <1>3, <1>4, <1>5, <1>17, Closings, Zenon DEF Built, S

\* MOVBE.
LEMMA MovbeCode ==
  ASSUME NEW i \in Infos, i.mnem \in {"MOVBE_ld", "MOVBE_st"}
  PROVE  Built(i, MakeMovbe(i) \o ret)
<1> DEFINE S == BodyInsns(i)
           base == IF i.src.kind \in {"mem", "idx"} THEN {i.src.r} ELSE {}
           tmp == PickTmp({i.dst} \union base)
           p == push_r(tmp)
<1>1. /\ S \subseteq AllInsns /\ i.dst \in Regs /\ RAX \in Regs
      /\ i.mnem = "MOVBE_ld" => i.dst \in Touched(i)
  BY BuilderFacts
<1>2. {"mov", "loadsib", "bswap"} \subseteq TwoReg
  BY DEF TwoReg, AluOps, Shifts
<1>3. CASE i.mnem = "MOVBE_ld"
  <2> DEFINE c == I("loadsib", i.dst, i.dst)
  <2>1. c \in Seq(S) /\ I("bswap", i.dst, i.dst) \in Seq(S)
    BY <1>1, <1>2, <1>3, Pieces, Zenon
  <2>2. Saved(i) = <<>>
    BY <1>3 DEF Saved, Shifts, BlsOps
  <2>3. MakeMovbe(i) = c \o I("bswap", i.dst, i.dst)
    BY <1>3 DEF MakeMovbe
  <2> HIDE DEF S
  <2>4. Opens(c, <<>>, S)
    BY <1>1, <2>1, OpensBody
  <2>5. Opens(c \o I("bswap", i.dst, i.dst), <<>>, S)
    BY <1>1, <2>1, <2>4, EmptySeq, OpensAppend, Zenon
  <2> QED
    BY <1>1, <2>2, <2>3, <2>5, Closings, Zenon DEF Built, S
<1>4. CASE i.mnem = "MOVBE_st"
  <2>1. Saved(i) = <<tmp>>
    BY <1>4 DEF Saved, Shifts, BlsOps
  <2>2. tmp \in Touched(i) /\ tmp \in Regs
    <3> HIDE DEF tmp
    <3>1. 1 \in 1 .. Len(Saved(i)) /\ Saved(i)[1] = tmp
      BY <2>1
    <3> QED
      BY <3>1, BuilderFacts, TouchedRegs
  <2>3. MakeMovbe(i) = p \o mov_rr(tmp, i.dst) \o I("bswap", tmp, tmp) \o I("store", tmp, tmp)
                         \o pop_r(tmp)
    BY <1>4 DEF MakeMovbe
  <2> HIDE DEF S, tmp
  <2>4. /\ mov_rr(tmp, i.dst) \in Seq(S) /\ I("bswap", tmp, tmp) \in Seq(S)
        /\ I("store", tmp, tmp) \in Seq(S)
    BY <1>1, <1>2, <1>4, <2>2, Pieces, Zenon DEF S
  <2>5. p \in Seq(AllInsns)
    BY <2>2, BuilderFacts
  <2>6. Opens(p, p, S)
    BY <2>5, OpensSelf
  <2>7. Opens(p \o mov_rr(tmp, i.dst), p, S)
    BY <1>1, <2>4, <2>5, <2>6, OpensAppend, Zenon
  <2>8. Opens(p \o mov_rr(tmp, i.dst) \o I("bswap", tmp, tmp), p, S)
    BY <1>1, <2>4, <2>5, <2>7, OpensAppend, Zenon
  <2>9. Opens(p \o mov_rr(tmp, i.dst) \o I("bswap", tmp, tmp) \o I("store", tmp, tmp), p, S)
    BY <1>1, <2>4, <2>5, <2>8, OpensAppend, Zenon
  <2> QED
    BY <1>1, <2>1, <2>2, <2>3, <2>9, Closings, Zenon DEF Built, S
<1> QED
  BY <1>3, <1>4

\* Code that restores the registers of X, each once, and returns.
Restores(u, X) ==
  /\ u \in Seq(AllInsns) /\ MulxOrder(u)
  /\ \A n \in 1 .. Len(u) : u[n].op = "ret" \/ (u[n].op = "restore" /\ u[n].a \in X)
  /\ \A r \in X : Pending(u, "restore", r)

\* A RET restores nothing.
LEMMA RestoresNone == Restores(ret, {})
<1>1. [op |-> "ret", a |-> RAX, b |-> RAX] \in AllInsns
  BY DEF AllInsns, AllOps, Regs, RAX
<1>2. ret \in Seq(AllInsns) /\ Len(ret) = 1 /\ ret[1].op = "ret"
  BY <1>1 DEF ret, I
<1>3. MulxOrder(ret)
  BY <1>2 DEF MulxOrder
<1>4. \A n \in 1 .. Len(ret) : ret[n].op = "ret"
  BY <1>2
<1> QED
  BY <1>2, <1>3, <1>4 DEF Restores

\* One more register restored first.
LEMMA RestoresMore ==
  ASSUME NEW X, NEW b, Restores(b, X), NEW r \in Regs \ X, NEW n \in Nat
  PROVE  Restores(I("restore", r, n) \o b, X \union {r})
<1> DEFINE a == I("restore", r, n)
           u == a \o b
<1>1. [op |-> "restore", a |-> r, b |-> n] \in AllInsns
  BY DEF AllInsns, AllOps, AluOps
<1>2. a \in Seq(AllInsns) /\ Len(a) = 1 /\ a[1].op = "restore" /\ a[1].a = r
  BY <1>1 DEF I
<1>3. b \in Seq(AllInsns) /\ Len(b) \in Nat
  BY DEF Restores
<1>4. u \in Seq(AllInsns) /\ InFront(u, a, b)
  BY <1>2, <1>3, Prepended, Zenon
<1> HIDE DEF a, u
<1>5. /\ Len(u) = Len(b) + 1 /\ u[1].op = "restore" /\ u[1].a = r
      /\ \A k \in 1 .. Len(b) : u[k + 1] = b[k]
  BY <1>2, <1>4 DEF InFront
<1>6. ASSUME NEW k \in 1 .. Len(u), k # 1
      PROVE  k - 1 \in 1 .. Len(b) /\ u[k] = b[k - 1]
  <2>1. k - 1 \in 1 .. Len(b) /\ k - 1 + 1 = k
    BY <1>3, <1>5, <1>6
  <2> QED
    BY <1>5, <2>1
<1>7. \A k \in 1 .. Len(b) : b[k].op = "ret" \/ (b[k].op = "restore" /\ b[k].a \in X)
  BY DEF Restores
<1>8. MulxOrder(u)
  <2> SUFFICES ASSUME NEW m \in 1 .. Len(u), NEW k \in 1 .. Len(u), m < k
               PROVE  /\ u[k].op = "save" => u[m].op = "save" /\ u[m].a # u[k].a
                      /\ u[m].op = "restore" =>
                           u[k].op = "ret" \/ (u[k].op = "restore" /\ u[m].a # u[k].a)
    BY DEF MulxOrder
  <2>1. k # 1 /\ k - 1 \in 1 .. Len(b) /\ u[k] = b[k - 1]
    BY <1>6
  <2>2. CASE m = 1
    BY <1>5, <1>7, <2>1, <2>2
  <2>3. CASE m # 1
    <3>1. m - 1 \in 1 .. Len(b) /\ u[m] = b[m - 1] /\ m - 1 < k - 1
      BY <1>6, <2>3
    <3> QED
      BY <2>1, <3>1 DEF Restores, MulxOrder
  <2> QED
    BY <2>2, <2>3
<1>9. ASSUME NEW k \in 1 .. Len(u)
      PROVE  u[k].op = "ret" \/ (u[k].op = "restore" /\ u[k].a \in X \union {r})
  BY <1>5, <1>6, <1>7
<1>10. ASSUME NEW q \in X \union {r} PROVE Pending(u, "restore", q)
  <2>1. CASE q = r
    <3>1. 1 \in 1 .. Len(u)
      BY <1>3, <1>5
    <3> QED
      BY <1>5, <2>1, <3>1 DEF Pending
  <2>2. CASE q \in X
    <3>1. PICK k \in 1 .. Len(b) : b[k].op = "restore" /\ b[k].a = q
      BY <2>2 DEF Restores, Pending
    <3>2. k + 1 \in 1 .. Len(u) /\ u[k + 1] = b[k]
      BY <1>3, <1>5
    <3> QED
      BY <3>1, <3>2 DEF Pending
  <2> QED
    BY <2>1, <2>2
<1> QED
  BY <1>4, <1>8, <1>9, <1>10 DEF Restores, u, a

\* The stub of MULX: both saves, then neither saves nor restores, then
\* restores.
Mid(i) == {x \in BodyInsns(i) : x.op \notin {"save", "restore"}}

\* Such code saves before anything else and restores at the end.
LEMMA MulxShape ==
  ASSUME NEW i \in Infos, NEW p \in Seq(AllInsns), Len(p) = 2,
         p[1] = Insn("save", RAX, 1), p[2] = Insn("save", RDX, 2),
         NEW c, Opens(c, p, Mid(i)), NEW u, NEW X, Restores(u, X)
  PROVE  /\ MulxOrder(c \o u)
         /\ Pending(c \o u, "save", RAX) /\ Pending(c \o u, "save", RDX)
         /\ \A r \in X : Pending(c \o u, "restore", r)
<1> DEFINE t == c \o u
           l == Len(c)
<1>1. c \in Seq(AllInsns) /\ u \in Seq(AllInsns)
  BY DEF Opens, Restores
<1>2. t \in Seq(AllInsns) /\ Len(t) = l + Len(u) /\ Len(u) \in Nat /\ l \in Nat /\ l >= 2
  BY <1>1, ConcatProperties DEF Opens
<1>3. ASSUME NEW n \in 1 .. l + Len(u)
      PROVE  t[n] = IF n <= l THEN c[n] ELSE u[n - l]
  BY <1>1, ConcatProperties
<1>4. /\ c[1] = Insn("save", RAX, 1) /\ c[2] = Insn("save", RDX, 2)
      /\ \A n \in 3 .. l : c[n].op \notin {"save", "restore"}
  BY DEF Opens, Mid
<1> HIDE DEF t, l
<1>5. ASSUME NEW n \in 1 .. Len(t), n <= l PROVE t[n] = c[n]
  BY <1>2, <1>3, <1>5
<1>6. ASSUME NEW n \in 1 .. Len(t), ~(n <= l)
      PROVE  n - l \in 1 .. Len(u) /\ t[n] = u[n - l]
  BY <1>2, <1>3, <1>6
<1>7. \A n \in 1 .. l : c[n].op # "restore" /\ (c[n].op = "save" => n \in {1, 2})
  <2> SUFFICES ASSUME NEW n \in 1 .. l
               PROVE  c[n].op # "restore" /\ (c[n].op = "save" => n \in {1, 2})
    OBVIOUS
  <2>1. n = 1 \/ n = 2 \/ n \in 3 .. l
    BY <1>2
  <2> QED
    BY <1>4, <2>1 DEF Insn
<1>8. c[1].a = RAX /\ c[2].a = RDX /\ RAX # RDX /\ c[1].op = "save" /\ c[2].op = "save"
  BY <1>4 DEF Insn, RAX, RDX
<1>9. \A n \in 1 .. Len(u) : u[n].op \in {"restore", "ret"}
  BY DEF Restores
<1>10. MulxOrder(t)
  <2> SUFFICES ASSUME NEW m \in 1 .. Len(t), NEW n \in 1 .. Len(t), m < n
               PROVE  /\ t[n].op = "save" => t[m].op = "save" /\ t[m].a # t[n].a
                      /\ t[m].op = "restore" =>
                           t[n].op = "ret" \/ (t[n].op = "restore" /\ t[m].a # t[n].a)
    BY DEF MulxOrder
  <2>1. CASE n <= l
    <3>1. m \in 1 .. l /\ n \in 1 .. l /\ m <= l
      BY <1>2, <2>1
    <3>2. t[m] = c[m] /\ t[n] = c[n]
      BY <1>5, <2>1, <3>1
    <3>3. c[n].op = "save" => m = 1 /\ n = 2
      BY <1>7, <3>1
    <3> QED
      BY <1>7, <1>8, <3>1, <3>2, <3>3
  <2>2. CASE ~(n <= l) /\ m <= l
    <3>1. t[m] = c[m] /\ m \in 1 .. l
      BY <1>2, <1>5, <2>2
    <3>2. t[n].op \in {"restore", "ret"}
      BY <1>6, <1>9, <2>2
    <3> QED
      BY <1>7, <3>1, <3>2
  <2>3. CASE ~(n <= l) /\ ~(m <= l)
    <3>1. /\ m - l \in 1 .. Len(u) /\ n - l \in 1 .. Len(u) /\ m - l < n - l
          /\ t[m] = u[m - l] /\ t[n] = u[n - l]
      BY <1>2, <1>6, <2>3
    <3> QED
      BY <3>1 DEF Restores, MulxOrder
  <2> QED
    BY <2>1, <2>2, <2>3
<1>11. Pending(t, "save", RAX) /\ Pending(t, "save", RDX)
  <2>1. 1 \in 1 .. Len(t) /\ 2 \in 1 .. Len(t) /\ t[1] = c[1] /\ t[2] = c[2]
    BY <1>2, <1>5
  <2> QED
    BY <1>8, <2>1 DEF Pending
<1>12. ASSUME NEW r \in X PROVE Pending(t, "restore", r)
  <2>1. PICK n \in 1 .. Len(u) : u[n].op = "restore" /\ u[n].a = r
    BY DEF Restores, Pending
  <2> DEFINE k == n + l
  <2>2. k \in 1 .. Len(t) /\ ~(k <= l) /\ k - l = n
    BY <1>2
  <2> HIDE DEF k
  <2>3. t[k] = u[n]
    BY <1>6, <2>2
  <2> QED
    BY <2>1, <2>2, <2>3 DEF Pending
<1> QED
  BY <1>10, <1>11, <1>12 DEF t

\* MULX.
LEMMA MulxCode ==
  ASSUME NEW i \in Infos, i.mnem = "MULX"
  PROVE  LET c == MakeMulx(i) \o ret
         IN  /\ Built(i, c) /\ MulxOrder(c)
             /\ Pending(c, "save", RAX) /\ Pending(c, "save", RDX)
             /\ \A r \in {RAX, RDX} \ {i.dst, i.aux} : Pending(c, "restore", r)
<1> DEFINE S == BodyInsns(i)
           M == Mid(i)
           p == I("save", RAX, 1) \o I("save", RDX, 2)
           mul == IF i.src.kind = "reg" THEN I("mul", i.src.r, RAX) ELSE I("mulmem", RAX, RAX)
           r1 == IF RAX \in {i.dst, i.aux} THEN <<>> ELSE I("restore", RAX, 1)
           r2 == IF RDX \in {i.dst, i.aux} THEN <<>> ELSE I("restore", RDX, 2)
           X2 == {RDX} \ {i.dst, i.aux}
           X1 == {RAX, RDX} \ {i.dst, i.aux}
<1>1. MakeMulx(i) = p \o mov_rr(RAX, RDX) \o mul \o mov_rr(i.dst, RAX) \o mov_rr(i.aux, RDX)
                      \o r1 \o r2
  BY DEF MakeMulx
<1>2. /\ S \subseteq AllInsns /\ M \subseteq S
      /\ i.dst \in Regs /\ i.aux \in Regs /\ i.src.r \in Regs /\ RAX \in Regs /\ RDX \in Regs
  BY BuilderFacts DEF Mid
<1>3. {i.dst, i.aux, RAX, RDX} \subseteq Touched(i)
  BY DEF Touched, Written
<1>4. RAX # RDX
  BY DEF RAX, RDX
<1>5. /\ {[op |-> "save", a |-> RAX, b |-> 1], [op |-> "save", a |-> RDX, b |-> 2],
          [op |-> "restore", a |-> RAX, b |-> 1], [op |-> "restore", a |-> RDX, b |-> 2]} \subseteq S
  BY <1>4 DEF BodyInsns, Insn
<1>6. ASSUME NEW a \in Touched(i), NEW b \in Regs PROVE mov_rr(a, b) \in Seq(M)
  <2>1. [op |-> "mov", a |-> a, b |-> b] \in M
    BY DEF Mid, BodyInsns, TwoReg, AluOps
  <2> HIDE DEF M
  <2> QED
    BY <2>1 DEF mov_rr, I
<1>7. mul \in Seq(M)
  <2>1. /\ [op |-> "mul", a |-> i.src.r, b |-> RAX] \in M
        /\ [op |-> "mulmem", a |-> RAX, b |-> RAX] \in M
    BY <1>2 DEF Mid, BodyInsns
  <2> HIDE DEF M
  <2> QED
    BY <2>1 DEF I
<1> HIDE DEF S, M, mul
<1>8. /\ I("save", RAX, 1) \in Seq(S) /\ Len(I("save", RAX, 1)) = 1
      /\ I("save", RAX, 1)[1] = Insn("save", RAX, 1)
      /\ I("save", RDX, 2) \in Seq(S) /\ Len(I("save", RDX, 2)) = 1
      /\ I("save", RDX, 2)[1] = Insn("save", RDX, 2)
  BY <1>5 DEF I, Insn
<1>9. /\ p \in Seq(S) /\ Len(p) = 2
      /\ p[1] = Insn("save", RAX, 1) /\ p[2] = Insn("save", RDX, 2)
  <2>1. p \in Seq(S) /\ InFront(p, I("save", RAX, 1), I("save", RDX, 2))
    BY <1>8, Prepended, Zenon
  <2>2. 1 \in 1 .. Len(I("save", RDX, 2)) /\ 1 + 1 = 2
    BY <1>8
  <2> HIDE DEF p
  <2> QED
    BY <1>8, <2>1, <2>2 DEF InFront
<1>10. p \in Seq(AllInsns) /\ M \subseteq AllInsns
  BY <1>2, <1>9, SeqMonotonic
<1>11. /\ mov_rr(RAX, RDX) \in Seq(M) /\ mov_rr(i.dst, RAX) \in Seq(M)
       /\ mov_rr(i.aux, RDX) \in Seq(M)
  BY <1>2, <1>3, <1>6
<1>12. /\ mov_rr(RAX, RDX) \in Seq(S) /\ mov_rr(i.dst, RAX) \in Seq(S)
       /\ mov_rr(i.aux, RDX) \in Seq(S) /\ mul \in Seq(S)
  BY <1>2, <1>7, <1>11, SeqMonotonic
<1>13. r1 \in Seq(S) /\ r2 \in Seq(S)
  BY <1>5, EmptySeq DEF I
<1>14. Restores(r2 \o ret, X2)
  <2>1. CASE RDX \in {i.dst, i.aux}
    <3>1. r2 \o ret = ret /\ X2 = {}
      <4>1. ret \in Seq(AllInsns)
        BY RestoresNone DEF Restores
      <4> QED
        BY <2>1, <4>1
    <3> QED
      BY <3>1, RestoresNone
  <2>2. CASE RDX \notin {i.dst, i.aux}
    <3>1. X2 = {} \union {RDX} /\ r2 = I("restore", RDX, 2) /\ RDX \in Regs \ {} /\ 2 \in Nat
      BY <1>2, <2>2
    <3> HIDE DEF X2, r2
    <3> QED
      BY <3>1, RestoresNone, RestoresMore, Zenon
  <2> QED
    BY <2>1, <2>2
<1>15. Restores(r1 \o (r2 \o ret), X1)
  <2> HIDE DEF r2
  <2>1. CASE RAX \in {i.dst, i.aux}
    <3>1. r1 \o (r2 \o ret) = r2 \o ret /\ X1 = X2
      <4>1. r2 \o ret \in Seq(AllInsns)
        BY <1>14 DEF Restores
      <4> QED
        BY <2>1, <4>1
    <3> QED
      BY <1>14, <3>1
  <2>2. CASE RAX \notin {i.dst, i.aux}
    <3>1. /\ X1 = X2 \union {RAX} /\ r1 = I("restore", RAX, 1) /\ RAX \in Regs \ X2
          /\ 1 \in Nat
      BY <1>2, <1>4, <2>2
    <3> HIDE DEF X1, X2, r1
    <3> QED
      BY <1>14, <3>1, RestoresMore, Zenon
  <2> QED
    BY <2>1, <2>2
<1> DEFINE c == p \o mov_rr(RAX, RDX) \o mul \o mov_rr(i.dst, RAX) \o mov_rr(i.aux, RDX)
<1> HIDE DEF p, r1, r2, X1, X2
<1>16. Opens(c, p, M)
  <2>1. Opens(p, p, M)
    BY <1>10, OpensSelf
  <2>2. Opens(p \o mov_rr(RAX, RDX), p, M)
    BY <1>10, <1>11, <2>1, OpensAppend, Zenon
  <2>3. Opens(p \o mov_rr(RAX, RDX) \o mul, p, M)
    BY <1>7, <1>10, <2>2, OpensAppend, Zenon
  <2>4. Opens(p \o mov_rr(RAX, RDX) \o mul \o mov_rr(i.dst, RAX), p, M)
    BY <1>10, <1>11, <2>3, OpensAppend, Zenon
  <2> QED
    BY <1>10, <1>11, <2>4, OpensAppend, Zenon
<1>17. Opens(c \o r1 \o r2, <<>>, S)
  <2>1. c \in Seq(S) /\ c \o r1 \in Seq(S) /\ c \o r1 \o r2 \in Seq(S)
    BY <1>9, <1>12, <1>13, ConcatProperties, Zenon
  <2> QED
    BY <1>2, <2>1, OpensBody, Zenon
<1>18. Built(i, MakeMulx(i) \o ret)
  <2>1. Saved(i) = <<>>
    BY DEF Saved, Shifts, BlsOps
  <2> QED
    BY <1>1, <1>2, <1>17, <2>1, Closings, Zenon DEF Built, S
<1>19. MakeMulx(i) \o ret = c \o (r1 \o (r2 \o ret))
  <2>1. ret \in Seq(AllInsns)
    BY RestoresNone DEF Restores
  <2>2. c \in Seq(AllInsns) /\ r1 \in Seq(AllInsns) /\ r2 \in Seq(AllInsns)
    BY <1>2, <1>13, <1>16, SeqMonotonic DEF Opens
  <2> HIDE DEF c
  <2> DEFINE d == r2 \o ret
             e == c \o r1
  <2>3. d \in Seq(AllInsns) /\ e \in Seq(AllInsns)
    BY <2>1, <2>2, ConcatProperties, Zenon
  <2> HIDE DEF e
  <2>4. e \o r2 \o ret = e \o (r2 \o ret)
    BY <2>1, <2>2, <2>3, SMTT(30)
  <2> USE DEF e
  <2> HIDE DEF d
  <2>5. e \o d = c \o (r1 \o d)
    BY <2>2, <2>3
  <2> QED
    BY <1>1, <2>4, <2>5 DEF c, d
<1> HIDE DEF c
<1>20. /\ MulxOrder(MakeMulx(i) \o ret)
       /\ Pending(MakeMulx(i) \o ret, "save", RAX) /\ Pending(MakeMulx(i) \o ret, "save", RDX)
       /\ \A r \in X1 : Pending(MakeMulx(i) \o ret, "restore", r)
  BY <1>9, <1>10, <1>15, <1>16, <1>19, MulxShape, Zenon DEF M
<1> QED
  BY <1>18, <1>20 DEF X1

\* Every stub.
LEMMA StubCode ==
  ASSUME NEW i \in Infos
  PROVE  Built(i, MakeTrampoline(i))
<1>1. i.mnem \in Mnems
  BY TouchedRegs
<1>2. CASE i.mnem \in Shifts
  BY <1>2, ShiftCode DEF MakeTrampoline, Shifts, BlsOps
<1>3. CASE i.mnem \in BlsOps
  BY <1>3, BlsCode DEF MakeTrampoline, Shifts, BlsOps
<1>4. CASE i.mnem = "RORX"
  BY <1>4, RorxCode DEF MakeTrampoline, Shifts, BlsOps
<1>5. CASE i.mnem = "MULX"
  BY <1>5, MulxCode DEF MakeTrampoline, Shifts, BlsOps
<1>6. CASE i.mnem = "ANDN"
  BY <1>6, AndnCode DEF MakeTrampoline, Shifts, BlsOps
<1>7. CASE i.mnem = "BZHI"
  BY <1>7, BzhiCode DEF MakeTrampoline, Shifts, BlsOps
<1>8. CASE i.mnem \in {"MOVBE_ld", "MOVBE_st"}
  <2>1. MakeTrampoline(i) = MakeMovbe(i) \o ret
    BY <1>8 DEF MakeTrampoline, Shifts, BlsOps
  <2> QED
    BY <1>8, <2>1, MovbeCode
<1> QED
  BY <1>1, <1>2, <1>3, <1>4, <1>5, <1>6, <1>7, <1>8 DEF Mnems

-----------------------------------------------------------------------------
(* The stages of a stub. *)

\* The next instruction is a push, one of the body, a pop or the RET.
Pushes(j) ==
  LET s == Saved(info)
  IN  /\ j < Len(s) /\ op = Insn("push", s[j + 1], s[j + 1]) /\ regs = regs0
      /\ Wound(Tail(code), s, j + 1, BodyInsns(info))
Works(j) ==
  LET s == Saved(info)
  IN  /\ j = Len(s) /\ op \in BodyInsns(info)
      /\ Wound(Tail(code), s, j, BodyInsns(info))
Unwinds(j) ==
  LET s == Saved(info)
  IN  /\ Intact /\ info.mnem # "MULX" => Agree(Written(info) \union {s[n] : n \in 1 .. j})
      /\ IF j = 0 THEN op = Insn("ret", RAX, RAX) /\ Len(code) = 1
         ELSE op = Insn("pop", s[j], s[j]) /\ Len(Tail(code)) = j /\ Ending(Tail(code), s, j - 1)

\* While a stub runs it is at one of these stages.
LEMMA Stages ==
  ASSUME StubInv, phase = "run"
  PROVE  /\ code # <<>> /\ op = code[1] /\ Tail(code) \in Seq(AllInsns)
         /\ \E j \in 0 .. Len(Saved(info)) :
              /\ sp = RetSlot + j /\ Agree(Touched(info)) /\ Kept(j)
              /\ Pushes(j) \/ Works(j) \/ Unwinds(j)
<1> DEFINE s == Saved(info)
           B == BodyInsns(info)
<1>1. info \in Infos /\ code \in Seq(AllInsns) /\ RunInv
  BY DEF StubInv, StubCore, TypeInv
<1>2. s \in Seq(Regs) /\ Len(s) \in Nat /\ (info.mnem = "MULX" => s = <<>>)
  BY <1>1, SavedRegs
<1>3. PICK j \in 0 .. Len(s) :
        /\ sp = RetSlot + j /\ Agree(Touched(info)) /\ Kept(j)
        /\ \/ Wound(code, s, j, B) /\ (j < Len(s) => regs = regs0)
           \/ /\ Len(code) = j + 1 /\ Ending(code, s, j)
              /\ Intact /\ info.mnem # "MULX" => Agree(Written(info) \union {s[n] : n \in 1 .. j})
  BY <1>1 DEF RunInv
<1>4. Len(code) >= 1
  BY <1>1, <1>2, <1>3 DEF Wound
<1>5. code # <<>> /\ op = code[1] /\ Tail(code) \in Seq(AllInsns)
  BY <1>1, <1>4 DEF op
<1>6. CASE Wound(code, s, j, B) /\ j < Len(s) /\ regs = regs0
  <2>1. code[1] = Insn("push", s[j + 1], s[j + 1]) /\ Wound(Tail(code), s, j + 1, B)
    BY <1>1, <1>2, <1>6, WoundPush
  <2>2. j < Len(s) /\ op = Insn("push", s[j + 1], s[j + 1]) /\ regs = regs0
    BY <1>3, <1>5, <1>6, <2>1
  <2>3. Pushes(j)
    BY <2>1, <2>2, Zenon DEF Pushes
  <2> QED
    BY <1>3, <1>5, <2>3
<1>7. CASE Wound(code, s, j, B) /\ j = Len(s) /\ Len(code) # Len(s) + 1
  <2>1. code[1] \in B /\ Wound(Tail(code), s, Len(s), B)
    BY <1>1, <1>2, <1>7, WoundBody
  <2>2. Works(j)
    BY <1>5, <1>7, <2>1 DEF Works
  <2> QED
    BY <1>3, <1>5, <2>2
<1>8. CASE \/ Wound(code, s, j, B) /\ j = Len(s) /\ Len(code) = Len(s) + 1
           \/ /\ Len(code) = j + 1 /\ Ending(code, s, j)
              /\ Intact /\ info.mnem # "MULX" => Agree(Written(info) \union {s[n] : n \in 1 .. j})
  <2>1. Len(code) = j + 1 /\ Ending(code, s, j)
    BY <1>8 DEF Wound
  <2>2. Intact /\ info.mnem # "MULX" => Agree(Written(info) \union {s[n] : n \in 1 .. j})
    <3>1. CASE Wound(code, s, j, B) /\ j = Len(s) /\ info.mnem # "MULX"
      <4>1. Touched(info) = Written(info) \union {s[n] : n \in 1 .. j}
        BY <3>1 DEF Touched
      <4> QED
        BY <1>3, <4>1
    <3> QED
      BY <1>8, <3>1
  <2>3. CASE j = 0
    <3>1. op = Insn("ret", RAX, RAX) /\ Len(code) = 1
      BY <1>5, <2>1, <2>3 DEF Ending
    <3>2. Unwinds(j)
      BY <2>2, <2>3, <3>1 DEF Unwinds
    <3> QED
      BY <1>3, <1>5, <3>2
  <2>4. CASE j # 0
    <3>1. /\ code[1] = Insn("pop", s[j], s[j])
          /\ Len(Tail(code)) = j /\ Ending(Tail(code), s, j - 1)
      BY <1>1, <2>1, <2>4, EndingPop
    <3>2. Unwinds(j)
      BY <1>5, <2>2, <2>4, <3>1 DEF Unwinds
    <3> QED
      BY <1>3, <1>5, <3>2
  <2> QED
    BY <2>3, <2>4
<1> QED
  BY <1>2, <1>3, <1>6, <1>7, <1>8

\* An instruction of the body is typed, and none of the others.
LEMMA BodyTyped ==
  ASSUME NEW i \in Infos, NEW x \in BodyInsns(i)
  PROVE  /\ x.op \notin {"push", "pop", "ret"} /\ x.a \in Regs
         /\ x.op \in AluOps => x.a \in Touched(i)
         /\ x.op \in TwoReg => x.b \in Regs
         /\ x.op = "ror" => x.b \in Nat
         /\ x.op = "store" => i.mnem = "MOVBE_st"
         /\ x.op \in {"save", "restore", "mul", "mulmem"} => i.mnem = "MULX"
         /\ x.op \in {"save", "restore"} =>
              x.a \in {RAX, RDX} /\ x.b = IF x.a = RAX THEN 1 ELSE 2
<1>1. Touched(i) \subseteq Regs
  BY TouchedRegs
<1>2. RAX \in Regs /\ RDX \in Regs /\ RAX # RDX
  BY DEF Regs, RAX, RDX
<1>3. /\ AluOps = TwoReg \union {"ror", "restore"}
      /\ TwoReg \intersect {"push", "pop", "ret", "ror", "restore", "save", "mul", "mulmem",
                            "testcl", "store"} = {}
      /\ AluOps \intersect {"push", "pop", "ret", "save", "mul", "mulmem", "testcl", "store"} = {}
  BY DEF AluOps, TwoReg, Shifts
<1>4. CASE x \in [op : TwoReg, a : Touched(i), b : Regs]
  BY <1>1, <1>3, <1>4
<1>5. CASE x \in [op : {"ror"}, a : Touched(i), b : Nat]
  BY <1>1, <1>3, <1>5
<1>6. CASE x \in [op : {"testcl"}, a : Regs, b : Regs]
  BY <1>3, <1>6
<1>7. CASE i.mnem = "MOVBE_st" /\ x \in [op : {"store"}, a : Regs, b : Regs]
  BY <1>3, <1>7
<1>8. CASE i.mnem = "MULX" /\ x \in [op : {"mul", "mulmem"}, a : Regs, b : Regs]
  BY <1>3, <1>8
<1>9. CASE /\ i.mnem = "MULX"
           /\ x \in {Insn(o, r, IF r = RAX THEN 1 ELSE 2) : o \in {"save", "restore"}, r \in {RAX, RDX}}
  <2>1. PICK o \in {"save", "restore"}, r \in {RAX, RDX} : x = Insn(o, r, IF r = RAX THEN 1 ELSE 2)
    BY <1>9
  <2>2. x.op = o /\ x.a = r /\ x.b = IF r = RAX THEN 1 ELSE 2
    BY <2>1 DEF Insn
  <2>3. r \in Touched(i)
    BY <1>9 DEF Touched
  <2> QED
    BY <1>1, <1>2, <1>3, <1>9, <2>2, <2>3
<1> QED
  BY <1>4, <1>5, <1>6, <1>7, <1>8, <1>9 DEF BodyInsns

\* The memory operand is a word, wherever the stub finds it.
LEMMA OperandTyped ==
  ASSUME TypeInv, NEW j \in 0 .. 2, sp = RetSlot + j
  PROVE  /\ StubOperand \in Words /\ (~OnStack => Address \in Words)
         /\ info.src.d \in Int /\ (OnStack => sp - info.src.d \in Slots)
<1>1. info \in Infos /\ info.src \in Operands
  BY TouchedRegs DEF TypeInv
<1>2. info.src.r \in Regs /\ info.src.d \in Int
  BY <1>1 DEF Operands
<1>3. ASSUME OnStack PROVE sp - info.src.d \in Slots
  <2>1. info.src.kind \in {"stk", "sib", "idx"}
    BY <1>3 DEF OnStack
  <2>2. info.src.d \in (2 - Below) .. (Above - 1)
    BY <1>1, <2>1, TrampolineAssumption DEF TrampolineAssumption
  <2> QED
    BY <1>2, <2>2, SlotFacts
<1>4. StubRip \in Words
  BY SizeFacts DEF StubRip, Words
<1>5. Address \in Words
  BY <1>2, <1>4 DEF Address, TypeInv
<1>6. StubOperand \in Words
  BY <1>3, <1>5 DEF StubOperand, TypeInv
<1> QED
  BY <1>2, <1>3, <1>5, <1>6

\* What an instruction of the body computes is a word.
LEMMA ValueWord ==
  ASSUME TypeInv, NEW j \in 0 .. 2, sp = RetSlot + j, info.mnem = "MULX" => j = 0,
         op \in BodyInsns(info), op.op \in AluOps
  PROVE  Value \in Words /\ FlagsAfter(Value) \in FlagStates
<1> DEFINE x == regs[op.a]
           y == regs[op.b]
<1>1. info \in Infos /\ W \in {0, 1}
  BY TouchedRegs DEF TypeInv, W
<1>2. op.a \in Regs /\ x \in Words
  BY <1>1, BodyTyped DEF TypeInv
<1>3. op.op \in TwoReg => op.b \in Regs /\ y \in Words
  BY <1>1, BodyTyped DEF TypeInv
<1>4. StubOperand \in Words
  BY OperandTyped
<1>5. Value \in Words
  <2>1. CASE op.op = "mov"
    <3>1. Value = Trunc(y, W) /\ y \in Words
      BY <1>3, <2>1 DEF Value, TwoReg, AluOps
    <3> QED
      BY <1>1, <1>2, <3>1, LogicWords
  <2>2. CASE op.op = "movcl"
    <3>1. Value = (x \ Byte) \union (y \intersect Byte) /\ y \in Words
      BY <1>3, <2>2 DEF Value, TwoReg, AluOps
    <3> QED
      BY <1>1, <1>2, <3>1, LogicWords
  <2>3. CASE op.op \in {"load", "loadsib"}
    <3>1. Value = Trunc(StubOperand, W)
      BY <2>3 DEF Value
    <3> QED
      BY <1>1, <1>4, <3>1, LogicWords
  <2>4. CASE op.op = "and"
    <3>1. Value = And(x, y, W) /\ y \in Words
      BY <1>3, <2>4 DEF Value, TwoReg, AluOps
    <3> QED
      BY <1>1, <1>2, <3>1, LogicWords
  <2>5. CASE op.op = "andmem"
    <3>1. Value = And(x, StubOperand, W)
      BY <2>5 DEF Value
    <3> QED
      BY <1>1, <1>2, <1>4, <3>1, LogicWords
  <2>6. CASE op.op = "xor"
    <3>1. Value = Xor(x, y, W) /\ y \in Words
      BY <1>3, <2>6 DEF Value, TwoReg, AluOps
    <3> QED
      BY <1>1, <1>2, <3>1, LogicWords
  <2>7. CASE op.op = "not"
    <3>1. Value = Not(x, W)
      BY <2>7 DEF Value
    <3> QED
      BY <1>1, <1>2, <3>1, LogicWords
  <2>8. CASE op.op = "neg"
    <3>1. Value = Neg(x, W)
      BY <2>8 DEF Value
    <3> QED
      BY <1>1, <1>2, <3>1, DecWords
  <2>9. CASE op.op = "dec"
    <3>1. Value = Dec(x, W)
      BY <2>9 DEF Value
    <3> QED
      BY <1>1, <1>2, <3>1, DecWords
  <2>10. CASE op.op \in Shifts
    <3>1. \/ Value = Shl(x, Count(y, W), W)
          \/ Value = Shr(x, Count(y, W), W)
          \/ Value = Sar(x, Count(y, W), W)
      BY <2>10 DEF Value, Shifts
    <3> QED
      BY <1>1, <1>2, <3>1, ShiftWords
  <2>11. CASE op.op = "ror"
    <3>1. Value = Ror(x, op.b % Size(W), W)
      BY <2>11 DEF Value
    <3>2. op.b \in Nat /\ Size(W) \in Nat \ {0}
      BY <1>1, <2>11, BodyTyped, SizeFacts
    <3>3. op.b % Size(W) \in Int
      BY <3>2
    <3> QED
      BY <1>1, <1>2, <3>1, <3>3, RotateWord
  <2>12. CASE op.op = "bswap"
    <3>1. Value = Swap(x, W)
      BY <2>12 DEF Value
    <3> QED
      BY <1>1, <1>2, <3>1, SwapWord
  <2>13. CASE op.op = "orcl"
    <3>1. Value = x \union Byte
      BY <2>13 DEF Value
    <3> QED
      BY <1>2, <3>1, ByteWord
  <2>14. CASE op.op = "ones"
    <3>1. Value = Ones(W)
      BY <2>14 DEF Value
    <3> QED
      BY <1>1, <3>1, SizeFacts
  <2>15. CASE op.op = "restore"
    <3>1. Value = Trunc(stack[sp + op.b], W)
      BY <2>15 DEF Value
    <3>2. op.b \in 1 .. 2 /\ j = 0
      BY <1>1, <2>15, BodyTyped
    <3>3. stack[sp + op.b] \in Words
      BY <3>2, SlotFacts DEF TypeInv
    <3> QED
      BY <1>1, <3>1, <3>3, LogicWords
  <2> QED
    BY <2>1, <2>2, <2>3, <2>4, <2>5, <2>6, <2>7, <2>8, <2>9, <2>10, <2>11, <2>12, <2>13, <2>14,
       <2>15 DEF AluOps
<1>6. FlagsAfter(Value) \in FlagStates
  BY DEF FlagsAfter, FlagStates, ZeroFlag, TypeInv
<1> QED
  BY <1>5, <1>6

-----------------------------------------------------------------------------
(* Every instruction keeps the invariant. *)

\* An instruction that is no push, pop or RET is one of the body.
LEMMA Working ==
  ASSUME StubInv, phase = "run", op.op \notin {"push", "pop", "ret"}
  PROVE  /\ code # <<>> /\ Tail(code) \in Seq(AllInsns)
         /\ LET j == Len(Saved(info))
            IN  /\ j \in 0 .. 2 /\ sp = RetSlot + j /\ Agree(Touched(info))
                /\ Kept(j)
                /\ op \in BodyInsns(info)
                /\ Wound(Tail(code), Saved(info), j, BodyInsns(info))
<1>1. info \in Infos
  BY DEF StubInv, StubCore, TypeInv
<1>2. /\ code # <<>> /\ Tail(code) \in Seq(AllInsns)
      /\ \E j \in 0 .. Len(Saved(info)) :
           /\ sp = RetSlot + j /\ Agree(Touched(info)) /\ Kept(j)
           /\ Pushes(j) \/ Works(j) \/ Unwinds(j)
  BY Stages
<1>3. PICK j \in 0 .. Len(Saved(info)) :
        /\ sp = RetSlot + j /\ Agree(Touched(info)) /\ Kept(j)
        /\ Pushes(j) \/ Works(j) \/ Unwinds(j)
  BY <1>2
<1>4. ~Pushes(j) /\ ~Unwinds(j)
  BY DEF Pushes, Unwinds, Insn
<1>5. Len(Saved(info)) \in 0 .. 2
  BY <1>1, SavedRegs
<1> QED
  BY <1>2, <1>3, <1>4, <1>5 DEF Works

\* What the others see of such an instruction.
LEMMA BodyStep ==
  ASSUME StubInv, phase = "run", op.op \notin {"push", "pop", "ret"}, Advance,
         UNCHANGED <<info, regs0, sp, phase, interrupted>>,
         regs' \in [Regs -> Words],
         \A r \in Regs \ Touched(info) : regs'[r] = regs[r],
         flags' \in FlagStates, heap' \in [Words -> Words], stack' \in [Slots -> Words],
         \A n \in Slots : n <= RetSlot + Len(Saved(info)) /\ ~Hit(n) => stack'[n] = stack[n]
  PROVE  StubCore'
<1> DEFINE j == Len(Saved(info))
<1>1. /\ code # <<>> /\ Tail(code) \in Seq(AllInsns)
      /\ j \in 0 .. 2 /\ sp = RetSlot + j /\ Agree(Touched(info))
      /\ Kept(j)
      /\ Wound(Tail(code), Saved(info), j, BodyInsns(info))
  BY Working
<1>2. TypeInv'
  BY <1>1 DEF StubInv, StubCore, TypeInv, Advance
<1>3. Agree(Touched(info))'
  BY <1>1 DEF Agree
<1>4. Kept(j)'
  <2>1. /\ ~Hit(RetSlot) => stack'[RetSlot] = stack[RetSlot]
        /\ \A n \in 1 .. j : ~Hit(RetSlot + n) => stack'[RetSlot + n] = stack[RetSlot + n]
    <3>1. /\ RetSlot \in Slots /\ RetSlot <= RetSlot + j
          /\ \A n \in 1 .. j : RetSlot + n \in Slots /\ RetSlot + n <= RetSlot + j
      <4>1. j \in 0 .. 2
        BY <1>1
      <4> HIDE DEF j
      <4> QED
        BY <4>1, SlotFacts
    <3> QED
      BY <3>1
  <2>2. \A n : Hit(n)' <=> Hit(n)
    BY DEF Hit, StackStore, StoreSlot
  <2> QED
    BY <1>1, <2>1, <2>2 DEF Kept
<1>5. RunInv'
  <2>1. Wound(code, Saved(info), j, BodyInsns(info))'
    BY <1>1 DEF Advance
  <2>2. sp' = RetSlot + j' /\ j' \in 0 .. Len(Saved(info))' /\ ~(j' < Len(Saved(info))')
    BY <1>1
  <2>3. j' = j
    OBVIOUS
  <2> QED
    BY <1>3, <1>4, <2>1, <2>2, <2>3 DEF RunInv
<1>6. phase' = "run"
  OBVIOUS
<1>7. ASSUME NEW n \in CallerSlots, ~Hit(n)' PROVE stack'[n] = Frame[n]
  <2>1. ~Hit(n)
    BY <1>7 DEF Hit, StackStore, StoreSlot
  <2>2. n \in Slots /\ n <= RetSlot + j
    <3>1. j \in 0 .. 2
      BY <1>1
    <3> HIDE DEF j
    <3> QED
      BY <3>1, SlotFacts
  <2> QED
    BY <2>1, <2>2 DEF StubInv, StubCore
<1> QED
  BY <1>2, <1>5, <1>6, <1>7 DEF StubCore

\* Instructions that write a register.
LEMMA AluCore ==
  ASSUME StubInv, Alu
  PROVE  StubCore'
<1>1. phase = "run" /\ op.op \in AluOps /\ op.op \notin {"push", "pop", "ret"}
  BY DEF Alu, Runs, AluOps, Shifts
<1>2. /\ Len(Saved(info)) \in 0 .. 2 /\ sp = RetSlot + Len(Saved(info))
      /\ op \in BodyInsns(info)
  BY <1>1, Working
<1>3. TypeInv
  BY DEF StubInv, StubCore
<1>4. Value \in Words /\ FlagsAfter(Value) \in FlagStates
  <2>1. info.mnem = "MULX" => Len(Saved(info)) = 0
    BY <1>3, SavedRegs DEF TypeInv
  <2> QED
    BY <1>1, <1>2, <1>3, <2>1, ValueWord
<1>5. op.a \in Touched(info) /\ op.a \in Regs
  BY <1>1, <1>2, <1>3, BodyTyped DEF TypeInv
<1>6. regs \in [Regs -> Words] /\ regs' = [regs EXCEPT ![op.a] = Value]
  BY <1>3 DEF TypeInv, Alu
<1>7. regs' \in [Regs -> Words] /\ \A r \in Regs \ Touched(info) : regs'[r] = regs[r]
  BY <1>4, <1>5, <1>6
<1>8. flags' \in FlagStates /\ heap' \in [Words -> Words] /\ stack' \in [Slots -> Words]
  BY <1>3, <1>4 DEF TypeInv, Alu
<1>9. /\ Advance /\ UNCHANGED <<info, regs0, sp, phase, interrupted>>
      /\ stack' = stack
  BY DEF Alu
<1> QED
  BY <1>1, <1>7, <1>8, <1>9, BodyStep

\* A save writes above the return address, and its stub has pushed nothing.
LEMMA SaveCore ==
  ASSUME StubInv, Save
  PROVE  StubCore'
<1>1. phase = "run" /\ op.op = "save" /\ op.op \notin {"push", "pop", "ret"}
  BY DEF Save, Runs
<1>2. /\ Len(Saved(info)) \in 0 .. 2 /\ sp = RetSlot + Len(Saved(info))
      /\ op \in BodyInsns(info)
  BY <1>1, Working
<1>3. TypeInv
  BY DEF StubInv, StubCore
<1>4. info \in Infos /\ W \in {0, 1}
  BY <1>3, TouchedRegs DEF TypeInv, W
<1>5. info.mnem = "MULX" /\ op.a \in Regs /\ op.b \in 1 .. 2
  BY <1>1, <1>2, <1>4, BodyTyped
<1>6. Len(Saved(info)) = 0
  BY <1>4, <1>5, SavedRegs
<1>7. sp + op.b \in Slots /\ sp + op.b \in RetSlot + 1 .. RetSlot + 2
  BY <1>2, <1>5, <1>6, SlotFacts
<1>8. stack[sp + op.b] \in Words /\ regs[op.a] \in Words
  BY <1>3, <1>5, <1>7 DEF TypeInv
<1> DEFINE x == (stack[sp + op.b] \ Ones(W)) \union Trunc(regs[op.a], W)
<1>9. x \in Words
  BY <1>4, <1>8, LogicWords
<1> HIDE DEF x
<1>10. stack \in [Slots -> Words] /\ stack' = [stack EXCEPT ![sp + op.b] = x]
  BY <1>3 DEF Save, TypeInv, x
<1>11. /\ stack' \in [Slots -> Words]
       /\ \A n \in Slots : n <= RetSlot => stack'[n] = stack[n]
  BY <1>7, <1>9, <1>10, SlotFacts
<1>12. \A n \in Slots : n <= RetSlot + Len(Saved(info)) => stack'[n] = stack[n]
  BY <1>6, <1>11 DEF RetSlot
<1>13. /\ Advance /\ UNCHANGED <<info, regs0, sp, phase, interrupted>>
       /\ regs' = regs /\ flags' = flags /\ heap' = heap
  BY DEF Save
<1>14. regs' \in [Regs -> Words] /\ flags' \in FlagStates /\ heap' \in [Words -> Words]
  BY <1>3, <1>13 DEF TypeInv
<1> QED
  BY <1>1, <1>11, <1>12, <1>13, <1>14, BodyStep

\* A multiplication writes RAX and RDX, which the stub of MULX has saved.
LEMMA MulCore ==
  ASSUME StubInv, Mul
  PROVE  StubCore'
<1>1. phase = "run" /\ op.op \in {"mul", "mulmem"} /\ op.op \notin {"push", "pop", "ret"}
  BY DEF Mul, Runs
<1>2. /\ Len(Saved(info)) \in 0 .. 2 /\ sp = RetSlot + Len(Saved(info))
      /\ op \in BodyInsns(info)
  BY <1>1, Working
<1>3. TypeInv
  BY DEF StubInv, StubCore
<1>4. info \in Infos /\ W \in {0, 1}
  BY <1>3, TouchedRegs DEF TypeInv, W
<1>5. info.mnem = "MULX" /\ op.a \in Regs
  BY <1>1, <1>2, <1>4, BodyTyped
<1> DEFINE y == IF op.op = "mul" THEN regs[op.a] ELSE StubOperand
<1>6. y \in Words /\ regs[RAX] \in Words
  BY <1>2, <1>3, <1>5, OperandTyped DEF TypeInv, Regs, RAX
<1> DEFINE lo == MulLow(regs[RAX], y, W)
           hi == MulHigh(regs[RAX], y, W)
<1>7. lo \in Words /\ hi \in Words
  <2> HIDE DEF y
  <2> QED
    BY <1>4, <1>6, ProductWords
<1>8. regs' = [regs EXCEPT ![RAX] = lo, ![RDX] = hi] /\ flags' = "other"
  BY DEF Mul
<1> HIDE DEF lo, hi
<1>9. RAX \in Regs /\ RDX \in Regs /\ RAX \in Touched(info) /\ RDX \in Touched(info)
  BY <1>5 DEF Regs, RAX, RDX, Touched
<1>10. regs' \in [Regs -> Words] /\ \A r \in Regs \ Touched(info) : regs'[r] = regs[r]
  BY <1>3, <1>7, <1>8, <1>9 DEF TypeInv
<1>11. /\ Advance /\ UNCHANGED <<info, regs0, sp, phase, interrupted>>
       /\ stack' = stack /\ heap' = heap
  BY DEF Mul
<1>12. flags' \in FlagStates /\ heap' \in [Words -> Words] /\ stack' \in [Slots -> Words]
  BY <1>3, <1>8, <1>11 DEF TypeInv, FlagStates
<1> QED
  BY <1>1, <1>10, <1>11, <1>12, BodyStep

\* The test of CL.
LEMMA TestClCore ==
  ASSUME StubInv, TestCl
  PROVE  StubCore'
<1>1. phase = "run" /\ op.op \notin {"push", "pop", "ret"}
  BY DEF TestCl, Runs
<1>2. /\ Advance /\ UNCHANGED <<info, regs0, sp, phase, interrupted>>
      /\ regs' = regs /\ stack' = stack /\ heap' = heap /\ flags' \in FlagStates
  BY DEF TestCl, ZeroFlag, FlagStates
<1>3. regs' \in [Regs -> Words] /\ stack' \in [Slots -> Words] /\ heap' \in [Words -> Words]
  BY <1>2 DEF StubInv, StubCore, TypeInv
<1> QED
  BY <1>1, <1>2, <1>3, BodyStep

\* A store to the stack changes the one slot it hits.
LEMMA StoreCore ==
  ASSUME StubInv, Store
  PROVE  StubCore'
<1>1. phase = "run" /\ op.op = "store" /\ op.op \notin {"push", "pop", "ret"}
  BY DEF Store, Runs
<1>2. /\ Len(Saved(info)) \in 0 .. 2 /\ sp = RetSlot + Len(Saved(info))
      /\ op \in BodyInsns(info)
  BY <1>1, Working
<1>3. TypeInv
  BY DEF StubInv, StubCore
<1>4. info \in Infos /\ W \in {0, 1}
  BY <1>3, TouchedRegs DEF TypeInv, W
<1>5. info.mnem = "MOVBE_st" /\ op.a \in Regs
  BY <1>1, <1>2, <1>4, BodyTyped
<1>6. Len(Saved(info)) = 1
  BY <1>4, <1>5, SavedRegs
<1>7. regs[op.a] \in Words
  BY <1>3, <1>5 DEF TypeInv
<1>8. \A x \in Words : Over(x, regs[op.a]) \in Words
  BY <1>4, <1>7, LogicWords DEF Over
<1>9. /\ ~OnStack => Address \in Words
      /\ info.src.d \in Int /\ (OnStack => sp - info.src.d \in Slots)
  BY <1>2, <1>3, OperandTyped
<1>10. OnStack => StackStore
  BY <1>1, <1>5 DEF OnStack, SibAsRsp, StackStore
<1>11. CASE OnStack
  <2>1. sp - info.src.d \in Slots /\ Hit(sp - info.src.d)
    BY <1>2, <1>6, <1>9, <1>10, <1>11 DEF RetSlot, Hit, StoreSlot
  <2>2. stack \in [Slots -> Words] /\ stack[sp - info.src.d] \in Words
    BY <1>3, <2>1 DEF TypeInv
  <2>3. /\ stack' = [stack EXCEPT ![sp - info.src.d] = Over(stack[sp - info.src.d], regs[op.a])]
        /\ heap' = heap
    BY <1>11 DEF Store
  <2>4. stack' \in [Slots -> Words] /\ \A n \in Slots : n # sp - info.src.d => stack'[n] = stack[n]
    BY <1>8, <2>1, <2>2, <2>3
  <2>5. \A n \in Slots : ~Hit(n) => stack'[n] = stack[n]
    BY <2>1, <2>4
  <2>6. heap' \in [Words -> Words]
    BY <1>3, <2>3 DEF TypeInv
  <2>7. /\ Advance /\ UNCHANGED <<info, regs0, sp, phase, interrupted>>
        /\ regs' = regs /\ flags' = flags
    BY DEF Store
  <2>8. regs' \in [Regs -> Words] /\ flags' \in FlagStates
    BY <1>3, <2>7 DEF TypeInv
  <2> QED
    BY <1>1, <2>4, <2>5, <2>6, <2>7, <2>8, BodyStep
<1>12. CASE ~OnStack
  <2>1. heap \in [Words -> Words] /\ heap[Address] \in Words
    BY <1>3, <1>9, <1>12 DEF TypeInv
  <2>2. /\ heap' = [heap EXCEPT ![Address] = Over(heap[Address], regs[op.a])]
        /\ stack' = stack
    BY <1>12 DEF Store
  <2>3. heap' \in [Words -> Words]
    BY <1>8, <1>9, <1>12, <2>1, <2>2
  <2>4. /\ Advance /\ UNCHANGED <<info, regs0, sp, phase, interrupted>>
        /\ regs' = regs /\ flags' = flags
    BY DEF Store
  <2>5. regs' \in [Regs -> Words] /\ flags' \in FlagStates /\ stack' \in [Slots -> Words]
    BY <1>3, <2>2, <2>4 DEF TypeInv
  <2> QED
    BY <1>1, <2>2, <2>3, <2>4, <2>5, BodyStep
<1> QED
  BY <1>11, <1>12

\* A push: its register still holds what the caller left there.
LEMMA PushCore ==
  ASSUME StubInv, Push
  PROVE  StubCore'
<1> DEFINE s == Saved(info)
           B == BodyInsns(info)
<1>1. phase = "run" /\ op.op = "push"
  BY DEF Push, Runs
<1>2. TypeInv /\ info \in Infos
  BY DEF StubInv, StubCore, TypeInv
<1>3. PICK j \in 0 .. Len(s) :
        /\ sp = RetSlot + j /\ Agree(Touched(info)) /\ Kept(j)
        /\ Pushes(j) \/ Works(j) \/ Unwinds(j)
  BY <1>1, Stages
<1>4. Tail(code) \in Seq(AllInsns)
  BY <1>1, Stages
<1>5. Pushes(j)
  <2>1. ~Works(j)
    BY <1>1, <1>2, BodyTyped DEF Works
  <2>2. ~Unwinds(j)
    BY <1>1 DEF Unwinds, Insn
  <2> QED
    BY <1>3, <2>1, <2>2
<1>6. s \in Seq(Regs) /\ Len(s) \in 0 .. 2
  BY <1>2, SavedRegs
<1>7. j + 1 \in 1 .. Len(s) /\ sp + 1 = RetSlot + (j + 1) /\ sp + 1 \in Slots /\ j \in 0 .. 1
  BY <1>3, <1>5, <1>6, SlotFacts DEF Pushes
<1>8. s[j + 1] \in Regs /\ op.a = s[j + 1]
  BY <1>5, <1>6, <1>7, ElementOfSeq DEF Pushes, Insn
<1>9. stack \in [Slots -> Words] /\ stack' = [stack EXCEPT ![sp + 1] = regs[op.a]]
  BY <1>2 DEF TypeInv, Push
<1>10. regs[op.a] = regs0[s[j + 1]] /\ regs[op.a] \in Words
  BY <1>2, <1>5, <1>8 DEF Pushes, TypeInv
<1>11. /\ stack' \in [Slots -> Words] /\ stack'[RetSlot + (j + 1)] = regs0[s[j + 1]]
       /\ \A n \in Slots : n <= RetSlot + j => stack'[n] = stack[n]
  BY <1>3, <1>7, <1>9, <1>10, SlotFacts
<1>12. /\ sp' = sp + 1 /\ code' = Tail(code)
       /\ UNCHANGED <<info, regs0, regs, flags, heap, phase, interrupted>>
  BY DEF Push, Advance
<1>13. TypeInv'
  BY <1>2, <1>4, <1>11, <1>12 DEF TypeInv
<1>14. Agree(Touched(info))'
  BY <1>3, <1>12 DEF Agree
<1>15. Kept(j + 1)'
  <2>1. Kept(j) /\ \A n : Hit(n)' <=> Hit(n)
    BY <1>3, <1>12 DEF Hit, StackStore, StoreSlot
  <2>2. ~Hit(RetSlot) => stack'[RetSlot] = RetAddr
    BY <1>7, <1>11, <2>1, SlotFacts DEF Kept
  <2>3. ASSUME NEW n \in 1 .. j + 1, ~Hit(RetSlot + n) PROVE stack'[RetSlot + n] = regs0[s[n]]
    <3>1. CASE n = j + 1
      BY <1>11, <3>1
    <3>2. CASE n # j + 1
      <4>1. n \in 1 .. j /\ RetSlot + n \in Slots /\ RetSlot + n <= RetSlot + j
        BY <1>7, <3>2, SlotFacts
      <4> QED
        BY <1>11, <2>1, <2>3, <4>1 DEF Kept
    <3> QED
      BY <3>1, <3>2
  <2> QED
    BY <1>12, <2>1, <2>2, <2>3 DEF Kept
<1>16. RunInv'
  <2>1. Wound(code', s, j + 1, B) /\ regs' = regs0'
    BY <1>5, <1>12 DEF Pushes
  <2>2. sp' = RetSlot + (j + 1) /\ j + 1 \in 0 .. Len(s)
    BY <1>6, <1>7, <1>12
  <2>3. s' = s /\ B' = B
    BY <1>12
  <2> HIDE DEF s, B
  <2>4. /\ sp' = RetSlot + (j + 1) /\ Agree(Touched(info))' /\ Kept(j + 1)'
        /\ Wound(code', s', j + 1, B') /\ (j + 1 < Len(s') => regs' = regs0')
        /\ j + 1 \in 0 .. Len(s')
    BY <1>14, <1>15, <2>1, <2>2, <2>3
  <2> QED
    BY <2>4 DEF RunInv, s, B
<1>17. \A n \in CallerSlots : ~Hit(n)' => stack'[n] = Frame[n]
  <2>1. \A n \in CallerSlots : n \in Slots /\ n <= RetSlot + j
    BY <1>7, SlotFacts
  <2>2. \A n : Hit(n)' <=> Hit(n)
    BY <1>12 DEF Hit, StackStore, StoreSlot
  <2> QED
    BY <1>11, <2>1, <2>2 DEF StubInv, StubCore
<1>18. phase' = "run"
  BY <1>1, <1>12
<1> QED
  BY <1>13, <1>16, <1>17, <1>18 DEF StubCore

\* A pop gives the register back what it held.
LEMMA PopCore ==
  ASSUME StubInv, Pop
  PROVE  StubCore'
<1> DEFINE s == Saved(info)
<1>1. phase = "run" /\ op.op = "pop"
  BY DEF Pop, Runs
<1>2. TypeInv /\ info \in Infos
  BY DEF StubInv, StubCore, TypeInv
<1>3. PICK j \in 0 .. Len(s) :
        /\ sp = RetSlot + j /\ Agree(Touched(info)) /\ Kept(j)
        /\ Pushes(j) \/ Works(j) \/ Unwinds(j)
  BY <1>1, Stages
<1>4. Tail(code) \in Seq(AllInsns)
  BY <1>1, Stages
<1>5. Unwinds(j) /\ j # 0
  <2>1. ~Works(j)
    BY <1>1, <1>2, BodyTyped DEF Works
  <2>2. ~Pushes(j)
    BY <1>1 DEF Pushes, Insn
  <2>3. Unwinds(j)
    BY <1>3, <2>1, <2>2
  <2> QED
    BY <1>1, <2>3 DEF Unwinds, Insn
<1>6. s \in Seq(Regs) /\ Len(s) \in 0 .. 2
  BY <1>2, SavedRegs
<1>7. j \in 1 .. Len(s) /\ j \in 1 .. 2 /\ sp = RetSlot + j /\ sp \in Slots /\ sp - 1 = RetSlot + (j - 1)
  <2>1. sp = RetSlot + j
    BY <1>3
  <2> DEFINE k == Len(s)
  <2>2. k \in 0 .. 2 /\ j \in 0 .. k /\ j # 0
    BY <1>5, <1>6
  <2> HIDE DEF k
  <2>3. j \in 1 .. k /\ j \in 1 .. 2
    BY <2>2
  <2> QED
    BY <2>1, <2>3, SlotFacts DEF k
<1>8. s[j] \in Regs /\ s[j] \in Touched(info) /\ op.a = s[j]
  BY <1>2, <1>5, <1>6, <1>7, ElementOfSeq, TouchedRegs DEF Unwinds, Insn
<1>9. regs' = [regs EXCEPT ![s[j]] = stack[sp]] /\ stack[sp] \in Words /\ regs \in [Regs -> Words]
  BY <1>2, <1>7, <1>8 DEF TypeInv, Pop
<1>10. /\ regs' \in [Regs -> Words] /\ regs'[s[j]] = stack[sp]
       /\ \A r \in Regs : r # s[j] => regs'[r] = regs[r]
  BY <1>8, <1>9
<1>11. /\ sp' = sp - 1 /\ code' = Tail(code)
       /\ UNCHANGED <<info, regs0, flags, heap, stack, phase, interrupted>>
  BY DEF Pop, Advance
<1>12. TypeInv'
  BY <1>2, <1>4, <1>10, <1>11 DEF TypeInv
<1>13. Agree(Touched(info))'
  BY <1>3, <1>8, <1>10, <1>11 DEF Agree
<1>14. Kept(j - 1)'
  <2>1. \A n : Hit(n)' <=> Hit(n)
    BY <1>11 DEF Hit, StackStore, StoreSlot
  <2> QED
    BY <1>3, <1>7, <1>11, <2>1 DEF Kept
<1>15. ASSUME Intact, info.mnem # "MULX"
       PROVE  Agree(Written(info) \union {s[n] : n \in 1 .. j - 1})'
  <2>0. ~Hit(RetSlot + j)
    <3>1. info.mnem = "MOVBE_st" => j = 1
      <4> DEFINE k == Len(s)
      <4>1. /\ info.mnem = "MOVBE_st" => k = 1
            /\ j \in 1 .. k /\ k \in 0 .. 2
        BY <1>2, <1>6, <1>7, SavedRegs
      <4> HIDE DEF k
      <4> QED
        BY <4>1
    <3> QED
      BY <1>15, <3>1 DEF Intact, Hit, StackStore
  <2>1. Agree(Written(info) \union {s[n] : n \in 1 .. j}) /\ stack[sp] = regs0[s[j]]
    BY <1>3, <1>5, <1>7, <1>15, <2>0 DEF Unwinds, Kept
  <2>2. ASSUME NEW r \in Regs \ (Written(info) \union {s[n] : n \in 1 .. j - 1})
        PROVE  regs'[r] = regs0[r]
    <3>1. CASE r = s[j]
      BY <1>10, <2>1, <3>1
    <3>2. CASE r # s[j]
      <4>1. r \notin {s[n] : n \in 1 .. j}
        <5>1. \A n \in 1 .. j : n = j \/ n \in 1 .. j - 1
          BY <1>7
        <5> QED
          BY <2>2, <3>2, <5>1
      <4>2. regs[r] = regs0[r]
        BY <2>1, <2>2, <4>1 DEF Agree
      <4> QED
        BY <1>10, <3>2, <4>2
    <3> QED
      BY <3>1, <3>2
  <2> QED
    BY <1>11, <2>2 DEF Agree
<1>16. RunInv'
  <2>1. Len(code') = j - 1 + 1 /\ Ending(code', s, j - 1)
    BY <1>5, <1>7, <1>11 DEF Unwinds
  <2>2. sp' = RetSlot + (j - 1) /\ j - 1 \in 0 .. Len(s)
    BY <1>6, <1>7, <1>11
  <2>3. s' = s /\ info' = info /\ Intact' = Intact
    BY <1>11 DEF Intact, Hit, StackStore, StoreSlot
  <2> HIDE DEF s
  <2>4. /\ sp' = RetSlot + (j - 1) /\ Agree(Touched(info))' /\ Kept(j - 1)'
        /\ Len(code') = j - 1 + 1 /\ Ending(code', s', j - 1)
        /\ Intact' /\ info'.mnem # "MULX" => Agree(Written(info) \union {s[n] : n \in 1 .. j - 1})'
        /\ j - 1 \in 0 .. Len(s')
    BY <1>13, <1>14, <1>15, <2>1, <2>2, <2>3
  <2> QED
    BY <2>4 DEF RunInv, s
<1>17. phase' = "run" /\ \A n \in CallerSlots : ~Hit(n)' => stack'[n] = Frame[n]
  BY <1>1, <1>11 DEF StubInv, StubCore, Hit, StackStore, StoreSlot
<1> QED
  BY <1>12, <1>16, <1>17 DEF StubCore

\* The RET is reached with the stack as the CALL left it.
LEMMA RetStage ==
  ASSUME StubInv, Ret
  PROVE  /\ sp = RetSlot /\ Agree(Touched(info)) /\ (~Hit(RetSlot) => stack[RetSlot] = RetAddr)
         /\ Len(code) = 1 /\ code[1].op = "ret" /\ Tail(code) \in Seq(AllInsns)
         /\ Intact /\ info.mnem # "MULX" => Agree(Written(info))
<1>1. phase = "run" /\ op.op = "ret"
  BY DEF Ret, Runs
<1>2. info \in Infos
  BY DEF StubInv, StubCore, TypeInv
<1>3. PICK j \in 0 .. Len(Saved(info)) :
        /\ sp = RetSlot + j /\ Agree(Touched(info)) /\ Kept(j)
        /\ Pushes(j) \/ Works(j) \/ Unwinds(j)
  BY <1>1, Stages
<1>4. op = code[1] /\ Tail(code) \in Seq(AllInsns)
  BY <1>1, Stages
<1>5. Unwinds(j) /\ j = 0
  <2>1. ~Works(j)
    BY <1>1, <1>2, BodyTyped DEF Works
  <2>2. ~Pushes(j)
    BY <1>1 DEF Pushes, Insn
  <2>3. Unwinds(j)
    BY <1>3, <2>1, <2>2
  <2> QED
    BY <1>1, <2>3 DEF Unwinds, Insn
<1>6. Intact /\ info.mnem # "MULX" => Agree(Written(info))
  <2>1. {Saved(info)[n] : n \in 1 .. j} = {}
    BY <1>5
  <2>2. Written(info) \union {Saved(info)[n] : n \in 1 .. j} = Written(info)
    BY <2>1
  <2> QED
    BY <1>5, <2>2 DEF Unwinds
<1>7. Len(code) = 1
  BY <1>5 DEF Unwinds
<1>8. sp = RetSlot /\ (~Hit(RetSlot) => stack[RetSlot] = RetAddr)
  BY <1>3, <1>5 DEF Kept, RetSlot
<1> QED
  BY <1>1, <1>3, <1>4, <1>6, <1>7, <1>8

\* The RET.
LEMMA RetCore ==
  ASSUME StubInv, Ret
  PROVE  StubCore'
<1>1. sp = RetSlot /\ (~Hit(RetSlot) => stack[RetSlot] = RetAddr) /\ Tail(code) \in Seq(AllInsns)
  BY RetStage
<1>2. /\ phase' = IF sp = RetSlot /\ stack[sp] = RetAddr THEN "returned" ELSE "lost"
      /\ sp' = sp - 1 /\ code' = Tail(code)
      /\ UNCHANGED <<info, regs0, regs, flags, heap, stack, interrupted>>
  BY DEF Ret, Advance
<1>3. TypeInv'
  BY <1>1, <1>2 DEF StubInv, StubCore, TypeInv
<1>4. phase' # "run" /\ sp' = CallerTop
  BY <1>1, <1>2 DEF RetSlot, CallerTop
<1>5. phase' = "lost" => Hit(RetSlot)'
  BY <1>1, <1>2 DEF Hit, StackStore, StoreSlot
<1>6. \A n \in CallerSlots : ~Hit(n)' => stack'[n] = Frame[n]
  BY <1>2 DEF StubInv, StubCore, Hit, StackStore, StoreSlot
<1> QED
  BY <1>3, <1>4, <1>5, <1>6 DEF StubCore

\* An interrupt overwrites nothing the stub has pushed.
LEMMA InterruptCore ==
  ASSUME StubInv, Interrupt
  PROVE  StubCore'
<1> DEFINE s == Saved(info)
           B == BodyInsns(info)
<1>1. phase = "run" /\ TypeInv /\ RunInv /\ info \in Infos
  BY DEF Interrupt, StubInv, StubCore, TypeInv
<1>2. /\ stack' = [n \in Slots |-> IF n > sp THEN Junk ELSE stack[n]] /\ interrupted' = TRUE
      /\ UNCHANGED <<info, regs0, regs, flags, heap, sp, code, phase>>
  BY DEF Interrupt
<1>3. PICK j \in 0 .. Len(s) :
        /\ sp = RetSlot + j /\ Agree(Touched(info)) /\ Kept(j)
        /\ \/ Wound(code, s, j, B) /\ (j < Len(s) => regs = regs0)
           \/ /\ Len(code) = j + 1 /\ Ending(code, s, j)
              /\ Intact /\ info.mnem # "MULX" => Agree(Written(info) \union {s[n] : n \in 1 .. j})
  BY <1>1 DEF RunInv
<1>4. Len(s) \in 0 .. 2
  BY <1>1, SavedRegs
<1>5. \A n \in Slots : n <= RetSlot + j => stack'[n] = stack[n]
  <2>1. j \in 0 .. 2
    <3> DEFINE k == Len(s)
    <3>1. k \in 0 .. 2 /\ j \in 0 .. k
      BY <1>4
    <3> HIDE DEF k
    <3> QED
      BY <3>1
  <2>2. sp = RetSlot + j
    BY <1>3
  <2>3. \A n \in Slots : n <= RetSlot + j => ~(n > sp)
    BY <2>1, <2>2, SlotFacts
  <2> QED
    BY <1>2, <2>3
<1>6. stack' \in [Slots -> Words]
  <2>1. Junk \in Words /\ stack \in [Slots -> Words]
    BY <1>1, TrampolineAssumption DEF TrampolineAssumption, TypeInv
  <2> QED
    BY <1>2, <2>1
<1>7. TypeInv'
  BY <1>1, <1>2, <1>6 DEF TypeInv
<1>8. Kept(j)'
  <2>1. /\ RetSlot \in Slots /\ RetSlot <= RetSlot + j
        /\ \A n \in 1 .. j : RetSlot + n \in Slots /\ RetSlot + n <= RetSlot + j
    <3> DEFINE k == Len(s)
    <3>1. k \in 0 .. 2 /\ j \in 0 .. k
      BY <1>4
    <3> HIDE DEF k
    <3>2. j \in 0 .. 2
      BY <3>1
    <3> QED
      BY <3>2, SlotFacts
  <2>2. Kept(j) /\ \A n : Hit(n)' <=> Hit(n)
    BY <1>2, <1>3 DEF Hit, StackStore, StoreSlot
  <2> QED
    BY <1>2, <1>5, <2>1, <2>2 DEF Kept
<1>9. Agree(Touched(info))'
  BY <1>2, <1>3 DEF Agree
<1>10. RunInv'
  <2>1. s' = s /\ B' = B /\ info' = info /\ Intact' = Intact /\ sp' = sp /\ code' = code
    BY <1>2 DEF Intact, Hit, StackStore, StoreSlot
  <2>2. \A T : Agree(T) => Agree(T)'
    BY <1>2 DEF Agree
  <2>3. Intact' /\ info'.mnem # "MULX" /\ Agree(Written(info) \union {s[n] : n \in 1 .. j})
          => Agree(Written(info) \union {s[n] : n \in 1 .. j})'
    BY <1>2 DEF Agree
  <2> HIDE DEF s, B
  <2>4. /\ sp' = RetSlot + j /\ Agree(Touched(info))' /\ Kept(j)'
        /\ \/ Wound(code', s', j, B') /\ (j < Len(s') => regs' = regs0')
           \/ /\ Len(code') = j + 1 /\ Ending(code', s', j)
              /\ Intact' /\ info'.mnem # "MULX" =>
                   Agree(Written(info) \union {s[n] : n \in 1 .. j})'
        /\ j \in 0 .. Len(s')
    BY <1>2, <1>3, <1>8, <1>9, <2>1, <2>3
  <2> QED
    BY <2>4 DEF RunInv, s, B
<1>11. \A n \in CallerSlots : ~Hit(n)' => stack'[n] = Frame[n]
  <2>1. \A n \in CallerSlots : n \in Slots /\ n <= RetSlot + j
    BY <1>4, SlotFacts
  <2>2. \A n : Hit(n)' <=> Hit(n)
    BY <1>2 DEF Hit, StackStore, StoreSlot
  <2> QED
    BY <1>5, <2>1, <2>2 DEF StubInv, StubCore
<1>12. phase' = "run"
  BY <1>1, <1>2
<1> QED
  BY <1>7, <1>10, <1>11, <1>12 DEF StubCore

-----------------------------------------------------------------------------
(* The stub of MULX. *)

\* What one instruction less leaves pending.
LEMMA PendingTail ==
  ASSUME NEW c \in Seq(AllInsns), c # <<>>, MulxOrder(c)
  PROVE  /\ MulxOrder(Tail(c))
         /\ \A o, r : Pending(Tail(c), o, r) => Pending(c, o, r)
         /\ \A o, r : Pending(c, o, r) /\ ~(c[1].op = o /\ c[1].a = r) => Pending(Tail(c), o, r)
         /\ c[1].op # "save" => \A r : ~Pending(c, "save", r)
         /\ c[1].op = "save" => ~Pending(Tail(c), "save", c[1].a)
         /\ c[1].op = "restore" =>
              /\ ~Pending(Tail(c), "restore", c[1].a)
              /\ \A n \in 1 .. Len(Tail(c)) : Tail(c)[n].op \in {"restore", "ret"}
         /\ 1 \in 1 .. Len(c)
<1> DEFINE d == Tail(c)
           l == Len(c)
<1>1. l \in Nat \ {0} /\ Len(d) = l - 1
  BY TailFacts
<1>2. ASSUME NEW n \in 1 .. l - 1 PROVE d[n] = c[n + 1]
  BY TailFacts
<1> HIDE DEF d, l
<1>3. ASSUME NEW n \in 1 .. Len(d) PROVE n + 1 \in 1 .. l /\ d[n] = c[n + 1] /\ 1 < n + 1 /\ 1 \in 1 .. l
  BY <1>1, <1>2
<1>4. ASSUME NEW m \in 1 .. l, NEW n \in 1 .. l, m < n
      PROVE  /\ c[n].op = "save" => c[m].op = "save" /\ c[m].a # c[n].a
             /\ c[m].op = "restore" =>
                  c[n].op = "ret" \/ (c[n].op = "restore" /\ c[m].a # c[n].a)
  BY <1>4 DEF MulxOrder, l
<1>5. MulxOrder(d)
  <2> SUFFICES ASSUME NEW m \in 1 .. Len(d), NEW n \in 1 .. Len(d), m < n
               PROVE  /\ d[n].op = "save" => d[m].op = "save" /\ d[m].a # d[n].a
                      /\ d[m].op = "restore" =>
                           d[n].op = "ret" \/ (d[n].op = "restore" /\ d[m].a # d[n].a)
    BY DEF MulxOrder
  <2>1. m + 1 < n + 1
    BY <1>1
  <2> QED
    BY <1>3, <1>4, <2>1, SMTT(30)
<1>6. ASSUME NEW o, NEW r, Pending(d, o, r) PROVE Pending(c, o, r)
  BY <1>3, <1>6 DEF Pending, l
<1>7. ASSUME NEW o, NEW r, Pending(c, o, r), ~(c[1].op = o /\ c[1].a = r)
      PROVE  Pending(d, o, r)
  <2>1. PICK n \in 1 .. l : c[n].op = o /\ c[n].a = r
    BY <1>7 DEF Pending, l
  <2>2. n # 1
    BY <1>7, <2>1
  <2> DEFINE k == n - 1
  <2>3. k \in 1 .. Len(d) /\ k + 1 = n
    BY <1>1, <2>2
  <2> HIDE DEF k
  <2>4. d[k] = c[n]
    BY <1>3, <2>3
  <2> QED
    BY <2>1, <2>3, <2>4 DEF Pending
<1>8. ASSUME c[1].op # "save", NEW r, Pending(c, "save", r) PROVE FALSE
  <2>1. PICK n \in 1 .. l : c[n].op = "save"
    BY <1>8 DEF Pending, l
  <2>2. 1 \in 1 .. l /\ 1 < n
    BY <1>1, <1>8, <2>1
  <2> QED
    BY <1>4, <1>8, <2>1, <2>2
<1>9. ASSUME c[1].op = "save", Pending(d, "save", c[1].a) PROVE FALSE
  <2>1. PICK n \in 1 .. Len(d) : d[n].op = "save" /\ d[n].a = c[1].a
    BY <1>9 DEF Pending
  <2> QED
    BY <1>3, <1>4, <2>1
<1>10. ASSUME c[1].op = "restore", NEW n \in 1 .. Len(d)
       PROVE  d[n].op = "ret" \/ (d[n].op = "restore" /\ d[n].a # c[1].a)
  BY <1>3, <1>4, <1>10
<1>11. c[1].op = "restore" => ~Pending(d, "restore", c[1].a)
  BY <1>10 DEF Pending
<1>12. 1 \in 1 .. Len(c)
  BY <1>1 DEF l
<1> QED
  BY <1>5, <1>6, <1>7, <1>8, <1>9, <1>10, <1>11, <1>12 DEF d

\* A word is a whole operand.
LEMMA WholeWord ==
  ASSUME NEW x \in Words, NEW y \in Words
  PROVE  Trunc(x, 1) = x /\ (y \ Ones(1)) \union Trunc(x, 1) = x
<1>1. x \subseteq Ones(1) /\ y \subseteq Ones(1)
  BY DEF Words, Ones, Size
<1> QED
  BY <1>1 DEF Trunc

\* What a step of the stub of MULX starts from.
LEMMA MulxStage ==
  ASSUME StubInv, phase = "run", op.op \notin {"push", "pop", "ret"}, info.mnem = "MULX"
  PROVE  /\ sp = RetSlot /\ op \in BodyInsns(info) /\ op = code[1] /\ info \in Infos
         /\ code \in Seq(AllInsns) /\ code # <<>>
         /\ regs \in [Regs -> Words] /\ stack \in [Slots -> Words]
         /\ RAX \in Regs /\ RDX \in Regs /\ RAX # RDX
         /\ Slot(RAX) = RetSlot + 1 /\ Slot(RDX) = RetSlot + 2
         /\ Slot(RAX) \in Slots /\ Slot(RDX) \in Slots
<1>1. TypeInv /\ info \in Infos
  BY DEF StubInv, StubCore, TypeInv
<1>2. Len(Saved(info)) = 0
  BY <1>1, SavedRegs
<1>3. sp = RetSlot + Len(Saved(info)) /\ op \in BodyInsns(info) /\ code # <<>>
  BY Working
<1>4. sp = RetSlot
  BY <1>2, <1>3 DEF RetSlot
<1>5. op = code[1]
  BY Stages
<1> QED
  BY <1>1, <1>3, <1>4, <1>5, SlotFacts DEF TypeInv, RAX, RDX, Regs, Slot

\* A save keeps its register for the restore.
LEMMA MulxSave ==
  ASSUME StubInv, Save, info.mnem = "MULX", W = 1, MulxState
  PROVE  MulxState'
<1>1. phase = "run" /\ op.op = "save" /\ op.op \notin {"push", "pop", "ret"}
  BY DEF Save, Runs
<1>2. /\ sp = RetSlot /\ op \in BodyInsns(info) /\ op = code[1] /\ info \in Infos
      /\ code \in Seq(AllInsns) /\ code # <<>>
      /\ regs \in [Regs -> Words] /\ stack \in [Slots -> Words]
      /\ RAX \in Regs /\ RDX \in Regs /\ RAX # RDX
      /\ Slot(RAX) = RetSlot + 1 /\ Slot(RDX) = RetSlot + 2
      /\ Slot(RAX) \in Slots /\ Slot(RDX) \in Slots
  BY <1>1, MulxStage
<1> DEFINE a == op.a
           d == Tail(code)
<1>3. a \in {RAX, RDX} /\ op.b = IF a = RAX THEN 1 ELSE 2
  BY <1>1, <1>2, BodyTyped
<1>4. sp + op.b = Slot(a) /\ Slot(a) \in Slots
  BY <1>2, <1>3
<1>5. /\ MulxOrder(code) /\ MulxOrder(d)
      /\ \A o, r : Pending(d, o, r) => Pending(code, o, r)
      /\ \A o, r : Pending(code, o, r) /\ ~(op.op = o /\ a = r) => Pending(d, o, r)
      /\ ~Pending(d, "save", a) /\ 1 \in 1 .. Len(code)
  BY <1>1, <1>2, PendingTail DEF MulxState
<1>6. Pending(code, "save", a)
  BY <1>1, <1>2, <1>5 DEF Pending
<1>7. regs[a] = regs0[a] /\ regs[a] \in Words /\ stack[Slot(a)] \in Words
  BY <1>2, <1>3, <1>4, <1>6 DEF MulxState
<1>8. /\ stack' = [stack EXCEPT ![Slot(a)] = (stack[Slot(a)] \ Ones(1)) \union Trunc(regs[a], 1)]
      /\ code' = d /\ regs' = regs /\ regs0' = regs0 /\ info' = info
  BY <1>4 DEF Save, Advance
<1>9. stack'[Slot(a)] = regs0[a] /\ \A n \in Slots : n # Slot(a) => stack'[n] = stack[n]
  BY <1>2, <1>4, <1>7, <1>8, WholeWord
<1> HIDE DEF a, d
<1>10. ASSUME NEW r \in {RAX, RDX}
       PROVE  /\ IF Pending(d, "save", r) THEN regs[r] = regs0[r] ELSE stack'[Slot(r)] = regs0[r]
              /\ r \notin Written(info) /\ ~Pending(d, "restore", r) =>
                   /\ regs[r] = regs0[r]
                   /\ \A n \in 1 .. Len(d) : d[n].op \in {"restore", "ret"}
  <2>1. IF Pending(d, "save", r) THEN regs[r] = regs0[r] ELSE stack'[Slot(r)] = regs0[r]
    <3>1. CASE r = a
      BY <1>5, <1>9, <3>1
    <3>2. CASE r # a
      <4>1. Slot(r) # Slot(a) /\ Slot(r) \in Slots
        BY <1>2, <1>3, <3>2 DEF RetSlot
      <4>2. stack'[Slot(r)] = stack[Slot(r)]
        BY <1>9, <4>1
      <4>3. Pending(d, "save", r) <=> Pending(code, "save", r)
        BY <1>5, <3>2
      <4> QED
        BY <4>2, <4>3 DEF MulxState
    <3> QED
      BY <3>1, <3>2
  <2>2. Pending(code, "restore", r) => Pending(d, "restore", r)
    BY <1>1, <1>5
  <2>3. r \notin Written(info) => Pending(d, "restore", r)
    BY <1>1, <1>2, <1>5, <2>2 DEF MulxState
  <2> QED
    BY <2>1, <2>3
<1> QED
  BY <1>5, <1>8, <1>10 DEF MulxState, Slot

\* An instruction between the saves and the restores needs neither.
LEMMA MulxMiddle ==
  ASSUME StubInv, phase = "run", op.op \notin {"push", "pop", "ret", "save", "restore"},
         info.mnem = "MULX", MulxState, Advance, stack' = stack, regs0' = regs0, info' = info
  PROVE  MulxState'
<1>1. op = code[1] /\ code \in Seq(AllInsns) /\ code # <<>>
  BY MulxStage
<1> DEFINE d == Tail(code)
<1>2. /\ MulxOrder(d)
      /\ \A o, r : Pending(d, o, r) => Pending(code, o, r)
      /\ \A o, r : Pending(code, o, r) /\ ~(op.op = o /\ op.a = r) => Pending(d, o, r)
      /\ \A r : ~Pending(code, "save", r)
      /\ 1 \in 1 .. Len(code)
  BY <1>1, PendingTail DEF MulxState
<1>3. code' = d
  BY DEF Advance
<1> HIDE DEF d
<1>4. ASSUME NEW r \in {RAX, RDX}
      PROVE  /\ ~Pending(d, "save", r) /\ stack'[Slot(r)] = regs0[r]
             /\ r \notin Written(info) => Pending(d, "restore", r)
  <2>1. ~Pending(d, "save", r) /\ stack[Slot(r)] = regs0[r]
    BY <1>2 DEF MulxState
  <2>2. r \notin Written(info) => Pending(code, "restore", r)
    BY <1>1, <1>2 DEF MulxState
  <2>3. Pending(code, "restore", r) => Pending(d, "restore", r)
    BY <1>2
  <2> QED
    BY <2>1, <2>2, <2>3
<1> QED
  BY <1>2, <1>3, <1>4 DEF MulxState, Slot

\* A restore gives its register back for good.
LEMMA MulxRestore ==
  ASSUME StubInv, Alu, op.op = "restore", info.mnem = "MULX", W = 1, MulxState
  PROVE  MulxState'
<1>1. phase = "run" /\ op.op \notin {"push", "pop", "ret"}
  BY DEF Alu, Runs
<1>2. /\ sp = RetSlot /\ op \in BodyInsns(info) /\ op = code[1] /\ info \in Infos
      /\ code \in Seq(AllInsns) /\ code # <<>>
      /\ regs \in [Regs -> Words] /\ stack \in [Slots -> Words]
      /\ RAX \in Regs /\ RDX \in Regs /\ RAX # RDX
      /\ Slot(RAX) = RetSlot + 1 /\ Slot(RDX) = RetSlot + 2
      /\ Slot(RAX) \in Slots /\ Slot(RDX) \in Slots
  BY <1>1, MulxStage
<1> DEFINE a == op.a
           d == Tail(code)
<1>3. a \in {RAX, RDX} /\ op.b = IF a = RAX THEN 1 ELSE 2
  BY <1>1, <1>2, BodyTyped
<1>4. sp + op.b = Slot(a) /\ Slot(a) \in Slots
  BY <1>2, <1>3
<1>5. /\ MulxOrder(d)
      /\ \A o, r : Pending(d, o, r) => Pending(code, o, r)
      /\ \A o, r : Pending(code, o, r) /\ ~(op.op = o /\ a = r) => Pending(d, o, r)
      /\ \A r : ~Pending(code, "save", r)
      /\ \A n \in 1 .. Len(d) : d[n].op \in {"restore", "ret"}
  BY <1>1, <1>2, PendingTail DEF MulxState
<1>6. \A r \in {RAX, RDX} : ~Pending(d, "save", r) /\ stack[Slot(r)] = regs0[r]
  BY <1>5 DEF MulxState
<1>7. Value = stack[Slot(a)]
  <2>1. Value = Trunc(stack[sp + op.b], 1)
    BY DEF Value, Shifts
  <2>2. stack[Slot(a)] \in Words
    BY <1>2, <1>4
  <2> QED
    BY <1>4, <2>1, <2>2, WholeWord
<1>8. /\ regs' = [regs EXCEPT ![a] = stack[Slot(a)]]
      /\ code' = d /\ stack' = stack /\ regs0' = regs0 /\ info' = info
  BY <1>7 DEF Alu, Advance
<1> HIDE DEF a, d
<1>9. ASSUME NEW r \in {RAX, RDX}, r \notin Written(info), ~Pending(d, "restore", r)
      PROVE  regs'[r] = regs0[r]
  <2>1. CASE r = a
    BY <1>2, <1>6, <1>8, <2>1
  <2>2. CASE r # a
    <3>1. ~Pending(code, "restore", r)
      BY <1>5, <1>9, <2>2
    <3>2. regs[r] = regs0[r]
      BY <1>9, <3>1 DEF MulxState
    <3> QED
      BY <1>2, <1>8, <2>2, <3>2
  <2> QED
    BY <2>1, <2>2
<1> QED
  BY <1>5, <1>6, <1>8, <1>9 DEF MulxState, Slot

\* Every step of the stub of MULX.
LEMMA MulxStep ==
  ASSUME StubInv, Next
  PROVE  MulxInv'
<1> SUFFICES ASSUME info'.mnem = "MULX", W' = 1, ~interrupted', phase' = "run"
             PROVE  MulxState'
  BY DEF MulxInv
<1>1. /\ info' = info /\ phase = "run" /\ ~Interrupt /\ ~Ret /\ ~interrupted
  BY DEF Next, Alu, Push, Pop, Save, Mul, TestCl, Store, Ret, Interrupt, Runs
<1>2. info.mnem = "MULX" /\ W = 1 /\ MulxState
  <2>1. info.mnem = "MULX" /\ W = 1
    BY <1>1 DEF W
  <2> QED
    BY <1>1, <2>1 DEF StubInv, MulxInv
<1>3. info \in Infos
  BY DEF StubInv, StubCore, TypeInv
<1>4. PICK j \in 0 .. Len(Saved(info)) : Pushes(j) \/ Works(j) \/ Unwinds(j)
  BY <1>1, Stages
<1>5. Len(Saved(info)) = 0
  BY <1>2, <1>3, SavedRegs
<1>6. j = 0
  BY <1>5
<1>7. op \in BodyInsns(info) \/ op.op = "ret"
  BY <1>4, <1>5, <1>6 DEF Pushes, Works, Unwinds, Insn
<1>8. op.op \notin {"push", "pop", "store"}
  BY <1>2, <1>3, <1>7, BodyTyped
<1>9. CASE Alu
  <2>1. CASE op.op = "restore"
    BY <1>2, <1>9, <2>1, MulxRestore
  <2>2. CASE op.op # "restore"
    <3>1. /\ op.op \notin {"push", "pop", "ret", "save", "restore"}
          /\ Advance /\ stack' = stack /\ regs0' = regs0
      BY <1>9, <2>2 DEF Alu, Runs, AluOps, Shifts
    <3> QED
      BY <1>1, <1>2, <3>1, MulxMiddle
  <2> QED
    BY <2>1, <2>2
<1>10. CASE Save
  BY <1>2, <1>10, MulxSave
<1>11. CASE Mul
  <2>1. /\ op.op \notin {"push", "pop", "ret", "save", "restore"}
        /\ Advance /\ stack' = stack /\ regs0' = regs0
    BY <1>11 DEF Mul, Runs
  <2> QED
    BY <1>1, <1>2, <2>1, MulxMiddle
<1>12. CASE TestCl
  <2>1. /\ op.op \notin {"push", "pop", "ret", "save", "restore"}
        /\ Advance /\ stack' = stack /\ regs0' = regs0
    BY <1>12 DEF TestCl, Runs
  <2> QED
    BY <1>1, <1>2, <2>1, MulxMiddle
<1>13. ~Push /\ ~Pop /\ ~Store
  BY <1>8 DEF Push, Pop, Store, Runs
<1> QED
  BY <1>1, <1>9, <1>10, <1>11, <1>12, <1>13 DEF Next

\* On return only what the instruction writes has changed.
LEMMA Returning ==
  ASSUME StubInv, Ret, Conserves
  PROVE  Agree(Written(info))
<1>1. /\ Agree(Touched(info)) /\ Len(code) = 1 /\ code[1].op = "ret"
      /\ Intact /\ info.mnem # "MULX" => Agree(Written(info))
  BY RetStage
<1>2. Intact /\ (info.mnem = "MULX" => W = 1 /\ ~interrupted)
  BY DEF Conserves, Intact, Hit
<1>3. CASE info.mnem = "MULX"
  <2>1. MulxState
    BY <1>2, <1>3 DEF StubInv, MulxInv, Ret, Runs
  <2>2. \A r : ~Pending(code, "restore", r)
    BY <1>1 DEF Pending
  <2>3. \A r \in {RAX, RDX} : r \notin Written(info) => regs[r] = regs0[r]
    BY <2>1, <2>2 DEF MulxState
  <2>4. info \in Infos
    BY DEF StubInv, StubCore, TypeInv
  <2>5. Len(Saved(info)) = 0
    BY <1>3, <2>4, SavedRegs
  <2>6. Touched(info) = Written(info) \union {RAX, RDX}
    BY <1>3, <2>5 DEF Touched
  <2> QED
    BY <1>1, <2>3, <2>6 DEF Agree
<1> QED
  BY <1>1, <1>2, <1>3

-----------------------------------------------------------------------------
(* The theorems. *)

\* A stub starts with nothing pushed and nothing changed.
LEMMA StubInit ==
  ASSUME Init
  PROVE  StubInv
<1>1. info \in Infos /\ code = MakeTrampoline(info) /\ regs = regs0 /\ sp = RetSlot
  BY DEF Init
<1>2. code \in Seq(AllInsns) /\ Wound(code, Saved(info), 0, BodyInsns(info))
  BY <1>1, StubCode DEF Built
<1>3. /\ regs0 \in [Regs -> Words] /\ Heap \in [Words -> Words] /\ RetAddr \in Words
      /\ Junk \in Words /\ Frame \in [CallerSlots -> Words]
  BY TrampolineAssumption DEF TrampolineAssumption, Init
<1>4. stack = [n \in Slots |-> IF n \in CallerSlots THEN Frame[n]
                               ELSE IF n = RetSlot THEN RetAddr ELSE Junk]
  BY DEF Init
<1>5. stack \in [Slots -> Words]
  BY <1>3, <1>4
<1>6. stack[RetSlot] = RetAddr /\ \A n \in CallerSlots : stack[n] = Frame[n]
  <2>1. RetSlot \in Slots /\ RetSlot \notin CallerSlots /\ \A n \in CallerSlots : n \in Slots
    BY SlotFacts
  <2> QED
    BY <1>4, <2>1
<1>7. TypeInv
  BY <1>1, <1>2, <1>3, <1>5 DEF TypeInv, Init, FlagStates
<1>8. RunInv
  <2>1. Kept(0) /\ Agree(Touched(info)) /\ sp = RetSlot + 0
    BY <1>1, <1>6 DEF Kept, Agree, RetSlot
  <2>2. 0 \in 0 .. Len(Saved(info))
    BY <1>1, SavedRegs
  <2> QED
    BY <1>1, <1>2, <2>1, <2>2 DEF RunInv
<1>9. MulxInv
  <2> SUFFICES ASSUME info.mnem = "MULX" PROVE MulxState
    BY DEF MulxInv
  <2>1. code = MakeMulx(info) \o ret
    BY <1>1 DEF MakeTrampoline, Shifts, BlsOps
  <2>2. /\ MulxOrder(code)
        /\ Pending(code, "save", RAX) /\ Pending(code, "save", RDX)
        /\ \A r \in {RAX, RDX} \ {info.dst, info.aux} : Pending(code, "restore", r)
    BY <1>1, <2>1, MulxCode
  <2>3. Written(info) = {info.dst, info.aux}
    BY DEF Written
  <2> QED
    BY <1>1, <2>2, <2>3 DEF MulxState
<1>10. phase = "run"
  BY DEF Init
<1> QED
  BY <1>6, <1>7, <1>8, <1>9, <1>10 DEF StubInv, StubCore

\* Every step keeps the invariant.
LEMMA StubNext ==
  ASSUME StubInv, [Next]_vars
  PROVE  StubInv'
<1>1. CASE UNCHANGED vars
  <2>1. TypeInv' /\ (RunInv => RunInv') /\ (MulxInv => MulxInv') /\ (Conserves' => Conserves)
        /\ (Agree(Written(info)) => Agree(Written(info))') /\ (Intact' => Intact)
    BY <1>1 DEF vars, StubInv, StubCore, TypeInv, RunInv, Kept, Agree, Intact, MulxInv, MulxState,
                W, Conserves, Hit, StackStore, StoreSlot
  <2> QED
    BY <1>1, <2>1 DEF vars, StubInv, StubCore, Hit, StackStore, StoreSlot
<1>2. CASE Next
  <2>1. StubCore'
    BY <1>2, AluCore, PushCore, PopCore, SaveCore, MulCore, TestClCore, StoreCore, RetCore,
       InterruptCore DEF Next
  <2>2. MulxInv'
    BY <1>2, MulxStep
  <2>3. ASSUME phase' = "returned", Conserves' PROVE Agree(Written(info))'
    <3>1. Ret
      BY <1>2, <2>3 DEF Next, Alu, Push, Pop, Save, Mul, TestCl, Store, Interrupt, Runs
    <3>2. UNCHANGED <<info, regs0, regs, interrupted>>
      BY <3>1 DEF Ret
    <3>3. Conserves
      BY <2>3, <3>2 DEF Conserves, W, StackStore, StoreSlot
    <3>4. Agree(Written(info))
      BY <3>1, <3>3, Returning
    <3> QED
      BY <3>2, <3>4 DEF Agree
  <2> QED
    BY <2>1, <2>2, <2>3 DEF StubInv
<1> QED
  BY <1>1, <1>2

\* What every stub keeps up while it runs.
THEOREM StubInvariance == Spec => []StubInv
<1>1. Init => StubInv
  BY StubInit
<1>2. StubInv /\ [Next]_vars => StubInv'
  BY StubNext
<1> QED
  BY <1>1, <1>2, PTL DEF Spec

\* Registers, memory and stack hold words and the stack pointer stays in range
\* (make_trampoline and everything it calls).
THEOREM StubTypes == Spec => []TypeOK
<1>1. ASSUME StubInv PROVE TypeOK
  <2>1. TypeInv /\ info \in Infos /\ info \in InfoType
    BY <1>1, TrampolineAssumption DEF StubInv, StubCore, TypeInv, TrampolineAssumption
  <2>2. sp \in CallerTop .. RetSlot + 2
    <3>1. CASE phase = "run"
      <4>1. PICK j \in 0 .. Len(Saved(info)) : sp = RetSlot + j
        BY <1>1, <3>1 DEF StubInv, StubCore, RunInv
      <4> DEFINE k == Len(Saved(info))
      <4>2. k \in 0 .. 2 /\ j \in 0 .. k
        BY <2>1, SavedRegs
      <4> HIDE DEF k
      <4>3. j \in 0 .. 2
        BY <4>2
      <4> QED
        BY <4>1, <4>3 DEF RetSlot, CallerTop
    <3>2. CASE phase # "run"
      BY <1>1, <3>2 DEF StubInv, StubCore, RetSlot, CallerTop
    <3> QED
      BY <3>1, <3>2
  <2> QED
    BY <2>1, <2>2 DEF TypeOK, TypeInv
<1> QED
  BY <1>1, StubInvariance, PTL

\* A stub returns behind its CALL and leaves the caller's stack alone, but for
\* the one word that a MOVBE store to the stack names from inside the stub,
\* whatever its displacement.
THEOREM StubReturns == Spec => []ReturnsHome
<1>1. ASSUME StubInv PROVE ReturnsHome
  BY <1>1 DEF StubInv, StubCore, ReturnsHome, Hit
<1> QED
  BY <1>1, StubInvariance, PTL

\* A stub gives back every register it borrowed.
THEOREM StubKeepsRegs == Spec => []KeepsRegs
<1>1. ASSUME StubInv PROVE KeepsRegs
  <2>1. Outs = Written(info)
    BY DEF Outs, Written
  <2> QED
    BY <1>1, <2>1 DEF StubInv, KeepsRegs, Agree
<1> QED
  BY <1>1, StubInvariance, PTL

-----------------------------------------------------------------------------
(* What a stub computes. *)

\* What a result depends on: the code to run, registers, flags and memory.  The
\* stack is not among it, a faithful stub reads no operand there; what a pop
\* or a restore brings back is any word.
Configs ==
  [code : Seq(AllInsns), regs : [Regs -> Words], flags : FlagStates, heap : [Words -> Words]]
Config(c, r, f, h) == [code |-> c, regs |-> r, flags |-> f, heap |-> h]

\* A restore reads the stack, and so do some instructions of a SIB operand.
OffStack(o) ==
  o.op # "restore" /\ (o.op \in {"load", "andmem", "mulmem"} => info.src.kind # "sib")

\* Value and FlagsAfter, of an instruction that does not.
Put(o, r, h) ==
  LET x == r[o.a]
      y == r[o.b]
      m == h[r[info.src.r]]
  IN  CASE o.op = "mov"   -> Trunc(y, W)
        [] o.op = "movcl" -> (x \ Byte) \union (y \intersect Byte)
        [] o.op \in {"load", "loadsib"} -> Trunc(m, W)
        [] o.op = "and"   -> And(x, y, W)
        [] o.op = "andmem" -> And(x, m, W)
        [] o.op = "xor"   -> Xor(x, y, W)
        [] o.op = "not"   -> Not(x, W)
        [] o.op = "neg"   -> Neg(x, W)
        [] o.op = "dec"   -> Dec(x, W)
        [] o.op = "SHLX"  -> Shl(x, Count(y, W), W)
        [] o.op = "SHRX"  -> Shr(x, Count(y, W), W)
        [] o.op = "SARX"  -> Sar(x, Count(y, W), W)
        [] o.op = "ror"   -> Ror(x, o.b % Size(W), W)
        [] o.op = "bswap" -> Swap(x, W)
        [] o.op = "orcl"  -> x \union Byte
        [] o.op = "ones"  -> Ones(W)
FlagsOf(o, r, f, x) ==
  CASE o.op \in {"and", "andmem", "xor", "neg", "dec", "orcl"} -> ZeroFlag(x)
    [] o.op \in Shifts -> IF Count(r[o.b], W) = 0 THEN f ELSE ZeroFlag(x)
    [] o.op = "ror"    -> IF o.b % Size(W) = 0 THEN f ELSE "other"
    [] OTHER           -> f

\* What one instruction does to registers, flags and memory.
Effect(o, r, f, h, r2, f2, h2) ==
  \/ /\ o.op \in AluOps
     /\ \E x \in Words :
          /\ r2 = [r EXCEPT ![o.a] = x]
          /\ OffStack(o) => x = Put(o, r, h) /\ f2 = FlagsOf(o, r, f, x)
     /\ h2 = h
  \/ o.op \in {"push", "save"} /\ r2 = r /\ f2 = f /\ h2 = h
  \/ /\ o.op = "pop"
     /\ \E x \in Words : r2 = [r EXCEPT ![o.a] = x]
     /\ f2 = f /\ h2 = h
  \/ /\ o.op \in {"mul", "mulmem"}
     /\ \E lo, hi \in Words :
          /\ r2 = [r EXCEPT ![RAX] = lo, ![RDX] = hi]
          /\ LET y == IF o.op = "mul" THEN r[o.a] ELSE h[r[info.src.r]]
             IN  OffStack(o) => lo = MulLow(r[RAX], y, W) /\ hi = MulHigh(r[RAX], y, W)
     /\ h2 = h
  \/ o.op = "testcl" /\ r2 = r /\ h2 = h
  \/ /\ o.op = "store" /\ r2 = r /\ f2 = f
     /\ h2 = [h EXCEPT ![r[info.src.r]] = Over(@, r[o.a])]

\* How it changes a configuration.
Leads(g, e) ==
  /\ e.code = Tail(g.code)
  /\ Effect(Head(g.code), g.regs, g.flags, g.heap, e.regs, e.flags, e.heap)

\* What Computes wants of the configuration behind the RET.
Right(g) ==
  /\ \A r \in Outs : g.regs[r] = Expected(r)
  /\ g.heap = ExpectedHeap
  /\ info.mnem \in BlsOps \union {"ANDN"} => g.flags = ZeroFlag(g.regs[info.dst])

\* Configurations from which every run gets there: one of a set that no
\* instruction leaves and that has none at a RET but right ones.
Closed(G) ==
  \A g \in G :
    g.code # <<>> =>
      IF Head(g.code).op = "ret" THEN Right(g)
      ELSE \A e \in Configs : Leads(g, e) => e \in G
Sound(g) == \E G \in SUBSET Configs : g \in G /\ Closed(G)

\* One is sound if all it leads to are.
LEMMA SoundBefore ==
  ASSUME NEW g \in Configs, g.code # <<>>, Head(g.code).op # "ret",
         \A e \in Configs : Leads(g, e) => Sound(e)
  PROVE  Sound(g)
<1> DEFINE G == {e \in Configs : Sound(e)} \union {g}
<1>1. G \in SUBSET Configs /\ g \in G
  OBVIOUS
<1>2. ASSUME NEW k \in G, k.code # <<>>
      PROVE  IF Head(k.code).op = "ret" THEN Right(k)
             ELSE \A e \in Configs : Leads(k, e) => e \in G
  <2>1. CASE k = g
    BY <2>1
  <2>2. CASE k # g
    <3>1. Sound(k)
      BY <2>2
    <3>2. PICK H \in SUBSET Configs : k \in H /\ Closed(H)
      BY <3>1 DEF Sound
    <3>3. IF Head(k.code).op = "ret" THEN Right(k)
          ELSE \A e \in Configs : Leads(k, e) => e \in H
      BY <1>2, <3>2 DEF Closed
    <3>4. \A e \in H : e \in Configs /\ Sound(e)
      BY <3>2 DEF Sound
    <3> QED
      BY <3>3, <3>4
  <2> QED
    BY <2>1, <2>2
<1>3. Closed(G)
  BY <1>2, Zenon DEF Closed
<1> HIDE DEF G
<1> QED
  BY <1>1, <1>3 DEF Sound

\* A sound one leads to sound ones, and is right at a RET.
LEMMA SoundAfter ==
  ASSUME NEW g, Sound(g), g.code # <<>>
  PROVE  /\ Head(g.code).op = "ret" => Right(g)
         /\ Head(g.code).op # "ret" => \A e \in Configs : Leads(g, e) => Sound(e)
<1>1. PICK G \in SUBSET Configs : g \in G /\ Closed(G)
  BY DEF Sound
<1>2. IF Head(g.code).op = "ret" THEN Right(g) ELSE \A e \in Configs : Leads(g, e) => e \in G
  BY <1>1 DEF Closed
<1> QED
  BY <1>1, <1>2 DEF Sound

\* Before a RET it is sound if it is right.
LEMMA SoundEnd ==
  ASSUME NEW r \in [Regs -> Words], NEW f \in FlagStates, NEW h \in [Words -> Words],
         Right(Config(ret, r, f, h))
  PROVE  Sound(Config(ret, r, f, h))
<1> DEFINE g == Config(ret, r, f, h)
<1>1. ret \in Seq(AllInsns) /\ ret # <<>> /\ Head(ret).op = "ret"
  BY RestoresNone DEF Restores, ret, I
<1>2. g \in Configs /\ g.code = ret
  BY <1>1 DEF Configs, Config
<1> HIDE DEF g
<1>3. Closed({g})
  BY <1>1, <1>2 DEF Closed, g
<1> QED
  BY <1>2, <1>3 DEF Sound, g

\* An instruction in front of code.
LEMMA InFrontOf ==
  ASSUME NEW c \in Seq(AllInsns), NEW o \in AllOps, NEW a \in Regs, NEW b \in Nat
  PROVE  /\ I(o, a, b) \o c \in Seq(AllInsns) /\ I(o, a, b) \o c # <<>>
         /\ Head(I(o, a, b) \o c) = [op |-> o, a |-> a, b |-> b] /\ Tail(I(o, a, b) \o c) = c
<1>1. [op |-> o, a |-> a, b |-> b] \in AllInsns
  BY DEF AllInsns
<1> DEFINE x == [op |-> o, a |-> a, b |-> b]
<1> HIDE DEF x
<1>2. x \in AllInsns
  BY <1>1 DEF x
<1>3. <<x>> \o c \in Seq(AllInsns) /\ <<x>> \o c # <<>> /\ Head(<<x>> \o c) = x /\ Tail(<<x>> \o c) = c
  BY <1>2
<1> QED
  BY <1>3 DEF I, x

\* An instruction is done with when all it may lead to is sound.
LEMMA Ahead ==
  ASSUME NEW c \in Seq(AllInsns), NEW o \in AllOps \ {"ret"}, NEW a \in Regs, NEW b \in Nat,
         NEW r \in [Regs -> Words], NEW f \in FlagStates, NEW h \in [Words -> Words],
         \A r2 \in [Regs -> Words], f2 \in FlagStates, h2 \in [Words -> Words] :
           Effect(Insn(o, a, b), r, f, h, r2, f2, h2) => Sound(Config(c, r2, f2, h2))
  PROVE  Sound(Config(I(o, a, b) \o c, r, f, h))
<1> DEFINE d == I(o, a, b) \o c
           g == Config(d, r, f, h)
           i == Insn(o, a, b)
<1>1. d \in Seq(AllInsns) /\ d # <<>> /\ Head(d) = i /\ i.op = o /\ Tail(d) = c
  BY InFrontOf DEF Insn
<1> HIDE DEF d, i
<1>2. /\ g \in Configs /\ g.code # <<>> /\ Head(g.code) = i /\ Tail(g.code) = c
      /\ g.regs = r /\ g.flags = f /\ g.heap = h
  BY <1>1 DEF Configs, Config
<1> HIDE DEF g
<1>3. ASSUME NEW e \in Configs, Leads(g, e) PROVE Sound(e)
  <2>1. e.code = c /\ Effect(i, r, f, h, e.regs, e.flags, e.heap)
    BY <1>2, <1>3 DEF Leads
  <2>2. e.regs \in [Regs -> Words] /\ e.flags \in FlagStates /\ e.heap \in [Words -> Words]
        /\ e = Config(c, e.regs, e.flags, e.heap)
    BY <2>1 DEF Configs, Config
  <2>3. Sound(Config(c, e.regs, e.flags, e.heap))
    BY <2>1, <2>2 DEF i
  <2> QED
    BY <2>2, <2>3
<1>4. Sound(g)
  BY <1>1, <1>2, <1>3, SoundBefore
<1> QED
  BY <1>4 DEF g, d

\* Registers before and after one of them is written.
Sets(r, a, x, r2) == r2[a] = x /\ \A q \in Regs \ {a} : r2[q] = r[q]

Multiplies(r, y, r2) ==
  /\ r2[RAX] = MulLow(r[RAX], y, W) /\ r2[RDX] = MulHigh(r[RAX], y, W)
  /\ \A q \in Regs \ {RAX, RDX} : r2[q] = r[q]

\* The rules: what is to be sound behind an instruction for it to be sound
\* before it.  One that writes a register.
LEMMA RunAlu ==
  ASSUME NEW c \in Seq(AllInsns), NEW o \in AluOps, NEW a \in Regs, NEW b \in Nat,
         NEW r \in [Regs -> Words], NEW f \in FlagStates, NEW h \in [Words -> Words],
         OffStack(Insn(o, a, b)),
         \A r2 \in [Regs -> Words], f2 \in FlagStates :
           Sets(r, a, Put(Insn(o, a, b), r, h), r2) /\ f2 = FlagsOf(Insn(o, a, b), r, f, r2[a]) =>
             Sound(Config(c, r2, f2, h))
  PROVE  Sound(Config(I(o, a, b) \o c, r, f, h))
<1> DEFINE i == Insn(o, a, b)
<1>1. i.op = o /\ i.a = a /\ o \in AllOps \ {"ret"}
      /\ o \notin {"push", "save", "pop", "mul", "mulmem", "testcl", "store"}
  BY DEF AllOps, AluOps, Shifts, Insn
<1> HIDE DEF i
<1>2. ASSUME NEW r2 \in [Regs -> Words], NEW f2 \in FlagStates, NEW h2 \in [Words -> Words],
             Effect(i, r, f, h, r2, f2, h2)
      PROVE  Sound(Config(c, r2, f2, h2))
  <2>1. PICK x \in Words : /\ r2 = [r EXCEPT ![a] = x]
                           /\ OffStack(i) => x = Put(i, r, h) /\ f2 = FlagsOf(i, r, f, x)
    BY <1>1, <1>2 DEF Effect
  <2>2. h2 = h
    BY <1>1, <1>2 DEF Effect
  <2>3. Sets(r, a, x, r2)
    BY <2>1 DEF Sets
  <2> QED
    BY <2>1, <2>2, <2>3 DEF i, Sets
<1> QED
  BY <1>1, <1>2, Ahead DEF i

\* One that does not.
LEMMA RunPush ==
  ASSUME NEW c \in Seq(AllInsns), NEW o \in {"push", "save"}, NEW a \in Regs, NEW b \in Nat,
         NEW r \in [Regs -> Words], NEW f \in FlagStates, NEW h \in [Words -> Words],
         Sound(Config(c, r, f, h))
  PROVE  Sound(Config(I(o, a, b) \o c, r, f, h))
<1> DEFINE i == Insn(o, a, b)
<1>1. i.op = o /\ o \in AllOps \ {"ret"} /\ o \notin AluOps
      /\ o \notin {"pop", "mul", "mulmem", "testcl", "store"}
  BY DEF AllOps, AluOps, Shifts, Insn
<1> HIDE DEF i
<1>2. ASSUME NEW r2 \in [Regs -> Words], NEW f2 \in FlagStates, NEW h2 \in [Words -> Words],
             Effect(i, r, f, h, r2, f2, h2)
      PROVE  Sound(Config(c, r2, f2, h2))
  <2>1. r2 = r /\ f2 = f /\ h2 = h
    BY <1>1, <1>2 DEF Effect
  <2> QED
    BY <2>1
<1> QED
  BY <1>1, <1>2, Ahead DEF i

\* One that gives a register back: any word may come from the stack.
LEMMA RunPop ==
  ASSUME NEW c \in Seq(AllInsns), NEW o \in {"pop", "restore"}, NEW a \in Regs, NEW b \in Nat,
         NEW r \in [Regs -> Words], NEW f \in FlagStates, NEW h \in [Words -> Words],
         \A r2 \in [Regs -> Words], x \in Words, f2 \in FlagStates :
           Sets(r, a, x, r2) /\ (o = "pop" => f2 = f) => Sound(Config(c, r2, f2, h))
  PROVE  Sound(Config(I(o, a, b) \o c, r, f, h))
<1> DEFINE i == Insn(o, a, b)
<1>1. i.op = o /\ i.a = a /\ o \in AllOps \ {"ret"} /\ (o = "pop" => o \notin AluOps)
      /\ o \notin {"push", "save", "mul", "mulmem", "testcl", "store"}
  BY DEF AllOps, AluOps, Shifts, Insn
<1> HIDE DEF i
<1>2. ASSUME NEW r2 \in [Regs -> Words], NEW f2 \in FlagStates, NEW h2 \in [Words -> Words],
             Effect(i, r, f, h, r2, f2, h2)
      PROVE  Sound(Config(c, r2, f2, h2))
  <2>1. (\E x \in Words : r2 = [r EXCEPT ![a] = x]) /\ h2 = h /\ (o = "pop" => f2 = f)
    BY <1>1, <1>2 DEF Effect
  <2>2. PICK x \in Words : r2 = [r EXCEPT ![a] = x]
    BY <2>1
  <2>3. Sets(r, a, x, r2)
    BY <2>2 DEF Sets
  <2> QED
    BY <2>1, <2>3
<1> QED
  BY <1>1, <1>2, Ahead DEF i

\* MUL.
LEMMA RunMul ==
  ASSUME NEW c \in Seq(AllInsns), NEW o \in {"mul", "mulmem"}, NEW a \in Regs, NEW b \in Nat,
         NEW r \in [Regs -> Words], NEW f \in FlagStates, NEW h \in [Words -> Words],
         NEW y, y = IF o = "mul" THEN r[a] ELSE h[r[info.src.r]],
         OffStack(Insn(o, a, b)),
         \A r2 \in [Regs -> Words], f2 \in FlagStates :
           Multiplies(r, y, r2) => Sound(Config(c, r2, f2, h))
  PROVE  Sound(Config(I(o, a, b) \o c, r, f, h))
<1> DEFINE i == Insn(o, a, b)
<1>1. i.op = o /\ i.a = a /\ o \in AllOps \ {"ret"} /\ o \notin AluOps
      /\ o \notin {"push", "save", "pop", "testcl", "store"}
  BY DEF AllOps, AluOps, Shifts, Insn
<1> HIDE DEF i
<1>2. ASSUME NEW r2 \in [Regs -> Words], NEW f2 \in FlagStates, NEW h2 \in [Words -> Words],
             Effect(i, r, f, h, r2, f2, h2)
      PROVE  Sound(Config(c, r2, f2, h2))
  <2>1. PICK lo \in Words, hi \in Words :
             /\ r2 = [r EXCEPT ![RAX] = lo, ![RDX] = hi]
             /\ OffStack(i) => lo = MulLow(r[RAX], y, W) /\ hi = MulHigh(r[RAX], y, W)
    BY <1>1, <1>2 DEF Effect
  <2>2. h2 = h
    BY <1>1, <1>2 DEF Effect
  <2>3. /\ r2[RAX] = lo /\ r2[RDX] = hi
        /\ \A q \in Regs \ {RAX, RDX} : r2[q] = r[q]
    BY <2>1 DEF RAX, RDX, Regs
  <2> QED
    BY <2>1, <2>2, <2>3 DEF i, Multiplies
<1> QED
  BY <1>1, <1>2, Ahead DEF i

\* The store of MOVBE.
LEMMA RunStore ==
  ASSUME NEW c \in Seq(AllInsns), NEW a \in Regs, NEW b \in Nat,
         NEW r \in [Regs -> Words], NEW f \in FlagStates, NEW h \in [Words -> Words],
         NEW h2 \in [Words -> Words], h2 = [h EXCEPT ![r[info.src.r]] = Over(@, r[a])],
         Sound(Config(c, r, f, h2))
  PROVE  Sound(Config(I("store", a, b) \o c, r, f, h))
<1> DEFINE i == Insn("store", a, b)
<1>1. i.op = "store" /\ i.a = a /\ "store" \in AllOps \ {"ret"} /\ "store" \notin AluOps
  BY DEF AllOps, AluOps, Shifts, Insn
<1> HIDE DEF i
<1>2. ASSUME NEW r2 \in [Regs -> Words], NEW f2 \in FlagStates, NEW h3 \in [Words -> Words],
             Effect(i, r, f, h, r2, f2, h3)
      PROVE  Sound(Config(c, r2, f2, h3))
  <2>1. r2 = r /\ f2 = f /\ h3 = h2
    BY <1>1, <1>2 DEF Effect
  <2> QED
    BY <2>1
<1> QED
  BY <1>1, <1>2, Ahead DEF i

\* A word that stands for another: MOV of a half drops the high bits.
Copy(x, y) == x = y \/ x = Trunc(y, W)

\* The r/m operand, of an instruction that has it in a register or at one.
Read(r, h) == IF info.src.kind = "reg" THEN r[info.src.r] ELSE h[r[info.src.r]]

\* What the decoders return.
LEMMA InfoTyped ==
  ASSUME info \in Infos
  PROVE  /\ W \in {0, 1} /\ info.mnem \in Mnems /\ info.dst \in Regs /\ info.aux \in Nat
         /\ info.src.r \in Regs /\ info.src \in Operands /\ RAX \in Regs /\ RCX \in Regs /\ RDX \in Regs
         /\ info.mnem # "RORX" => info.aux \in Regs
  BY TrampolineAssumption DEF TrampolineAssumption, InfoType, Operands, W, RAX, RCX, RDX, Regs

\* A copy is as good as the word, in every operation on an operand.
LEMMA Copies ==
  ASSUME NEW w \in {0, 1}, NEW x \in Words, NEW y \in Words, Trunc(x, w) = Trunc(y, w)
  PROVE  /\ Not(x, w) = Not(y, w) /\ Dec(x, w) = Dec(y, w) /\ Neg(x, w) = Neg(y, w)
         /\ Swap(x, w) = Swap(y, w)
         /\ \A n : /\ Shl(x, n, w) = Shl(y, n, w) /\ Shr(x, n, w) = Shr(y, n, w)
                   /\ Sar(x, n, w) = Sar(y, n, w) /\ Ror(x, n, w) = Ror(y, n, w)
         /\ \A z : /\ And(x, z, w) = And(y, z, w) /\ And(z, x, w) = And(z, y, w)
                   /\ Xor(x, z, w) = Xor(y, z, w) /\ Xor(z, x, w) = Xor(z, y, w)
                   /\ MulLow(x, z, w) = MulLow(y, z, w) /\ MulLow(z, x, w) = MulLow(z, y, w)
                   /\ MulHigh(x, z, w) = MulHigh(y, z, w) /\ MulHigh(z, x, w) = MulHigh(z, y, w)
<1>1. \A n : Shl(x, n, w) = Shl(y, n, w) /\ Shr(x, n, w) = Shr(y, n, w) /\ Ror(x, n, w) = Ror(y, n, w)
  BY Zenon DEF Shl, Shr, Ror
<1>2. \A n : Sar(x, n, w) = Sar(y, n, w)
  <2>1. Size(w) - 1 \in x <=> Size(w) - 1 \in y
    BY SizeFacts DEF Trunc, Ones
  <2> QED
    BY <1>1, <2>1 DEF Sar
<1>3. Dec(x, w) = Dec(y, w) /\ Neg(x, w) = Neg(y, w) /\ Swap(x, w) = Swap(y, w)
  BY Zenon DEF Dec, Neg, Swap
<1>4. \A z : Product(x, z, w) = Product(y, z, w) /\ Product(z, x, w) = Product(z, y, w)
  BY Zenon DEF Product
<1>5. \A z : /\ MulLow(x, z, w) = MulLow(y, z, w) /\ MulLow(z, x, w) = MulLow(z, y, w)
             /\ MulHigh(x, z, w) = MulHigh(y, z, w) /\ MulHigh(z, x, w) = MulHigh(z, y, w)
  BY <1>4, Zenon DEF MulLow, MulHigh
<1>6. Not(x, w) = Not(y, w)
  BY DEF Not, Trunc
<1>7. \A z : /\ And(x, z, w) = And(y, z, w) /\ And(z, x, w) = And(z, y, w)
  BY DEF And, Trunc
<1>8. \A z : Xor(x, z, w) = Xor(y, z, w) /\ Xor(z, x, w) = Xor(z, y, w)
  BY DEF Xor, Trunc
<1> QED
  BY <1>1, <1>2, <1>3, <1>5, <1>6, <1>7, <1>8

\* Results have no bits but those of an operand.
LEMMA Results ==
  ASSUME NEW w \in {0, 1}, NEW x, NEW y, NEW n
  PROVE  /\ Trunc(Trunc(x, w), w) = Trunc(x, w)
         /\ Trunc(And(x, y, w), w) = And(x, y, w)
         /\ Trunc(MulLow(x, y, w), w) = MulLow(x, y, w)
         /\ Trunc(MulHigh(x, y, w), w) = MulHigh(x, y, w)
         /\ w = W => \A z : /\ Copy(z, And(x, y, w)) => z = And(x, y, w)
                            /\ Copy(z, MulLow(x, y, w)) => z = MulLow(x, y, w)
                            /\ Copy(z, MulHigh(x, y, w)) => z = MulHigh(x, y, w)
                            /\ Copy(z, x) => Trunc(z, w) = Trunc(x, w)
<1>1. Trunc(Trunc(x, w), w) = Trunc(x, w)
  BY DEF Trunc
<1>2. \A u : u \subseteq Ones(w) => Trunc(u, w) = u
  BY DEF Trunc
<1>3. And(x, y, w) \subseteq Ones(w)
  BY DEF And, Trunc
<1>4. MulLow(x, y, w) \subseteq Ones(w) /\ MulHigh(x, y, w) \subseteq Ones(w)
  BY DEF MulLow, MulHigh, Bits, Ones
<1> QED
  BY <1>1, <1>2, <1>3, <1>4 DEF Copy

\* A copy has the low bits of what it copies.
LEMMA CopyTrunc ==
  ASSUME NEW x, NEW z, Copy(z, x)
  PROVE  Trunc(z, W) = Trunc(x, W)
  BY DEF Copy, Trunc

\* A register-writing instruction is one of the code of a stub.
LEMMA OneInsn ==
  ASSUME NEW o \in AllOps, NEW a \in Regs, NEW b \in Nat
  PROVE  I(o, a, b) \in Seq(AllInsns)
  BY DEF I, AllInsns

\* The pieces of a stub.
LEMMA StubPieces ==
  ASSUME NEW a \in Regs, NEW b \in Regs, NEW src, src.r \in Regs
  PROVE  /\ mov_rr(a, b) \in Seq(AllInsns) /\ mov_cl_reg(a) \in Seq(AllInsns)
         /\ LoadSrc(a, src) \in Seq(AllInsns)
         /\ push_r(a) \in Seq(AllInsns) /\ pop_r(a) \in Seq(AllInsns) /\ ret \in Seq(AllInsns)
<1>1. /\ {"mov", "movcl", "load", "push", "pop", "ret"} \subseteq AllOps
      /\ Regs \subseteq Nat /\ RAX \in Regs /\ RCX \in Regs
  BY DEF AllOps, AluOps, Regs, RAX, RCX
<1>2. <<>> \in Seq(AllInsns)
  OBVIOUS
<1>3. \A d, s \in Regs : mov_rr(d, s) \in Seq(AllInsns)
  BY <1>1, <1>2, OneInsn DEF mov_rr
<1> QED
  BY <1>1, <1>2, <1>3, OneInsn DEF mov_cl_reg, LoadSrc, push_r, pop_r, ret

\* MOV, which is left out when it would change nothing.
LEMMA RunMov ==
  ASSUME NEW c \in Seq(AllInsns), NEW dst \in Regs, NEW src \in Regs,
         NEW r \in [Regs -> Words], NEW f \in FlagStates, NEW h \in [Words -> Words],
         \A r2 \in [Regs -> Words], x \in Words :
           Sets(r, dst, x, r2) /\ Copy(x, r[src]) /\ (dst = src => x = r[src]) =>
             Sound(Config(c, r2, f, h))
  PROVE  Sound(Config(mov_rr(dst, src) \o c, r, f, h))
<1>1. CASE dst = src
  <2>1. mov_rr(dst, src) \o c = c
    BY <1>1 DEF mov_rr
  <2>2. Sets(r, dst, r[src], r) /\ Copy(r[src], r[src]) /\ r[src] \in Words
    BY <1>1 DEF Sets, Copy
  <2> QED
    BY <2>1, <2>2
<1>2. CASE dst # src
  <2>1. mov_rr(dst, src) = I("mov", dst, src) /\ "mov" \in AluOps /\ src \in Nat
    BY <1>2 DEF mov_rr, AluOps, Regs
  <2>2. OffStack(Insn("mov", dst, src))
    BY DEF OffStack, Insn
  <2>3. /\ Put(Insn("mov", dst, src), r, h) = Trunc(r[src], W)
        /\ \A x : FlagsOf(Insn("mov", dst, src), r, f, x) = f
    BY DEF Put, FlagsOf, Insn, Shifts
  <2>4. ASSUME NEW r2 \in [Regs -> Words], NEW f2 \in FlagStates,
               Sets(r, dst, Put(Insn("mov", dst, src), r, h), r2),
               f2 = FlagsOf(Insn("mov", dst, src), r, f, r2[dst])
        PROVE  Sound(Config(c, r2, f2, h))
    <3>1. Sets(r, dst, r2[dst], r2) /\ Copy(r2[dst], r[src]) /\ r2[dst] \in Words /\ f2 = f
      BY <2>3, <2>4 DEF Sets, Copy
    <3> QED
      BY <1>2, <3>1
  <2>5. Sound(Config(I("mov", dst, src) \o c, r, f, h))
    BY <2>1, <2>2, <2>4, RunAlu
  <2> QED
    BY <2>1, <2>5
<1> QED
  BY <1>1, <1>2

\* MOV CL, left out when the count is there.
LEMMA RunMovCl ==
  ASSUME NEW c \in Seq(AllInsns), NEW src \in Regs, RCX \in Regs,
         NEW r \in [Regs -> Words], NEW f \in FlagStates, NEW h \in [Words -> Words],
         \A r2 \in [Regs -> Words], x \in Words :
           Sets(r, RCX, x, r2) /\ x \intersect Byte = r[src] \intersect Byte =>
             Sound(Config(c, r2, f, h))
  PROVE  Sound(Config(mov_cl_reg(src) \o c, r, f, h))
<1>1. CASE src = RCX
  <2>1. mov_cl_reg(src) \o c = c
    BY <1>1 DEF mov_cl_reg
  <2>2. Sets(r, RCX, r[src], r) /\ r[src] \in Words
    BY <1>1 DEF Sets
  <2> QED
    BY <2>1, <2>2
<1>2. CASE src # RCX
  <2>1. mov_cl_reg(src) = I("movcl", RCX, src) /\ "movcl" \in AluOps /\ src \in Nat
    BY <1>2 DEF mov_cl_reg, AluOps, Regs
  <2>2. OffStack(Insn("movcl", RCX, src))
    BY DEF OffStack, Insn
  <2>3. /\ Put(Insn("movcl", RCX, src), r, h) = (r[RCX] \ Byte) \union (r[src] \intersect Byte)
        /\ \A x : FlagsOf(Insn("movcl", RCX, src), r, f, x) = f
    BY DEF Put, FlagsOf, Insn, Shifts
  <2>4. ASSUME NEW r2 \in [Regs -> Words], NEW f2 \in FlagStates,
               Sets(r, RCX, Put(Insn("movcl", RCX, src), r, h), r2),
               f2 = FlagsOf(Insn("movcl", RCX, src), r, f, r2[RCX])
        PROVE  Sound(Config(c, r2, f2, h))
    <3>1. Sets(r, RCX, r2[RCX], r2) /\ r2[RCX] \in Words /\ f2 = f
      BY <2>3, <2>4 DEF Sets
    <3>2. r2[RCX] = (r[RCX] \ Byte) \union (r[src] \intersect Byte)
      BY <2>3, <2>4 DEF Sets
    <3>3. r2[RCX] \intersect Byte = r[src] \intersect Byte
      BY <3>2
    <3> QED
      BY <3>1, <3>3
  <2>5. Sound(Config(I("movcl", RCX, src) \o c, r, f, h))
    BY <2>1, <2>2, <2>4, RunAlu
  <2> QED
    BY <2>1, <2>5
<1> QED
  BY <1>1, <1>2

\* The operand, fetched into a register.
LEMMA RunLoad ==
  ASSUME NEW c \in Seq(AllInsns), NEW dst \in Regs, info \in Infos, info.src.kind \in {"reg", "mem"},
         NEW r \in [Regs -> Words], NEW f \in FlagStates, NEW h \in [Words -> Words],
         \A r2 \in [Regs -> Words], x \in Words :
           /\ Sets(r, dst, x, r2) /\ Copy(x, Read(r, h))
           /\ (info.src.kind = "reg" /\ info.src.r = dst => x = r[dst])
           => Sound(Config(c, r2, f, h))
  PROVE  Sound(Config(LoadSrc(dst, info.src) \o c, r, f, h))
<1>0. info.src.r \in Regs
  BY InfoTyped
<1>1. CASE info.src.kind = "reg"
  <2>1. LoadSrc(dst, info.src) = mov_rr(dst, info.src.r) /\ Read(r, h) = r[info.src.r]
    BY <1>1 DEF LoadSrc, Read
  <2>2. Sound(Config(mov_rr(dst, info.src.r) \o c, r, f, h))
    BY <1>0, <1>1, <2>1, RunMov
  <2> QED
    BY <2>1, <2>2
<1>2. CASE info.src.kind # "reg"
  <2>1. LoadSrc(dst, info.src) = I("load", dst, dst) /\ "load" \in AluOps /\ dst \in Nat
        /\ Read(r, h) = h[r[info.src.r]]
    BY <1>2 DEF LoadSrc, AluOps, Regs, Read
  <2>2. OffStack(Insn("load", dst, dst))
    BY DEF OffStack, Insn
  <2>3. /\ Put(Insn("load", dst, dst), r, h) = Trunc(h[r[info.src.r]], W)
        /\ \A x : FlagsOf(Insn("load", dst, dst), r, f, x) = f
    BY DEF Put, FlagsOf, Insn, Shifts
  <2>4. ASSUME NEW r2 \in [Regs -> Words], NEW f2 \in FlagStates,
               Sets(r, dst, Put(Insn("load", dst, dst), r, h), r2),
               f2 = FlagsOf(Insn("load", dst, dst), r, f, r2[dst])
        PROVE  Sound(Config(c, r2, f2, h))
    <3>1. Sets(r, dst, r2[dst], r2) /\ Copy(r2[dst], Read(r, h)) /\ r2[dst] \in Words /\ f2 = f
      BY <2>1, <2>3, <2>4 DEF Sets, Copy
    <3> QED
      BY <1>2, <3>1
  <2>5. Sound(Config(I("load", dst, dst) \o c, r, f, h))
    BY <2>1, <2>2, <2>4, RunAlu
  <2> QED
    BY <2>1, <2>5
<1> QED
  BY <1>1, <1>2

\* Code after code.
Cat(x, z) == x \o z

\* Code put together from the left is code put together from the right.
LEMMA Assoc ==
  ASSUME NEW a \in Seq(AllInsns), NEW b \in Seq(AllInsns), NEW z \in Seq(AllInsns)
  PROVE  Cat(a, b) \in Seq(AllInsns) /\ Cat(Cat(a, b), z) = Cat(a, Cat(b, z))
  BY DEF Cat

\* Three pieces.
LEMMA Assoc3 ==
  ASSUME NEW a \in Seq(AllInsns), NEW b \in Seq(AllInsns), NEW c \in Seq(AllInsns),
         NEW z \in Seq(AllInsns)
  PROVE  /\ Cat(Cat(a, b), c) \in Seq(AllInsns)
         /\ Cat(Cat(Cat(a, b), c), z) = Cat(a, Cat(b, Cat(c, z)))
<1> DEFINE y == Cat(a, b)
           u == Cat(c, z)
<1>1. y \in Seq(AllInsns)
  BY Assoc
<1>2. u \in Seq(AllInsns)
  BY Assoc
<1> HIDE DEF u
<1>3. Cat(y, u) = Cat(a, Cat(b, u))
  BY <1>2, Assoc
<1> HIDE DEF y
<1>4. Cat(y, c) \in Seq(AllInsns) /\ Cat(Cat(y, c), z) = Cat(y, u)
  BY <1>1, Assoc DEF u
<1> QED
  BY <1>3, <1>4, Zenon DEF y, u

\* Four pieces.
LEMMA Assoc4 ==
  ASSUME NEW a \in Seq(AllInsns), NEW b \in Seq(AllInsns), NEW c \in Seq(AllInsns),
         NEW d \in Seq(AllInsns), NEW z \in Seq(AllInsns)
  PROVE  /\ Cat(Cat(Cat(a, b), c), d) \in Seq(AllInsns)
         /\ Cat(Cat(Cat(Cat(a, b), c), d), z) = Cat(a, Cat(b, Cat(c, Cat(d, z))))
<1> DEFINE y == Cat(Cat(a, b), c)
           u == Cat(d, z)
<1>1. y \in Seq(AllInsns)
  BY Assoc3
<1>2. u \in Seq(AllInsns)
  BY Assoc
<1> HIDE DEF u
<1>3. Cat(y, u) = Cat(a, Cat(b, Cat(c, u)))
  BY <1>2, Assoc3
<1> HIDE DEF y
<1>4. Cat(y, d) \in Seq(AllInsns) /\ Cat(Cat(y, d), z) = Cat(y, u)
  BY <1>1, Assoc DEF u
<1> QED
  BY <1>3, <1>4, Zenon DEF y, u

\* Five pieces.
LEMMA Assoc5 ==
  ASSUME NEW a \in Seq(AllInsns), NEW b \in Seq(AllInsns), NEW c \in Seq(AllInsns),
         NEW d \in Seq(AllInsns), NEW e \in Seq(AllInsns), NEW z \in Seq(AllInsns)
  PROVE  /\ Cat(Cat(Cat(Cat(a, b), c), d), e) \in Seq(AllInsns)
         /\ Cat(Cat(Cat(Cat(Cat(a, b), c), d), e), z) = Cat(a, Cat(b, Cat(c, Cat(d, Cat(e, z)))))
<1> DEFINE y == Cat(Cat(Cat(a, b), c), d)
           u == Cat(e, z)
<1>1. y \in Seq(AllInsns)
  BY Assoc4
<1>2. u \in Seq(AllInsns)
  BY Assoc
<1> HIDE DEF u
<1>3. Cat(y, u) = Cat(a, Cat(b, Cat(c, Cat(d, u))))
  BY <1>2, Assoc4
<1> HIDE DEF y
<1>4. Cat(y, e) \in Seq(AllInsns) /\ Cat(Cat(y, e), z) = Cat(y, u)
  BY <1>1, Assoc DEF u
<1> QED
  BY <1>3, <1>4, Zenon DEF y, u

\* Six pieces.
LEMMA Assoc6 ==
  ASSUME NEW a \in Seq(AllInsns), NEW b \in Seq(AllInsns), NEW c \in Seq(AllInsns),
         NEW d \in Seq(AllInsns), NEW e \in Seq(AllInsns), NEW f \in Seq(AllInsns),
         NEW z \in Seq(AllInsns)
  PROVE  /\ Cat(Cat(Cat(Cat(Cat(a, b), c), d), e), f) \in Seq(AllInsns)
         /\ Cat(Cat(Cat(Cat(Cat(Cat(a, b), c), d), e), f), z) =
              Cat(a, Cat(b, Cat(c, Cat(d, Cat(e, Cat(f, z))))))
<1> DEFINE y == Cat(Cat(Cat(Cat(a, b), c), d), e)
           u == Cat(f, z)
<1>1. y \in Seq(AllInsns)
  BY Assoc5
<1>2. u \in Seq(AllInsns)
  BY Assoc
<1> HIDE DEF u
<1>3. Cat(y, u) = Cat(a, Cat(b, Cat(c, Cat(d, Cat(e, u)))))
  BY <1>2, Assoc5
<1> HIDE DEF y
<1>4. Cat(y, f) \in Seq(AllInsns) /\ Cat(Cat(y, f), z) = Cat(y, u)
  BY <1>1, Assoc DEF u
<1> QED
  BY <1>3, <1>4, Zenon DEF y, u

\* Registers that hold what they are to make the end right.
LEMMA RightEnd ==
  ASSUME info \in Infos, info.mnem # "MOVBE_st",
         NEW r \in [Regs -> Words], NEW f \in FlagStates,
         \A q \in Outs : r[q] = Expected(q),
         info.mnem \in BlsOps \union {"ANDN"} => f = ZeroFlag(r[info.dst])
  PROVE  Sound(Config(ret, r, f, Heap))
<1>1. Heap \in [Words -> Words]
  BY TrampolineAssumption DEF TrampolineAssumption
<1>2. ExpectedHeap = Heap
  BY DEF ExpectedHeap
<1>3. Right(Config(ret, r, f, Heap))
  BY <1>2 DEF Right, Config
<1> QED
  BY <1>1, <1>3, SoundEnd

\* The operand the stub reads first is the one the instruction reads.
LEMMA ReadSource ==
  ASSUME info \in Infos, info.src.kind \in {"reg", "mem"}, regs0 \in [Regs -> Words]
  PROVE  /\ Source = Read(regs0, Heap) /\ Source \in Words /\ Heap \in [Words -> Words]
         /\ info.src.kind = "reg" => Source = regs0[info.src.r]
<1>1. Heap \in [Words -> Words]
  BY TrampolineAssumption DEF TrampolineAssumption
<1>2. info.src.r \in Regs
  BY InfoTyped
<1>3. CASE info.src.kind = "reg"
  BY <1>1, <1>2, <1>3 DEF Source, Read
<1>4. CASE info.src.kind = "mem"
  BY <1>1, <1>2, <1>4 DEF Source, SiteAddress, Read
<1> QED
  BY <1>1, <1>3, <1>4

\* A register that is written leaves the operand alone, unless it is the one
\* the operand is in or at.
LEMMA ReadSame ==
  ASSUME info \in Infos, NEW r, NEW r2, NEW h, r2[info.src.r] = r[info.src.r]
  PROVE  Read(r2, h) = Read(r, h)
  BY DEF Read

\* A shift of a copy of the operand, by the count there was.
LEMMA ShiftPut ==
  ASSUME info \in Infos, info.mnem \in Shifts, NEW a, NEW b, NEW r, NEW h,
         r[a] \in Words, Source \in Words, Copy(r[a], Source),
         r[b] \intersect Byte = regs0[info.aux] \intersect Byte
  PROVE  Put(Insn(info.mnem, a, b), r, h) = Meaning
<1>1. W \in {0, 1}
  BY InfoTyped
<1>2. Trunc(r[a], W) = Trunc(Source, W)
  BY CopyTrunc
<1>3. Count(r[b], W) = Count(regs0[info.aux], W)
  BY DEF Count
<1>4. \A n : /\ Shl(r[a], n, W) = Shl(Source, n, W) /\ Shr(r[a], n, W) = Shr(Source, n, W)
             /\ Sar(r[a], n, W) = Sar(Source, n, W)
  BY <1>1, <1>2, Copies
<1>5. CASE info.mnem = "SHLX"
  BY <1>3, <1>4, <1>5 DEF Put, Insn, Meaning, Shifts
<1>6. CASE info.mnem = "SHRX"
  BY <1>3, <1>4, <1>6 DEF Put, Insn, Meaning, Shifts
<1>7. CASE info.mnem = "SARX"
  BY <1>3, <1>4, <1>7 DEF Put, Insn, Meaning, Shifts
<1> QED
  BY <1>5, <1>6, <1>7 DEF Shifts

\* A shift with the count in CL, and then the end.
LEMMA ShiftEnd ==
  ASSUME info \in Infos, info.mnem \in Shifts, NEW c \in Seq(AllInsns), NEW a \in Regs,
         NEW r \in [Regs -> Words], NEW f \in FlagStates, NEW h \in [Words -> Words],
         Source \in Words, Copy(r[a], Source),
         r[RCX] \intersect Byte = regs0[info.aux] \intersect Byte,
         \A r2 \in [Regs -> Words], f2 \in FlagStates :
           Sets(r, a, Meaning, r2) => Sound(Config(c, r2, f2, h))
  PROVE  Sound(Config(I(info.mnem, a, RCX) \o c, r, f, h))
<1>1. info.mnem \in AluOps /\ RCX \in Nat /\ OffStack(Insn(info.mnem, a, RCX))
  BY DEF AluOps, Shifts, RCX, OffStack, Insn
<1>2. r[a] \in Words
  OBVIOUS
<1>3. Put(Insn(info.mnem, a, RCX), r, h) = Meaning
  BY <1>2, ShiftPut
<1> QED
  BY <1>1, <1>3, RunAlu

\* SHLX, SHRX and SARX with the count in CL already.
LEMMA ShiftInCl ==
  ASSUME info \in Infos, info.mnem \in Shifts, regs0 \in [Regs -> Words], Faithful,
         info.aux = RCX, NEW f \in FlagStates
  PROVE  Sound(Config(MakeTrampoline(info), regs0, f, Heap))
<1> DEFINE p == LoadSrc(info.dst, info.src)
           q == I(info.mnem, info.dst, RCX)
           dst == info.dst
<1>1. /\ info.src.kind \in {"reg", "mem"} /\ W \in {0, 1} /\ dst \in Regs /\ RCX \in Regs
      /\ info.mnem \in AllOps /\ RCX \in Nat /\ info.src.r \in Regs
      /\ dst = RCX => info.src.kind = "reg" /\ info.src.r = RCX
  BY InfoTyped DEF Faithful, FaithfulOperand, FaithfulShift, Shifts, AllOps, AluOps, Regs
<1>2. /\ Source = Read(regs0, Heap) /\ Source \in Words /\ Heap \in [Words -> Words]
      /\ info.src.kind = "reg" => Source = regs0[info.src.r]
  BY <1>1, ReadSource
<1>3. p \in Seq(AllInsns) /\ q \in Seq(AllInsns) /\ ret \in Seq(AllInsns)
  BY <1>1, StubPieces, OneInsn
<1>4. MakeTrampoline(info) = Cat(Cat(p, q), ret)
  BY DEF MakeTrampoline, MakeShift, Shifts, BlsOps, Cat
<1>5. Outs = {dst} /\ Expected(dst) = Meaning
  BY DEF Outs, Expected, Shifts
<1>6. info.mnem \notin BlsOps \union {"ANDN"} /\ info.mnem # "MOVBE_st"
  BY DEF Shifts, BlsOps
<1> HIDE DEF p, q, dst
<1>7. MakeTrampoline(info) = p \o (q \o ret) /\ q \o ret \in Seq(AllInsns)
  BY <1>3, <1>4, Assoc DEF Cat
<1>8. ASSUME NEW r1 \in [Regs -> Words], NEW x \in Words,
             Sets(regs0, dst, x, r1), Copy(x, Read(regs0, Heap)),
             info.src.kind = "reg" /\ info.src.r = dst => x = regs0[dst]
      PROVE  Sound(Config(q \o ret, r1, f, Heap))
  <2>1. Copy(r1[dst], Source)
    BY <1>2, <1>8 DEF Sets
  <2>2. r1[RCX] \intersect Byte = regs0[info.aux] \intersect Byte
    <3>1. CASE dst = RCX
      BY <1>1, <1>8, <3>1 DEF Sets
    <3>2. CASE dst # RCX
      BY <1>1, <1>8, <3>2 DEF Sets
    <3> QED
      BY <3>1, <3>2
  <2>3. ASSUME NEW r2 \in [Regs -> Words], NEW f2 \in FlagStates, Sets(r1, dst, Meaning, r2)
        PROVE  Sound(Config(ret, r2, f2, Heap))
    <3>1. \A o \in Outs : r2[o] = Expected(o)
      BY <1>5, <2>3 DEF Sets
    <3> QED
      BY <1>6, <3>1, RightEnd
  <2> QED
    BY <1>1, <1>2, <1>3, <2>1, <2>2, <2>3, ShiftEnd DEF q, dst
<1>9. Sound(Config(p \o (q \o ret), regs0, f, Heap))
  BY <1>1, <1>2, <1>7, <1>8, RunLoad DEF p, dst
<1> QED
  BY <1>7, <1>9

\* A copy of a shifted operand is what the shift put there.
LEMMA ShiftWhole ==
  ASSUME info \in Infos, info.mnem \in Shifts, NEW x, Copy(x, Meaning)
  PROVE  x = Meaning
<1>1. Meaning \subseteq Ones(W)
  <2>1. \A s, n : /\ Shl(s, n, W) \subseteq Ones(W) /\ Shr(s, n, W) \subseteq Ones(W)
                  /\ Sar(s, n, W) \subseteq Ones(W)
    BY DEF Shl, Shr, Sar
  <2>2. CASE info.mnem = "SHLX"
    BY <2>1, <2>2 DEF Meaning
  <2>3. CASE info.mnem = "SHRX"
    BY <2>1, <2>3 DEF Meaning
  <2>4. CASE info.mnem = "SARX"
    BY <2>1, <2>4 DEF Meaning
  <2> QED
    BY <2>2, <2>3, <2>4 DEF Shifts
<1> QED
  BY <1>1 DEF Copy, Trunc

\* With RCX for the destination.
LEMMA ShiftToRcx ==
  ASSUME info \in Infos, info.mnem \in Shifts, regs0 \in [Regs -> Words], Faithful,
         info.aux # RCX, info.dst = RCX, NEW f \in FlagStates
  PROVE  Sound(Config(MakeTrampoline(info), regs0, f, Heap))
<1> DEFINE p == push_r(RAX)
           q == LoadSrc(RAX, info.src)
           u == mov_cl_reg(info.aux)
           v == I(info.mnem, RAX, RCX)
           x == mov_rr(RCX, RAX)
           y == pop_r(RAX)
           aux == info.aux
<1>1. /\ info.src.kind \in {"reg", "mem"} /\ W \in {0, 1} /\ RCX \in Regs /\ RAX \in Regs /\ RAX # RCX
      /\ info.mnem \in AllOps /\ RCX \in Nat /\ info.src.r \in Regs /\ aux \in Regs
      /\ aux = RAX => info.src.kind = "reg" /\ info.src.r = RAX
  BY InfoTyped DEF Faithful, FaithfulOperand, FaithfulShift, Shifts, AllOps, AluOps, Regs, RAX, RCX
<1>2. /\ Source = Read(regs0, Heap) /\ Source \in Words /\ Heap \in [Words -> Words]
  BY <1>1, ReadSource
<1>3. /\ p \in Seq(AllInsns) /\ q \in Seq(AllInsns) /\ u \in Seq(AllInsns) /\ v \in Seq(AllInsns)
      /\ x \in Seq(AllInsns) /\ y \in Seq(AllInsns) /\ ret \in Seq(AllInsns)
  BY <1>1, StubPieces, OneInsn
<1>4. MakeTrampoline(info) = Cat(Cat(Cat(Cat(Cat(Cat(p, q), u), v), x), y), ret)
  BY DEF MakeTrampoline, MakeShift, Shifts, BlsOps, Cat
<1>5. Outs = {RCX} /\ Expected(RCX) = Meaning
  BY DEF Outs, Expected, Shifts
<1>6. info.mnem \notin BlsOps \union {"ANDN"} /\ info.mnem # "MOVBE_st"
  BY DEF Shifts, BlsOps
<1>7. p = I("push", RAX, RAX) /\ y = I("pop", RAX, RAX) /\ RAX \in Nat
  BY DEF push_r, pop_r, RAX
<1> HIDE DEF p, q, u, v, x, y, aux
<1> DEFINE c5 == Cat(y, ret)
           c4 == Cat(x, c5)
           c3 == Cat(v, c4)
           c2 == Cat(u, c3)
           c1 == Cat(q, c2)
<1>8. MakeTrampoline(info) = Cat(p, c1)
  BY <1>3, <1>4, Assoc6
<1>9. /\ c1 \in Seq(AllInsns) /\ c2 \in Seq(AllInsns) /\ c3 \in Seq(AllInsns) /\ c4 \in Seq(AllInsns)
      /\ c5 \in Seq(AllInsns)
  BY <1>3, Assoc
<1>10. ASSUME NEW r4 \in [Regs -> Words], r4[RCX] = Meaning, NEW f4 \in FlagStates
       PROVE  Sound(Config(c5, r4, f4, Heap))
  <2>1. ASSUME NEW r5 \in [Regs -> Words], NEW w \in Words, Sets(r4, RAX, w, r5)
        PROVE  Sound(Config(ret, r5, f4, Heap))
    <3>1. \A o \in Outs : r5[o] = Expected(o)
      BY <1>1, <1>5, <1>10, <2>1 DEF Sets
    <3> QED
      BY <1>6, <3>1, RightEnd
  <2> QED
    BY <1>1, <1>2, <1>3, <1>7, <2>1, RunPop DEF Cat
<1>11. ASSUME NEW r3 \in [Regs -> Words], r3[RAX] = Meaning, NEW f3 \in FlagStates
       PROVE  Sound(Config(c4, r3, f3, Heap))
  <2>1. ASSUME NEW r4 \in [Regs -> Words], NEW w \in Words, Sets(r3, RCX, w, r4), Copy(w, r3[RAX])
        PROVE  Sound(Config(c5, r4, f3, Heap))
    <3>1. r4[RCX] = Meaning
      BY <1>11, <2>1, ShiftWhole DEF Sets
    <3> QED
      BY <1>10, <3>1
  <2> QED
    BY <1>1, <1>2, <1>9, <2>1, RunMov DEF Cat, x
<1>12. ASSUME NEW r2 \in [Regs -> Words], Copy(r2[RAX], Source),
              r2[RCX] \intersect Byte = regs0[aux] \intersect Byte
       PROVE  Sound(Config(c3, r2, f, Heap))
  <2>1. ASSUME NEW r3 \in [Regs -> Words], NEW f3 \in FlagStates, Sets(r2, RAX, Meaning, r3)
        PROVE  Sound(Config(c4, r3, f3, Heap))
    BY <1>11, <2>1 DEF Sets
  <2> QED
    BY <1>1, <1>2, <1>9, <1>12, <2>1, ShiftEnd DEF Cat, v, aux
<1>13. ASSUME NEW r1 \in [Regs -> Words], Copy(r1[RAX], Source), r1[aux] = regs0[aux]
       PROVE  Sound(Config(c2, r1, f, Heap))
  <2>1. ASSUME NEW r2 \in [Regs -> Words], NEW w \in Words, Sets(r1, RCX, w, r2),
               w \intersect Byte = r1[aux] \intersect Byte
        PROVE  Sound(Config(c3, r2, f, Heap))
    <3>1. Copy(r2[RAX], Source) /\ r2[RCX] \intersect Byte = regs0[aux] \intersect Byte
      BY <1>1, <1>13, <2>1 DEF Sets
    <3> QED
      BY <1>12, <3>1
  <2> QED
    BY <1>1, <1>2, <1>9, <2>1, RunMovCl DEF Cat, u, aux
<1>14. Sound(Config(c1, regs0, f, Heap))
  <2>1. ASSUME NEW r1 \in [Regs -> Words], NEW w \in Words,
               Sets(regs0, RAX, w, r1), Copy(w, Read(regs0, Heap)),
               info.src.kind = "reg" /\ info.src.r = RAX => w = regs0[RAX]
        PROVE  Sound(Config(c2, r1, f, Heap))
    <3>1. Copy(r1[RAX], Source) /\ r1[aux] = regs0[aux]
      BY <1>1, <1>2, <2>1 DEF Sets
    <3> QED
      BY <1>13, <3>1
  <2> QED
    BY <1>1, <1>2, <1>9, <2>1, RunLoad DEF Cat, q
<1>15. Sound(Config(Cat(p, c1), regs0, f, Heap))
  BY <1>1, <1>2, <1>7, <1>9, <1>14, RunPush DEF Cat
<1> QED
  BY <1>8, <1>15

\* With neither the count nor the destination in RCX.
LEMMA ShiftElsewhere ==
  ASSUME info \in Infos, info.mnem \in Shifts, regs0 \in [Regs -> Words], Faithful,
         info.aux # RCX, info.dst # RCX, NEW f \in FlagStates
  PROVE  Sound(Config(MakeTrampoline(info), regs0, f, Heap))
<1> DEFINE dst == info.dst
           aux == info.aux
           p == push_r(RCX)
           q == mov_cl_reg(aux)
           u == LoadSrc(dst, info.src)
           v == I(info.mnem, dst, RCX)
           x == pop_r(RCX)
<1>1. /\ info.src.kind \in {"reg", "mem"} /\ W \in {0, 1} /\ RCX \in Regs /\ dst \in Regs /\ dst # RCX
      /\ info.mnem \in AllOps /\ RCX \in Nat /\ info.src.r \in Regs /\ aux \in Regs
      /\ info.src.r # RCX
  BY InfoTyped DEF Faithful, FaithfulOperand, FaithfulShift, Names, Shifts, AllOps, AluOps, Regs
<1>2. /\ Source = Read(regs0, Heap) /\ Source \in Words /\ Heap \in [Words -> Words]
  BY <1>1, ReadSource
<1>3. /\ p \in Seq(AllInsns) /\ q \in Seq(AllInsns) /\ u \in Seq(AllInsns) /\ v \in Seq(AllInsns)
      /\ x \in Seq(AllInsns) /\ ret \in Seq(AllInsns)
  BY <1>1, StubPieces, OneInsn
<1>4. MakeTrampoline(info) = Cat(Cat(Cat(Cat(Cat(p, q), u), v), x), ret)
  BY DEF MakeTrampoline, MakeShift, Shifts, BlsOps, Cat
<1>5. Outs = {dst} /\ Expected(dst) = Meaning
  BY DEF Outs, Expected, Shifts
<1>6. info.mnem \notin BlsOps \union {"ANDN"} /\ info.mnem # "MOVBE_st"
  BY DEF Shifts, BlsOps
<1>7. p = I("push", RCX, RCX) /\ x = I("pop", RCX, RCX)
  BY DEF push_r, pop_r
<1> HIDE DEF p, q, u, v, x, aux, dst
<1> DEFINE c4 == Cat(x, ret)
           c3 == Cat(v, c4)
           c2 == Cat(u, c3)
           c1 == Cat(q, c2)
<1>8. MakeTrampoline(info) = Cat(p, c1)
  BY <1>3, <1>4, Assoc5
<1>9. /\ c1 \in Seq(AllInsns) /\ c2 \in Seq(AllInsns) /\ c3 \in Seq(AllInsns) /\ c4 \in Seq(AllInsns)
  BY <1>3, Assoc
<1>10. ASSUME NEW r3 \in [Regs -> Words], r3[dst] = Meaning, NEW f3 \in FlagStates
       PROVE  Sound(Config(c4, r3, f3, Heap))
  <2>1. ASSUME NEW r4 \in [Regs -> Words], NEW w \in Words, Sets(r3, RCX, w, r4)
        PROVE  Sound(Config(ret, r4, f3, Heap))
    <3>1. \A o \in Outs : r4[o] = Expected(o)
      BY <1>1, <1>5, <1>10, <2>1 DEF Sets
    <3> QED
      BY <1>6, <3>1, RightEnd
  <2> QED
    BY <1>1, <1>2, <1>3, <1>7, <2>1, RunPop DEF Cat
<1>11. ASSUME NEW r2 \in [Regs -> Words], Copy(r2[dst], Source),
              r2[RCX] \intersect Byte = regs0[aux] \intersect Byte
       PROVE  Sound(Config(c3, r2, f, Heap))
  <2>1. ASSUME NEW r3 \in [Regs -> Words], NEW f3 \in FlagStates, Sets(r2, dst, Meaning, r3)
        PROVE  Sound(Config(c4, r3, f3, Heap))
    BY <1>10, <2>1 DEF Sets
  <2> QED
    BY <1>1, <1>2, <1>9, <1>11, <2>1, ShiftEnd DEF Cat, v, aux
<1>12. ASSUME NEW r1 \in [Regs -> Words], r1[info.src.r] = regs0[info.src.r],
              r1[RCX] \intersect Byte = regs0[aux] \intersect Byte
       PROVE  Sound(Config(c2, r1, f, Heap))
  <2>1. Read(r1, Heap) = Source
    BY <1>2, <1>12, ReadSame
  <2>2. ASSUME NEW r2 \in [Regs -> Words], NEW w \in Words,
               Sets(r1, dst, w, r2), Copy(w, Read(r1, Heap))
        PROVE  Sound(Config(c3, r2, f, Heap))
    <3>1. Copy(r2[dst], Source) /\ r2[RCX] \intersect Byte = regs0[aux] \intersect Byte
      BY <1>1, <1>12, <2>1, <2>2 DEF Sets
    <3> QED
      BY <1>11, <3>1
  <2> QED
    BY <1>1, <1>2, <1>9, <2>2, RunLoad DEF Cat, u
<1>13. Sound(Config(c1, regs0, f, Heap))
  <2>1. ASSUME NEW r1 \in [Regs -> Words], NEW w \in Words, Sets(regs0, RCX, w, r1),
               w \intersect Byte = regs0[aux] \intersect Byte
        PROVE  Sound(Config(c2, r1, f, Heap))
    <3>1. r1[info.src.r] = regs0[info.src.r] /\ r1[RCX] \intersect Byte = regs0[aux] \intersect Byte
      BY <1>1, <2>1 DEF Sets
    <3> QED
      BY <1>12, <3>1
  <2> QED
    BY <1>1, <1>2, <1>9, <2>1, RunMovCl DEF Cat, q
<1>14. Sound(Config(Cat(p, c1), regs0, f, Heap))
  BY <1>1, <1>2, <1>7, <1>9, <1>13, RunPush DEF Cat
<1> QED
  BY <1>8, <1>14

\* RORX.
LEMMA RorxSound ==
  ASSUME info \in Infos, info.mnem = "RORX", regs0 \in [Regs -> Words], Faithful,
         NEW f \in FlagStates
  PROVE  Sound(Config(MakeTrampoline(info), regs0, f, Heap))
<1> DEFINE dst == info.dst
           p == LoadSrc(dst, info.src)
           q == I("ror", dst, info.aux)
           c1 == q \o ret
<1>1. /\ info.src.kind \in {"reg", "mem"} /\ W \in {0, 1} /\ dst \in Regs
      /\ "ror" \in AllOps /\ "ror" \in AluOps /\ info.aux \in Nat /\ info.src.r \in Regs
  BY InfoTyped DEF Faithful, FaithfulOperand, AllOps, AluOps
<1>2. /\ Source = Read(regs0, Heap) /\ Source \in Words /\ Heap \in [Words -> Words]
  BY <1>1, ReadSource
<1>3. p \in Seq(AllInsns) /\ q \in Seq(AllInsns) /\ ret \in Seq(AllInsns)
  BY <1>1, StubPieces, OneInsn
<1>4. MakeTrampoline(info) = Cat(Cat(p, q), ret)
  BY DEF MakeTrampoline, MakeRorx, Shifts, BlsOps, Cat
<1>5. Outs = {dst} /\ Expected(dst) = Ror(Source, info.aux % Size(W), W)
  BY DEF Outs, Expected, Meaning
<1>6. info.mnem \notin BlsOps \union {"ANDN"}
  BY DEF BlsOps
<1> HIDE DEF p, q, dst
<1>7. MakeTrampoline(info) = p \o c1 /\ c1 \in Seq(AllInsns)
  BY <1>3, <1>4, Assoc DEF Cat
<1>8. ASSUME NEW r1 \in [Regs -> Words], NEW x \in Words,
             Sets(regs0, dst, x, r1), Copy(x, Read(regs0, Heap))
      PROVE  Sound(Config(c1, r1, f, Heap))
  <2>1. r1[dst] \in Words /\ Trunc(r1[dst], W) = Trunc(Source, W)
    BY <1>1, <1>2, <1>8, CopyTrunc DEF Sets
  <2>2. Put(Insn("ror", dst, info.aux), r1, Heap) = Ror(Source, info.aux % Size(W), W)
    <3>1. Put(Insn("ror", dst, info.aux), r1, Heap) = Ror(r1[dst], info.aux % Size(W), W)
      BY DEF Put, Insn
    <3> QED
      BY <1>1, <1>2, <2>1, <3>1, Copies
  <2>3. OffStack(Insn("ror", dst, info.aux))
    BY DEF OffStack, Insn
  <2>4. ASSUME NEW r2 \in [Regs -> Words], NEW f2 \in FlagStates,
               Sets(r1, dst, Ror(Source, info.aux % Size(W), W), r2)
        PROVE  Sound(Config(ret, r2, f2, Heap))
    <3>1. \A o \in Outs : r2[o] = Expected(o)
      BY <1>5, <2>4 DEF Sets
    <3> QED
      BY <1>6, <3>1, RightEnd
  <2> QED
    BY <1>1, <1>2, <1>3, <2>2, <2>3, <2>4, RunAlu DEF q
<1>9. Sound(Config(p \o c1, regs0, f, Heap))
  BY <1>1, <1>2, <1>7, <1>8, RunLoad DEF p
<1> QED
  BY <1>7, <1>9

\* A temporary is one of the registers, and none of those in use.
LEMMA PickTmpFresh ==
  ASSUME NEW a \in Regs, NEW b \in Regs, NEW c \in Regs, NEW used, used \subseteq {a, b, c}
  PROVE  PickTmp(used) \in Regs \ used
<1>1. Regs \ used # {} /\ Regs \ used \subseteq Nat
  BY DEF Regs
<1>2. \E r \in Regs \ used : \A q \in Regs \ used : r <= q
  BY <1>1, LeastExists
<1> QED
  BY <1>2 DEF PickTmp

\* ANDN.
LEMMA AndnSound ==
  ASSUME info \in Infos, info.mnem = "ANDN", regs0 \in [Regs -> Words], Faithful,
         NEW f \in FlagStates
  PROVE  Sound(Config(MakeTrampoline(info), regs0, f, Heap))
<1> DEFINE dst == info.dst
           aux == info.aux
           tmp == PickTmp({dst, aux} \union SrcReg(info.src))
           o == IF info.src.kind = "reg" THEN "and" ELSE "andmem"
           b == IF info.src.kind = "reg" THEN info.src.r ELSE tmp
           p == push_r(tmp)
           q == mov_rr(tmp, aux)
           u == I("not", tmp, tmp)
           v == I(o, tmp, b)
           x == mov_rr(dst, tmp)
           y == pop_r(tmp)
           res == And(Not(regs0[aux], W), Source, W)
<1>1. /\ info.src.kind \in {"reg", "mem"} /\ W \in {0, 1} /\ dst \in Regs /\ aux \in Regs
      /\ o \in AllOps /\ o \in AluOps /\ info.src.r \in Regs /\ "not" \in AluOps /\ "not" \in AllOps
      /\ {dst, aux} \union SrcReg(info.src) \subseteq {dst, aux, info.src.r}
  BY InfoTyped DEF Faithful, FaithfulOperand, AllOps, AluOps, SrcReg
<1>2. tmp \in Regs \ ({dst, aux} \union SrcReg(info.src)) /\ Regs \subseteq Nat
  BY <1>1, PickTmpFresh DEF Regs
<1>3. info.src.r # tmp
  BY <1>1, <1>2 DEF Faithful, SrcReg
<1>4. /\ Source = Read(regs0, Heap) /\ Source \in Words /\ Heap \in [Words -> Words]
  BY <1>1, ReadSource
<1>5. b \in Nat
  BY <1>1, <1>2
<1>6. MakeTrampoline(info) = Cat(Cat(Cat(Cat(Cat(Cat(p, q), u), v), x), y), ret)
  BY DEF MakeTrampoline, MakeAndn, Shifts, BlsOps, Cat
<1>7. Outs = {dst} /\ Expected(dst) = res
  BY DEF Outs, Expected, Meaning
<1> HIDE DEF tmp
<1>8. /\ p \in Seq(AllInsns) /\ q \in Seq(AllInsns) /\ u \in Seq(AllInsns) /\ v \in Seq(AllInsns)
      /\ x \in Seq(AllInsns) /\ y \in Seq(AllInsns) /\ ret \in Seq(AllInsns)
  BY <1>1, <1>2, <1>5, StubPieces, OneInsn
<1>9. p = I("push", tmp, tmp) /\ y = I("pop", tmp, tmp)
  BY DEF push_r, pop_r
<1> HIDE DEF p, q, u, v, x, y, aux, dst, o, b
<1> DEFINE c5 == Cat(y, ret)
           c4 == Cat(x, c5)
           c3 == Cat(v, c4)
           c2 == Cat(u, c3)
           c1 == Cat(q, c2)
<1>10. MakeTrampoline(info) = Cat(p, c1)
  BY <1>6, <1>8, Assoc6
<1>11. /\ c1 \in Seq(AllInsns) /\ c2 \in Seq(AllInsns) /\ c3 \in Seq(AllInsns) /\ c4 \in Seq(AllInsns)
       /\ c5 \in Seq(AllInsns)
  BY <1>8, Assoc
<1>12. ASSUME NEW r4 \in [Regs -> Words], r4[dst] = res, NEW f4 \in FlagStates, f4 = ZeroFlag(res)
       PROVE  Sound(Config(c5, r4, f4, Heap))
  <2>1. ASSUME NEW r5 \in [Regs -> Words], NEW w \in Words, Sets(r4, tmp, w, r5)
        PROVE  Sound(Config(ret, r5, f4, Heap))
    <3>1. r5[dst] = res
      BY <1>1, <1>2, <1>12, <2>1 DEF Sets
    <3>2. (\A z \in Outs : r5[z] = Expected(z)) /\ f4 = ZeroFlag(r5[dst])
      BY <1>7, <1>12, <3>1
    <3> QED
      BY <3>2, RightEnd DEF dst
  <2> QED
    BY <1>2, <1>4, <1>8, <1>9, <2>1, RunPop DEF Cat
<1>13. ASSUME NEW r3 \in [Regs -> Words], r3[tmp] = res, NEW f3 \in FlagStates, f3 = ZeroFlag(res)
       PROVE  Sound(Config(c4, r3, f3, Heap))
  <2>1. ASSUME NEW r4 \in [Regs -> Words], NEW w \in Words, Sets(r3, dst, w, r4), Copy(w, r3[tmp])
        PROVE  Sound(Config(c5, r4, f3, Heap))
    <3>1. r4[dst] = res
      BY <1>1, <1>13, <2>1, Results DEF Sets
    <3> QED
      BY <1>12, <1>13, <3>1
  <2> QED
    BY <1>1, <1>2, <1>4, <1>11, <2>1, RunMov DEF Cat, x
<1>14. ASSUME NEW r2 \in [Regs -> Words], r2[tmp] = Not(regs0[aux], W),
              r2[info.src.r] = regs0[info.src.r], NEW f2 \in FlagStates
       PROVE  Sound(Config(c3, r2, f2, Heap))
  <2>1. Put(Insn(o, tmp, b), r2, Heap) = res
    <3>1. CASE info.src.kind = "reg"
      BY <1>4, <1>14, <3>1 DEF Put, Insn, o, b, Read
    <3>2. CASE info.src.kind = "mem"
      BY <1>4, <1>14, <3>2 DEF Put, Insn, o, b, Read
    <3> QED
      BY <1>1, <3>1, <3>2
  <2>2. FlagsOf(Insn(o, tmp, b), r2, f2, res) = ZeroFlag(res) /\ OffStack(Insn(o, tmp, b))
    <3>1. o \in {"and", "andmem"} /\ info.src.kind # "sib"
      BY <1>1 DEF o
    <3> HIDE DEF res
    <3>2. FlagsOf(Insn(o, tmp, b), r2, f2, res) = ZeroFlag(res)
      BY <3>1 DEF FlagsOf, Insn, Shifts
    <3> QED
      BY <3>1, <3>2 DEF OffStack, Insn
  <2>3. ASSUME NEW r3 \in [Regs -> Words], NEW f3 \in FlagStates, Sets(r2, tmp, res, r3),
               f3 = FlagsOf(Insn(o, tmp, b), r2, f2, r3[tmp])
        PROVE  Sound(Config(c4, r3, f3, Heap))
    BY <1>13, <2>2, <2>3 DEF Sets
  <2> QED
    BY <1>1, <1>2, <1>4, <1>5, <1>11, <2>1, <2>2, <2>3, RunAlu DEF Cat, v
<1>15. ASSUME NEW r1 \in [Regs -> Words], Copy(r1[tmp], regs0[aux]),
              r1[info.src.r] = regs0[info.src.r]
       PROVE  Sound(Config(c2, r1, f, Heap))
  <2>1. Put(Insn("not", tmp, tmp), r1, Heap) = Not(regs0[aux], W)
    <3>1. Put(Insn("not", tmp, tmp), r1, Heap) = Not(r1[tmp], W)
      BY DEF Put, Insn
    <3>2. r1[tmp] \in Words /\ regs0[aux] \in Words /\ Trunc(r1[tmp], W) = Trunc(regs0[aux], W)
      BY <1>1, <1>2, <1>15, CopyTrunc
    <3> QED
      BY <1>1, <3>1, <3>2, Copies
  <2>2. OffStack(Insn("not", tmp, tmp))
    BY DEF OffStack, Insn
  <2>3. ASSUME NEW r2 \in [Regs -> Words], NEW f2 \in FlagStates,
               Sets(r1, tmp, Not(regs0[aux], W), r2)
        PROVE  Sound(Config(c3, r2, f2, Heap))
    BY <1>1, <1>3, <1>14, <1>15, <2>3 DEF Sets
  <2> QED
    BY <1>1, <1>2, <1>4, <1>11, <2>1, <2>2, <2>3, RunAlu DEF Cat, u
<1>16. Sound(Config(c1, regs0, f, Heap))
  <2>1. ASSUME NEW r1 \in [Regs -> Words], NEW w \in Words, Sets(regs0, tmp, w, r1),
               Copy(w, regs0[aux])
        PROVE  Sound(Config(c2, r1, f, Heap))
    BY <1>1, <1>3, <1>15, <2>1 DEF Sets
  <2> QED
    BY <1>1, <1>2, <1>4, <1>11, <2>1, RunMov DEF Cat, q
<1>17. Sound(Config(Cat(p, c1), regs0, f, Heap))
  BY <1>2, <1>4, <1>9, <1>11, <1>16, RunPush DEF Cat
<1> QED
  BY <1>10, <1>17

\* The BMI1 instructions, from copies of the operand in the destination and in
\* the temporary.
LEMMA BlsLast ==
  ASSUME info \in Infos, info.mnem \in BlsOps, NEW c \in Seq(AllInsns),
         NEW tmp \in Regs \ {info.dst}, NEW r \in [Regs -> Words], NEW f \in FlagStates,
         NEW h \in [Words -> Words], Source \in Words,
         Trunc(r[tmp], W) = Trunc(Source, W), Trunc(r[info.dst], W) = Trunc(Source, W),
         NEW s, s = I(IF info.mnem = "BLSI" THEN "neg" ELSE "dec",
                      IF info.mnem = "BLSI" THEN tmp ELSE info.dst,
                      IF info.mnem = "BLSI" THEN tmp ELSE info.dst),
         NEW t, t = I(IF info.mnem = "BLSMSK" THEN "xor" ELSE "and", info.dst, tmp),
         \A r2 \in [Regs -> Words], f2 \in FlagStates :
           r2[info.dst] = Meaning /\ f2 = ZeroFlag(Meaning) => Sound(Config(c, r2, f2, h))
  PROVE  Sound(Config(s \o (t \o c), r, f, h))
<1> DEFINE dst == info.dst
           o == IF info.mnem = "BLSI" THEN "neg" ELSE "dec"
           a == IF info.mnem = "BLSI" THEN tmp ELSE dst
           q == IF info.mnem = "BLSMSK" THEN "xor" ELSE "and"
           x == IF info.mnem = "BLSI" THEN Neg(Source, W) ELSE Dec(Source, W)
<1>1. /\ W \in {0, 1} /\ dst \in Regs /\ dst # tmp /\ a \in Regs /\ Regs \subseteq Nat
      /\ o \in AluOps /\ q \in AluOps /\ o \in {"neg", "dec"} /\ q \in {"xor", "and"}
  BY InfoTyped DEF AluOps, Regs
<1>2. /\ OffStack(Insn(o, a, a)) /\ OffStack(Insn(q, dst, tmp))
  BY DEF OffStack, Insn
<1>3. "xor" \in AllOps /\ "and" \in AllOps
  BY DEF AllOps, AluOps
<1>4. t \o c \in Seq(AllInsns)
  BY <1>1, <1>3, InFrontOf
<1>5. r[a] \in Words /\ Trunc(r[a], W) = Trunc(Source, W)
  BY <1>1
<1>6. Put(Insn(o, a, a), r, h) = x
  <2>1. Dec(r[a], W) = Dec(Source, W) /\ Neg(r[a], W) = Neg(Source, W)
    BY <1>1, <1>5, Copies
  <2> QED
    BY <2>1 DEF Put, Insn
<1>7. \A z, y : And(z, y, W) = And(y, z, W) /\ Xor(z, y, W) = Xor(y, z, W)
  BY DEF And, Xor, Trunc
<1>8. ASSUME NEW r1 \in [Regs -> Words], Sets(r, a, x, r1)
      PROVE  Put(Insn(q, dst, tmp), r1, h) = Meaning
  <2>1. CASE info.mnem = "BLSI"
    <3>1. r1[tmp] = Neg(Source, W) /\ r1[dst] = r[dst] /\ r[dst] \in Words
      BY <1>1, <1>8, <2>1 DEF Sets
    <3>2. Put(Insn(q, dst, tmp), r1, h) = And(r1[dst], r1[tmp], W)
      BY <2>1 DEF Put, Insn
    <3>3. And(r[dst], Neg(Source, W), W) = And(Source, Neg(Source, W), W)
      BY <1>1, <3>1, Copies
    <3> QED
      BY <2>1, <3>1, <3>2, <3>3 DEF Meaning
  <2>2. CASE info.mnem # "BLSI"
    <3>1. r1[dst] = Dec(Source, W) /\ r1[tmp] = r[tmp] /\ r[tmp] \in Words
      BY <1>1, <1>8, <2>2 DEF Sets
    <3>2. /\ And(Dec(Source, W), r[tmp], W) = And(Dec(Source, W), Source, W)
          /\ Xor(Dec(Source, W), r[tmp], W) = Xor(Dec(Source, W), Source, W)
      BY <1>1, <3>1, Copies
    <3>3. CASE info.mnem = "BLSR"
      <4>1. Put(Insn(q, dst, tmp), r1, h) = And(r1[dst], r1[tmp], W)
        BY <3>3 DEF Put, Insn
      <4>2. Meaning = And(Source, Dec(Source, W), W)
        BY <3>3 DEF Meaning
      <4> QED
        BY <1>7, <3>1, <3>2, <4>1, <4>2
    <3>4. CASE info.mnem = "BLSMSK"
      <4>1. Put(Insn(q, dst, tmp), r1, h) = Xor(r1[dst], r1[tmp], W)
        BY <3>4 DEF Put, Insn
      <4>2. Meaning = Xor(Source, Dec(Source, W), W)
        BY <3>4 DEF Meaning
      <4> QED
        BY <1>7, <3>1, <3>2, <4>1, <4>2
    <3> QED
      BY <2>2, <3>3, <3>4 DEF BlsOps
  <2> QED
    BY <2>1, <2>2
<1>9. s = I(o, a, a) /\ t = I(q, dst, tmp)
  OBVIOUS
<1> HIDE DEF x, o, a, q, dst
<1>10. ASSUME NEW r1 \in [Regs -> Words], NEW f1 \in FlagStates, Sets(r, a, x, r1)
       PROVE  Sound(Config(t \o c, r1, f1, h))
  <2>1. ASSUME NEW r2 \in [Regs -> Words], NEW f2 \in FlagStates, Sets(r1, dst, Meaning, r2),
               f2 = FlagsOf(Insn(q, dst, tmp), r1, f1, r2[dst])
        PROVE  Sound(Config(c, r2, f2, h))
    <3>1. r2[dst] = Meaning /\ f2 = FlagsOf(Insn(q, dst, tmp), r1, f1, Meaning)
      BY <2>1 DEF Sets
    <3>2. f2 = ZeroFlag(Meaning)
      BY <1>1, <3>1 DEF FlagsOf, Insn, Shifts
    <3> QED
      BY <3>1, <3>2 DEF dst
  <2>2. Put(Insn(q, dst, tmp), r1, h) = Meaning
    BY <1>8, <1>10
  <2> QED
    BY <1>1, <1>2, <1>9, <2>1, <2>2, RunAlu
<1> QED
  BY <1>1, <1>2, <1>4, <1>6, <1>9, <1>10, RunAlu

\* BLSR, BLSMSK and BLSI.
LEMMA BlsSound ==
  ASSUME info \in Infos, info.mnem \in BlsOps, regs0 \in [Regs -> Words], Faithful,
         NEW f \in FlagStates
  PROVE  Sound(Config(MakeTrampoline(info), regs0, f, Heap))
<1> DEFINE dst == info.dst
           tmp == PickTmp({dst} \union SrcReg(info.src))
           p == push_r(tmp)
           q == LoadSrc(tmp, info.src)
           u == mov_rr(dst, tmp)
           s == I(IF info.mnem = "BLSI" THEN "neg" ELSE "dec",
                  IF info.mnem = "BLSI" THEN tmp ELSE dst, IF info.mnem = "BLSI" THEN tmp ELSE dst)
           t == I(IF info.mnem = "BLSMSK" THEN "xor" ELSE "and", dst, tmp)
           y == pop_r(tmp)
<1>1. /\ info.src.kind \in {"reg", "mem"} /\ W \in {0, 1} /\ dst \in Regs /\ info.src.r \in Regs
      /\ {"neg", "dec", "xor", "and"} \subseteq AllOps
      /\ {dst} \union SrcReg(info.src) \subseteq {dst, dst, info.src.r}
  BY InfoTyped DEF Faithful, FaithfulOperand, BlsOps, AllOps, AluOps, SrcReg
<1>2. tmp \in Regs \ ({dst} \union SrcReg(info.src)) /\ Regs \subseteq Nat
  BY <1>1, PickTmpFresh DEF Regs
<1>3. /\ Source = Read(regs0, Heap) /\ Source \in Words /\ Heap \in [Words -> Words]
  BY <1>1, ReadSource
<1>4. MakeTrampoline(info) = Cat(Cat(Cat(Cat(Cat(p, q), u), Cat(s, t)), y), ret)
  <2>1. MakeTrampoline(info) = MakeBls(info) \o ret
    BY DEF MakeTrampoline, Shifts, BlsOps
  <2> DEFINE last == CASE info.mnem = "BLSR"   -> I("dec", info.dst, info.dst) \o I("and", info.dst, tmp)
                       [] info.mnem = "BLSMSK" -> I("dec", info.dst, info.dst) \o I("xor", info.dst, tmp)
                       [] info.mnem = "BLSI"   -> I("neg", tmp, tmp) \o I("and", info.dst, tmp)
  <2>2. last = s \o t
    <3>1. CASE info.mnem = "BLSR"
      BY <3>1
    <3>2. CASE info.mnem = "BLSMSK"
      BY <3>2
    <3>3. CASE info.mnem = "BLSI"
      BY <3>3
    <3> QED
      BY <3>1, <3>2, <3>3 DEF BlsOps
  <2>3. MakeBls(info) = p \o q \o u \o last \o y
    BY Zenon DEF MakeBls
  <2> HIDE DEF last, p, q, u, s, t, y
  <2> QED
    BY <2>1, <2>2, <2>3, Zenon DEF Cat
<1>5. Outs = {dst} /\ Expected(dst) = Meaning /\ info.mnem # "MOVBE_st"
  BY DEF Outs, Expected, BlsOps
<1> HIDE DEF tmp
<1>6. /\ p \in Seq(AllInsns) /\ q \in Seq(AllInsns) /\ u \in Seq(AllInsns) /\ s \in Seq(AllInsns)
      /\ t \in Seq(AllInsns) /\ y \in Seq(AllInsns) /\ ret \in Seq(AllInsns)
  BY <1>1, <1>2, StubPieces, OneInsn
<1>7. p = I("push", tmp, tmp) /\ y = I("pop", tmp, tmp)
  BY DEF push_r, pop_r
<1> DEFINE c4 == Cat(y, ret)
           c3 == Cat(s, Cat(t, c4))
           c2 == Cat(u, c3)
           c1 == Cat(q, c2)
<1>8. MakeTrampoline(info) = Cat(p, c1)
  <2> HIDE DEF p, q, u, s, t, y
  <2> DEFINE k == Cat(s, t)
  <2>1. k \in Seq(AllInsns) /\ Cat(k, c4) = c3
    BY <1>6, Assoc
  <2> HIDE DEF k
  <2>2. Cat(Cat(Cat(Cat(Cat(p, q), u), k), y), ret) = Cat(p, Cat(q, Cat(u, Cat(k, c4))))
    BY <1>6, <2>1, Assoc5
  <2> QED
    BY <1>4, <2>1, <2>2 DEF k
<1>9. /\ c1 \in Seq(AllInsns) /\ c2 \in Seq(AllInsns) /\ c3 \in Seq(AllInsns) /\ c4 \in Seq(AllInsns)
  <2> HIDE DEF p, q, u, s, t, y
  <2>1. c4 \in Seq(AllInsns) /\ Cat(t, c4) \in Seq(AllInsns)
    BY <1>6, Assoc
  <2> QED
    BY <1>6, <2>1, Assoc
<1>10. ASSUME NEW r4 \in [Regs -> Words], r4[dst] = Meaning,
              NEW f4 \in FlagStates, f4 = ZeroFlag(Meaning)
       PROVE  Sound(Config(c4, r4, f4, Heap))
  <2>1. ASSUME NEW r5 \in [Regs -> Words], NEW w \in Words, Sets(r4, tmp, w, r5)
        PROVE  Sound(Config(ret, r5, f4, Heap))
    <3>1. r5[dst] = Meaning
      BY <1>1, <1>2, <1>10, <2>1 DEF Sets
    <3>2. (\A z \in Outs : r5[z] = Expected(z)) /\ f4 = ZeroFlag(r5[dst])
      BY <1>5, <1>10, <3>1
    <3> QED
      BY <1>5, <3>2, RightEnd
  <2> QED
    BY <1>2, <1>3, <1>6, <1>7, <2>1, RunPop DEF Cat
<1>11. ASSUME NEW r3 \in [Regs -> Words], Trunc(r3[tmp], W) = Trunc(Source, W),
              Trunc(r3[dst], W) = Trunc(Source, W)
       PROVE  Sound(Config(c3, r3, f, Heap))
  <2>1. Sound(Config(s \o (t \o c4), r3, f, Heap))
    <3> HIDE DEF c4
    <3> QED
      BY <1>2, <1>3, <1>9, <1>10, <1>11, BlsLast
  <2> HIDE DEF s, t, c4
  <2> QED
    BY <2>1, Zenon DEF Cat
<1> HIDE DEF p, q, u, s, t, y, dst
<1>12. ASSUME NEW r2 \in [Regs -> Words], Copy(r2[tmp], Source)
       PROVE  Sound(Config(c2, r2, f, Heap))
  <2>1. ASSUME NEW r3 \in [Regs -> Words], NEW w \in Words, Sets(r2, dst, w, r3), Copy(w, r2[tmp])
        PROVE  Sound(Config(c3, r3, f, Heap))
    <3>1. r3[tmp] = r2[tmp] /\ Copy(r3[dst], r2[tmp])
      BY <1>2, <2>1 DEF Sets
    <3>2. Trunc(r3[tmp], W) = Trunc(Source, W) /\ Trunc(r3[dst], W) = Trunc(Source, W)
      BY <1>12, <3>1 DEF Copy, Trunc
    <3> QED
      BY <1>11, <3>2
  <2> QED
    BY <1>1, <1>2, <1>3, <1>9, <2>1, RunMov DEF Cat, u
<1>13. Sound(Config(c1, regs0, f, Heap))
  <2>1. ASSUME NEW r2 \in [Regs -> Words], NEW w \in Words, Sets(regs0, tmp, w, r2),
               Copy(w, Read(regs0, Heap))
        PROVE  Sound(Config(c2, r2, f, Heap))
    BY <1>3, <1>12, <2>1 DEF Sets
  <2> QED
    BY <1>1, <1>2, <1>3, <1>9, <2>1, RunLoad DEF Cat, q
<1>14. Sound(Config(Cat(p, c1), regs0, f, Heap))
  BY <1>2, <1>3, <1>7, <1>9, <1>13, RunPush DEF Cat
<1> QED
  BY <1>8, <1>14

\* MOVBE, loading.
LEMMA MovbeLdSound ==
  ASSUME info \in Infos, info.mnem = "MOVBE_ld", regs0 \in [Regs -> Words], Faithful,
         info.src.kind # "reg", NEW f \in FlagStates
  PROVE  Sound(Config(MakeTrampoline(info), regs0, f, Heap))
<1> DEFINE dst == info.dst
           p == I("loadsib", dst, dst)
           q == I("bswap", dst, dst)
           c1 == q \o ret
           s == Heap[regs0[info.src.r]]
<1>1. /\ info.src.kind \in {"mem", "sib"} /\ W \in {0, 1} /\ dst \in Regs /\ Regs \subseteq Nat
      /\ {"loadsib", "bswap"} \subseteq AllOps /\ {"loadsib", "bswap"} \subseteq AluOps
      /\ info.src.r \in Regs
  BY InfoTyped DEF Faithful, FaithfulOperand, AllOps, AluOps, Regs
<1>2. Heap \in [Words -> Words]
  BY TrampolineAssumption DEF TrampolineAssumption
<1>3. s \in Words /\ Source = s
  BY <1>1, <1>2 DEF Source, SiteAddress
<1>4. p \in Seq(AllInsns) /\ q \in Seq(AllInsns) /\ ret \in Seq(AllInsns)
  BY <1>1, StubPieces, OneInsn
<1>5. MakeTrampoline(info) = Cat(Cat(p, q), ret)
  BY DEF MakeTrampoline, MakeMovbe, Shifts, BlsOps, Cat
<1>6. Outs = {dst} /\ Expected(dst) = Swap(s, W)
  BY <1>3 DEF Outs, Expected, Meaning
<1>7. info.mnem \notin BlsOps \union {"ANDN"}
  BY DEF BlsOps
<1> HIDE DEF p, q, dst, s
<1>8. MakeTrampoline(info) = p \o c1 /\ c1 \in Seq(AllInsns)
  BY <1>4, <1>5, Assoc DEF Cat
<1>9. ASSUME NEW r1 \in [Regs -> Words], r1[dst] = Trunc(s, W)
      PROVE  Sound(Config(c1, r1, f, Heap))
  <2>1. r1[dst] \in Words /\ Trunc(r1[dst], W) = Trunc(s, W)
    BY <1>1, <1>9, Results
  <2>2. Put(Insn("bswap", dst, dst), r1, Heap) = Swap(s, W)
    <3>1. Put(Insn("bswap", dst, dst), r1, Heap) = Swap(r1[dst], W)
      BY DEF Put, Insn
    <3> QED
      BY <1>1, <1>3, <2>1, <3>1, Copies
  <2>3. OffStack(Insn("bswap", dst, dst))
    BY DEF OffStack, Insn
  <2>4. ASSUME NEW r2 \in [Regs -> Words], NEW f2 \in FlagStates, Sets(r1, dst, Swap(s, W), r2)
        PROVE  Sound(Config(ret, r2, f2, Heap))
    <3>1. \A o \in Outs : r2[o] = Expected(o)
      BY <1>6, <2>4 DEF Sets
    <3> QED
      BY <1>7, <3>1, RightEnd
  <2> QED
    BY <1>1, <1>2, <1>4, <2>2, <2>3, <2>4, RunAlu DEF q
<1>10. Sound(Config(p \o c1, regs0, f, Heap))
  <2>1. Put(Insn("loadsib", dst, dst), regs0, Heap) = Trunc(s, W)
    BY DEF Put, Insn, s
  <2>2. OffStack(Insn("loadsib", dst, dst))
    BY DEF OffStack, Insn
  <2>3. FlagsOf(Insn("loadsib", dst, dst), regs0, f, Trunc(s, W)) = f
    BY DEF FlagsOf, Insn, Shifts
  <2>4. ASSUME NEW r1 \in [Regs -> Words], NEW f1 \in FlagStates, Sets(regs0, dst, Trunc(s, W), r1),
               f1 = FlagsOf(Insn("loadsib", dst, dst), regs0, f, r1[dst])
        PROVE  Sound(Config(c1, r1, f1, Heap))
    <3>1. r1[dst] = Trunc(s, W) /\ f1 = f
      BY <2>3, <2>4 DEF Sets
    <3> QED
      BY <1>9, <3>1
  <2> QED
    BY <1>1, <1>2, <1>8, <2>1, <2>2, <2>4, RunAlu DEF p
<1> QED
  BY <1>8, <1>10

\* MOVBE, storing.
LEMMA MovbeStSound ==
  ASSUME info \in Infos, info.mnem = "MOVBE_st", regs0 \in [Regs -> Words], Faithful,
         info.src.kind # "reg", NEW f \in FlagStates
  PROVE  Sound(Config(MakeTrampoline(info), regs0, f, Heap))
<1> DEFINE dst == info.dst
           base == IF info.src.kind \in {"mem", "idx"} THEN {info.src.r} ELSE {}
           tmp == PickTmp({dst} \union base)
           p == push_r(tmp)
           q == mov_rr(tmp, dst)
           u == I("bswap", tmp, tmp)
           v == I("store", tmp, tmp)
           x == pop_r(tmp)
           at == regs0[info.src.r]
           h == [Heap EXCEPT ![at] = Over(@, Swap(regs0[dst], W))]
<1>1. /\ info.src.kind \in {"mem", "sib"} /\ W \in {0, 1} /\ dst \in Regs /\ info.src.r \in Regs
      /\ {"bswap", "store"} \subseteq AllOps /\ "bswap" \in AluOps
      /\ {dst} \union base \subseteq {dst, dst, info.src.r}
  BY InfoTyped DEF Faithful, FaithfulOperand, AllOps, AluOps
<1>2. tmp \in Regs \ ({dst} \union base) /\ Regs \subseteq Nat
  BY <1>1, PickTmpFresh DEF Regs
<1>3. tmp # info.src.r
  <2>1. CASE info.src.kind = "mem"
    BY <1>2, <2>1
  <2>2. CASE info.src.kind = "sib"
    BY <2>2 DEF Faithful, FaithfulOperand
  <2> QED
    BY <1>1, <2>1, <2>2
<1>4. Heap \in [Words -> Words]
  BY TrampolineAssumption DEF TrampolineAssumption
<1>5. MakeTrampoline(info) = Cat(Cat(Cat(Cat(Cat(p, q), u), v), x), ret)
  <2>1. MakeTrampoline(info) = MakeMovbe(info) \o ret
    BY DEF MakeTrampoline, Shifts, BlsOps
  <2>2. MakeMovbe(info) = p \o q \o u \o v \o x
    BY DEF MakeMovbe
  <2> HIDE DEF p, q, u, v, x
  <2> QED
    BY <2>1, <2>2, Zenon DEF Cat
<1>6. Outs = {} /\ ExpectedHeap = h /\ info.mnem \notin BlsOps \union {"ANDN"}
  BY <1>1 DEF Outs, ExpectedHeap, SiteAddress, BlsOps
<1>7. h \in [Words -> Words]
  <2>1. at \in Words /\ Heap[at] \in Words /\ regs0[dst] \in Words
    BY <1>1, <1>4
  <2>2. Swap(regs0[dst], W) \in Words
    BY <1>1, <2>1, SwapWord
  <2>3. Over(Heap[at], Swap(regs0[dst], W)) \in Words
    BY <1>1, <2>1, <2>2, LogicWords DEF Over
  <2> QED
    BY <1>4, <2>1, <2>3
<1> HIDE DEF tmp, base
<1>8. /\ p \in Seq(AllInsns) /\ q \in Seq(AllInsns) /\ u \in Seq(AllInsns) /\ v \in Seq(AllInsns)
      /\ x \in Seq(AllInsns) /\ ret \in Seq(AllInsns)
  BY <1>1, <1>2, StubPieces, OneInsn
<1>9. p = I("push", tmp, tmp) /\ x = I("pop", tmp, tmp)
  BY DEF push_r, pop_r
<1> HIDE DEF p, q, u, v, x, dst, at, h
<1> DEFINE c4 == Cat(x, ret)
           c3 == Cat(v, c4)
           c2 == Cat(u, c3)
           c1 == Cat(q, c2)
<1>10. MakeTrampoline(info) = Cat(p, c1)
  BY <1>5, <1>8, Assoc5
<1>11. /\ c1 \in Seq(AllInsns) /\ c2 \in Seq(AllInsns) /\ c3 \in Seq(AllInsns) /\ c4 \in Seq(AllInsns)
  BY <1>8, Assoc
<1>12. ASSUME NEW r4 \in [Regs -> Words], NEW f4 \in FlagStates
       PROVE  Sound(Config(ret, r4, f4, h))
  <2>1. Right(Config(ret, r4, f4, h))
    BY <1>6 DEF Right, Config
  <2> QED
    BY <1>7, <2>1, SoundEnd
<1>13. ASSUME NEW r3 \in [Regs -> Words], NEW f3 \in FlagStates
       PROVE  Sound(Config(c4, r3, f3, h))
  BY <1>2, <1>7, <1>8, <1>9, <1>12, RunPop DEF Cat
<1>14. ASSUME NEW r2 \in [Regs -> Words], r2[tmp] = Swap(regs0[dst], W), r2[info.src.r] = at,
              NEW f2 \in FlagStates
       PROVE  Sound(Config(c3, r2, f2, Heap))
  <2>1. h = [Heap EXCEPT ![r2[info.src.r]] = Over(@, r2[tmp])]
    BY <1>14 DEF h
  <2> QED
    BY <1>2, <1>4, <1>7, <1>11, <1>13, <2>1, RunStore DEF Cat, v
<1>15. ASSUME NEW r1 \in [Regs -> Words], Copy(r1[tmp], regs0[dst]), r1[info.src.r] = at
       PROVE  Sound(Config(c2, r1, f, Heap))
  <2>1. Put(Insn("bswap", tmp, tmp), r1, Heap) = Swap(regs0[dst], W)
    <3>1. Put(Insn("bswap", tmp, tmp), r1, Heap) = Swap(r1[tmp], W)
      BY DEF Put, Insn
    <3>2. r1[tmp] \in Words /\ regs0[dst] \in Words
      BY <1>1, <1>2
    <3>3. Trunc(r1[tmp], W) = Trunc(regs0[dst], W)
      BY <1>15 DEF Copy, Trunc
    <3> QED
      BY <1>1, <3>1, <3>2, <3>3, Copies
  <2>2. OffStack(Insn("bswap", tmp, tmp))
    BY DEF OffStack, Insn
  <2>3. ASSUME NEW r2 \in [Regs -> Words], NEW f2 \in FlagStates,
               Sets(r1, tmp, Swap(regs0[dst], W), r2)
        PROVE  Sound(Config(c3, r2, f2, Heap))
    BY <1>1, <1>3, <1>14, <1>15, <2>3 DEF Sets
  <2> QED
    BY <1>1, <1>2, <1>4, <1>11, <2>1, <2>2, <2>3, RunAlu DEF Cat, u
<1>16. Sound(Config(c1, regs0, f, Heap))
  <2>1. ASSUME NEW r1 \in [Regs -> Words], NEW w \in Words, Sets(regs0, tmp, w, r1),
               Copy(w, regs0[dst])
        PROVE  Sound(Config(c2, r1, f, Heap))
    BY <1>1, <1>3, <1>15, <2>1 DEF Sets, at
  <2> QED
    BY <1>1, <1>2, <1>4, <1>11, <2>1, RunMov DEF Cat, q
<1>17. Sound(Config(Cat(p, c1), regs0, f, Heap))
  BY <1>2, <1>4, <1>9, <1>11, <1>16, RunPush DEF Cat
<1> QED
  BY <1>10, <1>17

\* A restore at the end of the stub of MULX, left out for a destination.
LEMMA RunRestore ==
  ASSUME NEW c \in Seq(AllInsns), NEW a \in Regs, NEW b \in Nat,
         NEW r \in [Regs -> Words], NEW f \in FlagStates, NEW h \in [Words -> Words],
         NEW x, x = IF a \in Outs THEN <<>> ELSE I("restore", a, b),
         \A r2 \in [Regs -> Words], f2 \in FlagStates :
           (\A o \in Outs \intersect Regs : r2[o] = r[o]) => Sound(Config(c, r2, f2, h))
  PROVE  Sound(Config(x \o c, r, f, h))
<1>1. CASE a \in Outs
  <2>1. x \o c = c
    BY <1>1
  <2> QED
    BY <2>1
<1>2. CASE a \notin Outs
  <2>1. ASSUME NEW r2 \in [Regs -> Words], NEW w \in Words, NEW f2 \in FlagStates, Sets(r, a, w, r2)
        PROVE  Sound(Config(c, r2, f2, h))
    <3>1. \A o \in Outs \intersect Regs : r2[o] = r[o]
      BY <1>2, <2>1 DEF Sets
    <3> QED
      BY <3>1
  <2>2. Sound(Config(I("restore", a, b) \o c, r, f, h))
    BY <2>1, RunPop
  <2> QED
    BY <1>2, <2>2
<1> QED
  BY <1>1, <1>2

\* MULX.
LEMMA MulxSound ==
  ASSUME info \in Infos, info.mnem = "MULX", regs0 \in [Regs -> Words], Faithful,
         NEW f \in FlagStates
  PROVE  Sound(Config(MakeTrampoline(info), regs0, f, Heap))
<1> DEFINE dst == info.dst
           aux == info.aux
           o == IF info.src.kind = "reg" THEN "mul" ELSE "mulmem"
           a == IF info.src.kind = "reg" THEN info.src.r ELSE RAX
           p == I("save", RAX, 1)
           q == I("save", RDX, 2)
           s == mov_rr(RAX, RDX)
           t == I(o, a, RAX)
           u == mov_rr(dst, RAX)
           v == mov_rr(aux, RDX)
           x == IF RAX \in {dst, aux} THEN <<>> ELSE I("restore", RAX, 1)
           y == IF RDX \in {dst, aux} THEN <<>> ELSE I("restore", RDX, 2)
           lo == MulLow(regs0[RDX], Source, W)
           hi == MulHigh(regs0[RDX], Source, W)
<1>1. /\ info.src.kind \in {"reg", "mem"} /\ W \in {0, 1} /\ dst \in Regs /\ aux \in Regs
      /\ RAX \in Regs /\ RDX \in Regs /\ RAX # RDX /\ RAX \in Nat
      /\ o \in AllOps /\ o \in {"mul", "mulmem"} /\ info.src.r \in Regs /\ a \in Regs
      /\ "save" \in AllOps /\ "restore" \in AllOps
  BY InfoTyped DEF Faithful, FaithfulOperand, AllOps, AluOps, RAX, RDX
<1>2. dst # RDX /\ info.src.r # RAX
  BY <1>1 DEF Faithful, Names
<1>3. /\ Source = Read(regs0, Heap) /\ Source \in Words /\ Heap \in [Words -> Words]
  BY <1>1, ReadSource
<1>4. MakeTrampoline(info) = Cat(Cat(Cat(Cat(Cat(Cat(Cat(Cat(p, q), s), t), u), v), x), y), ret)
  <2>1. MakeTrampoline(info) = MakeMulx(info) \o ret
    BY DEF MakeTrampoline, Shifts, BlsOps
  <2>2. MakeMulx(info) = p \o q \o s \o t \o u \o v \o x \o y
    <3>1. t = IF info.src.kind = "reg" THEN I("mul", info.src.r, RAX) ELSE I("mulmem", RAX, RAX)
      OBVIOUS
    <3> HIDE DEF t
    <3> QED
      BY <3>1, Zenon DEF MakeMulx
  <2> HIDE DEF p, q, s, t, u, v, x, y
  <2> QED
    BY <2>1, <2>2, Zenon DEF Cat
<1>5. Outs = {dst, aux} /\ \A r \in Outs : Expected(r) = IF r = aux THEN hi ELSE lo
  BY DEF Outs, Expected, Meaning
<1>6. info.mnem \notin BlsOps \union {"ANDN"} /\ info.mnem # "MOVBE_st"
  BY DEF BlsOps
<1>7. <<>> \in Seq(AllInsns)
  OBVIOUS
<1>8. /\ p \in Seq(AllInsns) /\ q \in Seq(AllInsns) /\ s \in Seq(AllInsns) /\ t \in Seq(AllInsns)
      /\ u \in Seq(AllInsns) /\ v \in Seq(AllInsns) /\ x \in Seq(AllInsns) /\ y \in Seq(AllInsns)
      /\ ret \in Seq(AllInsns)
  BY <1>1, <1>7, StubPieces, OneInsn
<1>9. /\ x = IF RAX \in Outs THEN <<>> ELSE I("restore", RAX, 1)
      /\ y = IF RDX \in Outs THEN <<>> ELSE I("restore", RDX, 2)
  BY <1>5
<1> HIDE DEF p, q, s, t, u, v, x, y, dst, aux, o, a, lo, hi
<1> DEFINE c7 == Cat(y, ret)
           c6 == Cat(x, c7)
           c5 == Cat(v, c6)
           c4 == Cat(u, c5)
           c3 == Cat(t, c4)
           c2 == Cat(s, c3)
           c1 == Cat(q, c2)
<1>10. MakeTrampoline(info) = Cat(p, c1)
  <2> DEFINE k == Cat(Cat(Cat(Cat(Cat(p, q), s), t), u), v)
  <2>1. k \in Seq(AllInsns)
    BY <1>8, Assoc6, SMTT(30)
  <2>2. c6 \in Seq(AllInsns)
    BY <1>8, Assoc
  <2>3. Cat(k, c6) = Cat(p, c1)
    <3>1. /\ p \in Seq(AllInsns) /\ q \in Seq(AllInsns) /\ s \in Seq(AllInsns)
          /\ t \in Seq(AllInsns) /\ u \in Seq(AllInsns) /\ v \in Seq(AllInsns)
      BY <1>8
    <3>2. \A w \in Seq(AllInsns) :
            Cat(k, w) = Cat(p, Cat(q, Cat(s, Cat(t, Cat(u, Cat(v, w))))))
      BY <3>1, Assoc6, SMTT(30)
    <3> HIDE DEF k, c6
    <3> QED
      BY <2>2, <3>2
  <2> HIDE DEF k
  <2>4. Cat(Cat(Cat(k, x), y), ret) = Cat(k, c6)
    BY <1>8, <2>1, Assoc3
  <2> QED
    BY <1>4, <2>3, <2>4, Zenon DEF k
<1>11. /\ c1 \in Seq(AllInsns) /\ c2 \in Seq(AllInsns) /\ c3 \in Seq(AllInsns) /\ c4 \in Seq(AllInsns)
       /\ c5 \in Seq(AllInsns) /\ c6 \in Seq(AllInsns) /\ c7 \in Seq(AllInsns)
  BY <1>8, Assoc
<1> DEFINE Done(r) == \A z \in Outs : r[z] = Expected(z)
<1>12. ASSUME NEW r \in [Regs -> Words], NEW r2 \in [Regs -> Words], Done(r),
              \A z \in Outs \intersect Regs : r2[z] = r[z]
       PROVE  Done(r2)
  BY <1>1, <1>5, <1>12
<1>13. ASSUME NEW r6 \in [Regs -> Words], Done(r6), NEW g \in FlagStates
       PROVE  Sound(Config(c7, r6, g, Heap))
  <2>1. ASSUME NEW r7 \in [Regs -> Words], NEW g7 \in FlagStates,
               \A z \in Outs \intersect Regs : r7[z] = r6[z]
        PROVE  Sound(Config(ret, r7, g7, Heap))
    <3>1. Done(r7)
      BY <1>12, <1>13, <2>1
    <3> QED
      BY <1>6, <3>1, RightEnd
  <2> QED
    BY <1>1, <1>3, <1>8, <1>9, <2>1, RunRestore DEF Cat
<1>14. ASSUME NEW r5 \in [Regs -> Words], Done(r5), NEW g \in FlagStates
       PROVE  Sound(Config(c6, r5, g, Heap))
  <2>1. ASSUME NEW r6 \in [Regs -> Words], NEW g6 \in FlagStates,
               \A z \in Outs \intersect Regs : r6[z] = r5[z]
        PROVE  Sound(Config(c7, r6, g6, Heap))
    <3>1. Done(r6)
      BY <1>12, <1>14, <2>1
    <3> QED
      BY <1>13, <3>1
  <2> QED
    BY <1>1, <1>3, <1>9, <1>11, <2>1, RunRestore DEF Cat
<1>15. \A w : (Copy(w, lo) => w = lo) /\ (Copy(w, hi) => w = hi)
  BY <1>1, Results DEF lo, hi
<1>16. ASSUME NEW r4 \in [Regs -> Words], r4[dst] = lo, r4[RDX] = hi, NEW g \in FlagStates
       PROVE  Sound(Config(c5, r4, g, Heap))
  <2>1. ASSUME NEW r5 \in [Regs -> Words], NEW w \in Words, Sets(r4, aux, w, r5), Copy(w, r4[RDX])
        PROVE  Sound(Config(c6, r5, g, Heap))
    <3>1. r5[aux] = hi /\ (dst # aux => r5[dst] = lo)
      BY <1>1, <1>15, <1>16, <2>1 DEF Sets
    <3>2. Done(r5)
      BY <1>5, <3>1
    <3> QED
      BY <1>14, <3>2
  <2> QED
    BY <1>1, <1>3, <1>11, <2>1, RunMov DEF Cat, v
<1>17. ASSUME NEW r3 \in [Regs -> Words], r3[RAX] = lo, r3[RDX] = hi, NEW g \in FlagStates
       PROVE  Sound(Config(c4, r3, g, Heap))
  <2>1. ASSUME NEW r4 \in [Regs -> Words], NEW w \in Words, Sets(r3, dst, w, r4), Copy(w, r3[RAX])
        PROVE  Sound(Config(c5, r4, g, Heap))
    <3>1. r4[dst] = lo /\ r4[RDX] = hi
      BY <1>1, <1>2, <1>15, <1>17, <2>1 DEF Sets
    <3> QED
      BY <1>16, <3>1
  <2> QED
    BY <1>1, <1>3, <1>11, <2>1, RunMov DEF Cat, u
<1>18. ASSUME NEW r2 \in [Regs -> Words], Copy(r2[RAX], regs0[RDX]),
              r2[info.src.r] = regs0[info.src.r]
       PROVE  Sound(Config(c3, r2, f, Heap))
  <2>1. Source = IF o = "mul" THEN r2[a] ELSE Heap[r2[info.src.r]]
    BY <1>1, <1>3, <1>18 DEF o, a, Read
  <2>2. MulLow(r2[RAX], Source, W) = lo /\ MulHigh(r2[RAX], Source, W) = hi
    <3>1. r2[RAX] \in Words /\ regs0[RDX] \in Words
      BY <1>1
    <3>2. Trunc(r2[RAX], W) = Trunc(regs0[RDX], W)
      BY <1>18 DEF Copy, Trunc
    <3> QED
      BY <1>1, <3>1, <3>2, Copies DEF lo, hi
  <2>3. OffStack(Insn(o, a, RAX))
    BY <1>1 DEF OffStack, Insn
  <2>4. ASSUME NEW r3 \in [Regs -> Words], NEW g \in FlagStates, Multiplies(r2, Source, r3)
        PROVE  Sound(Config(c4, r3, g, Heap))
    BY <1>17, <2>2, <2>4 DEF Multiplies
  <2> QED
    BY <1>1, <1>3, <1>11, <2>1, <2>3, <2>4, RunMul DEF Cat, t
<1>19. Sound(Config(c2, regs0, f, Heap))
  <2>1. ASSUME NEW r2 \in [Regs -> Words], NEW w \in Words, Sets(regs0, RAX, w, r2),
               Copy(w, regs0[RDX])
        PROVE  Sound(Config(c3, r2, f, Heap))
    BY <1>1, <1>2, <1>18, <2>1 DEF Sets
  <2> QED
    BY <1>1, <1>3, <1>11, <2>1, RunMov DEF Cat, s
<1>20. Sound(Config(c1, regs0, f, Heap))
  BY <1>1, <1>3, <1>11, <1>19, RunPush DEF Cat, q
<1>21. Sound(Config(Cat(p, c1), regs0, f, Heap))
  BY <1>1, <1>3, <1>11, <1>20, RunPush DEF Cat, p
<1> QED
  BY <1>10, <1>21

\* Every stub of a faithful kind, whatever the registers hold.
LEMMA StubSound ==
  ASSUME info \in Infos, regs0 \in [Regs -> Words], Faithful, NEW f \in FlagStates
  PROVE  Sound(Config(MakeTrampoline(info), regs0, f, Heap))
<1>1. CASE info.mnem \in Shifts
  BY <1>1, ShiftInCl, ShiftToRcx, ShiftElsewhere
<1>2. CASE info.mnem \in BlsOps
  BY <1>2, BlsSound
<1>3. CASE info.mnem = "RORX"
  BY <1>3, RorxSound
<1>4. CASE info.mnem = "MULX"
  BY <1>4, MulxSound
<1>5. CASE info.mnem = "ANDN"
  BY <1>5, AndnSound
<1>6. CASE info.mnem \in {"MOVBE_ld", "MOVBE_st"}
  <2>1. info.src.kind # "reg"
    BY <1>6, TrampolineAssumption DEF TrampolineAssumption
  <2> QED
    BY <1>6, <2>1, MovbeLdSound, MovbeStSound
<1>7. info.mnem \in Mnems /\ info.mnem # "BZHI"
  BY InfoTyped DEF Faithful
<1> QED
  BY <1>1, <1>2, <1>3, <1>4, <1>5, <1>6, <1>7 DEF Mnems

\* Where a running stub is.
Now == Config(code, regs, flags, heap)

\* While it runs, it can only end right.
ComputesInv ==
  Faithful => /\ phase = "run" => Sound(Now)
              /\ phase = "returned" => Right(Now)

\* Neither the instruction nor what the registers first held changes.
LEMMA SameTask ==
  ASSUME info' = info, regs0' = regs0
  PROVE  /\ Faithful' <=> Faithful
         /\ Sound(Now)' <=> Sound(Now')
         /\ Right(Now)' <=> Right(Now')
<1>1. W' = W
  BY DEF W
<1>2. Faithful' <=> Faithful
  BY DEF Faithful, FaithfulOperand, FaithfulShift, Names
<1> QED
  BY <1>1, <1>2 DEF Sound, Closed, Right, Leads, Effect, Put, FlagsOf, OffStack, Outs, Expected,
     Meaning, Source, SiteAddress, ExpectedHeap, W, Over

\* An instruction of a faithful stub does to registers, flags and memory what
\* Effect says.
LEMMA Effects ==
  ASSUME StubInv, StubInv', Faithful, Alu \/ Push \/ Pop \/ Save \/ Mul \/ TestCl \/ Store
  PROVE  Effect(op, regs, flags, heap, regs', flags', heap')
<1>1. /\ info \in Infos /\ regs \in [Regs -> Words] /\ regs' \in [Regs -> Words]
      /\ RAX \in Regs /\ RDX \in Regs /\ RAX # RDX
  BY DEF StubInv, StubCore, TypeInv, RAX, RDX, Regs
<1>2. phase = "run" /\ op.op # "ret"
  BY DEF Alu, Push, Pop, Save, Mul, TestCl, Store, Runs, AluOps, Shifts
<1>3. op \in AllInsns
  <2>1. code # <<>> /\ code \in Seq(AllInsns)
    BY <1>2, Stages DEF StubInv, StubCore, TypeInv
  <2> QED
    BY <2>1 DEF op
<1>4. op.a \in Regs
  BY <1>3 DEF AllInsns
<1>5. info.src.kind \in {"reg", "mem", "sib"}
  BY DEF Faithful, FaithfulOperand
<1>6. ASSUME op.op \in {"loadsib", "store", "load", "andmem", "mulmem"}, OffStack(op)
      PROVE  ~OnStack /\ StubOperand = heap[regs[info.src.r]] /\ Address = regs[info.src.r]
  BY <1>5, <1>6 DEF OnStack, SibAsRsp, StubOperand, Address, OffStack
<1>7. CASE Alu
  <2>1. /\ op.op \in AluOps /\ regs' = [regs EXCEPT ![op.a] = Value] /\ heap' = heap
        /\ flags' = FlagsAfter(Value)
    BY <1>7 DEF Alu, Runs
  <2>2. Value \in Words
    BY <1>1, <1>4, <2>1
  <2>3. FlagsAfter(Value) = FlagsOf(op, regs, flags, Value)
    BY Zenon DEF FlagsAfter, FlagsOf
  <2>4. OffStack(op) => Value = Put(op, regs, heap)
    <3> SUFFICES ASSUME OffStack(op) PROVE Value = Put(op, regs, heap)
      OBVIOUS
    <3>1. CASE op.op \in {"load", "loadsib", "andmem"}
      <4>1. StubOperand = heap[regs[info.src.r]]
        BY <1>6, <3>1
      <4> QED
        BY <3>1, <4>1 DEF Value, Put
    <3>2. CASE op.op \notin {"load", "loadsib", "andmem"}
      <4>1. op.op # "restore"
        BY DEF OffStack
      <4> QED
        BY <2>1, <3>2, <4>1 DEF Value, Put, AluOps, Shifts
    <3> QED
      BY <3>1, <3>2
  <2> QED
    BY <2>1, <2>2, <2>3, <2>4 DEF Effect
<1>8. CASE Push \/ Save
  BY <1>8 DEF Push, Save, Runs, Effect
<1>9. CASE Pop
  <2>1. /\ op.op = "pop" /\ regs' = [regs EXCEPT ![op.a] = stack[sp]] /\ flags' = flags
        /\ heap' = heap
    BY <1>9 DEF Pop, Runs
  <2>2. stack[sp] \in Words
    BY <1>1, <1>4, <2>1
  <2> QED
    BY <2>1, <2>2 DEF Effect
<1>10. CASE Mul
  <2> DEFINE y == IF op.op = "mul" THEN regs[op.a] ELSE StubOperand
             z == IF op.op = "mul" THEN regs[op.a] ELSE heap[regs[info.src.r]]
             lo == MulLow(regs[RAX], y, W)
             hi == MulHigh(regs[RAX], y, W)
  <2>1. /\ op.op \in {"mul", "mulmem"} /\ heap' = heap
        /\ regs' = [regs EXCEPT ![RAX] = lo, ![RDX] = hi]
    BY <1>10 DEF Mul, Runs
  <2>2. OffStack(op) => y = z
    BY <1>6, <2>1
  <2> HIDE DEF y, z
  <2>3. lo \in Words /\ hi \in Words
    <3> HIDE DEF lo, hi
    <3> QED
      BY <1>1, <2>1
  <2>4. OffStack(op) => lo = MulLow(regs[RAX], z, W) /\ hi = MulHigh(regs[RAX], z, W)
    BY <2>2
  <2> HIDE DEF lo, hi
  <2> QED
    BY <2>1, <2>3, <2>4 DEF Effect, z
<1>11. CASE TestCl
  BY <1>11 DEF TestCl, Runs, Effect
<1>12. CASE Store
  <2>1. op.op = "store" /\ OffStack(op)
    BY <1>12 DEF Store, Runs, OffStack
  <2>2. ~OnStack /\ Address = regs[info.src.r]
    BY <1>6, <2>1
  <2>3. /\ regs' = regs /\ flags' = flags
        /\ heap' = [heap EXCEPT ![Address] = Over(@, regs[op.a])]
    BY <1>12, <2>2 DEF Store
  <2> QED
    BY <2>1, <2>2, <2>3 DEF Effect
<1> QED
  BY <1>7, <1>8, <1>9, <1>10, <1>11, <1>12

\* Every step keeps it so.
LEMMA ComputesNext ==
  ASSUME StubInv, StubInv', ComputesInv, [Next]_vars
  PROVE  ComputesInv'
<1>1. info' = info /\ regs0' = regs0
  BY DEF Next, Alu, Push, Pop, Save, Mul, TestCl, Store, Ret, Interrupt, vars
<1>2. /\ Faithful' <=> Faithful
      /\ Sound(Now)' <=> Sound(Now')
      /\ Right(Now)' <=> Right(Now')
  BY <1>1, SameTask
<1> SUFFICES ASSUME Faithful
             PROVE  /\ phase' = "run" => Sound(Now')
                    /\ phase' = "returned" => Right(Now')
  BY <1>2 DEF ComputesInv
<1>3. (phase = "run" => Sound(Now)) /\ (phase = "returned" => Right(Now))
  BY DEF ComputesInv
<1>4. CASE UNCHANGED vars \/ Interrupt
  <2>1. phase' = phase /\ Now' = Now
    BY <1>4 DEF Interrupt, vars, Now
  <2> QED
    BY <1>3, <2>1
<1>5. CASE Ret
  <2>1. phase = "run" /\ op.op = "ret" /\ phase' # "run"
    BY <1>5 DEF Ret, Runs
  <2>2. Now.code = code /\ code # <<>> /\ Head(Now.code) = op
    BY <2>1, Stages DEF Now, Config, op
  <2>3. Right(Now)
    BY <1>3, <2>1, <2>2, SoundAfter
  <2>4. regs' = regs /\ flags' = flags /\ heap' = heap
    BY <1>5 DEF Ret
  <2>5. Right(Now')
    BY <2>3, <2>4 DEF Right, Now, Config
  <2> QED
    BY <2>1, <2>5
<1>6. CASE Alu \/ Push \/ Pop \/ Save \/ Mul \/ TestCl \/ Store
  <2>1. phase = "run" /\ op.op # "ret" /\ phase' = "run" /\ code' = Tail(code)
    BY <1>6 DEF Alu, Push, Pop, Save, Mul, TestCl, Store, Runs, AluOps, Shifts, Advance
  <2>2. Effect(op, regs, flags, heap, regs', flags', heap')
    BY <1>6, Effects
  <2>3. /\ Now.code = code /\ code # <<>> /\ Head(Now.code) = op
        /\ Now.regs = regs /\ Now.flags = flags /\ Now.heap = heap
    BY <2>1, Stages DEF Now, Config, op
  <2>4. /\ Now'.code = code' /\ Now'.regs = regs' /\ Now'.flags = flags' /\ Now'.heap = heap'
        /\ Now' \in Configs
    BY DEF Now, Config, Configs, StubInv, StubCore, TypeInv
  <2>5. Leads(Now, Now')
    BY <2>1, <2>2, <2>3, <2>4 DEF Leads
  <2>6. Sound(Now')
    BY <1>3, <2>1, <2>3, <2>4, <2>5, SoundAfter
  <2> QED
    BY <2>1, <2>6
<1> QED
  BY <1>4, <1>5, <1>6 DEF Next

\* On return the destinations, the memory and the zero flag are what the
\* comments over the builders promise, whatever interrupts came, for every
\* instruction the builders get right.
THEOREM StubComputes == Spec => []Computes
<1>1. Init => ComputesInv
  <2> SUFFICES ASSUME Init, Faithful PROVE Sound(Now) /\ phase = "run"
    BY DEF ComputesInv
  <2>1. info \in Infos /\ regs0 \in [Regs -> Words] /\ "caller" \in FlagStates
    BY TrampolineAssumption DEF Init, TrampolineAssumption, FlagStates
  <2>2. Now = Config(MakeTrampoline(info), regs0, "caller", Heap)
    BY DEF Init, Now
  <2> QED
    BY <2>1, <2>2, StubSound DEF Init
<1>2. StubInv /\ StubInv' /\ ComputesInv /\ [Next]_vars => ComputesInv'
  BY ComputesNext
<1>3. ASSUME ComputesInv PROVE Computes
  BY <1>3 DEF ComputesInv, Computes, Right, Now, Config
<1> QED
  BY <1>1, <1>2, <1>3, StubInvariance, PTL DEF Spec
=============================================================================
