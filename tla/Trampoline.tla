----------------------------- MODULE Trampoline -----------------------------
(***************************************************************************)
(* The stubs of bzImage-patch/patch_ivybridge.py (make_trampoline and the  *)
(* two make_movbe_* functions): the code each one builds, run one machine  *)
(* instruction at a time, on a kernel stack an interrupt may use between   *)
(* any two of them.  Meaning is what the comments over the builders say    *)
(* the stub computes.                                                      *)
(*                                                                         *)
(* The stack grows towards higher slots here: slot sp is (%rsp), slot      *)
(* sp - d the word d places above it and slot sp + d the word at -8d(%rsp).*)
(* CALL pushes into slot 0; the caller's words are those below it.         *)
(***************************************************************************)
EXTENDS Words, Integers, Sequences

CONSTANTS
  Infos,     \* decoded instructions: the dicts decode and decode_movbe return
  RegInits,  \* register contents to start from
  Heap,      \* the memory a register points into: a word for each address
  Above,     \* how many words of the caller's stack the operands reach
  Below,     \* how many words below the return address the operands reach
  Frame,     \* what the caller's stack holds
  RetAddr,   \* the address CALL pushes
  Junk       \* what an interrupt leaves below the stack pointer

RAX == 0
RCX == 1
RDX == 2
RSP == 4
Regs == {0, 1, 2, 3, 5}   \* RSP is not a general register here

Shifts == {"SHLX", "SHRX", "SARX"}
BlsOps == {"BLSR", "BLSMSK", "BLSI"}
Mnems == Shifts \union BlsOps \union {"RORX", "MULX", "ANDN", "BZHI", "MOVBE_ld", "MOVBE_st"}

\* The r/m operand: a register; memory at a base register; memory d words
\* above RSP (below it if d < 0); memory d words from a SIB base that is not
\* RSP; memory at an index and a displacement without a base, which no decoder
\* reads; memory relative to RIP.
Operands == [kind : {"reg", "mem", "stk", "sib", "idx", "rip"}, r : Regs, d : Int]

\* dst is the ModRM.reg or vvvv destination (dst_lo for MULX, reg for MOVBE).
\* aux is count, index, src1, dst_hi or imm8, whichever the mnemonic has.
InfoType == [mnem : Mnems, W : {0, 1}, dst : Regs, aux : Nat, src : Operands]

\* Addresses RIP-relative operands reach from the site and from the stub, and
\* what a displacement makes of an address.
SiteRip == {}
StubRip == {0}
Displaced(x) == (x \ {0}) \union ({0} \ x)

RetSlot == 0
CallerTop == -1
CallerSlots == (-Above) .. CallerTop
Slots == (-Above) .. Below

ASSUME TrampolineAssumption ==
  /\ Infos \subseteq InfoType
  /\ \A i \in Infos : i.mnem # "RORX" => i.aux \in Regs
  /\ \A i \in Infos : i.mnem \in {"MOVBE_ld", "MOVBE_st"} => i.src.kind # "reg"
  \* The modelled stack holds the words the operands name, seen from the site
  \* and from a stub that has pushed two registers.
  /\ Above \in Nat \ {0} /\ Below \in Nat \ {0, 1}
  /\ \A i \in Infos : i.src.kind \in {"stk", "sib"} => i.src.d \in (2 - Below) .. (Above - 1)
  /\ \A i \in Infos : i.src.kind = "idx" => i.src.d = 0
  /\ RegInits \subseteq [Regs -> Words]
  /\ Heap \in [Words -> Words]
  /\ Frame \in [CallerSlots -> Words]
  /\ RetAddr \in Words /\ Junk \in Words

-----------------------------------------------------------------------------
(* The code builders.  An instruction is an opcode and two registers.      *)

I(op, a, b) == <<[op |-> op, a |-> a, b |-> b]>>
push_r(r) == I("push", r, r)
pop_r(r) == I("pop", r, r)
mov_rr(dst, src) == IF dst = src THEN <<>> ELSE I("mov", dst, src)
mov_cl_reg(src) == IF src = RCX THEN <<>> ELSE I("movcl", RCX, src)
ret == I("ret", RAX, RAX)

\* Mutant: a fixed temporary.
PickTmpAny(used) == RCX
\* The first register in the fixed order that the instruction does not name.
PickTmp(used) == CHOOSE r \in Regs \ used : \A q \in Regs \ used : r <= q

SrcReg(src) == IF src.kind = "reg" THEN {src.r} ELSE {}

\* _load_src: the operand is encoded again, from base, mod and disp alone.
LoadSrc(tmp, src) ==
  IF src.kind = "reg" THEN mov_rr(tmp, src.r) ELSE I("load", tmp, tmp)

\* Mutants: RCX is not restored, not even saved, or restored in every branch.
MakeShiftNoPop(i) ==
  push_r(RCX) \o mov_cl_reg(i.aux) \o LoadSrc(i.dst, i.src) \o I(i.mnem, i.dst, RCX)
MakeShiftNoSave(i) ==
  mov_cl_reg(i.aux) \o LoadSrc(i.dst, i.src) \o I(i.mnem, i.dst, RCX)
MakeShiftPopsAlways(i) ==
  (IF i.aux = RCX THEN <<>> ELSE push_r(RCX) \o mov_cl_reg(i.aux))
  \o LoadSrc(i.dst, i.src) \o I(i.mnem, i.dst, RCX) \o pop_r(RCX)
\* The count is in CL already; the destination is RCX; the general case.
MakeShift(i) ==
  IF i.aux = RCX THEN LoadSrc(i.dst, i.src) \o I(i.mnem, i.dst, RCX)
  ELSE IF i.dst = RCX
  THEN push_r(RAX) \o LoadSrc(RAX, i.src) \o mov_cl_reg(i.aux)
       \o I(i.mnem, RAX, RCX) \o mov_rr(RCX, RAX) \o pop_r(RAX)
  ELSE push_r(RCX) \o mov_cl_reg(i.aux) \o LoadSrc(i.dst, i.src)
       \o I(i.mnem, i.dst, RCX) \o pop_r(RCX)

MakeRorx(i) == LoadSrc(i.dst, i.src) \o I("ror", i.dst, i.aux)

\* RAX and RDX are kept at -8(%rsp) and -16(%rsp), and not loaded again when
\* the instruction writes them.
MakeMulx(i) ==
  LET outs == {i.dst, i.aux}
  IN  I("save", RAX, 1) \o I("save", RDX, 2) \o mov_rr(RAX, RDX)
      \o (IF i.src.kind = "reg" THEN I("mul", i.src.r, RAX) ELSE I("mulmem", RAX, RAX))
      \o mov_rr(i.dst, RAX) \o mov_rr(i.aux, RDX)
      \o (IF RAX \in outs THEN <<>> ELSE I("restore", RAX, 1))
      \o (IF RDX \in outs THEN <<>> ELSE I("restore", RDX, 2))

MakeAndn(i) ==
  LET tmp == PickTmp({i.dst, i.aux} \union SrcReg(i.src))
  IN  push_r(tmp) \o mov_rr(tmp, i.aux) \o I("not", tmp, tmp)
      \o (IF i.src.kind = "reg" THEN I("and", tmp, i.src.r) ELSE I("andmem", tmp, tmp))
      \o mov_rr(i.dst, tmp) \o pop_r(tmp)

MakeBls(i) ==
  LET tmp == PickTmp({i.dst} \union SrcReg(i.src))
      last == CASE i.mnem = "BLSR"   -> I("dec", i.dst, i.dst) \o I("and", i.dst, tmp)
                [] i.mnem = "BLSMSK" -> I("dec", i.dst, i.dst) \o I("xor", i.dst, tmp)
                [] i.mnem = "BLSI"   -> I("neg", tmp, tmp) \o I("and", i.dst, tmp)
  IN  push_r(tmp) \o LoadSrc(tmp, i.src) \o mov_rr(i.dst, tmp) \o last \o pop_r(tmp)

\* 80 C9 FF is OR CL, 0xFF.
MakeBzhi(i) ==
  LET mask_tmp == PickTmp({i.dst, i.aux, RCX} \union SrcReg(i.src))
  IN  push_r(RCX) \o push_r(mask_tmp) \o mov_rr(RCX, i.aux) \o I("orcl", RCX, RCX)
      \o LoadSrc(i.dst, i.src) \o I("ones", mask_tmp, mask_tmp)
      \o I("SHLX", mask_tmp, RCX) \o I("not", mask_tmp, mask_tmp) \o I("testcl", RCX, RCX)
      \o I("and", i.dst, mask_tmp) \o pop_r(mask_tmp) \o pop_r(RCX)

\* The tmp of a store avoids the ModRM base, which is not the SIB base, and
\* the SIB index.
MakeMovbe(i) ==
  LET base == IF i.src.kind \in {"mem", "idx"} THEN {i.src.r} ELSE {}
      tmp == PickTmp({i.dst} \union base)
  IN  IF i.mnem = "MOVBE_ld" THEN I("loadsib", i.dst, i.dst) \o I("bswap", i.dst, i.dst)
      ELSE push_r(tmp) \o mov_rr(tmp, i.dst) \o I("bswap", tmp, tmp)
           \o I("store", tmp, tmp) \o pop_r(tmp)

MakeTrampoline(i) ==
  LET body == CASE i.mnem \in Shifts -> MakeShift(i)
                [] i.mnem \in BlsOps -> MakeBls(i)
                [] i.mnem = "RORX"   -> MakeRorx(i)
                [] i.mnem = "MULX"   -> MakeMulx(i)
                [] i.mnem = "ANDN"   -> MakeAndn(i)
                [] i.mnem = "BZHI"   -> MakeBzhi(i)
                [] OTHER             -> MakeMovbe(i)
  IN  body \o ret

-----------------------------------------------------------------------------
VARIABLES
  info,        \* the instruction the stub stands for
  regs0,       \* registers when the site is reached
  regs, flags, heap, stack, sp,
  code,        \* the rest of the stub
  phase,       \* "run", "returned" to the site, or "lost"
  interrupted  \* history: an interrupt came while the stub ran

vars == <<info, regs0, regs, flags, heap, stack, sp, code, phase, interrupted>>

\* flags is "caller" until an instruction writes any; then "zero" or "nonzero"
\* if ZF tells that of a result, "other" if ZF is as good as undefined.
FlagStates == {"caller", "zero", "nonzero", "other"}

Init ==
  /\ info \in Infos
  /\ regs0 \in RegInits
  /\ regs = regs0
  /\ flags = "caller"
  /\ heap = Heap
  /\ stack = [n \in Slots |-> IF n \in CallerSlots THEN Frame[n]
                              ELSE IF n = RetSlot THEN RetAddr ELSE Junk]
  /\ sp = RetSlot
  /\ code = MakeTrampoline(info)
  /\ phase = "run"
  /\ interrupted = FALSE

W == info.W
op == Head(code)
Runs(ops) == phase = "run" /\ op.op \in ops

\* The memory operand as the stub's own encoding addresses it.  mov_r_mem and
\* the inline encoders write SIB byte 24 for every SIB operand; encode_mem_ref
\* writes the one it was given.  A displacement is copied as it was read.
SibAsRsp == op.op \in {"load", "andmem", "mulmem"}
OnStack == info.src.kind = "stk" \/ (info.src.kind \in {"sib", "idx"} /\ SibAsRsp)
Address == IF info.src.kind = "rip" THEN StubRip ELSE regs[info.src.r]
StubOperand == IF OnStack THEN stack[sp - info.src.d] ELSE heap[Address]

\* What a register-writing instruction puts into its register.
AluOps == Shifts \union {"mov", "movcl", "load", "loadsib", "andmem", "ror", "not", "and",
                         "xor", "dec", "neg", "bswap", "orcl", "ones", "restore"}
Value ==
  LET x == regs[op.a]
      y == regs[op.b]
  IN  CASE op.op = "mov"   -> Trunc(y, W)
        [] op.op = "movcl" -> (x \ Byte) \union (y \intersect Byte)
        [] op.op \in {"load", "loadsib"} -> Trunc(StubOperand, W)
        [] op.op = "and"   -> And(x, y, W)
        [] op.op = "andmem" -> And(x, StubOperand, W)
        [] op.op = "xor"   -> Xor(x, y, W)
        [] op.op = "not"   -> Not(x, W)
        [] op.op = "neg"   -> Neg(x, W)
        [] op.op = "dec"   -> Dec(x, W)
        [] op.op = "SHLX"  -> Shl(x, Count(y, W), W)
        [] op.op = "SHRX"  -> Shr(x, Count(y, W), W)
        [] op.op = "SARX"  -> Sar(x, Count(y, W), W)
        [] op.op = "ror"   -> Ror(x, op.b % Size(W), W)
        [] op.op = "bswap" -> Swap(x, W)
        [] op.op = "orcl"  -> x \union Byte
        [] op.op = "ones"  -> Ones(W)
        [] op.op = "restore" -> Trunc(stack[sp + op.b], W)

ZeroFlag(x) == IF x = {} THEN "zero" ELSE "nonzero"
FlagsAfter(x) ==
  CASE op.op \in {"and", "andmem", "xor", "neg", "dec", "orcl"} -> ZeroFlag(x)
    [] op.op \in Shifts -> IF Count(regs[op.b], W) = 0 THEN flags ELSE ZeroFlag(x)
    [] op.op = "ror"    -> IF op.b % Size(W) = 0 THEN flags ELSE "other"
    [] OTHER            -> flags

Advance == code' = Tail(code)

Alu ==
  /\ Runs(AluOps)
  /\ regs' = [regs EXCEPT ![op.a] = Value]
  /\ flags' = FlagsAfter(Value)
  /\ Advance
  /\ UNCHANGED <<info, regs0, heap, stack, sp, phase, interrupted>>

Push ==
  /\ Runs({"push"})
  /\ sp' = sp + 1
  /\ stack' = [stack EXCEPT ![sp + 1] = regs[op.a]]
  /\ Advance
  /\ UNCHANGED <<info, regs0, regs, flags, heap, phase, interrupted>>

Pop ==
  /\ Runs({"pop"})
  /\ regs' = [regs EXCEPT ![op.a] = stack[sp]]
  /\ sp' = sp - 1
  /\ Advance
  /\ UNCHANGED <<info, regs0, flags, heap, stack, phase, interrupted>>

\* mov [rsp-8b], a
Save ==
  /\ Runs({"save"})
  /\ stack' = [stack EXCEPT ![sp + op.b] = (@ \ Ones(W)) \union Trunc(regs[op.a], W)]
  /\ Advance
  /\ UNCHANGED <<info, regs0, regs, flags, heap, sp, phase, interrupted>>

\* mul r/m: RDX:RAX = RAX * r/m
Mul ==
  /\ Runs({"mul", "mulmem"})
  /\ LET y == IF op.op = "mul" THEN regs[op.a] ELSE StubOperand
     IN  regs' = [regs EXCEPT ![RAX] = MulLow(regs[RAX], y, W),
                              ![RDX] = MulHigh(regs[RAX], y, W)]
  /\ flags' = "other"
  /\ Advance
  /\ UNCHANGED <<info, regs0, heap, stack, sp, phase, interrupted>>

\* test cl, op_size
TestCl ==
  /\ Runs({"testcl"})
  /\ flags' = ZeroFlag(regs[RCX] \intersect Byte \intersect Bits(Size(W), ByteBits))
  /\ Advance
  /\ UNCHANGED <<info, regs0, regs, heap, stack, sp, phase, interrupted>>

\* mov [mem], tmp
Over(old, x) == (old \ Ones(W)) \union Trunc(x, W)
Store ==
  /\ Runs({"store"})
  /\ IF OnStack
     THEN /\ stack' = [stack EXCEPT ![sp - info.src.d] = Over(@, regs[op.a])]
          /\ heap' = heap
     ELSE /\ heap' = [heap EXCEPT ![Address] = Over(@, regs[op.a])]
          /\ stack' = stack
  /\ Advance
  /\ UNCHANGED <<info, regs0, regs, flags, sp, phase, interrupted>>

Ret ==
  /\ Runs({"ret"})
  /\ phase' = IF sp = RetSlot /\ stack[sp] = RetAddr THEN "returned" ELSE "lost"
  /\ sp' = sp - 1
  /\ Advance
  /\ UNCHANGED <<info, regs0, regs, flags, heap, stack, interrupted>>

\* An interrupt or NMI on this stack: everything below RSP is overwritten, the
\* registers and flags come back as they were.
Interrupt ==
  /\ phase = "run"
  /\ stack' = [n \in Slots |-> IF n > sp THEN Junk ELSE stack[n]]
  /\ interrupted' = TRUE
  /\ UNCHANGED <<info, regs0, regs, flags, heap, sp, code, phase>>

Next == Alu \/ Push \/ Pop \/ Save \/ Mul \/ TestCl \/ Store \/ Ret \/ Interrupt

Spec == Init /\ [][Next]_vars

-----------------------------------------------------------------------------
(* What a stub is to do. *)

\* The r/m operand as the original instruction reads it.
SiteAddress ==
  CASE info.src.kind = "rip" -> SiteRip
    [] info.src.kind = "idx" -> Displaced(regs0[info.src.r])
    [] OTHER -> regs0[info.src.r]
Source ==
  CASE info.src.kind = "reg" -> regs0[info.src.r]
    [] info.src.kind = "stk" -> IF info.src.d < 0 THEN Junk ELSE Frame[CallerTop - info.src.d]
    [] OTHER -> Heap[SiteAddress]

\* dst, from the comment over each builder.
Meaning ==
  LET s == Source
      aux == regs0[info.aux]
      index == Num(aux \intersect Byte)
  IN  CASE info.mnem = "SHLX"   -> Shl(s, Count(aux, W), W)
        [] info.mnem = "SHRX"   -> Shr(s, Count(aux, W), W)
        [] info.mnem = "SARX"   -> Sar(s, Count(aux, W), W)
        [] info.mnem = "RORX"   -> Ror(s, info.aux % Size(W), W)
        [] info.mnem = "MULX"   -> MulLow(regs0[RDX], s, W)
        [] info.mnem = "ANDN"   -> And(Not(aux, W), s, W)
        [] info.mnem = "BLSR"   -> And(s, Dec(s, W), W)
        [] info.mnem = "BLSMSK" -> Xor(s, Dec(s, W), W)
        [] info.mnem = "BLSI"   -> And(s, Neg(s, W), W)
        [] info.mnem = "BZHI"   -> IF index < Size(W) THEN Low(Trunc(s, W), index)
                                   ELSE Trunc(s, W)
        [] info.mnem = "MOVBE_ld" -> Swap(s, W)

\* The destinations and what they are to hold; MULX writes the high half last.
Outs ==
  CASE info.mnem = "MOVBE_st" -> {}
    [] info.mnem = "MULX"     -> {info.dst, info.aux}
    [] OTHER                  -> {info.dst}
Expected(r) ==
  IF info.mnem = "MULX" /\ r = info.aux THEN MulHigh(regs0[RDX], Source, W) ELSE Meaning
ExpectedHeap ==
  IF info.mnem = "MOVBE_st"
  THEN [Heap EXCEPT ![SiteAddress] = Over(@, Swap(regs0[info.dst], W))]
  ELSE Heap

\* The instructions whose stub does compute its comment.  An operand on the
\* stack is one or more words off, a RIP-relative one is at the wrong end, the
\* displacement of one without a base is lost, a SIB base is only kept by the
\* MOVBE builders, and RCX, RAX, RDX or a tmp the builder takes for itself must
\* not be a source it still has to read.
Names(r) == info.src.kind \in {"reg", "mem"} /\ info.src.r = r
FaithfulOperand ==
  \/ info.src.kind \in {"reg", "mem"}
  \/ info.src.kind = "sib" /\ info.mnem = "MOVBE_ld"
  \/ info.src.kind = "sib" /\ info.mnem = "MOVBE_st" /\ PickTmp({info.dst}) # info.src.r
FaithfulShift ==
  \/ info.aux = RCX /\ (info.dst = RCX => info.src.kind = "reg" /\ info.src.r = RCX)
  \/ info.aux # RCX /\ info.dst = RCX
     /\ (info.aux = RAX => info.src.kind = "reg" /\ info.src.r = RAX)
  \/ info.aux # RCX /\ info.dst # RCX /\ ~Names(RCX)
Faithful ==
  /\ FaithfulOperand
  /\ info.mnem \in Shifts => FaithfulShift
  /\ info.mnem = "ANDN" /\ info.src.kind = "mem" =>
       PickTmp({info.dst, info.aux}) # info.src.r
  /\ info.mnem = "MULX" => info.dst # RDX /\ ~Names(RAX)
  /\ info.mnem # "BZHI"

\* A MOVBE store to d(%rsp) is made by a stub two words further down: it hits
\* the saved temporary (d = 0), the return address (d = 1) or a word of the
\* caller's two above the one meant.
StackStore == info.mnem = "MOVBE_st" /\ info.src.kind = "stk"
StoreSlot == RetSlot + 1 - info.src.d

\* The stubs that give back every register but their destinations.
Conserves ==
  /\ info.mnem = "MULX" => W = 1 /\ ~interrupted
  /\ StackStore => StoreSlot # RetSlot + 1

-----------------------------------------------------------------------------
(* Properties. *)

\* Registers, memory and stack hold words; the stack pointer stays in range.
TypeOK ==
  /\ info \in InfoType
  /\ regs0 \in [Regs -> Words]
  /\ regs \in [Regs -> Words]
  /\ flags \in FlagStates
  /\ heap \in [Words -> Words]
  /\ stack \in [Slots -> Words]
  /\ sp \in CallerTop .. RetSlot + 2
  /\ phase \in {"run", "returned", "lost"}
  /\ interrupted \in BOOLEAN

\* Whatever the instruction, its operands and the interrupts, a stub returns
\* behind its CALL and leaves the caller's part of the stack alone.  A MOVBE
\* store to the stack is the one exception, and in one word only: the word its
\* address names from inside the stub (663), be it a word of the caller's or
\* the return address.
ReturnsHome ==
  /\ \A n \in CallerSlots : stack[n] # Frame[n] => StackStore /\ n = StoreSlot
  /\ phase = "lost" => StackStore /\ StoreSlot = RetSlot

\* A stub that borrows RAX, RCX or a temporary gives it back: on return only
\* the destinations differ, whatever interrupts came (red-zone saves aside).
KeepsRegs ==
  phase = "returned" /\ Conserves => \A r \in Regs \ Outs : regs[r] = regs0[r]

\* On return the destinations, the memory and, for the BMI1 instructions, ZF
\* are what the comments promise, for every operand the builders get right.
Computes ==
  phase = "returned" /\ Faithful =>
    /\ \A r \in Outs : regs[r] = Expected(r)
    /\ heap = ExpectedHeap
    /\ info.mnem \in BlsOps \union {"ANDN"} => flags = ZeroFlag(regs[info.dst])

-----------------------------------------------------------------------------
(* What comments say and the stubs do not do. *)

\* "RORX: dst = ROR(src, imm8)  (no flags)" (226), the same for MULX (241).
NoFlags ==
  phase = "returned" /\ info.mnem \in {"RORX", "MULX"} => flags = "caller"

\* "MULX: ... RDX unchanged" (241): a stub that does not write RDX keeps it.
MulxKeepsRdx ==
  phase = "returned" /\ info.mnem = "MULX" /\ RDX \notin Outs => regs[RDX] = regs0[RDX]

\* "dst = src & ((1 << (index & 0xFF)) - 1)  if index < op_size" (382).
BzhiMeaning ==
  phase = "returned" /\ info.mnem = "BZHI" /\ info.src.kind = "reg" =>
    regs[info.dst] = Meaning
=============================================================================
