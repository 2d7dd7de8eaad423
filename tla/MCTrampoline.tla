---------------------------- MODULE MCTrampoline ----------------------------
(***************************************************************************)
(* Trampoline on words of four bits (halves of two, CL of three), for every *)
(* instruction the decoders return over registers RAX, RCX, RDX, RBX.      *)
(***************************************************************************)
EXTENDS Trampoline

MCHeap == [x \in Words |-> Not(x, 1)]
MCAbove == 4
MCBelow == 3
MCFrame == [n \in CallerSlots |->
              CASE n = -1 -> {1, 2, 3} [] n = -2 -> {0, 2} [] n = -3 -> {1} [] n = -4 -> {0, 3}]
MCRetAddr == {3}
MCJunk == {0, 1, 2, 3}

\* Registers that all differ, with small and large shift counts in each of
\* them, and with all zeros and all ones.
FromSeq(s) == [r \in Regs |-> s[IF r = 5 THEN 5 ELSE r + 1]]
MCRegInits ==
  {FromSeq(<<{0, 1}, {0}, {1, 2}, {0, 3}, {2}>>), FromSeq(<<{1}, {0, 1, 2}, {0, 2, 3}, {}, {3}>>),
   FromSeq(<<{0, 1, 2, 3}, {1}, {0, 3}, {0, 2}, {}>>)}

Operand(kind, r, d) == [kind |-> kind, r |-> r, d |-> d]
R4 == {0, 1, 2, 3}
MCOperands ==
  {Operand(k, r, 0) : k \in {"reg", "mem", "sib", "idx"}, r \in R4} \union
  {Operand("stk", 0, d) : d \in -1 .. 3} \union {Operand("rip", 0, 0)}

Info(m, w, dst, aux, src) == [mnem |-> m, W |-> w, dst |-> dst, aux |-> aux, src |-> src]
Three == Shifts \union {"MULX", "ANDN", "BZHI"}
MCInfos ==
  {Info(m, w, dst, aux, src) : m \in Three, w \in 0 .. 1, dst \in R4, aux \in R4, src \in MCOperands} \union
  {Info("RORX", w, dst, imm, src) : w \in 0 .. 1, dst \in R4, imm \in {0, 1, 3}, src \in MCOperands} \union
  {Info(m, w, dst, 0, src) : m \in BlsOps, w \in 0 .. 1, dst \in R4, src \in MCOperands} \union
  {Info(m, w, dst, 0, src) : m \in {"MOVBE_ld", "MOVBE_st"}, w \in 0 .. 1, dst \in R4,
                             src \in {o \in MCOperands : o.kind # "reg"}}

\* The instructions of the violation runs.
WholeInfos(m, dsts) ==
  {Info(m, 1, dst, aux, Operand("reg", r, 0)) : dst \in dsts, aux \in {0, 3}, r \in R4}
FlagInfos == WholeInfos("RORX", R4)
MulxInfos == WholeInfos("MULX", {0, 3})
BzhiInfos == WholeInfos("BZHI", {2, 3})
=============================================================================
