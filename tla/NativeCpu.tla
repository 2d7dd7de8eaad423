----------------------------- MODULE NativeCpu -----------------------------
(***************************************************************************)
(* "Transparent to the rest of the system" (bmi2_emul.c:11): code in each  *)
(* context runs as on a processor that has the instructions, one step for  *)
(* each, or the context is stopped in front of one with its registers as   *)
(* they were.                                                              *)
(*                                                                         *)
(* An instruction outside sure may leave any value in its own destination, *)
(* but in no other register, and the next one is still found.              *)
(***************************************************************************)
EXTENDS BmiIsa

CONSTANTS Contexts, Mem

VARIABLES
  code,   \* of each context: the instruction at each address
  regs,   \* its registers
  ip,     \* its instruction pointer
  alive,  \* it has not been stopped
  sure    \* an input: whether the value of its destination is promised

vars == <<code, regs, ip, alive>>

Here(c) == code[c][ip[c]]
AtInsn(c) == alive[c] /\ ip[c] \in DOMAIN code[c]

Source(i, r, p) == IF IsMem(i) THEN Mem[Address(i, r, p)] ELSE r[BaseReg(i)]

Execute(c) ==
  /\ AtInsn(c)
  /\ LET i == Here(c)
     IN  /\ ip' = [ip EXCEPT ![c] = (@ + Length(i)) % 2 ^ WordBits]
         /\ IF Mnemonic(i) = "int3" THEN regs' = regs
            ELSE \E x \in Words :
                   /\ sure[c] => x = Result(i, Source(i, regs[c], ip[c]), regs[c][i.vvvv])
                   /\ regs' = [regs EXCEPT ![c][i.reg] = x]
  /\ UNCHANGED <<code, alive>>

Stop(c) ==
  /\ AtInsn(c)
  /\ alive' = [alive EXCEPT ![c] = FALSE]
  /\ UNCHANGED <<code, regs, ip>>

Init ==
  /\ regs \in [Contexts -> RegFiles]
  /\ ip \in [Contexts -> 0 .. 2 ^ WordBits - 1]
  /\ alive = [c \in Contexts |-> TRUE]

Next == \E c \in Contexts : Execute(c) \/ Stop(c)

Spec == Init /\ [][Next]_vars
=============================================================================
