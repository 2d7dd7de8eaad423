------------------------------ MODULE BmiEmul ------------------------------
(***************************************************************************)
(* bzImage-patch/vmlinux-build/bmi2_emul/bmi2_emul.c: the #UD notifier,    *)
(* its decoder and its arithmetic, called from any number of contexts at   *)
(* once, while the module is loaded and unloaded.                          *)
(*                                                                         *)
(* A context is a CPU's task or an interrupt on top of it.  Contexts       *)
(* interleave freely here, which allows more than the nesting on one CPU.  *)
(* The die chain walks its handlers inside an RCU read section and         *)
(* unregister_die_notifier waits for the sections under way (external).    *)
(***************************************************************************)
EXTENDS BmiIsa, Sequences

CONSTANTS
  Contexts,
  Mem,        \* the mapped addresses and the words there
  Scenarios,  \* what the contexts run: code, start and user mode of each, and
              \* whether somebody loads and unloads the module
  MaxLoads    \* bound: how often the module is loaded

\* A displacement is a signed number of at most half a word, and F6 is MULX:
\* no processor has it under another prefix.
CodeType(f) ==
  \A p \in DOMAIN f :
    /\ p \in 0 .. 2 ^ WordBits - 1 /\ f[p] \in Insns
    /\ f[p].m.disp \in - 2 ^ (Size(0) - 1) .. 2 ^ (Size(0) - 1) - 1
    /\ f[p].opcode = "F6" => f[p].pp = 3

ASSUME EmulAssumption ==
  /\ \E k \in 1 .. ByteBits : WordBits = 2 ^ k
  /\ IsFiniteSet(Contexts)
  /\ DOMAIN Mem \subseteq Words /\ \A a \in DOMAIN Mem : Mem[a] \in Words
  /\ MaxLoads \in Nat
  /\ \A s \in Scenarios :
       /\ s.unload \in BOOLEAN /\ s.regs \in [Contexts -> RegFiles]
       /\ \A c \in Contexts : /\ CodeType(s.code[c])
                              /\ s.start[c] \in 0 .. 2 ^ WordBits - 1
                              /\ s.user[c] \in BOOLEAN

\* Bit 63: RIP_REL_FLAG, and the top bit of every kernel address.
RIP_REL_FLAG == WordBits - 1

VARIABLES
  scenario,
  regs, ip,    \* args->regs of each context
  phase,       \* where a context is: in its code, in the notifier, stopped
  len,         \* len of a running bmi2_ud_notifier
  module,      \* "out", "live", or "exiting" from unregister to the end
  registered,  \* bmi2_nb is on the die chain
  count,       \* bmi2_emul_count
  done,        \* history: instructions emulated since the module was loaded
  report,      \* history: <<count, done>> of the last "unloaded" message
  loads

vars == <<scenario, regs, ip, phase, len, module, registered, count, done, report, loads>>

InHandler == {"notified", "emulated", "advanced"}
Stopped == {"oops", "sigill"}

code == scenario.code
user == scenario.user
Here(c) == code[c][ip[c]]

-----------------------------------------------------------------------------
(* decode_modrm and the arithmetic, as the C code computes them. *)

\* A SIB byte of index 4 has no index, whatever VEX.X says.
SibAddress(i, r) ==
  LET base == IF i.m.bas = 5 /\ i.m.mod = 0 THEN i.m.disp ELSE Num(r[i.m.bas + 8 * i.m.b])
  IN  base + (IF i.m.idx # 4 THEN Num(r[i.m.idx + 8 * i.m.x]) * 2 ^ i.m.sc ELSE 0)

\* Mutant: the displacement of a SIB operand without a base is not counted.
ModRMLenNoSibDisp(i) ==
  LET sib == IF i.m.mod # 3 /\ i.m.rm = 4 THEN 1 ELSE 0
      disp == CASE i.m.mod = 1 -> 1
                [] i.m.mod = 2 -> 4
                [] i.m.mod = 0 /\ i.m.rm = 5 -> 4
                [] OTHER -> 0
  IN  1 + sib + disp
\* The bytes decode_modrm consumes.
ModRMLen(i) ==
  IF i.m.mod = 3 THEN 1
  ELSE CASE i.m.rm = 4 /\ i.m.bas = 5 /\ i.m.mod = 0    -> 6
         [] i.m.rm = 4 /\ ~(i.m.bas = 5 /\ i.m.mod = 0) -> 2 + <<0, 1, 4>>[i.m.mod + 1]
         [] i.m.rm = 5 /\ i.m.mod = 0                    -> 5
         [] OTHER                                        -> 1 + <<0, 1, 4>>[i.m.mod + 1]

\* *out of a memory operand; a RIP-relative one is the low half of the
\* displacement with the flag.
ModRMOut(i, r) ==
  LET plus == IF i.m.mod \in {1, 2} THEN i.m.disp ELSE 0
  IN  IF i.m.rm = 4 THEN Wrap(SibAddress(i, r) + plus)
      ELSE IF i.m.rm = 5 /\ i.m.mod = 0 THEN Trunc(Wrap(i.m.disp), 0) \union {RIP_REL_FLAG}
      ELSE Wrap(Num(r[i.m.rm + 8 * i.m.b]) + plus)

\* (s32)(x & 0xffffffff)
SignedHalf(x) ==
  Num(Trunc(x, 0)) - (IF Size(0) - 1 \in x THEN 2 ^ Size(0) ELSE 0)

\* The address the operand is read from: anything with the flag is taken for
\* RIP-relative.
OperandAddress(i, r, p) ==
  LET out == ModRMOut(i, r)
  IN  IF RIP_REL_FLAG \in out THEN Wrap(p + 3 + 1 + ModRMLen(i) + SignedHalf(out)) ELSE out

\* read_mem_or_reg
Faults(i, r, p) == i.m.mod # 3 /\ OperandAddress(i, r, p) \notin DOMAIN Mem
SrcRm(i, r, p) ==
  Trunc(IF i.m.mod = 3 THEN r[i.m.rm + 8 * i.m.b] ELSE Mem[OperandAddress(i, r, p)], i.w)
SrcVvv(i, r) == Trunc(r[i.vvvv], i.w)

\* The loops of emu_pdep and emu_pext after bits 0 .. m - 1: k is the number
\* of mask bits met.
PdepLoop(src, mask) ==
  LET st[m \in 0 .. WordBits] ==
        IF m = 0 THEN [res |-> {}, k |-> 0]
        ELSE LET s == st[m - 1]
             IN  IF m - 1 \notin mask THEN s
                 ELSE [res |-> IF s.k \in src THEN s.res \union {m - 1} ELSE s.res,
                       k   |-> s.k + 1]
  IN  st[WordBits].res
PextLoop(src, mask) ==
  LET st[m \in 0 .. WordBits] ==
        IF m = 0 THEN [res |-> {}, k |-> 0]
        ELSE LET s == st[m - 1]
             IN  IF m - 1 \notin mask THEN s
                 ELSE [res |-> IF m - 1 \in src THEN s.res \union {s.k} ELSE s.res,
                       k   |-> s.k + 1]
  IN  st[WordBits].res

\* Mutant: SHLX is looked for under the prefix of SHRX.
HandledNoShlx(i) ==
  /\ i.map \in {2, 3} /\ i.l = 0
  /\ \/ i.map = 2 /\ i.opcode = "F5" /\ i.pp \in {0, 2, 3}
     \/ i.map = 2 /\ i.opcode = "F6" /\ i.pp = 2
     \/ i.map = 2 /\ i.opcode = "F7" /\ i.pp \in {0, 2}
     \/ i.map = 3 /\ i.opcode = "F0" /\ i.pp = 2
\* The instructions emulate_bmi2 goes through with.
Handled(i) ==
  /\ i.map \in {2, 3} /\ i.l = 0
  /\ \/ i.map = 2 /\ i.opcode = "F5" /\ i.pp \in {0, 2, 3}
     \/ i.map = 2 /\ i.opcode = "F6" /\ i.pp = 2
     \/ i.map = 2 /\ i.opcode = "F7" /\ i.pp \in {0, 1, 2}
     \/ i.map = 3 /\ i.opcode = "F0" /\ i.pp = 2

\* result.  A rotate by 0 also shifts by the operand size, which C leaves
\* undefined; the builds give the source, rotated by 0.
Emulated(i, r, p) ==
  LET s == SrcRm(i, r, p)
      v == SrcVvv(i, r)
      cnt == Num(v) % Size(i.w)
  IN  CASE i.opcode = "F5" /\ i.pp = 0 -> Low(s, cnt)
        [] i.opcode = "F5" /\ i.pp = 2 -> PextLoop(s, v)
        [] i.opcode = "F5" /\ i.pp = 3 -> PdepLoop(v, s)
        [] i.opcode = "F6"             -> MulHigh(r[2], s, i.w)
        [] i.opcode = "F7" /\ i.pp = 0 -> Sar(s, cnt, i.w)
        [] i.opcode = "F7" /\ i.pp = 2 -> Shr(s, cnt, i.w)
        [] i.opcode = "F7" /\ i.pp = 1 -> Shl(s, cnt, i.w)
        [] i.opcode = "F0"             -> Ror(s, i.imm % Size(i.w), i.w)

\* The registers after set_reg; MULX sets vvvv on the way.
SetRegs(i, r, p) ==
  LET mid == IF i.opcode = "F6" THEN [r EXCEPT ![i.vvvv] = MulLow(r[2], SrcRm(i, r, p), i.w)]
             ELSE r
  IN  [mid EXCEPT ![i.reg] = Emulated(i, r, p)]

-----------------------------------------------------------------------------
(* The program. *)

Init ==
  /\ scenario \in Scenarios
  /\ regs = scenario.regs
  /\ ip = [c \in Contexts |-> scenario.start[c]]
  /\ phase = [c \in Contexts |-> "code"]
  /\ len = [c \in Contexts |-> 0]
  /\ module = IF scenario.unload THEN "out" ELSE "live"
  /\ registered = ~scenario.unload
  /\ count = 0
  /\ done = 0
  /\ report = <<>>
  /\ loads = 0

Goto(c, p) == phase' = [phase EXCEPT ![c] = p]
Next_ip(c, n) == ip' = [ip EXCEPT ![c] = (@ + n) % 2 ^ WordBits]
ModuleVars == <<module, registered, count, done, report, loads>>

\* What happens when no notifier stops the chain: the breakpoint belongs to
\* somebody else, who steps over it; #UD is fatal to kernel code.
Default(c) ==
  IF Here(c).trap = "int3" THEN Goto(c, "code") /\ Next_ip(c, 1)
  ELSE Goto(c, IF user[c] THEN "sigill" ELSE "oops") /\ UNCHANGED ip

\* The instruction traps and the die chain is walked.
Trap(c) ==
  /\ phase[c] = "code" /\ ip[c] \in DOMAIN code[c]
  /\ IF registered THEN Goto(c, "notified") /\ UNCHANGED ip ELSE Default(c)
  /\ UNCHANGED <<scenario, regs, len, ModuleVars>>

\* The tests bmi2_ud_notifier makes before it decodes.
PreFilter(c) ==
  LET i == Here(c)
  IN  i.trap = "ud" /\ ~user[c] /\ i.whole /\ i.vex3

\* decode_vex3 and the map test come before the operand is read, the opcode
\* test after it.
Reads(i) == i.map \in {2, 3} /\ i.l = 0

NotifyDone(c) ==
  /\ phase[c] = "notified"
  /\ \/ ~PreFilter(c)
     \/ ~Reads(Here(c))
     \/ ~Handled(Here(c)) /\ ~Faults(Here(c), regs[c], ip[c])
  /\ Default(c)
  /\ UNCHANGED <<scenario, regs, len, ModuleVars>>

\* The read of the operand faults inside the notifier.
Fault(c) ==
  /\ phase[c] = "notified" /\ PreFilter(c) /\ Reads(Here(c))
  /\ Faults(Here(c), regs[c], ip[c])
  /\ Goto(c, "oops")
  /\ UNCHANGED <<scenario, regs, ip, len, ModuleVars>>

Emulate(c) ==
  LET i == Here(c)
  IN  /\ phase[c] = "notified" /\ PreFilter(c) /\ Handled(i) /\ ~Faults(i, regs[c], ip[c])
      /\ regs' = [regs EXCEPT ![c] = SetRegs(i, @, ip[c])]
      /\ len' = [len EXCEPT ![c] = 3 + 1 + ModRMLen(i) + (IF i.map = 3 THEN 1 ELSE 0)]
      /\ done' = done + 1
      /\ Goto(c, "emulated")
      /\ UNCHANGED <<scenario, ip, module, registered, count, report, loads>>

\* args->regs->ip += len
Advance(c) ==
  /\ phase[c] = "emulated"
  /\ Next_ip(c, len[c])
  /\ Goto(c, "advanced")
  /\ UNCHANGED <<scenario, regs, len, ModuleVars>>

\* atomic64_inc, NOTIFY_STOP and back to the code.
Resume(c) ==
  /\ phase[c] = "advanced"
  /\ count' = count + 1
  /\ len' = [len EXCEPT ![c] = 0]
  /\ Goto(c, "code")
  /\ UNCHANGED <<scenario, regs, ip, module, registered, done, report, loads>>

\* bmi2_emul_init
Load ==
  /\ module = "out" /\ loads < MaxLoads
  /\ module' = "live" /\ registered' = TRUE
  /\ count' = 0 /\ done' = 0
  /\ loads' = loads + 1
  /\ UNCHANGED <<scenario, regs, ip, phase, len, report>>

\* Mutant: the counter is reported before the notifier is taken off the chain.
UnloadReportsFirst ==
  /\ scenario.unload /\ module = "live"
  /\ module' = "exiting" /\ registered' = FALSE
  /\ report' = <<count, done>>
  /\ UNCHANGED <<scenario, regs, ip, phase, len, count, done, loads>>
\* Mutant: the notifier is left on the chain.
UnloadKeepsNotifier ==
  /\ scenario.unload /\ module = "live"
  /\ module' = "exiting"
  /\ UNCHANGED <<scenario, regs, ip, phase, len, registered, count, done, report, loads>>
\* bmi2_emul_exit: unregister_die_notifier takes bmi2_nb off the chain ...
Unload ==
  /\ scenario.unload /\ module = "live"
  /\ module' = "exiting" /\ registered' = FALSE
  /\ UNCHANGED <<scenario, regs, ip, phase, len, count, done, report, loads>>

\* ... waits for the notifiers under way, and the total is printed.
Gone ==
  /\ module = "exiting"
  /\ \A c \in Contexts : phase[c] \notin InHandler
  /\ module' = "out"
  /\ report' = <<count, done>>
  /\ UNCHANGED <<scenario, regs, ip, phase, len, registered, count, done, loads>>

Handler(c) == Trap(c) \/ NotifyDone(c) \/ Fault(c) \/ Emulate(c) \/ Advance(c) \/ Resume(c)

Next == (\E c \in Contexts : Handler(c)) \/ Load \/ Unload \/ Gone

Spec == Init /\ [][Next]_vars

-----------------------------------------------------------------------------
(* Where the emulator is right. *)

\* A memory operand is found when it is RIP-relative, or its address has not
\* the flag's bit; and when R12 is not its index.
OperandFound(i, r, p) ==
  IsMem(i) =>
    /\ RipRelative(i) \/ RIP_REL_FLAG \notin Address(i, r, p)
    /\ HasSib(i) => IndexReg(i) # 12

\* SARX is done as SHRX, right for a source that is not negative or a count of
\* 0; BEXTR is done as SARX; a BZHI index wraps at the operand size.
ArithmeticRight(i, r, p) ==
  LET s == IF IsMem(i) THEN Mem[Address(i, r, p)] ELSE r[BaseReg(i)]
      mnem == Mnemonic(i)
  IN  \/ mnem \in {"SHLX", "PEXT", "PDEP"}
      \/ mnem = "SARX" /\ (Size(i.w) - 1 \notin s \/ Count(r[i.vvvv], i.w) = 0)
      \/ mnem = "BZHI" /\ Num(r[i.vvvv] \intersect Byte) < Size(i.w)

Sure(i, r, p) ==
  /\ OperandFound(i, r, p)
  /\ IsMem(i) => Address(i, r, p) \in DOMAIN Mem
  /\ ArithmeticRight(i, r, p)

-----------------------------------------------------------------------------
(* Properties. *)

\* Registers hold words, counters count, phases are phases.
TypeOK ==
  /\ regs \in [Contexts -> RegFiles]
  /\ ip \in [Contexts -> 0 .. 2 ^ WordBits - 1]
  /\ phase \in [Contexts -> {"code"} \union InHandler \union Stopped]
  /\ len \in [Contexts -> 0 .. 15]
  /\ module \in {"out", "live", "exiting"}
  /\ registered \in BOOLEAN
  /\ count \in Nat /\ done \in Nat /\ loads \in 0 .. MaxLoads
  /\ report \in {<<>>} \union (Nat \X Nat)

\* A context inside the notifier runs module code: that code is still there,
\* although exit may begin while it runs (381 before the module is freed).
HandlerResident ==
  \A c \in Contexts : phase[c] \in InHandler => module # "out"

\* The total printed at unload misses no emulated instruction, whichever
\* contexts were inside the notifier when exit began (356, 381-383).
CountExact == report # <<>> => report[1] = report[2]

\* Kernel code is stopped at an instruction only if the notifier was not on the
\* chain, or does not know it, or cannot read it or its operand.
Known == {"SHLX", "SARX", "BEXTR", "PEXT", "PDEP", "BZHI"}
OnlyUnknownOops ==
  [][\A c \in Contexts :
       phase[c] # "oops" /\ phase'[c] = "oops" =>
         LET i == Here(c)
         IN  \/ phase[c] = "code" /\ ~registered
             \/ Mnemonic(i) \notin Known
             \/ ~i.whole
             \/ IsMem(i) /\ ~(OperandFound(i, regs[c], ip[c])
                              /\ Address(i, regs[c], ip[c]) \in DOMAIN Mem)]_vars

\* Every context sees the instructions it would see on a processor that has
\* them: results where Sure holds, no other register touched, and the next
\* instruction found, with nothing changed when the trap is handed on.
Native == INSTANCE NativeCpu WITH
  ip    <- [c \in Contexts |-> IF phase[c] = "emulated"
                               THEN (ip[c] + len[c]) % 2 ^ WordBits ELSE ip[c]],
  alive <- [c \in Contexts |-> phase[c] \notin Stopped],
  sure  <- [c \in Contexts |-> phase[c] = "notified" /\ Sure(Here(c), regs[c], ip[c])]
ImplementsNative == Native!Spec

-----------------------------------------------------------------------------
(* What the module says of itself. *)

\* "handles MULX PDEP PEXT BZHI SARX SHRX SHLX RORX" (375): code that uses
\* these on registers is not stopped while the notifier is on the chain.
Listed == {"MULX", "PDEP", "PEXT", "BZHI", "SARX", "SHRX", "SHLX", "RORX"}
HandlesListed ==
  \A c \in Contexts :
    phase[c] = "oops" /\ ~scenario.unload =>
      LET i == Here(c) IN ~(Mnemonic(i) \in Listed /\ i.m.mod = 3 /\ i.whole)
=============================================================================
