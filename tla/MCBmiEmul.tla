----------------------------- MODULE MCBmiEmul -----------------------------
(***************************************************************************)
(* BmiEmul on words of four bits: one context with one instruction of each *)
(* encoding and operand form while the module stays loaded, and two        *)
(* contexts with a few instructions each while it is loaded and unloaded.  *)
(***************************************************************************)
EXTENDS BmiEmul, TLC

CONSTANTS c1, c2
MCContexts == {c1, c2}

\* The kernel half of memory is mapped, and half of the other one.
MCMem == [a \in {x \in Words : 3 \in x \/ 2 \notin x} |-> Not(a, 1)]

Op(mod, rm, b) ==
  [mod |-> mod, rm |-> rm, b |-> b, x |-> 0, sc |-> 0, idx |-> 4, bas |-> 0, disp |-> 1]
Sib(mod, bas, idx, x) ==
  [mod |-> mod, rm |-> 4, b |-> 0, x |-> x, sc |-> 1, idx |-> idx, bas |-> bas, disp |-> -2]
Direct == {Op(3, 0, 0), Op(3, 4, 1)}
Indirect ==
  {Op(0, 1, 0), Op(1, 5, 0), Op(2, 0, 1), Op(0, 5, 0), Op(0, 5, 1),
   Sib(0, 1, 4, 0), Sib(0, 5, 1, 0), Sib(1, 4, 4, 0), Sib(2, 1, 0, 0), Sib(0, 1, 4, 1)}

Insn(map, opcode, pp, w, reg, vvvv, m) ==
  [trap |-> "ud", vex3 |-> TRUE, whole |-> TRUE, map |-> map, l |-> 0, pp |-> pp,
   opcode |-> opcode, w |-> w, reg |-> reg, vvvv |-> vvvv, m |-> m, imm |-> 1]

\* What a compiler emits for -march=haswell.
Encodings ==
  {<<2, "F7", pp>> : pp \in 0 .. 3} \union {<<2, "F5", pp>> : pp \in {0, 2, 3}} \union
  {<<2, "F6", 3>>, <<2, "F2", 0>>, <<3, "F0", 3>>}
Bmi(ms) ==
  {Insn(e[1], e[2], e[3], w, reg, vvvv, m) :
     e \in Encodings, w \in 0 .. 1, reg \in {0, 12}, vvvv \in {1, 2}, m \in ms}

AShlx == Insn(2, "F7", 1, 1, 0, 1, Op(3, 0, 0))
APext == Insn(2, "F5", 2, 0, 12, 1, Op(3, 0, 0))
Others ==
  {[AShlx EXCEPT !.vex3 = FALSE], [AShlx EXCEPT !.l = 1], [AShlx EXCEPT !.map = 1],
   [AShlx EXCEPT !.whole = FALSE], [AShlx EXCEPT !.trap = "int3"]}

\* RSP and RCX are 0 and 2 modulo 4 to address mapped and unmapped words.
File(s) == [r \in RegIds |->
  CASE r = 0 -> s[1] [] r = 1 -> s[2] [] r = 2 -> s[3] [] r = 4 -> s[4] [] r = 12 -> s[5]
    [] OTHER -> {r % 4}]
Files ==
  {File(<<{0, 3}, {1}, {0, 1, 3}, {3}, {0}>>), File(<<{1}, {0}, {2}, {0, 1}, {1, 2}>>),
   File(<<{0, 1, 2, 3}, {0, 1}, {}, {0}, {3}>>), File(<<{0, 2}, {3}, {1, 3}, {1}, {2, 3}>>)}

Idle == [p \in {} |-> AShlx]
One(i) == [p \in {8} |-> i]
Scenario(f1, f2, u1, u2, r, unload) ==
  [code |-> (c1 :> f1 @@ c2 :> f2), start |-> (c1 :> 8 @@ c2 :> 8),
   user |-> (c1 :> u1 @@ c2 :> u2), regs |-> (c1 :> r @@ c2 :> r), unload |-> unload]

Alone == {Scenario(One(i), Idle, FALSE, FALSE, r, FALSE) :
            i \in Bmi(Direct \union Indirect), r \in Files}
\* SHLX at 8 is followed at 13 by another instruction.
Two(i) == [p \in {8, 13} |-> IF p = 8 THEN AShlx ELSE i]
Together ==
  {Scenario(f1, f2, FALSE, u, r, TRUE) :
     f1 \in {Two(APext), One([AShlx EXCEPT !.m = Op(0, 5, 0)])},
     f2 \in {One(i) : i \in Others \union {AShlx, APext}} \union {Two(i) : i \in Others},
     u \in BOOLEAN, r \in {File(<<{0, 3}, {1}, {0, 1, 3}, {3}, {0}>>)}}

MCScenarios == Alone \union Together
DirectScenarios ==
  {Scenario(One(i), Idle, FALSE, FALSE, r, FALSE) : i \in Bmi(Direct), r \in Files}
=============================================================================
