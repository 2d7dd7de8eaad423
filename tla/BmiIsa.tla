------------------------------- MODULE BmiIsa -------------------------------
(***************************************************************************)
(* VEX-encoded BMI instructions as the processor understands them, with    *)
(* nothing taken from the emulator.  Which mnemonic an encoding has is the *)
(* table of patch_ivybridge.py (decode, 123-131 and 156-180).              *)
(***************************************************************************)
EXTENDS Words

RSP == 4
RegIds == 0 .. 15
RegFiles == [RegIds -> Words]

\* The ModRM byte, the SIB byte and displacement after it, and VEX.X and .B.
ModRMs == [mod : 0 .. 3, rm : 0 .. 7, b : 0 .. 1, x : 0 .. 1,
           sc : 0 .. 3, idx : 0 .. 7, bas : 0 .. 7, disp : Int]

\* trap is the exception the instruction raises on a processor without BMI;
\* vex3 that its first byte is C4; whole that 15 bytes from it are readable.
\* reg and vvvv include the extension bits.
Insns == [trap : {"ud", "int3"}, vex3 : BOOLEAN, whole : BOOLEAN,
          map : 1 .. 3, l : 0 .. 1, pp : 0 .. 3, opcode : {"F0", "F2", "F5", "F6", "F7"},
          w : 0 .. 1, reg : RegIds, vvvv : RegIds, m : ModRMs, imm : Nat]

\* map, pp, opcode and mnemonic; pp is 0 for no prefix, 1 for 66, 2 for F3 and
\* 3 for F2.
Table ==
  {<<2, 1, "F7", "SHLX">>, <<2, 3, "F7", "SHRX">>, <<2, 2, "F7", "SARX">>,
   <<2, 0, "F7", "BEXTR">>, <<2, 0, "F5", "BZHI">>, <<2, 2, "F5", "PEXT">>,
   <<2, 3, "F5", "PDEP">>, <<2, 3, "F6", "MULX">>, <<3, 3, "F0", "RORX">>,
   <<2, 0, "F2", "ANDN">>}
Mnemonic(i) ==
  LET rows == {t \in Table : t[1] = i.map /\ t[2] = i.pp /\ t[3] = i.opcode}
  IN  IF i.trap = "int3" THEN "int3"
      ELSE IF i.vex3 /\ i.l = 0 /\ rows # {} THEN (CHOOSE t \in rows : TRUE)[4]
      ELSE "none"

-----------------------------------------------------------------------------
(* Operands. *)

IsMem(i) == i.m.mod # 3
HasSib(i) == IsMem(i) /\ i.m.rm = 4
NoBase(i) == HasSib(i) /\ i.m.mod = 0 /\ i.m.bas = 5
RipRelative(i) == i.m.mod = 0 /\ i.m.rm = 5
DispSize(i) == CASE i.m.mod = 1 -> 1
                 [] i.m.mod = 2 -> 4
                 [] NoBase(i) \/ RipRelative(i) -> 4
                 [] OTHER -> 0
Disp(i) == IF DispSize(i) = 0 THEN 0 ELSE i.m.disp

\* VEX prefix, opcode, ModRM, SIB, displacement, immediate.
Length(i) ==
  IF i.trap # "ud" THEN 1
  ELSE 3 + 1 + 1 + (IF HasSib(i) THEN 1 ELSE 0) + DispSize(i)
         + (IF i.map = 3 THEN 1 ELSE 0)

Wrap(n) == Bits(n % 2 ^ WordBits, WordBits)
BaseReg(i) == (IF HasSib(i) THEN i.m.bas ELSE i.m.rm) + 8 * i.m.b
IndexReg(i) == i.m.idx + 8 * i.m.x

\* The address of a memory operand of an instruction at ip.
Address(i, r, ip) ==
  LET base == IF RipRelative(i) THEN ip + Length(i)
              ELSE IF NoBase(i) THEN 0 ELSE Num(r[BaseReg(i)])
      index == IF HasSib(i) /\ IndexReg(i) # RSP THEN Num(r[IndexReg(i)]) * 2 ^ i.m.sc ELSE 0
  IN  Wrap(base + index + Disp(i))

-----------------------------------------------------------------------------
(* Results. *)

\* How many ones of mask are below position j.
Rank(mask, j) == Cardinality({k \in mask : k < j})
Pdep(s, mask) == {j \in mask : Rank(mask, j) \in s}
Pext(s, mask) == {Rank(mask, j) : j \in mask \intersect s}

\* What the instruction puts into ModRM.reg, from r/m s and vvvv v.
Result(i, s, v) ==
  LET c == Count(v, i.w)
      n == Num(v \intersect Byte)
      mnem == Mnemonic(i)
  IN  CASE mnem = "SHLX" -> Shl(s, c, i.w)
        [] mnem = "SARX" -> Sar(s, c, i.w)
        [] mnem = "SHRX" -> Shr(s, c, i.w)
        [] mnem = "BZHI" -> IF n < Size(i.w) THEN Low(Trunc(s, i.w), n) ELSE Trunc(s, i.w)
        [] mnem = "PEXT" -> Pext(Trunc(s, i.w), Trunc(v, i.w))
        [] mnem = "PDEP" -> Pdep(v, Trunc(s, i.w))
        [] mnem = "RORX" -> Ror(s, i.imm % Size(i.w), i.w)
=============================================================================
