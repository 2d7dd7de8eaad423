----------------------------- MODULE MCPatcher -----------------------------
(***************************************************************************)
(* Small images for Patcher.  Two executable segments whose distance       *)
(* between address and file offset differs (in the kernel: .text and       *)
(* .init.text), an area of eight bytes for stubs of three or four.         *)
(***************************************************************************)
EXTENDS Patcher, ElfHeaders

\* A segment of data lies between the two in the program headers.
MCPhdrs ==
  << [load |-> TRUE, exec |-> TRUE, vaddr |-> 100, offset |-> 1, filesz |-> 22],
     [load |-> TRUE, exec |-> FALSE, vaddr |-> 122, offset |-> 35, filesz |-> 4],
     [load |-> TRUE, exec |-> TRUE, vaddr |-> 130, offset |-> 23, filesz |-> 12] >>
MCSegs == find_all_exec_segments(1, MCPhdrs)
MCFileSize == 40
MCRelHalf == 64

\* The kinds of instruction, one record each; at is given by Lay.
Kind(op, len, rex, stub) ==
  [op |-> op, len |-> len, rex |-> rex, miss |-> 0, stub |-> stub]
Baseless(op, len, stub) == [Kind(op, len, 0, stub) EXCEPT !.miss = 4]
CleanKinds ==
  {Kind("vex", 5, 0, 3), Kind("vex", 6, 0, 4), Kind("vexskip", 5, 0, 3), Kind("movbe", 5, 0, 3),
   Kind("xstate", 4, 1, 1), Kind("smap", 3, 0, 1), Kind("plain", 1, 0, 1),
   Kind("crc32r", 5, 0, 1)}
DirtyKinds ==
  {Kind("movbe", 4, 0, 3), Kind("movbe", 6, 1, 4), Kind("movbe16", 5, 0, 3),
   Kind("crc32", 6, 1, 3), Kind("xstate", 4, 0, 1), Kind("invpcid", 5, 0, 1),
   Kind("invpcid", 6, 1, 1), Kind("plain", 6, 0, 1)}
BaselessKinds == {Baseless("vex", 10, 3), Baseless("movbe", 9, 4)}
Kinds == CleanKinds \union DirtyKinds

Place(k, at) ==
  [at |-> at, len |-> k.len, op |-> k.op, rex |-> k.rex, miss |-> k.miss, stub |-> k.stub]

\* One or two instructions laid from offset at on.
Lay(ks, at) ==
  {Place(ks[n], at + (IF n = 1 THEN 0 ELSE ks[1].len)) : n \in DOMAIN ks}
Codes(K) == UNION {[1 .. n -> K] : n \in 0 .. 2}

Layout(insns, ghosts, pad) ==
  [insns |-> insns, ghosts |-> ghosts, echoes |-> {}, pad |-> pad]
Area == 16 .. 23
Small == 16 .. 18

\* Two instructions in the first segment, at most one in the second.
TwoSegs(K1, K2) ==
  {Layout(Lay(c, 3) \union l2, {}, Area) :
     c \in Codes(K1), l2 \in {{}} \union {{Place(k, 25)} : k \in K2}}

\* No area; a run too short for one before the area; an operand of a plain
\* instruction that looks like a VEX or MOVBE instruction; a MOVBE that ends
\* where the area begins.
Odd ==
  {Layout(Lay(<<k>>, 3), {}, Small) : k \in CleanKinds} \union
  {Layout(Lay(<<k>>, 5), {}, {2, 3, 4} \union Area) : k \in CleanKinds} \union
  {Layout({Place(Kind("plain", 6, 0, 1), 4)}, {Place(Kind(op, 5, 0, 3), a)}, Area) :
     op \in {"vex", "movbe", "vexskip"}, a \in 4 .. 6} \union
  {Layout({Place(k, 16 - k.len)}, {}, Area) : k \in Kinds}

\* Operands without a base, next to another instruction and alone.
Uncounted ==
  {Layout(Lay(c, 2), {}, Area) :
     c \in UNION {{<<b, k>>, <<k, b>>} :
                    b \in BaselessKinds, k \in {Kind("movbe", 4, 0, 3), Kind("smap", 3, 0, 1)}}}
  \union {Layout({Place(b, 24)}, {}, Area) : b \in BaselessKinds}

\* A CALL at 3, and at 16 the stub of three or four bytes it calls, with
\* something behind the CALL; the CALL, the stub or both read like an
\* instruction of the second loop, whole or with bytes next to them.
EchoKinds ==
  {Kind("movbe", 4, 0, 3), Kind("movbe", 5, 1, 3), Kind("xstate", 3, 0, 1),
   Kind("smap", 3, 0, 1), Kind("invpcid", 5, 0, 1)}
Echoing ==
  {[Layout(Lay(<<v, k>>, 3), {}, Area) EXCEPT !.echoes = {Place(e, a)} \union f] :
     v \in {Kind("vex", 5, 0, 3), Kind("vex", 6, 0, 4)},
     k \in {Kind("movbe", 5, 0, 3), Kind("smap", 3, 0, 1), Kind("plain", 1, 0, 1)},
     e \in EchoKinds, a \in {1, 4, 6, 16, 18},
     f \in {{}, {Place(Kind("smap", 3, 0, 1), 17)}}}

MCImages ==
  TwoSegs(CleanKinds, CleanKinds) \union TwoSegs(Kinds, DirtyKinds) \union Odd
  \union Uncounted \union Echoing

\* Images of the violation runs: nothing but the kinds they are about.
MovbeImages ==
  TwoSegs({Kind("movbe", 5, 0, 3), Kind("movbe", 5, 1, 3), Kind("movbe", 6, 1, 3), Kind("plain", 1, 0, 1)},
          {Kind("movbe", 6, 1, 3)})
BaselessImages ==
  TwoSegs({Kind("vex", 5, 0, 3), Kind("vex", 6, 0, 3), Kind("plain", 1, 0, 1)},
          {Kind("vex", 6, 0, 3), Baseless("vex", 10, 3)})
ShortImages ==
  TwoSegs({Kind("movbe", 4, 0, 3), Kind("plain", 1, 0, 1), Kind("plain", 3, 0, 1)},
          {Kind("movbe", 4, 0, 3)})
=============================================================================
