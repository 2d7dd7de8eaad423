------------------------------ MODULE Patcher ------------------------------
(***************************************************************************)
(* bzImage-patch/patch_ivybridge.py, the program between reading the input *)
(* image and writing the patched one (lines 427-773).  The image is a map  *)
(* from file offsets to cells; what an instruction computes is left to     *)
(* Trampoline, here only which bytes belong to it, which scan finds it and *)
(* what is written over it.                                                *)
(*                                                                         *)
(* Two address spaces meet here.  Bytes are read and written at file       *)
(* offsets, CALL displacements are computed from virtual addresses, and    *)
(* the two differ by another constant in every executable segment.         *)
(***************************************************************************)
EXTENDS Integers, Sequences, FiniteSets
LOCAL INSTANCE FiniteSetsExt

CONSTANTS
  Segs,      \* exec segments in program header order: [vaddr, foff, size]
  FileSize,  \* bytes in the image file
  Int3Run,   \* INT3_RUN: shortest run of 0xCC taken for the stub area
  RelHalf,   \* rel32 is a signed number in -RelHalf .. RelHalf-1 (2^31)
  Images     \* the code layouts the program may be given

-----------------------------------------------------------------------------
(* Instructions, as the scans see them. *)

Ops == {"vex",      \* a VEX BMI instruction decode() understands
        "vexskip",  \* matched, but decode() gives None or _skip (PEXT, PDEP)
        "movbe", "movbe16", "crc32",   \* [66 | F2] [REX] 0F 38 F0/F1, memory
        "crc32r",   \* CRC32 of a register: matched, decode_movbe gives None
        "xstate",   \* [REX] 0F C7 /3, /4, /5
        "smap",     \* 0F 01 CA/CB
        "invpcid",  \* 66 [REX] 0F 38 82
        "plain"}    \* anything no scan matches

\* stub is the size of the code make_trampoline or make_movbe_* returns, miss
\* the bytes of the operand that the decoders do not count: the displacement
\* of a SIB byte without a base, disp32(,%reg,s) (104-108, 593-601).
Insns == [at : Nat, len : Nat \ {0}, op : Ops, rex : {0, 1}, miss : {0, 4},
          stub : Nat \ {0}]

\* An image: its instructions, the places where the bytes of operands or data
\* happen to match a scan (ghosts), the places where bytes do that the VEX loop
\* has written, alone or with their neighbours (echoes), and the offsets that
\* hold 0xCC padding.  That loop does the same on every run of an image, so
\* the echoes are as fixed as the image is; which ones there are, the values of
\* displacements and stubs decide, and here they are any.
Layouts == [insns : SUBSET Insns, ghosts : SUBSET Insns, echoes : SUBSET Insns,
            pad : SUBSET Nat]

Offsets == 0 .. FileSize - 1
SegIds == 1 .. Len(Segs)
SegOffsets(s) == Segs[s].foff .. Segs[s].foff + Segs[s].size - 1
Extent(i) == i.at .. i.at + i.len - 1

\* The virtual address that file offset a of segment s is loaded at.
Vaddr(s, a) == Segs[s].vaddr + (a - Segs[s].foff)

ASSUME SegsAssumption ==
  /\ FileSize \in Nat /\ Int3Run \in Nat \ {0} /\ RelHalf \in Nat \ {0}
  /\ Segs \in Seq([vaddr : Nat, foff : Nat, size : Nat])
  /\ Len(Segs) >= 1
  /\ \A s \in SegIds : SegOffsets(s) \subseteq Offsets
  /\ \A s, t \in SegIds : s # t => SegOffsets(s) \intersect SegOffsets(t) = {}

\* Code lies inside the segments, no two instructions share a byte and none
\* lies in the padding.
ASSUME ImagesAssumption ==
  \A img \in Images :
    /\ img \in Layouts
    /\ img.pad \subseteq Offsets
    /\ \A i \in img.insns :
         /\ Extent(i) \intersect img.pad = {}
         /\ \E s \in SegIds : Extent(i) \subseteq SegOffsets(s)
         /\ \A j \in img.insns : i # j => Extent(i) \intersect Extent(j) = {}

\* A CALL in any segment reaches all of the first one: the kernel is linked
\* into the top two gigabytes.
ASSUME NearAssumption ==
  \A s \in SegIds : \A a \in SegOffsets(s), b \in SegOffsets(1) :
    LET d == Vaddr(1, b) - (Vaddr(s, a) + 5)  IN  -RelHalf <= d /\ d < RelHalf

-----------------------------------------------------------------------------
(* Scans and decoders. *)

\* A 66 or F2 before the bytes the MOVBE scan looks for is not looked at.
PrefixLen(i) == IF i.op \in {"movbe16", "crc32", "crc32r"} THEN 1 ELSE 0

\* Where collect_movbe matches i: at every 0F 38 F0/F1, and again one byte
\* earlier when that byte is a REX prefix.
CollectMovbe(i) ==
  LET opcode == i.at + PrefixLen(i) + i.rex
  IN  IF i.rex = 1 THEN {opcode - 1, opcode} ELSE {opcode}

\* Mutant: the CLAC/STAC scan is left out.
ScanOpsNoSmap(p) ==
  CASE p = "vex"     -> {"vex", "vexskip"}
    [] p = "movbe"   -> {"movbe", "movbe16", "crc32", "crc32r"}
    [] p = "xstate"  -> {"xstate"}
    [] p = "invpcid" -> {"invpcid"}
    [] OTHER         -> {}
\* The instructions whose bytes the regular expression or loop of p accepts.
ScanOps(p) ==
  CASE p = "vex"     -> {"vex", "vexskip"}
    [] p = "movbe"   -> {"movbe", "movbe16", "crc32", "crc32r"}
    [] p = "xstate"  -> {"xstate"}
    [] p = "smap"    -> {"smap"}
    [] p = "invpcid" -> {"invpcid"}
    [] OTHER         -> {}

\* The offsets at which scan p matches i.  66 0F 38 82 is one literal: an
\* INVPCID with a REX prefix in the middle is not found.
Matches(i, p) ==
  IF i.op \notin ScanOps(p) THEN {}
  ELSE CASE p = "movbe"   -> CollectMovbe(i)
         [] p = "invpcid" -> {a \in {i.at} : i.rex = 0}
         [] OTHER         -> {i.at + i.rex}

\* The bytes that scan p and its decoder look at for a match of i at a: the rest
\* of the instruction, or the three or five that tell it.
Looked(i, p, a) ==
  a .. (CASE p = "invpcid"         -> a + 4
          [] p \in {"xstate", "smap"} -> a + 2
          [] OTHER                 -> i.at + i.len - 1)

\* A scan looks at bytes of the instruction it finds.  A VEX instruction has no
\* REX prefix and a C4, two more bytes of prefix, an opcode and a ModRM byte,
\* with the bytes the decoder does not count still behind them; and decode
\* and the carried byte need a byte behind the instruction: no segment ends
\* with one, execution would run off its end.
ASSUME InsnsAssumption ==
  \A img \in Images : \A i \in img.insns :
    /\ \A p \in {"vex", "movbe", "xstate", "smap", "invpcid"} :
         \A a \in Matches(i, p) : a \in Looked(i, p, a) /\ Looked(i, p, a) \subseteq Extent(i)
    /\ i.op = "vex" => i.rex = 0 /\ i.len >= 5 + i.miss
    /\ i.op \notin {"xstate", "smap", "invpcid", "plain"} =>
         /\ i.len >= i.miss + 4 + PrefixLen(i) + i.rex
         /\ \E s \in SegIds : Extent(i) \union {i.at + i.len} \subseteq SegOffsets(s)

\* What decode / decode_movbe make of a match at a: the rest of the
\* instruction, or what they count of it.  len counts from the match, not from a
\* prefix before it.
Decoded(i, a) ==
  [at |-> a, len |-> i.at + i.len - i.miss - a, stub |-> i.stub,
   skip |-> i.op \in {"vexskip", "crc32r"}]

-----------------------------------------------------------------------------
VARIABLES
  image,      \* the layout of the input image
  data,       \* data: the bytearray being patched
  out,        \* what the output path holds
  pass,       \* the scan the program is in, or how it ended
  seg,        \* seg_vaddr, seg_foff_z, seg_fsz: the segment being scanned
  region,     \* region / region2: the copy of the segment the scans read
  hits,       \* the matches of the current scan still to be handled
  area,       \* tramp_foff_z and tramp_size: the stub area
  tramp_ptr,  \* file offset of the next free byte of the area
  tramp_vptr, \* its virtual address
  patches     \* history: one record for each stub written

vars == <<image, data, out, pass, seg, region, hits, area, tramp_ptr, tramp_vptr,
          patches>>

Passes == {"start", "vex", "movbe", "xstate", "smap", "invpcid", "write"}
Exits == {"done", "full", "noarea"}

\* Cells of the image: a byte of the input, byte k of the CALL that replaces
\* the match at site, a NOP byte, byte k of the stub made for that match.
Cell(what, site, k, rel) == [what |-> what, site |-> site, k |-> k, rel |-> rel]
Orig == Cell("orig", 0, 0, 0)
Nop  == Cell("nop", 0, 0, 0)
CallByte(site, k, rel) == Cell("call", site, k, rel)
StubByte(site, k) == Cell("stub", site, k, 0)

\* In the copy reg of segment s, scan p sees i at a.  An instruction or a ghost is
\* seen while the bytes looked at are those of the input; the copies of the
\* second loop are of patched segments (680), and an echo is seen where some
\* of the bytes looked at are not.
Visible(reg, s, i, p, a) ==
  /\ a \in SegOffsets(s) /\ Looked(i, p, a) \subseteq SegOffsets(s)
  /\ LET asInput == \A b \in Looked(i, p, a) : reg[b] = Orig
     IN  \/ asInput /\ i \in image.insns \union image.ghosts
         \/ ~asInput /\ p # "vex" /\ i \in image.echoes

Candidates == image.insns \union image.ghosts \union image.echoes

\* Mutant: find_text_segment's range for every segment.
ScanHitsFirstSeg(s, p, reg) ==
  UNION { {Decoded(i, a) : a \in {b \in Matches(i, p) : Visible(reg, 1, i, p, b)}} :
          i \in Candidates }
\* The matches of scan p in segment s, read from the copy reg.
ScanHits(s, p, reg) ==
  UNION { {Decoded(i, a) : a \in {b \in Matches(i, p) : Visible(reg, s, i, p, b)}} :
          i \in Candidates }

\* find_trampoline_area: the first maximal run of at least INT3_RUN bytes of
\* 0xCC in the first executable segment.
IsArea(pad, at, size) ==
  LET cc(b) == b \in pad /\ b \in SegOffsets(1)
  IN  /\ size >= Int3Run
      /\ \A b \in at .. at + size - 1 : cc(b)
      /\ ~cc(at + size)
      /\ \A b \in SegOffsets(1) :
           b < at => \E c \in b .. b + Int3Run - 1 : ~cc(c)
Areas(pad) ==
  {ar \in [at : SegOffsets(1), size : 1 .. Segs[1].size] : IsArea(pad, ar.at, ar.size)}

-----------------------------------------------------------------------------
(* The program. *)

Init ==
  /\ image \in Images
  /\ data = [a \in Offsets |-> Orig]
  /\ out = "absent"
  /\ pass = "start"
  /\ seg = 1
  /\ region = data
  /\ hits = {}
  /\ area = [at |-> 0, size |-> 0]
  /\ tramp_ptr = 0
  /\ tramp_vptr = 0
  /\ patches = {}

\* Enter scan p of segment s, reading copy reg.
Scan(s, p, reg) ==
  /\ pass' = p
  /\ seg' = s
  /\ region' = reg
  /\ hits' = ScanHits(s, p, reg)

\* copy2(IN, OUT), find the stub area, list the executable segments.
Start ==
  /\ pass = "start"
  /\ \E ar \in Areas(image.pad) :
       /\ area' = ar
       /\ tramp_ptr' = ar.at
       /\ tramp_vptr' = Vaddr(1, ar.at)
  /\ out' = "input"
  /\ Scan(1, "vex", data)
  /\ UNCHANGED <<image, data, patches>>

\* RuntimeError: cannot find the 0xCC area.  OUT is a copy of IN by then.
NoArea ==
  /\ pass = "start"
  /\ Areas(image.pad) = {}
  /\ out' = "input"
  /\ pass' = "noarea"
  /\ UNCHANGED <<image, data, seg, region, hits, area, tramp_ptr, tramp_vptr, patches>>

\* Hits are handled in address order.
NextHit(h) == h \in hits /\ \A k \in hits : h.at <= k.at

\* decode() returned None or an instruction marked _skip, decode_movbe None,
\* or a VEX instruction is too short for a CALL.
Skipped(h) == h.skip \/ (pass = "vex" /\ h.len < 5)

SkipHit(h) ==
  /\ pass \in {"vex", "movbe"} /\ NextHit(h) /\ Skipped(h)
  /\ hits' = hits \ {h}
  /\ UNCHANGED <<image, data, out, pass, seg, region, area, tramp_ptr, tramp_vptr,
                 patches>>

\* A CALL takes 5 bytes.  A 4-byte MOVBE gives up the byte after it as well,
\* which moves to the end of the stub, before the RET.
PatchLen(h) == IF h.len < 5 THEN 5 ELSE h.len
StubLen(h) == h.stub + (IF h.len < 5 THEN 1 ELSE 0)

\* Mutant: the last byte of the area is not used.
RoomStrict(h) == tramp_ptr + StubLen(h) < area.at + area.size
Room(h) == tramp_ptr + StubLen(h) <= area.at + area.size

\* (target - (site + 5)) & 0xFFFFFFFF, read back as a signed 32-bit number.
Signed32(x) ==
  IF -RelHalf <= x /\ x < RelHalf THEN x
  ELSE ((x + RelHalf) % (2 * RelHalf)) - RelHalf
\* Mutant: a displacement between file offsets.
Rel32SameMapping(h) == Signed32(tramp_ptr - (h.at + 5))
Rel32(h) == Signed32(tramp_vptr - (Vaddr(seg, h.at) + 5))

\* Mutant: the CALL without its padding.
PatchedNoPadding(h) ==
  [a \in DOMAIN data |->
     CASE a \in h.at .. h.at + 4 -> CallByte(h.at, a - h.at, Rel32(h))
       [] a \in tramp_ptr .. tramp_ptr + StubLen(h) - 1
            /\ a \notin h.at .. h.at + 4 -> StubByte(h.at, a - tramp_ptr)
       [] OTHER -> data[a]]
\* Mutant: slice assignment with the decoded length: five bytes replace four.
PatchedShortSlice(h) ==
  [a \in 0 .. FileSize - h.len + PatchLen(h) - 1 |->
     IF a \in h.at .. h.at + 4 THEN CallByte(h.at, a - h.at, Rel32(h)) ELSE Orig]
\* The image once the stub, and then the CALL with its NOP padding, is written.
Patched(h) ==
  [a \in DOMAIN data |->
     IF a \in h.at .. h.at + 4 THEN CallByte(h.at, a - h.at, Rel32(h))
     ELSE IF a \in h.at + 5 .. h.at + PatchLen(h) - 1 THEN Nop
     ELSE IF a \in tramp_ptr .. tramp_ptr + StubLen(h) - 1 THEN StubByte(h.at, a - tramp_ptr)
     ELSE data[a]]

\* Mutant: the pointers advance by the stub without its extra byte.
RedirectKeepsPtr(h) ==
  /\ pass \in {"vex", "movbe"} /\ NextHit(h) /\ ~Skipped(h) /\ Room(h)
  /\ data' = Patched(h)
  /\ patches' = patches \union
       {[site |-> h.at, len |-> h.len, seg |-> seg, stub |-> tramp_ptr,
         size |-> StubLen(h), rel |-> Rel32(h)]}
  /\ tramp_ptr' = tramp_ptr + h.stub
  /\ tramp_vptr' = tramp_vptr + h.stub
  /\ hits' = hits \ {h}
  /\ UNCHANGED <<image, out, pass, seg, region, area>>

\* Write the stub, write CALL stub over the match, advance both pointers.
Redirect(h) ==
  /\ pass \in {"vex", "movbe"} /\ NextHit(h) /\ ~Skipped(h) /\ Room(h)
  /\ data' = Patched(h)
  /\ patches' = patches \union
       {[site |-> h.at, len |-> h.len, seg |-> seg, stub |-> tramp_ptr,
         size |-> StubLen(h), rel |-> Rel32(h)]}
  /\ tramp_ptr' = tramp_ptr + StubLen(h)
  /\ tramp_vptr' = tramp_vptr + StubLen(h)
  /\ hits' = hits \ {h}
  /\ UNCHANGED <<image, out, pass, seg, region, area>>

\* sys.exit(1): the stub does not fit.  Nothing has been written to OUT.
AreaFull(h) ==
  /\ pass \in {"vex", "movbe"} /\ NextHit(h) /\ ~Skipped(h) /\ ~Room(h)
  /\ pass' = "full"
  /\ UNCHANGED <<image, data, out, seg, region, hits, area, tramp_ptr, tramp_vptr,
                 patches>>

\* In-place NOPs: 0F 1F 00 over XSAVES/XRSTORS/XSAVEC and CLAC/STAC,
\* 66 0F 1F 00 over the first four bytes of INVPCID.
\* Mutant: four bytes for every scan.
NopLenTooLong(p) == 4
NopLen(p) == IF p = "invpcid" THEN 4 ELSE 3

NopOut(h) ==
  /\ pass \in {"xstate", "smap", "invpcid"} /\ NextHit(h)
  /\ data' = [a \in DOMAIN data |->
                IF a \in h.at .. h.at + NopLen(pass) - 1 THEN Nop ELSE data[a]]
  /\ hits' = hits \ {h}
  /\ UNCHANGED <<image, out, pass, seg, region, area, tramp_ptr, tramp_vptr, patches>>

\* The VEX loop runs over all segments before the second loop starts.  In the
\* second loop one copy of the segment serves four scans.
AfterVex ==
  /\ pass = "vex"
  /\ IF seg < Len(Segs) THEN Scan(seg + 1, "vex", data) ELSE Scan(1, "movbe", data)

SameSegment ==
  \/ pass = "movbe"  /\ Scan(seg, "xstate", region)
  \/ pass = "xstate" /\ Scan(seg, "smap", region)
  \/ pass = "smap"   /\ Scan(seg, "invpcid", region)

\* Next segment, with a new copy of it; after the last one, the output.
AfterInvpcid ==
  /\ pass = "invpcid"
  /\ IF seg < Len(Segs) THEN Scan(seg + 1, "movbe", data)
     ELSE pass' = "write" /\ UNCHANGED <<seg, region, hits>>

EndScan ==
  /\ hits = {}
  /\ AfterVex \/ SameSegment \/ AfterInvpcid
  /\ UNCHANGED <<image, data, out, area, tramp_ptr, tramp_vptr, patches>>

Write ==
  /\ pass = "write"
  /\ out' = "patched"
  /\ pass' = "done"
  /\ UNCHANGED <<image, data, seg, region, hits, area, tramp_ptr, tramp_vptr, patches>>

HandleHit(h) == SkipHit(h) \/ Redirect(h) \/ AreaFull(h) \/ NopOut(h)

Next == Start \/ NoArea \/ (\E h \in hits : HandleHit(h)) \/ EndScan \/ Write

Spec == Init /\ [][Next]_vars

\* One sequential program that nothing else runs beside: it keeps going.
FairSpec == Spec /\ WF_vars(Next)

-----------------------------------------------------------------------------
(* What became of an instruction. *)

Intact(i) == \A a \in Extent(i) : data[a] = Orig

\* The record of a stub whose bytes are all still there.
StubLives(p) == \A k \in 0 .. p.size - 1 : data[p.stub + k] = StubByte(p.site, k)

\* Where the CPU goes when it runs the CALL that patch p put at p.site.
CallTarget(p) == Vaddr(p.seg, p.site) + 5 + data[p.site].rel

\* i is a CALL to its own, whole stub, and NOPs up to its last byte.
Redirected(i) ==
  \E p \in patches :
    /\ p.site = i.at
    /\ i.len >= 5
    /\ \A a \in i.at .. i.at + 4 : data[a] = CallByte(i.at, a - i.at, p.rel)
    /\ \A a \in i.at + 5 .. i.at + i.len - 1 : data[a] = Nop
    /\ StubLives(p)
    /\ CallTarget(p) = Vaddr(1, p.stub)

\* i is a NOP; a REX prefix may stay before it (48 0F 1F 00 is a NOP too).
NoppedOut(i) ==
  /\ i.len > i.rex
  /\ \A a \in i.at .. i.at + i.rex - 1 : data[a] = Orig
  /\ \A a \in i.at + i.rex .. i.at + i.len - 1 : data[a] = Nop

\* The instructions the program sets out to replace.
Wanted(i) == i.op \in {"vex", "movbe", "xstate", "smap"} \/ (i.op = "invpcid" /\ i.rex = 0)

\* The images on which the strategy of the docstring works.  A kernel may hold
\* instructions outside it; what happens then is in the violation runs.
Fits(i) ==
  /\ i.miss = 0
  /\ i.op \in {"plain", "vexskip", "crc32r", "vex", "movbe", "xstate", "smap"}
  /\ i.op \in {"vex", "movbe"} => i.rex = 0 /\ i.len >= 5
  /\ i.op \in {"xstate", "smap"} => i.len = 3 + i.rex
Clean == image.ghosts = {} /\ \A i \in image.insns : Fits(i)

\* The offsets scan p writes over for a match of i at a.
Target(i, p, a) ==
  a .. a + (IF p = "movbe" THEN PatchLen(Decoded(i, a)) ELSE NopLen(p)) - 1

\* Scans of the second loop that find something in written bytes write over
\* some of them, and over bytes next to them.
Echoed(a) ==
  \E e \in image.echoes, p \in {"movbe", "xstate", "smap", "invpcid"} :
    \E b \in Matches(e, p) : a \in Target(e, p, b)

\* That happened to i or to its stub.
Marred(i) ==
  \/ \E a \in Extent(i) : Echoed(a)
  \/ \E p \in patches : p.site = i.at /\ \E k \in 0 .. p.size - 1 : Echoed(p.stub + k)

-----------------------------------------------------------------------------
(* Properties. *)

\* Every variable keeps its type; the image keeps its length.
PatchRecords == [site : Nat, len : Int, seg : SegIds, stub : Nat, size : Nat \ {0}, rel : Int]
HitRecords == [at : Nat, len : Int, stub : Nat \ {0}, skip : BOOLEAN]
Cells == [what : {"orig", "call", "nop", "stub"}, site : Nat, k : Nat, rel : Int]
TypeOK ==
  /\ image \in Layouts
  /\ data \in [Offsets -> Cells]
  /\ out \in {"absent", "input", "patched"}
  /\ pass \in Passes \union Exits
  /\ seg \in SegIds
  /\ region \in [Offsets -> Cells]
  /\ hits \subseteq HitRecords
  /\ area \in [at : Nat, size : Nat]
  /\ tramp_ptr \in Nat
  /\ tramp_vptr \in Nat
  /\ patches \subseteq PatchRecords

\* The stubs written so far lie in the 0xCC area, below the free pointer, and
\* no two of them share a byte, in whichever pass and segment each was made
\* (the stub write, the room check and the two += at 550-561 and 716-722).
StubsApart ==
  /\ \A p \in patches : p.stub .. p.stub + p.size - 1 \subseteq image.pad
  /\ \A p, q \in patches :
       p # q => \/ p.stub + p.size <= q.stub
                \/ q.stub + q.size <= p.stub

\* A CALL left whole in the image goes to the first byte of the stub made for
\* it, as the kernel maps it: the site's segment gives one end of the
\* displacement, the first segment the other (556 and 719).
CallsLand ==
  \A p \in patches :
    (\A k \in 0 .. 4 : data[p.site + k] = CallByte(p.site, k, p.rel))
      => CallTarget(p) = Vaddr(1, p.stub)

\* In a clean image no instruction is ever half replaced: at each step it is
\* intact, a CALL to its own living stub, or a NOP (docstring, lines 8-9), also
\* when the second loop takes bytes of other CALLs and stubs for instructions
\* (680); only where it writes for such a match is nothing promised.
WholeInsns ==
  Clean => \A i \in image.insns :
             Intact(i) \/ Redirected(i) \/ NoppedOut(i) \/ Marred(i)

\* In a clean image a byte the patcher has written is never written again,
\* although three scans of the second loop read a copy of the segment taken
\* before the first of them patched it (680), except where a scan of that loop
\* finds something in what the first loop wrote.
WriteOnce ==
  [][Clean => \A a \in Offsets :
       data[a] # Orig /\ ~Echoed(a) => data'[a] = data[a]]_vars

\* The output file is patched only when no instruction that a scan looks for
\* and its decoder accepts is left intact in any segment, whatever else the
\* image holds (the order of loops at 522, 679 and 756).
AllHandled ==
  out = "patched" => \A i \in image.insns : Wanted(i) => ~Intact(i)

\* On clean images the byte-level program does what InsnRewrite promises, when
\* no displacement and no stub it writes looks like an instruction to it.
Promised == IF Clean /\ image.echoes = {} THEN image.insns ELSE {}
Abstract == INSTANCE InsnRewrite WITH
  todo      <- {i \in Promised : Wanted(i) /\ Intact(i)},
  kept      <- {i \in Promised : ~Wanted(i) /\ Intact(i)},
  replaced  <- {i \in Promised : Wanted(i) /\ (Redirected(i) \/ NoppedOut(i))},
  published <- out = "patched"
ImplementsRewrite == Abstract!Spec

\* The program ends; and on a clean image whose stubs fit in the area, those
\* made for written bytes included, it ends by writing the patched image, to the
\* last byte of the area (550, 716).
Demand ==
  MapThenSumSet(LAMBDA i : IF i.op \in {"vex", "movbe"} THEN i.stub ELSE 0, image.insns)
  + MapThenSumSet(LAMBDA e : Cardinality(Matches(e, "movbe")) * (e.stub + 1), image.echoes)
Finishes ==
  /\ <>(pass \in Exits)
  /\ (pass = "vex" /\ Clean /\ Demand <= area.size) ~> (out = "patched")

-----------------------------------------------------------------------------
(* What comments in the program say and the code does not do. *)

\* "replace each instruction with CALL rel32 into a trampoline stub" (8): an
\* instruction whose bytes were changed by the MOVBE scan is one CALL.
MovbeIsOneCall ==
  out = "patched" =>
    \A i \in image.insns : i.op = "movbe" /\ i.len >= 5 => Redirected(i)

\* "replace each instruction with CALL rel32" (8): where a VEX instruction was, is
\* a CALL and behind it no byte of the instruction.
VexIsOneCall ==
  out = "patched" => \A i \in image.insns : i.op = "vex" => Redirected(i)

\* The byte after a 4-byte MOVBE is re-executed in the stub (706): so it is an
\* instruction, not the first byte of one or part of the next patch.
CarriedByteIsInsn ==
  \A p \in patches : p.len < 5 =>
    \A i \in image.insns : p.site + 4 \in Extent(i) => i.len = 1
=============================================================================
