---------------------------- MODULE MCSerialProbe ----------------------------
(***************************************************************************)
(* Kernels for SerialProbe: the sites and targets of the real one (as the  *)
(* comments of the program list them), an area that holds stubs of the     *)
(* patcher behind a gap, and only the bytes the program looks at.          *)
(***************************************************************************)
EXTENDS SerialProbe, TLC

MCAreaSize == 560

Setup == 3
Payload == 100
Elf == elf_base(Setup, Payload)
Segment(load, exec, vaddr, offset, filesz) ==
  [load |-> load, exec |-> exec, vaddr |-> vaddr, offset |-> offset, filesz |-> filesz]
\* A note, .text, data, .init.text: every one at its own distance from its file
\* offset.
Phdrs == << Segment(FALSE, FALSE, 0, 0, 4096),
            Segment(TRUE, TRUE, 0, \h1000, \h800000),
            Segment(TRUE, FALSE, \h1800000, \h801000, \h1000),
            Segment(TRUE, TRUE, \h1a00000, \h900000, \h30000) >>
FileOf(va) == vaddr_to_foff(load_segments(Elf, Phdrs), va)
AreaAt == FileOf(TRAMP_VADDR)

Call(va, target) == [va |-> va, bytes |-> Jump(\he8, va, target)]
Group(base, offsets, targets) == {Call(base + offsets[n], targets[n]) : n \in DOMAIN offsets}
Reset == \h1a1a15a
\* The old stub in the area, to which start_kernel begins with a CALL.
Code(gap) ==
  {Call(SK, TRAMP_VADDR + gap), Call(SA, \h49890),
   [va |-> XSK, bytes |-> <<\h53, \h48, \h89, \hfb, \h0f, \h20, \he0>>]}
  \union Group(XSK, <<\h0f, \h37, \h3c, \h4d, \h69, \he6, \h10d>>,
               <<Reset, \h44e460, \h1a218ac, CBD, \h49890, \h72aeca8, \h39a27d0>>)
  \union Group(CBD, <<\h11, \hf2, \h135, \h1ab, \h1f2, \h213, \h218>>,
               <<\h756374, Reset, \h1199c7ee, -\h1ddd1ba2, EMPT, CBD, \h1a1a481>>)

\* Present: K was inserted by an earlier version, its stub is the area's first.
OldK == Jump(\he8, \h77, TRAMP_VADDR) \o <<\h90, \h90>>
OldKStub == serial_write_bytes(\h4b) \o <<\h48, \hb8>> \o LE(\h1234567, 8) \o <<\h0f, \h01, \h10, \hc3>>
Lgdt == <<\h0f, \h01, \h15>> \o LE(\h1234567 - \h7e, 4)

OldStubs(n) == [k \in 1 .. 6 * n |-> <<\h50, \hcc, \h48, \hcc, \h58, \hc3>>[((k - 1) % 6) + 1]]
Fill(n) == [k \in 1 .. n |-> \hcc]
\* gap bytes free, old stubs, room bytes free, and the area is used from there on.
AreaOf(k, gap, old, room) ==
  LET a == (IF k THEN OldKStub ELSE Fill(gap)) \o OldStubs(old) \o Fill(room)
  IN  [n \in 1 .. MCAreaSize |-> IF n <= Len(a) THEN a[n] ELSE \h90]

Put(at, b) == [o \in at .. at + Len(b) - 1 |-> b[o - at + 1]]
\* bad: the site whose first byte is not what it should be.
Image(k, gap, old, room, bad) ==
  LET used == IF k THEN Len(OldKStub) ELSE gap
      cells == {[o |-> FileOf(c.va) + n - 1, b |-> IF n = 1 /\ c.va = bad THEN \h90 ELSE c.bytes[n]] :
                  c \in Code(used), n \in 1 .. 5}
               \union {[o |-> FileOf(XSK) + n - 1, b |-> <<\h0f, \h20, \he0>>[n - 4]] : n \in 5 .. 7}
      code == [o \in {x.o : x \in cells} |-> (CHOOSE x \in cells : x.o = o).b]
      gdt == IF bad = \h77 THEN Fill(7) ELSE IF k THEN OldK ELSE Lgdt
  IN  [setup_sects |-> Setup, payload_off |-> Payload, phdrs |-> Phdrs,
       bytes |-> code @@ Put(FileOf(\h77), gdt) @@ Put(AreaAt, AreaOf(k, used, old, room))]

\* Gaps too small for any stub, one byte too small, for one and for two; room for all probes, for all
\* but the last, to the end of the area; one site wrong.
MCFiles ==
  {Image(FALSE, gap, 8, room, 0) : gap \in {20, 35, 36, 54}, room \in {463, 464, 560}} \union
  {Image(TRUE, 0, 1, room, 0) : room \in {60, 437, 438, 560}} \union
  {Image(k, 0, 1, 500, bad) : k \in BOOLEAN, bad \in {\h77, XSK, SK, XSK + \h4d, CBD + \hf2}}
=============================================================================
