----------------------------- MODULE SerialProbe -----------------------------
(***************************************************************************)
(* bzImage-patch/add_serial_probe.py: 24 places of the kernel's boot path  *)
(* are made to print a character on COM1.  Each is redirected to a stub in *)
(* the 0xCC area that patch_ivybridge.py left over.  Stubs and sites are   *)
(* bytes here, because the program finds room by looking at bytes, wraps   *)
(* whatever CALL it finds at a site and may be run on its own output.      *)
(*                                                                         *)
(* Addresses are relative to the kernel's link address 0xffffffff81000000. *)
(***************************************************************************)
EXTENDS ElfHeaders

CONSTANTS
  AreaSize,  \* bytes of the stub area that are searched (426 * 1024)
  Files      \* images: [setup_sects, payload_off, phdrs, bytes]

TRAMP_VADDR == \h7956b5
XSK == \h1a1a3bb
SK == \h1a1aa22
SA == \h1a21afc
CBD == \h1a1a199
EMPT == \h1a1a1e2

VARIABLES
  file,    \* the input
  segs,    \* segs, text_seg: its segments, read from the headers once
  text_seg,
  data,    \* data: its bytes, being changed; a map from file offsets
  step,    \* the probe whose turn it is
  status,  \* "running", "saved" or "failed": AssertionError, RuntimeError
  out      \* the bytes of the output file; <<>>: not written
vars == <<file, segs, text_seg, data, step, status, out>>

-----------------------------------------------------------------------------
Foff(va) == vaddr_to_foff(segs, va)
\* The area is taken to lie in the text segment.
TRAMP_FOFF == text_seg.foff + (TRAMP_VADDR - text_seg.vaddr)

\* A list of CALLs in a function, with characters counted up from the first.
Calls(function, offsets, first) ==
  [n \in DOMAIN offsets |->
     [how |-> "call", va |-> function + offsets[n], ch |-> first + n - 1]]
XSK_CALLS == Calls(XSK, <<\h0f, \h37, \h3c, \h4d, \h69, \he6, \h10d>>, \h31)
CBD_CALLS == Calls(CBD, <<\h11, \hf2, \h135, \h1ab, \h1f2, \h213, \h218>>, \h61)
EMPT_CALLS == Calls(EMPT, <<\ha9, \hec, \h162, \h1a9, \h1ca, \h1cf>>, \h68)

\* The probes in program order, the address of the first one relative to the
\* text segment: K replaces the lgdt of startup_64, X the first
\* seven bytes of x86_64_start_kernel, the others the target of a CALL.
Probes ==
  << [how |-> "lgdt", va |-> \h77, ch |-> \h4b],
     [how |-> "entry", va |-> XSK, ch |-> \h58],
     [how |-> "call", va |-> SK, ch |-> \h53],
     [how |-> "call", va |-> SA, ch |-> \h41] >>
  \o XSK_CALLS \o CBD_CALLS \o EMPT_CALLS
Count == Len(Probes)
Va(p) == IF p.how = "lgdt" THEN text_seg.vaddr + p.va ELSE p.va

\* How many bytes of a site are looked at, and written, at most.
SiteSize(p) == IF p.how = "call" THEN 5 ELSE 7

ASSUME AreaAssumption == AreaSize \in Nat /\ AreaSize <= 426 * 1024

\* Where the headers of file f place the kernel.
Base(f) == elf_base(f.setup_sects, f.payload_off)
Text(f) == find_text_segment(Base(f), f.phdrs)
Loads(f) == load_segments(Base(f), f.phdrs)

\* A kernel has code, and its segments share no byte of the file; the area lies
\* in the first executable one, behind startup_64.
ASSUME HeadersAssumption ==
  \A f \in Files :
    /\ f.setup_sects \in Nat /\ f.payload_off \in Nat
    /\ f.phdrs \in Seq(Phdr) /\ Executable(f.phdrs) # {}
    /\ \A m, n \in DOMAIN Loads(f) :
         LET s == Loads(f)[m]  t == Loads(f)[n]
         IN  m # n => s.foff + s.size <= t.foff \/ t.foff + t.size <= s.foff
    /\ Text(f).vaddr + \h77 + 7 <= TRAMP_VADDR
    /\ TRAMP_VADDR + AreaSize <= Text(f).vaddr + Text(f).size

\* The file has the bytes of the area and of each site; a site does not reach
\* over the end of its segment.
ASSUME BytesAssumption ==
  \A f \in Files :
    /\ f.bytes \in [DOMAIN f.bytes -> 0 .. 255]
    /\ LET area == Text(f).foff + (TRAMP_VADDR - Text(f).vaddr)
       IN  area .. area + AreaSize - 1 \subseteq DOMAIN f.bytes
    /\ Text(f).foff + \h77 .. Text(f).foff + \h77 + 6 \subseteq DOMAIN f.bytes
    /\ \A k \in 1 .. Count :
         LET p == Probes[k]  at == vaddr_to_foff(Loads(f), p.va)
         IN  p.how # "lgdt" /\ at # 0 =>
               /\ at .. at + SiteSize(p) - 1 \subseteq DOMAIN f.bytes
               /\ \A n \in DOMAIN Loads(f) :
                    Holds(Loads(f)[n], p.va) => Holds(Loads(f)[n], p.va + SiteSize(p) - 1)

-----------------------------------------------------------------------------
(* Bytes. *)

Byte == 0 .. 255
Weight == <<1, 256, 65536, 16777216>>
\* struct.pack of a signed number, low byte first; numbers have 32 bits.
LE(x, n) ==
  [k \in 1 .. n |-> IF k <= 4 THEN (x \div Weight[k]) % 256
                    ELSE IF x < 0 THEN 255 ELSE 0]
Signed(b) ==
  b[1] + Weight[2] * b[2] + Weight[3] * b[3]
    + Weight[4] * (IF b[4] < 128 THEN b[4] ELSE b[4] - 256)

Slice(d, at, n) == [k \in 1 .. n |-> d[at + k - 1]]
\* d with the bytes of b from at on; no slice assignment changes the length.
Splice(d, at, b) ==
  LET window == at .. at + Len(b) - 1
  IN  [o \in DOMAIN d |-> IF o \in window THEN b[o - at + 1] ELSE d[o]]

\* A CALL (E8) or JMP (E9) at va to target, and where one goes.
Jump(opcode, va, target) == <<opcode>> \o LE(target - (va + 5), 4)
Target(d, va) == va + 5 + Signed(Slice(d, Foff(va) + 1, 4))

\* push rdx; push rax; mov edx, 0x3F8; mov al, ch; out dx, al; pop rax; pop rdx
serial_write_bytes(ch) ==
  <<\h52, \h50, \hba, \hf8, \h03, \h00, \h00, \hb0, ch, \hee, \h58, \h5a>>

\* A displacement of 32 bits reaches it from anywhere in the area.
Near(va) == -\h40000000 <= va /\ va <= \h7fffffff
InArea(va) == TRAMP_VADDR <= va /\ va < TRAMP_VADDR + AreaSize

\* Files are kernels that no version of the program but the first was run on: every
\* site is in a segment, and in only one. A CALL of K at startup_64 comes with its
\* stub in the area (docstring, line 11); every other CALL of a site is in reach of
\* the area and, if it goes there, to code that is no stub of the program.
ASSUME InputAssumption ==
  \A f \in Files :
    LET foff(va) == vaddr_to_foff(Loads(f), va)
        target(va) == va + 5 + Signed(Slice(f.bytes, foff(va) + 1, 4))
        area == Text(f).foff + (TRAMP_VADDR - Text(f).vaddr)
        k == Text(f).vaddr + \h77
        at == area + (target(k) - TRAMP_VADDR)
    IN  /\ Near(Text(f).vaddr)
        /\ \A m, n \in DOMAIN Loads(f) :
             LET s == Loads(f)[m]  t == Loads(f)[n]
             IN  m # n => s.vaddr + s.size <= t.vaddr \/ t.vaddr + t.size <= s.vaddr
        /\ \A n \in 2 .. Count : foff(Probes[n].va) # 0
        /\ f.bytes[foff(XSK)] # \he9
        /\ f.bytes[foff(k)] = \he8 =>
             /\ Slice(f.bytes, foff(k) + 5, 2) = <<\h90, \h90>>
             /\ target(k) \in TRAMP_VADDR .. TRAMP_VADDR + AreaSize - 26
             /\ Slice(f.bytes, at, 12) = serial_write_bytes(f.bytes[at + 8])
             /\ Slice(f.bytes, at + 12, 2) = <<\h48, \hb8>>
             /\ Slice(f.bytes, at + 22, 4) = <<\h0f, \h01, \h10, \hc3>>
        /\ \A n \in 3 .. Count :
             LET t == target(Probes[n].va)
             IN  f.bytes[foff(Probes[n].va)] = \he8 =>
                   /\ Near(t)
                   /\ InArea(t) =>
                        \E j \in 1 .. 12 \ {9} :
                          /\ InArea(t + j - 1)
                          /\ f.bytes[area + (t - TRAMP_VADDR) + j - 1]
                               \notin {\hcc, serial_write_bytes(0)[j]}

-----------------------------------------------------------------------------
(* The program. *)

probe == Probes[step]
FoffOf(p) == IF p.how = "lgdt" THEN text_seg.foff + p.va ELSE Foff(p.va)

Has(at, bytes) == Slice(data, at, Len(bytes)) = bytes

\* startup_64 already begins with the CALL of an earlier probe.
Present(p) == p.how = "lgdt" /\ Has(FoffOf(p), <<\he8>>)

\* Mutant: the entry of x86_64_start_kernel is not looked at.
ExpectedAnyEntry(p) ==
  CASE p.how = "lgdt"  -> Has(FoffOf(p), <<\h0f, \h01, \h15>>)
    [] p.how = "entry" -> FoffOf(p) # 0
    [] OTHER           -> FoffOf(p) # 0 /\ Has(FoffOf(p), <<\he8>>)
\* The assertions on a site.
Expected(p) ==
  CASE p.how = "lgdt"  -> Has(FoffOf(p), <<\h0f, \h01, \h15>>)
    [] p.how = "entry" -> FoffOf(p) # 0 /\ Has(FoffOf(p), <<\h53>>)
    [] OTHER           -> FoffOf(p) # 0 /\ Has(FoffOf(p), <<\he8>>)

\* Mutant: too small a request for the longest stub.
RequestShort(p) == IF p.how = "entry" THEN 48 ELSE 14
\* What alloc_tramp is asked for, whatever the stub will take.
Request(p) == IF p.how = "entry" THEN 48 ELSE 32

\* size + 4 bytes of 0xCC from offset i of the area.
Free(i, size) == \A o \in TRAMP_FOFF + i .. TRAMP_FOFF + i + size + 3 : data[o] = \hcc
\* Mutant: the last offset of the search is left out.
SearchedStrict(size) == 0 .. AreaSize - size - 18
Searched(size) == 0 .. AreaSize - size - 17
\* alloc_tramp: the first such offset.  It reserves nothing.
Allocated(i, size) ==
  /\ i \in Searched(size) /\ Free(i, size)
  /\ \A back \in 1 .. i : ~Free(i - back, size)
AreaFull(size) == \A i \in Searched(size) : ~Free(i, size)

\* The address the lgdt reads; the target of the CALL as the image has it now.
Gdt(p) == Va(p) + 7 + Signed(Slice(data, FoffOf(p) + 3, 4))
\* Mutant: the target the CALL had in the input.
OldTargetOfInput(p) == Target(file.bytes, p.va)
OldTarget(p) == Target(data, p.va)

\* Behind the character: mov rax, Gdt; lgdt [rax]; ret.  The seven bytes that
\* the site gives up and a JMP to what follows them.  CALL OldTarget; ret.
Stub(p, va) ==
  serial_write_bytes(p.ch) \o
  CASE p.how = "lgdt"  -> <<\h48, \hb8>> \o LE(Gdt(p), 8) \o <<\h0f, \h01, \h10, \hc3>>
    [] p.how = "entry" -> Slice(data, FoffOf(p), 7) \o Jump(\he9, va + 19, p.va + 7)
    [] OTHER           -> Jump(\he8, va + 12, OldTarget(p)) \o <<\hc3>>

\* Mutant: the displacement is not masked to 32 bits.
RedirectUnmasked(p, va) ==
  <<\he8>> \o [k \in 1 .. 4 |-> (va - (Va(p) + 5)) \div Weight[k]]
\* What the site becomes: a CALL or JMP to the stub and NOPs to its end.
Redirect(p, va) ==
  CASE p.how = "lgdt"  -> Jump(\he8, Va(p), va) \o <<\h90, \h90>>
    [] p.how = "entry" -> Jump(\he9, p.va, va) \o <<\h90, \h90>>
    [] OTHER           -> Jump(\he8, p.va, va)

Init ==
  /\ file \in Files
  /\ segs = Loads(file)
  /\ text_seg = Text(file)
  /\ data = file.bytes
  /\ step = 1
  /\ status = "running"
  /\ out = <<>>

Turn == status = "running" /\ step <= Count

Skip ==
  /\ Turn /\ Present(probe)
  /\ step' = step + 1
  /\ UNCHANGED <<file, segs, text_seg, data, status, out>>

Insert ==
  /\ Turn /\ ~Present(probe) /\ Expected(probe)
  /\ \E i \in Searched(Request(probe)), foff \in {FoffOf(probe)} :
       /\ Allocated(i, Request(probe))
       /\ \E stub \in {Stub(probe, TRAMP_VADDR + i)} :
            data' = Splice(Splice(data, TRAMP_FOFF + i, stub),
                           foff, Redirect(probe, TRAMP_VADDR + i))
  /\ step' = step + 1
  /\ UNCHANGED <<file, segs, text_seg, status, out>>

\* An assertion fails or alloc_tramp raises: the program ends before save_gz.
Fail ==
  /\ Turn /\ ~Present(probe)
  /\ ~Expected(probe) \/ AreaFull(Request(probe))
  /\ status' = "failed"
  /\ UNCHANGED <<file, segs, text_seg, data, step, out>>

Save ==
  /\ status = "running" /\ step = Count + 1
  /\ out' = data
  /\ status' = "saved"
  /\ UNCHANGED <<file, segs, text_seg, data, step>>

\* Somebody runs the program on its own output.
Again ==
  /\ status = "saved"
  /\ data' = out
  /\ step' = 1
  /\ status' = "running"
  /\ UNCHANGED <<file, segs, text_seg, out>>

Run == Skip \/ Insert \/ Fail \/ Save
Next == Run \/ Again

Spec == Init /\ [][Next]_vars
\* A run of the program goes on to its end; nobody has to run it again.
FairSpec == Spec /\ WF_<<step, status>>(Run)

-----------------------------------------------------------------------------
(* What a CPU does at a site: the characters it prints, and then what. *)

Loaded(d, va, n) == Slice(d, Foff(va), n)
Char(d, va) == Loaded(d, va, 9)[9]
Prints(d, va) == InArea(va) /\ Loaded(d, va, 12) = serial_write_bytes(Char(d, va))
Wraps(d, va) == Prints(d, va) /\ Loaded(d, va + 12, 1) = <<\he8>> /\ Loaded(d, va + 17, 1) = <<\hc3>>

\* Through all the stubs behind a CALL.
Trace(d, va) ==
  LET from[n \in 0 .. Count] ==
        [t \in Int |->
           IF n = 0 \/ ~Wraps(d, t) THEN [log |-> <<>>, does |-> <<t>>]
           ELSE LET rest == from[n - 1][Target(d, t + 12)]
                IN  [rest EXCEPT !.log = <<Char(d, t)>> \o @]]
  IN  from[Count][Target(d, va)]

Plain(does) == [log |-> <<>>, does |-> does]
Broken == Plain(<<>>)

Entry(d, va) ==
  LET t == Target(d, va)
  IN  IF Loaded(d, va, 1) # <<\he9>> THEN Plain(Loaded(d, va, 7))
      ELSE IF Prints(d, t) /\ Loaded(d, t + 19, 1) = <<\he9>> /\ Target(d, t + 19) = va + 7
      THEN [log |-> <<Char(d, t)>>, does |-> Loaded(d, t + 12, 7)]
      ELSE Broken

LoadsGdt(d, va) ==
  LET t == Target(d, va)
  IN  CASE Loaded(d, va, 3) = <<\h0f, \h01, \h15>> -> Plain(LE(va + 7 + Signed(Loaded(d, va + 3, 4)), 8))
        [] /\ Loaded(d, va, 1) = <<\he8>> /\ Loaded(d, va + 5, 2) = <<\h90, \h90>>
           /\ Prints(d, t) /\ Loaded(d, t + 12, 2) = <<\h48, \hb8>>
           /\ Loaded(d, t + 22, 4) = <<\h0f, \h01, \h10, \hc3>>
             -> [log |-> <<Char(d, t)>>, does |-> Loaded(d, t + 14, 8)]
        [] OTHER -> Broken

At(d, p) ==
  CASE p.how = "lgdt"  -> LoadsGdt(d, Va(p))
    [] p.how = "entry" -> Entry(d, p.va)
    [] OTHER           -> IF Loaded(d, p.va, 1) = <<\he8>> THEN Trace(d, p.va) ELSE Broken

Sites == {Probes[n].va : n \in 1 .. Count}
ProbeAt == [va \in Sites |-> Probes[CHOOSE n \in 1 .. Count : Probes[n].va = va]]
Logs(d) == [va \in Sites |-> At(d, ProbeAt[va]).log]

-----------------------------------------------------------------------------
(* Properties. *)

\* Every variable keeps its type; the image keeps its bytes as bytes and its
\* length (slice assignments of another length would move what follows).
TypeOK ==
  /\ data \in [DOMAIN file.bytes -> Byte]
  /\ step \in 1 .. Count + 1
  /\ status \in {"running", "saved", "failed"}
  /\ out # <<>> => DOMAIN out = DOMAIN data

\* A byte of the area that is in use is never written again, although nothing
\* reserves it and requests are not the lengths of the stubs: the stubs of the
\* patcher and those of earlier probes stay whole (alloc_tramp, line 71).
AreaBytes == TRAMP_FOFF .. TRAMP_FOFF + AreaSize - 1
UsedBytesKept == [][\A o \in AreaBytes : data[o] # \hcc => data'[o] = data[o]]_vars

\* Executed, the image prints at every site the characters of its probes, the
\* last one first, and then does what the input did there, also where one
\* address is in two lists; there is an output only of the whole list.
Abstract == INSTANCE ProbeList WITH
  List  <- Probes,
  log   <- Logs(data),
  does  <- [va \in Sites |-> At(data, ProbeAt[va]).does],
  done  <- step - 1,
  saved <- IF out = <<>> THEN <<>> ELSE Logs(out)
ImplementsList == Abstract!Spec

\* Whatever the program is run on, its own output included, no image it makes
\* prints the same character twice at a site: a second run goes no further than
\* x86_64_start_kernel (the comment on line 92, the assertion on line 129).
OncePerSite ==
  \A va \in Sites :
    LET log == At(data, ProbeAt[va]).log
    IN  \A m, n \in DOMAIN log : log[m] = log[n] => m = n

\* From an input whose sites are as expected the program ends with an output,
\* if somewhere the area has room for 26 + 24 + 22 * 18 bytes of stubs, the
\* last one with the 4 + 32 bytes alloc_tramp wants to see and the 16 it stays
\* clear of the end: slack it asks for each time is not used up each time.
Demand == 26 + 24 + 21 * 18
Roomy ==
  \E a \in 0 .. AreaSize - Demand - 32 - 17 :
    \A o \in TRAMP_FOFF + a .. TRAMP_FOFF + a + Demand + 35 : data[o] = \hcc
Good == \A n \in 1 .. Count : Present(Probes[n]) \/ Expected(Probes[n])
SavesWhenRoomy == (step = 1 /\ Good /\ Roomy) ~> (status = "saved")
=============================================================================
