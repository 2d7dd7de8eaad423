------------------------- MODULE SerialProbeProofs -------------------------
(***************************************************************************)
(* For every kernel whose segments do not overlap and every area that fits *)
(* in its text segment: SerialProbe keeps the image an image of the same   *)
(* length, and no byte of the stub area that is in use is written again.   *)
(* And if no version but the first was run on the kernel (InputAssumption):*)
(* no site prints a character twice, and SerialProbe implements ProbeList. *)
(***************************************************************************)
EXTENDS SerialProbe, SequenceTheorems, NaturalsInduction, WellFoundedInduction, TLAPS

\* The first address behind the largest area.
AreaEnd == TRAMP_VADDR + 426 * 1024

\* A probe is at startup_64 or behind the area.
ProbeRecords ==
  {p \in [how : {"lgdt", "entry", "call"}, va : Nat, ch : Byte] :
     IF p.how = "lgdt" THEN p.va = \h77 ELSE p.va >= AreaEnd}

\* The headers are read once, the image keeps its bytes, and an output that
\* was just saved is the image.
ProbeInv ==
  /\ file \in Files /\ segs = Loads(file) /\ text_seg = Text(file)
  /\ data \in [DOMAIN file.bytes -> Byte]
  /\ step \in 1 .. Count + 1
  /\ status \in {"running", "saved", "failed"}
  /\ out = <<>> \/ out \in [DOMAIN file.bytes -> Byte]
  /\ status = "saved" => out = data

-----------------------------------------------------------------------------
(* Sequences of bytes. *)

\* b is a string of n bytes.
Bytes(b, n) == b \in Seq(Byte) /\ Len(b) = n

\* A function on 1 .. n is a sequence of length n.
LEMMA FunctionSeq ==
  ASSUME NEW S, NEW n \in Nat, NEW f \in [1 .. n -> S]
  PROVE  f \in Seq(S) /\ Len(f) = n
  OBVIOUS

\* Numbers are written as bytes.
LEMMA LEBytes ==
  ASSUME NEW x \in Int, NEW n \in Nat
  PROVE  Bytes(LE(x, n), n)
<1>1. ASSUME NEW k \in 1 .. n, k <= 4 PROVE (x \div Weight[k]) % 256 \in Byte
  <2>1. k = 1 \/ k = 2 \/ k = 3 \/ k = 4
    BY <1>1
  <2>2. /\ Weight[1] = 1 /\ Weight[2] = 256 /\ Weight[3] = 65536 /\ Weight[4] = 16777216
    BY SMT DEF Weight
  <2>3. x \div Weight[k] \in Int
    BY <2>1, <2>2, SMT
  <2> QED
    BY <2>3, SMT DEF Byte
<1>2. LE(x, n) \in [1 .. n -> Byte]
  BY <1>1, SMT DEF LE, Byte
<1> QED
  BY <1>2, FunctionSeq DEF Bytes

\* And read back as numbers.
LEMMA SignedInt ==
  ASSUME NEW b, \A k \in 1 .. 4 : b[k] \in Byte
  PROVE  Signed(b) \in Int
<1>1. b[1] \in Int /\ b[2] \in Int /\ b[3] \in Int /\ b[4] \in Int
  BY SMT DEF Byte
<1>2. Weight[2] \in Int /\ Weight[3] \in Int /\ Weight[4] \in Int
  BY SMT DEF Weight
<1>3. (IF b[4] < 128 THEN b[4] ELSE b[4] - 256) \in Int
  BY <1>1
<1> QED
  BY <1>1, <1>2, <1>3, SMT DEF Signed

\* Joining strings of bytes.
LEMMA Join ==
  ASSUME NEW a, NEW b, NEW m \in Nat, NEW n \in Nat, Bytes(a, m), Bytes(b, n)
  PROVE  Bytes(a \o b, m + n)
  BY ConcatProperties DEF Bytes

\* A CALL or JMP has five bytes.
LEMMA JumpBytes ==
  ASSUME NEW opcode \in Byte, NEW va \in Int, NEW target \in Int
  PROVE  Bytes(Jump(opcode, va, target), 5)
<1>1. target - (va + 5) \in Int
  OBVIOUS
<1>2. Bytes(LE(target - (va + 5), 4), 4)
  BY <1>1, LEBytes
<1>3. Bytes(<<opcode>>, 1)
  BY DEF Bytes
<1> QED
  BY <1>2, <1>3, Join DEF Jump

\* Printing a character takes twelve bytes.
LEMMA PrintBytes ==
  ASSUME NEW ch \in Byte
  PROVE  Bytes(serial_write_bytes(ch), 12)
  BY SMT DEF serial_write_bytes, Byte, Bytes

\* Bytes of the image are bytes.
LEMMA SliceBytes ==
  ASSUME NEW D, NEW d \in [D -> Byte], NEW at \in Int, NEW n \in Nat, at .. at + n - 1 \subseteq D
  PROVE  /\ Bytes(Slice(d, at, n), n)
         /\ \A k \in 1 .. n : Slice(d, at, n)[k] \in Byte
<1>1. \A k \in 1 .. n : at + k - 1 \in at .. at + n - 1
  OBVIOUS
<1>2. Slice(d, at, n) \in [1 .. n -> Byte]
  BY <1>1 DEF Slice
<1> QED
  BY <1>2, FunctionSeq DEF Bytes

\* Writing bytes inside the image changes them, and nothing else of it.
LEMMA SpliceBytes ==
  ASSUME NEW D, NEW d \in [D -> Byte], NEW at \in Int, NEW b \in Seq(Byte),
         at .. at + Len(b) - 1 \subseteq D
  PROVE  /\ Splice(d, at, b) \in [D -> Byte]
         /\ \A o \in D : o \notin at .. at + Len(b) - 1 => Splice(d, at, b)[o] = d[o]
<1>1. \A o \in at .. at + Len(b) - 1 : b[o - at + 1] \in Byte
  <2> SUFFICES ASSUME NEW o \in at .. at + Len(b) - 1 PROVE b[o - at + 1] \in Byte
    OBVIOUS
  <2>1. Len(b) \in Nat
    OBVIOUS
  <2>2. o - at + 1 \in 1 .. Len(b)
    BY <2>1
  <2> QED
    BY <2>2, ElementOfSeq
<1>2. DOMAIN d = D
  OBVIOUS
<1> QED
  BY <1>1, <1>2 DEF Splice

-----------------------------------------------------------------------------
(* The list of probes. *)

\* A list of CALLs is a list of probes behind the area.
LEMMA CallsSeq ==
  ASSUME NEW function \in Nat, NEW n \in Nat, NEW offsets \in [1 .. n -> Nat], NEW first \in Nat,
         AreaEnd <= function, first + n <= 256
  PROVE  Calls(function, offsets, first) \in Seq(ProbeRecords)
<1>1. ASSUME NEW k \in 1 .. n
      PROVE  [how |-> "call", va |-> function + offsets[k], ch |-> first + k - 1] \in ProbeRecords
  <2>1. offsets[k] \in Nat /\ AreaEnd \in Int
    BY SMT DEF AreaEnd, TRAMP_VADDR
  <2>2. function + offsets[k] \in Nat /\ function + offsets[k] >= AreaEnd
    BY <2>1
  <2>3. first + k - 1 \in Byte
    BY SMT DEF Byte
  <2> QED
    BY <2>2, <2>3 DEF ProbeRecords
<1>2. Calls(function, offsets, first) \in [1 .. n -> ProbeRecords]
  BY <1>1 DEF Calls
<1> QED
  BY <1>2, FunctionSeq

\* So are those in x86_64_start_kernel.
LEMMA XSKSeq ==
  XSK_CALLS \in Seq(ProbeRecords)
<1> DEFINE offsets == <<\h0f, \h37, \h3c, \h4d, \h69, \he6, \h10d>>
           first == \h31
           n == 7
<1>1. offsets \in [1 .. n -> Nat] /\ n \in Nat
  BY SMT
<1>2. XSK \in Nat /\ AreaEnd <= XSK
  BY SMT DEF XSK, AreaEnd, TRAMP_VADDR
<1>3. first \in Nat /\ first + n <= 256
  BY SMT
<1>4. XSK_CALLS = Calls(XSK, offsets, first)
  BY Zenon DEF XSK_CALLS
<1> HIDE DEF offsets, first, n
<1> QED
  BY <1>1, <1>2, <1>3, <1>4, CallsSeq

\* So are those in copy_bootdata.
LEMMA CBDSeq ==
  CBD_CALLS \in Seq(ProbeRecords)
<1> DEFINE offsets == <<\h11, \hf2, \h135, \h1ab, \h1f2, \h213, \h218>>
           first == \h61
           n == 7
<1>1. offsets \in [1 .. n -> Nat] /\ n \in Nat
  BY SMT
<1>2. CBD \in Nat /\ AreaEnd <= CBD
  BY SMT DEF CBD, AreaEnd, TRAMP_VADDR
<1>3. first \in Nat /\ first + n <= 256
  BY SMT
<1>4. CBD_CALLS = Calls(CBD, offsets, first)
  BY Zenon DEF CBD_CALLS
<1> HIDE DEF offsets, first, n
<1> QED
  BY <1>1, <1>2, <1>3, <1>4, CallsSeq

\* So are those in __early_make_pgtable.
LEMMA EMPTSeq ==
  EMPT_CALLS \in Seq(ProbeRecords)
<1> DEFINE offsets == <<\ha9, \hec, \h162, \h1a9, \h1ca, \h1cf>>
           first == \h68
           n == 6
<1>1. offsets \in [1 .. n -> Nat] /\ n \in Nat
  BY SMT
<1>2. EMPT \in Nat /\ AreaEnd <= EMPT
  BY SMT DEF EMPT, AreaEnd, TRAMP_VADDR
<1>3. first \in Nat /\ first + n <= 256
  BY SMT
<1>4. EMPT_CALLS = Calls(EMPT, offsets, first)
  BY Zenon DEF EMPT_CALLS
<1> HIDE DEF offsets, first, n
<1> QED
  BY <1>1, <1>2, <1>3, <1>4, CallsSeq

\* Every probe is a character at a known kind of site.
LEMMA ProbesSeq ==
  Probes \in Seq(ProbeRecords)
<1> DEFINE first == << [how |-> "lgdt", va |-> \h77, ch |-> \h4b],
                       [how |-> "entry", va |-> XSK, ch |-> \h58],
                       [how |-> "call", va |-> SK, ch |-> \h53],
                       [how |-> "call", va |-> SA, ch |-> \h41] >>
<1>4. first \in Seq(ProbeRecords)
  <2>1. [how |-> "lgdt", va |-> \h77, ch |-> \h4b] \in ProbeRecords
    BY SMT DEF ProbeRecords, Byte
  <2>2. [how |-> "entry", va |-> XSK, ch |-> \h58] \in ProbeRecords
    BY SMT DEF ProbeRecords, Byte, XSK, AreaEnd, TRAMP_VADDR
  <2>3. [how |-> "call", va |-> SK, ch |-> \h53] \in ProbeRecords
    BY SMT DEF ProbeRecords, Byte, SK, AreaEnd, TRAMP_VADDR
  <2>4. [how |-> "call", va |-> SA, ch |-> \h41] \in ProbeRecords
    BY SMT DEF ProbeRecords, Byte, SA, AreaEnd, TRAMP_VADDR
  <2> QED
    BY <2>1, <2>2, <2>3, <2>4
<1>5. Probes = first \o XSK_CALLS \o CBD_CALLS \o EMPT_CALLS
  BY DEF Probes
<1> HIDE DEF first
<1> QED
  BY XSKSeq, CBDSeq, EMPTSeq, <1>4, <1>5, ConcatProperties

\* Counted, they are the members of the list.
LEMMA ProbeTypes ==
  /\ Count \in Nat
  /\ \A k \in 1 .. Count : Probes[k] \in ProbeRecords
  BY ProbesSeq, ElementOfSeq DEF Count

-----------------------------------------------------------------------------
(* Segments. *)

\* The relation that a set of numbers is well-founded by.
LEMMA SmallerPairs ==
  ASSUME NEW x \in Nat, NEW y \in Nat, ~(<<y, x>> \in OpToRel(<, Nat))
  PROVE  x <= y
<1>1. y < x => <<y, x>> \in OpToRel(<, Nat)
  BY DEF OpToRel
<1> QED
  BY <1>1 DEF OpToRel

\* The least number of a set is in the set.
LEMMA LeastIn ==
  ASSUME NEW S, S \subseteq Nat, S # {}
  PROVE  Min(S) \in S
<1> DEFINE R == OpToRel(<, Nat)
<1>1. PICK x \in S : \A y \in S : ~(<<y, x>> \in R)
  BY NatLessThanWellFounded, WFMin
<1>2. \A y \in S : x <= y
  BY <1>1, SmallerPairs
<1> QED
  BY <1>2 DEF Min

\* A LOAD segment.
Segment == [vaddr : Int, foff : Nat, size : Nat]

\* Headers place segments in the file.
LEMMA SegmentTypes ==
  ASSUME NEW f \in Files
  PROVE  /\ Base(f) \in Nat
         /\ DOMAIN Loads(f) \subseteq Nat
         /\ \A n \in DOMAIN Loads(f) : Loads(f)[n] \in Segment
<1>1. /\ f.setup_sects \in Nat /\ f.payload_off \in Nat /\ f.phdrs \in Seq(Phdr)
  BY HeadersAssumption DEF HeadersAssumption
<1>2. Base(f) \in Nat
  BY <1>1 DEF Base, elf_base
<1>3. \A n \in DOMAIN f.phdrs : n \in Nat /\ f.phdrs[n] \in Phdr
  BY <1>1, ElementOfSeq
<1>4. \A p \in Phdr : Placed(Base(f), p) \in Segment
  BY <1>2 DEF Placed, Phdr, Segment
<1> QED
  BY <1>2, <1>3, <1>4 DEF Loads, load_segments

\* The text segment is one of them.
LEMMA TextLoaded ==
  ASSUME NEW f \in Files
  PROVE  \E t \in DOMAIN Loads(f) : Text(f) = Loads(f)[t]
<1>1. f.phdrs \in Seq(Phdr) /\ Executable(f.phdrs) # {}
  BY HeadersAssumption DEF HeadersAssumption
<1>2. Executable(f.phdrs) \subseteq Nat
  BY <1>1, ElementOfSeq DEF Executable
<1> DEFINE t == Min(Executable(f.phdrs))
<1>3. t \in Executable(f.phdrs)
  BY <1>1, <1>2, LeastIn
<1>4. t \in DOMAIN f.phdrs /\ f.phdrs[t].load
  BY <1>3 DEF Executable
<1>5. Text(f) = Placed(Base(f), f.phdrs[t])
  BY DEF Text, find_text_segment
<1> HIDE DEF t
<1> QED
  BY <1>4, <1>5 DEF Loads, load_segments

\* An address is found in a segment that holds it, or not at all.
LEMMA FoffFound ==
  ASSUME NEW f \in Files, NEW va \in Int, vaddr_to_foff(Loads(f), va) # 0
  PROVE  \E n \in DOMAIN Loads(f) :
           /\ Holds(Loads(f)[n], va)
           /\ vaddr_to_foff(Loads(f), va) = Loads(f)[n].foff + (va - Loads(f)[n].vaddr)
<1> DEFINE hits == {n \in DOMAIN Loads(f) : Holds(Loads(f)[n], va)}
           n == Min(hits)
<1>1. hits # {} /\ vaddr_to_foff(Loads(f), va) = Loads(f)[n].foff + (va - Loads(f)[n].vaddr)
  BY DEF vaddr_to_foff
<1>2. hits \subseteq Nat
  BY SegmentTypes
<1>3. n \in hits
  BY <1>1, <1>2, LeastIn
<1> QED
  BY <1>1, <1>3

-----------------------------------------------------------------------------
(* Sites and the area. *)

\* Where a probe's site is in file f, and where the area is.
SiteOf(f, p) == IF p.how = "lgdt" THEN Text(f).foff + p.va ELSE vaddr_to_foff(Loads(f), p.va)
AreaOf(f) == Text(f).foff + (TRAMP_VADDR - Text(f).vaddr)

\* The area lies in the text segment, behind startup_64.
LEMMA AreaInText ==
  ASSUME NEW f \in Files
  PROVE  /\ Text(f) \in Segment
         /\ Text(f).vaddr + 119 + 7 <= TRAMP_VADDR
         /\ TRAMP_VADDR + AreaSize <= Text(f).vaddr + Text(f).size
         /\ TRAMP_VADDR \in Int /\ AreaSize \in Nat
         /\ AreaOf(f) .. AreaOf(f) + AreaSize - 1 \subseteq DOMAIN f.bytes
<1>1. Text(f) \in Segment
  BY TextLoaded, SegmentTypes
<1>2. /\ Text(f).vaddr + 119 + 7 <= TRAMP_VADDR
      /\ TRAMP_VADDR + AreaSize <= Text(f).vaddr + Text(f).size
  BY HeadersAssumption, SMT DEF HeadersAssumption
<1>3. TRAMP_VADDR \in Int /\ AreaSize \in Nat
  <2>1. TRAMP_VADDR \in Int
    BY SMT DEF TRAMP_VADDR
  <2>2. AreaSize \in Nat /\ AreaSize <= 426 * 1024
    BY AreaAssumption DEF AreaAssumption
  <2> QED
    BY <2>1, <2>2
<1>4. AreaOf(f) .. AreaOf(f) + AreaSize - 1 \subseteq DOMAIN f.bytes
  BY BytesAssumption DEF BytesAssumption, AreaOf
<1> QED
  BY <1>1, <1>2, <1>3, <1>4

\* The lgdt of startup_64 lies in front of the area.
LEMMA LgdtApart ==
  ASSUME NEW f \in Files
  PROVE  LET at == Text(f).foff + 119
         IN  /\ at \in Int
             /\ at .. at + 6 \subseteq DOMAIN f.bytes
             /\ \A o \in at .. at + 6 : o \notin AreaOf(f) .. AreaOf(f) + AreaSize - 1
<1>1. Text(f).foff + 119 .. Text(f).foff + 119 + 6 \subseteq DOMAIN f.bytes
  BY BytesAssumption, SMT DEF BytesAssumption
<1>2. PICK x, y \in Int : x = Text(f).foff /\ y = Text(f).vaddr
  BY AreaInText DEF Segment
<1>3. y + 119 + 7 <= TRAMP_VADDR /\ TRAMP_VADDR \in Int /\ AreaSize \in Nat
  BY <1>2, AreaInText
<1>4. AreaOf(f) = x + (TRAMP_VADDR - y)
  BY <1>2 DEF AreaOf
<1>5. \A o \in x + 119 .. x + 119 + 6 : o < x + (TRAMP_VADDR - y)
  BY <1>3
<1> QED
  BY <1>1, <1>2, <1>3, <1>4, <1>5

\* The other sites lie behind it, or in segments that share no byte with it.
LEMMA OtherApart ==
  ASSUME NEW f \in Files, NEW k \in 1 .. Count, Probes[k].how # "lgdt",
         SiteOf(f, Probes[k]) # 0
  PROVE  LET at == SiteOf(f, Probes[k])  size == SiteSize(Probes[k])
         IN  /\ at \in Int
             /\ at .. at + size - 1 \subseteq DOMAIN f.bytes
             /\ \A o \in at .. at + size - 1 : o \notin AreaOf(f) .. AreaOf(f) + AreaSize - 1
<1> DEFINE p == Probes[k]
           at == SiteOf(f, p)
           size == SiteSize(p)
<1>1. p \in ProbeRecords /\ p.how # "lgdt"
  BY ProbeTypes
<1>2. p.va \in Nat /\ p.va >= AreaEnd
  BY <1>1 DEF ProbeRecords
<1>3. at = vaddr_to_foff(Loads(f), p.va) /\ at # 0
  BY DEF SiteOf
<1>4. /\ at .. at + size - 1 \subseteq DOMAIN f.bytes
      /\ \A n \in DOMAIN Loads(f) :
           Holds(Loads(f)[n], p.va) => Holds(Loads(f)[n], p.va + size - 1)
  BY <1>1, <1>3, BytesAssumption DEF BytesAssumption
<1> HIDE DEF size
<1>5. PICK n \in DOMAIN Loads(f) :
        /\ Holds(Loads(f)[n], p.va)
        /\ at = Loads(f)[n].foff + (p.va - Loads(f)[n].vaddr)
  BY <1>2, <1>3, FoffFound
<1>6. PICK t \in DOMAIN Loads(f) : Text(f) = Loads(f)[t]
  BY TextLoaded
<1> DEFINE s == Loads(f)[n]
           text == Text(f)
<1>7. /\ s.vaddr \in Int /\ s.foff \in Nat /\ s.size \in Nat
      /\ text.vaddr \in Int /\ text.foff \in Nat /\ text.size \in Nat
  BY AreaInText, SegmentTypes DEF Segment
<1>8. n # t => s.foff + s.size <= text.foff \/ text.foff + text.size <= s.foff
  BY <1>6, HeadersAssumption DEF HeadersAssumption
<1>9. size \in Nat
  BY SMT DEF size, SiteSize
<1>10. s.vaddr <= p.va /\ p.va + size - 1 < s.vaddr + s.size
  BY <1>4, <1>5 DEF Holds
<1>11. /\ text.vaddr <= TRAMP_VADDR /\ TRAMP_VADDR + AreaSize <= text.vaddr + text.size
       /\ TRAMP_VADDR + AreaSize <= AreaEnd
       /\ TRAMP_VADDR \in Int /\ AreaSize \in Nat /\ AreaEnd \in Int
  <2>1. AreaSize \in Nat /\ AreaSize <= 426 * 1024
    BY AreaAssumption DEF AreaAssumption
  <2>2. AreaEnd = TRAMP_VADDR + 426 * 1024
    BY DEF AreaEnd
  <2> QED
    BY <1>7, <2>1, <2>2, AreaInText
<1>12. AreaOf(f) = text.foff + (TRAMP_VADDR - text.vaddr)
  BY DEF AreaOf
<1>13. at = s.foff + (p.va - s.vaddr)
  BY <1>5
<1>14. n = t => s = text
  BY <1>6
<1> HIDE DEF p, s, text, at
<1>15. at \in Int
  BY <1>2, <1>7, <1>13
<1>16. ASSUME NEW o \in at .. at + size - 1 PROVE o \notin AreaOf(f) .. AreaOf(f) + AreaSize - 1
  <2>1. CASE n = t
    BY <1>2, <1>7, <1>9, <1>11, <1>12, <1>13, <1>14, <2>1
  <2>2. CASE n # t
    BY <1>2, <1>7, <1>8, <1>9, <1>10, <1>11, <1>12, <1>13, <2>2
  <2> QED
    BY <2>1, <2>2
<1> QED
  BY <1>4, <1>15, <1>16 DEF p, at, size

-----------------------------------------------------------------------------
(* What an insertion writes, and where. *)

\* The site of a probe that is as expected: its bytes, none in the area.
SiteKnown(at, size) ==
  /\ at \in Int
  /\ at .. at + size - 1 \subseteq DOMAIN file.bytes
  /\ \A o \in at .. at + size - 1 : o \notin AreaBytes

\* The program looks at the sites and the area of its input.
LEMMA ExpectedSite ==
  ASSUME ProbeInv, step <= Count, Expected(probe)
  PROVE  /\ probe \in ProbeRecords
         /\ SiteKnown(FoffOf(probe), SiteSize(probe))
         /\ TRAMP_FOFF \in Int /\ AreaSize \in Nat
         /\ AreaBytes = TRAMP_FOFF .. TRAMP_FOFF + AreaSize - 1
         /\ AreaBytes \subseteq DOMAIN file.bytes
<1>1. step \in 1 .. Count /\ file \in Files /\ segs = Loads(file) /\ text_seg = Text(file)
  BY ProbeTypes DEF ProbeInv
<1>2. probe \in ProbeRecords /\ probe = Probes[step]
  BY <1>1, ProbeTypes DEF probe
<1>3. FoffOf(probe) = SiteOf(file, probe)
  BY <1>1 DEF FoffOf, Foff, SiteOf
<1>4. TRAMP_FOFF = AreaOf(file) /\ TRAMP_FOFF \in Int
  BY <1>1, AreaInText DEF TRAMP_FOFF, AreaOf, Segment
<1>5. AreaBytes = AreaOf(file) .. AreaOf(file) + AreaSize - 1
  BY <1>4 DEF AreaBytes
<1>6. SiteKnown(FoffOf(probe), SiteSize(probe))
  <2>1. CASE probe.how = "lgdt"
    <3>1. SiteOf(file, probe) = Text(file).foff + 119
      BY <1>2, <2>1, SMT DEF SiteOf, ProbeRecords
    <3>2. SiteSize(probe) = 7
      BY <2>1 DEF SiteSize
    <3>3. Text(file).foff + 119 \in Int
      BY <1>1, LgdtApart
    <3>4. Text(file).foff + 119 + 7 - 1 = Text(file).foff + 119 + 6
      BY <1>1, AreaInText DEF Segment
    <3> QED
      BY <1>1, <1>3, <1>5, <3>1, <3>2, <3>3, <3>4, LgdtApart DEF SiteKnown
  <2>2. CASE probe.how # "lgdt"
    <3>1. FoffOf(probe) # 0
      BY <1>2, <2>2 DEF Expected, ProbeRecords
    <3> QED
      BY <1>1, <1>2, <1>3, <1>5, <2>2, <3>1, OtherApart DEF SiteKnown
  <2> QED
    BY <2>1, <2>2
<1> QED
  BY <1>1, <1>2, <1>4, <1>5, <1>6, AreaInText

\* Bytes of the site are bytes.
LEMMA SiteSlice ==
  ASSUME ProbeInv, NEW at, NEW size \in Nat, SiteKnown(at, size),
         NEW from \in Nat, NEW n \in Nat, from + n <= size
  PROVE  /\ Bytes(Slice(data, at + from, n), n)
         /\ \A k \in 1 .. n : Slice(data, at + from, n)[k] \in Byte
<1>1. at \in Int /\ at .. at + size - 1 \subseteq DOMAIN file.bytes
  BY DEF SiteKnown
<1>2. at + from \in Int /\ at + from .. at + from + n - 1 \subseteq at .. at + size - 1
  BY <1>1
<1>3. data \in [DOMAIN file.bytes -> Byte]
  BY DEF ProbeInv
<1> QED
  BY <1>1, <1>2, <1>3, SliceBytes

\* The bytes of a stub, fewer than were asked for, whatever alloc_tramp is told.
StubSize(p) == CASE p.how = "lgdt" -> 26 [] p.how = "entry" -> 24 [] OTHER -> 18

\* A probe writes a stub of that size and exactly the bytes of its site.
Fitting(p, va) ==
  /\ Bytes(Stub(p, va), StubSize(p)) /\ Bytes(Redirect(p, va), SiteSize(p))
  /\ StubSize(p) \in 1 .. Request(p) /\ SiteSize(p) \in Nat \ {0}

\* The opcodes of the instructions written.
LEMMA OpcodeBytes ==
  /\ \he8 \in Byte /\ \he9 \in Byte
  /\ Bytes(<<\h48, \hb8>>, 2) /\ Bytes(<<\h0f, \h01, \h10, \hc3>>, 4)
  /\ Bytes(<<\h90, \h90>>, 2) /\ Bytes(<<\hc3>>, 1)
  BY SMT DEF Byte, Bytes

\* The CALL at startup_64.
LEMMA LgdtFits ==
  ASSUME ProbeInv, NEW p \in ProbeRecords, p.how = "lgdt", SiteKnown(FoffOf(p), SiteSize(p)),
         NEW va \in Int
  PROVE  Fitting(p, va)
<1>1. SiteSize(p) = 7 /\ Request(p) = 32
  BY DEF SiteSize, Request
<1>2. \A k \in 1 .. 4 : Slice(data, FoffOf(p) + 3, 4)[k] \in Byte
  BY <1>1, SiteSlice
<1>3. Va(p) \in Int
  BY AreaInText DEF Va, ProbeRecords, ProbeInv, Segment
<1>4. Gdt(p) \in Int
  BY <1>2, <1>3, SignedInt DEF Gdt
<1> DEFINE print == serial_write_bytes(p.ch)
           gdt == LE(Gdt(p), 8)
           mov == <<\h48, \hb8>>
           lgdt == <<\h0f, \h01, \h10, \hc3>>
           call == Jump(\he8, Va(p), va)
           nops == <<\h90, \h90>>
<1>5. Bytes(print, 12)
  BY PrintBytes DEF ProbeRecords
<1>6. Bytes(gdt, 8)
  BY <1>4, LEBytes
<1>7. Bytes(mov, 2) /\ Bytes(lgdt, 4) /\ Bytes(nops, 2)
  BY OpcodeBytes
<1>8. Bytes(call, 5)
  BY <1>3, OpcodeBytes, JumpBytes
<1>9. Stub(p, va) = print \o (mov \o gdt \o lgdt)
  BY Zenon DEF Stub
<1>10. Redirect(p, va) = call \o nops
  BY Zenon DEF Redirect
<1> HIDE DEF print, gdt, mov, lgdt, call, nops
<1>11. Bytes(mov \o gdt \o lgdt, 14)
  <2>1. Bytes(mov \o gdt, 10)
    BY <1>6, <1>7, Join
  <2> QED
    BY <1>7, <2>1, Join
<1>12. Bytes(Stub(p, va), 26)
  BY <1>5, <1>9, <1>11, Join
<1>13. Bytes(Redirect(p, va), 7)
  BY <1>7, <1>8, <1>10, Join
<1> QED
  BY <1>1, <1>12, <1>13 DEF Fitting, StubSize

\* The JMP at the first bytes of x86_64_start_kernel.
LEMMA EntryFits ==
  ASSUME ProbeInv, NEW p \in ProbeRecords, p.how = "entry", SiteKnown(FoffOf(p), SiteSize(p)),
         NEW va \in Int
  PROVE  Fitting(p, va)
<1>1. SiteSize(p) = 7 /\ Request(p) = 48
  BY DEF SiteSize, Request
<1>2. FoffOf(p) \in Int /\ FoffOf(p) + 0 = FoffOf(p)
  BY DEF SiteKnown
<1> DEFINE print == serial_write_bytes(p.ch)
           moved == Slice(data, FoffOf(p), 7)
           back == Jump(\he9, va + 19, p.va + 7)
           jmp == Jump(\he9, p.va, va)
           nops == <<\h90, \h90>>
<1>3. Bytes(print, 12)
  BY PrintBytes DEF ProbeRecords
<1>4. Bytes(moved, 7)
  <2>1. Bytes(Slice(data, FoffOf(p) + 0, 7), 7)
    BY <1>1, SiteSlice
  <2> QED
    BY <1>2, <2>1
<1>5. p.va \in Int /\ p.va + 7 \in Int /\ va + 19 \in Int
  BY DEF ProbeRecords
<1>6. Bytes(back, 5) /\ Bytes(jmp, 5)
  BY <1>5, OpcodeBytes, JumpBytes
<1>7. Bytes(nops, 2)
  BY OpcodeBytes
<1>8. Stub(p, va) = print \o (moved \o back)
  BY Zenon DEF Stub
<1>9. Redirect(p, va) = jmp \o nops
  BY Zenon DEF Redirect
<1> HIDE DEF print, moved, back, jmp, nops
<1>10. Bytes(moved \o back, 12)
  BY <1>4, <1>6, Join
<1>11. Bytes(Stub(p, va), 24)
  BY <1>3, <1>8, <1>10, Join
<1>12. Bytes(Redirect(p, va), 7)
  BY <1>6, <1>7, <1>9, Join
<1> QED
  BY <1>1, <1>11, <1>12 DEF Fitting, StubSize

\* The CALL in place of another one.
LEMMA CallFits ==
  ASSUME ProbeInv, NEW p \in ProbeRecords, p.how = "call", SiteKnown(FoffOf(p), SiteSize(p)),
         NEW va \in Int
  PROVE  Fitting(p, va)
<1>1. SiteSize(p) = 5 /\ Request(p) = 32
  BY DEF SiteSize, Request
<1>2. FoffOf(p) = Foff(p.va) /\ p.va \in Int
  BY DEF FoffOf, ProbeRecords
<1>3. \A k \in 1 .. 4 : Slice(data, Foff(p.va) + 1, 4)[k] \in Byte
  BY <1>1, <1>2, SiteSlice
<1>4. OldTarget(p) \in Int
  BY <1>2, <1>3, SignedInt DEF OldTarget, Target
<1> DEFINE print == serial_write_bytes(p.ch)
           call == Jump(\he8, va + 12, OldTarget(p))
           ret == <<\hc3>>
<1>5. Bytes(print, 12)
  BY PrintBytes DEF ProbeRecords
<1>6. Bytes(call, 5)
  <2>1. va + 12 \in Int
    OBVIOUS
  <2> QED
    BY <1>4, <2>1, OpcodeBytes, JumpBytes
<1>7. Bytes(ret, 1)
  BY OpcodeBytes
<1>8. Stub(p, va) = print \o (call \o ret)
  BY Zenon DEF Stub
<1>9. Redirect(p, va) = Jump(\he8, p.va, va)
  BY Zenon DEF Redirect
<1>10. Bytes(Redirect(p, va), 5)
  BY <1>2, <1>9, OpcodeBytes, JumpBytes
<1> HIDE DEF print, call, ret
<1>11. Bytes(call \o ret, 6)
  BY <1>6, <1>7, Join
<1>12. Bytes(Stub(p, va), 18)
  BY <1>5, <1>8, <1>11, Join
<1> QED
  BY <1>1, <1>10, <1>12 DEF Fitting, StubSize

\* d has the bytes of b from at on.
Wrote(d, at, b) == \A k \in 1 .. Len(b) : d[at + k - 1] = b[k]

\* They are there once they were written.
LEMMA SpliceWrote ==
  ASSUME NEW D, NEW d \in [D -> Byte], NEW at \in Int, NEW n \in Nat, NEW b, Bytes(b, n),
         at .. at + n - 1 \subseteq D
  PROVE  Wrote(Splice(d, at, b), at, b)
<1>1. Len(b) = n /\ DOMAIN d = D
  BY DEF Bytes
<1> SUFFICES ASSUME NEW k \in 1 .. n PROVE Splice(d, at, b)[at + k - 1] = b[k]
  BY <1>1 DEF Wrote
<1>2. at + k - 1 \in at .. at + n - 1 /\ (at + k - 1) - at + 1 = k
  OBVIOUS
<1>3. at + k - 1 \in D
  BY <1>2
<1> QED
  BY <1>1, <1>2, <1>3 DEF Splice

\* What an insertion of p at offset i of the area makes of the image: e has the
\* stub in free bytes, the redirection at the site, and else what data has.
Effect(e, p, i) ==
  /\ e \in [DOMAIN file.bytes -> Byte]
  /\ i \in Nat /\ i + Request(p) + 4 <= AreaSize
  /\ \A o \in TRAMP_FOFF + i .. TRAMP_FOFF + i + Request(p) + 3 : data[o] = \hcc
  /\ Wrote(e, TRAMP_FOFF + i, Stub(p, TRAMP_VADDR + i))
  /\ Wrote(e, FoffOf(p), Redirect(p, TRAMP_VADDR + i))
  /\ \A o \in DOMAIN file.bytes :
       /\ o \notin TRAMP_FOFF + i .. TRAMP_FOFF + i + StubSize(p) - 1
       /\ o \notin FoffOf(p) .. FoffOf(p) + SiteSize(p) - 1
       => e[o] = data[o]

\* add_serial_probe.py makes no other changes.
LEMMA InsertEffect ==
  ASSUME ProbeInv, Insert
  PROVE  \E i \in Nat : Effect(data', probe, i) /\ Fitting(probe, TRAMP_VADDR + i)
<1>1. step <= Count /\ Expected(probe)
  BY DEF Insert, Turn
<1> DEFINE p == probe
           foff == FoffOf(p)
<1>2. PICK i \in Searched(Request(p)) :
        /\ Free(i, Request(p))
        /\ data' = Splice(Splice(data, TRAMP_FOFF + i, Stub(p, TRAMP_VADDR + i)),
                          foff, Redirect(p, TRAMP_VADDR + i))
  BY DEF Insert, Allocated
<1> DEFINE va == TRAMP_VADDR + i
           at == TRAMP_FOFF + i
           request == Request(p)
<1>3. /\ p \in ProbeRecords /\ SiteKnown(foff, SiteSize(p))
      /\ TRAMP_FOFF \in Int /\ AreaSize \in Nat
      /\ AreaBytes = TRAMP_FOFF .. TRAMP_FOFF + AreaSize - 1
      /\ AreaBytes \subseteq DOMAIN file.bytes
  BY <1>1, ExpectedSite
<1>4. request \in Nat
  BY DEF Request
<1>5. i \in Nat /\ i + request + 17 <= AreaSize
  BY <1>3, <1>4 DEF Searched
<1>6. va \in Int /\ at \in Int
  <2>1. TRAMP_VADDR \in Int
    BY SMT DEF TRAMP_VADDR
  <2> QED
    BY <1>3, <1>5, <2>1
<1>7. Fitting(p, va)
  BY <1>3, <1>6, LgdtFits, EntryFits, CallFits DEF ProbeRecords
<1>8. \A o \in at .. at + request + 3 : data[o] = \hcc
  BY <1>2 DEF Free
<1>9. data \in [DOMAIN file.bytes -> Byte]
  BY DEF ProbeInv
<1> DEFINE stub == Stub(p, va)
           redirect == Redirect(p, va)
           half == Splice(data, at, stub)
           n == StubSize(p)
           m == SiteSize(p)
<1>10. Bytes(stub, n) /\ Bytes(redirect, m) /\ n \in 1 .. request /\ m \in Nat \ {0}
  BY <1>7 DEF Fitting
<1>11. data' = Splice(half, foff, redirect)
  BY <1>2
<1> HIDE DEF p, foff, va, at, request, stub, redirect, n, m
<1>12. at .. at + n - 1 \subseteq AreaBytes
  BY <1>3, <1>4, <1>5, <1>6, <1>10 DEF at
<1>13. at .. at + n - 1 \subseteq DOMAIN file.bytes
  BY <1>3, <1>12
<1>14. stub \in Seq(Byte) /\ Len(stub) = n /\ redirect \in Seq(Byte) /\ Len(redirect) = m
  BY <1>10 DEF Bytes
<1>15. /\ half \in [DOMAIN file.bytes -> Byte]
       /\ \A o \in DOMAIN file.bytes : o \notin at .. at + n - 1 => half[o] = data[o]
  BY <1>6, <1>9, <1>13, <1>14, SpliceBytes
<1>16. Wrote(half, at, stub)
  BY <1>6, <1>9, <1>10, <1>13, SpliceWrote
<1> HIDE DEF half
<1>17. /\ foff \in Int
       /\ foff .. foff + m - 1 \subseteq DOMAIN file.bytes
       /\ \A o \in foff .. foff + m - 1 : o \notin AreaBytes
  BY <1>3 DEF SiteKnown, m
<1>18. /\ data' \in [DOMAIN file.bytes -> Byte]
       /\ \A o \in DOMAIN file.bytes : o \notin foff .. foff + m - 1 => data'[o] = half[o]
  <2>1. foff .. foff + Len(redirect) - 1 = foff .. foff + m - 1
    BY <1>14
  <2>2. foff .. foff + Len(redirect) - 1 \subseteq DOMAIN file.bytes
    BY <1>17, <2>1
  <2>3. /\ data' \in [DOMAIN file.bytes -> Byte]
        /\ \A o \in DOMAIN file.bytes : o \notin foff .. foff + Len(redirect) - 1 => data'[o] = half[o]
    <3>1. /\ Splice(half, foff, redirect) \in [DOMAIN file.bytes -> Byte]
          /\ \A o \in DOMAIN file.bytes :
               o \notin foff .. foff + Len(redirect) - 1 => Splice(half, foff, redirect)[o] = half[o]
      <4>1. half \in [DOMAIN file.bytes -> Byte] /\ foff \in Int /\ redirect \in Seq(Byte)
        BY <1>14, <1>15, <1>17
      <4> QED
        BY <2>2, <4>1, SpliceBytes
    <3> QED
      BY <1>11, <3>1
  <2> QED
    BY <2>1, <2>3, Zenon
<1>19. Wrote(data', foff, redirect)
  BY <1>10, <1>11, <1>15, <1>17, SpliceWrote
<1>20. Wrote(data', at, stub)
  <2> SUFFICES ASSUME NEW k \in 1 .. n PROVE data'[at + k - 1] = stub[k]
    BY <1>14 DEF Wrote
  <2>1. at + k - 1 \in at .. at + n - 1
    BY <1>6, <1>10
  <2>2. at + k - 1 \in DOMAIN file.bytes /\ at + k - 1 \notin foff .. foff + m - 1
    BY <1>12, <1>13, <1>17, <2>1
  <2>3. half[at + k - 1] = stub[k]
    BY <1>14, <1>16 DEF Wrote
  <2> QED
    BY <1>18, <2>2, <2>3
<1>21. \A o \in DOMAIN file.bytes :
         o \notin at .. at + n - 1 /\ o \notin foff .. foff + m - 1 => data'[o] = data[o]
  BY <1>15, <1>18
<1>22. i + request + 4 <= AreaSize
  BY <1>3, <1>4, <1>5
<1>23. Effect(data', p, i)
  BY <1>5, <1>8, <1>18, <1>19, <1>20, <1>21, <1>22
  DEF Effect, foff, va, at, request, stub, redirect, n, m
<1> QED
  BY <1>5, <1>7, <1>23 DEF p, va

\* An insertion writes bytes in the file, and in the area only free ones.
InsertKeeps ==
  /\ data' \in [DOMAIN file.bytes -> Byte]
  /\ \A o \in AreaBytes : data[o] # \hcc => data'[o] = data[o]

\* So does the program.
LEMMA InsertWrites ==
  ASSUME ProbeInv, Insert
  PROVE  InsertKeeps
<1>1. step <= Count /\ Expected(probe)
  BY DEF Insert, Turn
<1>2. PICK i \in Nat : Effect(data', probe, i) /\ Fitting(probe, TRAMP_VADDR + i)
  BY InsertEffect
<1> DEFINE at == TRAMP_FOFF + i
           foff == FoffOf(probe)
           m == SiteSize(probe)
           n == StubSize(probe)
           request == Request(probe)
<1>3. /\ SiteKnown(foff, m) /\ TRAMP_FOFF \in Int /\ AreaBytes \subseteq DOMAIN file.bytes
      /\ request \in Nat /\ n \in 1 .. request
  BY <1>1, <1>2, ExpectedSite DEF Fitting, Request
<1>4. /\ data' \in [DOMAIN file.bytes -> Byte]
      /\ \A o \in at .. at + request + 3 : data[o] = \hcc
      /\ \A o \in DOMAIN file.bytes :
           o \notin at .. at + n - 1 /\ o \notin foff .. foff + m - 1 => data'[o] = data[o]
  BY <1>2 DEF Effect
<1> HIDE DEF foff, m, n, request
<1>5. ASSUME NEW o \in AreaBytes, data[o] # \hcc PROVE data'[o] = data[o]
  <2>1. o \in DOMAIN file.bytes /\ o \notin foff .. foff + m - 1
    BY <1>3 DEF SiteKnown
  <2>2. o \notin at .. at + n - 1
    BY <1>3, <1>4, <1>5
  <2> QED
    BY <1>4, <2>1, <2>2
<1> QED
  BY <1>4, <1>5 DEF InsertKeeps

-----------------------------------------------------------------------------
(* The invariant. *)

\* It holds of every kernel.
LEMMA ProbeInitInv ==
  Init => ProbeInv
<1> SUFFICES ASSUME Init PROVE ProbeInv
  OBVIOUS
<1>1. file \in Files /\ segs = Loads(file) /\ text_seg = Text(file)
  BY DEF Init
<1>2. file.bytes \in [DOMAIN file.bytes -> Byte]
  BY <1>1, BytesAssumption DEF BytesAssumption, Byte
<1> QED
  BY <1>1, <1>2, ProbeTypes DEF Init, ProbeInv

\* Every step of the program keeps it, and so does another run.
LEMMA ProbeNextInv ==
  ProbeInv /\ [Next]_vars => ProbeInv'
<1> SUFFICES ASSUME ProbeInv, [Next]_vars PROVE ProbeInv'
  OBVIOUS
<1>1. Count \in Nat
  BY ProbeTypes
<1>2. CASE Skip
  BY <1>1, <1>2 DEF Skip, Turn, ProbeInv
<1>3. CASE Insert
  <2>1. data' \in [DOMAIN file.bytes -> Byte]
    BY <1>3, InsertWrites DEF InsertKeeps
  <2> QED
    BY <1>1, <1>3, <2>1 DEF Insert, Turn, ProbeInv
<1>4. CASE Fail
  BY <1>4 DEF Fail, Turn, ProbeInv
<1>5. CASE Save
  BY <1>5 DEF Save, ProbeInv
<1>6. CASE Again
  BY <1>1, <1>6 DEF Again, ProbeInv
<1>7. CASE UNCHANGED vars
  BY <1>7 DEF vars, ProbeInv
<1> QED
  BY <1>2, <1>3, <1>4, <1>5, <1>6, <1>7 DEF Next, Run

\* For every kernel and area: the image stays an image of the input's length
\* whose headers are those read at the start, and a saved output is the image.
THEOREM ProbeInvariance ==
  Spec => []ProbeInv
  BY ProbeInitInv, ProbeNextInv, PTL DEF Spec

\* The image keeps its bytes as bytes and its length, and so does the output.
THEOREM ImageTyped ==
  Spec => []TypeOK
<1>1. ProbeInv => TypeOK
  BY DEF ProbeInv, TypeOK
<1> QED
  BY <1>1, ProbeInvariance, PTL

\* No step changes a byte of the area that is in use: alloc_tramp returns free
\* bytes, no stub is longer than what was asked for, and no site is in the area.
THEOREM UsedBytesStay ==
  Spec => UsedBytesKept
<1> DEFINE Kept == \A o \in AreaBytes : data[o] # \hcc => data'[o] = data[o]
<1>1. ProbeInv /\ [Next]_vars => [Kept]_vars
  <2> SUFFICES ASSUME ProbeInv, Next PROVE Kept
    BY DEF vars
  <2>1. CASE Insert
    BY <2>1, InsertWrites DEF InsertKeeps
  <2>2. CASE Skip \/ Fail \/ Save
    BY <2>2 DEF Skip, Fail, Save
  <2>3. CASE Again
    BY <2>3 DEF Again, ProbeInv
  <2> QED
    BY <2>1, <2>2, <2>3 DEF Next, Run
<1> QED
  BY <1>1, ProbeInvariance, PTL DEF Spec, UsedBytesKept

-----------------------------------------------------------------------------
(* Counting up, and numbers in bytes. *)

\* A set that has 0 and with each number the next one has all up to k.
LEMMA UpTo ==
  ASSUME NEW k \in Nat, NEW S, 0 \in S, \A n \in 0 .. k - 1 : n \in S => n + 1 \in S
  PROVE  \A n \in 0 .. k : n \in S
<1> DEFINE R == OpToRel(<, Nat)
           T == {n \in 0 .. k : n \notin S}
<1> SUFFICES ASSUME T # {} PROVE FALSE
  OBVIOUS
<1>1. T \subseteq Nat
  OBVIOUS
<1>2. PICK x \in T : \A y \in T : ~(<<y, x>> \in R)
  BY <1>1, NatLessThanWellFounded, WFMin
<1>3. \A y \in T : x <= y
  BY <1>1, <1>2, SmallerPairs
<1>4. x \in 0 .. k /\ x \notin S /\ x # 0
  OBVIOUS
<1>5. x - 1 \in 0 .. k - 1 /\ x - 1 \in S
  BY <1>3, <1>4
<1> QED
  BY <1>4, <1>5

\* x fits in a signed number of 32 bits.
Rel32(x) == -2147483648 <= x /\ x <= 2147483647

\* A displacement of 32 bits is read back as it was written.
LEMMA SignedLE ==
  ASSUME NEW x \in Int, Rel32(x)
  PROVE  Signed(LE(x, 4)) = x
<1> DEFINE a == x \div 256
           b == a \div 256
           c == b \div 256
<1>1. /\ a \in Int /\ b \in Int /\ c \in Int
      /\ x = 256 * a + (x % 256) /\ a = 256 * b + (a % 256) /\ b = 256 * c + (b % 256)
  OBVIOUS
<1>2. -128 <= c /\ c <= 127
  BY <1>1, SMT DEF Rel32
<1>3. x \div 1 = x /\ x \div 65536 = b /\ x \div 16777216 = c
  BY <1>1
<1>4. /\ Weight[1] = 1 /\ Weight[2] = 256 /\ Weight[3] = 65536 /\ Weight[4] = 16777216
  BY SMT DEF Weight
<1> DEFINE l == LE(x, 4)
<1>5. l[1] = x % 256 /\ l[2] = a % 256 /\ l[3] = b % 256 /\ l[4] = c % 256
  BY <1>3, <1>4 DEF LE
<1>6. (IF l[4] < 128 THEN l[4] ELSE l[4] - 256) = c
  BY <1>1, <1>2, <1>5
<1>7. Signed(l) = l[1] + 256 * l[2] + 65536 * l[3] + 16777216 * c
  BY <1>4, <1>6 DEF Signed
<1> HIDE DEF a, b, c
<1>8. x = (x % 256) + 256 * (a % 256) + 65536 * (b % 256) + 16777216 * c
  BY <1>1
<1> HIDE DEF l
<1>9. Signed(l) = x
  BY <1>5, <1>7, <1>8
<1> QED
  BY <1>9 DEF l

\* What Trace finds at t, looking at n stubs at most.
TraceStep(d, from, n, t) ==
  IF n = 0 \/ ~Wraps(d, t) THEN [log |-> <<>>, does |-> <<t>>]
  ELSE LET rest == from[n - 1][Target(d, t + 12)]
       IN  [rest EXCEPT !.log = <<Char(d, t)>> \o @]

\* Trace goes from stub to stub.
LEMMA TraceSteps ==
  ASSUME NEW d
  PROVE  \E from : /\ \A n \in 0 .. Count : from[n] = [t \in Int |-> TraceStep(d, from, n, t)]
                   /\ \A va : Trace(d, va) = from[Count][Target(d, va)]
<1> DEFINE Row(f, n) == [t \in Int |-> TraceStep(d, f, n, t)]
           Runs(m) == \E f : f = [n \in 0 .. m |-> Row(f, n)]
           S == {m \in 0 .. Count : Runs(m)}
<1>1. Count \in Nat
  BY ProbeTypes
<1>2. Runs(0)
  <2> DEFINE f == [n \in 0 .. 0 |-> [t \in Int |-> [log |-> <<>>, does |-> <<t>>]]]
  <2>1. f = [n \in 0 .. 0 |-> Row(f, n)]
    BY DEF TraceStep
  <2> QED
    BY <2>1
<1>3. ASSUME NEW m \in 0 .. Count - 1, Runs(m) PROVE Runs(m + 1)
  <2>1. PICK f : f = [n \in 0 .. m |-> Row(f, n)]
    BY <1>3
  <2> DEFINE g == [n \in 0 .. m + 1 |-> IF n = m + 1 THEN Row(f, n) ELSE f[n]]
  <2>2. m \in Nat
    BY <1>1
  <2>3. ASSUME NEW n \in 0 .. m + 1 PROVE g[n] = Row(g, n)
    <3>1. n # 0 => n - 1 \in 0 .. m
      BY <2>2
    <3>2. n # 0 => g[n - 1] = f[n - 1]
      BY <2>2, <3>1
    <3> HIDE DEF g
    <3>3. \A t \in Int : TraceStep(d, g, n, t) = TraceStep(d, f, n, t)
      BY <3>2, Zenon DEF TraceStep
    <3>4. Row(g, n) = Row(f, n)
      BY <3>3, Zenon
    <3>5. n # m + 1 => n \in 0 .. m
      BY <2>2
    <3>6. n # m + 1 => f[n] = Row(f, n)
      BY <2>1, <3>5, Zenon
    <3> USE DEF g
    <3> HIDE DEF Row
    <3>7. g[n] = IF n = m + 1 THEN Row(f, n) ELSE f[n]
      OBVIOUS
    <3> QED
      BY <3>4, <3>6, <3>7
  <2>4. g = [n \in 0 .. m + 1 |-> Row(g, n)]
    BY <2>3, Zenon
  <2> QED
    BY <2>4
<1> HIDE DEF Runs
<1>4. Count \in S
  <2>1. 0 \in S /\ \A n \in 0 .. Count - 1 : n \in S => n + 1 \in S
    BY <1>1, <1>2, <1>3
  <2> HIDE DEF S
  <2>2. \A n \in 0 .. Count : n \in S
    BY <1>1, <2>1, UpTo
  <2> QED
    BY <1>1, <2>2
<1>5. Runs(Count)
  BY <1>4
<1> DEFINE h == CHOOSE f : f = [n \in 0 .. Count |-> Row(f, n)]
<1>6. h = [n \in 0 .. Count |-> Row(h, n)]
  BY <1>5, Zenon DEF Runs
<1>7. \A va : Trace(d, va) = h[Count][Target(d, va)]
  BY Zenon DEF Trace, TraceStep
<1>8. \A n \in 0 .. Count : h[n] = Row(h, n)
  BY <1>6, Zenon
<1> QED
  BY <1>7, <1>8, Zenon

-----------------------------------------------------------------------------
(* Places in the image that are read or written together. *)

\* Where it has the byte of an address.
Place(f, va) == vaddr_to_foff(Loads(f), va)

\* size bytes from va on lie in one segment, and are in the file.
Region(f, va, size) ==
  /\ va \in Int /\ size \in Nat \ {0}
  /\ \E n \in DOMAIN Loads(f) : Holds(Loads(f)[n], va) /\ Holds(Loads(f)[n], va + size - 1)
  /\ Place(f, va) .. Place(f, va) + size - 1 \subseteq DOMAIN f.bytes

\* As segments share no address, the one that holds va says where va is.
LEMMA PlaceIn ==
  ASSUME NEW f \in Files, NEW n \in DOMAIN Loads(f), NEW va \in Int, Holds(Loads(f)[n], va)
  PROVE  /\ Loads(f)[n] \in Segment
         /\ Place(f, va) = Loads(f)[n].foff + (va - Loads(f)[n].vaddr)
         /\ Place(f, va) \in Int
<1> DEFINE hits == {m \in DOMAIN Loads(f) : Holds(Loads(f)[m], va)}
<1>1. hits \subseteq Nat /\ n \in hits
  BY SegmentTypes
<1>2. \A m \in DOMAIN Loads(f) : Loads(f)[m] \in Segment
  BY SegmentTypes
<1>3. ASSUME NEW m \in hits PROVE m = n
  <2> SUFFICES ASSUME m # n PROVE FALSE
    OBVIOUS
  <2> DEFINE s == Loads(f)[m]
             t == Loads(f)[n]
  <2>1. s.vaddr + s.size <= t.vaddr \/ t.vaddr + t.size <= s.vaddr
    BY InputAssumption DEF InputAssumption
  <2>2. s.vaddr <= va /\ va < s.vaddr + s.size /\ t.vaddr <= va /\ va < t.vaddr + t.size
    BY DEF Holds
  <2>3. s \in Segment /\ t \in Segment
    BY <1>2
  <2> HIDE DEF s, t
  <2> QED
    BY <2>1, <2>2, <2>3 DEF Segment
<1>4. Min(hits) = n
  BY <1>1, <1>3, LeastIn
<1>5. Place(f, va) = Loads(f)[n].foff + (va - Loads(f)[n].vaddr)
  BY <1>1, <1>4 DEF Place, vaddr_to_foff
<1> QED
  BY <1>2, <1>5 DEF Segment

\* Bytes of a region have consecutive places.
LEMMA RegionPlaces ==
  ASSUME NEW f \in Files, NEW va, NEW size, Region(f, va, size), NEW j \in 0 .. size - 1
  PROVE  /\ Place(f, va) \in Int
         /\ Place(f, va + j) = Place(f, va) + j
         /\ Place(f, va) + j \in DOMAIN f.bytes
<1>1. va \in Int /\ size \in Nat
  BY DEF Region
<1>2. PICK n \in DOMAIN Loads(f) : Holds(Loads(f)[n], va) /\ Holds(Loads(f)[n], va + size - 1)
  BY DEF Region
<1>3. /\ Loads(f)[n] \in Segment
      /\ Place(f, va) = Loads(f)[n].foff + (va - Loads(f)[n].vaddr)
      /\ Place(f, va) \in Int
  BY <1>1, <1>2, PlaceIn
<1>4. Holds(Loads(f)[n], va + j) /\ va + j \in Int
  BY <1>1, <1>2, <1>3 DEF Holds, Segment
<1>5. Place(f, va + j) = Loads(f)[n].foff + ((va + j) - Loads(f)[n].vaddr)
  BY <1>4, PlaceIn
<1>6. Place(f, va + j) = Place(f, va) + j
  BY <1>1, <1>3, <1>5 DEF Segment
<1>7. Place(f, va) + j \in Place(f, va) .. Place(f, va) + size - 1
  BY <1>1, <1>3
<1> QED
  BY <1>3, <1>6, <1>7 DEF Region

\* So is part of a region.
LEMMA RegionPart ==
  ASSUME NEW f \in Files, NEW a, NEW size, Region(f, a, size),
         NEW b \in Int, NEW n \in Nat \ {0}, a <= b, b + n <= a + size
  PROVE  Region(f, b, n) /\ Place(f, b) = Place(f, a) + (b - a)
<1> DEFINE j == b - a
<1>1. a \in Int /\ size \in Nat /\ j \in 0 .. size - 1 /\ a + j = b
  BY DEF Region
<1>2. PICK s \in DOMAIN Loads(f) : Holds(Loads(f)[s], a) /\ Holds(Loads(f)[s], a + size - 1)
  BY DEF Region
<1>3. Loads(f)[s] \in Segment
  BY SegmentTypes
<1>4. Holds(Loads(f)[s], b) /\ Holds(Loads(f)[s], b + n - 1)
  BY <1>1, <1>2, <1>3 DEF Holds, Segment
<1> HIDE DEF j
<1>5. Place(f, a + j) = Place(f, a) + j /\ Place(f, a) \in Int
  BY <1>1, RegionPlaces
<1>6. Place(f, a) .. Place(f, a) + size - 1 \subseteq DOMAIN f.bytes
  BY DEF Region
<1>7. Place(f, b) = Place(f, a) + j
  BY <1>1, <1>5
<1>8. Place(f, b) .. Place(f, b) + n - 1 \subseteq DOMAIN f.bytes
  <2>1. j + n <= size
    BY <1>1 DEF j
  <2> QED
    BY <1>1, <1>5, <1>6, <1>7, <2>1
<1> QED
  BY <1>4, <1>7, <1>8 DEF Region, j

\* Regions of different addresses are in different places.
LEMMA RegionsApart ==
  ASSUME NEW f \in Files, NEW a, NEW m, NEW b, NEW n, Region(f, a, m), Region(f, b, n),
         a + m <= b \/ b + n <= a,
         NEW i \in 0 .. m - 1, NEW j \in 0 .. n - 1
  PROVE  Place(f, a) + i # Place(f, b) + j
<1>1. a \in Int /\ m \in Nat /\ b \in Int /\ n \in Nat
  BY DEF Region
<1>2. PICK s \in DOMAIN Loads(f) : Holds(Loads(f)[s], a) /\ Holds(Loads(f)[s], a + m - 1)
  BY DEF Region
<1>3. PICK t \in DOMAIN Loads(f) : Holds(Loads(f)[t], b) /\ Holds(Loads(f)[t], b + n - 1)
  BY DEF Region
<1>4. /\ Loads(f)[s] \in Segment /\ Loads(f)[t] \in Segment
      /\ Place(f, a) = Loads(f)[s].foff + (a - Loads(f)[s].vaddr)
      /\ Place(f, b) = Loads(f)[t].foff + (b - Loads(f)[t].vaddr)
  BY <1>1, <1>2, <1>3, PlaceIn
<1> DEFINE x == Loads(f)[s]
           y == Loads(f)[t]
<1>5. s # t => x.foff + x.size <= y.foff \/ y.foff + y.size <= x.foff
  BY HeadersAssumption DEF HeadersAssumption
<1>6. /\ x.vaddr <= a /\ a + m - 1 < x.vaddr + x.size
      /\ y.vaddr <= b /\ b + n - 1 < y.vaddr + y.size
  BY <1>2, <1>3 DEF Holds
<1>7. /\ x.vaddr \in Int /\ x.foff \in Int /\ x.size \in Int
      /\ y.vaddr \in Int /\ y.foff \in Int /\ y.size \in Int
  BY <1>4 DEF Segment
<1>8. s = t => x = y
  OBVIOUS
<1>9. Place(f, a) = x.foff + (a - x.vaddr) /\ Place(f, b) = y.foff + (b - y.vaddr)
  BY <1>4
<1> HIDE DEF x, y
<1>10. CASE s = t
  BY <1>1, <1>6, <1>7, <1>8, <1>9, <1>10
<1>11. CASE s # t
  BY <1>1, <1>5, <1>6, <1>7, <1>9, <1>11
<1> QED
  BY <1>10, <1>11

\* Bytes of the area are a region, from any address and as long as they last.
LEMMA AreaRegion ==
  ASSUME NEW f \in Files, NEW va \in Int, NEW n \in Nat \ {0},
         TRAMP_VADDR <= va, va + n <= TRAMP_VADDR + AreaSize
  PROVE  Region(f, va, n) /\ Place(f, va) = AreaOf(f) + (va - TRAMP_VADDR)
<1>1. /\ Text(f) \in Segment
      /\ Text(f).vaddr + 119 + 7 <= TRAMP_VADDR
      /\ TRAMP_VADDR + AreaSize <= Text(f).vaddr + Text(f).size
      /\ TRAMP_VADDR \in Int /\ AreaSize \in Nat
      /\ AreaOf(f) .. AreaOf(f) + AreaSize - 1 \subseteq DOMAIN f.bytes
  BY AreaInText
<1>2. PICK t \in DOMAIN Loads(f) : Text(f) = Loads(f)[t]
  BY TextLoaded
<1>3. Holds(Loads(f)[t], va) /\ Holds(Loads(f)[t], va + n - 1)
  BY <1>1, <1>2 DEF Holds, Segment
<1>4. Place(f, va) = Text(f).foff + (va - Text(f).vaddr)
  BY <1>2, <1>3, PlaceIn
<1>5. Place(f, va) = AreaOf(f) + (va - TRAMP_VADDR) /\ AreaOf(f) \in Int
  BY <1>1, <1>4 DEF AreaOf, Segment
<1>6. Place(f, va) .. Place(f, va) + n - 1 \subseteq DOMAIN f.bytes
  BY <1>1, <1>5
<1> QED
  BY <1>3, <1>5, <1>6 DEF Region

\* So is the lgdt of startup_64.
LEMMA LgdtRegion ==
  ASSUME NEW f \in Files
  PROVE  /\ Region(f, Text(f).vaddr + 119, 7)
         /\ Place(f, Text(f).vaddr + 119) = Text(f).foff + 119
         /\ Text(f).vaddr + 119 + 7 <= TRAMP_VADDR
<1>1. /\ Text(f) \in Segment
      /\ Text(f).vaddr + 119 + 7 <= TRAMP_VADDR
      /\ TRAMP_VADDR + AreaSize <= Text(f).vaddr + Text(f).size
      /\ TRAMP_VADDR \in Int /\ AreaSize \in Nat
  BY AreaInText
<1>2. PICK t \in DOMAIN Loads(f) : Text(f) = Loads(f)[t]
  BY TextLoaded
<1> DEFINE va == Text(f).vaddr + 119
<1>3. Holds(Loads(f)[t], va) /\ Holds(Loads(f)[t], va + 7 - 1) /\ va \in Int
  BY <1>1, <1>2 DEF Holds, Segment
<1>4. Place(f, va) = Text(f).foff + (va - Text(f).vaddr)
  BY <1>2, <1>3, PlaceIn
<1>5. Place(f, va) = Text(f).foff + 119
  BY <1>1, <1>4 DEF Segment
<1>6. Text(f).foff + 119 .. Text(f).foff + 119 + 6 \subseteq DOMAIN f.bytes
  BY LgdtApart
<1>7. Place(f, va) + 7 - 1 = Text(f).foff + 119 + 6
  BY <1>1, <1>5 DEF Segment
<1>8. Place(f, va) .. Place(f, va) + 7 - 1 \subseteq DOMAIN f.bytes
  BY <1>5, <1>6, <1>7
<1> QED
  BY <1>1, <1>3, <1>5, <1>8 DEF Region

\* So is every other site.
LEMMA SiteRegion ==
  ASSUME NEW f \in Files, NEW k \in 2 .. Count, Probes[k].how # "lgdt"
  PROVE  Region(f, Probes[k].va, SiteSize(Probes[k]))
<1> DEFINE p == Probes[k]
<1>1. k \in 1 .. Count /\ p \in ProbeRecords /\ p.va \in Int
  BY ProbeTypes DEF ProbeRecords
<1>2. Place(f, p.va) # 0
  BY InputAssumption DEF InputAssumption, Place
<1>3. PICK n \in DOMAIN Loads(f) : Holds(Loads(f)[n], p.va)
  BY <1>1, <1>2, FoffFound DEF Place
<1>4. /\ Place(f, p.va) .. Place(f, p.va) + SiteSize(p) - 1 \subseteq DOMAIN f.bytes
      /\ Holds(Loads(f)[n], p.va + SiteSize(p) - 1)
  BY <1>1, <1>2, <1>3, BytesAssumption DEF BytesAssumption, Place
<1>5. SiteSize(p) \in Nat \ {0}
  BY DEF SiteSize
<1> QED
  BY <1>1, <1>3, <1>4, <1>5 DEF Region

-----------------------------------------------------------------------------
(* The list, member by member. *)

\* Where the CALLs of the list are; every address of EMPT_CALLS is one of CBD_CALLS.
CallSites ==
  {SK, SA, XSK + 15, XSK + 55, XSK + 60, XSK + 77, XSK + 105, XSK + 230, XSK + 269,
   CBD + 17, CBD + 242, CBD + 309, CBD + 427, CBD + 498, CBD + 531, CBD + 536}

\* A list of CALLs, member by member.
LEMMA CallsMember ==
  ASSUME NEW function \in Nat, NEW n \in Nat, NEW offsets \in [1 .. n -> Nat], NEW first \in Nat,
         AreaEnd <= function, first + n <= 256
  PROVE  /\ Calls(function, offsets, first) \in Seq(ProbeRecords)
         /\ Len(Calls(function, offsets, first)) = n
         /\ \A k \in 1 .. n :
              Calls(function, offsets, first)[k]
                = [how |-> "call", va |-> function + offsets[k], ch |-> first + k - 1]
<1> DEFINE calls == Calls(function, offsets, first)
<1>1. calls \in Seq(ProbeRecords)
  BY CallsSeq
<1>2. calls = [k \in 1 .. n |-> [how |-> "call", va |-> function + offsets[k], ch |-> first + k - 1]]
  BY DEF Calls
<1>3. DOMAIN calls = 1 .. n
  BY <1>2
<1> HIDE DEF calls
<1>4. Len(calls) = n
  BY <1>1, <1>3
<1> USE DEF calls
<1> QED
  BY <1>1, <1>2, <1>4

\* The CALLs of x86_64_start_kernel, which count up from '1'.
LEMMA XSKMembers ==
  /\ Len(XSK_CALLS) = 7
  /\ \A k \in 1 .. 7 : /\ XSK_CALLS[k].how = "call" /\ XSK_CALLS[k].va \in CallSites
                       /\ XSK_CALLS[k].ch = 48 + k
<1> DEFINE offsets == <<\h0f, \h37, \h3c, \h4d, \h69, \he6, \h10d>>
           first == \h31
           n == 7
<1>1. offsets \in [1 .. n -> Nat] /\ n \in Nat
  BY SMT
<1>2. XSK \in Nat /\ AreaEnd <= XSK
  BY SMT DEF XSK, AreaEnd, TRAMP_VADDR
<1>3. first \in Nat /\ first + n <= 256
  BY SMT
<1>4. XSK_CALLS = Calls(XSK, offsets, first)
  BY Zenon DEF XSK_CALLS
<1>5. \A k \in 1 .. 7 : XSK + offsets[k] \in CallSites
  <2>1. \A k \in 1 .. 7 : offsets[k] \in {15, 55, 60, 77, 105, 230, 269}
    BY SMT
  <2> HIDE DEF offsets
  <2> QED
    BY <1>2, <2>1, SMT DEF CallSites
<1>6. first = 49 /\ n = 7
  BY SMT
<1> HIDE DEF offsets, first, n
<1>7. /\ Len(XSK_CALLS) = n
      /\ \A k \in 1 .. n :
           XSK_CALLS[k] = [how |-> "call", va |-> XSK + offsets[k], ch |-> first + k - 1]
  <2>1. /\ Len(Calls(XSK, offsets, first)) = n
        /\ \A k \in 1 .. n :
             Calls(XSK, offsets, first)[k]
               = [how |-> "call", va |-> XSK + offsets[k], ch |-> first + k - 1]
    BY <1>1, <1>2, <1>3, CallsMember, ZenonT(30)
  <2> QED
    BY <1>4, <2>1, ZenonT(30)
<1> QED
  BY <1>5, <1>6, <1>7

\* The CALLs of copy_bootdata, which count up from 'a'.
LEMMA CBDMembers ==
  /\ Len(CBD_CALLS) = 7
  /\ \A k \in 1 .. 7 : /\ CBD_CALLS[k].how = "call" /\ CBD_CALLS[k].va \in CallSites
                       /\ CBD_CALLS[k].ch = 96 + k
<1> DEFINE offsets == <<\h11, \hf2, \h135, \h1ab, \h1f2, \h213, \h218>>
           first == \h61
           n == 7
<1>1. offsets \in [1 .. n -> Nat] /\ n \in Nat
  BY SMT
<1>2. CBD \in Nat /\ AreaEnd <= CBD
  BY SMT DEF CBD, AreaEnd, TRAMP_VADDR
<1>3. first \in Nat /\ first + n <= 256
  BY SMT
<1>4. CBD_CALLS = Calls(CBD, offsets, first)
  BY Zenon DEF CBD_CALLS
<1>5. \A k \in 1 .. 7 : CBD + offsets[k] \in CallSites
  <2>1. \A k \in 1 .. 7 : offsets[k] \in {17, 242, 309, 427, 498, 531, 536}
    BY SMT
  <2> HIDE DEF offsets
  <2> QED
    BY <1>2, <2>1, SMT DEF CallSites
<1>6. first = 97 /\ n = 7
  BY SMT
<1> HIDE DEF offsets, first, n
<1>7. /\ Len(CBD_CALLS) = n
      /\ \A k \in 1 .. n :
           CBD_CALLS[k] = [how |-> "call", va |-> CBD + offsets[k], ch |-> first + k - 1]
  <2>1. /\ Len(Calls(CBD, offsets, first)) = n
        /\ \A k \in 1 .. n :
             Calls(CBD, offsets, first)[k]
               = [how |-> "call", va |-> CBD + offsets[k], ch |-> first + k - 1]
    BY <1>1, <1>2, <1>3, CallsMember, ZenonT(30)
  <2> QED
    BY <1>4, <2>1, ZenonT(30)
<1> QED
  BY <1>5, <1>6, <1>7

\* The CALLs of __early_make_pgtable, which count up from 'h'.
LEMMA EMPTMembers ==
  /\ Len(EMPT_CALLS) = 6
  /\ \A k \in 1 .. 6 : /\ EMPT_CALLS[k].how = "call" /\ EMPT_CALLS[k].va \in CallSites
                       /\ EMPT_CALLS[k].ch = 103 + k
<1> DEFINE offsets == <<\ha9, \hec, \h162, \h1a9, \h1ca, \h1cf>>
           first == \h68
           n == 6
<1>1. offsets \in [1 .. n -> Nat] /\ n \in Nat
  BY SMT
<1>2. EMPT \in Nat /\ AreaEnd <= EMPT
  BY SMT DEF EMPT, AreaEnd, TRAMP_VADDR
<1>8. EMPT = CBD + 73 /\ CBD \in Nat
  BY SMT DEF EMPT, CBD
<1>3. first \in Nat /\ first + n <= 256
  BY SMT
<1>4. EMPT_CALLS = Calls(EMPT, offsets, first)
  BY Zenon DEF EMPT_CALLS
<1>5. \A k \in 1 .. 6 : EMPT + offsets[k] \in CallSites
  <2>1. \A k \in 1 .. 6 : offsets[k] \in {169, 236, 354, 425, 458, 463}
    BY SMT
  <2> HIDE DEF offsets
  <2> QED
    BY <1>8, <2>1, SMT DEF CallSites
<1>6. first = 104 /\ n = 6
  BY SMT
<1> HIDE DEF offsets, first, n
<1>7. /\ Len(EMPT_CALLS) = n
      /\ \A k \in 1 .. n :
           EMPT_CALLS[k] = [how |-> "call", va |-> EMPT + offsets[k], ch |-> first + k - 1]
  <2>1. /\ Len(Calls(EMPT, offsets, first)) = n
        /\ \A k \in 1 .. n :
             Calls(EMPT, offsets, first)[k]
               = [how |-> "call", va |-> EMPT + offsets[k], ch |-> first + k - 1]
    BY <1>1, <1>2, <1>3, CallsMember, ZenonT(30)
  <2> QED
    BY <1>4, <2>1, ZenonT(30)
<1> QED
  BY <1>5, <1>6, <1>7

\* The character of the probe at place n of the list.
CharOf(n) == IF n = 1 THEN 75 ELSE IF n = 2 THEN 88 ELSE IF n = 3 THEN 83 ELSE IF n = 4 THEN 65
             ELSE IF n <= 11 THEN 44 + n ELSE 85 + n

\* The list: K, X, and 22 CALLs.
LEMMA ListMembers ==
  /\ Count = 24
  /\ Probes[1].how = "lgdt" /\ Probes[1].va = 119
  /\ Probes[2].how = "entry" /\ Probes[2].va = XSK
  /\ \A n \in 3 .. 24 : Probes[n].how = "call" /\ Probes[n].va \in CallSites
  /\ \A n \in 1 .. 24 : Probes[n].ch = CharOf(n)
<1> DEFINE first == << [how |-> "lgdt", va |-> \h77, ch |-> \h4b],
                       [how |-> "entry", va |-> XSK, ch |-> \h58],
                       [how |-> "call", va |-> SK, ch |-> \h53],
                       [how |-> "call", va |-> SA, ch |-> \h41] >>
           two == first \o XSK_CALLS
           three == two \o CBD_CALLS
<1>1. /\ first[1].how = "lgdt" /\ first[1].va = 119 /\ first[1].ch = 75
      /\ first[2].how = "entry" /\ first[2].va = XSK /\ first[2].ch = 88
      /\ first[3].how = "call" /\ first[3].va = SK /\ first[3].ch = 83
      /\ first[4].how = "call" /\ first[4].va = SA /\ first[4].ch = 65
  BY SMT
<1>2. Len(first) = 4
  BY SMT
<1>3. first \in Seq(ProbeRecords)
  <2>1. [how |-> "lgdt", va |-> \h77, ch |-> \h4b] \in ProbeRecords
    BY SMT DEF ProbeRecords, Byte
  <2>2. [how |-> "entry", va |-> XSK, ch |-> \h58] \in ProbeRecords
    BY SMT DEF ProbeRecords, Byte, XSK, AreaEnd, TRAMP_VADDR
  <2>3. [how |-> "call", va |-> SK, ch |-> \h53] \in ProbeRecords
    BY SMT DEF ProbeRecords, Byte, SK, AreaEnd, TRAMP_VADDR
  <2>4. [how |-> "call", va |-> SA, ch |-> \h41] \in ProbeRecords
    BY SMT DEF ProbeRecords, Byte, SA, AreaEnd, TRAMP_VADDR
  <2> QED
    BY <2>1, <2>2, <2>3, <2>4
<1>4. Probes = three \o EMPT_CALLS
  BY Zenon DEF Probes
<1>5. SK \in CallSites /\ SA \in CallSites
  BY SMT DEF CallSites
<1> HIDE DEF first
<1> HIDE DEF two, three
<1>6. /\ two \in Seq(ProbeRecords) /\ Len(two) = 11
      /\ \A n \in 1 .. 11 : two[n] = IF n <= 4 THEN first[n] ELSE XSK_CALLS[n - 4]
  <2>1. /\ two \in Seq(ProbeRecords) /\ Len(two) = Len(first) + Len(XSK_CALLS)
        /\ \A n \in 1 .. Len(first) + Len(XSK_CALLS) :
             two[n] = IF n <= Len(first) THEN first[n] ELSE XSK_CALLS[n - Len(first)]
    BY <1>3, XSKSeq, ConcatProperties, Zenon DEF two
  <2>2. Len(first) = 4 /\ Len(XSK_CALLS) = 7
    BY <1>2, XSKMembers
  <2>3. \A n \in 1 .. 11 : two[n] = IF n <= 4 THEN first[n] ELSE XSK_CALLS[n - 4]
    BY <2>1, <2>2
  <2> QED
    BY <2>1, <2>2, <2>3
<1>7. /\ three \in Seq(ProbeRecords) /\ Len(three) = 18
      /\ \A n \in 1 .. 18 : three[n] = IF n <= 11 THEN two[n] ELSE CBD_CALLS[n - 11]
  <2>1. /\ three \in Seq(ProbeRecords) /\ Len(three) = Len(two) + Len(CBD_CALLS)
        /\ \A n \in 1 .. Len(two) + Len(CBD_CALLS) :
             three[n] = IF n <= Len(two) THEN two[n] ELSE CBD_CALLS[n - Len(two)]
    BY <1>6, CBDSeq, ConcatProperties, Zenon DEF three
  <2>2. Len(two) = 11 /\ Len(CBD_CALLS) = 7
    BY <1>6, CBDMembers
  <2>3. \A n \in 1 .. 18 : three[n] = IF n <= 11 THEN two[n] ELSE CBD_CALLS[n - 11]
    BY <2>1, <2>2
  <2> QED
    BY <2>1, <2>2, <2>3
<1>8. /\ Len(Probes) = 24
      /\ \A n \in 1 .. 24 : Probes[n] = IF n <= 18 THEN three[n] ELSE EMPT_CALLS[n - 18]
  <2>1. /\ Probes \in Seq(ProbeRecords) /\ Len(Probes) = Len(three) + Len(EMPT_CALLS)
        /\ \A n \in 1 .. Len(three) + Len(EMPT_CALLS) :
             Probes[n] = IF n <= Len(three) THEN three[n] ELSE EMPT_CALLS[n - Len(three)]
    BY <1>4, <1>7, EMPTSeq, ConcatProperties, Zenon
  <2>2. Len(three) = 18 /\ Len(EMPT_CALLS) = 6
    BY <1>7, EMPTMembers
  <2>4. Len(three) + Len(EMPT_CALLS) = 24
    BY <2>2
  <2>3. \A n \in 1 .. 24 : Probes[n] = IF n <= 18 THEN three[n] ELSE EMPT_CALLS[n - 18]
    BY <2>1, <2>2, <2>4, Zenon
  <2> QED
    BY <2>1, <2>2, <2>3
<1>9. \A n \in 1 .. 4 : Probes[n] = first[n]
  <2> SUFFICES ASSUME NEW n \in 1 .. 4 PROVE Probes[n] = first[n]
    OBVIOUS
  <2>1. Probes[n] = three[n]
    BY <1>8
  <2>2. three[n] = two[n]
    BY <1>7
  <2>3. two[n] = first[n]
    BY <1>6
  <2> QED
    BY <2>1, <2>2, <2>3
<1>10. \A n \in 5 .. 11 : n - 4 \in 1 .. 7 /\ Probes[n] = XSK_CALLS[n - 4]
  <2> SUFFICES ASSUME NEW n \in 5 .. 11 PROVE n - 4 \in 1 .. 7 /\ Probes[n] = XSK_CALLS[n - 4]
    OBVIOUS
  <2>1. Probes[n] = three[n]
    BY <1>8
  <2>2. three[n] = two[n]
    BY <1>7
  <2>3. two[n] = XSK_CALLS[n - 4]
    BY <1>6
  <2> QED
    BY <2>1, <2>2, <2>3
<1>11. \A n \in 12 .. 18 : n - 11 \in 1 .. 7 /\ Probes[n] = CBD_CALLS[n - 11]
  <2> SUFFICES ASSUME NEW n \in 12 .. 18 PROVE n - 11 \in 1 .. 7 /\ Probes[n] = CBD_CALLS[n - 11]
    OBVIOUS
  <2>1. Probes[n] = three[n]
    BY <1>8
  <2>2. three[n] = CBD_CALLS[n - 11]
    BY <1>7, SMTT(30)
  <2> QED
    BY <2>1, <2>2
<1>12. \A n \in 19 .. 24 : n - 18 \in 1 .. 6 /\ Probes[n] = EMPT_CALLS[n - 18]
  BY <1>8
<1>13. \A n \in 5 .. 11 : /\ Probes[n].how = "call" /\ Probes[n].va \in CallSites
                          /\ Probes[n].ch = 44 + n
  BY <1>10, XSKMembers
<1>14. \A n \in 12 .. 18 : /\ Probes[n].how = "call" /\ Probes[n].va \in CallSites
                           /\ Probes[n].ch = 85 + n
  BY <1>11, CBDMembers
<1>15. \A n \in 19 .. 24 : /\ Probes[n].how = "call" /\ Probes[n].va \in CallSites
                           /\ Probes[n].ch = 85 + n
  BY <1>12, EMPTMembers
<1>16. \A n \in 3 .. 4 : Probes[n].how = "call" /\ Probes[n].va \in CallSites
  BY <1>1, <1>5, <1>9
<1>17. \A n \in 3 .. 24 : Probes[n].how = "call" /\ Probes[n].va \in CallSites
  BY <1>13, <1>14, <1>15, <1>16
<1>18. \A n \in 1 .. 4 : Probes[n].ch = CharOf(n)
  BY <1>1, <1>9 DEF CharOf
<1>19. \A n \in 5 .. 24 : Probes[n].ch = CharOf(n)
  BY <1>13, <1>14, <1>15 DEF CharOf
<1>20. \A n \in 1 .. 24 : Probes[n].ch = CharOf(n)
  BY <1>18, <1>19
<1>21. /\ Probes[1].how = "lgdt" /\ Probes[1].va = 119
       /\ Probes[2].how = "entry" /\ Probes[2].va = XSK
  BY <1>1, <1>9
<1> QED
  BY <1>8, <1>17, <1>20, <1>21 DEF Count

\* No two probes print the same character.
LEMMA CharsDiffer ==
  ASSUME NEW m \in 1 .. Count, NEW n \in 1 .. Count, Probes[m].ch = Probes[n].ch
  PROVE  m = n
<1>1. m \in 1 .. 24 /\ n \in 1 .. 24
  BY ListMembers
<1>2. CharOf(m) = CharOf(n)
  BY <1>1, ListMembers, SMTT(30)
<1> QED
  BY <1>1, <1>2 DEF CharOf

\* Two sites are the same or share no byte.
LEMMA CallSitesApart ==
  /\ \A a, b \in CallSites : a = b \/ a + 5 <= b \/ b + 5 <= a
  /\ \A a \in CallSites : XSK + 7 <= a \/ a + 5 <= XSK
<1>1. XSK = 27370427 /\ SK = 27372066 /\ SA = 27400956 /\ CBD = 27369881
  BY SMT DEF XSK, SK, SA, CBD
<1>2. CallSites = {27372066, 27400956, 27370442, 27370482, 27370487, 27370504, 27370532, 27370657, 27370696,
                   27369898, 27370123, 27370190, 27370308, 27370379, 27370412, 27370417}
  BY <1>1, SMT DEF CallSites
<1> QED
  BY <1>1, <1>2, SMTT(60)

-----------------------------------------------------------------------------
(* Reading what was written. *)

\* Bytes are read as they were written.
LEMMA WroteSlice ==
  ASSUME NEW d, NEW at, NEW b \in Seq(Byte), NEW n \in Nat, Len(b) = n, Wrote(d, at, b)
  PROVE  Slice(d, at, n) = b
  BY DEF Wrote, Slice

\* Two strings are written one behind the other.
LEMMA WroteCat ==
  ASSUME NEW d, NEW at \in Int, NEW a, NEW m \in Nat, NEW b, NEW n \in Nat, Bytes(a, m), Bytes(b, n),
         Wrote(d, at, a \o b)
  PROVE  Wrote(d, at, a) /\ Wrote(d, at + m, b)
<1>1. /\ a \in Seq(Byte) /\ b \in Seq(Byte) /\ Len(a) = m /\ Len(b) = n
  BY DEF Bytes
<1> DEFINE c == a \o b
<1>2. /\ Len(c) = Len(a) + Len(b)
      /\ \A i \in 1 .. Len(a) + Len(b) : c[i] = IF i <= Len(a) THEN a[i] ELSE b[i - Len(a)]
  BY <1>1, ConcatProperties, Zenon
<1>3. \A i \in 1 .. m + n : d[at + i - 1] = c[i]
  BY <1>1, <1>2 DEF Wrote
<1> HIDE DEF c
<1>4. \A i \in 1 .. m : d[at + i - 1] = a[i]
  BY <1>1, <1>2, <1>3
<1>5. ASSUME NEW i \in 1 .. n PROVE d[at + m + i - 1] = b[i]
  <2>1. m + i \in 1 .. m + n /\ ~(m + i <= m) /\ m + i - m = i
    OBVIOUS
  <2>2. at + (m + i) - 1 = at + m + i - 1
    OBVIOUS
  <2>3. c[m + i] = b[i]
    BY <1>1, <1>2, <2>1
  <2> QED
    BY <1>3, <2>1, <2>2, <2>3
<1> QED
  BY <1>1, <1>4, <1>5 DEF Wrote

\* d and e have the same n bytes from a on.
Agree(d, e, a, n) == \A j \in 0 .. n - 1 : e[Foff(a) + j] = d[Foff(a) + j]

\* Addresses are looked up in the segments of the input.
LEMMA FoffPlace ==
  ASSUME ProbeInv, NEW va
  PROVE  Foff(va) = Place(file, va)
  BY DEF ProbeInv, Foff, Place

\* Its bytes have places in the file.
LEMMA RegionFoff ==
  ASSUME ProbeInv, NEW a, NEW n, Region(file, a, n)
  PROVE  /\ file \in Files /\ a \in Int /\ n \in Nat \ {0} /\ Foff(a) \in Int
         /\ \A b \in Int : a <= b /\ b < a + n => Foff(b) = Foff(a) + (b - a)
<1>1. file \in Files /\ a \in Int /\ n \in Nat \ {0} /\ 0 \in 0 .. n - 1
  BY DEF ProbeInv, Region
<1>2. Foff(a) \in Int
  BY <1>1, FoffPlace, RegionPlaces
<1>3. ASSUME NEW b \in Int, a <= b, b < a + n PROVE Foff(b) = Foff(a) + (b - a)
  <2>1. 1 \in Nat \ {0} /\ b + 1 <= a + n
    BY <1>1, <1>3
  <2>2. Place(file, b) = Place(file, a) + (b - a)
    BY <1>1, <1>3, <2>1, RegionPart
  <2> QED
    BY <2>2, FoffPlace
<1> QED
  BY <1>1, <1>2, <1>3

\* It is the same in images that agree there.
LEMMA AgreeLoaded ==
  ASSUME ProbeInv, NEW d, NEW e, NEW a, NEW n, Region(file, a, n), Agree(d, e, a, n),
         NEW b \in Int, NEW m \in Nat \ {0}, a <= b, b + m <= a + n
  PROVE  Loaded(e, b, m) = Loaded(d, b, m)
<1>1. a \in Int /\ n \in Nat /\ Foff(a) \in Int /\ Foff(b) = Foff(a) + (b - a)
  BY RegionFoff
<1>2. \A k \in 1 .. m : e[Foff(b) + k - 1] = d[Foff(b) + k - 1]
  <2> SUFFICES ASSUME NEW k \in 1 .. m PROVE e[Foff(b) + k - 1] = d[Foff(b) + k - 1]
    OBVIOUS
  <2>1. PICK j \in 0 .. n - 1 : Foff(a) + j = Foff(b) + k - 1
    <3>1. b - a + k - 1 \in 0 .. n - 1 /\ Foff(a) + (b - a + k - 1) = Foff(b) + k - 1
      BY <1>1
    <3> QED
      BY <3>1
  <2> QED
    BY <2>1 DEF Agree
<1>3. Slice(e, Foff(b), m) = Slice(d, Foff(b), m)
  BY <1>2, Zenon DEF Slice
<1> QED
  BY <1>3 DEF Loaded

\* So are targets.
LEMMA AgreeTarget ==
  ASSUME ProbeInv, NEW d, NEW e, NEW a, NEW n, Region(file, a, n), Agree(d, e, a, n),
         NEW b \in Int, a <= b, b + 5 <= a + n
  PROVE  Target(e, b) = Target(d, b)
<1>1. a \in Int /\ n \in Nat /\ Foff(a) \in Int /\ Foff(b) = Foff(a) + (b - a)
  BY RegionFoff
<1> DEFINE c == b + 1
<1>2. c \in Int /\ a <= c /\ c + 4 <= a + n /\ c < a + n /\ 4 \in Nat \ {0}
  BY <1>1
<1>3. Foff(c) = Foff(a) + (c - a)
  BY <1>2, RegionFoff
<1>4. Foff(c) = Foff(b) + 1
  BY <1>1, <1>3
<1> HIDE DEF c
<1>5. Loaded(e, c, 4) = Loaded(d, c, 4)
  BY <1>2, AgreeLoaded
<1>6. Slice(e, Foff(b) + 1, 4) = Slice(d, Foff(b) + 1, 4)
  BY <1>4, <1>5 DEF Loaded
<1> QED
  BY <1>6 DEF Target

\* So is what prints a character.
LEMMA AgreePrints ==
  ASSUME ProbeInv, NEW d, NEW e, NEW a, NEW n, Region(file, a, n), Agree(d, e, a, n), 12 <= n
  PROVE  Char(e, a) = Char(d, a) /\ Prints(e, a) = Prints(d, a)
<1>1. n \in Nat /\ a \in Int /\ a + 9 <= a + n /\ a + 12 <= a + n /\ a <= a
  BY RegionFoff
<1>2. 9 \in Nat \ {0} /\ 12 \in Nat \ {0}
  OBVIOUS
<1>3. Loaded(e, a, 9) = Loaded(d, a, 9)
  BY <1>1, <1>2, AgreeLoaded
<1>4. Loaded(e, a, 12) = Loaded(d, a, 12)
  BY <1>1, <1>2, AgreeLoaded
<1>5. Char(e, a) = Char(d, a)
  BY <1>3 DEF Char
<1> QED
  BY <1>4, <1>5, Zenon DEF Prints

\* So is whether it is a stub around a CALL.
LEMMA AgreeWraps ==
  ASSUME ProbeInv, NEW d, NEW e, NEW a, NEW n, Region(file, a, n), Agree(d, e, a, n), 18 <= n
  PROVE  /\ Char(e, a) = Char(d, a) /\ Wraps(e, a) = Wraps(d, a)
         /\ Target(e, a + 12) = Target(d, a + 12)
<1>1. n \in Nat /\ a \in Int
  BY RegionFoff
<1> DEFINE call == a + 12
           ret == a + 17
<1>2. /\ call \in Int /\ a <= call /\ call + 5 <= a + n /\ call + 1 <= a + n
      /\ ret \in Int /\ a <= ret /\ ret + 1 <= a + n /\ 1 \in Nat \ {0}
  BY <1>1
<1> HIDE DEF call, ret
<1>3. Loaded(e, call, 1) = Loaded(d, call, 1) /\ Loaded(e, ret, 1) = Loaded(d, ret, 1)
  BY <1>2, AgreeLoaded
<1>4. Target(e, call) = Target(d, call)
  BY <1>2, AgreeTarget
<1>5. Char(e, a) = Char(d, a) /\ Prints(e, a) = Prints(d, a)
  BY <1>1, AgreePrints
<1>6. Wraps(d, a) = (Prints(d, a) /\ Loaded(d, call, 1) = <<\he8>> /\ Loaded(d, ret, 1) = <<\hc3>>)
  BY Zenon DEF Wraps, call, ret
<1>7. Wraps(e, a) = (Prints(e, a) /\ Loaded(e, call, 1) = <<\he8>> /\ Loaded(e, ret, 1) = <<\hc3>>)
  BY Zenon DEF Wraps, call, ret
<1>8. Wraps(e, a) = Wraps(d, a)
  BY <1>3, <1>5, <1>6, <1>7
<1> QED
  BY <1>4, <1>5, <1>8 DEF call

\* A CALL or JMP that was written goes where it is meant to.
LEMMA JumpTarget ==
  ASSUME ProbeInv, NEW d, NEW a, Region(file, a, 5), NEW opcode \in Byte, NEW t \in Int,
         Rel32(t - (a + 5)), Wrote(d, Foff(a), Jump(opcode, a, t))
  PROVE  Loaded(d, a, 1) = <<opcode>> /\ Target(d, a) = t
<1>1. a \in Int /\ Foff(a) \in Int
  BY RegionFoff
<1> DEFINE x == t - (a + 5)
<1>2. x \in Int
  BY <1>1
<1>3. Bytes(<<opcode>>, 1)
  BY DEF Bytes
<1>4. Bytes(LE(x, 4), 4)
  BY <1>2, LEBytes
<1>5. Jump(opcode, a, t) = <<opcode>> \o LE(x, 4)
  BY Zenon DEF Jump
<1>6. Wrote(d, Foff(a), <<opcode>>) /\ Wrote(d, Foff(a) + 1, LE(x, 4))
  BY <1>1, <1>3, <1>4, <1>5, WroteCat
<1>7. Slice(d, Foff(a), 1) = <<opcode>>
  BY <1>3, <1>6, WroteSlice DEF Bytes
<1>8. Slice(d, Foff(a) + 1, 4) = LE(x, 4)
  BY <1>4, <1>6, WroteSlice DEF Bytes
<1>9. Signed(LE(x, 4)) = x
  BY <1>2, SignedLE
<1> HIDE DEF x
<1>10. Target(d, a) = a + 5 + x
  BY <1>8, <1>9 DEF Target
<1>11. a + 5 + x = t
  BY <1>1 DEF x
<1> QED
  BY <1>7, <1>10, <1>11 DEF Loaded

\* The character is the ninth byte of what prints it.
LEMMA PrintsWritten ==
  ASSUME ProbeInv, NEW d, NEW a, InArea(a), NEW ch \in Byte,
         Wrote(d, Foff(a), serial_write_bytes(ch)), NEW n, Region(file, a, n), 12 <= n
  PROVE  Prints(d, a) /\ Char(d, a) = ch
<1>1. Foff(a) \in Int
  BY RegionFoff
<1> DEFINE s == serial_write_bytes(ch)
<1>2. Bytes(s, 12)
  BY PrintBytes
<1>3. s[9] = ch
  BY SMT DEF serial_write_bytes
<1> HIDE DEF s
<1>4. Slice(d, Foff(a), 12) = s
  BY <1>2, WroteSlice DEF Bytes, s
<1>5. d[Foff(a) + 9 - 1] = s[9]
  BY <1>2 DEF Wrote, Bytes, s
<1>6. Slice(d, Foff(a), 9)[9] = d[Foff(a) + 9 - 1]
  BY DEF Slice
<1>7. Char(d, a) = ch
  BY <1>3, <1>5, <1>6 DEF Char, Loaded
<1> QED
  BY <1>4, <1>7 DEF Prints, Loaded, s

-----------------------------------------------------------------------------
(* What an insertion leaves alone. *)

\* Sites are regions, of addresses outside the area.
LEMMA SitePlaces ==
  ASSUME ProbeInv, NEW k \in 1 .. Count
  PROVE  LET p == Probes[k]
         IN  /\ Region(file, Va(p), SiteSize(p)) /\ Foff(Va(p)) = FoffOf(p)
             /\ p \in ProbeRecords
             /\ Va(p) + SiteSize(p) <= TRAMP_VADDR \/ TRAMP_VADDR + AreaSize <= Va(p)
<1> DEFINE p == Probes[k]
<1>1. file \in Files /\ text_seg = Text(file) /\ p \in ProbeRecords
  BY ProbeTypes DEF ProbeInv
<1>2. CASE p.how = "lgdt"
  <2>1. p.va = 119
    BY <1>1, <1>2, SMT DEF ProbeRecords
  <2>2. Va(p) = Text(file).vaddr + 119 /\ FoffOf(p) = Text(file).foff + 119 /\ SiteSize(p) = 7
    BY <1>1, <1>2, <2>1 DEF Va, FoffOf, SiteSize
  <2> QED
    BY <1>1, <2>2, LgdtRegion, FoffPlace
<1>3. CASE p.how # "lgdt"
  <2>1. Va(p) = p.va /\ FoffOf(p) = Foff(p.va)
    BY <1>3 DEF Va, FoffOf
  <2>2. k \in 2 .. Count
    BY <1>3, ListMembers
  <2>3. Region(file, p.va, SiteSize(p))
    BY <1>1, <1>3, <2>2, SiteRegion
  <2>4. p.va >= AreaEnd /\ p.va \in Int
    BY <1>1, <1>3 DEF ProbeRecords
  <2>5. AreaSize \in Nat /\ AreaSize <= 426 * 1024 /\ TRAMP_VADDR \in Int
    BY AreaAssumption, AreaInText, <1>1 DEF AreaAssumption
  <2>6. TRAMP_VADDR + AreaSize <= p.va
    BY <2>4, <2>5 DEF AreaEnd
  <2> QED
    BY <1>1, <2>1, <2>3, <2>6
<1> QED
  BY <1>2, <1>3

\* Two of them are the same or share no byte.
LEMMA SitesApart ==
  ASSUME ProbeInv, NEW m \in 1 .. Count, NEW n \in 1 .. Count, Va(Probes[m]) # Va(Probes[n])
  PROVE  LET a == Va(Probes[m])  x == SiteSize(Probes[m])
             b == Va(Probes[n])  y == SiteSize(Probes[n])
         IN  a + x <= b \/ b + y <= a
<1>1. Count = 24 /\ file \in Files
  BY ListMembers DEF ProbeInv
<1>2. /\ Va(Probes[1]) = text_seg.vaddr + 119 /\ SiteSize(Probes[1]) = 7
      /\ Va(Probes[2]) = XSK /\ SiteSize(Probes[2]) = 7
  BY ListMembers DEF Va, SiteSize
<1>3. \A k \in 3 .. 24 : Va(Probes[k]) \in CallSites /\ SiteSize(Probes[k]) = 5
  BY ListMembers DEF Va, SiteSize
<1>4. \A k \in 2 .. 24 : TRAMP_VADDR <= Va(Probes[k])
  <2> SUFFICES ASSUME NEW k \in 2 .. 24 PROVE TRAMP_VADDR <= Va(Probes[k])
    OBVIOUS
  <2>1. k \in 1 .. Count /\ Probes[k].how # "lgdt" /\ Probes[k] \in ProbeRecords
    BY <1>1, ListMembers, ProbeTypes
  <2>2. Probes[k].va >= AreaEnd /\ Va(Probes[k]) = Probes[k].va /\ Probes[k].va \in Int
    BY <2>1 DEF ProbeRecords, Va
  <2>3. TRAMP_VADDR \in Int
    BY <1>1, AreaInText
  <2> QED
    BY <2>2, <2>3 DEF AreaEnd
<1>5. Va(Probes[1]) + 7 <= TRAMP_VADDR
  BY <1>1, <1>2, LgdtRegion DEF ProbeInv
<1>6. \A k \in 1 .. 24 : Va(Probes[k]) \in Int
  BY <1>1, SitePlaces, RegionFoff
<1>7. TRAMP_VADDR \in Int /\ XSK \in Int
  <2>1. XSK \in Int
    BY <1>2, <1>6
  <2> QED
    BY <1>1, <2>1, AreaInText
<1>8. CASE m = 1
  <2>1. n \in 2 .. 24
    BY <1>1, <1>8
  <2> QED
    BY <1>2, <1>4, <1>5, <1>6, <1>7, <1>8, <2>1
<1>9. CASE n = 1
  <2>1. m \in 2 .. 24
    BY <1>1, <1>9
  <2> QED
    BY <1>2, <1>4, <1>5, <1>6, <1>7, <1>9, <2>1
<1>10. CASE m = 2 /\ n # 1
  <2>1. n \in 3 .. 24
    BY <1>1, <1>2, <1>10
  <2> QED
    BY <1>2, <1>3, <1>10, <2>1, CallSitesApart
<1>11. CASE n = 2 /\ m # 1
  <2>1. m \in 3 .. 24
    BY <1>1, <1>2, <1>11
  <2> QED
    BY <1>2, <1>3, <1>11, <2>1, CallSitesApart
<1>12. CASE m \in 3 .. 24 /\ n \in 3 .. 24
  BY <1>3, <1>12, CallSitesApart
<1> QED
  BY <1>1, <1>8, <1>9, <1>10, <1>11, <1>12

\* e is the image with probe k inserted, its stub at address w.
Inserted(e, k, w) ==
  /\ k \in 1 .. Count /\ w - TRAMP_VADDR \in Nat /\ w \in Int
  /\ Effect(e, Probes[k], w - TRAMP_VADDR)
  /\ Fitting(Probes[k], w)

\* The stub is in the area, in bytes that were free.
LEMMA StubPlaces ==
  ASSUME ProbeInv, NEW e, NEW k, NEW w, Inserted(e, k, w)
  PROVE  LET p == Probes[k]
         IN  /\ StubSize(p) \in 1 .. Request(p) /\ Request(p) \in {32, 48}
             /\ w \in Int /\ TRAMP_VADDR <= w /\ w + Request(p) + 4 <= TRAMP_VADDR + AreaSize
             /\ TRAMP_VADDR \in Int /\ AreaSize \in Nat
             /\ Region(file, w, Request(p) + 4) /\ Foff(w) = TRAMP_FOFF + (w - TRAMP_VADDR)
             /\ \A j \in 0 .. Request(p) + 3 : data[Foff(w) + j] = \hcc
<1> DEFINE p == Probes[k]
           i == w - TRAMP_VADDR
           r == Request(p)
<1>1. /\ file \in Files /\ text_seg = Text(file) /\ w \in Int /\ i \in Nat
      /\ TRAMP_VADDR \in Int /\ AreaSize \in Nat
  BY AreaInText DEF ProbeInv, Inserted
<1>2. /\ i + r + 4 <= AreaSize
      /\ \A o \in TRAMP_FOFF + i .. TRAMP_FOFF + i + r + 3 : data[o] = \hcc
  BY DEF Inserted, Effect
<1>3. r \in {32, 48}
  BY DEF Request
<1>4. StubSize(p) \in 1 .. r
  BY DEF Inserted, Fitting
<1> HIDE DEF r, p
<1>5. TRAMP_VADDR <= w /\ w + (r + 4) <= TRAMP_VADDR + AreaSize /\ r + 4 \in Nat \ {0}
  BY <1>1, <1>2, <1>3
<1>6. Region(file, w, r + 4) /\ Place(file, w) = AreaOf(file) + (w - TRAMP_VADDR)
  BY <1>1, <1>5, AreaRegion
<1>7. Foff(w) = TRAMP_FOFF + i
  BY <1>1, <1>6, FoffPlace DEF AreaOf, TRAMP_FOFF
<1>8. Foff(w) \in Int
  BY <1>6, RegionFoff
<1> HIDE DEF i
<1>9. \A j \in 0 .. r + 3 : data[Foff(w) + j] = \hcc
  <2> SUFFICES ASSUME NEW j \in 0 .. r + 3 PROVE data[Foff(w) + j] = \hcc
    OBVIOUS
  <2>1. Foff(w) + j \in Foff(w) .. Foff(w) + r + 3
    BY <1>3, <1>8
  <2> QED
    BY <1>2, <1>7, <2>1
<1>10. w + r + 4 <= TRAMP_VADDR + AreaSize
  BY <1>1, <1>3, <1>5
<1> QED
  BY <1>1, <1>3, <1>4, <1>5, <1>6, <1>7, <1>9, <1>10 DEF r, p, i

\* A region apart from stub and site is left alone.
LEMMA KeptRegion ==
  ASSUME ProbeInv, NEW e, NEW k, NEW w, Inserted(e, k, w), NEW a, NEW n, Region(file, a, n),
         a + n <= w \/ w + StubSize(Probes[k]) <= a,
         a + n <= Va(Probes[k]) \/ Va(Probes[k]) + SiteSize(Probes[k]) <= a
  PROVE  Agree(data, e, a, n)
<1> DEFINE p == Probes[k]
           m == StubSize(p)
           s == SiteSize(p)
<1>1. k \in 1 .. Count
  BY DEF Inserted
<1>2. /\ file \in Files /\ a \in Int /\ n \in Nat \ {0} /\ Foff(a) \in Int
  BY RegionFoff
<1>3. /\ m \in 1 .. Request(p) /\ Request(p) \in {32, 48} /\ w \in Int
      /\ Region(file, w, Request(p) + 4) /\ Foff(w) = TRAMP_FOFF + (w - TRAMP_VADDR)
  BY StubPlaces
<1>4. Region(file, Va(p), s) /\ Foff(Va(p)) = FoffOf(p)
  BY <1>1, SitePlaces
<1>5. Region(file, w, m)
  <2>1. m \in Nat \ {0} /\ w <= w /\ w + m <= w + (Request(p) + 4)
    BY <1>3
  <2> HIDE DEF m, p
  <2> QED
    BY <1>2, <1>3, <2>1, RegionPart
<1>6. Foff(w) \in Int /\ Foff(Va(p)) \in Int /\ s \in Nat /\ m \in Nat /\ Va(p) \in Int
  BY <1>4, <1>5, RegionFoff
<1>7. \A o \in DOMAIN file.bytes :
        o \notin Foff(w) .. Foff(w) + m - 1 /\ o \notin Foff(Va(p)) .. Foff(Va(p)) + s - 1
          => e[o] = data[o]
  BY <1>3, <1>4 DEF Inserted, Effect
<1> SUFFICES ASSUME NEW j \in 0 .. n - 1 PROVE e[Foff(a) + j] = data[Foff(a) + j]
  BY DEF Agree
<1>8. Foff(a) + j \in DOMAIN file.bytes
  BY <1>2, RegionPlaces, FoffPlace
<1> HIDE DEF m, s, p
<1>9. \A x \in 0 .. m - 1 : Foff(a) + j # Foff(w) + x
  <2>1. a + n <= w \/ w + m <= a
    BY DEF m, p
  <2>2. Region(file, a, n) /\ Region(file, w, m) /\ file \in Files
    BY <1>2, <1>5
  <2>3. \A x \in 0 .. m - 1 : Place(file, a) + j # Place(file, w) + x
    BY <2>1, <2>2, RegionsApart
  <2> QED
    BY <2>3, FoffPlace
<1>10. \A x \in 0 .. s - 1 : Foff(a) + j # Foff(Va(p)) + x
  <2>1. a + n <= Va(p) \/ Va(p) + s <= a
    BY DEF s, p
  <2>2. Region(file, a, n) /\ Region(file, Va(p), s) /\ file \in Files
    BY <1>2, <1>4
  <2>3. \A x \in 0 .. s - 1 : Place(file, a) + j # Place(file, Va(p)) + x
    BY <2>1, <2>2, RegionsApart
  <2> QED
    BY <2>3, FoffPlace
<1>11. Foff(a) + j \notin Foff(w) .. Foff(w) + m - 1
  <2> SUFFICES ASSUME Foff(a) + j \in Foff(w) .. Foff(w) + m - 1 PROVE FALSE
    OBVIOUS
  <2> DEFINE x == Foff(a) + j - Foff(w)
  <2>1. x \in 0 .. m - 1 /\ Foff(a) + j = Foff(w) + x
    BY <1>2, <1>6
  <2> QED
    BY <1>9, <2>1
<1>12. Foff(a) + j \notin Foff(Va(p)) .. Foff(Va(p)) + s - 1
  <2> SUFFICES ASSUME Foff(a) + j \in Foff(Va(p)) .. Foff(Va(p)) + s - 1 PROVE FALSE
    OBVIOUS
  <2> DEFINE x == Foff(a) + j - Foff(Va(p))
  <2>1. x \in 0 .. s - 1 /\ Foff(a) + j = Foff(Va(p)) + x
    BY <1>2, <1>6
  <2> QED
    BY <1>10, <2>1
<1> QED
  BY <1>7, <1>8, <1>11, <1>12

\* Another site is.
LEMMA KeptSite ==
  ASSUME ProbeInv, NEW e, NEW k, NEW w, Inserted(e, k, w), NEW n \in 1 .. Count,
         Va(Probes[n]) # Va(Probes[k])
  PROVE  Agree(data, e, Va(Probes[n]), SiteSize(Probes[n]))
<1> DEFINE a == Va(Probes[n])
           x == SiteSize(Probes[n])
<1>1. k \in 1 .. Count
  BY DEF Inserted
<1>2. Region(file, a, x) /\ a \in Int /\ x \in Nat
  BY SitePlaces, RegionFoff
<1>3. a + x <= TRAMP_VADDR \/ TRAMP_VADDR + AreaSize <= a
  BY SitePlaces
<1>4. /\ StubSize(Probes[k]) \in 1 .. Request(Probes[k]) /\ Request(Probes[k]) \in {32, 48}
      /\ w \in Int /\ TRAMP_VADDR <= w /\ w + Request(Probes[k]) + 4 <= TRAMP_VADDR + AreaSize
      /\ TRAMP_VADDR \in Int /\ AreaSize \in Nat
  BY StubPlaces
<1>5. a + x <= Va(Probes[k]) \/ Va(Probes[k]) + SiteSize(Probes[k]) <= a
  BY <1>1, SitesApart
<1> HIDE DEF a, x
<1>6. a + x <= w \/ w + StubSize(Probes[k]) <= a
  BY <1>2, <1>3, <1>4
<1>7. Agree(data, e, a, x)
  BY <1>2, <1>5, <1>6, KeptRegion
<1> QED
  BY <1>7 DEF a, x

\* A stub that begins and ends with bytes in use is, whatever it has inside:
\* it is too short for a request to be met between them.
LEMMA KeptStub ==
  ASSUME ProbeInv, NEW e, NEW k, NEW w, Inserted(e, k, w), NEW a \in Int, NEW n \in 1 .. 36,
         TRAMP_VADDR <= a, a + n <= TRAMP_VADDR + AreaSize,
         data[Foff(a)] # \hcc, data[Foff(a) + n - 1] # \hcc
  PROVE  Region(file, a, n) /\ Agree(data, e, a, n)
<1> DEFINE r == Request(Probes[k])
           m == StubSize(Probes[k])
<1>1. /\ m \in 1 .. r /\ r \in {32, 48}
      /\ w \in Int /\ TRAMP_VADDR <= w /\ w + r + 4 <= TRAMP_VADDR + AreaSize
      /\ TRAMP_VADDR \in Int /\ AreaSize \in Nat
      /\ Foff(w) = TRAMP_FOFF + (w - TRAMP_VADDR)
      /\ \A j \in 0 .. r + 3 : data[Foff(w) + j] = \hcc
  BY StubPlaces
<1>2. file \in Files /\ text_seg = Text(file)
  BY DEF ProbeInv
<1>3. Region(file, a, n) /\ Place(file, a) = AreaOf(file) + (a - TRAMP_VADDR)
  BY <1>2, AreaRegion
<1>4. Foff(a) = TRAMP_FOFF + (a - TRAMP_VADDR) /\ TRAMP_FOFF \in Int
  BY <1>2, <1>3, FoffPlace, AreaInText DEF AreaOf, TRAMP_FOFF, Segment
<1> HIDE DEF r, m
<1>5. ~(w <= a /\ a < w + r + 4)
  <2> SUFFICES ASSUME w <= a, a < w + r + 4 PROVE FALSE
    OBVIOUS
  <2>1. a - w \in 0 .. r + 3 /\ Foff(a) = Foff(w) + (a - w)
    BY <1>1, <1>4
  <2> QED
    BY <1>1, <2>1
<1>6. ~(w <= a + n - 1 /\ a + n - 1 < w + r + 4)
  <2> SUFFICES ASSUME w <= a + n - 1, a + n - 1 < w + r + 4 PROVE FALSE
    OBVIOUS
  <2>1. a + n - 1 - w \in 0 .. r + 3 /\ Foff(a) + n - 1 = Foff(w) + (a + n - 1 - w)
    BY <1>1, <1>4
  <2> QED
    BY <1>1, <2>1
<1>7. a + n <= w \/ w + m <= a
  BY <1>1, <1>5, <1>6
<1>8. a + n <= Va(Probes[k]) \/ Va(Probes[k]) + SiteSize(Probes[k]) <= a
  <2>1. k \in 1 .. Count
    BY DEF Inserted
  <2>2. \/ Va(Probes[k]) + SiteSize(Probes[k]) <= TRAMP_VADDR
        \/ TRAMP_VADDR + AreaSize <= Va(Probes[k])
    BY <2>1, SitePlaces
  <2>3. Va(Probes[k]) \in Int /\ SiteSize(Probes[k]) \in Nat
    BY <2>1, SitePlaces, RegionFoff
  <2> QED
    BY <1>1, <2>2, <2>3
<1> QED
  BY <1>3, <1>7, <1>8, KeptRegion DEF m

-----------------------------------------------------------------------------
(* What an insertion makes of its site. *)

\* Displacements between the area, the sites and what they call have 32 bits.
LEMMA Reach ==
  ASSUME ProbeInv, NEW w \in Int, TRAMP_VADDR <= w, w <= TRAMP_VADDR + AreaSize
  PROVE  /\ \A t \in Int : Near(t) => Rel32(t - ((w + 12) + 5))
         /\ \A k \in 1 .. Count : Rel32(w - (Va(Probes[k]) + 5))
         /\ Rel32((XSK + 7) - ((w + 19) + 5))
         /\ Near(w)
<1>1. AreaSize \in Nat /\ AreaSize <= 426 * 1024
  BY AreaAssumption DEF AreaAssumption
<1>2. 7952053 <= w /\ w <= 8388277
  BY <1>1, SMT DEF TRAMP_VADDR
<1>3. \A k \in 1 .. Count : Va(Probes[k]) \in Int /\ Va(Probes[k]) <= 30000000 /\ Near(Va(Probes[k]))
  <2> SUFFICES ASSUME NEW k \in 1 .. Count
               PROVE  Va(Probes[k]) \in Int /\ Va(Probes[k]) <= 30000000 /\ Near(Va(Probes[k]))
    OBVIOUS
  <2>1. k \in 1 .. 24 /\ file \in Files /\ text_seg = Text(file)
    BY ListMembers DEF ProbeInv
  <2>2. CASE k = 1
    <3>1. Va(Probes[k]) = Text(file).vaddr + 119
      BY <2>1, <2>2, ListMembers DEF Va
    <3>2. Near(Text(file).vaddr) /\ Text(file).vaddr \in Int
      BY <2>1, InputAssumption, AreaInText DEF InputAssumption, Segment
    <3>3. Text(file).vaddr + 119 <= TRAMP_VADDR
      BY <2>1, LgdtRegion, <3>2, AreaInText
    <3> QED
      BY <3>1, <3>2, <3>3, SMT DEF Near, TRAMP_VADDR
  <2>3. CASE k = 2
    <3>1. Va(Probes[k]) = XSK
      BY <2>3, ListMembers DEF Va
    <3> QED
      BY <3>1, SMT DEF XSK, Near
  <2>4. CASE k \in 3 .. 24
    <3>1. Va(Probes[k]) \in CallSites
      BY <2>4, ListMembers DEF Va
    <3>2. \A a \in CallSites : a \in Int /\ 27000000 <= a /\ a <= 28000000
      BY SMT DEF CallSites, SK, SA, XSK, CBD
    <3> QED
      BY <3>1, <3>2, SMT DEF Near
  <2> QED
    BY <2>1, <2>2, <2>3, <2>4
<1>4. \A t \in Int : Near(t) => Rel32(t - ((w + 12) + 5))
  BY <1>2, SMT DEF Near, Rel32
<1>5. \A k \in 1 .. Count : Rel32(w - (Va(Probes[k]) + 5))
  BY <1>2, <1>3, SMT DEF Near, Rel32
<1>6. Rel32((XSK + 7) - ((w + 19) + 5))
  BY <1>2, SMT DEF Rel32, XSK
<1>7. Near(w)
  BY <1>2, SMT DEF Near
<1> QED
  BY <1>4, <1>5, <1>6, <1>7

\* A CALL of the list calls its stub, and the stub what the CALL called.
LEMMA NewCall ==
  ASSUME ProbeInv, NEW e, NEW k, NEW w, Inserted(e, k, w), Probes[k].how = "call",
         OldTarget(Probes[k]) \in Int, Near(OldTarget(Probes[k]))
  PROVE  LET p == Probes[k]
         IN  /\ Loaded(e, p.va, 1) = <<\he8>> /\ Target(e, p.va) = w
             /\ Wraps(e, w) /\ Char(e, w) = p.ch /\ Target(e, w + 12) = OldTarget(p)
             /\ TRAMP_VADDR <= w /\ w + 18 <= TRAMP_VADDR + AreaSize
<1> DEFINE p == Probes[k]
           old == OldTarget(p)
           print == serial_write_bytes(p.ch)
           call == Jump(\he8, w + 12, old)
           ret == <<\hc3>>
<1>1. k \in 1 .. Count /\ p \in ProbeRecords /\ p.ch \in Byte /\ p.va \in Int /\ Va(p) = p.va
  BY ProbeTypes DEF Inserted, ProbeRecords, Va
<1>2. /\ w \in Int /\ TRAMP_VADDR <= w /\ w + 32 + 4 <= TRAMP_VADDR + AreaSize
      /\ TRAMP_VADDR \in Int /\ AreaSize \in Nat
      /\ Region(file, w, 32 + 4) /\ Foff(w) = TRAMP_FOFF + (w - TRAMP_VADDR)
  <2>1. Request(p) = 32
    BY DEF Request
  <2> QED
    BY <2>1, StubPlaces
<1>3. Foff(w) \in Int /\ file \in Files
  BY <1>2, RegionFoff
<1>4. Region(file, p.va, 5) /\ Foff(p.va) = FoffOf(p)
  <2>1. SiteSize(p) = 5
    BY DEF SiteSize
  <2> QED
    BY <1>1, <2>1, SitePlaces
<1>5. Wrote(e, Foff(w), Stub(p, w)) /\ Wrote(e, FoffOf(p), Redirect(p, w))
  <2>1. w - TRAMP_VADDR \in Nat /\ TRAMP_VADDR + (w - TRAMP_VADDR) = w
    BY <1>2
  <2> QED
    BY <1>2, <2>1 DEF Inserted, Effect
<1>6. Stub(p, w) = print \o (call \o ret) /\ Redirect(p, w) = Jump(\he8, p.va, w)
  BY Zenon DEF Stub, Redirect
<1>7. Bytes(print, 12) /\ Bytes(ret, 1) /\ \he8 \in Byte
  BY <1>1, PrintBytes, OpcodeBytes
<1>8. Bytes(call, 5)
  BY <1>2, <1>7, JumpBytes
<1> HIDE DEF p, old, print, call, ret
<1>9. Bytes(call \o ret, 6)
  BY <1>7, <1>8, Join
<1>10. Wrote(e, Foff(w), print) /\ Wrote(e, Foff(w) + 12, call \o ret)
  BY <1>3, <1>5, <1>6, <1>7, <1>9, WroteCat
<1>11. Wrote(e, Foff(w) + 12, call) /\ Wrote(e, Foff(w) + 12 + 5, ret)
  BY <1>3, <1>7, <1>8, <1>10, WroteCat
<1> DEFINE c == w + 12
           r == w + 17
<1>12. /\ c \in Int /\ w <= c /\ c + 5 <= w + (32 + 4) /\ 5 \in Nat \ {0} /\ c < w + (32 + 4)
       /\ r \in Int /\ w <= r /\ r + 1 <= w + (32 + 4) /\ r < w + (32 + 4)
  BY <1>2
<1>13. Foff(c) = Foff(w) + (c - w) /\ Foff(r) = Foff(w) + (r - w) /\ Region(file, c, 5)
  BY <1>2, <1>3, <1>12, RegionFoff, RegionPart
<1>14. Foff(c) = Foff(w) + 12 /\ Foff(r) = Foff(w) + 12 + 5
  BY <1>2, <1>3, <1>13
<1>15. w <= TRAMP_VADDR + AreaSize /\ InArea(w)
  BY <1>2 DEF InArea
<1>16. Rel32(old - (c + 5)) /\ Rel32(w - (p.va + 5))
  BY <1>1, <1>2, <1>15, Reach DEF old, p
<1> HIDE DEF c, r
<1>17. Loaded(e, c, 1) = <<\he8>> /\ Target(e, c) = old
  <2>1. call = Jump(\he8, c, old)
    BY DEF call, c
  <2>2. Wrote(e, Foff(c), Jump(\he8, c, old))
    BY <1>11, <1>14, <2>1
  <2>3. old \in Int
    BY DEF old, p
  <2> QED
    BY <1>7, <1>13, <1>16, <2>2, <2>3, JumpTarget
<1>18. Loaded(e, r, 1) = <<\hc3>>
  <2>1. ret \in Seq(Byte) /\ Len(ret) = 1
    BY <1>7 DEF Bytes
  <2>2. Slice(e, Foff(r), 1) = ret
    BY <1>11, <1>14, <2>1, WroteSlice, ZenonT(30)
  <2> QED
    BY <2>2 DEF Loaded, ret
<1>19. Prints(e, w) /\ Char(e, w) = p.ch
  <2>1. Wrote(e, Foff(w), serial_write_bytes(p.ch))
    BY <1>10 DEF print
  <2> QED
    BY <1>1, <1>2, <1>15, <2>1, PrintsWritten DEF p
<1>20. Wraps(e, w)
  BY <1>17, <1>18, <1>19, Zenon DEF Wraps, c, r
<1>21. Loaded(e, p.va, 1) = <<\he8>> /\ Target(e, p.va) = w
  BY <1>1, <1>2, <1>4, <1>5, <1>6, <1>7, <1>16, JumpTarget DEF p
<1>22. w + 18 <= TRAMP_VADDR + AreaSize
  BY <1>2
<1> QED
  BY <1>2, <1>17, <1>19, <1>20, <1>21, <1>22 DEF c, p, old

-----------------------------------------------------------------------------
(* The stubs behind a CALL. *)

\* t is not in the area, or a byte in use shows that there is no stub of the program.
Foreign(d, t) ==
  /\ t \in Int /\ Near(t)
  /\ InArea(t) => \E j \in 1 .. 12 \ {9} :
       /\ InArea(t + j - 1)
       /\ d[Foff(t + j - 1)] \notin {\hcc, serial_write_bytes(0)[j]}

\* W are addresses of whole stubs, each around a CALL of another one or of
\* code that is none.
Woven(d, W) ==
  \A s \in W :
    /\ s \in Int /\ TRAMP_VADDR <= s /\ s + 18 <= TRAMP_VADDR + AreaSize
    /\ Wraps(d, s) /\ Char(d, s) \in Byte
    /\ Target(d, s + 12) \in W \/ Foreign(d, Target(d, s + 12))

\* So are the sites.
Linked(d, W) ==
  /\ Woven(d, W)
  /\ \A n \in 3 .. Count :
       LET va == Probes[n].va
       IN  Loaded(d, va, 1) = <<\he8>> => Target(d, va) \in W \/ Foreign(d, Target(d, va))

\* Places in the area follow one another.
LEMMA AreaFoff ==
  ASSUME ProbeInv, NEW va \in Int, InArea(va)
  PROVE  /\ Foff(va) = TRAMP_FOFF + (va - TRAMP_VADDR) /\ Foff(va) \in Int
         /\ TRAMP_VADDR \in Int /\ AreaSize \in Nat /\ TRAMP_FOFF \in Int
<1>1. file \in Files /\ text_seg = Text(file) /\ 1 \in Nat \ {0}
  BY DEF ProbeInv
<1>2. TRAMP_VADDR \in Int /\ AreaSize \in Nat
  BY <1>1, AreaInText
<1>3. TRAMP_VADDR <= va /\ va + 1 <= TRAMP_VADDR + AreaSize
  BY <1>2 DEF InArea
<1>4. Place(file, va) = AreaOf(file) + (va - TRAMP_VADDR)
  BY <1>1, <1>3, AreaRegion
<1>5. TRAMP_FOFF = AreaOf(file) /\ TRAMP_FOFF \in Int
  BY <1>1, <1>2, AreaInText DEF AreaOf, TRAMP_FOFF, Segment
<1> QED
  BY <1>2, <1>4, <1>5, FoffPlace

\* Such a byte says that t is no stub.
LEMMA ForeignPlain ==
  ASSUME ProbeInv, NEW d, NEW t, Foreign(d, t)
  PROVE  ~Wraps(d, t)
<1> SUFFICES ASSUME Wraps(d, t) PROVE FALSE
  OBVIOUS
<1>1. t \in Int /\ InArea(t) /\ Loaded(d, t, 12) = serial_write_bytes(Char(d, t))
  BY DEF Wraps, Prints, Foreign
<1>2. PICK j \in 1 .. 12 \ {9} :
        /\ InArea(t + j - 1)
        /\ d[Foff(t + j - 1)] \notin {\hcc, serial_write_bytes(0)[j]}
  BY <1>1 DEF Foreign
<1>3. Foff(t) = TRAMP_FOFF + (t - TRAMP_VADDR) /\ TRAMP_FOFF \in Int /\ TRAMP_VADDR \in Int
  BY <1>1, AreaFoff
<1>4. t + j - 1 \in Int
  BY <1>1
<1>5. Foff(t + j - 1) = TRAMP_FOFF + ((t + j - 1) - TRAMP_VADDR)
  BY <1>2, <1>4, AreaFoff
<1>6. Foff(t + j - 1) = Foff(t) + j - 1
  BY <1>1, <1>3, <1>5
<1>7. Loaded(d, t, 12)[j] = d[Foff(t) + j - 1]
  BY DEF Loaded, Slice
<1>8. ASSUME NEW ch PROVE serial_write_bytes(ch)[j] = serial_write_bytes(0)[j]
  BY SMT DEF serial_write_bytes
<1> QED
  BY <1>1, <1>2, <1>6, <1>7, <1>8

\* It stays where it is.
LEMMA ForeignKept ==
  ASSUME ProbeInv, NEW e, NEW k, NEW w, Inserted(e, k, w), NEW t, Foreign(data, t)
  PROVE  Foreign(e, t)
<1>1. t \in Int /\ Near(t)
  BY DEF Foreign
<1> SUFFICES ASSUME InArea(t)
             PROVE  \E j \in 1 .. 12 \ {9} :
                      /\ InArea(t + j - 1)
                      /\ e[Foff(t + j - 1)] \notin {\hcc, serial_write_bytes(0)[j]}
  BY <1>1 DEF Foreign
<1>2. PICK j \in 1 .. 12 \ {9} :
        /\ InArea(t + j - 1)
        /\ data[Foff(t + j - 1)] \notin {\hcc, serial_write_bytes(0)[j]}
  BY <1>1 DEF Foreign
<1> DEFINE a == t + j - 1
<1>3. a \in Int /\ InArea(a) /\ data[Foff(a)] # \hcc
  BY <1>1, <1>2
<1> HIDE DEF a
<1>4. TRAMP_VADDR \in Int /\ AreaSize \in Nat /\ Foff(a) \in Int
  BY <1>3, AreaFoff
<1>5. TRAMP_VADDR <= a /\ a + 1 <= TRAMP_VADDR + AreaSize /\ 1 \in 1 .. 36
  BY <1>3, <1>4 DEF InArea
<1>6. Foff(a) + 1 - 1 = Foff(a) /\ Foff(a) + 0 = Foff(a) /\ 0 \in 0 .. 1 - 1
  BY <1>4
<1>7. Agree(data, e, a, 1)
  BY <1>3, <1>5, <1>6, KeptStub
<1>8. e[Foff(a)] = data[Foff(a)]
  BY <1>6, <1>7 DEF Agree
<1> QED
  BY <1>2, <1>8 DEF a

\* A whole stub begins and ends with bytes in use.
LEMMA WovenKept ==
  ASSUME ProbeInv, NEW e, NEW k, NEW w, Inserted(e, k, w), NEW s \in Int,
         TRAMP_VADDR <= s, s + 18 <= TRAMP_VADDR + AreaSize, Wraps(data, s)
  PROVE  Wraps(e, s) /\ Char(e, s) = Char(data, s) /\ Target(e, s + 12) = Target(data, s + 12)
<1>1. /\ Loaded(data, s, 12) = serial_write_bytes(Char(data, s))
      /\ Loaded(data, s + 17, 1) = <<\hc3>>
      /\ InArea(s)
  BY DEF Wraps, Prints
<1>2. /\ Foff(s) = TRAMP_FOFF + (s - TRAMP_VADDR) /\ Foff(s) \in Int
      /\ TRAMP_VADDR \in Int /\ AreaSize \in Nat /\ TRAMP_FOFF \in Int
  BY <1>1, AreaFoff
<1> DEFINE r == s + 17
<1>3. r \in Int /\ InArea(r)
  BY <1>2 DEF InArea
<1>4. Foff(r) = TRAMP_FOFF + (r - TRAMP_VADDR)
  BY <1>3, AreaFoff
<1>5. Foff(r) = Foff(s) + 18 - 1
  BY <1>2, <1>4
<1> HIDE DEF r
<1>6. data[Foff(s)] # \hcc
  <2>1. Loaded(data, s, 12)[1] = data[Foff(s) + 1 - 1]
    BY DEF Loaded, Slice
  <2>2. serial_write_bytes(Char(data, s))[1] = \h52
    BY SMT DEF serial_write_bytes
  <2>3. Foff(s) + 1 - 1 = Foff(s)
    BY <1>2
  <2> QED
    BY <1>1, <2>1, <2>2, <2>3
<1>7. data[Foff(s) + 18 - 1] # \hcc
  <2>1. Loaded(data, r, 1)[1] = data[Foff(r) + 1 - 1]
    BY DEF Loaded, Slice
  <2>2. Loaded(data, r, 1) = <<\hc3>>
    BY <1>1 DEF r
  <2>3. Foff(r) + 1 - 1 = Foff(s) + 18 - 1
    BY <1>2, <1>5
  <2> QED
    BY <2>1, <2>2, <2>3
<1>8. 18 \in 1 .. 36
  OBVIOUS
<1>9. Region(file, s, 18) /\ Agree(data, e, s, 18)
  BY <1>6, <1>7, <1>8, KeptStub
<1> QED
  BY <1>9, AgreeWraps

\* What a stub or foreign code is in the image stays so.
LEMMA NodeKept ==
  ASSUME ProbeInv, NEW e, NEW k, NEW w, Inserted(e, k, w), NEW W, Woven(data, W)
  PROVE  /\ Woven(e, W)
         /\ \A s \in W : Char(e, s) = Char(data, s) /\ Target(e, s + 12) = Target(data, s + 12)
<1>1. ASSUME NEW s \in W
      PROVE  /\ s \in Int /\ TRAMP_VADDR <= s /\ s + 18 <= TRAMP_VADDR + AreaSize
             /\ Wraps(data, s) /\ Char(data, s) \in Byte
             /\ Target(data, s + 12) \in W \/ Foreign(data, Target(data, s + 12))
             /\ Wraps(e, s) /\ Char(e, s) = Char(data, s) /\ Target(e, s + 12) = Target(data, s + 12)
  <2>1. /\ s \in Int /\ TRAMP_VADDR <= s /\ s + 18 <= TRAMP_VADDR + AreaSize
        /\ Wraps(data, s) /\ Char(data, s) \in Byte
        /\ Target(data, s + 12) \in W \/ Foreign(data, Target(data, s + 12))
    BY DEF Woven
  <2> QED
    BY <2>1, WovenKept
<1>2. ASSUME NEW s \in W PROVE Target(e, s + 12) \in W \/ Foreign(e, Target(e, s + 12))
  BY <1>1, ForeignKept
<1> QED
  BY <1>1, <1>2 DEF Woven

\* f are the steps of Trace.
Steps(d, f) == \A n \in 0 .. Count : f[n] = [t \in Int |-> TraceStep(d, f, n, t)]

\* Where Trace can go.
Node(d, W, t) == t \in Int /\ (t \in W \/ Foreign(d, t))

\* What Trace finds at code that is no stub, and at a stub in front of r.
End(t) == [log |-> <<>>, does |-> <<t>>]
Behind(d, t, r) == [r EXCEPT !.log = <<Char(d, t)>> \o @]

\* Code that is no stub is the end, and so is a stub when no step is left.
LEMMA StepEnds ==
  ASSUME ProbeInv, NEW d, NEW W, Woven(d, W), NEW f, Steps(d, f), NEW n \in 0 .. Count,
         NEW t, Node(d, W, t), n = 0 \/ t \notin W
  PROVE  f[n][t] = End(t) /\ t \in Int
<1>1. t \in Int /\ (t \in W \/ Foreign(d, t))
  BY DEF Node
<1>2. f[n][t] = TraceStep(d, f, n, t)
  BY <1>1 DEF Steps
<1>3. n = 0 \/ ~Wraps(d, t)
  BY <1>1, ForeignPlain
<1> QED
  BY <1>1, <1>2, <1>3 DEF TraceStep, End

\* From a stub it goes on, with one step less.
LEMMA StepGoes ==
  ASSUME ProbeInv, NEW d, NEW W, Woven(d, W), NEW f, Steps(d, f), NEW n \in 0 .. Count - 1,
         NEW t, Node(d, W, t), t \in W
  PROVE  /\ Node(d, W, Target(d, t + 12)) /\ Char(d, t) \in Byte
         /\ f[n + 1][t] = Behind(d, t, f[n][Target(d, t + 12)])
<1>1. Count \in Nat
  BY ProbeTypes
<1>2. n + 1 \in 0 .. Count /\ n + 1 # 0 /\ (n + 1) - 1 = n
  BY <1>1
<1>3. t \in Int
  BY DEF Node
<1>4. f[n + 1][t] = TraceStep(d, f, n + 1, t)
  BY <1>2, <1>3 DEF Steps
<1>5. /\ Wraps(d, t) /\ Char(d, t) \in Byte
      /\ Target(d, t + 12) \in W \/ Foreign(d, Target(d, t + 12))
  BY DEF Woven
<1>6. Target(d, t + 12) \in Int
  BY <1>5 DEF Woven, Foreign
<1>7. TraceStep(d, f, n + 1, t) = Behind(d, t, f[(n + 1) - 1][Target(d, t + 12)])
  BY <1>2, <1>5, Zenon DEF TraceStep, Behind
<1> QED
  BY <1>2, <1>4, <1>5, <1>6, <1>7, Zenon DEF Node

-----------------------------------------------------------------------------
(* What Trace finds. *)

\* What is found: characters, and an address.
Finding == [log : Seq(Byte), does : Seq(Int)]

\* One more character is found first.
LEMMA Prepend ==
  ASSUME NEW d, NEW t, NEW r \in Finding, Char(d, t) \in Byte
  PROVE  /\ Behind(d, t, r) \in Finding /\ Behind(d, t, r).does = r.does
         /\ Len(r.log) \in Nat /\ Len(Behind(d, t, r).log) = Len(r.log) + 1
         /\ Behind(d, t, r).log = <<Char(d, t)>> \o r.log
         /\ Behind(d, t, r).log[1] = Char(d, t)
         /\ \A i \in 2 .. Len(r.log) + 1 : Behind(d, t, r).log[i] = r.log[i - 1]
<1> DEFINE c == <<Char(d, t)>>
           l == r.log
<1>1. c \in Seq(Byte) /\ Len(c) = 1 /\ c[1] = Char(d, t) /\ l \in Seq(Byte)
  BY DEF Finding
<1>2. Behind(d, t, r) = [log |-> c \o l, does |-> r.does] /\ r.does \in Seq(Int)
  <2>1. r.does \in Seq(Int) /\ r \in [log : Seq(Byte), does : Seq(Int)]
    BY DEF Finding
  <2>2. ASSUME NEW A, NEW B, NEW q \in [log : A, does : B], NEW v
        PROVE  [q EXCEPT !.log = v] = [log |-> v, does |-> q.does]
    OBVIOUS
  <2>3. Behind(d, t, r) = [r EXCEPT !.log = c \o l]
    BY Zenon DEF Behind
  <2> QED
    BY <2>1, <2>2, <2>3
<1> HIDE DEF c, l
<1>3. c \o l \in Seq(Byte)
  BY <1>1, ConcatProperties
<1>4. Len(c \o l) = Len(c) + Len(l)
  BY <1>1, ConcatProperties
<1>5. \A i \in 1 .. Len(c) + Len(l) : (c \o l)[i] = IF i <= Len(c) THEN c[i] ELSE l[i - Len(c)]
  BY <1>1, ConcatProperties
<1>6. Len(l) \in Nat
  BY <1>1, LenProperties
<1>7. (c \o l)[1] = Char(d, t) /\ \A i \in 2 .. Len(l) + 1 : (c \o l)[i] = l[i - 1]
  <2>1. Len(c) + Len(l) = Len(l) + 1 /\ 1 \in 1 .. Len(c) + Len(l)
    BY <1>1, <1>6
  <2>2. ASSUME NEW i \in 2 .. Len(l) + 1 PROVE (c \o l)[i] = l[i - 1]
    <3>1. i \in 1 .. Len(c) + Len(l) /\ ~(i <= Len(c)) /\ i - Len(c) = i - 1
      BY <1>1, <1>6
    <3> QED
      BY <1>5, <3>1
  <2>3. (c \o l)[1] = c[1]
    BY <1>1, <1>5, <2>1
  <2> QED
    BY <1>1, <2>2, <2>3
<1>8. Behind(d, t, r) \in Finding /\ Behind(d, t, r).log = c \o l /\ Behind(d, t, r).does = r.does
  BY <1>2, <1>3 DEF Finding
<1> QED
  BY <1>1, <1>4, <1>6, <1>7, <1>8 DEF c, l

\* Trace finds characters and then an address, however far it looks.
LEMMA TraceForm ==
  ASSUME ProbeInv, NEW d, NEW W, Woven(d, W), NEW f, Steps(d, f), NEW n \in 0 .. Count,
         NEW t, Node(d, W, t)
  PROVE  f[n][t] \in Finding
<1> DEFINE S == {m \in 0 .. Count : \A s : Node(d, W, s) => f[m][s] \in Finding}
<1>1. Count \in Nat
  BY ProbeTypes
<1>2. ASSUME NEW m \in 0 .. Count, NEW s, Node(d, W, s), m = 0 \/ s \notin W
      PROVE  f[m][s] \in Finding
  <2>1. f[m][s] = End(s) /\ s \in Int
    BY <1>2, StepEnds
  <2> QED
    BY <2>1 DEF Finding, End
<1>3. ASSUME NEW m \in 0 .. Count - 1, m \in S, NEW s, Node(d, W, s)
      PROVE  f[m + 1][s] \in Finding
  <2>1. m + 1 \in 0 .. Count /\ m + 1 # 0 /\ (m + 1) - 1 = m /\ m \in 0 .. Count
    BY <1>1
  <2>2. CASE s \in W
    <3>1. Node(d, W, Target(d, s + 12)) /\ Char(d, s) \in Byte
      BY <1>3, <2>1, <2>2, StepGoes
    <3>2. f[m][Target(d, s + 12)] \in Finding
      BY <1>3, <3>1
    <3>3. f[m + 1][s] = Behind(d, s, f[m][Target(d, s + 12)])
      BY <1>3, <2>1, <2>2, StepGoes
    <3>4. Behind(d, s, f[m][Target(d, s + 12)]) \in Finding
      BY <3>1, <3>2, Prepend
    <3> QED
      BY <3>3, <3>4
  <2> QED
    BY <1>2, <1>3, <2>1, <2>2
<1>4. 0 \in S /\ \A m \in 0 .. Count - 1 : m \in S => m + 1 \in S
  BY <1>1, <1>2, <1>3
<1> HIDE DEF S
<1>5. n \in S
  BY <1>1, <1>4, UpTo
<1> QED
  BY <1>5 DEF S

\* It finds the same in an image where the stubs are the same.
LEMMA TraceKept ==
  ASSUME ProbeInv, NEW e, NEW k, NEW w, Inserted(e, k, w), NEW W, Woven(data, W),
         NEW f, Steps(data, f), NEW g, Steps(e, g), NEW n \in 0 .. Count,
         NEW t, Node(data, W, t)
  PROVE  g[n][t] = f[n][t]
<1> DEFINE S == {m \in 0 .. Count : \A s : Node(data, W, s) => g[m][s] = f[m][s]}
<1>1. Count \in Nat
  BY ProbeTypes
<1>2. Woven(e, W)
      /\ \A s \in W : Char(e, s) = Char(data, s) /\ Target(e, s + 12) = Target(data, s + 12)
  BY NodeKept
<1>3. ASSUME NEW s, Node(data, W, s) PROVE Node(e, W, s)
  BY <1>3, ForeignKept DEF Node
<1>4. ASSUME NEW m \in 0 .. Count, NEW s, Node(data, W, s), m = 0 \/ s \notin W
      PROVE  g[m][s] = f[m][s]
  <2>1. f[m][s] = End(s)
    BY <1>4, StepEnds
  <2>2. g[m][s] = End(s)
    BY <1>2, <1>3, <1>4, StepEnds
  <2> QED
    BY <2>1, <2>2
<1>5. ASSUME NEW m \in 0 .. Count - 1, m \in S, NEW s, Node(data, W, s)
      PROVE  g[m + 1][s] = f[m + 1][s]
  <2>1. m + 1 \in 0 .. Count /\ m + 1 # 0 /\ (m + 1) - 1 = m /\ m \in 0 .. Count
    BY <1>1
  <2>2. CASE s \in W
    <3>1. Node(data, W, Target(data, s + 12))
      BY <1>5, <2>1, <2>2, StepGoes
    <3>2. g[m][Target(data, s + 12)] = f[m][Target(data, s + 12)]
      BY <1>5, <3>1
    <3>3. f[m + 1][s] = Behind(data, s, f[m][Target(data, s + 12)])
      BY <1>5, <2>1, <2>2, StepGoes
    <3>4. g[m + 1][s] = Behind(e, s, g[m][Target(e, s + 12)])
      BY <1>2, <1>3, <1>5, <2>1, <2>2, StepGoes
    <3>5. Char(e, s) = Char(data, s) /\ Target(e, s + 12) = Target(data, s + 12)
      BY <1>2, <2>2
    <3> QED
      BY <3>2, <3>3, <3>4, <3>5, Zenon DEF Behind
  <2> QED
    BY <1>4, <1>5, <2>1, <2>2
<1>6. 0 \in S /\ \A m \in 0 .. Count - 1 : m \in S => m + 1 \in S
  BY <1>1, <1>4, <1>5
<1> HIDE DEF S
<1>7. n \in S
  BY <1>1, <1>6, UpTo
<1> QED
  BY <1>7 DEF S

\* Looking one stub further finds nothing else, once it found fewer stubs.
LEMMA TraceShort ==
  ASSUME ProbeInv, NEW d, NEW W, Woven(d, W), NEW f, Steps(d, f), NEW n \in 0 .. Count - 1,
         NEW t, Node(d, W, t), Len(f[n + 1][t].log) <= n
  PROVE  f[n][t] = f[n + 1][t]
<1> DEFINE S == {m \in 0 .. Count - 1 :
                   \A s : Node(d, W, s) /\ Len(f[m + 1][s].log) <= m => f[m][s] = f[m + 1][s]}
<1>1. Count \in Nat
  BY ProbeTypes
<1>2. ASSUME NEW m \in 0 .. Count - 1, NEW s, Node(d, W, s), s \notin W
      PROVE  f[m][s] = f[m + 1][s]
  <2>1. m \in 0 .. Count /\ m + 1 \in 0 .. Count
    BY <1>1
  <2>2. f[m][s] = End(s)
    BY <1>2, <2>1, StepEnds
  <2>3. f[m + 1][s] = End(s)
    BY <1>2, <2>1, StepEnds
  <2> QED
    BY <2>2, <2>3
\* A stub is a character more.
<1>3. ASSUME NEW m \in 0 .. Count - 1, NEW s, Node(d, W, s), s \in W
      PROVE  LET u == Target(d, s + 12)
             IN  /\ Node(d, W, u) /\ f[m][u] \in Finding
                 /\ f[m + 1][s] = Behind(d, s, f[m][u])
                 /\ Len(f[m][u].log) \in Nat
                 /\ Len(f[m + 1][s].log) = Len(f[m][u].log) + 1
  <2> DEFINE u == Target(d, s + 12)
  <2>1. m \in 0 .. Count /\ m + 1 \in 0 .. Count /\ m + 1 # 0 /\ (m + 1) - 1 = m /\ m \in 0 .. Count
    BY <1>1
  <2>2. Node(d, W, u) /\ Char(d, s) \in Byte
    BY <1>3, <2>1, StepGoes
  <2>3. f[m + 1][s] = Behind(d, s, f[m][u])
    BY <1>3, <2>1, StepGoes
  <2>4. f[m][u] \in Finding
    BY <2>1, <2>2, TraceForm
  <2>5. f[m][u].log \in Seq(Byte)
    BY <2>4 DEF Finding
  <2>6. Len(f[m][u].log) \in Nat
    BY <2>5, LenProperties
  <2>7. Len(Behind(d, s, f[m][u]).log) = Len(f[m][u].log) + 1
    <3>1. Char(d, s) \in Byte
      BY <2>2
    <3>2. \A r \in Finding : Len(Behind(d, s, r).log) = Len(r.log) + 1
      BY <3>1, Prepend
    <3> QED
      BY <2>4, <3>2
  <2> QED
    BY <2>2, <2>3, <2>4, <2>6, <2>7, Zenon
<1>4. CASE Count = 0
  BY <1>4
<1>5. CASE Count # 0
  <2>1. 0 \in S
    <3> SUFFICES ASSUME NEW s, Node(d, W, s), Len(f[0 + 1][s].log) <= 0
                 PROVE  f[0][s] = f[0 + 1][s]
      BY <1>1, <1>5
    <3>1. 0 \in 0 .. Count - 1
      BY <1>1, <1>5
    <3>2. s \notin W
      <4> SUFFICES ASSUME s \in W PROVE FALSE
        OBVIOUS
      <4>1. Len(f[0][Target(d, s + 12)].log) \in Nat
            /\ Len(f[0 + 1][s].log) = Len(f[0][Target(d, s + 12)].log) + 1
        BY <1>3, <3>1
      <4> QED
        BY <4>1
    <3> QED
      BY <1>2, <3>1, <3>2
  <2>2. ASSUME NEW m \in 0 .. (Count - 1) - 1, m \in S PROVE m + 1 \in S
    <3>1. m \in 0 .. Count - 1 /\ m + 1 \in 0 .. Count - 1
      BY <1>1
    <3> SUFFICES ASSUME NEW s, Node(d, W, s), Len(f[(m + 1) + 1][s].log) <= m + 1
                 PROVE  f[m + 1][s] = f[(m + 1) + 1][s]
      BY <3>1
    <3>2. CASE s \in W
      <4> DEFINE u == Target(d, s + 12)
      <4>1. /\ Node(d, W, u) /\ Len(f[m + 1][u].log) \in Nat
            /\ f[(m + 1) + 1][s] = Behind(d, s, f[m + 1][u])
            /\ Len(f[(m + 1) + 1][s].log) = Len(f[m + 1][u].log) + 1
        BY <1>3, <3>1, <3>2
      <4>2. f[m + 1][s] = Behind(d, s, f[m][u])
        BY <1>3, <3>1, <3>2
      <4>3. Len(f[m + 1][u].log) <= m
        BY <3>1, <4>1
      <4>4. f[m][u] = f[m + 1][u]
        BY <2>2, <4>1, <4>3
      <4> QED
        BY <4>1, <4>2, <4>4
    <3> QED
      BY <1>2, <3>1, <3>2
  <2>3. Count - 1 \in Nat
    BY <1>1, <1>5
  <2> HIDE DEF S
  <2>4. n \in S
    BY <2>1, <2>2, <2>3, UpTo
  <2> QED
    BY <2>4 DEF S
<1> QED
  BY <1>4, <1>5

-----------------------------------------------------------------------------
(* CALLs of the other sites, and the new one. *)

\* No CALL of the list is where K or X is.
LEMMA CallElsewhere ==
  ASSUME ProbeInv, NEW n \in 3 .. Count
  PROVE  /\ n \in 1 .. Count /\ Probes[n].how = "call"
         /\ Va(Probes[n]) = Probes[n].va /\ SiteSize(Probes[n]) = 5 /\ Probes[n].va \in Int
         /\ \A k \in 1 .. 2 : Va(Probes[n]) # Va(Probes[k])
<1>1. /\ n \in 3 .. 24 /\ n \in 1 .. Count /\ n \in 2 .. Count /\ Count = 24
      /\ 1 \in 1 .. Count /\ 2 \in 1 .. Count
  BY ListMembers
<1>2. Probes[n].how = "call" /\ Probes[n].va \in CallSites
  BY <1>1, ListMembers
<1>3. Va(Probes[n]) = Probes[n].va /\ SiteSize(Probes[n]) = 5
  BY <1>2 DEF Va, SiteSize
<1>4. Probes[n] \in ProbeRecords
  BY <1>1, ProbeTypes
<1>5. Probes[n].va \in Int /\ Probes[n].va >= AreaEnd
  BY <1>2, <1>4 DEF ProbeRecords
<1>6. file \in Files
  BY DEF ProbeInv
<1>7. TRAMP_VADDR \in Int /\ Text(file) \in Segment
  BY <1>6, AreaInText
<1>8. Va(Probes[1]) = Text(file).vaddr + 119
  BY ListMembers DEF ProbeInv, Va
<1>9. Va(Probes[1]) # Probes[n].va
  <2>1. Text(file).vaddr + 119 + 7 <= TRAMP_VADDR
    BY <1>6, LgdtRegion
  <2>2. Text(file).vaddr \in Int
    BY <1>7 DEF Segment
  <2> QED
    BY <1>5, <1>7, <1>8, <2>1, <2>2 DEF AreaEnd
<1>10. Va(Probes[2]) # Probes[n].va
  <2>1. Va(Probes[2]) = XSK /\ XSK \in Int
    BY ListMembers, SMT DEF Va, XSK
  <2>2. XSK + 7 <= Probes[n].va \/ Probes[n].va + 5 <= XSK
    BY <1>2, CallSitesApart
  <2> QED
    BY <1>5, <2>1, <2>2
<1>11. \A k \in 1 .. 2 : k = 1 \/ k = 2
  OBVIOUS
<1> QED
  BY <1>1, <1>2, <1>3, <1>5, <1>9, <1>10, <1>11

\* The instruction at another site of the list is left alone.
LEMMA OtherCall ==
  ASSUME ProbeInv, NEW e, NEW k, NEW w, Inserted(e, k, w), NEW n \in 3 .. Count,
         Probes[n].va # Va(Probes[k])
  PROVE  LET va == Probes[n].va
         IN  Loaded(e, va, 1) = Loaded(data, va, 1) /\ Target(e, va) = Target(data, va)
<1> DEFINE va == Probes[n].va
<1>1. n \in 1 .. Count /\ Va(Probes[n]) = va /\ SiteSize(Probes[n]) = 5 /\ va \in Int
  BY CallElsewhere
<1>2. Region(file, va, 5)
  BY <1>1, SitePlaces
<1>3. Agree(data, e, va, 5)
  BY <1>1, KeptSite
<1>4. va <= va /\ va + 1 <= va + 5 /\ va + 5 <= va + 5 /\ 1 \in Nat \ {0}
  BY <1>1
<1> HIDE DEF va
<1>5. Loaded(e, va, 1) = Loaded(data, va, 1) /\ Target(e, va) = Target(data, va)
  BY <1>1, <1>2, <1>3, <1>4, AgreeLoaded, AgreeTarget
<1> QED
  BY <1>5 DEF va

\* A CALL goes to a stub or to other code, which a displacement reaches.
LEMMA LinkedTarget ==
  ASSUME ProbeInv, NEW d, NEW W, Linked(d, W), NEW n \in 3 .. Count,
         Loaded(d, Probes[n].va, 1) = <<\he8>>
  PROVE  LET t == Target(d, Probes[n].va)
         IN  Woven(d, W) /\ Node(d, W, t) /\ t \in Int /\ Near(t)
<1> DEFINE t == Target(d, Probes[n].va)
<1>1. Woven(d, W) /\ (t \in W \/ Foreign(d, t))
  BY DEF Linked
<1>2. CASE t \in W
  <2>1. t \in Int /\ TRAMP_VADDR <= t /\ t + 18 <= TRAMP_VADDR + AreaSize
    BY <1>1, <1>2 DEF Woven
  <2>2. TRAMP_VADDR \in Int /\ AreaSize \in Nat
    BY AreaInText DEF ProbeInv
  <2>3. t <= TRAMP_VADDR + AreaSize
    BY <2>1, <2>2
  <2> QED
    BY <1>1, <1>2, <2>1, <2>3, Reach DEF Node
<1>3. CASE Foreign(d, t)
  BY <1>1, <1>3 DEF Node, Foreign
<1> QED
  BY <1>1, <1>2, <1>3

\* What an insertion has to find at its site.
Called(k) == k \in 3 .. Count => Loaded(data, Probes[k].va, 1) = <<\he8>>

\* An insertion leaves the stubs and links one more.
LEMMA LinkedInserted ==
  ASSUME ProbeInv, NEW e, NEW k, NEW w, Inserted(e, k, w), NEW W, Linked(data, W), Called(k)
  PROVE  \E V : Linked(e, V) /\ W \subseteq V /\ (k \in 3 .. Count => w \in V)
<1>1. Woven(data, W) /\ Woven(e, W)
  BY NodeKept DEF Linked
\* The other sites.
<1>2. ASSUME NEW n \in 3 .. Count, Probes[n].va # Va(Probes[k]), Loaded(e, Probes[n].va, 1) = <<\he8>>
      PROVE  Target(e, Probes[n].va) \in W \/ Foreign(e, Target(e, Probes[n].va))
  <2>1. /\ Loaded(data, Probes[n].va, 1) = <<\he8>>
        /\ Target(e, Probes[n].va) = Target(data, Probes[n].va)
    BY <1>2, OtherCall
  <2>2. Target(data, Probes[n].va) \in W \/ Foreign(data, Target(data, Probes[n].va))
    BY <2>1 DEF Linked
  <2> QED
    BY <2>1, <2>2, ForeignKept
<1>3. CASE k \in 3 .. Count
  <2> DEFINE p == Probes[k]
             old == Target(data, p.va)
             V == W \union {w}
  <2>1. p.how = "call" /\ Va(p) = p.va
    BY <1>3, CallElsewhere
  <2>2. old \in Int /\ Near(old) /\ (old \in W \/ Foreign(data, old)) /\ OldTarget(p) = old
    BY <1>3, LinkedTarget, Zenon DEF Called, Linked, OldTarget
  <2>3. /\ Target(e, p.va) = w /\ Wraps(e, w) /\ Char(e, w) = p.ch /\ Target(e, w + 12) = old
        /\ TRAMP_VADDR <= w /\ w + 18 <= TRAMP_VADDR + AreaSize
    BY <2>1, <2>2, NewCall
  <2>4. w \in Int /\ p.ch \in Byte
    BY ProbeTypes DEF Inserted, ProbeRecords
  <2>5. Foreign(data, old) => Foreign(e, old)
    BY ForeignKept
  <2>6. Woven(e, V)
    <3>1. ASSUME NEW s \in V
          PROVE  /\ s \in Int /\ TRAMP_VADDR <= s /\ s + 18 <= TRAMP_VADDR + AreaSize
                 /\ Wraps(e, s) /\ Char(e, s) \in Byte
                 /\ Target(e, s + 12) \in V \/ Foreign(e, Target(e, s + 12))
      <4>1. CASE s \in W
        BY <1>1, <4>1 DEF Woven
      <4>2. CASE s = w
        BY <2>2, <2>3, <2>4, <2>5, <4>2
      <4> QED
        BY <4>1, <4>2
    <3> HIDE DEF V
    <3> QED
      BY <3>1 DEF Woven
  <2>7. ASSUME NEW n \in 3 .. Count, Loaded(e, Probes[n].va, 1) = <<\he8>>
        PROVE  Target(e, Probes[n].va) \in V \/ Foreign(e, Target(e, Probes[n].va))
    <3>1. CASE Probes[n].va = p.va
      BY <2>3, <3>1
    <3>2. CASE Probes[n].va # p.va
      BY <1>2, <2>1, <2>7, <3>2
    <3> QED
      BY <3>1, <3>2
  <2>8. W \subseteq V /\ w \in V
    OBVIOUS
  <2> HIDE DEF V
  <2>9. Linked(e, V)
    BY <2>6, <2>7 DEF Linked
  <2> QED
    BY <2>8, <2>9
<1>4. CASE k \notin 3 .. Count
  <2>1. k \in 1 .. 2
    BY <1>4, ListMembers DEF Inserted
  <2>2. \A n \in 3 .. Count : Probes[n].va # Va(Probes[k])
    BY <2>1, CallElsewhere
  <2>3. Linked(e, W)
    BY <1>1, <1>2, <2>2 DEF Linked
  <2> QED
    BY <1>4, <2>3
<1> QED
  BY <1>3, <1>4

\* A CALL at another site goes through the same stubs as before.
LEMMA OtherTrace ==
  ASSUME ProbeInv, NEW e, NEW k, NEW w, Inserted(e, k, w), NEW W, Linked(data, W),
         NEW n \in 3 .. Count, Probes[n].va # Va(Probes[k]),
         Loaded(data, Probes[n].va, 1) = <<\he8>>
  PROVE  Trace(e, Probes[n].va) = Trace(data, Probes[n].va)
<1> DEFINE va == Probes[n].va
           t == Target(data, va)
<1>1. Woven(data, W) /\ Node(data, W, t)
  BY LinkedTarget
<1>2. Target(e, va) = t
  BY OtherCall
<1>3. PICK f : Steps(data, f) /\ \A x : Trace(data, x) = f[Count][Target(data, x)]
  BY TraceSteps, Zenon DEF Steps
<1>4. PICK g : Steps(e, g) /\ \A x : Trace(e, x) = g[Count][Target(e, x)]
  BY TraceSteps, Zenon DEF Steps
<1>5. Count \in 0 .. Count
  BY ListMembers
<1> HIDE DEF t
<1>6. g[Count][t] = f[Count][t]
  BY <1>1, <1>3, <1>4, <1>5, TraceKept
<1>7. Trace(e, va) = g[Count][t] /\ Trace(data, va) = f[Count][t]
  BY <1>2, <1>3, <1>4, Zenon DEF t
<1> QED
  BY <1>6, <1>7

\* What Trace finds is a string of characters and one address.
LEMMA TraceFinds ==
  ASSUME ProbeInv, NEW d, NEW W, Linked(d, W), NEW n \in 3 .. Count,
         Loaded(d, Probes[n].va, 1) = <<\he8>>
  PROVE  Trace(d, Probes[n].va) \in Finding
<1> DEFINE t == Target(d, Probes[n].va)
<1>1. Woven(d, W) /\ Node(d, W, t)
  BY LinkedTarget
<1>2. PICK f : Steps(d, f) /\ \A x : Trace(d, x) = f[Count][Target(d, x)]
  BY TraceSteps, Zenon DEF Steps
<1>3. Count \in 0 .. Count
  BY ListMembers
<1>4. f[Count][t] \in Finding
  BY <1>1, <1>2, <1>3, TraceForm
<1> QED
  BY <1>2, <1>4

\* The CALL at the site goes through the new stub and then through the old ones.
LEMMA NewTrace ==
  ASSUME ProbeInv, NEW e, NEW k \in 3 .. Count, NEW w, Inserted(e, k, w), NEW W, Linked(data, W),
         Called(k), Len(Trace(data, Probes[k].va).log) < Count
  PROVE  LET va == Probes[k].va
         IN  /\ Loaded(e, va, 1) = <<\he8>> /\ Target(e, va) = w
             /\ Char(e, w) = Probes[k].ch /\ Char(e, w) \in Byte
             /\ Trace(e, va) = Behind(e, w, Trace(data, va))
<1> DEFINE p == Probes[k]
           old == Target(data, p.va)
<1>1. p.how = "call" /\ Va(p) = p.va
  BY CallElsewhere
<1>2. Woven(data, W) /\ old \in Int /\ Near(old) /\ Node(data, W, old) /\ OldTarget(p) = old
  BY LinkedTarget, Zenon DEF Called, OldTarget
<1>3. /\ Loaded(e, p.va, 1) = <<\he8>> /\ Target(e, p.va) = w
      /\ Char(e, w) = p.ch /\ Target(e, w + 12) = old
  BY <1>1, <1>2, NewCall
<1>4. PICK V : Linked(e, V) /\ W \subseteq V /\ w \in V
  BY LinkedInserted
<1>5. Woven(e, V) /\ Node(e, V, w)
  BY <1>4 DEF Linked, Node, Inserted
<1>6. PICK f : Steps(data, f) /\ \A x : Trace(data, x) = f[Count][Target(data, x)]
  BY TraceSteps, Zenon DEF Steps
<1>7. PICK g : Steps(e, g) /\ \A x : Trace(e, x) = g[Count][Target(e, x)]
  BY TraceSteps, Zenon DEF Steps
<1>8. Count = 24 /\ 23 \in 0 .. Count /\ 23 \in 0 .. Count - 1 /\ 23 + 1 = Count
  BY ListMembers
<1>9. Trace(e, p.va) = g[Count][w] /\ Trace(data, p.va) = f[Count][old]
  BY <1>3, <1>6, <1>7, Zenon
<1> HIDE DEF old, p
<1>10. g[23 + 1][w] = Behind(e, w, g[23][Target(e, w + 12)]) /\ Char(e, w) \in Byte
  BY <1>4, <1>5, <1>7, <1>8, StepGoes
<1>11. g[23][old] = f[23][old]
  BY <1>2, <1>6, <1>7, <1>8, TraceKept
<1>12. f[23][old] = f[23 + 1][old]
  <2>1. f[23 + 1][old] \in Finding
    BY <1>2, <1>6, <1>8, TraceForm
  <2>2. Len(f[23 + 1][old].log) \in Nat
    BY <2>1, LenProperties DEF Finding
  <2>3. Len(f[23 + 1][old].log) < 24
    BY <1>8, <1>9 DEF p
  <2>4. Len(f[23 + 1][old].log) <= 23
    BY <2>2, <2>3
  <2> QED
    BY <1>2, <1>6, <1>8, <2>4, TraceShort
<1>13. Trace(e, p.va) = Behind(e, w, Trace(data, p.va))
  BY <1>3, <1>8, <1>9, <1>10, <1>11, <1>12
<1> QED
  BY <1>3, <1>10, <1>13 DEF p

-----------------------------------------------------------------------------
(* K and X. *)

\* The stubs of K and X at t, with what LoadsGdt and Entry look at.
WholeK(d, t) ==
  /\ t \in Int /\ TRAMP_VADDR <= t /\ t + 26 <= TRAMP_VADDR + AreaSize
  /\ Prints(d, t) /\ Loaded(d, t + 12, 2) = <<\h48, \hb8>>
  /\ Loaded(d, t + 22, 4) = <<\h0f, \h01, \h10, \hc3>>
WholeX(d, t) ==
  /\ t \in Int /\ TRAMP_VADDR <= t /\ t + 24 <= TRAMP_VADDR + AreaSize
  /\ Prints(d, t) /\ Loaded(d, t + 19, 1) = <<\he9>> /\ Target(d, t + 19) = XSK + 7

\* The first byte of what prints a character is a PUSH.
LEMMA PrintsUsed ==
  ASSUME NEW d, NEW t, Prints(d, t), Foff(t) \in Int
  PROVE  d[Foff(t)] # \hcc
<1>1. Loaded(d, t, 12) = serial_write_bytes(Char(d, t))
  BY DEF Prints
<1>2. Loaded(d, t, 12)[1] = d[Foff(t) + 1 - 1]
  BY DEF Loaded, Slice
<1>3. serial_write_bytes(Char(d, t))[1] = \h52
  BY SMT DEF serial_write_bytes
<1>4. Foff(t) + 1 - 1 = Foff(t)
  OBVIOUS
<1> QED
  BY <1>1, <1>2, <1>3, <1>4

\* Places of a stub in the area.
LEMMA StubFoff ==
  ASSUME ProbeInv, NEW t \in Int, NEW n \in Nat \ {0}, TRAMP_VADDR <= t, t + n <= TRAMP_VADDR + AreaSize
  PROVE  /\ Region(file, t, n) /\ Foff(t) \in Int
         /\ \A b \in Int : t <= b /\ b < t + n => Foff(b) = Foff(t) + (b - t)
<1>1. file \in Files
  BY DEF ProbeInv
<1>2. Region(file, t, n)
  BY <1>1, AreaRegion
<1> QED
  BY <1>2, RegionFoff

\* The stub of K ends with a RET.
LEMMA WholeKKept ==
  ASSUME ProbeInv, NEW e, NEW k, NEW w, Inserted(e, k, w), NEW t, WholeK(data, t)
  PROVE  WholeK(e, t) /\ Char(e, t) = Char(data, t) /\ Loaded(e, t + 14, 8) = Loaded(data, t + 14, 8)
<1>1. /\ t \in Int /\ TRAMP_VADDR <= t /\ t + 26 <= TRAMP_VADDR + AreaSize
      /\ Prints(data, t) /\ Loaded(data, t + 12, 2) = <<\h48, \hb8>>
      /\ Loaded(data, t + 22, 4) = <<\h0f, \h01, \h10, \hc3>>
  BY DEF WholeK
<1>2. 26 \in Nat \ {0} /\ 26 \in 1 .. 36
  OBVIOUS
<1> DEFINE r == t + 22
           m == t + 12
           a == t + 14
<1>3. /\ r \in Int /\ t <= r /\ r < t + 26 /\ r + 4 <= t + 26
      /\ m \in Int /\ t <= m /\ m + 2 <= t + 26
      /\ a \in Int /\ t <= a /\ a + 8 <= t + 26
  BY <1>1
<1> HIDE DEF r, m, a
<1>4. Foff(t) \in Int /\ Foff(r) = Foff(t) + (r - t)
  BY <1>1, <1>2, <1>3, StubFoff
<1>5. data[Foff(t)] # \hcc
  BY <1>1, <1>4, PrintsUsed
<1>6. data[Foff(t) + 26 - 1] # \hcc
  <2>1. Loaded(data, r, 4)[4] = data[Foff(r) + 4 - 1]
    BY DEF Loaded, Slice
  <2>2. Loaded(data, r, 4) = <<\h0f, \h01, \h10, \hc3>>
    BY <1>1 DEF r
  <2>3. Foff(r) + 4 - 1 = Foff(t) + 26 - 1
    BY <1>1, <1>4 DEF r
  <2> QED
    BY <2>1, <2>2, <2>3
<1>7. Region(file, t, 26) /\ Agree(data, e, t, 26)
  BY <1>1, <1>2, <1>5, <1>6, KeptStub
<1>8. Char(e, t) = Char(data, t) /\ Prints(e, t) = Prints(data, t)
  BY <1>7, AgreePrints
<1>9. /\ Loaded(e, r, 4) = Loaded(data, r, 4) /\ Loaded(e, m, 2) = Loaded(data, m, 2)
      /\ Loaded(e, a, 8) = Loaded(data, a, 8)
  <2>1. 4 \in Nat \ {0} /\ 2 \in Nat \ {0} /\ 8 \in Nat \ {0}
    OBVIOUS
  <2> QED
    BY <1>3, <1>7, <2>1, AgreeLoaded
<1> QED
  BY <1>1, <1>8, <1>9 DEF WholeK, r, m, a

\* The stub of X ends with a JMP forward.
LEMMA WholeXKept ==
  ASSUME ProbeInv, NEW e, NEW k, NEW w, Inserted(e, k, w), NEW t, WholeX(data, t)
  PROVE  WholeX(e, t) /\ Char(e, t) = Char(data, t) /\ Loaded(e, t + 12, 7) = Loaded(data, t + 12, 7)
<1>1. /\ t \in Int /\ TRAMP_VADDR <= t /\ t + 24 <= TRAMP_VADDR + AreaSize
      /\ Prints(data, t) /\ Loaded(data, t + 19, 1) = <<\he9>> /\ Target(data, t + 19) = XSK + 7
  BY DEF WholeX
<1>2. 24 \in Nat \ {0} /\ 24 \in 1 .. 36
  OBVIOUS
<1> DEFINE r == t + 19
           a == t + 12
<1>3. /\ r \in Int /\ t <= r /\ r < t + 24 /\ r + 5 <= t + 24 /\ r + 1 <= t + 24
      /\ a \in Int /\ t <= a /\ a + 7 <= t + 24
  BY <1>1
<1> HIDE DEF r, a
<1>4. Foff(t) \in Int /\ Foff(r) = Foff(t) + (r - t) /\ Region(file, t, 24)
  BY <1>1, <1>2, <1>3, StubFoff
<1>5. data[Foff(t)] # \hcc
  BY <1>1, <1>4, PrintsUsed
<1>6. data[Foff(t) + 24 - 1] # \hcc
  <2> DEFINE b == Slice(data, Foff(r) + 1, 4)
  <2>1. \A j \in 0 .. 24 - 1 : Foff(t) + j \in DOMAIN file.bytes
    BY <1>4, RegionPlaces, FoffPlace DEF ProbeInv
  <2>2. \A i \in 1 .. 4 : b[i] = data[Foff(t) + (19 + i)]
    <3> SUFFICES ASSUME NEW i \in 1 .. 4 PROVE b[i] = data[Foff(t) + (19 + i)]
      OBVIOUS
    <3>1. b[i] = data[(Foff(r) + 1) + i - 1]
      BY DEF Slice
    <3>2. (Foff(r) + 1) + i - 1 = Foff(t) + (19 + i)
      BY <1>1, <1>4 DEF r
    <3> QED
      BY <3>1, <3>2
  <2>3. \A i \in 1 .. 4 : b[i] \in Byte
    <3> SUFFICES ASSUME NEW i \in 1 .. 4 PROVE b[i] \in Byte
      OBVIOUS
    <3>1. Foff(t) + (19 + i) \in DOMAIN file.bytes
      BY <2>1
    <3> QED
      BY <2>2, <3>1 DEF ProbeInv
  <2>4. Target(data, r) = r + 5 + Signed(b)
    BY DEF Target
  <2>5. XSK + 7 = r + 5 + Signed(b)
    BY <1>1, <2>4 DEF r
  <2>6. t + 24 <= XSK
    <3>1. AreaSize \in Nat /\ AreaSize <= 426 * 1024
      BY AreaAssumption DEF AreaAssumption
    <3> QED
      BY <1>1, <3>1, SMT DEF TRAMP_VADDR, XSK
  <2> HIDE DEF b
  <2>7. Signed(b) > 0
    <3>1. XSK \in Int
      BY SMT DEF XSK
    <3>2. Signed(b) \in Int
      BY <2>3, SignedInt
    <3> QED
      BY <1>1, <1>3, <2>5, <2>6, <3>1, <3>2 DEF r
  <2>8. b[4] # \hcc
    <3> SUFFICES ASSUME b[4] = 204 PROVE FALSE
      BY SMT
    <3>1. Weight[2] = 256 /\ Weight[3] = 65536 /\ Weight[4] = 16777216
      BY SMT DEF Weight
    <3>2. Signed(b) = b[1] + 256 * b[2] + 65536 * b[3] + 16777216 * (204 - 256)
      BY <3>1 DEF Signed
    <3>3. b[1] \in 0 .. 255 /\ b[2] \in 0 .. 255 /\ b[3] \in 0 .. 255
      BY <2>3 DEF Byte
    <3> DEFINE x == b[1]
               y == b[2]
               z == b[3]
               v == Signed(b)
    <3>4. x \in 0 .. 255 /\ y \in 0 .. 255 /\ z \in 0 .. 255
      BY <3>3
    <3>5. v = x + 256 * y + 65536 * z + 16777216 * (204 - 256)
      BY <3>2
    <3>6. v > 0
      BY <2>7
    <3> HIDE DEF x, y, z, v
    <3> QED
      BY <3>4, <3>5, <3>6
  <2>9. Foff(t) + (19 + 4) = Foff(t) + 24 - 1
    BY <1>4
  <2> QED
    BY <2>2, <2>8, <2>9
<1>7. Agree(data, e, t, 24)
  BY <1>1, <1>2, <1>5, <1>6, KeptStub
<1>8. Char(e, t) = Char(data, t) /\ Prints(e, t) = Prints(data, t)
  BY <1>4, <1>7, AgreePrints
<1>9. /\ Loaded(e, r, 1) = Loaded(data, r, 1) /\ Loaded(e, a, 7) = Loaded(data, a, 7)
      /\ Target(e, r) = Target(data, r)
  <2>1. 1 \in Nat \ {0} /\ 7 \in Nat \ {0}
    OBVIOUS
  <2> QED
    BY <1>3, <1>4, <1>7, <2>1, AgreeLoaded, AgreeTarget
<1> QED
  BY <1>1, <1>8, <1>9 DEF WholeX, r, a

\* K, if it is there, has its whole stub, and so has X.
KSite == Va(Probes[1])
KWhole(d) ==
  Loaded(d, KSite, 1) = <<\he8>> =>
    Loaded(d, KSite + 5, 2) = <<\h90, \h90>> /\ WholeK(d, Target(d, KSite))
XWhole(d) ==
  Loaded(d, XSK, 1) = <<\he9>> => WholeX(d, Target(d, XSK))

\* What is looked at begins with the same byte, however much it is.
LEMMA FirstByte ==
  ASSUME NEW d, NEW a, NEW n \in Nat \ {0}
  PROVE  Loaded(d, a, n)[1] = Loaded(d, a, 1)[1]
  BY DEF Loaded, Slice

\* Where K and X are, and that they are not at the same place.
LEMMA FrontSites ==
  ASSUME ProbeInv
  PROVE  /\ 1 \in 1 .. Count /\ 2 \in 1 .. Count
         /\ Probes[1].how = "lgdt" /\ KSite = text_seg.vaddr + 119 /\ KSite \in Int
         /\ Region(file, KSite, 7) /\ Foff(KSite) = FoffOf(Probes[1])
         /\ Probes[2].how = "entry" /\ Probes[2].va = XSK /\ Va(Probes[2]) = XSK /\ XSK \in Int
         /\ Region(file, XSK, 7) /\ Foff(XSK) = FoffOf(Probes[2])
         /\ KSite # XSK
         /\ \A n \in 3 .. Count : Va(Probes[n]) # KSite /\ Va(Probes[n]) # XSK
<1>1. 1 \in 1 .. Count /\ 2 \in 1 .. Count
  BY ListMembers
<1>2. /\ Probes[1].how = "lgdt" /\ Probes[1].va = 119
      /\ Probes[2].how = "entry" /\ Probes[2].va = XSK
  BY ListMembers
<1>3. KSite = text_seg.vaddr + 119 /\ Va(Probes[2]) = XSK /\ SiteSize(Probes[1]) = 7 /\ SiteSize(Probes[2]) = 7
  BY <1>2 DEF KSite, Va, SiteSize
<1>4. Region(file, KSite, 7) /\ Foff(KSite) = FoffOf(Probes[1])
  BY <1>1, <1>3, SitePlaces DEF KSite
<1>5. Region(file, XSK, 7) /\ Foff(XSK) = FoffOf(Probes[2])
  BY <1>1, <1>3, SitePlaces
<1>6. KSite \in Int /\ XSK \in Int
  BY <1>4, <1>5, RegionFoff
<1>7. KSite # XSK
  <2>1. file \in Files /\ text_seg = Text(file)
    BY DEF ProbeInv
  <2>2. KSite + 7 <= TRAMP_VADDR /\ TRAMP_VADDR \in Int
    BY <1>3, <2>1, LgdtRegion, AreaInText
  <2>3. Probes[2] \in ProbeRecords
    BY <1>1, ProbeTypes
  <2>4. XSK >= AreaEnd
    BY <1>2, <2>3 DEF ProbeRecords
  <2> QED
    BY <1>6, <2>2, <2>4 DEF AreaEnd
<1>8. \A n \in 3 .. Count : Va(Probes[n]) # KSite /\ Va(Probes[n]) # XSK
  <2>1. 1 \in 1 .. 2 /\ 2 \in 1 .. 2
    OBVIOUS
  <2> QED
    BY <1>3, <2>1, CallElsewhere DEF KSite
<1> QED
  BY <1>1, <1>2, <1>3, <1>4, <1>5, <1>6, <1>7, <1>8

\* With such a stub startup_64 prints a character and loads a GDT.
LEMMA GdtStub ==
  ASSUME NEW d, NEW a, Loaded(d, a, 1) = <<\he8>>, Loaded(d, a + 5, 2) = <<\h90, \h90>>,
         WholeK(d, Target(d, a))
  PROVE  LET t == Target(d, a)
         IN  LoadsGdt(d, a) = [log |-> <<Char(d, t)>>, does |-> Loaded(d, t + 14, 8)]
<1>1. Loaded(d, a, 3) # <<\h0f, \h01, \h15>>
  <2>1. Loaded(d, a, 3)[1] = \he8
    BY FirstByte
  <2> QED
    BY <2>1
<1>2. LET t == Target(d, a)
      IN  Prints(d, t) /\ Loaded(d, t + 12, 2) = <<\h48, \hb8>>
          /\ Loaded(d, t + 22, 4) = <<\h0f, \h01, \h10, \hc3>>
  BY DEF WholeK
<1> QED
  BY <1>1, <1>2, Zenon DEF LoadsGdt

\* And x86_64_start_kernel prints one and goes on.
LEMMA EntryStub ==
  ASSUME NEW d, Loaded(d, XSK, 1) = <<\he9>>, WholeX(d, Target(d, XSK))
  PROVE  LET t == Target(d, XSK)
         IN  Entry(d, XSK) = [log |-> <<Char(d, t)>>, does |-> Loaded(d, t + 12, 7)]
<1>1. LET t == Target(d, XSK)
      IN  Prints(d, t) /\ Loaded(d, t + 19, 1) = <<\he9>> /\ Target(d, t + 19) = XSK + 7
  BY DEF WholeX
<1> QED
  BY <1>1, Zenon DEF Entry

\* Other probes leave the instructions of startup_64 alone.
LEMMA KKept ==
  ASSUME ProbeInv, NEW e, NEW k, NEW w, Inserted(e, k, w), k # 1, KWhole(data)
  PROVE  /\ KWhole(e) /\ Loaded(e, KSite, 1) = Loaded(data, KSite, 1)
         /\ LoadsGdt(e, KSite) = LoadsGdt(data, KSite)
<1> DEFINE a == KSite
           t == Target(data, a)
           b == a + 3
           c == a + 5
<1>1. a \in Int /\ Region(file, a, 7) /\ 1 \in 1 .. Count
  BY FrontSites
<1>2. Va(Probes[k]) # a
  BY FrontSites, ListMembers DEF Inserted
<1>3. Agree(data, e, a, 7)
  <2>1. SiteSize(Probes[1]) = 7
    BY FrontSites DEF SiteSize
  <2> QED
    BY <1>1, <1>2, <2>1, KeptSite DEF KSite
<1>4. /\ a <= a /\ a + 1 <= a + 7 /\ a + 3 <= a + 7 /\ a + 5 <= a + 7
      /\ b \in Int /\ a <= b /\ b + 4 <= a + 7
      /\ c \in Int /\ a <= c /\ c + 2 <= a + 7
      /\ 1 \in Nat \ {0} /\ 2 \in Nat \ {0} /\ 3 \in Nat \ {0} /\ 4 \in Nat \ {0}
  BY <1>1
<1> HIDE DEF a, t, b, c
<1>5. /\ Loaded(e, a, 1) = Loaded(data, a, 1) /\ Loaded(e, a, 3) = Loaded(data, a, 3)
      /\ Loaded(e, b, 4) = Loaded(data, b, 4) /\ Loaded(e, c, 2) = Loaded(data, c, 2)
  BY <1>1, <1>3, <1>4, AgreeLoaded
<1>6. Target(e, a) = t
  BY <1>1, <1>3, <1>4, AgreeTarget DEF t
<1>7. CASE Loaded(data, a, 1) # <<\he8>>
  <2>1. KWhole(e)
    BY <1>5, <1>7 DEF KWhole, a
  <2>2. LoadsGdt(e, a) = LoadsGdt(data, a)
    BY <1>5, <1>7, Zenon DEF LoadsGdt, b
  <2> QED
    BY <1>5, <2>1, <2>2 DEF a
<1>8. CASE Loaded(data, a, 1) = <<\he8>>
  <2>1. Loaded(data, c, 2) = <<\h90, \h90>> /\ WholeK(data, t)
    BY <1>8, Zenon DEF KWhole, a, c, t
  <2>2. /\ WholeK(e, t) /\ Char(e, t) = Char(data, t)
        /\ Loaded(e, t + 14, 8) = Loaded(data, t + 14, 8)
    BY <2>1, WholeKKept
  <2>3. KWhole(e)
    BY <1>5, <1>6, <2>1, <2>2, Zenon DEF KWhole, a, c
  <2>4. LoadsGdt(data, a) = [log |-> <<Char(data, t)>>, does |-> Loaded(data, t + 14, 8)]
    BY <1>8, <2>1, GdtStub, Zenon DEF c, t
  <2>5. LoadsGdt(e, a) = [log |-> <<Char(e, t)>>, does |-> Loaded(e, t + 14, 8)]
    <3>1. Loaded(e, a, 1) = <<\he8>> /\ Loaded(e, a + 5, 2) = <<\h90, \h90>>
      BY <1>5, <1>8, <2>1 DEF c
    <3>2. WholeK(e, Target(e, a))
      BY <1>6, <2>2
    <3> QED
      BY <1>6, <3>1, <3>2, GdtStub, ZenonT(30)
  <2>6. LoadsGdt(e, a) = LoadsGdt(data, a)
    BY <2>2, <2>4, <2>5, Zenon
  <2> QED
    BY <1>5, <2>3, <2>6 DEF a
<1> QED
  BY <1>7, <1>8

\* And the first instructions of x86_64_start_kernel.
LEMMA XKept ==
  ASSUME ProbeInv, NEW e, NEW k, NEW w, Inserted(e, k, w), k # 2, XWhole(data)
  PROVE  /\ XWhole(e) /\ Loaded(e, XSK, 1) = Loaded(data, XSK, 1)
         /\ Entry(e, XSK) = Entry(data, XSK)
<1> DEFINE a == XSK
           t == Target(data, a)
<1>1. a \in Int /\ Region(file, a, 7) /\ 2 \in 1 .. Count
  BY FrontSites
<1>2. Va(Probes[k]) # a
  BY FrontSites, ListMembers DEF Inserted, KSite
<1>3. Agree(data, e, a, 7)
  <2>1. SiteSize(Probes[2]) = 7 /\ Va(Probes[2]) = a
    BY FrontSites DEF SiteSize
  <2> QED
    BY <1>1, <1>2, <2>1, KeptSite
<1>4. /\ a <= a /\ a + 1 <= a + 7 /\ a + 7 <= a + 7 /\ a + 5 <= a + 7
      /\ 1 \in Nat \ {0} /\ 7 \in Nat \ {0}
  BY <1>1
<1> HIDE DEF a, t
<1>5. Loaded(e, a, 1) = Loaded(data, a, 1) /\ Loaded(e, a, 7) = Loaded(data, a, 7)
  BY <1>1, <1>3, <1>4, AgreeLoaded
<1>6. Target(e, a) = t
  BY <1>1, <1>3, <1>4, AgreeTarget DEF t
<1>7. CASE Loaded(data, a, 1) # <<\he9>>
  <2>1. XWhole(e)
    BY <1>5, <1>7 DEF XWhole, a
  <2>2. Entry(e, a) = Entry(data, a)
    BY <1>5, <1>7, Zenon DEF Entry
  <2> QED
    BY <1>5, <2>1, <2>2 DEF a
<1>8. CASE Loaded(data, a, 1) = <<\he9>>
  <2>1. WholeX(data, t)
    BY <1>8, Zenon DEF XWhole, a, t
  <2>2. /\ WholeX(e, t) /\ Char(e, t) = Char(data, t)
        /\ Loaded(e, t + 12, 7) = Loaded(data, t + 12, 7)
    BY <2>1, WholeXKept
  <2>3. XWhole(e)
    BY <1>6, <2>2, Zenon DEF XWhole, a
  <2>4. /\ Prints(e, t) /\ Prints(data, t)
        /\ Loaded(e, t + 19, 1) = Loaded(data, t + 19, 1)
        /\ Target(e, t + 19) = Target(data, t + 19)
    BY <2>1, <2>2 DEF WholeX
  <2>5. Entry(e, a) = Entry(data, a)
    BY <1>5, <1>6, <2>2, <2>4, ZenonT(30) DEF Entry, t
  <2> QED
    BY <1>5, <2>3, <2>5 DEF a
<1> QED
  BY <1>7, <1>8

\* Bytes that were written are loaded.
LEMMA LoadWritten ==
  ASSUME NEW d, NEW a, NEW b, NEW n \in Nat, Bytes(b, n), Wrote(d, Foff(a), b)
  PROVE  Loaded(d, a, n) = b
  BY WroteSlice DEF Bytes, Loaded

\* What is written of probe k, where.
LEMMA Written ==
  ASSUME ProbeInv, NEW e, NEW k, NEW w, Inserted(e, k, w)
  PROVE  LET p == Probes[k]
         IN  /\ p \in ProbeRecords /\ p.ch \in Byte
             /\ w \in Int /\ TRAMP_VADDR <= w /\ w + 36 <= TRAMP_VADDR + AreaSize
             /\ w <= TRAMP_VADDR + AreaSize /\ InArea(w)
             /\ Region(file, w, 36) /\ Foff(w) \in Int
             /\ Wrote(e, Foff(w), Stub(p, w)) /\ Wrote(e, Foff(Va(p)), Redirect(p, w))
             /\ Bytes(serial_write_bytes(p.ch), 12)
             /\ Region(file, Va(p), SiteSize(p)) /\ Va(p) \in Int /\ Foff(Va(p)) \in Int
             /\ \A o \in 0 .. SiteSize(p) - 1 : data[Foff(Va(p)) + o] \in Byte
<1> DEFINE p == Probes[k]
<1>1. k \in 1 .. Count /\ p \in ProbeRecords /\ p.ch \in Byte
  BY ProbeTypes DEF Inserted, ProbeRecords
<1>2. /\ w \in Int /\ TRAMP_VADDR <= w /\ w + Request(p) + 4 <= TRAMP_VADDR + AreaSize
      /\ TRAMP_VADDR \in Int /\ AreaSize \in Nat /\ Request(p) \in {32, 48}
      /\ Foff(w) = TRAMP_FOFF + (w - TRAMP_VADDR)
  BY StubPlaces
<1>3. w + 36 <= TRAMP_VADDR + AreaSize /\ w <= TRAMP_VADDR + AreaSize /\ 36 \in Nat \ {0} /\ InArea(w)
  BY <1>2 DEF InArea
<1>4. Region(file, w, 36) /\ Foff(w) \in Int
  BY <1>2, <1>3, StubFoff
<1>5. Region(file, Va(p), SiteSize(p)) /\ Foff(Va(p)) = FoffOf(p)
  BY <1>1, SitePlaces
<1>6. Wrote(e, Foff(w), Stub(p, w)) /\ Wrote(e, FoffOf(p), Redirect(p, w))
  <2>1. w - TRAMP_VADDR \in Nat /\ TRAMP_VADDR + (w - TRAMP_VADDR) = w
    BY <1>2
  <2> QED
    BY <1>2, <2>1 DEF Inserted, Effect
<1>7. Bytes(serial_write_bytes(p.ch), 12)
  BY <1>1, PrintBytes
<1>8. Va(p) \in Int /\ Foff(Va(p)) \in Int
  BY <1>5, RegionFoff
<1>9. \A o \in 0 .. SiteSize(p) - 1 : data[Foff(Va(p)) + o] \in Byte
  <2>1. file \in Files /\ Foff(Va(p)) = Place(file, Va(p))
    BY FoffPlace DEF ProbeInv
  <2>2. \A o \in 0 .. SiteSize(p) - 1 : Foff(Va(p)) + o \in DOMAIN file.bytes
    BY <1>5, <2>1, RegionPlaces
  <2> QED
    BY <2>2 DEF ProbeInv
<1> QED
  BY <1>1, <1>2, <1>3, <1>4, <1>5, <1>6, <1>7, <1>8, <1>9

\* K: a CALL of a stub that loads what the lgdt loaded.
LEMMA NewK ==
  ASSUME ProbeInv, NEW e, NEW w, Inserted(e, 1, w), Loaded(data, KSite, 3) = <<\h0f, \h01, \h15>>
  PROVE  LET l == LoadsGdt(e, KSite)  m == LoadsGdt(data, KSite)
         IN  /\ KWhole(e) /\ Loaded(e, KSite, 1) = <<\he8>>
             /\ l.log = <<Probes[1].ch>> /\ m.log = <<>> /\ l.does = m.does
<1> DEFINE p == Probes[1]
           a == KSite
           print == serial_write_bytes(p.ch)
           mov == <<\h48, \hb8>>
           ret == <<\h0f, \h01, \h10, \hc3>>
           nops == <<\h90, \h90>>
           gdt == LE(Gdt(p), 8)
           call == Jump(\he8, a, w)
<1>1. /\ p.how = "lgdt" /\ Va(p) = a /\ SiteSize(p) = 7 /\ StubSize(p) = 26 /\ a \in Int
      /\ Foff(a) = FoffOf(p) /\ Region(file, a, 7)
  BY FrontSites DEF KSite, SiteSize, StubSize
<1>2. /\ p.ch \in Byte /\ w \in Int /\ TRAMP_VADDR <= w /\ w + 36 <= TRAMP_VADDR + AreaSize
      /\ w <= TRAMP_VADDR + AreaSize /\ InArea(w) /\ Region(file, w, 36) /\ Foff(w) \in Int
      /\ Wrote(e, Foff(w), Stub(p, w)) /\ Wrote(e, Foff(a), Redirect(p, w))
      /\ Bytes(print, 12) /\ Foff(a) \in Int
      /\ \A o \in 0 .. 7 - 1 : data[Foff(a) + o] \in Byte
  BY <1>1, Written, Zenon
<1>3. Gdt(p) = a + 7 + Signed(Slice(data, Foff(a) + 3, 4)) /\ Signed(Slice(data, Foff(a) + 3, 4)) \in Int
  <2>1. \A i \in 1 .. 4 : Slice(data, Foff(a) + 3, 4)[i] \in Byte
    <3> SUFFICES ASSUME NEW i \in 1 .. 4 PROVE Slice(data, Foff(a) + 3, 4)[i] \in Byte
      OBVIOUS
    <3>1. Slice(data, Foff(a) + 3, 4)[i] = data[(Foff(a) + 3) + i - 1]
      BY DEF Slice
    <3>2. (Foff(a) + 3) + i - 1 = Foff(a) + (2 + i) /\ 2 + i \in 0 .. 7 - 1
      BY <1>2
    <3> QED
      BY <1>2, <3>1, <3>2
  <2> QED
    BY <1>1, <2>1, SignedInt DEF Gdt
<1>4. Gdt(p) \in Int
  BY <1>1, <1>3
<1>5. Bytes(gdt, 8) /\ Bytes(mov, 2) /\ Bytes(ret, 4) /\ Bytes(nops, 2) /\ \he8 \in Byte
  BY <1>4, LEBytes, OpcodeBytes
<1>6. Bytes(call, 5)
  BY <1>1, <1>2, <1>5, JumpBytes
<1>7. Stub(p, w) = print \o (mov \o gdt \o ret) /\ Redirect(p, w) = call \o nops
  BY <1>1, Zenon DEF Stub, Redirect
<1> HIDE DEF p, a, print, mov, ret, nops, gdt, call
<1>8. Bytes(mov \o gdt, 10)
  BY <1>5, Join
<1>9. Bytes((mov \o gdt) \o ret, 14)
  BY <1>5, <1>8, Join
<1>10. Wrote(e, Foff(w), print) /\ Wrote(e, Foff(w) + 12, (mov \o gdt) \o ret)
  <2>1. Wrote(e, Foff(w), print \o ((mov \o gdt) \o ret))
    BY <1>2, <1>7
  <2> QED
    BY <1>2, <1>9, <2>1, WroteCat, SMTT(30)
<1>11. Wrote(e, Foff(w) + 12, mov \o gdt) /\ Wrote(e, Foff(w) + 12 + 10, ret)
  BY <1>2, <1>5, <1>8, <1>10, WroteCat
<1>12. Wrote(e, Foff(w) + 12, mov) /\ Wrote(e, Foff(w) + 12 + 2, gdt)
  BY <1>2, <1>5, <1>11, WroteCat
<1>13. Wrote(e, Foff(a), call) /\ Wrote(e, Foff(a) + 5, nops)
  BY <1>2, <1>5, <1>6, <1>7, WroteCat
<1> DEFINE m == w + 12
           g == w + 14
           r == w + 22
           c == a + 5
           v == a + 3
<1>14. /\ m \in Int /\ w <= m /\ m < w + 36 /\ g \in Int /\ w <= g /\ g < w + 36
       /\ r \in Int /\ w <= r /\ r < w + 36
       /\ c \in Int /\ a <= c /\ c < a + 7 /\ v \in Int /\ a <= v /\ v < a + 7
  BY <1>1, <1>2
<1>15. /\ Foff(m) = Foff(w) + (m - w) /\ Foff(g) = Foff(w) + (g - w) /\ Foff(r) = Foff(w) + (r - w)
       /\ Foff(c) = Foff(a) + (c - a) /\ Foff(v) = Foff(a) + (v - a)
  BY <1>1, <1>2, <1>14, RegionFoff
<1>16. /\ Foff(m) = Foff(w) + 12 /\ Foff(g) = Foff(w) + 12 + 2 /\ Foff(r) = Foff(w) + 12 + 10
       /\ Foff(c) = Foff(a) + 5 /\ Foff(v) = Foff(a) + 3
  BY <1>1, <1>2, <1>15
<1> HIDE DEF m, g, r, c, v
<1>17. Loaded(e, m, 2) = mov /\ Loaded(e, g, 8) = gdt /\ Loaded(e, r, 4) = ret /\ Loaded(e, c, 2) = nops
  BY <1>5, <1>11, <1>12, <1>13, <1>16, LoadWritten
<1>18. Prints(e, w) /\ Char(e, w) = p.ch
  <2>1. Wrote(e, Foff(w), serial_write_bytes(p.ch))
    BY <1>10 DEF print
  <2>2. 12 <= 36
    OBVIOUS
  <2> QED
    BY <1>2, <2>1, <2>2, PrintsWritten
<1>19. Loaded(e, a, 1) = <<\he8>> /\ Target(e, a) = w
  <2>1. Region(file, a, 5)
    <3>1. 5 \in Nat \ {0} /\ a <= a /\ a + 5 <= a + 7 /\ file \in Files
      BY <1>1 DEF ProbeInv
    <3> QED
      BY <1>1, <3>1, RegionPart
  <2>2. Rel32(w - (a + 5))
    <3>1. 1 \in 1 .. Count
      BY FrontSites
    <3>2. Rel32(w - (Va(Probes[1]) + 5))
      BY <1>2, <3>1, Reach
    <3> QED
      BY <3>2 DEF a, KSite
  <2>3. Wrote(e, Foff(a), Jump(\he8, a, w))
    BY <1>13 DEF call
  <2> QED
    BY <1>2, <1>5, <2>1, <2>2, <2>3, JumpTarget
<1>20. WholeK(e, w)
  <2>1. w + 26 <= TRAMP_VADDR + AreaSize
    <3>1. TRAMP_VADDR \in Int /\ AreaSize \in Nat
      BY <1>2, AreaFoff
    <3> QED
      BY <1>2, <3>1
  <2> QED
    BY <1>2, <1>17, <1>18, <2>1, Zenon DEF WholeK, m, r, mov, ret
<1>21. KWhole(e)
  BY <1>17, <1>19, <1>20, Zenon DEF KWhole, a, c, nops
<1>22. LoadsGdt(e, a) = [log |-> <<p.ch>>, does |-> gdt]
  <2>1. LoadsGdt(e, a) = [log |-> <<Char(e, w)>>, does |-> Loaded(e, w + 14, 8)]
    BY <1>17, <1>19, <1>20, GdtStub, ZenonT(30) DEF c, nops
  <2> QED
    BY <1>17, <1>18, <2>1, Zenon DEF g
<1>23. LoadsGdt(data, a) = Plain(gdt)
  <2>1. LoadsGdt(data, a) = Plain(LE(a + 7 + Signed(Loaded(data, v, 4)), 8))
    <3>1. Loaded(data, a, 1) # <<\he8>>
      <4>1. Loaded(data, a, 3)[1] = Loaded(data, a, 1)[1] /\ Loaded(data, a, 3)[1] = \h0f
        BY FirstByte DEF a
      <4> QED
        BY <4>1
    <3>2. Loaded(data, a, 3) = <<\h0f, \h01, \h15>>
      BY DEF a
    <3> QED
      BY <3>1, <3>2, Zenon DEF LoadsGdt, v
  <2>2. Loaded(data, v, 4) = Slice(data, Foff(a) + 3, 4)
    BY <1>16 DEF Loaded
  <2> QED
    BY <1>3, <2>1, <2>2, Zenon DEF gdt
<1> QED
  BY <1>19, <1>21, <1>22, <1>23 DEF Plain, a, p

\* X: a JMP to a stub that has the bytes of the site and goes back behind it.
LEMMA NewX ==
  ASSUME ProbeInv, NEW e, NEW w, Inserted(e, 2, w), Loaded(data, XSK, 1) = <<\h53>>
  PROVE  LET l == Entry(e, XSK)  m == Entry(data, XSK)
         IN  /\ XWhole(e) /\ Loaded(e, XSK, 1) = <<\he9>>
             /\ l.log = <<Probes[2].ch>> /\ m.log = <<>> /\ l.does = m.does
<1> DEFINE p == Probes[2]
           a == XSK
           back == XSK + 7
           print == serial_write_bytes(p.ch)
           nops == <<\h90, \h90>>
           old == Slice(data, FoffOf(p), 7)
           jump == Jump(\he9, w + 19, back)
           jmp == Jump(\he9, a, w)
<1>1. /\ p.how = "entry" /\ p.va = a /\ Va(p) = a /\ SiteSize(p) = 7 /\ StubSize(p) = 24 /\ a \in Int
      /\ Foff(a) = FoffOf(p) /\ Region(file, a, 7) /\ back \in Int
  BY FrontSites DEF SiteSize, StubSize
<1>2. /\ p.ch \in Byte /\ w \in Int /\ TRAMP_VADDR <= w /\ w + 36 <= TRAMP_VADDR + AreaSize
      /\ w <= TRAMP_VADDR + AreaSize /\ InArea(w) /\ Region(file, w, 36) /\ Foff(w) \in Int
      /\ Wrote(e, Foff(w), Stub(p, w)) /\ Wrote(e, Foff(a), Redirect(p, w))
      /\ Bytes(print, 12) /\ Foff(a) \in Int
      /\ \A o \in 0 .. 7 - 1 : data[Foff(a) + o] \in Byte
  BY <1>1, Written, ZenonT(30)
<1>3. Bytes(old, 7)
  <2>1. file \in Files /\ Foff(a) = Place(file, a) /\ data \in [DOMAIN file.bytes -> Byte]
    BY FoffPlace DEF ProbeInv
  <2>2. \A o \in 0 .. 7 - 1 : Foff(a) + o \in DOMAIN file.bytes
    BY <1>1, <2>1, RegionPlaces
  <2>3. Foff(a) .. Foff(a) + 7 - 1 \subseteq DOMAIN file.bytes
    <3> SUFFICES ASSUME NEW x \in Foff(a) .. Foff(a) + 7 - 1 PROVE x \in DOMAIN file.bytes
      OBVIOUS
    <3>1. x - Foff(a) \in 0 .. 7 - 1 /\ Foff(a) + (x - Foff(a)) = x
      BY <1>2
    <3> QED
      BY <2>2, <3>1
  <2> QED
    BY <1>1, <1>2, <2>1, <2>3, SliceBytes
<1>4. Bytes(nops, 2) /\ \he9 \in Byte /\ w + 19 \in Int
  BY <1>2, OpcodeBytes
<1>5. Bytes(jump, 5) /\ Bytes(jmp, 5)
  BY <1>1, <1>2, <1>4, JumpBytes
<1>6. Stub(p, w) = print \o (old \o jump) /\ Redirect(p, w) = jmp \o nops
  BY <1>1, ZenonT(30) DEF Stub, Redirect
<1> HIDE DEF p, a, back, print, nops, old, jump, jmp
<1>7. Bytes(old \o jump, 12)
  BY <1>3, <1>5, Join
<1>8. Wrote(e, Foff(w), print) /\ Wrote(e, Foff(w) + 12, old \o jump)
  BY <1>2, <1>6, <1>7, WroteCat
<1>9. Wrote(e, Foff(w) + 12, old) /\ Wrote(e, Foff(w) + 12 + 7, jump)
  BY <1>2, <1>3, <1>5, <1>8, WroteCat
<1>10. Wrote(e, Foff(a), jmp)
  BY <1>2, <1>4, <1>5, <1>6, WroteCat
<1> DEFINE m == w + 12
           r == w + 19
<1>11. /\ m \in Int /\ w <= m /\ m < w + 36
       /\ r \in Int /\ w <= r /\ r < w + 36 /\ r + 5 <= w + 36
  BY <1>2
<1>12. Foff(m) = Foff(w) + (m - w) /\ Foff(r) = Foff(w) + (r - w)
  BY <1>2, <1>11, RegionFoff
<1>13. Foff(m) = Foff(w) + 12 /\ Foff(r) = Foff(w) + 12 + 7
  BY <1>2, <1>12
<1> HIDE DEF m, r
<1>14. Loaded(e, m, 7) = old
  BY <1>3, <1>9, <1>13, LoadWritten
<1>15. Prints(e, w) /\ Char(e, w) = p.ch
  <2>1. Wrote(e, Foff(w), serial_write_bytes(p.ch))
    BY <1>8 DEF print
  <2>2. 12 <= 36
    OBVIOUS
  <2> QED
    BY <1>2, <2>1, <2>2, PrintsWritten
<1>16. 5 \in Nat \ {0} /\ a <= a /\ a + 5 <= a + 7 /\ file \in Files
  BY <1>1 DEF ProbeInv
<1>17. Region(file, a, 5) /\ Region(file, r, 5)
  BY <1>1, <1>2, <1>11, <1>16, RegionPart
<1>18. Rel32(w - (a + 5)) /\ Rel32(back - (r + 5))
  <2>1. 2 \in 1 .. Count /\ Va(Probes[2]) = a
    BY FrontSites DEF a
  <2>2. Rel32(w - (Va(Probes[2]) + 5)) /\ Rel32((XSK + 7) - ((w + 19) + 5))
    BY <1>2, <2>1, Reach
  <2> QED
    BY <2>1, <2>2, Zenon DEF r, back
<1>19. Loaded(e, a, 1) = <<\he9>> /\ Target(e, a) = w
  <2>1. Wrote(e, Foff(a), Jump(\he9, a, w))
    BY <1>10 DEF jmp
  <2> QED
    BY <1>2, <1>4, <1>17, <1>18, <2>1, JumpTarget
<1>20. Loaded(e, r, 1) = <<\he9>> /\ Target(e, r) = back
  <2>1. Wrote(e, Foff(r), Jump(\he9, r, back))
    BY <1>9, <1>13 DEF jump, r
  <2> QED
    BY <1>1, <1>4, <1>17, <1>18, <2>1, JumpTarget
<1>21. WholeX(e, w)
  <2>1. w + 24 <= TRAMP_VADDR + AreaSize
    <3>1. TRAMP_VADDR \in Int /\ AreaSize \in Nat
      BY <1>2, AreaFoff
    <3> QED
      BY <1>2, <3>1
  <2> QED
    BY <1>2, <1>15, <1>20, <2>1, Zenon DEF WholeX, r, back
<1>22. XWhole(e)
  BY <1>19, <1>21, Zenon DEF XWhole, a
<1>23. Entry(e, a) = [log |-> <<p.ch>>, does |-> old]
  <2>1. Entry(e, a) = [log |-> <<Char(e, w)>>, does |-> Loaded(e, w + 12, 7)]
    BY <1>19, <1>21, EntryStub, Zenon DEF a
  <2> QED
    BY <1>14, <1>15, <2>1, Zenon DEF m
<1>24. Entry(data, a) = Plain(old)
  <2>1. Loaded(data, a, 1) # <<\he9>>
    BY DEF a
  <2>2. Loaded(data, a, 7) = old
    BY <1>1 DEF Loaded, old
  <2> QED
    BY <2>1, <2>2, Zenon DEF Entry
<1> QED
  BY <1>19, <1>22, <1>23, <1>24 DEF Plain, a, p

-----------------------------------------------------------------------------
(* Images that the first probes made. *)

\* No character is twice in l, and those in it are of the first m probes.
GoodLog(l, m) ==
  /\ Len(l) <= m
  /\ \A i \in DOMAIN l : \E j \in 1 .. m : l[i] = Probes[j].ch
  /\ \A i, j \in DOMAIN l : l[i] = l[j] => i = j

\* Image d was made by the first m probes from an input.
Sound(d, m) ==
  /\ KWhole(d) /\ (m >= 1 => Loaded(d, KSite, 1) = <<\he8>>)
  /\ XWhole(d) /\ (m >= 2 => Loaded(d, XSK, 1) = <<\he9>>)
  /\ \E W : Linked(d, W)
  /\ \A n \in 3 .. Count :
       Loaded(d, Probes[n].va, 1) = <<\he8>> => GoodLog(Trace(d, Probes[n].va).log, m)

\* So they are of more probes.
LEMMA GoodMore ==
  ASSUME NEW l \in Seq(Byte), NEW m \in Nat, NEW n \in Nat, m <= n, GoodLog(l, m)
  PROVE  GoodLog(l, n)
<1>1. Len(l) \in Nat
  BY LenProperties
<1>2. Len(l) <= n
  BY <1>1 DEF GoodLog
<1>3. 1 .. m \subseteq 1 .. n
  OBVIOUS
<1> QED
  BY <1>2, <1>3 DEF GoodLog

\* The next probe prints a character that was not printed before.
LEMMA GoodNext ==
  ASSUME NEW d, NEW t, NEW r \in Finding, NEW k \in 1 .. Count, GoodLog(r.log, k - 1),
         Char(d, t) = Probes[k].ch, Char(d, t) \in Byte
  PROVE  GoodLog(Behind(d, t, r).log, k)
<1> DEFINE l == Behind(d, t, r).log
           o == r.log
<1>1. /\ Behind(d, t, r) \in Finding /\ Len(o) \in Nat /\ Len(l) = Len(o) + 1
      /\ l[1] = Char(d, t)
      /\ \A i \in 2 .. Len(o) + 1 : l[i] = o[i - 1]
  BY Prepend, ZenonT(30)
<1>2. o \in Seq(Byte) /\ l \in Seq(Byte)
  BY <1>1 DEF Finding
<1>3. DOMAIN o = 1 .. Len(o) /\ DOMAIN l = 1 .. Len(l)
  BY <1>2, LenProperties
<1>4. Count \in Nat /\ k \in Nat
  BY ProbeTypes
<1>5. /\ Len(o) <= k - 1
      /\ \A i \in DOMAIN o : \E j \in 1 .. k - 1 : o[i] = Probes[j].ch
      /\ \A i, j \in DOMAIN o : o[i] = o[j] => i = j
  BY DEF GoodLog
<1> HIDE DEF l, o
<1>6. \A i \in DOMAIN l : i = 1 \/ (i - 1 \in DOMAIN o /\ l[i] = o[i - 1])
  BY <1>1, <1>3
<1>7. 1 \in DOMAIN l /\ \A j \in 1 .. k - 1 : j \in 1 .. Count /\ j \in 1 .. k /\ j # k
  BY <1>1, <1>3, <1>4
<1>8. \A i \in DOMAIN o : o[i] # Probes[k].ch
  BY <1>5, <1>7, CharsDiffer
<1>9. \A i \in DOMAIN l : \E j \in 1 .. k : l[i] = Probes[j].ch
  <2> SUFFICES ASSUME NEW i \in DOMAIN l PROVE \E j \in 1 .. k : l[i] = Probes[j].ch
    OBVIOUS
  <2>1. CASE i = 1
    BY <1>1, <1>4, <2>1
  <2>2. CASE i # 1
    BY <1>5, <1>6, <1>7, <2>2
  <2> QED
    BY <2>1, <2>2
<1>10. ASSUME NEW i \in DOMAIN l, NEW j \in DOMAIN l, l[i] = l[j] PROVE i = j
  <2>1. CASE i = 1 /\ j # 1
    BY <1>1, <1>6, <1>8, <1>10, <2>1
  <2>2. CASE i # 1 /\ j = 1
    BY <1>1, <1>6, <1>8, <1>10, <2>2
  <2>3. CASE i # 1 /\ j # 1
    <3>1. i - 1 \in DOMAIN o /\ j - 1 \in DOMAIN o /\ o[i - 1] = o[j - 1]
      BY <1>6, <1>10, <2>3
    <3>2. i - 1 = j - 1
      BY <1>5, <3>1
    <3>3. i \in Int /\ j \in Int
      BY <1>1, <1>3
    <3> QED
      BY <3>2, <3>3
  <2> QED
    BY <2>1, <2>2, <2>3
<1>11. Len(l) <= k
  BY <1>1, <1>4, <1>5
<1> QED
  BY <1>9, <1>10, <1>11 DEF GoodLog, l

\* What a site as expected has.
LEMMA ExpectedLoaded ==
  ASSUME ProbeInv, NEW k \in 1 .. Count, Expected(Probes[k])
  PROVE  /\ k = 1 => Loaded(data, KSite, 3) = <<\h0f, \h01, \h15>>
         /\ k = 2 => Loaded(data, XSK, 1) = <<\h53>>
         /\ k \in 3 .. Count => Loaded(data, Probes[k].va, 1) = <<\he8>>
<1> DEFINE p == Probes[k]
<1>1. Foff(Va(p)) = FoffOf(p)
  BY SitePlaces
<1>2. /\ Len(<<\h0f, \h01, \h15>>) = 3 /\ Len(<<\h53>>) = 1 /\ Len(<<\he8>>) = 1
  OBVIOUS
<1>3. CASE k = 1
  <2>1. p.how = "lgdt" /\ Va(p) = KSite
    BY <1>3, FrontSites DEF KSite
  <2>2. Has(FoffOf(p), <<\h0f, \h01, \h15>>)
    BY <2>1 DEF Expected
  <2> QED
    BY <1>1, <1>2, <1>3, <2>1, <2>2 DEF Has, Loaded
<1>4. CASE k = 2
  <2>1. p.how = "entry" /\ Va(p) = XSK
    BY <1>4, FrontSites
  <2>2. Has(FoffOf(p), <<\h53>>)
    BY <2>1 DEF Expected
  <2> QED
    BY <1>1, <1>2, <1>4, <2>1, <2>2 DEF Has, Loaded
<1>5. CASE k \in 3 .. Count
  <2>1. p.how = "call" /\ Va(p) = p.va
    BY <1>5, CallElsewhere
  <2>2. Has(FoffOf(p), <<\he8>>)
    BY <2>1 DEF Expected
  <2>3. k # 1 /\ k # 2
    BY <1>5
  <2> QED
    BY <1>1, <1>2, <2>1, <2>2, <2>3 DEF Has, Loaded
<1>6. k = 1 \/ k = 2 \/ k \in 3 .. Count
  BY ProbeTypes
<1> QED
  BY <1>3, <1>4, <1>5, <1>6

\* One probe more.
LEMMA InsertSound ==
  ASSUME ProbeInv, NEW k \in 1 .. Count, NEW e, NEW w, Inserted(e, k, w), Expected(Probes[k]),
         Sound(data, k - 1)
  PROVE  Sound(e, k)
<1>1. Count = 24 /\ k \in Nat /\ k - 1 \in Nat /\ k - 1 <= k
  BY ListMembers
<1>2. /\ k = 1 => Loaded(data, KSite, 3) = <<\h0f, \h01, \h15>>
      /\ k = 2 => Loaded(data, XSK, 1) = <<\h53>>
      /\ k \in 3 .. Count => Loaded(data, Probes[k].va, 1) = <<\he8>>
  BY ExpectedLoaded
<1>3. KWhole(e) /\ Loaded(e, KSite, 1) = <<\he8>>
  <2>1. CASE k = 1
    BY <1>2, <2>1, NewK
  <2>2. CASE k # 1
    <3>1. k - 1 >= 1
      BY <1>1, <2>2
    <3>2. KWhole(data) /\ Loaded(data, KSite, 1) = <<\he8>>
      BY <3>1 DEF Sound
    <3> QED
      BY <2>2, <3>2, KKept
  <2> QED
    BY <2>1, <2>2
<1>4. XWhole(e) /\ (k >= 2 => Loaded(e, XSK, 1) = <<\he9>>)
  <2>1. CASE k = 2
    BY <1>2, <2>1, NewX
  <2>2. CASE k # 2
    <3>1. k >= 2 => k - 1 >= 2
      BY <1>1, <2>2
    <3>2. XWhole(data) /\ (k >= 2 => Loaded(data, XSK, 1) = <<\he9>>)
      BY <3>1 DEF Sound
    <3> QED
      BY <2>2, <3>2, XKept
  <2> QED
    BY <2>1, <2>2
<1>5. PICK W : Linked(data, W)
  BY DEF Sound
<1>6. Called(k)
  BY <1>2 DEF Called
<1>7. \E V : Linked(e, V)
  BY <1>5, <1>6, LinkedInserted
<1>8. ASSUME NEW n \in 3 .. Count, Loaded(e, Probes[n].va, 1) = <<\he8>>
      PROVE  GoodLog(Trace(e, Probes[n].va).log, k)
  <2> DEFINE va == Probes[n].va
  <2>1. CASE va # Va(Probes[k])
    <3>1. Loaded(data, va, 1) = <<\he8>>
      BY <1>8, <2>1, OtherCall
    <3>2. Trace(e, va) = Trace(data, va)
      BY <1>5, <2>1, <3>1, OtherTrace
    <3>3. Trace(data, va).log \in Seq(Byte)
      BY <1>5, <3>1, TraceFinds DEF Finding
    <3>4. GoodLog(Trace(data, va).log, k - 1)
      BY <3>1 DEF Sound
    <3> QED
      BY <1>1, <3>2, <3>3, <3>4, GoodMore
  <2>2. CASE va = Va(Probes[k])
    <3>1. k \in 3 .. Count
      <4>1. Va(Probes[n]) = va
        BY CallElsewhere
      <4>2. \A x \in 1 .. 2 : va # Va(Probes[x])
        BY <4>1, CallElsewhere
      <4>3. k \notin 1 .. 2
        BY <2>2, <4>2
      <4> QED
        BY <1>1, <4>3
    <3>2. Va(Probes[k]) = Probes[k].va
      BY <3>1, CallElsewhere
    <3>3. Loaded(data, va, 1) = <<\he8>>
      BY <1>2, <2>2, <3>1, <3>2
    <3>4. Trace(data, va) \in Finding
      BY <1>5, <3>3, TraceFinds
    <3>5. GoodLog(Trace(data, va).log, k - 1)
      BY <3>3 DEF Sound
    <3>6. Len(Trace(data, va).log) < Count
      <4>1. Len(Trace(data, va).log) \in Nat
        BY <3>4, LenProperties DEF Finding
      <4> QED
        BY <1>1, <3>5, <4>1 DEF GoodLog
    <3>7. /\ Trace(e, va) = Behind(e, w, Trace(data, va))
          /\ Char(e, w) = Probes[k].ch /\ Char(e, w) \in Byte
      BY <1>5, <1>6, <2>2, <3>1, <3>2, <3>6, NewTrace
    <3> HIDE DEF va
    <3> QED
      BY <3>4, <3>5, <3>7, GoodNext DEF va
  <2> QED
    BY <2>1, <2>2
<1> QED
  BY <1>3, <1>4, <1>7, <1>8 DEF Sound

-----------------------------------------------------------------------------
(* The input is such an image. *)

\* So many probes the image has: an output has all of them.
Top == IF out = <<>> THEN step - 1 ELSE Count

\* The image was made by the probes up to here, and another run does not insert
\* one more: it finds K, and goes no further than X.
OnceInv ==
  /\ ProbeInv
  /\ Sound(data, Top)
  /\ out # <<>> => out = data /\ (step = 1 \/ step = 2 \/ step = Count + 1)

\* The byte an instruction begins with.
LEMMA OneByte ==
  ASSUME NEW d, NEW a, NEW c, Foff(a) \in Int
  PROVE  Loaded(d, a, 1) = <<c>> <=> d[Foff(a)] = c
<1>1. Loaded(d, a, 1) = [k \in 1 .. 1 |-> d[Foff(a) + k - 1]]
  BY DEF Loaded, Slice
<1>2. Loaded(d, a, 1)[1] = d[Foff(a)]
  <2>1. Foff(a) + 1 - 1 = Foff(a)
    OBVIOUS
  <2> QED
    BY <1>1, <2>1
<1>3. d[Foff(a)] = c => Loaded(d, a, 1) = <<c>>
  <2> SUFFICES ASSUME d[Foff(a)] = c PROVE Loaded(d, a, 1) = <<c>>
    OBVIOUS
  <2>1. Loaded(d, a, 1) = [k \in 1 .. 1 |-> c]
    BY <1>1
  <2> QED
    BY <2>1
<1> QED
  BY <1>2, <1>3

\* Numbers in the instruction of a site are numbers.
LEMMA SiteTarget ==
  ASSUME ProbeInv, NEW a, Region(file, a, 5)
  PROVE  Target(data, a) \in Int
<1> DEFINE b == Slice(data, Foff(a) + 1, 4)
<1>1. Foff(a) \in Int /\ a \in Int
  BY RegionFoff
<1>2. \A j \in 0 .. 5 - 1 : Foff(a) + j \in DOMAIN file.bytes
  BY RegionPlaces, FoffPlace DEF ProbeInv
<1>3. ASSUME NEW i \in 1 .. 4 PROVE b[i] \in Byte
  <2>1. b[i] = data[(Foff(a) + 1) + i - 1]
    BY DEF Slice
  <2>2. (Foff(a) + 1) + i - 1 = Foff(a) + i /\ i \in 0 .. 5 - 1
    BY <1>1
  <2> QED
    BY <1>2, <2>1, <2>2 DEF ProbeInv
<1> HIDE DEF b
<1>4. Signed(b) \in Int
  BY <1>3, SignedInt
<1> QED
  BY <1>1, <1>4 DEF Target, b

\* What InputAssumption says of the CALL at startup_64, of the entry of
\* x86_64_start_kernel, and of the other CALLs, in image d with such segments.
InputK(sg, ts, d, k) ==
  LET t == k + 5 + Signed(Slice(d, vaddr_to_foff(sg, k) + 1, 4))
      at == ts.foff + (TRAMP_VADDR - ts.vaddr) + (t - TRAMP_VADDR)
  IN  d[vaddr_to_foff(sg, k)] = \he8 =>
        /\ Slice(d, vaddr_to_foff(sg, k) + 5, 2) = <<\h90, \h90>>
        /\ t \in TRAMP_VADDR .. TRAMP_VADDR + AreaSize - 26
        /\ Slice(d, at, 12) = serial_write_bytes(d[at + 8])
        /\ Slice(d, at + 12, 2) = <<\h48, \hb8>>
        /\ Slice(d, at + 22, 4) = <<\h0f, \h01, \h10, \hc3>>
InputCall(sg, ts, d, va) ==
  LET t == va + 5 + Signed(Slice(d, vaddr_to_foff(sg, va) + 1, 4))
  IN  d[vaddr_to_foff(sg, va)] = \he8 =>
        /\ Near(t)
        /\ InArea(t) =>
             \E j \in 1 .. 12 \ {9} :
               /\ InArea(t + j - 1)
               /\ d[ts.foff + (TRAMP_VADDR - ts.vaddr) + (t - TRAMP_VADDR) + j - 1]
                    \notin {\hcc, serial_write_bytes(0)[j]}

\* It says so of every input.
LEMMA InputStates ==
  ASSUME NEW f \in Files
  PROVE  /\ InputK(Loads(f), Text(f), f.bytes, Text(f).vaddr + \h77)
         /\ f.bytes[vaddr_to_foff(Loads(f), XSK)] # \he9
         /\ \A n \in 3 .. Count : InputCall(Loads(f), Text(f), f.bytes, Probes[n].va)
<1>1. InputK(Loads(f), Text(f), f.bytes, Text(f).vaddr + \h77)
  BY InputAssumption, SMT DEF InputAssumption, InputK
<1>2. f.bytes[vaddr_to_foff(Loads(f), XSK)] # \he9
  BY InputAssumption, ZenonT(30) DEF InputAssumption
<1>3. ASSUME NEW n \in 3 .. Count PROVE InputCall(Loads(f), Text(f), f.bytes, Probes[n].va)
  BY InputAssumption, SMT DEF InputAssumption, InputCall
<1> QED
  BY <1>1, <1>2, <1>3

\* So it is with the input, where the headers place its segments.
LEMMA InputSites ==
  ASSUME ProbeInv, data = file.bytes
  PROVE  /\ InputK(segs, text_seg, data, KSite)
         /\ data[Foff(XSK)] # \he9
         /\ \A n \in 3 .. Count : InputCall(segs, text_seg, data, Probes[n].va)
<1>1. file \in Files /\ segs = Loads(file) /\ text_seg = Text(file)
  BY DEF ProbeInv
<1>2. KSite = Text(file).vaddr + \h77
  <2>1. KSite = text_seg.vaddr + 119
    BY FrontSites
  <2> QED
    BY <1>1, <2>1
<1> QED
  BY <1>1, <1>2, InputStates, Zenon DEF Foff

\* A CALL to foreign code prints nothing.
LEMMA ForeignTrace ==
  ASSUME ProbeInv, NEW d, NEW va, Foreign(d, Target(d, va))
  PROVE  Trace(d, va).log = <<>>
<1>1. Woven(d, {}) /\ Node(d, {}, Target(d, va)) /\ Target(d, va) \notin {}
  BY DEF Woven, Node, Foreign
<1>2. PICK f : Steps(d, f) /\ \A x : Trace(d, x) = f[Count][Target(d, x)]
  BY TraceSteps, Zenon DEF Steps
<1>3. Count \in 0 .. Count
  BY ListMembers
<1>4. f[Count][Target(d, va)] = End(Target(d, va))
  BY <1>1, <1>2, <1>3, StepEnds
<1> QED
  BY <1>2, <1>4 DEF End

\* The input is such an image.
LEMMA InputSound ==
  ASSUME ProbeInv, data = file.bytes
  PROVE  Sound(data, 0)
<1>1. /\ KSite \in Int /\ XSK \in Int /\ Region(file, KSite, 7) /\ Region(file, XSK, 7)
      /\ file \in Files
  BY FrontSites DEF ProbeInv
<1>2. Foff(KSite) \in Int /\ Foff(XSK) \in Int
  BY <1>1, RegionFoff
<1>3. KWhole(data)
  <2> SUFFICES ASSUME Loaded(data, KSite, 1) = <<\he8>>
               PROVE  Loaded(data, KSite + 5, 2) = <<\h90, \h90>> /\ WholeK(data, Target(data, KSite))
    BY Zenon DEF KWhole
  <2>1. data[Foff(KSite)] = \he8
    <3> DEFINE a == KSite
    <3>1. Foff(a) \in Int /\ Loaded(data, a, 1) = <<\he8>>
      BY <1>2
    <3> HIDE DEF a
    <3>2. data[Foff(a)] = \he8
      BY <3>1, OneByte
    <3> QED
      BY <3>2 DEF a
  <2> DEFINE t == Target(data, KSite)
             at == TRAMP_FOFF + (t - TRAMP_VADDR)
             c == KSite + 5
             m == t + 12
             r == t + 22
  <2>2. /\ Slice(data, Foff(KSite) + 5, 2) = <<\h90, \h90>>
        /\ t \in TRAMP_VADDR .. TRAMP_VADDR + AreaSize - 26
        /\ Slice(data, at, 12) = serial_write_bytes(data[at + 8])
        /\ Slice(data, at + 12, 2) = <<\h48, \hb8>>
        /\ Slice(data, at + 22, 4) = <<\h0f, \h01, \h10, \hc3>>
    BY <2>1, InputSites, Zenon DEF InputK, Target, Foff, TRAMP_FOFF
  <2> HIDE DEF t, at
  <2>3. TRAMP_VADDR \in Int /\ AreaSize \in Nat
    BY <1>1, AreaInText
  <2>4. t \in Int /\ TRAMP_VADDR <= t /\ t + 26 <= TRAMP_VADDR + AreaSize /\ 26 \in Nat \ {0}
    BY <2>2, <2>3
  <2>5. InArea(t)
    BY <2>3, <2>4 DEF InArea
  <2>6. Foff(t) = at /\ Foff(t) \in Int
    BY <2>4, <2>5, AreaFoff DEF at
  <2>7. /\ c \in Int /\ KSite <= c /\ c < KSite + 7
        /\ m \in Int /\ t <= m /\ m < t + 26 /\ r \in Int /\ t <= r /\ r < t + 26
    BY <1>1, <2>4
  <2>8. Foff(c) = Foff(KSite) + (c - KSite) /\ Foff(m) = Foff(t) + (m - t) /\ Foff(r) = Foff(t) + (r - t)
    BY <1>1, <2>4, <2>7, RegionFoff, StubFoff
  <2>9. Foff(c) = Foff(KSite) + 5 /\ Foff(m) = at + 12 /\ Foff(r) = at + 22
    BY <1>1, <1>2, <2>4, <2>6, <2>8
  <2> HIDE DEF c, m, r
  <2>10. Loaded(data, c, 2) = <<\h90, \h90>> /\ Loaded(data, m, 2) = <<\h48, \hb8>>
         /\ Loaded(data, r, 4) = <<\h0f, \h01, \h10, \hc3>>
    BY <2>2, <2>9 DEF Loaded
  <2>11. Prints(data, t)
    <3>1. Char(data, t) = data[Foff(t) + 9 - 1]
      BY DEF Char, Loaded, Slice
    <3>2. Foff(t) + 9 - 1 = at + 8
      BY <2>6
    <3>3. Loaded(data, t, 12) = serial_write_bytes(Char(data, t))
      BY <2>2, <2>6, <3>1, <3>2 DEF Loaded
    <3> QED
      BY <2>5, <3>3 DEF Prints
  <2> QED
    BY <2>4, <2>10, <2>11, Zenon DEF WholeK, c, m, r, t
<1>4. XWhole(data)
  <2>1. data[Foff(XSK)] # \he9
    BY InputSites, Zenon
  <2>2. Loaded(data, XSK, 1) # <<\he9>>
    BY <1>2, <2>1, OneByte
  <2> QED
    BY <2>2 DEF XWhole
<1>5. ASSUME NEW n \in 3 .. Count, Loaded(data, Probes[n].va, 1) = <<\he8>>
      PROVE  Foreign(data, Target(data, Probes[n].va))
  <2> DEFINE va == Probes[n].va
             t == Target(data, va)
  <2>1. n \in 1 .. Count /\ Va(Probes[n]) = va /\ SiteSize(Probes[n]) = 5
    BY CallElsewhere
  <2>2. Region(file, va, 5)
    BY <2>1, SitePlaces
  <2>3. t \in Int /\ Foff(va) \in Int
    BY <2>2, SiteTarget, RegionFoff
  <2>4. data[Foff(va)] = \he8
    BY <1>5, <2>3, OneByte
  <2>5. /\ Near(t)
        /\ InArea(t) =>
             \E j \in 1 .. 12 \ {9} :
               /\ InArea(t + j - 1)
               /\ data[TRAMP_FOFF + (t - TRAMP_VADDR) + j - 1] \notin {\hcc, serial_write_bytes(0)[j]}
    <3>1. InputCall(segs, text_seg, data, va)
      BY InputSites
    <3>2. data[vaddr_to_foff(segs, va)] = \he8 /\ t = va + 5 + Signed(Slice(data, vaddr_to_foff(segs, va) + 1, 4))
      BY <2>4 DEF Foff, Target
    <3> HIDE DEF va, t
    <3> QED
      BY <3>1, <3>2, SMT DEF InputCall, TRAMP_FOFF
  <2> HIDE DEF t
  <2>6. ASSUME InArea(t)
        PROVE  \E j \in 1 .. 12 \ {9} :
                 /\ InArea(t + j - 1)
                 /\ data[Foff(t + j - 1)] \notin {\hcc, serial_write_bytes(0)[j]}
    <3>1. PICK j \in 1 .. 12 \ {9} :
            /\ InArea(t + j - 1)
            /\ data[TRAMP_FOFF + (t - TRAMP_VADDR) + j - 1] \notin {\hcc, serial_write_bytes(0)[j]}
      BY <2>5, <2>6
    <3> DEFINE u == t + j - 1
    <3>2. u \in Int /\ InArea(u)
      BY <2>3, <3>1
    <3>3. Foff(u) = TRAMP_FOFF + (u - TRAMP_VADDR) /\ TRAMP_FOFF \in Int /\ TRAMP_VADDR \in Int
      BY <3>2, AreaFoff
    <3>4. TRAMP_FOFF + (t - TRAMP_VADDR) + j - 1 = Foff(u)
      BY <2>3, <3>3
    <3> QED
      BY <3>1, <3>4
  <2> QED
    BY <2>3, <2>5, <2>6 DEF Foreign, t
<1>6. Linked(data, {})
  BY <1>5 DEF Linked, Woven
<1>7. ASSUME NEW n \in 3 .. Count, Loaded(data, Probes[n].va, 1) = <<\he8>>
      PROVE  GoodLog(Trace(data, Probes[n].va).log, 0)
  <2>1. Trace(data, Probes[n].va).log = <<>>
    BY <1>5, <1>7, ForeignTrace
  <2> QED
    BY <2>1 DEF GoodLog
<1> QED
  BY <1>3, <1>4, <1>6, <1>7 DEF Sound

-----------------------------------------------------------------------------
(* The segments are read once: what is said of an image stays so. *)

\* Trace and what it looks at, with segments sg.
LoadedIn(sg, d, va, n) == Slice(d, vaddr_to_foff(sg, va), n)
TargetIn(sg, d, va) == va + 5 + Signed(Slice(d, vaddr_to_foff(sg, va) + 1, 4))
CharIn(sg, d, va) == LoadedIn(sg, d, va, 9)[9]
PrintsIn(sg, d, va) == InArea(va) /\ LoadedIn(sg, d, va, 12) = serial_write_bytes(CharIn(sg, d, va))
WrapsIn(sg, d, va) == PrintsIn(sg, d, va) /\ LoadedIn(sg, d, va + 12, 1) = <<\he8>> /\ LoadedIn(sg, d, va + 17, 1) = <<\hc3>>
TraceIn(sg, d, va) ==
  LET from[n \in 0 .. Count] ==
        [t \in Int |->
           IF n = 0 \/ ~WrapsIn(sg, d, t) THEN [log |-> <<>>, does |-> <<t>>]
           ELSE LET rest == from[n - 1][TargetIn(sg, d, t + 12)]
                IN  [rest EXCEPT !.log = <<CharIn(sg, d, t)>> \o @]]
  IN  from[Count][TargetIn(sg, d, va)]

\* In every state Trace goes by the segments of that state.
LEMMA TraceBy ==
  ASSUME NEW d, NEW va
  PROVE  Trace(d, va) = TraceIn(segs, d, va)
  BY Zenon DEF Trace, Wraps, Prints, Char, Loaded, Target, Foff,
               TraceIn, WrapsIn, PrintsIn, CharIn, LoadedIn, TargetIn

\* So it does in the next state.
LEMMA TraceByNext ==
  ASSUME NEW d, NEW va
  PROVE  (Trace(d, va))' = TraceIn(segs', d, va)
  BY Zenon DEF Trace, Wraps, Prints, Char, Loaded, Target, Foff,
               TraceIn, WrapsIn, PrintsIn, CharIn, LoadedIn, TargetIn

\* What is loaded, where a jump goes and what is printed depends on the image.
LEMMA NextReads ==
  ASSUME segs' = segs, text_seg' = text_seg, NEW d
  PROVE  /\ \A va, n : (Loaded(d, va, n))' = Loaded(d, va, n)
         /\ \A va : (Target(d, va))' = Target(d, va)
         /\ \A va : (Char(d, va))' = Char(d, va)
         /\ \A va : (Prints(d, va))' <=> Prints(d, va)
         /\ \A va : (Wraps(d, va))' <=> Wraps(d, va)
         /\ \A va : (Trace(d, va))' = Trace(d, va)
         /\ KSite' = KSite
<1>1. \A va, n : (Loaded(d, va, n))' = Loaded(d, va, n)
  BY DEF Loaded, Foff
<1>2. \A va : (Target(d, va))' = Target(d, va)
  BY DEF Target, Foff
<1>3. \A va : (Char(d, va))' = Char(d, va)
  BY DEF Char, Loaded, Foff
<1>4. \A va : (Prints(d, va))' <=> Prints(d, va)
  BY DEF Prints, Char, Loaded, Foff
<1>5. \A va : (Wraps(d, va))' <=> Wraps(d, va)
  BY DEF Wraps, Prints, Char, Loaded, Foff
<1>6. \A va : (Trace(d, va))' = Trace(d, va)
  BY TraceBy, TraceByNext
<1>7. KSite' = KSite
  BY DEF KSite, Va
<1> QED
  BY <1>1, <1>2, <1>3, <1>4, <1>5, <1>6, <1>7

\* So do the stubs.
LEMMA NextSound ==
  ASSUME segs' = segs, text_seg' = text_seg, NEW d, NEW m, Sound(d, m)
  PROVE  (Sound(d, m))'
<1>1. (KWhole(d))'
  <2>1. KWhole(d)
    BY DEF Sound
  <2>2. \A t : (WholeK(d, t))' <=> WholeK(d, t)
    BY NextReads DEF WholeK
  <2>3. (Target(d, KSite))' = Target(d, KSite)
    BY Zenon DEF Target, Foff, KSite, Va
  <2>4. (WholeK(d, Target(d, KSite)))' <=> WholeK(d, Target(d, KSite))
    BY <2>2, <2>3
  <2>5. /\ (Loaded(d, KSite, 1))' = Loaded(d, KSite, 1)
        /\ (Loaded(d, KSite + 5, 2))' = Loaded(d, KSite + 5, 2)
    BY Zenon DEF Loaded, Foff, KSite, Va
  <2> QED
    BY <2>1, <2>4, <2>5 DEF KWhole
<1>2. (XWhole(d))'
  <2>1. XWhole(d)
    BY DEF Sound
  <2> QED
    BY <2>1, Zenon DEF XWhole, WholeX, Prints, Char, Loaded, Target, Foff
<1>3. m >= 1 => (Loaded(d, KSite, 1))' = <<\he8>>
  <2>1. m >= 1 => Loaded(d, KSite, 1) = <<\he8>>
    BY DEF Sound
  <2> QED
    BY <2>1, Zenon DEF Loaded, Foff, KSite, Va
<1>4. m >= 2 => (Loaded(d, XSK, 1))' = <<\he9>>
  <2>1. m >= 2 => Loaded(d, XSK, 1) = <<\he9>>
    BY DEF Sound
  <2> QED
    BY <2>1, NextReads
<1>5. \A t : Foreign(d, t) => (Foreign(d, t))'
  BY DEF Foreign, Foff
<1>6. (\E W : Linked(d, W))'
  <2>1. PICK W : Linked(d, W)
    BY DEF Sound
  <2>2. (Woven(d, W))'
    <3>1. ASSUME NEW s \in W
          PROVE  /\ s \in Int /\ TRAMP_VADDR <= s /\ s + 18 <= TRAMP_VADDR + AreaSize
                 /\ (Wraps(d, s))' /\ (Char(d, s))' \in Byte
                 /\ (Target(d, s + 12))' \in W \/ (Foreign(d, Target(d, s + 12)))'
      <4>1. /\ s \in Int /\ TRAMP_VADDR <= s /\ s + 18 <= TRAMP_VADDR + AreaSize
            /\ Wraps(d, s) /\ Char(d, s) \in Byte
            /\ Target(d, s + 12) \in W \/ Foreign(d, Target(d, s + 12))
        BY <2>1 DEF Linked, Woven
      <4>2. (Wraps(d, s))' /\ (Char(d, s))' \in Byte
        BY <4>1, NextReads
      <4>3. (Target(d, s + 12))' = Target(d, s + 12)
        BY NextReads
      <4>4. Foreign(d, Target(d, s + 12)) => (Foreign(d, Target(d, s + 12)))'
        BY DEF Foreign, Foff, Target
      <4> QED
        BY <4>1, <4>2, <4>3, <4>4
    <3> QED
      BY <3>1, Zenon DEF Woven
  <2>3. ASSUME NEW n \in 3 .. Count, (Loaded(d, Probes[n].va, 1))' = <<\he8>>
        PROVE  (Target(d, Probes[n].va))' \in W \/ (Foreign(d, Target(d, Probes[n].va)))'
    <3>1. Loaded(d, Probes[n].va, 1) = <<\he8>>
      BY <2>3, NextReads
    <3>2. Target(d, Probes[n].va) \in W \/ Foreign(d, Target(d, Probes[n].va))
      BY <2>1, <3>1 DEF Linked
    <3>3. (Target(d, Probes[n].va))' = Target(d, Probes[n].va)
      BY NextReads
    <3>4. Foreign(d, Target(d, Probes[n].va)) => (Foreign(d, Target(d, Probes[n].va)))'
      BY DEF Foreign, Foff, Target
    <3> QED
      BY <3>2, <3>3, <3>4
  <2>4. (Linked(d, W))'
    BY <2>2, <2>3, Zenon DEF Linked
  <2> QED
    BY <2>4
<1>7. ASSUME NEW n \in 3 .. Count, (Loaded(d, Probes[n].va, 1))' = <<\he8>>
      PROVE  GoodLog((Trace(d, Probes[n].va))'.log, m)
  <2>1. Loaded(d, Probes[n].va, 1) = <<\he8>>
    BY <1>7, NextReads
  <2>2. GoodLog(Trace(d, Probes[n].va).log, m)
    BY <2>1 DEF Sound
  <2>3. (Trace(d, Probes[n].va))' = Trace(d, Probes[n].va)
    BY NextReads
  <2> QED
    BY <2>2, <2>3
<1> QED
  BY <1>1, <1>2, <1>3, <1>4, <1>6, <1>7, Zenon DEF Sound

-----------------------------------------------------------------------------
(* No character is printed twice at a site. *)

\* Actions leave the segments alone and, but for Insert and Again, the image.
LEMMA Moves ==
  ASSUME [Next]_vars
  PROVE  /\ segs' = segs /\ text_seg' = text_seg
         /\ Insert \/ Skip \/ Fail \/ Save \/ Again \/ UNCHANGED vars
<1>1. segs' = segs /\ text_seg' = text_seg
  BY DEF Next, Run, Skip, Insert, Fail, Save, Again, vars
<1> QED
  BY <1>1 DEF Next, Run

\* An image is not empty.
LEMMA ImageThere ==
  ASSUME ProbeInv
  PROVE  data # <<>> /\ \A o : o = data => o # <<>>
<1>1. Region(file, KSite, 7) /\ file \in Files
  BY FrontSites DEF ProbeInv
<1>2. 0 \in 0 .. 7 - 1
  OBVIOUS
<1>3. Place(file, KSite) + 0 \in DOMAIN file.bytes
  BY <1>1, <1>2, RegionPlaces
<1>4. DOMAIN data # {}
  BY <1>3 DEF ProbeInv
<1> QED
  BY <1>4

\* Only K can be there already.
LEMMA PresentFirst ==
  ASSUME ProbeInv, NEW k \in 1 .. Count
  PROVE  Present(Probes[k]) <=> k = 1 /\ Loaded(data, KSite, 1) = <<\he8>>
<1>1. Len(<<\he8>>) = 1 /\ Foff(KSite) = FoffOf(Probes[1]) /\ Probes[1].how = "lgdt"
  BY FrontSites
<1>2. k # 1 => Probes[k].how # "lgdt"
  <2>1. k = 1 \/ k = 2 \/ k \in 3 .. Count
    BY ProbeTypes
  <2> QED
    BY <2>1, FrontSites, CallElsewhere
<1> QED
  BY <1>1, <1>2 DEF Present, Has, Loaded

\* Nothing is inserted when there was an output.
LEMMA InsertOnce ==
  ASSUME OnceInv, Insert
  PROVE  out = <<>> /\ step \in 1 .. Count /\ ~Present(Probes[step]) /\ Expected(Probes[step])
<1>1. ProbeInv /\ Sound(data, Top)
  BY DEF OnceInv
<1>2. step \in 1 .. Count /\ ~Present(Probes[step]) /\ Expected(Probes[step])
  BY <1>1, ProbeTypes DEF ProbeInv, Insert, Turn, probe
<1>3. ASSUME out # <<>> PROVE FALSE
  <2>1. (step = 1 \/ step = 2 \/ step = Count + 1) /\ Top = Count /\ Count = 24
    BY <1>3, ListMembers DEF OnceInv, Top
  <2>2. Loaded(data, KSite, 1) = <<\he8>> /\ Loaded(data, XSK, 1) = <<\he9>>
    BY <1>1, <2>1 DEF Sound
  <2>3. CASE step = 1
    BY <1>1, <1>2, <2>2, <2>3, PresentFirst
  <2>4. CASE step = 2
    BY <1>1, <1>2, <2>2, <2>4, ExpectedLoaded
  <2> QED
    BY <1>2, <2>1, <2>3, <2>4
<1> QED
  BY <1>2, <1>3

\* The insertion of the next probe, at an address in the area.
LEMMA InsertStep ==
  ASSUME ProbeInv, Insert
  PROVE  \E w : Inserted(data', step, w)
<1>1. PICK i \in Nat : Effect(data', probe, i) /\ Fitting(probe, TRAMP_VADDR + i)
  BY InsertEffect
<1> DEFINE w == TRAMP_VADDR + i
<1>2. TRAMP_VADDR \in Int
  BY AreaInText DEF ProbeInv
<1>3. w \in Int /\ w - TRAMP_VADDR = i
  BY <1>2
<1>4. step \in 1 .. Count
  BY ProbeTypes DEF ProbeInv, Insert, Turn
<1> HIDE DEF w
<1>5. Effect(data', Probes[step], w - TRAMP_VADDR) /\ Fitting(Probes[step], w)
  BY <1>1, <1>3 DEF w, probe
<1> QED
  BY <1>3, <1>4, <1>5 DEF Inserted

\* The input, before the first probe.
LEMMA OnceInit ==
  Init => OnceInv
<1> SUFFICES ASSUME Init PROVE OnceInv
  OBVIOUS
<1>1. ProbeInv
  BY ProbeInitInv
<1>2. Sound(data, 0)
  BY <1>1, InputSound DEF Init
<1>3. Top = 0 /\ out = <<>>
  BY DEF Init, Top
<1> QED
  BY <1>1, <1>2, <1>3 DEF OnceInv

\* Every step.
LEMMA OnceNext ==
  OnceInv /\ [Next]_vars => OnceInv'
<1> SUFFICES ASSUME OnceInv, [Next]_vars PROVE OnceInv'
  OBVIOUS
<1>1. ProbeInv /\ ProbeInv' /\ Sound(data, Top) /\ Count = 24
      /\ (out # <<>> => out = data /\ (step = 1 \/ step = 2 \/ step = Count + 1))
  BY ProbeNextInv, ListMembers DEF OnceInv
<1>2. step \in 1 .. Count + 1
  BY <1>1 DEF ProbeInv
<1> SUFFICES /\ Sound(data', Top')
             /\ out' # <<>> => out' = data' /\ (step' = 1 \/ step' = 2 \/ step' = Count + 1)
  <2>1. segs' = segs /\ text_seg' = text_seg
    BY Moves
  <2> QED
    BY <1>1, <2>1, NextSound DEF OnceInv
<1>3. CASE Insert
  <2>1. out = <<>> /\ step \in 1 .. Count /\ Expected(Probes[step]) /\ out' = out /\ step' = step + 1
    BY <1>3, InsertOnce DEF Insert
  <2>2. Top = step - 1 /\ Top' = step
    BY <2>1 DEF Top
  <2>3. PICK w : Inserted(data', step, w)
    BY <1>1, <1>3, InsertStep
  <2>4. Sound(data', step)
    BY <1>1, <2>1, <2>2, <2>3, InsertSound
  <2> QED
    BY <2>1, <2>2, <2>4
<1>4. CASE Skip
  <2>1. step \in 1 .. Count /\ Present(Probes[step]) /\ data' = data /\ out' = out /\ step' = step + 1
    BY <1>1, <1>2, <1>4 DEF Skip, Turn, probe
  <2>2. step = 1 /\ Loaded(data, KSite, 1) = <<\he8>>
    BY <1>1, <2>1, PresentFirst
  <2>3. CASE out # <<>>
    BY <1>1, <2>1, <2>2, <2>3 DEF Top
  <2>4. CASE out = <<>>
    <3>1. Top = 0 /\ Top' = 1
      BY <2>1, <2>2, <2>4 DEF Top
    <3>2. KWhole(data) /\ XWhole(data) /\ ~(1 >= 2)
      BY <1>1 DEF Sound
    <3>3. PICK W : Linked(data, W)
      BY <1>1 DEF Sound
    <3>4. ASSUME NEW n \in 3 .. Count, Loaded(data, Probes[n].va, 1) = <<\he8>>
          PROVE  GoodLog(Trace(data, Probes[n].va).log, 1)
      <4>1. GoodLog(Trace(data, Probes[n].va).log, 0)
        BY <1>1, <3>1, <3>4 DEF Sound
      <4>2. Trace(data, Probes[n].va).log \in Seq(Byte)
        BY <1>1, <3>3, <3>4, TraceFinds DEF Finding
      <4> QED
        BY <4>1, <4>2, GoodMore
    <3>5. Sound(data, 1)
      BY <2>2, <3>2, <3>3, <3>4 DEF Sound
    <3> QED
      BY <2>1, <2>4, <3>1, <3>5
  <2> QED
    BY <2>3, <2>4
<1>5. CASE Save
  <2>1. step = Count + 1 /\ out' = data /\ data' = data /\ step' = step
    BY <1>5 DEF Save
  <2>2. Top = Count /\ Top' = Count
    BY <1>1, <2>1 DEF Top
  <2> QED
    BY <1>1, <2>1, <2>2
<1>6. CASE Again
  <2>1. out = data /\ data' = out /\ out' = out /\ step' = 1
    BY <1>1, <1>6 DEF Again, ProbeInv
  <2>2. out # <<>>
    BY <1>1, <2>1, ImageThere
  <2>3. Top = Count /\ Top' = Count
    BY <2>1, <2>2 DEF Top
  <2> QED
    BY <1>1, <2>1, <2>3
<1>7. CASE Fail \/ UNCHANGED vars
  <2>1. data' = data /\ out' = out /\ step' = step
    BY <1>7 DEF Fail, vars
  <2>2. Top' = Top
    BY <2>1 DEF Top
  <2> QED
    BY <1>1, <2>1, <2>2
<1> QED
  BY <1>3, <1>4, <1>5, <1>6, <1>7, Moves

\* At a place of K or X no more than one character is printed.
LEMMA FrontLogs ==
  ASSUME NEW d, NEW va
  PROVE  /\ \A m, n \in DOMAIN LoadsGdt(d, va).log : m = n
         /\ \A m, n \in DOMAIN Entry(d, va).log : m = n
<1>1. ASSUME NEW l, NEW c, l = <<>> \/ l = <<c>>
      PROVE  \A m, n \in DOMAIN l : m = n
  BY <1>1
<1>2. LoadsGdt(d, va).log = <<>> \/ LoadsGdt(d, va).log = <<Char(d, Target(d, va))>>
  BY DEF LoadsGdt, Plain, Broken
<1>3. Entry(d, va).log = <<>> \/ Entry(d, va).log = <<Char(d, Target(d, va))>>
  BY DEF Entry, Plain, Broken
<1> QED
  BY <1>1, <1>2, <1>3

\* Such an image prints no character twice at a site.
LEMMA OnceImplies ==
  OnceInv => OncePerSite
<1> SUFFICES ASSUME OnceInv, NEW va \in Sites
             PROVE  LET log == At(data, ProbeAt[va]).log
                    IN  \A m, n \in DOMAIN log : log[m] = log[n] => m = n
  BY DEF OncePerSite
<1> DEFINE c == CHOOSE n \in 1 .. Count : Probes[n].va = va
<1>1. c \in 1 .. Count /\ Probes[c].va = va
  BY DEF Sites
<1>2. ProbeAt[va] = Probes[c]
  BY DEF ProbeAt
<1> HIDE DEF c
<1>3. ProbeInv /\ Sound(data, Top)
  BY DEF OnceInv
<1>4. Probes[c].how = "lgdt" \/ Probes[c].how = "entry" \/ c \in 3 .. Count
  <2>1. c = 1 \/ c = 2 \/ c \in 3 .. Count
    BY <1>1, ProbeTypes
  <2> QED
    BY <1>3, <2>1, FrontSites
<1>5. CASE Probes[c].how = "lgdt"
  <2>1. At(data, Probes[c]) = LoadsGdt(data, Va(Probes[c]))
    BY <1>5 DEF At
  <2> QED
    BY <1>2, <2>1, FrontLogs
<1>6. CASE Probes[c].how = "entry"
  <2>1. At(data, Probes[c]) = Entry(data, va)
    BY <1>1, <1>6 DEF At
  <2> QED
    BY <1>2, <2>1, FrontLogs
<1>7. CASE c \in 3 .. Count
  <2>1. Probes[c].how = "call"
    BY <1>3, <1>7, CallElsewhere
  <2>2. CASE Loaded(data, va, 1) = <<\he8>>
    <3>1. At(data, Probes[c]) = Trace(data, va)
      BY <1>1, <2>1, <2>2 DEF At
    <3>2. GoodLog(Trace(data, va).log, Top)
      BY <1>1, <1>3, <1>7, <2>2 DEF Sound
    <3> QED
      BY <1>2, <3>1, <3>2 DEF GoodLog
  <2>3. CASE Loaded(data, va, 1) # <<\he8>>
    <3>1. At(data, Probes[c]).log = <<>>
      BY <1>1, <2>1, <2>3 DEF At, Broken, Plain
    <3> QED
      BY <1>2, <3>1
  <2> QED
    BY <2>2, <2>3
<1> QED
  BY <1>4, <1>5, <1>6, <1>7

\* For every kernel and area, whatever order things are found in: no image of
\* the program prints a character twice at a site.
THEOREM PrintedOnce ==
  Spec => []OncePerSite
  BY OnceInit, OnceNext, OnceImplies, PTL DEF Spec

-----------------------------------------------------------------------------
(* The list of probes is implemented. *)

\* Probes at one address of the list are at one place.
LEMMA SameSite ==
  ASSUME ProbeInv, NEW k \in 1 .. Count, NEW c \in 1 .. Count
  PROVE  Probes[k].va = Probes[c].va <=> Va(Probes[k]) = Va(Probes[c])
<1>1. ASSUME NEW n \in 1 .. Count, n # 1
      PROVE  /\ Probes[n].how # "lgdt" /\ Va(Probes[n]) = Probes[n].va
             /\ Probes[n].va # 119 /\ Va(Probes[n]) # KSite
  <2>1. n = 2 \/ n \in 3 .. Count
    BY <1>1, ProbeTypes
  <2>2. Probes[n].how # "lgdt" /\ Va(Probes[n]) # KSite
    BY <2>1, FrontSites, CallElsewhere
  <2>3. Probes[n] \in ProbeRecords
    BY ProbeTypes
  <2>4. Probes[n].va >= AreaEnd
    BY <2>2, <2>3 DEF ProbeRecords
  <2>5. Probes[n].va # 119
    BY <2>4, SMT DEF AreaEnd, TRAMP_VADDR
  <2> QED
    BY <2>2, <2>5 DEF Va
<1>2. Probes[1].va = 119 /\ Va(Probes[1]) = KSite
  BY ListMembers DEF KSite
<1>3. CASE k = 1 /\ c = 1
  BY <1>3
<1>4. CASE k = 1 /\ c # 1
  BY <1>1, <1>2, <1>4
<1>5. CASE k # 1 /\ c = 1
  BY <1>1, <1>2, <1>5
<1>6. CASE k # 1 /\ c # 1
  <2>1. Va(Probes[k]) = Probes[k].va /\ Va(Probes[c]) = Probes[c].va
    BY <1>1, <1>6
  <2> QED
    BY <2>1
<1> QED
  BY <1>3, <1>4, <1>5, <1>6

\* The site of a probe of the list.
LEMMA SiteProbe ==
  ASSUME NEW va \in Sites
  PROVE  \E c \in 1 .. Count : Probes[c].va = va /\ ProbeAt[va] = Probes[c]
<1> DEFINE c == CHOOSE n \in 1 .. Count : Probes[n].va = va
<1>1. c \in 1 .. Count /\ Probes[c].va = va
  BY DEF Sites
<1>2. ProbeAt[va] = Probes[c]
  BY DEF ProbeAt
<1> QED
  BY <1>1, <1>2

\* A probe puts its character in front of the others, at its site and no other
\* one, and then as much happens as did before.
SiteGets(d, e, k, va) ==
  LET l == At(d, ProbeAt[va])  m == At(e, ProbeAt[va])
  IN  /\ m.does = l.does
      /\ m.log = IF va = Probes[k].va THEN <<Probes[k].ch>> \o l.log ELSE l.log

\* K.
LEMMA LgdtGets ==
  ASSUME ProbeInv, NEW k \in 1 .. Count, NEW e, NEW w, Inserted(e, k, w), Expected(Probes[k]),
         Sound(data, k - 1), NEW va \in Sites, ProbeAt[va] = Probes[1], va = Probes[1].va
  PROVE  SiteGets(data, e, k, va)
<1>1. Probes[1].how = "lgdt" /\ Va(Probes[1]) = KSite
  BY FrontSites DEF KSite
<1>2. At(data, ProbeAt[va]) = LoadsGdt(data, KSite) /\ At(e, ProbeAt[va]) = LoadsGdt(e, KSite)
  BY <1>1 DEF At
<1>3. CASE k = 1
  <2>1. Loaded(data, KSite, 3) = <<\h0f, \h01, \h15>>
    BY <1>3, ExpectedLoaded
  <2>2. /\ LoadsGdt(e, KSite).log = <<Probes[1].ch>> /\ LoadsGdt(data, KSite).log = <<>>
        /\ LoadsGdt(e, KSite).does = LoadsGdt(data, KSite).does
    BY <1>3, <2>1, NewK
  <2>3. <<Probes[1].ch>> \o <<>> = <<Probes[1].ch>>
    OBVIOUS
  <2> QED
    BY <1>2, <1>3, <2>2, <2>3 DEF SiteGets
<1>4. CASE k # 1
  <2>1. LoadsGdt(e, KSite) = LoadsGdt(data, KSite)
    BY <1>4, KKept DEF Sound
  <2>2. va # Probes[k].va
    <3>1. Va(Probes[k]) # Va(Probes[1]) /\ 1 \in 1 .. Count
      BY <1>1, <1>4, FrontSites, ListMembers
    <3> QED
      BY <3>1, SameSite
  <2> QED
    BY <1>2, <2>1, <2>2 DEF SiteGets
<1> QED
  BY <1>3, <1>4

\* X.
LEMMA EntryGets ==
  ASSUME ProbeInv, NEW k \in 1 .. Count, NEW e, NEW w, Inserted(e, k, w), Expected(Probes[k]),
         Sound(data, k - 1), NEW va \in Sites, ProbeAt[va] = Probes[2], va = Probes[2].va
  PROVE  SiteGets(data, e, k, va)
<1>1. Probes[2].how = "entry" /\ va = XSK /\ Va(Probes[2]) = XSK
  BY FrontSites
<1>2. At(data, ProbeAt[va]) = Entry(data, XSK) /\ At(e, ProbeAt[va]) = Entry(e, XSK)
  BY <1>1 DEF At
<1>3. CASE k = 2
  <2>1. Loaded(data, XSK, 1) = <<\h53>>
    BY <1>3, ExpectedLoaded
  <2>2. /\ Entry(e, XSK).log = <<Probes[2].ch>> /\ Entry(data, XSK).log = <<>>
        /\ Entry(e, XSK).does = Entry(data, XSK).does
    BY <1>3, <2>1, NewX
  <2>3. <<Probes[2].ch>> \o <<>> = <<Probes[2].ch>>
    OBVIOUS
  <2> QED
    BY <1>2, <1>3, <2>2, <2>3 DEF SiteGets
<1>4. CASE k # 2
  <2>1. Entry(e, XSK) = Entry(data, XSK)
    BY <1>4, XKept DEF Sound
  <2>2. va # Probes[k].va
    <3>1. Va(Probes[k]) # Va(Probes[2]) /\ 2 \in 1 .. Count
      BY <1>1, <1>4, FrontSites, ListMembers DEF KSite
    <3> QED
      BY <3>1, SameSite
  <2> QED
    BY <1>2, <2>1, <2>2 DEF SiteGets
<1> QED
  BY <1>3, <1>4

\* A CALL.
LEMMA CallGets ==
  ASSUME ProbeInv, NEW k \in 1 .. Count, NEW e, NEW w, Inserted(e, k, w), Expected(Probes[k]),
         Sound(data, k - 1), NEW c \in 3 .. Count,
         NEW va \in Sites, ProbeAt[va] = Probes[c], va = Probes[c].va
  PROVE  SiteGets(data, e, k, va)
<1>1. Probes[c].how = "call" /\ c \in 1 .. Count /\ Va(Probes[c]) = va
  BY CallElsewhere
<1>2. /\ At(data, ProbeAt[va]) = IF Loaded(data, va, 1) = <<\he8>> THEN Trace(data, va) ELSE Broken
      /\ At(e, ProbeAt[va]) = IF Loaded(e, va, 1) = <<\he8>> THEN Trace(e, va) ELSE Broken
  BY <1>1 DEF At
<1>3. PICK W : Linked(data, W)
  BY DEF Sound
<1>4. CASE va = Probes[k].va
  <2>1. va = Va(Probes[k])
    BY <1>1, <1>4, SameSite
  <2>2. k \in 3 .. Count
    <3>1. k # 1 /\ k # 2
      BY <1>1, <2>1, CallElsewhere
    <3> QED
      BY <3>1, ProbeTypes
  <2>3. Loaded(data, va, 1) = <<\he8>> /\ Called(k)
    BY <1>4, <2>2, ExpectedLoaded DEF Called
  <2>4. Trace(data, va) \in Finding
    BY <1>3, <2>3, TraceFinds
  <2>5. Len(Trace(data, va).log) < Count
    <3>1. GoodLog(Trace(data, va).log, k - 1)
      BY <2>3 DEF Sound
    <3>2. Len(Trace(data, va).log) \in Nat /\ Count = 24
      BY <2>4, LenProperties, ListMembers DEF Finding
    <3> QED
      BY <3>1, <3>2 DEF GoodLog
  <2>6. /\ Loaded(e, va, 1) = <<\he8>> /\ Char(e, w) = Probes[k].ch /\ Char(e, w) \in Byte
        /\ Trace(e, va) = Behind(e, w, Trace(data, va))
    BY <1>3, <1>4, <2>2, <2>3, <2>5, NewTrace
  <2>7. /\ Trace(e, va).log = <<Probes[k].ch>> \o Trace(data, va).log
        /\ Trace(e, va).does = Trace(data, va).does
    BY <2>4, <2>6, Prepend
  <2> QED
    BY <1>2, <1>4, <2>3, <2>6, <2>7, Zenon DEF SiteGets
<1>5. CASE va # Probes[k].va
  <2>1. va # Va(Probes[k])
    BY <1>1, <1>5, SameSite
  <2>2. Loaded(e, va, 1) = Loaded(data, va, 1)
    BY <2>1, OtherCall
  <2>3. Loaded(data, va, 1) = <<\he8>> => Trace(e, va) = Trace(data, va)
    BY <1>3, <2>1, OtherTrace
  <2>4. At(e, ProbeAt[va]) = At(data, ProbeAt[va])
    BY <1>2, <2>2, <2>3
  <2> QED
    BY <1>5, <2>4 DEF SiteGets
<1> QED
  BY <1>4, <1>5

\* So it is at all sites.
LEMMA AllGet ==
  ASSUME ProbeInv, NEW k \in 1 .. Count, NEW e, NEW w, Inserted(e, k, w), Expected(Probes[k]),
         Sound(data, k - 1), NEW va \in Sites
  PROVE  SiteGets(data, e, k, va)
<1>1. PICK c \in 1 .. Count : Probes[c].va = va /\ ProbeAt[va] = Probes[c]
  BY SiteProbe
<1>2. c = 1 \/ c = 2 \/ c \in 3 .. Count
  BY ProbeTypes
<1> QED
  BY <1>1, <1>2, LgdtGets, EntryGets, CallGets

\* What the sites do.
DoesOf(d) == [va \in Sites |-> At(d, ProbeAt[va]).does]

\* What they print and do depends on the image.
LEMMA NextAt ==
  ASSUME segs' = segs, text_seg' = text_seg, NEW d
  PROVE  (Logs(d))' = Logs(d) /\ (DoesOf(d))' = DoesOf(d)
<1>1. \A p : (Va(p))' = Va(p)
  BY DEF Va
<1>2. ASSUME NEW va PROVE (LoadsGdt(d, va))' = LoadsGdt(d, va)
  <2>1. (Target(d, va))' = Target(d, va)
    BY NextReads
  <2>2. /\ (Prints(d, Target(d, va)))' <=> Prints(d, Target(d, va))
        /\ (Char(d, Target(d, va)))' = Char(d, Target(d, va))
        /\ (Loaded(d, Target(d, va) + 12, 2))' = Loaded(d, Target(d, va) + 12, 2)
        /\ (Loaded(d, Target(d, va) + 14, 8))' = Loaded(d, Target(d, va) + 14, 8)
        /\ (Loaded(d, Target(d, va) + 22, 4))' = Loaded(d, Target(d, va) + 22, 4)
    BY <2>1, NextReads
  <2>3. /\ (Loaded(d, va, 1))' = Loaded(d, va, 1)
        /\ (Loaded(d, va, 3))' = Loaded(d, va, 3)
        /\ (Loaded(d, va + 3, 4))' = Loaded(d, va + 3, 4)
        /\ (Loaded(d, va + 5, 2))' = Loaded(d, va + 5, 2)
    BY NextReads
  <2> QED
    BY <2>2, <2>3 DEF LoadsGdt
<1>3. \A va : (Entry(d, va))' = Entry(d, va)
  BY ZenonT(30) DEF Entry, Prints, Char, Loaded, Target, Foff
<1>4. \A va : (Trace(d, va))' = Trace(d, va)
  BY NextReads
<1>5. \A va : (Loaded(d, va, 1))' = Loaded(d, va, 1)
  BY NextReads
<1>6. ASSUME NEW p PROVE (At(d, p))' = At(d, p)
  <2>1. CASE p.how = "lgdt"
    <3>1. (LoadsGdt(d, Va(p)))' = LoadsGdt(d, Va(p))
      BY <1>1, <1>2
    <3> QED
      BY <2>1, <3>1 DEF At
  <2>2. CASE p.how = "entry"
    BY <1>3, <2>2 DEF At
  <2>3. CASE p.how # "lgdt" /\ p.how # "entry"
    BY <1>4, <1>5, <2>3 DEF At
  <2> QED
    BY <2>1, <2>2, <2>3
<1> QED
  BY <1>6, Zenon DEF Logs, DoesOf

\* What is saved, as the list of probes sees it.
SavedLogs == IF out = <<>> THEN <<>> ELSE Logs(out)

\* A saved output is the log of every site.
LEMMA LogsThere ==
  ASSUME NEW d
  PROVE  Logs(d) # <<>>
<1>1. 1 \in 1 .. Count
  BY ListMembers
<1>2. Probes[1].va \in Sites
  BY <1>1 DEF Sites
<1>3. DOMAIN Logs(d) = Sites /\ Sites # {}
  BY <1>2 DEF Logs
<1> QED
  BY <1>3

\* An insertion adds a character at one site.
LEMMA InsertAdds ==
  ASSUME OnceInv, Insert
  PROVE  Abstract!Add
<1>1. ProbeInv /\ Sound(data, Top) /\ segs' = segs /\ text_seg' = text_seg
  BY DEF OnceInv, Insert
<1>2. out = <<>> /\ step \in 1 .. Count /\ Expected(Probes[step]) /\ out' = out /\ step' = step + 1
  BY InsertOnce DEF Insert
<1>3. Sound(data, step - 1)
  BY <1>1, <1>2 DEF Top
<1>4. PICK w : Inserted(data', step, w)
  BY <1>1, InsertStep
<1>5. \A va \in Sites : SiteGets(data, data', step, va)
  BY <1>1, <1>2, <1>3, <1>4, AllGet
<1>6. (Logs(data))' = Logs(data') /\ (DoesOf(data))' = DoesOf(data')
  BY <1>1, NextAt
<1>7. DoesOf(data') = DoesOf(data)
  BY <1>5 DEF DoesOf, SiteGets
<1>8. Logs(data') = [Logs(data) EXCEPT ![Probes[step].va] = <<Probes[step].ch>> \o @]
  <2>1. Probes[step].va \in Sites
    BY <1>2 DEF Sites
  <2>2. ASSUME NEW va \in Sites
        PROVE  Logs(data')[va] = IF va = Probes[step].va THEN <<Probes[step].ch>> \o Logs(data)[va]
                                 ELSE Logs(data)[va]
    BY <1>5 DEF SiteGets, Logs
  <2>3. /\ Logs(data') = [va \in Sites |-> Logs(data')[va]]
        /\ Logs(data) = [va \in Sites |-> Logs(data)[va]]
    BY Zenon DEF Logs
  <2> QED
    BY <2>1, <2>2, <2>3
<1>9. step - 1 < Count /\ (step - 1) + 1 = step /\ step' - 1 = (step - 1) + 1 /\ Count = Len(Probes)
  BY <1>2, ListMembers DEF Count
<1>10. SavedLogs = <<>> /\ SavedLogs' = <<>>
  BY <1>2 DEF SavedLogs
<1> QED
  BY <1>6, <1>7, <1>8, <1>9, <1>10 DEF Abstract!Add, DoesOf, SavedLogs

\* K of an earlier version is kept.
LEMMA SkipKeeps ==
  ASSUME OnceInv, Skip
  PROVE  Abstract!Keep
<1>1. ProbeInv /\ Sound(data, Top) /\ segs' = segs /\ text_seg' = text_seg
  BY DEF OnceInv, Skip
<1>2. step \in 1 .. Count /\ Present(Probes[step]) /\ data' = data /\ out' = out /\ step' = step + 1
  BY <1>1, ProbeTypes DEF Skip, Turn, probe, ProbeInv
<1>3. step = 1 /\ Loaded(data, KSite, 1) = <<\he8>>
  BY <1>1, <1>2, PresentFirst
<1>4. Logs(data)[Probes[1].va] # <<>>
  <2>1. 1 \in 1 .. Count /\ Probes[1].va \in Sites
    BY <1>2, <1>3 DEF Sites
  <2>2. PICK c \in 1 .. Count : Probes[c].va = Probes[1].va /\ ProbeAt[Probes[1].va] = Probes[c]
    BY <2>1, SiteProbe
  <2>3. Va(Probes[c]) = KSite
    BY <1>1, <2>1, <2>2, SameSite DEF KSite
  <2>4. c = 1
    <3>1. c = 1 \/ c = 2 \/ c \in 3 .. Count
      BY ProbeTypes
    <3> QED
      BY <1>1, <2>3, <3>1, FrontSites
  <2>5. At(data, ProbeAt[Probes[1].va]) = LoadsGdt(data, KSite)
    BY <1>1, <2>2, <2>3, <2>4, FrontSites DEF At
  <2>6. Loaded(data, KSite + 5, 2) = <<\h90, \h90>> /\ WholeK(data, Target(data, KSite))
    BY <1>1, <1>3 DEF Sound, KWhole
  <2>7. LoadsGdt(data, KSite).log = <<Char(data, Target(data, KSite))>>
    BY <1>3, <2>6, GdtStub
  <2> QED
    BY <2>1, <2>5, <2>7 DEF Logs
<1>5. (Logs(data))' = Logs(data) /\ (DoesOf(data))' = DoesOf(data) /\ SavedLogs' = SavedLogs
  <2>1. \A d : (Logs(d))' = Logs(d) /\ (DoesOf(d))' = DoesOf(d)
    BY <1>1, NextAt
  <2>2. (Logs(data))' = Logs(data') /\ (DoesOf(data))' = DoesOf(data') /\ (Logs(out))' = Logs(out')
    BY <1>1, NextAt
  <2> QED
    BY <1>2, <2>2 DEF SavedLogs
<1>6. step - 1 = 0 /\ step' - 1 = 1
  BY <1>2, <1>3
<1> QED
  BY <1>3, <1>4, <1>5, <1>6 DEF Abstract!Keep, DoesOf, SavedLogs

\* The image is the output.
LEMMA SavePublishes ==
  ASSUME OnceInv, Save
  PROVE  Abstract!Publish
<1>1. ProbeInv /\ segs' = segs /\ text_seg' = text_seg
  BY DEF OnceInv, Save
<1>2. step = Count + 1 /\ out' = data /\ data' = data /\ step' = step
  BY DEF Save
<1>3. /\ (Logs(data))' = Logs(data') /\ (DoesOf(data))' = DoesOf(data')
      /\ (Logs(out))' = Logs(out')
  BY <1>1, NextAt
<1>4. out' # <<>>
  BY <1>1, <1>2, ImageThere
<1>5. SavedLogs' = Logs(data)
  BY <1>2, <1>3, <1>4 DEF SavedLogs
<1>6. step - 1 = Len(Probes)
  BY <1>2, ProbeTypes DEF Count
<1> QED
  BY <1>2, <1>3, <1>5, <1>6 DEF Abstract!Publish, DoesOf, SavedLogs

\* The output is the image of another run.
LEMMA AgainReruns ==
  ASSUME OnceInv, Again
  PROVE  Abstract!Rerun
<1>1. ProbeInv /\ segs' = segs /\ text_seg' = text_seg
  BY DEF OnceInv, Again
<1>2. out = data /\ data' = out /\ out' = out /\ step' = 1
  BY <1>1 DEF Again, ProbeInv
<1>3. /\ (Logs(data))' = Logs(data') /\ (DoesOf(data))' = DoesOf(data')
      /\ (Logs(out))' = Logs(out')
  BY <1>1, NextAt
<1>4. out # <<>> /\ Logs(out) # <<>>
  BY <1>1, <1>2, ImageThere, LogsThere
<1>5. SavedLogs = Logs(out) /\ SavedLogs' = SavedLogs /\ SavedLogs # <<>>
  BY <1>2, <1>3, <1>4 DEF SavedLogs
<1>6. step' - 1 = 0
  BY <1>2
<1> QED
  BY <1>2, <1>3, <1>5, <1>6 DEF Abstract!Rerun, DoesOf, SavedLogs

\* A failure changes nothing of the image.
LEMMA FailStutters ==
  ASSUME Fail \/ UNCHANGED vars
  PROVE  UNCHANGED Abstract!vars
<1>1. /\ segs' = segs /\ text_seg' = text_seg
      /\ data' = data /\ out' = out /\ step' = step
  BY DEF Fail, vars
<1>2. /\ (Logs(data))' = Logs(data') /\ (DoesOf(data))' = DoesOf(data')
      /\ (Logs(out))' = Logs(out')
  BY <1>1, NextAt
<1>3. SavedLogs' = SavedLogs
  BY <1>1, <1>2 DEF SavedLogs
<1> QED
  BY <1>1, <1>2, <1>3 DEF Abstract!vars, DoesOf, SavedLogs

\* For every kernel and area the program implements the list of probes: it adds
\* one character after the other, at one site each, and publishes a whole list.
THEOREM ListImplemented ==
  Spec => ImplementsList
<1>1. Init => Abstract!Init
  BY DEF Init, Abstract!Init
<1>2. OnceInv /\ [Next]_vars => [Abstract!Next]_(Abstract!vars)
  BY InsertAdds, SkipKeeps, SavePublishes, AgainReruns, FailStutters, Moves DEF Abstract!Next
<1> QED
  BY <1>1, <1>2, OnceInit, OnceNext, PTL DEF Spec, ImplementsList, Abstract!Spec
=============================================================================
