--------------------------- MODULE PatcherProofs ---------------------------
(***************************************************************************)
(* For every list of segments, every set of images and every area size:    *)
(* Patcher keeps its types, its stubs never overlap, and its CALLs land on *)
(* their own stubs.  The inductive invariant ties the two free pointers of *)
(* the stub area to each other and to the stubs handed out so far.         *)
(***************************************************************************)
EXTENDS Patcher, SequenceTheorems, TLAPS

\* The stub area has been found.
Running == pass \notin {"start", "noarea"}

\* The hits of a scan lie in the segment being scanned.
HitsInSeg == \A h \in hits : h.at \in SegOffsets(seg)

\* The area is padding of the first segment, tramp_ptr moves inside it, and
\* tramp_vptr is the address tramp_ptr is mapped at.
AreaInv ==
  Running =>
    /\ area.at .. area.at + area.size - 1 \subseteq image.pad \intersect SegOffsets(1)
    /\ area.at \in SegOffsets(1)
    /\ area.at <= tramp_ptr /\ tramp_ptr <= area.at + area.size
    /\ tramp_vptr = Vaddr(1, tramp_ptr)

\* Each stub has its own bytes of the area below tramp_ptr, and its record
\* holds the displacement from its site to it.
PatchesInv ==
  \A p \in patches :
    /\ Running
    /\ area.at <= p.stub /\ p.stub + p.size <= tramp_ptr
    /\ p.site \in SegOffsets(p.seg)
    /\ p.rel = Vaddr(1, p.stub) - (Vaddr(p.seg, p.site) + 5)

Disjoint ==
  \A p, q \in patches :
    p # q => p.stub + p.size <= q.stub \/ q.stub + q.size <= p.stub

IInv ==
  /\ TypeOK
  /\ image \in Images
  /\ HitsInSeg
  /\ AreaInv
  /\ PatchesInv
  /\ Disjoint

-----------------------------------------------------------------------------
(* Segments and displacements. *)

\* A segment's fields are numbers and its offsets are offsets of the file.
LEMMA SegFacts ==
  ASSUME NEW s \in SegIds
  PROVE  /\ Segs[s].vaddr \in Nat /\ Segs[s].foff \in Nat /\ Segs[s].size \in Nat
         /\ SegOffsets(s) \subseteq Offsets
         /\ \A a \in SegOffsets(s) : a \in Nat /\ Vaddr(s, a) \in Nat
<1>0. /\ Segs \in Seq([vaddr : Nat, foff : Nat, size : Nat])
      /\ s \in 1 .. Len(Segs)
  BY SegsAssumption DEF SegsAssumption, SegIds
<1>1. Segs[s] \in [vaddr : Nat, foff : Nat, size : Nat]
  BY <1>0, ElementOfSeq
<1>2. Segs[s].vaddr \in Nat /\ Segs[s].foff \in Nat /\ Segs[s].size \in Nat
  BY <1>1
<1>3. SegOffsets(s) \subseteq Offsets
  BY SegsAssumption DEF SegsAssumption
<1>4. ASSUME NEW a \in SegOffsets(s)
      PROVE  a \in Nat /\ Vaddr(s, a) \in Nat
  BY <1>2 DEF SegOffsets, Vaddr
<1> QED
  BY <1>2, <1>3, <1>4

\* The first segment exists.
LEMMA FirstSeg == 1 \in SegIds
  BY SegsAssumption DEF SegsAssumption, SegIds

\* Cutting to 32 bits gives an integer.
LEMMA Signed32Type ==
  ASSUME NEW x \in Int
  PROVE  Signed32(x) \in Int
  BY SegsAssumption DEF SegsAssumption, Signed32

\* rel32 of a CALL from any segment to the first one loses no bits.
LEMMA RelExact ==
  ASSUME NEW s \in SegIds, NEW a \in SegOffsets(s), NEW b \in SegOffsets(1)
  PROVE  Signed32(Vaddr(1, b) - (Vaddr(s, a) + 5)) = Vaddr(1, b) - (Vaddr(s, a) + 5)
  BY NearAssumption DEF NearAssumption, Signed32

\* A scan of segment s only gives decoded matches inside s.
LEMMA ScanHitsType ==
  ASSUME image \in Images, NEW s \in SegIds, NEW p, NEW reg
  PROVE  /\ ScanHits(s, p, reg) \subseteq HitRecords
         /\ \A h \in ScanHits(s, p, reg) : h.at \in SegOffsets(s)
<1> SUFFICES ASSUME NEW h \in ScanHits(s, p, reg)
             PROVE  h \in HitRecords /\ h.at \in SegOffsets(s)
  OBVIOUS
<1>1. PICK i \in Candidates, a \in SegOffsets(s) : h = Decoded(i, a)
  BY DEF ScanHits, Visible
<1>2. i \in Insns
  BY ImagesAssumption DEF ImagesAssumption, Layouts, Candidates
<1>3. a \in Nat
  BY SegFacts
<1>4. i.at \in Nat /\ i.len \in Nat /\ i.miss \in Nat /\ i.stub \in Nat \ {0}
  BY <1>2 DEF Insns
<1> QED
  BY <1>1, <1>3, <1>4 DEF Decoded, HitRecords

-----------------------------------------------------------------------------
(* Cells. *)

\* Every cell the program writes is a cell.
LEMMA CellTypes ==
  /\ Orig \in Cells
  /\ Nop \in Cells
  /\ \A site, k \in Nat : StubByte(site, k) \in Cells
  /\ \A site, k \in Nat, rel \in Int : CallByte(site, k, rel) \in Cells
  BY DEF Cells, Cell, Orig, Nop, StubByte, CallByte

\* Writing a stub and its CALL keeps the image an image of the same length.
LEMMA PatchedType ==
  ASSUME TypeOK, NEW h \in HitRecords, Rel32(h) \in Int
  PROVE  Patched(h) \in [Offsets -> Cells]
<1>1. /\ data \in [Offsets -> Cells] /\ tramp_ptr \in Nat
      /\ h.at \in Nat
  BY DEF TypeOK, HitRecords
<1>2. ASSUME NEW a \in Offsets
      PROVE  (IF a \in h.at .. h.at + 4 THEN CallByte(h.at, a - h.at, Rel32(h))
              ELSE IF a \in h.at + 5 .. h.at + PatchLen(h) - 1 THEN Nop
              ELSE IF a \in tramp_ptr .. tramp_ptr + StubLen(h) - 1
                   THEN StubByte(h.at, a - tramp_ptr)
              ELSE data[a]) \in Cells
  <2>1. a \in h.at .. h.at + 4 => a - h.at \in Nat
    BY <1>1
  <2>2. a \in tramp_ptr .. tramp_ptr + StubLen(h) - 1 => a \in Int /\ a >= tramp_ptr
    OBVIOUS
  <2>3. a \in tramp_ptr .. tramp_ptr + StubLen(h) - 1 => a - tramp_ptr \in Nat
    BY <1>1, <2>2
  <2>4. CASE a \in h.at .. h.at + 4
    BY <2>4, <2>1, <1>1, CellTypes
  <2>5. CASE a \in tramp_ptr .. tramp_ptr + StubLen(h) - 1
    BY <2>1, <2>3, <1>1, CellTypes
  <2> QED
    BY <2>4, <2>5, <1>1, CellTypes
<1> QED
  BY <1>1, <1>2 DEF Patched

-----------------------------------------------------------------------------
(* The inductive invariant. *)

\* It holds before the program has done anything.
LEMMA InitIInv == Init => IInv
<1> SUFFICES ASSUME Init PROVE IInv
  OBVIOUS
<1>1. image \in Layouts
  BY ImagesAssumption DEF ImagesAssumption, Init
<1>2. data \in [Offsets -> Cells] /\ region \in [Offsets -> Cells]
  BY CellTypes DEF Init
<1>3. TypeOK
  BY <1>1, <1>2, FirstSeg DEF Init, TypeOK, Passes, Exits
<1> QED
  BY <1>3 DEF Init, IInv, HitsInSeg, AreaInv, PatchesInv, Disjoint, Running

\* Entering a scan keeps the types of what it sets, and the hits it collects
\* lie in the segment it enters.
LEMMA ScanStep ==
  ASSUME image \in Images, NEW s \in SegIds, NEW p \in Passes,
         NEW reg \in [Offsets -> Cells], Scan(s, p, reg)
  PROVE  /\ pass' \in Passes /\ pass' = p
         /\ seg' \in SegIds
         /\ region' \in [Offsets -> Cells]
         /\ hits' \subseteq HitRecords
         /\ HitsInSeg'
<1>1. /\ hits' = ScanHits(s, p, reg) /\ seg' = s /\ pass' = p /\ region' = reg
  BY DEF Scan
<1>2. /\ ScanHits(s, p, reg) \subseteq HitRecords
      /\ \A h \in ScanHits(s, p, reg) : h.at \in SegOffsets(s)
  BY ScanHitsType
<1> QED
  BY <1>1, <1>2 DEF HitsInSeg

\* A step that leaves the area, the pointers and the patches alone, and does
\* not leave the part of the program that has an area, keeps what ties them.
LEMMA AreaUntouched ==
  ASSUME IInv, UNCHANGED <<image, area, tramp_ptr, tramp_vptr, patches>>,
         Running' <=> Running
  PROVE  AreaInv' /\ PatchesInv' /\ Disjoint'
  BY DEF IInv, AreaInv, PatchesInv, Disjoint

\* The area found lies in padding of the first segment, and both pointers
\* start at its first byte.
LEMMA StartStep == IInv /\ Start => IInv'
<1> SUFFICES ASSUME IInv, Start PROVE IInv'
  OBVIOUS
<1>1. image' = image /\ data' = data /\ patches' = patches /\ out' = "input"
  BY DEF Start
<1>2. PICK ar \in Areas(image.pad) :
        area' = ar /\ tramp_ptr' = ar.at /\ tramp_vptr' = Vaddr(1, ar.at)
  BY DEF Start
<1>3. /\ ar.at \in SegOffsets(1) /\ ar.size \in 1 .. Segs[1].size
      /\ ar \in [at : SegOffsets(1), size : 1 .. Segs[1].size]
      /\ IsArea(image.pad, ar.at, ar.size)
  BY <1>2 DEF Areas
<1>4. /\ pass' \in Passes /\ pass' = "vex"
      /\ seg' \in SegIds
      /\ region' \in [Offsets -> Cells]
      /\ hits' \subseteq HitRecords
      /\ HitsInSeg'
  <2>1. Scan(1, "vex", data) /\ "vex" \in Passes /\ data \in [Offsets -> Cells]
    BY DEF Start, Passes, IInv, TypeOK
  <2> QED
    BY <2>1, FirstSeg, ScanStep DEF IInv
<1>5. ar.at \in Nat /\ Vaddr(1, ar.at) \in Nat /\ ar.size \in Nat
  BY <1>3, FirstSeg, SegFacts
<1>6. ar \in [at : Nat, size : Nat]
  BY <1>3, <1>5
<1>7. TypeOK'
  BY <1>1, <1>2, <1>4, <1>5, <1>6 DEF IInv, TypeOK
<1>8. AreaInv'
  <2>1. ar.at .. ar.at + ar.size - 1 \subseteq image.pad \intersect SegOffsets(1)
    BY <1>3 DEF IsArea
  <2> QED
    BY <2>1, <1>1, <1>2, <1>3, <1>5 DEF AreaInv
<1>9. patches = {}
  BY DEF IInv, PatchesInv, Running, Start
<1> QED
  BY <1>1, <1>4, <1>7, <1>8, <1>9 DEF IInv, PatchesInv, Disjoint

\* Giving up for want of an area changes nothing that is tied to one.
LEMMA NoAreaStep == IInv /\ NoArea => IInv'
<1> SUFFICES ASSUME IInv, NoArea PROVE IInv'
  OBVIOUS
<1>1. TypeOK' /\ HitsInSeg'
  BY DEF IInv, TypeOK, HitsInSeg, NoArea, Exits
<1>2. AreaInv' /\ PatchesInv' /\ Disjoint'
  <2>1. Running' <=> Running
    BY DEF NoArea, Running
  <2> QED
    BY <2>1, AreaUntouched DEF NoArea
<1> QED
  BY <1>1, <1>2 DEF IInv, NoArea

\* Dropping a hit.
LEMMA SkipStep == ASSUME NEW h \in hits PROVE IInv /\ SkipHit(h) => IInv'
<1> SUFFICES ASSUME IInv, SkipHit(h) PROVE IInv'
  OBVIOUS
<1>1. TypeOK' /\ HitsInSeg'
  BY DEF IInv, TypeOK, HitsInSeg, SkipHit
<1>2. AreaInv' /\ PatchesInv' /\ Disjoint'
  <2>1. Running' <=> Running
    BY DEF SkipHit, Running
  <2> QED
    BY <2>1, AreaUntouched DEF SkipHit
<1> QED
  BY <1>1, <1>2 DEF IInv, SkipHit

\* Stopping because the area is full.
LEMMA AreaFullStep == ASSUME NEW h \in hits PROVE IInv /\ AreaFull(h) => IInv'
<1> SUFFICES ASSUME IInv, AreaFull(h) PROVE IInv'
  OBVIOUS
<1>1. TypeOK' /\ HitsInSeg'
  BY DEF IInv, TypeOK, HitsInSeg, AreaFull, Exits
<1>2. AreaInv' /\ PatchesInv' /\ Disjoint'
  <2>1. Running' <=> Running
    BY DEF AreaFull, Running
  <2> QED
    BY <2>1, AreaUntouched DEF AreaFull
<1> QED
  BY <1>1, <1>2 DEF IInv, AreaFull

\* NOPs are cells; the stub area's records do not change.
LEMMA NopOutStep == ASSUME NEW h \in hits PROVE IInv /\ NopOut(h) => IInv'
<1> SUFFICES ASSUME IInv, NopOut(h) PROVE IInv'
  OBVIOUS
<1>1. data' \in [Offsets -> Cells]
  BY CellTypes DEF IInv, TypeOK, NopOut
<1>2. TypeOK' /\ HitsInSeg'
  BY <1>1 DEF IInv, TypeOK, HitsInSeg, NopOut
<1>3. AreaInv' /\ PatchesInv' /\ Disjoint'
  <2>1. Running' <=> Running
    BY DEF NopOut, Running
  <2> QED
    BY <2>1, AreaUntouched DEF NopOut
<1> QED
  BY <1>2, <1>3 DEF IInv, NopOut

\* The stub goes to tramp_ptr, inside the area by the room check, and both
\* pointers move past it: no earlier stub reaches it, no later one starts
\* before its end.
LEMMA RedirectStep == ASSUME NEW h \in hits PROVE IInv /\ Redirect(h) => IInv'
<1> SUFFICES ASSUME IInv, Redirect(h) PROVE IInv'
  OBVIOUS
<1> DEFINE n == StubLen(h)
           new == [site |-> h.at, len |-> h.len, seg |-> seg, stub |-> tramp_ptr,
                   size |-> n, rel |-> Rel32(h)]
<1>1. /\ h \in HitRecords /\ h.at \in Nat /\ h.len \in Int /\ h.stub \in Nat \ {0}
      /\ h.at \in SegOffsets(seg) /\ seg \in SegIds
      /\ tramp_ptr \in Nat /\ tramp_vptr \in Nat
      /\ area.at \in Nat /\ area.size \in Nat
  BY DEF IInv, TypeOK, HitsInSeg, HitRecords
<1>2. n \in Nat \ {0}
  BY <1>1 DEF StubLen
<1>3. /\ data' = Patched(h)
      /\ patches' = patches \union {new}
      /\ tramp_ptr' = tramp_ptr + n
      /\ tramp_vptr' = tramp_vptr + n
      /\ hits' = hits \ {h}
      /\ UNCHANGED <<image, out, pass, seg, region, area>>
      /\ tramp_ptr + n <= area.at + area.size
      /\ Running
  BY DEF Redirect, Room, Running
<1>4. /\ area.at .. area.at + area.size - 1 \subseteq image.pad \intersect SegOffsets(1)
      /\ area.at <= tramp_ptr
      /\ tramp_vptr = Vaddr(1, tramp_ptr)
      /\ area.at \in SegOffsets(1)
  BY <1>3 DEF IInv, AreaInv
<1>5. tramp_ptr \in SegOffsets(1)
  <2>1. tramp_ptr \in area.at .. area.at + area.size - 1
    BY <1>1, <1>2, <1>3, <1>4
  <2> QED
    BY <2>1, <1>4
<1>6. /\ Rel32(h) = Vaddr(1, tramp_ptr) - (Vaddr(seg, h.at) + 5)
      /\ Rel32(h) \in Int
  <2>1. Rel32(h) = Vaddr(1, tramp_ptr) - (Vaddr(seg, h.at) + 5)
    BY <1>1, <1>4, <1>5, RelExact DEF Rel32
  <2>2. Vaddr(1, tramp_ptr) \in Nat /\ Vaddr(seg, h.at) \in Nat
    BY <1>1, <1>5, FirstSeg, SegFacts
  <2> QED
    BY <2>1, <2>2
<1>7. Vaddr(1, tramp_ptr + n) = Vaddr(1, tramp_ptr) + n
  BY <1>1, <1>2, FirstSeg, SegFacts DEF Vaddr
<1>8. new \in PatchRecords
  BY <1>1, <1>2, <1>6 DEF PatchRecords
<1>9. TypeOK' /\ HitsInSeg'
  <2>1. Patched(h) \in [Offsets -> Cells]
    BY <1>1, <1>6, PatchedType DEF IInv
  <2>2. tramp_ptr' \in Nat /\ tramp_vptr' \in Nat
    BY <1>1, <1>2, <1>3
  <2>3. patches' \subseteq PatchRecords
    BY <1>3, <1>8 DEF IInv, TypeOK
  <2> QED
    BY <1>3, <2>1, <2>2, <2>3 DEF IInv, TypeOK, HitsInSeg
<1>10. AreaInv'
  <2>1. Vaddr(1, tramp_ptr)' = Vaddr(1, tramp_ptr + n)
    BY <1>3 DEF Vaddr
  <2>2. tramp_vptr' = Vaddr(1, tramp_ptr')
    BY <1>3, <1>4, <1>7
  <2>3. area.at <= tramp_ptr + n
    BY <1>1, <1>2, <1>4
  <2> QED
    BY <2>2, <2>3, <1>3, <1>4 DEF AreaInv
<1>11. \A p \in patches : /\ area.at <= p.stub /\ p.stub + p.size <= tramp_ptr
                          /\ p.stub \in Nat /\ p.size \in Nat
  BY DEF IInv, PatchesInv, TypeOK, PatchRecords
<1>12. PatchesInv'
  <2> SUFFICES ASSUME NEW p \in patches'
               PROVE  /\ Running'
                      /\ area'.at <= p.stub /\ p.stub + p.size <= tramp_ptr'
                      /\ p.site \in SegOffsets(p.seg)
                      /\ p.rel = Vaddr(1, p.stub) - (Vaddr(p.seg, p.site) + 5)
    BY DEF PatchesInv
  <2>1. Running'
    BY <1>3 DEF Running
  <2>2. CASE p = new
    <3>1. /\ p.site = h.at /\ p.seg = seg /\ p.stub = tramp_ptr /\ p.size = n
          /\ p.rel = Rel32(h)
      BY <2>2
    <3> QED
      BY <3>1, <2>1, <1>1, <1>2, <1>3, <1>4, <1>6
  <2>3. CASE p \in patches
    <3>1. p.stub + p.size <= tramp_ptr + n
      BY <2>3, <1>11, <1>1, <1>2
    <3> QED
      BY <2>3, <3>1, <2>1, <1>3 DEF IInv, PatchesInv
  <2> QED
    BY <2>2, <2>3, <1>3
<1>13. Disjoint'
  <2> SUFFICES ASSUME NEW p \in patches', NEW q \in patches', p # q
               PROVE  p.stub + p.size <= q.stub \/ q.stub + q.size <= p.stub
    BY DEF Disjoint
  <2>1. new.stub = tramp_ptr
    OBVIOUS
  <2>2. CASE p \in patches /\ q \in patches
    BY <2>2 DEF IInv, Disjoint
  <2>3. CASE p = new /\ q \in patches
    BY <2>1, <2>3, <1>11
  <2>4. CASE p \in patches /\ q = new
    BY <2>1, <2>4, <1>11
  <2> QED
    BY <2>2, <2>3, <2>4, <1>3
<1> QED
  BY <1>3, <1>9, <1>10, <1>12, <1>13 DEF IInv

\* Going to another scan or segment, or to the write.
LEMMA EndScanStep == IInv /\ EndScan => IInv'
<1> SUFFICES ASSUME IInv, EndScan PROVE IInv'
  OBVIOUS
<1>1. /\ UNCHANGED <<image, data, out, area, tramp_ptr, tramp_vptr, patches>>
      /\ image \in Images /\ seg \in SegIds
      /\ data \in [Offsets -> Cells] /\ region \in [Offsets -> Cells]
  BY DEF EndScan, IInv, TypeOK
<1>2. seg < Len(Segs) => seg + 1 \in SegIds
  BY <1>1, SegsAssumption DEF SegsAssumption, SegIds
<1>3. \/ \E s \in SegIds, p \in Passes \ {"start"} :
              Scan(s, p, data) \/ Scan(s, p, region)
      \/ pass' = "write" /\ UNCHANGED <<seg, region, hits>>
  BY <1>1, <1>2, FirstSeg DEF EndScan, AfterVex, SameSegment, AfterInvpcid, Passes
<1>4. /\ pass' \in Passes \ {"start"} /\ seg' \in SegIds
      /\ region' \in [Offsets -> Cells]
      /\ hits' \subseteq HitRecords /\ HitsInSeg'
  <2>1. CASE pass' = "write" /\ UNCHANGED <<seg, region, hits>>
    BY <2>1 DEF IInv, TypeOK, HitsInSeg, Passes
  <2> QED
    BY <1>1, <1>3, <2>1, ScanStep
<1>5. TypeOK'
  BY <1>1, <1>4 DEF IInv, TypeOK
<1>6. AreaInv' /\ PatchesInv' /\ Disjoint'
  <2>1. Running /\ Running'
    BY <1>4 DEF Running, EndScan, AfterVex, SameSegment, AfterInvpcid, Passes
  <2> QED
    BY <2>1, <1>1, AreaUntouched
<1> QED
  BY <1>1, <1>4, <1>5, <1>6 DEF IInv

\* Writing the output changes nothing in memory.
LEMMA WriteStep == IInv /\ Write => IInv'
<1> SUFFICES ASSUME IInv, Write PROVE IInv'
  OBVIOUS
<1>1. TypeOK' /\ HitsInSeg'
  BY DEF IInv, TypeOK, HitsInSeg, Write, Exits
<1>2. AreaInv' /\ PatchesInv' /\ Disjoint'
  <2>1. Running' <=> Running
    BY DEF Write, Running
  <2> QED
    BY <2>1, AreaUntouched DEF Write
<1> QED
  BY <1>1, <1>2 DEF IInv, Write

\* Nothing changes.
LEMMA StutterStep == IInv /\ UNCHANGED vars => IInv'
<1> SUFFICES ASSUME IInv, UNCHANGED vars PROVE IInv'
  OBVIOUS
<1>1. TypeOK' /\ HitsInSeg'
  BY DEF IInv, TypeOK, HitsInSeg, vars
<1>2. AreaInv' /\ PatchesInv' /\ Disjoint'
  BY AreaUntouched DEF vars, Running
<1> QED
  BY <1>1, <1>2 DEF IInv, vars

\* The inductive invariant holds in every state of every run.
THEOREM Invariance == Spec => []IInv
<1>1. Init => IInv
  BY InitIInv
<1>2. IInv /\ [Next]_vars => IInv'
  <2> SUFFICES ASSUME IInv, [Next]_vars PROVE IInv'
    OBVIOUS
  <2>1. CASE Start
    BY <2>1, StartStep
  <2>2. CASE NoArea
    BY <2>2, NoAreaStep
  <2>3. ASSUME NEW h \in hits, HandleHit(h) PROVE IInv'
    BY <2>3, SkipStep, RedirectStep, AreaFullStep, NopOutStep DEF HandleHit
  <2>4. CASE EndScan
    BY <2>4, EndScanStep
  <2>5. CASE Write
    BY <2>5, WriteStep
  <2>6. CASE UNCHANGED vars
    BY <2>6, StutterStep
  <2> QED
    BY <2>1, <2>2, <2>3, <2>4, <2>5, <2>6 DEF Next
<1> QED
  BY <1>1, <1>2, PTL DEF Spec

\* Every variable keeps its type, whatever the image.
THEOREM TypeCorrect == Spec => []TypeOK
<1>1. IInv => TypeOK
  BY DEF IInv
<1> QED
  BY <1>1, Invariance, PTL

\* No two stubs share a byte and all lie in the 0xCC padding: no stub is
\* written over another or over code, whichever pass and segment asked for it.
THEOREM StubsNeverOverlap == Spec => []StubsApart
<1>1. IInv => StubsApart
  <2> SUFFICES ASSUME IInv PROVE StubsApart
    OBVIOUS
  <2>1. ASSUME NEW p \in patches
        PROVE  p.stub .. p.stub + p.size - 1 \subseteq image.pad
    <3>1. /\ area.at <= p.stub /\ p.stub + p.size <= tramp_ptr
          /\ tramp_ptr <= area.at + area.size
          /\ area.at .. area.at + area.size - 1 \subseteq image.pad
      BY DEF IInv, PatchesInv, AreaInv
    <3>2. /\ area.at \in Nat /\ area.size \in Nat /\ tramp_ptr \in Nat
          /\ p.stub \in Nat /\ p.size \in Nat
      BY DEF IInv, TypeOK, PatchRecords
    <3> QED
      BY <3>1, <3>2
  <2> QED
    BY <2>1 DEF IInv, Disjoint, StubsApart
<1> QED
  BY <1>1, Invariance, PTL

\* A CALL left whole in the image always reaches the stub made for its site.
THEOREM CallsAlwaysLand == Spec => []CallsLand
<1>1. IInv => CallsLand
  <2> SUFFICES ASSUME IInv, NEW p \in patches,
                      \A k \in 0 .. 4 : data[p.site + k] = CallByte(p.site, k, p.rel)
               PROVE  CallTarget(p) = Vaddr(1, p.stub)
    BY DEF CallsLand
  <2>1. /\ p.site \in Nat /\ p.seg \in SegIds /\ p.stub \in Nat
        /\ p.site \in SegOffsets(p.seg)
        /\ p.rel = Vaddr(1, p.stub) - (Vaddr(p.seg, p.site) + 5)
    BY DEF IInv, TypeOK, PatchRecords, PatchesInv
  <2>2. data[p.site].rel = p.rel
    <3>1. data[p.site + 0] = CallByte(p.site, 0, p.rel)
      OBVIOUS
    <3> QED
      BY <3>1, <2>1 DEF CallByte, Cell
  <2>3. Vaddr(1, p.stub) \in Int /\ Vaddr(p.seg, p.site) \in Int
    BY <2>1, FirstSeg, SegFacts DEF Vaddr
  <2> QED
    BY <2>1, <2>2, <2>3 DEF CallTarget
<1> QED
  BY <1>1, Invariance, PTL
=============================================================================
