--------------------------- MODULE RewriteProofs ---------------------------
(***************************************************************************)
(* For every list of segments, every set of images and every area size:    *)
(* the output holds none of the instructions the scans look for; on clean  *)
(* images each instruction is replaced whole and once, and Patcher         *)
(* implements InsnRewrite.  The inductive invariant ties the copies of a   *)
(* segment that the scans read, and the hits taken from them, to the image *)
(* that has gone on changing since.                                        *)
(***************************************************************************)
EXTENDS PatcherProofs

\* The scans in the order in which they come to one segment.
Turn(p) ==
  IF p = "vex" THEN 1 ELSE IF p = "movbe" THEN 2 ELSE IF p = "xstate" THEN 3
  ELSE IF p = "smap" THEN 4 ELSE IF p = "invpcid" THEN 5 ELSE 6

\* Scan p of segment s has not begun: the first loop has only the VEX scan, the
\* second one the others.
Ahead(s, p) ==
  \/ pass = "start"
  \/ pass = "vex" /\ (p = "vex" => seg < s)
  \/ /\ pass \in {"movbe", "xstate", "smap", "invpcid"} /\ p # "vex"
     /\ seg < s \/ (seg = s /\ Turn(pass) < Turn(p))

\* The place a scan finds a wanted instruction at, and what it finds.
Site(i) == i.at + i.rex
Hit(i) == Decoded(i, Site(i))

Stopped == pass \in {"full", "noarea"}

\* A wanted instruction is intact only while its scan is ahead or it is a hit
\* not handled yet.
PendingInv ==
  ~Stopped =>
    \A i \in image.insns : Wanted(i) /\ Intact(i) =>
      \A s \in SegIds : Site(i) \in SegOffsets(s) =>
        Ahead(s, i.op) \/ (pass = i.op /\ seg = s /\ Hit(i) \in hits)

\* What was overwritten when the segment was copied still is.
CopyInv == \A a \in Offsets : region[a] # Orig => data[a] # Orig

\* Nobody but Write patches the output.
OutInv == out = "patched" => pass = "done"

HandledInv == PendingInv /\ CopyInv /\ OutInv

-----------------------------------------------------------------------------
(* Cells and instructions. *)

\* The four kinds of cell differ.
LEMMA CellKinds ==
  /\ Orig.what = "orig" /\ Nop.what = "nop"
  /\ \A site, k, rel : CallByte(site, k, rel).what = "call"
  /\ \A site, k : StubByte(site, k).what = "stub"
  BY DEF Orig, Nop, CallByte, StubByte, Cell

\* An instruction has at least one byte and all of them are in one segment.
LEMMA InsnFacts ==
  ASSUME image \in Images, NEW i \in image.insns
  PROVE  /\ i \in Insns /\ i.at \in Nat /\ i.len \in Nat \ {0} /\ i.rex \in {0, 1}
         /\ i.miss \in {0, 4}
         /\ i.at \in Extent(i) /\ Extent(i) \subseteq Offsets
         /\ Extent(i) \intersect image.pad = {}
         /\ \E s \in SegIds : Extent(i) \subseteq SegOffsets(s)
         /\ \A j \in image.insns : i # j => Extent(i) \intersect Extent(j) = {}
<1>1. i \in Insns
  BY ImagesAssumption DEF ImagesAssumption, Layouts
<1>2. i.at \in Nat /\ i.len \in Nat \ {0} /\ i.rex \in {0, 1} /\ i.miss \in {0, 4}
  BY <1>1 DEF Insns
<1>3. /\ Extent(i) \intersect image.pad = {}
      /\ \E s \in SegIds : Extent(i) \subseteq SegOffsets(s)
      /\ \A j \in image.insns : i # j => Extent(i) \intersect Extent(j) = {}
  BY ImagesAssumption DEF ImagesAssumption
<1>4. i.at \in Extent(i)
  BY <1>2 DEF Extent
<1>5. Extent(i) \subseteq Offsets
  BY <1>3, SegFacts
<1> QED
  BY <1>1, <1>2, <1>3, <1>4, <1>5

\* A scan matches a wanted instruction of its kind at its site, looks at bytes of
\* the instruction, and its decoder accepts it.
LEMMA WantedFacts ==
  ASSUME image \in Images, NEW i \in image.insns, Wanted(i)
  PROVE  /\ Site(i) \in Matches(i, i.op)
         /\ Looked(i, i.op, Site(i)) \subseteq Extent(i)
         /\ Site(i) \in Nat /\ Site(i) \in Extent(i)
         /\ Hit(i).at = Site(i) /\ ~Hit(i).skip
         /\ i.op = "vex" => Hit(i).len >= 5
<1>1. i \in Insns /\ i.at \in Nat /\ i.len \in Nat /\ i.rex \in {0, 1} /\ i.miss \in {0, 4}
  BY InsnFacts
<1>2. i.op \in {"vex", "movbe", "xstate", "smap", "invpcid"}
  BY DEF Wanted
<1>3. Site(i) \in Matches(i, i.op)
  BY <1>1 DEF Wanted, Site, Matches, ScanOps, CollectMovbe, PrefixLen
<1>4. /\ Site(i) \in Looked(i, i.op, Site(i))
      /\ Looked(i, i.op, Site(i)) \subseteq Extent(i)
  BY <1>2, <1>3, InsnsAssumption DEF InsnsAssumption
<1>5. Site(i) \in Nat
  BY <1>1 DEF Site
<1>6. Site(i) \in Extent(i)
  BY <1>4
<1>7. Hit(i).at = Site(i) /\ ~Hit(i).skip
  BY <1>2 DEF Hit, Decoded
<1>8. i.op = "vex" => Hit(i).len >= 5
  BY <1>1, InsnsAssumption DEF InsnsAssumption, Hit, Decoded, Site
<1> QED
  BY <1>3, <1>4, <1>5, <1>6, <1>7, <1>8

\* A scan of the segment of an intact wanted instruction finds it, in any copy
\* with the bytes the image has now.
LEMMA Found ==
  ASSUME image \in Images, NEW i \in image.insns, Wanted(i), Intact(i),
         NEW s \in SegIds, Site(i) \in SegOffsets(s),
         NEW reg \in [Offsets -> Cells], \A a \in Offsets : reg[a] # Orig => data[a] # Orig
  PROVE  Hit(i) \in ScanHits(s, i.op, reg)
<1>1. Looked(i, i.op, Site(i)) \subseteq Extent(i) /\ Site(i) \in Extent(i)
  BY WantedFacts
<1>2. Extent(i) \subseteq SegOffsets(s)
  <2>1. PICK t \in SegIds : Extent(i) \subseteq SegOffsets(t)
    BY InsnFacts
  <2>2. t = s
    BY <1>1, <2>1, SegsAssumption DEF SegsAssumption
  <2> QED
    BY <2>1, <2>2
<1>3. Extent(i) \subseteq Offsets
  BY InsnFacts
<1>4. \A b \in Looked(i, i.op, Site(i)) : reg[b] = Orig
  BY <1>1, <1>3 DEF Intact
<1>5. Visible(reg, s, i, i.op, Site(i))
  BY <1>1, <1>2, <1>4 DEF Visible
<1>6. Site(i) \in {b \in Matches(i, i.op) : Visible(reg, s, i, i.op, b)}
  BY <1>5, WantedFacts
<1> QED
  BY <1>6 DEF ScanHits, Hit, Candidates

-----------------------------------------------------------------------------
(* What a step writes. *)

\* The offsets a hit is overwritten at.
Window(h) ==
  IF pass \in {"vex", "movbe"} THEN h.at .. h.at + PatchLen(h) - 1
  ELSE h.at .. h.at + NopLen(pass) - 1

\* The offsets its stub will take.
StubBytes(h) == tramp_ptr .. tramp_ptr + StubLen(h) - 1

\* A redirection writes a CALL, NOPs and a stub, and nothing else.
LEMMA RedirectWrites ==
  ASSUME IInv, NEW h \in hits, Redirect(h), NEW a \in Offsets
  PROVE  /\ a \in h.at .. h.at + 4 => data'[a] = CallByte(h.at, a - h.at, Rel32(h))
         /\ a \in h.at + 5 .. h.at + PatchLen(h) - 1 => data'[a] = Nop
         /\ a \in StubBytes(h) /\ a \notin Window(h)
              => data'[a] = StubByte(h.at, a - tramp_ptr)
         /\ a \notin StubBytes(h) /\ a \notin Window(h) => data'[a] = data[a]
<1>1. /\ h.at \in Nat /\ h.len \in Int /\ PatchLen(h) \in Int /\ PatchLen(h) >= 5
      /\ DOMAIN data = Offsets
  BY DEF IInv, TypeOK, HitRecords, PatchLen
<1>2. pass \in {"vex", "movbe"} /\ data' = Patched(h)
  BY DEF Redirect
<1>3. a \in Window(h) <=> a \in h.at .. h.at + 4 \/ a \in h.at + 5 .. h.at + PatchLen(h) - 1
  BY <1>1, <1>2 DEF Window, Offsets
<1>4. a \in h.at + 5 .. h.at + PatchLen(h) - 1 => a \notin h.at .. h.at + 4
  BY <1>1 DEF Offsets
<1> QED
  BY <1>1, <1>2, <1>3, <1>4 DEF Patched, StubBytes

\* A NOP pass writes NOPs over its hit.
LEMMA NopOutWrites ==
  ASSUME IInv, NEW h \in hits, NopOut(h), NEW a \in Offsets
  PROVE  /\ a \in Window(h) => data'[a] = Nop
         /\ a \notin Window(h) => data'[a] = data[a]
<1>1. pass \notin {"vex", "movbe"} /\ DOMAIN data = Offsets
  BY DEF IInv, TypeOK, NopOut
<1> QED
  BY <1>1 DEF NopOut, Window

\* Both overwrite the first byte of their hit.
LEMMA HitOverwritten ==
  ASSUME IInv, NEW h \in hits, Redirect(h) \/ NopOut(h), h.at \in Offsets
  PROVE  data'[h.at] # Orig
<1>1. h.at \in Nat
  BY DEF Offsets
<1>2. CASE Redirect(h)
  <2>1. h.at \in h.at .. h.at + 4
    BY <1>1
  <2> QED
    BY <1>2, <2>1, RedirectWrites, CellKinds
<1>3. CASE NopOut(h)
  <2>1. h.at \in Window(h)
    BY <1>1, <1>3 DEF Window, NopOut, NopLen
  <2> QED
    BY <1>3, <2>1, NopOutWrites, CellKinds
<1> QED
  BY <1>2, <1>3

\* The other steps write nothing.
LEMMA OthersWriteNothing ==
  ASSUME [Next]_vars, \A h \in hits : ~Redirect(h) /\ ~NopOut(h)
  PROVE  UNCHANGED data
  BY DEF Next, Start, NoArea, HandleHit, SkipHit, AreaFull, EndScan, Write, vars

\* The image never changes while it is patched.
LEMMA ImageStays == ASSUME [Next]_vars PROVE image' = image
  BY DEF Next, Start, NoArea, HandleHit, SkipHit, Redirect, AreaFull, NopOut, EndScan,
         Write, vars

\* Nothing that was overwritten becomes an input byte again.
LEMMA NothingRestored ==
  ASSUME IInv, [Next]_vars, NEW a \in Offsets, data[a] # Orig
  PROVE  data'[a] # Orig
<1>1. CASE UNCHANGED data
  BY <1>1
<1>2. ASSUME NEW h \in hits, Redirect(h) PROVE data'[a] # Orig
  <2>1. a \in Window(h) => a \in h.at .. h.at + 4 \/ a \in h.at + 5 .. h.at + PatchLen(h) - 1
    <3>1. pass \in {"vex", "movbe"} /\ h.at \in Nat
      BY <1>2 DEF Redirect, IInv, TypeOK, HitRecords
    <3> QED
      BY <3>1 DEF Window, Offsets
  <2> QED
    BY <1>2, <2>1, RedirectWrites, CellKinds
<1>3. ASSUME NEW h \in hits, NopOut(h) PROVE data'[a] # Orig
  BY <1>3, NopOutWrites, CellKinds
<1> QED
  BY <1>1, <1>2, <1>3, OthersWriteNothing

-----------------------------------------------------------------------------
(* Nothing is forgotten. *)

\* It holds before the program has done anything.
LEMMA InitHandled == Init => HandledInv
<1> SUFFICES ASSUME Init PROVE HandledInv
  OBVIOUS
<1>1. PendingInv
  BY DEF Init, PendingInv, Ahead
<1>2. CopyInv
  BY DEF Init, CopyInv
<1> QED
  BY <1>1, <1>2 DEF HandledInv, OutInv, Init

\* The copy is made of the image, or stays, and the image only gets more
\* written.
LEMMA CopyStays ==
  ASSUME IInv, CopyInv, [Next]_vars
  PROVE  CopyInv'
<1> SUFFICES ASSUME NEW a \in Offsets, region'[a] # Orig PROVE data'[a] # Orig
  BY DEF CopyInv
<1>1. \/ region' = region
      \/ region' = data
  BY DEF Next, Start, NoArea, HandleHit, SkipHit, Redirect, AreaFull, NopOut, EndScan,
         AfterVex, SameSegment, AfterInvpcid, Scan, Write, vars
<1>2. data[a] # Orig
  BY <1>1 DEF CopyInv
<1> QED
  BY <1>2, NothingRestored

\* Only Write says the output is patched, and ends the program.
LEMMA OutStays ==
  ASSUME OutInv, [Next]_vars
  PROVE  OutInv'
<1>1. ASSUME NEW h \in hits, HandleHit(h) PROVE OutInv'
  BY <1>1 DEF HandleHit, SkipHit, Redirect, AreaFull, NopOut, OutInv
<1>2. CASE EndScan
  BY <1>2 DEF EndScan, AfterVex, SameSegment, AfterInvpcid, OutInv
<1>3. CASE Start \/ NoArea \/ Write \/ UNCHANGED vars
  BY <1>3 DEF Start, NoArea, Write, vars, OutInv
<1> QED
  BY <1>1, <1>2, <1>3 DEF Next

\* A hit that was handled is not intact; the others are still to come.
LEMMA PendingHandled ==
  ASSUME IInv, HandledInv, NEW h \in hits, HandleHit(h)
  PROVE  PendingInv'
<1> SUFFICES ASSUME ~Stopped', NEW i \in image.insns, Wanted(i), Intact(i)',
                    NEW s \in SegIds, Site(i) \in SegOffsets(s)
             PROVE  Ahead(s, i.op)' \/ (pass' = i.op /\ seg' = s /\ Hit(i) \in hits')
  <2>1. image' = image
    BY DEF HandleHit, SkipHit, Redirect, AreaFull, NopOut
  <2> QED
    BY <2>1 DEF PendingInv
<1>1. ~AreaFull(h)
  BY DEF AreaFull, Stopped
<1>2. /\ pass' = pass /\ seg' = seg /\ hits' = hits \ {h} /\ ~Stopped
      /\ image \in Images /\ [Next]_vars
  BY <1>1 DEF HandleHit, SkipHit, Redirect, NopOut, Stopped, IInv, Next
<1>3. Intact(i)
  <2>1. ASSUME NEW a \in Extent(i) PROVE data[a] = Orig
    <3>1. a \in Offsets /\ data'[a] = Orig
      BY <1>2, InsnFacts DEF Intact
    <3> QED
      BY <3>1, <1>2, NothingRestored
  <2> QED
    BY <2>1 DEF Intact
<1>4. Ahead(s, i.op) \/ (pass = i.op /\ seg = s /\ Hit(i) \in hits)
  BY <1>2, <1>3 DEF HandledInv, PendingInv
<1>5. Ahead(s, i.op)' <=> Ahead(s, i.op)
  BY <1>2 DEF Ahead
<1>6. CASE pass = i.op /\ h = Hit(i)
  <2>1. /\ h.at \in Extent(i) /\ ~h.skip /\ h.at \in Nat /\ h.at \in Offsets
        /\ i.op = "vex" => h.len >= 5
    BY <1>2, <1>6, WantedFacts, InsnFacts
  <2>2. ~SkipHit(h)
    <3>1. h.len \in Int
      BY DEF IInv, TypeOK, HitRecords
    <3> QED
      BY <1>6, <2>1, <3>1 DEF SkipHit, Skipped
  <2>3. Redirect(h) \/ NopOut(h) => data'[h.at] # Orig
    BY <2>1, HitOverwritten
  <2>4. data'[h.at] = Orig
    BY <2>1 DEF Intact
  <2> QED
    BY <1>1, <2>2, <2>3, <2>4 DEF HandleHit
<1> QED
  BY <1>2, <1>4, <1>5, <1>6

\* A scan that begins has all its intact instructions among its hits; the
\* others of its loop and of the segments behind it stay ahead.
LEMMA PendingScan ==
  ASSUME IInv, HandledInv, EndScan
  PROVE  PendingInv'
<1> SUFFICES ASSUME NEW i \in image.insns, Wanted(i), Intact(i)',
                    NEW s \in SegIds, Site(i) \in SegOffsets(s)
             PROVE  Ahead(s, i.op)' \/ (pass' = i.op /\ seg' = s /\ Hit(i) \in hits')
  <2>1. image' = image
    BY DEF EndScan
  <2> QED
    BY <2>1 DEF PendingInv
<1>1. /\ hits = {} /\ image \in Images /\ data' = data /\ seg \in SegIds
      /\ data \in [Offsets -> Cells] /\ region \in [Offsets -> Cells]
      /\ \A a \in Offsets : region[a] # Orig => data[a] # Orig
  BY DEF EndScan, IInv, TypeOK, HandledInv, CopyInv
<1>2. Intact(i)
  BY <1>1 DEF Intact
<1>3. Ahead(s, i.op)
  <2>1. ~Stopped
    BY DEF EndScan, AfterVex, SameSegment, AfterInvpcid, Stopped
  <2> QED
    BY <1>1, <1>2, <2>1 DEF HandledInv, PendingInv
<1>4. ASSUME NEW reg, reg = data \/ reg = region PROVE Hit(i) \in ScanHits(s, i.op, reg)
  <2>1. reg \in [Offsets -> Cells] /\ \A a \in Offsets : reg[a] # Orig => data[a] # Orig
    BY <1>1, <1>4
  <2> QED
    BY <1>1, <1>2, <2>1, Found
<1>5. /\ seg \in Int /\ s \in Int /\ 1 <= s /\ s <= Len(Segs) /\ Len(Segs) \in Nat
      /\ 1 <= seg /\ seg <= Len(Segs)
  BY <1>1, SegsAssumption DEF SegIds, SegsAssumption
<1>6. i.op \in {"vex", "movbe", "xstate", "smap", "invpcid"}
  BY DEF Wanted
<1>7. CASE AfterVex
  <2>1. CASE seg < Len(Segs) /\ Scan(seg + 1, "vex", data)
    BY <1>3, <1>4, <1>5, <1>6, <2>1, <1>7 DEF Scan, Ahead, AfterVex
  <2>2. CASE seg = Len(Segs) /\ Scan(1, "movbe", data)
    BY <1>3, <1>4, <1>5, <1>6, <2>2, <1>7 DEF Scan, Ahead, AfterVex, Turn
  <2> QED
    BY <1>5, <1>7, <2>1, <2>2 DEF AfterVex
<1>8. CASE SameSegment
  <2>1. CASE pass = "movbe" /\ Scan(seg, "xstate", region)
    BY <1>3, <1>4, <1>5, <1>6, <2>1 DEF Scan, Ahead, Turn
  <2>2. CASE pass = "xstate" /\ Scan(seg, "smap", region)
    BY <1>3, <1>4, <1>5, <1>6, <2>2 DEF Scan, Ahead, Turn
  <2>3. CASE pass = "smap" /\ Scan(seg, "invpcid", region)
    BY <1>3, <1>4, <1>5, <1>6, <2>3 DEF Scan, Ahead, Turn
  <2> QED
    BY <1>8, <2>1, <2>2, <2>3 DEF SameSegment
<1>9. CASE AfterInvpcid
  <2>1. CASE seg < Len(Segs) /\ Scan(seg + 1, "movbe", data)
    BY <1>3, <1>4, <1>5, <1>6, <2>1, <1>9 DEF Scan, Ahead, AfterInvpcid, Turn
  <2>2. CASE seg = Len(Segs)
    BY <1>3, <1>5, <1>6, <2>2, <1>9 DEF Ahead, AfterInvpcid, Turn
  <2> QED
    BY <1>5, <1>9, <2>1, <2>2 DEF AfterInvpcid
<1> QED
  BY <1>7, <1>8, <1>9 DEF EndScan

\* The first scan begins with everything ahead or among its hits.
LEMMA PendingStart ==
  ASSUME IInv, Start
  PROVE  PendingInv'
<1> SUFFICES ASSUME NEW i \in image.insns, Wanted(i), Intact(i)',
                    NEW s \in SegIds, Site(i) \in SegOffsets(s)
             PROVE  Ahead(s, i.op)' \/ (pass' = i.op /\ seg' = s /\ Hit(i) \in hits')
  <2>1. image' = image
    BY DEF Start
  <2> QED
    BY <2>1 DEF PendingInv
<1>1. /\ data' = data /\ data \in [Offsets -> Cells] /\ image \in Images
      /\ Scan(1, "vex", data)
  BY DEF Start, IInv, TypeOK
<1>2. Intact(i)
  BY <1>1 DEF Intact
<1>3. Hit(i) \in ScanHits(s, i.op, data)
  BY <1>1, <1>2, Found
<1>4. s \in Int /\ 1 <= s
  BY SegsAssumption DEF SegIds, SegsAssumption
<1> QED
  BY <1>1, <1>3, <1>4 DEF Scan, Ahead

\* Every step keeps what is pending in order.
LEMMA HandledStep ==
  ASSUME IInv, HandledInv, [Next]_vars
  PROVE  HandledInv'
<1>1. CopyInv' /\ OutInv'
  BY CopyStays, OutStays DEF HandledInv
<1>2. PendingInv'
  <2>1. ASSUME NEW h \in hits, HandleHit(h) PROVE PendingInv'
    BY <2>1, PendingHandled
  <2>2. CASE NoArea
    BY <2>2 DEF NoArea, PendingInv, Stopped
  <2>3. CASE Write
    BY <2>3 DEF Write, HandledInv, PendingInv, Stopped, Ahead, Wanted, Intact
  <2>4. CASE UNCHANGED vars
    BY <2>4 DEF vars, HandledInv, PendingInv, Stopped, Ahead, Intact
  <2> QED
    BY <2>1, <2>2, <2>3, <2>4, PendingScan, PendingStart DEF Next
<1> QED
  BY <1>1, <1>2 DEF HandledInv

\* Both inductive invariants hold in every state of every run.
THEOREM HandledInvariance == Spec => [](IInv /\ HandledInv)
<1>1. Init => IInv /\ HandledInv
  BY InitIInv, InitHandled
<1>2. HandledInv /\ IInv /\ IInv' /\ [Next]_vars => HandledInv'
  BY HandledStep
<1> QED
  BY <1>1, <1>2, Invariance, PTL DEF Spec

\* Before the output is written, and behind it, nothing wanted is intact.
LEMMA NothingLeft ==
  ASSUME IInv, HandledInv, pass \in {"write", "done"}, NEW i \in image.insns, Wanted(i)
  PROVE  ~Intact(i)
<1>1. PICK s \in SegIds : Extent(i) \subseteq SegOffsets(s)
  BY InsnFacts DEF IInv
<1>2. Site(i) \in SegOffsets(s)
  BY <1>1, WantedFacts DEF IInv
<1>3. ~Ahead(s, i.op) /\ pass # i.op /\ ~Stopped
  BY DEF Ahead, Wanted, Stopped
<1> QED
  BY <1>2, <1>3 DEF HandledInv, PendingInv

\* A patched output holds no intact instruction that a scan looks for and its
\* decoder accepts, in any segment of any image.
THEOREM OutputHoldsNone == Spec => []AllHandled
<1>1. IInv /\ HandledInv => AllHandled
  <2> SUFFICES ASSUME IInv, HandledInv, out = "patched", NEW i \in image.insns, Wanted(i)
               PROVE  ~Intact(i)
    BY DEF AllHandled
  <2>1. pass = "done"
    BY DEF HandledInv, OutInv
  <2> QED
    BY <2>1, NothingLeft
<1> QED
  BY <1>1, HandledInvariance, PTL

-----------------------------------------------------------------------------
(* Clean images. *)

\* A clean instruction is intact, a CALL to its own stub, or a NOP.
Whole(i) == Intact(i) \/ Redirected(i) \/ NoppedOut(i)

\* Nobody has written to it, but for scans that found something in written
\* bytes.
Unhandled(i) == \A a \in Extent(i) : data[a] = Orig \/ Echoed(a)

\* Whatever the copy of the segment says, a hit that will be written over is an
\* unhandled instruction of the kind of the scan, or found in written bytes.
HitsInv ==
  ~Stopped =>
    \A h \in hits :
      \/ h.skip /\ pass \in {"vex", "movbe"}
      \/ \E i \in image.insns : i.op = pass /\ h = Hit(i) /\ Wanted(i) /\ Unhandled(i)
      \/ \A a \in Window(h) : Echoed(a)

\* An instruction is handled only when its scan has begun.
AheadInv ==
  \A i \in image.insns, s \in SegIds :
    Wanted(i) /\ Site(i) \in SegOffsets(s) /\ Ahead(s, i.op) => Unhandled(i)

\* Nothing has been written before the scans, and nothing of the area from the
\* free pointer on, but for the same exception.
FreeInv ==
  /\ pass = "start" => \A a \in Offsets : data[a] = Orig
  /\ Running => \A a \in tramp_ptr .. area.at + area.size - 1 : data[a] = Orig \/ Echoed(a)

CleanInv ==
  Clean =>
    /\ \A i \in image.insns : Whole(i) \/ Marred(i)
    /\ HitsInv
    /\ AheadInv
    /\ FreeInv

-----------------------------------------------------------------------------
(* What makes it inductive. *)

\* A replaced instruction keeps no byte of the input behind its REX prefix.
LEMMA ReplacedNotIntact ==
  ASSUME image \in Images, NEW i \in image.insns, Redirected(i) \/ NoppedOut(i)
  PROVE  \A a \in Extent(i) : a >= Site(i) => data[a] # Orig
<1>1. i.at \in Nat /\ i.len \in Nat /\ i.rex \in {0, 1}
  BY InsnFacts
<1> SUFFICES ASSUME NEW a \in Extent(i), a >= Site(i) PROVE data[a] # Orig
  OBVIOUS
<1>2. a \in Int
  BY <1>1 DEF Extent
<1>3. CASE Redirected(i)
  <2>1. a \in i.at .. i.at + 4 \/ a \in i.at + 5 .. i.at + i.len - 1
    BY <1>1, <1>2 DEF Extent
  <2> QED
    BY <1>3, <2>1, CellKinds DEF Redirected
<1>4. CASE NoppedOut(i)
  <2>1. a \in i.at + i.rex .. i.at + i.len - 1
    BY <1>1, <1>2 DEF Extent, Site
  <2> QED
    BY <1>4, <2>1, CellKinds DEF NoppedOut
<1> QED
  BY <1>3, <1>4

\* In a clean image a scan finds wanted instructions of its own kind, at their
\* sites, and those it skips; the rest is found in written bytes, and only in
\* the second loop.
LEMMA CleanHits ==
  ASSUME image \in Images, Clean, NEW s \in SegIds, NEW reg, NEW h,
         NEW p \in {"vex", "movbe", "xstate", "smap", "invpcid"}, h \in ScanHits(s, p, reg)
  PROVE  \/ h.skip /\ p \in {"vex", "movbe"}
         \/ \E i \in image.insns :
              i.op = p /\ h = Hit(i) /\ Wanted(i) /\ Site(i) \in SegOffsets(s)
         \/ p # "vex" /\ \E e \in image.echoes : \E a \in Matches(e, p) : h = Decoded(e, a)
<1>1. PICK i \in Candidates :
        \E a \in Matches(i, p) : h = Decoded(i, a) /\ Visible(reg, s, i, p, a)
  BY DEF ScanHits
<1>2. PICK a \in Matches(i, p) : h = Decoded(i, a) /\ Visible(reg, s, i, p, a)
  BY <1>1
<1>3. CASE i \in image.insns
  <2>1. i.op \in ScanOps(p) /\ Fits(i) /\ i.rex \in {0, 1} /\ i.at \in Nat
    BY <1>2, <1>3, InsnFacts DEF Matches, Clean
  <2>2. CASE i.op \in {"vexskip", "crc32r"}
    BY <1>2, <2>1, <2>2 DEF Decoded, ScanOps
  <2>3. CASE i.op \notin {"vexskip", "crc32r"}
    <3>1. i.op = p /\ Wanted(i)
      BY <2>1, <2>3 DEF ScanOps, Fits, Wanted
    <3>2. a = Site(i)
      BY <1>2, <2>1, <3>1 DEF Matches, CollectMovbe, PrefixLen, Fits, Site
    <3> QED
      BY <1>2, <1>3, <3>1, <3>2 DEF Hit, Visible
  <2> QED
    BY <2>2, <2>3
<1>4. CASE i \notin image.insns
  BY <1>2, <1>4 DEF Visible, Clean
<1> QED
  BY <1>3, <1>4

\* A scan that begins when no instruction of its kind and segment was handled
\* finds unhandled ones, also when the copy is older than the image.
LEMMA ScanClean ==
  ASSUME image \in Images, Clean, NEW s \in SegIds, NEW reg,
         NEW p \in {"vex", "movbe", "xstate", "smap", "invpcid"}, Scan(s, p, reg),
         UNCHANGED <<image, data>>, Ahead(s, p), AheadInv
  PROVE  HitsInv'
<1> SUFFICES ASSUME NEW h \in hits'
             PROVE  \/ h.skip /\ pass' \in {"vex", "movbe"}
                    \/ \E i \in image.insns :
                         i.op = pass' /\ h = Hit(i) /\ Wanted(i) /\ Unhandled(i)'
                    \/ (\A a \in Window(h) : Echoed(a))'
  BY DEF HitsInv
<1>1. h \in ScanHits(s, p, reg) /\ pass' = p
  BY DEF Scan
<1>2. CASE h.skip /\ p \in {"vex", "movbe"}
  BY <1>1, <1>2
<1>3. ASSUME NEW i \in image.insns, i.op = p, h = Hit(i), Wanted(i), Site(i) \in SegOffsets(s)
      PROVE  i.op = pass' /\ h = Hit(i) /\ Wanted(i) /\ Unhandled(i)'
  <2>1. Unhandled(i)
    BY <1>3 DEF AheadInv
  <2> QED
    BY <1>1, <1>3, <2>1 DEF Unhandled, Echoed
<1>4. ASSUME p # "vex", NEW e \in image.echoes, NEW b \in Matches(e, p), h = Decoded(e, b)
      PROVE  (\A a \in Window(h) : Echoed(a))'
  <2>1. Window(h)' = Target(e, p, b)
    BY <1>1, <1>4 DEF Window, Target, Decoded
  <2>2. \A a \in Target(e, p, b) : Echoed(a)
    BY <1>4 DEF Echoed
  <2> QED
    BY <2>1, <2>2 DEF Echoed
<1> QED
  BY <1>1, <1>2, <1>3, <1>4, CleanHits

\* It holds before the program has done anything.
LEMMA InitClean == Init => CleanInv
<1> SUFFICES ASSUME Init, Clean PROVE CleanInv
  BY DEF CleanInv
<1>1. image \in Images /\ \A a \in Offsets : data[a] = Orig
  BY DEF Init
<1>2. ASSUME NEW i \in image.insns PROVE Intact(i)
  BY <1>1, <1>2, InsnFacts DEF Intact
<1>3. HitsInv /\ AheadInv /\ FreeInv
  BY <1>1, <1>2 DEF Init, HitsInv, AheadInv, Unhandled, Intact, FreeInv, Running
<1> QED
  BY <1>2, <1>3 DEF CleanInv, Whole

\* An instruction stays whole when neither its bytes nor those of its stubs
\* change.
LEMMA WholeStays ==
  ASSUME image \in Images, NEW i \in image.insns, Whole(i), patches \subseteq patches',
         \A a \in Extent(i) : data'[a] = data[a],
         \A p \in patches : p.site = i.at =>
           \A k \in 0 .. p.size - 1 : data'[p.stub + k] = data[p.stub + k]
  PROVE  Whole(i)'
<1>1. i.at \in Nat /\ i.len \in Nat \ {0} /\ i.rex \in {0, 1} /\ i.at \in Extent(i)
  BY InsnFacts
<1>2. CASE Intact(i)
  BY <1>2 DEF Whole, Intact
<1>3. CASE NoppedOut(i)
  <2>1. /\ i.at .. i.at + i.rex - 1 \subseteq Extent(i)
        /\ i.at + i.rex .. i.at + i.len - 1 \subseteq Extent(i)
    BY <1>1, <1>3 DEF Extent, NoppedOut
  <2> QED
    BY <1>3, <2>1 DEF Whole, NoppedOut
<1>4. CASE Redirected(i)
  <2>1. PICK p \in patches :
          /\ p.site = i.at
          /\ i.len >= 5
          /\ \A a \in i.at .. i.at + 4 : data[a] = CallByte(i.at, a - i.at, p.rel)
          /\ \A a \in i.at + 5 .. i.at + i.len - 1 : data[a] = Nop
          /\ StubLives(p)
          /\ CallTarget(p) = Vaddr(1, p.stub)
    BY <1>4 DEF Redirected
  <2>2. i.at .. i.at + 4 \subseteq Extent(i) /\ i.at + 5 .. i.at + i.len - 1 \subseteq Extent(i)
    BY <1>1, <2>1 DEF Extent
  <2>3. StubLives(p)'
    BY <2>1 DEF StubLives
  <2>4. CallTarget(p)' = CallTarget(p)
    BY <1>1, <2>1 DEF CallTarget, Vaddr
  <2>5. Vaddr(1, p.stub)' = Vaddr(1, p.stub)
    BY DEF Vaddr
  <2>6. p \in patches' /\ CallTarget(p)' = Vaddr(1, p.stub)'
    BY <2>1, <2>4, <2>5
  <2> QED
    BY <2>1, <2>2, <2>3, <2>6 DEF Whole, Redirected
<1> QED
  BY <1>2, <1>3, <1>4 DEF Whole

\* What is marred stays so.
LEMMA MarredStays ==
  ASSUME NEW i, Marred(i), image' = image, patches \subseteq patches'
  PROVE  Marred(i)'
  BY DEF Marred, Echoed

\* Where a hit is written over in a clean image: inside one unhandled
\* instruction, or where scans find something in written bytes.
LEMMA CleanTarget ==
  ASSUME IInv, CleanInv, Clean, NEW h \in hits, Redirect(h) \/ NopOut(h)
  PROVE  \/ \A a \in Window(h) : Echoed(a)
         \/ \E i \in image.insns :
              /\ i.op = pass /\ h = Hit(i) /\ Wanted(i) /\ Unhandled(i)
              /\ Window(h) \subseteq Extent(i) /\ h.at = Site(i)
              /\ Redirect(h) => h.at = i.at /\ PatchLen(h) = i.len /\ i.len >= 5
              /\ NopOut(h) => Window(h) = Site(i) .. i.at + i.len - 1 /\ i.len > i.rex
<1>1. \/ \A a \in Window(h) : Echoed(a)
      \/ \E i \in image.insns : i.op = pass /\ h = Hit(i) /\ Wanted(i) /\ Unhandled(i)
  BY DEF CleanInv, HitsInv, Redirect, NopOut, Skipped, Stopped
<1> SUFFICES ASSUME NEW i \in image.insns, i.op = pass, h = Hit(i), Wanted(i), Unhandled(i)
             PROVE  /\ Window(h) \subseteq Extent(i) /\ h.at = Site(i)
                    /\ Redirect(h) => h.at = i.at /\ PatchLen(h) = i.len /\ i.len >= 5
                    /\ NopOut(h) => Window(h) = Site(i) .. i.at + i.len - 1 /\ i.len > i.rex
  BY <1>1
<1>2. i.at \in Nat /\ i.len \in Nat /\ i.rex \in {0, 1} /\ Fits(i)
  BY InsnFacts DEF IInv, Clean
<1>3. h.at = Site(i) /\ h.len = i.at + i.len - Site(i)
  BY <1>2 DEF Hit, Decoded, Fits, Site
<1>4. CASE Redirect(h)
  <2>1. pass \in {"vex", "movbe"} /\ i.rex = 0 /\ i.len >= 5
    BY <1>2, <1>4 DEF Redirect, Fits
  <2>2. h.at = i.at /\ h.len = i.len /\ PatchLen(h) = i.len
    BY <1>2, <1>3, <2>1 DEF Site, PatchLen
  <2>3. ~NopOut(h)
    BY <2>1 DEF NopOut
  <2> QED
    BY <1>3, <2>1, <2>2, <2>3 DEF Window, Extent
<1>5. CASE NopOut(h)
  <2>1. pass \in {"xstate", "smap"} /\ i.len = 3 + i.rex
    BY <1>2, <1>5 DEF NopOut, Fits, Wanted
  <2>2. Window(h) = Site(i) .. i.at + i.len - 1 /\ i.len > i.rex
    BY <1>2, <1>3, <2>1 DEF Window, NopLen, Site
  <2>3. Window(h) \subseteq Extent(i)
    BY <1>2, <2>2 DEF Extent, Site
  <2>4. ~Redirect(h)
    BY <2>1 DEF Redirect
  <2> QED
    BY <1>3, <2>2, <2>3, <2>4
<1> QED
  BY <1>4, <1>5

\* The bytes a stub takes are free bytes of the area, padding, and of no stub.
LEMMA StubTarget ==
  ASSUME IInv, NEW h \in hits, Redirect(h)
  PROVE  /\ StubBytes(h) \subseteq image.pad /\ StubBytes(h) \subseteq Offsets
         /\ StubBytes(h) \subseteq tramp_ptr .. area.at + area.size - 1
         /\ StubLen(h) \in Nat
         /\ \A p \in patches : \A k \in 0 .. p.size - 1 : p.stub + k \notin StubBytes(h)
<1>1. /\ Running
      /\ area.at .. area.at + area.size - 1 \subseteq image.pad \intersect SegOffsets(1)
      /\ area.at <= tramp_ptr /\ tramp_ptr <= area.at + area.size
  BY DEF IInv, AreaInv, Running, Redirect
<1>2. /\ tramp_ptr \in Nat /\ area.at \in Nat /\ area.size \in Nat
      /\ h.len \in Int /\ h.stub \in Nat
  BY DEF IInv, TypeOK, HitRecords
<1>3. StubLen(h) \in Nat /\ tramp_ptr + StubLen(h) <= area.at + area.size
  BY <1>2 DEF StubLen, Redirect, Room
<1>4. area.at .. area.at + area.size - 1 \subseteq Offsets
  BY <1>1, FirstSeg, SegFacts
<1>5. /\ StubBytes(h) \subseteq tramp_ptr .. area.at + area.size - 1
      /\ StubBytes(h) \subseteq area.at .. area.at + area.size - 1
  BY <1>1, <1>2, <1>3 DEF StubBytes
<1>6. ASSUME NEW p \in patches, NEW k \in 0 .. p.size - 1 PROVE p.stub + k \notin StubBytes(h)
  <2>1. /\ p.stub \in Nat /\ p.size \in Nat /\ area.at <= p.stub
        /\ p.stub + p.size <= tramp_ptr
    BY DEF IInv, TypeOK, PatchRecords, PatchesInv
  <2> QED
    BY <1>1, <1>2, <1>3, <2>1 DEF StubBytes
<1> QED
  BY <1>1, <1>3, <1>4, <1>5, <1>6

\* Stubs that were written are in the padding.
LEMMA StubsInPadding ==
  ASSUME IInv, NEW p \in patches, NEW k \in 0 .. p.size - 1
  PROVE  p.stub + k \in image.pad /\ p.stub + k \in Offsets
<1>1. /\ area.at <= p.stub /\ p.stub + p.size <= tramp_ptr
      /\ tramp_ptr <= area.at + area.size
      /\ area.at .. area.at + area.size - 1 \subseteq image.pad \intersect SegOffsets(1)
  BY DEF IInv, PatchesInv, AreaInv
<1>2. /\ area.at \in Nat /\ area.size \in Nat /\ tramp_ptr \in Nat
      /\ p.stub \in Nat /\ p.size \in Nat
  BY DEF IInv, TypeOK, PatchRecords
<1>3. p.stub + k \in area.at .. area.at + area.size - 1
  BY <1>1, <1>2
<1> QED
  BY <1>1, <1>3, FirstSeg, SegFacts

\* A step writes to the window of its hit and to its stub.
LEMMA Untouched ==
  ASSUME IInv, NEW h \in hits, Redirect(h) \/ NopOut(h), NEW a \in Offsets,
         a \notin Window(h), ~(Redirect(h) /\ a \in StubBytes(h))
  PROVE  data'[a] = data[a]
<1>1. CASE Redirect(h)
  BY <1>1, RedirectWrites
<1>2. CASE NopOut(h)
  BY <1>2, NopOutWrites
<1> QED
  BY <1>1, <1>2

\* Replacing one instruction leaves the others, their stubs and the rest of the
\* area as they were; so does writing for something found in written bytes,
\* but where it writes.
LEMMA OthersStay ==
  ASSUME IInv, Clean, NEW h \in hits, Redirect(h) \/ NopOut(h), NEW i,
         \/ \A a \in Window(h) : Echoed(a)
         \/ i \in image.insns /\ Window(h) \subseteq Extent(i)
  PROVE  /\ \A j \in image.insns : j # i => \A a \in Extent(j) : ~Echoed(a) => data'[a] = data[a]
         /\ \A p \in patches : \A k \in 0 .. p.size - 1 :
              ~Echoed(p.stub + k) => data'[p.stub + k] = data[p.stub + k]
         /\ \A a \in image.pad :
              ~Echoed(a) /\ ~(Redirect(h) /\ a \in StubBytes(h)) /\ a \in Offsets
                => data'[a] = data[a]
<1>1. ASSUME NEW j \in image.insns, j # i, NEW a \in Extent(j), ~Echoed(a)
      PROVE  data'[a] = data[a]
  <2>1. a \in Offsets /\ a \notin image.pad
    BY <1>1, InsnFacts DEF IInv
  <2>2. a \notin Window(h)
    BY <1>1, InsnFacts DEF IInv
  <2> QED
    BY <2>1, <2>2, StubTarget, Untouched
<1>2. ASSUME NEW a \in image.pad, a \in Offsets, ~Echoed(a),
             ~(Redirect(h) /\ a \in StubBytes(h))
      PROVE  data'[a] = data[a]
  <2>1. a \notin Window(h)
    BY <1>2, InsnFacts DEF IInv
  <2> QED
    BY <1>2, <2>1, Untouched
<1>3. ASSUME NEW p \in patches, NEW k \in 0 .. p.size - 1, ~Echoed(p.stub + k)
      PROVE  data'[p.stub + k] = data[p.stub + k]
  <2>1. p.stub + k \in image.pad /\ p.stub + k \in Offsets
    BY StubsInPadding
  <2>2. Redirect(h) => p.stub + k \notin StubBytes(h)
    BY StubTarget
  <2> QED
    BY <1>2, <1>3, <2>1, <2>2
<1> QED
  BY <1>1, <1>2, <1>3

\* The instruction a CALL replaces is a CALL to its own whole stub.
LEMMA RedirectedWhole ==
  ASSUME IInv, IInv', CleanInv, Clean, NEW h \in hits, Redirect(h),
         NEW i \in image.insns, h.at = i.at, PatchLen(h) = i.len, i.len >= 5
  PROVE  Redirected(i)'
<1> DEFINE new == [site |-> h.at, len |-> h.len, seg |-> seg, stub |-> tramp_ptr,
                   size |-> StubLen(h), rel |-> Rel32(h)]
<1>1. PICK p : p = new
  OBVIOUS
<1>2. /\ p.site = i.at /\ p.seg = seg /\ p.stub = tramp_ptr /\ p.size = StubLen(h)
      /\ p.rel = Rel32(h)
  BY <1>1
<1>3. p \in patches'
  BY <1>1 DEF Redirect
<1>4. i.at \in Nat /\ i.len \in Nat /\ Extent(i) \subseteq Offsets
  BY InsnFacts DEF IInv
<1>5. /\ i.at .. i.at + 4 \subseteq Offsets
      /\ i.at + 5 .. i.at + i.len - 1 \subseteq Offsets
  BY <1>4 DEF Extent
<1>6. \A a \in i.at .. i.at + 4 : data'[a] = CallByte(i.at, a - i.at, p.rel)
  BY <1>2, <1>5, RedirectWrites
<1>7. \A a \in i.at + 5 .. i.at + i.len - 1 : data'[a] = Nop
  BY <1>5, RedirectWrites
<1>8. \A k \in 0 .. p.size - 1 : data'[p.stub + k] = StubByte(p.site, k)
  <2> SUFFICES ASSUME NEW k \in 0 .. StubLen(h) - 1
               PROVE  data'[tramp_ptr + k] = StubByte(i.at, k)
    BY <1>2
  <2>1. StubLen(h) \in Nat /\ tramp_ptr \in Nat
    BY StubTarget DEF IInv, TypeOK
  <2>2. tramp_ptr + k \in StubBytes(h) /\ (tramp_ptr + k) - tramp_ptr = k
    BY <2>1 DEF StubBytes
  <2>3. tramp_ptr + k \in Offsets /\ tramp_ptr + k \in image.pad
    BY <2>2, StubTarget
  <2>4. tramp_ptr + k \notin Window(h)
    <3>1. pass \in {"vex", "movbe"}
      BY DEF Redirect
    <3>2. Window(h) = Extent(i)
      BY <3>1 DEF Window, Extent
    <3> QED
      BY <2>3, <3>2, InsnFacts DEF IInv
  <2> QED
    BY <2>2, <2>3, <2>4, RedirectWrites
<1>9. Vaddr(p.seg, p.site) + 5 + p.rel = Vaddr(1, p.stub)
  <2>1. /\ p.site \in SegOffsets(p.seg) /\ p.seg \in SegIds /\ p.stub \in Nat /\ p.site \in Nat
        /\ p.rel = Vaddr(1, p.stub) - (Vaddr(p.seg, p.site) + 5)
    BY <1>3 DEF IInv, TypeOK, PatchRecords, PatchesInv
  <2>2. Vaddr(1, p.stub) \in Int /\ Vaddr(p.seg, p.site) \in Int
    BY <2>1, FirstSeg, SegFacts DEF Vaddr
  <2> QED
    BY <2>1, <2>2
<1>10. data'[p.site].rel = p.rel
  <2>1. i.at \in i.at .. i.at + 4
    BY <1>4
  <2>2. data'[i.at] = CallByte(i.at, i.at - i.at, p.rel)
    BY <1>6, <2>1
  <2> QED
    BY <1>2, <2>2 DEF CallByte, Cell
<1>11. CallTarget(p)' = Vaddr(1, p.stub)'
  BY <1>9, <1>10 DEF CallTarget, Vaddr
<1>12. StubLives(p)'
  BY <1>8 DEF StubLives
<1>13. image' = image
  BY DEF Redirect
<1> QED
  BY <1>2, <1>3, <1>6, <1>7, <1>11, <1>12 DEF Redirected

\* A handled instruction is replaced as a whole, if no scan finds something in
\* written bytes there.
LEMMA TargetWhole ==
  ASSUME IInv, IInv', CleanInv, Clean, NEW h \in hits, Redirect(h) \/ NopOut(h),
         NEW i \in image.insns, Unhandled(i), h.at = Site(i),
         Redirect(h) => h.at = i.at /\ PatchLen(h) = i.len /\ i.len >= 5,
         NopOut(h) => Window(h) = Site(i) .. i.at + i.len - 1 /\ i.len > i.rex
  PROVE  Whole(i)' \/ Marred(i)'
<1>1. image' = image /\ patches \subseteq patches'
  BY DEF Redirect, NopOut
<1>2. CASE \E a \in Extent(i) : Echoed(a)
  BY <1>1, <1>2, MarredStays DEF Marred
<1>3. CASE \A a \in Extent(i) : ~Echoed(a)
  <2>1. \A a \in Extent(i) : data[a] = Orig
    BY <1>3 DEF Unhandled
  <2>2. CASE Redirect(h)
    BY <2>2, RedirectedWhole DEF Whole
  <2>3. CASE NopOut(h)
    <3>1. i.at \in Nat /\ i.len \in Nat /\ i.rex \in {0, 1} /\ Extent(i) \subseteq Offsets
      BY InsnFacts DEF IInv
    <3>2. ASSUME NEW a \in i.at + i.rex .. i.at + i.len - 1 PROVE data'[a] = Nop
      <4>1. a \in Window(h) /\ a \in Extent(i) /\ a \in Offsets
        BY <2>3, <3>1 DEF Site, Extent
      <4> QED
        BY <2>3, <4>1, NopOutWrites
    <3>3. ASSUME NEW a \in i.at .. i.at + i.rex - 1 PROVE data'[a] = Orig
      <4>1. a \in Extent(i) /\ a \notin Window(h) /\ a \in Offsets
        BY <2>3, <3>1 DEF Site, Extent
      <4> QED
        BY <2>1, <2>3, <4>1, NopOutWrites
    <3> QED
      BY <2>3, <3>2, <3>3 DEF Whole, NoppedOut
  <2> QED
    BY <2>2, <2>3
<1> QED
  BY <1>2, <1>3

\* Writing over a hit keeps a clean image clean.
LEMMA CleanReplace ==
  ASSUME IInv, IInv', CleanInv, Clean, NEW h \in hits, Redirect(h) \/ NopOut(h)
  PROVE  CleanInv'
<1> DEFINE Handles(i) ==
      /\ i \in image.insns
      /\ i.op = pass /\ h = Hit(i) /\ Wanted(i) /\ Unhandled(i)
      /\ Window(h) \subseteq Extent(i) /\ h.at = Site(i)
      /\ Redirect(h) => h.at = i.at /\ PatchLen(h) = i.len /\ i.len >= 5
      /\ NopOut(h) => Window(h) = Site(i) .. i.at + i.len - 1 /\ i.len > i.rex
<1>1. PICK i : (\A a \in Window(h) : Echoed(a)) \/ Handles(i)
  BY CleanTarget
<1>2. /\ \A j \in image.insns : j # i => \A a \in Extent(j) : ~Echoed(a) => data'[a] = data[a]
      /\ \A p \in patches : \A k \in 0 .. p.size - 1 :
           ~Echoed(p.stub + k) => data'[p.stub + k] = data[p.stub + k]
      /\ \A a \in image.pad :
           ~Echoed(a) /\ ~(Redirect(h) /\ a \in StubBytes(h)) /\ a \in Offsets
             => data'[a] = data[a]
  BY <1>1, OthersStay
<1>3. /\ image' = image /\ pass' = pass /\ seg' = seg /\ hits' = hits \ {h}
      /\ area' = area /\ patches \subseteq patches' /\ image \in Images
      /\ \A a : Echoed(a)' <=> Echoed(a)
  BY DEF Redirect, NopOut, IInv, Echoed
<1>4. ASSUME ~Handles(i) PROVE \A j \in image.insns : \A a \in Extent(j) : ~Echoed(a) => data'[a] = data[a]
  <2> SUFFICES ASSUME NEW j \in image.insns, NEW a \in Extent(j), ~Echoed(a)
               PROVE  data'[a] = data[a]
    OBVIOUS
  <2>1. a \in Offsets /\ a \notin image.pad /\ a \notin Window(h)
    BY <1>1, <1>4, InsnFacts DEF IInv
  <2> QED
    BY <2>1, StubTarget, Untouched
<1>5. ASSUME NEW j \in image.insns, j = i => ~Handles(i)
      PROVE  \A a \in Extent(j) : ~Echoed(a) => data'[a] = data[a]
  BY <1>2, <1>4, <1>5
<1>6. ASSUME NEW j \in image.insns, Unhandled(j), j = i => ~Handles(i) PROVE Unhandled(j)'
  BY <1>3, <1>5, <1>6 DEF Unhandled
<1>7. ASSUME NEW j \in image.insns PROVE (Whole(j) \/ Marred(j))'
  <2>1. CASE j = i /\ Handles(i)
    BY <2>1, TargetWhole
  <2>2. CASE Marred(j)
    BY <1>3, <2>2, MarredStays
  <2>3. CASE ~Marred(j) /\ (j = i => ~Handles(i))
    <3>1. Whole(j)
      BY <2>3 DEF CleanInv
    <3>2. \A a \in Extent(j) : data'[a] = data[a]
      BY <1>5, <2>3 DEF Marred
    <3>3. \A p \in patches : p.site = j.at =>
            \A k \in 0 .. p.size - 1 : data'[p.stub + k] = data[p.stub + k]
      BY <1>2, <2>3 DEF Marred
    <3> QED
      BY <1>3, <3>1, <3>2, <3>3, WholeStays
  <2> QED
    BY <2>1, <2>2, <2>3
<1>8. HitsInv'
  <2> SUFFICES ASSUME NEW g \in hits, g # h
               PROVE  \/ g.skip /\ pass \in {"vex", "movbe"}
                      \/ \E j \in image.insns :
                           j.op = pass /\ g = Hit(j) /\ Wanted(j) /\ Unhandled(j)'
                      \/ \A a \in Window(g)' : Echoed(a)'
    BY <1>3 DEF HitsInv
  <2>1. \/ g.skip /\ pass \in {"vex", "movbe"}
        \/ \E j \in image.insns : j.op = pass /\ g = Hit(j) /\ Wanted(j) /\ Unhandled(j)
        \/ \A a \in Window(g) : Echoed(a)
    BY DEF CleanInv, HitsInv, Stopped, Redirect, NopOut
  <2>2. ASSUME NEW j \in image.insns, g = Hit(j), Unhandled(j) PROVE Unhandled(j)'
    BY <1>6, <2>2
  <2>3. Window(g)' = Window(g)
    BY <1>3 DEF Window
  <2> QED
    BY <1>3, <2>1, <2>2, <2>3
<1>9. AheadInv'
  <2> SUFFICES ASSUME NEW j \in image.insns, NEW s \in SegIds, Wanted(j),
                      Site(j) \in SegOffsets(s), Ahead(s, j.op)'
               PROVE  Unhandled(j)'
    BY <1>3 DEF AheadInv
  <2>1. Ahead(s, j.op)
    BY <1>3 DEF Ahead
  <2>2. Unhandled(j)
    BY <2>1 DEF CleanInv, AheadInv
  <2>3. j = i => ~Handles(i)
    <3> SUFFICES ASSUME Handles(j) PROVE FALSE
      OBVIOUS
    <3>1. h.at \in SegOffsets(seg) /\ seg \in SegIds
      BY DEF IInv, TypeOK, HitsInSeg
    <3>2. s = seg
      BY <3>1, SegsAssumption DEF SegsAssumption
    <3>3. seg \in Int
      BY <3>1, SegsAssumption DEF SegIds, SegsAssumption
    <3> QED
      BY <2>1, <3>2, <3>3 DEF Ahead, Redirect, NopOut, Turn
  <2> QED
    BY <1>6, <2>2, <2>3
<1>10. FreeInv'
  <2>1. pass # "start" /\ Running
    BY DEF Redirect, NopOut, Running
  <2> SUFFICES ASSUME NEW a \in tramp_ptr' .. area.at + area.size - 1, ~Echoed(a)
               PROVE  data'[a] = Orig
    BY <1>3, <2>1 DEF FreeInv
  <2>2. tramp_ptr \in Nat /\ area.at \in Nat /\ area.size \in Nat
    BY DEF IInv, TypeOK
  <2>3. /\ a \in tramp_ptr .. area.at + area.size - 1
        /\ ~(Redirect(h) /\ a \in StubBytes(h))
    <3>1. CASE Redirect(h)
      <4>1. tramp_ptr' = tramp_ptr + StubLen(h) /\ StubLen(h) \in Nat
        BY <3>1, StubTarget DEF Redirect
      <4> QED
        BY <2>2, <4>1 DEF StubBytes
    <3>2. CASE ~Redirect(h)
      BY <3>2 DEF NopOut
    <3> QED
      BY <3>1, <3>2
  <2>4. a \in image.pad /\ a \in Offsets
    <3>1. /\ area.at <= tramp_ptr
          /\ area.at .. area.at + area.size - 1 \subseteq image.pad \intersect SegOffsets(1)
      BY <2>1 DEF IInv, AreaInv
    <3>2. a \in area.at .. area.at + area.size - 1
      BY <2>2, <2>3, <3>1
    <3> QED
      BY <3>1, <3>2, FirstSeg, SegFacts
  <2> QED
    BY <1>2, <2>1, <2>3, <2>4 DEF CleanInv, FreeInv
<1> QED
  BY <1>3, <1>7, <1>8, <1>9, <1>10 DEF CleanInv

\* A step that writes nothing keeps every instruction whole, and unhandled.
LEMMA WholeUnchanged ==
  ASSUME IInv, UNCHANGED <<image, data, patches>>,
         \A i \in image.insns : Whole(i) \/ Marred(i)
  PROVE  /\ \A i \in image.insns : (Whole(i) \/ Marred(i))'
         /\ \A i \in image.insns : Unhandled(i)' <=> Unhandled(i)
         /\ \A a : Echoed(a)' <=> Echoed(a)
<1>1. ASSUME NEW i \in image.insns PROVE (Whole(i) \/ Marred(i))'
  BY WholeStays, MarredStays DEF IInv
<1>2. \A a : Echoed(a)' <=> Echoed(a)
  BY DEF Echoed
<1>3. \A i \in image.insns : Unhandled(i)' <=> Unhandled(i)
  BY <1>2 DEF Unhandled
<1> QED
  BY <1>1, <1>2, <1>3

\* What begins was ahead, and what is ahead after it was before.
LEMMA ScansInOrder ==
  ASSUME IInv, EndScan
  PROVE  /\ \A s \in SegIds, p \in {"vex", "movbe", "xstate", "smap", "invpcid"} :
              Ahead(s, p)' => Ahead(s, p)
         /\ \/ pass' = "write"
            \/ \E s \in SegIds, p \in {"vex", "movbe", "xstate", "smap", "invpcid"} :
                 (Scan(s, p, data) \/ Scan(s, p, region)) /\ Ahead(s, p)
<1>1. /\ seg \in Int /\ 1 <= seg /\ seg <= Len(Segs) /\ Len(Segs) \in Nat /\ seg \in SegIds
      /\ 1 \in SegIds /\ SegIds = 1 .. Len(Segs)
  BY FirstSeg, SegsAssumption DEF IInv, TypeOK, SegIds, SegsAssumption
<1> SUFFICES ASSUME NEW s \in SegIds, NEW p \in {"vex", "movbe", "xstate", "smap", "invpcid"}
             PROVE  /\ Ahead(s, p)' => Ahead(s, p)
                    /\ \/ pass' = "write"
                       \/ \E t \in SegIds, q \in {"vex", "movbe", "xstate", "smap", "invpcid"} :
                            (Scan(t, q, data) \/ Scan(t, q, region)) /\ Ahead(t, q)
  BY <1>1
<1>2. s \in Int /\ 1 <= s /\ s <= Len(Segs)
  BY <1>1
<1>3. seg < Len(Segs) => seg + 1 \in SegIds
  BY <1>1
<1>4. CASE AfterVex
  <2>1. CASE seg < Len(Segs) /\ Scan(seg + 1, "vex", data)
    <3>1. Ahead(seg + 1, "vex")
      BY <1>1, <1>4 DEF Ahead, AfterVex
    <3>2. Ahead(s, p)' => Ahead(s, p)
      BY <1>1, <1>2, <1>4, <2>1 DEF Ahead, AfterVex, Scan
    <3> QED
      BY <1>3, <2>1, <3>1, <3>2
  <2>2. CASE seg = Len(Segs) /\ Scan(1, "movbe", data)
    <3>1. Ahead(1, "movbe")
      BY <1>4 DEF Ahead, AfterVex
    <3>2. Ahead(s, p)' => Ahead(s, p)
      BY <1>4, <2>2 DEF Ahead, AfterVex, Scan
    <3> QED
      BY <1>1, <2>2, <3>1, <3>2
  <2> QED
    BY <1>1, <1>4, <2>1, <2>2 DEF AfterVex
<1>5. CASE SameSegment
  <2>1. ASSUME NEW q \in {"xstate", "smap", "invpcid"}, Scan(seg, q, region),
               pass \in {"movbe", "xstate", "smap"}, Turn(q) = Turn(pass) + 1
        PROVE  Ahead(seg, q) /\ (Ahead(s, p)' => Ahead(s, p))
    <3>1. Ahead(seg, q)
      BY <2>1 DEF Ahead, Turn
    <3>2. pass' = q /\ seg' = seg
      BY <2>1 DEF Scan
    <3> QED
      BY <1>1, <1>2, <2>1, <3>1, <3>2 DEF Ahead, Turn
  <2>2. \E q \in {"xstate", "smap", "invpcid"} :
          /\ Scan(seg, q, region) /\ pass \in {"movbe", "xstate", "smap"}
          /\ Turn(q) = Turn(pass) + 1
    BY <1>5 DEF SameSegment, Turn
  <2> QED
    BY <1>1, <2>1, <2>2
<1>6. CASE AfterInvpcid
  <2>1. CASE seg < Len(Segs) /\ Scan(seg + 1, "movbe", data)
    <3>1. Ahead(seg + 1, "movbe")
      BY <1>1, <1>6 DEF Ahead, AfterInvpcid
    <3>2. Ahead(s, p)' => Ahead(s, p)
      BY <1>1, <1>2, <1>6, <2>1 DEF Ahead, AfterInvpcid, Scan
    <3> QED
      BY <1>3, <2>1, <3>1, <3>2
  <2>2. CASE pass' = "write"
    BY <2>2 DEF Ahead
  <2> QED
    BY <1>1, <1>6, <2>1, <2>2 DEF AfterInvpcid
<1> QED
  BY <1>4, <1>5, <1>6 DEF EndScan

\* A scan of the second loop reads a copy that is older than the image, but its
\* own instructions nobody has handled.
LEMMA CleanScan ==
  ASSUME IInv, CleanInv, Clean, EndScan
  PROVE  CleanInv'
<1>1. /\ UNCHANGED <<image, data, area, tramp_ptr, patches>> /\ image \in Images
      /\ hits = {} /\ \A i \in image.insns : Whole(i) \/ Marred(i)
  BY DEF EndScan, IInv, CleanInv
<1>2. /\ \A i \in image.insns : (Whole(i) \/ Marred(i))'
      /\ \A i \in image.insns : Unhandled(i)' <=> Unhandled(i)
      /\ \A a : Echoed(a)' <=> Echoed(a)
  BY <1>1, WholeUnchanged
<1>3. FreeInv'
  <2>1. pass' # "start" /\ Running
    BY DEF Scan, EndScan, AfterVex, SameSegment, AfterInvpcid, Running
  <2> QED
    BY <1>1, <1>2, <2>1 DEF CleanInv, FreeInv
<1>4. AheadInv'
  <2> SUFFICES ASSUME NEW i \in image.insns, NEW s \in SegIds, Wanted(i),
                      Site(i) \in SegOffsets(s), Ahead(s, i.op)'
               PROVE  Unhandled(i)
    BY <1>1, <1>2 DEF AheadInv
  <2>1. i.op \in {"vex", "movbe", "xstate", "smap", "invpcid"}
    BY DEF Wanted
  <2>2. Ahead(s, i.op)
    BY <2>1, ScansInOrder
  <2> QED
    BY <2>2 DEF CleanInv, AheadInv
<1>5. HitsInv'
  <2>1. CASE pass' = "write"
    <3>1. hits' = hits
      BY <2>1 DEF EndScan, AfterVex, SameSegment, AfterInvpcid, Scan
    <3> QED
      BY <1>1, <3>1 DEF HitsInv
  <2>2. ASSUME NEW s \in SegIds, NEW p \in {"vex", "movbe", "xstate", "smap", "invpcid"},
               NEW reg, Scan(s, p, reg), Ahead(s, p)
        PROVE  HitsInv'
    BY <1>1, <2>2, ScanClean DEF CleanInv
  <2> QED
    BY <2>1, <2>2, ScansInOrder
<1> QED
  BY <1>1, <1>2, <1>3, <1>4, <1>5 DEF CleanInv

\* The first scan starts from an image with nothing written.
LEMMA CleanStart ==
  ASSUME IInv, IInv', CleanInv, Clean, Start
  PROVE  CleanInv'
<1>1. /\ UNCHANGED <<image, data, patches>> /\ image \in Images /\ pass' = "vex"
      /\ Scan(1, "vex", data) /\ \A a \in Offsets : data[a] = Orig
      /\ \A i \in image.insns : Whole(i) \/ Marred(i)
  BY DEF Start, Scan, IInv, CleanInv, FreeInv
<1>2. /\ \A i \in image.insns : (Whole(i) \/ Marred(i))'
      /\ \A i \in image.insns : Unhandled(i)' <=> Unhandled(i)
  BY <1>1, WholeUnchanged
<1>3. Ahead(1, "vex")
  BY DEF Start, Ahead
<1>4. HitsInv'
  BY <1>1, <1>3, FirstSeg, ScanClean DEF CleanInv
<1>5. AheadInv'
  <2>1. ASSUME NEW i \in image.insns PROVE Unhandled(i)
    <3>1. Extent(i) \subseteq Offsets
      BY <1>1, InsnFacts
    <3> QED
      BY <1>1, <3>1 DEF Unhandled
  <2> QED
    BY <1>1, <1>2, <2>1 DEF AheadInv
<1>6. FreeInv'
  <2> SUFFICES ASSUME NEW a \in tramp_ptr' .. area'.at + area'.size - 1 PROVE data[a] = Orig
    BY <1>1 DEF FreeInv
  <2>1. /\ area'.at .. area'.at + area'.size - 1 \subseteq image'.pad \intersect SegOffsets(1)
        /\ area'.at <= tramp_ptr'
    BY <1>1 DEF IInv, AreaInv, Running
  <2>2. tramp_ptr' \in Nat /\ area'.at \in Nat /\ area'.size \in Nat
    BY DEF IInv, TypeOK
  <2>3. a \in area'.at .. area'.at + area'.size - 1
    BY <2>1, <2>2
  <2>4. a \in Offsets
    BY <2>1, <2>3, FirstSeg, SegFacts
  <2> QED
    BY <1>1, <2>4
<1> QED
  BY <1>1, <1>2, <1>4, <1>5, <1>6 DEF CleanInv

\* The other steps drop a hit, stop, or go on to the next pass with none left.
LEMMA CleanRest ==
  ASSUME IInv, CleanInv, Clean,
         NoArea \/ Write \/ UNCHANGED vars \/ (\E h \in hits : SkipHit(h) \/ AreaFull(h))
  PROVE  CleanInv'
<1>1. /\ UNCHANGED <<image, data, region, area, tramp_ptr, patches, seg>>
      /\ \A i \in image.insns : Whole(i) \/ Marred(i)
  BY DEF NoArea, Write, vars, SkipHit, AreaFull, CleanInv
<1>2. /\ \A i \in image.insns : (Whole(i) \/ Marred(i))'
      /\ \A i \in image.insns : Unhandled(i)' <=> Unhandled(i)
      /\ \A a : Echoed(a)' <=> Echoed(a)
  BY <1>1, WholeUnchanged
<1>3. HitsInv'
  <2>1. CASE NoArea \/ (\E h \in hits : AreaFull(h))
    BY <2>1 DEF NoArea, AreaFull, HitsInv, Stopped
  <2>2. ASSUME pass' = pass, hits' \subseteq hits PROVE HitsInv'
    <3>1. ASSUME NEW h PROVE Window(h)' = Window(h)
      BY <2>2 DEF Window
    <3>2. HitsInv
      BY DEF CleanInv
    <3> QED
      BY <1>1, <1>2, <2>2, <3>1, <3>2 DEF HitsInv, Stopped
  <2>3. CASE Write
    <3>1. ASSUME NEW h PROVE Window(h)' = Window(h)
      BY <2>3 DEF Write, Window, NopLen
    <3>2. HitsInv
      BY DEF CleanInv
    <3> QED
      BY <1>1, <1>2, <2>3, <3>1, <3>2 DEF Write, HitsInv, Stopped, Wanted
  <2>4. CASE UNCHANGED vars \/ \E h \in hits : SkipHit(h)
    BY <2>2, <2>4 DEF vars, SkipHit
  <2> QED
    BY <2>1, <2>3, <2>4
<1>4. AheadInv'
  <2>1. ASSUME NEW s \in SegIds, NEW p, Ahead(s, p)' PROVE Ahead(s, p)
    BY <1>1, <2>1 DEF NoArea, Write, vars, SkipHit, AreaFull, Ahead
  <2> QED
    BY <1>1, <1>2, <2>1 DEF CleanInv, AheadInv
<1>5. FreeInv'
  <2>1. (Running' => Running) /\ (pass' = "start" => pass = "start")
    BY DEF NoArea, Write, vars, SkipHit, AreaFull, Running
  <2> QED
    BY <1>1, <1>2, <2>1 DEF CleanInv, FreeInv
<1> QED
  BY <1>1, <1>2, <1>3, <1>4, <1>5 DEF CleanInv

\* Every step keeps a clean image clean.
LEMMA CleanStep ==
  ASSUME IInv, IInv', CleanInv, [Next]_vars
  PROVE  CleanInv'
<1>1. image' = image
  BY ImageStays
<1>2. CASE ~Clean
  BY <1>1, <1>2 DEF CleanInv, Clean
<1>3. CASE Clean
  BY <1>3, CleanReplace, CleanScan, CleanStart, CleanRest DEF Next, HandleHit
<1> QED
  BY <1>2, <1>3

\* All three inductive invariants hold in every state of every run.
THEOREM CleanInvariance == Spec => [](IInv /\ HandledInv /\ CleanInv)
<1>1. Init => CleanInv
  BY InitClean
<1>2. CleanInv /\ IInv /\ IInv' /\ [Next]_vars => CleanInv'
  BY CleanStep
<1> QED
  BY <1>1, <1>2, HandledInvariance, PTL DEF Spec

\* In a clean image no instruction is ever half replaced, whatever the scans of
\* the second loop find in bytes that were written, but where that is.
THEOREM InsnsStayWhole == Spec => []WholeInsns
<1>1. CleanInv => WholeInsns
  BY DEF CleanInv, Whole, WholeInsns
<1> QED
  BY <1>1, CleanInvariance, PTL

\* In a clean image the patcher never writes a byte twice, although scans of
\* the second loop read a copy older than the image, except where one of them
\* finds something in written bytes.
THEOREM WrittenOnce == Spec => WriteOnce
<1>1. IInv /\ CleanInv /\ [Next]_vars
        => [Clean => \A a \in Offsets : data[a] # Orig /\ ~Echoed(a) => data'[a] = data[a]]_vars
  <2> SUFFICES ASSUME IInv, CleanInv, [Next]_vars, Clean, NEW a \in Offsets, data[a] # Orig,
                      ~Echoed(a)
               PROVE  data'[a] = data[a]
    OBVIOUS
  <2>1. ASSUME NEW h \in hits, Redirect(h) \/ NopOut(h) PROVE data'[a] = data[a]
    <3>1. \/ \A b \in Window(h) : Echoed(b)
          \/ \E i \in image.insns : Unhandled(i) /\ Window(h) \subseteq Extent(i)
      BY <2>1, CleanTarget
    <3>2. a \notin Window(h)
      BY <3>1 DEF Unhandled
    <3>3. ~(Redirect(h) /\ a \in StubBytes(h))
      <4> SUFFICES ASSUME Redirect(h) PROVE a \notin StubBytes(h)
        OBVIOUS
      <4>1. Running
        BY DEF Redirect, Running
      <4> QED
        BY <4>1, StubTarget DEF CleanInv, FreeInv
    <3> QED
      BY <2>1, <3>2, <3>3, Untouched
  <2>2. CASE UNCHANGED data
    BY <2>2
  <2> QED
    BY <2>1, <2>2, OthersWriteNothing
<1> QED
  BY <1>1, CleanInvariance, PTL DEF Spec, WriteOnce

-----------------------------------------------------------------------------
(* Patcher implements InsnRewrite. *)

\* In a clean image the instructions replaced are those wanted and not intact.
LEMMA ReplacedAre ==
  ASSUME IInv, CleanInv, NEW i \in Promised
  PROVE  Redirected(i) \/ NoppedOut(i) <=> ~Intact(i)
<1>1. Clean /\ image.echoes = {} /\ i \in image.insns /\ image \in Images
  BY DEF Promised, IInv
<1>2. Whole(i)
  BY <1>1 DEF CleanInv, Marred, Echoed
<1>3. Redirected(i) \/ NoppedOut(i) => ~Intact(i)
  <2> SUFFICES ASSUME Redirected(i) \/ NoppedOut(i) PROVE ~Intact(i)
    OBVIOUS
  <2>1. i.at \in Nat /\ i.len \in Nat \ {0} /\ i.rex \in {0, 1}
    BY <1>1, InsnFacts
  <2>2. i.len > i.rex
    BY <2>1 DEF Redirected, NoppedOut
  <2>3. Site(i) \in Extent(i) /\ Site(i) \in Int
    BY <2>1, <2>2 DEF Site, Extent
  <2> QED
    BY <1>1, <2>3, ReplacedNotIntact DEF Intact
<1> QED
  BY <1>2, <1>3 DEF Whole

\* The same of all of them, in the form that also holds in the next state.
LEMMA AllReplacedAre ==
  IInv /\ CleanInv => \A i \in Promised : Redirected(i) \/ NoppedOut(i) <=> ~Intact(i)
  BY ReplacedAre

\* The same in the next state.
LEMMA AllReplacedNext ==
  ASSUME IInv', CleanInv'
  PROVE  (\A i \in Promised : Redirected(i) \/ NoppedOut(i) <=> ~Intact(i))'
  BY AllReplacedAre, PTL

\* The abstract state.
Todo == {i \in Promised : Wanted(i) /\ Intact(i)}
Kept == {i \in Promised : ~Wanted(i) /\ Intact(i)}
Replaced == {i \in Promised : Wanted(i) /\ (Redirected(i) \/ NoppedOut(i))}

\* Replacing is an abstract replacement of one wanted instruction, or in an
\* image the promise is not about, no abstract step.
LEMMA ReplaceMaps ==
  ASSUME IInv, IInv', CleanInv, CleanInv', NEW h \in hits, Redirect(h) \/ NopOut(h)
  PROVE  \/ UNCHANGED <<Todo, Kept, Replaced>>
         \/ \E i \in Todo :
              Todo' = Todo \ {i} /\ Replaced' = Replaced \union {i} /\ Kept' = Kept
<1>1. image' = image /\ image \in Images
  BY DEF Redirect, NopOut, IInv
<1>2. CASE ~(Clean /\ image.echoes = {})
  <2>1. Promised = {} /\ Promised' = {}
    BY <1>1, <1>2 DEF Promised, Clean
  <2> QED
    BY <2>1 DEF Todo, Kept, Replaced
<1>3. CASE Clean /\ image.echoes = {}
  <2>0. Promised = image.insns /\ Promised' = image.insns
    BY <1>1, <1>3 DEF Promised, Clean
  <2>1. PICK i \in image.insns :
             /\ h = Hit(i) /\ Wanted(i) /\ Intact(i) /\ Window(h) \subseteq Extent(i)
             /\ h.at = Site(i)
    <3>1. \A a : ~Echoed(a)
      BY <1>3 DEF Echoed
    <3>2. \E a : a \in Window(h)
      <4>1. h.at \in Nat /\ h.len \in Int
        BY DEF IInv, TypeOK, HitRecords
      <4>2. h.at \in Window(h)
        BY <4>1 DEF Window, PatchLen, NopLen
      <4> QED
        BY <4>2
    <3> QED
      BY <1>3, <3>1, <3>2, CleanTarget DEF Unhandled, Intact
  <2>2. ~Intact(i)'
    <3>1. h.at \in Extent(i) /\ h.at \in Offsets /\ h.at \in Nat
      BY <1>1, <2>1, WantedFacts, InsnFacts
    <3>2. data'[h.at] # Orig
      BY <3>1, HitOverwritten
    <3> QED
      BY <3>1, <3>2 DEF Intact
  <2>3. ASSUME NEW j \in image.insns, j # i PROVE Intact(j)' <=> Intact(j)
    <3>1. \A a \in Extent(j) : ~Echoed(a) => data'[a] = data[a]
      BY <1>3, <2>1, <2>3, OthersStay
    <3>2. \A a : ~Echoed(a)
      BY <1>3 DEF Echoed
    <3> QED
      BY <3>1, <3>2 DEF Intact
  <2>4. /\ \A j \in image.insns : Redirected(j) \/ NoppedOut(j) <=> ~Intact(j)
        /\ \A j \in image.insns : (Redirected(j) \/ NoppedOut(j) <=> ~Intact(j))'
    <3>1. \A j \in image.insns : Redirected(j) \/ NoppedOut(j) <=> ~Intact(j)
      BY <2>0, ReplacedAre
    <3>2. (\A j \in Promised : Redirected(j) \/ NoppedOut(j) <=> ~Intact(j))'
      BY AllReplacedNext
    <3> QED
      BY <2>0, <3>1, <3>2
  <2>5. i \in Todo /\ Todo' = Todo \ {i}
    BY <2>0, <2>1, <2>2, <2>3 DEF Todo, Wanted
  <2>6. Kept' = Kept
    BY <2>0, <2>1, <2>3 DEF Kept, Wanted
  <2>7. Replaced' = Replaced \union {i}
    BY <2>0, <2>1, <2>2, <2>3, <2>4 DEF Replaced, Wanted
  <2> QED
    BY <2>5, <2>6, <2>7
<1> QED
  BY <1>2, <1>3

\* A step that writes nothing changes no instruction.
LEMMA OthersMap ==
  ASSUME IInv, IInv', CleanInv, CleanInv', [Next]_vars, UNCHANGED data
  PROVE  UNCHANGED <<Todo, Kept, Replaced>>
<1>1. image' = image
  BY ImageStays
<1>2. Promised' = Promised
  BY <1>1 DEF Promised, Clean
<1>3. \A i \in Promised : Intact(i)' <=> Intact(i)
  BY DEF Intact
<1>4. \A i \in Promised : Redirected(i) \/ NoppedOut(i) <=> ~Intact(i)
  BY ReplacedAre
<1>5. (\A i \in Promised : Redirected(i) \/ NoppedOut(i) <=> ~Intact(i))'
  BY AllReplacedNext
<1> QED
  BY <1>2, <1>3, <1>4, <1>5 DEF Todo, Kept, Replaced, Wanted

\* What the docstring promises: the program that works on bytes, hits and
\* copies of segments replaces each instruction as a whole, in one step and
\* once, touches nothing else and publishes only when none is left.
THEOREM PatcherRewrites == Spec => ImplementsRewrite
<1>1. Init /\ IInv /\ CleanInv => Abstract!Init
  <2> SUFFICES ASSUME Init, IInv, CleanInv PROVE Abstract!Init
    OBVIOUS
  <2>1. image \in Images /\ \A a \in Offsets : data[a] = Orig
    BY DEF Init
  <2>2. ASSUME NEW i \in Promised PROVE Intact(i)
    <3>1. i \in image.insns
      BY DEF Promised
    <3> QED
      BY <2>1, <3>1, InsnFacts DEF Intact
  <2>3. Replaced = {}
    BY <2>2, ReplacedAre DEF Replaced
  <2>4. out # "patched"
    BY DEF Init
  <2>5. Todo \intersect Kept = {}
    BY DEF Todo, Kept
  <2> QED
    BY <2>3, <2>4, <2>5 DEF Abstract!Init, Todo, Kept, Replaced
<1>2. /\ IInv /\ HandledInv /\ CleanInv /\ IInv' /\ CleanInv' /\ [Next]_vars
      => [Abstract!Next]_Abstract!vars
  <2> SUFFICES ASSUME IInv, HandledInv, CleanInv, IInv', CleanInv', [Next]_vars
               PROVE  [Abstract!Next]_Abstract!vars
    OBVIOUS
  <2>1. ASSUME NEW h \in hits, Redirect(h) \/ NopOut(h) PROVE [Abstract!Next]_Abstract!vars
    <3>1. \/ UNCHANGED <<Todo, Kept, Replaced>>
          \/ \E i \in Todo :
               Todo' = Todo \ {i} /\ Replaced' = Replaced \union {i} /\ Kept' = Kept
      BY <2>1, ReplaceMaps
    <3>2. out' = out
      BY <2>1 DEF Redirect, NopOut
    <3> QED
      BY <3>1, <3>2 DEF Abstract!Next, Abstract!Replace, Abstract!vars, Todo, Kept, Replaced
  <2>2. CASE Write
    <3>1. UNCHANGED <<Todo, Kept, Replaced>>
      BY <2>2, OthersMap DEF Write
    <3>2. Todo = {}
      BY <2>2, NothingLeft DEF Write, Todo, Promised
    <3>3. out' = "patched"
      BY <2>2 DEF Write
    <3> QED
      BY <3>1, <3>2, <3>3 DEF Abstract!Next, Abstract!Publish, Todo, Kept, Replaced
  <2>3. CASE /\ Start \/ NoArea \/ EndScan \/ UNCHANGED vars
                \/ (\E h \in hits : SkipHit(h) \/ AreaFull(h))
    <3>1. data' = data /\ (out' = out \/ (out # "patched" /\ out' # "patched"))
      BY <2>3 DEF Start, NoArea, EndScan, vars, SkipHit, AreaFull, HandledInv, OutInv
    <3>2. UNCHANGED <<Todo, Kept, Replaced>>
      BY <3>1, OthersMap
    <3> QED
      BY <3>1, <3>2 DEF Abstract!vars, Todo, Kept, Replaced
  <2> QED
    BY <2>1, <2>2, <2>3 DEF Next, HandleHit
<1>3. Spec => [](IInv /\ HandledInv /\ CleanInv)
  BY CleanInvariance
<1> QED
  BY <1>1, <1>2, <1>3, PTL DEF Spec, ImplementsRewrite, Abstract!Spec
=============================================================================
