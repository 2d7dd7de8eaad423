----------------------------- MODULE ElfHeaders -----------------------------
(***************************************************************************)
(* How patch_ivybridge.py and add_serial_probe.py find the segments of the *)
(* kernel: the ELF file is the payload of the bzImage, and a program       *)
(* header places file bytes at a virtual address.                          *)
(***************************************************************************)
EXTENDS Integers, Sequences, FiniteSetsExt

\* A program header: PT_LOAD or not, PF_X or not, p_vaddr, p_offset, p_filesz.
Phdr == [load : BOOLEAN, exec : BOOLEAN, vaddr : Int, offset : Nat, filesz : Nat]

\* The payload lies behind the boot sector and setup_sects sectors of 512 bytes.
elf_base(setup_sects, payload_off) == (setup_sects + 1) * 512 + payload_off

Placed(base, p) == [vaddr |-> p.vaddr, foff |-> base + p.offset, size |-> p.filesz]

Executable(phdrs) == {n \in DOMAIN phdrs : phdrs[n].load /\ phdrs[n].exec}

\* find_all_exec_segments: [(vaddr, foff_z, filesz)] in header order.
find_all_exec_segments(base, phdrs) ==
  LET execs == SelectSeq(phdrs, LAMBDA p : p.load /\ p.exec)
  IN  [n \in DOMAIN execs |-> Placed(base, execs[n])]

\* find_text_segment: the first one; it raises RuntimeError when there is none.
find_text_segment(base, phdrs) == Placed(base, phdrs[Min(Executable(phdrs))])

\* segs of add_serial_probe.py: every PT_LOAD, executable or not, under the
\* number of its header.
load_segments(base, phdrs) ==
  [n \in {m \in DOMAIN phdrs : phdrs[m].load} |-> Placed(base, phdrs[n])]

Holds(s, va) == s.vaddr <= va /\ va < s.vaddr + s.size

\* vaddr_to_foff: in the first segment that holds va; None is 0, which the
\* callers' assertions refuse like None.
vaddr_to_foff(segs, va) ==
  LET hits == {n \in DOMAIN segs : Holds(segs[n], va)}
      seg == segs[Min(hits)]
  IN  IF hits = {} THEN 0 ELSE seg.foff + (va - seg.vaddr)
=============================================================================
