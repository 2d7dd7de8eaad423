# Verification of arpl-modules

arpl-modules collects kernel modules for Synology DSM loaders, and the tools that make DSM's
`-march=haswell` kernel run on processors without BMI1/BMI2/MOVBE. The collection is data; the
logic is in `bzImage-patch/` (a binary patcher, an instruction emulator, a probe inserter, build
scripts) and in `.github/workflows/` (the release of the modules and of their checksums). This
directory holds TLA+ models of that logic, the TLC runs over them, and TLAPS proofs.

## The system

| Part | State | Operations | Interacts with |
|---|---|---|---|
| **Patcher**, `patch_ivybridge.py` | the image as a bytearray, the copy of a segment being scanned, the hits, the stub area's two free pointers, the output file | copy IN to OUT; find the stub area; scan each executable segment for VEX BMI instructions, then for MOVBE, XSAVE*, CLAC/STAC and INVPCID; replace each hit by CALL + stub or by NOPs; write OUT | its stubs are run by the kernel; PEXT, PDEP and BEXTR are left to the emulator (comment at line 157) |
| **Stubs**, `make_trampoline`, `make_movbe_*` | registers, flags, stack, memory of the CPU that runs one | push, move, compute, pop, RET | called from every patched site; interrupts use the same stack |
| **Emulator**, `bmi2_emul.c` | saved registers of each trapped context, notifier registration, the counter | #UD notifier: filter, copy, decode, read operand, compute, set registers, advance, count; module init and exit | the kernel's die chain, all CPUs at once |
| **Probe inserter**, `add_serial_probe.py` | the image as a bytearray, its segments | find room by looking for 0xCC; put a stub that writes a character to COM1 before an `lgdt`, a function entry and 22 CALLs; write the output | runs on the patcher's output and shares its stub area; may run on its own output |
| **Release**, `main.yml`, `main_part.yml`, and two that upload nothing to a release, `epyc7002.yml`, `single.yml` | per-platform directories, packs, `files-chksum`, the release | merge four sources of modules, or put chosen modules into the packs of a release; pack, checksum, copy packs, upload | `main_part.yml` reads packs of releases, the refresh reads `files-chksum` |
| **Refresh**, `refresh_json.yml` | the manifests of a clone, the branch | check out, choose a tag, read checksums, back up and rewrite manifests, commit, push | concurrent runs of itself, uploads under way |
| Build scripts, `build4.sh`, `build-bmi2.sh`, `build_module.yml`, `build_syno71.yml`, `trigger_test.yml` | files of a kernel tree | configure, make | none |
| Helpers, `extract_vmlinux.sh`, `gitproc.sh` | none | | none |
| Manifests, `vanilla/`, `thirdparty/`, firmware | data | | read by other repositories |

What is hard, and what makes each part correct:

* **Patcher.** Two address spaces (file offsets for bytes, virtual addresses for displacements,
  differing by another constant in every segment); four scans that read one stale copy of a segment
  while they write to another, and in the second loop a copy of what the first has written; one bump allocator used from two loops by hand; failure after half of
  the work. Correct: stubs never overlap and stay in padding; every CALL reaches its own stub; no
  instruction is half replaced; nothing written is written again; an output exists only when all is
  handled.
* **Stubs.** Every coincidence of source, count, destination and borrowed register; an operand
  encoded again from a different place and stack depth; interrupts. Correct: returns to the site,
  gives back what it borrowed, computes what its comment says.
* **Emulator.** Instruction decoding (length, address, prefix) against the instruction set;
  reentrancy and unload while others are inside. Correct: a context cannot tell the emulator from a
  processor that has the instructions; nobody runs the notifier after it is gone; the count is exact.
* **Probe.** An allocator that recognises free space by its content and reserves nothing, sites that
  alias each other, a second run on the first one's output. Correct: stubs never overwrite what is in
  use; every site prints the characters of its probes and then does what it did; an output
  exists only of the whole list.
* **Release and refresh.** Commands whose failure ends the job beside commands whose failure does not,
  packs replaced after their checksum was taken, assets that appear one after the other, pushes that race.
  Correct: a pack, its row and the manifest that names it agree; no push loses or ages a manifest.

## The modules

| Module | Models | Extends |
|---|---|---|
| `InsnRewrite` | what the patcher promises: every instruction to be replaced is, in any order, the others are kept, and only then is there an output | |
| `Patcher` | lines 427-773: the program from the input image to the output file | |
| `PatcherProofs` | theorems: stubs and CALLs | `Patcher` |
| `RewriteProofs` | theorems: everything is handled, clean images, and that `Patcher` implements `InsnRewrite` | `PatcherProofs` |
| `Words` | machine words as sets of bit positions, with whole (64) and half (32) operands | |
| `Trampoline` | lines 25-425 and 565-674: what each builder emits, run one instruction at a time | `Words` |
| `TrampolineProofs` | its theorems | `Trampoline` |
| `BmiIsa` | BMI instructions as the processor defines them; the mnemonic table is the patcher's `decode` | `Words` |
| `NativeCpu` | contexts on a processor that has the instructions | `BmiIsa` |
| `BmiEmul` | `bmi2_emul.c` from module init to exit | `BmiIsa` |
| `BmiEmulProofs` | its theorems | `BmiEmul` |
| `ElfHeaders` | both programs' reading of the program headers: segments, text segment, address to file offset | |
| `ProbeList` | what the probe inserter promises: one more character per site, and only of the whole list an output | |
| `SerialProbe` | `add_serial_probe.py`, on bytes and real addresses | `ElfHeaders` |
| `SerialProbeProofs` | its theorems | `SerialProbe` |
| `Release` | `main.yml` and `main_part.yml`, one job after the other, and the releases they upload to | |
| `ReleaseProofs` | its theorems | `Release` |
| `Refresh` | `refresh_json.yml`, any number of jobs beside those of `Release` | `Release` |
| `RefreshProofs` | theorems about the jobs and the branch | `Refresh`, `ReleaseProofs` |
| `ManifestProofs` | theorems about builders and refresh jobs together | `RefreshProofs` |
| `MCPatcher` (with `ElfHeaders`), `MCTrampoline`, `MCBmiEmul`, `MCSerialProbe`, `MCRefresh` | constants for TLC | |

**Patcher.** `data` maps file offsets to cells: a byte of the input, byte *k* of the CALL written for a
site, a NOP, or byte *k* of a site's stub. The input is a *layout*: instructions with offset,
length, kind, REX, stub size, and the bytes the decoders do not count (`miss`, the displacement of a SIB operand without a
base); *ghosts*, places where operand bytes look like an instruction; *echoes*, places where bytes that the first loop has written
do, alone or with their neighbours; and the 0xCC padding. Which echoes there are depends on the values of displacements and stubs, which the
model does not have: it takes any, and the second loop finds them whenever it reads written bytes there. `pass`/`seg` say where the program is, `hits` is the list of the current loop,
`region` the copy it reads. `Start` copies the file and finds the area (`IsArea` is the first maximal
run long enough), `NoArea` is the RuntimeError; `SkipHit`, `Redirect`, `AreaFull` and `NopOut` are the
branches of the loop bodies; `EndScan` goes on to the next scan or segment in the order of the two
loops; `Write` is line 756. `collect_movbe` matching at REX and again at 0F, the hits before a 66 or
F2 prefix, and the carried byte of a 4-byte MOVBE are modelled as the code has them. What an instruction
computes and how its bytes are encoded is not in this module.

**Trampoline.** Each `Make...` operator gives the sequence of instructions the builder of that name
emits, and the actions run them on registers, flags, a stack and a heap. `Interrupt` may
come between any two and overwrites everything below the stack pointer. `Meaning` is the comment over
the builder. Operands are re-encoded as the code does it: a SIB operand as (%rsp) in `_load_src`, a
displacement unchanged (`idx`, an operand without a base, has lost it). Stack slots are counted from the return address at `RetSlot`, which is 0: `Above` words of
the caller's frame have negative numbers, `Below` words towards lower addresses positive ones. An operand d(%rsp) names slot -1-d at the site and
1-d in a stub that has pushed one register, so a MOVBE store to the stack hits `StoreSlot`. An index beside a
base, CF, and encodings are left out; bytes are one bit wide, which BSWAP only notices as an order.

**BmiEmul.** A context is a task or an interrupt; `phase` is where it is in the notifier: `Trap` walks the
die chain, `NotifyDone` hands the trap on (`Default`), `Fault` is a bad operand address,
`Emulate`, `Advance` and `Resume` are lines 351, 355 and 356. `Load`, `Unload` and `Gone` are init and the two
halves of exit: `unregister_die_notifier` unlinks the notifier and then waits for the RCU read
sections under way (external). Contexts interleave freely, a superset of what one CPU's nesting
allows. Memory does not change while it runs: the notifier reads its operand once, so a store by
somebody else is before or after that read.

**ElfHeaders.** A program header is a record of the fields read; the operators filter the headers and place them in
the file as the two programs do (`patch_ivybridge.py` takes executable segments, `add_serial_probe.py` every
PT_LOAD). `Patcher` has the resulting segments as a constant; `MCPatcher` computes it from headers.

**SerialProbe.** `data` maps file offsets to bytes, for the offsets the program looks at. `Probes` is the list of
the 24 probes in program order; the five copies of the wrapping code in the source are one action, `Insert`, with
the differences (what is asserted, requested, put into the stub, written at the site) in
`Expected`, `Request`, `Stub` and `Redirect`. `Skip` is the K probe found present, `Fail` an assertion or "trampoline
area full", `Save` the output, `Again` a run on that output. Addresses are relative to 0xffffffff81000000, so that
arithmetic fits 32 bits; displacements are the same. All six sites of `EMPT_CALLS` are sites of `CBD_CALLS`
too; nothing in the model says so but the addresses. What a CPU does at a site (`At`) is
read back from the bytes, which gives the refinement mapping to `ProbeList`.

**Release.** One action per command group of a round of the loop: `Download`, `Backup`, `Extract` (or `NoPackThere`: tar fails on what
curl saved of a 404, and bash -e ends the job), `Restore`, `CopyFrom`
vanilla and thirdparty, `Pack`; then `Copy` per round of the second loop, `Release`, and `Upload` per asset. A job of `main_part.yml` (`base` is its `inputs.tag`)
has `Fetch` (or `NoBaseThere`) and `Choose` in their place and no second loop. A module is its name and where it is from; a
checksum is the pack it was taken of. `sha256sum` of a file that is not there prints nothing and, in a pipe without pipefail, does not fail (`Row`).
`Trees` says what checkouts and what contents of rr-last a job may meet. The platform directories
the loop is written for are not in this commit's root, where `ls -d *-*/` lists `bzImage-patch/` only;
a tree that lists it is among those checked, and the job then ends at that
directory unless rr-last has a pack of that name.

**Refresh.** `job[j]` is a job's clone (`base`, `files`), tag and checksum map; `Checkout` takes the commit
the job was started on, `Push` is accepted by the branch only on top of its last commit (external). All other steps are the workflow's.
Jobs interleave with each other and with the steps of `Release` down to single uploaded assets.

## The runs

| Run | Question | Bounds |
|---|---|---|
| `patcher` | stubs and CALLs consistent in every layout; no instruction half replaced, nothing rewritten, `InsnRewrite` implemented and the program ends in clean ones | two segments with different address-offset distances; up to two adjacent instructions in the first, one in the second, all 16 kinds; an area of 8 bytes with stubs of 3 and 4 (one more with a carried byte), so that two stubs leave room, fill it exactly or overflow it, and a third one is from one byte short; layouts without an area, with a run too short for one, with ghosts, and with code that ends where the area begins; operands without a base; one or two echoes of five kinds, within a CALL, within the stub, and across the end of either |
| `patcher_movbe`, `patcher_baseless`, `patcher_short` | statements of the code about a CALL in place of each instruction and about the byte behind a short one, violated | the kinds concerned |
| `trampoline` | stubs return, conserve and compute | all mnemonics over four registers in every coincidence, six operand kinds, both sizes; stack operands from one word below RSP to three above, of four words of the caller's (the stub is two words further down, so a store goes to a temporary, the return address or one of the two words above it); words of 4 bits; three register files with all shift counts |
| `trampoline_flags`, `trampoline_mulx`, `trampoline_bzhi` | three comments, violated | the mnemonics concerned |
| `bmi_emul` | contexts see the native processor; unload is safe and exact | all encodings with 12 ModRM forms, 2 destinations, 2 second sources and 4 register files; two contexts with up to two instructions, user and kernel, against two loads and unloads (`MaxLoads`) |
| `bmi_emul_listed` | the module's list of instructions, violated | register operands |
| `probe` | stubs stay out of what is in use, sites print and behave as promised, an output whenever there is room | the real sites and targets; an area of 560 bytes instead of 426 KB: 24 stubs take 428. Gaps before the patcher's stubs that hold no stub, one too few by a byte, one, and two; room behind them for all probes, for all but the last, and to the area's end; with and without an old K probe; five sites wrong in turn; re-run without bound |
| `release` | packs, rows, manifests and the branch agree; a refresh gets through | two release jobs (`MaxRuns`) of either workflow, on a branch, a new or an old tag, from rr-last or from the release the first one made; three refresh jobs (`Jobs`), one asked for a tag; directories with 7.2 excluded, 7.3 of its own, a legacy kernel, none in rr-last; four modules in every combination of sources |

Why the bounds are enough. A patch interferes with the next one only through the bytes between them and
the two free pointers; two adjacent instructions, a second segment and an area that fills at each
position give every order of hit, skip, overflow and change of segment that two loops of this shape have. Shift counts, BZHI indices and
products are taken in words of 4 bits and halves of 2 with a CL of 3 bits, so counts above, at
and below the operand size all occur. Two contexts suffice for an unload between any two steps of one
while another is at any step. The probe's allocator only ever sees a window
of at most 52 bytes from the first free byte on, and the gaps have every length relative to the requests (36 and 52) and stubs (18, 24, 26). Two release jobs give
a pack replaced on its tag and a newer release, in either order with the refresh jobs; two refresh jobs race, and a third can come after or be the one with a tag. Integers of the program that could grow (`loads`) are bounded by name;
rel32 wraps at `RelHalf`.

What the passing runs leave to conditions, each of them necessary (removing it makes the run fail):

* `Clean`/`Fits` (Patcher): no ghosts, no SIB operand without a base, no REX MOVBE, 16-bit MOVBE, CRC32 of memory, no short MOVBE, XSAVE*
  without memory rest, no INVPCID. `StubsApart`, `CallsLand`, `AllHandled` and the types hold without
  it.
* `Echoed` (Patcher): where a scan of the second loop finds something in written bytes, it writes over them. `WholeInsns` and `WriteOnce`
  promise nothing of the bytes written for such a find, and all they promise elsewhere; `Finishes` counts the room its
  stubs take; `ImplementsRewrite` is promised where there is none. `StubsApart`, `CallsLand`, `AllHandled` and the types hold in spite of echoes.
* `Faithful` and `Conserves` (Trampoline): operands on the stack, RIP-relative ones and most SIB bases are not
  addressed right; sources that coincide with a borrowed register; BZHI; MULX with an interrupt,
  with a 32-bit operand, with RAX as its source or RDX as its first destination; a MOVBE store that hits the saved temporary.
* `ReturnsHome` (Trampoline) lets a MOVBE store to the stack change one word, the one its address names from inside the stub. That is the return address
  for 8(%rsp), on which the CPU does not come back, and a word of the caller's frame, two above the one meant, for more.
* `Sure` (BmiEmul): memory operands with bit 63 set (every kernel address), R12 as an index, SARX of a negative
  source, BZHI beyond the operand size, BEXTR. Outside `Sure` the run still shows that only the
  destination differs and that the next instruction is found.

* `Roomy`, `Good` (SerialProbe): `SavesWhenRoomy` is promised for inputs whose sites are as asserted, and for one stretch
  of free bytes that holds all stubs and the slack of the last.
* `Settled` (Refresh): `BecomesCurrent` is promised to a job that starts when uploads are over and no other job is under way.
  A later release, or a job asked for an old tag, needs another refresh. `ManifestMatchesPack` says that a manifest's checksum is of
  the release it names and, unless a later job on that tag has replaced the pack, of the very pack: re-uploading on a tag leaves
  manifests stale until the next refresh, which the workflow does not prevent.

Deadlock is not checked: the patcher and the probe inserter end, a stub returns, a context finishes its code, jobs are over.

Fairness. `Finishes` uses weak fairness of the patcher's whole `Next`, `SavesWhenRoomy` of the steps of a run of the inserter: each is
one process with nothing to wait for. Running it again is not fair. `BecomesCurrent` uses weak fairness of the steps of each
refresh job that was started, which the runner executes one after the other; starting a refresh or a release is not fair.

## What disagrees

1. A MOVBE with REX is patched twice (`patch_ivybridge.py:686`, run `patcher_movbe`).
2. The displacement of a SIB operand without a base is not counted, and its four bytes stay behind the CALL (lines 104-108; `decode_movbe` does
   the same at 599-601; `patcher_baseless`).
3. The byte after a 4-byte MOVBE is moved into the stub although it may begin a longer instruction
   (line 710, `patcher_short`).
4. The RORX and MULX stubs change the flags (line 232, `trampoline_flags`).
5. MULX uses a red zone the kernel does not have (line 294, `trampoline_mulx`).
6. BZHI ORs the index with 0xFF where the comment says AND (line 398, `trampoline_bzhi`).
7. The emulator has F2 and F3 swapped: SHRX, MULX and RORX are not handled, SARX is done as SHRX
   (`bmi2_emul.c:293`, `bmi_emul_listed`).

Remarks that need no run: a 16-bit MOVBE is patched although line 585 says it is skipped, because `collect_movbe` never returns the offset of a 66 (the same holds of
CRC32 and its F2): the prefix stays before the CALL, and the stub does the 32-bit access. The stub of K clobbers RAX before its `lgdt`, which the model, where the K site loads the GDT and nothing
else, does not show. `alloc_tramp`'s docstring says it finds size+16 bytes, the code looks at size+4 and stays
16 clear of the end (`add_serial_probe.py:72`); the closing "Expected serial" line omits the characters a to m
(line 383).

## What is proved

`PatcherProofs`, for every list of segments, image file, padding, run length and set of layouts that satisfy
`SegsAssumption` (segments are disjoint parts of the file), `ImagesAssumption` (instructions are disjoint and lie
in segments, outside padding) and `NearAssumption` (any site is within rel32 of the first segment):

* `Invariance`: `IInv` holds always. None of the properties is inductive: that the next stub does
  not overlap earlier ones needs that all of them end at or below `tramp_ptr`; that it is in padding needs
  the area's bounds; that its CALL lands needs that `tramp_vptr` is the address `tramp_ptr` is mapped at, and that hits
  lie in the segment whose distance is used. `IInv` joins these, and `AreaUntouched` disposes of the actions
  that leave the area alone.
* `TypeCorrect`, `StubsNeverOverlap`, `CallsAlwaysLand`: the run's `TypeOK`, `StubsApart` and `CallsLand`.

`RewriteProofs`, from the same assumptions and `InsnsAssumption` (a scan looks at bytes of the instruction it is for, an instruction
with a VEX prefix has at least five, those not counted aside, and code does not end with an instruction a decoder reads):

* `HandledInvariance`: `HandledInv` holds always with `IInv`. `AllHandled` speaks of the output only; what makes it inductive is that a wanted
  instruction that is intact is still ahead of its scan or is a hit not handled yet (`PendingInv`), and that whatever the
  stale copy shows as overwritten is overwritten in the image as well (`CopyInv`), so that a scan of the copy misses nothing.
* `OutputHoldsNone`: the run's `AllHandled`, of every image, clean or not.
* `CleanInvariance`: `CleanInv` holds always. The scans of the second loop read a copy made before the first of them wrote, so hits could be
  of bytes already replaced; `AheadInv` says that an instruction
  before whose scan the program still is has not been written to, `HitsInv` that each hit that will be written over is an untouched instruction of the kind of the scan, and `FreeInv`
  that nothing has been written to the rest of the area; each of them except for what a scan of the second loop finds in written bytes. The echoes are any set, so the theorems hold whatever
  displacements and stubs look like: what such a find can reach is known before the program runs (`Echoed`), and a step writes only there, or to one untouched instruction and to free room.
* `InsnsStayWhole`, `WrittenOnce`, `PatcherRewrites`: the run's `WholeInsns`, `WriteOnce` and `ImplementsRewrite`. The last one is
  proved step by step: a `Redirect` or `NopOut` of a wanted instruction is a `Replace` of `InsnRewrite`, `Write` is
  `Publish` because then nothing is left, a failure is a failure, and all else stutters.

`TrampolineProofs`, for every word size (`WordsAssumption`: even, at least two bits), every set of instructions as `decode` makes them
(`TrampolineAssumption`: the fields are registers and kinds of operand; all instructions but RORX name a second register, and
a MOVBE has its operand in memory, line 602), whatever their displacements (the modelled stack is as long as they reach, `Above` and `Below` are any numbers), all registers, memory and frames:

* `StubInvariance`: `StubInv` holds always. The builders all have the shape pushes, body, pops, RET; `StubCore` says which of them the code that is
  left is, that the stack holds the words pushed so far (`Kept`, which an interrupt leaves alone because it stays below the stack
  pointer, and only a MOVBE store to the stack can hit, `Hit`), that nothing but borrowed and written registers has changed, and that the popped ones are back. The stub of MULX keeps
  its registers below the stack pointer instead; `MulxInv` says in which order it saves and restores them, and holds only
  without an interrupt.
* `StubTypes`, `StubReturns`, `StubKeepsRegs`: the run's `TypeOK`, `ReturnsHome` and `KeepsRegs`.
* `StubComputes`: the run's `Computes`, so for every `Faithful` instruction the destinations, memory and zero flag that
  the comments promise, in spite of interrupts. The invariant is `ComputesInv`: while the stub runs, what is left of
  it is `Sound` from the registers, flags and memory there are, that is, in a set of such configurations that no
  instruction leaves and that is right at a RET. The stack is not part of a configuration: a faithful stub reads no operand
  there, and a pop may bring back any word. `RunAlu`, `RunMov`, `RunMovCl`, `RunLoad`, `RunPop` and the other rules say
  what must be sound behind an instruction for it to be sound in front of it; one lemma a builder (`ShiftInCl` to `MulxSound`)
  applies them from the RET back, and `Effects` shows that every step of `Next` does what the rules are about. `Copies` is the
  algebra it rests on: an operation on an operand sees no more of a word than `Trunc` leaves.

`BmiEmulProofs`, for every finite set of contexts, every program and register contents:

* `LifecycleInvariance`: `LInv` holds always. `CountExact` is not inductive: it needs that the instructions done are those counted
  plus one for each context between `Emulate` and `Resume` (`Owing`), and that no context is in the notifier when the
  module is out.
* `NotifierStaysMapped`, `TotalIsExact`: the run's `HandlerResident` and `CountExact`.

and further for every memory and word size, from `EmulAssumption` (displacements are signed half words, F6 is MULX, and the operand size is a
power of two), `WordsAssumption` and `PowersAssumption` (2^n is positive and doubles, which no prover here knows):

* `TypesInvariance`, `EmulTypes`: `TInv` holds always, and with it the run's `TypeOK`. The loops of `emu_pdep` and `emu_pext` are
  recursive functions; that each has a state behind every bit, and that it is a word, goes by induction on the set of
  numbers of which it holds (`UpTo`, from the library's well-founded order).
* `OopsOnlyUnknown`: the run's `OnlyUnknownOops`. What has to be shown is that the operand is looked for in the right place
  (`AddressFound`): the low half of a displacement with the RIP-relative flag on top gives the displacement back (`DispKept`), because division by
  2^(n+1) is division by 2^n and by 2, bit after bit (`NumBits`, `Halves`).
* `EmulatesProcessor`: the run's `ImplementsNative`, step by step. `Emulate` is an `Execute` of `NativeCpu`: the decoder counts the bytes the
  processor does (`LengthDecoded`), one register is written (`OneDestination`), and where `Sure` holds its value is the processor's
  (`ResultRight`): the loops deposit and extract by rank (`PdepIs`, `PextIs`), and a count taken modulo the
  operand size is the same from the register as from its low byte, the operand size being a power of two that fits it (`CountLow`). `Trap` off the chain, `NotifyDone` and `Fault` stop the
  context or step over a breakpoint; all else stutters.

`SerialProbeProofs`, for every kernel whose segments share no byte of the file and whose text segment has `startup_64` and behind it
the area (`HeadersAssumption`), whose file has the bytes of the area and of the sites (`BytesAssumption`), and every area of at most
426 KB (`AreaAssumption`):

* `ProbeInvariance`: `ProbeInv` holds always: the image keeps the input's length and headers, so that what was looked
  up once stays right, and an output is an image (which is what a second run begins with).
* `ImageTyped`: the run's `TypeOK`.
* `UsedBytesStay`: the run's `UsedBytesKept`. The allocator reserves nothing: it needs that each stub is no longer than what was
  requested and found free, that bytes are added to none (each string's length is computed), and that a site is never in the area,
  although three kinds of site come by different ways to their offset.

and further for every kernel on which no version of the program but the first, which inserted K alone, was run
(`InputAssumption`, from line 11 of the docstring):

* `PrintedOnce`: the run's `OncePerSite`. Read back from the bytes it is not inductive: a stub in front of a CALL is a stub of the program,
  of an earlier version, or old code that happens to be in the area, and what `Trace` finds at one site depends on the stubs of the
  others. `OnceInv` says that there is a set of addresses at which whole stubs are, each around a CALL of another one or of
  code that a byte in use tells from a stub (`Woven`), that every CALL of a site leads into it (`Linked`), and that the characters
  found there are of the probes up to here, none twice (`GoodLog`); K and X have their whole stubs if they have one at all; and a second run finds K and
  fails at X. An insertion moves no such stub and makes no new one of old bytes: a stub begins and ends
  with bytes in use and is too short for a request to be met between them (`KeptStub`), and sites that are not the same share no byte
  (`SitesApart`, from the 24 addresses). `Trace` looks at 24 stubs at most; that is enough
  as no more characters than probes are in front of a site (`TraceShort`). It is a function of numbers, and what it finds goes by
  induction on the set of numbers of which that holds (`UpTo`).
* `ListImplemented`: the run's `ImplementsList`, step by step. `Insert` is the abstract `Add` at one address: its probe's character comes before
  those already there, and as much happens afterwards as did before (`SiteGets`: K, X and the CALLs each
  replay another instruction), while all other sites print and do what they did, the CALLs
  shared by `CBD_CALLS` and `EMPT_CALLS` being one site. `Save` publishes, `Again` begins with what was published, `Skip` is its `Keep`, and
  `Fail` stutters.

`InputAssumption` describes the kernels the addresses in the program are for, with or without the instructions expected at them: segments share no address, every site is in one, the entry of
`x86_64_start_kernel` is not a JMP yet, the CALL at `startup_64`, if it is K's, comes with K's stub, and a CALL of any other site goes to code that is no stub of the program, in
reach of the area. The reach matters: the program takes displacements modulo 2^32, so a stub around a CALL of a target farther than
2 GB from the area would call another address. A kernel with a site outside all segments, on which
the program stops with an assertion, is left out as well.

`ReleaseProofs`, for every set of directories, modules and checkouts, every list of copies and any number of jobs (`TreesAssumption`, `NamesAssumption`,
`RunsAssumption` are types):

* `BuildInvariance`: `BuildInv` holds always. `PacksLayered` speaks of the end of the first loop; what is inductive is what the
  directory holds in each phase of a round (`RoundInv`: own modules, those moved away, those extracted, those copied over them) and that the
  packs of rounds that are over hold what they should unless a copy has replaced them (`PacksInv`). `RowsMatchPacks` needs that
  a row is of this job and that no pack is made after its row but by the copying loop, which writes the row again (`RowsInv`).
* `UploadedAreListed`, `PacksAreLayered`, `OthersStay`: the run's `RowsMatchPacks`, `PacksLayered` and `OnlyChosenChange`.

`RefreshProofs`, for every set of jobs, whatever they are asked for (`AskedAssumption`: a tag or nothing), every set of checkouts, packs and
platforms, and any number of releases:

* `JobsInvariance`: `RInv` holds always. Neither property is inductive: that a push of a clone whose base is the last commit
  replaces what the clone was made of needs that no push leaves the branch at a commit some clone is already of; that its tags are
  not older needs that the tag was looked up when the branch named no release that did not exist (`TagsExist`), which in turn needs that
  releases are only added (`BuildKeepsReleases`) and that jobs read only tags that have one.
* `BackupIsOfReplaced`, `ManifestsNeverOlder`: the run's `BackupHoldsReplaced` and `NeverOlder`.

`ManifestProofs`, from the assumptions of both:

* `ManifestInvariance`: `ManifestInv` holds always. A checksum that a manifest, a clone or a job's map holds was read some time ago, and
  the pack may have been replaced since; `Sound` says of each of them that it is of the release it is filed under and, if the job that made its pack
  also made the pack that is there now, of that pack. A builder's step keeps `Sound` because a job begins to upload
  after its packs are made, and then changes none.
* `ManifestsMatchPacks`, `RefreshTypes`: the run's `ManifestMatchesPack` and `TypeOK`.

Only model-checked, and why:

* `Finishes`, `SavesWhenRoomy`, `BecomesCurrent`: liveness under fairness is beyond the prover.

## Plan

Order of work, the most important behaviour first:

1. Done: `Patcher`, `PatcherProofs`, `Trampoline`, `BmiIsa`/`NativeCpu`/`BmiEmul`, `BmiEmulProofs`.
2. Done: `ElfHeaders`, `ProbeList`, `SerialProbe`.
3. Done: `Release`, `Refresh`, `RefreshProofs`.
4. Done: the refinement of `NativeCpu` in `BmiEmulProofs`, `RewriteProofs`, `TrampolineProofs`, `SerialProbeProofs`, `ReleaseProofs`, `ManifestProofs`.
5. Done: `OncePerSite` and the refinement of `ProbeList` in `SerialProbeProofs`. Every safety property of the passing
   runs is a theorem.

## Not modelled, and why

* Decoding header fields from bytes (fixed offsets of a well-formed image); encodings of the patcher's instructions; gzip.
* `epyc7002.yml`, `single.yml`: shorter loops of the same steps as `main.yml`, ending in an artifact nothing else reads. The two firmware packs of
  `main.yml` and `main_part.yml`: packed and checksummed once, with no manifest.
* The build scripts and build workflows, the extraction and commit helpers: linear recipes of external tools, one file written per step and
  no state to relate.
* The residual count of the patcher (line 772): printed only. It says "should be 0" but counts skipped PEXT and PDEP.
* Whether the bytes E8 at the sites the inserter's comments call suspicious are instructions at all: the program takes them for CALLs, and so does the model.
* Manifests' contents beyond `sha256` and `url`, modules, firmware (data); the `release` event in `refresh_json.yml:39`, which no trigger of the workflow raises.
