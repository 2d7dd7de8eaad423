------------------------------- MODULE Release -------------------------------
(***************************************************************************)
(* .github/workflows/main.yml and main_part.yml: one job after the other   *)
(* builds, in a fresh checkout, a pack of kernel modules for each platform *)
(* directory and the list of their checksums, and uploads both when it was *)
(* started on a tag.  main.yml merges four sources of modules,             *)
(* main_part.yml changes some modules in the packs of an earlier release.  *)
(* The step runs under bash -e without pipefail: a command that fails ends *)
(* the job, one that fails inside a pipe or before && does not.            *)
(*                                                                         *)
(* A pack is known by its job, the tag of that job, and where each of its  *)
(* modules is from; a checksum is the pack it was taken of.                *)
(***************************************************************************)
EXTENDS Integers, Sequences, FiniteSetsExt

CONSTANTS
  Trees,    \* what a job may find: [listing, own, rr, vanilla, thirdparty]
  Modules,  \* names of modules (*.ko)
  Names,    \* platforms: directories, their packs E.tgz, and copies of packs
  Excluded, \* listed, but left out of the loop (grep -v)
  Legacy,   \* kernels whose pack is not downloaded
  Copies,   \* the platforms of the second loop: [old, new, both]
  Chosen,   \* inputs.modules of main_part.yml
  MaxRuns   \* bound: jobs started

\* ls lists one directory after the other; every platform has a name: those
\* rr-last has a pack of, the legacy ones and those of the second loop.
ASSUME TreesAssumption ==
  \A t \in Trees : DOMAIN t.listing \subseteq Nat /\ DOMAIN t.rr \subseteq Names
ASSUME NamesAssumption ==
  /\ Legacy \subseteq Names
  /\ Len(Copies) \in Nat
  /\ \A c \in 1 .. Len(Copies) : Copies[c].old \in Names /\ Copies[c].new \in Names
ASSUME RunsAssumption == MaxRuns \in Nat

VARIABLES
  run,     \* number of the job
  tag,     \* the tag it was started on, 0 for a branch
  base,    \* inputs.tag of main_part.yml; 0: the job is of main.yml
  tree,    \* its checkout and what rr-last holds meanwhile
  phase,   \* where it is
  at,      \* which round of the loop
  ko,      \* the directory of the round: where *.ko is from
  bak,     \* the same of *.ko.bak
  packs,   \* the *.tgz so far
  chksum,  \* files-chksum: rows [name, sum]
  left,    \* assets still to upload
  assets   \* per tag, in order of creation: what the release holds

builder == <<run, tag, base, tree, phase, at, ko, bak, packs, chksum, left>>
vars == <<builder, assets>>

Empty == [m \in Modules |-> "none"]
NoPack == [run |-> 0, tag |-> 0, from |-> Empty]
NoPacks == [n \in Names |-> NoPack]

RR_LAST == -1  \* a release made elsewhere, fixed while a job runs

\* for D in `ls -d *-*/ | grep -v ...`, one round for each place in the listing;
\* main_part.yml has no grep.
Rounds == {n \in DOMAIN tree.listing : base # 0 \/ tree.listing[n] \notin Excluded}
dir == tree.listing[at]

\* Files put into a directory replace those of the same name.
Over(files, mods, source) == [m \in Modules |-> IF m \in mods THEN source ELSE files[m]]
Own(d) == Over(Empty, tree.own[d], "own")

\* Mutant: a row without a checksum for a file that is not there.
RowAlways(name, pack) == <<[name |-> name, sum |-> pack]>>
\* sha256sum E.tgz | awk: no output, and no error, when there is no such file.
Row(name, pack) == IF pack = NoPack THEN <<>> ELSE <<[name |-> name, sum |-> pack]>>

Init ==
  /\ run = 0 /\ tag = 0 /\ base = 0 /\ tree \in Trees
  /\ phase = "over" /\ at = 0
  /\ ko = Empty /\ bak = Empty /\ packs = NoPacks /\ chksum = <<>>
  /\ left = {}
  /\ assets = <<>>

\* The first of the rounds that are left, or the second loop after the last one,
\* which main_part.yml does not have.
Round(rest) ==
  IF rest # {}
  THEN /\ at' = Min(rest) /\ bak' = Empty
       /\ IF base = 0 THEN phase' = "download" /\ ko' = Own(tree.listing[Min(rest)])
                      ELSE phase' = "fetch" /\ ko' = Empty
  ELSE /\ at' = (IF base = 0 THEN 1 ELSE Len(Copies) + 1)
       /\ phase' = "copy" /\ UNCHANGED <<ko, bak>>

Goto(p) == phase' = p /\ UNCHANGED <<run, tag, base, tree, at, left, assets>>

\* The runner is gone, with the checkout and what it made of it.
Ends ==
  /\ phase' = "over" /\ at' = 0
  /\ ko' = Empty /\ bak' = Empty /\ packs' = NoPacks /\ chksum' = <<>>
  /\ tag' = 0 /\ base' = 0
  /\ UNCHANGED <<run, tree>>

\* A job is started, on a branch, on a new tag or again on an old one.
Start ==
  /\ phase = "over" /\ run < MaxRuns
  /\ run' = run + 1
  /\ tag' \in 0 .. Len(assets) + 1
  /\ base' \in RR_LAST .. Len(assets)
  /\ tree' \in Trees
  /\ phase' = "listed"
  /\ UNCHANGED <<at, ko, bak, packs, chksum, left, assets>>

List ==
  /\ phase = "listed"
  /\ Round(Rounds)
  /\ UNCHANGED <<run, tag, base, tree, packs, chksum, left, assets>>

\* curl without -f: there is a file for tar even if it is the page of a 404.
Download ==
  /\ phase = "download"
  /\ Goto(IF dir \in Legacy THEN "vanilla" ELSE "backup")
  /\ UNCHANGED <<ko, bak, packs, chksum>>

\* Mutant: the modules of the checkout are not set aside.
BackupNothing ==
  /\ phase = "backup"
  /\ Goto("extract")
  /\ UNCHANGED <<ko, bak, packs, chksum>>
\* *.ko to *.ko.bak
Backup ==
  /\ phase = "backup"
  /\ Goto("extract")
  /\ bak' = ko /\ ko' = Empty
  /\ UNCHANGED <<packs, chksum>>

\* tar fails on what is no pack, and the job with it.
Extract ==
  /\ phase = "extract" /\ dir \in DOMAIN tree.rr
  /\ Goto("restore")
  /\ ko' = Over(ko, tree.rr[dir], "rr")
  /\ UNCHANGED <<bak, packs, chksum>>
NoPackThere ==
  /\ phase = "extract" /\ dir \notin DOMAIN tree.rr
  /\ Ends
  /\ UNCHANGED <<left, assets>>

\* *.ko.bak to *.ko, over what the pack brought
Restore ==
  /\ phase = "restore"
  /\ Goto("vanilla")
  /\ ko' = Over(ko, {m \in Modules : bak[m] # "none"}, "own") /\ bak' = Empty
  /\ UNCHANGED <<packs, chksum>>

\* [ -d from ] && cp from/*.ko
CopyFrom(source, here, next) ==
  /\ phase = source
  /\ Goto(next)
  /\ ko' = Over(ko, IF dir \in DOMAIN here THEN here[dir] ELSE {}, source)
  /\ UNCHANGED <<bak, packs, chksum>>

\* main_part.yml: the pack of the directory in release base, or a 404.
HasBase(d) ==
  IF base = RR_LAST THEN d \in DOMAIN tree.rr ELSE d \in Names /\ assets[base].packs[d] # NoPack
BaseOf(d) ==
  IF base = RR_LAST THEN Over(Empty, tree.rr[d], "rr") ELSE assets[base].packs[d].from

\* curl and tar into an empty directory
Fetch ==
  /\ phase = "fetch" /\ HasBase(dir)
  /\ Goto("choose")
  /\ ko' = BaseOf(dir)
  /\ UNCHANGED <<bak, packs, chksum>>
NoBaseThere ==
  /\ phase = "fetch" /\ ~HasBase(dir)
  /\ Ends
  /\ UNCHANGED <<left, assets>>

\* Mutant: every module of the checkout.
ChoiceOfAll(d) == tree.own[d]
\* The chosen modules the checkout has; the others are warned of.
Choice(d) == Chosen \intersect tree.own[d]
Choose ==
  /\ phase = "choose"
  /\ Goto("pack")
  /\ ko' = Over(ko, Choice(dir), "chosen")
  /\ UNCHANGED <<bak, packs, chksum>>

Pack ==
  /\ phase = "pack"
  /\ LET pack == [run |-> run, tag |-> tag, from |-> ko]
     IN  /\ packs' = [packs EXCEPT ![dir] = pack]
         /\ chksum' = chksum \o Row(dir, pack)
  /\ Round({n \in Rounds : n > at})
  /\ UNCHANGED <<run, tag, base, tree, left, assets>>

\* Mutant: only epyc7002, whose rows are written there, gets new ones.
RowsOfBoth(c, new) ==
  IF c.both THEN Row(c.old, new[c.old]) \o Row(c.new, new[c.new]) ELSE <<>>
Rows(c, new) ==
  (IF c.both THEN Row(c.old, new[c.old]) ELSE <<>>) \o Row(c.new, new[c.new])

\* A round of the second loop: the pack of 7.2 is that of 7.3 as well, also
\* where the first loop packed one and wrote its row.
Copy ==
  /\ phase = "copy" /\ at <= Len(Copies)
  /\ LET c == Copies[at]
         new == IF packs[c.old] = NoPack THEN packs
                ELSE [packs EXCEPT ![c.new] = packs[c.old]]
     IN  packs' = new /\ chksum' = chksum \o Rows(c, new)
  /\ at' = at + 1
  /\ UNCHANGED <<run, tag, base, tree, phase, ko, bak, left, assets>>

\* if: startsWith(github.ref, 'refs/tags/'); the action makes the release when
\* the tag has none.
Release ==
  /\ phase = "copy" /\ at > Len(Copies)
  /\ IF tag = 0 THEN Ends /\ UNCHANGED <<left, assets>>
     ELSE /\ phase' = "upload"
          /\ left' = {n \in Names : packs[n] # NoPack} \union {"files-chksum"}
          /\ assets' = IF tag <= Len(assets) THEN assets
                       ELSE Append(assets, [packs |-> NoPacks, chksum |-> <<>>])
          /\ UNCHANGED <<run, tag, base, tree, at, ko, bak, packs, chksum>>

\* Assets are uploaded in no particular order and replace those of their name.
Upload(n) ==
  /\ phase = "upload" /\ n \in left
  /\ left' = left \ {n}
  /\ assets' = IF n = "files-chksum" THEN [assets EXCEPT ![tag].chksum = chksum]
               ELSE [assets EXCEPT ![tag].packs[n] = packs[n]]
  /\ IF left = {n} THEN Ends
     ELSE UNCHANGED <<run, tag, base, tree, phase, at, ko, bak, packs, chksum>>

Build ==
  \/ Start \/ List \/ Download \/ Backup \/ Extract \/ NoPackThere \/ Restore
  \/ CopyFrom("vanilla", tree.vanilla, "thirdparty")
  \/ CopyFrom("thirdparty", tree.thirdparty, "pack")
  \/ Fetch \/ NoBaseThere \/ Choose
  \/ Pack \/ Copy \/ Release
  \/ \E n \in left : Upload(n)

Spec == Init /\ [][Build]_vars

\* The checksum a reader of the list ends up with: the one in the last row.
LastSum(rows, n) ==
  LET of == {i \in DOMAIN rows : rows[i].name = n}
  IN  IF of = {} THEN NoPack ELSE rows[Max(of)].sum

-----------------------------------------------------------------------------
(* Properties. *)

\* What is uploaded has a row, and its last row is of it: also the pack that was
\* overwritten after its row, and not the one that was never made (88-104).
RowsMatchPacks ==
  phase = "upload" => \A n \in Names : LastSum(chksum, n) = packs[n]

\* In a pack of main.yml each module is from the first that has it of thirdparty,
\* vanilla, the checkout and the pack of rr-last, and no pack is made from a
\* page that says there is none (37-82).
Top(d, m) ==
  IF d \in DOMAIN tree.thirdparty /\ m \in tree.thirdparty[d] THEN "thirdparty"
  ELSE IF d \in DOMAIN tree.vanilla /\ m \in tree.vanilla[d] THEN "vanilla"
  ELSE IF m \in tree.own[d] THEN "own"
  ELSE IF d \notin Legacy /\ m \in tree.rr[d] THEN "rr"
  ELSE "none"
PacksLayered ==
  phase = "copy" /\ base = 0 => \A n \in Rounds :
    LET d == tree.listing[n]
    IN  \/ \E c \in 1 .. at - 1 : Copies[c].new = d
        \/ /\ d \in Legacy \union DOMAIN tree.rr
           /\ packs[d].from = [m \in Modules |-> Top(d, m)]

\* A pack of main_part.yml is that of the release asked for but for the chosen
\* modules, which are the checkout's (39-69 there): no module gets lost, none is
\* taken from the round before, and none is made from a page that says there is no pack.
OnlyChosenChange ==
  phase = "copy" /\ base # 0 => \A n \in Rounds :
    LET d == tree.listing[n]
    IN  HasBase(d) /\ \A m \in Modules :
          packs[d].from[m] = IF m \in Chosen /\ m \in tree.own[d] THEN "chosen" ELSE BaseOf(d)[m]
=============================================================================
