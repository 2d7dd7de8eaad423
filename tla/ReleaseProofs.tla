---------------------------- MODULE ReleaseProofs ----------------------------
(***************************************************************************)
(* For any directories, modules, copies and number of jobs: what a job     *)
(* uploads is listed with its own checksum, the packs of main.yml are      *)
(* layered as the workflow says, and main_part.yml changes nothing but     *)
(* what it was asked to.                                                   *)
(***************************************************************************)
EXTENDS Release, SequenceTheorems, WellFoundedInduction, TLAPS

\* Something that is a sequence, whatever its elements are.
IsSequence(s) == s \in Seq({s[i] : i \in DOMAIN s})

-----------------------------------------------------------------------------
(* The inductive invariant. *)

FromRrLast == {"download", "backup", "extract", "restore", "vanilla", "thirdparty"}
FromBase == {"fetch", "choose"}
FirstLoop == FromRrLast \union FromBase \union {"pack"}

\* Jobs are counted, and one that is over has left nothing behind.
CountInv ==
  /\ run \in 0 .. MaxRuns
  /\ phase # "over" => run > 0
  /\ IsSequence(assets)
  /\ tag \in 0 .. Len(assets) + 1
  /\ phase = "upload" => tag \in 1 .. Len(assets)
  /\ left \subseteq Names \union {"files-chksum"}
  /\ phase \in {"over", "listed"} => packs = NoPacks /\ chksum = <<>>

\* The packs and the rows written so far, of job r on tag t.
RowsInv(rows, made, r, t) ==
  /\ IsSequence(rows)
  /\ \A i \in DOMAIN rows : rows[i].name \in Names /\ rows[i].sum.run = r
  /\ DOMAIN made = Names /\ made = [n \in Names |-> made[n]]
  /\ \A n \in Names :
       /\ made[n] = NoPack \/ (made[n].run = r /\ made[n].tag = t)
       /\ (\E i \in DOMAIN rows : rows[i].name = n) => made[n] # NoPack
       /\ LastSum(rows, n) = made[n]

\* What the directory of a round holds behind Restore, behind the vanilla
\* modules and in the pack.
Base(d) ==
  [m \in Modules |-> IF m \in tree.own[d] THEN "own"
                     ELSE IF d \notin Legacy /\ m \in tree.rr[d] THEN "rr" ELSE "none"]
WithVanilla(d) ==
  [m \in Modules |-> IF d \in DOMAIN tree.vanilla /\ m \in tree.vanilla[d] THEN "vanilla"
                     ELSE Base(d)[m]]
Good(d, files) ==
  IF base = 0
  THEN d \in Legacy \union DOMAIN tree.rr /\ files = [m \in Modules |-> Top(d, m)]
  ELSE HasBase(d) /\ \A m \in Modules :
         files[m] = IF m \in Chosen /\ m \in tree.own[d] THEN "chosen" ELSE BaseOf(d)[m]

RoundInv ==
  /\ phase \in FromRrLast => base = 0
  /\ phase \in FromBase => base # 0
  /\ phase \in FirstLoop => at \in Rounds
  /\ phase \in {"download", "backup"} => ko = Own(dir)
  /\ phase \in {"backup", "extract", "restore"} => dir \notin Legacy
  /\ phase = "extract" => ko = Empty
  /\ phase \in {"extract", "restore"} => bak = Own(dir)
  /\ phase = "restore" => dir \in DOMAIN tree.rr /\ ko = Over(Empty, tree.rr[dir], "rr")
  /\ phase \in {"vanilla", "thirdparty"} => dir \in Legacy \union DOMAIN tree.rr
  /\ phase = "vanilla" => ko = Base(dir)
  /\ phase = "thirdparty" => ko = WithVanilla(dir)
  /\ phase = "choose" => HasBase(dir) /\ ko = BaseOf(dir)
  /\ phase = "pack" => Good(dir, ko)

\* The packs of the rounds that are over, until another is copied over them.
PackDone(n) == Good(tree.listing[n], packs[tree.listing[n]].from)
PacksInv ==
  /\ phase \in FirstLoop => \A n \in Rounds : n < at => PackDone(n)
  /\ phase = "copy" =>
       /\ at \in Nat \ {0} /\ (base # 0 => at > Len(Copies))
       /\ \A n \in Rounds :
            PackDone(n) \/ (base = 0 /\ \E c \in 1 .. at - 1 : Copies[c].new = tree.listing[n])

BuildInv ==
  /\ tree \in Trees
  /\ CountInv
  /\ RowsInv(chksum, packs, run, tag)
  /\ RoundInv
  /\ PacksInv

-----------------------------------------------------------------------------
(* Lists of anything. *)

\* A sequence of anything is a sequence.
LEMMA SeqIsSequence ==
  ASSUME NEW S, NEW t \in Seq(S)
  PROVE  IsSequence(t)
<1>1. PICK n \in Nat : t \in [1 .. n -> S]
  BY SeqDef
<1>2. t \in [1 .. n -> {t[i] : i \in DOMAIN t}]
  BY <1>1
<1> QED
  BY <1>2, SeqDef DEF IsSequence

\* A new release is one more, and the list stays one.
LEMMA AppendGrows ==
  ASSUME NEW s, IsSequence(s), NEW e
  PROVE  IsSequence(Append(s, e)) /\ Len(Append(s, e)) = Len(s) + 1 /\ Len(s) \in Nat
<1> DEFINE S == {s[i] : i \in DOMAIN s}
<1>1. s \in Seq(S)
  BY DEF IsSequence
<1>2. s \in Seq(S \union {e}) /\ e \in S \union {e}
  BY <1>1, SeqMonotonic
<1> HIDE DEF S
<1>3. Append(s, e) \in Seq(S \union {e}) /\ Len(Append(s, e)) = Len(s) + 1 /\ Len(s) \in Nat
  BY <1>2
<1> QED
  BY <1>3, SeqIsSequence

\* Replacing an asset keeps the list of releases a list of the same length.
LEMMA ReplaceKeepsLength ==
  ASSUME NEW s, IsSequence(s), NEW i, NEW e
  PROVE  LET t == [s EXCEPT ![i] = e]
         IN  IsSequence(t) /\ Len(t) = Len(s)
<1> DEFINE S == {s[k] : k \in DOMAIN s}
           t == [s EXCEPT ![i] = e]
<1>1. s \in Seq(S)
  BY DEF IsSequence
<1>2. PICK n \in Nat : s \in [1 .. n -> S]
  BY <1>1, SeqDef
<1> HIDE DEF S
<1>3. t \in [1 .. n -> S \union {e}]
  BY <1>2
<1> HIDE DEF t
<1>4. t \in Seq(S \union {e})
  BY <1>3, SeqDef
<1>5. IsSequence(t)
  BY <1>4, SeqIsSequence
<1>6. Len(s) = n /\ Len(t) = n
  BY <1>1, <1>2, <1>3, <1>4
<1> QED
  BY <1>5, <1>6 DEF t

\* The relation that a set of numbers is well-founded by.
LEMMA SmallerPairs ==
  ASSUME NEW x \in Nat, NEW y \in Nat, ~(<<y, x>> \in OpToRel(<, Nat))
  PROVE  x <= y
<1>1. y < x => <<y, x>> \in OpToRel(<, Nat)
  BY DEF OpToRel
<1> QED
  BY <1>1 DEF OpToRel

\* A set of places in a list has a last one.
LEMMA Greatest ==
  ASSUME NEW n \in Nat, NEW S, S \subseteq 1 .. n, S # {}
  PROVE  \E k \in S : \A i \in S : k >= i
<1> DEFINE T == {n - i : i \in S}
           R == OpToRel(<, Nat)
<1>1. T \subseteq Nat /\ T # {}
  <2>1. \A i \in S : i \in 1 .. n /\ n - i \in Nat
    OBVIOUS
  <2> QED
    BY <2>1
<1>2. PICK x \in T : \A y \in T : ~(<<y, x>> \in R)
  BY <1>1, NatLessThanWellFounded, WFMin
<1>3. \A y \in T : x <= y
  BY <1>1, <1>2, SmallerPairs
<1>4. PICK k \in S : x = n - k
  OBVIOUS
<1>5. ASSUME NEW i \in S PROVE k >= i
  <2>1. n - i \in T /\ i \in 1 .. n /\ k \in 1 .. n
    OBVIOUS
  <2> QED
    BY <1>3, <1>4, <2>1
<1> QED
  BY <1>4, <1>5

\* A set of numbers has a first one.
LEMMA Least ==
  ASSUME NEW S, S \subseteq Nat, S # {}
  PROVE  Min(S) \in S /\ \A i \in S : Min(S) <= i
<1> DEFINE R == OpToRel(<, Nat)
<1>1. PICK x \in S : \A y \in S : ~(<<y, x>> \in R)
  BY NatLessThanWellFounded, WFMin
<1>2. \A y \in S : x <= y
  BY <1>1, SmallerPairs
<1> QED
  BY <1>2 DEF Min

-----------------------------------------------------------------------------
(* The list of checksums. *)

\* A list is the other one with one more entry, which is what a reader of the
\* list gets for that name, and changes nothing for the others.
LongerBy(longer, rows, e) ==
  /\ IsSequence(longer)
  /\ DOMAIN longer = 1 .. Len(rows) + 1 /\ DOMAIN rows = 1 .. Len(rows) /\ Len(rows) \in Nat
  /\ \A i \in DOMAIN rows : longer[i] = rows[i]
  /\ longer[Len(rows) + 1] = e
  /\ LastSum(longer, e.name) = e.sum
  /\ \A n : n # e.name => LastSum(longer, n) = LastSum(rows, n)

\* Appending makes such a list.
LEMMA LastOfAppended ==
  ASSUME NEW rows, IsSequence(rows), NEW e
  PROVE  LongerBy(rows \o <<e>>, rows, e)
<1> DEFINE S == {rows[i] : i \in DOMAIN rows}
           T == S \union {e}
           longer == rows \o <<e>>
           len == Len(rows)
<1>1. rows \in Seq(S) /\ S \subseteq T /\ e \in T
  BY DEF IsSequence
<1> HIDE DEF S, T
<1>2. rows \in Seq(T) /\ <<e>> \in Seq(T) /\ Len(<<e>>) = 1 /\ <<e>>[1] = e
  BY <1>1, SeqMonotonic
<1>3. longer \in Seq(T) /\ Len(longer) = len + Len(<<e>>)
      /\ \A i \in 1 .. len + Len(<<e>>) : longer[i] = IF i <= len THEN rows[i] ELSE <<e>>[i - len]
  BY <1>2, ConcatProperties
<1> HIDE DEF longer
<1>4. IsSequence(longer)
  BY <1>3, SeqIsSequence
<1>5. len \in Nat /\ DOMAIN rows = 1 .. len /\ DOMAIN longer = 1 .. len + 1
  BY <1>2, <1>3, LenProperties
<1>6. longer[len + 1] = e /\ \A i \in DOMAIN rows : longer[i] = rows[i]
  BY <1>2, <1>3, <1>5
<1>7. LastSum(longer, e.name) = e.sum
  <2> DEFINE of == {i \in DOMAIN longer : longer[i].name = e.name}
  <2>1. len + 1 \in of /\ \A i \in of : i \in 1 .. len + 1
    BY <1>5, <1>6
  <2>2. Max(of) = len + 1
    BY <2>1, <1>5 DEF Max
  <2> QED
    BY <2>1, <2>2, <1>6 DEF LastSum
<1>8. ASSUME NEW n, n # e.name PROVE LastSum(longer, n) = LastSum(rows, n)
  <2> DEFINE of == {i \in DOMAIN longer : longer[i].name = n}
             was == {i \in DOMAIN rows : rows[i].name = n}
  <2>1. of = was
    BY <1>5, <1>6, <1>8
  <2>2. CASE was = {}
    BY <2>1, <2>2 DEF LastSum
  <2>3. CASE was # {} /\ Max(was) \in DOMAIN rows
    BY <2>1, <2>3, <1>6 DEF LastSum
  <2>4. was # {} => Max(was) \in DOMAIN rows
    <3> SUFFICES ASSUME was # {} PROVE Max(was) \in DOMAIN rows
      OBVIOUS
    <3>1. PICK k \in was : \A i \in was : k >= i
      BY <1>5, Greatest
    <3> QED
      BY <3>1 DEF Max
  <2> QED
    BY <2>2, <2>3, <2>4
<1> QED
  BY <1>4, <1>5, <1>6, <1>7, <1>8 DEF LongerBy, longer

\* A pack of this job gets into the list with its checksum.
LEMMA PackRow ==
  ASSUME NEW rows, NEW made, NEW r \in Nat \ {0}, NEW t, RowsInv(rows, made, r, t),
         NEW d \in Names, NEW pack, pack.run = r, pack.tag = t
  PROVE  RowsInv(rows \o Row(d, pack), [made EXCEPT ![d] = pack], r, t)
<1> DEFINE e == [name |-> d, sum |-> pack]
           longer == rows \o <<e>>
           made2 == [made EXCEPT ![d] = pack]
<1>1. pack # NoPack
  BY DEF NoPack
<1>2. rows \o Row(d, pack) = longer
  BY <1>1 DEF Row
<1>3. e.name = d /\ e.sum = pack /\ IsSequence(rows)
  BY DEF RowsInv
<1>4. LongerBy(longer, rows, e)
  BY <1>3, LastOfAppended
<1> HIDE DEF e, longer
<1>5. \A i \in DOMAIN longer : i \in DOMAIN rows \/ longer[i] = e
  BY <1>4 DEF LongerBy
<1>6. \A i \in DOMAIN longer : longer[i].name \in Names /\ longer[i].sum.run = r
  BY <1>3, <1>4, <1>5 DEF RowsInv, LongerBy
<1>7. DOMAIN made2 = Names /\ made2 = [n \in Names |-> made2[n]] /\ made2[d] = pack /\ \A n \in Names : n # d => made2[n] = made[n]
  BY DEF RowsInv
<1> HIDE DEF made2
<1>8. ASSUME NEW n \in Names
      PROVE  /\ made2[n] = NoPack \/ (made2[n].run = r /\ made2[n].tag = t)
             /\ (\E i \in DOMAIN longer : longer[i].name = n) => made2[n] # NoPack
             /\ LastSum(longer, n) = made2[n]
  <2>1. CASE n = d
    BY <2>1, <1>1, <1>3, <1>4, <1>7 DEF LongerBy
  <2>2. CASE n # d
    BY <2>2, <1>3, <1>4, <1>5, <1>7 DEF RowsInv, LongerBy
  <2> QED
    BY <2>1, <2>2
<1>9. RowsInv(longer, made2, r, t)
  BY <1>4, <1>6, <1>7, <1>8 DEF RowsInv, LongerBy
<1> QED
  BY <1>2, <1>9 DEF made2, longer, e

\* A row written once more changes nothing; for a file that is not there, there
\* is none.
LEMMA SameRow ==
  ASSUME NEW rows, NEW made, NEW r \in Nat \ {0}, NEW t, RowsInv(rows, made, r, t),
         NEW n \in Names
  PROVE  RowsInv(rows \o Row(n, made[n]), made, r, t)
<1>1. CASE made[n] = NoPack
  <2>1. rows \in Seq({rows[i] : i \in DOMAIN rows})
    BY DEF RowsInv, IsSequence
  <2>2. rows \o <<>> = rows
    BY <2>1, ConcatEmptySeq
  <2> QED
    BY <1>1, <2>2 DEF Row
<1>2. CASE made[n] # NoPack
  <2>1. made[n].run = r /\ made[n].tag = t
    BY <1>2 DEF RowsInv
  <2>2. RowsInv(rows \o Row(n, made[n]), [made EXCEPT ![n] = made[n]], r, t)
    BY <2>1, PackRow
  <2>3. [made EXCEPT ![n] = made[n]] = made
    BY DEF RowsInv
  <2> QED
    BY <2>2, <2>3
<1> QED
  BY <1>1, <1>2

\* Two rows are one behind the other.
LEMMA RowsOneByOne ==
  ASSUME NEW rows, IsSequence(rows), NEW n, NEW p, NEW m, NEW q
  PROVE  /\ rows \o (Row(n, p) \o Row(m, q)) = (rows \o Row(n, p)) \o Row(m, q)
         /\ rows \o (<<>> \o Row(m, q)) = rows \o Row(m, q)
<1> DEFINE S == {rows[i] : i \in DOMAIN rows}
           T == S \union {[name |-> n, sum |-> p], [name |-> m, sum |-> q]}
<1>1. rows \in Seq(S) /\ S \subseteq T
  BY DEF IsSequence
<1>2. Row(n, p) \in Seq(T) /\ Row(m, q) \in Seq(T)
  <2>1. <<[name |-> n, sum |-> p]>> \in Seq(T) /\ <<[name |-> m, sum |-> q]>> \in Seq(T) /\ <<>> \in Seq(T)
    OBVIOUS
  <2> QED
    BY <2>1 DEF Row
<1> HIDE DEF S, T
<1>3. rows \in Seq(T)
  BY <1>1, SeqMonotonic
<1>4. <<>> \o Row(m, q) = Row(m, q)
  BY <1>2, ConcatEmptySeq
<1> QED
  BY <1>2, <1>3, <1>4, ConcatAssociative

-----------------------------------------------------------------------------
(* What the steps have in common. *)

\* What a round is to make depends on the checkout and the releases only.
LEMMA SameGoal ==
  ASSUME UNCHANGED <<base, tree, assets>>
  PROVE  Rounds' = Rounds /\ \A d, files : Good(d, files)' <=> Good(d, files)
  BY DEF Rounds, Good, HasBase, BaseOf, Top

\* Only platforms get a pack.
LEMMA GoodIsNamed ==
  ASSUME tree \in Trees, NEW d, NEW files, Good(d, files)
  PROVE  d \in Names
  BY TreesAssumption, NamesAssumption DEF TreesAssumption, NamesAssumption, Good, HasBase

\* A job goes on to another step without packing anything.
LEMMA GoesOn ==
  ASSUME BuildInv, UNCHANGED <<run, tag, tree, packs, chksum, left, assets>>,
         phase # "over", phase' \notin {"over", "listed", "upload"}
  PROVE  tree' \in Trees /\ CountInv' /\ RowsInv(chksum, packs, run, tag)'
<1>1. tree' \in Trees /\ CountInv'
  BY DEF BuildInv, CountInv, IsSequence
<1>2. RowsInv(chksum', packs', run', tag')
  BY DEF BuildInv
<1> QED
  BY <1>1, <1>2

\* A job that has written nothing yet.
LEMMA NothingWritten ==
  ASSUME NEW r, NEW t
  PROVE  RowsInv(<<>>, NoPacks, r, t)
<1>1. IsSequence(<<>>) /\ DOMAIN <<>> = {}
  BY DEF IsSequence
<1>2. \A n \in Names : LastSum(<<>>, n) = NoPack
  BY <1>1 DEF LastSum
<1> QED
  BY <1>1, <1>2 DEF RowsInv, NoPacks

\* Within a round only the directory changes.
LEMMA WithinRound ==
  ASSUME BuildInv, UNCHANGED <<base, tree, at, packs, assets>>,
         phase \in FirstLoop, phase' \in FirstLoop
  PROVE  PacksInv'
<1>1. phase' # "copy" /\ Rounds' = Rounds
  BY SameGoal DEF FirstLoop, FromRrLast, FromBase
<1>2. \A n : PackDone(n)' <=> PackDone(n)
  BY SameGoal DEF PackDone
<1> QED
  BY <1>1, <1>2 DEF BuildInv, PacksInv

\* The next round begins, or the second loop, with a pack for each round that is over.
LEMMA NextRound ==
  ASSUME tree \in Trees, UNCHANGED <<base, tree, assets>>, NEW rest, rest \subseteq Rounds, Round(rest),
         \A n \in Rounds \ rest : PackDone(n)'
  PROVE  RoundInv' /\ PacksInv'
<1>0. Rounds' = Rounds /\ Rounds \subseteq Nat
  BY SameGoal, TreesAssumption DEF Rounds, TreesAssumption
<1>1. CASE rest # {}
  <2>1. Min(rest) \in rest /\ \A i \in rest : Min(rest) <= i
    BY <1>0, <1>1, Least
  <2>2. /\ at' \in rest
        /\ phase' = IF base = 0 THEN "download" ELSE "fetch"
        /\ base = 0 => ko' = Own(tree.listing[at'])
        /\ \A i \in rest : at' <= i
    BY <1>1, <2>1 DEF Round
  <2>3. RoundInv'
    BY <1>0, <2>2 DEF RoundInv, FirstLoop, FromRrLast, FromBase, Own, Over, dir
  <2>4. \A n \in Rounds : n < at' => n \notin rest
    BY <1>0, <2>2
  <2>5. PacksInv'
    BY <1>0, <2>2, <2>4 DEF PacksInv
  <2> QED
    BY <2>3, <2>5
<1>2. CASE rest = {}
  <2>1. phase' = "copy" /\ at' = IF base = 0 THEN 1 ELSE Len(Copies) + 1
    BY <1>2 DEF Round
  <2>2. RoundInv'
    BY <2>1 DEF RoundInv, FirstLoop, FromRrLast, FromBase
  <2>3. at' \in Nat \ {0} /\ (base' # 0 => at' > Len(Copies))
    BY <2>1, NamesAssumption DEF NamesAssumption
  <2>4. PacksInv'
    BY <1>0, <1>2, <2>1, <2>3 DEF PacksInv, FirstLoop, FromRrLast, FromBase
  <2> QED
    BY <2>2, <2>4
<1> QED
  BY <1>1, <1>2

\* The runner is gone.
LEMMA EndsStep ==
  ASSUME BuildInv, Ends, IsSequence(assets'), Len(assets') \in Nat,
         left' \subseteq Names \union {"files-chksum"}
  PROVE  BuildInv'
<1>1. phase' = "over" /\ UNCHANGED <<run, tree>> /\ tag' = 0 /\ packs' = NoPacks /\ chksum' = <<>>
  BY DEF Ends
<1>2. CountInv'
  BY <1>1 DEF BuildInv, CountInv, NoPacks, IsSequence
<1>3. RoundInv' /\ PacksInv'
  BY <1>1 DEF RoundInv, PacksInv, FirstLoop, FromRrLast, FromBase
<1>4. RowsInv(chksum', packs', run', tag')
  BY <1>1, NothingWritten
<1> QED
  BY <1>1, <1>2, <1>3, <1>4 DEF BuildInv

-----------------------------------------------------------------------------
(* The steps. *)

\* A new job has no packs.
LEMMA StartStep ==
  ASSUME BuildInv, Start
  PROVE  BuildInv'
<1>1. /\ phase = "over" /\ phase' = "listed" /\ run' = run + 1 /\ run < MaxRuns
      /\ tag' \in 0 .. Len(assets) + 1 /\ tree' \in Trees
      /\ UNCHANGED <<packs, chksum, left, assets>>
  BY DEF Start
<1>2. packs = NoPacks /\ chksum = <<>>
  BY <1>1 DEF BuildInv, CountInv
<1>3. CountInv'
  BY <1>1, <1>2, RunsAssumption DEF BuildInv, CountInv, IsSequence, RunsAssumption, NoPacks
<1>4. RowsInv(chksum', packs', run', tag')
  BY <1>1, <1>2, NothingWritten
<1>6. RoundInv' /\ PacksInv'
  BY <1>1 DEF RoundInv, PacksInv, FirstLoop, FromRrLast, FromBase
<1> QED
  BY <1>1, <1>3, <1>4, <1>6 DEF BuildInv

\* The first round.
LEMMA ListStep ==
  ASSUME BuildInv, List
  PROVE  BuildInv'
<1>1. /\ phase = "listed" /\ phase' \in {"download", "fetch", "copy"} /\ Round(Rounds)
      /\ UNCHANGED <<run, tag, base, tree, packs, chksum, left, assets>>
  BY DEF List, Round
<1>2. tree' \in Trees /\ CountInv' /\ RowsInv(chksum, packs, run, tag)'
  BY <1>1, GoesOn
<1>3. RoundInv' /\ PacksInv'
  BY <1>1, NextRound DEF BuildInv
<1> QED
  BY <1>2, <1>3 DEF BuildInv

\* Steps within a round of main.yml: the directory is layer upon layer.
LEMMA LayerStep ==
  ASSUME BuildInv,
         \/ Download \/ Backup \/ Extract \/ Restore
         \/ CopyFrom("vanilla", tree.vanilla, "thirdparty")
         \/ CopyFrom("thirdparty", tree.thirdparty, "pack")
  PROVE  BuildInv'
<1>1. /\ phase \in FromRrLast
      /\ phase' \in {"backup", "extract", "restore", "vanilla", "thirdparty", "pack"}
      /\ UNCHANGED <<run, tag, base, tree, at, packs, chksum, left, assets>>
  BY DEF Download, Backup, Extract, Restore, CopyFrom, Goto, FromRrLast
<1>2. tree' \in Trees /\ CountInv' /\ RowsInv(chksum, packs, run, tag)'
  BY <1>1, GoesOn DEF FromRrLast
<1>3. PacksInv'
  BY <1>1, WithinRound DEF FirstLoop, FromRrLast, FromBase
<1>4. Rounds' = Rounds /\ base = 0 /\ base' = 0 /\ at' \in Rounds' /\ dir' = dir
  BY <1>1, SameGoal DEF BuildInv, RoundInv, FirstLoop, dir
<1>5. RoundInv'
  <2>1. CASE Download
    BY <1>1, <1>4, <2>1 DEF BuildInv, RoundInv, Download, Goto, FirstLoop, FromRrLast, FromBase, Own, Over, Base, Empty
  <2>2. CASE Backup
    BY <1>1, <1>4, <2>2 DEF BuildInv, RoundInv, Backup, Goto, FirstLoop, FromRrLast, FromBase, Own, Over, Empty
  <2>3. CASE Extract
    BY <1>1, <1>4, <2>3 DEF BuildInv, RoundInv, Extract, Goto, FirstLoop, FromRrLast, FromBase, Own, Over, Empty
  <2>4. CASE Restore
    BY <1>1, <1>4, <2>4 DEF BuildInv, RoundInv, Restore, Goto, FirstLoop, FromRrLast, FromBase, Own, Over, Empty, Base
  <2>5. CASE CopyFrom("vanilla", tree.vanilla, "thirdparty")
    <3>1. /\ phase = "vanilla" /\ phase' = "thirdparty"
          /\ ko' = [m \in Modules |-> IF dir \in DOMAIN tree.vanilla /\ m \in tree.vanilla[dir] THEN "vanilla" ELSE ko[m]]
      BY <2>5 DEF CopyFrom, Goto, Over
    <3>2. ko = Base(dir) /\ dir \in Legacy \union DOMAIN tree.rr
      BY <3>1 DEF BuildInv, RoundInv
    <3>3. ko' = WithVanilla(dir)
      BY <3>1, <3>2 DEF WithVanilla
    <3>4. WithVanilla(dir)' = WithVanilla(dir)
      BY <1>1, <1>4 DEF WithVanilla, Base
    <3> QED
      BY <1>1, <1>4, <3>1, <3>2, <3>3, <3>4 DEF RoundInv, FirstLoop, FromRrLast, FromBase
  <2>6. CASE CopyFrom("thirdparty", tree.thirdparty, "pack")
    BY <1>1, <1>4, <2>6 DEF BuildInv, RoundInv, CopyFrom, Goto, FirstLoop, FromRrLast, FromBase, Over, WithVanilla, Base, Top, Good
  <2> QED
    BY <2>1, <2>2, <2>3, <2>4, <2>5, <2>6
<1> QED
  BY <1>2, <1>3, <1>5 DEF BuildInv

\* Steps within a round of main_part.yml: the pack of before and the choice.
LEMMA PartStep ==
  ASSUME BuildInv, Fetch \/ Choose
  PROVE  BuildInv'
<1>1. /\ phase \in FromBase /\ phase' \in {"choose", "pack"}
      /\ UNCHANGED <<run, tag, base, tree, at, packs, chksum, left, assets>>
  BY DEF Fetch, Choose, Goto, FromBase
<1>2. tree' \in Trees /\ CountInv' /\ RowsInv(chksum, packs, run, tag)'
  BY <1>1, GoesOn DEF FromBase
<1>3. PacksInv'
  BY <1>1, WithinRound DEF FirstLoop, FromBase
<1>4. Rounds' = Rounds /\ base # 0 /\ base' # 0 /\ at' \in Rounds' /\ dir' = dir
  BY <1>1, SameGoal DEF BuildInv, RoundInv, FirstLoop, dir
<1>5. RoundInv'
  <2>1. CASE Fetch
    BY <1>1, <1>4, <2>1 DEF Fetch, Goto, RoundInv, FirstLoop, FromRrLast, FromBase, HasBase, BaseOf
  <2>2. CASE Choose
    <3>1. /\ phase = "choose" /\ phase' = "pack"
          /\ ko' = [m \in Modules |-> IF m \in Choice(dir) THEN "chosen" ELSE ko[m]]
      BY <2>2 DEF Choose, Goto, Over
    <3>2. HasBase(dir) /\ ko = BaseOf(dir)
      BY <3>1 DEF BuildInv, RoundInv
    <3>3. Good(dir, ko')
      BY <1>4, <3>1, <3>2 DEF Good, Choice
    <3>4. Good(dir, ko)'
      BY <1>1, <1>4, <3>3, SameGoal
    <3> QED
      BY <1>1, <1>4, <3>1, <3>4 DEF RoundInv, FirstLoop, FromRrLast, FromBase
  <2> QED
    BY <2>1, <2>2
<1> QED
  BY <1>2, <1>3, <1>5 DEF BuildInv

\* The directory becomes a pack.
LEMMA PackStep ==
  ASSUME BuildInv, Pack
  PROVE  BuildInv'
<1> DEFINE pack == [run |-> run, tag |-> tag, from |-> ko]
<1>1. /\ phase = "pack" /\ phase' \in {"download", "fetch", "copy"}
      /\ Round({n \in Rounds : n > at})
      /\ packs' = [packs EXCEPT ![dir] = pack] /\ chksum' = chksum \o Row(dir, pack)
      /\ UNCHANGED <<run, tag, base, tree, left, assets>>
  BY DEF Pack, Round
<1>2. Good(dir, ko) /\ dir \in Names /\ at \in Rounds
  BY <1>1, GoodIsNamed DEF BuildInv, RoundInv, FirstLoop
<1>3. run \in Nat \ {0} /\ pack.run = run /\ pack.tag = tag /\ pack.from = ko
  BY <1>1, RunsAssumption DEF BuildInv, CountInv, RunsAssumption
<1> HIDE DEF pack
<1>4. RowsInv(chksum', packs', run', tag')
  BY <1>1, <1>2, <1>3, PackRow DEF BuildInv
<1>5. CountInv'
  BY <1>1 DEF BuildInv, CountInv, IsSequence
<1>6. packs'[dir] = pack /\ \A d \in Names : d # dir => packs'[d] = packs[d]
  BY <1>1, <1>2 DEF BuildInv, RowsInv
<1>7. ASSUME NEW n \in Rounds, ~(n > at) PROVE PackDone(n)'
  <2>1. Good(tree.listing[n], packs'[tree.listing[n]].from)
    <3>1. CASE tree.listing[n] = dir
      BY <1>2, <1>3, <1>6, <3>1
    <3>2. CASE tree.listing[n] # dir
      <4>1. n < at
        BY <1>2, <1>7, <3>2, TreesAssumption DEF BuildInv, Rounds, TreesAssumption, dir
      <4>2. PackDone(n)
        BY <1>1, <4>1 DEF BuildInv, PacksInv, FirstLoop
      <4>3. tree.listing[n] \in Names
        BY <4>2, GoodIsNamed DEF PackDone, BuildInv
      <4> QED
        BY <1>6, <3>2, <4>2, <4>3 DEF PackDone
    <3> QED
      BY <3>1, <3>2
  <2> QED
    BY <1>1, <2>1, SameGoal DEF PackDone
<1>8. RoundInv' /\ PacksInv'
  <2> DEFINE rest == {n \in Rounds : n > at}
  <2>1. rest \subseteq Rounds /\ (\A n \in Rounds \ rest : PackDone(n)') /\ Round(rest)
    BY <1>1, <1>7
  <2> HIDE DEF rest
  <2> QED
    BY <1>1, <2>1, NextRound DEF BuildInv
<1> QED
  BY <1>1, <1>4, <1>5, <1>8 DEF BuildInv

\* A pack becomes that of another platform as well, and gets its row.
LEMMA CopyRows ==
  ASSUME BuildInv, phase = "copy", NEW c \in 1 .. Len(Copies),
         NEW made, made = IF packs[Copies[c].old] = NoPack THEN packs
                          ELSE [packs EXCEPT ![Copies[c].new] = packs[Copies[c].old]]
  PROVE  RowsInv(chksum \o Rows(Copies[c], made), made, run, tag)
<1> DEFINE o == Copies[c].old
           n == Copies[c].new
           first == IF Copies[c].both THEN chksum \o Row(o, made[o]) ELSE chksum
<1>1. o \in Names /\ n \in Names
  BY NamesAssumption DEF NamesAssumption
<1>2. run \in Nat \ {0} /\ RowsInv(chksum, packs, run, tag) /\ IsSequence(chksum)
  BY RunsAssumption DEF BuildInv, CountInv, RunsAssumption, RowsInv
<1>3. chksum \o Rows(Copies[c], made) = first \o Row(n, made[n])
  <2>1. CASE Copies[c].both
    <3>1. Rows(Copies[c], made) = Row(o, made[o]) \o Row(n, made[n])
      BY <2>1 DEF Rows
    <3>2. chksum \o (Row(o, made[o]) \o Row(n, made[n])) = (chksum \o Row(o, made[o])) \o Row(n, made[n])
      BY <1>2, RowsOneByOne
    <3> QED
      BY <2>1, <3>1, <3>2
  <2>2. CASE ~Copies[c].both
    <3>1. Rows(Copies[c], made) = <<>> \o Row(n, made[n])
      BY <2>2 DEF Rows
    <3>2. chksum \o (<<>> \o Row(n, made[n])) = chksum \o Row(n, made[n])
      BY <1>2, RowsOneByOne
    <3> QED
      BY <2>2, <3>1, <3>2
  <2> QED
    BY <2>1, <2>2
<1>4. made[o] = packs[o]
  BY <1>1, <1>2 DEF RowsInv
<1>5. RowsInv(first, packs, run, tag)
  BY <1>1, <1>2, <1>4, SameRow
<1> HIDE DEF first
<1>6. CASE packs[o] = NoPack
  BY <1>1, <1>2, <1>3, <1>5, <1>6, SameRow
<1>7. CASE packs[o] # NoPack
  <2>1. made = [packs EXCEPT ![n] = packs[o]] /\ made[n] = packs[o]
    BY <1>1, <1>2, <1>7 DEF RowsInv
  <2>2. packs[o].run = run /\ packs[o].tag = tag
    BY <1>1, <1>2, <1>7 DEF RowsInv
  <2>3. RowsInv(first \o Row(n, packs[o]), [packs EXCEPT ![n] = packs[o]], run, tag)
    BY <1>1, <1>2, <1>5, <2>2, PackRow
  <2> QED
    BY <1>3, <2>1, <2>3
<1> QED
  BY <1>6, <1>7

\* A round of the second loop.
LEMMA CopyStep ==
  ASSUME BuildInv, Copy
  PROVE  BuildInv'
<1> DEFINE c == Copies[at]
           made == IF packs[c.old] = NoPack THEN packs ELSE [packs EXCEPT ![c.new] = packs[c.old]]
<1>1. /\ phase = "copy" /\ phase' = "copy" /\ at <= Len(Copies) /\ at' = at + 1
      /\ packs' = made /\ chksum' = chksum \o Rows(c, packs')
      /\ UNCHANGED <<run, tag, base, tree, left, assets>>
  BY DEF Copy
<1>2. at \in 1 .. Len(Copies) /\ base = 0
  BY <1>1, NamesAssumption DEF BuildInv, PacksInv, NamesAssumption
<1>3. RowsInv(chksum', packs', run', tag')
  BY <1>1, <1>2, CopyRows
<1>4. CountInv'
  BY <1>1 DEF BuildInv, CountInv, IsSequence
<1>5. RoundInv'
  BY <1>1 DEF RoundInv, FirstLoop, FromRrLast, FromBase
<1>6. ASSUME NEW n \in Rounds
      PROVE  PackDone(n)' \/ \E k \in 1 .. at : Copies[k].new = tree.listing[n]
  <2>1. CASE \E k \in 1 .. at - 1 : Copies[k].new = tree.listing[n]
    BY <1>2, <2>1
  <2>2. CASE c.new = tree.listing[n]
    BY <1>2, <2>2
  <2>3. CASE c.new # tree.listing[n] /\ PackDone(n)
    <3>1. tree.listing[n] \in Names
      BY <2>3, GoodIsNamed DEF PackDone, BuildInv
    <3>2. packs'[tree.listing[n]] = packs[tree.listing[n]]
      BY <1>1, <2>3, <3>1 DEF BuildInv, RowsInv
    <3> QED
      BY <1>1, <2>3, <3>2, SameGoal DEF PackDone
  <2> QED
    BY <1>1, <2>1, <2>2, <2>3 DEF BuildInv, PacksInv
<1>7. PacksInv'
  <2>1. Rounds' = Rounds /\ at' \in Nat \ {0} /\ 1 .. at' - 1 = 1 .. at
    BY <1>1, <1>2, SameGoal
  <2> QED
    BY <1>1, <1>2, <1>6, <2>1 DEF PacksInv, FirstLoop, FromRrLast, FromBase
<1> QED
  BY <1>1, <1>3, <1>4, <1>5, <1>7 DEF BuildInv

\* The release is there, or nothing is released.
LEMMA ReleaseStep ==
  ASSUME BuildInv, Release
  PROVE  BuildInv'
<1>1. CASE Ends /\ UNCHANGED <<left, assets>>
  BY <1>1, EndsStep DEF BuildInv, CountInv, IsSequence
<1>2. CASE /\ tag # 0 /\ phase = "copy" /\ phase' = "upload"
           /\ left' = {n \in Names : packs[n] # NoPack} \union {"files-chksum"}
           /\ assets' = IF tag <= Len(assets) THEN assets
                        ELSE Append(assets, [packs |-> NoPacks, chksum |-> <<>>])
           /\ UNCHANGED <<run, tag, base, tree, at, ko, bak, packs, chksum>>
  <2>0. IsSequence(assets) /\ Len(assets) \in Nat /\ tag \in 1 .. Len(assets) + 1
    BY <1>2 DEF BuildInv, CountInv, IsSequence
  <2>1. IsSequence(assets') /\ tag \in 1 .. Len(assets')
    <3>1. CASE tag <= Len(assets)
      BY <1>2, <2>0, <3>1
    <3>2. CASE ~(tag <= Len(assets))
      BY <1>2, <2>0, <3>2, AppendGrows
    <3> QED
      BY <3>1, <3>2
  <2>2. CountInv'
    <3>1. Len(assets') \in Nat
      BY <2>1 DEF IsSequence
    <3>2. tag' \in 0 .. Len(assets') + 1 /\ tag' \in 1 .. Len(assets')
      BY <1>2, <2>1, <3>1
    <3>3. left' \subseteq Names \union {"files-chksum"}
      BY <1>2
    <3>4. phase' = "upload" /\ run' \in 0 .. MaxRuns /\ run' > 0
      BY <1>2 DEF BuildInv, CountInv
    <3> QED
      BY <2>1, <3>2, <3>3, <3>4 DEF CountInv
  <2>3. RoundInv' /\ PacksInv'
    BY <1>2 DEF RoundInv, PacksInv, FirstLoop, FromRrLast, FromBase
  <2>4. RowsInv(chksum', packs', run', tag')
    BY <1>2 DEF BuildInv
  <2> QED
    BY <1>2, <2>2, <2>3, <2>4 DEF BuildInv
<1> QED
  BY <1>1, <1>2 DEF Release

\* An asset of the release is replaced, the others stay.
LEMMA UploadedOne ==
  ASSUME IsSequence(assets), NEW n \in left, Upload(n)
  PROVE  IsSequence(assets') /\ Len(assets') = Len(assets)
<1>1. CASE n = "files-chksum"
  <2>1. assets' = [assets EXCEPT ![tag] = [assets[tag] EXCEPT !.chksum = chksum]]
    BY <1>1 DEF Upload
  <2> QED
    BY <2>1, ReplaceKeepsLength
<1>2. CASE n # "files-chksum"
  <2>1. assets' = [assets EXCEPT ![tag] = [assets[tag] EXCEPT !.packs = [assets[tag].packs EXCEPT ![n] = packs[n]]]]
    BY <1>2 DEF Upload
  <2> QED
    BY <2>1, ReplaceKeepsLength
<1> QED
  BY <1>1, <1>2

\* The last asset ends the job.
LEMMA UploadStep ==
  ASSUME BuildInv, NEW n \in left, Upload(n)
  PROVE  BuildInv'
<1>1. IsSequence(assets') /\ Len(assets') = Len(assets) /\ Len(assets') \in Nat
  BY UploadedOne DEF BuildInv, CountInv, IsSequence
<1>2. phase = "upload" /\ left' \subseteq left
  BY DEF Upload
<1>3. CASE Ends
  BY <1>1, <1>2, <1>3, EndsStep DEF BuildInv, CountInv
<1>4. CASE UNCHANGED <<run, tag, base, tree, phase, at, ko, bak, packs, chksum>>
  <2>1. CountInv'
    BY <1>1, <1>2, <1>4 DEF BuildInv, CountInv
  <2>2. RoundInv' /\ PacksInv'
    BY <1>2, <1>4 DEF RoundInv, PacksInv, FirstLoop, FromRrLast, FromBase
  <2>3. RowsInv(chksum', packs', run', tag')
    BY <1>4 DEF BuildInv
  <2> QED
    BY <1>4, <2>1, <2>2, <2>3 DEF BuildInv
<1> QED
  BY <1>3, <1>4 DEF Upload

\* Nothing happens.
LEMMA IdleStep ==
  ASSUME BuildInv, UNCHANGED vars
  PROVE  BuildInv'
<1>1. UNCHANGED <<run, tag, base, tree, phase, at, ko, bak, packs, chksum, left, assets>>
  BY DEF vars, builder
<1>2. CountInv'
  BY <1>1 DEF BuildInv, CountInv, IsSequence
<1>3. RowsInv(chksum', packs', run', tag')
  BY <1>1 DEF BuildInv
<1>4. Rounds' = Rounds /\ dir' = dir /\ (\A d, files : Good(d, files)' <=> Good(d, files))
  BY <1>1, SameGoal DEF dir
<1>5. PacksInv'
  <2>1. \A n : PackDone(n)' <=> PackDone(n)
    BY <1>1, <1>4 DEF PackDone
  <2> QED
    BY <1>1, <1>4, <2>1 DEF BuildInv, PacksInv
<1>6. RoundInv'
  <2>1. /\ Base(dir)' = Base(dir) /\ WithVanilla(dir)' = WithVanilla(dir)
        /\ HasBase(dir)' = HasBase(dir) /\ BaseOf(dir)' = BaseOf(dir)
        /\ Own(dir)' = Own(dir)
    BY <1>1, <1>4 DEF Base, WithVanilla, HasBase, BaseOf, Own
  <2> QED
    BY <1>1, <1>4, <2>1 DEF BuildInv, RoundInv
<1> QED
  BY <1>1, <1>2, <1>3, <1>5, <1>6 DEF BuildInv

\* Before the first job.
LEMMA InitBuildInv == Init => BuildInv
<1> SUFFICES ASSUME Init PROVE BuildInv
  OBVIOUS
<1>1. /\ tree \in Trees /\ run = 0 /\ tag = 0 /\ phase = "over" /\ packs = NoPacks /\ chksum = <<>>
      /\ left = {} /\ assets = <<>>
  BY DEF Init
<1>2. CountInv
  BY <1>1, RunsAssumption DEF CountInv, IsSequence, RunsAssumption
<1>3. RowsInv(chksum, packs, run, tag)
  BY <1>1, NothingWritten
<1>4. RoundInv /\ PacksInv
  BY <1>1 DEF RoundInv, PacksInv, FirstLoop, FromRrLast, FromBase
<1> QED
  BY <1>1, <1>2, <1>3, <1>4 DEF BuildInv

\* Every step keeps it.
LEMMA NextBuildInv == BuildInv /\ [Build]_vars => BuildInv'
<1> SUFFICES ASSUME BuildInv, [Build]_vars PROVE BuildInv'
  OBVIOUS
<1>1. CASE NoPackThere \/ NoBaseThere
  BY <1>1, EndsStep DEF NoPackThere, NoBaseThere, BuildInv, CountInv, IsSequence
<1>2. CASE UNCHANGED vars
  BY <1>2, IdleStep
<1>3. CASE \E n \in left : Upload(n)
  BY <1>3, UploadStep
<1> QED
  BY <1>1, <1>2, <1>3, StartStep, ListStep, LayerStep, PartStep, PackStep, CopyStep, ReleaseStep
     DEF Build

-----------------------------------------------------------------------------
(* The theorems. *)

\* The inductive invariant of the jobs that build: what a directory holds in each
\* step of a round, and which packs and rows are there (29-104 of main.yml).
THEOREM BuildInvariance == Spec => []BuildInv
<1> QED
  BY InitBuildInv, NextBuildInv, PTL DEF Spec

\* For any directories, copies and jobs: each pack that is uploaded has its own
\* checksum in the last row of its name, and no other name has a row (76-104).
THEOREM UploadedAreListed == Spec => []RowsMatchPacks
<1>1. BuildInv => RowsMatchPacks
  BY DEF BuildInv, RowsInv, RowsMatchPacks
<1> QED
  BY <1>1, BuildInvariance, PTL

\* For any directories and modules: a pack of main.yml has each module from the
\* uppermost layer that has it (37-82).
THEOREM PacksAreLayered == Spec => []PacksLayered
<1>1. BuildInv => PacksLayered
  <2> SUFFICES ASSUME BuildInv, phase = "copy", base = 0, NEW n \in Rounds,
                      ~ \E c \in 1 .. at - 1 : Copies[c].new = tree.listing[n]
               PROVE  /\ tree.listing[n] \in Legacy \union DOMAIN tree.rr
                      /\ packs[tree.listing[n]].from = [m \in Modules |-> Top(tree.listing[n], m)]
    BY DEF PacksLayered
  <2>1. PackDone(n)
    BY DEF BuildInv, PacksInv
  <2> QED
    BY <2>1 DEF PackDone, Good
<1> QED
  BY <1>1, BuildInvariance, PTL

\* For any choice of modules: a pack of main_part.yml is the one of before in all
\* modules but the chosen ones (39-69 there).
THEOREM OthersStay == Spec => []OnlyChosenChange
<1>1. BuildInv => OnlyChosenChange
  <2> SUFFICES ASSUME BuildInv, phase = "copy", base # 0, NEW n \in Rounds
               PROVE  LET d == tree.listing[n]
                      IN  HasBase(d) /\ \A m \in Modules :
                            packs[d].from[m] = IF m \in Chosen /\ m \in tree.own[d] THEN "chosen" ELSE BaseOf(d)[m]
    BY DEF OnlyChosenChange
  <2>1. PackDone(n)
    BY DEF BuildInv, PacksInv
  <2> QED
    BY <2>1 DEF PackDone, Good
<1> QED
  BY <1>1, BuildInvariance, PTL
=============================================================================
