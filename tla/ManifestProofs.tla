--------------------------- MODULE ManifestProofs ---------------------------
(***************************************************************************)
(* For any number of build and refresh jobs on any tags, one after the     *)
(* other or at once: a manifest names a release and the checksum of a pack *)
(* made for that release, never a mix of two.                              *)
(***************************************************************************)
EXTENDS RefreshProofs

\* Jobs that refresh manifests leave the builder and the releases alone.
LEMMA BuildsUndisturbed == RefreshSpec => Spec
<1>1. RefreshInit => Init
  BY DEF RefreshInit
<1>2. [RefreshNext]_all => [Build]_vars
  BY DEF RefreshNext, all
<1> QED
  BY <1>1, <1>2, PTL DEF RefreshSpec, Spec

-----------------------------------------------------------------------------
(* The inductive invariant. *)

Named(rows) == {rows[i].name : i \in DOMAIN rows}

\* Checksum s is of a pack that was made for n and release t.  If the job that
\* made it made the pack there as well, both are one; while it still uploads,
\* it is the pack that is or will be there.
Sound(s, n, t) ==
  /\ n \in Names /\ t \in 1 .. Len(assets)
  /\ s.tag = t /\ s.run \in 1 .. run
  /\ s.run = run => phase \in {"upload", "over"}
  /\ s.run = run /\ phase = "upload" => s = packs[n]
  /\ assets[t].packs[n].run = s.run => assets[t].packs[n] = s

\* A pack in a release is not of a job that has yet to upload.
Uploaded(p, n) ==
  p # NoPack =>
    /\ p.run \in 1 .. run
    /\ p.run = run => phase \in {"upload", "over"}
    /\ p.run = run /\ phase = "upload" => p = packs[n]

ReleasesInv ==
  \A t \in 1 .. Len(assets) :
    /\ DOMAIN assets[t] = {"packs", "chksum"} /\ DOMAIN assets[t].packs = Names
    /\ \A n \in Names : Uploaded(assets[t].packs[n], n)
    /\ \A n \in Named(assets[t].chksum) : Sound(LastSum(assets[t].chksum, n), n, t)

SoundManifests(manifests) ==
  \A n \in Listed : manifests[n].tag # 0 => Sound(manifests[n].sum, n, manifests[n].tag)

SoundJob(r) ==
  /\ SoundManifests(r.files)
  /\ r.phase = "rewrite" => \A n \in DOMAIN r.sums : Sound(r.sums[n], n, r.tag)

ManifestInv ==
  /\ ReleasesInv
  /\ SoundManifests(branch.manifests)
  /\ \A j \in Jobs : SoundJob(job[j])

-----------------------------------------------------------------------------
(* What a step of the builder does to a checksum that somebody holds. *)

\* The kinds of steps: a job that has begun does not upload, another one is
\* begun, there is a release to upload to, or an asset is uploaded.
LEMMA BuildKinds ==
  ASSUME [Build]_vars
  PROVE  \/ UNCHANGED <<run, phase, packs, assets>>
         \/ /\ UNCHANGED <<run, assets>>
            /\ \/ phase' = "over"
               \/ phase \notin {"upload", "over"} /\ phase' \notin {"upload", "over"}
         \/ Start
         \/ Release /\ phase = "copy" /\ phase' = "upload"
         \/ \E n \in left : Upload(n)
<1>1. Build \/ UNCHANGED vars
  OBVIOUS
<1>2. CASE UNCHANGED vars
  BY <1>2 DEF vars, builder
<1>3. CASE NoPackThere \/ NoBaseThere
  BY <1>3 DEF NoPackThere, NoBaseThere, Ends
<1>4. CASE Release
  BY <1>4 DEF Release, Ends
<1>5. CASE List \/ Download \/ Backup \/ Extract \/ Restore \/ Fetch \/ Choose \/ Pack \/ Copy
  BY <1>5 DEF List, Download, Backup, Extract, Restore, Fetch, Choose, Pack, Copy, Goto, Round
<1>6. CASE \/ CopyFrom("vanilla", tree.vanilla, "thirdparty")
           \/ CopyFrom("thirdparty", tree.thirdparty, "pack")
  BY <1>6 DEF CopyFrom, Goto
<1> QED
  BY <1>1, <1>2, <1>3, <1>4, <1>5, <1>6 DEF Build

\* What is uploaded is the asset, and nothing else.
LEMMA UploadFacts ==
  ASSUME BuildInv, ReleasesInv, NEW n \in left, Upload(n)
  PROVE  /\ phase = "upload" /\ phase' \in {"upload", "over"} /\ run' = run
         /\ phase' = "upload" => packs' = packs
         /\ tag \in 1 .. Len(assets) /\ Len(assets') = Len(assets)
         /\ \A t \in 1 .. Len(assets) : t # tag => assets'[t] = assets[t]
         /\ DOMAIN assets'[tag] = {"packs", "chksum"} /\ DOMAIN assets'[tag].packs = Names
         /\ \/ assets'[tag].chksum = chksum /\ assets'[tag].packs = assets[tag].packs
            \/ /\ assets'[tag].chksum = assets[tag].chksum
               /\ n \in Names /\ assets'[tag].packs[n] = packs[n]
               /\ \A m \in Names : m # n => assets'[tag].packs[m] = assets[tag].packs[m]
<1>1. /\ phase = "upload" /\ phase' \in {"upload", "over"} /\ run' = run
      /\ phase' = "upload" => packs' = packs
  BY DEF Upload, Ends
<1>2. IsSequence(assets) /\ tag \in 1 .. Len(assets) /\ n \in Names \union {"files-chksum"}
  BY <1>1 DEF BuildInv, CountInv
<1>3. DOMAIN assets = 1 .. Len(assets) /\ Len(assets') = Len(assets)
  BY <1>2, UploadedOne, LenProperties DEF IsSequence
<1>4. DOMAIN assets[tag] = {"packs", "chksum"} /\ DOMAIN assets[tag].packs = Names
  BY <1>2 DEF ReleasesInv
<1>5. CASE n = "files-chksum"
  <2> DEFINE a == [assets[tag] EXCEPT !.chksum = chksum]
  <2>1. assets' = [assets EXCEPT ![tag] = a]
    BY <1>5 DEF Upload
  <2>2. DOMAIN a = {"packs", "chksum"} /\ a.chksum = chksum /\ a.packs = assets[tag].packs
    BY <1>4
  <2> HIDE DEF a
  <2>3. assets'[tag] = a /\ \A t \in 1 .. Len(assets) : t # tag => assets'[t] = assets[t]
    BY <1>2, <1>3, <2>1
  <2> QED
    BY <1>1, <1>2, <1>3, <1>4, <2>2, <2>3
<1>6. CASE n # "files-chksum"
  <2> DEFINE p == [assets[tag].packs EXCEPT ![n] = packs[n]]
             a == [assets[tag] EXCEPT !.packs = p]
  <2>1. assets' = [assets EXCEPT ![tag] = a]
    BY <1>6 DEF Upload
  <2>2. n \in Names /\ DOMAIN p = Names /\ p[n] = packs[n] /\ \A m \in Names : m # n => p[m] = assets[tag].packs[m]
    BY <1>2, <1>4, <1>6
  <2> HIDE DEF p
  <2>3. DOMAIN a = {"packs", "chksum"} /\ a.chksum = assets[tag].chksum /\ a.packs = p
    BY <1>4
  <2> HIDE DEF a
  <2>4. assets'[tag] = a /\ \A t \in 1 .. Len(assets) : t # tag => assets'[t] = assets[t]
    BY <1>2, <1>3, <2>1
  <2> QED
    BY <1>1, <1>2, <1>3, <2>2, <2>3, <2>4
<1> QED
  BY <1>5, <1>6

\* What a new release is.
LEMMA ReleaseFacts ==
  ASSUME BuildInv, Release, phase' = "upload"
  PROVE  /\ UNCHANGED <<run, packs>> /\ Len(assets) \in Nat
         /\ Len(assets') \in Nat /\ Len(assets) <= Len(assets')
         /\ \A t \in 1 .. Len(assets) : assets'[t] = assets[t]
         /\ \A t \in 1 .. Len(assets') : t > Len(assets) => assets'[t] = [packs |-> NoPacks, chksum |-> <<>>]
<1> DEFINE e == [packs |-> NoPacks, chksum |-> <<>>]
<1>1. /\ UNCHANGED <<run, packs>>
      /\ assets' = assets \/ assets' = Append(assets, e)
  BY DEF Release, Ends
<1>2. IsSequence(assets) /\ Len(assets) \in Nat
  BY DEF BuildInv, CountInv, IsSequence
<1>3. CASE assets' = assets
  BY <1>1, <1>2, <1>3
<1>4. CASE assets' = Append(assets, e)
  <2> DEFINE S == {assets[i] : i \in DOMAIN assets} \union {e}
  <2>1. assets \in Seq(S)
    BY <1>2, SeqMonotonic DEF IsSequence
  <2> HIDE DEF S, e
  <2>2. /\ Len(Append(assets, e)) = Len(assets) + 1
        /\ Append(assets, e)[Len(assets) + 1] = e
        /\ \A t \in 1 .. Len(assets) : Append(assets, e)[t] = assets[t]
    BY <2>1
  <2>3. /\ Len(assets') = Len(assets) + 1 /\ assets'[Len(assets) + 1] = e
        /\ \A t \in 1 .. Len(assets) : assets'[t] = assets[t]
    BY <1>4, <2>2
  <2> QED
    BY <1>1, <1>2, <2>3 DEF e
<1> QED
  BY <1>1, <1>3, <1>4

\* A checksum that was sound stays sound.
LEMMA SoundStays ==
  ASSUME BuildInv, ReleasesInv, [Build]_vars, NEW s, NEW n, NEW t, Sound(s, n, t)
  PROVE  Sound(s, n, t)'
<1>0. n \in Names /\ t \in 1 .. Len(assets) /\ s.run \in 1 .. run /\ run \in Nat /\ Len(assets) \in Nat
  BY RunsAssumption DEF Sound, BuildInv, CountInv, IsSequence, RunsAssumption
<1>1. CASE UNCHANGED <<run, phase, packs, assets>>
  BY <1>1 DEF Sound
<1>2. CASE /\ UNCHANGED <<run, assets>>
           /\ \/ phase' = "over"
              \/ phase \notin {"upload", "over"} /\ phase' \notin {"upload", "over"}
  BY <1>2 DEF Sound
<1>3. CASE Start
  <2>1. UNCHANGED assets /\ run' = run + 1
    BY <1>3 DEF Start
  <2>2. s.run \in 1 .. run' /\ s.run # run'
    BY <1>0, <2>1
  <2> QED
    BY <2>1, <2>2 DEF Sound
<1>4. CASE Release /\ phase = "copy" /\ phase' = "upload"
  <2>1. /\ UNCHANGED <<run, packs>> /\ assets'[t] = assets[t] /\ t \in 1 .. Len(assets')
    BY <1>0, <1>4, ReleaseFacts
  <2>2. s.run # run
    BY <1>4 DEF Sound
  <2> QED
    BY <2>1, <2>2 DEF Sound
<1>5. ASSUME NEW k \in left, Upload(k) PROVE Sound(s, n, t)'
  <2>1. /\ phase = "upload" /\ phase' \in {"upload", "over"} /\ run' = run
        /\ phase' = "upload" => packs' = packs
        /\ Len(assets') = Len(assets)
        /\ t # tag => assets'[t] = assets[t]
        /\ \/ assets'[tag].packs = assets[tag].packs
           \/ assets'[tag].packs[k] = packs[k] /\ \A m \in Names : m # k => assets'[tag].packs[m] = assets[tag].packs[m]
    BY <1>0, <1>5, UploadFacts
  <2>2. assets'[t].packs[n] = assets[t].packs[n] \/ assets'[t].packs[n] = packs[n]
    BY <1>0, <2>1
  <2>3. s.run = run => s = packs[n]
    BY <2>1 DEF Sound
  <2>4. packs[n] = NoPack \/ packs[n].run = run
    BY <1>0 DEF BuildInv, RowsInv
  <2>5. NoPack.run = 0
    BY DEF NoPack
  <2>6. assets'[t].packs[n].run = s.run => assets'[t].packs[n] = s
    BY <1>0, <2>2, <2>3, <2>4, <2>5 DEF Sound
  <2> QED
    BY <2>1, <2>3, <2>6 DEF Sound
<1> QED
  BY <1>1, <1>2, <1>3, <1>4, <1>5, BuildKinds

\* The same for a pack in a release.
LEMMA UploadedStays ==
  ASSUME BuildInv, ReleasesInv, [Build]_vars, NEW p, NEW n \in Names, Uploaded(p, n)
  PROVE  Uploaded(p, n)'
<1>0. run \in Nat
  BY RunsAssumption DEF BuildInv, CountInv, RunsAssumption
<1>1. CASE UNCHANGED <<run, phase, packs, assets>>
  BY <1>1 DEF Uploaded
<1>2. CASE /\ UNCHANGED <<run, assets>>
           /\ \/ phase' = "over"
              \/ phase \notin {"upload", "over"} /\ phase' \notin {"upload", "over"}
  BY <1>2 DEF Uploaded
<1>3. CASE Start
  <2>1. run' = run + 1
    BY <1>3 DEF Start
  <2> QED
    BY <1>0, <2>1 DEF Uploaded
<1>4. CASE Release /\ phase = "copy" /\ phase' = "upload"
  BY <1>4, ReleaseFacts DEF Uploaded
<1>5. ASSUME NEW k \in left, Upload(k) PROVE Uploaded(p, n)'
  BY <1>5, UploadFacts DEF Uploaded
<1> QED
  BY <1>1, <1>2, <1>3, <1>4, <1>5, BuildKinds

\* What one release holds is in order.
ReleaseOK(r, t) ==
  /\ DOMAIN r = {"packs", "chksum"} /\ DOMAIN r.packs = Names
  /\ \A n \in Names : Uploaded(r.packs[n], n)
  /\ \A n \in Named(r.chksum) : Sound(LastSum(r.chksum, n), n, t)

\* A release that is not touched stays in order.
LEMMA ReleaseStays ==
  ASSUME BuildInv, ReleasesInv, [Build]_vars, NEW r, NEW t, ReleaseOK(r, t)
  PROVE  ReleaseOK(r, t)'
<1>1. DOMAIN r = {"packs", "chksum"} /\ DOMAIN r.packs = Names
  BY DEF ReleaseOK
<1>2. ASSUME NEW n \in Names PROVE Uploaded(r.packs[n], n)'
  BY UploadedStays DEF ReleaseOK
<1>3. ASSUME NEW n \in Named(r.chksum) PROVE Sound(LastSum(r.chksum, n), n, t)'
  BY <1>3, SoundStays DEF ReleaseOK
<1> QED
  BY <1>1, <1>2, <1>3 DEF ReleaseOK

\* A release that has just been made is in order.
LEMMA NewReleaseOK ==
  ASSUME NEW t
  PROVE  ReleaseOK([packs |-> NoPacks, chksum |-> <<>>], t)'
  BY DEF ReleaseOK, Named, Uploaded, NoPacks

\* The release that gets an asset stays in order.
LEMMA UploadedReleaseOK ==
  ASSUME BuildInv, ReleasesInv, [Build]_vars, NEW k \in left, Upload(k),
         NEW t, t = tag, NEW r, r = assets'[t]
  PROVE  ReleaseOK(r, t)'
<1>1. /\ phase = "upload" /\ phase' \in {"upload", "over"} /\ run' = run
      /\ phase' = "upload" => packs' = packs
      /\ tag \in 1 .. Len(assets) /\ Len(assets') = Len(assets)
      /\ DOMAIN r = {"packs", "chksum"} /\ DOMAIN r.packs = Names
  BY UploadFacts
<1>2. run \in Nat \ {0} /\ RowsInv(chksum, packs, run, tag) /\ NoPack.run = 0
  BY <1>1, RunsAssumption DEF BuildInv, CountInv, RunsAssumption, NoPack
<1>3. ReleaseOK(assets[t], t)
  BY <1>1 DEF ReleasesInv, ReleaseOK
<1>4. ASSUME NEW n \in Names PROVE Uploaded(r.packs[n], n)'
  <2> DEFINE p == r.packs[n]
  <2>1. p = assets[t].packs[n] \/ p = packs[n]
    BY UploadFacts
  <2>2. CASE p = assets[t].packs[n]
    <3>1. Uploaded(p, n)
      BY <1>3, <2>2 DEF ReleaseOK
    <3> QED
      BY <3>1, UploadedStays
  <2>3. CASE p = packs[n]
    <3>1. p = NoPack \/ p.run = run
      BY <1>2, <2>3 DEF RowsInv
    <3>2. Uploaded(p, n)'
      BY <1>1, <1>2, <2>3, <3>1 DEF Uploaded
    <3> QED
      BY <3>2
  <2> QED
    BY <2>1, <2>2, <2>3
<1>5. ASSUME NEW n \in Named(r.chksum) PROVE Sound(LastSum(r.chksum, n), n, t)'
  <2> DEFINE s == LastSum(r.chksum, n)
  <2>1. CASE r.chksum = assets[t].chksum
    <3>1. Sound(s, n, t)
      BY <1>3, <1>5, <2>1 DEF ReleaseOK
    <3> QED
      BY <3>1, SoundStays
  <2>2. CASE r.chksum = chksum /\ r.packs = assets[t].packs
    <3>1. n \in Names /\ s = packs[n] /\ s # NoPack
      BY <1>2, <1>5, <2>2 DEF Named, RowsInv
    <3>2. s.run = run /\ s.tag = t
      BY <1>2, <3>1 DEF RowsInv
    <3>3. Uploaded(assets[t].packs[n], n)
      BY <1>3, <3>1 DEF ReleaseOK
    <3>4. assets[t].packs[n].run = run => assets[t].packs[n] = s
      BY <1>1, <1>2, <3>1, <3>3 DEF Uploaded
    <3> QED
      BY <1>1, <1>2, <2>2, <3>1, <3>2, <3>4 DEF Sound
  <2> QED
    BY <2>1, <2>2, UploadFacts
<1> QED
  BY <1>1, <1>4, <1>5 DEF ReleaseOK

-----------------------------------------------------------------------------
(* The steps of the whole. *)

\* The builder keeps all releases in order.
LEMMA ReleasesStay ==
  ASSUME BuildInv, ReleasesInv, [Build]_vars
  PROVE  ReleasesInv'
<1>0. Len(assets) \in Nat /\ \A t \in 1 .. Len(assets) : ReleaseOK(assets[t], t)
  <2>1. Len(assets) \in Nat
    BY DEF BuildInv, CountInv, IsSequence
  <2>2. ASSUME NEW t \in 1 .. Len(assets) PROVE ReleaseOK(assets[t], t)
    BY <2>2 DEF ReleasesInv, ReleaseOK
  <2> QED
    BY <2>1, <2>2
<1>1. ASSUME NEW t \in 1 .. Len(assets), NEW r, r = assets[t] PROVE ReleaseOK(r, t)'
  BY <1>0, <1>1, ReleaseStays
<1>2. CASE UNCHANGED assets
  <2>1. ASSUME NEW t, t \in 1 .. Len(assets'), NEW r, r = assets'[t] PROVE ReleaseOK(r, t)'
    BY <1>1, <1>2, <2>1
  <2> QED
    BY <2>1 DEF ReleasesInv, ReleaseOK
<1>3. CASE Release /\ phase = "copy" /\ phase' = "upload"
  <2>1. ASSUME NEW t, t \in 1 .. Len(assets'), NEW r, r = assets'[t] PROVE ReleaseOK(r, t)'
    <3>1. CASE t \in 1 .. Len(assets)
      BY <1>1, <1>3, <2>1, <3>1, ReleaseFacts
    <3>2. CASE t \notin 1 .. Len(assets)
      <4>1. t > Len(assets)
        BY <1>0, <1>3, <2>1, <3>2, ReleaseFacts
      <4>2. r = [packs |-> NoPacks, chksum |-> <<>>]
        BY <1>3, <2>1, <4>1, ReleaseFacts
      <4> QED
        BY <4>2, NewReleaseOK
    <3> QED
      BY <3>1, <3>2
  <2> QED
    BY <2>1 DEF ReleasesInv, ReleaseOK
<1>4. ASSUME NEW k \in left, Upload(k) PROVE ReleasesInv'
  <2>1. ASSUME NEW t, t \in 1 .. Len(assets'), NEW r, r = assets'[t] PROVE ReleaseOK(r, t)'
    <3>1. CASE t = tag
      BY <1>4, <2>1, <3>1, UploadedReleaseOK
    <3>2. CASE t # tag
      BY <1>1, <1>4, <2>1, <3>2, UploadFacts
    <3> QED
      BY <3>1, <3>2
  <2> QED
    BY <2>1 DEF ReleasesInv, ReleaseOK
<1> QED
  BY <1>2, <1>3, <1>4, BuildKinds DEF Start

\* Manifests that were sound stay sound, wherever they are.
LEMMA ManifestsStay ==
  ASSUME BuildInv, ReleasesInv, [Build]_vars, NEW m, SoundManifests(m)
  PROVE  SoundManifests(m)'
<1>1. ASSUME NEW n \in Listed, m[n].tag # 0 PROVE Sound(m[n].sum, n, m[n].tag)'
  BY <1>1, SoundStays DEF SoundManifests
<1> QED
  BY <1>1 DEF SoundManifests

\* The same for all a job holds.
LEMMA JobStays ==
  ASSUME BuildInv, ReleasesInv, [Build]_vars, NEW r, SoundJob(r)
  PROVE  SoundJob(r)'
<1>1. SoundManifests(r.files)'
  BY ManifestsStay DEF SoundJob
<1>2. ASSUME NEW n \in DOMAIN r.sums, r.phase = "rewrite" PROVE Sound(r.sums[n], n, r.tag)'
  BY <1>2, SoundStays DEF SoundJob
<1> QED
  BY <1>1, <1>2 DEF SoundJob

\* A step of the builder.
LEMMA BuilderKeepsSound ==
  ASSUME BuildInv, ManifestInv, [Build]_vars, UNCHANGED <<branch, job>>
  PROVE  ManifestInv'
<1>1. ReleasesInv'
  BY ReleasesStay DEF ManifestInv
<1>2. ASSUME NEW m, m = branch.manifests PROVE SoundManifests(m)'
  BY <1>2, ManifestsStay DEF ManifestInv
<1>3. ASSUME NEW j \in Jobs, NEW r, r = job[j] PROVE SoundJob(r)'
  BY <1>3, JobStays DEF ManifestInv
<1>4. SoundManifests(branch.manifests)'
  BY <1>2
<1>5. \A j \in Jobs : SoundJob(job[j])'
  BY <1>3
<1> QED
  BY <1>1, <1>4, <1>5 DEF ManifestInv

\* A runner that is gone holds nothing.
LEMMA EndedSound ==
  ASSUME NEW j \in Jobs, Ended(j, "done") \/ Ended(j, "failed")
  PROVE  \E r : job' = [job EXCEPT ![j] = r] /\ SoundJob(r)
<1>1. PICK p \in {"done", "failed"} : job' = [job EXCEPT ![j] = [NewJob EXCEPT !.phase = p]]
  BY DEF Ended, To
<1> DEFINE r == [NewJob EXCEPT !.phase = p]
<1>2. DOMAIN NewJob = Fields /\ NewJob.files = NoManifests
  BY DEF NewJob, Fields
<1>3. r.phase = p /\ r.files = NoManifests
  BY <1>2, ChangedPhase
<1> HIDE DEF r
<1>4. SoundJob(r)
  BY <1>3 DEF SoundJob, SoundManifests, NoManifests
<1> QED
  BY <1>1, <1>4 DEF r

\* A step of a job that does not push.
LEMMA JobMoves ==
  ASSUME BuildInv, RInv, ManifestInv, UNCHANGED <<vars, branch>>, NEW j \in Jobs,
         \E r : job' = [job EXCEPT ![j] = r] /\ SoundJob(r)
  PROVE  ManifestInv'
<1>1. PICK r : job' = [job EXCEPT ![j] = r] /\ SoundJob(r)
  OBVIOUS
<1>2. /\ job'[j] = r /\ \A k \in Jobs : k # j => job'[k] = job[k]
  BY <1>1 DEF RInv
<1>3. [Build]_vars /\ ReleasesInv
  BY DEF ManifestInv
<1>4. ReleasesInv'
  BY <1>3, ReleasesStay
<1>5. ASSUME NEW m, m = branch.manifests PROVE SoundManifests(m)'
  BY <1>3, <1>5, ManifestsStay DEF ManifestInv
<1>6. ASSUME NEW k \in Jobs, NEW s, s = job'[k] PROVE SoundJob(s)'
  <2>1. SoundJob(s)
    BY <1>1, <1>2, <1>6 DEF ManifestInv
  <2> QED
    BY <1>3, <2>1, JobStays
<1> QED
  BY <1>4, <1>5, <1>6 DEF ManifestInv

\* What is read of the release of a tag is of that release.
LEMMA ReadSound ==
  ASSUME BuildInv, RInv, ManifestInv, NEW j \in Jobs, ReadSums(j)
  PROVE  \E r : job' = [job EXCEPT ![j] = r] /\ SoundJob(r)
<1> DEFINE t == job[j].tag
           c == [job[j] EXCEPT !.sums = Sums(assets[t].chksum)]
           r == [c EXCEPT !.phase = "rewrite"]
<1>1. job[j].phase = "sums" /\ (Ended(j, "failed") \/ (t <= Len(assets) /\ job' = [job EXCEPT ![j] = r]))
  BY DEF ReadSums, To
<1>2. SoundManifests(job[j].files) /\ DOMAIN job[j] = Fields /\ t \in Nat \ {0} /\ Len(assets) \in Nat
  BY <1>1, JobFacts DEF ManifestInv, SoundJob, JobInv, TagInv
<1>3. CASE Ended(j, "failed")
  BY <1>3, EndedSound
<1>4. CASE t <= Len(assets) /\ job' = [job EXCEPT ![j] = r]
  <2>1. /\ DOMAIN c = Fields /\ c.files = job[j].files /\ c.tag = t
        /\ c.sums = Sums(assets[t].chksum)
    BY <1>2, ChangedFields DEF Fields
  <2>2. /\ r.phase = "rewrite" /\ r.files = job[j].files /\ r.tag = t
        /\ r.sums = Sums(assets[t].chksum)
    BY <2>1, ChangedPhase
  <2> HIDE DEF c, r
  <2>3. ASSUME NEW n \in DOMAIN Sums(assets[t].chksum)
        PROVE  Sound(Sums(assets[t].chksum)[n], n, t)
    <3>1. n \in Named(assets[t].chksum) /\ Sums(assets[t].chksum)[n] = LastSum(assets[t].chksum, n)
      BY <2>3 DEF Sums, Named
    <3>2. t \in 1 .. Len(assets)
      BY <1>2, <1>4
    <3> QED
      BY <3>1, <3>2 DEF ManifestInv, ReleasesInv
  <2>4. SoundJob(r)
    BY <1>2, <2>2, <2>3 DEF SoundJob
  <2> QED
    BY <1>4, <2>4
<1> QED
  BY <1>1, <1>3, <1>4

\* What is written has tag and checksum of one release.
LEMMA RewriteSound ==
  ASSUME RInv, ManifestInv, NEW j \in Jobs, Rewrite(j)
  PROVE  \E r : job' = [job EXCEPT ![j] = r] /\ SoundJob(r)
<1> DEFINE new == [n \in Listed |->
                     IF n \in DOMAIN job[j].sums
                     THEN [tag |-> job[j].tag, sum |-> job[j].sums[n]] ELSE job[j].files[n]]
           c == [job[j] EXCEPT !.old = job[j].files, !.files = new]
           r == [c EXCEPT !.phase = "push"]
<1>1. job[j].phase = "rewrite" /\ (Ended(j, "done") \/ job' = [job EXCEPT ![j] = r])
  BY DEF Rewrite, To, BackupOf
<1>2. SoundJob(job[j]) /\ DOMAIN job[j] = Fields
  BY JobFacts DEF ManifestInv
<1>3. CASE Ended(j, "done")
  BY <1>3, EndedSound
<1>4. CASE job' = [job EXCEPT ![j] = r]
  <2>1. DOMAIN c = Fields /\ c.files = new
    BY <1>2, ChangedFields
  <2>2. r.phase = "push" /\ r.files = new
    BY <2>1, ChangedPhase
  <2>3. \A n \in Listed : \/ n \in DOMAIN job[j].sums /\ new[n].tag = job[j].tag /\ new[n].sum = job[j].sums[n]
                         \/ new[n] = job[j].files[n]
    OBVIOUS
  <2> HIDE DEF new, c, r
  <2>4. SoundManifests(new)
    BY <1>1, <1>2, <2>3 DEF SoundJob, SoundManifests
  <2> QED
    BY <1>4, <2>2, <2>4 DEF SoundJob
<1> QED
  BY <1>1, <1>3, <1>4

\* A clone is sound, since the branch is, and stays so while the tag is chosen.
LEMMA CloneSound ==
  ASSUME RInv, ManifestInv, NEW j \in Jobs, Checkout(j) \/ ChooseTag(j)
  PROVE  \E r : job' = [job EXCEPT ![j] = r] /\ SoundJob(r)
<1>1. DOMAIN job[j] = Fields /\ SoundManifests(job[j].files) /\ SoundManifests(branch.manifests)
  BY JobFacts DEF ManifestInv, SoundJob
<1>2. CASE Checkout(j)
  <2> DEFINE c == [job[j] EXCEPT !.base = branch.commits, !.files = branch.manifests]
             r == [c EXCEPT !.phase = "tag"]
  <2>1. job' = [job EXCEPT ![j] = r]
    BY <1>2 DEF Checkout, To
  <2>2. DOMAIN c = Fields /\ c.files = branch.manifests
    BY <1>1, ChangedFields
  <2>3. r.phase = "tag" /\ r.files = branch.manifests
    BY <2>2, ChangedPhase
  <2> HIDE DEF c, r
  <2> QED
    BY <1>1, <2>1, <2>3 DEF SoundJob
<1>3. CASE ChooseTag(j)
  <2> DEFINE t == IF Asked[j] # 0 THEN Asked[j] ELSE Latest
             c == [job[j] EXCEPT !.tag = t]
             r == [c EXCEPT !.phase = "sums"]
  <2>1. Ended(j, "failed") \/ job' = [job EXCEPT ![j] = r]
    BY <1>3 DEF ChooseTag, To
  <2>2. DOMAIN c = Fields /\ c.files = job[j].files
    BY <1>1, ChangedFields
  <2>3. r.phase = "sums" /\ r.files = job[j].files
    BY <2>2, ChangedPhase
  <2> HIDE DEF c, r
  <2> QED
    BY <1>1, <2>1, <2>3, EndedSound DEF SoundJob
<1> QED
  BY <1>2, <1>3

\* A push makes the clone the branch.
LEMMA PushSound ==
  ASSUME BuildInv, RInv, ManifestInv, UNCHANGED vars, NEW j \in Jobs, Push(j)
  PROVE  ManifestInv'
<1>1. PICK r : job' = [job EXCEPT ![j] = r] /\ SoundJob(r)
  BY EndedSound DEF Push
<1>2. /\ job'[j] = r /\ \A k \in Jobs : k # j => job'[k] = job[k]
  BY <1>1 DEF RInv
<1>3. [Build]_vars /\ ReleasesInv
  BY DEF ManifestInv
<1>4. ReleasesInv'
  BY <1>3, ReleasesStay
<1>5. ASSUME NEW m, m = branch'.manifests PROVE SoundManifests(m)'
  <2>1. m = branch.manifests \/ m = job[j].files
    BY <1>5 DEF Push
  <2>2. SoundManifests(m)
    BY <2>1 DEF ManifestInv, SoundJob
  <2> QED
    BY <1>3, <2>2, ManifestsStay
<1>6. ASSUME NEW k \in Jobs, NEW s, s = job'[k] PROVE SoundJob(s)'
  <2>1. SoundJob(s)
    BY <1>1, <1>2, <1>6 DEF ManifestInv
  <2> QED
    BY <1>3, <2>1, JobStays
<1> QED
  BY <1>4, <1>5, <1>6 DEF ManifestInv

-----------------------------------------------------------------------------
(* The theorems. *)

\* Before the first job.
LEMMA InitManifestInv == RefreshInit => ManifestInv
<1> SUFFICES ASSUME RefreshInit PROVE ManifestInv
  OBVIOUS
<1>1. assets = <<>> /\ branch.manifests = NoManifests /\ job = [j \in Jobs |-> NewJob]
  BY DEF RefreshInit, Init
<1>2. ReleasesInv
  BY <1>1 DEF ReleasesInv
<1>3. SoundManifests(NoManifests) /\ NewJob.files = NoManifests /\ NewJob.phase = "idle"
  BY DEF SoundManifests, NoManifests, NewJob
<1> QED
  BY <1>1, <1>2, <1>3 DEF ManifestInv, SoundJob

\* Every step keeps it.
LEMMA NextManifestInv == BuildInv /\ RInv /\ ManifestInv /\ [RefreshNext]_all => ManifestInv'
<1> SUFFICES ASSUME BuildInv, RInv, ManifestInv, [RefreshNext]_all PROVE ManifestInv'
  OBVIOUS
<1>1. CASE Build /\ UNCHANGED <<branch, job>>
  BY <1>1, BuilderKeepsSound
<1>2. CASE UNCHANGED all
  BY <1>2, BuilderKeepsSound DEF all
<1>3. ASSUME UNCHANGED vars, NEW j \in Jobs, Checkout(j) \/ Steps(j) PROVE ManifestInv'
  <2>1. CASE Push(j)
    BY <1>3, <2>1, PushSound
  <2>2. CASE Checkout(j) \/ ChooseTag(j) \/ ReadSums(j) \/ Rewrite(j)
    <3>1. UNCHANGED branch
      BY <2>2 DEF Checkout, ChooseTag, ReadSums, Rewrite
    <3> QED
      BY <1>3, <2>2, <3>1, CloneSound, ReadSound, RewriteSound, JobMoves
  <2> QED
    BY <1>3, <2>1, <2>2 DEF Steps
<1> QED
  BY <1>1, <1>2, <1>3 DEF RefreshNext

\* The inductive invariant of checksums, from a pack to the manifest that names
\* it (76-112 of main.yml, 34-233 of refresh_json.yml).
THEOREM ManifestInvariance == RefreshSpec => [](BuildInv /\ RInv /\ ManifestInv)
<1> QED
  BY BuildsUndisturbed, BuildInvariance, JobsInvariance, InitManifestInv, NextManifestInv, PTL
     DEF RefreshSpec

\* For any tags and any order of builds and refreshes: url and checksum of a
\* manifest are of one release, and of the very pack there unless another job
\* has replaced it.
THEOREM ManifestsMatchPacks == RefreshSpec => []ManifestMatchesPack
<1>1. ManifestInv => ManifestMatchesPack
  BY DEF ManifestInv, SoundManifests, Sound, ManifestMatchesPack
<1> QED
  BY <1>1, ManifestInvariance, PTL

\* For any number of jobs: the types of the builder and of the refresh jobs.
THEOREM RefreshTypes == RefreshSpec => []TypeOK
<1>1. BuildInv /\ RInv => TypeOK
  BY DEF BuildInv, CountInv, RowsInv, RInv, TagsExist, JobInv, Phases, TypeOK
<1> QED
  BY <1>1, ManifestInvariance, PTL

=============================================================================
