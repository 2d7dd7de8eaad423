--------------------------- MODULE RefreshProofs ---------------------------
(***************************************************************************)
(* For any number of refresh jobs and releases, whatever the checkouts and *)
(* packs: a push puts away exactly what it replaces, and only a job asked  *)
(* for a tag puts a manifest back to an older release.                     *)
(***************************************************************************)
EXTENDS Refresh, ReleaseProofs

Phases == {"idle", "tag", "sums", "rewrite", "push", "done", "failed"}
Fields == {"phase", "base", "files", "old", "tag", "sums"}

\* The tags of manifests are those of releases there are; len of them.
TagsExist(manifests, len) ==
  /\ DOMAIN manifests = Listed
  /\ \A n \in Listed : manifests[n].tag \in 0 .. len

Reading == {"tag", "sums", "rewrite"}

\* A job's clone is of a commit there was; while it is the last one of branch b,
\* its manifests are those of the branch.
CloneInv(r, b, len) ==
  /\ r.base \in 0 .. b.commits
  /\ TagsExist(r.files, len)
  /\ r.phase \in Reading /\ r.base = b.commits => r.files = b.manifests
  /\ r.phase = "push" /\ r.base = b.commits => r.old = b.manifests

\* The tag looked up after the checkout is not older than any in the clone.
TagInv(r, asked, b, len) ==
  /\ r.phase \in {"sums", "rewrite"} => r.tag \in Nat \ {0}
  /\ r.phase = "rewrite" => r.tag <= len
  /\ asked = 0 /\ r.base = b.commits =>
       /\ r.phase \in {"sums", "rewrite"} => \A n \in Listed : b.manifests[n].tag <= r.tag
       /\ r.phase = "push" => \A n \in Listed : b.manifests[n].tag <= r.files[n].tag

JobInv(r, asked, b, len) ==
  /\ DOMAIN r = Fields /\ r.phase \in Phases
  /\ CloneInv(r, b, len) /\ TagInv(r, asked, b, len)

RInv ==
  /\ IsSequence(assets)
  /\ branch.commits \in Nat
  /\ TagsExist(branch.manifests, Len(assets))
  /\ DOMAIN job = Jobs /\ job = [j \in Jobs |-> job[j]]
  /\ \A j \in Jobs : JobInv(job[j], Asked[j], branch, Len(assets))

-----------------------------------------------------------------------------
(* Releases are only ever added. *)

\* Whatever a build does, no release goes away.
LEMMA BuildKeepsReleases ==
  ASSUME IsSequence(assets), Build
  PROVE  IsSequence(assets') /\ Len(assets) \in Nat /\ Len(assets') \in Nat /\ Len(assets) <= Len(assets')
<1>0. Len(assets) \in Nat
  BY DEF IsSequence
<1>1. CASE UNCHANGED assets
  BY <1>0, <1>1
<1>2. CASE Release
  <2>1. PICK e : assets' = assets \/ assets' = Append(assets, e)
    BY <1>2 DEF Release
  <2>2. CASE assets' = Append(assets, e)
    BY <1>0, <2>2, AppendGrows
  <2> QED
    BY <1>1, <2>1, <2>2
<1>3. CASE \E n \in left : Upload(n)
  BY <1>0, <1>3, UploadedOne
<1> QED
  BY <1>1, <1>2, <1>3
     DEF Build, Start, List, Download, Backup, Extract, NoPackThere, Restore, CopyFrom,
         Fetch, NoBaseThere, Choose, Pack, Copy, Goto

-----------------------------------------------------------------------------
(* One step of one job. *)

\* The fields of a job that is gone on to another phase.
LEMMA ChangedPhase ==
  ASSUME NEW r, DOMAIN r = Fields, NEW p
  PROVE  LET q == [r EXCEPT !.phase = p]
         IN  /\ DOMAIN q = Fields
             /\ q.phase = p /\ q.base = r.base /\ q.files = r.files
             /\ q.old = r.old /\ q.tag = r.tag /\ q.sums = r.sums
  BY DEF Fields

\* The same when one or two other fields have been set before.
LEMMA ChangedFields ==
  ASSUME NEW r, DOMAIN r = Fields, NEW x, NEW y
  PROVE  /\ LET q == [r EXCEPT !.tag = x]
            IN  DOMAIN q = Fields /\ q.base = r.base /\ q.files = r.files /\ q.tag = x
         /\ LET q == [r EXCEPT !.sums = x]
            IN  DOMAIN q = Fields /\ q.base = r.base /\ q.files = r.files /\ q.tag = r.tag
         /\ LET q == [r EXCEPT !.base = x, !.files = y]
            IN  DOMAIN q = Fields /\ q.base = x /\ q.files = y
         /\ LET q == [r EXCEPT !.old = x, !.files = y]
            IN  DOMAIN q = Fields /\ q.base = r.base /\ q.files = y /\ q.old = x
  BY DEF Fields

\* A runner that is gone leaves nothing that could be pushed.
LEMMA EndedJob ==
  ASSUME NEW b, b.commits \in Nat, NEW len \in Nat, NEW p \in {"done", "failed"}, NEW asked
  PROVE  JobInv([NewJob EXCEPT !.phase = p], asked, b, len)
<1> DEFINE r == [NewJob EXCEPT !.phase = p]
<1>1. DOMAIN NewJob = Fields /\ NewJob.base = 0 /\ NewJob.files = NoManifests
  BY DEF NewJob, Fields
<1>2. DOMAIN r = Fields /\ r.phase = p /\ r.base = 0 /\ r.files = NoManifests
  BY <1>1, ChangedPhase
<1>3. TagsExist(NoManifests, len)
  BY DEF TagsExist, NoManifests
<1> HIDE DEF r
<1>4. JobInv(r, asked, b, len)
  BY <1>2, <1>3 DEF JobInv, CloneInv, TagInv, Reading, Phases
<1> QED
  BY <1>4 DEF r

\* While the branch and the releases stay as they are, only the job that moves
\* has to be looked at.
LEMMA OneJobMoves ==
  ASSUME RInv, UNCHANGED <<assets, branch>>, NEW j \in Jobs, NEW r,
         job' = [job EXCEPT ![j] = r],
         JobInv(r, Asked[j], branch, Len(assets))
  PROVE  RInv'
<1>1. /\ DOMAIN job' = Jobs
      /\ job' = [k \in Jobs |-> job'[k]]
      /\ job'[j] = r /\ \A k \in Jobs : k # j => job'[k] = job[k]
  BY DEF RInv
<1>2. \A k \in Jobs : JobInv(job'[k], Asked[k], branch, Len(assets))
  BY <1>1 DEF RInv
<1> QED
  BY <1>1, <1>2 DEF RInv, IsSequence

\* A job ends.
LEMMA EndedStep ==
  ASSUME RInv, UNCHANGED <<assets, branch>>, NEW j \in Jobs,
         Ended(j, "done") \/ Ended(j, "failed")
  PROVE  RInv'
<1>1. PICK p \in {"done", "failed"} : job' = [job EXCEPT ![j] = [NewJob EXCEPT !.phase = p]]
  BY DEF Ended, To
<1>2. branch.commits \in Nat /\ Len(assets) \in Nat
  BY DEF RInv, IsSequence
<1> QED
  BY <1>1, <1>2, EndedJob, OneJobMoves

\* What is known of a job and of the branch.
LEMMA JobFacts ==
  ASSUME RInv, NEW j \in Jobs
  PROVE  /\ JobInv(job[j], Asked[j], branch, Len(assets))
         /\ DOMAIN job[j] = Fields
         /\ branch.commits \in Nat /\ Len(assets) \in Nat
         /\ TagsExist(branch.manifests, Len(assets))
  BY DEF RInv, JobInv, IsSequence

-----------------------------------------------------------------------------
(* The steps. *)

\* A fresh clone is the branch.
LEMMA CheckoutStep ==
  ASSUME RInv, UNCHANGED assets, NEW j \in Jobs, Checkout(j)
  PROVE  RInv'
<1> DEFINE c == [job[j] EXCEPT !.base = branch.commits, !.files = branch.manifests]
           r == [c EXCEPT !.phase = "tag"]
<1>1. job' = [job EXCEPT ![j] = r] /\ UNCHANGED branch
  BY DEF Checkout, To
<1>2. DOMAIN c = Fields /\ c.base = branch.commits /\ c.files = branch.manifests
  BY JobFacts, ChangedFields
<1>3. DOMAIN r = Fields /\ r.phase = "tag" /\ r.base = branch.commits /\ r.files = branch.manifests
  BY <1>2, ChangedPhase
<1> HIDE DEF c, r
<1>4. JobInv(r, Asked[j], branch, Len(assets))
  BY <1>3, JobFacts DEF JobInv, CloneInv, TagInv, Phases
<1> QED
  BY <1>1, <1>4, OneJobMoves

\* The latest release is not older than any the clone names.
LEMMA ChooseTagStep ==
  ASSUME RInv, UNCHANGED assets, NEW j \in Jobs, ChooseTag(j)
  PROVE  RInv'
<1> DEFINE t == IF Asked[j] # 0 THEN Asked[j] ELSE Latest
           c == [job[j] EXCEPT !.tag = t]
           r == [c EXCEPT !.phase = "sums"]
<1>1. UNCHANGED branch /\ job[j].phase = "tag"
  BY DEF ChooseTag
<1>2. CASE Ended(j, "failed")
  BY <1>1, <1>2, EndedStep
<1>3. CASE t # 0 /\ job' = [job EXCEPT ![j] = r]
  <2>1. DOMAIN c = Fields /\ c.base = job[j].base /\ c.files = job[j].files /\ c.tag = t
    BY JobFacts, ChangedFields
  <2>2. /\ DOMAIN r = Fields /\ r.phase = "sums" /\ r.base = job[j].base
        /\ r.files = job[j].files /\ r.tag = t
    BY <2>1, ChangedPhase
  <2>3. t \in Nat \ {0} /\ (Asked[j] = 0 => t = Len(assets))
    BY <1>3, JobFacts, AskedAssumption DEF AskedAssumption, Latest
  <2> HIDE DEF t, c, r
  <2>4. JobInv(r, Asked[j], branch, Len(assets))
    <3>1. CloneInv(r, branch, Len(assets))
      BY <1>1, <2>2, JobFacts DEF JobInv, CloneInv, Reading
    <3>2. TagInv(r, Asked[j], branch, Len(assets))
      BY <2>2, <2>3, JobFacts DEF TagInv, TagsExist
    <3> QED
      BY <2>2, <3>1, <3>2 DEF JobInv, Phases
  <2> QED
    BY <1>1, <1>3, <2>4, OneJobMoves
<1> QED
  BY <1>2, <1>3 DEF ChooseTag, To

\* Only a tag that has a release is read.
LEMMA ReadSumsStep ==
  ASSUME RInv, UNCHANGED assets, NEW j \in Jobs, ReadSums(j)
  PROVE  RInv'
<1> DEFINE c == [job[j] EXCEPT !.sums = Sums(assets[job[j].tag].chksum)]
           r == [c EXCEPT !.phase = "rewrite"]
<1>1. UNCHANGED branch /\ job[j].phase = "sums"
  BY DEF ReadSums
<1>2. CASE Ended(j, "failed")
  BY <1>1, <1>2, EndedStep
<1>3. CASE job[j].tag <= Len(assets) /\ job' = [job EXCEPT ![j] = r]
  <2>1. DOMAIN c = Fields /\ c.base = job[j].base /\ c.files = job[j].files /\ c.tag = job[j].tag
    BY JobFacts, ChangedFields
  <2>2. /\ DOMAIN r = Fields /\ r.phase = "rewrite" /\ r.base = job[j].base
        /\ r.files = job[j].files /\ r.tag = job[j].tag
    BY <2>1, ChangedPhase
  <2> HIDE DEF c, r
  <2>3. CloneInv(r, branch, Len(assets))
    BY <1>1, <2>2, JobFacts DEF JobInv, CloneInv, Reading
  <2>4. TagInv(r, Asked[j], branch, Len(assets))
    BY <1>1, <1>3, <2>2, JobFacts DEF JobInv, TagInv
  <2> QED
    BY <1>1, <1>3, <2>2, <2>3, <2>4, OneJobMoves DEF JobInv, Phases
<1> QED
  BY <1>2, <1>3 DEF ReadSums, To

\* What the clone gets is of the tag of the job, or stays.
LEMMA RewriteStep ==
  ASSUME RInv, UNCHANGED assets, NEW j \in Jobs, Rewrite(j)
  PROVE  RInv'
<1> DEFINE new == [n \in Listed |->
                     IF n \in DOMAIN job[j].sums
                     THEN [tag |-> job[j].tag, sum |-> job[j].sums[n]] ELSE job[j].files[n]]
           c == [job[j] EXCEPT !.old = job[j].files, !.files = new]
           r == [c EXCEPT !.phase = "push"]
<1>1. UNCHANGED branch /\ job[j].phase = "rewrite"
  BY DEF Rewrite
<1>2. CASE Ended(j, "done")
  BY <1>1, <1>2, EndedStep
<1>3. CASE job' = [job EXCEPT ![j] = r]
  <2>1. DOMAIN c = Fields /\ c.base = job[j].base /\ c.files = new /\ c.old = job[j].files
    BY JobFacts, ChangedFields
  <2>2. /\ DOMAIN r = Fields /\ r.phase = "push" /\ r.base = job[j].base
        /\ r.files = new /\ r.old = job[j].files
    BY <2>1, ChangedPhase
  <2>3. DOMAIN new = Listed /\ \A n \in Listed : new[n].tag = job[j].tag \/ new[n] = job[j].files[n]
    OBVIOUS
  <2> HIDE DEF new, c, r
  <2>4. CloneInv(job[j], branch, Len(assets)) /\ TagInv(job[j], Asked[j], branch, Len(assets))
    BY JobFacts DEF JobInv
  <2>5. TagsExist(new, Len(assets))
    BY <1>1, <2>3, <2>4, JobFacts DEF CloneInv, TagInv, TagsExist
  <2>6. CloneInv(r, branch, Len(assets))
    BY <1>1, <2>2, <2>4, <2>5 DEF CloneInv, Reading
  <2>7. TagInv(r, Asked[j], branch, Len(assets))
    <3> SUFFICES ASSUME Asked[j] = 0, job[j].base = branch.commits, NEW n \in Listed
                 PROVE  branch.manifests[n].tag <= new[n].tag
      BY <2>2 DEF TagInv
    <3>1. job[j].files = branch.manifests /\ branch.manifests[n].tag <= job[j].tag
      BY <1>1, <2>4 DEF CloneInv, TagInv, Reading
    <3>2. branch.manifests[n].tag \in Nat
      BY JobFacts DEF TagsExist
    <3> QED
      BY <2>3, <3>1, <3>2
  <2> QED
    BY <1>1, <1>3, <2>2, <2>6, <2>7, OneJobMoves DEF JobInv, Phases
<1> QED
  BY <1>2, <1>3 DEF Rewrite, To, BackupOf

\* A push makes all other clones old.
LEMMA PushStep ==
  ASSUME RInv, UNCHANGED assets, NEW j \in Jobs, Push(j)
  PROVE  RInv'
<1>1. CASE UNCHANGED branch /\ Ended(j, "failed")
  BY <1>1, EndedStep
<1>2. CASE /\ Ended(j, "done")
           /\ branch' = [commits |-> branch.commits + 1, manifests |-> job[j].files,
                         backup |-> job[j].old]
  <2> DEFINE r == [NewJob EXCEPT !.phase = "done"]
             len == Len(assets)
  <2>1. /\ branch'.commits = branch.commits + 1 /\ branch.commits \in Nat
        /\ branch'.manifests = job[j].files
    BY <1>2, JobFacts
  <2>2. job' = [job EXCEPT ![j] = r]
    BY <1>2 DEF Ended, To
  <2>3. /\ DOMAIN job' = Jobs
        /\ job' = [k \in Jobs |-> job'[k]]
        /\ job'[j] = r /\ \A k \in Jobs : k # j => job'[k] = job[k]
    BY <2>2 DEF RInv
  <2>4. JobInv(r, Asked[j], branch', len)
    BY <2>1, EndedJob, JobFacts
  <2>5. ASSUME NEW k \in Jobs
        PROVE  JobInv(job[k], Asked[k], branch', len)
    <3>1. job[k].base \in 0 .. branch.commits /\ JobInv(job[k], Asked[k], branch, len)
      BY JobFacts DEF JobInv, CloneInv
    <3>2. job[k].base \in 0 .. branch'.commits /\ job[k].base # branch'.commits
      BY <2>1, <3>1
    <3> QED
      BY <3>1, <3>2 DEF JobInv, CloneInv, TagInv
  <2>6. TagsExist(branch'.manifests, len)
    BY <2>1, JobFacts DEF JobInv, CloneInv
  <2> HIDE DEF r
  <2>7. \A k \in Jobs : JobInv(job'[k], Asked[k], branch', len)
    BY <2>3, <2>4, <2>5
  <2> QED
    BY <2>1, <2>3, <2>6, <2>7 DEF RInv, IsSequence
<1> QED
  BY <1>1, <1>2 DEF Push

\* More releases leave every tag a tag of a release.
LEMMA BuildStep ==
  ASSUME RInv, Build, UNCHANGED <<branch, job>>
  PROVE  RInv'
<1>1. /\ IsSequence(assets') /\ Len(assets) <= Len(assets')
      /\ Len(assets) \in Nat /\ Len(assets') \in Nat
  BY BuildKeepsReleases DEF RInv
<1>2. ASSUME NEW m, TagsExist(m, Len(assets)) PROVE TagsExist(m, Len(assets'))
  BY <1>1, <1>2 DEF TagsExist
<1>3. ASSUME NEW j \in Jobs PROVE JobInv(job[j], Asked[j], branch, Len(assets'))
  <2>1. JobInv(job[j], Asked[j], branch, Len(assets))
    BY JobFacts
  <2> QED
    BY <1>1, <1>2, <2>1 DEF JobInv, CloneInv, TagInv
<1> QED
  BY <1>1, <1>2, <1>3 DEF RInv, IsSequence

\* Nothing happens.
LEMMA StutterStep ==
  ASSUME RInv, UNCHANGED all
  PROVE  RInv'
  BY DEF all, vars, RInv, IsSequence

\* Before the first job.
LEMMA InitRInv == RefreshInit => RInv
<1> SUFFICES ASSUME RefreshInit PROVE RInv
  OBVIOUS
<1>1. assets = <<>> /\ job = [j \in Jobs |-> NewJob] /\ branch.commits = 0
      /\ branch.manifests = NoManifests
  BY DEF RefreshInit, Init
<1>2. IsSequence(assets) /\ Len(assets) = 0
  BY <1>1 DEF IsSequence
<1>3. TagsExist(NoManifests, 0)
  BY DEF TagsExist, NoManifests
<1>4. DOMAIN NewJob = Fields /\ NewJob.base = 0 /\ NewJob.files = NoManifests /\ NewJob.phase = "idle"
  BY DEF NewJob, Fields
<1>5. ASSUME NEW j \in Jobs PROVE JobInv(NewJob, Asked[j], branch, 0)
  BY <1>1, <1>3, <1>4 DEF JobInv, CloneInv, TagInv, Reading, Phases
<1> QED
  BY <1>1, <1>2, <1>3, <1>5 DEF RInv

\* Every step keeps it.
LEMMA NextRInv == RInv /\ [RefreshNext]_all => RInv'
<1> SUFFICES ASSUME RInv, [RefreshNext]_all PROVE RInv'
  OBVIOUS
<1>1. CASE Build /\ UNCHANGED <<branch, job>>
  BY <1>1, BuildStep
<1>2. CASE UNCHANGED all
  BY <1>2, StutterStep
<1>3. ASSUME UNCHANGED vars, NEW j \in Jobs, Checkout(j) \/ Steps(j)
      PROVE  RInv'
  <2>1. UNCHANGED assets
    BY <1>3 DEF vars
  <2> QED
    BY <1>3, <2>1, CheckoutStep, ChooseTagStep, ReadSumsStep, RewriteStep, PushStep DEF Steps
<1> QED
  BY <1>1, <1>2, <1>3 DEF RefreshNext

-----------------------------------------------------------------------------
(* The theorems. *)

\* The inductive invariant of the jobs: clones are of commits there were, and one
\* of the last commit holds what the branch holds, or newer tags (23-233).
THEOREM JobsInvariance == RefreshSpec => []RInv
<1> QED
  BY InitRInv, NextRInv, PTL DEF RefreshSpec

\* What a step does to the branch: a push of an up-to-date clone, or nothing.
LEMMA BranchStep ==
  ASSUME RInv, [RefreshNext]_all, branch' # branch
  PROVE  \E j \in Jobs :
           /\ job[j].phase = "push" /\ job'[j].phase = "done"
           /\ job[j].base = branch.commits
           /\ branch' = [commits |-> branch.commits + 1, manifests |-> job[j].files,
                         backup |-> job[j].old]
<1>1. PICK j \in Jobs : Push(j)
  BY DEF RefreshNext, all, Steps, Checkout, ChooseTag, ReadSums, Rewrite
<1>2. /\ job[j].phase = "push" /\ job[j].base = branch.commits /\ Ended(j, "done")
      /\ branch' = [commits |-> branch.commits + 1, manifests |-> job[j].files,
                    backup |-> job[j].old]
  BY <1>1 DEF Push, Accepts
<1>3. job' = [job EXCEPT ![j] = [NewJob EXCEPT !.phase = "done"]] /\ DOMAIN job = Jobs
  BY <1>2 DEF Ended, To, RInv
<1>4. job'[j].phase = "done"
  BY <1>3 DEF NewJob
<1> QED
  BY <1>2, <1>4

\* For any jobs and releases: what a push replaces is what it put away, as if no
\* other job had pushed since its checkout (117-136, 212-233).
THEOREM BackupIsOfReplaced == RefreshSpec => BackupHoldsReplaced
<1>1. RInv /\ [RefreshNext]_all => [branch' # branch => branch'.backup = branch.manifests]_branch
  <2> SUFFICES ASSUME RInv, [RefreshNext]_all, branch' # branch
               PROVE  branch'.backup = branch.manifests
    OBVIOUS
  <2>1. PICK j \in Jobs :
          /\ job[j].phase = "push" /\ job[j].base = branch.commits
          /\ branch'.backup = job[j].old
    BY BranchStep
  <2> QED
    BY <2>1, JobFacts DEF JobInv, CloneInv
<1> QED
  BY <1>1, JobsInvariance, PTL DEF RefreshSpec, BackupHoldsReplaced

\* For any jobs and releases: a manifest goes back to an older release only by a
\* job that was asked for a tag (34-47, 233).
THEOREM ManifestsNeverOlder == RefreshSpec => NeverOlder
<1> DEFINE ByAsked == \E j \in Jobs : Asked[j] # 0 /\ job[j].phase = "push" /\ job'[j].phase = "done"
<1>1. RInv /\ [RefreshNext]_all =>
        [\A n \in Listed : branch'.manifests[n].tag < branch.manifests[n].tag => ByAsked]_all
  <2> SUFFICES ASSUME RInv, [RefreshNext]_all, NEW n \in Listed,
                      branch'.manifests[n].tag < branch.manifests[n].tag
               PROVE  ByAsked
    OBVIOUS
  <2>1. branch.manifests[n].tag \in Nat
    BY DEF RInv, TagsExist
  <2>2. branch' # branch
    BY <2>1
  <2>3. PICK j \in Jobs :
          /\ job[j].phase = "push" /\ job'[j].phase = "done"
          /\ job[j].base = branch.commits
          /\ branch'.manifests = job[j].files
    BY <2>2, BranchStep
  <2>4. CASE Asked[j] = 0
    <3>1. branch.manifests[n].tag <= job[j].files[n].tag /\ job[j].files[n].tag \in Nat
      BY <2>3, <2>4, JobFacts DEF JobInv, TagInv, CloneInv, TagsExist
    <3> QED
      BY <2>1, <2>3, <3>1
  <2> QED
    BY <2>3, <2>4
<1> QED
  BY <1>1, JobsInvariance, PTL DEF RefreshSpec, NeverOlder
=============================================================================
