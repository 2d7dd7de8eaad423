------------------------------- MODULE Refresh -------------------------------
(***************************************************************************)
(* .github/workflows/refresh_json.yml beside main.yml (Release): jobs that *)
(* write the checksums of a release into the manifests of the repository.  *)
(* A job works on a clone; only the push at its end meets the branch.  Any *)
(* number of jobs may run, while releases are made and added to.           *)
(***************************************************************************)
EXTENDS Release

CONSTANTS
  Jobs,     \* bound: each is started once at most
  Asked,    \* per job, inputs.release_tag: a tag, or 0 for the latest release
  Listed    \* packs that have a manifest; their names match the job's pattern

ASSUME AskedAssumption == Asked \in [Jobs -> Nat]

VARIABLES
  branch,  \* the branch: its commits, the manifests, and backup_json.zip
  job      \* the jobs

all == <<vars, branch, job>>

NoManifests == [n \in Listed |-> [tag |-> 0, sum |-> NoPack]]
NewJob == [phase |-> "idle", base |-> 0, files |-> NoManifests, old |-> NoManifests,
           tag |-> 0, sums |-> <<>>]

RefreshInit ==
  /\ Init
  /\ branch = [commits |-> 0, manifests |-> NoManifests, backup |-> NoManifests]
  /\ job = [j \in Jobs |-> NewJob]

To(j, phase2, change) == job' = [job EXCEPT ![j] = [change EXCEPT !.phase = phase2]]
\* The runner is gone, with the clone.
Ended(j, phase2) == To(j, phase2, NewJob)

\* A job is dispatched; actions/checkout takes the commit it was started on.
Checkout(j) ==
  /\ job[j].phase = "idle"
  /\ To(j, "tag", [job[j] EXCEPT !.base = branch.commits, !.files = branch.manifests])
  /\ UNCHANGED branch

\* Mutant: the first release of the list.
LatestFirst == 1
\* gh release view: the release made last.
Latest == Len(assets)

\* inputs.release_tag if there is one, else the latest release; none: gh fails.
ChooseTag(j) ==
  /\ job[j].phase = "tag"
  /\ LET t == IF Asked[j] # 0 THEN Asked[j] ELSE Latest
     IN  IF t = 0 THEN Ended(j, "failed") ELSE To(j, "sums", [job[j] EXCEPT !.tag = t])
  /\ UNCHANGED branch

\* Mutant: the first row of a pack counts.
SumsFirst(rows) ==
  [n \in {m \in Listed : \E i \in DOMAIN rows : rows[i].name = m} |->
     rows[Min({i \in DOMAIN rows : rows[i].name = n})].sum]
\* jq '. + {name: hash}' row after row: the last row of a pack counts.
Sums(rows) ==
  [n \in {m \in Listed : \E i \in DOMAIN rows : rows[i].name = m} |-> LastSum(rows, n)]

\* gh release download fails without the release or its files-chksum.
ReadSums(j) ==
  /\ job[j].phase = "sums"
  /\ IF job[j].tag <= Len(assets) /\ assets[job[j].tag].chksum # <<>>
     THEN To(j, "rewrite", [job[j] EXCEPT !.sums = Sums(assets[job[j].tag].chksum)])
     ELSE Ended(j, "failed")
  /\ UNCHANGED branch

\* Mutant: the archive is made after the manifests are rewritten.
BackupOfNew(j, new) == new
\* zip backup_json.zip, before jq rewrites them.
BackupOf(j, new) == job[j].files

\* sha256 and url of the packs that have a row; nothing else.  Without a change
\* there is no commit.
Rewrite(j) ==
  /\ job[j].phase = "rewrite"
  /\ LET new == [n \in Listed |->
                   IF n \in DOMAIN job[j].sums THEN [tag |-> job[j].tag, sum |-> job[j].sums[n]]
                   ELSE job[j].files[n]]
     IN  IF new = job[j].files THEN Ended(j, "done")
         ELSE To(j, "push", [job[j] EXCEPT !.old = BackupOf(j, new), !.files = new])
  /\ UNCHANGED branch

\* Mutant: git push --force.
AcceptsAny(j) == TRUE
\* The branch takes a push only of a commit on top of its own last one.
Accepts(j) == job[j].base = branch.commits

Push(j) ==
  /\ job[j].phase = "push"
  /\ IF Accepts(j)
     THEN /\ branch' = [commits |-> branch.commits + 1, manifests |-> job[j].files,
                        backup |-> job[j].old]
          /\ Ended(j, "done")
     ELSE Ended(j, "failed") /\ UNCHANGED branch

Steps(j) == ChooseTag(j) \/ ReadSums(j) \/ Rewrite(j) \/ Push(j)

RefreshNext ==
  \/ Build /\ UNCHANGED <<branch, job>>
  \/ (\E j \in Jobs : Checkout(j) \/ Steps(j)) /\ UNCHANGED vars

RefreshSpec == RefreshInit /\ [][RefreshNext]_all

\* A runner executes the steps of a job it has begun.  Nobody has to begin one.
RefreshFairSpec == RefreshSpec /\ \A j \in Jobs : WF_job(Steps(j) /\ UNCHANGED vars)

-----------------------------------------------------------------------------
(* Properties. *)

\* Every variable keeps its type; every row has a checksum of this job's packs
\* and manifests name releases there are.
TypeOK ==
  /\ run \in 0 .. MaxRuns /\ tag \in 0 .. Len(assets) + 1
  /\ \A i \in DOMAIN chksum : chksum[i].name \in Names /\ chksum[i].sum.run = run
  /\ left \subseteq Names \union {"files-chksum"}
  /\ \A n \in Listed : branch.manifests[n].tag \in 0 .. Len(assets)
  /\ \A j \in Jobs : job[j].phase \in {"idle", "tag", "sums", "rewrite", "push", "done", "failed"}

\* url and sha256 of a manifest are of one release: the checksum is that of a
\* pack made for the release it names, and if the pack there is of the same job
\* it is that very pack.  A later job on the same tag may have replaced it (76,
\* and 112 of main.yml).
ManifestMatchesPack ==
  \A n \in Listed :
    LET m == branch.manifests[n]
    IN  m.tag # 0 =>
          /\ m.sum.tag = m.tag
          /\ assets[m.tag].packs[n].run = m.sum.run => assets[m.tag].packs[n] = m.sum

\* A push puts away, in backup_json.zip, the manifests it replaces: nothing is
\* lost between a job's checkout and its push (117-136, 212-233).
BackupHoldsReplaced ==
  [][branch' # branch => branch'.backup = branch.manifests]_branch

\* Only a job that was asked for a tag puts a manifest back to an older release,
\* in whatever order jobs and releases come: the tag is looked up after the
\* checkout, so a job with an older 'latest' has an older base as well.
NeverOlder ==
  [][\A n \in Listed : branch'.manifests[n].tag < branch.manifests[n].tag
       => \E j \in Jobs : Asked[j] # 0 /\ job[j].phase = "push" /\ job'[j].phase = "done"]_all

\* A job that begins when everything is uploaded and no other job is under way,
\* and that is not overtaken by one asked for a tag, leads to manifests that
\* name the latest release, whoever wins the race to push.
Current ==
  LET last == Len(assets)
  IN  /\ last > 0
      /\ \A n \in Listed : LET s == LastSum(assets[last].chksum, n)
                           IN  s # NoPack => branch.manifests[n] = [tag |-> last, sum |-> s]
Settled ==
  /\ phase = "over" /\ run = MaxRuns
  /\ Len(assets) > 0 /\ assets[Len(assets)].chksum # <<>>
  /\ \E j \in Jobs :
       /\ job[j].phase = "tag" /\ Asked[j] = 0 /\ job[j].base = branch.commits
       /\ \A k \in Jobs \ {j} :
            job[k].phase \in {"done", "failed"} \/ (job[k].phase = "idle" /\ Asked[k] = 0)
BecomesCurrent == Settled ~> Current
=============================================================================
