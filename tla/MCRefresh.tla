------------------------------ MODULE MCRefresh ------------------------------
(***************************************************************************)
(* Two build jobs and three refresh jobs.  Directories: the excluded one   *)
(* and its successor, a platform whose pack is copied over that of its     *)
(* successor, a legacy kernel, and one rr-last has no pack of, which is    *)
(* all that ls -d *-*/ finds in the root of this commit.                   *)
(***************************************************************************)
EXTENDS Refresh

MCModules == {"a", "b", "c", "d"}
MCNames == {"epyc72", "epyc73", "gk72", "gk73", "dsm6"}
MCChosen == {"a", "c"}
MCListed == {"epyc73", "gk73"}
MCCopies == << [old |-> "epyc72", new |-> "epyc73", both |-> TRUE],
               [old |-> "gk72", new |-> "gk73", both |-> FALSE] >>

\* The checkout's own modules: bzImage-patch has none, but a '-' in its name.
OwnModules == [d \in MCNames \union {"bzImage-patch"} |->
                 IF d = "bzImage-patch" THEN {} ELSE {"a", "d"}]
Tree(listing, rr) ==
  [listing |-> listing,
   own |-> OwnModules,
   rr |-> [d \in rr |-> {"a", "b", "c", "d"}],
   vanilla |-> [d \in {"gk72"} |-> {"a", "b"}],
   thirdparty |-> [d \in {"gk72", "epyc73"} |-> {"b", "c"}]]
MCTrees ==
  { Tree(<<"dsm6", "epyc72", "epyc73">>, {"epyc73"}),
    Tree(<<"gk72", "gk73">>, {"gk72", "gk73"}),
    Tree(<<"bzImage-patch">>, {}) }

MCJobs == {1, 2, 3}
MCAsked == [j \in MCJobs |-> IF j = 3 THEN 1 ELSE 0]
=============================================================================
