---------------------------- MODULE InsnRewrite ----------------------------
(***************************************************************************)
(* What patch_ivybridge.py promises in its docstring, with no bytes in it: *)
(* each instruction the target CPU lacks is replaced as a whole, in one    *)
(* step and once, by something the CPU can run; nothing else is touched;   *)
(* the output file is written only when no such instruction is left.       *)
(* Patcher, which works on bytes, implements this module.                  *)
(***************************************************************************)
VARIABLES
  todo,      \* instructions that must still be replaced
  kept,      \* instructions that are to stay as they are
  replaced,  \* instructions replaced so far
  published  \* the output file holds the patched image

vars == <<todo, kept, replaced, published>>

Init ==
  /\ replaced = {}
  /\ published = FALSE
  /\ todo \intersect kept = {}

Replace(i) ==
  /\ i \in todo
  /\ todo' = todo \ {i}
  /\ replaced' = replaced \union {i}
  /\ UNCHANGED <<kept, published>>

Publish ==
  /\ todo = {}
  /\ published' = TRUE
  /\ UNCHANGED <<todo, kept, replaced>>

\* A run that finds no room stops, and publishes nothing.
Next == Publish \/ \E i \in todo : Replace(i)

Spec == Init /\ [][Next]_vars
=============================================================================
