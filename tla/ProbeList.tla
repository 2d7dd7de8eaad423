------------------------------ MODULE ProbeList ------------------------------
(***************************************************************************)
(* What add_serial_probe.py promises, with no bytes in it: probe after     *)
(* probe, a site gets one more character to print before it does what it   *)
(* always did; an output is written only when the whole list is done.      *)
(* SerialProbe, which works on the bytes of an image, implements this.     *)
(***************************************************************************)
EXTENDS Integers, Sequences

CONSTANTS List  \* the probes in program order: [how, va, ch]

VARIABLES
  log,   \* per site, the characters it prints, in the order it prints them
  does,  \* per site, what it does after that
  done,  \* probes dealt with
  saved  \* the log of the output, <<>> before there is one

vars == <<log, does, done, saved>>

Init == done = 0 /\ saved = <<>>

\* A site with a probe gets the new one in front of the old one.
Add ==
  /\ done < Len(List)
  /\ LET p == List[done + 1] IN log' = [log EXCEPT ![p.va] = <<p.ch>> \o @]
  /\ done' = done + 1
  /\ UNCHANGED <<does, saved>>

\* The probe of an earlier version at startup_64 is kept.
Keep ==
  /\ done = 0 /\ log[List[1].va] # <<>>
  /\ done' = 1
  /\ UNCHANGED <<log, does, saved>>

Publish ==
  /\ done = Len(List)
  /\ saved' = log
  /\ UNCHANGED <<log, does, done>>

\* The output is the input of another run.
Rerun ==
  /\ saved # <<>>
  /\ log' = saved /\ done' = 0
  /\ UNCHANGED <<does, saved>>

Next == Add \/ Keep \/ Publish \/ Rerun

Spec == Init /\ [][Next]_vars
=============================================================================
