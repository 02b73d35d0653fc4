--------------------------- MODULE FailClosedLock ---------------------------
(***************************************************************************)
(* What the lock of backrunner/coordination.py promises: "Fail-closed      *)
(* filesystem lock that can only be released by its owner" (line 22).      *)
(*                                                                         *)
(* One process has the path at a time.  It gives it back itself, or dies or*)
(* fails to and leaves it taken, until somebody clears it: no time and no  *)
(* other process opens it again.                                           *)
(***************************************************************************)
CONSTANT Procs

VARIABLES
  holders,  \* the process that has the path, or none
  orphaned  \* the path is taken by nobody who could give it back

Init == holders = {} /\ orphaned = FALSE

Take(p) ==
  /\ holders = {} /\ ~orphaned
  /\ holders' = {p}
  /\ UNCHANGED orphaned

Give(p) ==
  /\ holders = {p}
  /\ holders' = {}
  /\ UNCHANGED orphaned

\* The process dies, or cannot read or unlink its file on the way out.
Die(p) ==
  /\ holders = {p}
  /\ holders' = {} /\ orphaned' = TRUE

Clear ==
  /\ orphaned /\ orphaned' = FALSE
  /\ UNCHANGED holders

Next == (\E p \in Procs : Take(p) \/ Give(p) \/ Die(p)) \/ Clear

Spec == Init /\ [][Next]_<<holders, orphaned>>
=============================================================================
