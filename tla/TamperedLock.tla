---------------------------- MODULE TamperedLock ----------------------------
(***************************************************************************)
(* AttemptLock when somebody may also remove the lock file of a process    *)
(* that is still in it: a lock has no expiry, so clearing it by hand is    *)
(* the only way on after a crash or an I/O error, and a slow attempt looks *)
(* like a dead one.  The token comparison of __exit__ is the code's answer.*)
(*                                                                         *)
(* Two history variables record what happened and change no step.          *)
(***************************************************************************)
EXTENDS AttemptLock

VARIABLES
  disturbed,  \* whether a file was ever removed whose owner was still in the lock
  broken      \* the process whose file at the path outlived an I/O error, if any

tamperedVars == <<file, phase, disturbed, broken>>

TamperedInit == Init /\ disturbed = FALSE /\ broken = {}

\* The error is forgotten with the file that it left.
StillThere(P) == {p \in P : file'.owner = p}

OperatorClearsLive ==
  /\ file.state # "absent" /\ ~Left
  /\ file' = Absent
  /\ disturbed' = TRUE
  /\ broken' = {}
  /\ UNCHANGED phase

TamperedNext ==
  \/ Orderly /\ broken' = StillThere(broken) /\ UNCHANGED disturbed
  \/ \E p \in Procs : Breaks(p) /\ broken' = StillThere(broken \cup {p}) /\ UNCHANGED disturbed
  \/ OperatorClearsLive

TamperedSpec == TamperedInit /\ [][TamperedNext]_tamperedVars
FairTamperedSpec == TamperedSpec /\ Fairness

----------------------------------------------------------------------------
\* Every variable keeps its shape.
TamperedTypeOK == TypeOK /\ disturbed \in BOOLEAN /\ broken \subseteq Procs

\* As long as nobody removes a live lock by hand, at most one process is in
\* the body of AttemptLock or on its way out.
ExclusiveUndisturbed == ~disturbed => MutualExclusion

\* As long as nobody removes a live lock by hand, no process takes away the
\* lock file of another live process.
OwnerReleasesUndisturbed ==
  [][~disturbed => \A p, q \in Procs : ~Robs(q, p)]_tamperedVars

\* A process that is killed inside the lock, or whose release fails, leaves the
\* path locked (fail-closed): as long as nobody removes a live lock, no process
\* takes a file away that was left.
OrphanStaysLocked == [][~disturbed => ~RobsTheDead]_tamperedVars

\* A live process that failed to enter or to leave has no file at the path,
\* unless reading or unlinking that very file failed: a full disk, a lock that
\* is taken, a foreign token or a file that is gone leave nothing behind.
NothingLeftBehind ==
  \A p \in Procs : file.owner = p => Standing(p) \/ p \in broken

\* A lock file of a live process does not stay its own for ever: the process
\* releases it, or dies, or reading or unlinking it fails.
EventuallyGivenUp == \A p \in Procs : (file.owner = p) ~> (file.owner # p \/ p \in broken)
=============================================================================
