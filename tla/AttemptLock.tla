---------------------------- MODULE AttemptLock ----------------------------
(***************************************************************************)
(* The filesystem lock of backrunner/coordination.py, class AttemptLock.   *)
(*                                                                         *)
(* A process enters by creating the lock file with O_CREAT|O_EXCL, writes  *)
(* a payload with a random owner token into it and only then holds the     *)
(* lock.  On the way out it reads the file back, compares the token and    *)
(* unlinks the path: two separate system calls.  Nothing expires a lock    *)
(* file, so a process that dies leaves it behind, and so does one that     *)
(* lives on after an I/O error on its way out.                             *)
(*                                                                         *)
(* Abstraction: a random token is identified with the process that drew    *)
(* it.  The token of a dead process, or of an AttemptLock that was given up*)
(* after an exception, matches no token drawn later: its owner becomes     *)
(* Nobody.                                                                 *)
(***************************************************************************)
CONSTANTS
  Procs,   \* the processes that use this lock path
  Nobody   \* the owner of a file whose writer is dead, or of no file

ASSUME NobodyAssumption == Nobody \notin Procs

VARIABLES
  file,  \* the lock path: absent, created but empty, or written by its owner
  phase  \* where each process stands in the with-statement of AttemptLock

vars == <<file, phase>>

Absent == [state |-> "absent", owner |-> Nobody]

(***************************************************************************)
(* "created": the exclusive open succeeded, the payload is not yet on disk.*)
(* "held": _token is set, the body runs.  "matched": __exit__ has read its *)
(* own token and is about to unlink.  "raised": __enter__ or __exit__ threw*)
(* an exception to the caller.                                             *)
(***************************************************************************)
Phases == {"out", "created", "held", "matched", "raised"}

Inside(p) == phase[p] \in {"held", "matched"}
Owns(p) == file = [state |-> "written", owner |-> p]

\* p is between its exclusive open and the end of its release: it may still
\* remove its file.
Standing(p) == phase[p] \in {"created", "held", "matched"}

\* There is a file at the path that no process will remove: its owner is dead,
\* or has had an exception and knows its token no more.
Left == file.state # "absent" /\ \A p \in Procs : file.owner = p => ~Standing(p)

Move(p, from, to) ==
  /\ phase[p] = from
  /\ phase' = [phase EXCEPT ![p] = to]

----------------------------------------------------------------------------
Init ==
  /\ file = Absent
  /\ phase = [p \in Procs |-> "out"]

\* Mutant: the open without O_EXCL.
OpenShared(p) ==
  /\ Move(p, "out", "created")
  /\ file' = [state |-> "empty", owner |-> p]

\* os.open with O_EXCL succeeds: the file exists and is still empty.
Open(p) ==
  /\ Move(p, "out", "created")
  /\ file.state = "absent"
  /\ file' = [state |-> "empty", owner |-> p]

\* Mutant: a refused process clears the path, taking it for a stale lock.
RefuseAndClear(p) ==
  /\ Move(p, "out", "raised")
  /\ file.state # "absent"
  /\ file' = Absent

\* os.open finds the path: ActiveAttemptError, whoever left the file there.
Refuse(p) ==
  /\ Move(p, "out", "raised")
  /\ file.state # "absent"
  /\ UNCHANGED file

\* The payload is written and synced through the descriptor; a path that was
\* removed in the meantime stays removed.
Write(p) ==
  /\ Move(p, "created", "held")
  /\ file' = IF file.owner = p THEN [file EXCEPT !.state = "written"] ELSE file

\* Mutant: the failed write leaves the empty file behind.
WriteFailsLeaves(p) ==
  /\ Move(p, "created", "raised")
  /\ UNCHANGED file

\* Mutant: the file is gone, and still counted as the process's own.
WriteFailsHalfway(p) ==
  /\ Move(p, "created", "raised")
  /\ file' = [file EXCEPT !.state = "absent"]

\* Writing fails (full disk, interrupt): the path is unlinked, whatever is there.
WriteFails(p) ==
  /\ Move(p, "created", "raised")
  /\ file' = Absent

\* The unlink after the failed write fails as well: the file stays.
CleanupFails(p) ==
  /\ file.state # "absent"
  /\ Move(p, "created", "raised")
  /\ UNCHANGED file

\* __exit__ reads back its own token.
ExitReads(p) ==
  /\ Move(p, "held", "matched")
  /\ Owns(p)
  /\ UNCHANGED file

\* Mutant: __exit__ unlinks although the token is not its own.
ExitForces(p) ==
  /\ Move(p, "held", "raised")
  /\ ~Owns(p)
  /\ file' = Absent

\* __exit__ finds the file missing, unreadable or with another token, and
\* refuses to release it.
ExitRefuses(p) ==
  /\ Move(p, "held", "raised")
  /\ ~Owns(p)
  /\ UNCHANGED file

\* The process's own file cannot be read back: "attempt lock became unreadable;
\* refusing unsafe release".
ExitUnreadable(p) ==
  /\ Move(p, "held", "raised")
  /\ Owns(p)
  /\ UNCHANGED file

\* Mutant: the release forgets the unlink.
LeaveFile(p) ==
  /\ file.state # "absent"
  /\ Move(p, "matched", "out")
  /\ UNCHANGED file

\* The unlink after a successful comparison removes the path by name.
Unlink(p) ==
  /\ file.state # "absent"
  /\ Move(p, "matched", "out")
  /\ file' = Absent

\* The path is already gone: unlink raises FileNotFoundError.
UnlinkFails(p) ==
  /\ file.state = "absent"
  /\ Move(p, "matched", "raised")
  /\ UNCHANGED file

\* The unlink fails with another error: the file stays.
UnlinkErrors(p) ==
  /\ file.state # "absent"
  /\ Move(p, "matched", "raised")
  /\ UNCHANGED file

\* The caller that got an exception builds a new AttemptLock later: the old
\* token is gone with the old object.
Retry(p) ==
  /\ Move(p, "raised", "out")
  /\ file' = IF file.owner = p THEN [file EXCEPT !.owner = Nobody] ELSE file

\* The process is killed: its descriptor is closed, its file stays.
Crash(p) ==
  /\ phase[p] # "out"
  /\ phase' = [phase EXCEPT ![p] = "out"]
  /\ file' = IF file.owner = p THEN [file EXCEPT !.owner = Nobody] ELSE file

\* Somebody removes a file that nobody will release any more.
OperatorClearsOrphan ==
  /\ Left
  /\ file' = Absent
  /\ UNCHANGED phase

Enter(p) == Open(p) \/ Refuse(p) \/ Write(p) \/ WriteFails(p)
Exit(p) == ExitReads(p) \/ ExitRefuses(p) \/ Unlink(p) \/ UnlinkFails(p)

\* The I/O errors that leave the file of a process that lives on.
ReleaseErrors(p) == ExitUnreadable(p) \/ UnlinkErrors(p)
Breaks(p) == CleanupFails(p) \/ ReleaseErrors(p)

Orderly ==
  \/ \E p \in Procs : Enter(p) \/ Exit(p) \/ Retry(p) \/ Crash(p)
  \/ OperatorClearsOrphan

Next == Orderly \/ \E p \in Procs : Breaks(p)

(***************************************************************************)
(* A process inside the with-statement runs on: the writes and reads are   *)
(* local file operations, and the bodies are file updates or requests with *)
(* timeouts.  Nothing obliges a process to start an attempt, nor the       *)
(* operator to clean up.                                                   *)
(***************************************************************************)
Fairness ==
  \A p \in Procs : /\ WF_vars(Write(p) \/ WriteFails(p) \/ CleanupFails(p))
                    /\ WF_vars(Exit(p) \/ ReleaseErrors(p))

Spec == Init /\ [][Next]_vars
FairSpec == Spec /\ Fairness

----------------------------------------------------------------------------
\* Every variable keeps its shape; an absent file has no owner.
TypeOK ==
  /\ file \in [state : {"absent", "empty", "written"}, owner : Procs \cup {Nobody}]
  /\ phase \in [Procs -> Phases]
  /\ file.state = "absent" => file.owner = Nobody

\* At most one process is in the body or in the release of the lock
\* ("Cross-process attempt locking"): neither interleaved opens, nor a failed
\* write, nor an orphan that was cleared admits a second one.
MutualExclusion ==
  \A p, q \in Procs : Inside(p) /\ Inside(q) => p = q

\* The step of q takes away the file of another live process p.
Robs(q, p) ==
  /\ p # q
  /\ phase'[q] # phase[q]
  /\ file.owner = p
  /\ file'.owner # p

\* "Fail-closed filesystem lock that can only be released by its owner"
\* (coordination.py:22): no process takes away another live process's file.
ReleasedOnlyByOwner == [][\A p, q \in Procs : ~Robs(q, p)]_vars

\* A process that comes to __exit__ after its own file was removed and the
\* path was locked again leaves the new owner's lock alone: the comparison
\* with the token stops it, whatever happened before.
ComparisonProtects ==
  [][\A p, q \in Procs : phase[q] = "held" => ~Robs(q, p)]_vars

\* A step of a process takes away the file that was left at the path.
RobsTheDead ==
  /\ Left
  /\ phase' # phase
  /\ ~Left'
=============================================================================
