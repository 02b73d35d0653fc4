------------------------- MODULE AttemptLockProofs -------------------------
(***************************************************************************)
(* What holds of the lock file for every set of processes.                 *)
(*                                                                         *)
(* MutualExclusion is not inductive: it has to be known that the process   *)
(* inside is the one whose token the file carries, and that a process      *)
(* between the open and the end of the write owns the empty file.  With    *)
(* that, what is seen at the path is the lock that FailClosedLock promises.*)
(***************************************************************************)
EXTENDS TamperedLock, TLAPS

\* A process that has created the file owns what is at the path until it
\* releases it.
OwnerFindsItsToken ==
  \A p \in Procs :
    /\ phase[p] = "created" => file = [state |-> "empty", owner |-> p]
    /\ Inside(p) => Owns(p)

LockInv == TypeOK /\ OwnerFindsItsToken

ProcessStep(p) == Enter(p) \/ Exit(p) \/ Retry(p) \/ Crash(p) \/ Breaks(p)

----------------------------------------------------------------------------
(* The lock alone.                                                         *)

\* Nobody is in the lock at the start.
LEMMA InitLockInv == Init => LockInv
<1> SUFFICES ASSUME Init PROVE LockInv
  OBVIOUS
<1>1. /\ file \in [state : {"absent", "empty", "written"}, owner : Procs \cup {Nobody}]
      /\ file.owner = Nobody
  BY DEF Init, Absent
<1>2. phase \in [Procs -> Phases]
  BY DEF Init, Phases
<1>3. \A p \in Procs : phase[p] = "out"
  BY DEF Init
<1> QED
  BY <1>1, <1>2, <1>3 DEF LockInv, TypeOK, OwnerFindsItsToken, Inside

\* Every step keeps the types, undisturbed or not.
LEMMA NextTypeOK == TypeOK /\ [Next]_vars => TypeOK'
<1> SUFFICES ASSUME TypeOK, [Next]_vars PROVE TypeOK'
  OBVIOUS
<1> USE NobodyAssumption DEF TypeOK, Absent, Phases, Move
<1>1. ASSUME NEW p \in Procs, Enter(p)
      PROVE  TypeOK'
  BY <1>1 DEF Enter, Open, Refuse, Write, WriteFails
<1>2. ASSUME NEW p \in Procs, Exit(p)
      PROVE  TypeOK'
  BY <1>2 DEF Exit, ExitReads, ExitRefuses, Unlink, UnlinkFails
<1>3. ASSUME NEW p \in Procs, Retry(p) \/ Crash(p) \/ Breaks(p)
      PROVE  TypeOK'
  BY <1>3 DEF Retry, Crash, Breaks, CleanupFails, ReleaseErrors, ExitUnreadable, UnlinkErrors
<1>4. CASE OperatorClearsOrphan \/ UNCHANGED vars
  BY <1>4 DEF OperatorClearsOrphan, vars
<1> QED
  BY <1>1, <1>2, <1>3, <1>4 DEF Next, Orderly

\* Every step keeps the ownership of the file.
LEMMA NextLockInv == LockInv /\ [Next]_vars => LockInv'
<1> SUFFICES ASSUME LockInv, [Next]_vars PROVE OwnerFindsItsToken'
  BY NextTypeOK DEF LockInv
<1> USE NobodyAssumption
        DEF LockInv, TypeOK, Absent, Phases, Move, OwnerFindsItsToken, Inside, Owns
<1>1. ASSUME NEW p \in Procs, Enter(p)
      PROVE  OwnerFindsItsToken'
  <2>1. CASE Open(p)
    BY <2>1 DEF Open
  <2>2. CASE Refuse(p)
    BY <2>2 DEF Refuse
  <2>3. CASE Write(p)
    BY <2>3 DEF Write
  <2>4. CASE WriteFails(p)
    BY <2>4 DEF WriteFails
  <2> QED
    BY <1>1, <2>1, <2>2, <2>3, <2>4 DEF Enter
<1>2. ASSUME NEW p \in Procs, Exit(p)
      PROVE  OwnerFindsItsToken'
  BY <1>2 DEF Exit, ExitReads, ExitRefuses, Unlink, UnlinkFails
<1>3. ASSUME NEW p \in Procs, Retry(p) \/ Crash(p)
      PROVE  OwnerFindsItsToken'
  BY <1>3 DEF Retry, Crash
<1>4. ASSUME NEW p \in Procs, Breaks(p)
      PROVE  OwnerFindsItsToken'
  BY <1>4 DEF Breaks, CleanupFails, ReleaseErrors, ExitUnreadable, UnlinkErrors
<1>5. CASE OperatorClearsOrphan \/ UNCHANGED vars
  BY <1>5 DEF OperatorClearsOrphan, Left, Standing, vars
<1> QED
  BY <1>1, <1>2, <1>3, <1>4, <1>5 DEF Next, Orderly

\* The process inside is the one whose token the file carries.
LEMMA LockInvExclusive == LockInv => MutualExclusion
BY DEF LockInv, OwnerFindsItsToken, MutualExclusion, Owns

\* At most one process is inside the lock.
THEOREM Exclusive == Spec => []MutualExclusion
BY InitLockInv, NextLockInv, LockInvExclusive, PTL DEF Spec

\* A process that robs another is the one that moves.
LEMMA RobberMoves ==
  ASSUME TypeOK, NEW q \in Procs, NEW p \in Procs, NEW r \in Procs,
         ProcessStep(r), Robs(q, p)
  PROVE  r = q
BY DEF ProcessStep, Enter, Exit, Open, Refuse, Write, WriteFails, ExitReads, ExitRefuses,
       Unlink, UnlinkFails, Retry, Crash, Breaks, CleanupFails, ReleaseErrors, ExitUnreadable,
       UnlinkErrors, Move, TypeOK, Robs

\* With the ownership of the file, nobody robs.
LEMMA NobodyRobs == LockInv /\ [Next]_vars => \A p, q \in Procs : ~Robs(q, p)
<1> SUFFICES ASSUME LockInv, [Next]_vars, NEW p \in Procs, NEW q \in Procs, Robs(q, p)
             PROVE  FALSE
  OBVIOUS
<1>1. PICK r \in Procs : ProcessStep(r)
  BY DEF Next, Orderly, vars, OperatorClearsOrphan, ProcessStep, Robs
<1>2. r = q
  BY <1>1, RobberMoves DEF LockInv
<1> QED
  BY <1>1, <1>2, NobodyAssumption
     DEF ProcessStep, Enter, Exit, Open, Refuse, Write, WriteFails, ExitReads, ExitRefuses,
         Unlink, UnlinkFails, Retry, Crash, Breaks, CleanupFails, ReleaseErrors, ExitUnreadable,
       UnlinkErrors, Move, LockInv, TypeOK, Robs,
         OwnerFindsItsToken, Inside, Owns, Absent, Phases

\* With the ownership of the file, no process removes what was left.
LEMMA NobodyRobsTheDead == LockInv /\ [Next]_vars => ~RobsTheDead
<1> SUFFICES ASSUME LockInv, [Next]_vars, RobsTheDead PROVE FALSE
  OBVIOUS
<1>1. PICK r \in Procs : ProcessStep(r)
  BY DEF Next, Orderly, vars, OperatorClearsOrphan, ProcessStep, RobsTheDead, Left, Standing
<1> QED
  BY <1>1, NobodyAssumption
     DEF ProcessStep, Enter, Exit, Open, Refuse, Write, WriteFails, ExitReads, ExitRefuses,
         Unlink, UnlinkFails, Retry, Crash, Breaks, CleanupFails, ReleaseErrors, ExitUnreadable,
       UnlinkErrors, Move, LockInv, TypeOK, RobsTheDead, Left, Standing,
         OwnerFindsItsToken, Inside, Owns, Absent, Phases

\* A process in the body robs nobody, whatever is at the path.
LEMMA BodyRobsNobody ==
  TypeOK /\ [Next]_vars => \A p, q \in Procs : phase[q] = "held" => ~Robs(q, p)
<1> SUFFICES ASSUME TypeOK, [Next]_vars, NEW p \in Procs, NEW q \in Procs,
                    phase[q] = "held", Robs(q, p)
             PROVE  FALSE
  OBVIOUS
<1>1. PICK r \in Procs : ProcessStep(r)
  BY DEF Next, Orderly, vars, OperatorClearsOrphan, ProcessStep, Robs
<1>2. r = q
  BY <1>1, RobberMoves
<1> QED
  BY <1>1, <1>2, NobodyAssumption
     DEF ProcessStep, Enter, Exit, Open, Refuse, Write, WriteFails, ExitReads, ExitRefuses,
         Unlink, UnlinkFails, Retry, Crash, Breaks, CleanupFails, ReleaseErrors, ExitUnreadable,
       UnlinkErrors, Move, TypeOK, Robs, Owns

\* The promise of the class, when no live lock is removed by hand.
THEOREM OwnerReleases == Spec => ReleasedOnlyByOwner
<1>1. LockInv /\ [Next]_vars => [\A p, q \in Procs : ~Robs(q, p)]_vars
  BY NobodyRobs
<1> QED
  BY <1>1, InitLockInv, NextLockInv, PTL DEF Spec, ReleasedOnlyByOwner

----------------------------------------------------------------------------
(* The lock implements its promise: a process has the path from the open   *)
(* that creates the file to the step that removes it, or that leaves it.   *)

Holders == {p \in Procs : file.owner = p /\ Standing(p)}
Orphaned == Left

Promise == INSTANCE FailClosedLock WITH holders <- Holders, orphaned <- Orphaned

\* Nobody has the path at the start.
LEMMA InitPromise == Init => Promise!Init
BY NobodyAssumption DEF Init, Absent, Promise!Init, Holders, Orphaned, Left


\* Each step of a process takes, gives back or leaves the path, or nothing.
LEMMA NextPromise == LockInv /\ [Next]_vars => [Promise!Next]_<<Holders, Orphaned>>
<1> SUFFICES ASSUME LockInv, [Next]_vars PROVE [Promise!Next]_<<Holders, Orphaned>>
  OBVIOUS
<1> USE NobodyAssumption
        DEF LockInv, TypeOK, Absent, Phases, Move, OwnerFindsItsToken, Inside, Owns,
            Holders, Orphaned, Left, Standing
<1>1. ASSUME NEW p \in Procs, Open(p)
      PROVE  Promise!Take(p)
  BY <1>1 DEF Open, Promise!Take
<1>2. ASSUME NEW p \in Procs, WriteFails(p) \/ Unlink(p)
      PROVE  Promise!Give(p)
  BY <1>2 DEF WriteFails, Unlink, Promise!Give
<1>3. ASSUME NEW p \in Procs, Crash(p)
      PROVE  Promise!Die(p) \/ UNCHANGED <<Holders, Orphaned>>
  <2>1. CASE file.owner = p /\ Standing(p)
    BY <1>3, <2>1 DEF Crash, Promise!Die
  <2>2. CASE file.owner = p /\ ~Standing(p)
    BY <1>3, <2>2 DEF Crash
  <2>3. CASE file.owner # p
    BY <1>3, <2>3 DEF Crash
  <2> QED BY <2>1, <2>2, <2>3
<1>4. ASSUME NEW p \in Procs, Breaks(p)
      PROVE  Promise!Die(p)
  <2>1. CASE CleanupFails(p)
    BY <2>1 DEF CleanupFails, Promise!Die
  <2>2. CASE ReleaseErrors(p)
    BY <2>2 DEF ReleaseErrors, ExitUnreadable, UnlinkErrors, Promise!Die
  <2> QED BY <1>4, <2>1, <2>2 DEF Breaks
<1>5. ASSUME NEW p \in Procs,
             Refuse(p) \/ Write(p) \/ ExitReads(p) \/ ExitRefuses(p) \/ UnlinkFails(p)
      PROVE  UNCHANGED <<Holders, Orphaned>>
  BY <1>5 DEF Refuse, Write, ExitReads, ExitRefuses, UnlinkFails
<1>6. ASSUME NEW p \in Procs, Retry(p)
      PROVE  UNCHANGED <<Holders, Orphaned>>
  BY <1>6 DEF Retry
<1>7. CASE OperatorClearsOrphan
  BY <1>7 DEF OperatorClearsOrphan, Promise!Clear, Promise!Next
<1>8. CASE UNCHANGED vars
  BY <1>8 DEF vars
<1> QED
  BY <1>1, <1>2, <1>3, <1>4, <1>5, <1>6, <1>7, <1>8
     DEF Next, Orderly, Enter, Exit, Promise!Next

\* "Fail-closed filesystem lock that can only be released by its owner": the separate
\* system calls of AttemptLock, its failures and the deaths of its processes are, seen at
\* the path, one owner at a time who gives the path back or leaves it taken.
THEOREM ImplementsFailClosed == Spec => Promise!Spec
BY InitLockInv, NextLockInv, InitPromise, NextPromise, PTL DEF Spec, Promise!Spec

\* And who is in the body or in the release is the one that has the path.
THEOREM InsideHasThePath == Spec => [](\A p \in Procs : Inside(p) => Holders = {p})
<1>1. LockInv => \A p \in Procs : Inside(p) => Holders = {p}
  BY DEF LockInv, OwnerFindsItsToken, Inside, Owns, Holders, Standing
<1> QED
  BY <1>1, InitLockInv, NextLockInv, PTL DEF Spec

----------------------------------------------------------------------------
(* The lock whose files may be removed by hand.                            *)

TamperedInv == TamperedTypeOK /\ (~disturbed => LockInv)

\* A tampered step is a step of the lock, or the removal of a live one.
LEMMA TamperedStep ==
  [TamperedNext]_tamperedVars => ([Next]_vars /\ UNCHANGED disturbed) \/ OperatorClearsLive
BY DEF TamperedNext, tamperedVars, vars, Next

\* The recorded process is one of the processes.
LEMMA NextBroken ==
  broken \subseteq Procs /\ [TamperedNext]_tamperedVars => broken' \subseteq Procs
BY DEF TamperedNext, tamperedVars, OperatorClearsLive, StillThere

\* The invariant of the tampered lock: the types always hold, the ownership of
\* the file as long as nobody has disturbed it.
LEMMA TamperedInvariant == TamperedSpec => []TamperedInv
<1>1. TamperedInit => TamperedInv
  <2> SUFFICES ASSUME TamperedInit PROVE TamperedInv
    OBVIOUS
  <2>1. LockInv
    BY InitLockInv DEF TamperedInit
  <2>2. disturbed \in BOOLEAN /\ broken \subseteq Procs
    BY DEF TamperedInit
  <2> QED
    BY <2>1, <2>2 DEF TamperedInv, TamperedTypeOK, LockInv
<1>2. TamperedInv /\ [TamperedNext]_tamperedVars => TamperedInv'
  <2> SUFFICES ASSUME TamperedInv, [TamperedNext]_tamperedVars PROVE TamperedInv'
    OBVIOUS
  <2>1. CASE [Next]_vars /\ UNCHANGED disturbed
    BY <2>1, NextTypeOK, NextLockInv, NextBroken DEF TamperedInv, TamperedTypeOK
  <2>2. CASE OperatorClearsLive
    <3>1. TypeOK'
      BY <2>2, NobodyAssumption DEF OperatorClearsLive, TamperedInv, TamperedTypeOK, TypeOK, Absent
    <3>2. disturbed' = TRUE
      BY <2>2 DEF OperatorClearsLive
    <3> QED
      BY <3>1, <3>2, NextBroken DEF TamperedInv, TamperedTypeOK
  <2> QED
    BY <2>1, <2>2, TamperedStep
<1> QED
  BY <1>1, <1>2, PTL DEF TamperedSpec

\* Every variable keeps its type, whoever removes which file.
THEOREM TypeCorrect == TamperedSpec => []TamperedTypeOK
<1>1. TamperedInv => TamperedTypeOK
  BY DEF TamperedInv
<1> QED
  BY <1>1, TamperedInvariant, PTL

\* At most one process is inside the lock as long as no live lock is removed.
THEOREM UndisturbedExclusive == TamperedSpec => []ExclusiveUndisturbed
<1>1. TamperedInv => ExclusiveUndisturbed
  BY LockInvExclusive DEF TamperedInv, ExclusiveUndisturbed
<1> QED
  BY <1>1, TamperedInvariant, PTL

\* The removal by hand is no step of a process.
LEMMA OperatorMovesNobody ==
  [TamperedNext]_tamperedVars => [Next]_vars \/ UNCHANGED phase
BY TamperedStep DEF OperatorClearsLive

\* Whoever unlinks the path owns the file that is there, as long as no live
\* lock is removed by hand.
THEOREM UndisturbedOwnerReleases == TamperedSpec => OwnerReleasesUndisturbed
<1>1. TamperedInv /\ [TamperedNext]_tamperedVars
        => [~disturbed => \A p, q \in Procs : ~Robs(q, p)]_tamperedVars
  BY OperatorMovesNobody, NobodyRobs DEF TamperedInv, Robs
<1> QED
  BY <1>1, TamperedInvariant, PTL DEF TamperedSpec, OwnerReleasesUndisturbed

\* A lock file that a dead process left is removed by no process, as long as
\* no live lock is removed by hand.
THEOREM FailClosed == TamperedSpec => OrphanStaysLocked
<1>1. TamperedInv /\ [TamperedNext]_tamperedVars
        => [~disturbed => ~RobsTheDead]_tamperedVars
  BY OperatorMovesNobody, NobodyRobsTheDead DEF TamperedInv, RobsTheDead
<1> QED
  BY <1>1, TamperedInvariant, PTL DEF TamperedSpec, OrphanStaysLocked

\* Disturbed or not, a process in the body takes away nobody's lock: neither
\* its exit nor its death touches a file that carries another token.
THEOREM TokenGuards == TamperedSpec => ComparisonProtects
<1>1. TamperedInv /\ [TamperedNext]_tamperedVars
        => [\A p, q \in Procs : phase[q] = "held" => ~Robs(q, p)]_vars
  BY OperatorMovesNobody, BodyRobsNobody DEF TamperedInv, TamperedTypeOK, Robs
<1> QED
  BY <1>1, TamperedInvariant, PTL DEF TamperedSpec, ComparisonProtects

----------------------------------------------------------------------------
(* What a live process leaves at the path.                                 *)

\* The state of an owned file tells where its owner stands, unless the owner
\* could not read or unlink it.
OwnerStands ==
  \A p \in Procs :
    file.owner = p => \/ file.state = "empty" /\ phase[p] = "created"
                      \/ file.state = "written" /\ phase[p] \in {"held", "matched"}
                      \/ phase[p] = "raised" /\ p \in broken

\* Every step keeps the owner of the file where it stands.
LEMMA NextOwnerStands ==
  TypeOK /\ OwnerStands /\ [TamperedNext]_tamperedVars => OwnerStands'
<1> SUFFICES ASSUME TypeOK, OwnerStands, [TamperedNext]_tamperedVars PROVE OwnerStands'
  OBVIOUS
<1> USE NobodyAssumption DEF TypeOK, OwnerStands, Absent, Phases, Move, Owns, StillThere
<1>1. ASSUME NEW p \in Procs, Enter(p), broken' = StillThere(broken)
      PROVE  OwnerStands'
  BY <1>1 DEF Enter, Open, Refuse, Write, WriteFails
<1>2. ASSUME NEW p \in Procs, Exit(p), broken' = StillThere(broken)
      PROVE  OwnerStands'
  BY <1>2 DEF Exit, ExitReads, ExitRefuses, Unlink, UnlinkFails
<1>3. ASSUME NEW p \in Procs, Retry(p) \/ Crash(p), broken' = StillThere(broken)
      PROVE  OwnerStands'
  BY <1>3 DEF Retry, Crash
<1>4. ASSUME NEW p \in Procs, Breaks(p), broken' = StillThere(broken \cup {p})
      PROVE  OwnerStands'
  BY <1>4 DEF Breaks, CleanupFails, ReleaseErrors, ExitUnreadable, UnlinkErrors
<1>5. CASE OperatorClearsOrphan \/ OperatorClearsLive \/ UNCHANGED tamperedVars
  BY <1>5 DEF OperatorClearsOrphan, OperatorClearsLive, tamperedVars
<1> QED
  BY <1>1, <1>2, <1>3, <1>4, <1>5 DEF TamperedNext, Orderly

\* A process that fails to enter or to leave, and lives on, has no file at the
\* path unless reading or unlinking that file was what failed.
THEOREM CleanFailures == TamperedSpec => []NothingLeftBehind
<1>1. TamperedInit => OwnerStands
  BY NobodyAssumption DEF TamperedInit, Init, Absent, OwnerStands
<1>2. TamperedInv /\ OwnerStands /\ [TamperedNext]_tamperedVars => OwnerStands'
  BY NextOwnerStands DEF TamperedInv, TamperedTypeOK
<1>3. OwnerStands => NothingLeftBehind
  BY DEF OwnerStands, NothingLeftBehind, Standing
<1> QED
  BY <1>1, <1>2, <1>3, TamperedInvariant, PTL DEF TamperedSpec
=============================================================================
