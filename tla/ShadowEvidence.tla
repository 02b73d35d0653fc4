--------------------------- MODULE ShadowEvidence ---------------------------
(***************************************************************************)
(* The durable shadow evidence of backrunner/coordination.py, class        *)
(* ShadowEvidence, with any number of writers.                             *)
(*                                                                         *)
(* record() and heartbeat() take the write lock (an AttemptLock that does  *)
(* not wait), load the file, change the payload and replace the file       *)
(* through a temporary one.  A writer may fail or die between any two of   *)
(* these.  A heartbeat reads the clock before it asks for the lock.        *)
(*                                                                         *)
(* Abstraction: a record is its signature, the only field that decides     *)
(* anything here; time is counted in ticks from the start of the campaign. *)
(***************************************************************************)
EXTENDS Integers, Sequences

CONSTANTS
  Procs,       \* the processes that write to this evidence file
  Nobody,      \* see AttemptLock
  Signatures,  \* the trigger signatures
  Times,       \* the instants of the campaign: 0..n for TLC, Nat in the proofs
  MaxGap       \* maximum_gap_seconds, in ticks

ASSUME NobodyIsNoProc == Nobody \notin Procs
ASSUME TimesAssumption == Times \subseteq Nat /\ 0 \in Times
ASSUME MaxGapAssumption == MaxGap \in Nat \ {0}

VARIABLES
  clock,      \* datetime.now(UTC)
  evidence,   \* the content of the evidence file
  writeLock,  \* the file beside it with the suffix .lock
  wphase,     \* where each writer stands in that lock
  step,       \* where each writer stands in record() or heartbeat()
  call,       \* the arguments of that call
  loaded      \* the payload the writer has loaded

storeVars == <<clock, evidence, writeLock, wphase, step, call, loaded>>

Lock == INSTANCE AttemptLock WITH file <- writeLock, phase <- wphase

NoBeat == -1
NoEvidence == [runtime |-> 0, last |-> NoBeat, records |-> <<>>]
NoCall == [kind |-> "none"]
Calls == [kind : {"heartbeat"}, at : Times] \cup [kind : {"record"}, sig : Signatures]
         \cup {NoCall}

(***************************************************************************)
(* "called": on the way into the lock or in it, file not loaded yet.       *)
(* "saved", "failed": on the way out of the lock, after os.replace or with *)
(* an exception.  "ok", "error": returned to the caller.                   *)
(***************************************************************************)
Steps == {"idle", "called", "loaded", "saved", "failed", "ok", "error"}

\* Mutant: the search for a signature skips the first record.
ContainsTail(e, s) == \E i \in 2..Len(e.records) : e.records[i] = s

\* The signature is in the payload.
Contains(e, s) == \E i \in DOMAIN e.records : e.records[i] = s

Goto(p, from, to) ==
  /\ step[p] = from
  /\ step' = [step EXCEPT ![p] = to]

LockUnchanged == UNCHANGED <<writeLock, wphase>>

----------------------------------------------------------------------------
StoreInit ==
  /\ clock = 0
  /\ evidence = NoEvidence
  /\ Lock!Init
  /\ step = [p \in Procs |-> "idle"]
  /\ call = [p \in Procs |-> NoCall]
  /\ loaded = [p \in Procs |-> NoEvidence]

\* heartbeat(): the clock is read before the lock is taken.
HeartbeatCall(p) ==
  /\ Goto(p, "idle", "called")
  /\ call' = [call EXCEPT ![p] = [kind |-> "heartbeat", at |-> clock]]
  /\ UNCHANGED <<clock, evidence, loaded>>
  /\ LockUnchanged

RecordCall(p, s) ==
  /\ Goto(p, "idle", "called")
  /\ call' = [call EXCEPT ![p] = [kind |-> "record", sig |-> s]]
  /\ UNCHANGED <<clock, evidence, loaded>>
  /\ LockUnchanged

\* Mutant: the write lock is opened without O_EXCL.
AcquireShared(p) ==
  /\ step[p] = "called"
  /\ Lock!OpenShared(p) \/ Lock!Write(p)
  /\ UNCHANGED <<clock, evidence, step, call, loaded>>

Acquire(p) ==
  /\ step[p] = "called"
  /\ Lock!Open(p) \/ Lock!Write(p)
  /\ UNCHANGED <<clock, evidence, step, call, loaded>>

\* Mutant: a writer waits for the lock instead of giving up.
AcquireWaits(p) ==
  /\ Goto(p, "called", "error")
  /\ Lock!WriteFails(p)
  /\ UNCHANGED <<clock, evidence, call, loaded>>

\* The lock is taken or its payload cannot be written, with or without an empty
\* file left behind: the call gives up.
AcquireFails(p) ==
  /\ Goto(p, "called", "error")
  /\ Lock!Refuse(p) \/ Lock!WriteFails(p) \/ Lock!CleanupFails(p)
  /\ UNCHANGED <<clock, evidence, call, loaded>>

\* _load_payload inside the lock.
Load(p) ==
  /\ Goto(p, "called", "loaded")
  /\ wphase[p] = "held"
  /\ loaded' = [loaded EXCEPT ![p] = evidence]
  /\ UNCHANGED <<clock, evidence, call>>
  /\ LockUnchanged

Recording(p) == call[p].kind = "record"
Beating(p) == call[p].kind = "heartbeat"
Elapsed(p) == call[p].at - loaded[p].last

\* _save_payload: os.replace installs what the writer computed from the
\* payload it loaded.
Save(p, payload) ==
  /\ Goto(p, "loaded", "saved")
  /\ evidence' = payload
  /\ UNCHANGED <<clock, call, loaded>>
  /\ LockUnchanged

SaveRecord(p) ==
  /\ Recording(p)
  /\ ~Contains(loaded[p], call[p].sig)
  /\ Save(p, [loaded[p] EXCEPT !.records = Append(@, call[p].sig)])

SaveFirstBeat(p) ==
  /\ Beating(p)
  /\ loaded[p].last = NoBeat
  /\ Save(p, [loaded[p] EXCEPT !.last = call[p].at])

\* Mutant: a heartbeat that moves backwards is not rejected.
SaveBeatBackwards(p) ==
  /\ Beating(p)
  /\ loaded[p].last # NoBeat
  /\ Save(p, [loaded[p] EXCEPT
                !.last = call[p].at,
                !.runtime = IF Elapsed(p) <= MaxGap THEN @ + Elapsed(p) ELSE @])

\* Mutant: last_heartbeat_at is only moved when a gap is skipped.
SaveBeatTwice(p) ==
  /\ Beating(p)
  /\ loaded[p].last # NoBeat
  /\ Elapsed(p) >= 0
  /\ Save(p, IF Elapsed(p) <= MaxGap
             THEN [loaded[p] EXCEPT !.runtime = @ + Elapsed(p)]
             ELSE [loaded[p] EXCEPT !.last = call[p].at])

\* The interval counts unless it exceeds the maximum gap; the heartbeat moves
\* in both cases.
SaveBeat(p) ==
  /\ Beating(p)
  /\ loaded[p].last # NoBeat
  /\ Elapsed(p) >= 0
  /\ Save(p, [loaded[p] EXCEPT
                !.last = call[p].at,
                !.runtime = IF Elapsed(p) <= MaxGap THEN @ + Elapsed(p) ELSE @])

\* DuplicateCandidateError, "heartbeat timestamp moved backwards", or an I/O
\* error on the temporary file: the evidence stays as it was.
SaveFails(p) ==
  /\ Goto(p, "loaded", "failed")
  /\ UNCHANGED <<clock, evidence, call, loaded>>
  /\ LockUnchanged

\* __exit__ of the write lock, after success or with the exception in flight.
ReleaseReads(p) ==
  /\ step[p] \in {"saved", "failed"}
  /\ Lock!ExitReads(p)
  /\ UNCHANGED <<clock, evidence, step, call, loaded>>

\* No program removes the lock of a live owner, so that __exit__ never finds
\* another token or no file here; TamperedLock lets somebody do it.
Release(p) ==
  /\ Goto(p, "saved", "ok") \/ Goto(p, "failed", "error")
  /\ Lock!Unlink(p)
  /\ UNCHANGED <<clock, evidence, call, loaded>>

\* __exit__ cannot read or unlink its lock file: the caller gets an exception
\* although the evidence may be saved, and the write lock stays taken.
ReleaseFails(p) ==
  /\ Goto(p, "saved", "error") \/ Goto(p, "failed", "error")
  /\ Lock!ReleaseErrors(p)
  /\ UNCHANGED <<clock, evidence, call, loaded>>

\* The caller gets the result; the AttemptLock object is gone.
Return(p) ==
  /\ Goto(p, "ok", "idle") \/ Goto(p, "error", "idle")
  /\ call' = [call EXCEPT ![p] = NoCall]
  /\ loaded' = [loaded EXCEPT ![p] = NoEvidence]
  /\ IF wphase[p] = "raised" THEN Lock!Retry(p) ELSE LockUnchanged
  /\ UNCHANGED <<clock, evidence>>

\* The process dies inside the call.  What it has replaced stays replaced.
WriterDies(p) ==
  /\ step[p] # "idle"
  /\ step' = [step EXCEPT ![p] = "idle"]
  /\ call' = [call EXCEPT ![p] = NoCall]
  /\ loaded' = [loaded EXCEPT ![p] = NoEvidence]
  /\ IF wphase[p] = "out" THEN LockUnchanged ELSE Lock!Crash(p)
  /\ UNCHANGED <<clock, evidence>>

OperatorClearsWriteLock ==
  /\ Lock!OperatorClearsOrphan
  /\ UNCHANGED <<clock, evidence, step, call, loaded>>

Tick ==
  /\ clock + 1 \in Times
  /\ clock' = clock + 1
  /\ UNCHANGED <<evidence, writeLock, wphase, step, call, loaded>>

InLock(p) ==
  \/ Acquire(p) \/ AcquireFails(p) \/ Load(p)
  \/ SaveRecord(p) \/ SaveFirstBeat(p) \/ SaveBeat(p) \/ SaveFails(p)
  \/ ReleaseReads(p) \/ Release(p) \/ ReleaseFails(p)

StoreNext ==
  \/ \E p \in Procs : HeartbeatCall(p) \/ InLock(p) \/ Return(p) \/ WriterDies(p)
  \/ \E p \in Procs, s \in Signatures : RecordCall(p, s)
  \/ OperatorClearsWriteLock
  \/ Tick

StoreSpec == StoreInit /\ [][StoreNext]_storeVars

----------------------------------------------------------------------------
Payloads == [runtime : Nat, last : Nat \cup {NoBeat}, records : Seq(Signatures)]

\* Every variable keeps its shape.
StoreTypeOK ==
  /\ clock \in Times
  /\ evidence \in Payloads
  /\ Lock!TypeOK
  /\ step \in [Procs -> Steps]
  /\ call \in [Procs -> Calls]
  /\ loaded \in [Procs -> Payloads]

\* "duplicate signatures are rejected" (README.md:169): whatever the writers
\* interleave, lose or leave behind, no signature is in the file twice.
UniqueSignatures ==
  \A i, j \in DOMAIN evidence.records :
    evidence.records[i] = evidence.records[j] => i = j

\* Heartbeats of any number of processes never count a stretch of time twice:
\* the runtime is at most the time from the start of the campaign to the last
\* heartbeat, which is not in the future.
RuntimeWithinWallClock ==
  /\ evidence.last <= clock
  /\ evidence.runtime <= IF evidence.last = NoBeat THEN 0 ELSE evidence.last

\* The file implements the ledger: each replacement is one atomic append or
\* heartbeat on the content it replaces, and nothing else changes it.  No
\* update is lost, and a failed or killed call changes nothing or all.
Ledger == INSTANCE EvidenceLedger WITH ledger <- evidence
ImplementsLedger == Ledger!Spec
=============================================================================
