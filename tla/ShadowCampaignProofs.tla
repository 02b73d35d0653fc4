------------------------ MODULE ShadowCampaignProofs ------------------------
(***************************************************************************)
(* What holds of the evidence file and of every campaign that uses it,     *)
(* whatever its attempts, observers, signatures and times.                 *)
(*                                                                         *)
(* First the store.  The heart of it is Fresh: what a writer has loaded is *)
(* what the file still contains when it saves.  It rests on the lock (at   *)
(* most one writer between the load and the end of the call), and with it  *)
(* each replacement is an atomic change of the current content.            *)
(*                                                                         *)
(* Then the campaign.  It uses the store as its specification says, so     *)
(* what is proved of the store holds of it.  RecordInv, about the record   *)
(* of an attempt before and after its save, rests on two locks: the        *)
(* attempt lock keeps the other attempts out between the duplicate check   *)
(* and the save, the write lock keeps observers from undoing it.  Seen at  *)
(* their paths, both locks fail closed in every campaign.                  *)
(***************************************************************************)
EXTENDS ShadowCampaign, TLAPS

----------------------------------------------------------------------------
\* The store.

LockProofs == INSTANCE AttemptLockProofs WITH file <- writeLock, phase <- wphase,
                                              disturbed <- FALSE,
                                              broken <- {}

\* Where a writer stands in its call, it stands in the lock.
Aligned ==
  \A p \in Procs :
    /\ step[p] \in {"idle", "ok"} => wphase[p] = "out"
    /\ step[p] = "called" => wphase[p] \in {"out", "created", "held"}
    /\ step[p] = "loaded" => wphase[p] = "held"
    /\ step[p] \in {"saved", "failed"} => wphase[p] \in {"held", "matched"}
    /\ step[p] = "error" => wphase[p] \in {"out", "raised"}

Fresh == \A p \in Procs : step[p] = "loaded" => loaded[p] = evidence

\* No heartbeat under way is from the future.
CallsInThePast == \A p \in Procs : call[p].kind = "heartbeat" => call[p].at <= clock

\* Everything but the state of the lock.
StoreShape ==
  /\ clock \in Times
  /\ evidence \in Payloads
  /\ step \in [Procs -> Steps]
  /\ call \in [Procs -> Calls]
  /\ loaded \in [Procs -> Payloads]

StoreInv ==
  /\ StoreShape
  /\ LockProofs!LockInv
  /\ Aligned
  /\ Fresh
  /\ CallsInThePast
  /\ UniqueSignatures
  /\ RuntimeWithinWallClock

----------------------------------------------------------------------------
(* The write lock.                                                         *)

\* The actions of the lock keep its invariant.
LEMMA LockStep ==
  ASSUME LockProofs!LockInv, [Lock!Next]_<<writeLock, wphase>>
  PROVE  LockProofs!LockInv'
BY LockProofs!NextLockInv, NobodyIsNoProc
   DEF Lock!vars, Lock!Next, Lock!Enter, Lock!Exit,
       Lock!Open, Lock!Refuse, Lock!Write, Lock!WriteFails,
       Lock!ExitReads, Lock!ExitRefuses, Lock!Unlink, Lock!UnlinkFails,
       Lock!Retry, Lock!Crash, Lock!OperatorClearsOrphan, Lock!Move,
       Lock!Orderly, Lock!Breaks, Lock!CleanupFails, Lock!ReleaseErrors,
       Lock!ExitUnreadable, Lock!UnlinkErrors, Lock!Left, Lock!Standing,
       Lock!Owns, Lock!Absent,
       LockProofs!vars, LockProofs!Next, LockProofs!Enter, LockProofs!Exit,
       LockProofs!Open, LockProofs!Refuse, LockProofs!Write, LockProofs!WriteFails,
       LockProofs!ExitReads, LockProofs!ExitRefuses, LockProofs!Unlink, LockProofs!UnlinkFails,
       LockProofs!Retry, LockProofs!Crash, LockProofs!OperatorClearsOrphan, LockProofs!Move,
       LockProofs!Orderly, LockProofs!Breaks, LockProofs!CleanupFails, LockProofs!ReleaseErrors,
       LockProofs!ExitUnreadable, LockProofs!UnlinkErrors, LockProofs!Left, LockProofs!Standing,
       LockProofs!Owns, LockProofs!Absent

LockAction(p) ==
  \/ Lock!Open(p) \/ Lock!Write(p) \/ Lock!Refuse(p) \/ Lock!WriteFails(p)
  \/ Lock!ExitReads(p) \/ Lock!ExitRefuses(p) \/ Lock!Unlink(p) \/ Lock!UnlinkFails(p)
  \/ Lock!Retry(p) \/ Lock!Crash(p) \/ Lock!Breaks(p)

\* A writer's step is a step of the lock, or leaves the lock alone.
LEMMA WriterLockStep ==
  ASSUME NEW p \in Procs,
         HeartbeatCall(p) \/ InLock(p) \/ Return(p) \/ WriterDies(p)
           \/ \E s \in Signatures : RecordCall(p, s)
  PROVE  LockAction(p) \/ LockUnchanged
BY DEF LockAction, LockUnchanged, HeartbeatCall, RecordCall, InLock, Acquire, AcquireFails,
       Load, SaveRecord, SaveFirstBeat, SaveBeat, Save, SaveFails, ReleaseReads, Release,
       ReleaseFails, Return, WriterDies, Lock!Breaks

\* Every step of the store is a step of the lock, or leaves the lock alone.
LEMMA StoreLockStep ==
  [StoreNext]_storeVars => [Lock!Next]_<<writeLock, wphase>>
<1> SUFFICES ASSUME [StoreNext]_storeVars PROVE [Lock!Next]_<<writeLock, wphase>>
  OBVIOUS
<1>1. ASSUME NEW p \in Procs, LockAction(p)
      PROVE  Lock!Next
  BY <1>1 DEF LockAction, Lock!Next, Lock!Orderly, Lock!Enter, Lock!Exit
<1>2. CASE OperatorClearsWriteLock
  BY <1>2 DEF OperatorClearsWriteLock, Lock!Next, Lock!Orderly
<1>3. CASE Tick \/ UNCHANGED storeVars
  BY <1>3 DEF Tick, storeVars
<1> QED
  BY <1>1, <1>2, <1>3, WriterLockStep DEF StoreNext, LockUnchanged

----------------------------------------------------------------------------
(* The shape of the state.                                                 *)

\* A call carries the argument of its kind.
LEMMA CallArguments ==
  ASSUME StoreShape, NEW p \in Procs
  PROVE  /\ Beating(p) => call[p].at \in Times /\ call[p].at \in Nat
         /\ Recording(p) => call[p].sig \in Signatures
<1>1. call[p] \in Calls
  BY DEF StoreShape
<1>2. Beating(p) => call[p] \in [kind : {"heartbeat"}, at : Times]
  BY <1>1 DEF Calls, NoCall, Beating
<1>3. Recording(p) => call[p] \in [kind : {"record"}, sig : Signatures]
  BY <1>1 DEF Calls, NoCall, Recording
<1>4. Beating(p) => call[p].at \in Times
  BY <1>2
<1>5. Recording(p) => call[p].sig \in Signatures
  BY <1>3
<1> QED
  BY <1>4, <1>5, TimesAssumption

\* What a writer installs is a payload.
LEMMA SavedPayload ==
  ASSUME StoreShape, CallsInThePast, NEW p \in Procs,
         SaveRecord(p) \/ SaveFirstBeat(p) \/ SaveBeat(p)
  PROVE  evidence' \in Payloads
<1> USE TimesAssumption DEF StoreShape, Calls, NoCall, Save, Goto
<1>1. loaded[p] \in Payloads /\ call[p] \in Calls
  OBVIOUS
<1>2. CASE SaveRecord(p)
  <2>1. call[p].sig \in Signatures
    BY <1>2 DEF SaveRecord, Recording
  <2>2. Append(loaded[p].records, call[p].sig) \in Seq(Signatures)
    BY <2>1 DEF Payloads
  <2> QED
    BY <1>2, <2>2 DEF SaveRecord, Payloads
<1>3. CASE SaveFirstBeat(p)
  <2>1. call[p].at \in Nat
    BY <1>3 DEF SaveFirstBeat, Beating
  <2> QED
    BY <1>3, <2>1 DEF SaveFirstBeat, Payloads
<1>4. CASE SaveBeat(p)
  <2>1. call[p].at \in Nat
    BY <1>4 DEF SaveBeat, Beating
  <2>2. loaded[p].last \in Nat /\ Elapsed(p) \in Nat
    BY <1>4, <2>1 DEF SaveBeat, Payloads, Elapsed
  <2> DEFINE counted == IF Elapsed(p) <= MaxGap THEN loaded[p].runtime + Elapsed(p)
                        ELSE loaded[p].runtime
  <2>3. counted \in Nat
    BY <2>2, MaxGapAssumption DEF Payloads
  <2>4. evidence' = [loaded[p] EXCEPT !.last = call[p].at, !.runtime = counted]
    BY <1>4 DEF SaveBeat
  <2> HIDE DEF counted
  <2> QED
    BY <2>1, <2>3, <2>4 DEF Payloads
<1> QED
  BY <1>2, <1>3, <1>4

\* Every step keeps the shape of the state.
LEMMA NextShape ==
  ASSUME StoreShape, CallsInThePast, [StoreNext]_storeVars
  PROVE  StoreShape' /\ CallsInThePast'
<1> USE DEF StoreShape, CallsInThePast, Steps, Calls, NoCall, Goto
<1>0. NoEvidence \in Payloads
  BY DEF NoEvidence, Payloads
<1>1. ASSUME NEW p \in Procs, HeartbeatCall(p) \/ (\E s \in Signatures : RecordCall(p, s))
      PROVE  StoreShape' /\ CallsInThePast'
  BY <1>1, TimesAssumption DEF HeartbeatCall, RecordCall
<1>2. ASSUME NEW p \in Procs, InLock(p)
      PROVE  StoreShape' /\ CallsInThePast'
  <2>1. CASE SaveRecord(p) \/ SaveFirstBeat(p) \/ SaveBeat(p)
    <3>1. /\ UNCHANGED <<clock, call, loaded>>
          /\ step' = [step EXCEPT ![p] = "saved"]
      <4>1. CASE SaveRecord(p)
        BY <4>1 DEF SaveRecord, Save
      <4>2. CASE SaveFirstBeat(p)
        BY <4>2 DEF SaveFirstBeat, Save
      <4>3. CASE SaveBeat(p)
        BY <4>3 DEF SaveBeat, Save
      <4> QED
        BY <2>1, <4>1, <4>2, <4>3
    <3>2. evidence' \in Payloads
      BY <2>1, SavedPayload
    <3>3. step' \in [Procs -> Steps]
      BY <3>1
    <3> QED
      BY <3>1, <3>2, <3>3
  <2>2. CASE Acquire(p) \/ AcquireFails(p)
    BY <2>2 DEF Acquire, AcquireFails
  <2>3. CASE Load(p)
    BY <2>3 DEF Load
  <2>4. CASE SaveFails(p) \/ ReleaseReads(p) \/ Release(p) \/ ReleaseFails(p)
    BY <2>4 DEF SaveFails, ReleaseReads, Release, ReleaseFails
  <2> QED
    BY <1>2, <2>1, <2>2, <2>3, <2>4 DEF InLock
<1>3. ASSUME NEW p \in Procs, Return(p) \/ WriterDies(p)
      PROVE  StoreShape' /\ CallsInThePast'
  BY <1>3, <1>0 DEF Return, WriterDies
<1>4. CASE Tick
  <2>1. clock \in Nat /\ clock' = clock + 1 /\ clock' \in Times
    BY <1>4, TimesAssumption DEF Tick
  <2>2. UNCHANGED <<evidence, step, call, loaded>>
    BY <1>4 DEF Tick
  <2>3. \A p \in Procs : call[p].kind = "heartbeat" => call[p].at \in Nat
    BY CallArguments DEF Beating
  <2>4. CallsInThePast'
    BY <2>1, <2>2, <2>3
  <2> QED
    BY <2>1, <2>2, <2>4
<1>5. CASE OperatorClearsWriteLock \/ UNCHANGED storeVars
  BY <1>5 DEF OperatorClearsWriteLock, storeVars
<1> QED
  BY <1>1, <1>2, <1>3, <1>4, <1>5 DEF StoreNext

----------------------------------------------------------------------------
(* Where the writers stand, and what they have loaded.                     *)

\* Every step leaves a writer in its call where it stands in the lock.
LEMMA NextAligned ==
  ASSUME StoreInv, [StoreNext]_storeVars
  PROVE  Aligned'
<1> USE DEF StoreInv, StoreShape, Aligned, Steps, Goto, LockUnchanged,
            LockProofs!LockInv, LockProofs!TypeOK, LockProofs!Phases
<1>1. ASSUME NEW p \in Procs, HeartbeatCall(p) \/ (\E s \in Signatures : RecordCall(p, s))
      PROVE  Aligned'
  BY <1>1 DEF HeartbeatCall, RecordCall
<1>2. ASSUME NEW p \in Procs, Acquire(p) \/ AcquireFails(p)
      PROVE  Aligned'
  BY <1>2 DEF Acquire, AcquireFails, Lock!Open, Lock!Write, Lock!Refuse, Lock!WriteFails,
              Lock!CleanupFails, Lock!Move
<1>3. ASSUME NEW p \in Procs,
             Load(p) \/ SaveRecord(p) \/ SaveFirstBeat(p) \/ SaveBeat(p) \/ SaveFails(p)
      PROVE  Aligned'
  BY <1>3 DEF Load, SaveRecord, SaveFirstBeat, SaveBeat, Save, SaveFails
<1>4. ASSUME NEW p \in Procs, ReleaseReads(p) \/ Release(p) \/ ReleaseFails(p)
      PROVE  Aligned'
  BY <1>4 DEF ReleaseReads, Release, ReleaseFails, Lock!ExitReads, Lock!ExitRefuses,
              Lock!ReleaseErrors, Lock!ExitUnreadable, Lock!UnlinkErrors,
              Lock!Unlink, Lock!UnlinkFails, Lock!Move
<1>5. ASSUME NEW p \in Procs, Return(p) \/ WriterDies(p)
      PROVE  Aligned'
  BY <1>5 DEF Return, WriterDies, Lock!Retry, Lock!Crash, Lock!Move
<1>6. CASE Tick \/ OperatorClearsWriteLock \/ UNCHANGED storeVars
  BY <1>6 DEF Tick, OperatorClearsWriteLock, Lock!OperatorClearsOrphan, storeVars
<1> QED
  BY <1>1, <1>2, <1>3, <1>4, <1>5, <1>6 DEF StoreNext, InLock

\* Two writers never stand between load and save at once.
LEMMA OneWriter ==
  ASSUME StoreInv, NEW p \in Procs, NEW q \in Procs,
         step[p] = "loaded", step[q] = "loaded"
  PROVE  p = q
<1>1. LockProofs!Inside(p) /\ LockProofs!Inside(q)
  BY DEF StoreInv, Aligned, LockProofs!Inside
<1>2. LockProofs!MutualExclusion
  BY LockProofs!LockInvExclusive, NobodyIsNoProc DEF StoreInv
<1> QED
  BY <1>1, <1>2 DEF LockProofs!MutualExclusion

\* No step makes what a writer has loaded stale: nobody else saves meanwhile.
LEMMA NextFresh ==
  ASSUME StoreInv, [StoreNext]_storeVars
  PROVE  Fresh'
<1> USE DEF StoreInv, StoreShape, Fresh, Steps, Goto
<1>1. ASSUME NEW p \in Procs,
             HeartbeatCall(p) \/ Acquire(p) \/ AcquireFails(p) \/ SaveFails(p)
               \/ ReleaseReads(p) \/ Release(p) \/ ReleaseFails(p)
               \/ (\E s \in Signatures : RecordCall(p, s))
      PROVE  Fresh'
  BY <1>1 DEF HeartbeatCall, Acquire, AcquireFails, SaveFails, ReleaseReads, Release, ReleaseFails,
              RecordCall
<1>2. ASSUME NEW p \in Procs, Load(p)
      PROVE  Fresh'
  BY <1>2 DEF Load
<1>3. ASSUME NEW p \in Procs, SaveRecord(p) \/ SaveFirstBeat(p) \/ SaveBeat(p)
      PROVE  Fresh'
  <2>1. step[p] = "loaded" /\ step' = [step EXCEPT ![p] = "saved"]
    BY <1>3 DEF SaveRecord, SaveFirstBeat, SaveBeat, Save
  <2>2. \A q \in Procs : step'[q] # "loaded"
    BY <2>1, OneWriter
  <2> QED
    BY <2>2
<1>4. ASSUME NEW p \in Procs, Return(p) \/ WriterDies(p)
      PROVE  Fresh'
  BY <1>4 DEF Return, WriterDies
<1>5. CASE Tick \/ OperatorClearsWriteLock \/ UNCHANGED storeVars
  BY <1>5 DEF Tick, OperatorClearsWriteLock, storeVars
<1> QED
  BY <1>1, <1>2, <1>3, <1>4, <1>5 DEF StoreNext, InLock

----------------------------------------------------------------------------
(* The content of the file.                                                *)

\* Only a save changes the file, and it changes what the file contains now.
LEMMA EvidenceStep ==
  ASSUME StoreInv, [StoreNext]_storeVars, evidence' # evidence
  PROVE  \E p \in Procs : /\ SaveRecord(p) \/ SaveFirstBeat(p) \/ SaveBeat(p)
                          /\ loaded[p] = evidence
                          /\ UNCHANGED <<clock, call>>
<1>1. PICK p \in Procs : SaveRecord(p) \/ SaveFirstBeat(p) \/ SaveBeat(p)
  BY DEF StoreNext, InLock, HeartbeatCall, Acquire, AcquireFails, SaveFails, ReleaseReads,
         Release, ReleaseFails, RecordCall, Load, Return, WriterDies, Tick,
         OperatorClearsWriteLock, storeVars
<1>2. step[p] = "loaded" /\ UNCHANGED <<clock, call>>
  BY <1>1 DEF SaveRecord, SaveFirstBeat, SaveBeat, Save, Goto
<1> QED
  BY <1>1, <1>2 DEF StoreInv, Fresh

\* The three ways the file changes, as changes of its content.
LEMMA EvidenceChange ==
  ASSUME StoreInv, [StoreNext]_storeVars, evidence' # evidence
  PROVE  \/ \E s \in Signatures :
              /\ ~Contains(evidence, s)
              /\ evidence' = [evidence EXCEPT !.records = Append(@, s)]
         \/ \E t \in Times :
              /\ t <= clock
              /\ evidence.last = NoBeat
              /\ evidence' = [evidence EXCEPT !.last = t]
         \/ \E t \in Times :
              /\ t <= clock
              /\ evidence.last # NoBeat
              /\ t - evidence.last >= 0
              /\ evidence' = [evidence EXCEPT
                   !.last = t,
                   !.runtime = IF t - evidence.last <= MaxGap THEN @ + (t - evidence.last)
                               ELSE @]
<1>1. PICK p \in Procs : /\ SaveRecord(p) \/ SaveFirstBeat(p) \/ SaveBeat(p)
                         /\ loaded[p] = evidence
  BY EvidenceStep
<1>2. Beating(p) => call[p].at \in Times /\ call[p].at <= clock
  BY CallArguments DEF StoreInv, CallsInThePast, Beating
<1>3. CASE SaveRecord(p)
  <2>1. call[p].sig \in Signatures
    BY <1>3, CallArguments DEF SaveRecord, StoreInv
  <2>2. /\ ~Contains(evidence, call[p].sig)
        /\ evidence' = [evidence EXCEPT !.records = Append(@, call[p].sig)]
    BY <1>1, <1>3 DEF SaveRecord, Save
  <2> QED
    BY <2>1, <2>2
<1>4. CASE SaveFirstBeat(p)
  BY <1>1, <1>2, <1>4 DEF SaveFirstBeat, Save
<1>5. CASE SaveBeat(p)
  <2> DEFINE t == call[p].at
  <2>1. t \in Times /\ t <= clock
    BY <1>2, <1>5 DEF SaveBeat
  <2>2. /\ evidence.last # NoBeat
        /\ t - evidence.last >= 0
        /\ evidence' = [evidence EXCEPT
             !.last = t,
             !.runtime = IF t - evidence.last <= MaxGap THEN @ + (t - evidence.last) ELSE @]
    BY <1>1, <1>5 DEF SaveBeat, Elapsed, Save
  <2> QED
    BY <2>1, <2>2
<1> QED
  BY <1>1, <1>3, <1>4, <1>5

\* Every change of the file keeps the signatures unique.
LEMMA NextUnique ==
  ASSUME StoreInv, [StoreNext]_storeVars
  PROVE  UniqueSignatures'
<1>1. CASE evidence' = evidence
  BY <1>1 DEF StoreInv, UniqueSignatures
<1>2. ASSUME NEW s \in Signatures, ~Contains(evidence, s),
             evidence' = [evidence EXCEPT !.records = Append(@, s)]
      PROVE  UniqueSignatures'
  <2> DEFINE r == evidence.records
  <2>1. r \in Seq(Signatures)
    BY DEF StoreInv, StoreShape, Payloads
  <2>2. evidence'.records = Append(r, s)
    BY <1>2 DEF StoreInv, StoreShape, Payloads
  <2>3. \A i \in DOMAIN r : r[i] # s
    BY <1>2 DEF Contains
  <2>4. \A i, j \in DOMAIN r : r[i] = r[j] => i = j
    BY DEF StoreInv, UniqueSignatures
  <2>5. \A i, j \in DOMAIN Append(r, s) : Append(r, s)[i] = Append(r, s)[j] => i = j
    <3> HIDE DEF r
    <3> QED
      BY <2>1, <2>3, <2>4
  <2> QED
    BY <2>2, <2>5 DEF UniqueSignatures
<1>3. CASE evidence'.records = evidence.records
  BY <1>3 DEF StoreInv, UniqueSignatures
<1>4. CASE evidence' # evidence
  <2>1. ASSUME NEW t, NEW r, evidence' = [evidence EXCEPT !.last = t, !.runtime = r]
        PROVE  evidence'.records = evidence.records
    BY <2>1 DEF StoreInv, StoreShape, Payloads
  <2>2. ASSUME NEW t, evidence' = [evidence EXCEPT !.last = t]
        PROVE  evidence'.records = evidence.records
    BY <2>2 DEF StoreInv, StoreShape, Payloads
  <2> QED
    BY <1>4, EvidenceChange, <1>2, <1>3, <2>1, <2>2
<1> QED
  BY <1>1, <1>4

\* Every change of the file keeps the runtime within the wall clock.
LEMMA NextRuntime ==
  ASSUME StoreInv, [StoreNext]_storeVars
  PROVE  RuntimeWithinWallClock'
<1>1. clock \in Nat /\ clock' \in Nat /\ clock' >= clock
  <2>1. clock \in Nat
    BY TimesAssumption DEF StoreInv, StoreShape
  <2>2. clock' = clock \/ clock' = clock + 1
    BY DEF StoreNext, InLock, HeartbeatCall, Acquire, AcquireFails, SaveFails, ReleaseReads,
           Release, ReleaseFails, RecordCall, Load, Return, WriterDies, Tick, SaveRecord,
           SaveFirstBeat, SaveBeat, Save, OperatorClearsWriteLock, storeVars
  <2> QED
    BY <2>1, <2>2
<1>2. /\ evidence \in Payloads
      /\ evidence.last \in Int /\ evidence.runtime \in Int
      /\ evidence.last = NoBeat \/ evidence.last \in Nat
      /\ evidence.last <= clock
      /\ evidence.last = NoBeat => evidence.runtime <= 0
      /\ evidence.last # NoBeat => evidence.runtime <= evidence.last
  BY DEF StoreInv, StoreShape, Payloads, RuntimeWithinWallClock, NoBeat
<1>3. CASE evidence' = evidence
  BY <1>1, <1>2, <1>3 DEF RuntimeWithinWallClock, NoBeat
<1>4. ASSUME NEW s, evidence' = [evidence EXCEPT !.records = Append(@, s)]
      PROVE  RuntimeWithinWallClock'
  <2>1. evidence'.last = evidence.last /\ evidence'.runtime = evidence.runtime
    BY <1>2, <1>4 DEF Payloads
  <2> QED
    BY <1>1, <1>2, <2>1 DEF RuntimeWithinWallClock, NoBeat
<1>5. ASSUME NEW t \in Times, t <= clock, evidence.last = NoBeat,
             evidence' = [evidence EXCEPT !.last = t]
      PROVE  RuntimeWithinWallClock'
  <2>1. evidence'.last = t /\ evidence'.runtime = evidence.runtime /\ t \in Nat
    BY <1>2, <1>5, TimesAssumption DEF Payloads
  <2> QED
    BY <1>1, <1>2, <1>5, <2>1 DEF RuntimeWithinWallClock, NoBeat
<1>6. ASSUME NEW t \in Times, t <= clock, evidence.last # NoBeat, t - evidence.last >= 0,
             NEW r, evidence' = [evidence EXCEPT !.last = t, !.runtime = r],
             r = evidence.runtime \/ r = evidence.runtime + (t - evidence.last)
      PROVE  RuntimeWithinWallClock'
  <2>1. evidence'.last = t /\ evidence'.runtime = r /\ t \in Nat
    BY <1>2, <1>6, TimesAssumption DEF Payloads
  <2> QED
    BY <1>1, <1>2, <1>6, <2>1 DEF RuntimeWithinWallClock, NoBeat
<1> QED
  BY <1>3, <1>4, <1>5, <1>6, EvidenceChange

----------------------------------------------------------------------------
(* The theorems.                                                           *)

\* The empty store satisfies the invariant.
LEMMA InitStoreInv == StoreInit => StoreInv
<1> SUFFICES ASSUME StoreInit PROVE StoreInv
  OBVIOUS
<1>1. StoreShape
  <2>1. NoEvidence \in Payloads
    BY DEF NoEvidence, Payloads
  <2> QED
    BY <2>1, TimesAssumption DEF StoreInit, StoreShape, Steps, Calls
<1>2. LockProofs!LockInv
  BY LockProofs!InitLockInv, NobodyIsNoProc
     DEF StoreInit, Lock!Init, LockProofs!Init, Lock!Absent, LockProofs!Absent
<1>3. Aligned /\ Fresh /\ CallsInThePast
  BY DEF StoreInit, Aligned, Fresh, CallsInThePast, Lock!Init, NoCall
<1>4. UniqueSignatures /\ RuntimeWithinWallClock
  BY DEF StoreInit, UniqueSignatures, RuntimeWithinWallClock, NoEvidence, NoBeat
<1> QED
  BY <1>1, <1>2, <1>3, <1>4 DEF StoreInv

\* Every step of the store keeps the invariant.
LEMMA NextStoreInv == StoreInv /\ [StoreNext]_storeVars => StoreInv'
<1> SUFFICES ASSUME StoreInv, [StoreNext]_storeVars PROVE StoreInv'
  OBVIOUS
<1>1. StoreShape' /\ CallsInThePast'
  BY NextShape DEF StoreInv
<1>2. LockProofs!LockInv'
  BY StoreLockStep, LockStep DEF StoreInv
<1> QED
  BY <1>1, <1>2, NextAligned, NextFresh, NextUnique, NextRuntime DEF StoreInv

\* The invariant holds in every state of the store.
LEMMA StoreInvariant == StoreSpec => []StoreInv
BY InitStoreInv, NextStoreInv, PTL DEF StoreSpec

\* Every variable keeps its type.
THEOREM StoreTypeCorrect == StoreSpec => []StoreTypeOK
<1>1. StoreInv => StoreTypeOK
  BY DEF StoreInv, StoreShape, StoreTypeOK, LockProofs!LockInv, LockProofs!TypeOK,
         Lock!TypeOK, LockProofs!Phases, Lock!Phases
<1> QED
  BY <1>1, StoreInvariant, PTL

\* No interleaving of writers puts a signature into the file twice.
THEOREM SignaturesStayUnique == StoreSpec => []UniqueSignatures
<1>1. StoreInv => UniqueSignatures
  BY DEF StoreInv
<1> QED
  BY <1>1, StoreInvariant, PTL

\* No interleaving of heartbeats counts a stretch of time twice.
THEOREM RuntimeNeverOvercounts == StoreSpec => []RuntimeWithinWallClock
<1>1. StoreInv => RuntimeWithinWallClock
  BY DEF StoreInv
<1> QED
  BY <1>1, StoreInvariant, PTL

\* The evidence file implements the ledger: every replacement of the file is
\* one step of the ledger, on the content that is replaced.
THEOREM StoreImplementsLedger == StoreSpec => ImplementsLedger
<1>1. StoreInit => Ledger!Init
  BY DEF StoreInit, Ledger!Init, Ledger!EmptyLedger, NoEvidence, NoBeat, Ledger!NoBeat
<1>2. StoreInv /\ [StoreNext]_storeVars => [Ledger!Next]_evidence
  <2> SUFFICES ASSUME StoreInv, [StoreNext]_storeVars, evidence' # evidence
               PROVE  Ledger!Next
    OBVIOUS
  <2>1. evidence \in Payloads
    BY DEF StoreInv, StoreShape
  <2>2. ASSUME NEW s \in Signatures, ~Contains(evidence, s),
               evidence' = [evidence EXCEPT !.records = Append(@, s)]
        PROVE  Ledger!Next
    BY <2>2 DEF Contains, Ledger!Next, Ledger!Record, Ledger!Recorded
  <2>3. ASSUME NEW t \in Times, evidence.last = NoBeat,
               evidence' = [evidence EXCEPT !.last = t]
        PROVE  Ledger!Next
    BY <2>3 DEF Ledger!Next, Ledger!FirstBeat, NoBeat, Ledger!NoBeat
  <2>4. ASSUME NEW t \in Times, evidence.last # NoBeat, t - evidence.last >= 0,
               evidence' = [evidence EXCEPT
                 !.last = t,
                 !.runtime = IF t - evidence.last <= MaxGap THEN @ + (t - evidence.last)
                             ELSE @]
        PROVE  Ledger!Next
    <3>1. t \in Nat /\ evidence.last \in Nat /\ MaxGap \in Nat
      BY <2>1, <2>4, TimesAssumption, MaxGapAssumption DEF Payloads
    <3>2. CASE t - evidence.last <= MaxGap
      <4>1. t - evidence.last \in 0..MaxGap
        BY <2>4, <3>1, <3>2
      <4>2. evidence' = [evidence EXCEPT !.last = t, !.runtime = @ + (t - evidence.last)]
        BY <2>4, <3>2
      <4>3. Ledger!CoveringBeat(t)
        BY <2>4, <4>1, <4>2 DEF Ledger!CoveringBeat, NoBeat, Ledger!NoBeat
      <4> QED
        BY <2>4, <4>3 DEF Ledger!Next
    <3>3. CASE ~(t - evidence.last <= MaxGap)
      <4>1. t - evidence.last > MaxGap
        BY <3>1, <3>3
      <4>2. evidence' = [evidence EXCEPT !.last = t]
        BY <2>1, <2>4, <3>3 DEF Payloads
      <4>3. Ledger!LateBeat(t)
        BY <2>4, <4>1, <4>2 DEF Ledger!LateBeat, NoBeat, Ledger!NoBeat
      <4> QED
        BY <2>4, <4>3 DEF Ledger!Next
    <3> QED
      BY <3>2, <3>3
  <2> QED
    BY <2>2, <2>3, <2>4, EvidenceChange
<1> QED
  BY <1>1, <1>2, StoreInvariant, PTL DEF StoreSpec, ImplementsLedger, Ledger!Spec

----------------------------------------------------------------------------
\* The campaign.

\* A running attempt has a trigger signature.
TriggerInv ==
  /\ stage \in [Attempts -> Stages]
  /\ trigger \in [Attempts -> Signatures \cup {NoTrigger}]
  /\ \A a \in Attempts : Running(a) => trigger[a] \in Signatures

LEMMA InitTriggerInv == Init => TriggerInv
BY DEF Init, TriggerInv, Running, Ended, Stages

LEMMA NextTriggerInv == TriggerInv /\ [Next]_vars => TriggerInv'
<1> SUFFICES ASSUME TriggerInv, [Next]_vars PROVE TriggerInv'
  OBVIOUS
<1> USE DEF TriggerInv, Running, Ended, Stages, ToStage
<1>1. ASSUME NEW a \in Attempts, AttemptStep(a)
      PROVE  TriggerInv'
  <2>1. CASE EnterAttempt(a) \/ EnterAttemptFails(a) \/ CheckDuplicate(a)
    BY <2>1 DEF EnterAttempt, EnterAttemptFails, CheckDuplicate
  <2>2. CASE FirstHeartbeat(a) \/ AttemptGivesUp(a) \/ RecordEvidence(a) \/ SecondHeartbeat(a)
    BY <2>2 DEF FirstHeartbeat, AttemptGivesUp, RecordEvidence, SecondHeartbeat
  <2>3. CASE CallReturns(a)
    BY <2>3 DEF CallReturns
  <2>4. CASE LeaveReads(a) \/ Leave(a) \/ LeaveFails(a)
    BY <2>4 DEF LeaveReads, Leave, LeaveFails
  <2> QED
    BY <1>1, <2>1, <2>2, <2>3, <2>4 DEF AttemptStep
<1>2. ASSUME NEW a \in Attempts, AttemptDies(a)
      PROVE  TriggerInv'
  BY <1>2 DEF AttemptDies
<1>3. ASSUME NEW a \in Attempts, NEW s \in Signatures, Launch(a, s)
      PROVE  TriggerInv'
  BY <1>3 DEF Launch
<1>4. CASE UNCHANGED <<stage, trigger>>
  BY <1>4
<1>5. ASSUME NEW o \in Observers,
             ObserverStarts(o) \/ ObserverBeats(o) \/ ObserverReturns(o) \/ ObserverDies(o)
      PROVE  UNCHANGED <<stage, trigger>>
  BY <1>5 DEF ObserverStarts, ObserverBeats, ObserverReturns, ObserverDies, attemptVars
<1>6. ASSUME NEW p \in Procs, StoreStep(p)
      PROVE  UNCHANGED <<stage, trigger>>
  BY <1>6 DEF StoreStep, attemptVars
<1>7. CASE \/ OperatorClearsWriteLock /\ UNCHANGED <<attemptVars, beatAt>>
           \/ OperatorClearsAttemptLock \/ TimePasses \/ UNCHANGED vars
  BY <1>4, <1>7 DEF OperatorClearsAttemptLock, TimePasses, attemptVars, vars
<1> QED
  BY <1>1, <1>2, <1>3, <1>4, <1>5, <1>6, <1>7 DEF Next

\* Every step of an attempt is a step of the store or does not touch it.
LEMMA AttemptUsesStore ==
  ASSUME TriggerInv, NEW a \in Attempts, AttemptStep(a) \/ AttemptDies(a)
  PROVE  StoreNext \/ UNCHANGED storeVars
<1> a \in Procs
  BY ProcsAssumption
<1>1. CASE EnterAttempt(a) \/ EnterAttemptFails(a) \/ LeaveReads(a) \/ Leave(a) \/ LeaveFails(a)
  BY <1>1 DEF EnterAttempt, EnterAttemptFails, LeaveReads, Leave, LeaveFails
<1>2. CASE CheckDuplicate(a) \/ AttemptGivesUp(a)
  BY <1>2 DEF CheckDuplicate, AttemptGivesUp
<1>3. CASE FirstHeartbeat(a) \/ SecondHeartbeat(a)
  <2>1. HeartbeatCall(a)
    BY <1>3 DEF FirstHeartbeat, SecondHeartbeat
  <2> QED
    BY <2>1 DEF StoreNext
<1>4. CASE RecordEvidence(a)
  <2>1. trigger[a] \in Signatures
    BY <1>4 DEF RecordEvidence, ToStage, TriggerInv, Running, Ended
  <2>2. RecordCall(a, trigger[a])
    BY <1>4 DEF RecordEvidence
  <2> QED
    BY <2>1, <2>2 DEF StoreNext
<1>5. CASE CallReturns(a)
  <2>1. Return(a)
    BY <1>5 DEF CallReturns
  <2> QED
    BY <2>1 DEF StoreNext
<1>6. CASE AttemptDies(a)
  <2>1. WriterDies(a) \/ UNCHANGED storeVars
    BY <1>6 DEF AttemptDies
  <2> QED
    BY <2>1 DEF StoreNext
<1> QED
  BY <1>1, <1>2, <1>3, <1>4, <1>5, <1>6 DEF AttemptStep

\* And so is every step of an observer.
LEMMA ObserverUsesStore ==
  ASSUME NEW o \in Observers,
         ObserverStarts(o) \/ ObserverBeats(o) \/ ObserverReturns(o) \/ ObserverDies(o)
  PROVE  StoreNext \/ UNCHANGED storeVars
<1> o \in Procs
  BY ProcsAssumption
<1>1. CASE ObserverStarts(o)
  BY <1>1 DEF ObserverStarts
<1>2. CASE ObserverBeats(o)
  <2>1. HeartbeatCall(o)
    BY <1>2 DEF ObserverBeats
  <2> QED
    BY <2>1 DEF StoreNext
<1>3. CASE ObserverReturns(o)
  <2>1. Return(o)
    BY <1>3 DEF ObserverReturns
  <2> QED
    BY <2>1 DEF StoreNext
<1>4. CASE ObserverDies(o)
  <2>1. WriterDies(o) \/ UNCHANGED storeVars
    BY <1>4 DEF ObserverDies
  <2> QED
    BY <2>1 DEF StoreNext
<1> QED
  BY <1>1, <1>2, <1>3, <1>4

\* Every step of a campaign is a step of the store or does not touch it.
LEMMA CampaignStoreStep ==
  ASSUME TriggerInv, [Next]_vars
  PROVE  [StoreNext]_storeVars
<1> SUFFICES StoreNext \/ UNCHANGED storeVars
  OBVIOUS
<1>1. ASSUME NEW a \in Attempts, NEW s \in Signatures, Launch(a, s)
      PROVE  UNCHANGED storeVars
  BY <1>1 DEF Launch
<1>2. ASSUME NEW p \in Procs, StoreStep(p)
      PROVE  StoreNext
  BY <1>2 DEF StoreStep, StoreNext
<1>3. CASE OperatorClearsWriteLock \/ OperatorClearsAttemptLock
  BY <1>3 DEF StoreNext, OperatorClearsAttemptLock
<1>4. CASE TimePasses
  BY <1>4 DEF StoreNext, TimePasses
<1>5. CASE UNCHANGED vars
  BY <1>5 DEF vars
<1> QED
  BY <1>1, <1>2, <1>3, <1>4, <1>5, AttemptUsesStore, ObserverUsesStore DEF Next

\* A campaign is a behaviour of the store: the attempts and the observers are
\* writers that call record() and heartbeat(), and nothing else reaches it.
THEOREM CampaignUsesStore == Spec => StoreSpec
<1>1. Init => StoreInit
  BY DEF Init
<1>2. TriggerInv /\ [Next]_vars => [StoreNext]_storeVars
  BY CampaignStoreStep
<1> QED
  BY <1>1, <1>2, InitTriggerInv, NextTriggerInv, PTL DEF Spec, StoreSpec

\* "duplicate signatures are rejected" (README.md:169), in every campaign.
THEOREM CampaignSignaturesUnique == Spec => []UniqueSignatures
BY CampaignUsesStore, SignaturesStayUnique, PTL

\* The 72-hour gate is never reached early: the runtime of a campaign stays
\* within the wall clock.
THEOREM CampaignRuntime == Spec => []RuntimeWithinWallClock
BY CampaignUsesStore, RuntimeNeverOvercounts, PTL

\* The evidence file of a campaign implements the atomic ledger.
THEOREM CampaignImplementsLedger == Spec => ImplementsLedger
BY CampaignUsesStore, StoreImplementsLedger

----------------------------------------------------------------------------
(* The attempt lock around the attempts.                                   *)

AttemptProofs == INSTANCE AttemptLockProofs
                   WITH Procs <- Attempts, file <- attemptLock, phase <- aphase,
                        disturbed <- FALSE, broken <- {}

\* The names of the lock's actions under either instance.
LEMMA AttemptLockStep ==
  ASSUME AttemptProofs!LockInv, [Attempt!Next]_<<attemptLock, aphase>>
  PROVE  AttemptProofs!LockInv'
BY AttemptProofs!NextLockInv, NobodyIsNoProc, ProcsAssumption
   DEF Attempt!vars, Attempt!Next, Attempt!Enter, Attempt!Exit,
       Attempt!Open, Attempt!Refuse, Attempt!Write, Attempt!WriteFails,
       Attempt!ExitReads, Attempt!ExitRefuses, Attempt!Unlink, Attempt!UnlinkFails,
       Attempt!Retry, Attempt!Crash, Attempt!OperatorClearsOrphan, Attempt!Move,
       Attempt!Orderly, Attempt!Breaks, Attempt!CleanupFails, Attempt!ReleaseErrors,
       Attempt!ExitUnreadable, Attempt!UnlinkErrors, Attempt!Left, Attempt!Standing,
       Attempt!Owns, Attempt!Absent,
       AttemptProofs!vars, AttemptProofs!Next, AttemptProofs!Enter, AttemptProofs!Exit,
       AttemptProofs!Open, AttemptProofs!Refuse, AttemptProofs!Write,
       AttemptProofs!WriteFails, AttemptProofs!ExitReads, AttemptProofs!ExitRefuses,
       AttemptProofs!Unlink, AttemptProofs!UnlinkFails, AttemptProofs!Retry,
       AttemptProofs!Crash, AttemptProofs!OperatorClearsOrphan, AttemptProofs!Move,
       AttemptProofs!Orderly, AttemptProofs!Breaks, AttemptProofs!CleanupFails,
       AttemptProofs!ReleaseErrors, AttemptProofs!ExitUnreadable,
       AttemptProofs!UnlinkErrors, AttemptProofs!Left, AttemptProofs!Standing,
       AttemptProofs!Owns, AttemptProofs!Absent

\* Every step of a campaign is a step of the attempt lock or leaves it alone.
LEMMA CampaignLockStep == [Next]_vars => [Attempt!Next]_<<attemptLock, aphase>>
<1> SUFFICES ASSUME [Next]_vars PROVE Attempt!Next \/ UNCHANGED <<attemptLock, aphase>>
  OBVIOUS
<1>1. ASSUME NEW a \in Attempts,
             \/ Attempt!Open(a) \/ Attempt!Refuse(a) \/ Attempt!Write(a)
             \/ Attempt!WriteFails(a) \/ Attempt!ExitReads(a) \/ Attempt!ExitRefuses(a)
             \/ Attempt!Unlink(a) \/ Attempt!UnlinkFails(a) \/ Attempt!Retry(a)
             \/ Attempt!Crash(a) \/ Attempt!Breaks(a)
      PROVE  Attempt!Next
  BY <1>1 DEF Attempt!Next, Attempt!Orderly, Attempt!Enter, Attempt!Exit
<1>2. ASSUME NEW a \in Attempts, AttemptStep(a) \/ AttemptDies(a)
      PROVE  Attempt!Next \/ UNCHANGED <<attemptLock, aphase>>
  BY <1>1, <1>2
     DEF AttemptStep, EnterAttempt, EnterAttemptFails, CheckDuplicate, FirstHeartbeat,
         AttemptGivesUp, RecordEvidence, SecondHeartbeat, CallReturns, LeaveReads, Leave,
         LeaveFails, AttemptDies, AttemptLockUnchanged, Attempt!Breaks
<1>3. ASSUME NEW a \in Attempts, NEW s \in Signatures, Launch(a, s)
      PROVE  Attempt!Next \/ UNCHANGED <<attemptLock, aphase>>
  BY <1>1, <1>3 DEF Launch, AttemptLockUnchanged
<1>4. ASSUME NEW o \in Observers,
             ObserverStarts(o) \/ ObserverBeats(o) \/ ObserverReturns(o) \/ ObserverDies(o)
      PROVE  UNCHANGED <<attemptLock, aphase>>
  BY <1>4 DEF ObserverStarts, ObserverBeats, ObserverReturns, ObserverDies, attemptVars
<1>5. ASSUME NEW p \in Procs, StoreStep(p)
      PROVE  UNCHANGED <<attemptLock, aphase>>
  BY <1>5 DEF StoreStep, attemptVars
<1>6. CASE OperatorClearsAttemptLock
  BY <1>6 DEF OperatorClearsAttemptLock, Attempt!Next, Attempt!Orderly
<1>7. CASE \/ OperatorClearsWriteLock /\ UNCHANGED <<attemptVars, beatAt>>
           \/ TimePasses \/ UNCHANGED vars
  BY <1>7 DEF TimePasses, attemptVars, vars
<1> QED
  BY <1>2, <1>3, <1>4, <1>5, <1>6, <1>7 DEF Next

----------------------------------------------------------------------------
(* One attempt at a time, and what it has recorded.                        *)

\* The stages between the duplicate check and the end of the body.
Body == {"fresh", "beat1", "simulating", "recording", "recorded", "beat2"}

\* The body runs inside the attempt lock, and a record under way is the one of
\* its own trigger signature.
CallInv ==
  /\ \A a \in Attempts : stage[a] \in Body => aphase[a] = "held"
  /\ \A a \in Attempts : stage[a] = "recording" => Recording(a) /\ step[a] # "idle"
  /\ \A p \in Procs : Recording(p) =>
       p \in Attempts /\ stage[p] = "recording" /\ call[p].sig = trigger[p]

CampaignShape == StoreInv /\ AttemptProofs!LockInv /\ TriggerInv /\ CallInv

\* An attempt's signature is in the file from its own save on, and not before.
Unsaved(a) ==
  \/ stage[a] \in {"fresh", "beat1", "simulating"}
  \/ stage[a] = "recording" /\ step[a] \in {"called", "loaded"}
Saved(a) ==
  \/ stage[a] \in {"recorded", "beat2", "finished", "done"}
  \/ stage[a] = "recording" /\ step[a] \in {"saved", "ok"}
RecordInv ==
  \A a \in Attempts : /\ Unsaved(a) => ~Contains(evidence, trigger[a])
                      /\ Saved(a) => Contains(evidence, trigger[a])

\* At most one attempt runs the body.
LEMMA OneAttempt ==
  ASSUME CampaignShape, NEW a \in Attempts, NEW b \in Attempts,
         stage[a] \in Body, stage[b] \in Body
  PROVE  a = b
<1>1. AttemptProofs!Inside(a) /\ AttemptProofs!Inside(b)
  BY DEF CampaignShape, CallInv, AttemptProofs!Inside
<1>2. AttemptProofs!MutualExclusion
  BY AttemptProofs!LockInvExclusive, NobodyIsNoProc, ProcsAssumption DEF CampaignShape
<1> QED
  BY <1>1, <1>2 DEF AttemptProofs!MutualExclusion

\* The variables are functions of the processes.
LEMMA Functions ==
  ASSUME CampaignShape
  PROVE  /\ stage \in [Attempts -> Stages]
         /\ trigger \in [Attempts -> Signatures \cup {NoTrigger}]
         /\ aphase \in [Attempts -> AttemptProofs!Phases]
         /\ step \in [Procs -> Steps]
         /\ call \in [Procs -> Calls]
BY DEF CampaignShape, TriggerInv, StoreInv, StoreShape, AttemptProofs!LockInv,
       AttemptProofs!TypeOK

\* Every step of an attempt keeps its body in the lock and its record its own.
LEMMA AttemptCallInv ==
  ASSUME CampaignShape, NEW a \in Attempts, AttemptStep(a) \/ AttemptDies(a)
  PROVE  CallInv'
<1> USE Functions DEF CampaignShape, CallInv, Body, Recording, NoCall
<1> a \in Procs
  BY ProcsAssumption
<1>1. CASE EnterAttempt(a) \/ EnterAttemptFails(a)
  BY <1>1 DEF EnterAttempt, EnterAttemptFails, ToStage, storeVars, Attempt!Open,
              Attempt!Write, Attempt!Refuse, Attempt!WriteFails, Attempt!CleanupFails,
              Attempt!Move
<1>2. CASE CheckDuplicate(a) \/ AttemptGivesUp(a)
  BY <1>2 DEF CheckDuplicate, AttemptGivesUp, ToStage, storeVars, AttemptLockUnchanged
<1>3. CASE FirstHeartbeat(a) \/ SecondHeartbeat(a)
  <2>1. /\ stage[a] \in {"fresh", "recorded"} /\ stage'[a] \in {"beat1", "beat2"}
        /\ call'[a].kind = "heartbeat"
        /\ UNCHANGED <<trigger, aphase>>
    BY <1>3 DEF FirstHeartbeat, SecondHeartbeat, HeartbeatCall, ToStage, AttemptLockUnchanged
  <2>2. \A p \in Procs : p # a => call'[p] = call[p] /\ step'[p] = step[p]
    BY <1>3 DEF FirstHeartbeat, SecondHeartbeat, HeartbeatCall, Goto
  <2>3. \A b \in Attempts : b # a => stage'[b] = stage[b]
    BY <1>3 DEF FirstHeartbeat, SecondHeartbeat, ToStage
  <2> QED
    BY <2>1, <2>2, <2>3, ProcsAssumption
<1>4. CASE RecordEvidence(a)
  <2>1. /\ stage[a] = "simulating" /\ stage'[a] = "recording"
        /\ step'[a] = "called"
        /\ call'[a].kind = "record" /\ call'[a].sig = trigger[a]
        /\ UNCHANGED <<trigger, aphase>>
    BY <1>4 DEF RecordEvidence, RecordCall, Goto, ToStage, AttemptLockUnchanged
  <2>2. \A p \in Procs : p # a => call'[p] = call[p] /\ step'[p] = step[p]
    BY <1>4 DEF RecordEvidence, RecordCall, Goto
  <2>3. \A b \in Attempts : b # a => stage'[b] = stage[b]
    BY <1>4 DEF RecordEvidence, ToStage
  <2> QED
    BY <2>1, <2>2, <2>3, ProcsAssumption
<1>5. CASE CallReturns(a)
  <2>1. /\ stage[a] \in Body /\ stage'[a] # "recording"
        /\ call'[a].kind = "none"
        /\ UNCHANGED <<trigger, aphase>>
    BY <1>5 DEF CallReturns, Return, ToStage, AttemptLockUnchanged
  <2>2. \A p \in Procs : p # a => call'[p] = call[p] /\ step'[p] = step[p]
    BY <1>5 DEF CallReturns, Return, Goto
  <2>3. \A b \in Attempts : b # a => stage'[b] = stage[b]
    BY <1>5 DEF CallReturns, ToStage
  <2> QED
    BY <2>1, <2>2, <2>3, ProcsAssumption
<1>6. CASE LeaveReads(a) \/ Leave(a) \/ LeaveFails(a)
  BY <1>6 DEF LeaveReads, Leave, LeaveFails, ToStage, storeVars, Attempt!ExitReads,
              Attempt!ReleaseErrors, Attempt!ExitUnreadable, Attempt!UnlinkErrors,
              Attempt!Unlink, Attempt!Move
<1>7. CASE AttemptDies(a)
  <2>1. stage'[a] = "idle"
    BY <1>7 DEF AttemptDies
  <2>2. \A b \in Attempts : b # a => /\ stage'[b] = stage[b]
                                     /\ trigger'[b] = trigger[b]
                                     /\ aphase'[b] = aphase[b]
    BY <1>7 DEF AttemptDies, AttemptLockUnchanged, Attempt!Crash
  <2>3. \A p \in Procs : p # a => call'[p] = call[p] /\ step'[p] = step[p]
    BY <1>7 DEF AttemptDies, WriterDies, storeVars
  <2>4. call'[a].kind # "record"
    BY <1>7 DEF AttemptDies, WriterDies, storeVars
  <2> QED
    BY <2>1, <2>2, <2>3, <2>4, ProcsAssumption
<1> QED
  BY <1>1, <1>2, <1>3, <1>4, <1>5, <1>6, <1>7 DEF AttemptStep

\* So does every other step.
LEMMA NextCallInv ==
  ASSUME CampaignShape, [Next]_vars
  PROVE  CallInv'
<1> USE Functions DEF CampaignShape, CallInv, Body, Recording, NoCall
<1>1. ASSUME NEW a \in Attempts, AttemptStep(a) \/ AttemptDies(a)
      PROVE  CallInv'
  BY <1>1, AttemptCallInv
<1>2. ASSUME NEW a \in Attempts, NEW s \in Signatures, Launch(a, s)
      PROVE  CallInv'
  BY <1>2 DEF Launch, Running, Ended, storeVars, AttemptLockUnchanged, Attempt!Retry,
              Attempt!Move
<1>3. ASSUME NEW o \in Observers,
             ObserverStarts(o) \/ ObserverBeats(o) \/ ObserverReturns(o) \/ ObserverDies(o)
      PROVE  CallInv'
  <2>1. o \in Procs /\ o \notin Attempts
    BY ProcsAssumption
  <2> QED
    BY <1>3, <2>1, ProcsAssumption
       DEF ObserverStarts, ObserverBeats, ObserverReturns, ObserverDies, attemptVars,
           storeVars, HeartbeatCall, Return, WriterDies, Goto
<1>4. ASSUME NEW p \in Procs, StoreStep(p)
      PROVE  CallInv'
  <2>1. UNCHANGED <<call, stage, trigger, aphase>>
    BY <1>4 DEF StoreStep, attemptVars, InLock, Acquire, AcquireFails, Load, SaveRecord,
                SaveFirstBeat, SaveBeat, Save, SaveFails, ReleaseReads, Release, ReleaseFails
  <2>2. \A q \in Procs : step[q] # "idle" => step'[q] # "idle"
    BY <1>4 DEF StoreStep, InLock, Acquire, AcquireFails, Load, SaveRecord, SaveFirstBeat,
                SaveBeat, Save, SaveFails, ReleaseReads, Release, ReleaseFails, Goto
  <2> QED
    BY <2>1, <2>2, ProcsAssumption
<1>5. CASE OperatorClearsWriteLock /\ UNCHANGED <<attemptVars, beatAt>>
  BY <1>5 DEF OperatorClearsWriteLock, attemptVars
<1>6. CASE OperatorClearsAttemptLock \/ TimePasses \/ UNCHANGED vars
  BY <1>6 DEF OperatorClearsAttemptLock, TimePasses, Tick, attemptVars, storeVars, vars,
              Attempt!OperatorClearsOrphan
<1> QED
  BY <1>1, <1>2, <1>3, <1>4, <1>5, <1>6 DEF Next

\* A record that is appended is found, and so are the older ones.
LEMMA ContainsAppended ==
  ASSUME evidence \in Payloads, NEW t \in Signatures,
         evidence'.records = Append(evidence.records, t)
  PROVE  Contains(evidence', t) /\ \A s : Contains(evidence, s) => Contains(evidence', s)
<1> DEFINE r == evidence.records
<1>1. r \in Seq(Signatures)
  BY DEF Payloads
<1>2. /\ Len(r) + 1 \in DOMAIN Append(r, t) /\ Append(r, t)[Len(r) + 1] = t
      /\ \A i \in DOMAIN r : i \in DOMAIN Append(r, t) /\ Append(r, t)[i] = r[i]
  <2> HIDE DEF r
  <2> QED
    BY <1>1
<1> QED
  BY <1>2 DEF Contains

\* What an attempt does outside the store keeps its records and its claims.
LEMMA AttemptRecordInv ==
  ASSUME CampaignShape, RecordInv, NEW a \in Attempts, AttemptStep(a) \/ AttemptDies(a)
  PROVE  RecordInv'
<1> USE Functions DEF RecordInv, Unsaved, Saved, ToStage
<1>1. UNCHANGED evidence
  BY DEF AttemptStep, EnterAttempt, EnterAttemptFails, CheckDuplicate, FirstHeartbeat,
         AttemptGivesUp, RecordEvidence, SecondHeartbeat, CallReturns, LeaveReads, Leave,
         LeaveFails, AttemptDies, HeartbeatCall, RecordCall, Return, WriterDies, storeVars
<1>2. \A b \in Attempts : b # a => /\ stage'[b] = stage[b]
                                   /\ trigger'[b] = trigger[b]
                                   /\ step'[b] = step[b]
  <2>1. \A b \in Attempts : b # a => stage'[b] = stage[b]
    BY DEF AttemptStep, EnterAttempt, EnterAttemptFails, CheckDuplicate, FirstHeartbeat,
         AttemptGivesUp, RecordEvidence, SecondHeartbeat, CallReturns, LeaveReads, Leave,
         LeaveFails, AttemptDies
  <2>2. \A b \in Attempts : b # a => trigger'[b] = trigger[b]
    BY DEF AttemptStep, EnterAttempt, EnterAttemptFails, CheckDuplicate, FirstHeartbeat,
         AttemptGivesUp, RecordEvidence, SecondHeartbeat, CallReturns, LeaveReads, Leave,
         LeaveFails, AttemptDies
  <2>3. \/ UNCHANGED step
        \/ HeartbeatCall(a) \/ RecordCall(a, trigger[a]) \/ Return(a) \/ WriterDies(a)
    BY DEF AttemptStep, EnterAttempt, EnterAttemptFails, CheckDuplicate, FirstHeartbeat,
         AttemptGivesUp, RecordEvidence, SecondHeartbeat, CallReturns, LeaveReads, Leave,
         LeaveFails, AttemptDies, storeVars
  <2>4. \A p \in Procs : p # a => step'[p] = step[p]
    BY <2>3 DEF HeartbeatCall, RecordCall, Return, WriterDies, Goto
  <2> QED
    BY <2>1, <2>2, <2>4, ProcsAssumption
<1>3. /\ Unsaved(a)' => ~Contains(evidence, trigger'[a])
      /\ Saved(a)' => Contains(evidence, trigger'[a])
  <2>1. CASE CheckDuplicate(a)
    BY <2>1 DEF CheckDuplicate
  <2>2. CASE EnterAttempt(a) \/ EnterAttemptFails(a) \/ LeaveReads(a)
    BY <2>2 DEF EnterAttempt, EnterAttemptFails, LeaveReads, storeVars
  <2>3. CASE FirstHeartbeat(a) \/ AttemptGivesUp(a) \/ SecondHeartbeat(a)
    BY <2>3 DEF FirstHeartbeat, AttemptGivesUp, SecondHeartbeat
  <2>4. CASE RecordEvidence(a)
    BY <2>4, ProcsAssumption DEF RecordEvidence, RecordCall, Goto
  <2>5. CASE CallReturns(a)
    BY <2>5 DEF CallReturns
  <2>6. CASE Leave(a) \/ LeaveFails(a)
    BY <2>6 DEF Leave, LeaveFails
  <2>7. CASE AttemptDies(a)
    BY <2>7 DEF AttemptDies
  <2> QED
    BY <2>1, <2>2, <2>3, <2>4, <2>5, <2>6, <2>7 DEF AttemptStep
<1> QED
  BY <1>1, <1>2, <1>3

\* Nor does a call of record() or heartbeat() break them.
LEMMA StoreRecordInv ==
  ASSUME CampaignShape, RecordInv, NEW p \in Procs, StoreStep(p)
  PROVE  RecordInv'
<1> USE Functions DEF RecordInv, Unsaved, Saved
<1>0. UNCHANGED <<stage, trigger>>
  BY DEF StoreStep, attemptVars
<1>1. CASE SaveRecord(p)
  <2>1. /\ p \in Attempts /\ stage[p] = "recording" /\ trigger[p] \in Signatures
        /\ call[p].sig = trigger[p]
    BY <1>1 DEF SaveRecord, CampaignShape, CallInv, TriggerInv, Running, Ended
  <2>2. evidence \in Payloads /\ loaded[p] = evidence
    BY <1>1 DEF SaveRecord, Save, Goto, CampaignShape, StoreInv, StoreShape, Fresh
  <2>3. evidence'.records = Append(evidence.records, trigger[p])
    BY <1>1, <2>1, <2>2 DEF SaveRecord, Save, Payloads
  <2>4. step' = [step EXCEPT ![p] = "saved"]
    BY <1>1 DEF SaveRecord, Save, Goto
  <2>5. \A b \in Attempts : Unsaved(b)' => b # p /\ stage[b] \in Body
    BY <1>0, <2>1, <2>4 DEF Body
  <2>6. \A b \in Attempts : ~Unsaved(b)'
    BY <2>1, <2>5, OneAttempt DEF Body
  <2>7. \A b \in Attempts : Saved(b)' => b = p \/ Saved(b)
    BY <1>0, <2>4
  <2> QED
    BY <1>0, <2>1, <2>2, <2>3, <2>6, <2>7, ContainsAppended
<1>2. CASE SaveFirstBeat(p) \/ SaveBeat(p)
  <2>1. evidence'.records = evidence.records
    BY <1>2 DEF SaveFirstBeat, SaveBeat, Save, Goto, CampaignShape, StoreInv, StoreShape,
                Fresh, Payloads
  <2>2. step' = [step EXCEPT ![p] = "saved"]
    BY <1>2 DEF SaveFirstBeat, SaveBeat, Save, Goto
  <2>3. p \in Attempts => stage[p] # "recording"
    BY <1>2 DEF SaveFirstBeat, SaveBeat, Beating, Recording, CampaignShape, CallInv
  <2> QED
    BY <1>0, <2>1, <2>2, <2>3 DEF Contains
<1>3. CASE \/ Acquire(p) \/ AcquireFails(p) \/ Load(p) \/ SaveFails(p)
           \/ ReleaseReads(p) \/ Release(p) \/ ReleaseFails(p)
  <2>1. UNCHANGED evidence
    BY <1>3 DEF Acquire, AcquireFails, Load, SaveFails, ReleaseReads, Release, ReleaseFails
  <2>2. \A q \in Procs : q # p => step'[q] = step[q]
    BY <1>3 DEF Acquire, AcquireFails, Load, SaveFails, ReleaseReads, Release, ReleaseFails, Goto
  <2>3. /\ step'[p] \in {"called", "loaded"} => step[p] \in {"called", "loaded"}
        /\ step'[p] \in {"saved", "ok"} => step[p] \in {"saved", "ok"}
    BY <1>3 DEF Acquire, AcquireFails, Load, SaveFails, ReleaseReads, Release, ReleaseFails, Goto
  <2> QED
    BY <1>0, <2>1, <2>2, <2>3, ProcsAssumption
<1> QED
  BY <1>1, <1>2, <1>3 DEF StoreStep, InLock

\* Every step keeps the records where the attempts believe them to be.
LEMMA NextRecordInv ==
  ASSUME CampaignShape, RecordInv, [Next]_vars
  PROVE  RecordInv'
<1> USE Functions DEF RecordInv, Unsaved, Saved
<1>1. ASSUME NEW a \in Attempts, AttemptStep(a) \/ AttemptDies(a)
      PROVE  RecordInv'
  BY <1>1, AttemptRecordInv
<1>2. ASSUME NEW a \in Attempts, NEW s \in Signatures, Launch(a, s)
      PROVE  RecordInv'
  BY <1>2 DEF Launch, storeVars
<1>3. ASSUME NEW o \in Observers,
             ObserverStarts(o) \/ ObserverBeats(o) \/ ObserverReturns(o) \/ ObserverDies(o)
      PROVE  RecordInv'
  <2>1. UNCHANGED <<evidence, stage, trigger>>
    BY <1>3 DEF ObserverStarts, ObserverBeats, ObserverReturns, ObserverDies, attemptVars,
                storeVars, HeartbeatCall, Return, WriterDies
  <2>2. \A a \in Attempts : step'[a] = step[a]
    BY <1>3, ProcsAssumption
       DEF ObserverStarts, ObserverBeats, ObserverReturns, ObserverDies, storeVars,
           HeartbeatCall, Return, WriterDies, Goto
  <2> QED
    BY <2>1, <2>2
<1>4. ASSUME NEW p \in Procs, StoreStep(p)
      PROVE  RecordInv'
  BY <1>4, StoreRecordInv
<1>5. CASE OperatorClearsWriteLock /\ UNCHANGED <<attemptVars, beatAt>>
  BY <1>5 DEF OperatorClearsWriteLock, attemptVars
<1>6. CASE OperatorClearsAttemptLock \/ TimePasses \/ UNCHANGED vars
  BY <1>6 DEF OperatorClearsAttemptLock, TimePasses, Tick, attemptVars, storeVars, vars
<1> QED
  BY <1>1, <1>2, <1>3, <1>4, <1>5, <1>6 DEF Next

----------------------------------------------------------------------------
\* The inductive invariant of a campaign.
LEMMA CampaignInvariant == Spec => [](CampaignShape /\ RecordInv)
<1>1. Init => CampaignShape /\ RecordInv
  <2> SUFFICES ASSUME Init PROVE CampaignShape /\ RecordInv
    OBVIOUS
  <2>1. StoreInv /\ TriggerInv
    BY InitStoreInv, InitTriggerInv DEF Init
  <2>2. AttemptProofs!LockInv
    BY AttemptProofs!InitLockInv, NobodyIsNoProc, ProcsAssumption
       DEF Init, Attempt!Init, AttemptProofs!Init, Attempt!Absent, AttemptProofs!Absent
  <2>3. CallInv
    BY DEF Init, StoreInit, CallInv, Body, Recording, NoCall
  <2>4. RecordInv
    BY DEF Init, RecordInv, Unsaved, Saved
  <2> QED
    BY <2>1, <2>2, <2>3, <2>4 DEF CampaignShape
<1>2. CampaignShape /\ RecordInv /\ [Next]_vars => (CampaignShape /\ RecordInv)'
  <2> SUFFICES ASSUME CampaignShape, RecordInv, [Next]_vars
               PROVE  (CampaignShape /\ RecordInv)'
    OBVIOUS
  <2>1. StoreInv' /\ TriggerInv'
    BY CampaignStoreStep, NextStoreInv, NextTriggerInv DEF CampaignShape
  <2>2. AttemptProofs!LockInv'
    BY CampaignLockStep, AttemptLockStep DEF CampaignShape
  <2> QED
    BY <2>1, <2>2, NextCallInv, NextRecordInv DEF CampaignShape
<1> QED
  BY <1>1, <1>2, PTL DEF Spec

\* No attempt simulates or records a signature that is in the evidence already,
\* whatever other attempts and observers do between its check and its record.
THEOREM NoSecondAttempt == Spec => []NoSecondAttemptOnSignature
<1>1. RecordInv => NoSecondAttemptOnSignature
  BY DEF RecordInv, Unsaved, NoSecondAttemptOnSignature
<1> QED
  BY <1>1, CampaignInvariant, PTL

\* An attempt that ends with success has its record in the file for good.
THEOREM SuccessStays == Spec => []SuccessIsDurable
<1>1. RecordInv => SuccessIsDurable
  BY DEF RecordInv, Saved, SuccessIsDurable
<1> QED
  BY <1>1, CampaignInvariant, PTL
----------------------------------------------------------------------------
(* The observers' own variables.                                           *)

\* A writer inside a call has the call's arguments.
CallKept == \A p \in Procs : step[p] # "idle" => Beating(p) \/ Recording(p)

LEMMA NextCallKept == StoreShape /\ CallKept /\ [StoreNext]_storeVars => CallKept'
<1> SUFFICES ASSUME StoreShape, CallKept, [StoreNext]_storeVars PROVE CallKept'
  OBVIOUS
<1> USE DEF StoreShape, CallKept, Beating, Recording, Goto
<1>1. ASSUME NEW p \in Procs, HeartbeatCall(p)
      PROVE  CallKept'
  BY <1>1 DEF HeartbeatCall
<1>2. ASSUME NEW p \in Procs, NEW s \in Signatures, RecordCall(p, s)
      PROVE  CallKept'
  BY <1>2 DEF RecordCall
<1>3. ASSUME NEW p \in Procs, InLock(p)
      PROVE  CallKept'
  <2>1. UNCHANGED call
    BY <1>3 DEF InLock, Acquire, AcquireFails, Load, SaveRecord, SaveFirstBeat, SaveBeat,
                Save, SaveFails, ReleaseReads, Release, ReleaseFails
  <2>2. \A q \in Procs : step[q] = "idle" => step'[q] = "idle"
    BY <1>3 DEF InLock, Acquire, AcquireFails, Load, SaveRecord, SaveFirstBeat, SaveBeat,
                Save, SaveFails, ReleaseReads, Release, ReleaseFails
  <2> QED
    BY <2>1, <2>2
<1>4. ASSUME NEW p \in Procs, Return(p) \/ WriterDies(p)
      PROVE  CallKept'
  BY <1>4 DEF Return, WriterDies
<1>5. CASE OperatorClearsWriteLock \/ Tick \/ UNCHANGED storeVars
  BY <1>5 DEF OperatorClearsWriteLock, Tick, storeVars
<1> QED
  BY <1>1, <1>2, <1>3, <1>4, <1>5 DEF StoreNext

\* What a loop remembers of its last heartbeat is an instant.
ObserverInv == beatAt \in [Observers -> Times \cup {Never, Down}]

LEMMA NextObserverInv ==
  ASSUME CampaignShape, CallKept, ObserverInv, [Next]_vars
  PROVE  ObserverInv'
<1> USE DEF ObserverInv
<1>1. ASSUME NEW o \in Observers, ObserverStarts(o) \/ ObserverDies(o)
      PROVE  ObserverInv'
  BY <1>1 DEF ObserverStarts, ObserverDies
<1>2. ASSUME NEW o \in Observers, ObserverBeats(o)
      PROVE  ObserverInv'
  BY <1>2 DEF ObserverBeats
<1>3. ASSUME NEW o \in Observers, ObserverReturns(o)
      PROVE  ObserverInv'
  <2>1. o \in Procs /\ o \notin Attempts
    BY ProcsAssumption
  <2>2. step[o] = "ok" => call[o].at \in Times
    BY <2>1, CallArguments DEF CampaignShape, CallInv, CallKept, StoreInv
  <2> QED
    BY <1>3, <2>2 DEF ObserverReturns
<1>4. ASSUME NEW a \in Attempts, AttemptStep(a)
      PROVE  UNCHANGED beatAt
  BY <1>4 DEF AttemptStep, EnterAttempt, EnterAttemptFails, CheckDuplicate, FirstHeartbeat,
              AttemptGivesUp, RecordEvidence, SecondHeartbeat, CallReturns, LeaveReads,
              Leave, LeaveFails
<1>5. ASSUME NEW a \in Attempts, AttemptDies(a) \/ \E s \in Signatures : Launch(a, s)
      PROVE  UNCHANGED beatAt
  BY <1>5 DEF AttemptDies, Launch
<1>6. ASSUME NEW p \in Procs, StoreStep(p)
      PROVE  UNCHANGED beatAt
  BY <1>6 DEF StoreStep
<1>7. CASE \/ OperatorClearsWriteLock /\ UNCHANGED <<attemptVars, beatAt>>
           \/ OperatorClearsAttemptLock \/ UNCHANGED vars
  BY <1>7 DEF OperatorClearsAttemptLock, vars
<1>8. CASE TimePasses
  BY <1>8 DEF TimePasses
<1> QED
  BY <1>1, <1>2, <1>3, <1>4, <1>5, <1>6, <1>7, <1>8 DEF Next

\* Every variable of a campaign keeps its shape, through failures and kills.
THEOREM CampaignTypeCorrect == Spec => []TypeOK
<1>1. Init => CallKept /\ ObserverInv
  BY DEF Init, StoreInit, CallKept, ObserverInv
<1>2. CampaignShape /\ [Next]_vars => [StoreNext]_storeVars
  BY CampaignStoreStep DEF CampaignShape
<1>3. CampaignShape => StoreShape
  BY DEF CampaignShape, StoreInv
<1>4. CampaignShape /\ StoreTypeOK /\ ObserverInv => TypeOK
  BY Functions DEF TypeOK, ObserverInv, CampaignShape, AttemptProofs!LockInv,
       AttemptProofs!TypeOK, Attempt!TypeOK, AttemptProofs!Phases, Attempt!Phases
<1>5. CampaignShape /\ CallKept /\ ObserverInv /\ [Next]_vars => CallKept' /\ ObserverInv'
  BY <1>2, <1>3, NextCallKept, NextObserverInv
<1> QED
  BY <1>1, <1>4, <1>5, CampaignInvariant, CampaignUsesStore, StoreTypeCorrect, PTL DEF Spec

----------------------------------------------------------------------------
(* What the two gates of shadow-evidence-status rest on.                   *)

\* The evidence is only added to: no record leaves or changes its place, the
\* counted runtime never falls, and the last heartbeat does not move back.
Grown ==
  /\ evidence.runtime <= evidence'.runtime
  /\ evidence.last <= evidence'.last
  /\ Len(evidence.records) <= Len(evidence'.records)
  /\ \A i \in DOMAIN evidence.records : evidence'.records[i] = evidence.records[i]

\* Each of the three changes of the file adds to it.
LEMMA NextGrown ==
  ASSUME StoreInv, [StoreNext]_storeVars
  PROVE  [Grown]_evidence
<1> SUFFICES ASSUME evidence' # evidence PROVE Grown
  OBVIOUS
<1>1. /\ evidence \in Payloads
      /\ evidence.runtime \in Nat /\ evidence.last \in Nat \cup {NoBeat}
      /\ evidence.records \in Seq(Signatures)
  BY DEF StoreInv, StoreShape, Payloads
<1>2. ASSUME NEW s \in Signatures, evidence' = [evidence EXCEPT !.records = Append(@, s)]
      PROVE  Grown
  <2> DEFINE r == evidence.records
  <2>1. /\ evidence'.runtime = evidence.runtime /\ evidence'.last = evidence.last
        /\ evidence'.records = Append(r, s)
    BY <1>1, <1>2 DEF Payloads
  <2>2. /\ Len(r) <= Len(Append(r, s))
        /\ \A i \in DOMAIN r : Append(r, s)[i] = r[i]
    <3>1. r \in Seq(Signatures)
      BY <1>1
    <3> HIDE DEF r
    <3> QED
      BY <3>1
  <2> QED
    BY <1>1, <2>1, <2>2 DEF Grown, NoBeat
<1>3. ASSUME NEW t \in Times, evidence.last = NoBeat, evidence' = [evidence EXCEPT !.last = t]
      PROVE  Grown
  <2>1. /\ evidence'.runtime = evidence.runtime /\ evidence'.last = t
        /\ evidence'.records = evidence.records
    BY <1>1, <1>3 DEF Payloads
  <2> QED
    BY <1>1, <1>3, <2>1, TimesAssumption DEF Grown, NoBeat
<1>4. ASSUME NEW t \in Times, t - evidence.last >= 0, evidence.last # NoBeat,
             NEW r, r = evidence.runtime \/ r = evidence.runtime + (t - evidence.last),
             evidence' = [evidence EXCEPT !.last = t, !.runtime = r]
      PROVE  Grown
  <2>1. /\ evidence'.runtime = r /\ evidence'.last = t
        /\ evidence'.records = evidence.records
    BY <1>1, <1>4 DEF Payloads
  <2> QED
    BY <1>1, <1>4, <2>1, TimesAssumption DEF Grown, NoBeat
<1> QED
  BY <1>2, <1>3, <1>4, EvidenceChange

\* A failed, killed, late or concurrent call never takes anything out of the
\* evidence file.
THEOREM EvidenceOnlyGrows == Spec => [][Grown]_evidence
BY CampaignUsesStore, StoreInvariant, NextGrown, PTL DEF StoreSpec

\* A campaign that has its hours and its candidates.
Reached(runtime, candidates) ==
  evidence.runtime >= runtime /\ Len(evidence.records) >= candidates

\* Once reached, the 72 hours and the 100 candidates stay reached: of the parts
\* of ready(), only the sign of the wallet net can fall back.
THEOREM ThresholdsStayReached ==
  ASSUME NEW runtime \in Nat, NEW candidates \in Nat
  PROVE  Spec => [](Reached(runtime, candidates) => []Reached(runtime, candidates))
<1>1. StoreInv /\ Reached(runtime, candidates) /\ [StoreNext]_storeVars
        => Reached(runtime, candidates)'
  <2> SUFFICES ASSUME StoreInv, Reached(runtime, candidates), [StoreNext]_storeVars
               PROVE  Reached(runtime, candidates)'
    OBVIOUS
  <2>1. StoreInv' /\ [Grown]_evidence
    BY NextStoreInv, NextGrown
  <2>2. /\ evidence.runtime \in Nat /\ evidence'.runtime \in Nat
        /\ Len(evidence.records) \in Nat /\ Len(evidence'.records) \in Nat
    BY <2>1 DEF StoreInv, StoreShape, Payloads
  <2>3. /\ evidence.runtime <= evidence'.runtime
        /\ Len(evidence.records) <= Len(evidence'.records)
    BY <2>1, <2>2 DEF Grown
  <2> QED
    BY <2>2, <2>3 DEF Reached
<1> QED
  BY <1>1, CampaignUsesStore, StoreInvariant, PTL DEF StoreSpec

\* Seen from its path, what each of the two locks promises.
WritePath == INSTANCE FailClosedLock
               WITH holders <- {p \in Procs : writeLock.owner = p /\ Lock!Standing(p)},
                    orphaned <- Lock!Left
AttemptPath == INSTANCE FailClosedLock
                 WITH Procs <- Attempts,
                      holders <- {a \in Attempts : attemptLock.owner = a /\ Attempt!Standing(a)},
                      orphaned <- Attempt!Left

\* The names of the lock's actions, and of its promise, under either instance.
LEMMA WritePathStep ==
  ASSUME LockProofs!LockInv, [Lock!Next]_<<writeLock, wphase>>
  PROVE  [WritePath!Next]_<<{p \in Procs : writeLock.owner = p /\ Lock!Standing(p)},
                            Lock!Left>>
BY LockProofs!NextPromise, NobodyIsNoProc
   DEF Lock!vars, Lock!Next, Lock!Enter, Lock!Exit,
       Lock!Open, Lock!Refuse, Lock!Write, Lock!WriteFails,
       Lock!ExitReads, Lock!ExitRefuses, Lock!Unlink, Lock!UnlinkFails,
       Lock!Retry, Lock!Crash, Lock!OperatorClearsOrphan, Lock!Move,
       Lock!Orderly, Lock!Breaks, Lock!CleanupFails, Lock!ReleaseErrors,
       Lock!ExitUnreadable, Lock!UnlinkErrors, Lock!Left, Lock!Standing,
       Lock!Owns, Lock!Absent,
       LockProofs!vars, LockProofs!Next, LockProofs!Enter, LockProofs!Exit,
       LockProofs!Open, LockProofs!Refuse, LockProofs!Write, LockProofs!WriteFails,
       LockProofs!ExitReads, LockProofs!ExitRefuses, LockProofs!Unlink, LockProofs!UnlinkFails,
       LockProofs!Retry, LockProofs!Crash, LockProofs!OperatorClearsOrphan, LockProofs!Move,
       LockProofs!Orderly, LockProofs!Breaks, LockProofs!CleanupFails, LockProofs!ReleaseErrors,
       LockProofs!ExitUnreadable, LockProofs!UnlinkErrors, LockProofs!Left, LockProofs!Standing,
       LockProofs!Owns, LockProofs!Absent, LockProofs!Holders, LockProofs!Orphaned,
       WritePath!Next, WritePath!Take, WritePath!Give, WritePath!Die, WritePath!Clear,
       LockProofs!Promise!Next, LockProofs!Promise!Take, LockProofs!Promise!Give,
       LockProofs!Promise!Die, LockProofs!Promise!Clear

\* Through every failure and death inside record() and heartbeat(), attempts
\* and observers have the write lock one at a time, and whoever has it gives it
\* back or leaves it taken.
THEOREM WriteLockFailsClosed == Spec => WritePath!Spec
<1>1. StoreInit => WritePath!Init
  BY NobodyIsNoProc DEF StoreInit, Lock!Init, Lock!Absent, Lock!Left, WritePath!Init
<1>2. StoreInv /\ [StoreNext]_storeVars
        => [WritePath!Next]_<<{p \in Procs : writeLock.owner = p /\ Lock!Standing(p)},
                              Lock!Left>>
  BY StoreLockStep, WritePathStep DEF StoreInv
<1> QED
  BY <1>1, <1>2, CampaignUsesStore, StoreInvariant, PTL DEF StoreSpec, WritePath!Spec

\* The same names for the attempt lock.
LEMMA AttemptPathStep ==
  ASSUME AttemptProofs!LockInv, [Attempt!Next]_<<attemptLock, aphase>>
  PROVE  [AttemptPath!Next]_<<{a \in Attempts : attemptLock.owner = a /\ Attempt!Standing(a)},
                              Attempt!Left>>
BY AttemptProofs!NextPromise, NobodyIsNoProc, ProcsAssumption
   DEF Attempt!vars, Attempt!Next, Attempt!Enter, Attempt!Exit,
       Attempt!Open, Attempt!Refuse, Attempt!Write, Attempt!WriteFails,
       Attempt!ExitReads, Attempt!ExitRefuses, Attempt!Unlink, Attempt!UnlinkFails,
       Attempt!Retry, Attempt!Crash, Attempt!OperatorClearsOrphan, Attempt!Move,
       Attempt!Orderly, Attempt!Breaks, Attempt!CleanupFails, Attempt!ReleaseErrors,
       Attempt!ExitUnreadable, Attempt!UnlinkErrors, Attempt!Left, Attempt!Standing,
       Attempt!Owns, Attempt!Absent,
       AttemptProofs!vars, AttemptProofs!Next, AttemptProofs!Enter, AttemptProofs!Exit,
       AttemptProofs!Open, AttemptProofs!Refuse, AttemptProofs!Write,
       AttemptProofs!WriteFails, AttemptProofs!ExitReads, AttemptProofs!ExitRefuses,
       AttemptProofs!Unlink, AttemptProofs!UnlinkFails, AttemptProofs!Retry,
       AttemptProofs!Crash, AttemptProofs!OperatorClearsOrphan, AttemptProofs!Move,
       AttemptProofs!Orderly, AttemptProofs!Breaks, AttemptProofs!CleanupFails,
       AttemptProofs!ReleaseErrors, AttemptProofs!ExitUnreadable,
       AttemptProofs!UnlinkErrors, AttemptProofs!Left, AttemptProofs!Standing,
       AttemptProofs!Owns, AttemptProofs!Absent, AttemptProofs!Holders,
       AttemptProofs!Orphaned,
       AttemptPath!Next, AttemptPath!Take, AttemptPath!Give, AttemptPath!Die,
       AttemptPath!Clear,
       AttemptProofs!Promise!Next, AttemptProofs!Promise!Take, AttemptProofs!Promise!Give,
       AttemptProofs!Promise!Die, AttemptProofs!Promise!Clear

\* The same of the attempt lock: "serialized by an atomic cross-process lock"
\* (README.md:168), also when attempts are refused, fail or are killed.
THEOREM AttemptLockFailsClosed == Spec => AttemptPath!Spec
<1>1. Init => AttemptPath!Init
  BY NobodyIsNoProc, ProcsAssumption DEF Init, Attempt!Init, Attempt!Absent, Attempt!Left,
     AttemptPath!Init
<1>2. CampaignShape /\ [Next]_vars
        => [AttemptPath!Next]_<<{a \in Attempts : attemptLock.owner = a /\ Attempt!Standing(a)},
                                Attempt!Left>>
  BY CampaignLockStep, AttemptPathStep DEF CampaignShape
<1> QED
  BY <1>1, <1>2, CampaignInvariant, PTL DEF Spec, AttemptPath!Spec

\* An attempt that simulates, beats or records has its own token in the lock
\* file, which shadow-evidence-status looks for.
Covered == \A a \in Attempts : stage[a] \in Body => Attempt!Owns(a)

\* Where the status command finds no lock file, no attempt is under way between
\* its duplicate check and its last heartbeat: the evidence it reports on then is
\* not about to get a record.
THEOREM NoLockNoAttempt ==
  Spec => [](attemptLock.state = "absent" => \A a \in Attempts : stage[a] \notin Body)
<1>1. CampaignShape => Covered
  <2> SUFFICES ASSUME CampaignShape, NEW a \in Attempts, stage[a] \in Body
               PROVE  Attempt!Owns(a)
    BY DEF Covered
  <2>1. AttemptProofs!Inside(a) /\ AttemptProofs!LockInv
    BY DEF CampaignShape, CallInv, AttemptProofs!Inside
  <2> QED
    BY <2>1 DEF AttemptProofs!LockInv, AttemptProofs!OwnerFindsItsToken,
                AttemptProofs!Owns, Attempt!Owns
<1>2. Covered => (attemptLock.state = "absent" => \A a \in Attempts : stage[a] \notin Body)
  BY DEF Covered, Attempt!Owns
<1> QED
  BY <1>1, <1>2, CampaignInvariant, PTL
=============================================================================
