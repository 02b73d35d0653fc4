--------------------------- MODULE ShadowCampaign ---------------------------
(***************************************************************************)
(* A shadow campaign: `backrunner shadow-direct --trigger-signature'       *)
(* attempts (backrunner/cli.py) and the observer loops that only send      *)
(* heartbeats (ops/shadow-loop.py, ops/live-loop.py), all on one evidence  *)
(* file (`--evidence-path` names the file of the loops: the defaults are   *)
(* data/shadow-evidence.json and data/shadow_evidence.jsonl).  Attempts are*)
(* serialized by the attempt lock; the observers know nothing of that lock *)
(* and meet the attempts in the write lock.                                *)
(*                                                                         *)
(* Abstraction: the simulation is its verdict, whether it gave an exact    *)
(* wallet net or not.  A tick is one minute: an observer beats when a tick *)
(* has passed, and MaxGap is the 120 s of heartbeat().                     *)
(***************************************************************************)
EXTENDS ShadowEvidence, FiniteSets

CONSTANTS
  Attempts,   \* processes that run shadow-direct, one attempt after the other
  Observers   \* processes that run an observer loop

ASSUME ProcsAssumption ==
  Procs = Attempts \cup Observers /\ Attempts \cap Observers = {}

VARIABLES
  attemptLock,  \* data/active-attempt.lock
  aphase,       \* where each attempt stands in it
  stage,        \* where each attempt stands in main()
  trigger,      \* its --trigger-signature
  beatAt        \* last_heartbeat of each running observer, Down if it is not

vars == <<storeVars, attemptLock, aphase, stage, trigger, beatAt>>
attemptVars == <<attemptLock, aphase, stage, trigger>>

Attempt == INSTANCE AttemptLock
             WITH Procs <- Attempts, file <- attemptLock, phase <- aphase

Never == -1  \* last_heartbeat = 0.0, long before the process started
Down == -2
NoTrigger == Nobody

Ended == {"idle", "done", "aborted"}
Stages == Ended \cup {"entering", "fresh", "beat1", "simulating", "recording",
                      "recorded", "beat2", "finished", "unwinding"}
Running(a) == stage[a] \notin Ended

ToStage(a, from, to) ==
  /\ stage[a] = from
  /\ stage' = [stage EXCEPT ![a] = to]

AttemptLockUnchanged == UNCHANGED <<attemptLock, aphase>>

----------------------------------------------------------------------------
Init ==
  /\ StoreInit
  /\ Attempt!Init
  /\ stage = [a \in Attempts |-> "idle"]
  /\ trigger = [a \in Attempts |-> NoTrigger]
  /\ beatAt = [o \in Observers |-> Down]

\* The command is started for a trigger signature, by a process of its own.
Launch(a, s) ==
  /\ ~Running(a)
  /\ stage' = [stage EXCEPT ![a] = "entering"]
  /\ trigger' = [trigger EXCEPT ![a] = s]
  /\ IF aphase[a] = "raised" THEN Attempt!Retry(a) ELSE AttemptLockUnchanged
  /\ UNCHANGED <<storeVars, beatAt>>

\* Mutant: the attempt lock is opened without O_EXCL.
EnterShared(a) ==
  /\ stage[a] = "entering"
  /\ Attempt!OpenShared(a) \/ Attempt!Write(a)
  /\ UNCHANGED <<storeVars, stage, trigger, beatAt>>

EnterAttempt(a) ==
  /\ stage[a] = "entering"
  /\ Attempt!Open(a) \/ Attempt!Write(a)
  /\ UNCHANGED <<storeVars, stage, trigger, beatAt>>

\* ActiveAttemptError, or the lock's payload could not be written.
EnterAttemptFails(a) ==
  /\ ToStage(a, "entering", "aborted")
  /\ Attempt!Refuse(a) \/ Attempt!WriteFails(a) \/ Attempt!CleanupFails(a)
  /\ UNCHANGED <<storeVars, trigger, beatAt>>

\* evidence.contains() reads the file without the write lock.
CheckDuplicate(a) ==
  /\ aphase[a] = "held"
  /\ IF Contains(evidence, trigger[a])
     THEN ToStage(a, "entering", "unwinding")
     ELSE ToStage(a, "entering", "fresh")
  /\ AttemptLockUnchanged
  /\ UNCHANGED <<storeVars, trigger, beatAt>>

\* The trigger is confirmed; then the first heartbeat.
FirstHeartbeat(a) ==
  /\ ToStage(a, "fresh", "beat1")
  /\ HeartbeatCall(a)
  /\ AttemptLockUnchanged
  /\ UNCHANGED <<trigger, beatAt>>

\* The trigger is not confirmed, the simulation raises or it has no exact
\* wallet net.
AttemptGivesUp(a) ==
  /\ ToStage(a, "fresh", "unwinding") \/ ToStage(a, "simulating", "unwinding")
  /\ AttemptLockUnchanged
  /\ UNCHANGED <<storeVars, trigger, beatAt>>

\* The simulation gave an exact wallet net: record it.
RecordEvidence(a) ==
  /\ ToStage(a, "simulating", "recording")
  /\ RecordCall(a, trigger[a])
  /\ AttemptLockUnchanged
  /\ UNCHANGED <<trigger, beatAt>>

SecondHeartbeat(a) ==
  /\ ToStage(a, "recorded", "beat2")
  /\ HeartbeatCall(a)
  /\ AttemptLockUnchanged
  /\ UNCHANGED <<trigger, beatAt>>

\* Mutant: the result of the evidence calls is not looked at.
CallIgnored(a) ==
  /\ \/ ToStage(a, "beat1", "simulating")
     \/ ToStage(a, "recording", "recorded")
     \/ ToStage(a, "beat2", "finished")
  /\ Return(a)
  /\ AttemptLockUnchanged
  /\ UNCHANGED <<trigger, beatAt>>

\* heartbeat() or record() returns, or its exception leaves the body.
CallReturns(a) ==
  /\ IF step[a] = "ok"
     THEN \/ ToStage(a, "beat1", "simulating")
          \/ ToStage(a, "recording", "recorded")
          \/ ToStage(a, "beat2", "finished")
     ELSE /\ stage[a] \in {"beat1", "recording", "beat2"}
          /\ stage' = [stage EXCEPT ![a] = "unwinding"]
  /\ Return(a)
  /\ AttemptLockUnchanged
  /\ UNCHANGED <<trigger, beatAt>>

\* The end of the with-block: __exit__ compares the token ...
LeaveReads(a) ==
  /\ stage[a] \in {"finished", "unwinding"}
  /\ Attempt!ExitReads(a)
  /\ UNCHANGED <<storeVars, stage, trigger, beatAt>>

\* ... and removes the file, which nobody else removes (see Release).
Leave(a) ==
  /\ ToStage(a, "finished", "done") \/ ToStage(a, "unwinding", "aborted")
  /\ Attempt!Unlink(a)
  /\ UNCHANGED <<storeVars, trigger, beatAt>>

\* ... or cannot, and raises: the command fails, whatever it has recorded.
LeaveFails(a) ==
  /\ ToStage(a, "finished", "aborted") \/ ToStage(a, "unwinding", "aborted")
  /\ Attempt!ReleaseErrors(a)
  /\ UNCHANGED <<storeVars, trigger, beatAt>>

\* The attempt is killed, inside record() or heartbeat() or between them.
AttemptDies(a) ==
  /\ Running(a)
  /\ stage' = [stage EXCEPT ![a] = "idle"]
  /\ trigger' = [trigger EXCEPT ![a] = NoTrigger]
  /\ IF aphase[a] = "out" THEN AttemptLockUnchanged ELSE Attempt!Crash(a)
  /\ IF step[a] = "idle" THEN UNCHANGED storeVars ELSE WriterDies(a)
  /\ UNCHANGED beatAt

\* systemd starts the loop, again after a crash.
ObserverStarts(o) ==
  /\ beatAt[o] = Down
  /\ beatAt' = [beatAt EXCEPT ![o] = Never]
  /\ UNCHANGED <<storeVars, attemptVars>>

\* "now - last_heartbeat >= 60"
ObserverBeats(o) ==
  /\ beatAt[o] # Down
  /\ beatAt[o] = Never \/ clock > beatAt[o]
  /\ HeartbeatCall(o)
  /\ UNCHANGED <<attemptVars, beatAt>>

\* An exception of heartbeat() makes the loop reconnect and beat again.
ObserverReturns(o) ==
  /\ beatAt' = [beatAt EXCEPT ![o] = IF step[o] = "ok" THEN call[o].at ELSE @]
  /\ Return(o)
  /\ UNCHANGED attemptVars

ObserverDies(o) ==
  /\ beatAt[o] # Down
  /\ beatAt' = [beatAt EXCEPT ![o] = Down]
  /\ IF step[o] = "idle" THEN UNCHANGED storeVars ELSE WriterDies(o)
  /\ UNCHANGED attemptVars

StoreStep(p) == InLock(p) /\ UNCHANGED <<attemptVars, beatAt>>

OperatorClearsAttemptLock ==
  /\ Attempt!OperatorClearsOrphan
  /\ UNCHANGED <<storeVars, stage, trigger, beatAt>>

TimePasses ==
  /\ Tick
  /\ UNCHANGED <<attemptVars, beatAt>>

AttemptStep(a) ==
  \/ EnterAttempt(a) \/ EnterAttemptFails(a) \/ CheckDuplicate(a)
  \/ FirstHeartbeat(a) \/ AttemptGivesUp(a) \/ RecordEvidence(a)
  \/ SecondHeartbeat(a) \/ CallReturns(a)
  \/ LeaveReads(a) \/ Leave(a) \/ LeaveFails(a)

Next ==
  \/ \E a \in Attempts : AttemptStep(a) \/ AttemptDies(a)
  \/ \E a \in Attempts, s \in Signatures : Launch(a, s)
  \/ \E o \in Observers : ObserverStarts(o) \/ ObserverBeats(o)
                            \/ ObserverReturns(o) \/ ObserverDies(o)
  \/ \E p \in Procs : StoreStep(p)
  \/ OperatorClearsWriteLock /\ UNCHANGED <<attemptVars, beatAt>>
  \/ OperatorClearsAttemptLock
  \/ TimePasses

(***************************************************************************)
(* A started attempt runs on until it ends or is killed: its requests have *)
(* timeouts and its file operations do not block.  Nothing obliges anybody *)
(* to start an attempt or an observer, or to clear an orphaned lock.       *)
(***************************************************************************)
RunsOn(a) == Running(a) /\ (AttemptStep(a) \/ StoreStep(a))

Fairness == \A a \in Attempts : WF_vars(RunsOn(a))

Spec == Init /\ [][Next]_vars
FairSpec == Spec /\ Fairness

----------------------------------------------------------------------------
\* Every variable keeps its shape.
TypeOK ==
  /\ StoreTypeOK
  /\ Attempt!TypeOK
  /\ stage \in [Attempts -> Stages]
  /\ trigger \in [Attempts -> Signatures \cup {NoTrigger}]
  /\ beatAt \in [Observers -> Times \cup {Never, Down}]

\* "serialized by an atomic cross-process lock" (README.md:168): between its
\* duplicate check and its record an attempt's signature stays unrecorded, so
\* a second attempt on the same trigger never gets as far as the simulation.
NoSecondAttemptOnSignature ==
  \A a \in Attempts :
    (\/ stage[a] \in {"fresh", "beat1", "simulating"}
     \/ stage[a] = "recording" /\ step[a] \in {"called", "loaded"})
      => ~Contains(evidence, trigger[a])

\* An attempt that ends with success has its record in the file, however
\* often it, the observers or earlier attempts failed or died.
SuccessIsDurable ==
  \A a \in Attempts :
    stage[a] \in {"recorded", "beat2", "finished", "done"} => Contains(evidence, trigger[a])

\* An attempt that has started ends: it is refused, fails, succeeds or is
\* killed, whoever holds or has orphaned either lock.
AttemptEnds == \A a \in Attempts : Running(a) ~> ~Running(a)
=============================================================================
