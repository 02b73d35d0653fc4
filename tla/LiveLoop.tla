----------------------------- MODULE LiveLoop -----------------------------
(***************************************************************************)
(* The live execution loop, ops/live-loop.py: candidates, the route and    *)
(* direction of the trade, the lock file around signing and submission,    *)
(* and the journal of trades.  Several loops may run on one data directory.*)
(*                                                                         *)
(* The lock is a file whose existence and age are looked at in separate    *)
(* steps, that is touched without O_EXCL and unlinked without asking whose *)
(* it is.                                                                  *)
(*                                                                         *)
(* Abstraction: a candidate has Combos pairs of a route and a direction,   *)
(* tried in order; a simulation is its verdict; the age of the lock counts *)
(* up to Stale and stays there (older makes no difference).  The heartbeats*)
(* of this loop are in ShadowCampaign.                                     *)
(***************************************************************************)
EXTENDS Integers, FiniteSets

CONSTANTS
  Procs,       \* the running loops
  Candidates,  \* the large buys the loops may see
  NoCandidate, \* what a loop works on before the first one
  Combos,      \* how many pairs of a route and a direction a candidate has
  Stale        \* the age, in ticks, at which a lock is taken over (120 s)

ASSUME CombosAssumption == Combos \in Nat \ {0}
ASSUME StaleAssumption == Stale \in Nat \ {0}

VARIABLES
  lock,    \* data/live-execution.lock
  pc,      \* where each loop stands
  cand,    \* the candidate it works on
  combo,   \* the pair it tries
  seen,    \* seen_candidates, of this process only
  sent,    \* the transactions that reached the network, per run of a loop
  raced    \* whether the lock was ever out of its depth: see Watch and Tick

vars == <<lock, pc, cand, combo, seen, sent, raced>>

NoLock == [exists |-> FALSE, age |-> 0]

(***************************************************************************)
(* "exists?", "age?", "touch": the three steps of try_acquire_lock.        *)
(* "submitting": in sign_and_submit.  "answered": it returned a result.    *)
(* "failed": an exception the outer handler knows.  "fatal": one it does   *)
(* not know (TimeoutExpired): the process ends after the finally clause.   *)
(***************************************************************************)
Locations == {"down", "watching", "simulating", "exists?", "age?", "touch",
              "submitting", "answered", "recorded", "failed", "fatal"}

Trading(p) == pc[p] \in {"submitting", "answered", "recorded", "failed", "fatal"}

Goto(p, from, to) ==
  /\ pc[p] = from
  /\ pc' = [pc EXCEPT ![p] = to]

----------------------------------------------------------------------------
Init ==
  /\ lock = NoLock
  /\ pc = [p \in Procs |-> "down"]
  /\ cand = [p \in Procs |-> NoCandidate]
  /\ combo = [p \in Procs |-> 1]
  /\ seen = [p \in Procs |-> {}]
  /\ sent = {}
  /\ raced = FALSE

\* A fresh process remembers nothing.
Start(p) ==
  /\ Goto(p, "down", "watching")
  /\ seen' = [seen EXCEPT ![p] = {}]
  /\ sent' = {s \in sent : s[1] # p}
  /\ UNCHANGED <<lock, cand, combo, raced>>

\* A confirmed large buy that this process has not seen yet; it counts as seen
\* before anything is done about it.
Detect(p, c) ==
  /\ Goto(p, "watching", "simulating")
  /\ c \notin seen[p]
  /\ seen' = [seen EXCEPT ![p] = @ \cup {c}]
  /\ cand' = [cand EXCEPT ![p] = c]
  /\ combo' = [combo EXCEPT ![p] = 1]
  /\ UNCHANGED <<lock, sent, raced>>

\* An error outside the inner handlers (discovery, latest_slot, the candidate
\* journal, a touch that fails): reconnect.
Abandon(p) ==
  /\ Goto(p, "simulating", "watching") \/ Goto(p, "touch", "watching")
  /\ UNCHANGED <<lock, cand, combo, seen, sent, raced>>

\* Mutant: one pair too many.
NextComboPast(p, from) ==
  \/ /\ combo[p] <= Combos
     /\ Goto(p, from, "simulating")
     /\ combo' = [combo EXCEPT ![p] = @ + 1]
  \/ /\ combo[p] > Combos
     /\ Goto(p, from, "watching")
     /\ UNCHANGED combo

\* The next direction or route, or none is left.
NextCombo(p, from) ==
  \/ /\ combo[p] < Combos
     /\ Goto(p, from, "simulating")
     /\ combo' = [combo EXCEPT ![p] = @ + 1]
  \/ /\ combo[p] = Combos
     /\ Goto(p, from, "watching")
     /\ UNCHANGED combo

\* The simulation fails or is not approved: the next direction or route.
NotApproved(p) ==
  /\ NextCombo(p, "simulating")
  /\ UNCHANGED <<lock, cand, seen, sent, raced>>

Approved(p) ==
  /\ Goto(p, "simulating", "exists?")
  /\ UNCHANGED <<lock, cand, combo, seen, sent, raced>>

\* Two loops have looked and not touched yet.
Watch ==
  raced' = (raced \/ \E p, q \in Procs : p # q /\ pc'[p] = "touch" /\ pc'[q] = "touch")

LockExists(p) ==
  /\ Goto(p, "exists?", IF lock.exists THEN "age?" ELSE "touch")
  /\ Watch
  /\ UNCHANGED <<lock, cand, combo, seen, sent>>

\* Somebody holds the lock, or died with it less than Stale ago.
LockHeld(p) ==
  /\ lock.exists
  /\ lock.age < Stale
  /\ NextCombo(p, "age?")
  /\ UNCHANGED <<lock, cand, seen, sent, raced>>

\* Mutant: an existing lock is taken over whatever its age.
LockIgnored(p) ==
  /\ Goto(p, "age?", "touch")
  /\ Watch
  /\ UNCHANGED <<lock, cand, combo, seen, sent>>

\* The lock is old, or it is gone again (stat raises, the error is ignored).
LockStale(p) ==
  /\ Goto(p, "age?", "touch")
  /\ lock.exists => lock.age >= Stale
  /\ Watch
  /\ UNCHANGED <<lock, cand, combo, seen, sent>>

\* touch() succeeds whoever else has touched the file in the meantime.
Touch(p) ==
  /\ Goto(p, "touch", "submitting")
  /\ lock' = [exists |-> TRUE, age |-> 0]
  /\ UNCHANGED <<cand, combo, seen, sent, raced>>

Sent(p) == sent' = sent \cup {<<p, cand[p], combo[p]>>}

\* The script answers; whether the network has the transaction is another
\* question: an error of sendTransaction may come after it was accepted.
Answer(p) ==
  /\ Goto(p, "submitting", "answered")
  /\ Sent(p) \/ UNCHANGED sent
  /\ UNCHANGED <<lock, cand, combo, seen, raced>>

\* The answer is no JSON, or the script outlives its 60 seconds.
NoAnswer(p) ==
  /\ Goto(p, "submitting", "failed") \/ Goto(p, "submitting", "fatal")
  /\ Sent(p) \/ UNCHANGED sent
  /\ UNCHANGED <<lock, cand, combo, seen, raced>>

\* append_jsonl(TRADES_PATH): written, or the disk is full.
Journal(p) ==
  /\ Goto(p, "answered", "recorded") \/ Goto(p, "answered", "failed")
  /\ UNCHANGED <<lock, cand, combo, seen, sent, raced>>

\* Mutant: after a trade the next direction is tried.
ReleaseContinue(p) ==
  /\ NextCombo(p, "recorded")
  /\ lock' = NoLock
  /\ UNCHANGED <<cand, seen, sent, raced>>

\* finally: release_lock() removes the path, then both loops are left.
Release(p) ==
  /\ Goto(p, "recorded", "watching")
  /\ lock' = NoLock
  /\ UNCHANGED <<cand, combo, seen, sent, raced>>

\* The finally clause runs, then the exception goes on.
ReleaseRaising(p) ==
  /\ Goto(p, "failed", "watching") \/ Goto(p, "fatal", "down")
  /\ lock' = NoLock
  /\ UNCHANGED <<cand, combo, seen, sent, raced>>

\* The process is killed; the lock file stays.
Die(p) ==
  /\ pc[p] # "down"
  /\ pc' = [pc EXCEPT ![p] = "down"]
  /\ UNCHANGED <<lock, cand, combo, seen, sent, raced>>

\* A minute passes; a lock that is held for too long counts as orphaned.
Tick ==
  /\ lock.exists
  /\ lock.age < Stale
  /\ lock' = [lock EXCEPT !.age = @ + 1]
  /\ raced' = (raced \/ (lock'.age = Stale /\ \E p \in Procs : Trading(p)))
  /\ UNCHANGED <<pc, cand, combo, seen, sent>>

Loop(p) ==
  \/ Abandon(p) \/ NotApproved(p) \/ Approved(p)
  \/ LockExists(p) \/ LockHeld(p) \/ LockStale(p) \/ Touch(p)
  \/ Answer(p) \/ NoAnswer(p) \/ Journal(p) \/ Release(p) \/ ReleaseRaising(p)

Next ==
  \/ \E p \in Procs : Start(p) \/ Loop(p) \/ Die(p)
  \/ \E p \in Procs, c \in Candidates : Detect(p, c)
  \/ Tick

Spec == Init /\ [][Next]_vars

----------------------------------------------------------------------------
\* Every variable keeps its shape.
TypeOK ==
  /\ lock \in [exists : BOOLEAN, age : 0..Stale]
  /\ pc \in [Procs -> Locations]
  /\ cand \in [Procs -> Candidates \cup {NoCandidate}]
  /\ combo \in [Procs -> 1..Combos]
  /\ seen \in [Procs -> SUBSET Candidates]
  /\ sent \subseteq Procs \X (Candidates \cup {NoCandidate}) \X (1..Combos)
  /\ raced \in BOOLEAN

\* "One trade at a time (file lock)" (live-loop.py:12).
OneTradeAtATime == \A p, q \in Procs : Trading(p) /\ Trading(q) => p = q

\* What the lock does give: unless two loops look before either touches, or a
\* trade outlives the age at which its lock counts as stale, trades do not
\* overlap, although no loop asks whose lock it removes.
OneTradeUnlessRaced == ~raced => OneTradeAtATime

\* A loop sends at most one transaction for a candidate, over all routes and
\* directions, failed submissions, lost answers and reconnects.
OneSubmissionPerCandidate ==
  \A s, t \in sent : s[1] = t[1] /\ s[2] = t[2] => s = t
=============================================================================
