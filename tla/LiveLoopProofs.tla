--------------------------- MODULE LiveLoopProofs ---------------------------
(***************************************************************************)
(* What holds of any number of live loops, candidates, routes and any age  *)
(* at which a lock counts as stale.  No loop asks whose lock it touches or *)
(* removes: that trades stay apart rests on who can be near the path.      *)
(***************************************************************************)
EXTENDS LiveLoop, TLAPS

\* On the lock's path or behind it.
Near(p) == pc[p] = "touch" \/ Trading(p)

\* Unless the lock was raced, one loop at most is near it, and a trade is
\* covered by a lock that nobody takes for stale.
TradeInv ==
  ~raced => /\ \A p, q \in Procs : Near(p) /\ Near(q) => p = q
            /\ \A p \in Procs : Trading(p) => lock.exists /\ lock.age < Stale

\* Before the submission nothing was sent for the candidate under way.
Unsent(p) ==
  pc[p] \in {"simulating", "exists?", "age?", "touch", "submitting"}
    => /\ cand[p] \in seen[p]
       /\ \A s \in sent : s[1] = p => s[2] # cand[p]

SentInv ==
  /\ \A s \in sent : s[2] \in seen[s[1]]
  /\ \A p \in Procs : Unsent(p)
  /\ OneSubmissionPerCandidate

LoopInv == TypeOK /\ TradeInv /\ SentInv

----------------------------------------------------------------------------
\* No loop runs at the start.
LEMMA InitLoopInv == Init => LoopInv
<1> SUFFICES ASSUME Init PROVE LoopInv
  OBVIOUS
<1>1. TypeOK
  <2>1. lock \in [exists : BOOLEAN, age : 0..Stale]
    BY StaleAssumption DEF Init, NoLock
  <2>2. combo \in [Procs -> 1..Combos]
    BY CombosAssumption DEF Init
  <2>3. sent \subseteq Procs \X (Candidates \cup {NoCandidate}) \X (1..Combos)
    BY DEF Init
  <2> QED
    BY <2>1, <2>2, <2>3 DEF Init, TypeOK, Locations
<1>2. TradeInv
  BY DEF Init, TradeInv, Near, Trading
<1>3. SentInv
  BY DEF Init, SentInv, Unsent, OneSubmissionPerCandidate
<1> QED
  BY <1>1, <1>2, <1>3 DEF LoopInv

\* A step leaves the set of transactions as it is, takes a restarted loop's out
\* or puts the one in that is being submitted.
LEMMA SentStaysTyped ==
  ASSUME TypeOK, NEW p \in Procs, Sent(p) \/ UNCHANGED sent
  PROVE  sent' \subseteq Procs \X (Candidates \cup {NoCandidate}) \X (1..Combos)
<1>1. cand[p] \in Candidates \cup {NoCandidate} /\ combo[p] \in 1..Combos
  BY DEF TypeOK
<1>2. <<p, cand[p], combo[p]>> \in Procs \X (Candidates \cup {NoCandidate}) \X (1..Combos)
  BY <1>1
<1> QED
  BY <1>2 DEF TypeOK, Sent

\* Every step keeps the types.
LEMMA NextTypeOK == TypeOK /\ [Next]_vars => TypeOK'
<1> SUFFICES ASSUME TypeOK, [Next]_vars PROVE TypeOK'
  OBVIOUS
<1> DEFINE SentTyped == sent \subseteq Procs \X (Candidates \cup {NoCandidate}) \X (1..Combos)
<1>t. SentTyped
  BY DEF TypeOK
<1>1. ASSUME NEW p \in Procs, Start(p) \/ Die(p)
      PROVE  TypeOK'
  <2>1. SentTyped'
    BY <1>t, <1>1 DEF Start, Die
  <2>2. pc' \in [Procs -> Locations] /\ seen' \in [Procs -> SUBSET Candidates]
    BY <1>1 DEF Start, Die, Goto, TypeOK, Locations
  <2> QED
    BY <1>1, <2>1, <2>2 DEF Start, Die, TypeOK
<1>2. ASSUME NEW p \in Procs, NEW c \in Candidates, Detect(p, c)
      PROVE  TypeOK'
  <2>1. SentTyped'
    BY <1>t, <1>2 DEF Detect
  <2>2. pc' \in [Procs -> Locations] /\ seen' \in [Procs -> SUBSET Candidates]
    BY <1>2 DEF Detect, Goto, TypeOK, Locations
  <2>3. /\ cand' \in [Procs -> Candidates \cup {NoCandidate}]
        /\ combo' \in [Procs -> 1..Combos]
    BY <1>2, CombosAssumption DEF Detect, TypeOK
  <2> QED
    BY <1>2, <2>1, <2>2, <2>3 DEF Detect, TypeOK
<1>3. ASSUME NEW p \in Procs, Abandon(p) \/ NotApproved(p) \/ Approved(p) \/ LockHeld(p)
      PROVE  TypeOK'
  <2>1. SentTyped'
    BY <1>t, <1>3 DEF Abandon, NotApproved, Approved, LockHeld
  <2>2. pc' \in [Procs -> Locations]
    BY <1>3 DEF Abandon, NotApproved, Approved, LockHeld, NextCombo, Goto, TypeOK, Locations
  <2>3. combo' \in [Procs -> 1..Combos]
    BY <1>3, CombosAssumption DEF Abandon, NotApproved, Approved, LockHeld, NextCombo, TypeOK
  <2> QED
    BY <1>3, <2>1, <2>2, <2>3 DEF Abandon, NotApproved, Approved, LockHeld, TypeOK
<1>4. ASSUME NEW p \in Procs, LockExists(p) \/ LockStale(p)
      PROVE  TypeOK'
  <2>1. raced' \in BOOLEAN
    BY <1>4, Zenon DEF LockExists, LockStale, Watch
  <2>2. pc' \in [Procs -> Locations]
    BY <1>4 DEF LockExists, LockStale, Goto, TypeOK, Locations
  <2> QED
    BY <1>t, <1>4, <2>1, <2>2 DEF LockExists, LockStale, TypeOK
<1>5. ASSUME NEW p \in Procs, Answer(p) \/ NoAnswer(p)
      PROVE  TypeOK'
  <2>1. SentTyped'
    BY <1>5, SentStaysTyped DEF Answer, NoAnswer
  <2>2. pc' \in [Procs -> Locations]
    BY <1>5 DEF Answer, NoAnswer, Goto, TypeOK, Locations
  <2> QED
    BY <1>5, <2>1, <2>2 DEF Answer, NoAnswer, TypeOK
<1>6. ASSUME NEW p \in Procs, Touch(p) \/ Journal(p) \/ Release(p) \/ ReleaseRaising(p)
      PROVE  TypeOK'
  <2>1. SentTyped'
    BY <1>t, <1>6 DEF Touch, Journal, Release, ReleaseRaising
  <2>2. pc' \in [Procs -> Locations]
    BY <1>6 DEF Touch, Journal, Release, ReleaseRaising, Goto, TypeOK, Locations
  <2>3. lock' \in [exists : BOOLEAN, age : 0..Stale]
    <3>1. 0 \in 0..Stale
      BY StaleAssumption
    <3>2. CASE Touch(p)
      BY <3>1, <3>2 DEF Touch
    <3>3. CASE Journal(p)
      BY <3>3 DEF Journal, TypeOK
    <3>4. CASE Release(p) \/ ReleaseRaising(p)
      <4>1. lock' = [exists |-> FALSE, age |-> 0]
        BY <3>4 DEF Release, ReleaseRaising, NoLock
      <4> QED
        BY <3>1, <4>1
    <3> QED
      BY <1>6, <3>2, <3>3, <3>4
  <2> QED
    BY <1>6, <2>1, <2>2, <2>3 DEF Touch, Journal, Release, ReleaseRaising, TypeOK
<1>7. CASE Tick
  <2>1. raced' \in BOOLEAN
    BY <1>7, Zenon DEF Tick
  <2>2. lock' \in [exists : BOOLEAN, age : 0..Stale]
    BY <1>7, StaleAssumption DEF Tick, TypeOK
  <2> QED
    BY <1>t, <1>7, <2>1, <2>2 DEF Tick, TypeOK
<1>8. CASE UNCHANGED vars
  BY <1>8 DEF vars, TypeOK
<1> QED
  BY <1>1, <1>2, <1>3, <1>4, <1>5, <1>6, <1>7, <1>8 DEF Next, Loop

\* Every step keeps the trades apart.
LEMMA NextTradeInv == TypeOK /\ TradeInv /\ [Next]_vars => TradeInv'
<1> SUFFICES ASSUME TypeOK, TradeInv, [Next]_vars, ~raced' PROVE TradeInv'
  BY DEF TradeInv
<1> USE DEF TradeInv, Near, Trading, Goto
<1>1. ASSUME NEW p \in Procs, Start(p) \/ Die(p)
      PROVE  TradeInv'
  BY <1>1 DEF Start, Die, TypeOK
<1>2. ASSUME NEW p \in Procs, NEW c \in Candidates, Detect(p, c)
      PROVE  TradeInv'
  BY <1>2 DEF Detect, TypeOK
<1>3. ASSUME NEW p \in Procs, Abandon(p) \/ NotApproved(p) \/ Approved(p) \/ LockHeld(p)
      PROVE  TradeInv'
  BY <1>3 DEF Abandon, NotApproved, Approved, LockHeld, NextCombo, TypeOK
<1>4. ASSUME NEW p \in Procs, LockExists(p) \/ LockStale(p)
      PROVE  TradeInv'
  <2>1. ~raced
    BY <1>4 DEF LockExists, LockStale, Watch
  <2>2. \A q \in Procs : Trading(q)' => q # p /\ Trading(q)
    BY <1>4 DEF LockExists, LockStale, TypeOK
  <2>3. \A q \in Procs : Trading(q) => lock.exists /\ lock.age < Stale
    BY <2>1
  <2>4. CASE pc'[p] = "touch"
    <3>1. \A q \in Procs : ~Trading(q)
      BY <1>4, <2>3, <2>4, StaleAssumption DEF LockExists, LockStale, TypeOK
    <3>2. \A q \in Procs : pc'[q] = "touch" => q = p
      BY <1>4, <2>4 DEF LockExists, LockStale, Watch
    <3> QED
      BY <2>2, <3>1, <3>2
  <2>5. CASE pc'[p] # "touch"
    BY <1>4, <2>1, <2>5 DEF LockExists, LockStale, TypeOK
  <2> QED
    BY <2>4, <2>5
<1>5. ASSUME NEW p \in Procs, Touch(p)
      PROVE  TradeInv'
  BY <1>5, StaleAssumption DEF Touch, TypeOK
<1>6. ASSUME NEW p \in Procs, Answer(p) \/ NoAnswer(p) \/ Journal(p)
      PROVE  TradeInv'
  BY <1>6 DEF Answer, NoAnswer, Journal, TypeOK
<1>7. ASSUME NEW p \in Procs, Release(p) \/ ReleaseRaising(p)
      PROVE  TradeInv'
  BY <1>7 DEF Release, ReleaseRaising, TypeOK
<1>8. CASE Tick
  BY <1>8, StaleAssumption DEF Tick, TypeOK
<1>9. CASE UNCHANGED vars
  BY <1>9 DEF vars
<1> QED
  BY <1>1, <1>2, <1>3, <1>4, <1>5, <1>6, <1>7, <1>8, <1>9 DEF Next, Loop

\* Every step keeps the transactions of a loop apart by their candidate.
LEMMA NextSentInv == TypeOK /\ SentInv /\ [Next]_vars => SentInv'
<1> SUFFICES ASSUME TypeOK, SentInv, [Next]_vars PROVE SentInv'
  OBVIOUS
<1> USE DEF SentInv, Unsent, OneSubmissionPerCandidate, Goto
<1>1. ASSUME NEW p \in Procs, Start(p)
      PROVE  SentInv'
  BY <1>1 DEF Start, TypeOK
<1>2. ASSUME NEW p \in Procs, NEW c \in Candidates, Detect(p, c)
      PROVE  SentInv'
  BY <1>2 DEF Detect, TypeOK
<1>3. ASSUME NEW p \in Procs, Abandon(p) \/ NotApproved(p) \/ Approved(p) \/ LockHeld(p)
      PROVE  SentInv'
  BY <1>3 DEF Abandon, NotApproved, Approved, LockHeld, NextCombo, TypeOK
<1>4. ASSUME NEW p \in Procs, LockExists(p) \/ LockStale(p) \/ Touch(p)
      PROVE  SentInv'
  BY <1>4 DEF LockExists, LockStale, Touch, TypeOK
<1>5. ASSUME NEW p \in Procs, Answer(p) \/ NoAnswer(p)
      PROVE  SentInv'
  <2>1. /\ pc[p] = "submitting"
        /\ pc' \in {[pc EXCEPT ![p] = to] : to \in {"answered", "failed", "fatal"}}
        /\ UNCHANGED <<cand, combo, seen>>
    BY <1>5 DEF Answer, NoAnswer
  <2>2. CASE UNCHANGED sent
    BY <2>1, <2>2 DEF TypeOK
  <2>3. CASE Sent(p)
    <3> DEFINE new == <<p, cand[p], combo[p]>>
    <3>1. new[1] = p /\ new[2] = cand[p] /\ sent' = sent \cup {new}
      BY <2>3 DEF Sent
    <3>2. cand[p] \in seen[p] /\ \A s \in sent : s[1] = p => s[2] # cand[p]
      BY <2>1
    <3> HIDE DEF new
    <3>3. \A s \in sent' : s[2] \in seen'[s[1]]
      BY <2>1, <3>1, <3>2
    <3>4. \A q \in Procs : Unsent(q)'
      BY <2>1, <3>1 DEF TypeOK
    <3>5. OneSubmissionPerCandidate'
      BY <3>1, <3>2
    <3> QED
      BY <3>3, <3>4, <3>5
  <2> QED
    BY <1>5, <2>2, <2>3 DEF Answer, NoAnswer
<1>6. ASSUME NEW p \in Procs, Journal(p) \/ Release(p) \/ ReleaseRaising(p) \/ Die(p)
      PROVE  SentInv'
  BY <1>6 DEF Journal, Release, ReleaseRaising, Die, TypeOK
<1>7. CASE Tick \/ UNCHANGED vars
  BY <1>7 DEF Tick, vars
<1> QED
  BY <1>1, <1>2, <1>3, <1>4, <1>5, <1>6, <1>7 DEF Next, Loop

----------------------------------------------------------------------------
\* The inductive invariant of the live loops.
THEOREM LoopInvariant == Spec => []LoopInv
<1>1. LoopInv /\ [Next]_vars => LoopInv'
  BY NextTypeOK, NextTradeInv, NextSentInv DEF LoopInv
<1> QED
  BY <1>1, InitLoopInv, PTL DEF Spec

\* Every variable keeps its shape, whatever the number of loops and candidates.
THEOREM TypeCorrect == Spec => []TypeOK
<1>1. LoopInv => TypeOK
  BY DEF LoopInv
<1> QED
  BY <1>1, LoopInvariant, PTL

\* Trades never overlap unless two loops look at the lock before either
\* touches it, or a trade lives longer than its lock.
THEOREM TradesStayApart == Spec => []OneTradeUnlessRaced
<1>1. LoopInv => OneTradeUnlessRaced
  BY DEF LoopInv, TradeInv, OneTradeUnlessRaced, OneTradeAtATime, Near
<1> QED
  BY <1>1, LoopInvariant, PTL

\* No loop submits twice for one candidate, whatever fails in between.
THEOREM SubmittedOnce == Spec => []OneSubmissionPerCandidate
<1>1. LoopInv => OneSubmissionPerCandidate
  BY DEF LoopInv, SentInv
<1> QED
  BY <1>1, LoopInvariant, PTL

----------------------------------------------------------------------------
(* The lock itself.                                                        *)

\* A loop that is about to touch the path found no lock there, or an old one,
\* and that is still so unless another loop has looked as well.
TouchInv ==
  ~raced => \A p \in Procs : pc[p] = "touch" /\ lock.exists => lock.age >= Stale

\* Every step keeps it so.
LEMMA NextTouchInv == TypeOK /\ TradeInv /\ TouchInv /\ [Next]_vars => TouchInv'
<1> SUFFICES ASSUME TypeOK, TradeInv, TouchInv, [Next]_vars, ~raced' PROVE TouchInv'
  BY DEF TouchInv
<1> USE DEF TradeInv, TouchInv, Near, Trading, Goto
<1>1. ASSUME NEW p \in Procs, Start(p) \/ Die(p) \/ \E c \in Candidates : Detect(p, c)
      PROVE  TouchInv'
  BY <1>1 DEF Start, Die, Detect, TypeOK
<1>2. ASSUME NEW p \in Procs, Abandon(p) \/ NotApproved(p) \/ Approved(p) \/ LockHeld(p)
      PROVE  TouchInv'
  BY <1>2 DEF Abandon, NotApproved, Approved, LockHeld, NextCombo, TypeOK
<1>3. ASSUME NEW p \in Procs, LockExists(p) \/ LockStale(p)
      PROVE  TouchInv'
  <2>1. ~raced /\ UNCHANGED lock
    BY <1>3 DEF LockExists, LockStale, Watch
  <2>2. \A q \in Procs : q # p => pc'[q] = pc[q]
    BY <1>3 DEF LockExists, LockStale, TypeOK
  <2>3. pc'[p] = "touch" /\ lock.exists => lock.age >= Stale
    BY <1>3 DEF LockExists, LockStale, TypeOK
  <2> QED
    BY <2>1, <2>2, <2>3
<1>4. ASSUME NEW p \in Procs, Touch(p)
      PROVE  TouchInv'
  BY <1>4 DEF Touch, TypeOK
<1>5. ASSUME NEW p \in Procs, Answer(p) \/ NoAnswer(p) \/ Journal(p)
      PROVE  TouchInv'
  BY <1>5 DEF Answer, NoAnswer, Journal, TypeOK
<1>6. ASSUME NEW p \in Procs, Release(p) \/ ReleaseRaising(p)
      PROVE  TouchInv'
  BY <1>6 DEF Release, ReleaseRaising, NoLock, TypeOK
<1>7. CASE Tick
  BY <1>7, StaleAssumption DEF Tick, TypeOK
<1>8. CASE UNCHANGED vars
  BY <1>8 DEF vars
<1> QED
  BY <1>1, <1>2, <1>3, <1>4, <1>5, <1>6, <1>7, <1>8 DEF Next, Loop

\* Loop p begins to trade.
Begins(p) == pc[p] = "touch" /\ Trading(p)'

\* A loop begins a trade when nobody is trading, with no lock on the path or
\* with one that has reached its age, unless loops raced for it.
TakenWhenFree ==
  [][\A p \in Procs : Begins(p) /\ ~raced
       => /\ \A q \in Procs : ~Trading(q)
          /\ lock.exists => lock.age >= Stale]_vars

\* The lock of a trade, or of a killed loop, keeps the others out for 120 s, also
\* those that had looked at it before.
THEOREM LockTakenWhenFree == Spec => TakenWhenFree
<1>1. Init => TouchInv
  BY DEF Init, TouchInv
<1>2. LoopInv /\ TouchInv /\ [Next]_vars
        => [\A p \in Procs : Begins(p) /\ ~raced
              => /\ \A q \in Procs : ~Trading(q)
                 /\ lock.exists => lock.age >= Stale]_vars
  <2> SUFFICES ASSUME LoopInv, TouchInv, NEW p \in Procs, pc[p] = "touch", ~raced
               PROVE  /\ \A q \in Procs : ~Trading(q)
                      /\ lock.exists => lock.age >= Stale
    BY DEF Begins
  <2> QED
    BY DEF LoopInv, TradeInv, TouchInv, Near, Trading
<1>3. LoopInv /\ TouchInv /\ [Next]_vars => TouchInv'
  BY NextTouchInv DEF LoopInv
<1> QED
  BY <1>1, <1>2, <1>3, LoopInvariant, PTL DEF Spec, TakenWhenFree

\* A step of another loop than q, while q trades, that touches or removes the
\* lock.
Disturbs(p, q) == p # q /\ Trading(q) /\ pc'[p] # pc[p] /\ lock' # lock

\* As long as nobody raced, the lock of a trade is left alone by the other loops.
LockLeftAlone == [][\A p, q \in Procs : ~raced => ~Disturbs(p, q)]_vars

\* release_lock() does not ask whose lock it removes, nor touch() whose it takes:
\* that they meet no other loop's trade follows from what was looked at before.
THEOREM TradeKeepsItsLock == Spec => LockLeftAlone
<1>1. ASSUME LoopInv, [Next]_vars, NEW p \in Procs, NEW q \in Procs, ~raced, Disturbs(p, q)
      PROVE  FALSE
  <2> USE DEF Disturbs, Goto
  <2>1. Near(p)
    <3>1. ASSUME NEW r \in Procs, Touch(r) \/ Release(r) \/ ReleaseRaising(r)
          PROVE  r = p /\ Near(p)
      BY <1>1, <3>1 DEF Touch, Release, ReleaseRaising, LoopInv, TypeOK, Near, Trading
    <3>2. ASSUME NEW r \in Procs,
                 \/ Start(r) \/ Die(r) \/ Abandon(r) \/ NotApproved(r) \/ Approved(r)
                 \/ LockExists(r) \/ LockHeld(r) \/ LockStale(r) \/ Answer(r) \/ NoAnswer(r)
                 \/ Journal(r) \/ \E c \in Candidates : Detect(r, c)
          PROVE  lock' = lock
      BY <3>2 DEF Start, Die, Abandon, NotApproved, Approved, LockExists, LockHeld, LockStale,
                  Answer, NoAnswer, Journal, Detect
    <3>3. CASE Tick \/ UNCHANGED vars
      BY <1>1, <3>3 DEF Tick, vars
    <3> QED
      BY <1>1, <3>1, <3>2, <3>3 DEF Next, Loop
  <2> QED
    BY <1>1, <2>1 DEF LoopInv, TradeInv, Near
<1>2. LoopInv /\ [Next]_vars => [\A p, q \in Procs : ~raced => ~Disturbs(p, q)]_vars
  BY <1>1
<1> QED
  BY <1>2, LoopInvariant, PTL DEF Spec, LockLeftAlone
=============================================================================
