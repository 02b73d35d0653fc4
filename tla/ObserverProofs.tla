--------------------------- MODULE ObserverProofs ---------------------------
(***************************************************************************)
(* What holds of the observer for all transactions and mints, whatever     *)
(* answers, and when.                                                      *)
(*                                                                         *)
(* A candidate is written down once because it is seen before it is        *)
(* written; it is a confirmed buy because what is under way is one.        *)
(* Then what holds of a replay.                                            *)
(***************************************************************************)
EXTENDS Observer, Discovery, TLAPS

USE DEF TrendingMints, DetectLargeBuys

SeenBeforeWritten ==
  \A c \in Candidates : records[c] <= 1 /\ (records[c] > 0 => c \in cands)

WorkingOnConfirmed ==
  /\ pc \in {"confirming", "working"} => tx \in Txs
  /\ pc = "working" => status[tx] = "confirmed" /\ found \subseteq Buys[tx]

TriesLeft == pc = "confirming" => tries >= 1

ObserverInv == TypeOK /\ SeenBeforeWritten /\ WorkingOnConfirmed /\ TriesLeft /\ RecordsConfirmed

----------------------------------------------------------------------------
LEMMA InitObserverInv == Init => ObserverInv
<1> SUFFICES ASSUME Init PROVE ObserverInv
  OBVIOUS
<1>1. \A c \in Candidates : records[c] = 0
  BY DEF Init
<1>2. \A t \in Txs, m \in Mints : <<t, m>> \in Candidates
  BY DEF Candidates
<1>3. TypeOK
  <2>1. records \in [Candidates -> Nat] /\ age \in 0..Refresh /\ tries \in 0..Tries
    BY TriesAssumption DEF Init
  <2>2. up \subseteq Services
    BY DEF Init
  <2> QED BY <2>1, <2>2 DEF Init, TypeOK
<1> QED BY <1>1, <1>2, <1>3 DEF Init, ObserverInv, SeenBeforeWritten, WorkingOnConfirmed, TriesLeft,
           RecordsConfirmed

\* What neither looks at an event nor ends the process.
LEMMA QuietObserverInv ==
  ObserverInv /\ (Connect \/ Heartbeat \/ RefreshTrending \/ PollNothing \/ Worked \/ Reconnect
                  \/ Start \/ Tick \/ \E s \in Services : Toggles(s))
    => ObserverInv'
<1> SUFFICES ASSUME ObserverInv,
                    Connect \/ Heartbeat \/ RefreshTrending \/ PollNothing \/ Worked \/ Reconnect
                    \/ Start \/ Tick \/ \E s \in Services : Toggles(s)
             PROVE  ObserverInv'
  OBVIOUS
<1> USE DEF Goto, Fails, memory, position, world
<1>1. UNCHANGED <<status, cands, tx, tries, found, records>>
  BY DEF Connect, Heartbeat, RefreshTrending, PollNothing, Worked, Reconnect, Start, Tick, Toggles
<1>2. pc' \in {"confirming", "working"} => pc' = pc
  BY DEF Connect, Heartbeat, RefreshTrending, PollNothing, Worked, Reconnect, Start, Tick, Toggles
<1>3. TypeOK'
  <2> USE DEF ObserverInv, TypeOK
  <2>1. up' \subseteq Services /\ due' \in BOOLEAN /\ sigs' \subseteq Txs
    BY DEF Connect, Heartbeat, RefreshTrending, PollNothing, Worked, Reconnect, Start, Tick, Toggles
  <2>2. age' \in 0..Refresh
    BY TriesAssumption
    DEF Connect, Heartbeat, RefreshTrending, PollNothing, Worked, Reconnect, Start, Tick, Toggles
  <2>3. trending' \subseteq Mints
    BY DEF Connect, Heartbeat, RefreshTrending, PollNothing, Worked, Reconnect, Start, Tick, Toggles
  <2>4. pc' \in {"down", "connecting", "looping", "refreshing", "polling", "confirming",
                 "working", "backoff"}
    BY DEF Connect, Heartbeat, RefreshTrending, PollNothing, Worked, Reconnect, Start, Tick, Toggles
  <2> QED BY <1>1, <2>1, <2>2, <2>3, <2>4
<1>4. SeenBeforeWritten' /\ RecordsConfirmed'
  BY <1>1 DEF ObserverInv, SeenBeforeWritten, RecordsConfirmed
<1>5. WorkingOnConfirmed' /\ TriesLeft'
  BY <1>1, <1>2 DEF ObserverInv, WorkingOnConfirmed, TriesLeft
<1> QED BY <1>3, <1>4, <1>5 DEF ObserverInv

LEMMA PollEventObserverInv == ASSUME ObserverInv, NEW t \in Txs, PollEvent(t) PROVE ObserverInv'
<1> USE DEF PollEvent, Goto, world, ObserverInv
<1>1. TypeOK'
  BY TriesAssumption DEF TypeOK
<1>2. SeenBeforeWritten' /\ RecordsConfirmed'
  BY DEF SeenBeforeWritten, RecordsConfirmed
<1> QED BY <1>1, <1>2, TriesAssumption DEF WorkingOnConfirmed, TriesLeft

LEMMA ConfirmingObserverInv == ObserverInv /\ (Confirmed \/ Unconfirmed) => ObserverInv'
<1> SUFFICES ASSUME ObserverInv, Confirmed \/ Unconfirmed PROVE ObserverInv'
  OBVIOUS
<1> USE DEF Confirmed, Unconfirmed, Goto, Fails, world, ObserverInv
<1>1. tx \in Txs /\ pc = "confirming" /\ tries \in 1..Tries
  BY DEF WorkingOnConfirmed, TriesLeft, TypeOK
<1>2. TypeOK'
  <2>1. tries' \in 0..Tries
    BY <1>1, TriesAssumption DEF TypeOK
  <2>2. found' \subseteq Mints
    BY DEF TypeOK
  <2> QED BY <2>1, <2>2 DEF TypeOK
<1>3. SeenBeforeWritten' /\ RecordsConfirmed'
  BY DEF SeenBeforeWritten, RecordsConfirmed
<1>4. WorkingOnConfirmed'
  BY <1>1 DEF WorkingOnConfirmed
<1>5. TriesLeft'
  BY <1>1, TriesAssumption DEF TriesLeft
<1> QED BY <1>2, <1>3, <1>4, <1>5

LEMMA CandidateObserverInv == ASSUME ObserverInv, NEW m \in found, Candidate(m) PROVE ObserverInv'
<1> USE DEF Candidate, Fails, world, ObserverInv
<1>1. /\ tx \in Txs /\ m \in Mints /\ <<tx, m>> \in Candidates
      /\ status[tx] = "confirmed" /\ m \in Buys[tx]
  BY DEF WorkingOnConfirmed, TypeOK, Candidates
<1>2. /\ records' = records \/ (<<tx, m>> \notin cands
                                 /\ records' = [records EXCEPT ![<<tx, m>>] = @ + 1])
      /\ cands' = cands \cup {<<tx, m>>}
      /\ found' \subseteq found /\ pc' \in {"working", "backoff"}
      /\ UNCHANGED <<up, status, sigs, trending, due, age, tx, tries>>
  BY DEF TypeOK
<1>3. records' \in [Candidates -> Nat]
  BY <1>1, <1>2 DEF TypeOK
<1>4. TypeOK'
  BY <1>1, <1>2, <1>3 DEF TypeOK
<1>5. SeenBeforeWritten'
  <2>1. CASE records' = records
    BY <2>1, <1>2 DEF SeenBeforeWritten
  <2>2. CASE <<tx, m>> \notin cands /\ records' = [records EXCEPT ![<<tx, m>>] = @ + 1]
    <3>1. records[<<tx, m>>] = 0
      BY <2>2, <1>1 DEF SeenBeforeWritten, TypeOK
    <3>2. \A c \in Candidates : records'[c] = IF c = <<tx, m>> THEN 1 ELSE records[c]
      BY <2>2, <3>1, <1>1 DEF TypeOK
    <3> QED BY <3>2, <1>2 DEF SeenBeforeWritten
  <2> QED BY <1>2, <2>1, <2>2
<1>6. RecordsConfirmed'
  <2>1. \A c \in Candidates : c # <<tx, m>> => records'[c] = records[c]
    BY <1>2 DEF TypeOK
  <2>2. SUFFICES ASSUME NEW t \in Txs, NEW n \in Mints, records'[<<t, n>>] > 0
                 PROVE  status[t] = "confirmed" /\ n \in Buys[t]
    BY <1>2 DEF RecordsConfirmed
  <2>3. CASE t = tx /\ n = m
    BY <2>3, <1>1
  <2>4. CASE ~(t = tx /\ n = m)
    <3>1. <<t, n>> \in Candidates /\ <<t, n>> # <<tx, m>>
      BY <2>4 DEF Candidates
    <3> QED BY <3>1, <2>1, <2>2 DEF RecordsConfirmed
  <2> QED BY <2>3, <2>4
<1>7. WorkingOnConfirmed' /\ TriesLeft'
  BY <1>1, <1>2 DEF WorkingOnConfirmed, TriesLeft
<1> QED BY <1>4, <1>5, <1>6, <1>7

\* Without its memory a process has written nothing.
LEMMA DiesObserverInv == ObserverInv /\ Dies => ObserverInv'
<1> SUFFICES ASSUME ObserverInv, Dies PROVE ObserverInv'
  OBVIOUS
<1> USE DEF Dies, world, ObserverInv
<1>1. \A c \in Candidates : records'[c] = 0
  OBVIOUS
<1>2. \A t \in Txs, m \in Mints : <<t, m>> \in Candidates
  BY DEF Candidates
<1>3. TypeOK'
  <2>1. records' \in [Candidates -> Nat] /\ age' \in 0..Refresh /\ tries' \in 0..Tries
    BY TriesAssumption
  <2> QED BY <2>1 DEF TypeOK
<1> QED BY <1>1, <1>2, <1>3 DEF SeenBeforeWritten, WorkingOnConfirmed, TriesLeft, RecordsConfirmed

\* What is confirmed stays so.
LEMMA SettlesObserverInv == ASSUME ObserverInv, NEW t \in Txs, Settles(t) PROVE ObserverInv'
<1> USE DEF Settles, memory, position, ObserverInv
<1>1. \A u \in Txs : status[u] = "confirmed" => status'[u] = "confirmed"
  BY DEF TypeOK
<1>2. TypeOK'
  BY DEF TypeOK
<1> QED BY <1>1, <1>2 DEF SeenBeforeWritten, WorkingOnConfirmed, TriesLeft, RecordsConfirmed

LEMMA NextObserverInv == ObserverInv /\ [Next]_vars => ObserverInv'
<1> SUFFICES ASSUME ObserverInv, [Next]_vars PROVE ObserverInv'
  OBVIOUS
<1>1. CASE UNCHANGED vars
  BY <1>1 DEF vars, world, memory, position, ObserverInv, TypeOK, SeenBeforeWritten,
              WorkingOnConfirmed, TriesLeft, RecordsConfirmed
<1>2. CASE Step
  BY <1>2, QuietObserverInv, PollEventObserverInv, ConfirmingObserverInv, CandidateObserverInv
  DEF Step
<1>3. CASE Environment
  BY <1>3, QuietObserverInv, DiesObserverInv, SettlesObserverInv DEF Environment
<1> QED BY <1>1, <1>2, <1>3 DEF Next

LEMMA ObserverInvariant == Spec => []ObserverInv
BY InitObserverInv, NextObserverInv, PTL DEF Spec

----------------------------------------------------------------------------
\* Every variable keeps its shape.
THEOREM ObserverTypeCorrect == Spec => []TypeOK
<1>1. ObserverInv => TypeOK
  BY DEF ObserverInv
<1> QED BY <1>1, ObserverInvariant, PTL

\* However often it reconnects, a process writes a candidate down once.
THEOREM CandidatesRecordedOnce == Spec => []RecordedOnce
<1>1. ObserverInv => RecordedOnce
  BY DEF ObserverInv, SeenBeforeWritten, RecordedOnce
<1> QED BY <1>1, ObserverInvariant, PTL

\* Forks and failed calls bring no candidate into the records that is not a
\* large buy of a confirmed transaction.
THEOREM CandidatesConfirmed == Spec => []RecordsConfirmed
<1>1. ObserverInv => RecordsConfirmed
  BY DEF ObserverInv
<1> QED BY <1>1, ObserverInvariant, PTL

----------------------------------------------------------------------------
(* Replayed trades.                                                        *)

\* A trade that the replay counts as seen stays so with a lower threshold and a larger gap
\* (replay.py), and is one that had a large buy before it in its slot.
THEOREM ReplayIsMonotone ==
  ASSUME NEW rows, NEW usd \in Int, NEW gap \in Int, NEW lower \in Int, NEW wider \in Int,
         lower <= usd, gap <= wider,
         \A i \in DOMAIN rows : rows[i].index \in Int
                                /\ \A e \in rows[i].precursors : e.usd \in Int /\ e.index \in Int
  PROVE  LET less == ReplayPrecursors(rows, usd, gap)
             more == ReplayPrecursors(rows, lower, wider)
         IN  /\ less.tight \subseteq more.tight /\ less.same_slot \subseteq more.same_slot
             /\ less.profitable \subseteq more.profitable
             /\ less.profitable \subseteq less.tight /\ less.tight \subseteq less.same_slot
<1> DEFINE less == ReplayPrecursors(rows, usd, gap)
           more == ReplayPrecursors(rows, lower, wider)
<1>1. \A i \in DOMAIN rows : Qualifying(rows[i], usd) \subseteq Qualifying(rows[i], lower)
  BY DEF Qualifying
<1>2. \A i \in DOMAIN rows : Tight(rows[i], usd, gap) => Tight(rows[i], lower, wider)
  <2> SUFFICES ASSUME NEW i \in DOMAIN rows, Tight(rows[i], usd, gap)
               PROVE  Tight(rows[i], lower, wider)
    OBVIOUS
  <2>1. PICK e \in Qualifying(rows[i], usd) : rows[i].index - e.index <= gap
    BY DEF Tight
  <2>2. e.index \in Int /\ rows[i].index \in Int
    BY DEF Qualifying
  <2>3. rows[i].index - e.index <= wider
    BY <2>1, <2>2
  <2> QED BY <1>1, <2>3 DEF Tight
<1>3. \A i \in DOMAIN rows : Tight(rows[i], usd, gap) => Qualifying(rows[i], usd) # {}
  BY DEF Tight
<1>4. /\ less.tight = {i \in DOMAIN rows : Tight(rows[i], usd, gap)}
      /\ more.tight = {i \in DOMAIN rows : Tight(rows[i], lower, wider)}
      /\ less.same_slot = {i \in DOMAIN rows : Qualifying(rows[i], usd) # {}}
      /\ more.same_slot = {i \in DOMAIN rows : Qualifying(rows[i], lower) # {}}
      /\ less.profitable = {i \in less.tight : rows[i].pnl > 0}
      /\ more.profitable = {i \in more.tight : rows[i].pnl > 0}
  BY DEF ReplayPrecursors
<1> HIDE DEF less, more
<1>5. /\ less.tight \subseteq more.tight /\ less.same_slot \subseteq more.same_slot
      /\ less.tight \subseteq less.same_slot
  BY <1>1, <1>2, <1>3, <1>4
<1>6. less.profitable \subseteq more.profitable /\ less.profitable \subseteq less.tight
  BY <1>4, <1>5
<1> QED BY <1>5, <1>6 DEF less, more
=============================================================================
