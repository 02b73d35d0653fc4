--------------------------- MODULE HotFlowProofs ---------------------------
(***************************************************************************)
(* What holds of the momentum detector whatever its transactions, limits   *)
(* and answers.  The evidence of a signal rests on the aggregator's set of *)
(* signatures, which is never emptied; what holds of `_triggered' rests on *)
(* the two threads keeping apart, which `overlapped' records.              *)
(***************************************************************************)
EXTENDS HotFlow, SequenceTheorems, TLAPS

Adding == wpc \in {"adding", "counted", "triggering", "pool"}
Found == wpc \in {"counted", "triggering", "pool"}

\* What the watcher works on is there.
Placed ==
  /\ Adding => buy \in DOMAIN Buys[tx] /\ trending # {}
  /\ Found => aggregated \in SignalSet /\ aggregated.mint = Mint
  /\ mpc = "flow" => \A m \in trending \ flowTrending : stay[m] + 1 \in Stays

Shape == TypeOK /\ Placed

\* The buys of a transaction.
LEMMA LenTyped == 
  \A t \in Txs : /\ Len(Buys[t]) \in Nat /\ DOMAIN Buys[t] = 1..Len(Buys[t])
                 /\ \A i \in 1..Len(Buys[t]) : Buys[t][i] \in [mint : Mints, sol : Nat]
<1> TAKE t \in Txs
<1>1. Buys[t] \in Seq([mint : Mints, sol : Nat])
  BY BuysAssumption
<1>2. \A i \in 1..Len(Buys[t]) : Buys[t][i] \in [mint : Mints, sol : Nat]
  BY <1>1, ElementOfSeq
<1> QED
  BY <1>1, <1>2, LenProperties

\* Where the watcher stands in a transaction, and what it buys there.
LEMMA MintTyped ==
  ASSUME Shape, Adding
  PROVE  tx \in Txs /\ Mint \in Mints /\ Buys[tx][buy].sol \in Nat /\ Row \in RowSet
<1>1. tx \in Txs /\ buy \in DOMAIN Buys[tx]
  BY DEF Shape, TypeOK, Placed, Adding
<1>3. Buys[tx][buy] \in [mint : Mints, sol : Nat]
  BY <1>1, LenTyped
<1> QED
  BY <1>1, <1>3 DEF Mint, Row, RowSet, Shape, TypeOK

LEMMA RowsTyped ==
  ASSUME Shape, Adding
  PROVE  Rows \in SUBSET RowSet
BY MintTyped DEF Rows, Shape, TypeOK

LEMMA InitShape == Init => Shape
<1> SUFFICES ASSUME Init PROVE Shape
  OBVIOUS
<1>1. /\ flows \in [Mints -> SUBSET RowSet] /\ stay \in [Mints -> Stays]
      /\ gone \in [Mints -> Times \cup {Never}]
      /\ cache \in [Mints -> [exists : BOOLEAN, at : Times \cup {Never}]]
  BY NumbersAssumption DEF Init
<1>2. /\ wpc = "listening" /\ mpc = "idle" /\ clock \in Times
      /\ signals = {} /\ aggregated = NoSignal
  BY NumbersAssumption DEF Init
<1>3. TypeOK
  BY <1>1, <1>2 DEF Init, TypeOK
<1> QED
  BY <1>2, <1>3 DEF Shape, Placed, Adding, Found

\* A step of the watcher keeps the shape of the state.
LEMMA WatchShape ==
  ASSUME Shape, Watch
  PROVE  Shape'
<1> USE LenTyped, NumbersAssumption DEF Shape, TypeOK, Placed, Adding, Found, Never
<1>1. ASSUME NEW t \in Txs, Notified(t)
      PROVE  Shape'
  <2>1. buy = 1 /\ buy \in 1..(Len(Buys[t]) + 1)
    BY <1>1 DEF Notified
  <2> QED
    BY <1>1, <2>1 DEF Notified, flowVars, mainVars, poolVars
<1>2. CASE Listens
  BY <1>2 DEF Listens, flowVars, mainVars, poolVars
<1>3. CASE Filter
  <2>1. buy \in 1..Len(Buys[tx]) /\ tx \in Txs
    BY <1>3 DEF Filter
  <2>2. buy' \in 1..(Len(Buys[tx]) + 1) /\ (wpc' = "adding" => buy' = buy)
    BY <1>3, <2>1 DEF Filter
  <2>3. wpc' \in {"buys", "adding"} /\ (wpc' = "adding" => trending # {})
    BY <1>3 DEF Filter
  <2> QED
    BY <1>3, <2>1, <2>2, <2>3 DEF Filter, flowVars, mainVars, poolVars
<1>4. CASE AddRejects \/ PoolCached \/ PoolFetched \/ PoolUnknown
  <2>1. Adding /\ wpc' = "buys" /\ tx' = tx /\ buy' = buy + 1
    BY <1>4 DEF AddRejects, PoolCached, PoolFetched, PoolUnknown, NextBuy
  <2>2. buy' \in 1..(Len(Buys[tx]) + 1) /\ tx \in Txs
    BY <2>1
  <2>3. /\ UNCHANGED <<clock, watchSeen, aggregated, flowVars, mainVars, gone, overlapped>>
        /\ signals' \in {signals, signals \cup {aggregated}}
        /\ signals' # signals => wpc = "pool"
    BY <1>4 DEF AddRejects, PoolCached, PoolFetched, PoolUnknown, poolVars
  <2>4. signals' \subseteq SignalSet
    BY <2>3
  <2>5. cache' \in [Mints -> [exists : BOOLEAN, at : Times \cup {Never}]]
    <3>1. CASE PoolFetched
      BY <3>1, MintTyped DEF PoolFetched
    <3>2. CASE AddRejects \/ PoolCached \/ PoolUnknown
      BY <3>2 DEF AddRejects, PoolCached, PoolUnknown, poolVars
    <3> QED
      BY <1>4, <3>1, <3>2
  <2> QED
    BY <2>1, <2>2, <2>3, <2>4, <2>5 DEF flowVars, mainVars
<1>5. CASE AddRow
  <2>1. tx \in Txs /\ Mint \in Mints /\ Rows \in SUBSET RowSet /\ buy \in 1..Len(Buys[tx])
    BY <1>5, MintTyped, RowsTyped DEF AddRow
  <2>2. flowSeen' \subseteq Txs /\ flows' \in [Mints -> SUBSET RowSet]
    BY <1>5, <2>1 DEF AddRow
  <2>3. \/ /\ wpc' = "counted" /\ buy' = buy
           /\ aggregated' = [mint |-> Mint, rows |-> Rows, stay |-> stay[Mint]]
           /\ overlapped' = (overlapped \/ Rebuilding)
        \/ wpc' = "buys" /\ buy' = buy + 1 /\ UNCHANGED <<aggregated, overlapped>>
    BY <1>5 DEF AddRow, NextBuy
  <2>4. [mint |-> Mint, rows |-> Rows, stay |-> stay[Mint]] \in SignalSet
    BY <2>1 DEF SignalSet
  <2>5. /\ wpc' \in {"counted", "buys"} /\ buy' \in 1..(Len(Buys[tx]) + 1)
        /\ wpc' = "counted" => buy' = buy
        /\ aggregated' \in SignalSet \cup {NoSignal}
        /\ wpc' = "counted" => aggregated' \in SignalSet /\ aggregated'.mint = Mint
    BY <2>1, <2>3, <2>4
  <2>6. overlapped' \in BOOLEAN
    BY <2>3 DEF Rebuilding
  <2>7. UNCHANGED <<clock, watchSeen, tx, triggered, mainVars, poolVars, signals>>
    BY <1>5 DEF AddRow
  <2>8. TypeOK'
    BY <2>1, <2>2, <2>5, <2>6, <2>7 DEF mainVars, poolVars
  <2>9. Placed'
    BY <1>5, <2>1, <2>5, <2>7 DEF Mint, mainVars, AddRow
  <2> QED
    BY <2>8, <2>9
<1>6. CASE Trigger
  <2>1. Mint \in Mints
    BY <1>6, MintTyped DEF Trigger
  <2> QED
    BY <1>6, <2>1 DEF Trigger, Mint, mainVars, poolVars
<1>7. CASE CheckTriggered
  <2>1. tx \in Txs /\ buy \in 1..Len(Buys[tx])
    BY <1>7 DEF CheckTriggered
  <2>2. \/ wpc' = "triggering" /\ buy' = buy
        \/ wpc' = "buys" /\ buy' = buy + 1
    BY <1>7 DEF CheckTriggered, NextBuy
  <2>3. buy' \in 1..(Len(Buys[tx]) + 1)
    BY <2>1, <2>2
  <2> QED
    BY <1>7, <2>1, <2>2, <2>3 DEF CheckTriggered, Mint, flowVars, mainVars, poolVars
<1> QED
  BY <1>1, <1>2, <1>3, <1>4, <1>5, <1>6, <1>7 DEF Watch

\* A step of the main thread or of the world keeps it.
LEMMA OtherShape ==
  ASSUME Shape, Main \/ Tick \/ (\E m \in Mints : Graduates(m)) \/ UNCHANGED vars
  PROVE  Shape'
<1> USE DEF Shape, TypeOK, Placed, Adding, Found, Mint
<1>1. ASSUME NEW new \in Answers, Refresh(new)
      PROVE  Shape'
  <2>1. new \subseteq Mints /\ new # {}
    BY AnswersAssumption
  <2> QED
    BY <1>1, <2>1 DEF Refresh, watcherVars, flowVars, poolVars
<1>2. CASE RefreshFlow
  <2>1. stay' \in [Mints -> Stays]
    BY <1>2 DEF RefreshFlow
  <2> QED
    BY <1>2, <2>1 DEF RefreshFlow, watcherVars, flowVars, poolVars
<1>3. CASE IterationBreaks \/ Iterate
  BY <1>3 DEF IterationBreaks, Iterate, watcherVars, flowVars, poolVars
<1>4. CASE Assign
  BY <1>4 DEF Assign, watcherVars, poolVars
<1>5. CASE Tick
  BY <1>5 DEF Tick, watcherVars, flowVars, mainVars, poolVars
<1>6. ASSUME NEW m \in Mints, Graduates(m)
      PROVE  Shape'
  BY <1>6 DEF Graduates, watcherVars, flowVars, mainVars
<1>7. CASE UNCHANGED vars
  BY <1>7 DEF vars, watcherVars, flowVars, mainVars, poolVars
<1> QED
  BY <1>1, <1>2, <1>3, <1>4, <1>5, <1>6, <1>7 DEF Main

LEMMA NextShape == Shape /\ [Next]_vars => Shape'
BY WatchShape, OtherShape DEF Next

LEMMA ShapeInvariant == Spec => []Shape
BY InitShape, NextShape, PTL DEF Spec

\* Every variable keeps its shape.
THEOREM HotFlowTypeCorrect == Spec => []TypeOK
<1>1. Shape => TypeOK
  BY DEF Shape
<1> QED
  BY <1>1, ShapeInvariant, PTL

----------------------------------------------------------------------------
(* The evidence of a signal.                                               *)

\* The rows collected for a mint, whether in its flow or in a signal.
RowsOf(m) == flows[m] \cup UNION {s.rows : s \in {z \in signals : z.mint = m}}

Backed(s) ==
  /\ Cardinality(s.rows) >= MinBuys
  /\ \A r, q \in s.rows : r.at - q.at <= Window

EvidenceInv ==
  /\ \A m \in Mints : \A r \in RowsOf(m) : r.tx \in flowSeen
  /\ \A m, n \in Mints : \A r \in RowsOf(m), q \in RowsOf(n) :
       r.tx = q.tx => m = n /\ r = q
  /\ \A m \in Mints : \A r, q \in flows[m] : r.at <= clock /\ r.at - q.at <= Window
  /\ \A s \in signals : Backed(s)
  /\ Found => Backed(aggregated) /\ aggregated.rows = flows[Mint]

\* Only add() collects rows, and the aggregator forgets no signature.
LEMMA OnlyAddCollects ==
  ASSUME Shape, [Next]_vars, ~AddRow
  PROVE  /\ UNCHANGED <<flows, flowSeen>>
         /\ clock' \in Nat /\ clock' >= clock
         /\ signals' = signals \/ (signals' = signals \cup {aggregated} /\ wpc = "pool")
         /\ Found' => Found /\ UNCHANGED <<aggregated, tx, buy>>
<1> USE NumbersAssumption DEF Shape, TypeOK, flowVars, vars, watcherVars, Found
<1>1. CASE Watch
  BY <1>1 DEF Watch, Notified, Listens, Filter, AddRejects, CheckTriggered, Trigger, PoolCached, PoolFetched,
              PoolUnknown, NextBuy
<1>2. CASE Main
  BY <1>2 DEF Main, Refresh, RefreshFlow, IterationBreaks, Iterate, Assign
<1>3. CASE Tick \/ UNCHANGED vars
  BY <1>3 DEF Tick
<1>4. CASE \E m \in Mints : Graduates(m)
  BY <1>4 DEF Graduates
<1> QED
  BY <1>1, <1>2, <1>3, <1>4 DEF Next

LEMMA RowTimes ==
  ASSUME Shape
  PROVE  \A m \in Mints : \A r \in flows[m] : r.at \in Nat
<1> SUFFICES ASSUME NEW m \in Mints, NEW r \in flows[m] PROVE r.at \in Nat
  OBVIOUS
<1>1. r \in [tx : Txs, at : Times, sol : Nat]
  BY DEF Shape, TypeOK, RowSet
<1>2. r.at \in Times
  BY <1>1
<1> QED
  BY <1>2, NumbersAssumption

LEMMA NextEvidence ==
  ASSUME Shape, EvidenceInv, [Next]_vars
  PROVE  EvidenceInv'
<1> Shape'
  BY NextShape
<1>1. CASE AddRow
  <2>1. /\ tx \notin flowSeen /\ flowSeen' = flowSeen \cup {tx}
        /\ flows' = [flows EXCEPT ![Mint] = Rows]
        /\ UNCHANGED <<clock, signals, tx>>
    BY <1>1 DEF AddRow, Accepts
  <2>2. Mint \in Mints /\ Row \in RowSet /\ Row.tx = tx /\ Row.at = clock /\ clock \in Nat
    BY <1>1, MintTyped, NumbersAssumption DEF AddRow, Adding, Row, Shape, TypeOK
  <2>3. flows'[Mint] = Rows /\ \A m \in Mints : m # Mint => flows'[m] = flows[m]
    BY <2>1, <2>2 DEF Shape, TypeOK
  <2>4. \A m \in Mints : \A r \in RowsOf(m)' :
          r \in RowsOf(m) \/ (m = Mint /\ r = Row)
    BY <2>1, <2>3 DEF RowsOf, Rows
  <2>5. \A m \in Mints : \A r \in RowsOf(m)' : r.tx \in flowSeen'
    BY <2>1, <2>2, <2>4 DEF EvidenceInv
  <2>6. \A m, n \in Mints : \A r \in RowsOf(m)', q \in RowsOf(n)' :
          r.tx = q.tx => m = n /\ r = q
    BY <2>1, <2>2, <2>4 DEF EvidenceInv
  <2>7. \A m \in Mints : \A r \in flows[m] : r.at \in Nat
    BY RowTimes
  <2>8. \A r, q \in Rows : r.at <= clock /\ r.at - q.at <= Window
    <3> TAKE r \in Rows, q \in Rows
    <3>1. CASE r \in flows[Mint] /\ q \in flows[Mint]
      BY <3>1, <2>2 DEF EvidenceInv
    <3>2. CASE r = Row /\ q \in flows[Mint]
      BY <3>2, <2>2, <2>7, NumbersAssumption DEF EvidenceInv, Rows
    <3>3. CASE r \in flows[Mint] /\ q = Row
      BY <3>3, <2>2, <2>7, NumbersAssumption DEF EvidenceInv
    <3>4. CASE r = Row /\ q = Row
      BY <3>4, <2>2, NumbersAssumption
    <3> QED
      BY <3>1, <3>2, <3>3, <3>4 DEF Rows
  <2>9. \A m \in Mints : \A r, q \in flows'[m] : r.at <= clock' /\ r.at - q.at <= Window
    BY <2>1, <2>3, <2>8 DEF EvidenceInv
  <2>10. \A s \in signals' : Backed(s)
    BY <2>1 DEF EvidenceInv
  <2>11. Found' => Backed(aggregated') /\ aggregated'.rows = flows'[Mint']
    <3>1. SUFFICES ASSUME Found'
                   PROVE  Backed(aggregated') /\ aggregated'.rows = flows'[Mint']
      OBVIOUS
    <3>2. /\ Cardinality(Rows) >= MinBuys /\ buy' = buy
          /\ aggregated' = [mint |-> Mint, rows |-> Rows, stay |-> stay[Mint]]
      BY <1>1, <3>1 DEF AddRow, Found, NextBuy
    <3>3. Mint' = Mint
      BY <2>1, <3>2 DEF Mint
    <3> QED
      BY <2>3, <2>8, <3>2, <3>3 DEF Backed
  <2> QED
    BY <2>5, <2>6, <2>9, <2>10, <2>11 DEF EvidenceInv, Backed
<1>2. CASE ~AddRow
  <2>1. /\ UNCHANGED <<flows, flowSeen>> /\ clock' \in Nat /\ clock' >= clock
        /\ signals' = signals \/ (signals' = signals \cup {aggregated} /\ wpc = "pool")
        /\ Found' => Found /\ UNCHANGED <<aggregated, tx, buy>>
    BY <1>2, OnlyAddCollects
  <2>2. \A s \in signals' : \/ s \in signals
                            \/ /\ Backed(s) /\ s.mint = Mint /\ Mint \in Mints
                               /\ s.rows = flows[Mint]
    BY <2>1, MintTyped DEF EvidenceInv, Found, Adding, Shape, Placed
  <2>3. \A m \in Mints : RowsOf(m)' \subseteq RowsOf(m)
    BY <2>1, <2>2 DEF RowsOf
  <2>4. \A m \in Mints : \A r \in flows[m] : r.at \in Nat
    BY RowTimes
  <2>5. \A m \in Mints : \A r, q \in flows'[m] : r.at <= clock' /\ r.at - q.at <= Window
    BY <2>1, <2>4, NumbersAssumption DEF EvidenceInv, Shape, TypeOK
  <2>6. Found' => Backed(aggregated') /\ aggregated'.rows = flows'[Mint']
    BY <2>1 DEF EvidenceInv, Mint, Backed
  <2>7. \A s \in signals' : Backed(s)
    BY <2>2 DEF EvidenceInv
  <2> QED
    BY <2>1, <2>3, <2>5, <2>6, <2>7 DEF EvidenceInv, Backed
<1> QED
  BY <1>1, <1>2

\* A signal rests on MinBuys different transactions of one window, and no
\* transaction is evidence for two mints.
THEOREM SignalsAreBacked == Spec => []SignalBacked
<1>1. Init => EvidenceInv
  BY DEF Init, EvidenceInv, RowsOf, Found
<1>2. Shape /\ EvidenceInv => SignalBacked
  <2> SUFFICES ASSUME Shape, EvidenceInv PROVE SignalBacked
    OBVIOUS
  <2>1. \A s \in signals : s.mint \in Mints /\ s.rows \subseteq RowsOf(s.mint)
    BY DEF Shape, TypeOK, SignalSet, RowsOf
  <2> QED
    BY <2>1 DEF EvidenceInv, Backed, SignalBacked
<1> QED
  BY <1>1, <1>2, ShapeInvariant, NextEvidence, PTL DEF Spec

----------------------------------------------------------------------------
(* The two threads, as long as they keep apart.                            *)

ApartInv ==
  /\ mpc # "flow" => trending = flowTrending
  /\ mpc # "idle" => trending # {}
  /\ ~overlapped =>
       /\ Rebuilding => wpc \notin {"counted", "triggering"}
       /\ mpc = "iterating" => kept = triggered
       /\ mpc = "assigning" => kept \subseteq flowTrending
       /\ mpc = "idle" => triggered \subseteq flowTrending
       /\ mpc = "idle" /\ wpc \in {"counted", "triggering"} => Mint \in flowTrending

LEMMA NextApart ==
  ASSUME Shape, ApartInv, [Next]_vars
  PROVE  ApartInv'
<1> USE DEF ApartInv, Rebuilding
<1>1. CASE AddRow
  <2>1. UNCHANGED mainVars /\ UNCHANGED triggered /\ Adding
    BY <1>1 DEF AddRow, Adding
  <2>2. wpc' \in {"counted", "triggering"} => Mint' = Mint /\ overlapped' = (overlapped \/ Rebuilding)
    BY <1>1 DEF AddRow, NextBuy, Mint
  <2>3. mpc = "idle" => Mint \in flowTrending
    BY <1>1, <2>1 DEF AddRow, Accepts, Shape, Placed
  <2>4. ~overlapped' => ~overlapped
    BY <1>1 DEF AddRow
  <2> QED
    BY <2>1, <2>2, <2>3, <2>4 DEF mainVars
<1>2. CASE Trigger \/ CheckTriggered
  <2>1. UNCHANGED <<mainVars, overlapped>> /\ tx' = tx /\ wpc \in {"counted", "triggering"}
    BY <1>2 DEF Trigger, CheckTriggered
  <2>2. \/ wpc' \in {"buys", "pool"} /\ triggered' \in {triggered, triggered \cup {Mint}}
        \/ wpc' = "triggering" /\ triggered' = triggered /\ Mint' = Mint
    BY <1>2 DEF Trigger, CheckTriggered, NextBuy, flowVars, Mint
  <2> QED
    BY <2>1, <2>2 DEF mainVars
<1>3. CASE Watch /\ ~AddRow /\ ~Trigger /\ ~CheckTriggered
  <2>1. /\ UNCHANGED <<mainVars, triggered, overlapped>>
        /\ wpc' \notin {"counted", "triggering"}
    BY <1>3 DEF Watch, Notified, Listens, Filter, AddRejects, PoolCached, PoolFetched,
                PoolUnknown, NextBuy, flowVars
  <2> QED
    BY <2>1 DEF mainVars
<1>4. ASSUME NEW new \in Answers, Refresh(new)
      PROVE  ApartInv'
  BY <1>4, AnswersAssumption DEF Refresh, watcherVars, flowVars
<1>5. CASE RefreshFlow
  BY <1>5 DEF RefreshFlow, watcherVars, flowVars
<1>6. CASE IterationBreaks
  BY <1>6 DEF IterationBreaks, watcherVars, flowVars
<1>7. CASE Iterate
  BY <1>7 DEF Iterate, watcherVars, flowVars
<1>8. CASE Assign
  BY <1>8 DEF Assign, watcherVars
<1>9. CASE Tick \/ (\E m \in Mints : Graduates(m)) \/ UNCHANGED vars
  <2>1. UNCHANGED <<mainVars, triggered, overlapped, wpc, tx, buy>>
    BY <1>9 DEF Tick, Graduates, vars, flowVars, watcherVars
  <2> QED
    BY <2>1 DEF mainVars, Mint
<1> QED
  BY <1>1, <1>2, <1>3, <1>4, <1>5, <1>6, <1>7, <1>8, <1>9 DEF Next, Main

LEMMA ApartInvariant == Spec => [](Shape /\ ApartInv)
<1>1. Init => ApartInv
  BY DEF Init, ApartInv, Rebuilding
<1> QED
  BY <1>1, ShapeInvariant, NextApart, PTL DEF Spec

\* "A mint leaving the universe must be eligible again if it returns": true
\* whenever no add() that finds enough buys runs during the aggregator's
\* set_trending(), and no set_trending() between its two looks at the sets.
THEOREM EligibleAgain == Spec => []EligibleUnlessOverlapped
<1>1. ApartInv => EligibleUnlessOverlapped
  BY DEF ApartInv, EligibleUnlessOverlapped
<1> QED
  BY <1>1, ApartInvariant, PTL

----------------------------------------------------------------------------
(* One signal per stay.                                                    *)

Accepting(m) == flowTrending = {} \/ m \in flowTrending
Muted(m) == m \in triggered /\ (mpc = "assigning" => m \in kept)

StayInv ==
  /\ \A s \in signals : /\ s.stay <= stay[s.mint]
                        /\ s.stay = stay[s.mint] /\ Accepting(s.mint) => Muted(s.mint)
  /\ \A s, z \in signals : s.mint = z.mint /\ s.stay = z.stay => s = z
  /\ Found => aggregated.stay <= stay[Mint]
  /\ wpc = "counted" => aggregated.stay = stay[Mint] /\ Accepting(Mint)
  /\ wpc \in {"triggering", "pool"} =>
       \A s \in signals : s.mint = Mint => s.stay # aggregated.stay
  /\ wpc = "pool" /\ aggregated.stay = stay[Mint] /\ Accepting(Mint) => Muted(Mint)

LEMMA StaysAreNumbers ==
  ASSUME Shape
  PROVE  /\ \A m \in Mints : stay[m] \in Nat
         /\ \A s \in signals : s.mint \in Mints /\ s.stay \in Nat
         /\ Found => aggregated.stay \in Nat /\ Mint \in Mints /\ aggregated.mint = Mint
BY NumbersAssumption, MintTyped DEF Shape, TypeOK, Placed, SignalSet, Found, Adding

LEMMA NextStay ==
  ASSUME Shape, ApartInv, [Next]_vars, overlapped \/ StayInv
  PROVE  overlapped' \/ StayInv'
<1> SUFFICES ASSUME ~overlapped', ~overlapped, StayInv PROVE StayInv'
  <2>1. overlapped => overlapped'
    BY DEF Next, Watch, Main, Notified, Listens, Filter, AddRejects, AddRow, CheckTriggered, Trigger,
           PoolCached, PoolFetched, PoolUnknown, Refresh, RefreshFlow, IterationBreaks,
           Iterate, Assign, Tick, Graduates, vars
  <2> QED
    BY <2>1
<1> USE StaysAreNumbers DEF StayInv, Muted
<1>1. CASE AddRow
  <2>1. /\ UNCHANGED <<triggered, signals, tx, trending, flowTrending, mpc, kept, stay>>
        /\ Mint \in Mints /\ Accepting(Mint)
    BY <1>1, MintTyped DEF AddRow, Accepts, Accepting, Adding, mainVars
  <2>2. wpc' \in {"counted", "buys"}
    BY <1>1 DEF AddRow, NextBuy
  <2>3. Found' => /\ buy' = buy
                  /\ aggregated' = [mint |-> Mint, rows |-> Rows, stay |-> stay[Mint]]
    BY <1>1 DEF AddRow, Found, NextBuy
  <2>4. Found' => aggregated'.stay = stay'[Mint'] /\ aggregated'.stay <= stay'[Mint']
                  /\ Accepting(Mint)'
    BY <2>1, <2>3 DEF Mint, Accepting
  <2> QED
    BY <2>1, <2>2, <2>4 DEF Accepting, Found
<1>2. CASE Trigger
  <2>1. /\ triggered' = triggered \cup {Mint} /\ wpc = "triggering" /\ wpc' = "pool"
        /\ UNCHANGED <<signals, tx, buy, aggregated, flowTrending, mpc, kept, stay>>
        /\ Mint' = Mint
    BY <1>2 DEF Trigger, mainVars, Mint
  <2>2. mpc # "assigning"
    BY <2>1 DEF ApartInv, Rebuilding
  <2> QED
    BY <2>1, <2>2 DEF Accepting, Found
<1>3. CASE PoolCached \/ PoolFetched \/ PoolUnknown
  <2>1. /\ wpc = "pool" /\ wpc' = "buys"
        /\ signals' \in {signals, signals \cup {aggregated}}
        /\ UNCHANGED <<triggered, flowTrending, mpc, kept, stay>>
    BY <1>3 DEF PoolCached, PoolFetched, PoolUnknown, NextBuy, flowVars, mainVars
  <2>2. Found /\ ~Found'
    BY <2>1 DEF Found
  <2>3. \A s \in signals' : s \in signals \/ s = aggregated
    BY <2>1
  <2>4. \A s \in signals' : /\ s.stay <= stay[s.mint]
                            /\ s.stay = stay[s.mint] /\ Accepting(s.mint) => Muted(s.mint)
    BY <2>1, <2>2, <2>3
  <2>5. \A s, z \in signals' : s.mint = z.mint /\ s.stay = z.stay => s = z
    BY <2>1, <2>2, <2>3
  <2> QED
    BY <2>1, <2>2, <2>4, <2>5 DEF Accepting
<1>4. CASE Watch /\ ~AddRow /\ ~Trigger /\ ~CheckTriggered /\ ~(PoolCached \/ PoolFetched \/ PoolUnknown)
  <2>1. UNCHANGED <<triggered, signals, flowTrending, mpc, kept, stay>> /\ ~Found'
    BY <1>4 DEF Watch, Notified, Listens, Filter, AddRejects, NextBuy, Found, flowVars, mainVars
  <2> QED
    BY <2>1 DEF Accepting, Found
<1>5. CASE RefreshFlow
  <2>1. /\ UNCHANGED <<triggered, signals, wpc, tx, buy, aggregated>>
        /\ mpc = "flow" /\ mpc' = "iterating" /\ flowTrending' = trending /\ trending # {}
        /\ stay' = [m \in Mints |-> IF m \in trending \ flowTrending THEN stay[m] + 1
                                                                     ELSE stay[m]]
    BY <1>5 DEF RefreshFlow, watcherVars, flowVars, ApartInv
  <2>2. \A m \in Mints : stay'[m] \in Nat /\ stay'[m] >= stay[m]
    BY <2>1
  <2>3. \A m \in Mints : Accepting(m)' /\ stay'[m] = stay[m] => Accepting(m)
    BY <2>1 DEF Accepting
  <2>4. \A m \in Mints, n \in Nat : n <= stay[m] /\ n = stay'[m] /\ Accepting(m)'
          => n = stay[m] /\ Accepting(m)
    BY <2>2, <2>3
  <2>5. \A m \in Mints : Muted(m) => Muted(m)'
    BY <2>1
  <2>6. Mint' = Mint /\ Found' = Found
    BY <2>1 DEF Mint, Found
  <2>7. \A s \in signals : /\ s.stay <= stay'[s.mint]
                           /\ s.stay = stay'[s.mint] /\ Accepting(s.mint)' => Muted(s.mint)'
    BY <2>2, <2>4, <2>5
  <2>8. Found => aggregated.stay <= stay'[Mint]
    BY <2>2
  <2>9. wpc = "pool" /\ aggregated.stay = stay'[Mint] /\ Accepting(Mint)' => Muted(Mint)'
    <3> SUFFICES ASSUME wpc = "pool", aggregated.stay = stay'[Mint], Accepting(Mint)'
                 PROVE  Muted(Mint)'
      OBVIOUS
    <3>1. Mint \in Mints /\ aggregated.stay \in Nat /\ aggregated.stay <= stay[Mint]
      BY DEF Found
    <3>2. aggregated.stay = stay[Mint] /\ Accepting(Mint)
      BY <2>4, <2>6, <3>1
    <3>3. Muted(Mint)
      BY <3>2
    <3> QED
      BY <2>5, <2>6, <3>1, <3>3
  <2>10. wpc # "counted"
    BY <1>5 DEF RefreshFlow
  <2> QED
    BY <2>1, <2>6, <2>7, <2>8, <2>9, <2>10
<1>6. CASE Iterate \/ Assign \/ IterationBreaks
  <2>1. UNCHANGED <<signals, wpc, tx, buy, aggregated, flowTrending, stay>> /\ flowTrending # {}
    BY <1>6 DEF Iterate, Assign, IterationBreaks, watcherVars, ApartInv
  <2>2. \A m \in Mints : Accepting(m) /\ Muted(m) => Muted(m)'
    BY <1>6, <2>1 DEF Iterate, Assign, IterationBreaks, flowVars, Accepting
  <2> QED
    BY <2>1, <2>2 DEF Accepting, Mint, Found
<1>7. ASSUME NEW new \in Answers, Refresh(new)
      PROVE  StayInv'
  BY <1>7 DEF Refresh, watcherVars, flowVars, Accepting, Mint, Found
<1>8. CASE Tick \/ (\E m \in Mints : Graduates(m)) \/ UNCHANGED vars
  <2>1. UNCHANGED <<watcherVars, flowVars, mainVars, signals>>
    BY <1>8 DEF Tick, Graduates, vars
  <2> QED
    BY <2>1 DEF watcherVars, flowVars, mainVars, Accepting, Mint, Found
<1>9. CASE CheckTriggered
  <2>1. /\ UNCHANGED <<triggered, signals, tx, aggregated, flowTrending, mpc, kept, stay>>
        /\ wpc = "counted" /\ Found
    BY <1>9 DEF CheckTriggered, flowVars, mainVars, Found
  <2>2. wpc' # "buys" => wpc' = "triggering" /\ buy' = buy /\ Mint' = Mint /\ Mint \notin triggered
    BY <1>9 DEF CheckTriggered, NextBuy, Mint
  <2>3. Mint \notin triggered => \A s \in signals : s.mint = Mint => s.stay # aggregated.stay
    BY <2>1
  <2>4. wpc' \in {"triggering", "buys"}
    BY <2>2
  <2> QED
    BY <2>1, <2>2, <2>3, <2>4 DEF Accepting, Found
<1> QED
  BY <1>1, <1>2, <1>3, <1>4, <1>5, <1>6, <1>7, <1>8, <1>9 DEF Next, Main

\* A mint gives one signal while it stays trending, if the threads kept apart.
THEOREM OneSignalPerStay == Spec => []OneSignalPerStayUnlessOverlapped
<1>1. Init => StayInv
  BY DEF Init, StayInv, Found
<1>2. overlapped \/ StayInv => OneSignalPerStayUnlessOverlapped
  BY DEF StayInv, OneSignalPerStayUnlessOverlapped
<1> QED
  BY <1>1, <1>2, ApartInvariant, NextStay, PTL DEF Spec

----------------------------------------------------------------------------
(* The cache of pools.                                                     *)

PoolInv ==
  \A m \in Mints :
    /\ gone[m] # Never => gone[m] \in Nat /\ gone[m] <= clock
    /\ cache[m].at # Never => cache[m].at \in Nat /\ cache[m].at <= clock
    /\ cache[m].exists /\ cache[m].at # Never /\ gone[m] # Never => cache[m].at <= gone[m]

LEMMA NextPool ==
  ASSUME Shape, PoolInv, [Next]_vars
  PROVE  PoolInv'
<1> clock \in Nat
  BY NumbersAssumption DEF Shape, TypeOK
<1> USE DEF PoolInv, Never
<1>1. CASE PoolFetched
  <2>1. UNCHANGED <<clock, gone>>
    BY <1>1 DEF PoolFetched
  <2>2. ASSUME NEW m \in Mints
        PROVE  \/ cache'[m] = cache[m] \/ cache'[m].at = Never
               \/ cache'[m].at = clock /\ (cache'[m].exists => gone[m] = Never)
    <3>1. \/ cache' = [n \in Mints |-> [exists |-> FALSE, at |-> Never]]
          \/ cache' = [cache EXCEPT ![Mint] = [exists |-> gone[Mint] = Never, at |-> clock]]
      BY <1>1 DEF PoolFetched
    <3> QED
      BY <3>1, <1>1, StaysAreNumbers DEF PoolFetched, Found, Shape, TypeOK
  <2> QED
    BY <2>1, <2>2
<1>2. ASSUME NEW m \in Mints, Graduates(m)
      PROVE  PoolInv'
  <2>1. gone'[m] = clock /\ \A n \in Mints : n # m => gone'[n] = gone[n]
    BY <1>2 DEF Graduates, Shape, TypeOK
  <2> QED
    BY <1>2, <2>1 DEF Graduates
<1>3. CASE Tick
  BY <1>3 DEF Tick, poolVars
<1>4. CASE UNCHANGED <<clock, cache, gone>>
  BY <1>4
<1>5. CASE Watch /\ ~PoolFetched
  BY <1>4, <1>5 DEF Watch, Notified, Listens, Filter, AddRejects, AddRow, CheckTriggered, Trigger,
              PoolCached, PoolUnknown, poolVars
<1>6. CASE Main \/ UNCHANGED vars
  BY <1>4, <1>6 DEF Main, Refresh, RefreshFlow, IterationBreaks, Iterate, Assign, vars, poolVars
<1> QED
  BY <1>1, <1>2, <1>3, <1>5, <1>6 DEF Next

\* No signal for a pool that was gone for as long as the cache may be old.
THEOREM PoolsAreRecent == Spec => PoolRecentlyThere
<1>1. Init => PoolInv
  BY NumbersAssumption DEF Init, PoolInv, Never
<1>2. Shape /\ PoolInv /\ [Next]_vars
        => [\A s \in signals' \ signals :
              gone[s.mint] = Never \/ clock - gone[s.mint] < PoolTTL]_vars
  <2> SUFFICES ASSUME Shape, PoolInv, [Next]_vars, NEW s \in signals' \ signals
               PROVE  gone[s.mint] = Never \/ clock - gone[s.mint] < PoolTTL
    OBVIOUS
  <2>1. (PoolCached \/ PoolFetched) /\ s = aggregated
    BY DEF Next, Watch, Notified, Listens, Filter, AddRejects, AddRow, CheckTriggered, Trigger, PoolCached,
           PoolFetched, PoolUnknown, Main, Refresh, RefreshFlow, IterationBreaks, Iterate,
           Assign, Tick, Graduates, vars
  <2>2. s.mint = Mint /\ Mint \in Mints
    BY <2>1, StaysAreNumbers DEF PoolCached, PoolFetched, Found
  <2>3. clock \in Nat /\ PoolTTL \in Nat
    BY NumbersAssumption DEF Shape, TypeOK
  <2>4. CASE PoolCached
    <3>1. cache[Mint].exists /\ cache[Mint].at # Never /\ clock - cache[Mint].at < PoolTTL
      BY <2>4 DEF PoolCached, Cached
    <3> QED
      BY <2>2, <2>3, <3>1 DEF PoolInv
  <2>5. CASE PoolFetched
    BY <2>2, <2>5 DEF PoolFetched
  <2> QED
    BY <2>1, <2>4, <2>5
<1> QED
  BY <1>1, <1>2, ShapeInvariant, NextPool, PTL DEF Spec, PoolRecentlyThere
=============================================================================
