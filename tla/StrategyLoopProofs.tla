------------------------- MODULE StrategyLoopProofs -------------------------
(***************************************************************************)
(* What holds of the strategy loop for every number of mints, positions,   *)
(* sizes and prices, whatever the chain and the scripts answer.  The loop  *)
(* never compares its positions with the wallet: what it holds is bounded  *)
(* only because a mint is bought while no position is open on it and       *)
(* nothing is said of the sales before it.                                 *)
(*                                                                         *)
(* Then what the risk gate, the entry sizes and the tips guarantee, for    *)
(* every snapshot, policy, balance and tip.                                *)
(***************************************************************************)
EXTENDS StrategyLoop, Sizing, TLAPS

USE DEF PoolPrices, Sends, SellToken, BuyToken

\* Sales are under way in their phase only.
SellingPhase == selling # {} => pc = "selling"

\* The buy that waits for its position was allowed, and keeps its place.
BoughtAllowed ==
  pc = "bought" => /\ loss <= maxLoss /\ buying.size <= TradeCap
                   /\ ~OnMint(buying.mint)

\* A new process has lost nothing.
NothingCharged == pc = "dead" => loss = 0

Tracked == {m \in Mints : OnMint(m) \/ buying.mint = m \/ m \in selling}
Sold == {m \in Mints : Sale(m) \in inflight}
Bought == {t.mint : t \in {u \in inflight : u.kind = "buy"}}

\* HoldingsExplained, in these words.
Backed == \A m \in Mints : tokens[m] > 0 \/ m \in Bought
            => m \in Tracked \/ m \in orphans \/ m \in Sold

\* A mint of which only a sale is left has no buy on the way, unless it was
\* sold too early.
NothingBehind ==
  \A m \in Mints : m \in Sold /\ m \in Bought => m \in Tracked \/ m \in orphans

Money == OnePositionPerMint /\ LossBounded /\ BoughtAllowed /\ NothingCharged
Holdings == SellingPhase /\ Backed /\ NothingBehind

\* No open position was ever seen at its target, also with a trailing stop set.
TargetEndsPosition ==
  \A i \in Slots : Open(i) /\ positions[i].entry > 0
    => (positions[i].peak - positions[i].entry) * 100 < TakeProfit * positions[i].entry

IInv == TypeOK /\ Money /\ Holdings /\ OneBuyUnlessLost /\ TargetEndsPosition

LEMMA PositionFacts ==
  /\ NoPosition \in PositionSet
  /\ \A p \in PositionSet : p # NoPosition => /\ p.mint \in Mints /\ p.age \in 0..Hold
                                              /\ p.checked \in BOOLEAN
                                              /\ p.entry \in Nat /\ p.peak \in Nat
                                              /\ p.entry \in Prices \cup {0}
                                              /\ p.peak \in Prices \cup {0}
  /\ NoPosition.mint \notin Mints
  /\ \A m \in Mints : NoSignal.mint # m
<1>1. NoPosition \in PositionSet
  BY DEF PositionSet
<1>2. ASSUME NEW p \in PositionSet, p # NoPosition
      PROVE  /\ p.mint \in Mints /\ p.age \in 0..Hold /\ p.checked \in BOOLEAN
             /\ p.entry \in Nat /\ p.peak \in Nat
             /\ p.entry \in Prices \cup {0} /\ p.peak \in Prices \cup {0}
  <2>1. p \in [mint : Mints, age : 0..Hold, checked : BOOLEAN, entry : Prices \cup {0},
               peak : Prices \cup {0}]
    BY <1>2 DEF PositionSet
  <2> QED
    BY <2>1, PricesAssumption
<1>3. NoPosition.mint \notin Mints /\ \A m \in Mints : NoSignal.mint # m
  BY MintsAssumption DEF NoPosition, Entered, NoSignal
<1> QED
  BY <1>1, <1>2, <1>3

LEMMA SignalFacts ==
  \A s \in SignalSet : s.mint \in Mints /\ s.size \in Nat /\ s.size > 0
<1> TAKE s \in SignalSet
<1>1. s.mint \in Mints /\ s.size \in Sizes
  BY DEF SignalSet
<1> QED
  BY <1>1, SizesAssumption

LEMMA TransactionFacts ==
  ASSUME TypeOK
  PROVE  \A t \in inflight : /\ t.kind \in {"buy", "sell"} /\ t.mint \in Mints /\ t.units \in Nat
                             /\ t.kind = "sell" => t = Sale(t.mint)
BY UnitsAssumption DEF TypeOK, Purchase, Sale

\* An open position's mint is that of no position, and the other way round.
LEMMA OpenMint ==
  ASSUME TypeOK, NEW i \in Slots
  PROVE  /\ Open(i) <=> positions[i].mint \in Mints
         /\ positions[i] \in PositionSet
<1>1. positions[i] \in PositionSet
  BY DEF TypeOK
<1> QED
  BY <1>1, PositionFacts DEF Open

LEMMA Numbers ==
  ASSUME TypeOK
  PROVE  /\ loss \in Nat /\ maxLoss \in Nat /\ TradeCap \in Nat
         /\ TakeProfit \in (Nat \ {0}) /\ Hold \in (Nat \ {0}) /\ Drawdown \in Nat
BY SizesAssumption, ExitsAssumption DEF TypeOK

LEMMA InitInv == Init => IInv
<1> SUFFICES ASSUME Init PROVE IInv
  OBVIOUS
<1>a. positions \in [Slots -> PositionSet] /\ loss \in Nat
  BY PositionFacts DEF Init
<1>b. tokens \in [Mints -> 0..MaxUnits]
  BY UnitsAssumption DEF Init
<1>c. wsol \in BOOLEAN
  BY DEF Init
<1>1. TypeOK
  BY <1>a, <1>b, <1>c DEF Init, TypeOK
<1>2. \A i \in Slots : ~Open(i)
  BY DEF Init, Open
<1>3. Money
  BY <1>1, <1>2, Numbers DEF Init, Money, OnePositionPerMint, LossBounded, BoughtAllowed, NothingCharged
<1>4. Holdings
  BY DEF Init, Holdings, SellingPhase, Backed, NothingBehind, Bought
<1> QED
  BY <1>1, <1>2, <1>3, <1>4 DEF IInv, TargetEndsPosition, OneBuyUnlessLost, Init

-----------------------------------------------------------------------------
(* Shape.                                                                    *)

LEMMA CheckExitsShape ==
  ASSUME TypeOK, NEW price \in [Slots -> Prices \cup {0}], CheckExits(price)
  PROVE  TypeOK'
<1> DEFINE exited == {i \in Slots : Open(i) /\ Exits(positions[i], price[i])}
<1>1. \A i \in Slots : Open(i) => Watched(positions[i], price[i]) \in PositionSet
  <2> TAKE i \in Slots
  <2> HAVE Open(i)
  <2>1. /\ positions[i] \in [mint : Mints, age : 0..Hold, checked : BOOLEAN,
                             entry : Prices \cup {0}, peak : Prices \cup {0}]
        /\ price[i] \in Prices \cup {0}
    BY DEF TypeOK, PositionSet, Open
  <2>2. Peak(positions[i], price[i]) \in Prices \cup {0}
    BY <2>1 DEF Peak, Higher
  <2> QED
    BY <2>1, <2>2 DEF Watched, PositionSet
<1>2. /\ selling' = {positions[i].mint : i \in exited}
      /\ positions' = [i \in Slots |-> IF i \in exited \/ ~Open(i) THEN NoPosition
                                       ELSE Watched(positions[i], price[i])]
      /\ pc = "exits" /\ pc' = "selling"
      /\ UNCHANGED <<queue, muted, seen, signals, buying, loss, maxLoss, tokens, wsol,
                     inflight, orphans>>
  BY DEF CheckExits, Goto, chain
<1>3. positions' \in [Slots -> PositionSet]
  BY <1>1, <1>2, PositionFacts
<1>4. selling' \subseteq Mints
  BY <1>2, OpenMint
<1> QED
  BY <1>2, <1>3, <1>4 DEF TypeOK

LEMMA TickShape ==
  ASSUME TypeOK, Tick
  PROVE  TypeOK'
<1>1. \A i \in Slots : Open(i) =>
        [positions[i] EXCEPT !.age = IF @ < Hold THEN @ + 1 ELSE @, !.checked = FALSE]
          \in PositionSet
  <2> TAKE i \in Slots
  <2> HAVE Open(i)
  <2>1. /\ positions[i] \in [mint : Mints, age : 0..Hold, checked : BOOLEAN,
                             entry : Prices \cup {0}, peak : Prices \cup {0}]
        /\ Hold \in Nat
    BY ExitsAssumption DEF TypeOK, PositionSet, Open
  <2>2. (IF positions[i].age < Hold THEN positions[i].age + 1 ELSE positions[i].age) \in 0..Hold
    BY <2>1
  <2> QED
    BY <2>1, <2>2 DEF PositionSet
<1>2. positions' \in [Slots -> PositionSet]
  BY <1>1, PositionFacts DEF Tick
<1>3. UNCHANGED <<pc, queue, muted, seen, signals, selling, buying, loss, maxLoss, tokens, wsol,
                  inflight, orphans>>
  BY DEF Tick, chain
<1> QED
  BY <1>2, <1>3 DEF TypeOK

LEMMA OpenShape ==
  ASSUME TypeOK, NEW i \in Slots, NEW price \in Prices \cup {0}, OpenPosition(i, price)
  PROVE  TypeOK'
<1>1. /\ pc = "bought" /\ pc' = "evaluating" /\ buying' = NoSignal
      /\ loss' = loss + (buying.size \div 100)
      /\ positions' = [positions EXCEPT ![i] = Entered(buying.mint, price)]
      /\ UNCHANGED <<queue, muted, seen, signals, selling, maxLoss, tokens, wsol,
                     inflight, orphans>>
  BY DEF OpenPosition, Goto, chain
<1>2. buying \in SignalSet
  BY <1>1 DEF TypeOK
<1>3. Entered(buying.mint, price) \in PositionSet
  <2>1. buying.mint \in Mints /\ 0 \in 0..Hold
    BY <1>2, SignalFacts, ExitsAssumption
  <2> QED
    BY <2>1 DEF Entered, PositionSet
<1>4. loss' \in Nat
  BY <1>1, <1>2, SignalFacts, Numbers
<1> QED
  BY <1>1, <1>3, <1>4 DEF TypeOK

LEMMA LandsShape ==
  ASSUME TypeOK, NEW t \in inflight, Lands(t)
  PROVE  TypeOK'
<1>1. t.mint \in Mints /\ t.units \in Nat
  BY TransactionFacts
<1>2. tokens' \in [Mints -> 0..MaxUnits]
  BY <1>1, UnitsAssumption DEF Lands, TypeOK, Sellable
<1>3. /\ wsol' \in BOOLEAN /\ inflight' \subseteq inflight
      /\ UNCHANGED <<pc, queue, muted, seen, signals, positions, selling, buying, loss,
                     maxLoss, orphans>>
  BY DEF Lands, memory
<1> QED
  BY <1>2, <1>3 DEF TypeOK

LEMMA EvaluateShape ==
  ASSUME TypeOK, NEW s \in signals, Skip(s) \/ BuySubmitted(s) \/ BuyFailed(s)
  PROVE  TypeOK'
<1>1. s \in SignalSet /\ s.mint \in Mints /\ s.size \in Nat
  BY SignalFacts DEF TypeOK
<1>2. CASE Skip(s)
  BY <1>2, Numbers DEF Skip, TypeOK, chain
<1>3. CASE BuySubmitted(s)
  <2>1. inflight' \subseteq {Purchase(m, n) : m \in Mints, n \in Units} \cup {Sale(m) : m \in Mints}
    BY <1>1, <1>3 DEF BuySubmitted, TypeOK
  <2> QED
    BY <1>1, <1>3, <2>1, Numbers DEF BuySubmitted, TypeOK, Goto
<1>4. CASE BuyFailed(s)
  <2>1. inflight' \subseteq {Purchase(m, n) : m \in Mints, n \in Units} \cup {Sale(m) : m \in Mints}
    BY <1>1, <1>4 DEF BuyFailed, TypeOK
  <2>2. loss' \in Nat
    BY <1>1, <1>4, Numbers DEF BuyFailed
  <2> QED
    BY <1>1, <1>4, <2>1, <2>2 DEF BuyFailed, TypeOK
<1> QED
  BY <1>2, <1>3, <1>4

LEMMA DiesShape ==
  ASSUME TypeOK, Dies
  PROVE  TypeOK'
<1>1. {buying.mint} \ {NoMint} \subseteq Mints
  BY SignalFacts DEF TypeOK, NoSignal
<1>2. {positions[i].mint : i \in {j \in Slots : Open(j)}} \subseteq Mints
  BY OpenMint
<1> QED
  BY <1>1, <1>2, PositionFacts DEF Dies, TypeOK, chain

LEMMA ShapeStep ==
  ASSUME TypeOK, [Next]_vars
  PROVE  TypeOK'
<1>1. CASE \E left \in SUBSET muted : Iterate(left)
  BY <1>1 DEF Iterate, Goto, TypeOK, chain
<1>2. CASE \E m \in queue : Drain(m)
  BY <1>2 DEF Drain, TypeOK, chain, SignalSet
<1>3. CASE Top
  BY <1>3 DEF Top, Goto, TypeOK, chain
<1>4. CASE \E price \in [Slots -> Prices \cup {0}] : CheckExits(price)
  BY <1>4, CheckExitsShape
<1>5. CASE \E m \in selling : Sell(m)
  BY <1>5 DEF Sell, TypeOK
<1>6. CASE SalesDone \/ IterationDone
  BY <1>6 DEF SalesDone, IterationDone, Goto, TypeOK, memory, chain
<1>7. CASE \E s \in signals : Skip(s) \/ BuySubmitted(s) \/ BuyFailed(s)
  BY <1>7, EvaluateShape
<1>8. CASE \E i \in Slots, price \in Prices \cup {0} : OpenPosition(i, price)
  BY <1>8, OpenShape
<1>9. CASE Tick
  BY <1>9, TickShape
<1>10. CASE \E m \in Mints : Signal(m)
  BY <1>10 DEF Signal, TypeOK, chain
<1>11. CASE \E t \in inflight : Lands(t) \/ Expires(t)
  <2>1. CASE \E t \in inflight : Lands(t)
    BY <2>1, LandsShape
  <2>2. CASE \E t \in inflight : Expires(t)
    BY <2>2, TransactionFacts DEF Expires, TypeOK, memory
  <2> QED
    BY <1>11, <2>1, <2>2
<1>12. CASE OperatorWraps
  BY <1>12 DEF OperatorWraps, TypeOK, memory
<1>13. CASE Dies
  BY <1>13, DiesShape
<1>14. CASE Starts
  BY <1>14 DEF Starts, Goto, TypeOK, chain
<1>15. CASE UNCHANGED vars
  BY <1>15 DEF vars, memory, chain, TypeOK
<1> QED
  BY <1>1, <1>2, <1>3, <1>4, <1>5, <1>6, <1>7, <1>8, <1>9, <1>10, <1>11, <1>12, <1>13,
     <1>14, <1>15 DEF Next, LoopStep, World

\* Whatever the chain and the scripts do, every variable keeps its shape.
THEOREM StrategyLoopTypeCorrect == Spec => []TypeOK
<1>1. Init => TypeOK
  BY InitInv DEF IInv
<1>2. TypeOK /\ [Next]_vars => TypeOK'
  BY ShapeStep
<1> QED
  BY <1>1, <1>2, PTL DEF Spec

-----------------------------------------------------------------------------
(* Positions and money.                                                      *)

LEMMA OpenMintNext ==
  ASSUME TypeOK', NEW i \in Slots
  PROVE  /\ Open(i)' <=> positions'[i].mint \in Mints
         /\ positions'[i] \in PositionSet
<1>1. positions'[i] \in PositionSet
  BY DEF TypeOK
<1> QED
  BY <1>1, PositionFacts DEF Open

\* Positions are closed and kept, none is opened.
Shrinks == \A i \in Slots : Open(i)' => Open(i) /\ positions'[i].mint = positions[i].mint

LEMMA MoneyShrinks ==
  ASSUME TypeOK, TypeOK', Money, Shrinks, UNCHANGED <<buying, loss, maxLoss>>,
         pc' = "bought" => pc = "bought", pc' = "dead" => pc = "dead"
  PROVE  Money'
<1>1. OnePositionPerMint'
  BY DEF Money, OnePositionPerMint, Shrinks
<1>2. BoughtAllowed'
  <2> SUFFICES ASSUME pc' = "bought" PROVE BoughtAllowed'
    BY DEF BoughtAllowed
  <2>1. buying \in SignalSet /\ buying.mint \in Mints
    BY SignalFacts DEF TypeOK
  <2>2. ASSUME OnMint(buying.mint)' PROVE FALSE
    <3>1. PICK i \in Slots : positions'[i].mint = buying.mint
      BY <2>2 DEF OnMint
    <3>2. positions[i].mint = buying.mint
      BY <2>1, <3>1, OpenMintNext DEF Shrinks
    <3> QED
      BY <3>2 DEF Money, BoughtAllowed, OnMint
  <2> QED
    BY <2>2 DEF Money, BoughtAllowed
<1> QED
  BY <1>1, <1>2 DEF Money, LossBounded, NothingCharged

LEMMA CheckExitsShrinks ==
  ASSUME TypeOK, NEW price \in [Slots -> Prices \cup {0}], CheckExits(price)
  PROVE  /\ Shrinks
         /\ \A i \in Slots : Open(i) =>
              \/ positions[i].mint \in selling'
              \/ /\ ~Exits(positions[i], price[i])
                 /\ positions'[i] = Watched(positions[i], price[i])
                 /\ positions'[i].mint = positions[i].mint
         /\ \A i \in Slots : Open(i)' =>
              /\ ~Exits(positions[i], price[i])
              /\ positions'[i] = Watched(positions[i], price[i])
<1> DEFINE exited == {i \in Slots : Open(i) /\ Exits(positions[i], price[i])}
<1>1. /\ selling' = {positions[i].mint : i \in exited}
      /\ positions' = [i \in Slots |-> IF i \in exited \/ ~Open(i) THEN NoPosition
                                       ELSE Watched(positions[i], price[i])]
  BY DEF CheckExits
<1>2. \A i \in Slots : Open(i) => Watched(positions[i], price[i]).mint = positions[i].mint
  <2> TAKE i \in Slots
  <2> HAVE Open(i)
  <2>1. positions[i] \in [mint : Mints, age : 0..Hold, checked : BOOLEAN,
                          entry : Prices \cup {0}, peak : Prices \cup {0}]
    BY DEF TypeOK, PositionSet, Open
  <2> QED
    BY <2>1 DEF Watched
<1> QED
  BY <1>1, <1>2 DEF Shrinks, Open

LEMMA TickShrinks ==
  ASSUME TypeOK, Tick
  PROVE  /\ Shrinks
         /\ \A i \in Slots : /\ positions'[i].mint = positions[i].mint
                             /\ positions'[i].entry = positions[i].entry
                             /\ positions'[i].peak = positions[i].peak
<1> SUFFICES ASSUME NEW i \in Slots
             PROVE  /\ Open(i)' => Open(i)
                    /\ positions'[i].mint = positions[i].mint
                    /\ positions'[i].entry = positions[i].entry
                    /\ positions'[i].peak = positions[i].peak
  BY DEF Shrinks
<1>1. CASE ~Open(i)
  BY <1>1 DEF Tick, Open
<1>2. CASE Open(i)
  <2>1. positions[i] \in [mint : Mints, age : 0..Hold, checked : BOOLEAN,
                          entry : Prices \cup {0}, peak : Prices \cup {0}]
    BY <1>2 DEF TypeOK, PositionSet, Open
  <2> QED
    BY <1>2, <2>1 DEF Tick
<1> QED
  BY <1>1, <1>2

\* The steps that leave the positions and the money alone.
LEMMA Untouched ==
  ASSUME TypeOK,
         \/ \E left \in SUBSET muted : Iterate(left)
         \/ \E m \in queue : Drain(m)
         \/ Top \/ SalesDone \/ IterationDone \/ OperatorWraps
         \/ \E m \in selling : Sell(m)
         \/ \E m \in Mints : Signal(m)
         \/ \E t \in inflight : Lands(t) \/ Expires(t)
         \/ UNCHANGED vars
  PROVE  /\ UNCHANGED <<positions, buying, loss, maxLoss>>
         /\ pc' = "bought" => pc = "bought"
         /\ pc' = "dead" => pc = "dead"
BY DEF Iterate, Drain, Top, SalesDone, IterationDone, OperatorWraps, Sell, Signal, Lands,
       Expires, Goto, vars, memory

LEMMA MoneyStep ==
  ASSUME IInv, TypeOK', [Next]_vars
  PROVE  Money'
<1> USE DEF IInv
<1>1. CASE \/ \E left \in SUBSET muted : Iterate(left)
           \/ \E m \in queue : Drain(m)
           \/ Top \/ SalesDone \/ IterationDone \/ OperatorWraps
           \/ \E m \in selling : Sell(m)
           \/ \E m \in Mints : Signal(m)
           \/ \E t \in inflight : Lands(t) \/ Expires(t)
           \/ UNCHANGED vars
  <2>1. /\ UNCHANGED <<positions, buying, loss, maxLoss>>
        /\ pc' = "bought" => pc = "bought"
        /\ pc' = "dead" => pc = "dead"
    BY <1>1, Untouched
  <2>2. Shrinks
    BY <2>1 DEF Shrinks, Open
  <2> QED
    BY <2>1, <2>2, MoneyShrinks
<1>2. ASSUME NEW price \in [Slots -> Prices \cup {0}], CheckExits(price)
      PROVE  Money'
  <2>1. UNCHANGED <<buying, loss, maxLoss>> /\ pc' = "selling"
    BY <1>2 DEF CheckExits, Goto
  <2> QED
    BY <1>2, <2>1, CheckExitsShrinks, MoneyShrinks
<1>3. CASE Tick
  <2>1. UNCHANGED <<buying, loss, maxLoss, pc>>
    BY <1>3 DEF Tick
  <2> QED
    BY <1>3, <2>1, TickShrinks, MoneyShrinks
<1>4. ASSUME NEW s \in signals, Skip(s) \/ BuySubmitted(s) \/ BuyFailed(s)
      PROVE  Money'
  <2>1. s.mint \in Mints /\ s.size \in Nat /\ positions' = positions /\ maxLoss' = maxLoss
    BY <1>4, SignalFacts DEF TypeOK, Skip, BuySubmitted, BuyFailed
  <2>2. OnePositionPerMint'
    BY <2>1 DEF OnePositionPerMint, Money, Open
  <2>3. CASE Skip(s)
    BY <2>1, <2>2, <2>3, Numbers DEF Skip, Money, LossBounded, BoughtAllowed, NothingCharged
  <2>4. CASE BuySubmitted(s)
    <3>1. loss' <= maxLoss /\ s.size <= TradeCap /\ loss' \in Nat
      BY <2>4, Numbers DEF BuySubmitted, CanTrade
    <3>2. buying' = s /\ ~OnMint(s.mint) /\ pc' = "bought"
      BY <2>4 DEF BuySubmitted, RoomFor, Goto
    <3> QED
      BY <2>1, <2>2, <3>1, <3>2, Numbers DEF Money, LossBounded, BoughtAllowed, NothingCharged, OnMint
  <2>5. CASE BuyFailed(s)
    <3>1. pc' = "evaluating"
      BY <2>5 DEF BuyFailed
    <3>2. PICK lost \in {loss, 0} : CanTrade(s, lost) /\ loss' = lost + s.size
      BY <2>5 DEF BuyFailed
    <3>3. loss' <= maxLoss + TradeCap
      BY <2>1, <3>2, Numbers DEF CanTrade
    <3> QED
      BY <2>1, <2>2, <3>1, <3>3 DEF Money, LossBounded, BoughtAllowed, NothingCharged
  <2> QED
    BY <1>4, <2>3, <2>4, <2>5
<1>5. ASSUME NEW i \in Slots, NEW price \in Prices \cup {0}, OpenPosition(i, price)
      PROVE  Money'
  <2>1. /\ pc = "bought" /\ pc' = "evaluating" /\ maxLoss' = maxLoss
        /\ loss' = loss + (buying.size \div 100)
        /\ positions' = [positions EXCEPT ![i] = Entered(buying.mint, price)]
        /\ buying.size \in Nat /\ buying.mint \in Mints
    BY <1>5, SignalFacts DEF OpenPosition, Goto, TypeOK
  <2>2. LossBounded'
    BY <2>1, Numbers DEF Money, BoughtAllowed, LossBounded
  <2>3. \A j \in Slots \ {i} : positions'[j] = positions[j] /\ positions[j].mint # buying.mint
    BY <2>1 DEF Money, BoughtAllowed, OnMint, TypeOK
  <2>4. positions'[i].mint = buying.mint
    BY <2>1 DEF TypeOK, Entered
  <2>5. OnePositionPerMint'
    BY <2>3, <2>4 DEF Money, OnePositionPerMint, Open
  <2> QED
    BY <2>1, <2>2, <2>5 DEF Money, BoughtAllowed, NothingCharged
<1>6. CASE Dies \/ Starts
  <2>1. CASE Dies
    BY <2>1, Numbers DEF Dies, Money, OnePositionPerMint, LossBounded, BoughtAllowed, NothingCharged, Open
  <2>2. CASE Starts
    <3>1. loss' = loss /\ positions' = positions /\ pc' # "bought" /\ maxLoss' \in Nat
      BY <2>2, Numbers DEF Starts, Goto
    <3>2. loss = 0
      BY <2>2 DEF Starts, Goto, Money, NothingCharged
    <3> QED
      BY <3>1, <3>2, Numbers DEF Money, OnePositionPerMint, LossBounded, BoughtAllowed, NothingCharged, Open
  <2> QED
    BY <1>6, <2>1, <2>2
<1> QED
  BY <1>1, <1>2, <1>3, <1>4, <1>5, <1>6 DEF Next, LoopStep, World

-----------------------------------------------------------------------------
(* The tokens.                                                               *)

LEMMA SaleTyped ==
  \A m, n : Sale(m).kind = "sell" /\ Sale(m).mint = m /\ (Sale(m) = Sale(n) => m = n)
BY DEF Sale

\* A step that leaves the chain alone and loses sight of nothing silently.
LEMMA HoldingsKept ==
  ASSUME Holdings, SellingPhase', UNCHANGED <<tokens, inflight>>, orphans \subseteq orphans',
         \A m \in Mints : m \in Tracked => m \in Tracked' \/ m \in orphans'
  PROVE  Holdings'
BY DEF Holdings, Backed, NothingBehind, Bought, Sold

LEMMA HoldingsStep ==
  ASSUME IInv, TypeOK', [Next]_vars
  PROVE  Holdings'
<1> USE DEF IInv
<1>1. CASE \/ \E left \in SUBSET muted : Iterate(left)
           \/ \E m \in queue : Drain(m)
           \/ Top \/ SalesDone \/ IterationDone \/ OperatorWraps
           \/ \E m \in Mints : Signal(m)
           \/ \E s \in signals : Skip(s)
           \/ Starts \/ UNCHANGED vars
  <2>1. /\ UNCHANGED <<positions, buying, selling, tokens, inflight, orphans>>
        /\ SellingPhase'
    BY <1>1 DEF Iterate, Drain, Top, SalesDone, IterationDone, OperatorWraps, Signal, Skip,
                Starts, Goto, vars, memory, chain, Holdings, SellingPhase
  <2> QED
    BY <2>1, HoldingsKept DEF Tracked, OnMint
<1>2. ASSUME NEW price \in [Slots -> Prices \cup {0}], CheckExits(price)
      PROVE  Holdings'
  <2>1. UNCHANGED <<buying, tokens, inflight, orphans>> /\ pc = "exits" /\ pc' = "selling"
    BY <1>2 DEF CheckExits, Goto, chain
  <2>2. selling = {}
    BY <2>1 DEF Holdings, SellingPhase
  <2>3. ASSUME NEW m \in Mints, m \in Tracked
        PROVE  m \in Tracked'
    <3>1. CASE OnMint(m)
      <4>1. PICK i \in Slots : positions[i].mint = m
        BY <3>1 DEF OnMint
      <4>2. Open(i)
        BY <4>1, OpenMint
      <4> QED
        BY <1>2, <4>1, <4>2, CheckExitsShrinks DEF Tracked, OnMint
    <3> QED
      BY <2>1, <2>2, <2>3, <3>1 DEF Tracked
  <2> QED
    BY <2>1, <2>3, HoldingsKept DEF SellingPhase
<1>3. CASE Tick
  <2>1. UNCHANGED <<pc, buying, selling, tokens, inflight, orphans>>
    BY <1>3 DEF Tick, chain
  <2>2. \A m \in Mints : m \in Tracked => m \in Tracked'
    BY <1>3, <2>1, TickShrinks DEF Tracked, OnMint
  <2> QED
    BY <2>1, <2>2, HoldingsKept DEF Holdings, SellingPhase
<1>4. ASSUME NEW i \in Slots, NEW price \in Prices \cup {0}, OpenPosition(i, price)
      PROVE  Holdings'
  <2>1. /\ pc = "bought" /\ ~Open(i)
        /\ positions' = [positions EXCEPT ![i] = Entered(buying.mint, price)]
        /\ UNCHANGED <<selling, tokens, inflight, orphans>>
    BY <1>4 DEF OpenPosition, Goto, chain
  <2>2. SellingPhase'
    BY <2>1 DEF Holdings, SellingPhase
  <2>3. positions'[i].mint = buying.mint /\ \A j \in Slots \ {i} : positions'[j] = positions[j]
    BY <2>1 DEF TypeOK, Entered
  <2>4. \A m \in Mints : OnMint(m) => OnMint(m)'
    BY <2>1, <2>3, OpenMint DEF OnMint
  <2>5. \A m \in Mints : m \in Tracked => m \in Tracked'
    BY <2>1, <2>3, <2>4 DEF Tracked, OnMint
  <2> QED
    BY <2>1, <2>2, <2>5, HoldingsKept
<1>5. CASE Dies
  <2>1. /\ UNCHANGED <<tokens, inflight>> /\ selling' = {} /\ orphans \subseteq orphans'
    BY <1>5 DEF Dies, chain
  <2>2. ASSUME NEW m \in Mints, m \in Tracked
        PROVE  m \in orphans'
    <3>1. CASE OnMint(m)
      BY <1>5, <3>1, OpenMint DEF Dies, OnMint
    <3>2. CASE buying.mint = m \/ m \in selling
      BY <1>5, <3>2, MintsAssumption DEF Dies
    <3> QED
      BY <2>2, <3>1, <3>2 DEF Tracked
  <2> QED
    BY <2>1, <2>2, HoldingsKept DEF SellingPhase
<1>6. ASSUME NEW s \in signals, BuySubmitted(s) \/ BuyFailed(s)
      PROVE  Holdings'
  <2>1. /\ s.mint \in Mints /\ pc = "evaluating"
        /\ UNCHANGED <<positions, selling, tokens>> /\ orphans \subseteq orphans'
        /\ \/ UNCHANGED inflight /\ buying' \in {buying, s}
           \/ /\ \E n \in Units : inflight' = inflight \cup {Purchase(s.mint, n)}
              /\ buying' = s \/ (s.mint \in orphans' /\ buying' = buying)
    BY <1>6, SignalFacts DEF TypeOK, BuySubmitted, BuyFailed, Goto
  <2>2. selling = {} /\ \A m \in Mints : buying.mint # m
    BY <2>1, PositionFacts DEF Holdings, SellingPhase, TypeOK
  <2>3. \A m \in Mints : /\ m \in Tracked => m \in Tracked'
                         /\ m \in Bought' => m \in Bought \/ m \in Tracked' \/ m \in orphans'
                         /\ m \in Sold' <=> m \in Sold
    BY <2>1, <2>2, SaleTyped DEF Tracked, OnMint, Bought, Sold, Purchase
  <2> QED
    BY <2>1, <2>2, <2>3 DEF Holdings, SellingPhase, Backed, NothingBehind
<1>7. ASSUME NEW m \in selling, Sell(m)
      PROVE  Holdings'
  <2>1. /\ m \in Mints /\ pc' = pc /\ pc = "selling" /\ selling' = selling \ {m}
        /\ UNCHANGED <<positions, buying, tokens>> /\ orphans \subseteq orphans'
        /\ \/ m \in orphans' /\ inflight' \in {inflight, inflight \cup {Sale(m)}}
           \/ inflight' = inflight \cup {Sale(m)} /\ ~OnTheWay(m)
    BY <1>7 DEF Sell, TypeOK
  <2>2. \A k \in Mints : /\ k # m => (k \in Tracked' <=> k \in Tracked)
                         /\ k \in Bought' <=> k \in Bought
                         /\ k \in Sold => k \in Sold'
                         /\ k # m => (k \in Sold' <=> k \in Sold)
    BY <2>1, SaleTyped DEF Tracked, OnMint, Bought, Sold
  <2>3. m \in orphans' \/ (m \in Sold' /\ m \notin Bought')
    BY <2>1, <2>2, SaleTyped DEF OnTheWay, Bought, Sold
  <2>4. SellingPhase'
    BY <2>1 DEF SellingPhase
  <2>5. Backed'
    <3> SUFFICES ASSUME NEW k \in Mints, tokens'[k] > 0 \/ k \in Bought'
                 PROVE  k \in Tracked' \/ k \in orphans' \/ k \in Sold'
      BY DEF Backed
    <3>1. tokens[k] > 0 \/ k \in Bought
      BY <2>1, <2>2
    <3>2. k \in Tracked \/ k \in orphans \/ k \in Sold
      BY <3>1 DEF Holdings, Backed
    <3> QED
      BY <2>1, <2>2, <2>3, <3>2
  <2>6. NothingBehind'
    BY <2>1, <2>2, <2>3 DEF Holdings, NothingBehind
  <2> QED
    BY <2>4, <2>5, <2>6 DEF Holdings
<1>8. ASSUME NEW t \in inflight, Lands(t)
      PROVE  Holdings'
  <2>1. /\ t.mint \in Mints /\ t.kind \in {"buy", "sell"} /\ (t.kind = "sell" => t = Sale(t.mint))
        /\ UNCHANGED <<pc, positions, buying, selling, orphans>> /\ inflight' = inflight \ {t}
    BY <1>8, TransactionFacts DEF Lands, memory
  <2>2. \A m \in Mints : /\ m \in Tracked' <=> m \in Tracked
                         /\ m \in Bought' => m \in Bought
                         /\ m # t.mint => tokens'[m] = tokens[m]
                         /\ m \in Sold /\ Sale(m) # t => m \in Sold'
                         /\ m \in Sold' => m \in Sold
    BY <1>8, <2>1 DEF Tracked, OnMint, Bought, Sold, Lands, TypeOK
  <2>3. CASE t.kind = "buy"
    <3>1. t.mint \in Bought /\ \A m \in Mints : Sale(m) # t
      BY <2>3, SaleTyped DEF Bought
    <3>2. Backed'
      BY <2>1, <2>2, <3>1 DEF Holdings, Backed
    <3> QED
      BY <2>1, <2>2, <3>2 DEF Holdings, SellingPhase, NothingBehind
  <2>4. CASE t.kind = "sell"
    <3>1. tokens'[t.mint] = 0 /\ t = Sale(t.mint)
      BY <1>8, <2>1, <2>4 DEF Lands, TypeOK
    <3>2. \A m \in Mints : m # t.mint => Sale(m) # t
      BY <3>1, SaleTyped
    <3>3. t.mint \in Bought => t.mint \in Tracked \/ t.mint \in orphans
      BY <2>1, <3>1 DEF Holdings, NothingBehind, Sold
    <3>4. Backed'
      BY <2>1, <2>2, <3>1, <3>2, <3>3 DEF Holdings, Backed
    <3> QED
      BY <2>1, <2>2, <3>4 DEF Holdings, SellingPhase, NothingBehind
  <2> QED
    BY <2>1, <2>3, <2>4
<1>9. ASSUME NEW t \in inflight, Expires(t)
      PROVE  Holdings'
  <2>1. /\ t.mint \in Mints /\ (t.kind = "sell" => t = Sale(t.mint) /\ t.mint \in orphans')
        /\ UNCHANGED <<pc, positions, buying, selling, tokens>> /\ inflight' = inflight \ {t}
        /\ orphans \subseteq orphans'
    BY <1>9, TransactionFacts DEF Expires, memory
  <2>2. \A m \in Mints : /\ m \in Tracked' <=> m \in Tracked
                         /\ m \in Bought' => m \in Bought
                         /\ m \in Sold' => m \in Sold
    BY <2>1 DEF Tracked, OnMint, Bought, Sold
  <2>3. \A m \in Mints : m \in Sold => m \in Sold' \/ m \in orphans'
    BY <2>1, SaleTyped DEF Sold
  <2> QED
    BY <2>1, <2>2, <2>3 DEF Holdings, SellingPhase, Backed, NothingBehind
<1> QED
  BY <1>1, <1>2, <1>3, <1>4, <1>5, <1>6, <1>7, <1>8, <1>9 DEF Next, LoopStep, World

-----------------------------------------------------------------------------
(* One buy of a mint at a time.                                              *)

BuysOf(m) == {t \in inflight : t.kind = "buy" /\ t.mint = m}

\* Steps that send no buy and land nothing keep it.
LEMMA OneBuyKept ==
  ASSUME OneBuyUnlessLost, UNCHANGED tokens, orphans \subseteq orphans',
         \A m \in Mints : /\ BuysOf(m)' \subseteq BuysOf(m)
                          /\ Sale(m) \in inflight => Sale(m) \in inflight' \/ m \in orphans'
  PROVE  OneBuyUnlessLost'
BY DEF OneBuyUnlessLost, BuysOf

\* A buy is sent only where none is on its way and no tokens wait for a sale.
LEMMA BuyStep ==
  ASSUME IInv, NEW s \in signals, BuySubmitted(s) \/ BuyFailed(s)
  PROVE  OneBuyUnlessLost'
<1> USE DEF IInv
<1>1. /\ s.mint \in Mints /\ pc = "evaluating" /\ RoomFor(s)
      /\ UNCHANGED tokens /\ orphans \subseteq orphans'
      /\ \/ UNCHANGED inflight
         \/ \E n \in Units : inflight' = inflight \cup {Purchase(s.mint, n)}
  BY SignalFacts DEF TypeOK, BuySubmitted, BuyFailed, Goto
<1>2. s.mint \notin Tracked
  <2>1. selling = {} /\ \A m \in Mints : buying.mint # m
    BY <1>1, PositionFacts DEF Holdings, SellingPhase, TypeOK
  <2> QED
    BY <1>1, <2>1 DEF Tracked, RoomFor
<1>3. s.mint \notin orphans => s.mint \notin Bought
  BY <1>1, <1>2 DEF Holdings, Backed, NothingBehind
<1>4. s.mint \notin orphans => BuysOf(s.mint) = {}
  BY <1>3 DEF Bought, BuysOf
<1>5. s.mint \notin orphans /\ tokens[s.mint] > 0 => Sale(s.mint) \in inflight
  BY <1>1, <1>2 DEF Holdings, Backed, Bought, Sold
<1>6. CASE UNCHANGED inflight
  BY <1>1, <1>6, OneBuyKept DEF BuysOf
<1>7. ASSUME NEW n \in Units, inflight' = inflight \cup {Purchase(s.mint, n)}
      PROVE  OneBuyUnlessLost'
  <2> SUFFICES ASSUME NEW m \in Mints, m \notin orphans'
               PROVE  /\ \A t, u \in BuysOf(m)' : t = u
                      /\ tokens'[m] > 0 /\ BuysOf(m)' # {} => Sale(m) \in inflight'
    BY DEF OneBuyUnlessLost, BuysOf
  <2>1. m \notin orphans
    BY <1>1
  <2>2. CASE m = s.mint
    <3>1. BuysOf(m)' \subseteq BuysOf(m) \cup {Purchase(m, n)}
      BY <1>7, <2>2 DEF BuysOf
    <3> QED
      BY <1>1, <1>4, <1>5, <1>7, <2>1, <2>2, <3>1
  <2>3. CASE m # s.mint
    <3>1. BuysOf(m)' = BuysOf(m)
      BY <1>7, <2>3 DEF BuysOf, Purchase
    <3> QED
      BY <1>1, <1>7, <2>1, <3>1 DEF OneBuyUnlessLost, BuysOf
  <2> QED
    BY <2>2, <2>3
<1> QED
  BY <1>1, <1>6, <1>7

\* What lands was the only buy of its mint, or leaves no tokens.
LEMMA LandStep ==
  ASSUME IInv, NEW t \in inflight, Lands(t)
  PROVE  OneBuyUnlessLost'
<1> USE DEF IInv
<1>1. /\ t.mint \in Mints /\ t.kind \in {"buy", "sell"} /\ (t.kind = "sell" => t = Sale(t.mint))
      /\ inflight' = inflight \ {t} /\ UNCHANGED orphans
  BY TransactionFacts DEF Lands, memory
<1> SUFFICES ASSUME NEW m \in Mints, m \notin orphans
             PROVE  /\ \A v, u \in BuysOf(m)' : v = u
                    /\ tokens'[m] > 0 /\ BuysOf(m)' # {} => Sale(m) \in inflight'
  BY <1>1 DEF OneBuyUnlessLost, BuysOf
<1>2. /\ \A v, u \in BuysOf(m) : v = u
      /\ tokens[m] > 0 /\ BuysOf(m) # {} => Sale(m) \in inflight
      /\ BuysOf(m)' \subseteq BuysOf(m)
  BY <1>1 DEF OneBuyUnlessLost, BuysOf
<1>3. CASE m # t.mint
  <2>1. tokens'[m] = tokens[m]
    BY <1>1, <1>3 DEF Lands, TypeOK
  <2>2. Sale(m) # t
    BY <1>1, <1>3 DEF Sale
  <2> QED
    BY <1>1, <1>2, <2>1, <2>2
<1>4. CASE m = t.mint /\ t.kind = "buy"
  <2>1. BuysOf(m)' = {}
    BY <1>1, <1>2, <1>4 DEF BuysOf
  <2> QED
    BY <2>1
<1>5. CASE m = t.mint /\ t.kind = "sell"
  <2>1. tokens'[m] = 0
    BY <1>1, <1>5 DEF Lands, TypeOK
  <2> QED
    BY <1>2, <2>1
<1> QED
  BY <1>1, <1>3, <1>4, <1>5

LEMMA OneBuyStep ==
  ASSUME IInv, TypeOK', [Next]_vars
  PROVE  OneBuyUnlessLost'
<1> USE DEF IInv
<1>1. CASE \/ \E left \in SUBSET muted : Iterate(left)
           \/ \E m \in queue : Drain(m)
           \/ Top \/ SalesDone \/ IterationDone \/ OperatorWraps
           \/ \E m \in Mints : Signal(m)
           \/ \E s \in signals : Skip(s)
           \/ \E price \in [Slots -> Prices \cup {0}] : CheckExits(price)
           \/ \E i \in Slots, price \in Prices \cup {0} : OpenPosition(i, price)
           \/ Tick \/ Dies \/ Starts \/ UNCHANGED vars
  <2>1. UNCHANGED <<tokens, inflight>> /\ orphans \subseteq orphans'
    BY <1>1 DEF Iterate, Drain, Top, SalesDone, IterationDone, OperatorWraps, Signal, Skip,
                CheckExits, OpenPosition, Tick, Dies, Starts, vars, memory, chain
  <2> QED
    BY <2>1, OneBuyKept DEF BuysOf
<1>2. ASSUME NEW m \in selling, Sell(m)
      PROVE  OneBuyUnlessLost'
  <2>1. /\ UNCHANGED tokens /\ orphans \subseteq orphans'
        /\ inflight' \in {inflight, inflight \cup {Sale(m)}}
    BY <1>2 DEF Sell
  <2> QED
    BY <2>1, OneBuyKept DEF BuysOf, Sale
<1>3. ASSUME NEW s \in signals, BuySubmitted(s) \/ BuyFailed(s)
      PROVE  OneBuyUnlessLost'
  BY <1>3, BuyStep
<1>4. ASSUME NEW t \in inflight, Lands(t)
      PROVE  OneBuyUnlessLost'
  BY <1>4, LandStep
<1>5. ASSUME NEW t \in inflight, Expires(t)
      PROVE  OneBuyUnlessLost'
  <2>1. /\ UNCHANGED tokens /\ inflight' = inflight \ {t} /\ orphans \subseteq orphans'
        /\ t.kind = "sell" => t.mint \in orphans'
    BY <1>5 DEF Expires
  <2>2. \A m \in Mints : Sale(m) = t => t.kind = "sell" /\ t.mint = m
    BY DEF Sale
  <2> QED
    BY <2>1, <2>2, OneBuyKept DEF BuysOf
<1> QED
  BY <1>1, <1>2, <1>3, <1>4, <1>5 DEF Next, LoopStep, World

-----------------------------------------------------------------------------
(* The target, and the theorems.                                             *)

LEMMA TargetStep ==
  ASSUME IInv, TypeOK', [Next]_vars
  PROVE  TargetEndsPosition'
<1> USE DEF IInv
<1>1. ASSUME UNCHANGED positions
      PROVE  TargetEndsPosition'
  BY <1>1 DEF TargetEndsPosition, Open
<1>2. ASSUME NEW price \in [Slots -> Prices \cup {0}], CheckExits(price)
      PROVE  TargetEndsPosition'
  <2> SUFFICES ASSUME NEW i \in Slots, Open(i)', positions'[i].entry > 0
               PROVE  (positions'[i].peak - positions'[i].entry) * 100
                        < TakeProfit * positions'[i].entry
    BY DEF TargetEndsPosition
  <2> DEFINE p == positions[i]  x == price[i]
  <2>1. /\ Open(i) /\ ~Exits(p, x) /\ positions'[i] = Watched(p, x)
    BY <1>2, CheckExitsShrinks DEF Shrinks
  <2>2. /\ p \in [mint : Mints, age : 0..Hold, checked : BOOLEAN,
                   entry : Prices \cup {0}, peak : Prices \cup {0}]
        /\ x \in Nat /\ p.entry \in Nat /\ p.peak \in Nat
    BY <2>1, PricesAssumption DEF TypeOK, PositionSet, Open
  <2>3. positions'[i].entry = p.entry
    BY <2>1, <2>2 DEF Watched
  <2>4. (p.peak - p.entry) * 100 < TakeProfit * p.entry
    BY <2>1, <2>3 DEF TargetEndsPosition
  <2>5. CASE Priced(p, x)
    <3>1. positions'[i].peak \in {p.peak, x}
      BY <2>1, <2>2, <2>5 DEF Watched, Peak, Higher
    <3>2. ~((x - p.entry) * 100 >= TakeProfit * p.entry)
      BY <2>1, <2>5 DEF Exits, PriceExit
    <3>3. TakeProfit * p.entry \in Int /\ (x - p.entry) * 100 \in Int
      BY <2>2, Numbers
    <3>4. (x - p.entry) * 100 < TakeProfit * p.entry
      BY <3>2, <3>3
    <3> QED
      BY <2>3, <2>4, <3>1, <3>4
  <2>6. CASE ~Priced(p, x)
    <3>1. positions'[i].peak = p.peak
      BY <2>1, <2>2, <2>6 DEF Watched
    <3> QED
      BY <2>3, <2>4, <3>1
  <2> QED
    BY <2>5, <2>6
<1>3. CASE Tick
  BY <1>3, TickShrinks DEF Shrinks, TargetEndsPosition
<1>4. ASSUME NEW i \in Slots, NEW price \in Prices \cup {0}, OpenPosition(i, price)
      PROVE  TargetEndsPosition'
  <2>1. positions' = [positions EXCEPT ![i] = Entered(buying.mint, price)]
    BY <1>4 DEF OpenPosition
  <2>2. \A j \in Slots \ {i} : positions'[j] = positions[j]
    BY <2>1 DEF TypeOK
  <2>3. positions'[i].entry = price /\ positions'[i].peak = 0
    BY <2>1 DEF TypeOK, Entered
  <2>4. ASSUME price > 0
        PROVE  (0 - price) * 100 < TakeProfit * price
    <3>1. price \in Nat \ {0} /\ TakeProfit \in Nat
      BY <2>4, PricesAssumption, Numbers
    <3>2. TakeProfit * price >= 0
      BY <3>1
    <3>3. TakeProfit * price \in Int
      BY <3>1
    <3> QED
      BY <3>1, <3>2, <3>3
  <2> QED
    BY <2>2, <2>3, <2>4 DEF TargetEndsPosition, Open
<1>5. CASE Dies
  BY <1>5 DEF Dies, TargetEndsPosition, Open
<1> QED
  BY <1>1, <1>2, <1>3, <1>4, <1>5, Untouched
     DEF Next, LoopStep, World, Skip, BuySubmitted, BuyFailed, Starts

LEMMA Inductive == Spec => []IInv
<1>1. IInv /\ [Next]_vars => IInv'
  <2> SUFFICES ASSUME IInv, [Next]_vars PROVE IInv'
    OBVIOUS
  <2>1. TypeOK'
    BY ShapeStep DEF IInv
  <2> QED
    BY <2>1, MoneyStep, HoldingsStep, OneBuyStep, TargetStep DEF IInv
<1> QED
  BY InitInv, <1>1, PTL DEF Spec

\* A mint is never held by two open positions.
THEOREM PositionsApart == Spec => []OnePositionPerMint
<1>1. IInv => OnePositionPerMint
  BY DEF IInv, Money
<1> QED
  BY Inductive, <1>1, PTL

\* The charges of a day exceed the drawdown by one trade at most.
THEOREM LossIsBounded == Spec => []LossBounded
<1>1. IInv => LossBounded
  BY DEF IInv, Money
<1> QED
  BY Inductive, <1>1, PTL

\* What the wallet holds has a position, a sale, or one of the listed mishaps.
THEOREM HoldingsHaveAReason == Spec => []HoldingsExplained
<1>1. IInv => HoldingsExplained
  BY DEF IInv, TypeOK, Holdings, Backed, HoldingsExplained, Tracked, Bought, Sold
<1> QED
  BY Inductive, <1>1, PTL

\* No mint is bought twice over, unless the loop has lost sight of it.
THEOREM BoughtOnce == Spec => []OneBuyUnlessLost
<1>1. IInv => OneBuyUnlessLost
  BY DEF IInv
<1> QED
  BY Inductive, <1>1, PTL

\* "Fixed take-profit (if trailing stop is disabled)" (ops/strategy_loop.py:166)
\* is not what the code does: the fixed target ends a position whatever Trail is,
\* so that no open position was ever seen at it.
THEOREM TargetIsFixed == Spec => []TargetEndsPosition
<1>1. IInv => TargetEndsPosition
  BY DEF IInv
<1> QED
  BY Inductive, <1>1, PTL

----------------------------------------------------------------------------
(* The order of the signals.                                               *)

\* Of a high and a medium signal, the cut to the first three never keeps the high
\* one alone, and the high one is not evaluated while the medium one waits.
HighComesLast(high, medium) ==
  high.high /\ ~medium.high /\ pc' # "dead"
    => /\ pc = "draining" /\ medium \notin signals' => high \notin signals'
       /\ pc = "evaluating" => high \in signals'

\* "Cap to top 3 signals per iteration (highest confidence + buy amount)"
\* (ops/strategy_loop.py:645) is the reverse of what the sort does: its key is 0 for
\* a high confidence, and reverse=True puts the ones first.
THEOREM MediumGoesFirst == Spec => [][\A s, z \in signals : HighComesLast(s, z)]_vars
<1>1. ASSUME [Next]_vars, NEW s \in signals, NEW z \in signals, s.high, ~z.high, pc' # "dead"
      PROVE  /\ pc = "draining" /\ z \notin signals' => s \notin signals'
             /\ pc = "evaluating" => s \in signals'
  <2>1. CASE Top
    BY <1>1, <2>1 DEF Top, Goto, Ahead
  <2>2. ASSUME NEW m \in queue, Drain(m)
        PROVE  signals \subseteq signals' /\ pc = "draining"
    BY <2>2 DEF Drain
  <2>3. ASSUME NEW r \in signals, Skip(r) \/ BuySubmitted(r) \/ BuyFailed(r)
        PROVE  s \in signals' /\ pc = "evaluating"
    <3>1. Foremost(r) /\ signals' = signals \ {r} /\ pc = "evaluating"
      BY <2>3 DEF Skip, BuySubmitted, BuyFailed, Goto
    <3>2. r # s
      BY <1>1, <3>1 DEF Foremost, Ahead
    <3> QED BY <3>1, <3>2
  <2>4. ASSUME \/ \E left \in SUBSET muted : Iterate(left)
               \/ \E price \in [Slots -> PoolPrices] : CheckExits(price)
               \/ \E m \in selling : Sell(m)
               \/ SalesDone \/ IterationDone
               \/ \E i \in Slots, price \in PoolPrices : OpenPosition(i, price)
        PROVE  signals' = signals
    BY <2>4 DEF Iterate, CheckExits, Sell, SalesDone, IterationDone, OpenPosition, memory
  <2>5. CASE Tick \/ UNCHANGED vars
    BY <1>1, <2>5 DEF Tick, vars, memory
  <2>6. ASSUME World
        PROVE  signals' = signals
    BY <1>1, <2>6 DEF World, Signal, Lands, Expires, OperatorWraps, Dies, Starts, memory
  <2>7. CASE signals' = signals
    BY <1>1, <2>7
  <2> QED
    BY <1>1, <2>1, <2>2, <2>3, <2>4, <2>5, <2>6, <2>7 DEF Next, LoopStep
<1>2. [Next]_vars => [\A s, z \in signals : HighComesLast(s, z)]_vars
  BY <1>1 DEF HighComesLast
<1> QED
  BY <1>2, PTL DEF Spec

----------------------------------------------------------------------------
(* How much may be risked: the gates of Sizing.                            *)

\* What the gate of a risk needs, one conjunct for each of its reasons.
LEMMA UnprovenAbsent ==
  ASSUME NEW s, NEW p
  PROVE  Unproven(s, p) = {}
           <=> /\ s.direct_executor_proven /\ s.profit_guard_proven
               /\ ~(s.shadow_runtime < p.minimum_shadow_runtime)
               /\ ~(s.shadow_candidates < p.minimum_shadow_candidates)
               /\ ~(s.shadow_net_profit_usd <= 0)
<1> DEFINE executor == ~s.direct_executor_proven
           guard == ~s.profit_guard_proven
           brief == s.shadow_runtime < p.minimum_shadow_runtime
           few == s.shadow_candidates < p.minimum_shadow_candidates
           poor == s.shadow_net_profit_usd <= 0
           reasons == Failing([direct_executor_unproven |-> executor,
                               profit_guard_unproven |-> guard,
                               insufficient_shadow_runtime |-> brief,
                               insufficient_shadow_candidates |-> few,
                               shadow_net_not_positive |-> poor])
<1>1. {executor, guard, brief, few, poor} \subseteq BOOLEAN
  OBVIOUS
<1>2. Unproven(s, p) = reasons
  BY Zenon DEF Unproven
<1>3. reasons = {} <=> ~executor /\ ~guard /\ ~brief /\ ~few /\ ~poor
  <2> HIDE DEF executor, guard, brief, few, poor
  <2> QED BY <1>1 DEF Failing
<1> HIDE DEF reasons
<1> QED BY <1>2, <1>3

\* No kill switch stops a trade exactly when each of their conditions is false.
LEMMA KilledAbsent ==
  ASSUME NEW s, NEW p
  PROVE  Killed(s, p) = {}
           <=> /\ ~(s.active_transactions > 0) /\ ~s.residual_inventory
               /\ ~(100 * s.daily_wallet_pnl_usd <= -(s.day_start_equity_usd * p.daily_loss_pct))
               /\ ~(100 * s.equity_usd
                      <= s.high_water_equity_usd * (100 - p.maximum_drawdown_pct))
<1> DEFINE active == s.active_transactions > 0
           residual == s.residual_inventory = TRUE
           lost == 100 * s.daily_wallet_pnl_usd <= -(s.day_start_equity_usd * p.daily_loss_pct)
           drawdown == 100 * s.equity_usd
                         <= s.high_water_equity_usd * (100 - p.maximum_drawdown_pct)
           reasons == Failing([active_transaction_exists |-> active,
                               residual_inventory |-> s.residual_inventory,
                               daily_loss_limit |-> lost, maximum_drawdown |-> drawdown])
<1>1. {active, residual, lost, drawdown} \subseteq BOOLEAN
  OBVIOUS
<1>2. Killed(s, p) = reasons
  BY Zenon DEF Killed
<1>3. reasons = {} <=> ~active /\ ~residual /\ ~lost /\ ~drawdown
  <2> HIDE DEF active, lost, drawdown
  <2> QED BY <1>1 DEF Failing
<1> HIDE DEF reasons
<1> QED BY <1>2, <1>3

Snapshots == [equity_usd : Int, high_water_equity_usd : Int, day_start_equity_usd : Int,
              daily_wallet_pnl_usd : Int, live_settled_attempts : Nat, live_wallet_pnl_usd : Int,
              active_transactions : Nat, residual_inventory : BOOLEAN,
              direct_executor_proven : BOOLEAN, profit_guard_proven : BOOLEAN,
              shadow_runtime : Nat, shadow_candidates : Nat, shadow_net_profit_usd : Int]
Policies == [pilot_risk_pct : 0..100, validated_risk_pct : 0..100, trade_cap_usd : Nat,
             wallet_reserve_usd : Nat, daily_loss_pct : Nat, maximum_drawdown_pct : 0..100,
             minimum_live_attempts_for_scale : Nat, minimum_shadow_runtime : Nat,
             minimum_shadow_candidates : Nat]

\* The nearest whole amount is half a unit away at most, and a whole amount is itself.
LEMMA RoundedIsNear ==
  ASSUME NEW h \in Int, NEW n \in Rounded(h)
  PROVE  n \in Int /\ h - 50 <= 100 * n /\ 100 * n <= h + 50
BY DEF Rounded

\* Rounding to whole amounts does not leave whole bounds.
LEMMA RoundedKeepsBounds ==
  ASSUME NEW h \in Int, NEW n \in Rounded(h), NEW bound \in Int
  PROVE  /\ h <= 100 * bound => n <= bound
         /\ 100 * bound <= h => bound <= n
BY RoundedIsNear

\* There is always a nearest amount: what follows is about at least one trade.
LEMMA RoundedExists == ASSUME NEW h \in Int PROVE Rounded(h) # {}
<1> DEFINE below == h \div 100
<1>1. below \in Int /\ 100 * below <= h /\ h < 100 * below + 100
  OBVIOUS
<1>2. h - 100 * below \in -50..50 \/ h - 100 * (below + 1) \in -50..50
  <2> HIDE DEF below
  <2> QED BY <1>1
<1> HIDE DEF below
<1>3. below \in Rounded(h) \/ below + 1 \in Rounded(h)
  BY <1>1, <1>2 DEF Rounded, below
<1> QED BY <1>3

\* Products with a percentage keep the order.
LEMMA TimesMonotone ==
  ASSUME NEW a \in Int, NEW b \in Int, a <= b, NEW k \in Nat
  PROVE  a * k \in Int /\ b * k \in Int /\ a * k <= b * k
<1>1. (b - a) * k >= 0
  OBVIOUS
<1>2. (b - a) * k = b * k - a * k
  OBVIOUS
<1> QED BY <1>1, <1>2

\* Both stages risk a percentage of the equity.
LEMMA RiskPercentage ==
  ASSUME NEW s \in Snapshots, NEW p \in Policies
  PROVE  RiskPct(s, p) \in 0..100
BY DEF RiskPct, Snapshots, Policies

\* What assess_risk allows to trade (risk.py): not more than the cap, nothing of the wallet's
\* reserve, and of the equity the share of its stage, up to the rounding of half a cent.
THEOREM TradeWithinLimits ==
  ASSUME NEW s \in Snapshots, NEW p \in Policies, 0 <= s.high_water_equity_usd,
         NEW trade \in MaximumTrades(s, p)
  PROVE  /\ trade \in 0..p.trade_cap_usd
         /\ trade > 0 => RiskAllowed(s, p) /\ s.equity_usd - trade >= p.wallet_reserve_usd
         /\ 100 * trade <= s.equity_usd * RiskPct(s, p) + 50 \/ trade = 0
<1> DEFINE limit == TradeLimit(s, p)
           share == s.equity_usd * RiskPct(s, p)
           spare == Most(0, s.equity_usd - p.wallet_reserve_usd)
<1>1. /\ s.equity_usd \in Int /\ p.trade_cap_usd \in Nat /\ p.wallet_reserve_usd \in Nat
      /\ RiskPct(s, p) \in 0..100 /\ share \in Int /\ spare \in Nat
  BY RiskPercentage DEF Snapshots, Policies, Most
<1>2. CASE ~RiskAllowed(s, p)
  <2>1. limit = 0
    BY <1>2 DEF TradeLimit
  <2>2. trade = 0
    BY <2>1 DEF MaximumTrades, Rounded
  <2> QED BY <1>1, <2>2
<1>3. CASE RiskAllowed(s, p)
  <2>1. limit = Least(share, Least(100 * p.trade_cap_usd, 100 * spare))
    BY <1>3 DEF TradeLimit
  <2>2. s.equity_usd >= 0
    <3>1. ~(100 * s.equity_usd <= s.high_water_equity_usd * (100 - p.maximum_drawdown_pct))
      BY <1>3, KilledAbsent DEF RiskAllowed
    <3>2. 100 - p.maximum_drawdown_pct \in Nat /\ s.high_water_equity_usd \in Nat
      BY DEF Policies, Snapshots
    <3>3. s.high_water_equity_usd * (100 - p.maximum_drawdown_pct) \in Nat
      BY <3>2
    <3> QED BY <1>1, <3>1, <3>3
  <2>3. share >= 0
    BY <1>1, <2>2
  <2> HIDE DEF share, spare, limit
  <2>4. limit \in Int /\ 0 <= limit /\ limit <= share
        /\ limit <= 100 * p.trade_cap_usd /\ limit <= 100 * spare
    BY <1>1, <2>1, <2>3 DEF Least
  <2>5. trade \in Rounded(limit)
    BY DEF MaximumTrades, limit
  <2>6. /\ trade \in Int /\ 0 <= trade /\ trade <= p.trade_cap_usd /\ trade <= spare
        /\ 100 * trade <= share + 50
    BY <1>1, <2>4, <2>5, RoundedKeepsBounds, RoundedIsNear
  <2>7. trade > 0 => s.equity_usd - trade >= p.wallet_reserve_usd
    BY <1>1, <2>6 DEF spare, Most
  <2> QED BY <1>1, <1>3, <2>6, <2>7 DEF share
<1> QED BY <1>2, <1>3

\* A snapshot that is nowhere worse than another, at the same number of attempts.
NoWorse(s, z) ==
  /\ z.direct_executor_proven => s.direct_executor_proven
  /\ z.profit_guard_proven => s.profit_guard_proven
  /\ s.residual_inventory => z.residual_inventory
  /\ s.shadow_runtime >= z.shadow_runtime /\ s.shadow_candidates >= z.shadow_candidates
  /\ s.shadow_net_profit_usd >= z.shadow_net_profit_usd
  /\ s.active_transactions <= z.active_transactions
  /\ s.daily_wallet_pnl_usd >= z.daily_wallet_pnl_usd
  /\ s.day_start_equity_usd >= z.day_start_equity_usd
  /\ s.high_water_equity_usd <= z.high_water_equity_usd
  /\ s.equity_usd >= z.equity_usd
  /\ s.live_wallet_pnl_usd >= z.live_wallet_pnl_usd
  /\ s.live_settled_attempts = z.live_settled_attempts

\* The gates of risk.py all point one way: no better snapshot is locked where a worse one is
\* not, or may trade less.  Only one more settled attempt may lock, the last of the pilot.
THEOREM BetterNeverRisksLess ==
  ASSUME NEW s \in Snapshots, NEW z \in Snapshots, NEW p \in Policies,
         NoWorse(s, z), RiskAllowed(z, p)
  PROVE  RiskAllowed(s, p) /\ TradeLimit(s, p) >= TradeLimit(z, p)
<1> USE DEF NoWorse
<1>1. Unproven(s, p) = {}
  <2>1. /\ z.direct_executor_proven /\ z.profit_guard_proven
        /\ ~(z.shadow_runtime < p.minimum_shadow_runtime)
        /\ ~(z.shadow_candidates < p.minimum_shadow_candidates)
        /\ ~(z.shadow_net_profit_usd <= 0)
    BY UnprovenAbsent DEF RiskAllowed
  <2>2. /\ s.direct_executor_proven /\ s.profit_guard_proven
        /\ ~(s.shadow_runtime < p.minimum_shadow_runtime)
        /\ ~(s.shadow_candidates < p.minimum_shadow_candidates)
        /\ ~(s.shadow_net_profit_usd <= 0)
    BY <2>1 DEF Snapshots, Policies
  <2> QED BY <2>2, UnprovenAbsent
<1>2. Killed(s, p) = {}
  <2>1. /\ ~(z.active_transactions > 0) /\ ~z.residual_inventory
        /\ ~(100 * z.daily_wallet_pnl_usd <= -(z.day_start_equity_usd * p.daily_loss_pct))
        /\ ~(100 * z.equity_usd <= z.high_water_equity_usd * (100 - p.maximum_drawdown_pct))
    BY KilledAbsent DEF RiskAllowed
  <2>2. ~(s.active_transactions > 0) /\ ~s.residual_inventory
    BY <2>1 DEF Snapshots
  <2>3. ~(100 * s.daily_wallet_pnl_usd <= -(s.day_start_equity_usd * p.daily_loss_pct))
    <3>1. /\ {z.day_start_equity_usd * p.daily_loss_pct,
              s.day_start_equity_usd * p.daily_loss_pct} \subseteq Int
          /\ z.day_start_equity_usd * p.daily_loss_pct
               <= s.day_start_equity_usd * p.daily_loss_pct
      BY TimesMonotone DEF Snapshots, Policies
    <3>2. z.daily_wallet_pnl_usd \in Int /\ s.daily_wallet_pnl_usd \in Int
      BY DEF Snapshots
    <3> QED BY <2>1, <3>1, <3>2
  <2>4. ~(100 * s.equity_usd <= s.high_water_equity_usd * (100 - p.maximum_drawdown_pct))
    <3> DEFINE kept == 100 - p.maximum_drawdown_pct
    <3>1. kept \in Nat
      BY DEF Policies
    <3> HIDE DEF kept
    <3>2. /\ {z.high_water_equity_usd * kept, s.high_water_equity_usd * kept} \subseteq Int
          /\ s.high_water_equity_usd * kept <= z.high_water_equity_usd * kept
      BY <3>1, TimesMonotone DEF Snapshots
    <3>3. z.equity_usd \in Int /\ s.equity_usd \in Int
      BY DEF Snapshots
    <3>4. ~(100 * z.equity_usd <= z.high_water_equity_usd * kept)
      BY <2>1 DEF kept
    <3>5. ~(100 * s.equity_usd <= s.high_water_equity_usd * kept)
      BY <3>2, <3>3, <3>4
    <3> QED BY <3>5 DEF kept
  <2> QED BY <2>2, <2>3, <2>4, KilledAbsent
<1>3. Validated(s, p) <=> Validated(z, p)
  BY DEF Validated
<1>4. ~PilotLost(s, p)
  <2>1. ~PilotLost(z, p)
    BY DEF RiskAllowed
  <2> QED BY <1>3, <2>1 DEF PilotLost, Snapshots
<1>5. RiskAllowed(s, p)
  BY <1>1, <1>2, <1>4 DEF RiskAllowed
<1>6. TradeLimit(s, p) >= TradeLimit(z, p)
  <2> DEFINE pct == RiskPct(z, p)
  <2>1. RiskPct(s, p) = pct /\ pct \in Nat
    BY <1>3, RiskPercentage DEF RiskPct
  <2>2. s.equity_usd \in Int /\ z.equity_usd \in Int /\ p.trade_cap_usd \in Int
        /\ p.wallet_reserve_usd \in Int /\ z.equity_usd <= s.equity_usd
    BY DEF Snapshots, Policies
  <2> HIDE DEF pct
  <2>3. /\ z.equity_usd * pct \in Int /\ s.equity_usd * pct \in Int
        /\ z.equity_usd * pct <= s.equity_usd * pct
    BY <2>1, <2>2, TimesMonotone
  <2>4. Most(0, z.equity_usd - p.wallet_reserve_usd) <= Most(0, s.equity_usd - p.wallet_reserve_usd)
    BY <2>2 DEF Most
  <2>5. /\ TradeLimit(s, p) = Least(s.equity_usd * pct, Least(100 * p.trade_cap_usd,
                                100 * Most(0, s.equity_usd - p.wallet_reserve_usd)))
        /\ TradeLimit(z, p) = Least(z.equity_usd * pct, Least(100 * p.trade_cap_usd,
                                100 * Most(0, z.equity_usd - p.wallet_reserve_usd)))
    BY <1>5, <2>1 DEF TradeLimit, pct
  <2> QED BY <2>2, <2>3, <2>4, <2>5 DEF Least, Most
<1> QED BY <1>5, <1>6

----------------------------------------------------------------------------
\* The momentum entries of ops/strategy_loop.py leave the reserve of the balance they were
\* computed from, unless the configured minimum is below the floor of 0.003 SOL: then the
\* floor may take some of it.
THEOREM EntryLeavesReserve ==
  ASSUME NEW balance \in Nat, NEW reserve \in Nat, NEW pct \in 0..100, NEW minimum \in Nat,
         NEW size \in MomentumSizes(balance, reserve, pct, minimum)
  PROVE  /\ size >= minimum /\ size >= MomentumFloor
         /\ minimum >= MomentumFloor => balance - size >= reserve
         /\ balance - size >= reserve - MomentumFloor
<1> DEFINE available == balance - reserve
<1>1. PICK n \in Rounded(available * pct) :
        available >= minimum /\ size = Most(Most(minimum, n), MomentumFloor)
  BY DEF MomentumSizes, EntrySizes
<1>2. available \in Nat
  BY <1>1
<1>3. available * pct \in Int /\ available * pct <= 100 * available
  BY <1>2
<1>4. n \in Int /\ n <= available
  <2> DEFINE h == available * pct
  <2>1. h \in Int /\ h <= 100 * available /\ n \in Rounded(h) /\ available \in Int
    BY <1>1, <1>2, <1>3
  <2> HIDE DEF h, available
  <2> QED BY <2>1, RoundedKeepsBounds, RoundedIsNear
<1>5. MomentumFloor \in Nat
  BY SMT DEF MomentumFloor
<1>6. /\ size >= minimum /\ size >= MomentumFloor
      /\ minimum >= MomentumFloor => size <= available
      /\ size <= available \/ size = MomentumFloor
  BY <1>1, <1>2, <1>4, <1>5 DEF Most
<1>7. size \in Int
  BY <1>1, <1>4, <1>5 DEF Most
<1>8. available = balance - reserve
  OBVIOUS
<1> HIDE DEF available
<1>9. balance - size >= reserve - MomentumFloor
  BY <1>2, <1>5, <1>6, <1>7, <1>8
<1>10. minimum >= MomentumFloor => balance - size >= reserve
  BY <1>2, <1>5, <1>6, <1>7, <1>8
<1> QED BY <1>6, <1>9, <1>10

\* A tip is never outside its limits, and with the percentiles in their order (a later one is
\* no smaller) more urgency never tips less (tip_stream.py).  The low urgency is left out: its
\* average may be above the percentiles of the last message.
THEOREM TipsAreOrdered ==
  ASSUME NEW latest, {Told(latest, "p75"), Told(latest, "p95"), Told(latest, "p99")} \subseteq Nat,
         Told(latest, "p75") <= Told(latest, "p95"), Told(latest, "p95") <= Told(latest, "p99")
  PROVE  /\ \A urgency \in {"normal", "high", "extreme"} :
              DynamicTip(latest, urgency) \in MinTip..MaxTip
         /\ DynamicTip(latest, "normal") <= DynamicTip(latest, "high")
         /\ DynamicTip(latest, "high") <= DynamicTip(latest, "extreme")
<1> DEFINE normal == (Told(latest, "p75") * 13) \div 10
           high == (Told(latest, "p95") * 16) \div 10
           extreme == (Told(latest, "p99") * 20) \div 10
           Clamped(n) == Most(MinTip, Least(MaxTip, n))
<1>1. /\ DynamicTip(latest, "normal") = Clamped(normal)
      /\ DynamicTip(latest, "high") = Clamped(high)
      /\ DynamicTip(latest, "extreme") = Clamped(extreme)
  BY DEF DynamicTip, LandedTip, TipTenths
<1>2. normal \in Nat /\ high \in Nat /\ extreme \in Nat /\ normal <= high /\ high <= extreme
  OBVIOUS
<1>3. MinTip \in Nat /\ MaxTip \in Nat /\ MinTip <= MaxTip
  BY SMT DEF MinTip, MaxTip
<1> HIDE DEF normal, high, extreme
<1>4. \A n, m \in Nat : /\ Clamped(n) \in MinTip..MaxTip
                        /\ n <= m => Clamped(n) <= Clamped(m)
  BY <1>3 DEF Most, Least
<1> HIDE DEF Clamped
<1> QED BY <1>1, <1>2, <1>4
=============================================================================
