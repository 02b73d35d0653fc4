---------------------------- MODULE StrategyLoop ----------------------------
(***************************************************************************)
(* The strategy loop in live mode, ops/strategy_loop.py: momentum signals  *)
(* become buys, buys become positions, positions are exited by time or     *)
(* price; and the two transactions of scripts/buy-token.mjs on the chain.  *)
(*                                                                         *)
(* A script answers "submitted" when its transaction passed the preflight  *)
(* and was sent, once: it lands later, or never.  An answer may be lost.   *)
(*                                                                         *)
(* Abstraction: a tick is the 3 s of the hold and of the price cooldown;   *)
(* the counters of iterations and of the day are choices; sizes are units  *)
(* of which 100 give one unit of fee; the queue has no order among equals. *)
(***************************************************************************)
EXTENDS Integers, FiniteSets, FiniteSetsExt

CONSTANTS
  Mints, NoMint,
  Slots,      \* one per position that may be open: max_positions
  Sizes,      \* the entry sizes the balance may allow
  Prices,     \* what a pool may answer; 0 is no answer
  Units,      \* how many units of a token a buy may bring
  MaxUnits,   \* bound on the units of a token in the wallet
  TradeCap, Drawdown,          \* trade_cap_usd; maximum_drawdown_pct of the balance
  TakeProfit, StopLoss, Trail, \* in percent
  Hold,       \* hold_seconds, in ticks
  TopSignals  \* how many signals an iteration evaluates

ASSUME MintsAssumption == NoMint \notin Mints
ASSUME SizesAssumption == (\A n \in Sizes : n \in Nat /\ n > 0) /\ TradeCap \in Nat /\ Drawdown \in Nat
ASSUME PricesAssumption == \A x \in Prices : x \in Nat /\ x > 0
ASSUME UnitsAssumption == (\A n \in Units : n \in Nat /\ n > 0) /\ MaxUnits \in Nat
ASSUME ExitsAssumption ==
  TakeProfit \in (Nat \ {0}) /\ StopLoss \in Nat /\ Trail \in Nat /\ Hold \in (Nat \ {0})
ASSUME TopAssumption == TopSignals \in Nat

VARIABLES
  pc,         \* where the loop stands, "dead" when the process is gone
  queue,      \* momentum_queue: a second signal of a mint in it would be skipped
  muted,      \* the mints the watcher gives no signal for: see HotFlow
  seen,       \* seen_mints
  signals,    \* the signals of this iteration
  positions,  \* the open positions, by slot
  selling,    \* the mints of `exited' whose sale was not tried yet
  buying,     \* the signal whose buy was submitted and has no position yet
  loss,       \* daily_loss_lamports
  maxLoss,    \* what initial_balance makes of the drawdown
  tokens,     \* the wallet's units of each token
  wsol,       \* the wallet holds wrapped SOL
  inflight,   \* transactions sent and not landed
  orphans     \* mints of tokens the loop has lost sight of

memory == <<queue, muted, seen, signals, positions, selling, buying, loss, maxLoss>>
chain == <<tokens, wsol, inflight>>
vars == <<pc, memory, chain, orphans>>

Entered(m, price) == [mint |-> m, age |-> 0, checked |-> FALSE, entry |-> price, peak |-> 0]
NoPosition == Entered(NoMint, 0)
NoSignal == [mint |-> NoMint, high |-> FALSE, size |-> 0]
Open(i) == positions[i] # NoPosition
OnMint(m) == \E i \in Slots : positions[i].mint = m

Goto(from, to) == pc = from /\ pc' = to

\* scripts/get-pool-state.mjs: an empty pool has the price 0, like no answer.
PoolPrices == Prices \cup {0}

\* scripts/buy-token.mjs composes a transaction, signs it and sends it once, if
\* it passes the preflight; any error on the way is an answer.
Sends(t) == inflight' = inflight \cup {t}

----------------------------------------------------------------------------
\* RiskManager: the balance request of the start may fail, which counts as 0.
Init ==
  /\ pc = "sleeping"
  /\ queue = {} /\ muted = {} /\ seen = {} /\ signals = {} /\ selling = {}
  /\ positions = [i \in Slots |-> NoPosition] /\ buying = NoSignal
  /\ loss = 0 /\ maxLoss \in {0, Drawdown}
  /\ tokens = [m \in Mints |-> 0] /\ wsol = FALSE /\ inflight = {}
  /\ orphans = {}

\* The watcher thread: one signal per mint until the mint is unmuted.
Signal(m) ==
  /\ pc # "dead" /\ m \notin muted
  /\ queue' = queue \cup {m}
  /\ muted' = muted \cup {m}
  /\ UNCHANGED <<pc, seen, signals, positions, selling, buying, loss, maxLoss, chain, orphans>>

\* An iteration begins: some clear seen_mints, some refresh the trending mints.
Iterate(left) ==
  /\ Goto("sleeping", "draining")
  /\ muted' = muted \ left
  /\ seen' \in {seen, {}}
  /\ UNCHANGED <<queue, signals, positions, selling, buying, loss, maxLoss, chain, orphans>>

\* A signal is seen before its size is known; without a balance, or with a
\* small one, it is dropped.
Drain(m) ==
  /\ pc = "draining" /\ m \in queue
  /\ queue' = queue \ {m}
  /\ seen' = seen \cup {m}
  /\ \/ UNCHANGED signals
     \/ /\ m \notin seen
        /\ \E high \in BOOLEAN, n \in Sizes :
             signals' = signals \cup {[mint |-> m, high |-> high, size |-> n]}
  /\ UNCHANGED <<pc, muted, positions, selling, buying, loss, maxLoss, chain, orphans>>

\* The order of the sort: (0 if high else 1, size), reversed.
Ahead(s, z) == \/ ~s.high /\ z.high
               \/ s.high = z.high /\ s.size > z.size

\* signals.sort(...); signals[:3]
Top ==
  /\ Goto("draining", "exits") /\ queue = {}
  /\ \E top \in SUBSET signals :
       /\ Cardinality(top) <= TopSignals
       /\ Cardinality(top) = TopSignals \/ top = signals
       /\ \A s \in top, z \in signals \ top : ~Ahead(z, s)
       /\ signals' = top
  /\ UNCHANGED <<queue, muted, seen, positions, selling, buying, loss, maxLoss, chain, orphans>>

----------------------------------------------------------------------------
(* check_exits, and the sales of what it has closed.                       *)

Asked(p) == p.age > 0 /\ ~p.checked
Priced(p, x) == Asked(p) /\ x > 0 /\ p.entry > 0
Higher(a, b) == IF a > b THEN a ELSE b
Peak(p, x) == Higher(p.peak, x)

\* Trailing stop, take profit, stop loss.
PriceExit(p, x) ==
  \/ Trail > 0 /\ (x - Peak(p, x)) * 100 <= -Trail * Peak(p, x)
  \/ (x - p.entry) * 100 >= TakeProfit * p.entry
  \/ (x - p.entry) * 100 <= -StopLoss * p.entry

\* Mutant: the timeout is looked at after the price guards.
ExitsPriced(p, x) == Priced(p, x) /\ (p.age >= Hold \/ PriceExit(p, x))
Exits(p, x) == p.age >= Hold \/ (Priced(p, x) /\ PriceExit(p, x))
Watched(p, x) == [p EXCEPT !.checked = @ \/ p.age > 0,
                           !.peak = IF Priced(p, x) THEN Peak(p, x) ELSE @]

\* Mutant: a position that timed out is closed and not handed to the sale.
CheckExitsForgetting(price) ==
  /\ Goto("exits", "selling")
  /\ LET exited == {i \in Slots : Open(i) /\ Exits(positions[i], price[i])}
     IN  /\ selling' = {positions[i].mint : i \in {j \in exited : positions[j].age < Hold}}
         /\ positions' = [i \in Slots |-> IF i \in exited \/ ~Open(i) THEN NoPosition
                                          ELSE Watched(positions[i], price[i])]
  /\ UNCHANGED <<queue, muted, seen, signals, buying, loss, maxLoss, chain, orphans>>

\* All positions are looked at with one `now'; an exit closes the position
\* before its sale is tried.
CheckExits(price) ==
  /\ Goto("exits", "selling")
  /\ LET exited == {i \in Slots : Open(i) /\ Exits(positions[i], price[i])}
     IN  /\ selling' = {positions[i].mint : i \in exited}
         /\ positions' = [i \in Slots |-> IF i \in exited \/ ~Open(i) THEN NoPosition
                                          ELSE Watched(positions[i], price[i])]
  /\ UNCHANGED <<queue, muted, seen, signals, buying, loss, maxLoss, chain, orphans>>

\* The sale sells one unit and closes the token account, which must be empty.
Sellable(m) == tokens[m] = 1
Sale(m) == [kind |-> "sell", mint |-> m, units |-> 1]
SellToken(m) == Sellable(m) /\ Sends(Sale(m))
OnTheWay(m) == \E t \in inflight : t.mint = m

\* A sale that is not reported as submitted is never tried again, and one
\* that is submitted sells nothing of a buy that has not landed.
Sell(m) ==
  /\ pc = "selling" /\ m \in selling
  /\ selling' = selling \ {m}
  /\ \/ /\ SellToken(m)
        /\ \/ orphans' = orphans \cup {m}
           \/ ~OnTheWay(m) /\ UNCHANGED orphans
     \/ /\ orphans' = orphans \cup {m}
        /\ UNCHANGED inflight
  /\ UNCHANGED <<pc, queue, muted, seen, signals, positions, buying, loss, maxLoss,
                 tokens, wsol>>

SalesDone ==
  /\ Goto("selling", "evaluating") /\ selling = {}
  /\ UNCHANGED <<memory, chain, orphans>>

----------------------------------------------------------------------------
(* The signals, in their order.                                            *)

Foremost(s) == s \in signals /\ \A z \in signals : ~Ahead(z, s)

\* Mutant: the loss is not compared with the drawdown.
CanTradeCapped(s, lost) == s.size <= TradeCap
CanTrade(s, lost) == lost <= maxLoss /\ s.size <= TradeCap

\* Mutant: the open positions are not searched for the mint.
RoomForAny(s) == \E i \in Slots : ~Open(i)
RoomFor(s) == ~OnMint(s.mint) /\ \E i \in Slots : ~Open(i)

\* A position on the mint, no room for one, or the risk manager refuses; it
\* forgets the losses when a day has passed.
Skip(s) ==
  /\ pc = "evaluating" /\ Foremost(s)
  /\ \/ ~RoomFor(s) /\ UNCHANGED loss
     \/ RoomFor(s) /\ \E lost \in {loss, 0} : ~CanTrade(s, lost) /\ loss' = lost
  /\ signals' = signals \ {s}
  /\ UNCHANGED <<pc, queue, muted, seen, positions, selling, buying, maxLoss, chain, orphans>>

Purchase(m, n) == [kind |-> "buy", mint |-> m, units |-> n]
BuyToken(m) == wsol /\ \E n \in Units : Sends(Purchase(m, n))

\* The buy is reported as submitted.
BuySubmitted(s) ==
  /\ Goto("evaluating", "bought") /\ Foremost(s) /\ RoomFor(s)
  /\ \E lost \in {loss, 0} : CanTrade(s, lost) /\ loss' = lost
  /\ BuyToken(s.mint)
  /\ buying' = s
  /\ signals' = signals \ {s}
  /\ UNCHANGED <<queue, muted, seen, positions, selling, maxLoss, tokens, wsol, orphans>>

\* It is reported as failed, which it may not be, and charged in full.
BuyFailed(s) ==
  /\ pc = "evaluating" /\ Foremost(s) /\ RoomFor(s)
  /\ \E lost \in {loss, 0} : CanTrade(s, lost) /\ loss' = lost + s.size
  /\ signals' = signals \ {s}
  /\ \/ /\ BuyToken(s.mint)
        /\ orphans' = orphans \cup {s.mint}
     \/ UNCHANGED <<inflight, orphans>>
  /\ UNCHANGED <<pc, queue, muted, seen, positions, selling, buying, maxLoss, tokens, wsol>>

\* Mutant: the signal is not let go of.
OpenPositionKeeping(i, price) ==
  /\ Goto("bought", "evaluating") /\ ~Open(i)
  /\ positions' = [positions EXCEPT ![i] = Entered(buying.mint, price)]
  /\ loss' = loss + (buying.size \div 100)
  /\ UNCHANGED <<queue, muted, seen, signals, selling, buying, maxLoss, chain, orphans>>

\* The entry price, the slot (whose failure ends the process: Dies) and the
\* position; one percent of the size is charged.
OpenPosition(i, price) ==
  /\ Goto("bought", "evaluating") /\ ~Open(i)
  /\ positions' = [positions EXCEPT ![i] = Entered(buying.mint, price)]
  /\ loss' = loss + (buying.size \div 100)
  /\ buying' = NoSignal
  /\ UNCHANGED <<queue, muted, seen, signals, selling, maxLoss, chain, orphans>>

IterationDone ==
  /\ Goto("evaluating", "sleeping") /\ signals = {}
  /\ UNCHANGED <<memory, chain, orphans>>

----------------------------------------------------------------------------
(* The world: time, the chain, the operator, the end of the process.       *)

Tick ==
  /\ positions' = [i \in Slots |->
       IF Open(i) THEN [positions[i] EXCEPT !.age = IF @ < Hold THEN @ + 1 ELSE @,
                                            !.checked = FALSE]
       ELSE NoPosition]
  /\ UNCHANGED <<pc, queue, muted, seen, signals, selling, buying, loss, maxLoss, chain, orphans>>

\* A buy spends the wrapped SOL, and either transaction closes its account.
Lands(t) ==
  /\ t \in inflight
  /\ IF t.kind = "buy"
     THEN /\ wsol /\ tokens[t.mint] + t.units <= MaxUnits
          /\ tokens' = [tokens EXCEPT ![t.mint] = @ + t.units]
     ELSE /\ Sellable(t.mint)
          /\ tokens' = [tokens EXCEPT ![t.mint] = 0]
  /\ wsol' = FALSE
  /\ inflight' = inflight \ {t}
  /\ UNCHANGED <<pc, memory, orphans>>

\* It expires, or fails on the state it meets; nobody notices.
Expires(t) ==
  /\ t \in inflight
  /\ inflight' = inflight \ {t}
  /\ orphans' = IF t.kind = "sell" THEN orphans \cup {t.mint} ELSE orphans
  /\ UNCHANGED <<pc, memory, tokens, wsol>>

\* No script of the loop wraps SOL.
OperatorWraps ==
  /\ ~wsol /\ wsol' = TRUE
  /\ UNCHANGED <<pc, memory, tokens, inflight, orphans>>

\* Killed, or ended by an exception of latest_slot() or of the trades log.
Dies ==
  /\ pc # "dead" /\ pc' = "dead"
  /\ orphans' = orphans \cup selling \cup ({buying.mint} \ {NoMint})
                  \cup {positions[i].mint : i \in {j \in Slots : Open(j)}}
  /\ queue' = {} /\ muted' = {} /\ seen' = {} /\ signals' = {} /\ selling' = {}
  /\ positions' = [i \in Slots |-> NoPosition] /\ buying' = NoSignal
  /\ loss' = 0 /\ maxLoss' = 0
  /\ UNCHANGED chain

Starts ==
  /\ Goto("dead", "sleeping")
  /\ maxLoss' \in {0, Drawdown}
  /\ UNCHANGED <<queue, muted, seen, signals, positions, selling, buying, loss, chain, orphans>>

LoopStep ==
  \/ \E left \in SUBSET muted : Iterate(left)
  \/ \E m \in queue : Drain(m)
  \/ Top
  \/ \E price \in [Slots -> PoolPrices] : CheckExits(price)
  \/ \E m \in selling : Sell(m)
  \/ SalesDone
  \/ \E s \in signals : Skip(s) \/ BuySubmitted(s) \/ BuyFailed(s)
  \/ \E i \in Slots, price \in PoolPrices : OpenPosition(i, price)
  \/ IterationDone

World ==
  \/ \E m \in Mints : Signal(m)
  \/ \E t \in inflight : Lands(t) \/ Expires(t)
  \/ OperatorWraps \/ Dies \/ Starts

Next == LoopStep \/ Tick \/ World

Spec == Init /\ [][Next]_vars

(***************************************************************************)
(* Every call of the loop has a timeout (60 s for a script), and time goes *)
(* on.  Nothing has to land, to be wrapped, to be started again.           *)
(***************************************************************************)
FairSpec == Spec /\ WF_vars(LoopStep) /\ WF_vars(Tick)

----------------------------------------------------------------------------
PositionSet == {NoPosition} \cup
  [mint : Mints, age : 0..Hold, checked : BOOLEAN, entry : PoolPrices, peak : PoolPrices]
SignalSet == [mint : Mints, high : BOOLEAN, size : Sizes]

\* Every variable keeps its shape.
TypeOK ==
  /\ pc \in {"sleeping", "draining", "exits", "selling", "evaluating", "bought", "dead"}
  /\ signals \subseteq SignalSet
  /\ {queue, muted, seen, selling, orphans} \subseteq SUBSET Mints
  /\ positions \in [Slots -> PositionSet]
  /\ IF pc = "bought" THEN buying \in SignalSet ELSE buying = NoSignal
  /\ loss \in Nat /\ maxLoss \in {0, Drawdown}
  /\ tokens \in [Mints -> 0..MaxUnits] /\ wsol \in BOOLEAN
  /\ inflight \subseteq {Purchase(m, n) : m \in Mints, n \in Units} \cup {Sale(m) : m \in Mints}

\* Tokens in the wallet or on the way belong to an open position, to a sale
\* under way, or to a buy that is about to become a position; otherwise
\* the loop has reported a failure, missed one, sold too early, or died.
HoldingsExplained ==
  \A m \in Mints :
    (tokens[m] > 0 \/ \E t \in inflight : t.kind = "buy" /\ t.mint = m)
      => \/ OnMint(m) \/ buying.mint = m \/ m \in selling \/ m \in orphans
         \/ Sale(m) \in inflight

\* "Skip if we already have a position on this mint": never two, although
\* seen_mints is cleared while signals are queued and sales are under way.
OnePositionPerMint ==
  \A i, j \in Slots : Open(i) /\ Open(j) /\ positions[i].mint = positions[j].mint => i = j

\* What is charged in a day exceeds the drawdown by one trade at most, and by
\* one trade the balance that could not be read.
LossBounded == loss <= maxLoss + TradeCap

\* The loop looks at its positions, never at the wallet or the chain.  Still, of
\* no mint are two buys on their way, nor one on top of tokens that are not
\* being sold, unless the loop has lost sight of the mint.
OneBuyUnlessLost ==
  \A m \in Mints \ orphans :
    LET bought == {t \in inflight : t.kind = "buy" /\ t.mint = m}
    IN  /\ \A t, u \in bought : t = u
        /\ tokens[m] > 0 /\ bought # {} => Sale(m) \in inflight

\* A position ends, whatever the prices and the scripts answer.
PositionsEnd == \A i \in Slots : Open(i) ~> ~Open(i)
=============================================================================
