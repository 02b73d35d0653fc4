---------------------------- MODULE AtomicTrade ----------------------------
(***************************************************************************)
(* What a round trip promises to the wallet it trades for: it happens      *)
(* completely or not at all.  A trade that happens starts and ends without *)
(* inventory, is not later than its own last slot, and costs at most its   *)
(* own loss limit and tip; a trade that does not happen costs the fee.     *)
(***************************************************************************)
EXTENDS Integers

CONSTANTS Trades, NoTrade, Fee

VARIABLES
  quote,      \* SOL of the wallet, native and wrapped
  inventory,  \* intermediate tokens of the wallet
  other,      \* tokens in an account of the wallet that no trade may touch
  slot,
  trade       \* the trade under way

holdings == <<quote, inventory, other>>

Begins(t) ==
  /\ trade = NoTrade
  /\ trade' = t
  /\ quote' = quote - Fee
  /\ UNCHANGED <<inventory, other, slot>>

Traded ==
  /\ trade \in Trades
  /\ inventory = 0
  /\ slot <= trade.validUntil
  /\ quote' >= quote - trade.maxLoss - trade.tip
  /\ trade' = NoTrade
  /\ UNCHANGED <<inventory, other, slot>>

Fails ==
  /\ trade' = NoTrade
  /\ UNCHANGED <<holdings, slot>>

\* Tokens that come from or go to somewhere else.
Received ==
  /\ inventory' > inventory
  /\ UNCHANGED <<quote, other, slot>>

Disposed ==
  /\ inventory' = 0
  /\ UNCHANGED <<quote, other, slot>>

Later ==
  /\ slot' > slot
  /\ UNCHANGED holdings

BetweenTrades ==
  /\ trade = NoTrade
  /\ Received \/ Disposed \/ Later
  /\ UNCHANGED trade

Next == (\E t \in Trades : Begins(t)) \/ Traded \/ Fails \/ BetweenTrades

Spec == trade = NoTrade /\ [][Next]_<<quote, inventory, other, slot, trade>>
=============================================================================
