--------------------------- MODULE AtomicExecutor ---------------------------
(***************************************************************************)
(* One round-trip transaction after the other: the transaction that        *)
(* scripts/compose-direct-roundtrip.mjs builds (fund the wrapped account,  *)
(* run the executor program, close the account, tip) and the program of    *)
(* programs/atomic-executor/src/lib.rs inside it.                          *)
(*                                                                         *)
(* The runtime (external) runs a transaction on a copy of the accounts and *)
(* keeps the copy only if no instruction fails; nothing else touches these *)
(* accounts meanwhile and the slot stands still.  Between transactions the *)
(* slot advances and tokens come and go.  The pools (external) fill a leg  *)
(* in full, in part or not at all, at any price.                           *)
(*                                                                         *)
(* Abstraction: the instruction is that of ExecutorCodec.  The native      *)
(* balance counts the rent deposited in the user's token accounts: opening *)
(* the intermediate account moves it, and it stays there.                  *)
(***************************************************************************)
EXTENDS ExecutorCodec

CONSTANTS
  MaxAmount,  \* the largest amount: 2^64 - 1 on chain
  MaxSlot,    \* bound on the slot
  Fee,        \* the fee of a transaction, due even if it fails
  Trades      \* the trades that may be submitted

Amounts == 0..MaxAmount

\* A trade is an executor instruction and what is around it; it is funded with
\* what its first leg may take.  maxLoss is the field minimum_profit;
\* listsOther: another token account of the user is among the accounts.
Trade(ix, maxLoss, tip, validUntil, listsOther) ==
  [ix |-> ix, funding |-> MaxSpend(ix.firstData), maxLoss |-> maxLoss, tip |-> tip,
   validUntil |-> validUntil, listsOther |-> listsOther]

Instructions ==
  [firstProgram : Programs, firstData : LegDataOver(Amounts),
   secondProgram : Programs, secondData : LegDataOver(Amounts),
   offset : Nat, wellFormed : BOOLEAN, ownAccounts : BOOLEAN]
TradeRecords ==
  [ix : Instructions, funding : Amounts, maxLoss : Amounts, tip : Amounts,
   validUntil : Nat, listsOther : BOOLEAN]

ASSUME AmountsAssumption == MaxAmount \in Nat /\ MaxSlot \in Nat /\ Fee \in Nat
ASSUME TradesAssumption == Trades \subseteq TradeRecords

VARIABLES
  slot,     \* Clock::get()?.slot
  wallet,   \* the committed balances of the user's accounts
  pending,  \* trades sent to the network
  stage,    \* how far the transaction under way has come
  trade,    \* that transaction
  work,     \* its copy of the balances
  start,    \* quote_start
  amount,   \* actual_intermediate, patched into the second leg
  fill      \* whether the second leg sold all it was told to sell

vars == <<slot, wallet, pending, stage, trade, work, start, amount, fill>>
inside == <<trade, work, start, amount, fill>>

Balances == [sol : Amounts, wsol : Amounts, inter : Amounts, other : Amounts]
Stages == {"idle", "landed", "funded", "checked", "bought", "sold", "settled"}

Empty == [sol |-> 0, wsol |-> 0, inter |-> 0, other |-> 0]
NoTrade ==
  LET none == LegData("none", 0, 0, FALSE)
  IN  Trade([ExecutorInstruction("another", none, "another", none, 0)
               EXCEPT !.wellFormed = FALSE], 0, 0, 0, FALSE)

Reset ==
  /\ trade' = NoTrade
  /\ work' = Empty
  /\ start' = 0
  /\ amount' = 0
  /\ fill' = "none"

\* An instruction fails: the copy is thrown away.
Revert ==
  /\ stage' = "idle"
  /\ Reset
  /\ UNCHANGED <<slot, wallet, pending>>

Goto(from, to) ==
  /\ stage = from
  /\ stage' = to

----------------------------------------------------------------------------
Init ==
  /\ slot = 0
  /\ wallet \in [sol : Amounts, wsol : Amounts, inter : {0}, other : Amounts]
  /\ pending = {}
  /\ stage = "idle"
  /\ trade = NoTrade
  /\ work = Empty
  /\ start = 0
  /\ amount = 0
  /\ fill = "none"

\* scripts/sign-and-submit.mjs: signed and sent once (maxRetries: 0).
Submit(t) ==
  /\ t \notin pending
  /\ pending' = pending \cup {t}
  /\ UNCHANGED <<slot, wallet, stage, inside>>

\* A transaction that was sent is lost, or its blockhash expires.
Drop(t) ==
  /\ t \in pending
  /\ pending' = pending \ {t}
  /\ UNCHANGED <<slot, wallet, stage, inside>>

\* The runtime charges the fee and starts on a copy.
Land(t) ==
  /\ Goto("idle", "landed")
  /\ t \in pending
  /\ wallet.sol >= Fee
  /\ pending' = pending \ {t}
  /\ wallet' = [wallet EXCEPT !.sol = @ - Fee]
  /\ work' = wallet'
  /\ trade' = t
  /\ UNCHANGED <<slot, start, amount, fill>>

Funded == work.sol >= trade.funding /\ work.wsol + trade.funding \in Amounts

\* setupInstructions: native SOL becomes wrapped SOL.
Fund ==
  /\ Goto("landed", "funded")
  /\ Funded
  /\ work' = [work EXCEPT !.sol = @ - trade.funding, !.wsol = @ + trade.funding]
  /\ UNCHANGED <<slot, wallet, pending, trade, start, amount, fill>>

\* The funding is missing, or the rent of a new token account.
FundFails == stage = "landed" /\ Revert

\* The instruction itself: what depends on no balance and no slot.
WellBuilt(ix) ==
  /\ ParsesInstruction(ix)
  /\ ValidateProgramPair(ix) /\ ValidateRouteAbis(ix)
  /\ TokenStates(ix)

\* Mutant: other token accounts of the user are not looked for.
AcceptableBlind ==
  /\ WellBuilt(trade.ix)
  /\ work.inter = 0
  /\ slot <= trade.validUntil

\* The checks of process_instruction before the first leg.
Acceptable ==
  /\ WellBuilt(trade.ix)
  /\ work.inter = 0
  /\ ~trade.listsOther
  /\ slot <= trade.validUntil

Check ==
  /\ Goto("funded", "checked")
  /\ Acceptable
  /\ start' = work.wsol
  /\ UNCHANGED <<slot, wallet, pending, trade, work, amount, fill>>

CheckFails == stage = "funded" /\ ~Acceptable /\ Revert

\* What a leg leaves in the other account: anything, if it was handed over.
OtherAfterLeg == IF trade.listsOther THEN Amounts ELSE {work.other}

\* A first leg spends at most what its data say, for any number of tokens.
AfterFirstLeg ==
  {b \in Balances : /\ b.sol = work.sol
                    /\ b.wsol \in (work.wsol - MaxSpend(trade.ix.firstData))..work.wsol
                    /\ b.inter >= work.inter
                    /\ b.other \in OtherAfterLeg}

\* A second leg sells at most the amount it is told to, for any price.
AfterSecondLeg ==
  {b \in Balances : /\ b.sol = work.sol
                    /\ b.wsol >= work.wsol
                    /\ b.inter \in (work.inter - amount)..work.inter
                    /\ b.other \in OtherAfterLeg}

\* The amount of the second leg when the program has patched it.
Patched(n) == PatchU64(trade.ix.secondData, trade.ix.offset, n).amount

\* Mutant: a first leg without output goes on.
FirstLegEmpty ==
  /\ Goto("checked", "bought")
  /\ \E b \in AfterFirstLeg : work' = b /\ amount' = Patched(b.inter)
  /\ UNCHANGED <<slot, wallet, pending, trade, start, fill>>

\* The first leg, and the amount it brought in (the account was empty) that is
\* patched into the second leg.
FirstLeg ==
  /\ Goto("checked", "bought")
  /\ \E b \in AfterFirstLeg :
       /\ b.inter > 0
       /\ work' = b
       /\ amount' = Patched(b.inter)
  /\ UNCHANGED <<slot, wallet, pending, trade, start, fill>>

\* The venue refuses, or its accounts have privileges the caller lacks.
LegFails == stage \in {"checked", "bought"} /\ Revert

NoOutput ==
  /\ stage = "checked"
  /\ \E b \in AfterFirstLeg : b.inter = 0
  /\ Revert

SecondLeg ==
  /\ Goto("bought", "sold")
  /\ \E b \in AfterSecondLeg :
       /\ work' = b
       /\ fill' = IF b.inter = work.inter - amount THEN "full" ELSE "part"
  /\ UNCHANGED <<slot, wallet, pending, trade, start, amount>>

\* checked_sub(minimum_profit).unwrap_or(0)
Floor == IF trade.maxLoss <= start THEN start - trade.maxLoss ELSE 0

\* Mutant: a trade that leaves no inventory settles whatever it cost.
SettleAtAnyPrice ==
  /\ Goto("sold", "settled")
  /\ work.inter = 0
  /\ UNCHANGED <<slot, wallet, pending, trade, work, start, amount, fill>>

\* The program returns Ok: no inventory is left and the floor is met.
Settle ==
  /\ Goto("sold", "settled")
  /\ work.inter = 0
  /\ work.wsol >= Floor
  /\ UNCHANGED <<slot, wallet, pending, trade, work, start, amount, fill>>

Residue == stage = "sold" /\ work.inter # 0 /\ Revert

BelowFloor ==
  /\ stage = "sold"
  /\ work.inter = 0
  /\ work.wsol < Floor
  /\ Revert

Closed == work.sol + work.wsol
CanCleanUp == Closed \in Amounts /\ Closed >= trade.tip

\* cleanupInstructions close the wrapped account, then the tip is paid; the
\* runtime keeps the copy.
CleanUp ==
  /\ Goto("settled", "idle")
  /\ CanCleanUp
  /\ wallet' = [work EXCEPT !.sol = Closed - trade.tip, !.wsol = 0]
  /\ Reset
  /\ UNCHANGED <<slot, pending>>

CleanUpFails == stage = "settled" /\ ~CanCleanUp /\ Revert

SlotAdvances ==
  /\ stage = "idle"
  /\ slot < MaxSlot
  /\ slot' = slot + 1
  /\ UNCHANGED <<wallet, pending, stage, inside>>

\* Another program of the owner buys the intermediate token, or a stranger
\* sends some.
TokensArrive ==
  /\ stage = "idle"
  /\ \E n \in Amounts : n > wallet.inter /\ wallet' = [wallet EXCEPT !.inter = n]
  /\ UNCHANGED <<slot, pending, stage, inside>>

TokensLeave ==
  /\ stage = "idle"
  /\ wallet.inter > 0
  /\ wallet' = [wallet EXCEPT !.inter = 0]
  /\ UNCHANGED <<slot, pending, stage, inside>>

Transaction ==
  \/ Fund \/ FundFails \/ Check \/ CheckFails
  \/ FirstLeg \/ NoOutput \/ SecondLeg \/ LegFails
  \/ Settle \/ Residue \/ BelowFloor \/ CleanUp \/ CleanUpFails

Next ==
  \/ \E t \in Trades : Submit(t) \/ Drop(t) \/ Land(t)
  \/ Transaction
  \/ SlotAdvances \/ TokensArrive \/ TokensLeave

Spec == Init /\ [][Next]_vars

----------------------------------------------------------------------------
\* Every variable keeps its shape, and a second leg never runs on nothing.
TypeOK ==
  /\ slot \in Nat
  /\ wallet \in Balances
  /\ pending \subseteq Trades
  /\ stage \in Stages
  /\ trade \in Trades \cup {NoTrade}
  /\ work \in Balances
  /\ start \in Amounts
  /\ amount \in Amounts
  /\ fill \in {"none", "full", "part"}
  /\ stage = "bought" => amount > 0

\* All or nothing (lib.rs:5-8): whatever the pools do and whatever happens
\* between submission and landing, a round trip changes the wallet only as
\* AtomicTrade allows the trade under way, by its own loss limit, tip and last
\* slot.
Promise == INSTANCE AtomicTrade
             WITH quote <- wallet.sol + wallet.wsol, inventory <- wallet.inter,
                  other <- wallet.other
HonoursPromise == Promise!Spec

\* A second leg that sells all it is told to sell leaves no inventory: the
\* amount patched into it is what the first leg really brought in.
FullFillLeavesNothing == stage = "sold" /\ fill = "full" => work.inter = 0

\* No transaction touches a token account of the user other than the two the
\* program has checked, even if the caller lists one among its accounts.
OtherAccountsUntouched == [][stage # "idle" => wallet'.other = wallet.other]_vars

\* "assert final quote balance >= start + minimum profit" (README.md,
\* "Timing contract"), asserted by tests/atomicity.rs,
\* profit_guard_failure_rolls_back_both_swaps.
ProfitFloor == stage = "settled" => work.wsol >= start + trade.maxLoss
=============================================================================
