------------------------ MODULE AtomicExecutorProofs ------------------------
(***************************************************************************)
(* What holds of round trips for every amount, fee, slot and set of        *)
(* trades, and whatever the pools do.                                      *)
(*                                                                         *)
(* The promise of a trade relates the wallet before and after, so the      *)
(* invariant says at each stage how the copy relates to the wallet the     *)
(* transaction started from.                                               *)
(***************************************************************************)
EXTENDS AtomicExecutor, TLAPS

\* From the checks on, the native balance of the copy and the wrapped balance
\* the program has read add up to what the wallet held.
Baseline ==
  /\ trade.listsOther = FALSE
  /\ slot <= trade.validUntil
  /\ wallet.inter = 0
  /\ work.sol + start = wallet.sol + wallet.wsol

StageInv ==
  /\ IF stage = "idle" THEN trade = NoTrade
                       ELSE trade \in Trades /\ work.other = wallet.other
  /\ stage \in {"landed", "funded"} =>
       /\ work.sol + work.wsol = wallet.sol + wallet.wsol
       /\ work.inter = wallet.inter
  /\ stage \in {"checked", "bought", "sold", "settled"} => Baseline
  /\ stage = "checked" => work.inter = 0 /\ trade.ix.offset = DynamicAmountOffset
  /\ stage = "bought" => amount = work.inter
  /\ stage = "sold" => FullFillLeavesNothing
  /\ stage = "settled" => work.inter = 0 /\ work.wsol >= start - trade.maxLoss

ExecInv == TypeOK /\ StageInv

----------------------------------------------------------------------------
\* The idle executor satisfies the invariant.
LEMMA InitExecInv == Init => ExecInv
<1> SUFFICES ASSUME Init PROVE ExecInv
  OBVIOUS
<1> USE AmountsAssumption DEF Init
<1>1. wallet \in Balances
  BY DEF Balances, Amounts
<1> QED
  BY <1>1 DEF ExecInv, TypeOK, StageInv, Empty, Balances, Amounts, Stages

\* A trade that is or was submitted has amounts in its fields.
LEMMA TradeFields ==
  ASSUME TypeOK
  PROVE  trade \in TradeRecords
<1>1. 0 \in Amounts /\ 0 \in Nat
  BY AmountsAssumption DEF Amounts
<1>2. LegData("none", 0, 0, FALSE) \in LegDataOver(Amounts)
  BY <1>1 DEF LegData, LegDataOver, Abis
<1>3. NoTrade \in TradeRecords
  BY <1>1, <1>2
     DEF NoTrade, Trade, TradeRecords, Instructions, ExecutorInstruction, Programs, MaxSpend, LegData
<1> QED
  BY <1>3, TradesAssumption DEF TypeOK

\* A failing instruction keeps the invariant, and the wallet as it is.
LEMMA RevertKeeps ==
  ASSUME ExecInv, Revert
  PROVE  ExecInv'
BY AmountsAssumption
   DEF ExecInv, TypeOK, StageInv, Revert, Reset, Empty, Balances, Amounts, Stages

\* Every step keeps the invariant.
LEMMA NextExecInv == ExecInv /\ [Next]_vars => ExecInv'
<1> SUFFICES ASSUME ExecInv, [Next]_vars PROVE ExecInv'
  OBVIOUS
<1> USE AmountsAssumption DEF ExecInv, TypeOK, Stages, Goto
<1>0. trade \in TradeRecords
  BY TradeFields
<1>1. ASSUME NEW t \in Trades, Submit(t) \/ Drop(t)
      PROVE  ExecInv'
  BY <1>1 DEF Submit, Drop, inside, StageInv, Baseline, FullFillLeavesNothing
<1>2. ASSUME NEW t \in Trades, Land(t)
      PROVE  ExecInv'
  <2>1. wallet' \in Balances /\ work' = wallet'
    BY <1>2 DEF Land, Balances, Amounts
  <2>2. stage' = "landed" /\ trade' = t
    BY <1>2 DEF Land
  <2>3. TypeOK'
    BY <1>2, <2>1, <2>2 DEF Land
  <2> QED
    BY <2>1, <2>2, <2>3 DEF StageInv
<1>3. CASE Fund
  <2>0. /\ work.sol - trade.funding \in Amounts
        /\ work.wsol + trade.funding \in Amounts
    BY <1>0, <1>3 DEF Fund, Funded, Balances, Amounts, TradeRecords
  <2>1. work' \in Balances
    BY <1>3, <2>0 DEF Fund, Balances
  <2>2. /\ work'.sol + work'.wsol = work.sol + work.wsol
        /\ work'.inter = work.inter /\ work'.other = work.other
    BY <1>0, <1>3 DEF Fund, Balances, Amounts, TradeRecords
  <2>3. TypeOK'
    BY <1>3, <2>1 DEF Fund
  <2> QED
    BY <1>3, <2>2, <2>3 DEF Fund, StageInv
<1>4. CASE Check
  <2>1. work.wsol \in Amounts /\ work.sol \in Amounts
    BY DEF Balances
  <2>2. TypeOK'
    BY <1>4, <2>1 DEF Check
  <2>3. trade.listsOther = FALSE
    BY <1>0, <1>4 DEF Check, Acceptable, TradeRecords
  <2> QED
    BY <1>4, <2>1, <2>2, <2>3 DEF Check, Acceptable, WellBuilt, ValidateRouteAbis, StageInv, Baseline
<1>5. CASE FirstLeg
  <2>0. PICK b \in AfterFirstLeg : b.inter > 0 /\ work' = b /\ amount' = Patched(b.inter)
    BY <1>5 DEF FirstLeg
  <2>1. Patched(b.inter) = b.inter
    <3>1. trade.ix.secondData \in LegDataOver(Amounts) /\ trade.ix.offset = 8
      BY <1>0, <1>5 DEF FirstLeg, StageInv, TradeRecords, Instructions, DynamicAmountOffset
    <3> QED
      BY <3>1 DEF Patched, PatchU64, LegDataOver
  <2>2. b \in Balances /\ b.sol = work.sol /\ b.other = work.other
    BY <1>5, <2>0, <2>1 DEF FirstLeg, AfterFirstLeg, OtherAfterLeg, StageInv, Baseline
  <2>3. b.inter \in Amounts
    BY <2>2 DEF Balances
  <2>4. TypeOK'
    BY <1>5, <2>0, <2>1, <2>2, <2>3 DEF FirstLeg
  <2> QED
    BY <1>5, <2>0, <2>1, <2>2, <2>4 DEF FirstLeg, StageInv, Baseline
<1>6. CASE SecondLeg
  <2>1. PICK b \in AfterSecondLeg :
          work' = b /\ fill' = IF b.inter = work.inter - amount THEN "full" ELSE "part"
    BY <1>6 DEF SecondLeg
  <2>2. b \in Balances /\ b.sol = work.sol /\ b.other = work.other
    BY <1>6, <2>1 DEF SecondLeg, AfterSecondLeg, OtherAfterLeg, StageInv, Baseline
  <2>3. TypeOK'
    BY <1>6, <2>1, <2>2 DEF SecondLeg
  <2>4. amount = work.inter /\ amount \in Int
    BY <1>6 DEF SecondLeg, StageInv, Amounts
  <2>5. FullFillLeavesNothing'
    BY <2>1, <2>4 DEF FullFillLeavesNothing
  <2> QED
    BY <1>6, <2>1, <2>2, <2>3, <2>5 DEF SecondLeg, StageInv, Baseline
<1>7. CASE Settle
  <2>1. trade.maxLoss \in Nat /\ start \in Nat /\ work.wsol \in Nat
    BY <1>0 DEF TradeRecords, Balances, Amounts
  <2>2. work.wsol >= start - trade.maxLoss
    BY <1>7, <2>1 DEF Settle, Floor
  <2> QED
    BY <1>7, <2>2 DEF Settle, StageInv, Baseline
<1>8. CASE CleanUp
  <2>0. Closed - trade.tip \in Amounts /\ 0 \in Amounts
    BY <1>0, <1>8 DEF CleanUp, CanCleanUp, Amounts, TradeRecords
  <2>1. wallet' \in Balances
    BY <1>8, <2>0 DEF CleanUp, Balances
  <2> QED
    BY <1>8, <2>1 DEF CleanUp, Reset, Empty, StageInv, Balances, Amounts
<1>9. CASE FundFails \/ CheckFails \/ NoOutput \/ LegFails \/ Residue \/ BelowFloor
             \/ CleanUpFails
  BY <1>9, RevertKeeps
     DEF FundFails, CheckFails, NoOutput, LegFails, Residue, BelowFloor, CleanUpFails
<1>10. CASE SlotAdvances \/ UNCHANGED vars
  BY <1>10 DEF SlotAdvances, inside, vars, StageInv, Baseline, FullFillLeavesNothing
<1>11. CASE TokensArrive \/ TokensLeave
  <2>1. wallet' \in Balances
    BY <1>11 DEF TokensArrive, TokensLeave, Balances, Amounts
  <2> QED
    BY <1>11, <2>1 DEF TokensArrive, TokensLeave, inside, StageInv
<1> QED
  BY <1>1, <1>2, <1>3, <1>4, <1>5, <1>6, <1>7, <1>8, <1>9, <1>10, <1>11 DEF Next, Transaction

\* The invariant holds in every state.
LEMMA ExecInvariant == Spec => []ExecInv
BY InitExecInv, NextExecInv, PTL DEF Spec

----------------------------------------------------------------------------
\* The eight bytes at offset 8 are the amount.
LEMMA PatchAtEight ==
  ASSUME NEW data \in LegDataOver(Nat), NEW n \in Nat
  PROVE  PatchU64(data, 8, n) = [data EXCEPT !.amount = n]
<1>1. PatchU64(data, 8, n) = [data EXCEPT !.abi = data.abi, !.amount = n, !.limit = data.limit]
  BY DEF PatchU64
<1> QED
  BY <1>1 DEF LegDataOver

\* What the scripts compose passes the checks of layouts, placeholders and
\* offset, in both directions and for every amount, exactly when the pool's
\* mints ask for no transfer hooks: a hooked pool is composed all the same and
\* the program refuses it.  Either way dynamicAmountOffset() has accepted the
\* template, and a patch at that offset changes the amount and nothing else.
\* (wellFormed and ownAccounts, what the two encoders agree on byte by byte and
\* who owns the accounts, are taken from the instruction as they are.)
THEOREM ComposedIsWellBuilt ==
  ASSUME NEW input \in Nat, NEW base \in Nat, NEW maxQuote \in Nat, NEW hooks \in BOOLEAN,
         NEW direction, Composes(direction, input, base, maxQuote)
  PROVE  LET ix == DirectRoundTrip(direction, input, base, maxQuote, hooks)
         IN  /\ DynamicTemplate(ix.secondData)
             /\ WellBuilt(ix) <=> ~hooks
             /\ \A n \in Nat : PatchU64(ix.secondData, ix.offset, n)
                                 = [ix.secondData EXCEPT !.amount = n]
<1> USE DEF WellBuilt, DynamicTemplate, DirectRoundTrip, ExecutorInstruction, Composes, DynamicAmountOffset,
        LegData, MeteoraExactInput, MeteoraDynamic, PumpBuy, PumpDynamicSell
<1> DEFINE ix == DirectRoundTrip(direction, input, base, maxQuote, hooks)
<1>1. CASE direction = "meteora_to_pump"
  <2>1. DynamicTemplate(ix.secondData) /\ (WellBuilt(ix) <=> ~hooks)
    BY <1>1 DEF ParsesInstruction, Length, ValidateProgramPair, ValidateRouteAbis, Legs,
       ValidatePump, ValidateMeteora, TokenStates
  <2>2. ix.offset = 8 /\ ix.secondData \in LegDataOver(Nat)
    BY <1>1 DEF LegDataOver, Abis
  <2>3. \A n \in Nat : PatchU64(ix.secondData, ix.offset, n) = [ix.secondData EXCEPT !.amount = n]
    BY <2>2, PatchAtEight
  <2> QED
    BY <2>1, <2>3
<1>2. CASE direction = "pump_to_meteora"
  <2>1. DynamicTemplate(ix.secondData) /\ (WellBuilt(ix) <=> ~hooks)
    BY <1>2 DEF ParsesInstruction, Length, ValidateProgramPair, ValidateRouteAbis, Legs,
       ValidatePump, ValidateMeteora, TokenStates
  <2>2. ix.offset = 8 /\ ix.secondData \in LegDataOver(Nat)
    BY <1>2 DEF LegDataOver, Abis
  <2>3. \A n \in Nat : PatchU64(ix.secondData, ix.offset, n) = [ix.secondData EXCEPT !.amount = n]
    BY <2>2, PatchAtEight
  <2> QED
    BY <2>1, <2>3
<1> QED
  BY <1>1, <1>2

----------------------------------------------------------------------------
\* Every variable keeps its type, and no second leg runs on nothing.
THEOREM TypeCorrect == Spec => []TypeOK
<1>1. ExecInv => TypeOK
  BY DEF ExecInv
<1> QED
  BY <1>1, ExecInvariant, PTL

\* The patched amount is the right one: a full fill leaves no inventory.
THEOREM PatchIsExact == Spec => []FullFillLeavesNothing
<1>1. ExecInv => FullFillLeavesNothing
  BY DEF ExecInv, StageInv, FullFillLeavesNothing
<1> QED
  BY <1>1, ExecInvariant, PTL

\* No step of a transaction touches the other token account.
THEOREM NothingElseTouched == Spec => OtherAccountsUntouched
<1>1. ExecInv /\ [Next]_vars => [stage # "idle" => wallet'.other = wallet.other]_vars
  <2> SUFFICES ASSUME ExecInv, [Next]_vars, stage # "idle"
               PROVE  wallet'.other = wallet.other
    OBVIOUS
  <2>1. CASE CleanUp
    BY <2>1 DEF CleanUp, Goto, ExecInv, StageInv, TypeOK, Balances
  <2>2. CASE UNCHANGED wallet
    BY <2>2
  <2> QED
    BY <2>1, <2>2 DEF Next, Transaction, vars, Submit, Drop, Land, Goto, SlotAdvances,
       TokensArrive, TokensLeave, Fund, FundFails, Check, CheckFails, FirstLeg, NoOutput,
       SecondLeg, LegFails, Settle, Residue, BelowFloor, CleanUpFails, Revert
<1> QED
  BY <1>1, ExecInvariant, PTL DEF Spec, OtherAccountsUntouched

\* A committed round trip costs at most its own loss limit and tip.
LEMMA CommittedTrade ==
  ASSUME ExecInv, CleanUp
  PROVE  Promise!Traded
<1>0. trade \in Trades /\ trade \in TradeRecords
  BY TradeFields DEF CleanUp, Goto, ExecInv, StageInv
<1>1. /\ work \in Balances /\ wallet \in Balances
      /\ work.inter = 0 /\ work.other = wallet.other /\ Baseline
      /\ work.wsol >= start - trade.maxLoss
  BY DEF CleanUp, Goto, ExecInv, StageInv, TypeOK
<1>2. /\ wallet'.sol = Closed - trade.tip
      /\ wallet'.wsol = 0
      /\ wallet'.inter = work.inter
      /\ wallet'.other = work.other
  <2>1. wallet' = [work EXCEPT !.sol = Closed - trade.tip, !.wsol = 0]
    BY DEF CleanUp
  <2> QED
    BY <1>1, <2>1 DEF Balances
<1>3. slot' = slot /\ trade' = NoTrade
  BY DEF CleanUp, Reset
<1>4. /\ work.sol \in Int /\ work.wsol \in Int /\ start \in Int
      /\ trade.maxLoss \in Int /\ trade.tip \in Int
      /\ wallet.sol \in Int /\ wallet.wsol \in Int
  BY <1>0, <1>1 DEF Balances, Amounts, TradeRecords, ExecInv, TypeOK
<1>5. wallet.inter = 0 /\ slot <= trade.validUntil
  BY <1>1 DEF Baseline
<1>6. (wallet.sol + wallet.wsol)' >= (wallet.sol + wallet.wsol) - trade.maxLoss - trade.tip
  BY <1>1, <1>2, <1>4 DEF Baseline, Closed
<1>7. UNCHANGED <<wallet.inter, wallet.other, slot>>
  BY <1>1, <1>2, <1>3, <1>5
<1> QED
  BY <1>0, <1>3, <1>5, <1>6, <1>7 DEF Promise!Traded

\* The transaction implements the promise, whatever the pools and the network
\* do: this is what the wallet's owner can rely on.
THEOREM ExecutorHonoursPromise == Spec => HonoursPromise
<1> DEFINE seen == <<wallet.sol + wallet.wsol, wallet.inter, wallet.other, slot, trade>>
<1>1. Init => trade = NoTrade
  BY DEF Init
<1>2. ExecInv /\ [Next]_vars => [Promise!Next]_seen
  <2> SUFFICES ASSUME ExecInv, [Next]_vars
               PROVE  Promise!Next \/ UNCHANGED <<wallet, slot, trade>>
    BY DEF seen
  <2>0. wallet \in Balances /\ slot \in Nat
    BY DEF ExecInv, TypeOK
  <2>1. ASSUME NEW t \in Trades, Land(t)
        PROVE  Promise!Begins(t)
    <3>1. /\ wallet'.sol = wallet.sol - Fee /\ wallet'.wsol = wallet.wsol
          /\ wallet'.inter = wallet.inter /\ wallet'.other = wallet.other
          /\ slot' = slot /\ trade' = t
      BY <2>0, <2>1 DEF Land, Balances
    <3>2. trade = NoTrade
      BY <2>1 DEF Land, Goto, ExecInv, StageInv
    <3> QED
      BY <2>0, <3>1, <3>2, AmountsAssumption DEF Promise!Begins, Balances, Amounts
  <2>2. CASE CleanUp
    BY <2>2, CommittedTrade DEF Promise!Next
  <2>3. CASE stage = "idle" /\ (SlotAdvances \/ TokensArrive \/ TokensLeave)
    <3>1. trade = NoTrade /\ UNCHANGED trade
      BY <2>3 DEF ExecInv, StageInv, SlotAdvances, TokensArrive, TokensLeave, inside
    <3>2. Promise!Received \/ Promise!Disposed \/ Promise!Later
      <4>1. CASE SlotAdvances
        BY <2>0, <4>1 DEF SlotAdvances, Promise!Later, Promise!holdings
      <4>2. CASE TokensArrive
        <5>1. PICK n \in Amounts : n > wallet.inter /\ wallet' = [wallet EXCEPT !.inter = n]
          BY <4>2 DEF TokensArrive
        <5> QED
          BY <2>0, <4>2, <5>1 DEF TokensArrive, Promise!Received, Balances
      <4>3. CASE TokensLeave
        BY <2>0, <4>3 DEF TokensLeave, Promise!Disposed, Balances
      <4> QED
        BY <2>3, <4>1, <4>2, <4>3
    <3> QED
      BY <3>1, <3>2 DEF Promise!BetweenTrades, Promise!Next
  <2>4. CASE Revert
    BY <2>4 DEF Revert, Reset, Promise!Fails, Promise!holdings, Promise!Next
  <2>5. CASE UNCHANGED <<wallet, slot, trade>>
    BY <2>5
  <2> QED
    BY <2>1, <2>2, <2>3, <2>4, <2>5 DEF Promise!Next, Next, Transaction, vars, inside, Submit,
       Drop, Fund, FundFails, Check, CheckFails, FirstLeg, NoOutput, SecondLeg, LegFails,
       Settle, Residue, BelowFloor, CleanUpFails, SlotAdvances, TokensArrive, TokensLeave
<1> QED
  BY <1>1, <1>2, ExecInvariant, PTL DEF Spec, HonoursPromise, Promise!Spec, seen
=============================================================================
