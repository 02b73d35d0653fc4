------------------------- MODULE ShadowRouteProofs -------------------------
(***************************************************************************)
(* What holds of an assessment for all balances, gains, thresholds and     *)
(* lifetimes.                                                              *)
(*                                                                         *)
(* NetExactUnlessMoved speaks of what was computed from answers that were  *)
(* given earlier: it has to be known of which slot each of them is, and    *)
(* that a balance once in the wallet's history stays there.                *)
(*                                                                         *)
(* Then the gates: what an approval means for the wallet, that a better    *)
(* trip is not refused, and that the assessment of ShadowRoute is the gate *)
(* of shadow.py with all its reasons.                                      *)
(***************************************************************************)
EXTENDS ShadowRoute, Gates, SequenceTheorems, TLAPS

AnswersOfTheirSlots ==
  /\ pc \notin {"idle", "balance"} => pre.at \in 1..Tip /\ pre.lamports = wallet[pre.at]
  /\ pc \notin {"idle", "balance", "simulate"} => sim.at \in 1..Tip
  /\ pc \notin {"idle", "balance", "simulate", "baseline"}
       => base.at \in sim.at..Tip /\ base.lamports = wallet[base.at]

NetOfTheAnswers ==
  /\ net.known => /\ base.lamports = pre.lamports
                  /\ net.lamports = Account - pre.lamports
  /\ pc \in {"approved", "sent"} => sim.succeeded /\ net.known /\ Worthwhile(net.lamports)

LandsInTime == landed # Nowhere => pc = "sent" /\ landed <= ValidUntil

RouteInv == TypeOK /\ AnswersOfTheirSlots /\ NetOfTheAnswers /\ LandsInTime

----------------------------------------------------------------------------
LEMMA LamportsAreIntegers == \A x \in Lamports \cup Gains : x \in Int
BY LamportsAssumption

\* What the chain adds leaves the history as it was.
LEMMA HistoryStays ==
  ASSUME NEW lamports \in Lamports, wallet \in Seq(Lamports), wallet' = Append(wallet, lamports)
  PROVE  /\ wallet' \in Seq(Lamports) /\ Tip' = Tip + 1
         /\ \A s \in 1..Tip : wallet'[s] = wallet[s]
BY AppendProperties DEF Tip

LEMMA TipIsNatural == wallet \in Seq(Lamports) => Tip \in Nat /\ \A s \in 1..Tip : wallet[s] \in Int
<1> SUFFICES ASSUME wallet \in Seq(Lamports)
             PROVE  Tip \in Nat /\ \A s \in 1..Tip : wallet[s] \in Int
  OBVIOUS
<1>1. Tip \in Nat /\ \A s \in 1..Tip : wallet[s] \in Lamports
  BY DEF Tip
<1> QED BY <1>1, LamportsAreIntegers

LEMMA InitRouteInv == Init => RouteInv
<1> SUFFICES ASSUME Init PROVE RouteInv
  OBVIOUS
<1>1. wallet \in Seq(Lamports)
  BY EmptySeq DEF Init
<1>2. TypeOK
  BY <1>1 DEF Init, TypeOK, NoAnswer, NoSimulation, Unknown, Nowhere, Judged
<1> QED BY <1>2 DEF Init, RouteInv, AnswersOfTheirSlots, NetOfTheAnswers, LandsInTime, Unknown, Nowhere

----------------------------------------------------------------------------
\* The loop leaves the history alone, but for the first question.
LEMMA AskRouteInv == RouteInv /\ Ask => RouteInv'
<1> SUFFICES ASSUME RouteInv, Ask PROVE RouteInv'
  OBVIOUS
<1> USE DEF RouteInv, Ask, answers
<1>1. wallet' \in Seq(Lamports)
  BY NumbersAssumption DEF TypeOK
<1>2. TypeOK'
  BY <1>1 DEF TypeOK, Judged
<1>3. ~net.known
  BY DEF TypeOK, Judged, Unknown
<1> QED BY <1>2, <1>3 DEF AnswersOfTheirSlots, NetOfTheAnswers, LandsInTime

LEMMA ReadBalanceRouteInv == ASSUME RouteInv, NEW s \in 1..Tip, ReadBalance(s) PROVE RouteInv'
<1> USE DEF RouteInv, ReadBalance
<1>1. Tip \in Nat /\ wallet[s] \in Int
  BY TipIsNatural DEF TypeOK
<1>2. TypeOK'
  BY <1>1 DEF TypeOK, Judged
<1>3. ~net.known
  BY DEF TypeOK, Judged, Unknown
<1>4. AnswersOfTheirSlots'
  BY <1>1 DEF AnswersOfTheirSlots, Tip
<1> QED BY <1>2, <1>3, <1>4 DEF NetOfTheAnswers, LandsInTime

LEMMA SimulateRouteInv ==
  ASSUME RouteInv, NEW s \in 1..Tip, NEW gain \in Gains, NEW ok \in BOOLEAN, Simulate(s, gain, ok)
  PROVE  RouteInv'
<1> USE DEF RouteInv, Simulate
<1>1. Tip \in Nat /\ gain \in Int
  BY TipIsNatural, LamportsAreIntegers DEF TypeOK
<1>2. TypeOK'
  BY <1>1 DEF TypeOK, Judged
<1>3. ~net.known
  BY DEF TypeOK, Judged, Unknown
<1>4. AnswersOfTheirSlots'
  BY <1>1 DEF AnswersOfTheirSlots, Tip
<1> QED BY <1>2, <1>3, <1>4 DEF NetOfTheAnswers, LandsInTime

LEMMA ReadBaselineRouteInv == ASSUME RouteInv, NEW s \in 1..Tip, ReadBaseline(s) PROVE RouteInv'
<1> USE DEF RouteInv, ReadBaseline
<1>1. Tip \in Nat /\ wallet[s] \in Int /\ s \in sim.at..Tip
  BY TipIsNatural DEF TypeOK
<1>2. TypeOK'
  BY <1>1 DEF TypeOK, Judged
<1>3. ~net.known
  BY DEF TypeOK, Judged, Unknown
<1>4. AnswersOfTheirSlots'
  BY <1>1 DEF AnswersOfTheirSlots, Tip
<1> QED BY <1>2, <1>3, <1>4 DEF NetOfTheAnswers, LandsInTime

LEMMA JudgeRouteInv ==
  ASSUME RouteInv, NEW account \in BOOLEAN, NEW other \in BOOLEAN, Judge(account, other)
  PROVE  RouteInv'
<1> USE DEF RouteInv, Judge
<1>1. Tip \in Nat /\ sim.at \in 1..Tip /\ Account \in Int /\ pre.lamports \in Int
  BY TipIsNatural DEF TypeOK, AnswersOfTheirSlots, Account
<1>2. net' \in [known : BOOLEAN, lamports : Int]
  BY <1>1 DEF Unknown
<1>3. pc' \in {"approved", "rejected"}
  OBVIOUS
<1>4. TypeOK'
  BY <1>2, <1>3 DEF TypeOK, Judged
<1>5. AnswersOfTheirSlots'
  BY <1>3 DEF AnswersOfTheirSlots, Tip
<1>6. NetOfTheAnswers'
  BY <1>1, <1>3 DEF NetOfTheAnswers, Account, Unknown
<1> QED BY <1>3, <1>4, <1>5, <1>6 DEF LandsInTime

LEMMA SubmitRouteInv == RouteInv /\ Submit => RouteInv'
BY DEF RouteInv, Submit, answers, TypeOK, AnswersOfTheirSlots, NetOfTheAnswers, LandsInTime,
       Judged, Tip, Account, Worthwhile

LEMMA EndRouteInv == RouteInv /\ End => RouteInv'
<1> SUFFICES ASSUME RouteInv, End PROVE RouteInv'
  OBVIOUS
<1> USE DEF RouteInv, End, Forget
<1>1. wallet' \in Seq(Lamports)
  BY EmptySeq
<1>2. TypeOK'
  BY <1>1 DEF TypeOK, NoAnswer, NoSimulation, Unknown, Nowhere, Judged
<1> QED BY <1>2 DEF AnswersOfTheirSlots, NetOfTheAnswers, LandsInTime, Unknown, Nowhere

\* The network adds to the history only.
LEMMA ChainRouteInv ==
  ASSUME RouteInv, NEW lamports \in Lamports, NewSlot(lamports) \/ Lands(lamports)
  PROVE  RouteInv'
<1> USE DEF RouteInv
<1>1. UNCHANGED <<pc, answers>> /\ wallet' = Append(wallet, lamports)
  BY DEF NewSlot, Lands
<1>2. Tip \in Nat /\ wallet' \in Seq(Lamports) /\ Tip' = Tip + 1
      /\ \A s \in 1..Tip : wallet'[s] = wallet[s]
  BY <1>1, TipIsNatural, HistoryStays DEF TypeOK
<1>3. landed' \in Nat /\ LandsInTime'
  BY <1>1, <1>2 DEF TypeOK, NewSlot, Lands, LandsInTime, ValidUntil, answers
<1>4. TypeOK'
  BY <1>1, <1>2, <1>3 DEF TypeOK, Judged, answers
<1>5. AnswersOfTheirSlots'
  <2>1. UNCHANGED <<pc, pre, sim, base>>
    BY <1>1 DEF answers
  <2>2. pc \notin {"idle", "balance"} => pre'.at \in 1..Tip' /\ pre'.lamports = wallet'[pre'.at]
    BY <2>1, <1>2 DEF AnswersOfTheirSlots
  <2>3. pc \notin {"idle", "balance", "simulate"} => sim'.at \in 1..Tip'
    BY <2>1, <1>2 DEF AnswersOfTheirSlots
  <2>4. pc \notin {"idle", "balance", "simulate", "baseline"}
          => base'.at \in sim'.at..Tip' /\ base'.lamports = wallet'[base'.at]
    <3>1. pc \notin {"idle", "balance", "simulate", "baseline"}
            => sim.at \in 1..Tip /\ base.at \in sim.at..Tip /\ base.at \in 1..Tip
      BY <1>2 DEF AnswersOfTheirSlots
    <3> QED BY <3>1, <2>1, <1>2 DEF AnswersOfTheirSlots
  <2> QED BY <2>1, <2>2, <2>3, <2>4 DEF AnswersOfTheirSlots
<1>6. NetOfTheAnswers'
  <2>1. net.known => Judged
    BY DEF TypeOK, Unknown
  <2>2. Judged => Account' = Account
    BY <1>1, <1>2 DEF Judged, AnswersOfTheirSlots, Account, answers
  <2> QED BY <1>1, <2>1, <2>2 DEF NetOfTheAnswers, Worthwhile, answers
<1> QED BY <1>3, <1>4, <1>5, <1>6

LEMMA NextRouteInv == RouteInv /\ [Next]_vars => RouteInv'
<1> SUFFICES ASSUME RouteInv, [Next]_vars PROVE RouteInv'
  OBVIOUS
<1>1. CASE UNCHANGED vars
  BY <1>1 DEF vars, answers, RouteInv, TypeOK, AnswersOfTheirSlots, NetOfTheAnswers, LandsInTime,
              Judged, Tip, Account, Worthwhile
<1>2. CASE Next
  BY <1>2, AskRouteInv, ReadBalanceRouteInv, SimulateRouteInv, ReadBaselineRouteInv,
     JudgeRouteInv, SubmitRouteInv, EndRouteInv, ChainRouteInv DEF Next
<1> QED BY <1>1, <1>2

LEMMA RouteInvariant == Spec => []RouteInv
BY InitRouteInv, NextRouteInv, PTL DEF Spec

----------------------------------------------------------------------------
\* Every variable keeps its shape, and nothing of an assessment outlives it.
THEOREM RouteTypeCorrect == Spec => []TypeOK
<1>1. RouteInv => TypeOK
  BY DEF RouteInv
<1> QED BY <1>1, RouteInvariant, PTL

\* The net that run_direct_shadow_route reports is what the simulated trade
\* brings, and what it approves is within the loss, whatever lamports others
\* move, unless they move them back: the two balances agree, the simulation is
\* of a slot between theirs.
THEOREM NetIsExact == Spec => []NetExactUnlessMoved
<1>1. RouteInv => NetExactUnlessMoved
  <2> SUFFICES ASSUME RouteInv, Judged, pre.at <= sim.at, ~Returned, net.known
               PROVE  net.lamports = sim.gain
    BY NumbersAssumption DEF NetExactUnlessMoved, RouteInv, TypeOK, NetOfTheAnswers, Worthwhile, Judged
  <2> USE DEF RouteInv
  <2>1. /\ Tip \in Nat /\ \A s \in 1..Tip : wallet[s] \in Int
        /\ pre.at \in 1..Tip /\ sim.at \in 1..Tip /\ base.at \in 1..Tip
        /\ sim.at <= base.at /\ sim.gain \in Int
    BY TipIsNatural DEF TypeOK, AnswersOfTheirSlots, Judged
  <2>2. wallet[base.at] = wallet[pre.at]
    BY DEF AnswersOfTheirSlots, NetOfTheAnswers, Judged
  <2>3. wallet[sim.at] = wallet[pre.at]
    <3>1. CASE sim.at = pre.at \/ sim.at = base.at
      BY <3>1, <2>2
    <3>2. CASE pre.at < sim.at /\ sim.at < base.at
      BY <3>2, <2>1, <2>2 DEF Returned
    <3> QED BY <2>1, <3>1, <3>2
  <2>4. net.lamports = wallet[sim.at] + sim.gain - wallet[pre.at]
    <3>1. net.lamports = Account - pre.lamports
      BY DEF NetOfTheAnswers
    <3>2. pre.lamports = wallet[pre.at]
      BY DEF AnswersOfTheirSlots, Judged
    <3> QED BY <2>1, <3>1, <3>2 DEF Account
  <2> QED BY <2>1, <2>3, <2>4
<1> QED BY <1>1, RouteInvariant, PTL

\* valid_until_slot counts from min_context_slot, and no answer is older.
THEOREM LandsInTheTime == Spec => []LandsFresh
<1>1. RouteInv => LandsFresh
  <2> SUFFICES ASSUME RouteInv, landed # Nowhere PROVE landed - sim.at <= TTL
    BY DEF LandsFresh
  <2>1. landed \in Nat /\ landed <= 1 + TTL /\ pc = "sent"
    BY DEF RouteInv, TypeOK, LandsInTime, ValidUntil
  <2>2. sim.at \in Nat /\ sim.at >= 1
    BY <2>1, TipIsNatural DEF RouteInv, TypeOK, AnswersOfTheirSlots
  <2> QED BY <2>1, <2>2, NumbersAssumption
<1> QED BY <1>1, RouteInvariant, PTL

----------------------------------------------------------------------------
(* The gates themselves.  Each reason is a condition, and an approval is    *)
(* the absence of all of them.                                             *)

\* An approval of assess_shadow is the absence of each of its reasons.
LEMMA ShadowReasons ==
  ASSUME NEW route, NEW compiled, NEW simulation, NEW c
  PROVE  AssessShadow(route, compiled, simulation, c).approved
           <=> /\ DistinctPools(route) /\ FitsPacketLimit(compiled) /\ FitsAccountLimit(compiled)
               /\ simulation.succeeded
               /\ EvaluateRoundTrip(route.input_lamports, route.sell.other_amount_threshold,
                                    c, simulation.fee_lamports).executable
<1> DEFINE overlap == ~DistinctPools(route)
           large == ~FitsPacketLimit(compiled)
           many == ~FitsAccountLimit(compiled)
           failed == ~simulation.succeeded
           poor == ~EvaluateRoundTrip(route.input_lamports, route.sell.other_amount_threshold,
                                      c, simulation.fee_lamports).executable
           reasons == Failing([pools_overlap |-> overlap, transaction_too_large |-> large,
                               too_many_accounts |-> many, simulation_failed |-> failed,
                               insufficient_net_profit |-> poor])
<1>1. {overlap, large, many, failed, poor} \subseteq BOOLEAN
  OBVIOUS
<1>2. AssessShadow(route, compiled, simulation, c).approved <=> reasons = {}
  BY DEF AssessShadow
<1>3. reasons = {} <=> ~overlap /\ ~large /\ ~many /\ ~failed /\ ~poor
  <2> HIDE DEF overlap, large, many, failed, poor
  <2> QED BY <1>1 DEF Failing
<1> HIDE DEF reasons
<1> QED BY <1>2, <1>3

\* The amounts that decide about a quoted trip.
Amounts(c, fee) ==
  /\ fee \in Int /\ c.jito_tip_lamports \in Int /\ c.safety_margin_lamports \in Int
  /\ c.failed_attempt_reserve_lamports \in Int /\ c.minimum_net_profit_lamports \in Int

\* A trip is executable when its sale pays the buy, the costs and the minimum.
LEMMA ExecutableEarns ==
  ASSUME NEW buy \in Int, NEW sell \in Int, NEW c, NEW fee, Amounts(c, fee)
  PROVE  EvaluateRoundTrip(buy, sell, c, fee).executable
           <=> sell >= buy + TotalCosts(c, fee) + c.minimum_net_profit_lamports
<1> DEFINE costs == TotalCosts(c, fee)
<1>1. costs \in Int /\ c.minimum_net_profit_lamports \in Int
  BY DEF TotalCosts, Amounts
<1>2. EvaluateRoundTrip(buy, sell, c, fee).executable
        <=> sell - buy - costs >= c.minimum_net_profit_lamports
  BY Zenon DEF EvaluateRoundTrip
<1> HIDE DEF costs
<1>3. sell - buy - costs >= c.minimum_net_profit_lamports
        <=> sell >= buy + costs + c.minimum_net_profit_lamports
  BY <1>1
<1> QED BY <1>2, <1>3 DEF costs

\* assess_shadow approves by the worst the two quotes allow (shadow.py): when a
\* landed trip brings at least the threshold of its second leg, which is asked for
\* no more than the first leg brings, and costs no more than the simulated fee and
\* the tip, then the wallet gains the minimum, the margin and the reserve, through
\* two disjoint sets of pools.
THEOREM ApprovedTripPays ==
  ASSUME NEW market, NEW c, NEW compiled, NEW simulation, Amounts(c, simulation.fee_lamports),
         NEW input \in Int, input = c.shadow_input_lamports,
         NEW bought \in Int, bought = market.buy[input].other_amount_threshold,
         NEW threshold \in Int, threshold = market.sell[bought].other_amount_threshold,
         RunShadowRoute(market, c, compiled, simulation).approved,
         NEW brought \in Int, brought >= threshold,
         NEW cost \in Int, cost <= simulation.fee_lamports + c.jito_tip_lamports
  PROVE  /\ brought - input - cost >= c.minimum_net_profit_lamports + c.safety_margin_lamports
                                        + c.failed_attempt_reserve_lamports
         /\ market.buy[input].pool_keys \cap market.sell[bought].pool_keys = {}
<1> DEFINE route == BuildRoundTrip(market, input)
           fee == simulation.fee_lamports
<1>1. /\ route.input_lamports = input /\ route.buy = market.buy[input]
      /\ route.sell = market.sell[bought]
  BY DEF BuildRoundTrip
<1>2. DistinctPools(route) /\ EvaluateRoundTrip(input, threshold, c, fee).executable
  BY <1>1, ShadowReasons DEF RunShadowRoute
<1>3. threshold >= input + TotalCosts(c, fee) + c.minimum_net_profit_lamports
  BY <1>2, ExecutableEarns
<1>4. brought - input - cost >= c.minimum_net_profit_lamports + c.safety_margin_lamports
                                        + c.failed_attempt_reserve_lamports
  BY <1>3 DEF TotalCosts, Amounts
<1> QED BY <1>1, <1>2, <1>4 DEF DistinctPools

\* return_bps is a floor (engine.py): it has the sign of the net, but for a gain of less
\* than a basis point, which it calls nothing.
THEOREM ReturnHasTheSign ==
  ASSUME NEW buy \in Int, buy > 0, NEW sell \in Int, NEW c, NEW fee, Amounts(c, fee)
  PROVE  LET result == EvaluateRoundTrip(buy, sell, c, fee)
         IN  /\ result.return_bps < 0 <=> result.net_profit_lamports < 0
             /\ result.return_bps > 0 <=> 10000 * result.net_profit_lamports >= buy
<1> DEFINE gain == sell - buy - TotalCosts(c, fee)
           bps == (gain * 10000) \div buy
<1>1. gain \in Int
  BY DEF TotalCosts, Amounts
<1> HIDE DEF gain
<1>2. bps \in Int /\ buy * bps <= gain * 10000 /\ gain * 10000 < buy * bps + buy
  BY <1>1
<1> HIDE DEF bps
<1>3. bps >= 0 => buy * bps >= 0
  BY <1>2
<1>4. bps < 0 => buy * bps + buy <= 0
  <2>1. bps < 0 => bps + 1 <= 0 /\ buy * (bps + 1) <= 0
    BY <1>2
  <2> QED BY <2>1, <1>2
<1>5. bps >= 1 => buy * bps >= buy
  <2>1. bps >= 1 => buy * (bps - 1) >= 0
    BY <1>2
  <2> QED BY <2>1, <1>2
<1>6. bps < 0 <=> gain < 0
  BY <1>1, <1>2, <1>3, <1>4
<1>7. bps > 0 <=> 10000 * gain >= buy
  <2>1. bps <= 0 => buy * bps <= 0
    BY <1>2
  <2> QED BY <1>1, <1>2, <1>5, <2>1
<1> QED BY <1>6, <1>7 DEF EvaluateRoundTrip, gain, bps

\* Nothing that is better is refused (shadow.py): more brought by the second leg, a
\* smaller fee, lower costs and a smaller transaction keep an approval.
THEOREM BetterTripStaysApproved ==
  ASSUME NEW route, NEW compiled, NEW simulation, NEW c, Amounts(c, simulation.fee_lamports),
         NEW route2, NEW compiled2, NEW simulation2, NEW c2, Amounts(c2, simulation2.fee_lamports),
         {route.input_lamports, route2.input_lamports, route.sell.other_amount_threshold,
          route2.sell.other_amount_threshold} \subseteq Int,
         {compiled.serialized_size, compiled2.serialized_size,
          compiled.account_count, compiled2.account_count} \subseteq Int,
         route2.input_lamports <= route.input_lamports,
         route2.sell.other_amount_threshold >= route.sell.other_amount_threshold,
         route2.buy.pool_keys \subseteq route.buy.pool_keys,
         route2.sell.pool_keys \subseteq route.sell.pool_keys,
         compiled2.serialized_size <= compiled.serialized_size,
         compiled2.account_count <= compiled.account_count,
         simulation2.succeeded, simulation2.fee_lamports <= simulation.fee_lamports,
         c2.jito_tip_lamports <= c.jito_tip_lamports,
         c2.safety_margin_lamports <= c.safety_margin_lamports,
         c2.failed_attempt_reserve_lamports <= c.failed_attempt_reserve_lamports,
         c2.minimum_net_profit_lamports <= c.minimum_net_profit_lamports,
         AssessShadow(route, compiled, simulation, c).approved
  PROVE  AssessShadow(route2, compiled2, simulation2, c2).approved
<1>1. DistinctPools(route2)
  BY ShadowReasons DEF DistinctPools
<1>2. FitsPacketLimit(compiled2) /\ FitsAccountLimit(compiled2)
  <2>1. FitsPacketLimit(compiled) /\ FitsAccountLimit(compiled)
    BY ShadowReasons
  <2> QED BY <2>1 DEF FitsPacketLimit, FitsAccountLimit
<1>3. EvaluateRoundTrip(route2.input_lamports, route2.sell.other_amount_threshold,
                        c2, simulation2.fee_lamports).executable
  <2> DEFINE buy == route.input_lamports
             sell == route.sell.other_amount_threshold
             fee == simulation.fee_lamports
             buy2 == route2.input_lamports
             sell2 == route2.sell.other_amount_threshold
             fee2 == simulation2.fee_lamports
  <2>1. EvaluateRoundTrip(buy, sell, c, fee).executable
    BY ShadowReasons
  <2>2. sell >= buy + TotalCosts(c, fee) + c.minimum_net_profit_lamports
    BY <2>1, ExecutableEarns
  <2>3. sell2 >= buy2 + TotalCosts(c2, fee2) + c2.minimum_net_profit_lamports
    BY <2>2 DEF TotalCosts, Amounts
  <2> QED BY <2>3, ExecutableEarns
<1> QED BY <1>1, <1>2, <1>3, ShadowReasons

----------------------------------------------------------------------------
\* What a net has to be for each of its reasons.
LEMMA NetReasonsAbsent ==
  ASSUME NEW simulation, NEW before, NEW after, NEW required
  PROVE  LET account == simulation.account
             gain == account.lamports - before
         IN  NetReasons(before, after, simulation, required) = {}
               <=> /\ NetKnown(before, after, account)
                   /\ ~ExceedsMaxLoss(gain, required) /\ ~BelowRequired(gain, required)
                   /\ simulation.succeeded /\ gain > 0 => simulation.venue_logs
<1> DEFINE account == simulation.account
           gain == account.lamports - before
           moved == after # before
           unavailable == after = before /\ ~account.known
           loss == NetKnown(before, after, account) /\ ExceedsMaxLoss(gain, required)
           below == NetKnown(before, after, account) /\ BelowRequired(gain, required)
           silent == NetKnown(before, after, account) /\ simulation.succeeded /\ gain > 0
                       /\ ~simulation.venue_logs
           reasons == Failing([wallet_baseline_changed |-> moved,
                               wallet_balance_unavailable |-> unavailable,
                               wallet_net_exceeds_max_loss |-> loss,
                               wallet_net_below_required_gross |-> below,
                               expected_venue_or_executor_logs_absent |-> silent])
<1>1. {moved, unavailable, loss, below, silent} \subseteq BOOLEAN
  OBVIOUS
<1>2. NetReasons(before, after, simulation, required) = reasons
  BY Zenon DEF NetReasons
<1>3. reasons = {} <=> ~moved /\ ~unavailable /\ ~loss /\ ~below /\ ~silent
  <2> HIDE DEF moved, unavailable, loss, below, silent
  <2> QED BY <1>1 DEF Failing
<1>4. ~moved /\ ~unavailable <=> NetKnown(before, after, account)
  BY DEF NetKnown
<1> HIDE DEF reasons
<1> QED BY <1>2, <1>3, <1>4

\* The reasons that do not look at the net are absent exactly when none holds.
LEMMA OtherReasonsAbsent ==
  ASSUME NEW compiled, NEW simulation, NEW minContextSlot, NEW maximumFee
  PROVE  OtherReasons(compiled, simulation, minContextSlot, maximumFee) = {}
           <=> /\ FitsPacketLimit(compiled) /\ FitsAccountLimit(compiled)
               /\ ~(simulation.context_slot < minContextSlot) /\ simulation.succeeded
               /\ ~(simulation.fee_lamports > maximumFee) /\ ~simulation.floor_not_met
<1> DEFINE large == ~FitsPacketLimit(compiled)
           many == ~FitsAccountLimit(compiled)
           stale == simulation.context_slot < minContextSlot
           failed == ~simulation.succeeded
           dear == simulation.fee_lamports > maximumFee
           floor == simulation.floor_not_met = TRUE
           reasons == Failing([transaction_too_large |-> large, too_many_accounts |-> many,
                               stale_simulation_context |-> stale, simulation_failed |-> failed,
                               fee_exceeds_maximum |-> dear,
                               executor_rejected_profit_floor |-> simulation.floor_not_met])
<1>1. {large, many, stale, failed, dear, floor} \subseteq BOOLEAN
  OBVIOUS
<1>2. OtherReasons(compiled, simulation, minContextSlot, maximumFee) = reasons
  BY Zenon DEF OtherReasons
<1>3. reasons = {} <=> ~large /\ ~many /\ ~stale /\ ~failed /\ ~dear /\ ~floor
  <2> HIDE DEF large, many, stale, failed, dear
  <2> QED BY <1>1 DEF Failing
<1> HIDE DEF reasons
<1> QED BY <1>2, <1>3

\* ShadowRoute's Judge is the gate of run_direct_shadow_route: what it leaves open is
\* exactly the sizes, the context slot, the fee and the logs.
THEOREM JudgeIsTheDirectGate ==
  ASSUME NEW compiled, NEW simulation, NEW minContextSlot, NEW maximumFee,
         NEW account \in BOOLEAN, simulation.account = [known |-> account, lamports |-> Account],
         simulation.succeeded = sim.succeeded, {Account, pre.lamports, Required} \subseteq Int,
         NEW other \in BOOLEAN,
         other <=> ~ /\ FitsPacketLimit(compiled) /\ FitsAccountLimit(compiled)
                     /\ ~(simulation.context_slot < minContextSlot)
                     /\ ~(simulation.fee_lamports > maximumFee) /\ ~simulation.floor_not_met
                     /\ Account - pre.lamports > 0 => simulation.venue_logs,
         Judge(account, other)
  PROVE  pc' = "approved" <=> DirectApproved(compiled, simulation, pre.lamports, base.lamports,
                                             minContextSlot, Required, maximumFee)
<1> DEFINE gain == Account - pre.lamports
<1>1. OtherReasons(compiled, simulation, minContextSlot, maximumFee) = {}
           <=> /\ FitsPacketLimit(compiled) /\ FitsAccountLimit(compiled)
               /\ ~(simulation.context_slot < minContextSlot) /\ simulation.succeeded
               /\ ~(simulation.fee_lamports > maximumFee) /\ ~simulation.floor_not_met
  BY OtherReasonsAbsent
<1>2. NetReasons(pre.lamports, base.lamports, simulation, Required) = {}
        <=> /\ base.lamports = pre.lamports /\ account
            /\ ~ExceedsMaxLoss(gain, Required) /\ ~BelowRequired(gain, Required)
            /\ simulation.succeeded /\ gain > 0 => simulation.venue_logs
  BY NetReasonsAbsent DEF NetKnown
<1>3. ~ExceedsMaxLoss(gain, Required) /\ ~BelowRequired(gain, Required) <=> Worthwhile(gain)
  <2> gain \in Int
    OBVIOUS
  <2> HIDE DEF gain
  <2> QED BY DEF ExceedsMaxLoss, BelowRequired, Worthwhile
<1>4. pc' = "approved" <=> /\ sim.succeeded /\ ~other /\ base.lamports = pre.lamports /\ account
                           /\ Worthwhile(gain)
  BY DEF Judge
<1> HIDE DEF gain
<1> QED BY <1>1, <1>2, <1>3, <1>4 DEF DirectApproved, gain

\* What the direct gate lets through, whatever the configuration adds up to (shadow.py):
\* the balance around the simulation did not move, the wallet loses no more than the sum,
\* and does not gain less than it.  A sum below zero only asks for more.
THEOREM DirectApprovalBounds ==
  ASSUME NEW compiled, NEW simulation, NEW before \in Int, NEW after, NEW minContextSlot,
         NEW required \in Int, NEW maximumFee, simulation.account.lamports \in Int,
         DirectApproved(compiled, simulation, before, after, minContextSlot, required, maximumFee)
  PROVE  LET gain == simulation.account.lamports - before
         IN  /\ simulation.succeeded /\ after = before
             /\ -required <= gain
             /\ gain >= 0 => required <= gain
<1> DEFINE gain == simulation.account.lamports - before
<1>1. simulation.succeeded
  BY OtherReasonsAbsent DEF DirectApproved
<1>2. NetKnown(before, after, simulation.account)
      /\ ~ExceedsMaxLoss(gain, required) /\ ~BelowRequired(gain, required)
  BY NetReasonsAbsent DEF DirectApproved
<1>3. gain \in Int
  OBVIOUS
<1> HIDE DEF gain
<1>4. -required <= gain /\ (gain >= 0 => required <= gain)
  BY <1>2, <1>3 DEF ExceedsMaxLoss, BelowRequired
<1> QED BY <1>1, <1>2, <1>4 DEF NetKnown, gain

\* The comment at shadow.py:217 allows a loss where the required profit refuses a gain: a
\* loss within the sum passes, breaking even and a smaller gain do not.
THEOREM LossPassesSmallGainDoesNot ==
  ASSUME NEW gain \in Int, -Required <= gain, gain < Required
  PROVE  Worthwhile(gain) <=> gain < 0
BY NumbersAssumption DEF Worthwhile

\* The two callers of the direct gate ask for different sums (cli.py: the property of the
\* configuration; live-loop.py: three of its five terms).  With a configuration that
\* load_config accepts and reserves that are not negative, which it does not check, both are
\* what ShadowRoute assumes of its constants and differ by the largest fee and the tip.  So
\* the live loop sends the gains short of them that the command refuses, and refuses the
\* losses that only the larger sum allows; on every other net the two agree.
THEOREM CallersDifferByFeeAndTip ==
  ASSUME NEW c, Accepts(c), c.has_tip_recipient \in BOOLEAN,
         c.failed_attempt_reserve_lamports \in Nat, c.minimum_net_profit_lamports \in Nat,
         c.safety_margin_lamports \in Nat,
         c.maximum_transaction_fee_lamports \in Int, c.direct_tip_lamports \in Int
  PROVE  LET command == RequiredGrossProfit(c)
             live == LiveRequired(c)
             Passes(n, required) == ~ExceedsMaxLoss(n, required) /\ ~BelowRequired(n, required)
         IN  /\ {command, live} \subseteq Nat /\ c.direct_opportunity_slot_ttl \in Nat \ {0}
             /\ command - live = c.maximum_transaction_fee_lamports + c.direct_tip_lamports
             /\ command >= live
             /\ \A n \in Int :
                  /\ Passes(n, live) /\ ~Passes(n, command) <=> live <= n /\ n < command
                  /\ Passes(n, command) /\ ~Passes(n, live) <=> -command <= n /\ n < -live
<1> DEFINE command == RequiredGrossProfit(c)
           live == LiveRequired(c)
           fee == c.maximum_transaction_fee_lamports
           tip == c.direct_tip_lamports
<1>1. c.direct_opportunity_slot_ttl \in 1..32 /\ fee >= 0 /\ tip >= 0
  BY SMT DEF Accepts
<1>2. command \in Nat /\ live \in Nat /\ command - live = fee + tip /\ command >= live
  BY <1>1, SMT DEF RequiredGrossProfit, LiveRequired
<1>3. c.direct_opportunity_slot_ttl \in Nat \ {0}
  BY <1>1
<1> HIDE DEF command, live
<1>4. ASSUME NEW n \in Int, NEW required \in Nat
      PROVE  ~ExceedsMaxLoss(n, required) /\ ~BelowRequired(n, required)
               <=> (-required <= n /\ n < 0) \/ required <= n
  BY <1>4 DEF ExceedsMaxLoss, BelowRequired
<1>5. ASSUME NEW n \in Int
      PROVE  LET Passes(m, required) == ~ExceedsMaxLoss(m, required) /\ ~BelowRequired(m, required)
             IN  /\ Passes(n, live) /\ ~Passes(n, command) <=> live <= n /\ n < command
                 /\ Passes(n, command) /\ ~Passes(n, live) <=> -command <= n /\ n < -live
  <2>1. ~ExceedsMaxLoss(n, live) /\ ~BelowRequired(n, live) <=> (-live <= n /\ n < 0) \/ live <= n
    BY <1>2, <1>4
  <2>2. ~ExceedsMaxLoss(n, command) /\ ~BelowRequired(n, command)
          <=> (-command <= n /\ n < 0) \/ command <= n
    BY <1>2, <1>4
  <2> QED BY <1>2, <2>1, <2>2
<1> QED BY <1>2, <1>3, <1>5 DEF command, live, fee, tip

\* No guard of the two routes raises on an accepted configuration: only a first leg that
\* would bring nothing, a slot before the first, or a composer that signs or sends.
THEOREM AcceptedConfigurationRuns ==
  ASSUME NEW c, Accepts(c), c.has_tip_recipient \in BOOLEAN,
         c.shadow_input_lamports \in Int, NEW market,
         NEW slot \in Int, NEW composed
  PROVE  /\ Quotable(market, c.shadow_input_lamports)
              <=> market.buy[c.shadow_input_lamports].other_amount_threshold > 0
         /\ DirectRuns(slot, c.direct_opportunity_slot_ttl, composed)
              <=> slot >= 0 /\ Unsigned(composed)
<1>1. c.shadow_input_lamports > 0 /\ c.direct_opportunity_slot_ttl \in 1..32
  BY SMT DEF Accepts
<1>2. c.direct_opportunity_slot_ttl >= 1
  BY <1>1
<1> QED BY <1>1, <1>2, Zenon DEF Quotable, DirectRuns
=============================================================================
