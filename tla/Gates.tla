------------------------------- MODULE Gates -------------------------------
(***************************************************************************)
(* The comparisons between an opportunity and its approval, which keep no  *)
(* state: the limits a configuration may set (backrunner/config.py), the   *)
(* costs a round trip has to earn (engine.py), and the two assessments of  *)
(* a simulated transaction (shadow.py), of a trip quoted by Jupiter        *)
(* (jupiter.py) and of a direct one.                                       *)
(*                                                                         *)
(* Amounts are lamports.  A refusal is the set of its reasons; the order   *)
(* in which the code lists them decides nothing.  The logs of a simulation *)
(* are the two answers that are looked for in them.                        *)
(***************************************************************************)
EXTENDS Integers

\* The reasons whose condition holds.
Failing(conditions) == {reason \in DOMAIN conditions : conditions[reason]}

----------------------------------------------------------------------------
(* The configuration.                                                      *)

MaxComputeUnits == 1400000

\* load_config raises on any other value.
Accepts(c) ==
  /\ c.maximum_transaction_gap >= 1
  /\ c.shadow_input_lamports > 0
  /\ c.slippage_bps \in 0..5000 /\ c.max_accounts \in 1..64
  /\ c.direct_compute_unit_limit \in 1..MaxComputeUnits
  /\ c.direct_compute_unit_price_micro_lamports >= 0
  /\ c.direct_opportunity_slot_ttl \in 1..32
  /\ c.maximum_transaction_fee_lamports >= 0 /\ c.direct_tip_lamports >= 0
  /\ c.direct_tip_lamports # 0 => c.has_tip_recipient

\* What a direct trip has to bring, and what it may lose, for the command line.
RequiredGrossProfit(c) ==
  c.failed_attempt_reserve_lamports + c.minimum_net_profit_lamports
    + c.safety_margin_lamports + c.maximum_transaction_fee_lamports + c.direct_tip_lamports

\* What ops/live-loop.py passes instead: neither the fee nor the tip.
LiveRequired(c) ==
  c.failed_attempt_reserve_lamports + c.minimum_net_profit_lamports + c.safety_margin_lamports

----------------------------------------------------------------------------
(* The round trip that Jupiter quotes, and what it has to earn.            *)

\* CostModel: the fee is the simulation's, the rest is configured.
TotalCosts(c, fee) ==
  fee + c.jito_tip_lamports + c.safety_margin_lamports + c.failed_attempt_reserve_lamports

\* Of a positive buy; anything else raises.
EvaluateRoundTrip(buy, sell, c, fee) ==
  LET net == sell - buy - TotalCosts(c, fee)
  IN  [executable |-> net >= c.minimum_net_profit_lamports,
       net_profit_lamports |-> net,
       return_bps |-> (net * 10000) \div buy]

\* market.buy and market.sell are what Jupiter answers for an amount, the second
\* asked for what the first leg brings at least.
BuildRoundTrip(market, input) ==
  LET buy == market.buy[input]
  IN  [input_lamports |-> input, buy |-> buy, sell |-> market.sell[buy.other_amount_threshold]]

\* A build of nothing raises, before anything is asked.
Quotable(market, input) ==
  input > 0 /\ market.buy[input].other_amount_threshold > 0

DistinctPools(route) == route.buy.pool_keys \cap route.sell.pool_keys = {}

FitsPacketLimit(compiled) == compiled.serialized_size <= 1232
FitsAccountLimit(compiled) == compiled.account_count <= 64

AssessShadow(route, compiled, simulation, c) ==
  LET result == EvaluateRoundTrip(route.input_lamports, route.sell.other_amount_threshold,
                                  c, simulation.fee_lamports)
      reasons == Failing([pools_overlap |-> ~DistinctPools(route),
                          transaction_too_large |-> ~FitsPacketLimit(compiled),
                          too_many_accounts |-> ~FitsAccountLimit(compiled),
                          simulation_failed |-> ~simulation.succeeded,
                          insufficient_net_profit |-> ~result.executable])
  IN  [approved |-> reasons = {}, rejection_reasons |-> reasons,
       net_profit_lamports |-> result.net_profit_lamports]

\* The composer's program may fail, and the simulation is of some slot.
RunShadowRoute(market, c, compiled, simulation) ==
  AssessShadow(BuildRoundTrip(market, c.shadow_input_lamports), compiled, simulation, c)

----------------------------------------------------------------------------
(* The direct trip.  The time at which each answer is of is ShadowRoute's. *)

\* compose_direct_round_trip raises when its script says that it has signed or
\* sent the transaction.
Unsigned(composed) == ~composed.signed /\ ~composed.submitted

\* The first guard, before anything is asked, and the transaction that comes back.
DirectRuns(minContextSlot, slotTTL, composed) ==
  minContextSlot >= 0 /\ slotTTL >= 1 /\ Unsigned(composed)

\* A net is known when nobody moved the wallet and its account came back.
NetKnown(pre, base, account) == base = pre /\ account.known

\* A loss beyond the maximum, and a profit below the required one.
ExceedsMaxLoss(net, required) == net + required < 0
BelowRequired(net, required) == ~ExceedsMaxLoss(net, required) /\ 0 <= net /\ net < required

\* What is refused whatever the net is.
OtherReasons(compiled, simulation, minContextSlot, maximumFee) ==
  Failing([transaction_too_large |-> ~FitsPacketLimit(compiled),
           too_many_accounts |-> ~FitsAccountLimit(compiled),
           stale_simulation_context |-> simulation.context_slot < minContextSlot,
           simulation_failed |-> ~simulation.succeeded,
           fee_exceeds_maximum |-> simulation.fee_lamports > maximumFee,
           executor_rejected_profit_floor |-> simulation.floor_not_met])

NetReasons(pre, base, simulation, required) ==
  LET account == simulation.account
      known == NetKnown(pre, base, account)
      net == account.lamports - pre
  IN  Failing([wallet_baseline_changed |-> base # pre,
               wallet_balance_unavailable |-> base = pre /\ ~account.known,
               wallet_net_exceeds_max_loss |-> known /\ ExceedsMaxLoss(net, required),
               wallet_net_below_required_gross |-> known /\ BelowRequired(net, required),
               expected_venue_or_executor_logs_absent |->
                 known /\ simulation.succeeded /\ net > 0 /\ ~simulation.venue_logs])

DirectApproved(compiled, simulation, pre, base, minContextSlot, required, maximumFee) ==
  /\ OtherReasons(compiled, simulation, minContextSlot, maximumFee) = {}
  /\ NetReasons(pre, base, simulation, required) = {}
=============================================================================
