------------------------------- MODULE Sizing -------------------------------
(***************************************************************************)
(* How much may be risked, decided without any state: the risk gate        *)
(* (backrunner/risk.py), the promotion gate of the shadow evidence         *)
(* (coordination.py, the status command of cli.py), the entry sizes of     *)
(* ops/strategy_loop.py and the tip for a bundle (tip_stream.py).          *)
(*                                                                         *)
(* Dollars are counted in cents, SOL in lamports, hours in seconds, and    *)
(* percentages are whole; a product with a percentage is in hundredths.    *)
(* The program computes with floats and rounds: a rounded amount is any    *)
(* nearest one.                                                            *)
(***************************************************************************)
EXTENDS Gates, Sequences, FiniteSets

Least(a, b) == IF a <= b THEN a ELSE b
Most(a, b) == IF a >= b THEN a ELSE b

\* The whole amounts next to so many hundredths: round() at a tie may give both.
Rounded(hundredths) ==
  LET below == hundredths \div 100
  IN  {n \in {below, below + 1} : hundredths - 100 * n \in -50..50}

----------------------------------------------------------------------------
(* assess_risk: of a snapshot s under a policy p.                          *)

Unproven(s, p) ==
  Failing([direct_executor_unproven |-> ~s.direct_executor_proven,
           profit_guard_unproven |-> ~s.profit_guard_proven,
           insufficient_shadow_runtime |-> s.shadow_runtime < p.minimum_shadow_runtime,
           insufficient_shadow_candidates |-> s.shadow_candidates < p.minimum_shadow_candidates,
           shadow_net_not_positive |-> s.shadow_net_profit_usd <= 0])

Killed(s, p) ==
  Failing([active_transaction_exists |-> s.active_transactions > 0,
           residual_inventory |-> s.residual_inventory,
           daily_loss_limit |->
             100 * s.daily_wallet_pnl_usd <= -(s.day_start_equity_usd * p.daily_loss_pct),
           maximum_drawdown |->
             100 * s.equity_usd <= s.high_water_equity_usd * (100 - p.maximum_drawdown_pct)])

Validated(s, p) == s.live_settled_attempts >= p.minimum_live_attempts_for_scale
PilotLost(s, p) == Validated(s, p) /\ s.live_wallet_pnl_usd <= 0

RiskAllowed(s, p) == Unproven(s, p) = {} /\ Killed(s, p) = {} /\ ~PilotLost(s, p)

RiskPct(s, p) == IF Validated(s, p) THEN p.validated_risk_pct ELSE p.pilot_risk_pct

\* In hundredths of a cent; nothing when the gate is locked.
TradeLimit(s, p) ==
  IF RiskAllowed(s, p)
  THEN Least(s.equity_usd * RiskPct(s, p),
             Least(100 * p.trade_cap_usd, 100 * Most(0, s.equity_usd - p.wallet_reserve_usd)))
  ELSE 0

\* maximum_trade_usd
MaximumTrades(s, p) == Rounded(TradeLimit(s, p))

----------------------------------------------------------------------------
(* The promotion gate.                                                     *)

\* summary(): what the evidence file tells of a campaign.
Summary(payload) ==
  LET net[n \in Nat] ==
        IF n = 0 THEN 0 ELSE net[n - 1] + payload.records[n].wallet_net_lamports
  IN  [runtime |-> payload.runtime,
       candidate_count |-> Len(payload.records),
       succeeded_count |-> Cardinality({i \in DOMAIN payload.records :
                                          payload.records[i].simulation_succeeded}),
       wallet_net_lamports |-> net[Len(payload.records)]]

Ready(summary, minimumRuntime, minimumCandidates) ==
  /\ summary.runtime >= minimumRuntime
  /\ summary.candidate_count >= minimumCandidates
  /\ summary.wallet_net_lamports > 0

\* shadow-evidence-status: 72 hours, 100 candidates, and no attempt's lock.
PromotionReady(payload, attemptLockExists) ==
  Ready(Summary(payload), 72 * 3600, 100) /\ ~attemptLockExists

----------------------------------------------------------------------------
(* Entries and tips, in lamports.                                          *)

\* calculate_entry_size_sol: no size when less than the minimum is available.
EntrySizes(balance, reserve, pct, minimum) ==
  LET available == balance - reserve
  IN  IF available < minimum THEN {}
      ELSE {Most(minimum, n) : n \in Rounded(available * pct)}

\* The momentum signals never ask for less than 0.003 SOL.
MomentumFloor == 3000000
MomentumSizes(balance, reserve, pct, minimum) ==
  {Most(n, MomentumFloor) : n \in EntrySizes(balance, reserve, pct, minimum)}

Urgencies == {"low", "normal", "high", "extreme"}
MinTip == 10000
MaxTip == 50000000
FallbackTip == 10000

\* The percentiles of the last message, those that were in it.
Told(latest, percentile) == IF percentile \in DOMAIN latest THEN latest[percentile] ELSE FallbackTip

\* The average stands in for the median unless it is missing or nothing.
LandedTip(latest, urgency) ==
  CASE urgency = "low" -> IF "ema50" \in DOMAIN latest /\ latest["ema50"] # 0
                          THEN latest["ema50"] ELSE Told(latest, "p50")
    [] urgency = "normal" -> Told(latest, "p75")
    [] urgency = "high" -> Told(latest, "p95")
    [] urgency = "extreme" -> Told(latest, "p99")

\* 1.1, 1.3, 1.6 and 2 times, in tenths.
TipTenths(urgency) ==
  CASE urgency = "low" -> 11 [] urgency = "normal" -> 13
    [] urgency = "high" -> 16 [] urgency = "extreme" -> 20

DynamicTip(latest, urgency) ==
  Most(MinTip, Least(MaxTip, (LandedTip(latest, urgency) * TipTenths(urgency)) \div 10))
=============================================================================
