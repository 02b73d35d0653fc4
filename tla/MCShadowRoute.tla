--------------------------- MODULE MCShadowRoute ---------------------------
(***************************************************************************)
(* Gains on both sides of the allowed loss and of the required profit.     *)
(*                                                                         *)
(* TLC evaluates the assumptions before it explores the states: the gates  *)
(* of Gates and Sizing against the numbers of the repository's tests and   *)
(* against other ways to say the same.  They are no hypotheses of a proof. *)
(***************************************************************************)
EXTENDS ShadowRoute, Sizing

MCGains == -3 .. 2

----------------------------------------------------------------------------
\* tests/test_engine.py, in units of 1000 lamports.
EngineCosts(tip, margin, reserve, minimum) ==
  [jito_tip_lamports |-> tip, safety_margin_lamports |-> margin,
   failed_attempt_reserve_lamports |-> reserve, minimum_net_profit_lamports |-> minimum]
ASSUME EngineTests ==
  /\ LET r == EvaluateRoundTrip(100000, 100600, EngineCosts(200, 200, 0, 200), 100)
     IN  ~r.executable /\ r.net_profit_lamports = 100
  /\ LET r == EvaluateRoundTrip(10000, 11000, EngineCosts(0, 0, 815, 200), 5)
     IN  ~r.executable /\ r.net_profit_lamports = 180
  /\ EvaluateRoundTrip(10000, 11019, EngineCosts(0, 0, 815, 199), 5).executable

\* The direct gate in its two forms.
Answer(ok, known, lamports, venue) ==
  [succeeded |-> ok, context_slot |-> 1, fee_lamports |-> 5, floor_not_met |-> FALSE,
   venue_logs |-> venue, account |-> [known |-> known, lamports |-> lamports]]
Fitting == [serialized_size |-> 1232, account_count |-> 64]
ASSUME DirectGateAgrees ==
  \A ok, known, venue \in BOOLEAN, before, after \in 4..6, n \in 1..9 :
    DirectApproved(Fitting, Answer(ok, known, n, venue), before, after, 1, Required, 5)
      <=> /\ ok /\ known /\ before = after /\ Worthwhile(n - before)
          /\ n > before => venue

\* tests/test_risk.py, in cents.
Policy == [pilot_risk_pct |-> 5, validated_risk_pct |-> 10, trade_cap_usd |-> 2500,
           wallet_reserve_usd |-> 1000, daily_loss_pct |-> 3, maximum_drawdown_pct |-> 5,
           minimum_live_attempts_for_scale |-> 20, minimum_shadow_runtime |-> 72,
           minimum_shadow_candidates |-> 100]
ReadySnapshot == [equity_usd |-> 10000, high_water_equity_usd |-> 10000,
                  day_start_equity_usd |-> 10000, daily_wallet_pnl_usd |-> 0,
                  live_settled_attempts |-> 0, live_wallet_pnl_usd |-> 0,
                  active_transactions |-> 0, residual_inventory |-> FALSE,
                  direct_executor_proven |-> TRUE, profit_guard_proven |-> TRUE,
                  shadow_runtime |-> 72, shadow_candidates |-> 100, shadow_net_profit_usd |-> 100]
KilledSnapshot == [ReadySnapshot EXCEPT !.equity_usd = 9400, !.daily_wallet_pnl_usd = -300,
                                        !.active_transactions = 1, !.residual_inventory = TRUE]
ASSUME RiskTests ==
  /\ MaximumTrades(ReadySnapshot, Policy) = {500}
  /\ Unproven([ReadySnapshot EXCEPT !.direct_executor_proven = FALSE,
                 !.profit_guard_proven = FALSE, !.shadow_runtime = 71, !.shadow_candidates = 99,
                 !.shadow_net_profit_usd = 0], Policy)
       = {"direct_executor_unproven", "profit_guard_unproven", "insufficient_shadow_runtime",
          "insufficient_shadow_candidates", "shadow_net_not_positive"}
  /\ Killed(KilledSnapshot, Policy)
       = {"active_transaction_exists", "residual_inventory", "daily_loss_limit", "maximum_drawdown"}
  /\ MaximumTrades(KilledSnapshot, Policy) = {0}
  /\ ~RiskAllowed([ReadySnapshot EXCEPT !.live_settled_attempts = 20], Policy)
  /\ MaximumTrades([ReadySnapshot EXCEPT !.live_settled_attempts = 20,
                                         !.live_wallet_pnl_usd = 100], Policy) = {1000}

\* Rounding is to a nearest whole, two at a tie.
ASSUME RoundedAgrees ==
  \A h \in -260..260 :
    Rounded(h) = {n \in -3..3 : \A m \in -3..3 :
                    Most(h - 100 * n, 100 * n - h) <= Most(h - 100 * m, 100 * m - h)}

\* tests/test_position_sizing.py, in thousandths of a SOL.
ASSUME EntryTests ==
  /\ EntrySizes(410, 100, 5, 50) = {50}
  /\ EntrySizes(3000, 100, 5, 50) = {145}
  /\ EntrySizes(140, 100, 5, 50) = {}

\* The summary of two records, in two orders, and the promotion gate behind it.
Evidence(nets, runtime) ==
  [runtime |-> runtime,
   records |-> [i \in DOMAIN nets |->
                  [simulation_succeeded |-> nets[i] >= 0, wallet_net_lamports |-> nets[i]]]]
ASSUME SummaryAgrees ==
  /\ \A a, b \in -2..2 :
       LET summary == Summary(Evidence(<<a, b>>, 7))
       IN  /\ summary.wallet_net_lamports = a + b /\ summary.candidate_count = 2
           /\ summary.succeeded_count = Cardinality({i \in 1..2 : <<a, b>>[i] >= 0})
           /\ Ready(summary, 7, 2) <=> a + b > 0
  /\ ~Ready(Summary(Evidence(<<3>>, 6)), 7, 1)
  /\ LET hundred == Evidence([i \in 1..100 |-> 1], 72 * 3600)
     IN  PromotionReady(hundred, FALSE) /\ ~PromotionReady(hundred, TRUE)

\* Nothing known gives the fallback; the average of nothing gives way to the median.
ASSUME TipTests ==
  /\ \A urgency \in Urgencies : DynamicTip(<<>>, urgency) = TipTenths(urgency) * 1000
  /\ DynamicTip([ema50 |-> 0, p50 |-> 30000], "low") = 33000
  /\ DynamicTip([p99 |-> 90000000], "extreme") = MaxTip
=============================================================================
