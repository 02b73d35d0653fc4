----------------------------- MODULE MCObserver -----------------------------
(***************************************************************************)
(* One transaction that buys two mints, and what comes of it; and, before  *)
(* the states, Discovery against the repository's replayed trades and the  *)
(* tests of its pools.                                                     *)
(***************************************************************************)
EXTENDS Observer, Discovery

MCBuys == [t \in Txs |-> Mints]

----------------------------------------------------------------------------
Trade(index, pnl, precursors) == [index |-> index, pnl |-> pnl, precursors |-> precursors]
Buy(index, usd) == [index |-> index, usd |-> usd]

\* fixtures/wallet_a_replay.json, results in millionths of a SOL.
WalletA ==
  <<Trade(67, 3272, {Buy(64, 448)}), Trade(1370, 3022, {Buy(1369, 330)}),
    Trade(167, 757, {Buy(149, 692)}), Trade(1154, 280, {}), Trade(126, 5002, {}),
    Trade(1386, 1153, {}), Trade(411, 2128, {Buy(410, 366)}), Trade(1095, 9352, {Buy(1094, 2751)}),
    Trade(1006, 108942, {Buy(1005, 4071)}), Trade(586, 2082, {Buy(585, 571)}),
    Trade(939, 2413, {Buy(938, 954)}), Trade(1529, 16734, {Buy(1520, 506)}),
    Trade(880, 6047, {Buy(878, 666)}), Trade(1134, 8473, {Buy(1132, 3667)}),
    Trade(1133, 14604, {Buy(1132, 3667)}), Trade(625, 11696, {})>>

\* tests/test_replay.py
ASSUME ReplayTest ==
  LET summary == ReplayPrecursors(WalletA, 300, 3)
  IN  /\ summary.total_round_trips = 16 /\ Cardinality(summary.same_slot) = 12
      /\ Cardinality(summary.tight) = 10 /\ Cardinality(summary.profitable) = 10

\* tests/test_pools.py
PoolRow(y, tvl) ==
  [address |-> "pool", token_x |-> "mint", token_y |-> y, tvl |-> tvl, blacklisted |-> FALSE]
ASSUME PoolTests ==
  /\ PoolsForMint({PoolRow(WSOL, 2000), PoolRow("mint", 2000)}, "mint") = {PoolRow(WSOL, 2000)}
  /\ \A program \in TokenPrograms, owner \in {PumpAmm, "other"}, tvl \in {999, 1000} :
       DiscoverDirectRoutes("mint", program, owner, {PoolRow(WSOL, tvl)}, 1000) # {}
         <=> owner = PumpAmm /\ tvl = 1000
  /\ DiscoverDirectRoutes("mint", "other", PumpAmm, {PoolRow(WSOL, 2000)}, 1000) = {}
=============================================================================
