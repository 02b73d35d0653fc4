----------------------------- MODULE Discovery -----------------------------
(***************************************************************************)
(* Which routes there are for a token, and which past trades would have    *)
(* been seen: discover_direct_routes (backrunner/pools.py) and             *)
(* replay_precursors (replay.py).  Both ask or read, filter, and keep      *)
(* nothing.                                                                *)
(*                                                                         *)
(* An account is its owner program, or any other value if there is none; a *)
(* pool of the Meteora service is its two tokens, its worth and whether it *)
(* is blacklisted; a replayed trade is its index in its slot, its result   *)
(* and the large buys before it in that slot.                              *)
(***************************************************************************)
EXTENDS Integers, Sequences, FiniteSets

WSOL == "wsol"
TokenPrograms == {"spl-token", "token-2022"}
PumpAmm == "pump-amm"

\* pools_for_mint: the pools of exactly this pair, of the rows the service gave.
PoolsForMint(rows, mint) == {row \in rows : {row.token_x, row.token_y} = {mint, WSOL}}

\* Both programs of tokens, a Pump pool that exists and is Pump's, and any
\* Meteora pool of the pair that is worth enough.
DiscoverDirectRoutes(mint, mintOwner, pumpOwner, rows, minimumTvl) ==
  IF mintOwner \in TokenPrograms /\ pumpOwner = PumpAmm
  THEN {[mint |-> mint, meteora_pool |-> row.address] :
          row \in {r \in PoolsForMint(rows, mint) : ~r.blacklisted /\ r.tvl >= minimumTvl}}
  ELSE {}

----------------------------------------------------------------------------
\* The precursors of a trade that were large enough.
Qualifying(row, minimumUsd) == {e \in row.precursors : e.usd >= minimumUsd}

\* Close enough: one that comes after the trade counts as close.
Tight(row, minimumUsd, maximumGap) ==
  \E e \in Qualifying(row, minimumUsd) : row.index - e.index <= maximumGap

\* ReplaySummary, with the trades instead of their signatures.
ReplayPrecursors(rows, minimumUsd, maximumGap) ==
  LET tight == {i \in DOMAIN rows : Tight(rows[i], minimumUsd, maximumGap)}
  IN  [total_round_trips |-> Len(rows),
       same_slot |-> {i \in DOMAIN rows : Qualifying(rows[i], minimumUsd) # {}},
       tight |-> tight,
       profitable |-> {i \in tight : rows[i].pnl > 0}]
=============================================================================
