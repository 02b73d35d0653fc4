-------------------------- MODULE MCAtomicExecutor --------------------------
(***************************************************************************)
(* The executor with small amounts: round trips of both directions as the  *)
(* scripts build them, and some that another client might build.           *)
(***************************************************************************)
EXTENDS AtomicExecutor

Selling == DirectRoundTrip("meteora_to_pump", 2, 0, 0, FALSE)
Buying == DirectRoundTrip("pump_to_meteora", 1, 3, 2, FALSE)

MCTrades ==
  { Trade(Selling, 1, 0, 0, FALSE),
    Trade(Buying, 1, 1, 1, FALSE),   \* tipped, lasts longer
    Trade(Selling, 3, 0, 1, FALSE),  \* the floor saturates at 0
    Trade(Selling, 1, 0, 0, TRUE),
    Trade([Buying EXCEPT !.offset = 16], 1, 0, 0, FALSE) }
=============================================================================
