------------------------------ MODULE HotFlow ------------------------------
(***************************************************************************)
(* The momentum detector, backrunner/momentum.py: the thread of            *)
(* MomentumWatcher takes the buys of Pump AMM transactions, HotFlow-       *)
(* Aggregator collects them per mint, and a mint with enough buys in the   *)
(* window becomes a signal.  Meanwhile the main thread of strategy_loop    *)
(* replaces the set of trending mints, which takes it several steps: the   *)
(* watcher's set, the aggregator's set, and the rebuilding of `_triggered'.*)
(*                                                                         *)
(* Abstraction: a transaction is the sequence of the mints it buys, each   *)
(* with its size (Buys); transactions that buy nothing, failed ones and    *)
(* stable mints are left out.  Messages may come in any order and twice.   *)
(***************************************************************************)
EXTENDS Integers, Sequences, FiniteSets, FiniteSetsExt

CONSTANTS
  Mints, Txs,
  Listed,       \* the mints that have a pool at first
  Buys,         \* [Txs -> Seq([mint : Mints, sol : Nat])]
  Answers,      \* the sets of trending mints GMGN may answer
  NoTx,         \* what the watcher works on at first
  MinBuys,      \* min_successful_buys
  MinSol,       \* min_combined_sol
  Window,       \* window_seconds
  PoolTTL,      \* POOL_CACHE_TTL
  MaxSeen,      \* MAX_SEEN, and the 5000 entries of the pool cache
  Times,        \* the instants: 0..n for TLC, Nat in the proofs
  Stays         \* bound: how often a mint becomes trending, likewise

ASSUME BuysAssumption == Buys \in [Txs -> Seq([mint : Mints, sol : Nat])]
ASSUME AnswersAssumption == Answers \subseteq (SUBSET Mints) \ {{}}
ASSUME NoTxAssumption == NoTx \notin Txs
ASSUME NumbersAssumption ==
  /\ {MinBuys, Window, PoolTTL} \subseteq Nat \ {0} /\ {MinSol, MaxSeen} \subseteq Nat
  /\ Times \subseteq Nat /\ 0 \in Times /\ Stays \subseteq Nat /\ 0 \in Stays

VARIABLES
  clock,
  trending,    \* MomentumWatcher._trending_mints
  watchSeen,   \* MomentumWatcher._seen_signatures
  flowTrending, flowSeen, flows, triggered,  \* of HotFlowAggregator
  wpc, tx, buy,      \* where the watcher stands, in which buy of which transaction
  aggregated,        \* the signal add() has returned
  mpc, kept,         \* where set_trending stands, the keys it iterates over or keeps
  cache,             \* _pool_cache
  signals,     \* all that was ever put into the queue
  stay,        \* how often each mint has become trending
  gone,        \* when each pool ceased to exist, if it has
  overlapped   \* an add() with enough buys ran while set_trending() did its part

watcherVars == <<watchSeen, wpc, tx, buy, aggregated>>
flowVars == <<flowSeen, flows, triggered>>
mainVars == <<trending, flowTrending, mpc, kept, stay>>
poolVars == <<cache, gone>>
vars == <<clock, watcherVars, flowVars, mainVars, poolVars, signals, overlapped>>

Never == -1  \* no entry in the cache; not gone
NoSignal == [mint |-> NoTx]
Mint == Buys[tx][buy].mint
Spent(rows) == MapThenSumSet(LAMBDA r : r.sol, rows)
NextBuy == wpc' = "buys" /\ buy' = buy + 1
Rebuilding == mpc \in {"iterating", "assigning"}

----------------------------------------------------------------------------
Init ==
  /\ clock = 0
  /\ trending = {} /\ flowTrending = {} /\ watchSeen = {} /\ flowSeen = {}
  /\ flows = [m \in Mints |-> {}] /\ triggered = {}
  /\ wpc = "listening" /\ tx = NoTx /\ buy = 1 /\ aggregated = NoSignal
  /\ mpc = "idle" /\ kept = {}
  /\ cache = [m \in Mints |-> [exists |-> FALSE, at |-> Never]]
  /\ signals = {} /\ stay = [m \in Mints |-> 0]
  /\ gone = [m \in Mints |-> IF m \in Listed THEN Never ELSE 0]
  /\ overlapped = FALSE

\* A notification: its signature is remembered before its transaction is
\* fetched; when the fetch fails, or nothing was bought, it stays remembered.
Notified(t) ==
  /\ wpc = "listening"
  /\ t \notin watchSeen
  /\ watchSeen' = IF Cardinality(watchSeen) >= MaxSeen THEN {} ELSE watchSeen \cup {t}
  /\ \/ wpc' = "buys" /\ tx' = t
     \/ UNCHANGED <<wpc, tx>>
  /\ UNCHANGED <<clock, buy, aggregated, flowVars, mainVars, poolVars, signals, overlapped>>

\* Mutant: the next transaction starts where the last one ended.
ListensAt ==
  /\ wpc = "buys" /\ buy > Len(Buys[tx])
  /\ wpc' = "listening" /\ tx' = NoTx /\ aggregated' = NoSignal
  /\ UNCHANGED <<clock, watchSeen, buy, flowVars, mainVars, poolVars, signals, overlapped>>

Listens ==
  /\ wpc = "buys" /\ buy > Len(Buys[tx])
  /\ wpc' = "listening" /\ tx' = NoTx /\ buy' = 1 /\ aggregated' = NoSignal
  /\ UNCHANGED <<clock, watchSeen, flowVars, mainVars, poolVars, signals, overlapped>>

\* The watcher's own filter: closed until there is a first trending set.
Filter ==
  /\ wpc = "buys"
  /\ buy <= Len(Buys[tx])
  /\ IF Mint \in trending THEN wpc' = "adding" /\ buy' = buy
                          ELSE wpc' = wpc /\ buy' = buy + 1
  /\ UNCHANGED <<clock, watchSeen, tx, aggregated, flowVars, mainVars, poolVars, signals,
                 overlapped>>

\* Mutant: the aggregator does not look at the signature.
AcceptsAgain == flowTrending = {} \/ Mint \in flowTrending

Accepts == (flowTrending = {} \/ Mint \in flowTrending) /\ tx \notin flowSeen

\* The rows of the mint still in the window, with the new one.
Row == [tx |-> tx, at |-> clock, sol |-> Buys[tx][buy].sol]
Rows == {r \in flows[Mint] : clock - r.at <= Window} \cup {Row}

\* add(): a transaction counts once, for the first mint it is offered for.
AddRejects ==
  /\ wpc = "adding" /\ ~Accepts
  /\ NextBuy
  /\ UNCHANGED <<clock, watchSeen, tx, aggregated, flowVars, mainVars, poolVars, signals,
                 overlapped>>

\* `_trending' is read here, `_triggered' only in the next step.
AddRow ==
  /\ wpc = "adding" /\ Accepts
  /\ flowSeen' = flowSeen \cup {tx}
  /\ flows' = [flows EXCEPT ![Mint] = Rows]
  /\ IF Cardinality(Rows) >= MinBuys /\ Spent(Rows) >= MinSol
     THEN /\ wpc' = "counted" /\ buy' = buy
          /\ aggregated' = [mint |-> Mint, rows |-> Rows, stay |-> stay[Mint]]
          /\ overlapped' = (overlapped \/ Rebuilding)
     ELSE NextBuy /\ UNCHANGED <<aggregated, overlapped>>
  /\ UNCHANGED <<clock, watchSeen, tx, triggered, mainVars, poolVars, signals>>

\* The universe may be another one by now.
CheckTriggered ==
  /\ wpc = "counted"
  /\ IF Mint \in triggered THEN NextBuy ELSE wpc' = "triggering" /\ buy' = buy
  /\ UNCHANGED <<clock, watchSeen, tx, aggregated, flowVars, mainVars, poolVars, signals,
                 overlapped>>

\* `_triggered[mint] = timestamp', into the dictionary of this moment.
Trigger ==
  /\ wpc = "triggering"
  /\ triggered' = triggered \cup {Mint}
  /\ wpc' = "pool"
  /\ UNCHANGED <<clock, watchSeen, tx, buy, aggregated, flowSeen, flows, mainVars, poolVars,
                 signals, overlapped>>

\* Mutant: what the cache holds never expires.
CachedForever == cache[Mint].at # Never

Cached == cache[Mint].at # Never /\ clock - cache[Mint].at < PoolTTL
\* _pool_exists: from the cache ...
PoolCached ==
  /\ wpc = "pool" /\ Cached
  /\ IF cache[Mint].exists THEN signals' = signals \cup {aggregated} ELSE UNCHANGED signals
  /\ NextBuy
  /\ UNCHANGED <<clock, watchSeen, tx, aggregated, flowVars, mainVars, poolVars, overlapped>>

\* ... or from the chain, into a cache that is emptied when it is full, ...
PoolFetched ==
  /\ wpc = "pool" /\ ~Cached
  /\ cache' = LET entry == [exists |-> gone[Mint] = Never, at |-> clock]
                  filled == {m \in Mints : cache[m].at # Never} \cup {Mint}
              IN  IF Cardinality(filled) > MaxSeen
                  THEN [m \in Mints |-> [exists |-> FALSE, at |-> Never]]
                  ELSE [cache EXCEPT ![Mint] = entry]
  /\ IF gone[Mint] = Never THEN signals' = signals \cup {aggregated} ELSE UNCHANGED signals
  /\ NextBuy
  /\ UNCHANGED <<clock, watchSeen, tx, aggregated, flowVars, mainVars, gone, overlapped>>

\* ... or unknown, which counts as gone.  The mint stays triggered.
PoolUnknown ==
  /\ wpc = "pool" /\ ~Cached
  /\ NextBuy
  /\ UNCHANGED <<clock, watchSeen, tx, aggregated, flowVars, mainVars, poolVars, signals, overlapped>>

----------------------------------------------------------------------------
(* The main thread: an empty or failed answer of GMGN changes nothing.     *)

Refresh(new) ==
  /\ mpc = "idle"
  /\ \A m \in new \ flowTrending : stay[m] + 1 \in Stays
  /\ trending' = new
  /\ mpc' = "flow"
  /\ UNCHANGED <<clock, watcherVars, flowVars, flowTrending, kept, stay, poolVars, signals,
                 overlapped>>

RefreshFlow ==
  /\ mpc = "flow"
  /\ flowTrending' = trending
  /\ stay' = [m \in Mints |-> IF m \in trending \ flowTrending THEN stay[m] + 1 ELSE stay[m]]
  /\ mpc' = "iterating" /\ kept' = triggered
  /\ overlapped' = (overlapped \/ wpc \in {"counted", "triggering"})
  /\ UNCHANGED <<clock, watcherVars, flowVars, trending, poolVars, signals>>

\* The watcher added a key during the iteration: "dictionary changed size
\* during iteration" ends the refresh, and `_triggered' stays as it was.
IterationBreaks ==
  /\ mpc = "iterating" /\ kept # triggered
  /\ mpc' = "idle" /\ kept' = {}
  /\ UNCHANGED <<clock, watcherVars, flowVars, trending, flowTrending, stay, poolVars, signals,
                 overlapped>>

\* Mutant: a mint that leaves the universe stays triggered.
IterateAll ==
  /\ mpc = "iterating" /\ kept = triggered
  /\ mpc' = "assigning"
  /\ UNCHANGED <<clock, watcherVars, flowVars, trending, flowTrending, kept, stay, poolVars,
                 signals, overlapped>>

Iterate ==
  /\ mpc = "iterating" /\ kept = triggered
  /\ kept' = triggered \cap flowTrending
  /\ mpc' = "assigning"
  /\ UNCHANGED <<clock, watcherVars, flowVars, trending, flowTrending, stay, poolVars,
                 signals, overlapped>>

\* Mutant: a refresh forgets every trigger.
AssignNothing ==
  /\ mpc = "assigning"
  /\ triggered' = {}
  /\ mpc' = "idle" /\ kept' = {}
  /\ UNCHANGED <<clock, watcherVars, flowSeen, flows, trending, flowTrending, stay, poolVars,
                 signals, overlapped>>

\* A key the watcher added since the iteration is lost.
Assign ==
  /\ mpc = "assigning"
  /\ triggered' = kept
  /\ mpc' = "idle" /\ kept' = {}
  /\ UNCHANGED <<clock, watcherVars, flowSeen, flows, trending, flowTrending, stay, poolVars,
                 signals, overlapped>>

----------------------------------------------------------------------------
(* The world: time, and pools that graduate.                      *)

Tick ==
  /\ clock + 1 \in Times
  /\ clock' = clock + 1
  /\ UNCHANGED <<watcherVars, flowVars, mainVars, poolVars, signals, overlapped>>

Graduates(m) ==
  /\ gone[m] = Never
  /\ gone' = [gone EXCEPT ![m] = clock]
  /\ UNCHANGED <<clock, watcherVars, flowVars, mainVars, cache, signals, overlapped>>

Watch ==
  \/ \E t \in Txs : Notified(t)
  \/ Filter \/ Listens \/ AddRejects \/ AddRow \/ CheckTriggered \/ Trigger
  \/ PoolCached \/ PoolFetched \/ PoolUnknown

Main ==
  \/ \E new \in Answers : Refresh(new)
  \/ RefreshFlow \/ IterationBreaks \/ Iterate \/ Assign

Next == Watch \/ Main \/ Tick \/ \E m \in Mints : Graduates(m)

Spec == Init /\ [][Next]_vars

----------------------------------------------------------------------------
RowSet == [tx : Txs, at : Times, sol : Nat]
SignalSet == [mint : Mints, rows : SUBSET RowSet, stay : Stays]

\* Every variable keeps its shape.
TypeOK ==
  /\ clock \in Times
  /\ {trending, flowTrending, triggered, kept} \subseteq SUBSET Mints
  /\ {watchSeen, flowSeen} \subseteq SUBSET Txs
  /\ flows \in [Mints -> SUBSET RowSet]
  /\ wpc \in {"listening", "buys", "adding", "counted", "triggering", "pool"}
  /\ IF wpc = "listening" THEN tx = NoTx /\ buy = 1
                          ELSE tx \in Txs /\ buy \in 1..(Len(Buys[tx]) + 1)
  /\ mpc \in {"idle", "flow", "iterating", "assigning"}
  /\ gone \in [Mints -> Times \cup {Never}]
  /\ cache \in [Mints -> [exists : BOOLEAN, at : Times \cup {Never}]]
  /\ stay \in [Mints -> Stays] /\ overlapped \in BOOLEAN
  /\ signals \subseteq SignalSet /\ aggregated \in SignalSet \cup {NoSignal}

\* "Aggregate successful buys on trending mints over a short window"
\* (HotFlowAggregator): whatever is delivered twice, forgotten by the watcher
\* or bought along with another mint, a signal rests on MinBuys transactions of
\* one window, and no transaction backs signals of two mints.
SignalBacked ==
  /\ \A s \in signals : /\ Cardinality(s.rows) >= MinBuys
                        /\ \A r, q \in s.rows : /\ r.tx = q.tx => r = q
                                                /\ r.at - q.at <= Window
  /\ \A s, z \in signals : \A r \in s.rows, q \in z.rows : r.tx = q.tx => s.mint = z.mint

\* "A mint leaving the universe must be eligible again if it returns" (the
\* comment in set_trending): between refreshes no mint outside the universe is
\* triggered, unless an add() that found enough buys and the aggregator's
\* set_trending() have run at the same time, whichever began first.
EligibleUnlessOverlapped == mpc = "idle" /\ ~overlapped => triggered \subseteq flowTrending

\* While a mint stays trending it gives one signal, with the same exception.
OneSignalPerStayUnlessOverlapped ==
  overlapped \/ \A s, z \in signals : s.mint = z.mint /\ s.stay = z.stay => s = z

\* A signal is put into the queue only for a pool that existed less than
\* POOL_CACHE_TTL ago, however old the cache and whenever the pool graduates.
PoolRecentlyThere ==
  [][\A s \in signals' \ signals :
       gone[s.mint] = Never \/ clock - gone[s.mint] < PoolTTL]_vars
=============================================================================
