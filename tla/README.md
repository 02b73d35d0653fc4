# Verification of Atomic Trench

TLA+ models of the atomic-trench backrunner, checked with TLC on small
instances, and theorems about them, proved with TLAPS for every value of the
constants. Every definition is a translation of the source; `PROJECT.json`
gives the lines (`map`), the runs, the mutants each property was tried
against, the hazards and the theorems.

## The system

Atomic Trench watches large buys on Solana, looks for a second venue on which
the bought token still has the old price, and simulates (or, with
`ops/live-loop.py`, executes) a round trip SOL -> token -> SOL in a single
transaction through a small on-chain program. A second loop,
`ops/strategy_loop.py`, buys trending tokens outright and sells them by time
or price.

| Component | State | Operations | Interacts with |
| --- | --- | --- | --- |
| attempt lock, `backrunner/coordination.py` `AttemptLock` | the lock file; the owner token of each object | enter, exit | the file system; two users: `cli.py` and the evidence store |
| evidence store, `ShadowEvidence` | the evidence file (records, runtime, last heartbeat), its temporary file and write lock | `contains`, `record`, `heartbeat`, `summary` | attempts and observers, in different processes |
| shadow campaign, `backrunner/cli.py`, `ops/shadow-loop.py` | the attempt lock, the stage of an attempt, `last_heartbeat` of a loop | `shadow-direct --trigger-signature`, heartbeats, status | evidence store, attempt lock, RPC, systemd restarts |
| executor program, `programs/atomic-executor/src/lib.rs` | token accounts of the user, inside one transaction | `process_instruction` | two pools by cross-program invocation, the runtime |
| instruction codec, `atomic-executor.mjs`, `direct-venues.mjs`, `lib.rs` | none | encode, parse, validate, patch | scripts and program |
| round-trip transaction, `scripts/lib/direct-roundtrip.mjs`, `compose-direct-roundtrip.mjs`, `sign-and-submit.mjs` | none of its own | build, sign, submit | executor, network |
| live loop, `ops/live-loop.py` | `seen_candidates`, the lock file, the trade journal, `daily_loss_lamports` | detect, assess, lock, submit, journal, release | stream, RPC, scripts as subprocesses |
| shadow decision, `shadow.py` | the answers of one assessment | balance, simulation, second balance, judgement | RPC nodes at different slots |
| candidate observer, `ops/shadow-loop.py`, `stream.py`, `detector.py` | `seen_signatures` of a connection, `seen_candidates` of the process, trending mints, `last_heartbeat` | connect, heartbeat, refresh, poll, confirm, detect, reconnect | web socket, RPC, GMGN, evidence store |
| momentum watcher, `momentum.py` | aggregator, pool cache, sets shared by two threads | log handler, `add`, `set_trending` | a web socket thread, the queue of the strategy loop |
| strategy loop, `ops/strategy_loop.py`, `scripts/buy-token.mjs` | positions, `RiskManager`, `seen_mints`, signal queue | signals, entries, exits | watcher thread, scripts, the chain |
| candidate engine, `engine.py`, `risk.py`, `config.py` | none | `evaluate_round_trip`, `assess_risk`, `load_config` | shadow decision, CLI |
| pools and quotes, replay: `pools.py`, `jupiter.py`, `replay.py` | none | `discover_direct_routes`, `build_round_trip`, `replay_precursors` | HTTP services, CLI |
| tip stream, `tip_stream.py` | the percentiles last heard | `get_dynamic_tip_lamports` | a thread that listens |
| copy trader, sniper, scorer, bundle sender | queues and caches of their own | | see "Not modelled" |
| deployment, tables, reports | none | one-off tools and clients | RPC, HTTP |

What is hard here: processes that share files (locks without expiry, a file
that is replaced, a lock that is looked at and touched in two steps); kills and
restarts between any two of these steps; answers that are lost after the
network has taken a transaction; a transaction that lands later, in another
state, than it was simulated in; answers of one assessment that belong to
three slots; a thread that collects buys while another replaces the set they
are filtered by; services that fail one at a time. `PROJECT.json` lists each
hazard at its line. What makes each component correct: the lock admits one
process and fails closed; the evidence is unique, durable and never
over-counted; a trade happens completely or not at all and costs no more than
was allowed; a loop trades once per candidate and one trade at a time; what is
approved is what was simulated; a signal rests on enough different buys; every
token in the wallet belongs to something the loop knows of, or to one of its
known failures; what was seen is not handled twice; the program accepts what
the scripts encode; a gate lets through nothing that loses more, or risks more,
than its configuration says.

## Modules

| Module | Models | Proofs |
| --- | --- | --- |
| `AttemptLock` | the lock file step by step: exclusive open, write, compare, unlink, failures, kills, orphans | `AttemptLockProofs` |
| `TamperedLock` | the same when somebody also removes the lock of a live process | `AttemptLockProofs` |
| `FailClosedLock` | what a lock of `coordination.py` promises: one owner, who gives the path back or leaves it taken | |
| `EvidenceLedger` | what the evidence promises: atomic appends and heartbeats | |
| `ShadowEvidence` | `record` and `heartbeat` with the write lock (an instance of `AttemptLock`), load, replace; implements `EvidenceLedger` | `ShadowCampaignProofs` |
| `ShadowCampaign` | attempts (with a second instance of `AttemptLock`) and observers on one evidence file | `ShadowCampaignProofs` |
| `CampaignDowntime` | a campaign beside a history of its uptime | |
| `ExecutorCodec` | what the scripts put into the executor's instruction and what the program checks of it | `AtomicExecutorProofs` |
| `AtomicTrade` | what a round trip promises to the wallet | |
| `AtomicExecutor`, `MCAtomicExecutor` | the transaction and the program in it; implements `AtomicTrade` | `AtomicExecutorProofs` |
| `LiveLoop` | several live loops and their lock file | `LiveLoopProofs` |
| `ShadowRoute`, `MCShadowRoute` | one assessment of a route, its gate, and the landing behind it | `ShadowRouteProofs` |
| `Observer`, `MCObserver` | the observer loop, its stream and its detector | `ObserverProofs` |
| `HotFlow`, `MCHotFlow` | the watcher thread and the main thread in one aggregator | `HotFlowProofs` |
| `StrategyLoop` | the strategy loop in live mode, the wallet and its transactions | `StrategyLoopProofs` |
| `Gates` | the decisions without state on a trade: configuration, costs, both assessments | `ShadowRouteProofs` |
| `Sizing` | the decisions without state on an amount: risk, promotion, entry size, tip | `StrategyLoopProofs` |
| `Discovery` | the routes of a token, and the replay of past trades | `ObserverProofs` |

How they fit together: `AtomicExecutor` is the transaction that `LiveLoop`
submits and `ShadowRoute` simulates; `ShadowRoute` is what happens inside
`LiveLoop!Approved` and `NotApproved`. `Observer` runs the heartbeats of
`ShadowCampaign!ObserverBeats`, and its watching lines are those of `LiveLoop`
in front of `Detect`. `HotFlow` is the thread behind `StrategyLoop!Signal`;
what `StrategyLoop` calls `muted` is there `triggered`. `ShadowRoute!Judge` is
the gate of `Gates` with everything but the net left open
(`JudgeIsTheDirectGate`). Both locks of `ShadowCampaign` are instances of
`AttemptLock`, and what they promise is `FailClosedLock`.

How state and actions correspond to the code:

* `AttemptLock`: `file` is the lock path, `phase` the place of each process in
  the with-statement. A random token is identified with the process that drew
  it; the token of a dead process matches nothing (`Nobody`). `Refuse` is
  `FileExistsError`, `WriteFails` the `except BaseException` branch,
  `ExitRefuses` the `RuntimeError`s of `__exit__` for a file that is missing or
  carries another token, `Unlink` the unlink by path after an earlier
  comparison. Three I/O errors (`Breaks`) leave the file of a process that lives
  on: the unlink after a failed write (`CleanupFails`), the reading of the
  process's own file in `__exit__` (`ExitUnreadable`, lines 62-65) and its unlink
  (`UnlinkErrors`, line 68). A file that no process will remove, of a dead owner
  or of one that has had its exception, is `Left`; the operator may clear it.
* `TamperedLock`: the operator also removes a file that is not `Left`
  (`disturbed`). `broken` is history: whose file at the path outlived an I/O
  error.
* `ShadowEvidence`: `evidence` is the content of the file, `loaded` what a
  writer has read; `os.replace` is the one step that changes the file
  (`Save`). A heartbeat reads the clock in `HeartbeatCall`, before it asks for
  the lock. A record is its signature; time is counted in ticks. No program
  removes the lock of a live owner, here and in `ShadowCampaign`, so that no
  release finds a missing or foreign file (`ExitRefuses`, `UnlinkFails`);
  `TamperedLock` is the model in which somebody does remove it. Reading or
  unlinking the own file may fail: `ReleaseFails` here, `LeaveFails` for the
  attempt lock. The caller then gets an exception although the evidence may be
  saved, and the lock stays taken.
* `ShadowCampaign`: `stage` follows `main()` of `cli.py` from the attempt lock
  to the end of the with-block; every call may raise and every process may be
  killed at each step. It models the deployment in which `--evidence-path` names
  the file of the observers; with the defaults the command writes
  `data/shadow-evidence.json` and the loops `data/shadow_evidence.jsonl`, so
  the two never meet.
* `CampaignDowntime`: the same beside `covered`, a history of the ticks in which
  something ran.
* `ExecutorCodec`: leg data are the layout, the words at the offsets 8 and 16,
  and whether slices ask for transfer hooks. Magic, version, lengths, indices,
  flags and the signature are the field `wellFormed`, owners and mints of the
  token accounts the field `ownAccounts`; the scripts set both.
* `AtomicExecutor`: `wallet` is the committed state, `work` the copy the
  runtime gives to the transaction. The stages are the instructions of the
  transaction and, inside the program, its checks, the legs, the patch of the
  second amount (`PatchU64`) and the final checks. Pools fill a leg in full or
  in part, at any price. `trade` is the round trip whose transaction is under
  way, and it is this trade's promise (its spend, its allowed loss, its last
  slot) that `AtomicTrade` holds the settlement to, not that of any trade the
  constants list.
* `LiveLoop`: `pc` follows the inner loop from a candidate to the finally
  clause; existence, age and touch of the lock are three steps. A failed
  submission may have reached the network all the same (`Answer`, `NoAnswer`).
  `sent` and `raced` are history.
* `ShadowRoute`: `wallet` is the balance after each slot from
  `min_context_slot` on. A node answers for any slot it may; the second
  balance asks for the simulation's slot or later, the first balance and the
  simulation each for `min_context_slot` or later.
* `Observer`: `up` is the set of services that answer. Every call of the loop
  either gets its answer or raises, which is `Fails`: five seconds, then a new
  connection. `sigs` ends with a connection, `cands` with the process. A
  transaction is `processed` until its fork wins or is given up.
* `HotFlow`: one action per step that another thread can see: the watcher's
  set, the aggregator's, the iteration over `_triggered` and the assignment of
  the new dictionary on one side; filter, row, check of `_triggered`, trigger and pool
  on the other. The filter and the row read `_trending` (line 107), the check
  reads `_triggered` (line 119), and a whole refresh fits between the two.
  `stay` and `overlapped` are history: `overlapped` becomes true when an `add()`
  with enough buys (`counted` or `triggering`) and the aggregator's
  `set_trending` run at the same time, in either order.
* `StrategyLoop`: `pc` follows `main()` through one iteration. `tokens`,
  `wsol` and `inflight` are the chain: what a script reports as submitted
  lands later or never, and what it reports as failed may have been sent.
  `orphans` is history: mints of which the loop has lost tokens from sight. A
  sale sells one unit and closes the token account, which succeeds only if
  nothing is left in it; that is `Sellable`.
* `Gates`, `Sizing` and `Discovery` are operators. A refusal is the set of its
  reasons, and a decision is that there are none. `RequiredGrossProfit` is the
  five-term sum of the configuration, which `cli.py` asks of a trade, and
  `LiveRequired` the three terms that `live-loop.py:275-279` passes. Where the code computes with
  floats and rounds, the model counts in hundredths and allows any nearest whole
  amount (`Rounded`), so that a proof does not rest on how a tie is broken. `summary`
  rounds the runtime to six decimals of an hour, less than two milliseconds; the
  model counts whole seconds, for which that decides nothing. The modules
  `MCShadowRoute` and `MCObserver` compare the operators with the numbers of
  `tests/test_engine.py`, `test_risk.py`, `test_position_sizing.py`, `test_pools.py`
  and with the fixture of `test_replay.py`, as named assumptions
  that TLC evaluates when these runs start; the gate of the direct route is
  compared there with a reference definition over all its inputs in small
  ranges.

## Runs

| Run | Bounds | What it shows |
| --- | --- | --- |
| `tampered_lock` | 3 processes | exclusion, ownership, fail-closed orphans, failures that leave a file only if reading or unlinking it failed, and that otherwise a live process gives its file up |
| `tampered_lock_owner` | 3 processes | counterexample: the lock is not released by its owner only |
| `shadow_campaign` | 2 attempts, 1 observer, 1 signature, 3 instants, gap 1 | uniqueness, durability, runtime within the wall clock, no second attempt, refinement of the ledger, attempts end |
| `campaign_downtime` | the same | counterexample: a short downtime is counted as runtime |
| `atomic_executor` | amounts 0..4, slots 0..1, 5 trades of both directions | the wallet changes only as `AtomicTrade` allows the trade under way; exact patch; other accounts untouched |
| `executor_floor` | the same | counterexample: a round trip below start + minimum profit settles |
| `live_loop` | 2 loops, 2 candidates, 2 routes or directions, age 2 | trades stay apart unless the lock is raced; one submission per candidate |
| `live_loop_lock` | the same | counterexample: two trades at a time |
| `shadow_route` | 2 balances, gains -3..2, required 2, 6 slots, life of 3 slots, start 2 behind | the net is exact unless lamports moved and returned; a landed trade is no older than its life |
| `observer` | 1 transaction with 2 mints, 2 tries, refresh every 2 ticks | written down once, and only if confirmed; it recovers; heartbeats go on without the other services |
| `hot_flow` | 2 mints, 3 transactions, 2 buys in a window of 1, cache life 2, 3 instants, 2 stays | what a signal rests on; when a mint gives one again; pools that graduate |
| `strategy_loop` | 1 mint, 2 slots for positions, 2 sizes, 2 prices, hold of 2, 1 or 2 units | tokens are explained, one position per mint, losses are bounded, one buy of a mint unless the loop lost sight of it, positions end |

Why the bounds are enough to be interesting. Three processes are an owner, one
that comes after it and one that is refused. Two attempts on one signature is
the case the duplicate check exists for; with more signatures the attempts only
separate (the proofs cover them). Three instants with a gap of one give a first
heartbeat, one that counts, one that is late and one that comes too early.
Amounts up to 4 let a trade of 2 lose, gain, fill in part and hit a saturated
floor; a slot of 1 lets a trade expire. Of the five trades three are what the
scripts build, one names an account of another owner and one patches the wrong
word. Two loops, two routes and an age of 2 let a lock be fresh, ageing and
stale while its owner still trades. Two balances let one return; six slots are
three behind and at the tip and three in which the trade may land or expire.
One transaction with two mints gives two candidates, of which one may fail; two
connections deliver it twice. In `hot_flow` one transaction buys the first mint and two buy
both, of the first without paying in SOL: the first mint triggers with the first
transaction and a shared one, the second with the two shared ones, also while
the other mint is not in the universe; the two shared ones are
interchangeable (`SYMMETRY`), and `MaxSeen` of 1 makes the watcher forget. In `strategy_loop` a position has two slots, so that
a second position on the mint would have room; prices 2 and 3 with a target and
a stop of 50 % and a trail of 30 % reach all three exits; one unit is sellable
and two are not. With one mint the cut of the sorted signals
(`signals[:3]`) never drops a signal; it is there for the proofs, which hold
for all mints. The code's limit of positions is 10^9, that is none; a finite
number of slots can only make `RoomFor` false more often.

The bounded quantities (`MaxAmount`, `MaxSlot`, `Times`, `Stays`, `Stale`,
`MaxSlots`, `MaxUnits`) are constants, and the proofs hold for all their
values.

## Fairness

Fairness is assumed for liveness only.

* `AttemptLock!Fairness`: a process in the lock runs on (local file
  operations), to the end of its step or to an I/O error. Such an error is never
  excluded; what it leaves is in `broken`, which `EventuallyGivenUp` excuses. `ShadowCampaign!Fairness`: a started attempt runs on (file
  operations and requests with timeouts, none of which blocks on a lock).
* `StrategyLoop!FairSpec`: the loop takes its next step, since every call in
  it has a timeout (60 s for a script), and time goes on. Nothing has to land,
  to be wrapped or to be started again. `PositionsEnd` holds under it, however
  the prices and scripts answer; a killed process ends its positions by
  forgetting them, which `HoldingsExplained` accounts for.
* `Observer!FairSpec`: the loop takes its next step. `ObserverRecovers` and
  `HeartbeatsGoOn` assume in addition, in their statement, that from some time
  on the services they name answer and the process is not ended; the other
  services may fail for ever.

Nobody is obliged to start anything, to be killed or to clear a lock. Every
run checks deadlock.

## What is proved

For every value of the constants, from the named assumptions in the modules
(`Nobody` is no process, instants are naturals that include 0, the maximum gap
is positive, attempts and observers are disjoint, amounts, slots, sizes, prices
and units are naturals, at least one route, a positive stale age, hold and
time to live, trending answers are not empty). Each safety property that a
passing run checks has a theorem, and there are more that no run checks;
`PROJECT.json` lists the most important of both. The arguments:

* `AttemptLockProofs`: exclusion and release by the owner, without tampering
  and up to the first removal of a live lock; orphans stay; a body in the lock
  never removes another owner's file; an entry or exit that fails leaves nothing
  behind unless reading or unlinking that very file failed (`CleanFailures`); and
  `Spec => FailClosedLock!Spec` (`ImplementsFailClosed`), the docstring's promise,
  with the set of processes that have the path and the orphan as refinement
  mapping. Mutual
  exclusion is not inductive: `LockInv` adds that the process inside is the one
  whose token the file carries, and one between open and write owns the empty
  file.
* `ShadowCampaignProofs`, first part (the store alone): types, unique
  signatures, runtime within the wall clock, and the refinement
  `StoreSpec => Ledger!Spec`. `EvidenceOnlyGrows` is the action property behind
  the word durable, and `ThresholdsStayReached` what it means for the promotion
  gate: hours and candidates, once reached, stay. The invariant `StoreInv` rests on `Fresh`: what a
  writer has loaded is what the file still contains when it saves. `Fresh`
  needs the write lock's `LockInv`, taken from `AttemptLockProofs` by
  instantiation, and the alignment of calls and lock.
* `ShadowCampaignProofs`, second part: every campaign is a behaviour of the
  store (`Spec => StoreSpec`), which carries the store's theorems over; types;
  and, with a second instance of the lock's proofs for the attempt lock, that
  no attempt works on a recorded signature and that a success is durable. The
  invariant is `RecordInv`, with the body inside the attempt lock and a record
  under way being that of the attempt's own trigger (`CallInv`). Both locks,
  in the way the campaign uses them, implement `FailClosedLock`
  (`WriteLockFailsClosed`, `AttemptLockFailsClosed`): every step of the campaign
  is a step of each lock or leaves it alone, and the steps of the lock's own
  refinement carry over. `NoLockNoAttempt` is what the status command relies on
  when it looks for the lock file.
* `AtomicExecutorProofs`: types (no amount leaves its width), the exact patch,
  no third account touched, and `Spec => Promise!Spec`. The invariant
  `ExecInv` follows the bounds of the copy from stage to stage: what was
  funded, what was spent, that the inventory was empty, the trade not late and
  the offset of the patch 8 since the checks. `ComposedIsWellBuilt` is the
  contract of the codec: a round trip that the scripts compose, in either
  direction and for all amounts, passes the program's checks of layouts,
  placeholders and offset exactly when the pool asks for no transfer hook: a
  hooked pool is composed all the same and refused. In both cases the offset that
  `dynamicAmountOffset()` finds is where a patch changes the amount and nothing
  else. The encoding itself and the owners of the accounts are taken as they are.
* `LiveLoopProofs`: types, `OneTradeUnlessRaced` and
  `OneSubmissionPerCandidate`. Exclusion needs that nobody else is near the
  lock and that a trade is covered by a lock that is not stale, up to the
  first race; single submission needs that before a submission nothing was
  sent for the candidate and that it counts as seen. `LockTakenWhenFree` and
  `TradeKeepsItsLock` are about the two steps that check nothing, the touch and
  the removal: up to a race neither meets the trade of another loop. The first
  needs `TouchInv`, that a loop about to touch found the lock absent or old.
* `ShadowRouteProofs`: types, `NetExactUnlessMoved`, `LandsFresh`. `RouteInv`
  says of which slot each answer is and that the net was computed from them;
  balances once in the wallet's history stay there. That the second balance is
  not older than the simulation is what puts the simulation between two equal
  balances. The second part is about `Gates`. `JudgeIsTheDirectGate` ties the
  state machine to the full gate; `DirectApprovalBounds` says what an approval
  means, and `LossPassesSmallGainDoesNot` that between minus and plus the sum
  exactly the losses pass. `ApprovedTripPays` is the purpose of the costs of the
  Jupiter path; `BetterTripStaysApproved` and `ReturnHasTheSign` are what a
  reader takes for granted of a gate and of a rate. `CallersDifferByFeeAndTip`
  derives this module's assumptions from `load_config`, for the sum of either
  caller, and says on which nets the two callers disagree; it has to assume that
  the three reserves are not negative, which `load_config` does not check.
* `ObserverProofs`: types, `RecordedOnce`, `RecordsConfirmed`. A candidate is
  written at most once because it is seen before it is written
  (`SeenBeforeWritten`), and it is a confirmed buy because what is under way is
  one (`WorkingOnConfirmed`): confirmation is final. Of `Discovery`: the
  replay is monotone in its two thresholds; the choice of the pools is compared
  with the tests by TLC only.
* `HotFlowProofs`: types and the four properties of the run. `EvidenceInv`:
  every row's transaction is in `flowSeen`, so that it cannot be collected
  again, for another mint or by a second delivery. `ApartInv` and `StayInv`
  hold up to the first overlap of the two threads: a mint that has signalled in
  this stay is triggered, also in the dictionary that is being rebuilt, and a
  mint that was counted is still in the universe when it is triggered.
* `StrategyLoopProofs`: types and the four safety properties of the run.
  `IInv` is types, `Money`, `Holdings`, `OneBuyUnlessLost` and
  `TargetEndsPosition` (which no run checks). `Money` adds
  that the buy that waits for its position was within the limits when it was
  allowed; `Holdings` adds that sales are under way in their phase only, and
  that a sale on the way leaves no buy behind unless it is an orphan.
  `MediumGoesFirst` is an action property of every behaviour: what the sort does
  with two waiting signals. Of `Sizing`, for whole numbers of cents, lamports and
  percentages of at most 100: what the risk gate allows is within its limits
  (`TradeWithinLimits`), and no better snapshot is treated worse
  (`BetterNeverRisksLess`, which needs equally many settled attempts: one more
  ends the pilot and may lock the gate); entries leave the reserve
  (`EntryLeavesReserve`); tips are ordered by urgency (`TipsAreOrdered`, without
  the low one, whose average may be above the percentiles of a message).

Only model-checked: the liveness properties (`EventuallyGivenUp`,
`AttemptEnds`, `PositionsEnd`, `ObserverRecovers`, `HeartbeatsGoOn`) and the
four counterexamples. Liveness under fairness is beyond this prover. So is
induction over data: that the net of `Summary` is the sum of all records is
compared for two records by TLC, and no theorem rests on it.

## Where code and documents disagree

Four counterexamples are runs (see `findings` in `PROJECT.json`):

1. `AttemptLock` promises release by its owner only (`coordination.py:22`).
   Once a live lock is removed by hand and the path is locked again, an
   `unlink` after an earlier comparison, or the one of a failed write, removes
   the next owner's file.
2. README lines 172-173 promise that downtime does not inflate the 72-hour
   gate; a downtime of at most 120 s is counted.
3. README line 60, `lib.rs:5-8` and a test promise a profit floor; the code
   reads the field as an allowed loss (`lib.rs:421-425`). The callers pass the
   required gross profit as `minimumProfit`, so demanding more profit allows a
   larger loss on chain, and a value above the starting balance allows any.
4. `live-loop.py:12` promises one trade at a time; the lock is not atomic, is
   taken over after 120 s and is removed by whoever finishes.

Others have no run of their own. Most are visible in a model: the action does
what the code does, and a comment says what was expected.

* The README says that submission is hard disabled and `dry_run: false` fails
  closed (lines 41, 44, 156), while `ops/live-loop.py`, `ops/strategy_loop.py`
  and several scripts submit. `live-loop.py` documents trades that are
  profitable; its gate approves a loss up to the required profit as well
  (`ShadowRoute!Worthwhile`).
* The gain that a trade has to bring is the five-term sum of the configuration in
  `cli.py`; `live-loop.py:275-279` passes three of the terms, without the largest
  fee and the tip. The live loop therefore sends gains that do not cover them
  and that the command would refuse (`Gates!LiveRequired`,
  `CallersDifferByFeeAndTip`).
* README line 39 calls the net an exact balance delta. It is, under the two
  conditions of `NetExactUnlessMoved`: the simulation is not of an older slot
  than the first balance, and no lamports moved and moved back.
* With the default time to live of 2 slots and `min_context_slot` two slots
  behind the tip, a trade is valid up to the slot that was read and no longer.
  The example configuration uses 10.
* The daily loss of `live-loop.py:13` is counted at line 363 and never
  compared. In `strategy_loop.py` a submitted buy is charged 1 % of its size,
  a failed one its whole size, and what a position really lost is never
  charged: `LossBounded` bounds what is charged.
* `buy-token.mjs:9` sells the full token balance back; line 107 sells one unit
  (`new BN(1)`) and line 117 closes the account, which fails if anything is
  left. A sale of more than one unit therefore never lands, and the position
  is closed before it is tried: this is the largest part of `orphans`.
* The sort of the signals (line 646) puts the medium ones before the high
  ones, against its comment on line 645 (`StrategyLoop!Ahead`). The fixed
  target is said to apply only without a trailing stop (line 166) and always
  applies: an open position that was ever at it is none (theorem `TargetIsFixed`).
* `shadow-loop.py`: the first heartbeat is skipped on a machine that has been
  up for less than 60 s (`last_heartbeat` starts at 0 and the clock is
  monotonic); a candidate is remembered before its routes are asked for, so
  that an error there loses it; its name has no buyer, so that two large buyers
  of one mint in one transaction are one; a `KeyError` is not among the errors
  that reconnect and ends the process.
* The risk policy stops for the day at a loss of 3 % (`risk.py:12`), while a
  single pilot trade may risk 5 % (line 8). `load_config` bounds every amount but
  the three reserves: a negative one makes the required sum smaller.
* `jito_sender.py:76` uses `asyncio`, which the file does not import; nothing
  calls it.
* Every signal of an iteration is sized from the wallet's balance before any of
  them is bought, so that `EntryLeavesReserve` is about one entry, not about
  three.
* The status command reads the evidence before it looks for the lock file: an
  attempt may record and release in between, so that its answer can be of the
  moment before. `NoLockNoAttempt` holds at each moment.
* `token_2022_accounts_are_rejected` (`lib.rs:498`) contradicts
  `lib.rs:180-182`, which accepts both token programs.

## Not modelled

* Copy trader (`copytrader.py`): line 201 uses an undefined name for every
  event that qualifies, the handler raises, and the connection is made anew.
  No signal is ever put into its queue, so that the strategy loop's copy-trade
  branch sees nothing. There is no behaviour to state properties of.
* Sniper and wallet scorer: `strategy_loop.py:589` sets the sniper to `None`;
  the scorer is a cache in front of HTTP requests that only the sniper uses.
* Bundle sender: `strategy_loop.py` creates it and never calls it. The thread
  of the tip stream replaces one dictionary; what is made of it is in `Sizing`.
* Dry-run mode of `strategy_loop.py`: it writes signals to a log
  and opens no position; `StrategyLoop` is the live mode.
* `RuntimeState` of `state.py`, which no program uses; the parsing of the
  configuration file.
* Detector arithmetic: the sums of `detect_large_buys` are a choice among the
  buys of a transaction in `Observer`.
* Program deployment (`deploy-executor.py`): a one-off operator script whose
  behaviour is that of the upgradeable loader, which is outside the repository.
* Lookup tables, compute units, byte layouts of the venues' instructions; the
  requests and the parsing of `pools.py`, `jupiter.py` and most of
  `providers.py`; the report, which prints; operator scripts.
* The web socket's reconnect in `momentum.py`: it keeps every set, so that it
  is messages missed, which `HotFlow` allows at any time.

Assumptions about the world: the clock is not set back; a signature is
well-formed; the evidence file is not edited by hand; a confirmed transaction
stays confirmed; the RPC nodes agree on the balance after a slot. Two loops in
one process do not occur. `contains` reads the file without a lock: it is one
step, because the file is replaced as a whole. `LiveLoop` and `ShadowRoute`
are not composed: an assessment meets the previous transaction of its own loop
only as somebody who moves lamports.

## What is left

Everything the loops do with shared or persistent state is modelled, and what
they decide without it. Worth adding next, in this order: the composition of
`HotFlow` with `StrategyLoop` (the queue between them, and a mint that triggers
again after a refresh while a position on it is open); of `Observer` with
`ShadowCampaign` (an orphaned write lock seen from both sides; today `Observer`
has it as a service that does not answer); and theorems about the codec's
rejections, that no instruction the program accepts lets a leg touch an account
it does not check.
