---------------------------- MODULE ShadowRoute ----------------------------
(***************************************************************************)
(* The assessment of a route, run_direct_shadow_route of                   *)
(* backrunner/shadow.py as ops/live-loop.py calls it: a balance, a         *)
(* simulation and a second balance, each answered by some node for some    *)
(* slot, and the gate in front of the submission.                          *)
(*                                                                         *)
(* A node answers for any slot from minContextSlot to the tip, and the     *)
(* next question may go to another node: the three answers are of three    *)
(* slots.  Everybody may move the wallet's lamports between two slots.     *)
(*                                                                         *)
(* Abstraction: slots are counted from min_context_slot, 1 is that slot;   *)
(* a simulated trade is its gain; sizes, fees and logs are one answer of   *)
(* which any may refuse.  The loop's next assessment does not meet the     *)
(* transaction of this one, except as somebody who moves lamports.         *)
(***************************************************************************)
EXTENDS Integers, Sequences

CONSTANTS
  Lamports,   \* the balances of the wallet
  Gains,      \* what a simulated trade may bring
  Required,   \* required_gross_profit_lamports
  Behind,     \* how many slots min_context_slot is behind the tip: 2
  TTL,        \* slot_ttl
  MaxSlots    \* bound on the slots of an assessment

ASSUME LamportsAssumption == Lamports \subseteq Int /\ Gains \subseteq Int
ASSUME NumbersAssumption ==
  /\ Required \in Nat /\ Behind \in Nat /\ TTL \in Nat /\ MaxSlots \in Nat
  /\ TTL > 0

VARIABLES
  pc,      \* where the assessment stands
  wallet,  \* the balance after each slot, from min_context_slot to the tip
  pre,     \* pre_balance_lamports, and of which slot
  sim,     \* the simulation
  base,    \* post_simulation_baseline_lamports, and of which slot
  net,     \* wallet_net_lamports
  landed   \* the slot in which the transaction landed

answers == <<pre, sim, base, net>>
vars == <<pc, wallet, answers, landed>>

Unknown == [known |-> FALSE, lamports |-> 0]
NoAnswer == [at |-> 0, lamports |-> 0]
NoSimulation == [at |-> 0, gain |-> 0, succeeded |-> FALSE]
Nowhere == 0

Tip == Len(wallet)

Forget == /\ pre' = NoAnswer /\ sim' = NoSimulation /\ base' = NoAnswer /\ net' = Unknown
          /\ wallet' = <<>> /\ landed' = Nowhere

----------------------------------------------------------------------------
Init ==
  /\ pc = "idle" /\ wallet = <<>>
  /\ pre = NoAnswer /\ sim = NoSimulation /\ base = NoAnswer /\ net = Unknown
  /\ landed = Nowhere

\* Mutant: the opportunity is given its time from the tip on.
ValidFromTip == 1 + Behind + TTL
\* The last slot the executor accepts: min_context_slot + slot_ttl.
ValidUntil == 1 + TTL

\* latest_slot() at the processed level, and two slots less.
Ask ==
  /\ pc = "idle" /\ pc' = "balance"
  /\ wallet' \in [1 .. Behind + 1 -> Lamports]
  /\ UNCHANGED <<answers, landed>>

ReadBalance(s) ==
  /\ pc = "balance" /\ pc' = "simulate"
  /\ s \in 1 .. Tip
  /\ pre' = [at |-> s, lamports |-> wallet[s]]
  /\ UNCHANGED <<wallet, sim, base, net, landed>>

\* The executor refuses a slot after the last one.
Simulate(s, gain, ok) ==
  /\ pc = "simulate" /\ pc' = "baseline"
  /\ s \in 1 .. Tip
  /\ ok => s <= ValidUntil
  /\ sim' = [at |-> s, gain |-> gain, succeeded |-> ok]
  /\ UNCHANGED <<wallet, pre, base, net, landed>>

\* Mutant: the second balance may be older than the simulation.
ReadBaselineAnywhere(s) ==
  /\ pc = "baseline" /\ pc' = "judge"
  /\ s \in 1 .. Tip
  /\ base' = [at |-> s, lamports |-> wallet[s]]
  /\ UNCHANGED <<wallet, pre, sim, net, landed>>

\* The second balance is of the simulation's slot or later.
ReadBaseline(s) ==
  /\ pc = "baseline" /\ pc' = "judge"
  /\ s \in sim.at .. Tip
  /\ base' = [at |-> s, lamports |-> wallet[s]]
  /\ UNCHANGED <<wallet, pre, sim, net, landed>>

\* account_lamports[0]: the wallet after the simulated trade.
Account == wallet[sim.at] + sim.gain

\* Mutant: a net of nothing is let through.
WorthwhileOrNothing(n) == n + Required >= 0 /\ (n <= 0 \/ n >= Required)

\* A loss within the configured maximum, or the required profit.
Worthwhile(n) == n + Required >= 0 /\ (n < 0 \/ n >= Required)

\* The account may be missing from the answer; sizes, fees and logs may refuse
\* what is good.
Judge(account, other) ==
  /\ pc = "judge"
  /\ net' = IF base.lamports = pre.lamports /\ account
            THEN [known |-> TRUE, lamports |-> Account - pre.lamports] ELSE Unknown
  /\ pc' = IF /\ sim.succeeded /\ ~other
              /\ base.lamports = pre.lamports /\ account
              /\ Worthwhile(Account - pre.lamports)
           THEN "approved" ELSE "rejected"
  /\ UNCHANGED <<wallet, pre, sim, base, landed>>

\* sign_and_submit: see LiveLoop.
Submit ==
  /\ pc = "approved" /\ pc' = "sent"
  /\ UNCHANGED <<wallet, answers, landed>>

\* Mutant: the answers of one assessment are there in the next.
EndKeeping ==
  /\ pc # "idle" /\ pc' = "idle"
  /\ wallet' = <<>> /\ landed' = Nowhere
  /\ UNCHANGED answers

\* Rejected, not in live mode, the lock held, an error of any call; or, once
\* sent, landed or expired: the next direction, route or candidate.
End ==
  /\ pc # "idle" /\ pc' = "idle"
  /\ Forget

\* The chain goes on, and the wallet is moved by others.
NewSlot(lamports) ==
  /\ pc # "idle" /\ Tip < MaxSlots
  /\ wallet' = Append(wallet, lamports)
  /\ UNCHANGED <<pc, answers, landed>>

\* The transaction lands in a slot the executor accepts.
Lands(lamports) ==
  /\ pc = "sent" /\ landed = Nowhere
  /\ Tip < MaxSlots /\ Tip + 1 <= ValidUntil
  /\ wallet' = Append(wallet, lamports)
  /\ landed' = Tip + 1
  /\ UNCHANGED <<pc, answers>>

Next ==
  \/ Ask
  \/ \E s \in 1 .. Tip : ReadBalance(s) \/ ReadBaseline(s)
  \/ \E s \in 1 .. Tip, gain \in Gains, ok \in BOOLEAN : Simulate(s, gain, ok)
  \/ \E account, other \in BOOLEAN : Judge(account, other)
  \/ Submit \/ End
  \/ \E lamports \in Lamports : NewSlot(lamports) \/ Lands(lamports)

Spec == Init /\ [][Next]_vars

----------------------------------------------------------------------------
Judged == pc \in {"approved", "rejected", "sent"}

\* Every variable keeps its shape, and nothing of an assessment outlives it.
TypeOK ==
  /\ pc \in {"idle", "balance", "simulate", "baseline", "judge", "approved", "rejected", "sent"}
  /\ wallet \in Seq(Lamports)
  /\ pre \in [at : Nat, lamports : Int] /\ base \in [at : Nat, lamports : Int]
  /\ sim \in [at : Nat, gain : Int, succeeded : BOOLEAN]
  /\ net \in [known : BOOLEAN, lamports : Int] /\ landed \in Nat
  /\ pc \in {"idle", "balance"} => pre = NoAnswer /\ sim = NoSimulation
  /\ pc \in {"idle", "balance", "simulate", "baseline"} => base = NoAnswer
  /\ ~Judged => net = Unknown

\* Somebody moved lamports and moved them back.
Returned ==
  \E a, b, c \in 1 .. Tip :
    a < b /\ b < c /\ wallet[a] = wallet[c] /\ wallet[b] # wallet[a]

\* "Exact simulated wallet-net balance delta" (README): the two balances that
\* agree make the net what the simulated trade brings, and what is submitted
\* loses no more than is allowed, unless lamports moved and moved back, or the
\* simulation is of an older slot than the first balance.
NetExactUnlessMoved ==
  Judged /\ pre.at <= sim.at /\ ~Returned =>
    /\ net.known => net.lamports = sim.gain
    /\ pc \in {"approved", "sent"}
         => sim.succeeded /\ ((-Required <= sim.gain /\ sim.gain < 0) \/ Required <= sim.gain)

\* Whatever slot the simulation was of, what lands has aged slot_ttl slots at
\* most since then.
LandsFresh == landed # Nowhere => landed - sim.at <= TTL
=============================================================================
