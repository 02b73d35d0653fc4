------------------------------ MODULE Observer ------------------------------
(***************************************************************************)
(* The candidate observer: ops/shadow-loop.py on top of the log stream of  *)
(* backrunner/stream.py and the detector.  ops/live-loop.py watches with   *)
(* the same lines and tries the routes of a candidate instead.             *)
(*                                                                         *)
(* The network, GMGN and the evidence file answer or not, each as it likes;*)
(* a call that is not answered raises, and every error reconnects.         *)
(*                                                                         *)
(* Abstraction: a tick is the 60 s between two heartbeats; a transaction   *)
(* is the mints it bought for enough money; the detector's sums are not    *)
(* modelled.  A candidate's name has no buyer: two buyers are one.         *)
(***************************************************************************)
EXTENDS Integers

CONSTANTS
  Txs, NoTx,
  Mints,
  Buys,     \* the mints of which a transaction may be a large buy, as prices are
  Tries,    \* how often a transaction is asked for: 12
  Refresh   \* ticks between two requests for the trending mints: 2

ASSUME TxAssumption == NoTx \notin Txs
ASSUME BuysAssumption == Buys \in [Txs -> SUBSET Mints]
ASSUME TriesAssumption == Tries \in Nat /\ Tries > 0 /\ Refresh \in Nat /\ Refresh > 0

VARIABLES
  up,       \* what answers
  status,   \* what becomes of each transaction
  pc,       \* where the observer stands
  sigs,     \* seen_signatures of the connection
  cands,    \* seen_candidates of the process
  trending, \* trending_mints
  due,      \* whether 60 s have passed since last_heartbeat
  age,      \* ticks since last_refresh
  tx,       \* the transaction of the event
  tries,    \* how often it will still be asked for
  found,    \* the mints of its candidates that were not looked at
  records   \* how often this process wrote each candidate down

world == <<up, status>>
position == <<tx, tries, found>>
memory == <<sigs, cands, trending, due, age, position, records>>
vars == <<world, pc, memory>>

\* "evidence" answers while nobody holds or left behind its write lock.
Services == {"stream", "rpc", "gmgn", "evidence"}
Candidates == {<<t, m>> : t \in Txs, m \in Mints}

Goto(from, to) == pc = from /\ pc' = to

\* One of the errors the loop knows: it waits 5 s and connects again.
Fails(service) == service \notin up /\ pc' = "backoff"
Answers(service) == service \in up

\* The mints of four intervals; an answer without any keeps the known ones.
TrendingMints == {trending} \cup ((SUBSET Mints) \ {{}})

\* Buyers whose balance of a trending mint grew, for enough SOL or stable coins
\* at the price of the day.
DetectLargeBuys == SUBSET (Buys[tx] \cap trending)

----------------------------------------------------------------------------
Init ==
  /\ up \in SUBSET Services /\ status = [t \in Txs |-> "processed"]
  /\ pc = "down"
  /\ sigs = {} /\ cands = {} /\ trending = {} /\ due = FALSE /\ age = 0
  /\ tx = NoTx /\ tries = 0 /\ found = {}
  /\ records = [c \in Candidates |-> 0]

\* Without an answer of GMGN the process does not start.  The first heartbeat
\* is due unless the machine has been up for less than 60 s.
Start ==
  /\ Goto("down", "connecting")
  /\ Answers("gmgn") /\ trending' \in SUBSET Mints
  /\ due' \in BOOLEAN
  /\ UNCHANGED <<world, sigs, cands, age, position, records>>

\* Mutant: the candidates are those of the connection.
ConnectAfresh ==
  /\ pc = "connecting"
  /\ \/ Fails("stream") /\ UNCHANGED <<sigs, cands>>
     \/ Answers("stream") /\ pc' = "looping" /\ sigs' = {} /\ cands' = {}
  /\ UNCHANGED <<world, trending, due, age, position, records>>

\* A connection has seen nothing.
Connect ==
  /\ pc = "connecting"
  /\ \/ Fails("stream") /\ UNCHANGED sigs
     \/ Answers("stream") /\ pc' = "looping" /\ sigs' = {}
  /\ UNCHANGED <<world, cands, trending, due, age, position, records>>

\* Mutant: the trending mints are asked for first.
HeartbeatLate ==
  /\ pc = "looping"
  /\ \/ ~due /\ pc' = "refreshing" /\ UNCHANGED due
     \/ due /\ Fails("evidence") /\ UNCHANGED due
     \/ due /\ age >= Refresh /\ Fails("gmgn") /\ UNCHANGED due
     \/ due /\ Answers("evidence") /\ (age >= Refresh => Answers("gmgn"))
        /\ pc' = "refreshing" /\ due' = FALSE
  /\ UNCHANGED <<world, sigs, cands, trending, age, position, records>>

\* evidence.heartbeat()
Heartbeat ==
  /\ pc = "looping"
  /\ \/ ~due /\ pc' = "refreshing" /\ UNCHANGED due
     \/ due /\ Fails("evidence") /\ UNCHANGED due
     \/ due /\ Answers("evidence") /\ pc' = "refreshing" /\ due' = FALSE
  /\ UNCHANGED <<world, sigs, cands, trending, age, position, records>>

\* An empty answer keeps the mints; the price is asked for after they changed.
RefreshTrending ==
  /\ pc = "refreshing"
  /\ \/ age < Refresh /\ pc' = "polling" /\ UNCHANGED <<trending, age>>
     \/ /\ age >= Refresh
        /\ trending' \in TrendingMints
        /\ \/ Fails("gmgn") /\ UNCHANGED age
           \/ Answers("gmgn") /\ pc' = "polling" /\ age' = 0
  /\ UNCHANGED <<world, sigs, cands, due, position, records>>

\* Nothing within 0.5 s, nothing of the two venues, a signature of before, or
\* a failed transaction.
PollNothing ==
  /\ pc = "polling"
  /\ \/ Fails("stream") /\ UNCHANGED sigs
     \/ Answers("stream") /\ pc' = "looping" /\ sigs' \in {sigs} \cup {sigs \cup {t} : t \in Txs}
  /\ UNCHANGED <<world, cands, trending, due, age, position, records>>

\* An event of a transaction that has succeeded, on some fork.
PollEvent(t) ==
  /\ Goto("polling", "confirming") /\ Answers("stream")
  /\ t \notin sigs
  /\ sigs' = sigs \cup {t}
  /\ tx' = t /\ tries' = Tries
  /\ UNCHANGED <<world, cands, trending, due, age, found, records>>

\* Mutant: the transaction is taken as it was processed.
ConfirmedAsProcessed ==
  /\ Goto("confirming", "working") /\ Answers("rpc")
  /\ found' \in DetectLargeBuys
  /\ UNCHANGED <<world, sigs, cands, trending, due, age, tx, tries, records>>

\* The transaction is found, and its large buys of trending mints in it.
Confirmed ==
  /\ Goto("confirming", "working") /\ Answers("rpc")
  /\ status[tx] = "confirmed"
  /\ found' \in DetectLargeBuys
  /\ UNCHANGED <<world, sigs, cands, trending, due, age, tx, tries, records>>

\* Mutant: it is asked for until it is there.
UnconfirmedUntilThere ==
  /\ pc = "confirming"
  /\ \/ Fails("rpc") /\ UNCHANGED tries
     \/ Answers("rpc") /\ UNCHANGED <<pc, tries>>
  /\ UNCHANGED <<world, sigs, cands, trending, due, age, tx, found, records>>

\* Mutant: one try too many.
UnconfirmedOnceMore ==
  /\ pc = "confirming"
  /\ \/ Fails("rpc") /\ UNCHANGED tries
     \/ /\ Answers("rpc")
        /\ tries' = tries - 1
        /\ pc' = IF tries = 0 THEN "looping" ELSE pc
  /\ UNCHANGED <<world, sigs, cands, trending, due, age, tx, found, records>>

\* It is not, or not yet; after the last try the event is forgotten, and its
\* signature is not.
Unconfirmed ==
  /\ pc = "confirming"
  /\ \/ Fails("rpc") /\ UNCHANGED tries
     \/ /\ Answers("rpc")
        /\ tries' = tries - 1
        /\ pc' = IF tries = 1 THEN "looping" ELSE pc
  /\ UNCHANGED <<world, sigs, cands, trending, due, age, tx, found, records>>

\* A candidate is seen before its routes are asked for; if that fails it is
\* never written down.
Candidate(m) ==
  /\ pc = "working" /\ m \in found
  /\ cands' = cands \cup {<<tx, m>>}
  /\ \/ <<tx, m>> \in cands /\ found' = found \ {m} /\ UNCHANGED <<pc, records>>
     \/ <<tx, m>> \notin cands /\ Fails("rpc") /\ found' = {} /\ UNCHANGED records
     \/ /\ <<tx, m>> \notin cands /\ Answers("rpc")
        /\ found' = found \ {m}
        /\ records' = [records EXCEPT ![<<tx, m>>] = @ + 1]
        /\ UNCHANGED pc
  /\ UNCHANGED <<world, sigs, trending, due, age, tx, tries>>

Worked ==
  /\ Goto("working", "looping") /\ found = {}
  /\ UNCHANGED <<world, memory>>

\* time.sleep(5)
Reconnect ==
  /\ Goto("backoff", "connecting")
  /\ UNCHANGED <<world, memory>>

\* Stopped, killed, or ended by an error the loop does not know.
Dies ==
  /\ pc # "down" /\ pc' = "down"
  /\ sigs' = {} /\ cands' = {} /\ trending' = {} /\ due' = FALSE /\ age' = 0
  /\ tx' = NoTx /\ tries' = 0 /\ found' = {}
  /\ records' = [c \in Candidates |-> 0]
  /\ UNCHANGED world

Tick ==
  /\ pc # "down"
  /\ due' = TRUE /\ age' = IF age < Refresh THEN age + 1 ELSE age
  /\ UNCHANGED <<world, pc, sigs, cands, trending, position, records>>

Toggles(s) ==
  /\ up' = IF s \in up THEN up \ {s} ELSE up \cup {s}
  /\ UNCHANGED <<status, pc, memory>>

\* The fork of a processed transaction wins, or is given up.
Settles(t) ==
  /\ status[t] = "processed"
  /\ \E end \in {"confirmed", "dropped"} : status' = [status EXCEPT ![t] = end]
  /\ UNCHANGED <<up, pc, memory>>

Step ==
  \/ Connect \/ Heartbeat \/ RefreshTrending
  \/ PollNothing \/ \E t \in Txs : PollEvent(t)
  \/ Confirmed \/ Unconfirmed
  \/ \E m \in found : Candidate(m)
  \/ Worked \/ Reconnect

Environment ==
  \/ Start \/ Dies \/ Tick
  \/ \E s \in Services : Toggles(s)
  \/ \E t \in Txs : Settles(t)

Next == Step \/ Environment

Spec == Init /\ [][Next]_vars

\* Every call of the loop has a timeout.  Nobody has to start it again.
FairSpec == Spec /\ WF_vars(Step)

----------------------------------------------------------------------------
\* Every variable keeps its shape.
TypeOK ==
  /\ up \subseteq Services
  /\ status \in [Txs -> {"processed", "confirmed", "dropped"}]
  /\ pc \in {"down", "connecting", "looping", "refreshing", "polling", "confirming",
             "working", "backoff"}
  /\ sigs \subseteq Txs /\ cands \subseteq Candidates /\ trending \subseteq Mints
  /\ due \in BOOLEAN /\ age \in 0..Refresh
  /\ tx \in Txs \cup {NoTx} /\ tries \in 0..Tries /\ found \subseteq Mints
  /\ records \in [Candidates -> Nat]

\* A process writes a candidate down once, although a new connection delivers
\* its event again: seen_signatures ends with the connection, seen_candidates
\* does not.
RecordedOnce == \A c \in Candidates : records[c] <= 1

\* What is written down is a large buy of a transaction that was confirmed,
\* although the stream delivers what was only processed, on forks that are
\* given up and through errors at every call.
RecordsConfirmed ==
  \A t \in Txs, m \in Mints :
    records[<<t, m>>] > 0 => status[t] = "confirmed" /\ m \in Buys[t]

Running(services) == services \subseteq up /\ pc # "down"

\* However it failed, once everything answers the observer polls again and
\* again.
ObserverRecovers == <>[]Running(Services) => []<>(pc = "polling")

\* The heartbeats of the evidence need the stream and the write lock only: they
\* go on, and count as runtime, while every refresh fails and nothing is polled.
HeartbeatsGoOn == <>[]Running({"stream", "evidence"}) => []<>~due
=============================================================================
