--------------------------- MODULE EvidenceLedger ---------------------------
(***************************************************************************)
(* What the shadow evidence promises, whatever happens to its writers: an  *)
(* append-only list of signatures without duplicates, and a runtime that   *)
(* grows by the interval between consecutive heartbeats, when that         *)
(* interval is at most MaxGap.  Each change is a single atomic step.       *)
(***************************************************************************)
EXTENDS Integers, Sequences

CONSTANTS Signatures, Times, MaxGap

VARIABLE ledger

NoBeat == -1
EmptyLedger == [runtime |-> 0, last |-> NoBeat, records |-> <<>>]

Recorded(l) == {l.records[i] : i \in DOMAIN l.records}

Record(s) ==
  /\ s \notin Recorded(ledger)
  /\ ledger' = [ledger EXCEPT !.records = Append(@, s)]

FirstBeat(t) ==
  /\ ledger.last = NoBeat
  /\ ledger' = [ledger EXCEPT !.last = t]

CoveringBeat(t) ==
  /\ ledger.last # NoBeat
  /\ t - ledger.last \in 0..MaxGap
  /\ ledger' = [ledger EXCEPT !.last = t, !.runtime = @ + (t - ledger.last)]

LateBeat(t) ==
  /\ ledger.last # NoBeat
  /\ t - ledger.last > MaxGap
  /\ ledger' = [ledger EXCEPT !.last = t]

Init == ledger = EmptyLedger

Next ==
  \/ \E s \in Signatures : Record(s)
  \/ \E t \in Times : FirstBeat(t) \/ CoveringBeat(t) \/ LateBeat(t)

Spec == Init /\ [][Next]_ledger
=============================================================================
