----------------------------- MODULE MCHotFlow -----------------------------
(***************************************************************************)
(* Two mints.  One transaction buys one of them, two buy both: each mint   *)
(* has enough buyers to trigger, and they share some.                      *)
(***************************************************************************)
EXTENDS HotFlow, TLC

CONSTANTS m1, m2, t1, t2, t3

TwoBuys == <<[mint |-> m1, sol |-> 0], [mint |-> m2, sol |-> 1]>>
MCBuys == t1 :> <<[mint |-> m1, sol |-> 1]>> @@ t2 :> TwoBuys @@ t3 :> TwoBuys

\* t2 and t3 buy the same.
Twins == Permutations({t2, t3})

MCAnswers == {{m2}, {m1, m2}}
=============================================================================
