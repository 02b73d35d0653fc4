-------------------------- MODULE CampaignDowntime --------------------------
(***************************************************************************)
(* ShadowCampaign beside a history of its uptime: the runtime that the     *)
(* heartbeats add up is compared with the time in which any process ran.   *)
(***************************************************************************)
EXTENDS ShadowCampaign

VARIABLE
  covered  \* ticks during which some attempt or observer was running

downtimeVars == <<vars, covered>>

Up == (\E a \in Attempts : Running(a)) \/ (\E o \in Observers : beatAt[o] # Down)

DowntimeInit == Init /\ covered = 0

DowntimeNext ==
  /\ Next
  /\ covered' = IF clock' # clock /\ Up THEN covered + 1 ELSE covered

DowntimeSpec == DowntimeInit /\ [][DowntimeNext]_downtimeVars

----------------------------------------------------------------------------
\* "wall-clock downtime cannot inflate the 72-hour gate" (README.md:172-173):
\* no more runtime is counted than something was running.
DowntimeNeverCounts == evidence.runtime <= covered
=============================================================================
