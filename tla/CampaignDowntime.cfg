SPECIFICATION DowntimeSpec
CONSTANTS
  Procs = {a1, a2, o1}
  Attempts = {a1, a2}
  Observers = {o1}
  Nobody = Nobody
  Signatures = {s1}
  Times = {0, 1, 2}
  MaxGap = 1
INVARIANTS
  DowntimeNeverCounts
