SPECIFICATION Spec
CONSTANTS
  Procs = {p1, p2}
  Candidates = {c1, c2}
  NoCandidate = NoCandidate
  Combos = 2
  Stale = 2
INVARIANTS
  OneTradeAtATime
