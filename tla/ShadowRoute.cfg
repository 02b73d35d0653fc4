SPECIFICATION Spec
CONSTANTS
  Lamports = {5, 6}
  Gains <- MCGains
  Required = 2
  Behind = 2
  TTL = 3
  MaxSlots = 6
INVARIANTS
  TypeOK
  NetExactUnlessMoved
  LandsFresh
