SPECIFICATION Spec
CONSTANTS
  MaxAmount = 4
  MaxSlot = 1
  Fee = 1
  Trades <- MCTrades
INVARIANTS
  TypeOK
  FullFillLeavesNothing
PROPERTIES
  HonoursPromise
  OtherAccountsUntouched
