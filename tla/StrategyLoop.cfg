SPECIFICATION FairSpec
CONSTANTS
  Mints = {m1}
  NoMint = NoMint
  Slots = {1, 2}
  Sizes = {100, 200}
  Prices = {2, 3}
  Units = {1, 2}
  MaxUnits = 2
  TradeCap = 100
  Drawdown = 1
  TakeProfit = 50
  StopLoss = 50
  Trail = 30
  Hold = 2
  TopSignals = 1
INVARIANTS
  TypeOK
  HoldingsExplained
  OnePositionPerMint
  LossBounded
  OneBuyUnlessLost
PROPERTIES
  PositionsEnd
