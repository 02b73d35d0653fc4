SPECIFICATION Spec
CONSTANTS
  m1 = m1
  m2 = m2
  t1 = t1
  t2 = t2
  t3 = t3
  Mints = {m1, m2}
  Txs = {t1, t2, t3}
  Listed = {m1, m2}
  Buys <- MCBuys
  Answers <- MCAnswers
  NoTx = NoTx
  MinBuys = 2
  MinSol = 1
  Window = 1
  PoolTTL = 2
  MaxSeen = 1
  Times = {0, 1, 2}
  Stays = {0, 1, 2}
SYMMETRY Twins
INVARIANTS
  TypeOK
  SignalBacked
  EligibleUnlessOverlapped
  OneSignalPerStayUnlessOverlapped
PROPERTIES
  PoolRecentlyThere
