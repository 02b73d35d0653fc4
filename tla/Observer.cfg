SPECIFICATION FairSpec
CONSTANTS
  Txs = {t1}
  NoTx = NoTx
  Mints = {m1, m2}
  Buys <- MCBuys
  Tries = 2
  Refresh = 2
INVARIANTS
  TypeOK
  RecordedOnce
  RecordsConfirmed
PROPERTIES
  ObserverRecovers
  HeartbeatsGoOn
