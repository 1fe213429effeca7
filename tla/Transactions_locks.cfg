SPECIFICATION FairSpec
CONSTANTS
  r1 = r1
  r2 = r2
  r3 = r3
  aNgn = aNgn
  aGbp = aGbp
  bNgn = bNgn
  bGbp = bGbp
  TXN = TXN
  Requests = {r1, r2, r3}
  Accounts = {aNgn, aGbp, bNgn, bGbp}
  Counters = {TXN}
  Opening <- MCOpening
  ProgramsOf <- MCPrograms
  MaxSeq = 2
  MaxConnections = 2
  Nobody = Nobody
INVARIANTS TypeOK NothingLost ReferencesUnique PoolNeverStuck
PROPERTIES RunsSerially EveryTransactionEnds
