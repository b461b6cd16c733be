SPECIFICATION Spec
CONSTANTS
  s1 = s1
  s2 = s2
  t1 = t1
  t2 = t2
  w0 = w0
  w1 = w1
  Scanners = {s1, s2}
  Inserter = Inserter
  Orphan = Orphan
  Txs = {t1, t2}
  Wallets = {w0, w1}
  ZeroAddress = w0
  BlockOf <- MCBlockOf
  TxTo <- MCTxTo
  Deployments <- MCDeployments
  MaxBlock = 2
  BlockCacheSize = 2
  TxCacheSize = 2
  WalletCacheSize = 2
  ErrCap = 4
INVARIANTS TypeOK ProcessedMeansStored WalletsFirst NothingDropped CallsGoOn ShutdownGoesOn
