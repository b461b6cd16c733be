SPECIFICATION Spec
CONSTANTS
  w0 = w0
  w2 = w2
  w3 = w3
  t1 = t1
  t2 = t2
  t3 = t3
  NoScore = NoScore
  Nodes = {0, 1}
  Wallets = {w0, w2, w3}
  Txs = {t1, t2, t3}
  Addr <- MCAddr
  TxFrom <- MCTxFrom
  TxTo <- MCTxTo
  TxValue <- MCTxValue
  TxFee <- MCTxFee
  Base = 2
  Width = 2
  ResultsPerPage = 1
  Deployments <- MCDeployments
INVARIANTS TypeOK  ScoresComplete CompletedPassVisible  TotalCountIsThere PassGoesOn
CHECK_DEADLOCK FALSE
