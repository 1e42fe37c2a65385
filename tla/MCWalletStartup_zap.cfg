\* One run of the node with -zapwallet=1 and an explicit -rescan=0: does step 8
\* still leave every chain transaction in the wallet?
CONSTANTS
  t1 = t1
  t2 = t2
  Txs <- MCTxs
  TxHeight <- MCTxHeight
  MaxHeight = 2
  ZapArgs = {"1"}
  RescanArgs = {"0"}
  ZapResults = {"DB_LOAD_OK"}
  LoadResults = {"DB_LOAD_OK"}
  CrashAt = {}
  MaxStarts = 1
SPECIFICATION Spec
INVARIANT WalletComplete
