\* A zap or a wallet load that fails, after which Shutdown() runs with
\* pwalletMain set: does the wallet's locator still name only scanned blocks?
CONSTANTS
  t1 = t1
  t2 = t2
  Txs <- MCTxs
  TxHeight <- MCTxHeight
  MaxHeight = 2
  ZapArgs = {"absent", "1"}
  RescanArgs = {"absent", "1"}
  ZapResults = {"DB_LOAD_OK", "DB_CORRUPT"}
  LoadResults = {"DB_LOAD_OK", "DB_NEED_REWRITE"}
  CrashAt = {}
  MaxStarts = 2
SPECIFICATION Spec
INVARIANT WalletAtRestConsistent
