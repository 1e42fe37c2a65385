-------------------------- MODULE MCWalletStartup --------------------------
(* Instantiates WalletStartup for TLC: two transactions, in the first and  *)
(* the second block of a chain of at most two blocks above genesis.       *)
EXTENDS WalletStartup

CONSTANTS t1, t2

MCTxs == {t1, t2}

MCTxHeight == [t \in MCTxs |-> IF t = t1 THEN 1 ELSE 2]
=============================================================================
