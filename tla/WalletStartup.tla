--------------------------- MODULE WalletStartup ---------------------------
(***************************************************************************)
(* Step 8 of AppInit2 (src/src/init.cpp:945-1079), the wallet's part of    *)
(* Shutdown() (init.cpp:107-117), over a sequence of runs of the node with *)
(* crashes between them.                                                   *)
(*                                                                         *)
(* The wallet file holds the wallet's transactions, for each of them its   *)
(* metadata (account, order form, time received...), and the best-block    *)
(* locator: the block up to which the wallet has seen the chain, from      *)
(* which the next start rescans.  Every transaction belongs to the wallet  *)
(* and is confirmed at height TxHeight[t] (the genesis block, height 0,    *)
(* holds none of them).  The wallet writes through to its file: an         *)
(* in-memory mapWallet is the file's transaction set.  The wallet's own    *)
(* code (ZapWalletTx, LoadWallet, ScanForWalletTransactions) is not in     *)
(* this repository; it is abstracted to the effects step 8 relies on, and  *)
(* its DBErrors results are inputs.                                        *)
(***************************************************************************)
EXTENDS Integers, FiniteSets

CONSTANTS
  Txs,          (* the wallet's transactions                               *)
  TxHeight,     (* [Txs -> 1..MaxHeight]: height of the block holding each  *)
  MaxHeight,    (* the chain never grows beyond this height                *)
  ZapArgs,      (* values of -zapwallet: "absent", "", "1", "2"             *)
  RescanArgs,   (* values of -rescan: "absent", "0", "1"                    *)
  ZapResults,   (* DBErrors ZapWalletTx may return                         *)
  LoadResults,  (* DBErrors LoadWallet may return                          *)
  CrashAt,      (* program points at which the process may die             *)
  MaxStarts     (* number of times the node is started                     *)

ASSUME
  /\ TxHeight \in [Txs -> 1..MaxHeight]
  /\ ZapArgs \subseteq {"absent", "", "1", "2"}
  /\ RescanArgs \subseteq {"absent", "0", "1"}
  /\ ZapResults \subseteq {"DB_LOAD_OK", "DB_CORRUPT"}
  /\ LoadResults \subseteq {"DB_LOAD_OK", "DB_CORRUPT", "DB_NONCRITICAL_ERROR",
                            "DB_TOO_NEW", "DB_NEED_REWRITE"}

VARIABLES
  best,      (* height of pindexBest, on disk in the block index           *)
  dTx,       (* transactions in the wallet file                            *)
  dMeta,     (* transactions whose original metadata is in the wallet file *)
  dBest,     (* the wallet's best-block locator, -1 when it has none       *)
  args,      (* this run's -zapwallet and the -rescan step 2 left          *)
  pc,        (* where the main thread is                                   *)
  pwallet,   (* pwalletMain: "null", the zapping object, or the main wallet *)
  vWtx,      (* std::vector<CWalletTx> vWtx: the zapped transactions ...   *)
  vMeta,     (* ... and those of them that carried their metadata          *)
  starts     (* runs started so far                                        *)

vars == <<best, dTx, dMeta, dBest, args, pc, pwallet, vWtx, vMeta, starts>>

(* GetBoolArg("-zapwallet", false): atoi of the value, an empty value is   *)
(* true.                                                                   *)
ZapOn(z) == z \in {"", "1", "2"}

-----------------------------------------------------------------------------
(* init.cpp:628-636: -zapwallet soft-sets -rescan to true; an explicit     *)
(* -rescan is left alone.  GetBoolArg("-rescan") defaults to false.        *)
Step2Rescan(z, r) == IF r = "absent" THEN ZapOn(z) ELSE r = "1"

Start ==
  /\ pc = "stopped"
  /\ starts < MaxStarts
  /\ \E z \in ZapArgs, r \in RescanArgs :
       args' = [zapwallet |-> z, rescan |-> Step2Rescan(z, r)]
  /\ pc' = "zap"
  /\ starts' = starts + 1
  /\ UNCHANGED <<best, dTx, dMeta, dBest, pwallet, vWtx, vMeta>>

(* init.cpp:947-960.  ZapWalletTx erases every transaction from the file   *)
(* and hands them back in vWtx; the locator stays.  On an error step 8     *)
(* returns false with pwalletMain still set.                               *)
ZapStep ==
  /\ pc = "zap"
  /\ IF ZapOn(args.zapwallet)
     THEN \E r \in ZapResults :
            IF r = "DB_LOAD_OK"
            THEN /\ vWtx' = dTx
                 /\ vMeta' = dMeta
                 /\ dTx' = {}
                 /\ dMeta' = {}
                 /\ pwallet' = "null"
                 /\ pc' = "load"
            ELSE /\ pwallet' = "zap"
                 /\ pc' = "shutdown"
                 /\ UNCHANGED <<dTx, dMeta, vWtx, vMeta>>
     ELSE /\ pc' = "load"
          /\ UNCHANGED <<dTx, dMeta, vWtx, vMeta, pwallet>>
  /\ UNCHANGED <<best, dBest, args, starts>>

(* LoadWallet results after which records of the file may not have been  *)
(* read ("transaction data ... might be missing", init.cpp:979).           *)
Lossy == {"DB_CORRUPT", "DB_NONCRITICAL_ERROR", "DB_TOO_NEW"}

(* init.cpp:962-1036: LoadWallet; only DB_NEED_REWRITE ends start-up, the  *)
(* other errors are warnings, and start-up goes on with the transactions   *)
(* that were read.  -upgradewallet and the first-run default key change    *)
(* neither transactions nor the locator.                                   *)
LoadStep ==
  /\ pc = "load"
  /\ pwallet' = "main"
  /\ \E r \in LoadResults :
       /\ pc' = IF r = "DB_NEED_REWRITE" THEN "shutdown" ELSE "rescan"
       /\ IF r \in Lossy
          THEN \E read \in SUBSET dTx : /\ dTx' = read
                                       /\ dMeta' = dMeta \cap read
          ELSE UNCHANGED <<dTx, dMeta>>
  /\ UNCHANGED <<best, dBest, args, vWtx, vMeta, starts>>

(* init.cpp:1038-1047: pindexRescan is the genesis block with -rescan,     *)
(* else the locator's block when the wallet has one, else pindexBest.      *)
RescanFrom ==
  IF args.rescan THEN 0
  ELSE IF dBest >= 0 THEN dBest
  ELSE best

(* ScanForWalletTransactions(pindexRescan, true): the blocks from          *)
(* pindexRescan up to the tip; a transaction already in the wallet keeps   *)
(* its metadata, a new one is written without.                             *)
ScanRange(from) == {t \in Txs : from <= TxHeight[t] /\ TxHeight[t] <= best}

(* init.cpp:1048-1054.                                                     *)
RescanStep ==
  /\ pc = "rescan"
  /\ LET from == RescanFrom IN
     IF best # from /\ best > from
     THEN /\ dTx' = dTx \cup ScanRange(from)
          /\ pc' = "restore"
     ELSE /\ pc' = "later"
          /\ UNCHANGED dTx
  /\ UNCHANGED <<best, dMeta, dBest, args, pwallet, vWtx, vMeta, starts>>

(* init.cpp:1056-1078, inside the rescan branch: after -zapwallet other  *)
(* than 2, each zapped transaction found again in mapWallet gets its old   *)
(* metadata back, written to the file.                                     *)
Restores(z) == ZapOn(z) /\ z # "2"

RestoredMeta == (dMeta \ (vWtx \cap dTx)) \cup (vMeta \cap dTx)

RestoreStep ==
  /\ pc = "restore"
  /\ dMeta' = IF Restores(args.zapwallet) THEN RestoredMeta ELSE dMeta
  /\ pc' = "later"
  /\ UNCHANGED <<best, dTx, dBest, args, pwallet, vWtx, vMeta, starts>>

(* Steps 9-12 (init.cpp:1081-1144) either bring the node up or fail, and   *)
(* a shutdown may be requested while it runs.                              *)
LaterSteps ==
  /\ pc = "later"
  /\ pc' \in {"running", "shutdown"}
  /\ UNCHANGED <<best, dTx, dMeta, dBest, args, pwallet, vWtx, vMeta, starts>>

(* A block connected while the node runs: the wallet is told of its        *)
(* transactions (spec section 5, Core -> Wallet) and records them with     *)
(* their metadata, and may record the new tip as its locator.              *)
BlockConnected ==
  /\ pc = "running"
  /\ best < MaxHeight
  /\ best' = best + 1
  /\ LET new == {t \in Txs : TxHeight[t] = best + 1} IN
     /\ dTx' = dTx \cup new
     /\ dMeta' = dMeta \cup new
  /\ dBest' \in {dBest, best + 1}
  /\ UNCHANGED <<args, pc, pwallet, vWtx, vMeta, starts>>

RequestShutdown ==
  /\ pc = "running"
  /\ pc' = "shutdown"
  /\ UNCHANGED <<best, dTx, dMeta, dBest, args, pwallet, vWtx, vMeta, starts>>

(* init.cpp:107-117: with pwalletMain set, whatever AppInit2 did, the      *)
(* wallet's locator is set to pindexBest; then the wallet is deleted.      *)
ShutdownWallet ==
  /\ pc = "shutdown"
  /\ dBest' = IF pwallet # "null" THEN best ELSE dBest
  /\ pwallet' = "null"
  /\ vWtx' = {}
  /\ vMeta' = {}
  /\ pc' = "stopped"
  /\ UNCHANGED <<best, dTx, dMeta, args, starts>>

(* The process dies: what is in memory is gone, the files stay.            *)
Crash ==
  /\ pc \in CrashAt
  /\ pc' = "stopped"
  /\ pwallet' = "null"
  /\ vWtx' = {}
  /\ vMeta' = {}
  /\ UNCHANGED <<best, dTx, dMeta, dBest, args, starts>>

-----------------------------------------------------------------------------
(* A wallet that last stopped with the chain at dBest, or never recorded a *)
(* locator, over a chain that may have grown since.                        *)
Init ==
  /\ best \in 0..MaxHeight
  /\ dBest \in -1..best
  /\ dTx = {t \in Txs : TxHeight[t] <= IF dBest = -1 THEN best ELSE dBest}
  /\ dMeta = dTx
  /\ args = [zapwallet |-> "absent", rescan |-> FALSE]
  /\ pc = "stopped"
  /\ pwallet = "null"
  /\ vWtx = {}
  /\ vMeta = {}
  /\ starts = 0

Finished == pc = "stopped" /\ starts = MaxStarts /\ UNCHANGED vars

Next ==
  \/ Start \/ ZapStep \/ LoadStep \/ RescanStep \/ RestoreStep \/ LaterSteps
  \/ BlockConnected \/ RequestShutdown \/ ShutdownWallet \/ Crash \/ Finished

Spec == Init /\ [][Next]_vars

-----------------------------------------------------------------------------
(* Properties.                                                             *)

(* Once step 8 is over, every transaction of the wallet in the active      *)
(* chain is in the wallet: -zapwallet "deletes all wallet transactions and *)
(* rebuilds transactions from blockchain data" (help, init.cpp:379), so    *)
(* the rescan that follows the zap must start early enough.                *)
WalletComplete ==
  pc \in {"later", "running"} => {t \in Txs : TxHeight[t] <= best} \subseteq dTx

(* Between runs, the wallet file holds every transaction up to its         *)
(* locator: the next start rescans only from the locator, so a block below *)
(* it whose transactions are missing is never scanned again.               *)
WalletAtRestConsistent ==
  (pc = "stopped" /\ dBest >= 0) => {t \in Txs : TxHeight[t] <= dBest} \subseteq dTx

=============================================================================
