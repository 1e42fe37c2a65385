--------------------------- MODULE NodeLifecycle ---------------------------
(***************************************************************************)
(* Process start-up and shutdown of a Bean Cash node: the main thread      *)
(* running AppInit / AppInit2 / Shutdown, the shutdown-detection thread,   *)
(* the worker threads that AppInit2 puts into its boost::thread_group     *)
(* (block import, network, stake miner, wallet flusher), the RPC server,  *)
(* and the two sources of a shutdown request (SIGTERM/SIGINT and the RPC  *)
(* "stop" command, both setting fRequestShutdown).                        *)
(*                                                                         *)
(* variant is the entry point whose main thread runs, one of Variants:    *)
(*   "daemon"    src/src/init.cpp AppInit + main (the !QT_GUI build)       *)
(*   "beancashd" src/src/beancashd.cpp AppInit + main                      *)
(*   "qt"        src/src/qt/beancash.cpp main                              *)
(* AppInit2 and Shutdown (init.cpp) are shared by all three.              *)
(***************************************************************************)
EXTENDS Integers, FiniteSets

CONSTANTS
  Variants,     (* the entry points checked                                *)
  ModalStyles   (* whether a worker's message to the GUI carries MODAL      *)

ASSUME Variants \subseteq {"daemon", "beancashd", "qt"}
ASSUME ModalStyles \subseteq BOOLEAN

(* The threads AppInit2 creates in threadGroup.                            *)
Workers == {"import", "net", "miner", "flush"}

(* Threads given pwalletMain itself (init.cpp:1132 ThreadStakeMiner,      *)
(* init.cpp:1142 ThreadFlushWalletDB holds a reference into it).          *)
WalletUsers == {"miner", "flush"}

(* Threads that take cs_main: LoadExternalBlockFile (init.cpp:422), the   *)
(* message handler and the stake miner.                                    *)
LockTakers == {"import", "net", "miner"}

(* Workers that report to the user through uiInterface.ThreadSafeMessage- *)
(* Box: the message handler (clock and alert warnings) and the import     *)
(* thread (AbortNode from ProcessBlock, under cs_main).                    *)
GuiCallers == {"import", "net"}

(* Outcomes of the argument checks done before AppInit2.                   *)
ArgOutcomes == {"ok", "bad_datadir", "bad_network", "help"}

(* -daemon in the two daemon builds: fork(); the parent writes the pid     *)
(* file and returns true, a failed fork returns false, and the child goes  *)
(* on as the node ("ok").                                                  *)
ForkOutcomes == {"forkParent", "forkFailed"}

VARIABLES
  mainPc,            (* program counter of the main thread                 *)
  fRet,              (* AppInit2, or the forked parent, returned true       *)
  exitCode,          (* process exit status, -1 while running               *)
  fRequestShutdown,  (* volatile bool fRequestShutdown, init.cpp:61        *)
  detect,            (* DetectShutdownThread: none/poll/joining/done        *)
  detectInterrupted, (* interruption requested on the detection thread     *)
  wstate,            (* worker thread: none/running/done                    *)
  interrupted,       (* interruption requested on a worker thread          *)
  csMain,            (* holder of cs_main, or "none"                        *)
  wallet,            (* pwalletMain: none/allocated/freed                   *)
  rpc,               (* RPC server threads: off/running/stopped            *)
  sprouting,         (* -sprouting (default true), read at init.cpp:1129   *)
  fServer,           (* RPC server wanted, init.cpp:660-669                 *)
  variant,           (* the entry point: "daemon", "beancashd" or "qt"     *)
  splash,            (* Qt: splashref set (-splash and not -min)            *)
  guiref,            (* Qt: the static guiref points at the main window     *)
  guiWait,           (* workers blocked in a call the GUI thread must run   *)
  posted             (* workers whose queued message the GUI has not run    *)

vars == <<mainPc, fRet, exitCode, fRequestShutdown, detect, detectInterrupted,
          wstate, interrupted, csMain, wallet, rpc, sprouting, fServer, variant,
          splash, guiref, guiWait, posted>>

threadVars == <<detect, detectInterrupted, wstate, interrupted, csMain, guiWait, posted>>

uiVars == <<splash, guiref>>

MainPcs == {"args", "setup", "params", "database", "blockindex", "wallet",
            "import", "startnode", "finish", "initOk", "initFailed",
            "joinDetect", "waitShutdown", "eventLoop", "closeWindow", "joinAll",
            "shutdown", "sdLockMain", "sdFree", "sdExit", "exited"}

TypeOK ==
  /\ mainPc \in MainPcs
  /\ fRet \in BOOLEAN
  /\ exitCode \in {-1, 0, 1}
  /\ fRequestShutdown \in BOOLEAN
  /\ detect \in {"none", "poll", "interrupting", "joining", "done"}
  /\ detectInterrupted \in BOOLEAN
  /\ wstate \in [Workers -> {"none", "running", "done"}]
  /\ interrupted \in [Workers -> BOOLEAN]
  /\ csMain \in Workers \cup {"none"}
  /\ wallet \in {"none", "allocated", "freed"}
  /\ rpc \in {"off", "running", "stopped"}
  /\ sprouting \in BOOLEAN
  /\ fServer \in BOOLEAN
  /\ variant \in Variants
  /\ splash \in BOOLEAN
  /\ guiref \in BOOLEAN
  /\ guiWait \subseteq GuiCallers
  /\ posted \subseteq GuiCallers

Running(w) == wstate[w] = "running"

(* A worker waiting for the GUI thread runs nothing else: not even an     *)
(* interruption point.                                                     *)
Blocked(w) == w \in guiWait

(* The GUI thread runs every event posted to it, and a blocked caller      *)
(* returns (the message box has been answered).                            *)
RunGuiEvents ==
  /\ guiWait' = {}
  /\ posted' = {}

(* boost::thread_group::interrupt_all: only threads already in the group.  *)
InterruptAll ==
  interrupted' = [w \in Workers |-> interrupted[w] \/ Running(w)]

(* join_all returns once every thread of the group has finished.          *)
AllJoined == \A w \in Workers : wstate[w] # "running"

(* create_thread takes the group mutex exclusively; join_all holds it     *)
(* shared while it waits, so a creation blocks while the detection        *)
(* thread is inside join_all.                                              *)
CanCreate == detect # "joining"

(* Mutation: the group replaced by the new threads instead of extended.   *)
Start_Replace(W) ==
  wstate' = [w \in W |-> "running"]

Start(W) ==
  wstate' = [w \in Workers |-> IF w \in W THEN "running" ELSE wstate[w]]

-----------------------------------------------------------------------------
(* Shutdown requests.                                                      *)

(* HandleSIGTERM, installed for SIGTERM and SIGINT in AppInit2 step 1.     *)
HandleSIGTERM ==
  /\ mainPc \notin {"args", "setup", "exited"}
  /\ ~fRequestShutdown
  /\ fRequestShutdown' = TRUE
  /\ UNCHANGED <<mainPc, fRet, exitCode, threadVars, wallet, rpc, sprouting, fServer, variant, uiVars>>

(* The RPC "stop" command calls StartShutdown.                             *)
StartShutdown ==
  /\ rpc = "running"
  /\ mainPc # "exited"
  /\ ~fRequestShutdown
  /\ fRequestShutdown' = TRUE
  /\ UNCHANGED <<mainPc, fRet, exitCode, threadVars, wallet, rpc, sprouting, fServer, variant, uiVars>>

-----------------------------------------------------------------------------
(* Main thread before AppInit2: ParseParameters, the data directory check, *)
(* SelectParamsFromCommandLine and -help.  The detection thread is started *)
(* just before AppInit2 in the daemon variant; the Qt main creates the     *)
(* window and sets guiref (qt/beancash.cpp:313-316).                       *)

(* main() of the daemon builds (beancashd.cpp:125-142, init.cpp:269-287)  *)
(* for an AppInit that returns: "fRet && fDaemon" and "fRet" both give 0.   *)
DaemonMainReturn(ok) == IF ok THEN 0 ELSE 1

(* AppInit returns true only as the parent of the -daemon fork.            *)
ArgsExitCode(o) ==
  IF variant = "qt"
  THEN IF o = "bad_network" THEN 0 ELSE 1   \* "return false;" from main
  ELSE DaemonMainReturn(o = "forkParent")

AppInitArgs ==
  /\ mainPc = "args"
  /\ \E o \in ArgOutcomes \cup (IF variant = "qt" THEN {} ELSE ForkOutcomes) :
       IF o = "ok"
       THEN /\ mainPc' = "setup"
            /\ detect' = IF variant = "daemon" THEN "poll" ELSE "none"
            /\ guiref' = (variant = "qt")
            /\ UNCHANGED <<exitCode, fRet>>
       ELSE /\ mainPc' = "exited"
            /\ exitCode' = ArgsExitCode(o)
            /\ fRet' = (o = "forkParent")
            /\ UNCHANGED <<detect, guiref>>
  /\ UNCHANGED <<fRequestShutdown, detectInterrupted, wstate, interrupted,
                 csMain, wallet, rpc, sprouting, fServer, variant, splash, guiWait, posted>>

-----------------------------------------------------------------------------
(* AppInit2, one action per step that another thread can interleave with.  *)

InitStep(from, to) ==
  /\ mainPc = from
  /\ mainPc' = to
  /\ UNCHANGED <<fRet, exitCode, fRequestShutdown, threadVars, wallet, rpc,
                 sprouting, fServer, variant, uiVars>>

InitFail(from) == InitStep(from, "initFailed")

(* Step 1: signal handlers.                                                *)
InitSetup == InitStep("setup", "params")

(* Steps 2-4: parameter interactions, file descriptors, -paytxfee,         *)
(* -mininput, wallet file name, data directory lock.                       *)
InitParameters == InitStep("params", "database") \/ InitFail("params")

(* Steps 5-6: database environment, wallet verification, network setup.   *)
InitDatabase == InitStep("database", "blockindex") \/ InitFail("database")

(* Step 7: LoadBlockIndex, genesis check, then "if (fRequestShutdown)      *)
(* return false".                                                          *)
InitLoadBlockIndex ==
  \/ /\ ~fRequestShutdown
     /\ InitStep("blockindex", "wallet")
  \/ InitFail("blockindex")

(* Step 8: -zapwallet allocates pwalletMain before ZapWalletTx and a      *)
(* failed zap returns with it set; then pwalletMain = new CWallet and      *)
(* LoadWallet, where DB_NEED_REWRITE returns; RegisterWallet ends the      *)
(* step.  Every exit from the step leaves pwalletMain set.                 *)
InitWallet ==
  /\ mainPc = "wallet"
  /\ mainPc' \in {"import", "initFailed"}
  /\ wallet' = "allocated"
  /\ UNCHANGED <<fRet, exitCode, fRequestShutdown, threadVars, rpc, sprouting, fServer, variant, uiVars>>

(* Steps 9-10: create ThreadImport; InitMessage("Loading addresses..."),   *)
(* which with the splash screen runs the GUI thread's pending events; read *)
(* peers.dat.                                                              *)
InitImport ==
  /\ mainPc = "import"
  /\ CanCreate
  /\ Start({"import"})
  /\ IF splash THEN RunGuiEvents ELSE UNCHANGED <<guiWait, posted>>
  /\ mainPc' = "startnode"
  /\ UNCHANGED <<fRet, exitCode, fRequestShutdown, detect, detectInterrupted,
                 interrupted, csMain, wallet, rpc, sprouting, fServer, variant,
                 uiVars>>

(* Step 11: CheckDiskSpace and strErrors may fail; then StartNode, the RPC *)
(* threads when fServer (always without a GUI, init.cpp:668), and the      *)
(* stake miner when -sprouting.  Both failures report through              *)
(* ThreadSafeMessageBox on the main thread (InitError, init.cpp:289-293); *)
(* in Qt that is the GUI thread, whose modal error box runs a nested      *)
(* event loop until the user closes it.                                    *)
InitStartNode ==
  /\ mainPc = "startnode"
  /\ \/ /\ CanCreate
        /\ Start(IF sprouting THEN {"net", "miner"} ELSE {"net"})
        /\ rpc' = IF fServer THEN "running" ELSE rpc
        /\ mainPc' = "finish"
        /\ UNCHANGED <<guiWait, posted>>
     \/ /\ mainPc' = "initFailed"
        /\ IF guiref THEN RunGuiEvents ELSE UNCHANGED <<guiWait, posted>>
        /\ UNCHANGED <<wstate, rpc>>
  /\ UNCHANGED <<fRet, exitCode, fRequestShutdown, detect, detectInterrupted,
                 interrupted, csMain, wallet, sprouting, fServer, variant, uiVars>>

(* Step 12: InitMessage("Done loading"), which with the splash screen runs *)
(* the GUI thread's pending events; the wallet flush thread; then          *)
(* "return !fRequestShutdown".                                             *)
InitFinish ==
  /\ mainPc = "finish"
  /\ IF splash THEN RunGuiEvents ELSE UNCHANGED <<guiWait, posted>>
  /\ CanCreate
  /\ Start({"flush"})
  /\ fRet' = ~fRequestShutdown
  /\ mainPc' = IF fRequestShutdown THEN "initFailed" ELSE "initOk"
  /\ UNCHANGED <<exitCode, fRequestShutdown, detect, detectInterrupted,
                 interrupted, csMain, wallet, rpc, sprouting, fServer, variant, uiVars>>

(* The steps of AppInit2, inside the try of every entry point.            *)
InitSteps == {"setup", "params", "database", "blockindex", "wallet",
              "import", "startnode", "finish"}

(* qt/beancash.cpp:106-112: the critical message box runs the GUI thread's *)
(* event loop until the user closes it, then exit(1), with no join and no  *)
(* Shutdown().                                                             *)
handleRunawayException ==
  /\ RunGuiEvents
  /\ exitCode' = 1
  /\ mainPc' = "exited"

(* An exception out of any step of AppInit2.  The daemon builds catch it   *)
(* and go on with fRet still false, as after a failed step; the Qt main's  *)
(* catch hands it to handleRunawayException.                               *)
AppInit2Throws ==
  /\ mainPc \in InitSteps
  /\ IF variant = "qt"
     THEN handleRunawayException
     ELSE /\ mainPc' = "initFailed"
          /\ UNCHANGED <<exitCode, guiWait, posted>>
  /\ UNCHANGED <<fRet, fRequestShutdown, detect, detectInterrupted, wstate,
                 interrupted, csMain, wallet, rpc, sprouting, fServer, variant,
                 uiVars>>

-----------------------------------------------------------------------------
(* DetectShutdownThread (daemon variant): poll fRequestShutdown, then      *)
(* interrupt_all and join_all.  MilliSleep and join are interruption       *)
(* points, so an interruption from the main thread ends it in either loop. *)

Alive == mainPc # "exited"

(* The poll loop (init.cpp:130-135): MilliSleep is an interruption point, *)
(* so an interruption from the main thread ends the thread there; once     *)
(* the flag is seen, interrupt_all (init.cpp:140).                         *)
DetectPoll ==
  /\ Alive
  /\ detect = "poll"
  /\ \/ /\ detectInterrupted
        /\ detect' = "done"
        /\ UNCHANGED interrupted
     \/ /\ fRequestShutdown
        /\ InterruptAll
        /\ detect' = "interrupting"
  /\ UNCHANGED <<mainPc, fRet, exitCode, fRequestShutdown, detectInterrupted,
                 wstate, csMain, wallet, rpc, sprouting, fServer, variant,
                 uiVars, guiWait, posted>>

(* join_all (init.cpp:141) takes the group's mutex shared for as long as   *)
(* it waits; a thread created between interrupt_all and this step is in    *)
(* the group and was never interrupted.                                    *)
DetectJoinAll ==
  /\ Alive
  /\ detect = "interrupting"
  /\ detect' = "joining"
  /\ UNCHANGED <<mainPc, fRet, exitCode, fRequestShutdown, detectInterrupted,
                 wstate, interrupted, csMain, wallet, rpc, sprouting, fServer, variant,
                 uiVars, guiWait, posted>>

(* join_all returns when every thread of the group has ended; each join is *)
(* an interruption point.                                                  *)
DetectJoin ==
  /\ Alive
  /\ detect = "joining"
  /\ detectInterrupted \/ AllJoined
  /\ detect' = "done"
  /\ UNCHANGED <<mainPc, fRet, exitCode, fRequestShutdown, detectInterrupted,
                 wstate, interrupted, csMain, wallet, rpc, sprouting, fServer, variant,
                 uiVars, guiWait, posted>>

-----------------------------------------------------------------------------
(* Worker threads.  ThreadImport holds cs_main for the whole of            *)
(* LoadExternalBlockFile and returns when its files are read; the other    *)
(* workers loop until interrupted, taking cs_main for bounded sections.    *)
(* An interrupted thread leaves at its next interruption point, releasing  *)
(* cs_main as the stack unwinds.                                           *)

WorkerUnchanged ==
  UNCHANGED <<mainPc, fRet, exitCode, fRequestShutdown, detect,
              detectInterrupted, wallet, rpc, sprouting, fServer, variant,
              uiVars, guiWait, posted>>

WorkerLock(w) ==
  /\ Alive
  /\ ~Blocked(w)
  /\ w \in LockTakers
  /\ Running(w)
  /\ ~interrupted[w]
  /\ csMain = "none"
  /\ csMain' = w
  /\ UNCHANGED <<wstate, interrupted>>
  /\ WorkerUnchanged

WorkerUnlock(w) ==
  /\ Alive
  /\ ~Blocked(w)
  /\ w \in LockTakers \ {"import"}
  /\ csMain = w
  /\ csMain' = "none"
  /\ UNCHANGED <<wstate, interrupted>>
  /\ WorkerUnchanged

ImportFinish ==
  /\ Alive
  /\ ~Blocked("import")
  /\ Running("import")
  /\ ~interrupted["import"]
  /\ wstate' = [wstate EXCEPT !["import"] = "done"]
  /\ csMain' = IF csMain = "import" THEN "none" ELSE csMain
  /\ UNCHANGED interrupted
  /\ WorkerUnchanged

WorkerStop(w) ==
  /\ Alive
  /\ ~Blocked(w)
  /\ Running(w)
  /\ interrupted[w]
  /\ wstate' = [wstate EXCEPT ![w] = "done"]
  /\ csMain' = IF csMain = w THEN "none" ELSE csMain
  /\ UNCHANGED interrupted
  /\ WorkerUnchanged

-----------------------------------------------------------------------------
(* Messages from worker threads to the Qt GUI.                             *)

(* qt/beancash.cpp:51-70 ThreadSafeMessageBox on a worker thread.  With    *)
(* guiref set, QMetaObject::invokeMethod hands the message to the GUI      *)
(* thread: a MODAL one through GUIUtil::blockingGUIThreadConnection(), so  *)
(* the worker waits until the GUI thread has run it, any other as a queued *)
(* event.  With guiref null it is only logged, which changes nothing here. *)
ThreadSafeMessageBox(w) ==
  /\ Alive
  /\ w \in GuiCallers
  /\ Running(w)
  /\ guiref
  /\ w \notin guiWait \cup posted
  /\ \E modal \in ModalStyles :
       IF modal THEN /\ guiWait' = guiWait \cup {w}
                     /\ UNCHANGED posted
                ELSE /\ posted' = posted \cup {w}
                     /\ UNCHANGED guiWait
  /\ UNCHANGED <<wstate, interrupted, csMain>>
  /\ UNCHANGED <<mainPc, fRet, exitCode, fRequestShutdown, detect,
                 detectInterrupted, wallet, rpc, sprouting, fServer, variant, uiVars>>

(* QApplication::exec, from AppInit2's return to the shutdown poll's quit. *)
QtEventLoop ==
  /\ mainPc = "eventLoop"
  /\ guiWait \cup posted # {}
  /\ RunGuiEvents
  /\ UNCHANGED <<mainPc, detect, detectInterrupted, wstate, interrupted, csMain>>
  /\ UNCHANGED <<fRet, exitCode, fRequestShutdown, wallet, rpc, sprouting,
                 fServer, variant, uiVars>>

-----------------------------------------------------------------------------
(* Main thread after AppInit2 returns.                                     *)

MainUnchanged ==
  UNCHANGED <<fRet, exitCode, fRequestShutdown, wallet, rpc, sprouting,
              fServer, variant, uiVars>>

(* init.cpp AppInit: on failure interrupt the detection thread and the     *)
(* group; in both cases join the detection thread, then Shutdown().        *)
AppInitAfterInit2 ==
  /\ variant = "daemon"
  /\ mainPc \in {"initOk", "initFailed"}
  /\ IF mainPc = "initFailed"
     THEN /\ detectInterrupted' = TRUE
          /\ InterruptAll
     ELSE UNCHANGED <<detectInterrupted, interrupted>>
  /\ mainPc' = "joinDetect"
  /\ UNCHANGED <<detect, wstate, csMain, guiWait, posted>>
  /\ MainUnchanged

AppInitJoinDetect ==
  /\ mainPc = "joinDetect"
  /\ detect \in {"none", "done"}
  /\ mainPc' = "shutdown"
  /\ UNCHANGED threadVars
  /\ MainUnchanged

(* beancashd.cpp AppInit: on failure interrupt_all only; on success        *)
(* WaitForShutdown, which polls, then interrupt_all and join_all.          *)
BeancashdAfterInit2 ==
  /\ variant = "beancashd"
  /\ mainPc \in {"initOk", "initFailed"}
  /\ IF mainPc = "initFailed"
     THEN /\ InterruptAll
          /\ mainPc' = "shutdown"
     ELSE /\ mainPc' = "waitShutdown"
          /\ UNCHANGED interrupted
  /\ UNCHANGED <<detect, detectInterrupted, wstate, csMain, guiWait, posted>>
  /\ MainUnchanged

(* Mutation: WaitForShutdown joins without interrupting the group.        *)
WaitForShutdown_NoInterrupt ==
  /\ mainPc = "waitShutdown"
  /\ fRequestShutdown
  /\ mainPc' = "joinAll"
  /\ UNCHANGED <<detect, detectInterrupted, wstate, interrupted, csMain, guiWait, posted>>
  /\ MainUnchanged

(* beancashd.cpp WaitForShutdown: poll the flag, interrupt_all, then the   *)
(* join_all of the joinAll step.                                           *)
WaitForShutdown ==
  /\ mainPc = "waitShutdown"
  /\ fRequestShutdown
  /\ InterruptAll
  /\ mainPc' = "joinAll"
  /\ UNCHANGED <<detect, detectInterrupted, wstate, csMain, guiWait, posted>>
  /\ MainUnchanged

(* qt/beancash.cpp main: on success run the event loop until the 200 ms    *)
(* shutdown poll quits it; either way interrupt_all, join_all, Shutdown(). *)
(* Mutation: after a failed AppInit2, Shutdown() without join_all.        *)
QtAfterInit2_NoJoin ==
  /\ variant = "qt"
  /\ mainPc \in {"initOk", "initFailed"}
  /\ IF mainPc = "initFailed"
     THEN /\ InterruptAll
          /\ mainPc' = "shutdown"
     ELSE /\ mainPc' = "eventLoop"
          /\ UNCHANGED interrupted
  /\ UNCHANGED <<detect, detectInterrupted, wstate, csMain, guiWait, posted>>
  /\ MainUnchanged

QtAfterInit2 ==
  /\ variant = "qt"
  /\ mainPc \in {"initOk", "initFailed"}
  /\ IF mainPc = "initFailed"
     THEN /\ InterruptAll
          /\ mainPc' = "joinAll"
     ELSE /\ mainPc' = "eventLoop"
          /\ UNCHANGED interrupted
  /\ UNCHANGED <<detect, detectInterrupted, wstate, csMain, guiWait, posted>>
  /\ MainUnchanged

(* The detectShutdown slot, polled every 200 ms, quits the event loop     *)
(* once a shutdown is requested (qt/beancash.cpp:317-319, 351).            *)
QtEventLoopQuit ==
  /\ mainPc = "eventLoop"
  /\ fRequestShutdown
  /\ mainPc' = "closeWindow"
  /\ UNCHANGED threadVars
  /\ MainUnchanged

(* After app.exec(): hide the window, drop the models, guiref = 0, show    *)
(* the shutdown window, interrupt_all (qt/beancash.cpp:353-363).           *)
QtCloseWindow ==
  /\ mainPc = "closeWindow"
  /\ guiref' = FALSE
  /\ InterruptAll
  /\ mainPc' = "joinAll"
  /\ UNCHANGED <<detect, detectInterrupted, wstate, csMain, guiWait, posted>>
  /\ UNCHANGED <<fRet, exitCode, fRequestShutdown, wallet, rpc, sprouting,
                 fServer, variant, splash>>

JoinAll ==
  /\ mainPc = "joinAll"
  /\ AllJoined
  /\ mainPc' = "shutdown"
  /\ UNCHANGED threadVars
  /\ MainUnchanged

-----------------------------------------------------------------------------
(* Shutdown(), init.cpp:88-124.  Interleaving points: the blocking         *)
(* LOCK(cs_main), and the gap between delete pwalletMain and exit(0).      *)

(* StopRPCThreads, bitdb.Flush(false), StopNode.                           *)
ShutdownBegin ==
  /\ mainPc = "shutdown"
  /\ rpc' = IF rpc = "running" THEN "stopped" ELSE rpc
  /\ mainPc' = "sdLockMain"
  /\ UNCHANGED <<fRet, exitCode, fRequestShutdown, threadVars, wallet,
                 sprouting, fServer, variant, uiVars>>

(* LOCK(cs_main); pwalletMain->SetBestChain(...).                          *)
ShutdownSetBestChain ==
  /\ mainPc = "sdLockMain"
  /\ csMain = "none"
  /\ mainPc' = "sdFree"
  /\ UNCHANGED threadVars
  /\ MainUnchanged

(* bitdb.Flush(true), pid file, UnregisterAllWallets, delete pwalletMain.  *)
ShutdownFree ==
  /\ mainPc = "sdFree"
  /\ wallet' = IF wallet = "allocated" THEN "freed" ELSE wallet
  /\ mainPc' = "sdExit"
  /\ UNCHANGED <<fRet, exitCode, fRequestShutdown, threadVars, rpc, sprouting,
                 fServer, variant, uiVars>>

(* Without QT_GUI Shutdown ends in exit(0); the Qt main returns 0 after a  *)
(* successful AppInit2 and 1 after a failed one.                            *)
ShutdownExit ==
  /\ mainPc = "sdExit"
  /\ exitCode' = IF variant = "qt" /\ ~fRet THEN 1 ELSE 0
  /\ mainPc' = "exited"
  /\ UNCHANGED <<fRet, fRequestShutdown, threadVars, wallet, rpc, sprouting,
                 fServer, variant, uiVars>>

-----------------------------------------------------------------------------
Init ==
  /\ mainPc = "args"
  /\ fRet = FALSE
  /\ exitCode = -1
  /\ fRequestShutdown = FALSE
  /\ detect = "none"
  /\ detectInterrupted = FALSE
  /\ wstate = [w \in Workers |-> "none"]
  /\ interrupted = [w \in Workers |-> FALSE]
  /\ csMain = "none"
  /\ wallet = "none"
  /\ rpc = "off"
  /\ sprouting \in BOOLEAN
  /\ variant \in Variants
  /\ fServer \in IF variant = "qt" THEN BOOLEAN ELSE {TRUE}
  /\ splash \in IF variant = "qt" THEN BOOLEAN ELSE {FALSE}
  /\ guiref = FALSE
  /\ guiWait = {}
  /\ posted = {}

(* The main thread's steps, without the exceptions.                       *)
MainSteps ==
  \/ AppInitArgs
  \/ InitSetup \/ InitParameters \/ InitDatabase \/ InitLoadBlockIndex
  \/ InitWallet \/ InitImport \/ InitStartNode \/ InitFinish
  \/ AppInitAfterInit2 \/ AppInitJoinDetect
  \/ BeancashdAfterInit2 \/ WaitForShutdown
  \/ QtAfterInit2 \/ QtEventLoop \/ QtEventLoopQuit \/ QtCloseWindow \/ JoinAll
  \/ ShutdownBegin \/ ShutdownSetBestChain \/ ShutdownFree \/ ShutdownExit

MainThread == MainSteps \/ AppInit2Throws

DetectThread == DetectPoll \/ DetectJoinAll \/ DetectJoin

WorkerThread(w) ==
  \/ WorkerLock(w) \/ WorkerUnlock(w) \/ WorkerStop(w) \/ ThreadSafeMessageBox(w)
  \/ (w = "import" /\ ImportFinish)

(* The process has exited; nothing runs any more.                          *)
Exited == ~Alive /\ UNCHANGED vars

Next ==
  \/ MainThread
  \/ DetectThread
  \/ \E w \in Workers : WorkerThread(w)
  \/ HandleSIGTERM \/ StartShutdown
  \/ Exited

(* Every thread the OS runs makes progress; shutdown requests come from    *)
(* outside and are not assumed, nor is an exception out of AppInit2: a     *)
(* thread blocked in create_thread does not throw.  The event loop runs    *)
(* the 200 ms poll timer among the workers' messages, so its quit is fair  *)
(* on its own.                                                             *)
Fairness ==
  /\ WF_vars(MainSteps)
  /\ WF_vars(QtEventLoopQuit)
  /\ WF_vars(DetectThread)
  /\ \A w \in Workers : WF_vars(WorkerStop(w) \/ WorkerUnlock(w))
  /\ WF_vars(ImportFinish)

Spec == Init /\ [][Next]_vars /\ Fairness

-----------------------------------------------------------------------------
(* Properties.                                                             *)

(* Shutdown() deletes pwalletMain only after every thread that was handed  *)
(* the wallet (stake miner, wallet flusher) and the RPC server have        *)
(* stopped: otherwise a thread dereferences freed memory.                  *)
WalletNotFreedWhileInUse ==
  wallet = "freed" =>
    /\ \A w \in WalletUsers : ~Running(w)
    /\ rpc # "running"

(* The Qt entry point (qt/beancash.cpp:363-372) interrupts and joins the  *)
(* thread group on every path before it calls Shutdown(), so there the      *)
(* wallet is never deleted under a running thread, whether AppInit2        *)
(* succeeded or failed and whenever the shutdown request came.             *)
QtWalletNotFreedWhileInUse ==
  variant = "qt" => WalletNotFreedWhileInUse

(* main() means the exit status to say whether the node started: 0 after a *)
(* successful AppInit2, non-zero when start-up failed.                     *)
ExitStatusReflectsInit ==
  mainPc = "exited" => (exitCode = 0 <=> fRet)

(* Once shutdown is requested, or start-up fails, the process exits:       *)
(* every thread is interrupted, joined or outlived, and Shutdown() gets    *)
(* cs_main.                                                                *)
ShutdownCompletes ==
  (fRequestShutdown \/ mainPc = "initFailed") ~> (mainPc = "exited")

(* The same promise for the variants whose main thread itself does         *)
(* interrupt_all and join_all (beancashd.cpp WaitForShutdown and AppInit,  *)
(* qt/beancash.cpp main): no thread created during the shutdown escapes    *)
(* the interruption, so the process exits.                                 *)
ShutdownCompletesJoiningOnMain ==
  variant # "daemon" => ShutdownCompletes

=============================================================================
