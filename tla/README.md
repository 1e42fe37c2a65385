# TLA+ models of the Bean Cash node start-up, shutdown, wallet start-up, chain parameters and block import

This directory holds TLA+ specifications of the parts of `src/` (Bean Cash,
TestNet21) whose behaviour depends on ordering, concurrency or boundary
arithmetic, the TLC configurations that check them, and `PROJECT.json`, which
maps every definition to the source lines it models and lists the runs, the
mutants, the findings and the hazards.

## The system

The sources under `src/src/` in this repository are the node's entry points and
its start-up code:

| Part | Source | What it does |
|---|---|---|
| Entry points | `init.cpp` `AppInit`/`main` (non-Qt build), `beancashd.cpp` `AppInit`/`main`, `qt/beancash.cpp` `main` | parse arguments, select the network, call `AppInit2`, wait for a shutdown request, call `Shutdown()` |
| `AppInit2` | `init.cpp:529-1147` | twelve numbered steps; step 2 derives options from each other, step 9 starts `ThreadImport`, steps 11-12 start the network, the stake miner and the wallet flusher; each step can fail and return `false` |
| Shutdown | `init.cpp:61-123`, `beancashd.cpp:11-25` | `fRequestShutdown` is set by SIGTERM/SIGINT or RPC `stop`; `DetectShutdownThread`/`WaitForShutdown`/the Qt poll see it, interrupt and join the `boost::thread_group`; `Shutdown()` stops RPC, takes `cs_main`, writes the best chain, deletes `pwalletMain`, and in non-Qt builds calls `exit(0)` |
| Block import | `init.cpp:417-526` | `ThreadImport` runs `LoadExternalBlockFile` on `bootstrap.dat` (then renames it) and on each `-loadblock` file: a scan for the network's message-start bytes with a 64 KiB buffer and a 32-bit `nPos`, then `nSize` and the block, handed to `ProcessBlock` under `cs_main` |
| Wallet start-up | `init.cpp:945-1079`, `init.cpp:107-117` | step 8 of `AppInit2`: `-zapwallet` erases the wallet's transactions (keeping them in `vWtx`), `LoadWallet`, a rescan from the genesis block (`-rescan`) or from the wallet's best-block locator, and the restore of the zapped transactions' metadata; `Shutdown()` writes the locator |
| Chain parameters | `chainparams.cpp`, `chainparams.h` | three static objects `mainParams`, `testNetParams`, `regTestParams`, built by constructor chains (regtest runs the main, then the testnet, then its own body) before `main()`; `SelectParams`, `SelectParamsFromCommandLine`, `Params()` |
| Text and dialogs | `HelpMessage`, `LicenseInfo`, `qt/utilitydialog.*` | strings and widgets only |

How they interact: the entry point selects the chain parameters from the
command line, `AppInit2` step 2 derives the options every later step reads,
later steps create the worker threads (the import thread among them, which
scans files with the selected network's message start and feeds
`ProcessBlock`), and the shutdown path has to stop all of them before
`Shutdown()` frees what they use. In the Qt build the workers also report to
the user through the GUI thread (`ThreadSafeMessageBox`), which must still be
running events for a modal message to return. Block validation, the UTXO ledger, chain
selection and the wallet's own code (`CWallet`, `CWalletDB`) that `spec.md`
describes are not in this repository's sources.

## Modules

### `NodeLifecycle` (with `MCNodeLifecycle`)

Threads and shutdown of all three entry points. The constant `Variants` is the
set of entry points; the variable `variant` is the one chosen in `Init`.

State:
- `mainPc` is the main thread's position: `args`, the twelve steps of
  `AppInit2`, the wait for shutdown, the Qt event loop, `joinAll`, the four
  steps of `Shutdown()`, and `exited`.
- `fRet` and `exitCode` are what `AppInit2` returned and the process status.
- `fRequestShutdown` is the volatile flag.
- `detect` and `detectInterrupted` model `DetectShutdownThread`.
- `wstate` and `interrupted` hold the state of each worker of the thread group:
  `import`, `net`, `miner` and `flush`.
- `csMain` is the thread holding `cs_main`.
- `wallet` is `pwalletMain`: `none`, `allocated` or `freed`.
- `rpc` is the RPC server.
- `sprouting` and `fServer` are the start-up options that decide which threads
  exist.
- Qt only: `splash` is `splashref` being set (`-splash` and not `-min`),
  `guiref` is the static pointer to the main window, `guiWait` holds the
  workers blocked until the GUI thread runs their message, and `posted` the
  workers whose queued message it has not run yet.

Actions:
- One action per step of `AppInit2`, each with its failure exit (`InitStep`,
  `InitFail`). Steps 10-12 create the threads in the code's order, and the
  flush thread is created before the shutdown flag is read.
- The signal handler (`HandleSIGTERM`) and `StartShutdown`.
- `DetectPoll`, `DetectJoinAll` and `DetectJoin`: the detection thread's poll
  and `interrupt_all` (`init.cpp:130-140`), the start of `join_all` (141),
  which holds the group's mutex shared while it waits, and its end. Between
  the first two the main thread can still `create_thread`; once `join_all`
  holds the mutex, `create_thread` blocks (`CanCreate`).
- `InitWallet` always leaves `pwalletMain` set: the zap allocates it before
  `ZapWalletTx`, and a failed zap returns with it set (`init.cpp:951-956`).
- `InitImport` and `InitFinish` include the `InitMessage` of steps 10 and 12,
  which with the splash screen runs the GUI thread's pending events.
- `AppInitArgs` covers the checks before `AppInit2`, including the `-daemon`
  fork of the two daemon builds: the parent returns true and exits 0, and a
  failed fork exits 1 (`DaemonMainReturn` is `main`'s `fRet ? 0 : 1`).
- `AppInit2Throws` is an exception out of any step of `AppInit2`. The daemon
  builds catch it and carry on with `fRet` false, as after a failed step. The
  Qt `main` hands it to `handleRunawayException`, whose critical box runs the
  GUI thread's events and then calls `exit(1)`. There is no `join_all` and no
  `Shutdown()`, so the workers are still running when the process ends.
- `ThreadSafeMessageBox(w)` (`qt/beancash.cpp:51-70`) is a worker's message to
  the user while `guiref` is set. A `MODAL` message goes through a blocking
  connection, so the worker waits in `guiWait`, and `WorkerStop` and the other
  worker steps are disabled until the GUI thread runs it. Any other message is
  queued. Which workers send messages (`GuiCallers`: the message handler and
  the import thread) comes from callers outside this repository; whether a
  message is modal is the constant `ModalStyles`.
- The GUI thread runs pending events in `QtEventLoop` (`app.exec()`), in
  `InitFinish` when the splash screen's `InitMessage` calls `processEvents`,
  and in the error box of a failed step 11.
- The worker steps: `WorkerLock`, `WorkerUnlock`, `WorkerStop` at an
  interruption point, and `ImportFinish`.
- Each entry point's code after `AppInit2`: `AppInitAfterInit2`,
  `AppInitJoinDetect`, `BeancashdAfterInit2`, `WaitForShutdown`,
  `QtAfterInit2`, `QtEventLoop`, `QtEventLoopQuit` (the 200 ms poll quits
  the loop), `QtCloseWindow` (hide the window, `guiref = 0`, `interrupt_all`)
  and `JoinAll`.
- The four parts of `Shutdown()`.

`thread_group` semantics follow Boost:
- `interrupt_all` reaches only threads already in the group.
- A thread that is interrupted ends at its next interruption point.
- `join_all` waits for every thread in the group.

### `BlockImport` (with `MCBlockImport`)

`LoadExternalBlockFile`, byte for byte over small files, inside the whole of
`ThreadImport`: `bootstrap.dat`, its rename, then each `-loadblock` file, each
load under a `CImportingNow`. Its fault model is a shutdown that interrupts
the import, followed by another start of the node.

State:
- `bootstrap` is the content of `bootstrap.dat`: whole records, and junk
  pieces that contain message-start bytes, a false start, or a record cut
  short.
- `current` is the file `ThreadImport` is at: 0 for `bootstrap.dat`, `i` for
  the `i`-th `-loadblock` file (the constant `LoadBlockFiles`).
- `file` is built from `chunks`, the pieces of the file being read.
- `nPos` is the scan position, modulo `2^PosBits` (`U`). The runs keep
  `PosBits` above every file length, so the wrap is kept for fidelity and
  is not reached.
- `pc` is the loop position.
- `threw` records the caught exception.
- `known` holds the blocks `ProcessBlock` has accepted.
- `renamed` records whether `bootstrap.dat` has been renamed.
- `starts` counts the node's starts.
- `fImporting` is the flag `CImportingNow` sets for the length of a load.

Actions:
- `ScanStep` is one pass of the inner loop: `fseek`, `fread` of `BufSize`
  bytes, the `memchr` window of `nRead+1-MSS` bytes, `memcmp`. It has three
  advances: not found, a false start, and the end when `nRead <= 8`.
- `ReadRecord` reads `nSize`, checks its range, deserializes and calls
  `ProcessBlock`. Only an accepted block moves `nPos` past the record, and a
  throw ends the load.
- `EndLoad` is the rest of `ThreadImport` after a load returns. It renames
  `bootstrap.dat` whatever the load did, and the `CImportingNow` goes out of
  scope. It then opens the next `-loadblock` file (`OpenFile`) or returns.
- `Interrupt` is `boost::thread_interrupted` raised at one of the scan's two
  interruption points (`init.cpp:427`, `:450`). Every `"scan"` state is at one
  of them. It is not a `std::exception`, so it skips the catch and the rename,
  and the thread ends as the node shuts down.
- `Restart` is the next start, with the same `-loadblock` options. It imports
  `bootstrap.dat` again from offset 0 if the file is still there, and
  otherwise goes straight to the `-loadblock` files. Accepted blocks are in
  the block index and stay known, so their records are now rejected and not
  stepped over.
Abstractions:
- Deserializing bytes that are not a block either throws or gives an invalid
  block. Both are allowed as a nondeterministic choice.
- `ProcessBlock` is reduced to accept-or-reject: it rejects a block it already
  knows (the genesis block is preloaded) and an invalid one.

Refinement: `BlockImport` maps `bootstrap.dat`'s import onto `ImportSpec`:
- `file <- Bytes(bootstrap)`;
- `pos <- IF BootstrapEnded THEN 0 ELSE nPos`;
- `retired <- renamed`;
- `open <- renamed \/ pc # "stopped"`;
- `ended <- BootstrapEnded`, the load of `bootstrap.dat` having returned
  (`renamed`, or `current = 0 /\ pc = "done"`).

It checks `ImportRefinesSpec == Abstract!Spec` as a property.

### `ImportSpec`

What an import of a block file promises, without the buffer, the message-start
search or the record layout (spec section 6). The file is read front to back.
`Take` accepts a block whose bytes lie at or after the read position, that is
valid and not yet known, and reading resumes after it. `Advance` skips bytes.
`End` ends the reading, at the end of the data or on an error. `Retire` sets
aside a file whose reading has ended, and only such a file. After that,
`Learn` takes valid new blocks from other sources. `Close` stops a process
that is reading the file (spec section 5: producers stop at a safe point),
and `Reopen` reads the file again from the front. `End` and `Retire` are
weakly fair. Both are disabled while the file is closed, so a node that stays
down is not obliged to retire it.

Under the mapping:
- every `ScanStep` and every rejected record of `BlockImport` is an `Advance`
  or a stutter;
- an accepted record of `bootstrap.dat` is a `Take`, and one of a
  `-loadblock` file is a `Learn`;
- the step that ends the load of `bootstrap.dat` (`nRead <= 8`, the max()
  sentinel, or a throw) is `End`, and `EndLoad` of `bootstrap.dat` is
  `Retire`;
- `Interrupt` and `Restart` are `Close` and `Reopen`.

A rename of `bootstrap.dat` on the interrupt path (the mutant
`Interrupt_Rename`) is a `Retire` before `End`, and a restart that skips the
re-read takes blocks the file's read position does not allow; the refinement
catches both. A wrap of `nPos` would move the position back and break it too.

### `WalletStartup` (with `MCWalletStartup`)

Step 8 of `AppInit2` and the wallet's part of `Shutdown()`, over several runs
of the node with crashes between them.

State:
- `best` is the chain tip height, and the disk holds the wallet file: its
  transactions `dTx`, those of them with their original metadata `dMeta`, and
  the best-block locator `dBest` (`-1` when there is none).
- `args` holds this run's `-zapwallet` and the `-rescan` that step 2 left
  (`init.cpp:628-636` soft-sets it from `-zapwallet`).
- `pc` is the main thread's place; `pwallet` is `pwalletMain`; `vWtx` and
  `vMeta` are the zapped transactions held in memory.

Actions: `Start`, `ZapStep` (`init.cpp:947-960`), `LoadStep` (962-1036, where
only `DB_NEED_REWRITE` ends start-up, and the warning-level results
`DB_CORRUPT`, `DB_NONCRITICAL_ERROR` and `DB_TOO_NEW` may leave any subset of
the transactions unread), `RescanStep` (1038-1054), `RestoreStep`
(1056-1078), `LaterSteps` (steps 9-12), `BlockConnected` while running,
`RequestShutdown`, `ShutdownWallet` (107-117), and `Crash` at the points in
`CrashAt`. `Finished` stutters once `MaxStarts` runs are over.

Abstractions: the wallet writes through to its file, so `mapWallet` is the
file's transaction set. `ZapWalletTx`, `LoadWallet` and
`ScanForWalletTransactions` are not in this repository; they are reduced to the
effects step 8 relies on, and their `DBErrors` results are inputs.
`BlockConnected` is modelled from spec section 5 and marked `spec_modelled`.

### `ChainParams`

The three parameter objects as records of the fields their constructors set.

Abstractions:
- A proof-of-work limit `~uint256(0) >> k` is `k`.
- `GetHash` is injective, so a header stands for its own hash. The main and
  testnet headers are the ones behind the hash literals the code asserts.

State and actions:
- `RunConstructor` runs one constructor body of the static initialization in
  declaration order, the base-class bodies first (`StaticInitOrder`).
- With `AssertsEnabled` (a build without `NDEBUG`) a failed assert aborts.
- `SelectParams` and `SelectParamsFromCommandLine` translate the code's
  switches.

### `ParamInteraction` (extends `ChainParams`; with `MCParamInteraction`)

Step 2 of `AppInit2` over every command line built from `ArgValues`.

The command line:
- `CommandLines` enumerates them.
- `bindArgs` counts the `-bind` addresses. `mapArgs` keeps one value per
  option, as `ParseParameters` does.

`InitParameters` is the whole step:
- the checkpoint policy;
- network selection, which gives an error when both `-testnet` and `-regtest`
  are given;
- the seven soft-set blocks in code order (`Step2Blocks`, `Interaction`,
  folded by `ParameterInteractions`);
- the `-maxconnections` clamp;
- `RaiseFileDescriptorLimit` against a nondeterministic `RLIMIT_NOFILE` pair
  from `RLimits`;
- the "not enough file descriptors" error.

`StaticInit` runs the constructors of `ChainParams` first.

The argument helpers (`GetArg`, `GetBoolArg`, `SoftSetArg`, `SoftSetBoolArg`,
`atoi`, `ParseParameters`, `RaiseFileDescriptorLimit`) are defined in `util.cpp`,
which is not in this repository. They are modelled from their documented
behaviour and marked `spec_modelled` in `PROJECT.json`.

## Runs

Passing runs (every action and every disjunct of `Next` fires in one of them):

| Run | cfg | Properties | What it shows |
|---|---|---|---|
| `lifecycle` | `MCNodeLifecycle.cfg` | `TypeOK`, `QtWalletNotFreedWhileInUse`, `ShutdownCompletesJoiningOnMain` | All three entry points are explored. The two whose main thread does `interrupt_all` and `join_all` itself (`beancashd`, Qt) exit after a shutdown request or a failed start-up. This holds whichever workers hold `cs_main`, whenever the request arrives and whatever queued (non-modal) messages workers send the Qt GUI. The Qt main interrupts and joins every worker before `Shutdown()` deletes the wallet. The `init.cpp` entry point does not always exit (`lifecycle_detect`). |
| `import` | `MCBlockImport.cfg` | `TypeOK`, `ImportComplete`, `ImportTerminates`, `ImportRefinesSpec` | For every `bootstrap.dat` of up to four pieces, followed by a `-loadblock` file, with a shutdown at any interruption point and a second start, every load that ends without an exception has fed every block of a whole record to `ProcessBlock`. This holds wherever the read buffer splits a message start, and on the second start, when the first start's blocks are known and their records rejected. `ThreadImport` returns unless the node stops. The import of `bootstrap.dat`, across both starts, implements `ImportSpec`: blocks are taken in file order, the file is renamed only after its load has returned, and it is read again from the front after a stop. |
| `params` | `MCParamInteraction.cfg` | `TypeOK`, `DocumentedDefaults`, `NetworksSeparated`, `ConnectionBudget` | Step 2 gives each option the user left out its documented default and never overrides the user. The networks differ in message start, port, data directory and genesis block. The connection budget is never negative and fits the descriptors obtained. |

Violation runs, each a disagreement between the code and its comments, help
text, `spec.md` or the intent of `main`:

| Run | Property | What TLC shows |
|---|---|---|
| `lifecycle_detect` | `ShutdownCompletes` | In the `init.cpp` entry point, `DetectShutdownThread` calls `interrupt_all` (line 140) and then `join_all` (141). TLC's trace: SIGTERM arrives during `AppInit2`, the detection thread interrupts the group, and the main thread creates the network thread in step 11. `join_all` then waits for that uninterrupted thread forever, holding the group's mutex, so the main thread's `create_thread` of the flusher in step 12 blocks, and `AppInit` never reaches its own `interrupt_all`. The process hangs after a shutdown request. |
| `lifecycle_wallet` | `WalletNotFreedWhileInUse` | If `AppInit2` fails after step 12 created the flusher (SIGTERM during start-up), the `init.cpp` and `beancashd` entry points call `interrupt_all()` and then `Shutdown()` without `join_all()`. `delete pwalletMain` then runs while the flusher or the stake miner is still running. |
| `lifecycle_exit` | `ExitStatusReflectsInit` | A failed start-up exits with status 0. In daemon builds `Shutdown()` calls `exit(0)` before `main` can return `fRet ? 0 : 1`. In Qt, `main` does `return false` (status 0) when `-testnet` and `-regtest` are both given. |
| `lifecycle_modal` | `ShutdownCompletes` | In the Qt build a worker sends a modal message while `guiref` is set and no event loop will run it: after a failed `AppInit2` (main goes straight to `interrupt_all`/`join_all`), or after the poll has quit `app.exec()` and before `guiref = 0`. The worker waits for the GUI thread, the GUI thread waits for the worker in `join_all`, and `interrupt_all` does not reach a thread blocked outside a boost interruption point, so the process never exits. The cfg turns deadlock checking off so that TLC reports the hang as the liveness violation it is. |
| `import_retire` | `BootstrapRetiredOnlyWhenImported` | A record cut short in the middle of `bootstrap.dat` throws, and the catch ends the whole load. `ThreadImport` still renames the file to `bootstrap.dat.old`, so the later records are never imported. |
| `params_binds` | `SelectBudgetCountsBinds` | `nBind = max(mapArgs.count("-bind"), 1)` is at most 1, so with two `-bind` addresses connections, listeners and core descriptors can exceed `FD_SETSIZE`. |
| `params_genesis` | `GenesisConsistent` | In a build without asserts, the regtest constructor sets a genesis header whose hash is not the one it asserts, and the testnet constructor's local `bnProofOfWorkLimit` hides the member: the genesis `nBits` uses `>>16` while `Params().ProofOfWorkLimit()` stays at main's `>>20`. TLC's final state shows both. |
| `wallet_zap` | `WalletComplete` | `-zapwallet=1` with an explicit `-rescan=0`: step 2 soft-sets `-rescan` only when it is not given (`init.cpp:634`). Step 8 zaps every transaction, then rescans from the locator, or from the tip when there is none (1039-1047). The zapped transactions below that point are not rebuilt, although the help text (379) says `-zapwallet` rebuilds them from blockchain data. Their metadata is not restored either, since the restore is inside the rescan branch. |
| `wallet_locator` | `WalletAtRestConsistent` | A `-zapwallet=1` start whose zap fails (or whose load returns `DB_NEED_REWRITE`) returns from `AppInit2` with `pwalletMain` set; `Shutdown()` then writes `pindexBest` as the locator although the wallet never rescanned. The next start rescans only from that tip, so transactions of the blocks in between are lost for good. The comment at `init.cpp:95-97` says `Shutdown()` writes only for modules that were initialized. |

Each property of each passing run has a mutant in `PROJECT.json`: a plausible
bug in a mapped definition that TLC then catches under the same cfg. Examples:
- the Qt main not joining;
- `WaitForShutdown` joining without interrupting the group;
- a `memchr` window one byte short;
- a false start that does not advance;
- the interrupted import thread still renaming `bootstrap.dat` (caught by the
  refinement);
- the soft-set blocks in another order;
- a regtest constructor that does not set its data directory;
- a `-maxconnections` clamp without its 0 floor.

Observation without a run: `-connect` soft-sets `-dnsseed` to **true**
(`init.cpp:609`). The comment on the line above it and the help text (340,
"default: 1 unless -connect") say that `-connect` turns DNS seeding off.
`ParamInteraction` models the rule as the code has it.

## Bounds and why they are enough

**`NodeLifecycle`**
- It has four workers, which cover the three roles that matter: a holder of
  `cs_main` (`import`, `net`), a user of the wallet (`miner`, `flush`), and a
  thread created after the shutdown flag could be set (`flush`).
- Every step of `AppInit2` may fail, and a shutdown request may arrive in any
  state, so all the interleavings of a request with thread creation are
  explored.
- Two of the workers send messages to the GUI, one that holds `cs_main` for
  its whole life (`import`) and one that does not (`net`). Each has at most
  one message outstanding, which is enough for a blocked worker to meet every
  position of the main thread. The passing run sends only queued messages
  (`ModalStyles = {FALSE}`); `lifecycle_modal` sends both kinds.

**`BlockImport`**
- The constants are scaled down together, keeping the code's relations:
  - the message start is 2 bytes;
  - `nSize` is 1 byte;
  - the buffer is 5 bytes;
  - the read floor is 3, which is at least the message start plus `nSize`;
  - blocks are 1-3 bytes.
- With a 5-byte buffer, records of 4-6 bytes straddle reads at every offset.
- The pieces cover every branch: a lone first byte, a message start followed by
  an out-of-range size, a cut record, a duplicate of the preloaded genesis
  block, and an invalid block.
- Files of up to four pieces give every ordering of a junk piece before,
  between and after records.
- One `-loadblock` file follows: a record of the invalid block, then one of
  a block that `bootstrap.dat` may also hold. Its records are met both new
  and already known.
- Two starts: a shutdown may interrupt any scan step of any file of the first
  start. The second start meets every set of blocks the first left known,
  with `bootstrap.dat` in place or already renamed. A third start would only
  repeat a second start from a larger known set.
- `nPos` has 5 bits, so no file reaches the wrap, as no file under 4 GiB
  does in the code. The wrap is listed as a hazard that no run reaches.

**`ParamInteraction`**
- Every option a soft-set rule reads is either absent or present with a value
  that differs from what the rule would set (two values where both matter).
- The network flags include `-testnet=0` and the conflicting pair.
- `-maxconnections` is tried negative and positive.
- The limits are `FD_SETSIZE` 8 with two core descriptors, and four
  `RLIMIT_NOFILE` pairs: ample, soft below hard, both low, and below the core
  descriptors. Between them they reach each branch of the clamp.

**`WalletStartup`**
- Two transactions at heights 1 and 2 and a chain of height up to 2: the
  locator can lie below the tip with a transaction in between, and the
  genesis block holds none.
- `Init` starts from any tip and any locator at or below it, with the file
  complete up to the locator: every state a correct earlier history leaves.
- The module has no passing run. Once `-rescan=0`, failed zaps and loads,
  lossy loads and crashes inside step 8 are allowed, as the code allows them,
  neither `WalletComplete` nor `WalletAtRestConsistent` holds. The two
  violation runs restrict their inputs so that each trace shows its finding:
  - `wallet_zap`: one start with `-zapwallet=1 -rescan=0`;
  - `wallet_locator`: two starts with failing zaps and loads and no crashes.
- The same two properties catch the other hazards of step 8 when the inputs
  allow them. A crash right after the zap breaks `WalletAtRestConsistent` in
  three steps (`CrashAt = {"load", "rescan", "restore"}`). A
  `DB_NONCRITICAL_ERROR` load that drops a transaction breaks `WalletComplete`
  in five steps.

## Fairness

`NodeLifecycle` assumes weak fairness of each thread's own steps:
- the main thread's steps (`MainSteps`), but not an exception out of
  `AppInit2` (`AppInit2Throws`): nothing in the code makes one happen, and a
  thread blocked in `create_thread` does not throw;
- the Qt event loop's quit on its own: the 200 ms poll timer is an event the
  loop runs among the workers' messages, so workers sending messages cannot
  keep it from quitting;
- the detection thread;
- each worker's stop or unlock;
- the import thread finishing.

These are threads the OS schedules, and each of their steps is enabled until it
is taken. `fRequestShutdown` is set from outside (a signal or RPC) and is not
assumed to happen: `ShutdownCompletes` is conditional on it.
`ShutdownCompletesJoiningOnMain` restricts it to the entry points that hold
it, since `lifecycle_detect` shows that the `init.cpp` entry point does not. `ImportFinish`
being fair stands for `LoadExternalBlockFile` ending, which `ImportTerminates`
checks separately.

`BlockImport` assumes weak fairness of the import thread's steps, because
nothing else runs in that module. A shutdown interruption and a new start
are not assumed: the node may stay down. `ImportTerminates` therefore asks
that `ThreadImport` returns or the node stops.

## What is not modelled

- **The wallet's own code.** `-salvagewallet`, `-upgradewallet`, key pool and
  default key handling are inside `CWallet`/`CWalletDB`, which are not in this
  repository; `WalletStartup` keeps only their effect on transactions,
  metadata and the locator. `NodeLifecycle` reduces step 8 to success or
  failure.
- **A missing or unreadable import file.** `BlockImport` assumes that
  `bootstrap.dat` exists and that every `fopen` succeeds. A missing file only
  skips its load and, for `bootstrap.dat`, the rename.
- **Block validation, the UTXO set, chain selection.** `ProcessBlock` and the
  chain state are not in this repository's sources.
- **Command-line RPC, Qt widgets, translations and payment-server IPC, help
  text, and the utility dialogs.** The RPC client and the IPC sender exit
  before any thread exists; the rest builds strings and widgets. None of these
  changes state that the properties read.
- **`ThreadSafeAskFee`.** It blocks its caller on the GUI thread like a modal
  message, but its callers are wallet sends from RPC threads, which are
  outside this repository. Whether it hangs shutdown depends on
  `StopRPCThreads` (`rpcserver.cpp`) and on the locks the wallet's send path
  holds around the call (`wallet.cpp`), and neither is in the repository. It
  is listed as a hazard without a property.
- **A property for the runaway exception.** The passing `lifecycle` run takes
  the Qt `exit(1)` path of `AppInit2Throws`. A property that every exit after
  the wallet is loaded goes through `Shutdown()` would fail there. It would
  need a run of its own, and the twelve run slots are in use, so the path is
  a hazard without a property.
- **Which daemon entry point links.** `init.cpp:159-288` (`#if
  !defined(QT_GUI)`) and `beancashd.cpp` both define `AppInit` and `main`,
  and both files define `WaitForShutdown`. The `init.cpp` copy does not
  compile as written: line 188 closes the `if` condition early, and line 264
  names `detectShudownThread`. The model keeps both daemon entry points as
  the variants `"daemon"` and `"beancashd"` and checks each as written.

## Plan for later work

What this repository's sources contain is modelled, except the string and
widget code listed above. The remaining questions need code from outside the
repository:

1. Composing `WalletStartup` with `NodeLifecycle` would interleave the wallet
   flusher's writes with `Shutdown()`'s locator write. The flusher,
   `ThreadFlushWalletDB`, is in `walletdb.cpp`, which is not in this
   repository, so its writes could only be guessed. `NodeLifecycle` keeps
   the flusher as a wallet user that `Shutdown()` must outlive.
2. `ThreadSafeAskFee` and the runaway exception each need either code from
   outside the repository or a run slot of their own (see above).
3. `WalletStartup` has no liveness property: the node may legitimately stop
   for good, so its properties are invariants over any number of starts.
