------------------------- MODULE ParamInteraction -------------------------
(***************************************************************************)
(* AppInit2 step 2, "parameter interactions" (src/src/init.cpp:577-646),   *)
(* run after the static initialization of ChainParams: the checkpoint      *)
(* policy, network selection, the soft-set rules that derive defaults of   *)
(* one option from others, and the file-descriptor budget for peers.       *)
(*                                                                         *)
(* mapArgs is the map of util.cpp: option name -> string value, an option  *)
(* absent from the command line absent from its domain.  The -bind option  *)
(* may be given several times (mapMultiArgs["-bind"]); mapArgs keeps one.  *)
(***************************************************************************)
EXTENDS ChainParams, FiniteSets, SequencesExt

CONSTANTS
  ArgValues,        (* [option -> set of values it may be given]           *)
  Numeral,          (* atoi on the numerals among those values             *)
  MaxBindArgs,      (* at most this many -bind addresses                   *)
  FdSetSize,        (* FD_SETSIZE                                          *)
  MinCoreFds,       (* MIN_CORE_FILEDESCRIPTORS                            *)
  DefaultMaxConn,   (* the default of -maxconnections, 200                 *)
  RLimits           (* possible (soft, hard) RLIMIT_NOFILE of the process  *)

ArgNames == DOMAIN ArgValues

VARIABLES
  userArgs,         (* mapArgs as ParseParameters left it (read in main)   *)
  bindArgs,         (* mapMultiArgs["-bind"].size()                        *)
  mapArgs,          (* mapArgs as step 2 leaves it                         *)
  CheckpointsMode,
  nMaxConnections,
  nFD,
  pc                (* "step2", "step3" (step 2 passed), "error"           *)

piVars == <<userArgs, bindArgs, mapArgs, CheckpointsMode, nMaxConnections, nFD, pc>>
vars == <<cpVars, piVars>>

(* atoi: a numeral's value, 0 for anything else.                           *)
Atoi(s) == IF s \in DOMAIN Numeral THEN Numeral[s] ELSE 0

TypeOK ==
  /\ pc \in {"step2", "step3", "error"}
  /\ CheckpointsMode \in {"strict", "advisory", "permissive"}
  /\ DOMAIN mapArgs \subseteq ArgNames \cup {"-bind", "-listen", "-discover", "-dnsseed", "-rescan"}
  /\ bindArgs \in 0..MaxBindArgs
  /\ nMaxConnections \in Int /\ nFD \in Int
  /\ pCurrentParams \in Networks
  /\ aborted \in BOOLEAN

(* Every command line over ArgValues: each option absent or given one of    *)
(* its values.                                                             *)
RECURSIVE CommandLines(_)
CommandLines(S) ==
  IF S = {} THEN {[a \in {} |-> ""]}
  ELSE LET a == CHOOSE x \in S : TRUE IN
       UNION {{m} \cup {m @@ (a :> v) : v \in ArgValues[a]} : m \in CommandLines(S \ {a})}

-----------------------------------------------------------------------------
(* util.cpp helpers, as functions of the map.                              *)

GetArg(m, a, default) == IF a \in DOMAIN m THEN m[a] ELSE default

GetIntArg(m, a, default) == IF a \in DOMAIN m THEN Atoi(m[a]) ELSE default

GetBoolArg(m, a, default) ==
  IF a \in DOMAIN m THEN m[a] = "" \/ Atoi(m[a]) # 0 ELSE default

(* SoftSetArg: set only an option the user did not give.                  *)
SoftSetArg(m, a, v) == IF a \in DOMAIN m THEN m ELSE m @@ (a :> v)

SoftSetBoolArg(m, a, b) == SoftSetArg(m, a, IF b THEN "1" ELSE "0")

(* The blocks of lines 601-636, in code order.                             *)
Step2Blocks_ListenFirst ==
  <<"bind", "connect", "listen", "proxy", "externalip", "salvagewallet", "zapwallet">>

Step2Blocks ==
  <<"bind", "connect", "proxy", "listen", "externalip", "salvagewallet", "zapwallet">>

Interaction(m, block) ==
  CASE block = "bind" ->
         IF "-bind" \in DOMAIN m THEN SoftSetBoolArg(m, "-listen", TRUE) ELSE m
    [] block = "connect" ->
         IF "-connect" \in DOMAIN m
         THEN SoftSetBoolArg(SoftSetBoolArg(m, "-dnsseed", TRUE), "-listen", FALSE)
         ELSE m
    [] block = "proxy" ->
         IF "-proxy" \in DOMAIN m THEN SoftSetBoolArg(m, "-listen", FALSE) ELSE m
    [] block = "listen" ->
         IF ~GetBoolArg(m, "-listen", TRUE) THEN SoftSetBoolArg(m, "-discover", FALSE) ELSE m
    [] block = "externalip" ->
         IF "-externalip" \in DOMAIN m THEN SoftSetBoolArg(m, "-discover", FALSE) ELSE m
    [] block = "salvagewallet" ->
         IF GetBoolArg(m, "-salvagewallet", FALSE) THEN SoftSetBoolArg(m, "-rescan", TRUE) ELSE m
    [] block = "zapwallet" ->
         IF GetBoolArg(m, "-zapwallet", FALSE) THEN SoftSetBoolArg(m, "-rescan", TRUE) ELSE m

ParameterInteractions(m) == FoldLeft(Interaction, m, Step2Blocks)

CheckpointsModeOf_Raw(m) == GetArg(m, "-cppolicy", "strict")

(* Lines 584-593: the last matching -cppolicy wins, STRICT otherwise.      *)
CheckpointsModeOf(m) ==
  LET s == GetArg(m, "-cppolicy", "strict") IN
  IF s \in {"advisory", "permissive"} THEN s ELSE "strict"

(* RaiseFileDescriptorLimit (util.cpp): raise the soft limit to the        *)
(* request, capped by the hard limit; return the soft limit then in force. *)
RaiseFileDescriptorLimit(nMinFD, lim) ==
  IF lim[1] < nMinFD THEN Min({nMinFD, lim[2]}) ELSE lim[1]

(* Lines 639-641: the request, kept below what select() can watch, less    *)
(* nBind = max(mapArgs.count("-bind"), 1) listening sockets.               *)
ClampedMaxConn_NoFloor(m) ==
  Min({GetIntArg(m, "-maxconnections", DefaultMaxConn),
       FdSetSize - Max({IF "-bind" \in DOMAIN m THEN 1 ELSE 0, 1}) - MinCoreFds})

ClampedMaxConn(m) ==
  Max({Min({GetIntArg(m, "-maxconnections", DefaultMaxConn),
            FdSetSize - Max({IF "-bind" \in DOMAIN m THEN 1 ELSE 0, 1}) - MinCoreFds}),
       0})

-----------------------------------------------------------------------------
Init ==
  /\ CPInit
  /\ userArgs = [a \in {} |-> ""]
  /\ bindArgs = 0
  /\ mapArgs = userArgs
  /\ CheckpointsMode = "strict"
  /\ nMaxConnections = 0
  /\ nFD = 0
  /\ pc = "step2"

(* main() parses the command line (any one over ArgValues), then step 2 of *)
(* AppInit2, lines 579-646, runs on it.                                    *)
InitParameters ==
  /\ StaticInitDone
  /\ pc = "step2"
  /\ \E u \in CommandLines(ArgNames), n \in 0..MaxBindArgs :
     LET args == IF n > 0 THEN u @@ ("-bind" :> "addr") ELSE u
         fTestNet == GetBoolArg(args, "-testnet", FALSE)
         fRegTest == GetBoolArg(args, "-regtest", FALSE)
     IN  /\ userArgs' = u
         /\ bindArgs' = n
         /\ CheckpointsMode' = CheckpointsModeOf(args)
         /\ SelectParamsFromCommandLine(fTestNet, fRegTest)
         /\ IF ~SelectParamsOk(fTestNet, fRegTest)
            THEN /\ pc' = "error"
                 /\ mapArgs' = args
                 /\ UNCHANGED <<nMaxConnections, nFD>>
            ELSE LET m   == ParameterInteractions(args)
                     req == ClampedMaxConn(m)
                 IN  \E lim \in RLimits :
                       LET fd == RaiseFileDescriptorLimit(req + MinCoreFds, lim) IN
                       /\ mapArgs' = m
                       /\ nFD' = fd
                       /\ IF fd < MinCoreFds
                          THEN /\ pc' = "error"
                               /\ nMaxConnections' = req
                          ELSE /\ pc' = "step3"
                               /\ nMaxConnections' = Min({req, fd - MinCoreFds})
  /\ UNCHANGED <<params, ctorQueue, aborted>>

Finished == pc \in {"step3", "error"} /\ UNCHANGED vars

(* Static initialization, before main() and its command line.             *)
StaticInit == RunConstructor /\ UNCHANGED piVars

Next == StaticInit \/ InitParameters \/ Finished

Spec == Init /\ [][Next]_vars

-----------------------------------------------------------------------------
(* Properties.                                                             *)

Given(a) == IF a = "-bind" THEN bindArgs > 0 ELSE a \in DOMAIN userArgs

On(a, default) == GetBoolArg(mapArgs, a, default)

(* After step 2, every option the user gave keeps its value, and each one  *)
(* the user left out has the default the help text (init.cpp:337-340) and  *)
(* the step-2 comments document: listen unless -connect or -proxy, but     *)
(* always with -bind; discover when listening and no -externalip; rescan   *)
(* with -salvagewallet or -zapwallet.  The rules read each other's         *)
(* results, so this depends on the order of the blocks.                    *)
DocumentedDefaults ==
  pc = "step3" =>
    /\ \A a \in DOMAIN userArgs : mapArgs[a] = userArgs[a]
    /\ ~Given("-listen") =>
         (On("-listen", TRUE) <=> (Given("-bind") \/ ~(Given("-connect") \/ Given("-proxy"))))
    /\ ~Given("-discover") =>
         (On("-discover", TRUE) <=> On("-listen", TRUE) /\ ~Given("-externalip"))
    /\ ~Given("-rescan") =>
         (On("-rescan", FALSE) <=> \/ GetBoolArg(userArgs, "-salvagewallet", FALSE)
                                  \/ GetBoolArg(userArgs, "-zapwallet", FALSE))

(* Nodes of different networks never share a message start, a P2P port,   *)
(* a data directory or a genesis block, whatever each network's           *)
(* constructor inherits from the one it derives from.                      *)
NetworksSeparated ==
  StaticInitDone =>
    \A n, k \in Networks : n # k =>
      /\ params[n].pchMessageStart # params[k].pchMessageStart
      /\ params[n].nDefaultPort # params[k].nDefaultPort
      /\ params[n].strDataDir # params[k].strDataDir
      /\ params[n].hashGenesisBlock # params[k].hashGenesisBlock

(* Step 2 plans no more peer connections than the descriptors it could     *)
(* get leave after the core's MIN_CORE_FILEDESCRIPTORS, and never a        *)
(* negative number.                                                        *)
ConnectionBudget ==
  pc = "step3" => 0 <= nMaxConnections /\ nMaxConnections + MinCoreFds <= nFD

(* Peer connections, one listening socket per -bind address and the core's *)
(* descriptors fit below FD_SETSIZE, as line 641 means them to.            *)
SelectBudgetCountsBinds ==
  pc = "step3" => nMaxConnections + Max({bindArgs, 1}) + MinCoreFds <= FdSetSize

(* Once static initialization is over, each network's genesis block is   *)
(* the one its constructor asserts (chainparams.cpp:104, :151, :187), so a *)
(* build with assert() enabled reaches main(), and it carries the          *)
(* network's own proof-of-work limit, the one Params().ProofOfWorkLimit()  *)
(* returns to the validator.  A network's parameters come from the bodies  *)
(* of its whole constructor chain, so an error in a base constructor shows *)
(* up in every derived network.                                            *)
GenesisConsistent ==
  StaticInitDone =>
    \A n \in Networks :
      /\ AssertsHold(n, params[n])
      /\ params[n].genesis.nBits = params[n].bnProofOfWorkLimit

=============================================================================
