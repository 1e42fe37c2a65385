---------------------------- MODULE ChainParams ----------------------------
(***************************************************************************)
(* The per-network parameter objects of src/src/chainparams.cpp.  The      *)
(* three static objects mainParams, testNetParams and regTestParams are     *)
(* built during static initialization, in declaration order, each running  *)
(* the constructor bodies of its base classes first: CRegTestParams runs   *)
(* CMainParams(), then CTestNetParams(), then its own body.  A failing     *)
(* assert in a constructor aborts the process before main().               *)
(*                                                                         *)
(* Values are abstracted: a proof-of-work limit ~uint256(0) >> k is k      *)
(* (GetCompact is injective on these), a genesis header is the record of   *)
(* the fields the constructors set, and GetHash is injective on headers,   *)
(* so a header stands for its own hash.                                    *)
(***************************************************************************)
EXTENDS Integers, Sequences

CONSTANT
  AssertsEnabled  (* FALSE for a build with NDEBUG, where assert() is void *)

(* enum CChainParams::Network                                              *)
MAIN == 0
TESTNET == 1
REGTEST == 2
Networks == {MAIN, TESTNET, REGTEST}

Unbuilt == [networkID |-> -1]

(* block.GetHash(), injective on headers.                                  *)
GetHash(header) == header

(* The hashes the constructors assert, as the headers that hash to them:   *)
(* the main and test networks are running networks, so their own headers   *)
(* are the ones behind the literals at chainparams.cpp:103 and :151.       *)
MainGenesisHash == [nTime |-> 1423862862, nBits |-> 20, nNonce |-> 620091]
TestGenesisHash == [nTime |-> 1423862862, nBits |-> 16, nNonce |-> 98938]

VARIABLES
  params,          (* [Networks -> object]: the three static objects       *)
  ctorQueue,       (* constructor bodies still to run: <<object, class>>   *)
  aborted,         (* an assert failed during static initialization       *)
  pCurrentParams   (* the network Params() returns                         *)

cpVars == <<params, ctorQueue, aborted, pCurrentParams>>

-----------------------------------------------------------------------------
(* Constructor bodies, as the changes they make to the object.             *)

CMainParams(p) ==
  [networkID           |-> MAIN,
   pchMessageStart     |-> <<164, 210, 248, 166>>,
   vAlertPubKey        |-> "main",
   nDefaultPort        |-> 22460,
   nRPCPort            |-> 22461,
   bnProofOfWorkLimit  |-> 20,
   strDataDir          |-> "",
   genesis             |-> [nTime |-> 1423862862, nBits |-> 20, nNonce |-> 620091],
   hashGenesisBlock    |-> GetHash([nTime |-> 1423862862, nBits |-> 20, nNonce |-> 620091]),
   vSeeds              |-> {"bitbean.org", "beancash.org"},
   vFixedSeeds         |-> TRUE,
   pubkeyPrefix        |-> 3,
   fRequireRPCPassword |-> TRUE,
   fRPCisTestNet       |-> FALSE]

MainAsserts(p) == p.hashGenesisBlock = MainGenesisHash

(* Line 141 declares a local CBigNum bnProofOfWorkLimit that hides the      *)
(* member: genesis.nBits takes the local >> 16, the member keeps >> 20.    *)
CTestNetParams(p) ==
  LET g == [p.genesis EXCEPT !.nNonce = 98938, !.nBits = 16] IN
  [p EXCEPT !.networkID = TESTNET,
            !.pchMessageStart = <<173, 241, 194, 175>>,
            !.vAlertPubKey = "test",
            !.nDefaultPort = 22462,
            !.nRPCPort = 22463,
            !.strDataDir = "testnet2",
            !.genesis = g,
            !.hashGenesisBlock = GetHash(g),
            !.vFixedSeeds = FALSE,
            !.vSeeds = {"beancash.net"},
            !.pubkeyPrefix = 111,
            !.fRequireRPCPassword = TRUE,
            !.fRPCisTestNet = TRUE]

TestAsserts(p) == p.hashGenesisBlock = TestGenesisHash

CRegTestParams_NoDataDir(p) ==
  LET g == [p.genesis EXCEPT !.nTime = 1423862862, !.nBits = 1, !.nNonce = 2] IN
  [p EXCEPT !.networkID = REGTEST,
            !.pchMessageStart = <<250, 191, 181, 218>>,
            !.bnProofOfWorkLimit = 1,
            !.genesis = g,
            !.hashGenesisBlock = GetHash(g),
            !.nDefaultPort = 18444,
            !.vSeeds = {},
            !.fRequireRPCPassword = FALSE,
            !.fRPCisTestNet = TRUE]

CRegTestParams(p) ==
  LET g == [p.genesis EXCEPT !.nTime = 1423862862, !.nBits = 1, !.nNonce = 2] IN
  [p EXCEPT !.networkID = REGTEST,
            !.pchMessageStart = <<250, 191, 181, 218>>,
            !.bnProofOfWorkLimit = 1,
            !.genesis = g,
            !.hashGenesisBlock = GetHash(g),
            !.nDefaultPort = 18444,
            !.strDataDir = "regtest",
            !.vSeeds = {},
            !.fRequireRPCPassword = FALSE,
            !.fRPCisTestNet = TRUE]

(* Line 187 asserts the testnet genesis hash for the regtest header.       *)
RegAsserts(p) == p.hashGenesisBlock = TestGenesisHash

Body(class, p) ==
  CASE class = MAIN    -> CMainParams(p)
    [] class = TESTNET -> CTestNetParams(p)
    [] class = REGTEST -> CRegTestParams(p)

AssertsHold(class, p) ==
  CASE class = MAIN    -> MainAsserts(p)
    [] class = TESTNET -> TestAsserts(p)
    [] class = REGTEST -> RegAsserts(p)

(* Static objects in declaration order (lines 125, 167, 195), each running *)
(* its base-class constructor bodies first.                                *)
StaticInitOrder ==
  << <<MAIN, MAIN>>,
     <<TESTNET, MAIN>>, <<TESTNET, TESTNET>>,
     <<REGTEST, MAIN>>, <<REGTEST, TESTNET>>, <<REGTEST, REGTEST>> >>

-----------------------------------------------------------------------------
CPInit ==
  /\ params = [n \in Networks |-> Unbuilt]
  /\ ctorQueue = StaticInitOrder
  /\ aborted = FALSE
  /\ pCurrentParams = MAIN   (* static CChainParams *pCurrentParams = &mainParams *)

(* One constructor body of the object being built.                         *)
RunConstructor ==
  /\ ctorQueue # <<>>
  /\ ~aborted
  /\ LET obj == Head(ctorQueue)[1]
         class == Head(ctorQueue)[2]
         built == Body(class, params[obj])
     IN  /\ params' = [params EXCEPT ![obj] = built]
         /\ aborted' = (AssertsEnabled /\ ~AssertsHold(class, built))
  /\ ctorQueue' = Tail(ctorQueue)
  /\ UNCHANGED pCurrentParams

StaticInitDone == ctorQueue = <<>> /\ ~aborted

(* SelectParams: the switch of lines 204-217.                              *)
SelectParams(network) == pCurrentParams' = network

(* SelectParamsFromCommandLine, lines 220-236: FALSE, selecting nothing,   *)
(* when both -testnet and -regtest are set.                                *)
SelectParamsOk(fTestNet, fRegTest) == ~(fTestNet /\ fRegTest)

SelectParamsFromCommandLine(fTestNet, fRegTest) ==
  IF fTestNet /\ fRegTest THEN UNCHANGED pCurrentParams
  ELSE IF fRegTest THEN SelectParams(REGTEST)
  ELSE IF fTestNet THEN SelectParams(TESTNET)
  ELSE SelectParams(MAIN)

Params == params[pCurrentParams]

=============================================================================
