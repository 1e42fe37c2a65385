------------------------ MODULE MCParamInteraction ------------------------
(***************************************************************************)
(* Command lines for ParamInteraction: every option step 2 reads, each     *)
(* absent or given one of a few values, and a scaled-down descriptor       *)
(* budget (FD_SETSIZE 1024 and MIN_CORE_FILEDESCRIPTORS 150 in the code).  *)
(***************************************************************************)
EXTENDS ParamInteraction

(* The options of the soft-set rules, lines 601-636: each derived option   *)
(* may also be given explicitly, against the value a rule would give it.   *)
InteractionArgs ==
  ("-connect" :> {"peer"}) @@ ("-proxy" :> {"proxy"}) @@ ("-externalip" :> {"ip"})
  @@ ("-listen" :> {"0", "1"}) @@ ("-discover" :> {"1"})
  @@ ("-dnsseed" :> {"0"}) @@ ("-rescan" :> {"0"})
  @@ ("-salvagewallet" :> {"1"}) @@ ("-zapwallet" :> {"", "2"})

(* The options of network selection, checkpoint policy and the budget.     *)
SelectionArgs ==
  ("-testnet" :> {"", "0"}) @@ ("-regtest" :> {"1"})
  @@ ("-cppolicy" :> {"advisory", "permissive", "none"})
  @@ ("-maxconnections" :> {"-1", "3", "9"})

(* Both together, with fewer checkpoint policies.                          *)
AllArgs ==
  InteractionArgs @@ [SelectionArgs EXCEPT !["-cppolicy"] = {"none"}, !["-maxconnections"] = {"-1", "9"}]

MCNumeral == ("0" :> 0) @@ ("1" :> 1) @@ ("2" :> 2) @@ ("3" :> 3)
             @@ ("9" :> 9) @@ ("-1" :> -1)

(* (soft, hard) descriptor limits: already high, raisable, capped low.     *)
MCRLimits == {<<12, 12>>, <<2, 12>>, <<2, 4>>, <<1, 1>>}
=============================================================================
