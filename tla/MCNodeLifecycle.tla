-------------------------- MODULE MCNodeLifecycle --------------------------
(* Instantiates NodeLifecycle for TLC; the entry point comes from the cfg. *)
EXTENDS NodeLifecycle
=============================================================================
