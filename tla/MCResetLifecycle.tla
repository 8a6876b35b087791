-------------------------- MODULE MCResetLifecycle --------------------------
(***************************************************************************)
(* Bounded instance of ResetLifecycle.                                     *)
(***************************************************************************)
EXTENDS ResetLifecycle
=============================================================================
