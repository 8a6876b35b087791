-------------------------- MODULE MCResultDelivery --------------------------
(***************************************************************************)
(* Bounded instance of ResultDelivery: the results of two executions, one  *)
(* retry before STALE.  The state space is finite without a constraint.    *)
(***************************************************************************)
EXTENDS ResultDelivery

CONSTANT r

MCKeys == 1..2
MCResults == {r}
=============================================================================
