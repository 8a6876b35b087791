--------------------------- MODULE MCResultBroker ---------------------------
(***************************************************************************)
(* Bounded instance of ResultBroker: two executions compete for one        *)
(* tombstone, two identities each, and the peer goes STALE on the second   *)
(* unconfirmed delivery of a result.                                       *)
(***************************************************************************)
EXTENDS ResultBroker, FiniteSets

CONSTANTS r1, r2, MaxInFlight

MCKeys == 1..2
MCResults == {r1, r2}

\* MaxInFlight bounds the messages the two links hold together.
FewInFlight == Cardinality(toUnity) + Cardinality(toPython) <= MaxInFlight
=============================================================================
