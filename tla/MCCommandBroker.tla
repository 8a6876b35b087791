-------------------------- MODULE MCCommandBroker --------------------------
(***************************************************************************)
(* Bounded instance of CommandBroker: two executions of the bridge's own   *)
(* runtime compete for one tombstone, a third key is of another runtime.   *)
(* Payloads p1 and p2 have the same frames, p3 has others.                 *)
(***************************************************************************)
EXTENDS CommandBroker, FiniteSets

CONSTANTS k1, k2, foreign, p1, p2, p3, h1, h2, MaxInFlight

MCKeys == {k1, k2, foreign}
MCOwnKeys == {k1, k2}
MCPayloads == {p1, p2, p3}
MCHashes == {h1, h2}
MCHashOf == [p \in MCPayloads |-> IF p = p3 THEN h2 ELSE h1]

\* MaxInFlight bounds the messages the two links hold together.
FewInFlight == Cardinality(toUnity) + Cardinality(toPython) <= MaxInFlight
=============================================================================
