------------------------ MODULE MCSnapshotRetrieval ------------------------
(***************************************************************************)
(* Bounded instance of SnapshotRetrieval: an execution and a reset, each   *)
(* with its own reference, looked up one after the other.                  *)
(***************************************************************************)
EXTENDS SnapshotRetrieval

CONSTANTS e1, end1, start, s1

MCExecutions == {e1}
MCRefs == {end1, start}
MCRequests == {[key |-> e1, ref |-> end1], [key |-> start, ref |-> start]}
MCSnapshots == {s1}
=============================================================================
