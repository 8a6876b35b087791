-------------------------- MODULE MCSnapshotBroker --------------------------
(***************************************************************************)
(* Bounded instance of SnapshotBroker: two requests of the first execution *)
(* that conflict, one of the second, and two resets, which compete for one *)
(* tombstone; two contents for a snapshot to conflict with.                *)
(***************************************************************************)
EXTENDS SnapshotBroker, TLC

CONSTANTS e1, e2, end1, end1b, end2, start1, start2, s1, s2

MCExecutions == {e1, e2}
MCRefs == {end1, end1b, end2, start1, start2}
MCRequests == {[key |-> e1, ref |-> end1], [key |-> e1, ref |-> end1b],
               [key |-> e2, ref |-> end2], [key |-> start1, ref |-> start1],
               [key |-> start2, ref |-> start2]}
MCSnapshots == {s1, s2}

Symmetry == Permutations(MCSnapshots) \union Permutations({end1, end1b})
            \union Permutations({start1, start2})
=============================================================================
