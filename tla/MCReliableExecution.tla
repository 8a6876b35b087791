------------------------ MODULE MCReliableExecution ------------------------
(***************************************************************************)
(* Bounded instance of ReliableExecution: a few executions, each of which  *)
(* may be aborted at any wait, with at most MaxInFlight messages under way.*)
(***************************************************************************)
EXTENDS ReliableExecution, FiniteSets

CONSTANTS a, b, MaxExecutions, MaxInFlight

MCExecutions == 1..MaxExecutions
MCActions == {a}
MCTwoActions == {a, b}

InFlight ==
    Cardinality(toUnityCommand) + Cardinality(toPythonReceipt)
    + Cardinality(toUnityAck) + Cardinality(toPythonResult)
    + Cardinality(commands) + Cardinality(confirmations) + Cardinality(commits)
    + Cardinality(unityReceipts) + Cardinality(unityResults)

FewInFlight == InFlight <= MaxInFlight

\* Nobody has asked for e.
Untouched(e) ==
    /\ phase[e] = "new" /\ unity[e] = "unknown" /\ cmdValues[e] = None
    /\ \A p \in commands : p[1] # e

\* Two executions of one process, of one action; or one execution asked for by
\* several processes in turn, of two actions.
OneProcessOrOneExecution ==
    /\ FewInFlight
    /\ \/ restarts = 0 /\ \A e \in Executions : choice[e] # b
       \/ \A e \in Executions : e > 1 => Untouched(e)
=============================================================================
