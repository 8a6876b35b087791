---------------------------- MODULE ExactlyOnce ----------------------------
(***************************************************************************)
(* What the reliable execution path promises the environment, without      *)
(* brokers, sockets or retries: Python requests one execution at a time;   *)
(* a requested execution is performed at most once, its result is          *)
(* committed at most once and only after it was performed, and Python      *)
(* gets a transition only for a committed execution.  A request may be     *)
(* given up at any time; its execution may still be performed, even        *)
(* committed, but never becomes a transition.                              *)
(***************************************************************************)
CONSTANT Executions

VARIABLES
    request,     \* what Python knows of each execution
    performed,   \* executions the simulator has carried out
    committed    \* executions whose result is committed

vars == <<request, performed, committed>>

Requests == {"new", "open", "transition", "abandoned"}

Init ==
    /\ request = [e \in Executions |-> "new"]
    /\ performed = {}
    /\ committed = {}

Open(e) ==
    /\ request[e] = "new"
    /\ \A d \in Executions : request[d] # "open"
    /\ request' = [request EXCEPT ![e] = "open"]
    /\ UNCHANGED <<performed, committed>>

Perform(e) ==
    /\ request[e] # "new"
    /\ e \notin performed
    /\ performed' = performed \union {e}
    /\ UNCHANGED <<request, committed>>

Commit(e) ==
    /\ e \in performed
    /\ e \notin committed
    /\ committed' = committed \union {e}
    /\ UNCHANGED <<request, performed>>

Return(e) ==
    /\ request[e] = "open"
    /\ e \in committed
    /\ request' = [request EXCEPT ![e] = "transition"]
    /\ UNCHANGED <<performed, committed>>

Abandon(e) ==
    /\ request[e] = "open"
    /\ request' = [request EXCEPT ![e] = "abandoned"]
    /\ UNCHANGED <<performed, committed>>

Next == \E e \in Executions :
            Open(e) \/ Perform(e) \/ Commit(e) \/ Return(e) \/ Abandon(e)

Spec == Init /\ [][Next]_vars
=============================================================================
