--------------------------- MODULE TombstoneFifo ---------------------------
(***************************************************************************)
(* The bounded tombstone memory every bridge store keeps: a map from the   *)
(* key of a finished transaction to its identity, and a deque of the same  *)
(* keys, oldest first (terminal_ and terminal_order_ in the C++ stores).   *)
(* Adding a key to a full deque drops the oldest one from both.  The       *)
(* operators are pure; each store keeps its own map and deque.             *)
(***************************************************************************)
EXTENDS Naturals, Sequences

\* terminal_order_.push_back(key), and the pop_front of the loop after it.
\* The loop runs at most once: the deque never starts above its capacity.
Pushed(order, key, capacity) ==
    LET longer == Append(order, key)
    IN  IF Len(longer) > capacity THEN Tail(longer) ELSE longer

\* The keys that loop erases from terminal_.
Evicted(order, key, capacity) ==
    LET longer == Append(order, key)
    IN  IF Len(longer) > capacity THEN {Head(longer)} ELSE {}

\* The deque lists exactly the keys of S, each once, within the capacity.
Lists(order, S, capacity) ==
    /\ order \in Seq(S)
    /\ Len(order) <= capacity
    /\ \A i, j \in 1..Len(order) : order[i] = order[j] => i = j
    /\ \A k \in S : \E i \in 1..Len(order) : order[i] = k
=============================================================================
