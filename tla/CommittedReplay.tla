--------------------------- MODULE CommittedReplay ---------------------------
(***************************************************************************)
(* What the checkpoint transaction promises a training run, without files, *)
(* generations or sidecars: a bounded replay that takes rows while the     *)
(* process lives, one commit that replaces the last committed replay by    *)
(* the live one, processes that end at any time, and processes that start  *)
(* again with exactly the rows of the last commit.                         *)
(***************************************************************************)
EXTENDS Naturals, Sequences

CONSTANTS
    Capacity,   \* rows the replay holds
    None        \* no commit yet, or no process

VARIABLES
    committed,  \* the rows of the last commit, oldest first
    live        \* the rows the process would train from, oldest first

Init ==
    /\ committed = None
    /\ live = <<>>

\* n rows arrive; the oldest make room for them.
Collect(n) ==
    /\ live # None
    /\ live' \in Seq(Nat)
    /\ Len(live') = IF Len(live) + n < Capacity THEN Len(live) + n ELSE Capacity
    /\ \A i \in 1..(Len(live') - n) :
           live'[i] = live[i + Len(live) + n - Len(live')]
    /\ UNCHANGED committed

Commit ==
    /\ live # None
    /\ committed' = live
    /\ UNCHANGED live

End ==
    /\ live' = None
    /\ UNCHANGED committed

Resume ==
    /\ live = None
    /\ committed # None
    /\ live' = committed
    /\ UNCHANGED committed

Next == (\E n \in 1..Capacity : Collect(n)) \/ Commit \/ End \/ Resume

Spec == Init /\ [][Next]_<<committed, live>>
=============================================================================
