------------------------ MODULE TombstoneFifoProofs ------------------------
(***************************************************************************)
(* The bounded deque of tombstones lists exactly the keys that have one:   *)
(* adding a key that is not listed keeps it so, whatever the capacity.     *)
(***************************************************************************)
EXTENDS TombstoneFifo, TLAPS

\* An empty deque lists no key.
LEMMA ListsEmpty ==
    ASSUME NEW capacity \in Nat
    PROVE  Lists(<<>>, {}, capacity)
  BY DEF Lists

\* With room left, push_back adds the key and erases none.
LEMMA ListsPushedWithRoom ==
    ASSUME NEW S, NEW order, NEW key, NEW capacity \in Nat \ {0},
           Lists(order, S, capacity), key \notin S, Len(order) < capacity
    PROVE  /\ Evicted(order, key, capacity) = {}
           /\ Lists(Pushed(order, key, capacity), S \union {key}, capacity)
<1> DEFINE T == S \union {key}
           longer == Append(order, key)
<1>1. order \in Seq(S) /\ Len(order) \in Nat
  BY DEF Lists
<1>2. order \in Seq(T)
  BY <1>1
<1>3. /\ longer \in Seq(T)
      /\ Len(longer) = Len(order) + 1
      /\ \A i \in 1..Len(order) : longer[i] = order[i]
      /\ longer[Len(order) + 1] = key
  BY <1>2
<1>4. Pushed(order, key, capacity) = longer /\ Evicted(order, key, capacity) = {}
  BY <1>1, <1>3 DEF Pushed, Evicted
<1>5. \A i \in 1..Len(order) : order[i] \in S
  BY <1>1
<1> HIDE DEF longer
<1>6. \A i, j \in 1..Len(longer) : longer[i] = longer[j] => i = j
  <2>1. \A i, j \in 1..Len(order) : order[i] = order[j] => i = j
    BY DEF Lists
  <2>2. \A i \in 1..Len(longer) : i \in 1..Len(order) \/ i = Len(order) + 1
    BY <1>1, <1>3
  <2> QED BY <2>1, <2>2, <1>3, <1>5
<1>7. \A k \in T : \E i \in 1..Len(longer) : longer[i] = k
  <2> TAKE k \in T
  <2>1. CASE k = key
    BY <2>1, <1>1, <1>3
  <2>2. CASE k \in S
    <3>1. PICK i \in 1..Len(order) : order[i] = k
      BY <2>2 DEF Lists
    <3>2. i \in 1..Len(longer) /\ longer[i] = k
      BY <3>1, <1>1, <1>3
    <3> QED BY <3>2
  <2> QED BY <2>1, <2>2
<1> QED BY <1>1, <1>3, <1>4, <1>6, <1>7 DEF Lists

\* At capacity, push_back erases the oldest key and that key only.
LEMMA ListsPushedWhenFull ==
    ASSUME NEW S, NEW order, NEW key, NEW capacity \in Nat \ {0},
           Lists(order, S, capacity), key \notin S, Len(order) = capacity
    PROVE  /\ Evicted(order, key, capacity) = {Head(order)}
           /\ Head(order) \in S
           /\ Lists(Pushed(order, key, capacity),
                    (S \union {key}) \ {Head(order)}, capacity)
<1> DEFINE oldest == Head(order)
           T == (S \union {key}) \ {oldest}
           kept == Tail(Append(order, key))
<1>1. order \in Seq(S) /\ Len(order) \in Nat /\ order # <<>>
  BY DEF Lists
<1>2. oldest = order[1] /\ oldest \in S /\ oldest # key
  BY <1>1
<1>3. /\ Len(Append(order, key)) = Len(order) + 1
      /\ Head(Append(order, key)) = oldest
      /\ Len(kept) = Len(order)
      /\ \A i \in 1..Len(order) :
           kept[i] = IF i = Len(order) THEN key ELSE order[i + 1]
      /\ kept \in Seq(S \union {key})
  <2>1. order \in Seq(S \union {key})
    BY <1>1
  <2>2. /\ Append(order, key) \in Seq(S \union {key})
        /\ Len(Append(order, key)) = Len(order) + 1
        /\ \A i \in 1..Len(order) : Append(order, key)[i] = order[i]
        /\ Append(order, key)[Len(order) + 1] = key
    BY <2>1
  <2> DEFINE longer == Append(order, key)
  <2> HIDE DEF longer
  <2>3. /\ Head(longer) = longer[1]
        /\ Tail(longer) \in Seq(S \union {key})
        /\ Len(Tail(longer)) = Len(longer) - 1
        /\ \A i \in 1..(Len(longer) - 1) : Tail(longer)[i] = longer[i + 1]
    BY <2>2, <1>1 DEF longer
  <2> QED BY <2>2, <2>3, <1>1, <1>2 DEF longer
<1>4. /\ Pushed(order, key, capacity) = kept
      /\ Evicted(order, key, capacity) = {oldest}
  BY <1>1, <1>3 DEF Pushed, Evicted
<1>5. \A i \in 1..Len(order) : order[i] \in S
  BY <1>1
<1>6. \A i, j \in 1..Len(order) : order[i] = order[j] => i = j
  BY DEF Lists
<1> HIDE DEF kept
<1>7. \A i \in 1..Len(kept) : kept[i] \in T
  <2> TAKE i \in 1..Len(kept)
  <2>1. CASE i = Len(order)
    BY <2>1, <1>1, <1>2, <1>3
  <2>2. CASE i # Len(order)
    <3>1. i + 1 \in 1..Len(order) /\ i + 1 # 1 /\ 1 \in 1..Len(order)
      BY <2>2, <1>1, <1>3
    <3>2. order[i + 1] # order[1]
      BY <3>1, <1>6
    <3> QED BY <2>2, <3>1, <3>2, <1>2, <1>3, <1>5
  <2> QED BY <2>1, <2>2
<1>8. kept \in Seq(T)
  BY <1>3, <1>7
<1>9. \A i, j \in 1..Len(kept) : kept[i] = kept[j] => i = j
  <2> TAKE i, j \in 1..Len(kept)
  <2>1. CASE i = Len(order) /\ j # Len(order)
    BY <2>1, <1>1, <1>3, <1>5
  <2>2. CASE i # Len(order) /\ j = Len(order)
    BY <2>2, <1>1, <1>3, <1>5
  <2>3. CASE i # Len(order) /\ j # Len(order)
    <3>1. i + 1 \in 1..Len(order) /\ j + 1 \in 1..Len(order)
      BY <2>3, <1>1, <1>3
    <3>2. order[i + 1] = order[j + 1] => i + 1 = j + 1
      BY <3>1, <1>6
    <3> QED BY <2>3, <3>1, <3>2, <1>1, <1>3
  <2> QED BY <2>1, <2>2, <2>3
<1>10. \A k \in T : \E i \in 1..Len(kept) : kept[i] = k
  <2> TAKE k \in T
  <2>1. CASE k = key
    BY <2>1, <1>1, <1>3
  <2>2. CASE k \in S
    <3>1. PICK i \in 1..Len(order) : order[i] = k
      BY <2>2 DEF Lists
    <3>2. i # 1
      BY <3>1, <1>2
    <3>3. /\ i - 1 \in 1..Len(kept)
          /\ kept[i - 1] = k
      BY <3>1, <3>2, <1>1, <1>3
    <3> QED BY <3>3
  <2> QED BY <2>1, <2>2
<1> QED BY <1>2, <1>3, <1>4, <1>8, <1>9, <1>10 DEF Lists

\* Pushing a key that is not listed keeps the deque and the key set of the
\* map together: FinalizeExecution, CommitPython and RememberTerminal all end
\* with this loop.
THEOREM ListsPushed ==
    ASSUME NEW S, NEW order, NEW key, NEW capacity \in Nat \ {0},
           Lists(order, S, capacity), key \notin S
    PROVE  /\ Lists(Pushed(order, key, capacity),
                    (S \union {key}) \ Evicted(order, key, capacity), capacity)
           /\ key \notin Evicted(order, key, capacity)
           /\ \A k \in Evicted(order, key, capacity) :
                k = Head(order) /\ Len(order) = capacity
<1>1. Len(order) \in Nat /\ Len(order) <= capacity
  BY DEF Lists
<1>2. CASE Len(order) < capacity
  <2>1. /\ Evicted(order, key, capacity) = {}
        /\ Lists(Pushed(order, key, capacity), S \union {key}, capacity)
    BY <1>2, ListsPushedWithRoom
  <2>2. (S \union {key}) \ {} = S \union {key}
    OBVIOUS
  <2> QED BY <2>1, <2>2
<1>3. CASE Len(order) = capacity
  <2>1. /\ Evicted(order, key, capacity) = {Head(order)}
        /\ Head(order) \in S
        /\ Lists(Pushed(order, key, capacity),
                 (S \union {key}) \ {Head(order)}, capacity)
    BY <1>3, ListsPushedWhenFull
  <2> QED BY <2>1, <1>3
<1> QED BY <1>1, <1>2, <1>3

\* The deque grows by one until it is full, and stays full from then on.
LEMMA PushedLength ==
    ASSUME NEW S, NEW order, NEW key, NEW capacity \in Nat \ {0},
           Lists(order, S, capacity), key \notin S
    PROVE  /\ Len(order) \in Nat
           /\ Len(order) < capacity =>
                /\ Evicted(order, key, capacity) = {}
                /\ Len(Pushed(order, key, capacity)) = Len(order) + 1
           /\ ~(Len(order) < capacity) =>
                /\ Evicted(order, key, capacity) = {Head(order)}
                /\ Head(order) \in S
                /\ Len(Pushed(order, key, capacity)) = capacity
<1>1. order \in Seq(S) /\ Len(order) \in Nat /\ Len(order) <= capacity
  BY DEF Lists
<1>2. order \in Seq(S \union {key})
  BY <1>1
<1> DEFINE longer == Append(order, key)
<1>3. longer \in Seq(S \union {key}) /\ Len(longer) = Len(order) + 1
  BY <1>2
<1> HIDE DEF longer
<1>4. longer # <<>> => Len(Tail(longer)) = Len(longer) - 1
  BY <1>3
<1>5. CASE Len(order) < capacity
  BY <1>1, <1>3, <1>5, ListsPushedWithRoom DEF Pushed, longer
<1>6. CASE Len(order) = capacity
  <2>1. Len(longer) > capacity /\ longer # <<>>
    BY <1>1, <1>3, <1>6
  <2>2. Len(Pushed(order, key, capacity)) = capacity
    BY <1>1, <1>3, <1>4, <1>6, <2>1 DEF Pushed, longer
  <2>3. Evicted(order, key, capacity) = {Head(order)} /\ Head(order) \in S
    BY <1>6, ListsPushedWhenFull
  <2>4. ~(Len(order) < capacity)
    BY <1>6
  <2> QED BY <1>1, <2>2, <2>3, <2>4
<1> QED BY <1>1, <1>5, <1>6
=============================================================================
