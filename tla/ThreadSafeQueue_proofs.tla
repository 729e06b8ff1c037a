------------------------ MODULE ThreadSafeQueue_proofs ------------------------
(***************************************************************************)
(* Proofs about the queue between threads, for every number of producers,  *)
(* of consumers of either kind, every capacity and every number of calls.  *)
(*                                                                         *)
(* The semaphore and the list change in different steps, so what relates   *)
(* them has to count the threads in between: consumers that took a unit    *)
(* and not yet an element, producers that inserted and not yet released,   *)
(* and producers that saw a free place and did not yet fill it.            *)
(***************************************************************************)
EXTENDS ThreadSafeQueue, FiniteSetTheorems, TLAPS

\* Consumers that own a unit of the semaphore and have not taken their element.
Owners == {c \in Consumers : pc[c] \in {"acquired", "take"}}

\* Producers that inserted an element and have not released its unit.
Unannounced == {p \in Producers : pc[p] = "inserted"}

\* Producers that found a free place and have not filled it.
Admitted == {p \in Producers : pc[p] \in {"checked", "insert"}}

Kinds ==
  /\ \A p \in Producers :
       /\ pc[p] \in {"ready", "checked", "insert", "inserted", "leave"}
       /\ pc[p] # "ready" => calls[p] > 0
  /\ \A c \in Consumers :
       pc[c] \in {"ready", "acquire", "acquired", "take", "leave"}

\* Whoever is between lock and unlock holds the mutex.
Exclusion ==
  \A t \in Threads : pc[t] \in {"insert", "inserted", "leave", "take"} => mutex = t

\* Every element has a unit, is promised to an owner, or is not announced yet.
Balance == Len(queue) = sem + Cardinality(Owners) + Cardinality(Unannounced)

Capacity == Len(queue) + Cardinality(Admitted) < MaxSize + Cardinality(Producers)

\* What passed through the queue: the elements taken and those still in it.
History == taken \o queue

\* An element in the history was offered by a call that its producer has made,
\* and, while a producer is about to insert, by an earlier one.
Offers ==
  \A i \in 1 .. Len(History) : \A p \in Producers :
    History[i][1] = p =>
      /\ History[i][2] <= calls[p]
      /\ pc[p] \in {"checked", "insert"} => History[i][2] < calls[p]

Control == TypeOK /\ Kinds /\ Exclusion

IndInv == Control /\ Balance /\ Capacity /\ FirstInFirstOut /\ Offers

USE QueueAssumption

-----------------------------------------------------------------------------
(***************************************************************************)
(* Control: types, where threads can be and who holds the mutex.           *)
(***************************************************************************)
LEMMA ControlInit == Init => Control
  BY DEF Init, Control, TypeOK, Kinds, Exclusion, Threads

LEMMA ControlStep == Control /\ [Next]_vars => Control'
<1> SUFFICES ASSUME Control, [Next]_vars PROVE Control'
  OBVIOUS
<1> USE DEF Control, TypeOK, Kinds, Exclusion, Threads
<1>1. ASSUME NEW p \in Producers, EnqueueCheck(p) PROVE Control'
  <2> USE <1>1 DEF EnqueueCheck, GoTo
  <2>0. calls[p] + 1 \in 0 .. MaxCalls
    BY calls[p] \in 0 .. MaxCalls
  <2>1. TypeOK'  BY <2>0
  <2>2. Kinds'  OBVIOUS
  <2>3. Exclusion'  OBVIOUS
  <2> QED  BY <2>1, <2>2, <2>3
<1>2. ASSUME NEW p \in Producers, EnqueueLock(p) PROVE Control'
  <2> USE <1>2 DEF EnqueueLock, Lock, GoTo
  <2>1. TypeOK'  OBVIOUS
  <2>2. Kinds'  OBVIOUS
  <2>3. Exclusion'  OBVIOUS
  <2> QED  BY <2>1, <2>2, <2>3
<1>3. ASSUME NEW p \in Producers, EnqueueInsert(p) PROVE Control'
  <2>1. calls[p] \in 1 .. MaxCalls
    BY <1>3 DEF EnqueueInsert
  <2> QED  BY <1>3, <2>1 DEF EnqueueInsert, GoTo, Offered, Elements
<1>4. ASSUME NEW p \in Producers, EnqueueRelease(p) PROVE Control'
  <2> USE <1>4 DEF EnqueueRelease, GoTo
  <2>1. TypeOK'  OBVIOUS
  <2>2. Kinds'  OBVIOUS
  <2>3. Exclusion'  OBVIOUS
  <2> QED  BY <2>1, <2>2, <2>3
<1>5. ASSUME NEW p \in Producers, EnqueueUnlock(p) PROVE Control'
  <2> USE <1>5 DEF EnqueueUnlock, Unlock, GoTo
  <2>1. TypeOK'  OBVIOUS
  <2>2. Kinds'  OBVIOUS
  <2>3. Exclusion'  OBVIOUS
  <2> QED  BY <2>1, <2>2, <2>3
<1>6. ASSUME NEW c \in Consumers, PollCheck(c) PROVE Control'
  <2> USE <1>6 DEF PollCheck, GoTo
  <2>1. TypeOK'  OBVIOUS
  <2>2. Kinds'  OBVIOUS
  <2>3. Exclusion'  OBVIOUS
  <2> QED  BY <2>1, <2>2, <2>3
<1>7. ASSUME NEW c \in Consumers, DequeueCall(c) PROVE Control'
  <2> USE <1>7 DEF DequeueCall, GoTo
  <2>1. TypeOK'  OBVIOUS
  <2>2. Kinds'  OBVIOUS
  <2>3. Exclusion'  OBVIOUS
  <2> QED  BY <2>1, <2>2, <2>3
<1>8. ASSUME NEW c \in Consumers, DequeueAcquire(c) PROVE Control'
  <2> USE <1>8 DEF DequeueAcquire, GoTo
  <2>1. TypeOK'  OBVIOUS
  <2>2. Kinds'  OBVIOUS
  <2>3. Exclusion'  OBVIOUS
  <2> QED  BY <2>1, <2>2, <2>3
<1>9. ASSUME NEW c \in Consumers, DequeueTimeout(c) PROVE Control'
  <2> USE <1>9 DEF DequeueTimeout, GoTo
  <2>1. TypeOK'  OBVIOUS
  <2>2. Kinds'  OBVIOUS
  <2>3. Exclusion'  OBVIOUS
  <2> QED  BY <2>1, <2>2, <2>3
<1>10. ASSUME NEW c \in Consumers, DequeueLock(c) PROVE Control'
  <2> USE <1>10 DEF DequeueLock, Lock, GoTo
  <2>1. TypeOK'  OBVIOUS
  <2>2. Kinds'  OBVIOUS
  <2>3. Exclusion'  OBVIOUS
  <2> QED  BY <2>1, <2>2, <2>3
<1>11. ASSUME NEW c \in Consumers, DequeueTake(c) PROVE Control'
  <2> USE <1>11 DEF DequeueTake, GoTo
  <2>1. TypeOK'  OBVIOUS
  <2>2. Kinds'  OBVIOUS
  <2>3. Exclusion'  OBVIOUS
  <2> QED  BY <2>1, <2>2, <2>3
<1>12. ASSUME NEW c \in Consumers, DequeueUnlock(c) PROVE Control'
  <2> USE <1>12 DEF DequeueUnlock, Unlock, GoTo
  <2>1. TypeOK'  OBVIOUS
  <2>2. Kinds'  OBVIOUS
  <2>3. Exclusion'  OBVIOUS
  <2> QED  BY <2>1, <2>2, <2>3
<1>13. CASE UNCHANGED vars
  BY <1>13 DEF vars
<1> QED
  BY <1>1, <1>2, <1>3, <1>4, <1>5, <1>6, <1>7, <1>8, <1>9, <1>10, <1>11, <1>12, <1>13
  DEF Next, EnqueueStep, Dequeue

-----------------------------------------------------------------------------
(***************************************************************************)
(* Counting: the threads between the steps of a call.                      *)
(***************************************************************************)
LEMMA AddOne ==
  ASSUME NEW S, IsFiniteSet(S), NEW A, A \subseteq S, NEW x \in S, x \notin A
  PROVE  Cardinality(A \cup {x}) = Cardinality(A) + 1
  BY FS_Subset, FS_AddElement

LEMMA RemoveOne ==
  ASSUME NEW S, IsFiniteSet(S), NEW A, A \subseteq S, NEW x \in A
  PROVE  Cardinality(A \ {x}) = Cardinality(A) - 1
  BY FS_Subset, FS_RemoveElement

LEMMA Counts ==
  /\ Cardinality(Owners) \in Nat
  /\ Cardinality(Unannounced) \in Nat
  /\ Cardinality(Admitted) \in Nat
  /\ Cardinality(Producers) \in Nat
  /\ Cardinality(Admitted) <= Cardinality(Producers)
  BY FS_Subset, FS_CardinalityType DEF Owners, Unannounced, Admitted

\* The units, the elements and the threads between them change together.
Counting == Balance /\ Capacity

LEMMA CountingInit == Init => Counting
<1> SUFFICES ASSUME Init PROVE Counting
  OBVIOUS
<1>1. Owners = {} /\ Unannounced = {} /\ Admitted = {}
  BY DEF Init, Owners, Unannounced, Admitted, Threads
<1>2. Cardinality(Producers) \in Nat /\ Cardinality({}) = 0
  BY FS_CardinalityType, FS_EmptySet
<1> QED
  BY <1>1, <1>2 DEF Init, Counting, Balance, Capacity

LEMMA CountingStep == Control /\ Counting /\ [Next]_vars => Counting'
<1> SUFFICES ASSUME Control, Counting, [Next]_vars PROVE Counting'
  OBVIOUS
<1> USE DEF Control
<1>1. ASSUME NEW p \in Producers, EnqueueCheck(p) PROVE Counting'
  <2> USE <1>1 DEF EnqueueCheck, GoTo
  <2>1. UNCHANGED <<Owners, Unannounced, queue, sem>>
    BY DEF Owners, Unannounced, Kinds, TypeOK, Threads
  <2>2. CASE isFull /\ UNCHANGED pc
    BY <2>1, <2>2 DEF Counting, Balance, Capacity, Admitted
  <2>3. CASE ~isFull
    <3>1. Admitted' \subseteq Producers
      BY DEF Admitted
    <3>2. Cardinality(Admitted') \in Nat /\ Cardinality(Admitted') <= Cardinality(Producers)
      BY <3>1, FS_Subset, FS_CardinalityType
    <3>3. Len(queue) < MaxSize /\ Len(queue) \in Nat
      BY <2>3 DEF isFull, TypeOK
    <3> QED  BY <2>1, <3>2, <3>3, Counts DEF Counting, Balance, Capacity
  <2> QED  BY <2>2, <2>3
<1>2. ASSUME NEW p \in Producers, EnqueueLock(p) PROVE Counting'
  <2> USE <1>2 DEF EnqueueLock, Lock, GoTo
  <2>1. UNCHANGED <<Owners, Unannounced, Admitted>>
    BY DEF Owners, Unannounced, Admitted, Kinds, TypeOK, Threads
  <2>2. Len(queue') = Len(queue) /\ Len(queue) \in Nat /\ sem \in Nat
    BY DEF TypeOK
  <2> QED  BY <2>1, <2>2, Counts, SMTT(30) DEF Counting, Balance, Capacity
<1>3. ASSUME NEW p \in Producers, EnqueueInsert(p) PROVE Counting'
  <2> USE <1>3 DEF EnqueueInsert, GoTo
  <2>1. UNCHANGED <<Owners, sem>>
    BY DEF Owners, Unannounced, Admitted, Kinds, TypeOK, Threads
  <2>2. p \notin Unannounced /\ Unannounced' = Unannounced \cup {p}
    BY DEF Unannounced, Kinds, TypeOK, Threads
  <2>3. Cardinality(Unannounced') = Cardinality(Unannounced) + 1
    <3>1. Unannounced \subseteq Producers  BY DEF Unannounced
    <3> QED  BY <3>1, <2>2, AddOne
  <2>4. p \in Admitted /\ Admitted' = Admitted \ {p}
    BY DEF Admitted, Kinds, TypeOK, Threads
  <2>5. Cardinality(Admitted') = Cardinality(Admitted) - 1
    <3>1. Admitted \subseteq Producers  BY DEF Admitted
    <3> QED  BY <3>1, <2>4, RemoveOne
  <2>6. Len(queue') = Len(queue) + 1 /\ Len(queue) \in Nat /\ sem \in Nat
    BY DEF TypeOK
  <2> QED  BY <2>1, <2>3, <2>5, <2>6, Counts, SMTT(30) DEF Counting, Balance, Capacity
<1>4. ASSUME NEW p \in Producers, EnqueueRelease(p) PROVE Counting'
  <2> USE <1>4 DEF EnqueueRelease, GoTo
  <2>1. UNCHANGED <<Owners, Admitted>>
    BY DEF Owners, Unannounced, Admitted, Kinds, TypeOK, Threads
  <2>2. p \in Unannounced /\ Unannounced' = Unannounced \ {p}
    BY DEF Unannounced, Kinds, TypeOK, Threads
  <2>3. Cardinality(Unannounced') = Cardinality(Unannounced) - 1
    <3>1. Unannounced \subseteq Producers  BY DEF Unannounced
    <3> QED  BY <3>1, <2>2, RemoveOne
  <2>4. Len(queue') = Len(queue) /\ Len(queue) \in Nat /\ sem \in Nat
    BY DEF TypeOK
  <2> QED  BY <2>1, <2>3, <2>4, Counts, SMTT(30) DEF Counting, Balance, Capacity
<1>5. ASSUME NEW p \in Producers, EnqueueUnlock(p) PROVE Counting'
  <2> USE <1>5 DEF EnqueueUnlock, Unlock, GoTo
  <2>1. UNCHANGED <<Owners, Unannounced, Admitted>>
    BY DEF Owners, Unannounced, Admitted, Kinds, TypeOK, Threads
  <2>2. Len(queue') = Len(queue) /\ Len(queue) \in Nat /\ sem \in Nat
    BY DEF TypeOK
  <2> QED  BY <2>1, <2>2, Counts, SMTT(30) DEF Counting, Balance, Capacity
<1>6. ASSUME NEW c \in Consumers, PollCheck(c) PROVE Counting'
  <2> USE <1>6 DEF PollCheck, GoTo
  <2>1. UNCHANGED <<Owners, Unannounced, Admitted>>
    BY DEF Owners, Unannounced, Admitted, Kinds, TypeOK, Threads
  <2>2. Len(queue') = Len(queue) /\ Len(queue) \in Nat /\ sem \in Nat
    BY DEF TypeOK
  <2> QED  BY <2>1, <2>2, Counts, SMTT(30) DEF Counting, Balance, Capacity
<1>7. ASSUME NEW c \in Consumers, DequeueCall(c) PROVE Counting'
  <2> USE <1>7 DEF DequeueCall, GoTo
  <2>1. UNCHANGED <<Owners, Unannounced, Admitted>>
    BY DEF Owners, Unannounced, Admitted, Kinds, TypeOK, Threads
  <2>2. Len(queue') = Len(queue) /\ Len(queue) \in Nat /\ sem \in Nat
    BY DEF TypeOK
  <2> QED  BY <2>1, <2>2, Counts, SMTT(30) DEF Counting, Balance, Capacity
<1>8. ASSUME NEW c \in Consumers, DequeueAcquire(c) PROVE Counting'
  <2> USE <1>8 DEF DequeueAcquire, GoTo
  <2>1. UNCHANGED <<Unannounced, Admitted>>
    BY DEF Owners, Unannounced, Admitted, Kinds, TypeOK, Threads
  <2>2. c \notin Owners /\ Owners' = Owners \cup {c}
    BY DEF Owners, Kinds, TypeOK, Threads
  <2>3. Cardinality(Owners') = Cardinality(Owners) + 1
    <3>1. Owners \subseteq Consumers  BY DEF Owners
    <3> QED  BY <3>1, <2>2, AddOne
  <2>4. Len(queue') = Len(queue) /\ Len(queue) \in Nat /\ sem \in Nat
    BY DEF TypeOK
  <2> QED  BY <2>1, <2>3, <2>4, Counts, SMTT(30) DEF Counting, Balance, Capacity
<1>9. ASSUME NEW c \in Consumers, DequeueTimeout(c) PROVE Counting'
  <2> USE <1>9 DEF DequeueTimeout, GoTo
  <2>1. UNCHANGED <<Owners, Unannounced, Admitted>>
    BY DEF Owners, Unannounced, Admitted, Kinds, TypeOK, Threads
  <2>2. Len(queue') = Len(queue) /\ Len(queue) \in Nat /\ sem \in Nat
    BY DEF TypeOK
  <2> QED  BY <2>1, <2>2, Counts, SMTT(30) DEF Counting, Balance, Capacity
<1>10. ASSUME NEW c \in Consumers, DequeueLock(c) PROVE Counting'
  <2> USE <1>10 DEF DequeueLock, Lock, GoTo
  <2>1. UNCHANGED <<Owners, Unannounced, Admitted>>
    BY DEF Owners, Unannounced, Admitted, Kinds, TypeOK, Threads
  <2>2. Len(queue') = Len(queue) /\ Len(queue) \in Nat /\ sem \in Nat
    BY DEF TypeOK
  <2> QED  BY <2>1, <2>2, Counts, SMTT(30) DEF Counting, Balance, Capacity
<1>11. ASSUME NEW c \in Consumers, DequeueTake(c) PROVE Counting'
  <2> USE <1>11 DEF DequeueTake, GoTo
  <2>1. UNCHANGED <<Unannounced, Admitted>>
    BY DEF Owners, Unannounced, Admitted, Kinds, TypeOK, Threads
  <2>2. c \in Owners /\ Owners' = Owners \ {c}
    BY DEF Owners, Kinds, TypeOK, Threads
  <2>3. Cardinality(Owners') = Cardinality(Owners) - 1
    <3>1. Owners \subseteq Consumers  BY DEF Owners
    <3> QED  BY <3>1, <2>2, RemoveOne
  <2>4. Len(queue') = Len(queue) - 1 /\ Len(queue) \in Nat /\ sem \in Nat
    BY DEF TypeOK
  <2> QED  BY <2>1, <2>3, <2>4, Counts, SMTT(30) DEF Counting, Balance, Capacity
<1>12. ASSUME NEW c \in Consumers, DequeueUnlock(c) PROVE Counting'
  <2> USE <1>12 DEF DequeueUnlock, Unlock, GoTo
  <2>1. UNCHANGED <<Owners, Unannounced, Admitted>>
    BY DEF Owners, Unannounced, Admitted, Kinds, TypeOK, Threads
  <2>2. Len(queue') = Len(queue) /\ Len(queue) \in Nat /\ sem \in Nat
    BY DEF TypeOK
  <2> QED  BY <2>1, <2>2, Counts, SMTT(30) DEF Counting, Balance, Capacity
<1>13. CASE UNCHANGED vars
  BY <1>13 DEF vars, Counting, Balance, Capacity, Owners, Unannounced, Admitted
<1> QED
  BY <1>1, <1>2, <1>3, <1>4, <1>5, <1>6, <1>7, <1>8, <1>9, <1>10, <1>11, <1>12, <1>13
  DEF Next, EnqueueStep, Dequeue

-----------------------------------------------------------------------------
(***************************************************************************)
(* Order: what the history of the queue holds.                             *)
(***************************************************************************)
Order == FirstInFirstOut /\ Offers

\* Taking moves the head over and leaves the history alone.
LEMMA HistoryTake ==
  ASSUME NEW E, NEW s \in Seq(E), NEW q \in Seq(E), q # <<>>
  PROVE  Append(s, Head(q)) \o Tail(q) = s \o q
  OBVIOUS

\* Inserting appends to the history.
LEMMA HistoryInsert ==
  ASSUME NEW E, NEW s \in Seq(E), NEW q \in Seq(E), NEW e \in E
  PROVE  s \o Append(q, e) = Append(s \o q, e)
  OBVIOUS

LEMMA OrderInit == Init => Order
  BY DEF Init, Order, FirstInFirstOut, Offers, History

LEMMA OrderStep == Control /\ Control' /\ Order /\ [Next]_vars => Order'
<1> SUFFICES ASSUME Control, Control', Order, [Next]_vars PROVE Order'
  OBVIOUS
<1> USE DEF Control
<1>0. /\ History \in Seq(Elements)
      /\ \A i, j \in 1 .. Len(History) :
           i < j /\ History[i][1] = History[j][1] => History[i][2] < History[j][2]
      /\ Offers
  <2>1. History \in Seq(Elements)
    BY DEF TypeOK, History
  <2>2. Offers /\ FirstInFirstOut
    BY DEF Order
  <2>3. \A i, j \in 1 .. Len(History) :
          i < j /\ History[i][1] = History[j][1] => History[i][2] < History[j][2]
    BY ONLY <2>2 DEF FirstInFirstOut, History
  <2> QED  BY <2>1, <2>2, <2>3
<1>1. ASSUME History' = History,
             \A p \in Producers :
               /\ calls[p] <= calls'[p]
               /\ pc'[p] \in {"checked", "insert"} =>
                    pc[p] \in {"checked", "insert"} \/ calls[p] < calls'[p]
      PROVE  Order'
  <2>1. FirstInFirstOut'
    BY <1>0, <1>1 DEF FirstInFirstOut, History
  <2>2. Offers'
    <3> SUFFICES ASSUME NEW i \in 1 .. Len(History), NEW p \in Producers, History[i][1] = p
                 PROVE  /\ History[i][2] <= calls'[p]
                        /\ pc'[p] \in {"checked", "insert"} => History[i][2] < calls'[p]
      BY <1>1 DEF Offers
    <3>1. /\ History[i][2] <= calls[p]
          /\ pc[p] \in {"checked", "insert"} => History[i][2] < calls[p]
      BY <1>0 DEF Offers
    <3>2. History[i][2] \in Nat /\ calls[p] \in Nat /\ calls'[p] \in Nat
      <4>1. History[i] \in Producers \X (1 .. MaxCalls)
        BY <1>0 DEF Elements
      <4>2. History[i][2] \in 1 .. MaxCalls
        BY <4>1
      <4> QED  BY <4>2 DEF TypeOK
    <3> QED  BY <1>1, <3>1, <3>2
  <2> QED  BY <2>1, <2>2 DEF Order
<1>2. ASSUME NEW p \in Producers, EnqueueInsert(p) PROVE Order'
  <2> USE <1>2 DEF EnqueueInsert, GoTo
  <2>1. Offered(p) \in Elements
    BY DEF Offered, Elements, TypeOK, Kinds
  <2>2. History' = Append(History, Offered(p))
    BY <2>1, HistoryInsert DEF History, TypeOK
  <2>3. ASSUME NEW i \in 1 .. Len(History), History[i][1] = p
        PROVE  History[i][2] < calls[p]
    BY <1>0, <2>3 DEF Offers
  <2>4. /\ Len(History') = Len(History) + 1 /\ Len(History) \in Nat
        /\ \A i \in 1 .. Len(History) : History'[i] = History[i]
        /\ History'[Len(History) + 1] = <<p, calls[p]>>
    BY <1>0, <2>1, <2>2 DEF Offered
  <2>5. \A i, j \in 1 .. Len(History') :
          i < j /\ History'[i][1] = History'[j][1] => History'[i][2] < History'[j][2]
    <3> SUFFICES ASSUME NEW i \in 1 .. Len(History'), NEW j \in 1 .. Len(History'),
                        i < j, History'[i][1] = History'[j][1]
                 PROVE  History'[i][2] < History'[j][2]
      OBVIOUS
    <3>1. i \in 1 .. Len(History)
      BY <2>4
    <3>2. CASE j \in 1 .. Len(History)
      BY <1>0, <2>4, <3>1, <3>2
    <3>3. CASE j = Len(History) + 1
      <4>1. History[i][1] = p /\ History'[j][2] = calls[p] /\ History'[i] = History[i]
        BY <2>4, <3>1, <3>3
      <4> QED  BY <2>3, <3>1, <4>1
    <3> QED  BY <2>4, <3>2, <3>3
  <2>6. Offers'
    <3> SUFFICES ASSUME NEW i \in 1 .. Len(History'), NEW q \in Producers, History'[i][1] = q
                 PROVE  /\ History'[i][2] <= calls[q]
                        /\ pc'[q] \in {"checked", "insert"} => History'[i][2] < calls[q]
      BY DEF Offers
    <3>1. CASE i \in 1 .. Len(History)
      BY <1>0, <2>4, <3>1 DEF Offers, TypeOK, Threads
    <3>2. CASE i = Len(History) + 1
      BY <2>4, <3>2 DEF TypeOK, Threads
    <3> QED  BY <2>4, <3>1, <3>2
  <2> QED  BY <2>5, <2>6 DEF Order, FirstInFirstOut, History
<1>3. ASSUME NEW c \in Consumers, DequeueTake(c) PROVE Order'
  <2>1. History' = History
    BY <1>3, HistoryTake DEF DequeueTake, History, TypeOK
  <2> QED  BY <1>1, <1>3, <2>1 DEF DequeueTake, GoTo, TypeOK, Threads
<1>4. ASSUME NEW p \in Producers, EnqueueCheck(p) PROVE Order'
  <2>1. History' = History
    BY <1>4 DEF EnqueueCheck, History
  <2> QED  BY <1>1, <1>4, <2>1 DEF EnqueueCheck, GoTo, TypeOK, Threads
<1>5. ASSUME NEW p \in Producers, EnqueueLock(p) \/ EnqueueRelease(p) \/ EnqueueUnlock(p)
      PROVE Order'
  <2>1. History' = History /\ calls' = calls
    BY <1>5 DEF EnqueueLock, EnqueueRelease, EnqueueUnlock, History
  <2> QED
    BY <1>1, <1>5, <2>1
    DEF EnqueueLock, EnqueueRelease, EnqueueUnlock, Lock, Unlock, GoTo, TypeOK, Threads
<1>6. ASSUME NEW c \in Consumers,
             \/ PollCheck(c) \/ DequeueCall(c) \/ DequeueAcquire(c)
             \/ DequeueTimeout(c) \/ DequeueLock(c) \/ DequeueUnlock(c)
      PROVE Order'
  <2>1. History' = History /\ calls' = calls
    BY <1>6 DEF PollCheck, DequeueCall, DequeueAcquire, DequeueTimeout, DequeueLock,
                DequeueUnlock, History
  <2>2. \A p \in Producers : pc'[p] = pc[p]
    BY <1>6 DEF PollCheck, DequeueCall, DequeueAcquire, DequeueTimeout, DequeueLock,
                DequeueUnlock, Lock, Unlock, GoTo, TypeOK, Threads
  <2> QED  BY <1>1, <2>1, <2>2 DEF TypeOK
<1>7. CASE UNCHANGED vars
  BY <1>1, <1>7 DEF vars, History, TypeOK
<1> QED
  BY <1>2, <1>3, <1>4, <1>5, <1>6, <1>7 DEF Next, EnqueueStep, Dequeue

-----------------------------------------------------------------------------
(***************************************************************************)
(* The theorems.                                                           *)
(***************************************************************************)
\* What relates the list, the semaphore, the mutex and the threads between two
\* steps of a call holds in every reachable state.
THEOREM Invariant == Spec => []IndInv
<1>1. Init => IndInv
  BY ControlInit, CountingInit, OrderInit DEF IndInv, Counting, Order
<1>2. IndInv /\ [Next]_vars => IndInv'
  BY ControlStep, CountingStep, OrderStep DEF IndInv, Counting, Order
<1> QED  BY <1>1, <1>2, PTL DEF Spec

\* Type correctness.
THEOREM TypeCorrect == Spec => []TypeOK
<1>1. IndInv => TypeOK
  BY DEF IndInv, Control
<1> QED  BY <1>1, Invariant, PTL

\* A consumer that has the mutex finds an element in the list, so m_queue.dequeue
\* in dequeue is never called on an empty list.
THEOREM TakeFindsElementHolds == Spec => []TakeFindsElement
<1>1. IndInv => TakeFindsElement
  <2> SUFFICES ASSUME IndInv, NEW c \in Consumers, pc[c] = "take" PROVE queue # <<>>
    BY DEF TakeFindsElement
  <2>1. c \in Owners
    BY DEF Owners
  <2>2. Cardinality(Owners \ {c}) = Cardinality(Owners) - 1 /\ Cardinality(Owners \ {c}) \in Nat
    <3>1. Owners \subseteq Consumers
      BY DEF Owners
    <3> QED  BY <2>1, <3>1, RemoveOne, FS_Subset, FS_CardinalityType
  <2>3. Len(queue) > 0
    BY <2>2, Counts DEF IndInv, Control, TypeOK, Balance
  <2> QED  BY <2>3
<1> QED  BY <1>1, Invariant, PTL

\* The elements of one producer leave the queue in the order it offered them,
\* and none leaves twice.
THEOREM FirstInFirstOutHolds == Spec => []FirstInFirstOut
<1>1. IndInv => FirstInFirstOut
  BY DEF IndInv
<1> QED  BY <1>1, Invariant, PTL

\* isFull is read before the lock: the capacity can be exceeded, but by less
\* than the number of producers.
THEOREM BoundedHolds == Spec => []Bounded
<1>1. IndInv => Bounded
  <2> SUFFICES ASSUME IndInv PROVE Bounded
    OBVIOUS
  <2>1. Len(queue) \in Nat
    BY DEF IndInv, Control, TypeOK
  <2> QED  BY <2>1, Counts DEF IndInv, Capacity, Bounded
<1> QED  BY <1>1, Invariant, PTL
=============================================================================
