--------------------------- MODULE ThreadSafeQueue ---------------------------
(***************************************************************************)
(* The queue of bytes/mthreadqueue.h, between any number of threads: a     *)
(* list, a mutex and a semaphore that counts the elements.  enqueue looks  *)
(* at the length before it takes the mutex, and dequeue takes a unit of    *)
(* the semaphore before it takes the mutex.  Every access to a shared      *)
(* variable is a step of its own.                                          *)
(*                                                                         *)
(* Two kinds of consumer use it: those that call dequeue with a timeout    *)
(* (CommJ1939Db::request_read_thread_task) and those that look at isEmpty  *)
(* first and then call it with none (CanBase::recv_dequeue).               *)
(***************************************************************************)
EXTENDS Integers, Sequences, FiniteSets

CONSTANTS
  Producers,  \* threads that call enqueue
  Consumers,  \* threads that call dequeue
  Pollers,    \* the consumers that call isEmpty first and wait without a timeout
  Nobody,     \* what is no thread: the mutex is free
  MaxSize,    \* m_max_size
  MaxCalls    \* bound: how many elements each producer offers

ASSUME QueueAssumption ==
  /\ Producers \cap Consumers = {}
  /\ IsFiniteSet(Producers) /\ Producers # {}
  /\ IsFiniteSet(Consumers)
  /\ Pollers \subseteq Consumers
  /\ Nobody \notin Producers \cup Consumers
  /\ MaxSize \in Nat \ {0}
  /\ MaxCalls \in Nat

Threads == Producers \cup Consumers

\* An element: the producer that offers it and which one of its calls it is.
Elements == Producers \X (1 .. MaxCalls)

VARIABLES
  queue,  \* m_queue
  sem,    \* m_sem
  mutex,  \* the thread that holds m_mutex, or Nobody
  pc,     \* where each thread is
  calls,  \* how often each producer has called enqueue
  taken   \* history: the elements taken out, in that order

vars == <<queue, sem, mutex, pc, calls, taken>>

\* What a producer between isFull and the insertion is about to insert.
Offered(p) == <<p, calls[p]>>

Init ==
  /\ queue = <<>>
  /\ sem = 0
  /\ mutex = Nobody
  /\ pc = [t \in Threads |-> "ready"]
  /\ calls = [p \in Producers |-> 0]
  /\ taken = <<>>

GoTo(t, where) == pc' = [pc EXCEPT ![t] = where]

\* m_mutex.lock() and m_mutex.unlock()
Lock(t, where) ==
  /\ mutex = Nobody
  /\ mutex' = t
  /\ GoTo(t, where)

Unlock(t) ==
  /\ mutex' = Nobody
  /\ GoTo(t, "ready")

-----------------------------------------------------------------------------
\* Mutant: one place too many.
isOverfull == Len(queue) > MaxSize

isFull == Len(queue) >= MaxSize

\* enqueue of the next element: dropped, without notice, when the queue is full.
EnqueueCheck(p) ==
  /\ pc[p] = "ready"
  /\ calls[p] < MaxCalls
  /\ calls' = [calls EXCEPT ![p] = @ + 1]
  /\ \/ ~isFull /\ GoTo(p, "checked")
     \/ isFull /\ UNCHANGED pc
  /\ UNCHANGED <<queue, sem, mutex, taken>>

EnqueueLock(p) ==
  /\ pc[p] = "checked"
  /\ Lock(p, "insert")
  /\ UNCHANGED <<queue, sem, calls, taken>>

\* Mutant: inserts at the wrong end.
EnqueueFront(p) ==
  /\ pc[p] = "insert"
  /\ queue' = <<Offered(p)>> \o queue
  /\ GoTo(p, "inserted")
  /\ UNCHANGED <<sem, mutex, calls, taken>>

EnqueueInsert(p) ==
  /\ pc[p] = "insert"
  /\ queue' = Append(queue, Offered(p))
  /\ GoTo(p, "inserted")
  /\ UNCHANGED <<sem, mutex, calls, taken>>

\* Mutant: forgets the semaphore.
EnqueueUnannounced(p) ==
  /\ pc[p] = "inserted"
  /\ GoTo(p, "leave")
  /\ UNCHANGED <<queue, sem, mutex, calls, taken>>

EnqueueRelease(p) ==
  /\ pc[p] = "inserted"
  /\ sem' = sem + 1
  /\ GoTo(p, "leave")
  /\ UNCHANGED <<queue, mutex, calls, taken>>

EnqueueUnlock(p) ==
  /\ pc[p] = "leave"
  /\ Unlock(p)
  /\ UNCHANGED <<queue, sem, calls, taken>>

-----------------------------------------------------------------------------
isEmpty == queue = <<>>

\* CanBase::recv_dequeue and transmit_dequeue: nothing to do, or go and wait.
PollCheck(c) ==
  /\ c \in Pollers
  /\ pc[c] = "ready"
  /\ \/ ~isEmpty /\ GoTo(c, "acquire")
     \/ isEmpty /\ UNCHANGED pc
  /\ UNCHANGED <<queue, sem, mutex, calls, taken>>

DequeueCall(c) ==
  /\ c \notin Pollers
  /\ pc[c] = "ready"
  /\ GoTo(c, "acquire")
  /\ UNCHANGED <<queue, sem, mutex, calls, taken>>

\* Mutant: looks at the semaphore without taking a unit of it.
DequeueLook(c) ==
  /\ pc[c] = "acquire"
  /\ sem > 0
  /\ GoTo(c, "acquired")
  /\ UNCHANGED <<queue, sem, mutex, calls, taken>>

\* Mutant: takes a unit without waiting for one.
DequeueUnpaced(c) ==
  /\ pc[c] = "acquire"
  /\ sem' = sem - 1
  /\ GoTo(c, "acquired")
  /\ UNCHANGED <<queue, mutex, calls, taken>>

DequeueAcquire(c) ==
  /\ pc[c] = "acquire"
  /\ sem > 0
  /\ sem' = sem - 1
  /\ GoTo(c, "acquired")
  /\ UNCHANGED <<queue, mutex, calls, taken>>

\* tryAcquire runs into its timeout and dequeue returns false.
DequeueTimeout(c) ==
  /\ c \notin Pollers
  /\ pc[c] = "acquire"
  /\ sem = 0
  /\ GoTo(c, "ready")
  /\ UNCHANGED <<queue, sem, mutex, calls, taken>>

DequeueLock(c) ==
  /\ pc[c] = "acquired"
  /\ Lock(c, "take")
  /\ UNCHANGED <<queue, sem, calls, taken>>

DequeueTake(c) ==
  /\ pc[c] = "take"
  /\ queue # <<>>
  /\ taken' = Append(taken, Head(queue))
  /\ queue' = Tail(queue)
  /\ GoTo(c, "leave")
  /\ UNCHANGED <<sem, mutex, calls>>

\* Mutant: returns with the mutex.
DequeueReturn(c) ==
  /\ pc[c] = "leave"
  /\ GoTo(c, "ready")
  /\ UNCHANGED <<queue, sem, mutex, calls, taken>>

DequeueUnlock(c) ==
  /\ pc[c] = "leave"
  /\ Unlock(c)
  /\ UNCHANGED <<queue, sem, calls, taken>>

-----------------------------------------------------------------------------
\* The steps of a call that has begun.
EnqueueStep(p) ==
  EnqueueLock(p) \/ EnqueueInsert(p) \/ EnqueueRelease(p) \/ EnqueueUnlock(p)

Dequeue(c) ==
  \/ PollCheck(c) \/ DequeueCall(c)
  \/ DequeueAcquire(c) \/ DequeueTimeout(c)
  \/ DequeueLock(c) \/ DequeueTake(c) \/ DequeueUnlock(c)

Next ==
  \/ \E p \in Producers : EnqueueCheck(p) \/ EnqueueStep(p)
  \/ \E c \in Consumers : Dequeue(c)

Spec == Init /\ [][Next]_vars

\* Every thread runs on; nobody has to offer an element.
Fairness ==
  /\ \A p \in Producers : WF_vars(EnqueueStep(p))
  /\ \A c \in Consumers : WF_vars(Dequeue(c))

FairSpec == Spec /\ Fairness

-----------------------------------------------------------------------------
(***************************************************************************)
(* Properties.                                                             *)
(***************************************************************************)
TypeOK ==
  /\ queue \in Seq(Elements)
  /\ sem \in Nat
  /\ mutex \in Threads \cup {Nobody}
  /\ pc \in [Threads -> {"ready", "checked", "insert", "inserted", "leave",
                         "acquire", "acquired", "take"}]
  /\ calls \in [Producers -> 0 .. MaxCalls]
  /\ taken \in Seq(Elements)

\* A consumer that holds the mutex finds an element: whatever the others do
\* between its semaphore and its lock, they leave one for it.
TakeFindsElement == \A c \in Consumers : pc[c] = "take" => queue # <<>>

\* Elements of one producer come out in the order it offered them, none twice.
FirstInFirstOut ==
  LET all == taken \o queue
  IN  \A i, j \in 1 .. Len(all) :
        i < j /\ all[i][1] = all[j][1] => all[i][2] < all[j][2]

\* The capacity is exceeded by less than the number of producers: each of them
\* may have seen the last free place.
Bounded == Len(queue) < MaxSize + Cardinality(Producers)

\* A call of CanBase's dequeue that has seen an element does not wait for ever.
PollersReturn == \A c \in Pollers : pc[c] = "acquire" ~> pc[c] = "ready"

\* Every element in the queue is taken out.
Drained == \A n \in 1 .. MaxCalls * Cardinality(Producers) :
             Len(taken \o queue) >= n ~> Len(taken) >= n
=============================================================================
