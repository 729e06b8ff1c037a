---------------------------- MODULE BlockingQueue ----------------------------
(***************************************************************************)
(* bytes/blocking_queue.h and the event of bytes/blocking_queue.cpp it     *)
(* waits on.  What a method does under the write lock is one step: nobody  *)
(* else touches the list, and whoever reads a flag meanwhile could as well *)
(* have read it before or after.  Waiting happens outside the lock, in the *)
(* steps of EventPrivate::wait.  Its mutex excludes only other waiters, so *)
(* it does not appear; Event::set does not take it, so that a wake-up may  *)
(* come between the test of the flag and the sleep, and is lost.           *)
(***************************************************************************)
EXTENDS Integers, Sequences, FiniteSets

CONSTANTS
  Threads,     \* who uses the queue
  Elements,    \* what is put
  Capacities,  \* the capacities it may be given
  MaxSize,     \* bound: calls begin while the list is no longer than this
  None         \* T(), and the element of a call that brings none

ASSUME QueueAssumption ==
  /\ Capacities \subseteq Nat \ {0} /\ Capacities # {}
  /\ MaxSize \in Nat
  /\ None \notin Elements

VARIABLES
  queue,
  mCapacity,
  flag,   \* the two events: notEmpty and notFull
  th      \* each thread: pc, the method it is in, the element it brings

queueVars == <<queue, mCapacity, flag, th>>

Events == {"notEmpty", "notFull"}

\* The event on which a method waits before it locks.
Waits == [put |-> "notFull", returns |-> "notFull", get |-> "notEmpty"]
Others == {"putForcedly", "returnsForcely", "clear", "remove", "setCapacity"}
Methods == DOMAIN Waits \cup Others

Idle == [pc |-> "idle", method |-> "get", e |-> None]

QueueInit ==
  /\ queue = <<>>
  /\ mCapacity \in Capacities
  /\ flag = [notEmpty |-> FALSE, notFull |-> TRUE]
  /\ th = [t \in Threads |-> Idle]

Goto(t, pc) == th' = [th EXCEPT ![t].pc = pc]
Event(t) == Waits[th[t].method]

Call(t, method, e) ==
  /\ th[t].pc = "idle"
  /\ Len(queue) <= MaxSize
  /\ th' = [th EXCEPT ![t] = [pc |-> IF method \in Others THEN "lock" ELSE "look",
                              method |-> method, e |-> e]]
  /\ UNCHANGED <<queue, mCapacity, flag>>

\* EventPrivate::wait: the flag is read without the mutex, ...
Look(t) ==
  /\ th[t].pc = "look"
  /\ Goto(t, IF flag[Event(t)] THEN "lock" ELSE "test")
  /\ UNCHANGED <<queue, mCapacity, flag>>

\* ... then again under it, in a loop around condition.wait.
Test(t) ==
  /\ th[t].pc = "test"
  /\ Goto(t, IF flag[Event(t)] THEN "lock" ELSE "falling")
  /\ UNCHANGED <<queue, mCapacity, flag>>

FallAsleep(t) ==
  /\ th[t].pc = "falling"
  /\ Goto(t, "asleep")
  /\ UNCHANGED <<queue, mCapacity, flag>>

\* What a method leaves: the thread t idle, and those asleep on an event that
\* was set while it was clear awake (Event::set wakes nobody otherwise).
Leave(t, list, capacity, events) ==
  /\ queue' = list
  /\ mCapacity' = capacity
  /\ flag' = events
  /\ th' = [u \in Threads |->
              IF u = t THEN Idle
              ELSE IF th[u].pc = "asleep" /\ events[Event(u)] /\ ~flag[Event(u)]
                   THEN [th[u] EXCEPT !.pc = "test"]
                   ELSE th[u]]

Locked(t, methods) == th[t].pc = "lock" /\ th[t].method \in methods

\* put, returns and their forced forms, after any wait.
Insert(t) ==
  /\ Locked(t, {"put", "putForcedly", "returns", "returnsForcely"})
  /\ LET list == IF th[t].method \in {"put", "putForcedly"}
                 THEN Append(queue, th[t].e)
                 ELSE <<th[t].e>> \o queue
     IN  Leave(t, list, mCapacity,
               [notEmpty |-> TRUE, notFull |-> flag.notFull /\ Len(list) < mCapacity])

\* get: dequeue of a list that another get, clear or remove has emptied in the
\* meantime is undefined; it takes the thread down.
get(t) ==
  /\ Locked(t, {"get"})
  /\ IF queue = <<>>
     THEN Goto(t, "crashed") /\ UNCHANGED <<queue, mCapacity, flag>>
     ELSE Leave(t, Tail(queue), mCapacity,
                [notEmpty |-> Len(queue) > 1,
                 notFull |-> flag.notFull \/ Len(queue) - 1 < mCapacity])

clear(t) ==
  /\ Locked(t, {"clear"})
  /\ Leave(t, <<>>, mCapacity, [notEmpty |-> FALSE, notFull |-> TRUE])

\* QList::removeAll: the k-th element of the result is the k-th one kept.
removeAll(list, e) ==
  LET kept == {i \in DOMAIN list : list[i] # e}
      place(k) == CHOOSE i \in kept : Cardinality({j \in kept : j < i}) = k - 1
  IN  [k \in 1 .. Cardinality(kept) |-> list[place(k)]]

\* Mutant: does not say that there is room again.
remove_untold(t) ==
  /\ Locked(t, {"remove"})
  /\ LET list == removeAll(queue, th[t].e)
     IN  Leave(t, list, mCapacity, [flag EXCEPT !.notEmpty = list # <<>>])

remove(t) ==
  /\ Locked(t, {"remove"})
  /\ LET list == removeAll(queue, th[t].e)
     IN  Leave(t, list, mCapacity,
               IF Len(list) = Len(queue) THEN flag
               ELSE [notEmpty |-> list # <<>>, notFull |-> Len(list) < mCapacity])

setCapacity(t) ==
  /\ Locked(t, {"setCapacity"})
  /\ \E capacity \in Capacities :
       Leave(t, queue, capacity, [flag EXCEPT !.notFull = Len(queue) < capacity])

\* peek, isEmpty, isFull, capacity, size, getting and contains change nothing;
\* they read under the lock what these are.
peek == IF queue = <<>> THEN None ELSE Head(queue)
isFull == Len(queue) >= mCapacity
getting == Cardinality({t \in Threads :
             th[t].method = "get" /\ th[t].pc \in {"test", "falling", "asleep"}})

Step(t) ==
  \/ \E m \in Methods, e \in Elements : Call(t, m, e)
  \/ Look(t) \/ Test(t) \/ FallAsleep(t)
  \/ Insert(t) \/ get(t) \/ clear(t) \/ remove(t) \/ setCapacity(t)

QueueNext == \E t \in Threads : Step(t)

QueueSpec == QueueInit /\ [][QueueNext]_queueVars

-----------------------------------------------------------------------------
QueueTypeOK ==
  /\ queue \in Seq(Elements)
  /\ mCapacity \in Capacities
  /\ flag \in [Events -> BOOLEAN]
  /\ th \in [Threads -> [pc : {"idle", "look", "test", "falling", "asleep", "lock", "crashed"},
                         method : Methods, e : Elements \cup {None}]]

\* Whatever the methods are called in, between two of them notEmpty is set
\* exactly when there is an element and notFull exactly when there is room:
\* those who wait wait for the right thing (blocking_queue.h).
EventsAgree ==
  /\ flag.notEmpty <=> queue # <<>>
  /\ flag.notFull <=> ~isFull
=============================================================================
