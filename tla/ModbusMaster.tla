---------------------------- MODULE ModbusMaster ----------------------------
(***************************************************************************)
(* The Modbus master over J1939, comm/j1939_modbus_master.cpp.             *)
(*                                                                         *)
(* Three threads meet here.  Callers in the GUI thread put read requests   *)
(* into db_read_queue and send write requests at once.  The request thread *)
(* takes one read request at a time, sends it and waits for a unit of      *)
(* read_wait_sem, at most 100 ms.  The communication thread runs the reply *)
(* handlers, which post slot calls to the GUI thread and, for a read,      *)
(* release a unit, whatever the request thread is waiting for.             *)
(*                                                                         *)
(* The bus and the slave are external: requests are answered in the order  *)
(* they were sent, answers (single frames and multi-packet messages)       *)
(* arrive in any order, and either may be lost.                            *)
(***************************************************************************)
EXTENDS Integers, Sequences, FiniteSets, SequencesExt

CONSTANTS
  Width,       \* db_map: the registered addresses with their reg_size
  ChunkMax,    \* registers that one request may read (64)
  QueueMax,    \* capacity of db_read_queue (200)
  Lossy,       \* whether the bus loses frames
  MaxTimeouts  \* bound: how often the request thread gives up on an answer

ASSUME MasterAssumption ==
  /\ DOMAIN Width \subseteq Nat
  /\ \A r \in DOMAIN Width : Width[r] \in {1, 2}
  /\ ChunkMax \in Nat \ {0}
  /\ QueueMax \in Nat
  /\ Lossy \in BOOLEAN
  /\ MaxTimeouts \in Nat

\* The registers a value object stands for do not overlap.
ASSUME RegistersDisjoint ==
  \A r, s \in DOMAIN Width : r < s => r + Width[r] <= s

Reads == [addr : Nat, len : Nat]

\* The slot calls that the reply handlers post to the GUI thread.
Slots == [kind : {"value", "written", "read"}, reg : Nat]
Slot(kind, reg) == [kind |-> kind, reg |-> reg]

VARIABLES
  readQueue,  \* db_read_queue
  answerSem,  \* read_wait_sem
  waiting,    \* the request thread is in read_wait_sem.tryAcquire
  posted,     \* the slot calls on their way to the GUI thread
  timeouts,   \* history: how often tryAcquire has timed out
  \* external: the bus
  reads,        \* read requests on their way to the slave
  answers,      \* its answers to them
  writes,       \* write requests on their way, by register
  writeAnswers  \* its answers to them

threadVars == <<waiting, timeouts>>
busVars    == <<reads, answers, writes, writeAnswers>>
masterVars == <<readQueue, answerSem, posted, threadVars, busVars>>

MasterInit ==
  /\ readQueue = <<>>
  /\ answerSem = 0
  /\ waiting = FALSE
  /\ posted = <<>>
  /\ timeouts = 0
  /\ reads = <<>>
  /\ answers = <<>>
  /\ writes = <<>>
  /\ writeAnswers = <<>>

-----------------------------------------------------------------------------
(***************************************************************************)
(* The GUI thread's calls.                                                 *)
(***************************************************************************)

\* A read of len registers, in pieces of at most ChunkMax.
Pieces(addr, len) ==
  [k \in 1 .. (len + ChunkMax - 1) \div ChunkMax |->
     LET done == (k - 1) * ChunkMax
     IN  [addr |-> addr + done,
          len  |-> IF len - done < ChunkMax THEN len - done ELSE ChunkMax]]

\* Mutant: forgets the capacity.
EnqueueAll(queue, requests) == queue \o requests

\* enqueue of one request after the other: those that find no place are dropped.
Enqueue(queue, requests) ==
  LET all == queue \o requests
  IN  SubSeq(all, 1, IF Len(all) <= QueueMax THEN Len(all) ELSE QueueMax)

slot_request_read_reg(addr, len) ==
  readQueue' = Enqueue(readQueue, Pieces(addr, len))

\* A write goes to the communication thread without passing the queue.
slot_request_write_reg(r) == writes' = Append(writes, r)

-----------------------------------------------------------------------------
(***************************************************************************)
(* request_read_thread_task.                                               *)
(***************************************************************************)
\* Mutant: sends the next request without waiting for the answer.
ThreadSendUnpaced ==
  /\ readQueue # <<>>
  /\ reads' = Append(reads, Head(readQueue))
  /\ readQueue' = Tail(readQueue)
  /\ UNCHANGED <<answerSem, posted, threadVars, answers, writes, writeAnswers>>

ThreadSend ==
  /\ ~waiting
  /\ readQueue # <<>>
  /\ reads' = Append(reads, Head(readQueue))
  /\ readQueue' = Tail(readQueue)
  /\ waiting' = TRUE
  /\ UNCHANGED <<answerSem, posted, timeouts, answers, writes, writeAnswers>>

ThreadAnswered ==
  /\ waiting
  /\ answerSem > 0
  /\ answerSem' = answerSem - 1
  /\ waiting' = FALSE
  /\ UNCHANGED <<readQueue, posted, timeouts, busVars>>

ThreadTimeout ==
  /\ waiting
  /\ answerSem = 0
  /\ timeouts < MaxTimeouts
  /\ timeouts' = timeouts + 1
  /\ waiting' = FALSE
  /\ UNCHANGED <<readQueue, answerSem, posted, busVars>>

-----------------------------------------------------------------------------
(***************************************************************************)
(* The communication thread's reply handlers.                              *)
(***************************************************************************)
\* Mutant: leaves the last register of the answer out.
RegistersBeforeLast(a) == {r \in DOMAIN Width : a.addr <= r /\ r + 1 < a.addr + a.len}

\* The registered values that begin in an answer.
RegistersIn(a) == {r \in DOMAIN Width : a.addr <= r /\ r < a.addr + a.len}

\* The one order in which the loop over an answer meets the values in it.
Ascending(regs) ==
  {f \in [1 .. Cardinality(regs) -> regs] : \A i, j \in DOMAIN f : i < j => f[i] < f[j]}

\* sig_read_finish of each of them, then sig_recv_read_reg.
ReadSlots(regs, addr) ==
  [k \in DOMAIN regs |-> Slot("value", regs[k])] \o <<Slot("read", addr)>>

\* An answer whose checksum is wrong is ignored: for all others it is lost.
recv_read_reg_handle(i) ==
  /\ \E regs \in Ascending(RegistersIn(answers[i])) :
       posted' = posted \o ReadSlots(regs, answers[i].addr)
  /\ answerSem' = answerSem + 1
  /\ answers' = RemoveAt(answers, i)
  /\ UNCHANGED <<readQueue, threadVars, reads, writes, writeAnswers>>

\* One sig_write_finish; the handler of several registers emits it once for
\* each of them, always on the first.
recv_write_reg_handle(i) ==
  LET r == writeAnswers[i]
  IN  /\ posted' = posted \o [k \in 1 .. Width[r] |-> Slot("written", r)]
      /\ writeAnswers' = RemoveAt(writeAnswers, i)
      /\ UNCHANGED <<readQueue, answerSem, threadVars, reads, answers, writes>>

-----------------------------------------------------------------------------
(***************************************************************************)
(* External: the slave and the bus.                                        *)
(***************************************************************************)
SlaveReads ==
  /\ reads # <<>>
  /\ answers' = Append(answers, Head(reads))
  /\ reads' = Tail(reads)
  /\ UNCHANGED <<readQueue, answerSem, posted, threadVars, writes, writeAnswers>>

SlaveWrites ==
  /\ writes # <<>>
  /\ writeAnswers' = Append(writeAnswers, Head(writes))
  /\ writes' = Tail(writes)
  /\ UNCHANGED <<readQueue, answerSem, posted, threadVars, reads, answers>>

LoseRead(i) ==
  /\ Lossy
  /\ reads' = RemoveAt(reads, i)
  /\ UNCHANGED <<readQueue, answerSem, posted, threadVars, answers, writes, writeAnswers>>

LoseAnswer(i) ==
  /\ Lossy
  /\ answers' = RemoveAt(answers, i)
  /\ UNCHANGED <<readQueue, answerSem, posted, threadVars, reads, writes, writeAnswers>>

LoseWrite(i) ==
  /\ Lossy
  /\ writes' = RemoveAt(writes, i)
  /\ UNCHANGED <<readQueue, answerSem, posted, threadVars, reads, answers, writeAnswers>>

LoseWriteAnswer(i) ==
  /\ Lossy
  /\ writeAnswers' = RemoveAt(writeAnswers, i)
  /\ UNCHANGED <<readQueue, answerSem, posted, threadVars, reads, answers, writes>>

RequestThread == ThreadSend \/ ThreadAnswered \/ ThreadTimeout

ReplyHandlers ==
  \/ \E i \in 1 .. Len(answers) : recv_read_reg_handle(i)
  \/ \E i \in 1 .. Len(writeAnswers) : recv_write_reg_handle(i)

Slave == SlaveReads \/ SlaveWrites

Loss ==
  \/ \E i \in 1 .. Len(reads) : LoseRead(i)
  \/ \E i \in 1 .. Len(answers) : LoseAnswer(i)
  \/ \E i \in 1 .. Len(writes) : LoseWrite(i)
  \/ \E i \in 1 .. Len(writeAnswers) : LoseWriteAnswer(i)

-----------------------------------------------------------------------------
(***************************************************************************)
(* What the GUI thread may do with the master: any calls, in any order,    *)
(* and take a slot call off its event queue.                               *)
(***************************************************************************)
GuiStep ==
  /\ \/ UNCHANGED readQueue
     \/ \E addr \in Nat, len \in Nat : slot_request_read_reg(addr, len)
  /\ \/ UNCHANGED writes
     \/ \E r \in DOMAIN Width : slot_request_write_reg(r)
  /\ \/ UNCHANGED posted
     \/ posted # <<>> /\ posted' = Tail(posted)
  /\ UNCHANGED <<answerSem, threadVars, reads, answers, writeAnswers>>

MasterNext == RequestThread \/ ReplyHandlers \/ Slave \/ Loss \/ GuiStep

MasterSpec == MasterInit /\ [][MasterNext]_masterVars

-----------------------------------------------------------------------------
MasterTypeOK ==
  /\ readQueue \in Seq(Reads) /\ Len(readQueue) <= QueueMax
  /\ answerSem \in Nat
  /\ waiting \in BOOLEAN
  /\ posted \in Seq(Slots)
  /\ timeouts \in 0 .. MaxTimeouts
  /\ reads \in Seq(Reads)
  /\ answers \in Seq(Reads)
  /\ writes \in Seq(DOMAIN Width)
  /\ writeAnswers \in Seq(DOMAIN Width)

\* The request thread paces the reads: apart from the one it waits for, there
\* is at most one under way for every timeout so far, and every unit that a
\* late answer has left in the semaphore counts as one of them.  As long as no
\* answer is late there is never more than one read under way.
Paced ==
  Len(reads) + Len(answers) + answerSem <= timeouts + (IF waiting THEN 1 ELSE 0)
=============================================================================
