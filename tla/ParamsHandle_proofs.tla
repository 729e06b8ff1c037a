------------------------- MODULE ParamsHandle_proofs -------------------------
(***************************************************************************)
(* The Modbus master and the parameter table on top of it, for every table *)
(* of registers, length of the queue and number of timeouts: the master's  *)
(* pacing, whatever its callers do; that the table is such a caller; and   *)
(* what the table promises of its parameters.                              *)
(***************************************************************************)
EXTENDS ParamsHandle, FiniteSetTheorems, TLAPS

USE MasterAssumption

\* All that the pacing needs of a request.
Requests == [addr : Int, len : Int]

\* The types that the pacing needs.
Frames ==
  /\ readQueue \in Seq(Requests)
  /\ reads \in Seq(Requests)
  /\ answers \in Seq(Requests)
  /\ answerSem \in Nat
  /\ waiting \in BOOLEAN
  /\ timeouts \in Nat

\* The inductive invariant.
PacedInv == Frames /\ Paced

\* Taking one element out leaves a sequence that is one shorter.
LEMMA RemoveAtLemma ==
  ASSUME NEW S, NEW s \in Seq(S), NEW i \in 1 .. Len(s)
  PROVE  RemoveAt(s, i) \in Seq(S) /\ Len(RemoveAt(s, i)) = Len(s) - 1
<1> DEFINE front == SubSeq(s, 1, i - 1)
           back  == SubSeq(s, i + 1, Len(s))
<1>1. front \in Seq(S) /\ Len(front) = i - 1
  OBVIOUS
<1>2. back \in Seq(S) /\ Len(back) = Len(s) - i
  OBVIOUS
<1>3. RemoveAt(s, i) = front \o back
  BY DEF RemoveAt
<1> HIDE DEF front, back
<1>4. front \o back \in Seq(S) /\ Len(front \o back) = Len(front) + Len(back)
  BY <1>1, <1>2
<1>5. Len(s) \in Nat /\ i \in Int
  OBVIOUS
<1> QED  BY <1>1, <1>2, <1>3, <1>4, <1>5

\* A split read is a sequence of requests.
LEMMA PiecesLemma ==
  ASSUME NEW addr \in Nat, NEW len \in Nat
  PROVE  Pieces(addr, len) \in Seq(Requests)
<1> DEFINE n == (len + ChunkMax - 1) \div ChunkMax
           piece(k) == [addr |-> addr + (k - 1) * ChunkMax,
                        len  |-> IF len - (k - 1) * ChunkMax < ChunkMax
                                 THEN len - (k - 1) * ChunkMax ELSE ChunkMax]
<1>1. n \in Nat
  OBVIOUS
<1>2. ASSUME NEW k \in 1 .. n
      PROVE  piece(k) \in Requests
  BY <1>1 DEF Requests
<1>3. Pieces(addr, len) = [k \in 1 .. n |-> piece(k)]
  BY DEF Pieces
<1> HIDE DEF n, piece
<1>4. [k \in 1 .. n |-> piece(k)] \in Seq(Requests)
  BY <1>1, <1>2
<1> QED  BY <1>3, <1>4

\* Whatever finds room, the queue stays a sequence of requests.
LEMMA EnqueueLemma ==
  ASSUME NEW q \in Seq(Requests), NEW more \in Seq(Requests)
  PROVE  Enqueue(q, more) \in Seq(Requests)
  BY DEF Enqueue

-----------------------------------------------------------------------------
(***************************************************************************)
(* The steps, one lemma for each of the five actors.                       *)
(***************************************************************************)

\* The request thread trades a place in the queue for a read under way, and
\* a unit of the semaphore, or a timeout, for the end of its wait.
LEMMA ThreadKeepsPace ==
  ASSUME PacedInv, RequestThread
  PROVE  PacedInv'
<1> USE DEF PacedInv, Frames, Paced, threadVars, busVars
<1>1. CASE ThreadSend
  <2>1. Head(readQueue) \in Requests /\ readQueue' \in Seq(Requests)
    BY <1>1 DEF ThreadSend
  <2>2. reads' \in Seq(Requests) /\ Len(reads') = Len(reads) + 1
    BY <1>1, <2>1 DEF ThreadSend
  <2> QED  BY <1>1, <2>1, <2>2 DEF ThreadSend
<1>2. CASE ThreadAnswered
  <2>1. Len(reads) + Len(answers) + answerSem <= timeouts + 1
    BY <1>2 DEF ThreadAnswered
  <2>2. waiting' = FALSE /\ answerSem' = answerSem - 1 /\ answerSem' \in Nat
        /\ UNCHANGED <<readQueue, reads, answers, timeouts>>
    BY <1>2 DEF ThreadAnswered
  <2>3. Paced'
    BY <2>1, <2>2
  <2>4. Frames'
    BY <2>2
  <2> QED  BY <2>3, <2>4
<1>3. CASE ThreadTimeout
  <2>1. Len(reads) + Len(answers) + answerSem <= timeouts + 1
    BY <1>3 DEF ThreadTimeout
  <2>2. waiting' = FALSE /\ timeouts' = timeouts + 1
        /\ UNCHANGED <<readQueue, reads, answers, answerSem>>
    BY <1>3 DEF ThreadTimeout
  <2>3. Paced'
    BY <2>1, <2>2
  <2>4. waiting' \in BOOLEAN
    BY <2>2
  <2>5. timeouts' \in Nat
    BY <2>2
  <2>6. Frames'
    BY <2>2, <2>4, <2>5
  <2> QED  BY <2>3, <2>6
<1> QED  BY <1>1, <1>2, <1>3 DEF RequestThread

\* An answered read becomes a unit of the semaphore.
LEMMA HandlersKeepPace ==
  ASSUME PacedInv, ReplyHandlers
  PROVE  PacedInv'
<1> USE DEF PacedInv, Frames, Paced, threadVars, busVars
<1>1. ASSUME NEW i \in 1 .. Len(answers), recv_read_reg_handle(i)
      PROVE  PacedInv'
  <2>1. answers' \in Seq(Requests) /\ Len(answers') = Len(answers) - 1
    BY <1>1, RemoveAtLemma DEF recv_read_reg_handle
  <2> QED  BY <1>1, <2>1 DEF recv_read_reg_handle
<1>2. ASSUME NEW i \in 1 .. Len(writeAnswers), recv_write_reg_handle(i)
      PROVE  PacedInv'
  BY <1>2 DEF recv_write_reg_handle
<1> QED  BY <1>1, <1>2 DEF ReplyHandlers

\* A read that reaches the slave becomes an answer under way.
LEMMA SlaveKeepsPace ==
  ASSUME PacedInv, Slave
  PROVE  PacedInv'
<1> USE DEF PacedInv, Frames, Paced, threadVars, busVars
<1>1. CASE SlaveReads
  <2>1. Len(reads) \in Nat \ {0} /\ Head(reads) \in Requests
    BY <1>1 DEF SlaveReads
  <2>2. Tail(reads) \in Seq(Requests) /\ Len(Tail(reads)) = Len(reads) - 1
    BY <2>1
  <2>3. Append(answers, Head(reads)) \in Seq(Requests)
        /\ Len(Append(answers, Head(reads))) = Len(answers) + 1
    BY <2>1
  <2> QED  BY <1>1, <2>1, <2>2, <2>3 DEF SlaveReads
<1>2. CASE SlaveWrites
  BY <1>2 DEF SlaveWrites
<1> QED  BY <1>1, <1>2 DEF Slave

\* What is lost makes room.
LEMMA LossKeepsPace ==
  ASSUME PacedInv, Loss
  PROVE  PacedInv'
<1> USE DEF PacedInv, Frames, Paced, threadVars, busVars
<1>1. ASSUME NEW i \in 1 .. Len(reads), LoseRead(i)
      PROVE  PacedInv'
  <2>1. reads' \in Seq(Requests) /\ Len(reads') = Len(reads) - 1
    BY <1>1, RemoveAtLemma DEF LoseRead
  <2> QED  BY <1>1, <2>1 DEF LoseRead
<1>2. ASSUME NEW i \in 1 .. Len(answers), LoseAnswer(i)
      PROVE  PacedInv'
  <2>1. answers' \in Seq(Requests) /\ Len(answers') = Len(answers) - 1
    BY <1>2, RemoveAtLemma DEF LoseAnswer
  <2> QED  BY <1>2, <2>1 DEF LoseAnswer
<1>3. ASSUME NEW i \in 1 .. Len(writes), LoseWrite(i)
      PROVE  PacedInv'
  BY <1>3 DEF LoseWrite
<1>4. ASSUME NEW i \in 1 .. Len(writeAnswers), LoseWriteAnswer(i)
      PROVE  PacedInv'
  BY <1>4 DEF LoseWriteAnswer
<1> QED  BY <1>1, <1>2, <1>3, <1>4 DEF Loss

\* Calls from the GUI thread only fill the queue: however many there are, they
\* do not put a read on the bus.
LEMMA CallersKeepPace ==
  ASSUME PacedInv, GuiStep
  PROVE  PacedInv'
<1> USE DEF PacedInv, Frames, Paced, threadVars
<1>1. readQueue' \in Seq(Requests)
  <2>1. ASSUME NEW addr \in Nat, NEW len \in Nat, slot_request_read_reg(addr, len)
        PROVE  readQueue' \in Seq(Requests)
    BY <2>1, PiecesLemma, EnqueueLemma DEF slot_request_read_reg
  <2> QED  BY <2>1 DEF GuiStep
<1>2. UNCHANGED <<answerSem, waiting, timeouts, reads, answers>>
  BY DEF GuiStep
<1>3. Frames'
  BY <1>1, <1>2
<1>4. (IF waiting' THEN 1 ELSE 0) = (IF waiting THEN 1 ELSE 0)
  BY <1>2
<1>5. Paced'
  BY <1>2, <1>4
<1> QED  BY <1>3, <1>5

-----------------------------------------------------------------------------
\* At most one read is under way for every timeout and the wait in progress,
\* for every table, queue length and number of timeouts, whatever the callers
\* of the master do, in whatever order answers come and whichever are lost.
THEOREM PacedHolds == MasterSpec => []Paced
<1>1. MasterInit => PacedInv
  <2> SUFFICES ASSUME MasterInit
               PROVE  PacedInv
    OBVIOUS
  <2> USE DEF MasterInit
  <2>1. Frames
    <3>1. readQueue \in Seq(Requests) /\ reads \in Seq(Requests) /\ answers \in Seq(Requests)
      OBVIOUS
    <3>2. answerSem \in Nat /\ timeouts \in Nat
      OBVIOUS
    <3>3. waiting \in BOOLEAN
      OBVIOUS
    <3> QED  BY <3>1, <3>2, <3>3 DEF Frames
  <2>2. Len(reads) = 0 /\ Len(answers) = 0
    OBVIOUS
  <2>3. (IF waiting THEN 1 ELSE 0) = 0
    OBVIOUS
  <2>4. Paced
    BY <2>2, <2>3 DEF Paced
  <2> QED  BY <2>1, <2>4 DEF PacedInv
<1>2. PacedInv /\ [MasterNext]_masterVars => PacedInv'
  <2> SUFFICES ASSUME PacedInv, [MasterNext]_masterVars
               PROVE  PacedInv'
    OBVIOUS
  <2>1. CASE RequestThread
    BY <2>1, ThreadKeepsPace
  <2>2. CASE ReplyHandlers
    BY <2>2, HandlersKeepPace
  <2>3. CASE Slave
    BY <2>3, SlaveKeepsPace
  <2>4. CASE Loss
    BY <2>4, LossKeepsPace
  <2>5. CASE GuiStep
    BY <2>5, CallersKeepPace
  <2>6. CASE UNCHANGED masterVars
    BY <2>6 DEF masterVars, threadVars, busVars, PacedInv, Frames, Paced
  <2> QED  BY <2>1, <2>2, <2>3, <2>4, <2>5, <2>6 DEF MasterNext
<1>3. PacedInv => Paced
  BY DEF PacedInv
<1> QED  BY <1>1, <1>2, <1>3, PTL DEF MasterSpec

-----------------------------------------------------------------------------
(***************************************************************************)
(* Sequences and requests.                                                 *)
(***************************************************************************)

\* Every element of s is one of t.
Kept(s, t) == \A j \in 1 .. Len(s) : \E k \in 1 .. Len(t) : t[k] = s[j]

\* The same, except for one value.
KeptBut(s, t, e) == \A j \in 1 .. Len(s) : s[j] = e \/ \E k \in 1 .. Len(t) : t[k] = s[j]

Holds(s, e) == \E k \in 1 .. Len(s) : s[k] = e

\* The rest of a sequence holds all but its first element.
LEMMA TailLemma ==
  ASSUME NEW S, NEW s \in Seq(S), s # <<>>
  PROVE  /\ Tail(s) \in Seq(S) /\ Len(Tail(s)) = Len(s) - 1 /\ Len(s) \in Nat \ {0}
         /\ Head(s) = s[1] /\ Head(s) \in S
         /\ \A k \in 1 .. Len(Tail(s)) : Tail(s)[k] = s[k + 1]
         /\ KeptBut(s, Tail(s), Head(s))
<1>1. /\ Tail(s) \in Seq(S) /\ Len(Tail(s)) = Len(s) - 1 /\ Len(s) \in Nat \ {0}
      /\ Head(s) = s[1] /\ Head(s) \in S
      /\ \A k \in 1 .. Len(Tail(s)) : Tail(s)[k] = s[k + 1]
  OBVIOUS
<1>2. ASSUME NEW j \in 1 .. Len(s), j # 1
      PROVE  j - 1 \in 1 .. Len(Tail(s)) /\ Tail(s)[j - 1] = s[j]
  BY <1>1, <1>2
<1> QED  BY <1>1, <1>2 DEF KeptBut

\* A longer sequence holds what the shorter one did, and the new elements.
LEMMA ConcatLemma ==
  ASSUME NEW S, NEW s \in Seq(S), NEW t \in Seq(S)
  PROVE  /\ s \o t \in Seq(S) /\ Len(s \o t) = Len(s) + Len(t)
         /\ \A k \in 1 .. Len(s \o t) :
              (s \o t)[k] = IF k <= Len(s) THEN s[k] ELSE t[k - Len(s)]
         /\ Kept(s, s \o t) /\ Kept(t, s \o t)
<1>1. /\ s \o t \in Seq(S) /\ Len(s \o t) = Len(s) + Len(t)
      /\ \A k \in 1 .. Len(s \o t) :
           (s \o t)[k] = IF k <= Len(s) THEN s[k] ELSE t[k - Len(s)]
      /\ Len(s) \in Nat /\ Len(t) \in Nat
  OBVIOUS
<1>2. ASSUME NEW j \in 1 .. Len(s)
      PROVE  j \in 1 .. Len(s \o t) /\ (s \o t)[j] = s[j]
  BY <1>1
<1>3. ASSUME NEW j \in 1 .. Len(t)
      PROVE  j + Len(s) \in 1 .. Len(s \o t) /\ (s \o t)[j + Len(s)] = t[j]
  BY <1>1
<1> QED  BY <1>1, <1>2, <1>3 DEF Kept

LEMMA AppendLemma ==
  ASSUME NEW S, NEW s \in Seq(S), NEW e \in S
  PROVE  /\ Append(s, e) \in Seq(S) /\ Len(Append(s, e)) = Len(s) + 1
         /\ \A k \in 1 .. Len(Append(s, e)) :
              Append(s, e)[k] = IF k <= Len(s) THEN s[k] ELSE e
         /\ Kept(s, Append(s, e))
         /\ Holds(Append(s, e), e)
<1>1. /\ Append(s, e) \in Seq(S) /\ Len(Append(s, e)) = Len(s) + 1 /\ Len(s) \in Nat
      /\ Append(s, e)[Len(s) + 1] = e
      /\ \A k \in 1 .. Len(s) : Append(s, e)[k] = s[k]
  OBVIOUS
<1> QED  BY <1>1 DEF Kept, Holds

\* Taking one element out keeps all the others.
LEMMA RemoveAtKeeps ==
  ASSUME NEW S, NEW s \in Seq(S), NEW i \in 1 .. Len(s)
  PROVE  KeptBut(s, RemoveAt(s, i), s[i])
<1> DEFINE front == SubSeq(s, 1, i - 1)
           back  == SubSeq(s, i + 1, Len(s))
<1>0. Len(s) \in Nat /\ i \in Nat
  OBVIOUS
<1>1. front \in Seq(S) /\ Len(front) = i - 1 /\ \A k \in 1 .. i - 1 : front[k] = s[k]
  OBVIOUS
<1>2. back \in Seq(S) /\ Len(back) = Len(s) - i
      /\ \A k \in 1 .. Len(s) - i : back[k] = s[i + k]
  OBVIOUS
<1>3. RemoveAt(s, i) = front \o back
  BY DEF RemoveAt
<1> HIDE DEF front, back
<1>4. Kept(front, front \o back) /\ Kept(back, front \o back)
  <2>1. front \in Seq(S) /\ back \in Seq(S)
    BY <1>1, <1>2
  <2> QED  BY <2>1, ConcatLemma
<1>5. ASSUME NEW j \in 1 .. Len(s), j < i
      PROVE  \E k \in 1 .. Len(front \o back) : (front \o back)[k] = s[j]
  <2>1. j \in 1 .. Len(front) /\ front[j] = s[j]
    BY <1>0, <1>1, <1>5
  <2> QED  BY <1>4, <2>1 DEF Kept
<1>6. ASSUME NEW j \in 1 .. Len(s), j > i
      PROVE  \E k \in 1 .. Len(front \o back) : (front \o back)[k] = s[j]
  <2>1. j - i \in 1 .. Len(back) /\ back[j - i] = s[j]
    BY <1>0, <1>2, <1>6
  <2> QED  BY <1>4, <2>1 DEF Kept
<1>7. \A j \in 1 .. Len(s) : j = i \/ j < i \/ j > i
  BY <1>0
<1>8. \A j \in 1 .. Len(s) :
        j = i \/ \E k \in 1 .. Len(front \o back) : (front \o back)[k] = s[j]
  BY <1>5, <1>6, <1>7
<1> QED  BY <1>3, <1>8 DEF KeptBut

\* What finds room comes behind what is there, and what is there stays.
LEMMA EnqueueKeeps ==
  ASSUME NEW S, NEW q \in Seq(S), Len(q) <= QueueMax, NEW more \in Seq(S)
  PROVE  /\ Enqueue(q, more) \in Seq(S) /\ Len(Enqueue(q, more)) <= QueueMax
         /\ Kept(q, Enqueue(q, more))
         /\ Len(q) + Len(more) <= QueueMax => Kept(more, Enqueue(q, more))
<1> DEFINE all == q \o more
           n == IF Len(all) <= QueueMax THEN Len(all) ELSE QueueMax
<1>1. all \in Seq(S) /\ Len(all) = Len(q) + Len(more) /\ Len(q) \in Nat /\ Len(more) \in Nat
      /\ \A k \in 1 .. Len(all) : all[k] = IF k <= Len(q) THEN q[k] ELSE more[k - Len(q)]
  BY ConcatLemma
<1>2. Enqueue(q, more) = SubSeq(all, 1, n)
  BY DEF Enqueue
<1> HIDE DEF all
<1>3. n \in Nat /\ n <= Len(all) /\ n <= QueueMax /\ Len(q) <= n
  BY <1>1
<1>4. Len(q) + Len(more) <= QueueMax => n = Len(all)
  BY <1>1
<1> HIDE DEF n
<1>5. /\ SubSeq(all, 1, n) \in Seq(S) /\ Len(SubSeq(all, 1, n)) = n
      /\ \A k \in 1 .. n : SubSeq(all, 1, n)[k] = all[k]
  BY <1>1, <1>3
<1>6. ASSUME NEW j \in 1 .. Len(q)
      PROVE  j \in 1 .. n /\ SubSeq(all, 1, n)[j] = q[j]
  BY <1>1, <1>3, <1>5
<1>7. ASSUME NEW j \in 1 .. Len(more), Len(q) + Len(more) <= QueueMax
      PROVE  Len(q) + j \in 1 .. n /\ SubSeq(all, 1, n)[Len(q) + j] = more[j]
  <2>1. Len(q) + j \in 1 .. n
    BY <1>1, <1>4, <1>7
  <2>2. all[Len(q) + j] = more[j]
    BY <1>1, <1>3, <2>1
  <2> QED  BY <1>5, <2>1, <2>2
<1> QED  BY <1>2, <1>3, <1>5, <1>6, <1>7 DEF Kept

\* A read that is split into pieces: each has a place among the registers, and
\* the first begins where the read does and is as long as one may be.
LEMMA PiecesAreReads ==
  ASSUME NEW addr \in Nat, NEW len \in Nat \ {0}
  PROVE  /\ Pieces(addr, len) \in Seq(Reads)
         /\ 1 \in 1 .. Len(Pieces(addr, len))
         /\ Pieces(addr, len)[1] = [addr |-> addr, len |-> IF len < ChunkMax THEN len ELSE ChunkMax]
<1> DEFINE n == (len + ChunkMax - 1) \div ChunkMax
           piece(k) == [addr |-> addr + (k - 1) * ChunkMax,
                        len  |-> IF len - (k - 1) * ChunkMax < ChunkMax
                                 THEN len - (k - 1) * ChunkMax ELSE ChunkMax]
<1>1. n \in Nat /\ 1 <= n /\ n * ChunkMax <= len + ChunkMax - 1
  OBVIOUS
<1>2. Pieces(addr, len) = [k \in 1 .. n |-> piece(k)]
  BY DEF Pieces
<1> HIDE DEF n
<1>3. ASSUME NEW k \in 1 .. n
      PROVE  piece(k) \in Reads
  <2>1. (k - 1) * ChunkMax \in Nat
    BY <1>1
  <2>2. k * ChunkMax <= n * ChunkMax
    BY <1>1
  <2>3. (k - 1) * ChunkMax = k * ChunkMax - ChunkMax
    BY <1>1
  <2>4. k * ChunkMax \in Int /\ n * ChunkMax \in Int
    BY <1>1
  <2>5. (k - 1) * ChunkMax < len
    BY <1>1, <2>2, <2>3, <2>4
  <2> QED  BY <2>1, <2>5 DEF Reads
<1>4. piece(1) = [addr |-> addr, len |-> IF len < ChunkMax THEN len ELSE ChunkMax]
  OBVIOUS
<1> HIDE DEF piece
<1>5. /\ [k \in 1 .. n |-> piece(k)] \in Seq(Reads)
      /\ Len([k \in 1 .. n |-> piece(k)]) = n
  BY <1>1, <1>3
<1> QED  BY <1>1, <1>2, <1>4, <1>5

\* The order of the values of an answer leaves none out.
LEMMA AscendingIsOnto ==
  ASSUME NEW regs, regs \subseteq Nat, IsFiniteSet(regs), NEW f \in Ascending(regs)
  PROVE  f \in Seq(regs) /\ \A r \in regs : \E k \in 1 .. Len(f) : f[k] = r
<1> DEFINE n == Cardinality(regs)
<1>1. n \in Nat
  BY FS_CardinalityType
<1>2. IsFiniteSet(1 .. n) /\ Cardinality(1 .. n) = n
  BY <1>1, FS_Interval
<1>3. f \in [1 .. n -> regs] /\ \A i, j \in 1 .. n : i < j => f[i] < f[j]
  BY DEF Ascending
<1>4. f \in Injection(1 .. n, regs)
  <2>1. ASSUME NEW i \in 1 .. n, NEW j \in 1 .. n, f[i] = f[j]
        PROVE  i = j
    <3>1. f[i] \in Nat /\ f[j] \in Nat
      BY <1>3
    <3>2. ~ (f[i] < f[j]) /\ ~ (f[j] < f[i])
      BY <3>1, <2>1
    <3> QED  BY <1>1, <1>3, <3>2
  <2> QED  BY <1>3, <2>1 DEF Injection, IsInjective
<1> HIDE DEF n
<1>5. f \in Surjection(1 .. n, regs)
  BY <1>2, <1>4, FS_Injection DEF n
<1>6. f \in Seq(regs) /\ Len(f) = n
  BY <1>1, <1>3
<1> QED  BY <1>5, <1>6 DEF Surjection

-----------------------------------------------------------------------------
(***************************************************************************)
(* The table.                                                              *)
(***************************************************************************)

\* The slot calls for a value are for one that is in the table.
KnownIn(slots) ==
  \A i \in 1 .. Len(slots) : slots[i].kind # "read" => slots[i].reg \in Params

SlotsKnown == KnownIn(posted)

\* The index is the place up to which the table has been asked for.
IndexOnTable == asked = {Keys[i] : i \in 1 .. getIndex}

\* The inductive invariant of the types and of the table's read.
TableInv == TypeOK /\ SlotsKnown /\ IndexOnTable

LEMMA TableFacts ==
  /\ Count \in Nat \ {0}
  /\ Params \subseteq Nat
  /\ DOMAIN Width = Params
  /\ \A i \in 1 .. Count : Keys[i] \in Params
  /\ \A i, j \in 1 .. Count : i < j => Keys[i] < Keys[j]
  /\ \A r \in Params : Width[r] \in {1, 2}
<1>1. Count \in Nat \ {0} /\ \A i \in 1 .. Count : Keys[i] \in Nat
  BY TableAssumption DEF Count
<1>2. \A i \in 1 .. Count : Keys[i] \in Params
  BY DEF Params
<1>3. Params \subseteq Nat
  BY <1>1 DEF Params
<1>4. DOMAIN Width = Params /\ \A i, j \in 1 .. Count : i < j => Keys[i] < Keys[j]
  BY TableAssumption DEF Count
<1> QED  BY <1>1, <1>2, <1>3, <1>4

\* The values in an answer are in the table.
LEMMA AnswersKnown ==
  ASSUME NEW a \in Reads
  PROVE  RegistersIn(a) \subseteq Params /\ IsFiniteSet(RegistersIn(a))
<1>1. RegistersIn(a) \subseteq Params
  BY TableFacts DEF RegistersIn
<1>2. a.addr \in Int /\ a.addr + a.len \in Int
  BY DEF Reads
<1>3. RegistersIn(a) \in SUBSET (a.addr .. (a.addr + a.len))
  <2>1. ASSUME NEW r \in RegistersIn(a)
        PROVE  r \in a.addr .. (a.addr + a.len)
    <3>1. r \in Nat /\ a.addr <= r /\ r < a.addr + a.len
      BY <1>1, <2>1, TableFacts DEF RegistersIn
    <3> QED  BY <1>2, <3>1
  <2> QED  BY <2>1
<1>4. IsFiniteSet(a.addr .. (a.addr + a.len))
  BY <1>2, FS_Interval
<1> QED  BY <1>1, <1>3, <1>4, FS_Subset

LEMMA BeginIff ==
  ASSUME NEW requests, NEW p
  PROVE  p \in Begin(requests) <=> \E i \in 1 .. Len(requests) : p \in RegistersIn(requests[i])
  BY DEF Begin

LEMMA HoldsKept ==
  ASSUME NEW s, NEW t, NEW e, Holds(s, e), Kept(s, t) \/ \E x : x # e /\ KeptBut(s, t, x)
  PROVE  Holds(t, e)
  BY DEF Holds, Kept, KeptBut

\* Whoever keeps the requests keeps what begins in them.
LEMMA BeginKept ==
  ASSUME NEW s, NEW t, Kept(s, t)
  PROVE  Begin(s) \subseteq Begin(t)
  BY DEF Begin, Kept

LEMMA BeginKeptBut ==
  ASSUME NEW s, NEW t, NEW e, KeptBut(s, t, e), NEW p \in Begin(s), p \notin RegistersIn(e)
  PROVE  p \in Begin(t)
<1>1. PICK i \in 1 .. Len(s) : p \in RegistersIn(s[i])
  BY BeginIff
<1>2. PICK k \in 1 .. Len(t) : t[k] = s[i]
  BY <1>1 DEF KeptBut
<1> QED  BY <1>1, <1>2, BeginIff

\* What a handler of the table does to its requests: those in the queue stay,
\* and a parameter that is neither counted as missed nor was one it waited for
\* before is asked for in the queue.
ReadsKept ==
  /\ readQueue' \in Seq(Reads) /\ Len(readQueue') <= QueueMax
  /\ Begin(readQueue) \subseteq Begin(readQueue')
  /\ pending' \subseteq Params /\ missed' \subseteq Params
  /\ \A p \in pending' \ missed' : p \in pending \ missed \/ p \in Begin(readQueue')

\* What the master sees of it.
QueueCalled ==
  UNCHANGED readQueue \/ \E addr \in Nat, len \in Nat : slot_request_read_reg(addr, len)

\* A request covers its parameters, or is counted as missed.
LEMMA RequestCovers ==
  ASSUME TypeOK, NEW addr \in Nat, NEW len \in Nat \ {0}, NEW params \in SUBSET Params,
         \A r \in params : addr <= r /\ r < addr + len /\ r < addr + ChunkMax,
         Request(addr, len, params)
  PROVE  /\ readQueue' \in Seq(Reads) /\ Len(readQueue') <= QueueMax
         /\ Begin(readQueue) \subseteq Begin(readQueue')
         /\ missed' \subseteq Params
         /\ \A p \in Params \ missed' : p \in Begin(readQueue') \/ (p \notin missed /\ p \notin params)
         /\ QueueCalled
<1> DEFINE more == Pieces(addr, len)
<1>1. readQueue \in Seq(Reads) /\ Len(readQueue) <= QueueMax /\ missed \subseteq Params
  BY DEF TypeOK, MasterTypeOK
<1>2. /\ more \in Seq(Reads) /\ 1 \in 1 .. Len(more)
      /\ more[1] = [addr |-> addr, len |-> IF len < ChunkMax THEN len ELSE ChunkMax]
  BY PiecesAreReads
<1>3. params \subseteq RegistersIn(more[1])
  <2>1. params \subseteq DOMAIN Width
    BY TableFacts
  <2>2. ASSUME NEW r \in params
        PROVE  more[1].addr <= r /\ r < more[1].addr + more[1].len
    BY <1>2
  <2> QED  BY <2>1, <2>2 DEF RegistersIn
<1> HIDE DEF more
<1>4. readQueue' = Enqueue(readQueue, more)
  BY DEF Request, slot_request_read_reg, more
<1>5. missed' = IF Len(readQueue) + Len(more) <= QueueMax THEN missed \ params
                ELSE missed \cup params
  BY DEF Request, more
<1>6. /\ readQueue' \in Seq(Reads) /\ Len(readQueue') <= QueueMax
      /\ Kept(readQueue, readQueue')
      /\ Len(readQueue) + Len(more) <= QueueMax => Kept(more, readQueue')
  <2>1. more \in Seq(Reads)
    BY <1>2
  <2> QED  BY <1>1, <1>4, <2>1, EnqueueKeeps
<1>7. Begin(readQueue) \subseteq Begin(readQueue')
  BY <1>6, BeginKept
<1>8. Len(readQueue) + Len(more) <= QueueMax => params \subseteq Begin(readQueue')
  <2>1. ASSUME Len(readQueue) + Len(more) <= QueueMax, NEW p \in params
        PROVE  p \in Begin(readQueue')
    <3>1. PICK k \in 1 .. Len(readQueue') : readQueue'[k] = more[1]
      BY <1>2, <1>6, <2>1 DEF Kept
    <3>2. p \in RegistersIn(readQueue'[k])
      BY <1>3, <2>1, <3>1
    <3> QED  BY <3>2, BeginIff
  <2> QED  BY <2>1
<1>9. QueueCalled
  BY DEF QueueCalled, Request
<1> QED  BY <1>1, <1>5, <1>6, <1>7, <1>8, <1>9

\* A chunk is the parameters from one place to another, and its request covers
\* them all.
LEMMA ChunkAsked ==
  ASSUME TypeOK, NEW from \in 0 .. Count - 1, NEW sofar \in SUBSET Params,
         ask_chunk(from, sofar)
  PROVE  /\ ReadsKept /\ QueueCalled
         /\ requestAddr' \in Nat
         /\ getIndex' \in from + 1 .. Count
         /\ asked' = sofar \cup {Keys[i] : i \in from + 1 .. getIndex'}
<1> DEFINE first == Keys[from + 1]
           these == {Keys[i] : i \in Chunk(from)}
<1>0. Count \in Nat /\ from \in Nat /\ from + 1 \in 1 .. Count
  BY TableFacts
<1>1. PICK last \in Chunk(from) :
        /\ \A i \in Chunk(from) : i <= last
        /\ requestAddr' = first
        /\ getIndex' = last
        /\ asked' = sofar \cup these
        /\ pending' = pending \cup these
        /\ LET size == Keys[last] + Width[Keys[last]] - first
           IN  Request(first, IF size < ChunkMax THEN size ELSE ChunkMax, these)
  BY DEF ask_chunk
<1> DEFINE size == Keys[last] + Width[Keys[last]] - first
           len  == IF size < ChunkMax THEN size ELSE ChunkMax
<1>2. last \in from + 1 .. Count /\ Keys[last] - first < ChunkMax
  BY DEF Chunk
<1>3. first \in Nat /\ Keys[last] \in Nat /\ Width[Keys[last]] \in {1, 2}
  <2>1. last \in 1 .. Count
    BY <1>0, <1>2
  <2>2. Keys[last] \in Params /\ first \in Params
    BY <1>0, <2>1, TableFacts
  <2> QED  BY <2>2, TableFacts
<1>4. ASSUME NEW i \in from + 1 .. last
      PROVE  i \in 1 .. Count /\ first <= Keys[i] /\ Keys[i] <= Keys[last] /\ Keys[i] \in Nat
  <2>1. i \in 1 .. Count /\ last \in 1 .. Count
    BY <1>0, <1>2
  <2>2. Keys[i] \in Nat
    BY <2>1, TableFacts
  <2>3. i = from + 1 \/ Keys[from + 1] < Keys[i]
    BY <1>0, <2>1, TableFacts
  <2>4. i = last \/ Keys[i] < Keys[last]
    BY <1>0, <2>1, TableFacts
  <2> QED  BY <1>3, <2>1, <2>2, <2>3, <2>4
<1>5. Chunk(from) = from + 1 .. last
  <2>1. ASSUME NEW i \in Chunk(from)
        PROVE  i \in from + 1 .. last
    BY <1>0, <1>1, <1>2, <2>1 DEF Chunk
  <2>2. ASSUME NEW i \in from + 1 .. last
        PROVE  i \in Chunk(from)
    BY <1>0, <1>2, <1>3, <1>4, <2>2 DEF Chunk
  <2> QED  BY <2>1, <2>2
<1>6. these \in SUBSET Params
  BY <1>4, <1>5, TableFacts
<1>7. size \in Nat \ {0} /\ len \in Nat \ {0} /\ len <= ChunkMax
  <2>1. first <= Keys[last]
    BY <1>0, <1>2, <1>4
  <2> QED  BY <1>3, <2>1
<1>8. ASSUME NEW r \in these
      PROVE  first <= r /\ r < first + len /\ r < first + ChunkMax
  <2>1. PICK i \in from + 1 .. last : r = Keys[i]
    BY <1>5
  <2>2. first <= r /\ r <= Keys[last] /\ r \in Nat
    BY <1>4, <2>1
  <2> QED  BY <1>2, <1>3, <2>2
<1>9. Request(first, len, these)
  BY <1>1
<1> HIDE DEF first, these, len, size
<1>10. /\ readQueue' \in Seq(Reads) /\ Len(readQueue') <= QueueMax
       /\ Begin(readQueue) \subseteq Begin(readQueue')
       /\ missed' \subseteq Params
       /\ \A p \in Params \ missed' : p \in Begin(readQueue') \/ (p \notin missed /\ p \notin these)
       /\ QueueCalled
  BY <1>3, <1>6, <1>7, <1>8, <1>9, RequestCovers
<1>11. pending' = pending \cup these /\ pending \subseteq Params
  BY <1>1 DEF TypeOK
<1>12. ReadsKept
  BY <1>6, <1>10, <1>11 DEF ReadsKept
<1>13. asked' = sofar \cup {Keys[i] : i \in from + 1 .. getIndex'}
  BY <1>1, <1>5 DEF these
<1> QED  BY <1>1, <1>2, <1>3, <1>10, <1>12, <1>13

\* A step of the table's read.
LEMMA GetRegsAsks ==
  ASSUME TypeOK, NEW auto, NEW timer \in BOOLEAN, NEW index \in 0 .. Count, NEW sofar,
         sofar = {Keys[i] : i \in 1 .. index},
         request_get_regs(auto, timer, index, sofar)
  PROVE  /\ ReadsKept /\ QueueCalled
         /\ requestAddr' \in Nat
         /\ getIndex' \in 0 .. Count
         /\ getTimerOn' \in BOOLEAN
         /\ asked' = {Keys[i] : i \in 1 .. getIndex'}
<1>0. Count \in Nat \ {0}
  BY TableFacts
<1>1. CASE index < Count /\ ask_chunk(index, sofar) /\ getTimerOn' = timer
  <2>1. sofar \in SUBSET Params /\ index \in 0 .. Count - 1
    BY <1>0, <1>1, TableFacts
  <2>2. /\ ReadsKept /\ QueueCalled
        /\ requestAddr' \in Nat
        /\ getIndex' \in index + 1 .. Count
        /\ asked' = sofar \cup {Keys[i] : i \in index + 1 .. getIndex'}
    BY <1>1, <2>1, ChunkAsked
  <2>3. 1 .. getIndex' = (1 .. index) \cup (index + 1 .. getIndex')
    BY <1>0, <2>2
  <2>4. asked' = {Keys[i] : i \in 1 .. getIndex'}
    BY <2>2, <2>3
  <2>5. getIndex' \in 0 .. Count
    BY <1>0, <2>2
  <2> QED  BY <1>1, <2>2, <2>4, <2>5
<1>2. CASE index >= Count /\ ask_chunk(0, {}) /\ getTimerOn' = timer
  <2>1. 0 \in 0 .. Count - 1 /\ {} \in SUBSET Params
    BY <1>0
  <2>2. /\ ReadsKept /\ QueueCalled
        /\ requestAddr' \in Nat
        /\ getIndex' \in 0 + 1 .. Count
        /\ asked' = {} \cup {Keys[i] : i \in 0 + 1 .. getIndex'}
    BY <1>2, <2>1, ChunkAsked
  <2> QED  BY <1>0, <1>2, <2>2
<1>3. CASE /\ index >= Count /\ ~auto
           /\ getTimerOn' = FALSE
           /\ getIndex' = index
           /\ asked' = sofar
           /\ UNCHANGED <<requestAddr, pending, missed, readQueue>>
  <2>1. index = Count
    BY <1>0, <1>3
  <2>3. ReadsKept /\ QueueCalled /\ requestAddr' \in Nat
    BY <1>3 DEF ReadsKept, QueueCalled, TypeOK, MasterTypeOK
  <2> QED  BY <1>3, <2>1, <2>3
<1> QED  BY <1>1, <1>2, <1>3 DEF request_get_regs

-----------------------------------------------------------------------------
(***************************************************************************)
(* The slot calls.                                                         *)
(***************************************************************************)

\* A slot call that gives a parameter its true icon back.
Telling(slot, p) == slot.kind \in {"value", "written"} /\ slot.reg = p

Told(slots, p) == \E i \in 1 .. Len(slots) : Telling(slots[i], p)

LEMMA KnownConcat ==
  ASSUME NEW s \in Seq(Slots), NEW t \in Seq(Slots), KnownIn(s), KnownIn(t)
  PROVE  KnownIn(s \o t)
<1>1. /\ Len(s \o t) = Len(s) + Len(t) /\ Len(s) \in Nat /\ Len(t) \in Nat
      /\ \A k \in 1 .. Len(s \o t) :
           (s \o t)[k] = IF k <= Len(s) THEN s[k] ELSE t[k - Len(s)]
  BY ConcatLemma
<1>2. ASSUME NEW k \in 1 .. Len(s \o t), (s \o t)[k].kind # "read"
      PROVE  (s \o t)[k].reg \in Params
  <2>1. CASE k <= Len(s)
    <3>1. k \in 1 .. Len(s) /\ (s \o t)[k] = s[k]
      BY <1>1, <2>1
    <3> QED  BY <1>2, <3>1 DEF KnownIn
  <2>2. CASE ~ (k <= Len(s))
    <3>1. k - Len(s) \in 1 .. Len(t) /\ (s \o t)[k] = t[k - Len(s)]
      BY <1>1, <2>2
    <3> QED  BY <1>2, <3>1 DEF KnownIn
  <2> QED  BY <2>1, <2>2
<1> QED  BY <1>2 DEF KnownIn

LEMMA KnownTail ==
  ASSUME NEW s \in Seq(Slots), s # <<>>, KnownIn(s)
  PROVE  KnownIn(Tail(s)) /\ (Head(s).kind # "read" => Head(s).reg \in Params)
<1>1. /\ Len(Tail(s)) = Len(s) - 1 /\ Len(s) \in Nat \ {0} /\ Head(s) = s[1]
      /\ \A k \in 1 .. Len(Tail(s)) : Tail(s)[k] = s[k + 1]
  BY TailLemma
<1>2. ASSUME NEW k \in 1 .. Len(Tail(s)), Tail(s)[k].kind # "read"
      PROVE  Tail(s)[k].reg \in Params
  <2>1. k + 1 \in 1 .. Len(s) /\ Tail(s)[k] = s[k + 1]
    BY <1>1
  <2> QED  BY <1>2, <2>1 DEF KnownIn
<1>3. Head(s).kind # "read" => Head(s).reg \in Params
  BY <1>1 DEF KnownIn
<1> QED  BY <1>2, <1>3 DEF KnownIn

\* The slot calls of an answered read: one for each value in it, none else.
LEMMA ReadSlotsLemma ==
  ASSUME NEW a \in Reads, NEW regs \in Ascending(RegistersIn(a))
  PROVE  /\ ReadSlots(regs, a.addr) \in Seq(Slots)
         /\ KnownIn(ReadSlots(regs, a.addr))
         /\ \A r \in RegistersIn(a) : Told(ReadSlots(regs, a.addr), r)
<1> DEFINE values == [k \in 1 .. Len(regs) |-> Slot("value", regs[k])]
           end    == <<Slot("read", a.addr)>>
<1>1. RegistersIn(a) \subseteq Params /\ RegistersIn(a) \subseteq Nat /\ IsFiniteSet(RegistersIn(a))
  BY AnswersKnown, TableFacts
<1>2. regs \in Seq(RegistersIn(a)) /\ \A r \in RegistersIn(a) : \E k \in 1 .. Len(regs) : regs[k] = r
  BY <1>1, AscendingIsOnto
<1>3. Len(regs) \in Nat /\ DOMAIN regs = 1 .. Len(regs)
      /\ \A k \in 1 .. Len(regs) : regs[k] \in RegistersIn(a)
  BY <1>2
<1>4. values \in Seq(Slots) /\ Len(values) = Len(regs)
      /\ \A k \in 1 .. Len(regs) : values[k] = [kind |-> "value", reg |-> regs[k]]
  <2>1. \A k \in 1 .. Len(regs) : Slot("value", regs[k]) \in Slots
    BY <1>1, <1>3 DEF Slot, Slots
  <2> QED  BY <1>3, <2>1 DEF Slot
<1>5. end \in Seq(Slots) /\ Len(end) = 1 /\ end[1] = [kind |-> "read", reg |-> a.addr]
  BY DEF Slot, Slots, Reads
<1>6. ReadSlots(regs, a.addr) = values \o end
  BY <1>3 DEF ReadSlots
<1> HIDE DEF values, end
<1>7. values \o end \in Seq(Slots) /\ Kept(values, values \o end)
  <2>1. values \in Seq(Slots) /\ end \in Seq(Slots)
    BY <1>4, <1>5
  <2> QED  BY <2>1, ConcatLemma
<1>8. KnownIn(values \o end)
  <2>1. KnownIn(values)
    <3>1. ASSUME NEW k \in 1 .. Len(values)
          PROVE  values[k].reg \in Params
      <4>1. regs[k] \in Params
        BY <1>1, <1>3, <1>4
      <4>2. values[k] = [kind |-> "value", reg |-> regs[k]]
        BY <1>3, <1>4
      <4> QED  BY <4>1, <4>2
    <3> QED  BY <3>1 DEF KnownIn
  <2>2. KnownIn(end)
    BY <1>5 DEF KnownIn
  <2> QED  BY <1>4, <1>5, <2>1, <2>2, KnownConcat
<1>9. ASSUME NEW r \in RegistersIn(a)
      PROVE  Told(values \o end, r)
  <2>1. PICK j \in 1 .. Len(regs) : regs[j] = r
    BY <1>2
  <2>2. PICK k \in 1 .. Len(values \o end) : (values \o end)[k] = values[j]
    BY <1>4, <1>7, <2>1 DEF Kept
  <2>3. (values \o end)[k] = [kind |-> "value", reg |-> r]
    BY <1>4, <2>1, <2>2
  <2> QED  BY <2>3 DEF Told, Telling
<1> QED  BY <1>6, <1>7, <1>8, <1>9

\* Those of an answered write: at least one, all for its register.
WriteSlots(r) == [k \in 1 .. Width[r] |-> Slot("written", r)]

LEMMA WriteSlotsLemma ==
  ASSUME NEW r \in Params
  PROVE  /\ WriteSlots(r) \in Seq(Slots)
         /\ Told(WriteSlots(r), r)
         /\ KnownIn(WriteSlots(r))
<1>1. Width[r] \in Nat /\ 1 \in 1 .. Width[r] /\ r \in Nat
  BY TableFacts
<1>2. Slot("written", r) \in Slots /\ Slot("written", r) = [kind |-> "written", reg |-> r]
  BY <1>1 DEF Slot, Slots
<1>3. WriteSlots(r) \in Seq(Slots) /\ Len(WriteSlots(r)) = Width[r]
      /\ \A k \in 1 .. Width[r] : WriteSlots(r)[k] = Slot("written", r)
  BY <1>1, <1>2 DEF WriteSlots
<1>4. KnownIn(WriteSlots(r))
  BY <1>2, <1>3 DEF KnownIn
<1>5. Told(WriteSlots(r), r)
  BY <1>1, <1>2, <1>3 DEF Told, Telling
<1> QED  BY <1>3, <1>4, <1>5

-----------------------------------------------------------------------------
(***************************************************************************)
(* The master's steps: the types.                                          *)
(***************************************************************************)

\* Only the reply handlers post slot calls, for values of the table only.
LEMMA MasterKeepsTypes ==
  ASSUME MasterTypeOK, SlotsKnown, RequestThread \/ ReplyHandlers \/ Slave \/ Loss
  PROVE  MasterTypeOK' /\ SlotsKnown'
<1> USE DEF MasterTypeOK, threadVars, busVars
<1>0. DOMAIN Width = Params
  BY TableFacts
<1>1. CASE ThreadSend
  <2>1. /\ Head(readQueue) \in Reads /\ readQueue' \in Seq(Reads)
        /\ Len(readQueue') = Len(readQueue) - 1 /\ Len(readQueue) \in Nat
    BY <1>1, TailLemma DEF ThreadSend
  <2>2. reads' \in Seq(Reads)
    BY <1>1, <2>1 DEF ThreadSend
  <2>3. Len(readQueue') <= QueueMax
    BY <2>1
  <2>4. SlotsKnown'
    BY <1>1 DEF ThreadSend, SlotsKnown
  <2> QED  BY <1>1, <2>1, <2>2, <2>3, <2>4 DEF ThreadSend
<1>2. CASE ThreadAnswered
  <2>1. SlotsKnown'
    BY <1>2 DEF ThreadAnswered, SlotsKnown
  <2>2. answerSem' \in Nat /\ timeouts' \in 0 .. MaxTimeouts
    BY <1>2 DEF ThreadAnswered
  <2>3. waiting' = FALSE
    BY <1>2 DEF ThreadAnswered
  <2>4. waiting' \in BOOLEAN
    BY <2>3
  <2>5. UNCHANGED <<readQueue, posted, reads, answers, writes, writeAnswers>>
    BY <1>2 DEF ThreadAnswered
  <2> QED  BY <2>1, <2>2, <2>4, <2>5
<1>3. CASE ThreadTimeout
  <2>1. SlotsKnown'
    BY <1>3 DEF ThreadTimeout, SlotsKnown
  <2>2. answerSem' \in Nat /\ timeouts' \in 0 .. MaxTimeouts
    BY <1>3 DEF ThreadTimeout
  <2>3. waiting' = FALSE
    BY <1>3 DEF ThreadTimeout
  <2>4. waiting' \in BOOLEAN
    BY <2>3
  <2>5. UNCHANGED <<readQueue, posted, reads, answers, writes, writeAnswers>>
    BY <1>3 DEF ThreadTimeout
  <2> QED  BY <2>1, <2>2, <2>4, <2>5
<1>4. ASSUME NEW i \in 1 .. Len(answers), recv_read_reg_handle(i)
      PROVE  MasterTypeOK' /\ SlotsKnown'
  <2>1. answers[i] \in Reads
    OBVIOUS
  <2>2. PICK regs \in Ascending(RegistersIn(answers[i])) :
          posted' = posted \o ReadSlots(regs, answers[i].addr)
    BY <1>4 DEF recv_read_reg_handle
  <2> DEFINE new == ReadSlots(regs, answers[i].addr)
  <2>3. new \in Seq(Slots) /\ KnownIn(new)
    BY <2>1, ReadSlotsLemma
  <2> HIDE DEF new
  <2>4. posted' = posted \o new /\ posted \in Seq(Slots)
    BY <2>2 DEF new
  <2>5. posted' \in Seq(Slots)
    BY <2>3, <2>4
  <2>6. SlotsKnown'
    BY <2>3, <2>4, KnownConcat DEF SlotsKnown
  <2>7. answers' \in Seq(Reads)
    BY <1>4, RemoveAtLemma DEF recv_read_reg_handle
  <2> QED  BY <1>4, <2>5, <2>6, <2>7 DEF recv_read_reg_handle
<1>5. ASSUME NEW i \in 1 .. Len(writeAnswers), recv_write_reg_handle(i)
      PROVE  MasterTypeOK' /\ SlotsKnown'
  <2> DEFINE new == WriteSlots(writeAnswers[i])
  <2>1. writeAnswers[i] \in Params
    BY <1>0
  <2>2. new \in Seq(Slots) /\ KnownIn(new)
    BY <2>1, WriteSlotsLemma
  <2>3. posted' = posted \o new /\ posted \in Seq(Slots)
    BY <1>5 DEF recv_write_reg_handle, WriteSlots
  <2>4. writeAnswers' \in Seq(DOMAIN Width)
    BY <1>5, RemoveAtLemma DEF recv_write_reg_handle
  <2>5. UNCHANGED <<readQueue, answerSem, threadVars, reads, answers, writes>>
    BY <1>5 DEF recv_write_reg_handle
  <2> HIDE DEF new
  <2>6. posted' \in Seq(Slots)
    BY <2>2, <2>3
  <2>7. SlotsKnown'
    BY <2>2, <2>3, KnownConcat DEF SlotsKnown
  <2> QED  BY <2>4, <2>5, <2>6, <2>7
<1>6. CASE SlaveReads
  <2>1. Head(reads) \in Reads /\ reads' \in Seq(Reads)
    BY <1>6, TailLemma DEF SlaveReads
  <2>2. answers' \in Seq(Reads)
    BY <1>6, <2>1 DEF SlaveReads
  <2> QED  BY <1>6, <2>1, <2>2 DEF SlaveReads, SlotsKnown
<1>7. CASE SlaveWrites
  <2>1. Head(writes) \in DOMAIN Width /\ writes' \in Seq(DOMAIN Width)
    BY <1>7, TailLemma DEF SlaveWrites
  <2>2. writeAnswers' \in Seq(DOMAIN Width)
    BY <1>7, <2>1 DEF SlaveWrites
  <2> QED  BY <1>7, <2>1, <2>2 DEF SlaveWrites, SlotsKnown
<1>8. ASSUME NEW i \in 1 .. Len(reads), LoseRead(i)
      PROVE  MasterTypeOK' /\ SlotsKnown'
  <2>1. reads' \in Seq(Reads)
    BY <1>8, RemoveAtLemma DEF LoseRead
  <2> QED  BY <1>8, <2>1 DEF LoseRead, SlotsKnown
<1>9. ASSUME NEW i \in 1 .. Len(answers), LoseAnswer(i)
      PROVE  MasterTypeOK' /\ SlotsKnown'
  <2>1. answers' \in Seq(Reads)
    BY <1>9, RemoveAtLemma DEF LoseAnswer
  <2> QED  BY <1>9, <2>1 DEF LoseAnswer, SlotsKnown
<1>10. ASSUME NEW i \in 1 .. Len(writes), LoseWrite(i)
       PROVE  MasterTypeOK' /\ SlotsKnown'
  <2>1. writes' \in Seq(DOMAIN Width)
    BY <1>10, RemoveAtLemma DEF LoseWrite
  <2> QED  BY <1>10, <2>1 DEF LoseWrite, SlotsKnown
<1>11. ASSUME NEW i \in 1 .. Len(writeAnswers), LoseWriteAnswer(i)
       PROVE  MasterTypeOK' /\ SlotsKnown'
  <2>1. writeAnswers' \in Seq(DOMAIN Width)
    BY <1>11, RemoveAtLemma DEF LoseWriteAnswer
  <2> QED  BY <1>11, <2>1 DEF LoseWriteAnswer, SlotsKnown
<1> QED  BY <1>1, <1>2, <1>3, <1>4, <1>5, <1>6, <1>7, <1>8, <1>9, <1>10, <1>11
         DEF RequestThread, ReplyHandlers, Slave, Loss

-----------------------------------------------------------------------------
(***************************************************************************)
(* The master's steps: no parameter is forgotten.                          *)
(***************************************************************************)

\* A request, an answer or a slot call for a parameter is under way.
UnderWay(p) ==
  \/ p \in Begin(readQueue) \cup Begin(reads) \cup Begin(answers)
  \/ Holds(writes, p) \/ Holds(writeAnswers, p)
  \/ Told(posted, p)

LEMMA AccountedIff == AccountedFor <=> \A p \in pending \ missed : UnderWay(p)
  BY DEF AccountedFor, UnderWay, Told, Telling, Holds

\* What is told stays told in a queue that keeps its slot calls.
LEMMA ToldKept ==
  ASSUME NEW s, NEW t, Kept(s, t), NEW p, Told(s, p)
  PROVE  Told(t, p)
  BY DEF Kept, Told

\* The first request goes on: it is in one of the two sequences as before.
LEMMA HeadMoves ==
  ASSUME NEW s \in Seq(Reads), s # <<>>, NEW t \in Seq(Reads), NEW p, p \in Begin(s) \cup Begin(t)
  PROVE  p \in Begin(Tail(s)) \cup Begin(Append(t, Head(s)))
<1>1. KeptBut(s, Tail(s), Head(s)) /\ Head(s) \in Reads
  BY TailLemma
<1>2. Kept(t, Append(t, Head(s))) /\ Holds(Append(t, Head(s)), Head(s))
  BY <1>1, AppendLemma
<1>3. Begin(t) \subseteq Begin(Append(t, Head(s)))
  BY <1>2, BeginKept
<1>4. p \in Begin(s) => p \in RegistersIn(Head(s)) \/ p \in Begin(Tail(s))
  BY <1>1, BeginKeptBut
<1>5. p \in RegistersIn(Head(s)) => p \in Begin(Append(t, Head(s)))
  BY <1>2, BeginIff DEF Holds
<1> QED  BY <1>3, <1>4, <1>5

\* Taking a request out forgets no more than the values that begin in it.
LEMMA OneRemoved ==
  ASSUME NEW s \in Seq(Reads), NEW i \in 1 .. Len(s), NEW p \in Begin(s), p \notin RegistersIn(s[i])
  PROVE  p \in Begin(RemoveAt(s, i))
<1>1. KeptBut(s, RemoveAt(s, i), s[i])
  BY RemoveAtKeeps
<1> QED  BY <1>1, BeginKeptBut

\* Each step of the master passes on what is under way: a request becomes an
\* answer, an answer slot calls; only a loss breaks this, and is counted.
LEMMA MasterAccounts ==
  ASSUME MasterTypeOK, SlotsKnown, AccountedFor, UNCHANGED pending,
         ((RequestThread \/ ReplyHandlers \/ Slave) /\ UNCHANGED missed) \/ LossMissed
  PROVE  AccountedFor'
<1>0. SUFFICES ASSUME NEW p \in pending, p \notin missed'
               PROVE  UnderWay(p)'
  BY DEF AccountedFor, UnderWay, Told, Telling, Holds
<1> USE DEF MasterTypeOK, threadVars, busVars
<1>t. DOMAIN Width = Params
  BY TableFacts
<1>a. p \notin missed
  BY <1>0 DEF LossMissed
<1>u. UnderWay(p)
  BY <1>a, AccountedIff
<1>1. CASE ThreadSend
  <2>1. p \in Begin(readQueue) \cup Begin(reads) => p \in Begin(readQueue') \cup Begin(reads')
    BY <1>1, HeadMoves DEF ThreadSend
  <2> QED  BY <1>1, <1>u, <2>1 DEF ThreadSend, UnderWay
<1>2. CASE ThreadAnswered
  BY <1>2, <1>u DEF ThreadAnswered, UnderWay
<1>3. CASE ThreadTimeout
  BY <1>3, <1>u DEF ThreadTimeout, UnderWay
<1>4. ASSUME NEW i \in 1 .. Len(answers), recv_read_reg_handle(i)
      PROVE  UnderWay(p)'
  <2>1. answers[i] \in Reads
    OBVIOUS
  <2>2. PICK regs \in Ascending(RegistersIn(answers[i])) :
          posted' = posted \o ReadSlots(regs, answers[i].addr)
    BY <1>4 DEF recv_read_reg_handle
  <2> DEFINE new == ReadSlots(regs, answers[i].addr)
  <2>3. /\ new \in Seq(Slots)
        /\ \A r \in RegistersIn(answers[i]) : Told(new, r)
    BY <2>1, ReadSlotsLemma
  <2> HIDE DEF new
  <2>4. Kept(posted, posted') /\ Kept(new, posted')
    BY <2>2, <2>3, ConcatLemma DEF new
  <2>5. CASE p \in RegistersIn(answers[i])
    <3>1. Told(posted', p)
      BY <2>3, <2>4, <2>5, ToldKept
    <3> QED  BY <3>1 DEF UnderWay
  <2>6. CASE p \notin RegistersIn(answers[i])
    <3>1. p \in Begin(answers) => p \in Begin(answers')
      BY <1>4, <2>6, OneRemoved DEF recv_read_reg_handle
    <3>2. Told(posted, p) => Told(posted', p)
      BY <2>4, ToldKept
    <3>3. UNCHANGED <<readQueue, reads, writes, writeAnswers>>
      BY <1>4 DEF recv_read_reg_handle
    <3> QED  BY <1>u, <3>1, <3>2, <3>3 DEF UnderWay
  <2> QED  BY <2>5, <2>6
<1>5. ASSUME NEW i \in 1 .. Len(writeAnswers), recv_write_reg_handle(i)
      PROVE  UnderWay(p)'
  <2> DEFINE new == WriteSlots(writeAnswers[i])
  <2>1. writeAnswers[i] \in Params
    BY <1>t
  <2>2. new \in Seq(Slots) /\ Told(new, writeAnswers[i])
    BY <2>1, WriteSlotsLemma
  <2>3. posted' = posted \o new
    BY <1>5 DEF recv_write_reg_handle, WriteSlots
  <2> HIDE DEF new
  <2>4. Kept(posted, posted') /\ Kept(new, posted')
    BY <2>2, <2>3, ConcatLemma
  <2>5. CASE p = writeAnswers[i]
    <3>1. Told(posted', p)
      BY <2>2, <2>4, <2>5, ToldKept
    <3> QED  BY <3>1 DEF UnderWay
  <2>6. CASE p # writeAnswers[i]
    <3>1. Holds(writeAnswers, p) => Holds(writeAnswers', p)
      <4>1. KeptBut(writeAnswers, writeAnswers', writeAnswers[i])
        BY <1>5, RemoveAtKeeps DEF recv_write_reg_handle
      <4> QED  BY <2>6, <4>1, HoldsKept
    <3>2. Told(posted, p) => Told(posted', p)
      BY <2>4, ToldKept
    <3>3. UNCHANGED <<readQueue, reads, answers, writes>>
      BY <1>5 DEF recv_write_reg_handle
    <3> QED  BY <1>u, <3>1, <3>2, <3>3 DEF UnderWay
  <2> QED  BY <2>5, <2>6
<1>6. CASE SlaveReads
  <2>1. p \in Begin(reads) \cup Begin(answers) => p \in Begin(reads') \cup Begin(answers')
    BY <1>6, HeadMoves DEF SlaveReads
  <2> QED  BY <1>6, <1>u, <2>1 DEF SlaveReads, UnderWay
<1>7. CASE SlaveWrites
  <2>1. KeptBut(writes, writes', Head(writes)) /\ Head(writes) \in DOMAIN Width
    BY <1>7, TailLemma DEF SlaveWrites
  <2>2. Kept(writeAnswers, writeAnswers') /\ Holds(writeAnswers', Head(writes))
    BY <1>7, <2>1, AppendLemma DEF SlaveWrites
  <2>3. UNCHANGED <<readQueue, reads, answers, posted>>
    BY <1>7 DEF SlaveWrites
  <2>4. CASE p = Head(writes)
    BY <2>2, <2>4 DEF UnderWay
  <2>5. CASE p # Head(writes)
    <3>1. Holds(writes, p) => Holds(writes', p)
      BY <2>1, <2>5, HoldsKept
    <3>2. Holds(writeAnswers, p) => Holds(writeAnswers', p)
      BY <2>2, HoldsKept
    <3> QED  BY <1>u, <2>3, <3>1, <3>2 DEF UnderWay
  <2> QED  BY <2>4, <2>5
<1>8. ASSUME NEW i \in 1 .. Len(reads), LoseRead(i), missed' = missed \cup RegistersIn(reads[i])
      PROVE  UnderWay(p)'
  <2>1. p \in Begin(reads) => p \in Begin(reads')
    BY <1>0, <1>8, OneRemoved DEF LoseRead
  <2> QED  BY <1>8, <1>u, <2>1 DEF LoseRead, UnderWay
<1>9. ASSUME NEW i \in 1 .. Len(answers), LoseAnswer(i),
             missed' = missed \cup RegistersIn(answers[i])
      PROVE  UnderWay(p)'
  <2>1. p \in Begin(answers) => p \in Begin(answers')
    BY <1>0, <1>9, OneRemoved DEF LoseAnswer
  <2> QED  BY <1>9, <1>u, <2>1 DEF LoseAnswer, UnderWay
<1>10. ASSUME NEW i \in 1 .. Len(writes), LoseWrite(i), missed' = missed \cup {writes[i]}
       PROVE  UnderWay(p)'
  <2>1. Holds(writes, p) => Holds(writes', p)
    <3>1. KeptBut(writes, writes', writes[i])
      BY <1>10, RemoveAtKeeps DEF LoseWrite
    <3>2. p # writes[i]
      BY <1>0, <1>10
    <3> QED  BY <3>1, <3>2, HoldsKept
  <2> QED  BY <1>10, <1>u, <2>1 DEF LoseWrite, UnderWay
<1>11. ASSUME NEW i \in 1 .. Len(writeAnswers), LoseWriteAnswer(i),
              missed' = missed \cup {writeAnswers[i]}
       PROVE  UnderWay(p)'
  <2>1. Holds(writeAnswers, p) => Holds(writeAnswers', p)
    <3>1. KeptBut(writeAnswers, writeAnswers', writeAnswers[i])
      BY <1>11, RemoveAtKeeps DEF LoseWriteAnswer
    <3>2. p # writeAnswers[i]
      BY <1>0, <1>11
    <3> QED  BY <3>1, <3>2, HoldsKept
  <2> QED  BY <1>11, <1>u, <2>1 DEF LoseWriteAnswer, UnderWay
<1> QED  BY <1>1, <1>2, <1>3, <1>4, <1>5, <1>6, <1>7, <1>8, <1>9, <1>10, <1>11
         DEF RequestThread, ReplyHandlers, Slave, LossMissed

-----------------------------------------------------------------------------
(***************************************************************************)
(* The handlers of the table, which are what the GUI thread does with the  *)
(* master.                                                                 *)
(***************************************************************************)
TableStep == TableInv' /\ AccountedFor' /\ GuiStep

\* What the handlers leave alone stays well typed.
LEMMA MasterTypesKept ==
  ASSUME MasterTypeOK, readQueue' \in Seq(Reads), Len(readQueue') <= QueueMax,
         posted' \in Seq(Slots), writes' \in Seq(DOMAIN Width), UNCHANGED otherVars
  PROVE  MasterTypeOK'
<1>1. UNCHANGED <<answerSem, waiting, timeouts, reads, answers, writeAnswers>>
  BY DEF otherVars, threadVars
<1>2. waiting' \in BOOLEAN
  BY <1>1 DEF MasterTypeOK
<1>3. answerSem' \in Nat /\ timeouts' \in 0 .. MaxTimeouts /\ reads' \in Seq(Reads)
      /\ answers' \in Seq(Reads) /\ writeAnswers' \in Seq(DOMAIN Width)
  BY <1>1 DEF MasterTypeOK
<1> QED  BY <1>2, <1>3 DEF MasterTypeOK

\* What it means for the parameters that a handler asks for some.
LEMMA AskingAccounts ==
  ASSUME AccountedFor, ReadsKept, UNCHANGED <<reads, answers, writes, writeAnswers, posted>>
  PROVE  AccountedFor'
<1>1. SUFFICES ASSUME NEW p \in pending' \ missed'
               PROVE  UnderWay(p)'
  BY DEF AccountedFor, UnderWay, Told, Telling, Holds
<1>2. CASE p \in Begin(readQueue')
  BY <1>2 DEF UnderWay
<1>3. CASE p \in pending \ missed
  <2>1. UnderWay(p)
    BY <1>3, AccountedIff
  <2> QED  BY <2>1 DEF UnderWay, ReadsKept
<1> QED  BY <1>1, <1>2, <1>3 DEF ReadsKept

\* A step of the table's read, by a timer or the operator.
LEMMA ReadStep ==
  ASSUME TableInv, AccountedFor, NEW auto, NEW timer \in BOOLEAN, NEW index \in 0 .. Count, NEW sofar,
         sofar = {Keys[i] : i \in 1 .. index},
         request_get_regs(auto, timer, index, sofar),
         autoGet' \in BOOLEAN, ops' \in 0 .. MaxOps,
         UNCHANGED <<otherVars, posted, writes, setVars>>
  PROVE  TableStep
<1> USE DEF TableInv, TypeOK
<1>1. /\ ReadsKept /\ QueueCalled
      /\ requestAddr' \in Nat
      /\ getIndex' \in 0 .. Count
      /\ getTimerOn' \in BOOLEAN
      /\ asked' = {Keys[i] : i \in 1 .. getIndex'}
  BY GetRegsAsks
<1>2. MasterTypeOK'
  <2>1. posted' \in Seq(Slots) /\ writes' \in Seq(DOMAIN Width)
    BY DEF MasterTypeOK
  <2> QED  BY <1>1, <2>1, MasterTypesKept DEF ReadsKept
<1>3. asked' \subseteq Params
  BY <1>1, TableFacts
<1>4. setIndex' \in 0 .. Count /\ setIndex' = setIndex /\ setTimerOn' = setTimerOn
  BY DEF setVars
<1>5. setTimerOn' \in BOOLEAN
  BY <1>4
<1>6. TypeOK'
  BY <1>1, <1>2, <1>3, <1>4, <1>5 DEF ReadsKept
<1>7. SlotsKnown' /\ IndexOnTable'
  BY <1>1 DEF SlotsKnown, IndexOnTable
<1>8. AccountedFor'
  BY <1>1, AskingAccounts DEF otherVars
<1>9. GuiStep
  BY <1>1 DEF QueueCalled, GuiStep, otherVars
<1> QED  BY <1>6, <1>7, <1>8, <1>9 DEF TableStep

\* A step of writing the table, by its timer or the operator.
LEMMA WriteStep ==
  ASSUME TableInv, AccountedFor, NEW index \in 0 .. Count, slot_request_set_timeout(index),
         ops' \in 0 .. MaxOps, UNCHANGED <<otherVars, posted, readQueue, getVars>>
  PROVE  TableStep
<1> USE DEF TableInv, TypeOK
<1>0. Count \in Nat /\ DOMAIN Width = Params /\ Writable \subseteq Params
  BY TableFacts, TableAssumption
<1>1. /\ setIndex' \in 0 .. Count /\ setTimerOn' \in BOOLEAN
      /\ writes' \in Seq(DOMAIN Width) /\ Kept(writes, writes')
      /\ pending' \subseteq Params /\ missed' \subseteq Params
      /\ \A p \in pending' \ missed' : p \in pending \ missed \/ Holds(writes', p)
      /\ UNCHANGED writes \/ \E r \in DOMAIN Width : slot_request_write_reg(r)
  <2>1. CASE index < Count
    <3> DEFINE q == Keys[index + 1]
    <3>1. q \in Params
      BY <1>0, <2>1, TableFacts
    <3> HIDE DEF q
    <3>2. /\ pending' = pending \cup {q}
          /\ \/ q \in Writable /\ slot_request_write_reg(q) /\ missed' = missed \ {q}
             \/ q \notin Writable /\ UNCHANGED writes /\ missed' = missed \cup {q}
          /\ setIndex' = index + 1 /\ setTimerOn' = TRUE
      BY <1>0, <2>1 DEF slot_request_set_timeout, q
    <3>3. CASE slot_request_write_reg(q) /\ missed' = missed \ {q}
      <4>1. writes' = Append(writes, q) /\ writes \in Seq(DOMAIN Width) /\ q \in DOMAIN Width
        BY <1>0, <3>1, <3>3 DEF slot_request_write_reg, MasterTypeOK
      <4>2. writes' \in Seq(DOMAIN Width) /\ Kept(writes, writes') /\ Holds(writes', q)
        BY <4>1, AppendLemma
      <4> QED  BY <1>0, <2>1, <3>1, <3>2, <3>3, <4>1, <4>2
    <3>4. CASE UNCHANGED writes /\ missed' = missed \cup {q}
      <4>1. writes' \in Seq(DOMAIN Width) /\ Kept(writes, writes')
        BY <3>4 DEF MasterTypeOK, Kept
      <4> QED  BY <1>0, <2>1, <3>1, <3>2, <3>4, <4>1
    <3> QED  BY <3>2, <3>3, <3>4
  <2>2. CASE index >= Count
    <3>1. setTimerOn' = FALSE /\ setIndex' = index /\ UNCHANGED <<pending, missed, writes>>
      BY <1>0, <2>2 DEF slot_request_set_timeout
    <3>2. writes' \in Seq(DOMAIN Width) /\ Kept(writes, writes')
      BY <3>1 DEF MasterTypeOK, Kept
    <3> QED  BY <3>1, <3>2
  <2> QED  BY <1>0, <2>1, <2>2
<1>2. UNCHANGED <<getIndex, requestAddr, getTimerOn, autoGet, asked, posted, readQueue,
                  reads, answers, writeAnswers>>
  BY DEF getVars, otherVars
<1>3. MasterTypeOK'
  <2>1. posted' \in Seq(Slots) /\ readQueue' \in Seq(Reads) /\ Len(readQueue') <= QueueMax
    BY <1>2 DEF MasterTypeOK
  <2> QED  BY <1>1, <2>1, MasterTypesKept
<1>4. getTimerOn' \in BOOLEAN /\ autoGet' \in BOOLEAN
  BY <1>2
<1>5. TypeOK'
  BY <1>1, <1>2, <1>3, <1>4
<1>6. SlotsKnown' /\ IndexOnTable'
  BY <1>2 DEF SlotsKnown, IndexOnTable
<1>7. AccountedFor'
  <2>1. SUFFICES ASSUME NEW p \in pending' \ missed'
                 PROVE  UnderWay(p)'
    BY DEF AccountedFor, UnderWay, Told, Telling, Holds
  <2>2. CASE Holds(writes', p)
    BY <2>2 DEF UnderWay
  <2>3. CASE p \in pending \ missed
    <3>1. UnderWay(p)
      BY <2>3, AccountedIff
    <3>2. Holds(writes, p) => Holds(writes', p)
      BY <1>1, HoldsKept
    <3> QED  BY <1>2, <3>1, <3>2 DEF UnderWay
  <2> QED  BY <1>1, <2>1, <2>2, <2>3
<1>8. GuiStep
  BY <1>1 DEF GuiStep, otherVars
<1> QED  BY <1>5, <1>6, <1>7, <1>8 DEF TableStep

\* One parameter asked for by a click on its cell.
LEMMA ClickStep ==
  ASSUME TableInv, AccountedFor, NEW q \in Params, cell_clicked(q), ops' \in 0 .. MaxOps
  PROVE  TableStep
<1> USE DEF TableInv, TypeOK
<1>1. q \in Nat /\ Width[q] \in Nat \ {0}
  BY TableFacts
<1>2. Request(q, Width[q], {q}) /\ pending' = pending \cup {q}
      /\ UNCHANGED <<otherVars, posted, writes, getVars, setVars>>
  BY DEF cell_clicked
<1>3. \A r \in {q} : q <= r /\ r < q + Width[q] /\ r < q + ChunkMax
  BY <1>1
<1>4. /\ readQueue' \in Seq(Reads) /\ Len(readQueue') <= QueueMax
      /\ Begin(readQueue) \subseteq Begin(readQueue')
      /\ missed' \subseteq Params
      /\ \A p \in Params \ missed' : p \in Begin(readQueue') \/ (p \notin missed /\ p \notin {q})
      /\ QueueCalled
  <2>1. {q} \in SUBSET Params
    OBVIOUS
  <2> QED  BY <1>1, <1>2, <1>3, <2>1, RequestCovers
<1>5. ReadsKept
  BY <1>2, <1>4 DEF ReadsKept
<1>6. UNCHANGED <<getIndex, requestAddr, getTimerOn, autoGet, asked, setIndex, setTimerOn>>
  BY <1>2 DEF getVars, setVars
<1>7. MasterTypeOK'
  <2>1. posted' \in Seq(Slots) /\ writes' \in Seq(DOMAIN Width)
    BY <1>2 DEF MasterTypeOK
  <2> QED  BY <1>2, <1>4, <2>1, MasterTypesKept
<1>8. getTimerOn' \in BOOLEAN /\ autoGet' \in BOOLEAN /\ setTimerOn' \in BOOLEAN
  BY <1>6
<1>9. TypeOK'
  BY <1>4, <1>5, <1>6, <1>7, <1>8 DEF ReadsKept
<1>10. SlotsKnown' /\ IndexOnTable'
  BY <1>2, <1>6 DEF SlotsKnown, IndexOnTable
<1>11. AccountedFor'
  BY <1>2, <1>5, AskingAccounts DEF otherVars
<1>12. GuiStep
  BY <1>2, <1>4 DEF QueueCalled, GuiStep, otherVars
<1> QED  BY <1>9, <1>10, <1>11, <1>12 DEF TableStep

\* A slot call taken off the event queue: what it tells is no longer waited
\* for, and all the others stay.
LEMMA DeliverStep ==
  ASSUME TableInv, AccountedFor, Deliver
  PROVE  TableStep
<1> USE DEF TableInv, TypeOK
<1> DEFINE slot == Head(posted)
<1>1. /\ posted # <<>> /\ posted' = Tail(posted) /\ posted \in Seq(Slots)
      /\ UNCHANGED <<otherVars, writes, setVars, ops>>
  BY DEF Deliver, MasterTypeOK
<1>2. slot \in Slots /\ posted' \in Seq(Slots) /\ KeptBut(posted, posted', slot)
  BY <1>1, TailLemma
<1>3. KnownIn(posted') /\ (slot.kind # "read" => slot.reg \in Params)
  BY <1>1, KnownTail DEF SlotsKnown
<1>4. \/ slot.kind = "value" /\ slot_read_finish(slot.reg)
      \/ slot.kind = "written" /\ slot_write_finish(slot.reg)
      \/ slot.kind = "read" /\ slot_respond_read_reg(slot.reg)
  BY DEF Deliver
<1> HIDE DEF slot
<1>5. ASSUME NEW p, Told(posted, p), ~Telling(slot, p)
      PROVE  Told(posted', p)
  BY <1>2, <1>5 DEF KeptBut, Told
<1>6. UNCHANGED <<reads, answers, writeAnswers, setIndex, setTimerOn>>
  BY <1>1 DEF otherVars, setVars
<1>7. setTimerOn' \in BOOLEAN
  BY <1>6
<1>8. writes' \in Seq(DOMAIN Width)
  BY <1>1 DEF MasterTypeOK
<1>9. posted # <<>> /\ posted' = Tail(posted)
  BY <1>1
<1>c. slot.kind \in {"value", "written", "read"}
  BY <1>2 DEF Slots
\* After a handler that keeps the requests, only what the slot call told may be gone.
<1>10. ASSUME ReadsKept, slot.kind = "read" \/ slot.reg \notin pending'
       PROVE  AccountedFor'
  <2>1. SUFFICES ASSUME NEW p \in pending' \ missed'
                 PROVE  UnderWay(p)'
    BY DEF AccountedFor, UnderWay, Told, Telling, Holds
  <2>2. CASE p \in Begin(readQueue')
    BY <2>2 DEF UnderWay
  <2>3. CASE p \in pending \ missed
    <3>1. UnderWay(p)
      BY <2>3, AccountedIff
    <3>2. ~Telling(slot, p)
      BY <1>10, <2>1 DEF Telling
    <3>3. Told(posted, p) => Told(posted', p)
      BY <1>5, <3>2
    <3> QED  BY <1>1, <1>6, <1>10, <3>1, <3>3 DEF UnderWay, ReadsKept
  <2> QED  BY <1>10, <2>1, <2>2, <2>3 DEF ReadsKept
\* The rest of the invariant, when the table's read is well typed.
<1>11. ASSUME ReadsKept, QueueCalled, requestAddr' \in Nat, getIndex' \in 0 .. Count,
              getTimerOn' \in BOOLEAN, autoGet' \in BOOLEAN,
              asked' = {Keys[i] : i \in 1 .. getIndex'}, AccountedFor'
       PROVE  TableStep
  <2>1. MasterTypeOK'
    BY <1>1, <1>2, <1>8, <1>11, MasterTypesKept DEF ReadsKept
  <2>2. asked' \subseteq Params
    BY <1>11, TableFacts
  <2>3. TypeOK'
    BY <1>1, <1>6, <1>7, <1>11, <2>1, <2>2 DEF ReadsKept
  <2>4. SlotsKnown' /\ IndexOnTable'
    BY <1>3, <1>11 DEF SlotsKnown, IndexOnTable
  <2>5. GuiStep
    BY <1>1, <1>9, <1>11 DEF QueueCalled, GuiStep, otherVars
  <2> QED  BY <1>11, <2>3, <2>4, <2>5 DEF TableStep
<1>12. CASE slot.kind = "value" /\ slot_read_finish(slot.reg)
  <2>1. pending' = pending \ {slot.reg} /\ UNCHANGED <<readQueue, getVars, missed>>
    BY <1>12 DEF slot_read_finish
  <2>2. ReadsKept /\ QueueCalled
    BY <2>1 DEF ReadsKept, QueueCalled, MasterTypeOK
  <2>3. AccountedFor'
    BY <1>10, <2>1, <2>2
  <2>4. UNCHANGED <<getIndex, requestAddr, getTimerOn, autoGet, asked>>
    BY <2>1 DEF getVars
  <2>5. getTimerOn' \in BOOLEAN /\ autoGet' \in BOOLEAN
    BY <2>4
  <2> QED  BY <1>11, <2>2, <2>3, <2>4, <2>5 DEF IndexOnTable
<1>13. CASE slot.kind = "written" /\ slot_write_finish(slot.reg)
  <2> DEFINE q == slot.reg
  <2>1. q \in Params
    BY <1>3, <1>13
  <2>2. Request(q, Width[q], {q}) /\ pending' = pending \ {q} /\ UNCHANGED getVars
    BY <1>13 DEF slot_write_finish
  <2> HIDE DEF q
  <2>3. q \in Nat /\ Width[q] \in Nat \ {0} /\ {q} \in SUBSET Params
    BY <2>1, TableFacts
  <2>4. \A r \in {q} : q <= r /\ r < q + Width[q] /\ r < q + ChunkMax
    BY <2>3
  <2>5. /\ readQueue' \in Seq(Reads) /\ Len(readQueue') <= QueueMax
        /\ Begin(readQueue) \subseteq Begin(readQueue')
        /\ missed' \subseteq Params
        /\ \A p \in Params \ missed' : p \in Begin(readQueue') \/ (p \notin missed /\ p \notin {q})
        /\ QueueCalled
    BY <2>2, <2>3, <2>4, RequestCovers
  <2>6. ReadsKept
    BY <2>2, <2>5 DEF ReadsKept
  <2>7. AccountedFor'
    BY <1>10, <2>2, <2>6 DEF q
  <2>8. UNCHANGED <<getIndex, requestAddr, getTimerOn, autoGet, asked>>
    BY <2>2 DEF getVars
  <2>9. getTimerOn' \in BOOLEAN /\ autoGet' \in BOOLEAN
    BY <2>8
  <2> QED  BY <1>11, <2>5, <2>6, <2>7, <2>8, <2>9 DEF IndexOnTable
<1>14. CASE slot.kind = "read" /\ slot_respond_read_reg(slot.reg)
  <2>1. CASE request_get_regs(autoGet, getTimerOn, getIndex, asked) /\ UNCHANGED autoGet
    <3>1. /\ ReadsKept /\ QueueCalled
          /\ requestAddr' \in Nat
          /\ getIndex' \in 0 .. Count
          /\ getTimerOn' \in BOOLEAN
          /\ asked' = {Keys[i] : i \in 1 .. getIndex'}
      BY <2>1, GetRegsAsks DEF IndexOnTable
    <3>2. AccountedFor'
      BY <1>10, <1>14, <3>1
    <3>3. autoGet' \in BOOLEAN
      BY <2>1
    <3> QED  BY <1>11, <3>1, <3>2, <3>3
  <2>2. CASE UNCHANGED <<readQueue, getVars, pending, missed>>
    <3>1. ReadsKept /\ QueueCalled
      BY <2>2 DEF ReadsKept, QueueCalled, MasterTypeOK
    <3>2. AccountedFor'
      BY <1>10, <1>14, <3>1
    <3>3. UNCHANGED <<getIndex, requestAddr, getTimerOn, autoGet, asked>>
      BY <2>2 DEF getVars
    <3>4. getTimerOn' \in BOOLEAN /\ autoGet' \in BOOLEAN
      BY <3>3
    <3> QED  BY <1>11, <3>1, <3>2, <3>3, <3>4 DEF IndexOnTable
  <2> QED  BY <1>14, <2>1, <2>2 DEF slot_respond_read_reg
<1> QED  BY <1>4, <1>12, <1>13, <1>14

\* The operator presses a button, sets the check box or clicks a cell.
LEMMA OperatorStep ==
  ASSUME TableInv, AccountedFor, Operator
  PROVE  TableStep
<1>0. ops' \in 0 .. MaxOps /\ AutoModes \subseteq BOOLEAN /\ autoGet \in BOOLEAN
      /\ 0 \in 0 .. Count /\ {} = {Keys[i] : i \in 1 .. 0}
  BY TableAssumption, TableFacts DEF Operator, TableInv, TypeOK
<1>1. CASE get_param_table
  <2>1. /\ request_get_regs(autoGet, TRUE, 0, {})
        /\ UNCHANGED <<otherVars, posted, writes, autoGet, setVars>>
    BY <1>1 DEF get_param_table
  <2>2. autoGet' \in BOOLEAN /\ TRUE \in BOOLEAN
    BY <1>0, <2>1
  <2> QED  BY <1>0, <2>1, <2>2, ReadStep
<1>2. ASSUME NEW en \in AutoModes, auto_get_param_table(en)
      PROVE  TableStep
  <2>1. autoGet' = en /\ en \in BOOLEAN /\ UNCHANGED <<otherVars, posted, writes, setVars>>
    BY <1>0, <1>2 DEF auto_get_param_table
  <2>2. autoGet' \in BOOLEAN /\ TRUE \in BOOLEAN
    BY <2>1
  <2>3. CASE request_get_regs(TRUE, TRUE, 0, {})
    BY <1>0, <2>1, <2>2, <2>3, ReadStep
  <2>4. CASE /\ getTimerOn' = FALSE
             /\ UNCHANGED <<readQueue, getIndex, requestAddr, asked, pending, missed>>
    <3> USE DEF TableInv, TypeOK
    <3>1. ReadsKept /\ QueueCalled
      BY <2>4 DEF ReadsKept, QueueCalled, MasterTypeOK
    <3>2. MasterTypeOK'
      <4>1. posted' \in Seq(Slots) /\ writes' \in Seq(DOMAIN Width)
        BY <2>1 DEF MasterTypeOK
      <4> QED  BY <2>1, <3>1, <4>1, MasterTypesKept DEF ReadsKept
    <3>3. UNCHANGED <<setIndex, setTimerOn>>
      BY <2>1 DEF setVars
    <3>4. setTimerOn' \in BOOLEAN /\ getTimerOn' \in BOOLEAN
      BY <2>4, <3>3
    <3>5. TypeOK'
      BY <1>0, <2>2, <2>4, <3>1, <3>2, <3>3, <3>4 DEF ReadsKept
    <3>6. SlotsKnown' /\ IndexOnTable'
      BY <2>1, <2>4 DEF SlotsKnown, IndexOnTable
    <3>7. AccountedFor'
      BY <2>1, <3>1, AskingAccounts DEF otherVars
    <3>8. GuiStep
      BY <2>1, <3>1 DEF QueueCalled, GuiStep, otherVars
    <3> QED  BY <3>5, <3>6, <3>7, <3>8 DEF TableStep
  <2> QED  BY <1>2, <2>3, <2>4 DEF auto_get_param_table
<1>3. CASE set_param_table
  BY <1>0, <1>3, WriteStep DEF set_param_table
<1>4. ASSUME NEW q \in Params, cell_clicked(q)
      PROVE  TableStep
  BY <1>0, <1>4, ClickStep
<1> QED  BY <1>1, <1>2, <1>3, <1>4 DEF Operator

\* Every step of the GUI thread.
LEMMA GuiSteps ==
  ASSUME TableInv, AccountedFor, GetTimeout \/ SetTimeout \/ Deliver \/ Operator
  PROVE  TableStep
<1>0. ops \in 0 .. MaxOps /\ autoGet \in BOOLEAN /\ getIndex \in 0 .. Count /\ setIndex \in 0 .. Count
      /\ asked = {Keys[i] : i \in 1 .. getIndex} /\ TRUE \in BOOLEAN
  BY DEF TableInv, TypeOK, IndexOnTable
<1>1. CASE GetTimeout
  <2>1. /\ request_get_regs(autoGet, TRUE, getIndex, asked)
        /\ UNCHANGED <<otherVars, posted, writes, autoGet, setVars, ops>>
    BY <1>1 DEF GetTimeout
  <2>2. autoGet' \in BOOLEAN /\ ops' \in 0 .. MaxOps
    BY <1>0, <2>1
  <2> QED  BY <1>0, <2>1, <2>2, ReadStep
<1>2. CASE SetTimeout
  <2>1. ops' \in 0 .. MaxOps
    BY <1>0, <1>2 DEF SetTimeout
  <2> QED  BY <1>0, <1>2, <2>1, WriteStep DEF SetTimeout
<1>3. CASE Deliver
  BY <1>3, DeliverStep
<1>4. CASE Operator
  BY <1>4, OperatorStep
<1> QED  BY <1>1, <1>2, <1>3, <1>4

-----------------------------------------------------------------------------
(***************************************************************************)
(* The theorems.                                                           *)
(***************************************************************************)
LEMMA TableInit == Init => TableInv /\ AccountedFor
<1> SUFFICES ASSUME Init
             PROVE  TableInv /\ AccountedFor
  OBVIOUS
<1>1. Count \in Nat \ {0} /\ Params \subseteq Nat /\ Keys[Count] + 1 \in Nat
  <2>1. Count \in 1 .. Count /\ Count \in Nat \ {0} /\ Params \subseteq Nat
    BY TableFacts
  <2>2. Keys[Count] \in Nat
    BY <2>1, TableFacts
  <2> QED  BY <2>1, <2>2
<1> USE DEF Init, MasterInit
<1>2. requestAddr \in Nat
  <2>2. requestAddr \in Params \/ requestAddr = Keys[Count] + 1
    OBVIOUS
  <2> QED  BY <1>1, <2>2
<1>3. MasterTypeOK
  <2>1. waiting \in BOOLEAN
    OBVIOUS
  <2>2. answerSem \in Nat /\ timeouts \in 0 .. MaxTimeouts
    OBVIOUS
  <2>3. /\ readQueue \in Seq(Reads) /\ Len(readQueue) = 0 /\ posted \in Seq(Slots)
        /\ reads \in Seq(Reads) /\ answers \in Seq(Reads)
        /\ writes \in Seq(DOMAIN Width) /\ writeAnswers \in Seq(DOMAIN Width)
    OBVIOUS
  <2> QED  BY <2>1, <2>2, <2>3 DEF MasterTypeOK
<1>4. getTimerOn \in BOOLEAN /\ autoGet \in BOOLEAN /\ setTimerOn \in BOOLEAN
  OBVIOUS
<1>5. ops \in 0 .. MaxOps /\ getIndex \in 0 .. Count /\ setIndex \in 0 .. Count
  BY <1>1, TableAssumption
<1>6. pending = {} /\ asked = {} /\ missed = {}
  OBVIOUS
<1>7. TypeOK
  BY <1>2, <1>3, <1>4, <1>5, <1>6 DEF TypeOK
<1>8. SlotsKnown
  BY DEF SlotsKnown, KnownIn
<1>9. IndexOnTable
  BY DEF IndexOnTable
<1>10. AccountedFor
  BY <1>6 DEF AccountedFor
<1> QED  BY <1>7, <1>8, <1>9, <1>10 DEF TableInv

LEMMA TableNext == TableInv /\ AccountedFor /\ [Next]_vars => TableInv' /\ AccountedFor'
<1> SUFFICES ASSUME TableInv, AccountedFor, [Next]_vars
             PROVE  TableInv' /\ AccountedFor'
  OBVIOUS
<1>1. CASE MasterStep
  <2>1. UNCHANGED <<getIndex, requestAddr, getTimerOn, autoGet, asked, setIndex, setTimerOn,
                    pending, ops>>
    BY <1>1 DEF MasterStep, getVars, setVars
  <2>2. RequestThread \/ ReplyHandlers \/ Slave \/ Loss
    BY <1>1 DEF MasterStep, LossMissed, Loss
  <2>3. MasterTypeOK' /\ SlotsKnown'
    BY <2>2, MasterKeepsTypes DEF TableInv, TypeOK
  <2>4. AccountedFor'
    BY <1>1, <2>1, MasterAccounts DEF MasterStep, TableInv, TypeOK
  <2>5. missed' \subseteq Params
    <3>1. CASE UNCHANGED missed
      BY <3>1 DEF TableInv, TypeOK
    <3>2. CASE LossMissed
      <4>1. \A a \in Reads : RegistersIn(a) \subseteq Params
        BY AnswersKnown
      <4>2. DOMAIN Width = Params
        BY TableFacts
      <4>3. /\ reads \in Seq(Reads) /\ answers \in Seq(Reads)
            /\ writes \in Seq(Params) /\ writeAnswers \in Seq(Params)
            /\ missed \subseteq Params
        BY <4>2 DEF TableInv, TypeOK, MasterTypeOK
      <4>4. /\ \A i \in 1 .. Len(reads) : reads[i] \in Reads
            /\ \A i \in 1 .. Len(answers) : answers[i] \in Reads
            /\ \A i \in 1 .. Len(writes) : writes[i] \in Params
            /\ \A i \in 1 .. Len(writeAnswers) : writeAnswers[i] \in Params
        BY <4>3
      <4>5. \/ \E a \in Reads : missed' = missed \cup RegistersIn(a)
            \/ \E r \in Params : missed' = missed \cup {r}
        BY <3>2, <4>4 DEF LossMissed
      <4> QED  BY <4>1, <4>3, <4>5
    <3> QED  BY <1>1, <3>1, <3>2 DEF MasterStep
  <2>6. getTimerOn' \in BOOLEAN /\ autoGet' \in BOOLEAN /\ setTimerOn' \in BOOLEAN
    BY <2>1 DEF TableInv, TypeOK
  <2>7. TypeOK'
    BY <2>1, <2>3, <2>5, <2>6 DEF TableInv, TypeOK
  <2>8. IndexOnTable'
    BY <2>1 DEF TableInv, IndexOnTable
  <2> QED  BY <2>3, <2>4, <2>7, <2>8 DEF TableInv
<1>2. CASE GetTimeout \/ SetTimeout \/ Deliver \/ Operator
  BY <1>2, GuiSteps DEF TableStep
<1>3. CASE UNCHANGED vars
  <2>1. UNCHANGED <<readQueue, answerSem, posted, waiting, timeouts, reads, answers, writes,
                    writeAnswers, getIndex, requestAddr, getTimerOn, autoGet, asked, setIndex,
                    setTimerOn, pending, ops, missed>>
    BY <1>3 DEF vars, masterVars, threadVars, busVars, getVars, setVars
  <2>2. waiting' \in BOOLEAN /\ getTimerOn' \in BOOLEAN /\ autoGet' \in BOOLEAN
        /\ setTimerOn' \in BOOLEAN
    BY <2>1 DEF TableInv, TypeOK, MasterTypeOK
  <2>3. MasterTypeOK'
    BY <2>1, <2>2 DEF TableInv, TypeOK, MasterTypeOK
  <2>4. TypeOK'
    BY <2>1, <2>2, <2>3 DEF TableInv, TypeOK
  <2>5. SlotsKnown' /\ IndexOnTable'
    BY <2>1 DEF TableInv, SlotsKnown, IndexOnTable
  <2>6. AccountedFor'
    BY <2>1 DEF AccountedFor, Begin
  <2> QED  BY <2>4, <2>5, <2>6 DEF TableInv
<1> QED  BY <1>1, <1>2, <1>3 DEF Next

LEMMA TableInvHolds == Spec => [](TableInv /\ AccountedFor)
  BY TableInit, TableNext, PTL DEF Spec

\* Every variable of the table and of the master keeps its type, for every
\* table and every capacity: the index does not leave the table, the queue not
\* its capacity, and no slot call names a value that is not in the table.
THEOREM TypesHold == Spec => []TypeOK
<1>1. TableInv => TypeOK
  BY DEF TableInv
<1> QED  BY <1>1, TableInvHolds, PTL

\* No parameter that shows the false icon is forgotten, whichever timers,
\* clicks, timeouts and late, reordered or lost frames come together.
THEOREM NoneForgotten == Spec => []AccountedFor
  BY TableInvHolds, PTL

\* The timer is stopped behind the last parameter only.
LEMMA TimerStops ==
  ASSUME TypeOK, IndexOnTable, NEW timer, request_get_regs(autoGet, timer, getIndex, asked)
  PROVE  getTimerOn' = timer \/ asked = Params
<1>1. CASE getIndex >= Count
  <2>1. getIndex = Count
    BY <1>1, TableFacts DEF TypeOK
  <2> QED  BY <2>1 DEF IndexOnTable, Params
<1>2. CASE ~ (getIndex >= Count)
  BY <1>2 DEF request_get_regs
<1> QED  BY <1>1, <1>2

\* A read of the table that ends by itself has asked for every parameter of
\* it, for every table and every length of a chunk.
THEOREM WholeTableRead == Spec => ReadsWholeTable
<1>1. TableInv /\ AccountedFor /\ [Next]_vars
      => [getTimerOn /\ ~getTimerOn' /\ ops' = ops => asked = Params]_vars
  <2> SUFFICES ASSUME TableInv, Next, getTimerOn, ~getTimerOn', ops' = ops
               PROVE  asked = Params
    OBVIOUS
  <2>0. /\ TypeOK /\ IndexOnTable /\ getIndex \in 0 .. Count
        /\ ops \in Nat
    BY TableAssumption DEF TableInv, TypeOK
  <2>1. CASE MasterStep \/ SetTimeout
    <3>1. getTimerOn' = getTimerOn
      BY <2>1 DEF MasterStep, SetTimeout, getVars
    <3> QED  BY <3>1, Zenon
  <2>2. CASE request_get_regs(autoGet, TRUE, getIndex, asked)
    <3>1. getTimerOn' = TRUE \/ asked = Params
      BY <2>0, <2>2, TimerStops
    <3> QED  BY <3>1, Zenon
  <2>3. CASE GetTimeout
    BY <2>2, <2>3 DEF GetTimeout
  <2>4. CASE Deliver
    <3>1. \/ UNCHANGED getVars
          \/ request_get_regs(autoGet, getTimerOn, getIndex, asked)
      BY <2>4 DEF Deliver, slot_read_finish, slot_write_finish, slot_respond_read_reg
    <3>2. CASE UNCHANGED getVars
      <4>1. getTimerOn' = getTimerOn
        BY <3>2 DEF getVars
      <4> QED  BY <4>1, Zenon
    <3>3. CASE request_get_regs(autoGet, getTimerOn, getIndex, asked)
      <4>1. getTimerOn' = getTimerOn \/ asked = Params
        BY <2>0, <3>3, TimerStops
      <4> QED  BY <4>1, Zenon
    <3> QED  BY <3>1, <3>2, <3>3
  <2>5. CASE Operator
    BY <2>0, <2>5 DEF Operator
  <2> QED  BY <2>1, <2>3, <2>4, <2>5 DEF Next
<1> QED  BY <1>1, TableInvHolds, PTL DEF Spec, ReadsWholeTable

\* The table is one of the callers of the master: all that holds of the master
\* for any calls of the GUI thread holds below the table.
THEOREM TableUsesMaster == Spec => MasterSpec
<1>1. Init => MasterInit
  BY DEF Init
<1>2. TableInv /\ AccountedFor /\ [Next]_vars => [MasterNext]_masterVars
  <2> SUFFICES ASSUME TableInv, AccountedFor, [Next]_vars
               PROVE  [MasterNext]_masterVars
    OBVIOUS
  <2>1. CASE MasterStep
    BY <2>1 DEF MasterStep, LossMissed, Loss, MasterNext
  <2>2. CASE GetTimeout \/ SetTimeout \/ Deliver \/ Operator
    BY <2>2, GuiSteps DEF TableStep, MasterNext
  <2>3. CASE UNCHANGED vars
    BY <2>3 DEF vars
  <2> QED  BY <2>1, <2>2, <2>3 DEF Next
<1> QED  BY <1>1, <1>2, TableInvHolds, PTL DEF Spec, MasterSpec

\* So the table's requests are paced as well, however fast its timers ask.
THEOREM TablePaced == Spec => []Paced
  BY TableUsesMaster, PacedHolds
=============================================================================
