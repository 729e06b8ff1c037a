------------------------------- MODULE CanBase -------------------------------
(***************************************************************************)
(* What the CAN drivers of comm/ have in common (canbase.h): a queue of    *)
(* frames to send, filled by whatever thread calls transmit, a queue of    *)
(* frames received, and the signal sig_open_finish by which a driver tells *)
(* the window of its state.  Every driver runs in the communication        *)
(* thread; the two queues are atomic here, ThreadSafeQueue opens them up.  *)
(*                                                                         *)
(* A frame is a number: the one with which it was offered to transmit, or  *)
(* its place in the order in which the bus delivered it.                   *)
(***************************************************************************)
EXTENDS Integers, Sequences, SequencesExt, FiniteSets

CONSTANTS
  Devices,    \* device indices an operator may choose
  QueueMax,   \* the limit of both queues, 4096
  SendMax,    \* CAN_SEND_DATA_SIZE, frames in one call of a driver's send
  RecvMax,    \* CAN_RECV_DATA_SIZE, frames in one call of its receive
  FrameMax,   \* CAN_FRAME_NUM_MAX and SOCKET_CAN_FRAME_NUM_MAX
  NoData,     \* the frames of the bus that carry no data
  MaxOffered, \* bound: frames offered to transmit
  MaxArrived, \* bound: frames on the bus
  MaxFaults   \* bound: failures of libraries, adapters, hosts and networks

ASSUME CanBaseAssumption ==
  /\ {QueueMax, SendMax, RecvMax, FrameMax} \subseteq Nat \ {0}
  /\ {MaxOffered, MaxArrived, MaxFaults} \subseteq Nat
  /\ NoData \subseteq 1 .. MaxArrived
  /\ Devices # {}

VARIABLES
  transmit_queue,  \* frames accepted and not yet given to the adapter
  recv_queue,      \* frames received and not yet dispatched
  dev,             \* the driver object, and the adapter or host behind it
  gui,             \* events queued to the window: statuses and messages
  offered,         \* how many frames transmit has been called with
  arrived,         \* how many frames the bus has delivered
  accepted,        \* history: the frames transmit has taken
  handed,          \* history: the frames a driver has taken from the queue
  faults           \* how many failures there have been

STATUS_OK == "ok"
STATUS_OFFLINE == "offline"
STATUS_ERR == "error"
Statuses == {STATUS_OK, STATUS_OFFLINE, STATUS_ERR}

Status(s) == [type |-> "status", value |-> s]
Statused(q, s) == q \o [i \in DOMAIN s |-> Status(s[i])]

\* emit sig_open_finish, once for each status.
sig_open_finish(statuses) == gui' = Statused(gui, statuses)

\* One failure of what lies outside the program.
Fault == faults < MaxFaults /\ faults' = faults + 1
NoFault == UNCHANGED faults

Least(a, b) == IF a < b THEN a ELSE b

\* recv_enqueue and ThreadSafeQueue::enqueue, frame by frame: those that find
\* the queue full are dropped.  The adapters' frames without data are skipped.
Enqueue(q, frames) ==
  LET all == q \o frames IN SubSeq(all, 1, Least(Len(all), QueueMax))

\* Some places of a sequence in ascending order: a set of one.
Ascending(places) ==
  {f \in [1 .. Cardinality(places) -> places] : \A i, j \in DOMAIN f : i < j => f[i] < f[j]}

\* What stands at some places of a sequence, in the order it has there.
PickedOut(q, places) == {[k \in DOMAIN f |-> q[f[k]]] : f \in Ascending(places)}

WithData(frames) == PickedOut(frames, {i \in DOMAIN frames : frames[i] \notin NoData})

\* Mutant: the limit is one too late.
transmit_over(is_open) ==
  /\ offered < MaxOffered
  /\ offered' = offered + 1
  /\ IF is_open /\ Len(transmit_queue) <= QueueMax
     THEN /\ transmit_queue' = Append(transmit_queue, offered')
          /\ accepted' = Append(accepted, offered')
     ELSE UNCHANGED <<transmit_queue, accepted>>
  /\ UNCHANGED <<recv_queue, dev, gui, arrived, handed, faults>>

\* CanBase::transmit: nothing tells the caller that a frame was not taken.
transmit(is_open) ==
  /\ offered < MaxOffered
  /\ offered' = offered + 1
  /\ IF is_open /\ Len(transmit_queue) < QueueMax
     THEN /\ transmit_queue' = Append(transmit_queue, offered')
          /\ accepted' = Append(accepted, offered')
     ELSE UNCHANGED <<transmit_queue, accepted>>
  /\ UNCHANGED <<recv_queue, dev, gui, arrived, handed, faults>>

\* Mutant: takes a frame before it looks whether there is room for it.
transmit_dequeue_first(limit) ==
  /\ handed' = handed \o SubSeq(transmit_queue, 1, Least(limit, Len(transmit_queue)))
  /\ transmit_queue' = SubSeq(transmit_queue, limit + 2, Len(transmit_queue))

\* transmit_dequeue in a loop that ends at limit frames.
transmit_dequeue(limit) ==
  LET n == Least(limit, Len(transmit_queue))
  IN  /\ handed' = handed \o SubSeq(transmit_queue, 1, n)
      /\ transmit_queue' = SubSeq(transmit_queue, n + 1, Len(transmit_queue))

\* How many frames the loop takes.
Taken(limit) == Least(limit, Len(transmit_queue))
=============================================================================
