-------------------------- MODULE CommJ1939_proofs --------------------------
(***************************************************************************)
(* The link between the window and the bus, for all four drivers at once.  *)
(*                                                                         *)
(* First the frames to send: only transmit, which appends, and             *)
(* transmit_dequeue, which moves a prefix to the driver, touch their       *)
(* queue, so an accepted frame leaves it once and in order.  Then the      *)
(* adapter: a driver that is closed has left none open.                    *)
(*                                                                         *)
(* Then the frames received.  The invariant LinkInv follows them from the  *)
(* bus to the pages: each place where they wait, in an adapter, a          *)
(* datagram, a message of the stream or a queue, holds an ascending        *)
(* stream, all of which comes after what has gone further (StreamsOK), and *)
(* the pages have parsed, or find among the signals to the window, just    *)
(* those for them of the frames dispatched (Paged).  The signals also      *)
(* carry the statuses of the driver: the last of them, or the button when  *)
(* there is none, says whether it is open (Told).                          *)
(***************************************************************************)
EXTENDS CommJ1939, SequenceTheorems, FunctionTheorems, FiniteSetTheorems, TLAPS

\* The inductive invariant: HandedOnce, and that the queues are sequences.
IInv ==
  /\ transmit_queue \in Seq(Nat)
  /\ handed \in Seq(Nat)
  /\ accepted \in Seq(Nat)
  /\ offered \in Nat
  /\ HandedOnce

\* The three ways in which a step may treat the frames to send.
Quiet == UNCHANGED <<transmit_queue, handed, accepted, offered>>
Offers == transmit(is_open)
Takes == /\ \E limit \in Nat : transmit_dequeue(limit)
         /\ UNCHANGED <<accepted, offered>>

\* Appending at the end of the second part appends at the end of the whole.
LEMMA AppendToConcat ==
  ASSUME NEW h \in Seq(Nat), NEW q \in Seq(Nat), NEW x \in Nat
  PROVE  h \o Append(q, x) = Append(h \o q, x)
OBVIOUS

\* It does not matter which two of three parts are put together first.
LEMMA ConcatAssoc ==
  ASSUME NEW h \in Seq(Nat), NEW a \in Seq(Nat), NEW b \in Seq(Nat)
  PROVE  (h \o a) \o b = h \o (a \o b)
OBVIOUS

\* A prefix of the second part may be moved to the first.
LEMMA MovePrefix ==
  ASSUME NEW h \in Seq(Nat), NEW q \in Seq(Nat), NEW n \in 0 .. Len(q)
  PROVE  /\ SubSeq(q, 1, n) \in Seq(Nat)
         /\ SubSeq(q, n + 1, Len(q)) \in Seq(Nat)
         /\ (h \o SubSeq(q, 1, n)) \o SubSeq(q, n + 1, Len(q)) = h \o q
<1>1. Len(q) \in Nat
  OBVIOUS
<1>2. SubSeq(q, 1, n) \in Seq(Nat) /\ SubSeq(q, n + 1, Len(q)) \in Seq(Nat)
  OBVIOUS
<1>3. SubSeq(q, 1, n) \o SubSeq(q, n + 1, Len(q)) = SubSeq(q, 1, Len(q))
  <2>1. 1 \in 1 .. Len(q) + 1 /\ n \in 1 - 1 .. Len(q) /\ Len(q) \in n .. Len(q)
    BY <1>1
  <2>. QED  BY Zenon, <2>1, ConcatAdjacentSubSeq
<1>4. SubSeq(q, 1, Len(q)) = q
  BY SubSeqFull
<1>5. (h \o SubSeq(q, 1, n)) \o SubSeq(q, n + 1, Len(q))
        = h \o (SubSeq(q, 1, n) \o SubSeq(q, n + 1, Len(q)))
  BY Zenon, <1>2, ConcatAssoc
<1>. QED  BY Zenon, <1>2, <1>3, <1>4, <1>5

-----------------------------------------------------------------------------
(* A step treats the frames to send in one of the three ways. *)

\* Each of the drivers' slots leaves the frames to send alone.
LEMMA DeviceCommandIsQuiet == DeviceCommand => Quiet
BY DEF DeviceCommand, Quiet, Ctrl!slot_open_device, Ctrl!slot_close_device,
       Zlg!slot_open_device, Zlg!slot_close_device,
       Udp!slot_open_device, Udp!slot_close_device,
       Socket!slot_open_device, Socket!slot_close_device

LEMMA DriverEventIsQuiet == DriverEvent => Quiet
BY DEF DriverEvent, Quiet, Udp!slot_ready_read_ack, Udp!slot_ready_read_data,
       Socket!slot_ready_read_data, Socket!slot_wait_timeout

LEMMA OutsideIsQuiet == Outside => Quiet
BY DEF Outside, Quiet, Ctrl!BusFrame, Zlg!BusFrame, Udp!BusFrame, Udp!HostAnswers

LEMMA ReceiveIsQuiet == receive_task => Quiet
BY DEF receive_task, Quiet, Ctrl!receive_task, Zlg!receive_task, Udp!receive_task,
       Socket!receive_task

\* The limits are those of the four loops.
LEMMA TransmitIsQuietOrTakes == transmit_task => Quiet \/ Takes
<1>. SUFFICES ASSUME transmit_task
              PROVE  Quiet \/ Takes
  OBVIOUS
<1>0. {SendMax, QueueMax, FrameMax, UdpSendMax} \subseteq Nat
  BY CanBaseAssumption, CommJ1939Assumption
<1>1. CASE driver = "ctrl" /\ Ctrl!transmit_task
  <2>1. UNCHANGED <<accepted, offered>>
    BY <1>1 DEF Ctrl!transmit_task
  <2>2. CASE Ctrl!ResetBus
    BY <2>1, <2>2 DEF Ctrl!ResetBus, Quiet
  <2>3. CASE Ctrl!Send
    <3>1. transmit_dequeue(SendMax)
      BY <2>3 DEF Ctrl!Send, Ctrl!transmit_dequeue, transmit_dequeue, Ctrl!Least, Least
    <3>. QED  BY <1>0, <2>1, <3>1 DEF Takes
  <2>. QED  BY <1>1, <2>2, <2>3 DEF Ctrl!transmit_task
<1>2. CASE driver = "zlg" /\ Zlg!transmit_task
  <2>1. UNCHANGED <<accepted, offered>> /\ transmit_dequeue(QueueMax)
    BY <1>2 DEF Zlg!transmit_task, Zlg!transmit_dequeue, transmit_dequeue, Zlg!Least, Least
  <2>. QED  BY <1>0, <2>1 DEF Takes
<1>3. CASE driver = "udp" /\ Udp!transmit_task
  <2>1. UNCHANGED <<accepted, offered>> /\ transmit_dequeue(UdpSendMax)
    BY <1>3 DEF Udp!transmit_task, Udp!transmit_dequeue, transmit_dequeue, Udp!Least, Least
  <2>. QED  BY <1>0, <2>1 DEF Takes
<1>4. CASE driver = "socket" /\ Socket!transmit_task
  <2>1. UNCHANGED <<accepted, offered>> /\ transmit_dequeue(FrameMax)
    BY <1>4 DEF Socket!transmit_task, Socket!transmit_dequeue, transmit_dequeue,
                Socket!Least, Least
  <2>. QED  BY <1>0, <2>1 DEF Takes
<1>. QED  BY <1>1, <1>2, <1>3, <1>4 DEF transmit_task

LEMMA HostIsQuiet == Host => Quiet
BY DEF Host, Quiet

LEMMA StepKinds == [Next]_vars => Quiet \/ Offers \/ Takes
<1>. SUFFICES ASSUME [Next]_vars
              PROVE  Quiet \/ Offers \/ Takes
  OBVIOUS
<1>1. CASE \E index \in Devices : on_openDevicePushButton_clicked(index)
  BY <1>1 DEF on_openDevicePushButton_clicked, base, Quiet
<1>2. CASE can_write
  BY <1>2 DEF can_write, Offers
<1>3. CASE Window
  BY <1>3 DEF Window, slot_recv_comm_status, slot_recv_pgn_handle, Quiet
<1>4. CASE Thread
  <2>1. CASE poll
    BY <2>1 DEF poll, Quiet, can_recv_task
  <2>2. CASE transmit_task
    BY <2>2, TransmitIsQuietOrTakes
  <2>3. CASE receive_task
    BY <2>3, ReceiveIsQuiet
  <2>4. CASE DeviceCommand
    BY <2>4, DeviceCommandIsQuiet
  <2>5. CASE DriverEvent
    BY <2>5, DriverEventIsQuiet
  <2>. QED  BY <1>4, <2>1, <2>2, <2>3, <2>4, <2>5 DEF Thread
<1>5. CASE Outside
  BY <1>5, OutsideIsQuiet
<1>6. CASE Host
  BY <1>6, HostIsQuiet
<1>7. CASE UNCHANGED vars
  BY <1>7 DEF vars, base, Quiet
<1>. QED  BY <1>1, <1>2, <1>3, <1>4, <1>5, <1>6, <1>7 DEF Next

-----------------------------------------------------------------------------
(* The invariant. *)

LEMMA InitEstablishesIInv == Init => IInv
<1>. SUFFICES ASSUME Init
              PROVE  IInv
  OBVIOUS
<1>1. transmit_queue = <<>> /\ handed = <<>> /\ accepted = <<>> /\ offered = 0
  BY DEF Init
<1>. QED  BY <1>1 DEF IInv, HandedOnce

LEMMA StepPreservesIInv == IInv /\ [Next]_vars => IInv'
<1>. SUFFICES ASSUME IInv, [Next]_vars
              PROVE  IInv'
  OBVIOUS
<1>1. CASE Quiet
  BY <1>1 DEF Quiet, IInv, HandedOnce
<1>2. CASE Offers
  <2>1. offered' = offered + 1 /\ handed' = handed
    BY <1>2 DEF Offers, transmit
  <2>2. CASE UNCHANGED <<transmit_queue, accepted>>
    BY <2>1, <2>2 DEF IInv, HandedOnce
  <2>3. CASE /\ transmit_queue' = Append(transmit_queue, offered')
             /\ accepted' = Append(accepted, offered')
    <3>1. handed \o Append(transmit_queue, offered')
            = Append(handed \o transmit_queue, offered')
      BY <2>1, AppendToConcat DEF IInv
    <3>2. HandedOnce'
      BY Zenon, <2>1, <2>3, <3>1 DEF IInv, HandedOnce
    <3>. QED  BY <2>1, <2>3, <3>2 DEF IInv
  <2>. QED  BY <1>2, <2>2, <2>3 DEF Offers, transmit
<1>3. CASE Takes
  <2>1. PICK limit \in Nat : transmit_dequeue(limit)
    BY <1>3 DEF Takes
  <2>. DEFINE n == Least(limit, Len(transmit_queue))
  <2>2. n \in 0 .. Len(transmit_queue)
    BY DEF Least, IInv
  <2>3. /\ handed' = handed \o SubSeq(transmit_queue, 1, n)
        /\ transmit_queue' = SubSeq(transmit_queue, n + 1, Len(transmit_queue))
    BY <2>1 DEF transmit_dequeue
  <2>. HIDE DEF n
  <2>4. accepted' = accepted /\ offered' = offered
    BY <1>3 DEF Takes
  <2>5. /\ SubSeq(transmit_queue, 1, n) \in Seq(Nat)
        /\ transmit_queue' \in Seq(Nat)
        /\ handed' \o transmit_queue' = handed \o transmit_queue
    BY Zenon, <2>2, <2>3, MovePrefix DEF IInv
  <2>6. handed' \in Seq(Nat)
    BY <2>3, <2>5 DEF IInv
  <2>. QED  BY <2>4, <2>5, <2>6 DEF IInv, HandedOnce
<1>. QED  BY <1>1, <1>2, <1>3, StepKinds

\* Every frame a driver accepted leaves it once and in order, through closing,
\* opening again, failures and restarts, for every size of queue and batch and
\* each of the four drivers (canbase.h transmit, transmit_dequeue).
THEOREM FramesHandedOnce == Spec => []HandedOnce
<1>1. IInv => HandedOnce
  BY DEF IInv
<1>. QED  BY <1>1, InitEstablishesIInv, StepPreservesIInv, PTL DEF Spec

-----------------------------------------------------------------------------
(***************************************************************************)
(* A closed driver has left no adapter open.  A short write restarts the   *)
(* adapter without looking whether the driver is open, so the invariant    *)
(* says that the thread writes and reads only while it is: the slots that  *)
(* close it run between two rounds of the tasks.                           *)
(***************************************************************************)
HostOK(h) ==
  /\ {"opened", "is_open_ok"} \subseteq DOMAIN h
  /\ ~h.is_open_ok => ~h.opened

CtrlOK ==
  /\ {"started", "index", "opened"} \subseteq DOMAIN dev
  /\ pc \in {"transmit", "receive"} => dev.started
  /\ ~dev.started => dev.index \notin dev.opened

CInv == /\ driver = "ctrl" => CtrlOK
        /\ HostOK(host)

LEMMA InitEstablishesCInv == Init => CInv
<1>. SUFFICES ASSUME Init
              PROVE  CInv
  OBVIOUS
<1>1. ASSUME driver = "ctrl"
      PROVE  CtrlOK
  <2>1. dev = Ctrl!DevInit /\ pc = "events"
    BY <1>1 DEF Init
  <2>. QED  BY <2>1 DEF CtrlOK, Ctrl!DevInit
<1>2. HostOK(host)
  <2>1. PICK loop \in BOOLEAN : host = Socket!HostInit(loop)
    BY DEF Init
  <2>. QED  BY <2>1 DEF HostOK, Socket!HostInit
<1>. QED  BY <1>1, <1>2 DEF CInv

\* The drivers but the socket one, the window and the tasks leave the host alone.
LEMMA HostEventKeepsHost ==
  ASSUME HostOK(host), HostEvent
  PROVE  HostOK(host')
<1>1. CASE Socket!slot_new_connect
  BY <1>1 DEF Socket!slot_new_connect
<1>2. CASE Socket!server_slot_ready_read
  BY Zenon, <1>2 DEF Socket!server_slot_ready_read, Socket!channel_open, Socket!channel_close,
              Socket!channel_transmit, HostOK
<1>3. CASE Socket!slot_can_recv_timeout
  BY <1>3 DEF Socket!slot_can_recv_timeout, HostOK
<1>4. CASE Socket!can_dev_task
  <2>1. PICK f : host' \in Socket!check_close_device([host EXCEPT !.ch = f])
    BY Zenon, <1>4 DEF Socket!can_dev_task
  <2>2. HostOK([host EXCEPT !.ch = f])
    BY DEF HostOK
  <2>3. ASSUME NEW h, HostOK(h), NEW g \in Socket!check_close_device(h)
        PROVE  HostOK(g)
    BY Zenon, <2>3 DEF HostOK, Socket!check_close_device
  <2>. QED  BY <2>1, <2>2, <2>3
<1>. QED  BY <1>1, <1>2, <1>3, <1>4 DEF HostEvent

LEMMA HostProgramKeepsHost ==
  ASSUME HostOK(host), HostProgram
  PROVE  HostOK(host')
<1>1. ASSUME NEW c \in Channels, Socket!open_device(c)
      PROVE  HostOK(host')
  BY Zenon, <1>1 DEF Socket!open_device, Socket!channel_open, HostOK
<1>2. ASSUME NEW c \in Channels, Socket!close_device(c)
      PROVE  HostOK(host')
  BY <1>2 DEF Socket!close_device, Socket!channel_close, HostOK
<1>3. CASE Socket!close_unused
  BY <1>3 DEF Socket!close_unused, HostOK
<1>4. CASE Socket!HostRestarts
  BY <1>4 DEF Socket!HostRestarts, Socket!HostInit, HostOK
<1>5. CASE Socket!HostBusFrame
  BY <1>5 DEF Socket!HostBusFrame, HostOK
<1>. QED  BY <1>1, <1>2, <1>3, <1>4, <1>5 DEF HostProgram

\* The vendor's driver: every way in which opening may end, closing, and the
\* two tasks.
LEMMA OpenKeepsCtrl ==
  ASSUME CtrlOK, NEW index, Ctrl!slot_open_device(index), UNCHANGED pc, pc = "events"
  PROVE  CtrlOK'
<1>. DEFINE d == [dev EXCEPT !.index = index]
            closed == Ctrl!Closed(d)
            open == [closed EXCEPT !.opened = @ \cup {index}]
<1>1. /\ {"started", "index", "opened"} \subseteq DOMAIN d
      /\ d.index = index
  BY DEF CtrlOK
<1>. HIDE DEF d
<1>2. /\ {"started", "index", "opened"} \subseteq DOMAIN closed
      /\ closed.index = index /\ index \notin closed.opened
  BY <1>1 DEF Ctrl!Closed, Ctrl!VCI_CloseDevice
<1>. HIDE DEF closed
<1>3. /\ {"started", "index", "opened"} \subseteq DOMAIN open
      /\ open.index = index
  BY <1>2
<1>. HIDE DEF open
<1>4. dev' \in {closed, Ctrl!Closed(open), [open EXCEPT !.started = TRUE]}
  BY DEF Ctrl!slot_open_device, closed, open, d
<1>5. CASE dev' = closed
  BY <1>2, <1>5 DEF CtrlOK
<1>6. CASE dev' = Ctrl!Closed(open)
  BY <1>3, <1>6 DEF CtrlOK, Ctrl!Closed, Ctrl!VCI_CloseDevice
<1>7. CASE dev' = [open EXCEPT !.started = TRUE]
  BY <1>3, <1>7 DEF CtrlOK
<1>. QED  BY <1>4, <1>5, <1>6, <1>7

LEMMA CloseKeepsCtrl ==
  ASSUME CtrlOK, Ctrl!slot_close_device, UNCHANGED pc, pc = "events"
  PROVE  CtrlOK'
BY DEF CtrlOK, Ctrl!slot_close_device, Ctrl!Closed, Ctrl!VCI_CloseDevice

LEMMA TransmitKeepsCtrl ==
  ASSUME CtrlOK, Ctrl!transmit_task, pc = "transmit", pc' = "receive"
  PROVE  CtrlOK'
<1>1. CASE UNCHANGED dev
  BY <1>1 DEF CtrlOK
<1>2. CASE \E e : dev' = [dev EXCEPT !.err = e]
  BY <1>2 DEF CtrlOK
<1>3. ASSUME NEW e, dev' \in Ctrl!slot_restart_device([dev EXCEPT !.err = e])
      PROVE  CtrlOK'
  BY Zenon, <1>3 DEF CtrlOK, Ctrl!slot_restart_device, Ctrl!VCI_CloseDevice
<1>. QED  BY Zenon, <1>1, <1>2, <1>3 DEF Ctrl!transmit_task, Ctrl!ResetBus, Ctrl!Send

LEMMA ReceiveKeepsCtrl ==
  ASSUME CtrlOK, Ctrl!receive_task, pc = "receive", pc' = "events"
  PROVE  CtrlOK'
BY DEF CtrlOK, Ctrl!receive_task

-----------------------------------------------------------------------------
LEMMA StepPreservesCInv == CInv /\ [Next]_vars => CInv'
<1>. SUFFICES ASSUME CInv, [Next]_vars
              PROVE  CInv'
  OBVIOUS
<1>1. CASE UNCHANGED <<driver, pc, dev, host>>
  BY <1>1 DEF CInv, CtrlOK, HostOK
<1>2. CASE \E index \in Devices : on_openDevicePushButton_clicked(index)
  BY <1>1, <1>2 DEF on_openDevicePushButton_clicked, base
<1>3. CASE can_write
  BY <1>1, <1>3 DEF can_write, transmit
<1>4. CASE Window
  BY <1>1, <1>4 DEF Window, slot_recv_comm_status, slot_recv_pgn_handle
<1>5. CASE poll
  <2>1. UNCHANGED <<driver, dev, host>> /\ pc' = IF is_open THEN "transmit" ELSE "events"
    BY <1>5 DEF poll
  <2>2. driver = "ctrl" /\ is_open => dev.started
    BY DEF is_open, Ctrl!is_open
  <2>. QED  BY <2>1, <2>2 DEF CInv, CtrlOK, HostOK
<1>6. CASE transmit_task
  <2>1. driver' = driver /\ host' = host
    BY <1>6 DEF transmit_task, Socket!transmit_task
  <2>2. ASSUME driver = "ctrl"
        PROVE  CtrlOK'
    <3>1. Ctrl!transmit_task /\ pc = "transmit" /\ pc' = "receive"
      BY <1>6, <2>2 DEF transmit_task, AfterTransmit
    <3>. QED  BY <2>2, <3>1, TransmitKeepsCtrl DEF CInv
  <2>. QED  BY <2>1, <2>2 DEF CInv, HostOK
<1>7. CASE receive_task
  <2>1. driver' = driver /\ host' = host
    BY <1>7 DEF receive_task, Socket!receive_task
  <2>2. ASSUME driver = "ctrl"
        PROVE  CtrlOK'
    <3>1. Ctrl!receive_task /\ pc = "receive" /\ pc' = "events"
      BY <1>7, <2>2 DEF receive_task
    <3>. QED  BY <2>2, <3>1, ReceiveKeepsCtrl DEF CInv
  <2>. QED  BY <2>1, <2>2 DEF CInv, HostOK
<1>8. CASE DeviceCommand
  <2>1. driver' = driver /\ host' = host /\ pc = "events" /\ pc' = pc
    BY <1>8 DEF DeviceCommand, Socket!slot_open_device, Socket!slot_close_device
  <2>2. ASSUME driver = "ctrl"
        PROVE  CtrlOK'
    <3>1. Ctrl!slot_open_device(Command[2]) \/ Ctrl!slot_close_device
      BY <1>8, <2>2 DEF DeviceCommand
    <3>. QED  BY <2>1, <2>2, <3>1, OpenKeepsCtrl, CloseKeepsCtrl DEF CInv
  <2>. QED  BY <2>1, <2>2 DEF CInv, HostOK
<1>9. CASE DriverEvent
  <2>1. driver' = driver /\ host' = host /\ driver # "ctrl"
    BY <1>9 DEF DriverEvent, Socket!slot_ready_read_data, Socket!slot_wait_timeout
  <2>. QED  BY <2>1 DEF CInv, HostOK
<1>10. CASE Outside
  <2>1. driver' = driver /\ host' = host /\ pc' = pc
    BY <1>10 DEF Outside
  <2>2. ASSUME driver = "ctrl"
        PROVE  CtrlOK'
    <3>1. Ctrl!BusFrame
      BY <1>10, <2>2 DEF Outside
    <3>. QED  BY <2>1, <2>2, <3>1 DEF Ctrl!BusFrame, CInv, CtrlOK
  <2>. QED  BY <2>1, <2>2 DEF CInv, HostOK
<1>11. CASE Host
  <2>1. driver' = driver /\ driver = "socket"
    BY <1>11 DEF Host
  <2>2. HostOK(host')
    BY <1>11, HostEventKeepsHost, HostProgramKeepsHost DEF Host, CInv
  <2>. QED  BY <2>1, <2>2 DEF CInv, HostOK
<1>12. CASE UNCHANGED vars
  BY <1>1, <1>12 DEF vars, base
<1>. QED  BY <1>2, <1>3, <1>4, <1>5, <1>6, <1>7, <1>8, <1>9, <1>10, <1>11, <1>12
          DEF Next, Thread

\* A driver that is not open has left no adapter open, and the host's object
\* has forgotten none, whichever calls of the library fail and however the
\* clicks, the errors and the restarts follow each other (ctrlcan.cpp
\* slot_open_device, slot_restart_device; ctrlcandev.h check_close_device).
THEOREM ClosedLeavesNothingOpen == Spec => []ClosedIsClosed
<1>1. CInv => ClosedIsClosed
  BY DEF CInv, CtrlOK, HostOK, ClosedIsClosed, Ctrl!ClosedIsClosed, Ctrl!Present,
         Socket!NoDeviceLeft
<1>. QED  BY <1>1, InitEstablishesCInv, StepPreservesCInv, PTL DEF Spec

-----------------------------------------------------------------------------
(***************************************************************************)
(* Streams of frames: numbers in ascending order.  Less compares two       *)
(* buffers by the frames in them.                                          *)
(***************************************************************************)
Less(A, B) == \A x \in A, y \in B : x < y

Ordered(s) == s \in Seq(Nat) /\ Increasing(s)

LEMMA ToSetIs ==
  ASSUME NEW s \in Seq(Nat)
  PROVE  ToSet(s) = {s[i] : i \in 1 .. Len(s)} /\ ToSet(s) \subseteq Nat
BY DEF ToSet

LEMMA NoneOrdered == Ordered(<<>>) /\ ToSet(<<>>) = {} /\ Len(<<>>) = 0
BY DEF Ordered, Increasing, ToSet

LEMMA ConcatOrder ==
  ASSUME NEW s, NEW t, Ordered(s), Ordered(t), Less(ToSet(s), ToSet(t))
  PROVE  Ordered(s \o t) /\ ToSet(s \o t) = ToSet(s) \cup ToSet(t)
<1>1. /\ s \in Seq(Nat) /\ t \in Seq(Nat) /\ Len(s) \in Nat /\ Len(t) \in Nat
      /\ \A i, j \in 1 .. Len(s) : i < j => s[i] < s[j]
      /\ \A i, j \in 1 .. Len(t) : i < j => t[i] < t[j]
      /\ \A i \in 1 .. Len(s), j \in 1 .. Len(t) : s[i] < t[j]
  BY DEF Ordered, Increasing, Less, ToSet
<1>2. s \o t \in Seq(Nat) /\ Len(s \o t) = Len(s) + Len(t)
  BY <1>1
<1>3. \A i \in 1 .. Len(s) : i \in 1 .. Len(s \o t) /\ (s \o t)[i] = s[i]
  BY <1>1, <1>2
<1>4. \A j \in 1 .. Len(t) : Len(s) + j \in 1 .. Len(s \o t) /\ (s \o t)[Len(s) + j] = t[j]
  BY <1>1, <1>2
<1>5. \A k \in 1 .. Len(s \o t) :
        \/ k \in 1 .. Len(s) /\ (s \o t)[k] = s[k]
        \/ k - Len(s) \in 1 .. Len(t) /\ (s \o t)[k] = t[k - Len(s)] /\ k > Len(s)
  BY <1>1, <1>2
<1>6. ToSet(s \o t) = ToSet(s) \cup ToSet(t)
  <2>1. /\ ToSet(s) = {s[i] : i \in 1 .. Len(s)}
        /\ ToSet(t) = {t[i] : i \in 1 .. Len(t)}
        /\ ToSet(s \o t) = {(s \o t)[i] : i \in 1 .. Len(s \o t)}
    BY Zenon, <1>1, <1>2, ToSetIs
  <2>2. ASSUME NEW x \in ToSet(s \o t)
        PROVE  x \in ToSet(s) \cup ToSet(t)
    <3>1. PICK k \in 1 .. Len(s \o t) : x = (s \o t)[k]
      BY <2>1
    <3>. QED  BY <1>5, <2>1, <3>1
  <2>3. ASSUME NEW x \in ToSet(s)
        PROVE  x \in ToSet(s \o t)
    <3>1. PICK k \in 1 .. Len(s) : x = s[k]
      BY <2>1
    <3>. QED  BY <1>3, <2>1, <3>1
  <2>4. ASSUME NEW x \in ToSet(t)
        PROVE  x \in ToSet(s \o t)
    <3>1. PICK k \in 1 .. Len(t) : x = t[k]
      BY <2>1
    <3>. QED  BY Zenon, <1>4, <2>1, <3>1
  <2>. QED  BY <2>2, <2>3, <2>4
<1>7. ASSUME NEW i \in 1 .. Len(s \o t), NEW j \in 1 .. Len(s \o t), i < j
      PROVE  (s \o t)[i] < (s \o t)[j]
  <2>1. CASE j \in 1 .. Len(s)
    <3>1. i \in 1 .. Len(s)
      BY <1>1, <1>2, <1>7, <2>1
    <3>. QED  BY <1>1, <1>3, <1>7, <2>1, <3>1
  <2>2. CASE j > Len(s) /\ i \in 1 .. Len(s)
    BY <1>1, <1>3, <1>5, <2>2
  <2>3. CASE j > Len(s) /\ i > Len(s)
    <3>1. /\ (s \o t)[i] = t[i - Len(s)] /\ (s \o t)[j] = t[j - Len(s)]
          /\ i - Len(s) \in 1 .. Len(t) /\ j - Len(s) \in 1 .. Len(t)
      BY <1>1, <1>2, <1>5, <2>3
    <3>2. i - Len(s) < j - Len(s)
      BY <1>1, <1>2, <1>7
    <3>. QED  BY Zenon, <1>1, <3>1, <3>2
  <2>4. /\ i \in Nat /\ j \in Nat /\ Len(s) \in Nat
        /\ i \in 1 .. Len(s) \/ i > Len(s)
        /\ j \in 1 .. Len(s) \/ j > Len(s)
    <3>1. Len(s) \in Nat /\ Len(s \o t) \in Nat
      BY <1>1, <1>2
    <3>. QED  BY <3>1
  <2>. QED  BY Zenon, <2>1, <2>2, <2>3, <2>4
<1>8. DOMAIN (s \o t) = 1 .. Len(s \o t)
  BY <1>2
<1>. QED  BY Zenon, <1>2, <1>6, <1>7, <1>8 DEF Ordered, Increasing

\* A part of a stream that lies together.
LEMMA PartOrder ==
  ASSUME NEW s, Ordered(s), NEW m \in Nat \ {0}, NEW n \in 0 .. Len(s)
  PROVE  Ordered(SubSeq(s, m, n)) /\ ToSet(SubSeq(s, m, n)) \subseteq {s[i] : i \in m .. n}
<1>1. /\ s \in Seq(Nat) /\ Len(s) \in Nat
      /\ \A i, j \in 1 .. Len(s) : i < j => s[i] < s[j]
  BY DEF Ordered, Increasing
<1>. DEFINE p == SubSeq(s, m, n)
<1>2. p \in Seq(Nat) /\ Len(p) \in Nat /\ Len(p) = (IF m <= n THEN n - m + 1 ELSE 0)
  BY <1>1
<1>3. \A i \in 1 .. Len(p) : m + i - 1 \in m .. n /\ p[i] = s[m + i - 1]
  BY <1>1, <1>2
<1>. HIDE DEF p
<1>4. \A i, j \in 1 .. Len(p) : i < j => p[i] < p[j]
  <2>. SUFFICES ASSUME NEW i \in 1 .. Len(p), NEW j \in 1 .. Len(p), i < j
                PROVE  p[i] < p[j]
    OBVIOUS
  <2>1. m + i - 1 \in 1 .. Len(s) /\ m + j - 1 \in 1 .. Len(s) /\ m + i - 1 < m + j - 1
    BY <1>1, <1>2, <1>3
  <2>. QED  BY Zenon, <1>1, <1>3, <2>1
<1>5. ToSet(p) \subseteq {s[i] : i \in m .. n}
  <2>1. ToSet(p) = {p[i] : i \in 1 .. Len(p)}
    BY <1>2, ToSetIs
  <2>. QED  BY <1>3, <2>1
<1>6. Ordered(p)
  <2>1. DOMAIN p = 1 .. Len(p)
    BY <1>2
  <2>. QED  BY Zenon, <1>2, <1>4, <2>1 DEF Ordered, Increasing
<1>. QED  BY <1>5, <1>6 DEF p

\* The first n frames of a stream, and the rest.
LEMMA SplitOrder ==
  ASSUME NEW s, Ordered(s), NEW n \in 0 .. Len(s)
  PROVE  /\ Ordered(SubSeq(s, 1, n)) /\ Ordered(SubSeq(s, n + 1, Len(s)))
         /\ ToSet(SubSeq(s, 1, n)) \subseteq ToSet(s)
         /\ ToSet(SubSeq(s, n + 1, Len(s))) \subseteq ToSet(s)
         /\ Less(ToSet(SubSeq(s, 1, n)), ToSet(SubSeq(s, n + 1, Len(s))))
<1>1. /\ s \in Seq(Nat) /\ Len(s) \in Nat
      /\ \A i, j \in 1 .. Len(s) : i < j => s[i] < s[j]
  BY DEF Ordered, Increasing
<1>2. /\ Ordered(SubSeq(s, 1, n)) /\ Ordered(SubSeq(s, n + 1, Len(s)))
      /\ ToSet(SubSeq(s, 1, n)) \subseteq {s[i] : i \in 1 .. n}
      /\ ToSet(SubSeq(s, n + 1, Len(s))) \subseteq {s[i] : i \in n + 1 .. Len(s)}
  <2>1. 1 \in Nat \ {0} /\ n + 1 \in Nat \ {0} /\ Len(s) \in 0 .. Len(s)
    BY <1>1
  <2>. QED  BY Zenon, <2>1, PartOrder
<1>3. /\ \A i \in 1 .. n : i \in 1 .. Len(s)
      /\ \A i \in n + 1 .. Len(s) : i \in 1 .. Len(s)
      /\ \A i \in 1 .. n, j \in n + 1 .. Len(s) : i < j
  BY <1>1
<1>4. \A x \in {s[i] : i \in 1 .. n}, y \in {s[i] : i \in n + 1 .. Len(s)} : x < y
  BY <1>1, <1>3
<1>. QED  BY <1>1, <1>2, <1>3, <1>4, ToSetIs DEF Less

\* The places in ascending order are all of them.
LEMMA AscendingIsOnto ==
  ASSUME NEW places, places \subseteq Nat, IsFiniteSet(places), NEW f \in Ascending(places)
  PROVE  f \in Seq(places) /\ \A r \in places : \E k \in 1 .. Len(f) : f[k] = r
<1>. DEFINE n == Cardinality(places)
<1>1. n \in Nat
  BY FS_CardinalityType
<1>2. IsFiniteSet(1 .. n) /\ Cardinality(1 .. n) = n
  BY <1>1, FS_Interval
<1>3. f \in [1 .. n -> places] /\ \A i, j \in 1 .. n : i < j => f[i] < f[j]
  BY DEF Ascending
<1>4. f \in Injection(1 .. n, places)
  <2>1. ASSUME NEW i \in 1 .. n, NEW j \in 1 .. n, f[i] = f[j]
        PROVE  i = j
    <3>1. f[i] \in Nat /\ f[j] \in Nat
      BY Zenon, <1>3
    <3>2. ~ (f[i] < f[j]) /\ ~ (f[j] < f[i])
      BY <2>1, <3>1
    <3>. QED  BY <1>1, <1>3, <3>2
  <2>. QED  BY <1>3, <2>1 DEF Injection, IsInjective
<1>. HIDE DEF n
<1>5. f \in Surjection(1 .. n, places)
  BY <1>2, <1>4, FS_Injection DEF n
<1>6. f \in Seq(places) /\ Len(f) = n
  BY <1>1, <1>3
<1>. QED  BY <1>5, <1>6 DEF Surjection

\* What is picked out of a sequence is what stands at those places, and of a
\* stream it is in order.
LEMMA PickOrder ==
  ASSUME NEW S, NEW s \in Seq(S), NEW places, places \subseteq 1 .. Len(s), NEW p \in PickedOut(s, places)
  PROVE  /\ p \in Seq(S)
         /\ {p[k] : k \in 1 .. Len(p)} = {s[i] : i \in places}
         /\ Ordered(s) => Ordered(p) /\ ToSet(p) = {s[i] : i \in places} /\ ToSet(p) \subseteq ToSet(s)
<1>1. Len(s) \in Nat
  OBVIOUS
<1>2. IsFiniteSet(1 .. Len(s))
  BY <1>1, FS_Interval
<1>3. places \subseteq Nat /\ IsFiniteSet(places)
  <2>1. IsFiniteSet(places)
    BY <1>2, FS_Subset, Zenon
  <2>2. places \subseteq Nat
    BY <1>1
  <2>. QED  BY <2>1, <2>2
<1>4. PICK f \in Ascending(places) : p = [k \in DOMAIN f |-> s[f[k]]]
  BY DEF PickedOut
<1>5. f \in Seq(places) /\ \A r \in places : \E k \in 1 .. Len(f) : f[k] = r
  BY Zenon, <1>3, AscendingIsOnto
<1>6. /\ Len(f) \in Nat /\ DOMAIN f = 1 .. Len(f)
      /\ \A k \in 1 .. Len(f) : f[k] \in places /\ f[k] \in 1 .. Len(s)
  <2>1. f \in Seq(places)
    BY <1>5
  <2>2. Len(f) \in Nat /\ DOMAIN f = 1 .. Len(f) /\ \A k \in 1 .. Len(f) : f[k] \in places
    BY <2>1
  <2>. QED  BY Zenon, <2>2
<1>7. \A i, j \in 1 .. Len(f) : i < j => f[i] < f[j]
  BY Zenon, <1>6 DEF Ascending
<1>8. /\ p \in Seq(S) /\ Len(p) = Len(f) /\ DOMAIN p = 1 .. Len(p)
      /\ \A k \in 1 .. Len(p) : p[k] = s[f[k]]
  BY <1>4, <1>6
<1>9. {p[k] : k \in 1 .. Len(p)} = {s[i] : i \in places}
  <2>1. ASSUME NEW k \in 1 .. Len(p)
        PROVE  p[k] \in {s[i] : i \in places}
    BY <1>6, <1>8
  <2>2. ASSUME NEW i \in places
        PROVE  \E k \in 1 .. Len(p) : p[k] = s[i]
    <3>1. PICK k \in 1 .. Len(f) : f[k] = i
      BY <1>5
    <3>. QED  BY <1>8, <3>1
  <2>. QED  BY Zenon, <2>1, <2>2
<1>10. ASSUME Ordered(s)
       PROVE  Ordered(p) /\ ToSet(p) = {s[i] : i \in places} /\ ToSet(p) \subseteq ToSet(s)
  <2>1. s \in Seq(Nat) /\ \A i, j \in 1 .. Len(s) : i < j => s[i] < s[j]
    BY <1>10 DEF Ordered, Increasing
  <2>2. \A k \in 1 .. Len(p) : p[k] \in Nat
    BY <1>6, <1>8, <2>1
  <2>3. p \in Seq(Nat)
    BY <1>8, <2>2
  <2>4. \A i, j \in 1 .. Len(p) : i < j => p[i] < p[j]
    <3>. SUFFICES ASSUME NEW i \in 1 .. Len(p), NEW j \in 1 .. Len(p), i < j
                  PROVE  p[i] < p[j]
      OBVIOUS
    <3>1. i \in 1 .. Len(f) /\ j \in 1 .. Len(f)
      BY Zenon, <1>8
    <3>2. f[i] < f[j]
      BY Zenon, <1>7, <3>1
    <3>3. f[i] \in 1 .. Len(s) /\ f[j] \in 1 .. Len(s)
      BY <1>6, <3>1
    <3>. QED  BY Zenon, <1>8, <2>1, <3>2, <3>3
  <2>5. Ordered(p)
    BY <1>8, <2>3, <2>4 DEF Ordered, Increasing
  <2>6. ToSet(p) = {p[k] : k \in 1 .. Len(p)} /\ ToSet(s) = {s[i] : i \in 1 .. Len(s)}
    BY Zenon, <2>1, <2>3, ToSetIs
  <2>. QED  BY Zenon, <1>9, <2>5, <2>6
<1>. QED  BY Zenon, <1>8, <1>9, <1>10

\* A queue takes the frames behind those that it has, as far as there is room.
LEMMA EnqueueOrder ==
  ASSUME NEW q, NEW frames, Ordered(q), Ordered(frames), Less(ToSet(q), ToSet(frames))
  PROVE  /\ Ordered(Enqueue(q, frames))
         /\ ToSet(Enqueue(q, frames)) \subseteq ToSet(q) \cup ToSet(frames)
         /\ Len(Enqueue(q, frames)) <= QueueMax
<1>1. Ordered(q \o frames) /\ ToSet(q \o frames) = ToSet(q) \cup ToSet(frames)
  BY ConcatOrder
<1>. DEFINE all == q \o frames
            n == Least(Len(all), QueueMax)
<1>2. all \in Seq(Nat) /\ QueueMax \in Nat \ {0}
  BY <1>1, CanBaseAssumption DEF Ordered
<1>3. n \in 0 .. Len(all) /\ n <= QueueMax
  BY <1>2 DEF Least
<1>4. Enqueue(q, frames) = SubSeq(all, 1, n)
  BY DEF Enqueue
<1>5. Ordered(SubSeq(all, 1, n)) /\ ToSet(SubSeq(all, 1, n)) \subseteq ToSet(all)
  <2>. HIDE DEF n, all
  <2>1. Ordered(all)
    BY <1>1 DEF all
  <2>. QED  BY <1>3, <2>1, SplitOrder
<1>6. Len(SubSeq(all, 1, n)) = n
  <2>. HIDE DEF n, all
  <2>. QED  BY <1>2, <1>3
<1>. QED  BY <1>1, <1>3, <1>4, <1>5, <1>6

LEMMA AppendOrder ==
  ASSUME NEW s, Ordered(s), NEW x \in Nat, \A y \in ToSet(s) : y < x
  PROVE  Ordered(Append(s, x)) /\ ToSet(Append(s, x)) = ToSet(s) \cup {x}
<1>1. /\ s \in Seq(Nat) /\ Len(s) \in Nat
      /\ \A i, j \in 1 .. Len(s) : i < j => s[i] < s[j]
      /\ \A i \in 1 .. Len(s) : s[i] < x
  BY ToSetIs DEF Ordered, Increasing
<1>. DEFINE t == Append(s, x)
<1>2. /\ t \in Seq(Nat) /\ Len(t) = Len(s) + 1 /\ t[Len(t)] = x
      /\ \A i \in 1 .. Len(s) : t[i] = s[i]
  BY <1>1
<1>. HIDE DEF t
<1>3. \A i, j \in 1 .. Len(t) : i < j => t[i] < t[j]
  <2>. SUFFICES ASSUME NEW i \in 1 .. Len(t), NEW j \in 1 .. Len(t), i < j
                PROVE  t[i] < t[j]
    OBVIOUS
  <2>1. i \in 1 .. Len(s)
    BY <1>1, <1>2
  <2>2. CASE j \in 1 .. Len(s)
    BY <1>1, <1>2, <2>1, <2>2
  <2>3. CASE j = Len(t)
    BY Zenon, <1>1, <1>2, <2>1, <2>3
  <2>4. j \in 1 .. Len(s) \/ j = Len(t)
    <3>1. Len(s) \in Nat /\ Len(t) = Len(s) + 1
      BY Zenon, <1>1, <1>2
    <3>. QED  BY <3>1
  <2>. QED  BY <2>2, <2>3, <2>4
<1>4. ToSet(t) = ToSet(s) \cup {x}
  <2>1. ToSet(t) \subseteq ToSet(s) \cup {x}
    <3>1. \A i \in 1 .. Len(t) : i \in 1 .. Len(s) \/ i = Len(t)
      BY <1>1, <1>2
    <3>2. \A i \in 1 .. Len(t) : t[i] \in {s[k] : k \in 1 .. Len(s)} \cup {x}
      BY Zenon, <1>2, <3>1
    <3>3. ToSet(t) = {t[i] : i \in 1 .. Len(t)} /\ ToSet(s) = {s[k] : k \in 1 .. Len(s)}
      BY Zenon, <1>1, <1>2, ToSetIs
    <3>. QED  BY <3>2, <3>3
  <2>2. ToSet(s) \subseteq ToSet(t)
    <3>1. \A i \in 1 .. Len(s) : i \in 1 .. Len(t)
      BY <1>1, <1>2
    <3>. QED  BY <1>1, <1>2, <3>1, ToSetIs
  <2>3. x \in ToSet(t)
    <3>1. Len(t) \in 1 .. Len(t)
      BY <1>1, <1>2
    <3>. QED  BY <1>2, <3>1, ToSetIs
  <2>. QED  BY <2>1, <2>2, <2>3
<1>5. Ordered(t)
  BY <1>2, <1>3 DEF Ordered, Increasing
<1>. QED  BY <1>4, <1>5 DEF t

-----------------------------------------------------------------------------
(***************************************************************************)
(* The signals to the window: statuses of the driver among the messages.   *)
(***************************************************************************)
Signals == [type : {"status"}, value : Statuses] \cup [type : {"message"}, value : Nat]

LEMMA SignalIs ==
  ASSUME NEW x \in Signals
  PROVE  \/ x.type = "status" /\ x.value \in Statuses /\ x.type # "message"
         \/ x.type = "message" /\ x.value \in Nat /\ x.type # "status"
BY DEF Signals

LEMMA SignalsOf ==
  /\ \A v \in Statuses : /\ Status(v) \in Signals
                         /\ Status(v).type = "status" /\ Status(v).value = v
  /\ \A n \in Nat : Message(n) \in Signals /\ Message(n).type = "message" /\ Message(n).value = n
BY DEF Signals, Status, Message

\* Signals are put behind those that wait.
LEMMA Behind ==
  ASSUME NEW S, NEW g \in Seq(S), NEW t \in Seq(S)
  PROVE  /\ g \o t \in Seq(S) /\ Len(g) \in Nat /\ Len(t) \in Nat /\ Len(g \o t) = Len(g) + Len(t)
         /\ \A i \in 1 .. Len(g) : i \in 1 .. Len(g \o t) /\ (g \o t)[i] = g[i]
         /\ \A k \in 1 .. Len(t) : Len(g) + k \in 1 .. Len(g \o t) /\ (g \o t)[Len(g) + k] = t[k]
         /\ \A i \in 1 .. Len(g \o t) :
              \/ i \in 1 .. Len(g)
              \/ i - Len(g) \in 1 .. Len(t) /\ i > Len(g) /\ (g \o t)[i] = t[i - Len(g)]
OBVIOUS

LEMMA StatusSignals ==
  ASSUME NEW s \in Seq(Statuses), NEW t, t = [i \in DOMAIN s |-> Status(s[i])]
  PROVE  /\ t \in Seq(Signals) /\ Len(t) = Len(s)
         /\ \A i \in 1 .. Len(t) : t[i].type = "status" /\ t[i].value = s[i]
<1>1. Len(s) \in Nat /\ DOMAIN s = 1 .. Len(s) /\ \A i \in 1 .. Len(s) : s[i] \in Statuses
  OBVIOUS
<1>2. \A i \in 1 .. Len(s) : Status(s[i]) \in Signals
  BY <1>1, SignalsOf
<1>3. t = [i \in 1 .. Len(s) |-> Status(s[i])]
  BY <1>1
<1>4. t \in Seq(Signals) /\ Len(t) = Len(s) /\ \A i \in 1 .. Len(s) : t[i] = Status(s[i])
  BY <1>1, <1>2, <1>3
<1>5. \A i \in 1 .. Len(s) : Status(s[i]).type = "status" /\ Status(s[i]).value = s[i]
  BY <1>1, SignalsOf
<1>. QED  BY <1>4, <1>5

LEMMA MessageSignals ==
  ASSUME NEW f \in Seq(Nat), NEW t, t = [i \in DOMAIN f |-> Message(f[i])]
  PROVE  /\ t \in Seq(Signals) /\ Len(t) = Len(f)
         /\ \A i \in 1 .. Len(t) : t[i].type = "message" /\ t[i].value = f[i]
<1>1. Len(f) \in Nat /\ DOMAIN f = 1 .. Len(f) /\ \A i \in 1 .. Len(f) : f[i] \in Nat
  OBVIOUS
<1>2. \A i \in 1 .. Len(f) : Message(f[i]) \in Signals
  BY <1>1, SignalsOf
<1>3. t = [i \in 1 .. Len(f) |-> Message(f[i])]
  BY <1>1
<1>4. t \in Seq(Signals) /\ Len(t) = Len(f) /\ \A i \in 1 .. Len(f) : t[i] = Message(f[i])
  BY <1>1, <1>2, <1>3
<1>5. \A i \in 1 .. Len(f) : Message(f[i]).type = "message" /\ Message(f[i]).value = f[i]
  BY <1>1, SignalsOf
<1>. QED  BY <1>4, <1>5

LEMMA TailIs ==
  ASSUME NEW S, NEW g \in Seq(S), g # <<>>
  PROVE  /\ Tail(g) \in Seq(S) /\ Head(g) \in S /\ Head(g) = g[1] /\ 1 \in 1 .. Len(g)
         /\ Len(g) \in Nat \ {0} /\ Len(Tail(g)) = Len(g) - 1
         /\ \A i \in 1 .. Len(Tail(g)) : i + 1 \in 1 .. Len(g) /\ Tail(g)[i] = g[i + 1]
         /\ \A i \in 2 .. Len(g) : i - 1 \in 1 .. Len(Tail(g)) /\ Tail(g)[i - 1] = g[i]
OBVIOUS

-----------------------------------------------------------------------------
(***************************************************************************)
(* What the button shows once every status under way has been seen.        *)
(***************************************************************************)
Says(value, open) == \/ value = STATUS_OK /\ open = TRUE
                     \/ value # STATUS_OK /\ open = FALSE

Quieted(g, k) == \A i \in 1 .. Len(g) : i > k => g[i].type # "status"

Told(g, shown, open) ==
  /\ g \in Seq(Signals)
  /\ \/ Quieted(g, 0) /\ shown = open
     \/ \E k \in 1 .. Len(g) : g[k].type = "status" /\ Quieted(g, k) /\ Says(g[k].value, open)

\* The last status put behind the others is the one that counts.
LEMMA ToldByStatus ==
  ASSUME NEW g \in Seq(Signals), NEW s \in Seq(Statuses), NEW shown, NEW open,
         Len(s) # 0, Says(s[Len(s)], open)
  PROVE  Told(Statused(g, s), shown, open)
<1>. DEFINE t == [i \in DOMAIN s |-> Status(s[i])]
<1>1. /\ t \in Seq(Signals) /\ Len(t) = Len(s)
      /\ \A i \in 1 .. Len(t) : t[i].type = "status" /\ t[i].value = s[i]
  BY StatusSignals
<1>2. Statused(g, s) = g \o t
  BY DEF Statused
<1>. HIDE DEF t
<1>. DEFINE h == g \o t
<1>3. /\ h \in Seq(Signals) /\ Len(g) \in Nat /\ Len(t) \in Nat /\ Len(h) = Len(g) + Len(t)
      /\ \A k \in 1 .. Len(t) : Len(g) + k \in 1 .. Len(h) /\ h[Len(g) + k] = t[k]
  <2>1. g \o t \in Seq(Signals) /\ Len(g) \in Nat /\ Len(t) \in Nat /\ Len(g \o t) = Len(g) + Len(t)
    BY Zenon, <1>1, Behind
  <2>2. \A k \in 1 .. Len(t) : Len(g) + k \in 1 .. Len(g \o t) /\ (g \o t)[Len(g) + k] = t[k]
    BY <1>1, Behind
  <2>. QED  BY <2>1, <2>2
<1>. HIDE DEF h
<1>4. Len(t) \in 1 .. Len(t)
  BY <1>1, <1>3
<1>5. Len(h) \in 1 .. Len(h) /\ h[Len(h)] = t[Len(t)]
  BY <1>3, <1>4
<1>6. h[Len(h)].type = "status" /\ Says(h[Len(h)].value, open)
  BY <1>1, <1>4, <1>5
<1>7. Quieted(h, Len(h))
  BY <1>3 DEF Quieted
<1>8. \E k \in 1 .. Len(h) : h[k].type = "status" /\ Quieted(h, k) /\ Says(h[k].value, open)
  BY <1>5, <1>6, <1>7
<1>9. Told(h, shown, open)
  BY <1>3, <1>8 DEF Told
<1>. QED  BY <1>2, <1>9 DEF h

\* Messages change nothing of it.
LEMMA ToldPastMessages ==
  ASSUME NEW g, NEW shown, NEW open, Told(g, shown, open),
         NEW f \in Seq(Nat), NEW t, t = [i \in DOMAIN f |-> Message(f[i])]
  PROVE  Told(g \o t, shown, open)
<1>1. /\ t \in Seq(Signals)
      /\ \A i \in 1 .. Len(t) : t[i].type # "status"
  <2>1. t \in Seq(Signals) /\ \A i \in 1 .. Len(t) : t[i].type = "message"
    BY MessageSignals
  <2>. QED  BY Zenon, <2>1
<1>2. g \in Seq(Signals)
  BY DEF Told
<1>. DEFINE h == g \o t
<1>3. /\ h \in Seq(Signals) /\ Len(g) \in Nat /\ Len(h) \in Nat
      /\ \A i \in 1 .. Len(g) : i \in 1 .. Len(h) /\ h[i] = g[i]
      /\ \A i \in 1 .. Len(h) : i \in 1 .. Len(g) \/ (i - Len(g) \in 1 .. Len(t) /\ h[i] = t[i - Len(g)])
  <2>1. g \o t \in Seq(Signals) /\ Len(g) \in Nat /\ \A i \in 1 .. Len(g) : i \in 1 .. Len(g \o t) /\ (g \o t)[i] = g[i]
    BY <1>1, <1>2, Behind
  <2>2. \A i \in 1 .. Len(g \o t) : i \in 1 .. Len(g) \/ (i - Len(g) \in 1 .. Len(t) /\ (g \o t)[i] = t[i - Len(g)])
    BY <1>1, <1>2, Behind
  <2>. QED  BY <2>1, <2>2
<1>. HIDE DEF h
<1>4. \A k : Quieted(g, k) => Quieted(h, k)
  BY Zenon, <1>1, <1>3 DEF Quieted
<1>5. CASE Quieted(g, 0) /\ shown = open
  BY <1>3, <1>4, <1>5 DEF Told, h
<1>6. ASSUME NEW k \in 1 .. Len(g), g[k].type = "status", Quieted(g, k), Says(g[k].value, open)
      PROVE  Told(h, shown, open)
  <2>1. k \in 1 .. Len(h) /\ h[k] = g[k] /\ Quieted(h, k)
    BY <1>3, <1>4, <1>6
  <2>2. h[k].type = "status" /\ Says(h[k].value, open)
    BY <1>6, <2>1
  <2>. QED  BY <1>3, <2>1, <2>2 DEF Told
<1>. QED  BY Zenon, <1>5, <1>6 DEF Told, h

\* The window takes the signals one by one.
LEMMA ToldToWindow ==
  ASSUME NEW g, NEW shown, NEW open, Told(g, shown, open), g # <<>>,
         NEW next, IF Head(g).type = "status" THEN next = (Head(g).value = STATUS_OK)
                                              ELSE next = shown
  PROVE  Told(Tail(g), next, open)
<1>1. g \in Seq(Signals)
  BY DEF Told
<1>. DEFINE h == Tail(g)
<1>2. /\ h \in Seq(Signals) /\ Head(g) = g[1] /\ Len(g) \in Nat \ {0} /\ Len(h) = Len(g) - 1
      /\ \A i \in 1 .. Len(h) : i + 1 \in 1 .. Len(g) /\ h[i] = g[i + 1]
      /\ \A i \in 2 .. Len(g) : i - 1 \in 1 .. Len(h) /\ h[i - 1] = g[i]
  BY <1>1, TailIs
<1>. HIDE DEF h
<1>3. CASE Quieted(g, 0) /\ shown = open
  <2>1. 1 \in 1 .. Len(g) /\ Head(g).type # "status"
    BY <1>2, <1>3 DEF Quieted
  <2>2. next = open
    BY <1>3, <2>1
  <2>3. Quieted(h, 0)
    BY <1>2, <1>3 DEF Quieted
  <2>. QED  BY <1>2, <2>2, <2>3 DEF Told, h
<1>4. ASSUME NEW k \in 1 .. Len(g), g[k].type = "status", Quieted(g, k), Says(g[k].value, open)
      PROVE  Told(h, next, open)
  <2>1. CASE k = 1
    <3>1. next = (g[1].value = STATUS_OK)
      BY <1>2, <1>4, <2>1
    <3>2. Says(g[1].value, open)
      BY <1>4, <2>1
    <3>3. next = open
      BY Zenon, <3>1, <3>2 DEF Says
    <3>4. Quieted(h, 0)
      BY <1>2, <1>4, <2>1 DEF Quieted
    <3>. QED  BY <1>2, <3>3, <3>4 DEF Told
  <2>2. CASE k # 1
    <3>1. k - 1 \in 1 .. Len(h) /\ h[k - 1] = g[k]
      BY <1>2, <2>2
    <3>2. Quieted(h, k - 1)
      BY <1>2, <1>4 DEF Quieted
    <3>3. h[k - 1].type = "status" /\ Says(h[k - 1].value, open)
      BY <1>4, <3>1
    <3>. QED  BY <1>2, <3>1, <3>2, <3>3 DEF Told
  <2>. QED  BY <2>1, <2>2
<1>. QED  BY <1>3, <1>4 DEF Told, h

-----------------------------------------------------------------------------
(***************************************************************************)
(* The frames dispatched, those received, and those still on the way here, *)
(* of the n that the bus has delivered.                                    *)
(***************************************************************************)
Received(d, r, n) ==
  /\ Ordered(d) /\ Ordered(r) /\ Less(ToSet(d), ToSet(r))
  /\ n \in Nat /\ ToSet(d) \subseteq 1 .. n /\ ToSet(r) \subseteq 1 .. n

\* Frames that come after all those received.
Later(A, d, r, n) == A \subseteq 1 .. n /\ Less(ToSet(d), A) /\ Less(ToSet(r), A)

Source(s, d, r, n) == Ordered(s) /\ Later(ToSet(s), d, r, n)

\* can_recv_task.
LEMMA DispatchKeeps ==
  ASSUME NEW d, NEW r, NEW n, Received(d, r, n)
  PROVE  /\ Received(d \o r, <<>>, n)
         /\ ToSet(d \o r) = ToSet(d) \cup ToSet(r)
         /\ \A A : Later(A, d, r, n) => Later(A, d \o r, <<>>, n)
         /\ \A s : Source(s, d, r, n) => Source(s, d \o r, <<>>, n)
<1>1. Ordered(d \o r) /\ ToSet(d \o r) = ToSet(d) \cup ToSet(r)
  BY ConcatOrder DEF Received
<1>2. Ordered(<<>>) /\ ToSet(<<>>) = {}
  BY NoneOrdered
<1>. DEFINE dd == ToSet(d \o r)
            none == ToSet(<<>>)
<1>3. dd = ToSet(d) \cup ToSet(r) /\ none = {}
  BY <1>1, <1>2
<1>. HIDE DEF dd, none
<1>4. ToSet(d) \subseteq 1 .. n /\ ToSet(r) \subseteq 1 .. n /\ n \in Nat
  BY DEF Received
<1>5. dd \subseteq 1 .. n /\ none \subseteq 1 .. n /\ Less(dd, none)
  BY <1>3, <1>4 DEF Less
<1>6. Received(d \o r, <<>>, n)
  BY <1>1, <1>2, <1>4, <1>5 DEF Received, dd, none
<1>7. \A A : Later(A, d, r, n) => Later(A, d \o r, <<>>, n)
  <2>. SUFFICES ASSUME NEW A, Later(A, d, r, n)
                PROVE  Later(A, d \o r, <<>>, n)
    OBVIOUS
  <2>1. A \subseteq 1 .. n /\ Less(ToSet(d), A) /\ Less(ToSet(r), A)
    BY DEF Later
  <2>2. Less(dd, A) /\ Less(none, A)
    BY <1>3, <2>1 DEF Less
  <2>. QED  BY <2>1, <2>2 DEF Later, dd, none
<1>8. \A s : Source(s, d, r, n) => Source(s, d \o r, <<>>, n)
  BY <1>7, Zenon DEF Source
<1>. QED  BY <1>1, <1>6, <1>7, <1>8

\* Frames that come after those received are put behind them.
LEMMA ReceiveKeeps ==
  ASSUME NEW d, NEW r, NEW n, NEW f, Received(d, r, n), Source(f, d, r, n)
  PROVE  /\ Received(d, Enqueue(r, f), n)
         /\ Len(Enqueue(r, f)) <= QueueMax
         /\ \A A : Later(A, d, r, n) /\ Less(ToSet(f), A) => Later(A, d, Enqueue(r, f), n)
<1>. DEFINE q == Enqueue(r, f)
<1>1. /\ Ordered(q) /\ ToSet(q) \subseteq ToSet(r) \cup ToSet(f) /\ Len(q) <= QueueMax
  BY EnqueueOrder DEF Received, Source, Later
<1>. HIDE DEF q
<1>2. /\ ToSet(r) \subseteq 1 .. n /\ ToSet(f) \subseteq 1 .. n
      /\ Less(ToSet(d), ToSet(r)) /\ Less(ToSet(d), ToSet(f))
  BY DEF Received, Source, Later
<1>3. Less(ToSet(d), ToSet(q)) /\ ToSet(q) \subseteq 1 .. n
  BY <1>1, <1>2 DEF Less
<1>4. Received(d, q, n)
  BY <1>1, <1>3 DEF Received
<1>5. \A A : Later(A, d, r, n) /\ Less(ToSet(f), A) => Later(A, d, q, n)
  <2>. SUFFICES ASSUME NEW A, Later(A, d, r, n), Less(ToSet(f), A)
                PROVE  Later(A, d, q, n)
    OBVIOUS
  <2>1. A \subseteq 1 .. n /\ Less(ToSet(d), A) /\ Less(ToSet(r), A)
    BY DEF Later
  <2>2. Less(ToSet(q), A)
    BY <1>1, <2>1 DEF Less
  <2>. QED  BY <2>1, <2>2 DEF Later
<1>. QED  BY <1>1, <1>4, <1>5 DEF q

\* The bus delivers one more.
LEMMA ArrivalKeeps ==
  ASSUME NEW d, NEW r, NEW n, Received(d, r, n)
  PROVE  /\ Received(d, r, n + 1)
         /\ \A A : Later(A, d, r, n) => Later(A, d, r, n + 1)
         /\ \A s : Source(s, d, r, n) => /\ Source(s, d, r, n + 1)
                                         /\ Source(Append(s, n + 1), d, r, n + 1)
                                         /\ ToSet(Append(s, n + 1)) = ToSet(s) \cup {n + 1}
<1>1. /\ n \in Nat /\ \A x \in 1 .. n : x \in 1 .. n + 1 /\ x < n + 1
      /\ ToSet(d) \subseteq 1 .. n /\ ToSet(r) \subseteq 1 .. n
  BY DEF Received
<1>2. Received(d, r, n + 1)
  BY <1>1 DEF Received
<1>3. ASSUME NEW A, Later(A, d, r, n)
      PROVE  Later(A, d, r, n + 1) /\ Later(A \cup {n + 1}, d, r, n + 1)
  <2>1. A \subseteq 1 .. n /\ Less(ToSet(d), A) /\ Less(ToSet(r), A)
    BY <1>3 DEF Later
  <2>2. Less(ToSet(d), A \cup {n + 1}) /\ Less(ToSet(r), A \cup {n + 1})
    BY <1>1, <2>1 DEF Less
  <2>3. A \cup {n + 1} \subseteq 1 .. n + 1
    BY <1>1, <2>1
  <2>. QED  BY <2>1, <2>2, <2>3 DEF Later
<1>4. ASSUME NEW s, Source(s, d, r, n)
      PROVE  /\ Source(s, d, r, n + 1)
             /\ Source(Append(s, n + 1), d, r, n + 1)
             /\ ToSet(Append(s, n + 1)) = ToSet(s) \cup {n + 1}
  <2>1. Ordered(s) /\ Later(ToSet(s), d, r, n) /\ ToSet(s) \subseteq 1 .. n
    BY <1>4 DEF Source, Later
  <2>2. n + 1 \in Nat /\ \A y \in ToSet(s) : y < n + 1
    BY <1>1, <2>1
  <2>3. Ordered(Append(s, n + 1)) /\ ToSet(Append(s, n + 1)) = ToSet(s) \cup {n + 1}
    BY <2>1, <2>2, AppendOrder
  <2>4. Later(ToSet(s), d, r, n + 1) /\ Later(ToSet(s) \cup {n + 1}, d, r, n + 1)
    BY <1>3, <2>1
  <2>5. Later(ToSet(Append(s, n + 1)), d, r, n + 1)
    BY <2>3, <2>4, Zenon
  <2>. QED  BY <2>1, <2>3, <2>4, <2>5 DEF Source
<1>. QED  BY Zenon, <1>2, <1>3, <1>4

LEMMA NoSource ==
  ASSUME NEW d, NEW r, NEW n
  PROVE  Source(<<>>, d, r, n) /\ ToSet(<<>>) = {}
<1>. DEFINE none == ToSet(<<>>)
<1>1. none = {}
  BY NoneOrdered
<1>. HIDE DEF none
<1>2. Later(none, d, r, n)
  BY <1>1 DEF Later, Less
<1>. QED  BY <1>1, <1>2, NoneOrdered DEF Source, none

\* A part of what comes later comes later.
LEMMA PartLater ==
  ASSUME NEW A, NEW B, NEW d, NEW r, NEW n, Later(B, d, r, n), A \subseteq B
  PROVE  Later(A, d, r, n)
<1>1. B \subseteq 1 .. n /\ Less(ToSet(d), B) /\ Less(ToSet(r), B)
  BY DEF Later
<1>. QED  BY <1>1 DEF Later, Less

\* A driver takes the first of its frames and keeps the rest.
LEMMA BatchOf ==
  ASSUME NEW s, NEW d, NEW r, NEW n, Source(s, d, r, n), NEW limit \in Nat,
         NEW m, m = Least(limit, Len(s)), NEW f, f \in WithData(SubSeq(s, 1, m))
  PROVE  /\ Source(f, d, r, n) /\ ToSet(f) \subseteq ToSet(s)
         /\ Source(SubSeq(s, m + 1, Len(s)), d, r, n)
         /\ ToSet(SubSeq(s, m + 1, Len(s))) \subseteq ToSet(s)
         /\ Less(ToSet(f), ToSet(SubSeq(s, m + 1, Len(s))))
<1>1. Ordered(s) /\ Later(ToSet(s), d, r, n) /\ s \in Seq(Nat) /\ Len(s) \in Nat
  BY DEF Source, Ordered
<1>2. m \in 0 .. Len(s)
  BY <1>1 DEF Least
<1>. DEFINE head == SubSeq(s, 1, m)
            rest == SubSeq(s, m + 1, Len(s))
<1>3. /\ Ordered(head) /\ Ordered(rest)
      /\ ToSet(head) \subseteq ToSet(s) /\ ToSet(rest) \subseteq ToSet(s)
      /\ Less(ToSet(head), ToSet(rest))
  BY <1>1, <1>2, SplitOrder
<1>. HIDE DEF head, rest
<1>4. head \in Seq(Nat)
  BY <1>3 DEF Ordered
<1>. DEFINE places == {i \in DOMAIN head : head[i] \notin NoData}
<1>5. places \subseteq 1 .. Len(head)
  BY <1>4
<1>6. f \in PickedOut(head, places)
  BY Zenon DEF WithData, head
<1>. HIDE DEF places
<1>7. Ordered(f) /\ ToSet(f) \subseteq ToSet(head)
  BY Zenon, <1>3, <1>4, <1>5, <1>6, PickOrder
<1>8. Later(ToSet(f), d, r, n) /\ Later(ToSet(rest), d, r, n) /\ ToSet(f) \subseteq ToSet(s)
  <2>1. ToSet(f) \subseteq ToSet(s)
    BY <1>3, <1>7
  <2>. QED  BY <1>1, <1>3, <2>1, PartLater
<1>9. Less(ToSet(f), ToSet(rest))
  BY <1>3, <1>7 DEF Less
<1>. QED  BY <1>3, <1>7, <1>8, <1>9 DEF Source, rest

-----------------------------------------------------------------------------
(***************************************************************************)
(* The messages for the pages: parsed, or among the signals under way.     *)
(***************************************************************************)
MessagesIn(g) == {i \in 1 .. Len(g) : g[i].type = "message"}
ValuesIn(g) == {g[i].value : i \in MessagesIn(g)}

Rising(g) == \A i, j \in MessagesIn(g) : i < j => g[i].value < g[j].value

ForPagesOf(A) == {n \in A : ForPages(n)}

Paged(p, g, d) ==
  /\ Ordered(p) /\ g \in Seq(Signals)
  /\ Less(ToSet(p), ValuesIn(g)) /\ Rising(g)
  /\ ToSet(p) \cup ValuesIn(g) = ForPagesOf(ToSet(d))

LEMMA ValuesAre ==
  ASSUME NEW g \in Seq(Signals)
  PROVE  ValuesIn(g) \subseteq Nat /\ MessagesIn(g) \subseteq Nat
<1>1. \A i \in 1 .. Len(g) : g[i] \in Signals
  OBVIOUS
<1>. QED  BY <1>1, SignalIs DEF ValuesIn, MessagesIn

\* Signals put behind the others: their messages come last.
LEMMA BehindMessages ==
  ASSUME NEW g \in Seq(Signals), NEW t \in Seq(Signals),
         Rising(g), Rising(t), Less(ValuesIn(g), ValuesIn(t))
  PROVE  /\ g \o t \in Seq(Signals)
         /\ Rising(g \o t) /\ ValuesIn(g \o t) = ValuesIn(g) \cup ValuesIn(t)
<1>. DEFINE h == g \o t
<1>1. /\ h \in Seq(Signals) /\ Len(g) \in Nat /\ Len(t) \in Nat /\ Len(h) = Len(g) + Len(t)
  BY Behind
<1>2. \A i \in 1 .. Len(g) : i \in 1 .. Len(h) /\ h[i] = g[i]
  BY Behind
<1>3. \A k \in 1 .. Len(t) : Len(g) + k \in 1 .. Len(h) /\ h[Len(g) + k] = t[k]
  BY Behind
<1>4. \A i \in 1 .. Len(h) :
        \/ i \in 1 .. Len(g)
        \/ i - Len(g) \in 1 .. Len(t) /\ i > Len(g) /\ h[i] = t[i - Len(g)]
  BY Behind
<1>. HIDE DEF h
<1>5. \A i \in MessagesIn(h) :
        \/ i \in MessagesIn(g) /\ h[i] = g[i]
        \/ i - Len(g) \in MessagesIn(t) /\ i > Len(g) /\ h[i] = t[i - Len(g)]
  BY <1>2, <1>4 DEF MessagesIn
<1>6. ValuesIn(h) = ValuesIn(g) \cup ValuesIn(t)
  <2>1. ASSUME NEW x \in ValuesIn(h)
        PROVE  x \in ValuesIn(g) \cup ValuesIn(t)
    <3>1. PICK i \in MessagesIn(h) : x = h[i].value
      BY DEF ValuesIn
    <3>. QED  BY <1>5, <3>1 DEF ValuesIn
  <2>2. ASSUME NEW x \in ValuesIn(g)
        PROVE  x \in ValuesIn(h)
    <3>1. PICK i \in MessagesIn(g) : x = g[i].value
      BY DEF ValuesIn
    <3>2. i \in MessagesIn(h) /\ h[i] = g[i]
      BY <1>2 DEF MessagesIn
    <3>. QED  BY <3>1, <3>2 DEF ValuesIn
  <2>3. ASSUME NEW x \in ValuesIn(t)
        PROVE  x \in ValuesIn(h)
    <3>1. PICK k \in MessagesIn(t) : x = t[k].value
      BY DEF ValuesIn
    <3>2. Len(g) + k \in MessagesIn(h) /\ h[Len(g) + k] = t[k]
      BY <1>3 DEF MessagesIn
    <3>. QED  BY <3>1, <3>2 DEF ValuesIn
  <2>. QED  BY <2>1, <2>2, <2>3
<1>7. Rising(h)
  <2>. SUFFICES ASSUME NEW i \in MessagesIn(h), NEW j \in MessagesIn(h), i < j
                PROVE  h[i].value < h[j].value
    BY DEF Rising
  <2>1. i \in 1 .. Len(h) /\ j \in 1 .. Len(h)
    BY DEF MessagesIn
  <2>2. CASE j \in MessagesIn(g) /\ h[j] = g[j]
    <3>1. i \in MessagesIn(g) /\ h[i] = g[i]
      BY <1>1, <1>2, <2>1, <2>2 DEF MessagesIn
    <3>. QED  BY <2>2, <3>1 DEF Rising
  <2>3. CASE j - Len(g) \in MessagesIn(t) /\ h[j] = t[j - Len(g)]
    <3>1. CASE i \in MessagesIn(g) /\ h[i] = g[i]
      <4>1. g[i].value \in ValuesIn(g) /\ t[j - Len(g)].value \in ValuesIn(t)
        BY <2>3, <3>1 DEF ValuesIn
      <4>. QED  BY <2>3, <3>1, <4>1 DEF Less
    <3>2. CASE i - Len(g) \in MessagesIn(t) /\ h[i] = t[i - Len(g)]
      <4>1. i - Len(g) < j - Len(g)
        BY <1>1, <2>1
      <4>. QED  BY <2>3, <3>2, <4>1 DEF Rising
    <3>. QED  BY <1>5, <3>1, <3>2
  <2>. QED  BY <1>5, <2>2, <2>3
<1>. QED  BY <1>1, <1>6, <1>7 DEF h

LEMMA PagedPastStatus ==
  ASSUME NEW p, NEW g, NEW d, Paged(p, g, d), NEW s \in Seq(Statuses)
  PROVE  Paged(p, Statused(g, s), d)
<1>. DEFINE t == [i \in DOMAIN s |-> Status(s[i])]
<1>1. t \in Seq(Signals) /\ \A i \in 1 .. Len(t) : t[i].type = "status"
  BY StatusSignals
<1>2. Statused(g, s) = g \o t
  BY DEF Statused
<1>. HIDE DEF t
<1>3. MessagesIn(t) = {} /\ ValuesIn(t) = {}
  BY <1>1 DEF MessagesIn, ValuesIn
<1>4. Rising(t) /\ Less(ValuesIn(g), ValuesIn(t))
  BY <1>3 DEF Rising, Less
<1>5. g \in Seq(Signals) /\ Rising(g)
  BY DEF Paged
<1>6. g \o t \in Seq(Signals) /\ Rising(g \o t) /\ ValuesIn(g \o t) = ValuesIn(g)
  <2>1. /\ g \o t \in Seq(Signals) /\ Rising(g \o t)
        /\ ValuesIn(g \o t) = ValuesIn(g) \cup ValuesIn(t)
    BY <1>1, <1>4, <1>5, BehindMessages, Zenon
  <2>2. ValuesIn(g) \cup ValuesIn(t) = ValuesIn(g)
    BY <1>3
  <2>. QED  BY <2>1, <2>2, Zenon
<1>7. Paged(p, g \o t, d)
  BY <1>6, Zenon DEF Paged
<1>. QED  BY <1>2, <1>7

\* can_recv_task: the frames for the pages among those received.
LEMMA PagedByDispatch ==
  ASSUME NEW p, NEW g, NEW d, NEW r, NEW n, Paged(p, g, d), Received(d, r, n),
         NEW f \in PickedOut(r, {i \in DOMAIN r : ForPages(r[i])})
  PROVE  /\ f \in Seq(Nat)
         /\ Paged(p, g \o [i \in DOMAIN f |-> Message(f[i])], d \o r)
<1>1. Ordered(r) /\ r \in Seq(Nat)
  BY DEF Received, Ordered
<1>. DEFINE places == {i \in DOMAIN r : ForPages(r[i])}
<1>2. places \subseteq 1 .. Len(r)
  BY <1>1
<1>3. f \in Seq(Nat) /\ Ordered(f) /\ ToSet(f) = {r[i] : i \in places}
  <2>. HIDE DEF places
  <2>1. f \in PickedOut(r, places)
    BY DEF places
  <2>. QED  BY Zenon, <1>1, <1>2, <2>1, PickOrder
<1>4. ToSet(r) = {r[i] : i \in 1 .. Len(r)} /\ DOMAIN r = 1 .. Len(r)
  BY <1>1, ToSetIs
<1>5. ToSet(f) = ForPagesOf(ToSet(r))
  BY <1>3, <1>4 DEF ForPagesOf
<1>. HIDE DEF places
<1>. DEFINE t == [i \in DOMAIN f |-> Message(f[i])]
<1>6. /\ t \in Seq(Signals) /\ Len(t) = Len(f)
      /\ \A i \in 1 .. Len(t) : t[i].type = "message" /\ t[i].value = f[i]
  BY <1>3, MessageSignals
<1>. HIDE DEF t
<1>7. MessagesIn(t) = 1 .. Len(f)
  BY <1>6 DEF MessagesIn
<1>8. ToSet(f) = {f[i] : i \in 1 .. Len(f)}
  BY Zenon, <1>3, ToSetIs
<1>9. ValuesIn(t) = ToSet(f)
  BY <1>6, <1>7, <1>8 DEF ValuesIn
<1>10. Rising(t)
  <2>1. \A i, j \in 1 .. Len(f) : i < j => f[i] < f[j]
    BY <1>3 DEF Ordered, Increasing
  <2>. QED  BY <1>6, <1>7, <2>1 DEF Rising
<1>11. ToSet(p) \subseteq ToSet(d) /\ ValuesIn(g) \subseteq ToSet(d) /\ ToSet(f) \subseteq ToSet(r)
  BY <1>5 DEF Paged, ForPagesOf
<1>12. Less(ToSet(d), ToSet(r))
  BY DEF Received
<1>13. Less(ValuesIn(g), ValuesIn(t)) /\ Less(ToSet(p), ValuesIn(t))
  BY <1>9, <1>11, <1>12 DEF Less
<1>14. g \in Seq(Signals) /\ Rising(g) /\ Less(ToSet(p), ValuesIn(g)) /\ Ordered(p)
       /\ ToSet(p) \cup ValuesIn(g) = ForPagesOf(ToSet(d))
  BY DEF Paged
<1>15. /\ g \o t \in Seq(Signals) /\ Rising(g \o t)
       /\ ValuesIn(g \o t) = ValuesIn(g) \cup ValuesIn(t)
  BY <1>6, <1>10, <1>13, <1>14, BehindMessages
<1>. DEFINE v == ValuesIn(g \o t)
            dd == ToSet(d \o r)
<1>16. v = ValuesIn(g) \cup ToSet(f) /\ dd = ToSet(d) \cup ToSet(r)
  BY Zenon, <1>9, <1>15, DispatchKeeps
<1>. HIDE DEF v, dd
<1>17. Less(ToSet(p), v)
  BY <1>9, <1>13, <1>14, <1>16 DEF Less
<1>18. ToSet(p) \cup v = ForPagesOf(dd)
  BY <1>5, <1>14, <1>16 DEF ForPagesOf
<1>19. Paged(p, g \o t, d \o r)
  BY <1>14, <1>15, <1>17, <1>18 DEF Paged, v, dd
<1>. QED  BY <1>3, <1>19 DEF t

\* The window takes the signals one by one, and a page parses a message.
LEMMA PagedToWindow ==
  ASSUME NEW p, NEW g, NEW d, Paged(p, g, d), g # <<>>
  PROVE  /\ Head(g).type = "status" => Paged(p, Tail(g), d)
         /\ Head(g).type = "message" => /\ Paged(Append(p, Head(g).value), Tail(g), d)
                                        /\ Head(g).value \in ForPagesOf(ToSet(d))
<1>1. g \in Seq(Signals) /\ Rising(g) /\ Less(ToSet(p), ValuesIn(g)) /\ Ordered(p)
      /\ ToSet(p) \cup ValuesIn(g) = ForPagesOf(ToSet(d))
  BY DEF Paged
<1>. DEFINE h == Tail(g)
<1>2. /\ h \in Seq(Signals) /\ Head(g) \in Signals /\ Head(g) = g[1] /\ 1 \in 1 .. Len(g)
      /\ Len(g) \in Nat \ {0} /\ Len(h) = Len(g) - 1
      /\ \A i \in 1 .. Len(h) : i + 1 \in 1 .. Len(g) /\ h[i] = g[i + 1]
      /\ \A i \in 2 .. Len(g) : i - 1 \in 1 .. Len(h) /\ h[i - 1] = g[i]
  BY <1>1, TailIs
<1>. HIDE DEF h
<1>3. \A i \in MessagesIn(h) : i + 1 \in MessagesIn(g) /\ h[i] = g[i + 1] /\ i \in Nat /\ i + 1 > 1
  BY <1>2 DEF MessagesIn
<1>4. \A i \in MessagesIn(g) : i = 1 \/ (i - 1 \in MessagesIn(h) /\ h[i - 1] = g[i])
  <2>. SUFFICES ASSUME NEW i \in MessagesIn(g), i # 1
                PROVE  i - 1 \in MessagesIn(h) /\ h[i - 1] = g[i]
    OBVIOUS
  <2>1. i \in 2 .. Len(g) /\ g[i].type = "message"
    BY <1>2 DEF MessagesIn
  <2>. QED  BY <1>2, <2>1 DEF MessagesIn
<1>5. Rising(h)
  <2>. SUFFICES ASSUME NEW i \in MessagesIn(h), NEW j \in MessagesIn(h), i < j
                PROVE  h[i].value < h[j].value
    BY DEF Rising
  <2>1. i + 1 < j + 1
    BY <1>3
  <2>. QED  BY <1>1, <1>3, <2>1 DEF Rising
<1>6. ValuesIn(h) \subseteq ValuesIn(g)
  BY <1>3 DEF ValuesIn
<1>7. \A x \in ValuesIn(g) : x \in ValuesIn(h) \/ (1 \in MessagesIn(g) /\ x = g[1].value)
  <2>. SUFFICES ASSUME NEW x \in ValuesIn(g)
                PROVE  x \in ValuesIn(h) \/ (1 \in MessagesIn(g) /\ x = g[1].value)
    OBVIOUS
  <2>1. PICK i \in MessagesIn(g) : x = g[i].value
    BY DEF ValuesIn
  <2>. QED  BY <1>4, <2>1 DEF ValuesIn
<1>8. CASE Head(g).type = "status"
  <2>1. ValuesIn(h) = ValuesIn(g)
    BY Zenon, <1>2, <1>6, <1>7, <1>8 DEF MessagesIn
  <2>2. Paged(p, h, d)
    BY <1>1, <1>2, <1>5, <2>1 DEF Paged
  <2>. QED  BY <1>8, <2>2 DEF h
<1>9. CASE Head(g).type = "message"
  <2>. DEFINE x == Head(g).value
              pp == Append(p, x)
  <2>1. 1 \in MessagesIn(g) /\ g[1].value = x /\ x \in ValuesIn(g)
    BY <1>2, <1>9 DEF MessagesIn, ValuesIn
  <2>2. x \in Nat /\ \A y \in ToSet(p) : y < x
    BY <1>1, <2>1, ValuesAre DEF Less
  <2>. HIDE DEF x
  <2>3. Ordered(pp) /\ ToSet(pp) = ToSet(p) \cup {x}
    BY <1>1, <2>2, AppendOrder
  <2>. HIDE DEF pp
  <2>4. \A y \in ValuesIn(h) : x < y
    <3>. SUFFICES ASSUME NEW y \in ValuesIn(h)
                  PROVE  x < y
      OBVIOUS
    <3>1. PICK i \in MessagesIn(h) : y = h[i].value
      BY DEF ValuesIn
    <3>2. i + 1 \in MessagesIn(g) /\ y = g[i + 1].value /\ 1 < i + 1
      BY <1>3, <3>1
    <3>. QED  BY <1>1, <2>1, <3>2 DEF Rising
  <2>5. Less(ToSet(pp), ValuesIn(h))
    BY <1>1, <1>6, <2>3, <2>4 DEF Less
  <2>6. ToSet(pp) \cup ValuesIn(h) = ForPagesOf(ToSet(d))
    BY <1>1, <1>6, <1>7, <2>1, <2>3
  <2>7. Paged(pp, h, d) /\ x \in ForPagesOf(ToSet(d))
    BY <1>1, <1>2, <1>5, <2>1, <2>3, <2>5, <2>6 DEF Paged
  <2>. QED  BY <1>9, <2>7 DEF h, pp, x
<1>. QED  BY <1>2, <1>8, <1>9, SignalIs

-----------------------------------------------------------------------------
(***************************************************************************)
(* Where the frames of the bus wait in each driver, in front of the queue  *)
(* of frames received.                                                     *)
(***************************************************************************)
Behaves == Received(dispatched, recv_queue, arrived)
Waits(s) == Source(s, dispatched, recv_queue, arrived)

\* ctrlcan.cpp and zlgcan_ctrl.cpp: in the adapter.
RxOK == "rx" \in DOMAIN dev /\ Waits(dev.rx)

\* udpcan.cpp: in datagrams; the statuses are in the answers of the host.
Answers == (Devices \cup {0}) \X Statuses
Datagrams == Devices \X Nat

UdpOK ==
  /\ {"started", "index", "bound", "configs", "acks", "data"} \subseteq DOMAIN dev
  /\ dev.index \in Devices \cup {0}
  /\ dev.configs \in Seq(Answers) /\ dev.acks \in Seq(Answers)
  /\ dev.data \in Seq(Datagrams)
  /\ Waits(Udp!Second(dev.data))

\* cansocketclient.cpp: in the messages on their way down, and in the queue and
\* the adapter of the channel served.
UpMessages == {Socket!Cfg("open"), Socket!Cfg("close")} \cup {Socket!Data(f) : f \in Seq(Nat)}
DownMessages ==
  {Socket!Ack("cfg", k) : k \in Nat} \cup {Socket!Ack("data", k) : k \in Nat}
    \cup {Socket!Data(f) : f \in Seq(Nat)}

DataIn(down) == {i \in 1 .. Len(down) : down[i].cmd = "data"}

\* Messages that come before the frames in A.
DownOK(down, d, r, n, A) ==
  /\ down \in Seq(DownMessages)
  /\ \A i \in DataIn(down) : Source(down[i].frames, d, r, n) /\ Less(ToSet(down[i].frames), A)
  /\ \A i, j \in DataIn(down) : i < j => Less(ToSet(down[i].frames), ToSet(down[j].frames))

ChannelOK(down, ch, d, r, n) ==
  /\ {"started", "is_ok", "tx", "rx", "rq"} \subseteq DOMAIN ch
  /\ Source(ch.rq, d, r, n) /\ Source(ch.rx, d, r, n) /\ Less(ToSet(ch.rq), ToSet(ch.rx))
  /\ DownOK(down, d, r, n, ToSet(ch.rq) \cup ToSet(ch.rx))

HostHas(h) ==
  /\ {"loop", "opened", "is_open_ok", "recv_timer", "ch"} \subseteq DOMAIN h
  /\ DOMAIN h.ch = Channels

Served == Socket!Served

SocketOK ==
  /\ HostHas(host)
  /\ {"sock", "joined", "up", "down"} \subseteq DOMAIN wire
  /\ wire.up \in Seq(UpMessages)
  /\ ChannelOK(wire.down, host.ch[Served], dispatched, recv_queue, arrived)

Commands == {<<"close">>} \cup {<<"open", index>> : index \in Devices}

StreamsOK ==
  /\ Behaves
  /\ driver \in {"ctrl", "zlg"} => RxOK
  /\ driver = "udp" => UdpOK
  /\ driver = "socket" => SocketOK

-----------------------------------------------------------------------------
(* The adapters. *)

LEMMA CtrlSame ==
  /\ \A a, b : Ctrl!Least(a, b) = Least(a, b)
  /\ \A q, f : Ctrl!Enqueue(q, f) = Enqueue(q, f)
  /\ \A s : Ctrl!WithData(s) = WithData(s)
  /\ \A q, s : Ctrl!Statused(q, s) = Statused(q, s)
<1>1. \A a, b : Ctrl!Least(a, b) = Least(a, b)
  BY DEF Ctrl!Least, Least
<1>2. \A q, f : Ctrl!Enqueue(q, f) = Enqueue(q, f)
  BY DEF Ctrl!Enqueue, Enqueue, Ctrl!Least, Least
<1>3. \A s : Ctrl!WithData(s) = WithData(s)
  BY Zenon DEF Ctrl!WithData, WithData, Ctrl!PickedOut, PickedOut, Ctrl!Ascending, Ascending,
               Ctrl!Cardinality, Cardinality
<1>4. \A q, s : Ctrl!Statused(q, s) = Statused(q, s)
  BY Zenon DEF Ctrl!Statused, Statused, Ctrl!Status, Status
<1>. QED  BY <1>1, <1>2, <1>3, <1>4

LEMMA ZlgSame ==
  /\ \A a, b : Zlg!Least(a, b) = Least(a, b)
  /\ \A q, f : Zlg!Enqueue(q, f) = Enqueue(q, f)
  /\ \A s : Zlg!WithData(s) = WithData(s)
  /\ \A q, s : Zlg!Statused(q, s) = Statused(q, s)
<1>1. \A a, b : Zlg!Least(a, b) = Least(a, b)
  BY DEF Zlg!Least, Least
<1>2. \A q, f : Zlg!Enqueue(q, f) = Enqueue(q, f)
  BY DEF Zlg!Enqueue, Enqueue, Zlg!Least, Least
<1>3. \A s : Zlg!WithData(s) = WithData(s)
  BY Zenon DEF Zlg!WithData, WithData, Zlg!PickedOut, PickedOut, Zlg!Ascending, Ascending,
               Zlg!Cardinality, Cardinality
<1>4. \A q, s : Zlg!Statused(q, s) = Statused(q, s)
  BY Zenon DEF Zlg!Statused, Statused, Zlg!Status, Status
<1>. QED  BY <1>1, <1>2, <1>3, <1>4

LEMMA RxKept ==
  ASSUME RxOK, Behaves, UNCHANGED <<dispatched, recv_queue, arrived>>,
         "rx" \in DOMAIN dev', dev'.rx = dev.rx \/ dev'.rx = <<>>
  PROVE  RxOK' /\ Behaves'
<1>1. Behaves'
  BY DEF Behaves
<1>2. Source(dev.rx, dispatched, recv_queue, arrived) /\ Source(<<>>, dispatched, recv_queue, arrived)
  BY NoSource DEF RxOK, Waits
<1>3. CASE dev'.rx = dev.rx
  BY <1>1, <1>2, <1>3 DEF RxOK, Waits
<1>4. CASE dev'.rx = <<>>
  BY <1>1, <1>2, <1>4 DEF RxOK, Waits
<1>. QED  BY <1>3, <1>4

LEMMA RxArrives ==
  ASSUME RxOK, Behaves, UNCHANGED <<dispatched, recv_queue>>,
         arrived' = arrived + 1, dev' = [dev EXCEPT !.rx = Append(@, arrived')]
  PROVE  RxOK' /\ Behaves'
<1>. DEFINE d == dispatched
            r == recv_queue
            n == arrived
            s == dev.rx
<1>1. Received(d, r, n) /\ Source(s, d, r, n) /\ "rx" \in DOMAIN dev
  BY DEF RxOK, Waits, Behaves
<1>2. dispatched' = d /\ recv_queue' = r /\ arrived' = n + 1
  OBVIOUS
<1>3. "rx" \in DOMAIN dev' /\ dev'.rx = Append(s, n + 1)
  BY <1>1, <1>2
<1>. HIDE DEF d, r, n, s
<1>4. Received(d, r, n + 1) /\ Source(Append(s, n + 1), d, r, n + 1)
  BY Zenon, <1>1, ArrivalKeeps
<1>. QED  BY Zenon, <1>2, <1>3, <1>4 DEF RxOK, Waits, Behaves

LEMMA RxReceived ==
  ASSUME RxOK, Behaves, UNCHANGED <<dispatched, arrived>>,
         NEW n, n = Least(RecvMax, Len(dev.rx)),
         NEW f \in WithData(SubSeq(dev.rx, 1, n)), recv_queue' = Enqueue(recv_queue, f),
         dev' = [dev EXCEPT !.rx = SubSeq(@, n + 1, Len(@))]
  PROVE  RxOK' /\ Behaves' /\ Len(recv_queue') <= QueueMax
<1>. DEFINE d == dispatched
            r == recv_queue
            m == arrived
            s == dev.rx
            rest == SubSeq(s, n + 1, Len(s))
<1>1. Received(d, r, m) /\ Source(s, d, r, m) /\ "rx" \in DOMAIN dev
  BY DEF RxOK, Waits, Behaves
<1>2. dispatched' = d /\ recv_queue' = Enqueue(r, f) /\ arrived' = m
  OBVIOUS
<1>3. "rx" \in DOMAIN dev' /\ dev'.rx = rest
  BY Zenon, <1>1
<1>4. n = Least(RecvMax, Len(s)) /\ f \in WithData(SubSeq(s, 1, n)) /\ RecvMax \in Nat
  BY CanBaseAssumption
<1>. HIDE DEF d, r, m, s
<1>5. Source(f, d, r, m) /\ Source(rest, d, r, m) /\ Less(ToSet(f), ToSet(rest))
  BY <1>1, <1>4, BatchOf
<1>. HIDE DEF rest
<1>6. /\ Received(d, Enqueue(r, f), m) /\ Len(Enqueue(r, f)) <= QueueMax
      /\ \A A : Later(A, d, r, m) /\ Less(ToSet(f), A) => Later(A, d, Enqueue(r, f), m)
  BY <1>1, <1>5, ReceiveKeeps
<1>7. Source(rest, d, Enqueue(r, f), m)
  BY <1>5, <1>6, Zenon DEF Source
<1>. QED  BY Zenon, <1>2, <1>3, <1>6, <1>7 DEF RxOK, Waits, Behaves

\* The driver's own actions.
LEMMA CtrlOpenStreams ==
  ASSUME RxOK, Behaves, UNCHANGED dispatched, NEW index, Ctrl!slot_open_device(index)
  PROVE  RxOK' /\ Behaves'
<1>. DEFINE d == [dev EXCEPT !.index = index]
            closed == Ctrl!Closed(d)
            open == [closed EXCEPT !.opened = @ \cup {index}]
<1>1. "rx" \in DOMAIN d
  BY DEF RxOK
<1>. HIDE DEF d
<1>2. "rx" \in DOMAIN closed /\ closed.rx = <<>>
  BY <1>1 DEF Ctrl!Closed, Ctrl!VCI_CloseDevice
<1>. HIDE DEF closed
<1>3. "rx" \in DOMAIN open /\ open.rx = <<>>
  BY <1>2
<1>. HIDE DEF open
<1>4. "rx" \in DOMAIN Ctrl!Closed(open) /\ Ctrl!Closed(open).rx = <<>>
  BY <1>3 DEF Ctrl!Closed, Ctrl!VCI_CloseDevice
<1>5. dev' \in {closed, Ctrl!Closed(open), [open EXCEPT !.started = TRUE]}
  BY DEF Ctrl!slot_open_device, closed, open, d
<1>6. "rx" \in DOMAIN dev' /\ dev'.rx = <<>>
  BY <1>2, <1>3, <1>4, <1>5
<1>7. UNCHANGED <<dispatched, recv_queue, arrived>>
  BY DEF Ctrl!slot_open_device
<1>. QED  BY <1>6, <1>7, RxKept

LEMMA CtrlCloseStreams ==
  ASSUME RxOK, Behaves, UNCHANGED dispatched, Ctrl!slot_close_device
  PROVE  RxOK' /\ Behaves'
<1>1. "rx" \in DOMAIN dev' /\ dev'.rx = <<>>
  BY DEF RxOK, Ctrl!slot_close_device, Ctrl!Closed, Ctrl!VCI_CloseDevice
<1>2. UNCHANGED <<dispatched, recv_queue, arrived>>
  BY DEF Ctrl!slot_close_device
<1>. QED  BY <1>1, <1>2, RxKept

LEMMA CtrlTransmitStreams ==
  ASSUME RxOK, Behaves, UNCHANGED dispatched, Ctrl!transmit_task
  PROVE  RxOK' /\ Behaves'
<1>1. UNCHANGED <<dispatched, recv_queue, arrived>>
  BY DEF Ctrl!transmit_task
<1>2. "rx" \in DOMAIN dev
  BY DEF RxOK
<1>3. CASE UNCHANGED dev
  BY <1>1, <1>2, <1>3, RxKept
<1>4. CASE \E e : dev' = [dev EXCEPT !.err = e]
  BY <1>1, <1>2, <1>4, RxKept
<1>5. ASSUME NEW e, dev' \in Ctrl!slot_restart_device([dev EXCEPT !.err = e])
      PROVE  RxOK' /\ Behaves'
  <2>1. "rx" \in DOMAIN dev' /\ (dev'.rx = dev.rx \/ dev'.rx = <<>>)
    BY Zenon, <1>2, <1>5 DEF Ctrl!slot_restart_device, Ctrl!VCI_CloseDevice
  <2>. QED  BY <1>1, <2>1, RxKept
<1>. QED  BY Zenon, <1>3, <1>4, <1>5 DEF Ctrl!transmit_task, Ctrl!ResetBus, Ctrl!Send

LEMMA CtrlReceiveStreams ==
  ASSUME RxOK, Behaves, UNCHANGED dispatched, Ctrl!receive_task
  PROVE  RxOK' /\ Behaves' /\ (recv_queue' = recv_queue \/ Len(recv_queue') <= QueueMax)
<1>1. UNCHANGED <<dispatched, arrived>> /\ "rx" \in DOMAIN dev
  BY DEF Ctrl!receive_task, RxOK
<1>2. CASE UNCHANGED <<dev, recv_queue>>
  BY <1>1, <1>2, RxKept
<1>3. CASE UNCHANGED recv_queue /\ \E e : dev' = [dev EXCEPT !.err = e]
  BY <1>1, <1>3, RxKept
<1>4. CASE LET n == Ctrl!Least(RecvMax, Len(dev.rx))
           IN  /\ \E frames \in Ctrl!WithData(SubSeq(dev.rx, 1, n)) :
                    recv_queue' = Ctrl!Enqueue(recv_queue, frames)
               /\ dev' = [dev EXCEPT !.rx = SubSeq(@, n + 1, Len(@))]
  <2>. DEFINE n == Least(RecvMax, Len(dev.rx))
  <2>1. PICK f \in WithData(SubSeq(dev.rx, 1, n)) : recv_queue' = Enqueue(recv_queue, f)
    BY <1>4, CtrlSame
  <2>2. dev' = [dev EXCEPT !.rx = SubSeq(@, n + 1, Len(@))]
    BY Zenon, <1>4, CtrlSame
  <2>. HIDE DEF n
  <2>. QED  BY <1>1, <2>1, <2>2, RxReceived DEF n
<1>. QED  BY <1>2, <1>3, <1>4 DEF Ctrl!receive_task

LEMMA CtrlBusStreams ==
  ASSUME RxOK, Behaves, UNCHANGED dispatched, Ctrl!BusFrame
  PROVE  RxOK' /\ Behaves'
BY RxArrives DEF Ctrl!BusFrame

LEMMA ZlgStreams ==
  ASSUME RxOK, Behaves, UNCHANGED dispatched,
         (\E index : Zlg!slot_open_device(index)) \/ Zlg!slot_close_device \/ Zlg!transmit_task
  PROVE  RxOK' /\ Behaves'
<1>1. UNCHANGED <<dispatched, recv_queue, arrived>> /\ "rx" \in DOMAIN dev
  BY DEF Zlg!slot_open_device, Zlg!slot_close_device, Zlg!transmit_task, RxOK
<1>. DEFINE closed == Zlg!ZCAN_CloseDevice(dev)
<1>2. "rx" \in DOMAIN closed /\ closed.rx = <<>>
  BY <1>1 DEF Zlg!ZCAN_CloseDevice
<1>. HIDE DEF closed
<1>3. \A p \in Zlg!Opening(closed) : "rx" \in DOMAIN p[1] /\ p[1].rx = <<>>
  <2>. DEFINE open == [closed EXCEPT !.device_handle = TRUE, !.opened = TRUE]
              up == [open EXCEPT !.channel_handle = TRUE]
              none == [closed EXCEPT !.device_handle = FALSE]
              half == [open EXCEPT !.channel_handle = FALSE]
  <2>1. "rx" \in DOMAIN open /\ open.rx = <<>>
    BY <1>2
  <2>2. "rx" \in DOMAIN none /\ none.rx = <<>>
    BY <1>2
  <2>. HIDE DEF open
  <2>3. "rx" \in DOMAIN up /\ up.rx = <<>> /\ "rx" \in DOMAIN half /\ half.rx = <<>>
    BY <2>1
  <2>. HIDE DEF up, half, none
  <2>4. \A p \in Zlg!Opening(closed) : p[1] \in {none, half, up}
    BY DEF Zlg!Opening, open, up, none, half
  <2>. QED  BY <2>2, <2>3, <2>4
<1>4. dev' = dev \/ dev' = closed \/ \E p \in Zlg!Opening(closed) : dev' = p[1]
  BY Zenon DEF Zlg!slot_open_device, Zlg!slot_close_device, Zlg!transmit_task, closed
<1>5. CASE UNCHANGED dev
  BY <1>1, <1>5, RxKept
<1>6. CASE dev' = closed
  BY <1>1, <1>2, <1>6, RxKept
<1>7. ASSUME NEW p \in Zlg!Opening(closed), dev' = p[1]
      PROVE  RxOK' /\ Behaves'
  <2>1. "rx" \in DOMAIN dev' /\ dev'.rx = <<>>
    BY <1>3, <1>7
  <2>. QED  BY <1>1, <2>1, RxKept
<1>. QED  BY <1>4, <1>5, <1>6, <1>7

LEMMA ZlgReceiveStreams ==
  ASSUME RxOK, Behaves, UNCHANGED dispatched, Zlg!receive_task
  PROVE  RxOK' /\ Behaves' /\ Len(recv_queue') <= QueueMax
<1>1. UNCHANGED <<dispatched, arrived>>
  BY DEF Zlg!receive_task
<1>. DEFINE n == Least(RecvMax, Len(dev.rx))
<1>2. /\ \E f \in WithData(SubSeq(dev.rx, 1, n)) : recv_queue' = Enqueue(recv_queue, f)
      /\ dev' = [dev EXCEPT !.rx = SubSeq(@, n + 1, Len(@))]
  BY Zenon, ZlgSame DEF Zlg!receive_task
<1>3. PICK f \in WithData(SubSeq(dev.rx, 1, n)) : recv_queue' = Enqueue(recv_queue, f)
  BY <1>2
<1>. HIDE DEF n
<1>. QED  BY Zenon, <1>1, <1>2, <1>3, RxReceived DEF n

LEMMA ZlgBusStreams ==
  ASSUME RxOK, Behaves, UNCHANGED dispatched, Zlg!BusFrame
  PROVE  RxOK' /\ Behaves'
BY RxArrives DEF Zlg!BusFrame

-----------------------------------------------------------------------------
(* The datagrams. *)

LEMMA UdpSame ==
  /\ \A q, f : Udp!Enqueue(q, f) = Enqueue(q, f)
  /\ \A q, p : Udp!PickedOut(q, p) = PickedOut(q, p)
  /\ \A q, s : Udp!Statused(q, s) = Statused(q, s)
<1>1. \A q, f : Udp!Enqueue(q, f) = Enqueue(q, f)
  BY DEF Udp!Enqueue, Enqueue, Udp!Least, Least
<1>2. \A q, p : Udp!PickedOut(q, p) = PickedOut(q, p)
  BY Zenon DEF Udp!PickedOut, PickedOut, Udp!Ascending, Ascending, Udp!Cardinality, Cardinality
<1>3. \A q, s : Udp!Statused(q, s) = Statused(q, s)
  BY Zenon DEF Udp!Statused, Statused, Udp!Status, Status
<1>. QED  BY <1>1, <1>2, <1>3

\* What the datagrams carry.
LEMMA SecondIs ==
  ASSUME NEW S, NEW B, \A x \in S : x[2] \in B, NEW q \in Seq(S)
  PROVE  /\ Udp!Second(q) \in Seq(B) /\ Len(Udp!Second(q)) = Len(q) /\ DOMAIN q = 1 .. Len(q)
         /\ \A i \in 1 .. Len(q) : Udp!Second(q)[i] = q[i][2]
<1>1. /\ Len(q) \in Nat /\ DOMAIN q = 1 .. Len(q)
      /\ \A i \in 1 .. Len(q) : q[i][2] \in B
  OBVIOUS
<1>. QED  BY <1>1 DEF Udp!Second

LEMMA SecondAppend ==
  ASSUME NEW S, NEW B, \A x \in S : x[2] \in B, NEW q \in Seq(S), NEW p \in S
  PROVE  Udp!Second(Append(q, p)) = Append(Udp!Second(q), p[2])
<1>. DEFINE b == p[2]
            long == Append(q, p)
            s == Udp!Second(q)
            t == Udp!Second(long)
            u == Append(s, b)
<1>1. b \in B /\ p[2] = b
  OBVIOUS
<1>. HIDE DEF b
<1>2. /\ long \in Seq(S) /\ Len(q) \in Nat /\ Len(long) = Len(q) + 1
      /\ long[Len(q) + 1] = p /\ \A i \in 1 .. Len(q) : long[i] = q[i]
  BY <1>1
<1>. HIDE DEF long
<1>3. /\ s \in Seq(B) /\ Len(s) = Len(q) /\ \A i \in 1 .. Len(q) : s[i] = q[i][2]
  BY SecondIs, Zenon
<1>4. /\ t \in Seq(B) /\ Len(t) = Len(long) /\ \A i \in 1 .. Len(long) : t[i] = long[i][2]
  BY <1>2, SecondIs, Zenon
<1>. HIDE DEF s, t
<1>5. /\ u \in Seq(B) /\ Len(u) = Len(q) + 1 /\ u[Len(q) + 1] = b
      /\ \A i \in 1 .. Len(q) : u[i] = s[i]
  BY <1>1, <1>2, <1>3
<1>. HIDE DEF u
<1>6. \A i \in 1 .. Len(q) + 1 : t[i] = u[i]
  <2>. SUFFICES ASSUME NEW i \in 1 .. Len(q) + 1
                PROVE  t[i] = u[i]
    OBVIOUS
  <2>1. CASE i \in 1 .. Len(q)
    BY <1>2, <1>3, <1>4, <1>5, <2>1
  <2>2. CASE i = Len(q) + 1
    BY <1>1, <1>2, <1>4, <1>5, <2>2
  <2>. QED  BY <1>2, <2>1, <2>2
<1>7. t = u
  BY <1>2, <1>4, <1>5, <1>6
<1>. QED  BY <1>7 DEF t, u, long, s, b

LEMMA DatagramIs == \A x \in Datagrams : x[2] \in Nat
BY DEF Datagrams

LEMMA SecondOfNone == Udp!Second(<<>>) = <<>>
BY DEF Udp!Second

LEMMA UdpQuiet ==
  ASSUME UdpOK, Behaves, UNCHANGED <<dispatched, recv_queue, arrived>>,
         {"started", "index", "bound", "configs", "acks", "data"} \subseteq DOMAIN dev',
         dev'.index \in Devices \cup {0},
         dev'.configs \in Seq(Answers), dev'.acks \in Seq(Answers), dev'.data = dev.data
  PROVE  UdpOK' /\ Behaves'
BY DEF UdpOK, Behaves, Waits

LEMMA UdpOpenStreams ==
  ASSUME UdpOK, Behaves, UNCHANGED dispatched, NEW index \in Devices, Udp!slot_open_device(index)
  PROVE  UdpOK' /\ Behaves'
<1>1. UNCHANGED <<dispatched, recv_queue, arrived>>
  BY DEF Udp!slot_open_device
<1>. DEFINE a == <<index, STATUS_OK>>
            configs == Append(dev.configs, a)
<1>2. a \in Answers
  BY DEF Answers, Statuses, Udp!STATUS_OK, STATUS_OK
<1>3. dev' = [dev EXCEPT !.bound = TRUE, !.index = index, !.started = TRUE, !.configs = configs]
  BY DEF Udp!slot_open_device, Udp!STATUS_OK, STATUS_OK
<1>. HIDE DEF a
<1>4. configs \in Seq(Answers)
  BY <1>2 DEF UdpOK
<1>. HIDE DEF configs
<1>5. /\ {"started", "index", "bound", "configs", "acks", "data"} \subseteq DOMAIN dev'
      /\ dev'.index = index /\ dev'.configs = configs
      /\ dev'.acks = dev.acks /\ dev'.data = dev.data
  BY <1>3 DEF UdpOK
<1>6. dev.acks \in Seq(Answers)
  BY DEF UdpOK
<1>7. dev'.index \in Devices \cup {0} /\ dev'.configs \in Seq(Answers) /\ dev'.acks \in Seq(Answers)
  BY <1>4, <1>5, <1>6
<1>. QED  BY <1>1, <1>5, <1>7, UdpQuiet

LEMMA UdpCloseStreams ==
  ASSUME UdpOK, Behaves, UNCHANGED dispatched, Udp!slot_close_device
  PROVE  UdpOK' /\ Behaves'
<1>1. UNCHANGED <<dispatched, recv_queue, arrived>>
  BY DEF Udp!slot_close_device
<1>. DEFINE a == <<dev.index, STATUS_OFFLINE>>
            configs == Append(dev.configs, a)
<1>2. a \in Answers
  BY DEF Answers, Statuses, STATUS_OFFLINE, UdpOK
<1>3. dev' = [dev EXCEPT !.started = FALSE, !.configs = configs]
  BY DEF Udp!slot_close_device, Udp!STATUS_OFFLINE, STATUS_OFFLINE
<1>. HIDE DEF a
<1>4. configs \in Seq(Answers)
  BY <1>2 DEF UdpOK
<1>. HIDE DEF configs
<1>5. /\ {"started", "index", "bound", "configs", "acks", "data"} \subseteq DOMAIN dev'
      /\ dev'.index = dev.index /\ dev'.configs = configs
      /\ dev'.acks = dev.acks /\ dev'.data = dev.data
  BY <1>3 DEF UdpOK
<1>6. dev.acks \in Seq(Answers) /\ dev.index \in Devices \cup {0}
  BY DEF UdpOK
<1>7. dev'.index \in Devices \cup {0} /\ dev'.configs \in Seq(Answers) /\ dev'.acks \in Seq(Answers)
  BY <1>4, <1>5, <1>6
<1>. QED  BY <1>1, <1>5, <1>7, UdpQuiet

LEMMA UdpAnswersStreams ==
  ASSUME UdpOK, Behaves, UNCHANGED dispatched, Udp!HostAnswers
  PROVE  UdpOK' /\ Behaves'
<1>1. UNCHANGED <<dispatched, recv_queue, arrived>> /\ dev.configs # <<>>
  BY DEF Udp!HostAnswers
<1>. DEFINE fields == {"started", "index", "bound", "configs", "acks", "data"}
            rest == Tail(dev.configs)
            first == Head(dev.configs)
            bad == <<first[1], STATUS_OFFLINE>>
<1>2. dev.configs \in Seq(Answers) /\ dev.acks \in Seq(Answers) /\ fields \subseteq DOMAIN dev
      /\ dev.index \in Devices \cup {0}
  BY DEF UdpOK
<1>3. rest \in Seq(Answers) /\ first \in Answers
  BY <1>1, <1>2
<1>. HIDE DEF rest, first
<1>4. bad \in Answers
  BY <1>3 DEF Answers, Statuses, STATUS_OFFLINE
<1>5. \/ dev' = [dev EXCEPT !.configs = rest, !.acks = Append(@, first)]
      \/ dev' = [dev EXCEPT !.configs = rest, !.acks = Append(@, bad)]
      \/ dev' = [dev EXCEPT !.configs = rest]
  BY DEF Udp!HostAnswers, rest, first, Udp!STATUS_OFFLINE, STATUS_OFFLINE
<1>. HIDE DEF bad
<1>6. /\ fields \subseteq DOMAIN dev' /\ dev'.index = dev.index /\ dev'.data = dev.data
      /\ dev'.configs = rest
      /\ \/ dev'.acks = dev.acks
         \/ dev'.acks = Append(dev.acks, first)
         \/ dev'.acks = Append(dev.acks, bad)
  BY Zenon, <1>2, <1>5
<1>7. dev'.acks \in Seq(Answers) /\ dev'.configs \in Seq(Answers) /\ dev'.index \in Devices \cup {0}
  <2>1. Append(dev.acks, first) \in Seq(Answers) /\ Append(dev.acks, bad) \in Seq(Answers)
    BY <1>2, <1>3, <1>4
  <2>2. dev'.acks \in Seq(Answers)
    BY <1>2, <1>6, <2>1, Zenon
  <2>3. dev'.configs \in Seq(Answers) /\ dev'.index \in Devices \cup {0}
    BY <1>2, <1>3, <1>6
  <2>. QED  BY <2>2, <2>3
<1>. QED  BY <1>1, <1>6, <1>7, UdpQuiet

LEMMA UdpAckStreams ==
  ASSUME UdpOK, Behaves, UNCHANGED dispatched, Udp!slot_ready_read_ack
  PROVE  /\ UdpOK' /\ Behaves'
         /\ \E statuses \in Seq(Statuses) : gui' = Statused(gui, statuses)
<1>1. UNCHANGED <<dispatched, recv_queue, arrived>> /\ dev' = [dev EXCEPT !.acks = <<>>]
  BY DEF Udp!slot_ready_read_ack
<1>2. /\ {"started", "index", "bound", "configs", "acks", "data"} \subseteq DOMAIN dev
      /\ dev.configs \in Seq(Answers) /\ dev.index \in Devices \cup {0}
  BY DEF UdpOK
<1>3. /\ {"started", "index", "bound", "configs", "acks", "data"} \subseteq DOMAIN dev'
      /\ dev'.index = dev.index /\ dev'.configs = dev.configs /\ dev'.data = dev.data
      /\ dev'.acks = <<>>
  BY <1>1, <1>2
<1>4. dev'.acks \in Seq(Answers) /\ dev'.configs \in Seq(Answers) /\ dev'.index \in Devices \cup {0}
  BY <1>2, <1>3
<1>. DEFINE s == Udp!Second(dev.acks)
            places == {i \in DOMAIN dev.acks : dev.acks[i][1] = dev.index}
<1>5. s \in Seq(Statuses) /\ places \subseteq 1 .. Len(s)
  <2>1. dev.acks \in Seq(Answers) /\ \A x \in Answers : x[2] \in Statuses
    BY DEF UdpOK, Answers
  <2>2. s \in Seq(Statuses) /\ Len(s) = Len(dev.acks) /\ DOMAIN dev.acks = 1 .. Len(dev.acks)
    BY <2>1, SecondIs, Zenon
  <2>. QED  BY <2>2
<1>6. PICK statuses \in PickedOut(s, places) : gui' = Statused(gui, statuses)
  BY Zenon, UdpSame DEF Udp!slot_ready_read_ack, Udp!ForThis, Udp!sig_open_finish
<1>. HIDE DEF s, places
<1>7. statuses \in Seq(Statuses)
  BY Zenon, <1>5, <1>6, PickOrder
<1>. QED  BY <1>1, <1>3, <1>4, <1>6, <1>7, UdpQuiet

LEMMA UdpDataStreams ==
  ASSUME UdpOK, Behaves, UNCHANGED dispatched, Udp!slot_ready_read_data
  PROVE  UdpOK' /\ Behaves' /\ Len(recv_queue') <= QueueMax
<1>. DEFINE fields == {"started", "index", "bound", "configs", "acks", "data"}
            s == Udp!Second(dev.data)
            places == {i \in DOMAIN dev.data : dev.data[i][1] = dev.index}
            d == dispatched
            r == recv_queue
            n == arrived
<1>1. /\ UNCHANGED <<dispatched, arrived>> /\ dev' = [dev EXCEPT !.data = <<>>]
      /\ \E f \in PickedOut(s, places) : recv_queue' = Enqueue(recv_queue, f)
  BY Zenon, UdpSame DEF Udp!slot_ready_read_data, Udp!ForThis
<1>2. /\ fields \subseteq DOMAIN dev /\ dev.index \in Devices \cup {0}
      /\ dev.configs \in Seq(Answers) /\ dev.acks \in Seq(Answers) /\ dev.data \in Seq(Datagrams)
      /\ Source(s, d, r, n) /\ Received(d, r, n)
  BY DEF UdpOK, Waits, Behaves
<1>3. /\ fields \subseteq DOMAIN dev' /\ dev'.index = dev.index
      /\ dev'.configs = dev.configs /\ dev'.acks = dev.acks /\ dev'.data = <<>>
  BY <1>1, <1>2
<1>4. s \in Seq(Nat) /\ places \subseteq 1 .. Len(s)
  <2>1. s \in Seq(Nat) /\ Len(s) = Len(dev.data) /\ DOMAIN dev.data = 1 .. Len(dev.data)
    BY <1>2, DatagramIs, SecondIs, Zenon
  <2>. QED  BY <2>1
<1>5. PICK f \in PickedOut(s, places) : recv_queue' = Enqueue(r, f)
  BY Zenon, <1>1
<1>. HIDE DEF s, places, d, r, n
<1>6. Ordered(s) /\ Later(ToSet(s), d, r, n)
  BY <1>2 DEF Source
<1>7. Ordered(f) /\ ToSet(f) \subseteq ToSet(s)
  BY Zenon, <1>4, <1>6, PickOrder
<1>8. Source(f, d, r, n)
  BY <1>6, <1>7, PartLater DEF Source
<1>9. Received(d, Enqueue(r, f), n) /\ Len(Enqueue(r, f)) <= QueueMax
  BY <1>2, <1>8, ReceiveKeeps
<1>10. Behaves' /\ Len(recv_queue') <= QueueMax
  BY <1>1, <1>5, <1>9 DEF Behaves, d, n
<1>11. Udp!Second(dev'.data) = <<>>
  BY <1>3, SecondOfNone
<1>12. Source(<<>>, dispatched', recv_queue', arrived')
  BY NoSource
<1>13. dev'.data \in Seq(Datagrams)
  BY <1>3
<1>14. UdpOK'
  BY <1>2, <1>3, <1>11, <1>12, <1>13 DEF UdpOK, Waits
<1>. QED  BY <1>10, <1>14

LEMMA UdpBusStreams ==
  ASSUME UdpOK, Behaves, UNCHANGED dispatched, Udp!BusFrame
  PROVE  UdpOK' /\ Behaves'
<1>. DEFINE fields == {"started", "index", "bound", "configs", "acks", "data"}
            q == dev.data
            d == dispatched
            r == recv_queue
            n == arrived
<1>1. UNCHANGED <<dispatched, recv_queue>> /\ arrived' = arrived + 1
  BY DEF Udp!BusFrame
<1>2. PICK index \in Devices : dev' = [dev EXCEPT !.data = Append(@, <<index, arrived'>>)]
  BY Zenon DEF Udp!BusFrame
<1>3. /\ fields \subseteq DOMAIN dev /\ dev.index \in Devices \cup {0}
      /\ dev.configs \in Seq(Answers) /\ dev.acks \in Seq(Answers) /\ q \in Seq(Datagrams)
      /\ Source(Udp!Second(q), d, r, n) /\ Received(d, r, n)
  BY DEF UdpOK, Waits, Behaves
<1>4. n + 1 \in Nat
  BY <1>3 DEF Received
<1>5. /\ fields \subseteq DOMAIN dev' /\ dev'.index = dev.index
      /\ dev'.configs = dev.configs /\ dev'.acks = dev.acks
      /\ dev'.data = Append(q, <<index, n + 1>>)
  BY <1>1, <1>2, <1>3
<1>6. dispatched' = d /\ recv_queue' = r /\ arrived' = n + 1
  BY <1>1
<1>. HIDE DEF q, d, r, n
<1>7. Udp!Second(dev'.data) = Append(Udp!Second(q), n + 1)
  <2>. DEFINE p == <<index, n + 1>>
  <2>1. p \in Datagrams /\ p[2] = n + 1
    BY <1>4 DEF Datagrams
  <2>2. dev'.data = Append(q, p)
    BY <1>5
  <2>. HIDE DEF p
  <2>3. Udp!Second(Append(q, p)) = Append(Udp!Second(q), p[2])
    BY <1>3, <2>1, DatagramIs, SecondAppend, Zenon
  <2>. QED  BY <2>1, <2>2, <2>3
<1>8. Received(d, r, n + 1) /\ Source(Append(Udp!Second(q), n + 1), d, r, n + 1)
  BY Zenon, <1>3, ArrivalKeeps
<1>9. Behaves' /\ Waits(Udp!Second(dev.data))'
  BY <1>6, <1>7, <1>8 DEF Behaves, Waits
<1>10. dev'.data \in Seq(Datagrams)
  <2>1. <<index, n + 1>> \in Devices \X Nat
    BY <1>4
  <2>. QED  BY <1>3, <1>5, <2>1 DEF Datagrams
<1>11. UdpOK'
  BY <1>3, <1>5, <1>9, <1>10 DEF UdpOK
<1>. QED  BY <1>9, <1>11

-----------------------------------------------------------------------------
(* The stream of the socket driver. *)

LEMMA DownMessageIs ==
  /\ \A m \in DownMessages : m.cmd = "data" => m.frames \in Seq(Nat) /\ m = Socket!Data(m.frames)
  /\ \A f \in Seq(Nat) : /\ Socket!Data(f) \in DownMessages
                         /\ Socket!Data(f).cmd = "data" /\ Socket!Data(f).frames = f
  /\ \A k \in Nat : \A of \in {"cfg", "data"} :
       Socket!Ack(of, k) \in DownMessages /\ Socket!Ack(of, k).cmd # "data"
<1>1. ASSUME NEW f \in Seq(Nat)
      PROVE  /\ Socket!Data(f) \in DownMessages
             /\ Socket!Data(f).cmd = "data" /\ Socket!Data(f).frames = f
  BY DEF DownMessages, Socket!Data
<1>2. ASSUME NEW k \in Nat, NEW of \in {"cfg", "data"}
      PROVE  Socket!Ack(of, k) \in DownMessages /\ Socket!Ack(of, k).cmd # "data"
  <2>1. Socket!Ack("cfg", k) \in DownMessages /\ Socket!Ack("data", k) \in DownMessages
    BY Zenon DEF DownMessages
  <2>2. of = "cfg" \/ of = "data"
    OBVIOUS
  <2>3. Socket!Ack(of, k) \in DownMessages
    BY <2>1, <2>2, Zenon
  <2>4. Socket!Ack(of, k).cmd # "data"
    BY DEF Socket!Ack
  <2>. QED  BY <2>3, <2>4
<1>3. ASSUME NEW m \in DownMessages, m.cmd = "data"
      PROVE  m.frames \in Seq(Nat) /\ m = Socket!Data(m.frames)
  <2>1. CASE \E of \in {"cfg", "data"}, k \in Nat : m = Socket!Ack(of, k)
    BY <1>3, <2>1 DEF Socket!Ack
  <2>2. CASE m \in {Socket!Data(f) : f \in Seq(Nat)}
    <3>1. PICK f \in Seq(Nat) : m = Socket!Data(f)
      BY <2>2
    <3>. QED  BY <1>1, <3>1
  <2>. QED  BY <2>1, <2>2 DEF DownMessages
<1>. QED  BY <1>1, <1>2, <1>3

\* Nothing of what follows the messages need be what it was, so long as they
\* still come before it.
LEMMA DownMap ==
  ASSUME NEW down, NEW d, NEW r, NEW n, NEW A, DownOK(down, d, r, n, A),
         NEW d2, NEW r2, NEW n2, NEW A2,
         \A s : Source(s, d, r, n) /\ Less(ToSet(s), A)
                  => Source(s, d2, r2, n2) /\ Less(ToSet(s), A2)
  PROVE  DownOK(down, d2, r2, n2, A2)
<1>1. /\ down \in Seq(DownMessages)
      /\ \A i \in DataIn(down) : Source(down[i].frames, d, r, n) /\ Less(ToSet(down[i].frames), A)
      /\ \A i, j \in DataIn(down) : i < j => Less(ToSet(down[i].frames), ToSet(down[j].frames))
  BY DEF DownOK
<1>2. \A i \in DataIn(down) : Source(down[i].frames, d2, r2, n2) /\ Less(ToSet(down[i].frames), A2)
  BY <1>1, Zenon
<1>. QED  BY <1>1, <1>2 DEF DownOK

LEMMA DownFewer ==
  ASSUME NEW down, NEW d, NEW r, NEW n, NEW A, DownOK(down, d, r, n, A), NEW B, B \subseteq A
  PROVE  DownOK(down, d, r, n, B)
<1>1. \A s : Source(s, d, r, n) /\ Less(ToSet(s), A) => Source(s, d, r, n) /\ Less(ToSet(s), B)
  BY DEF Less
<1>. QED  BY <1>1, DownMap

LEMMA DownRest ==
  ASSUME NEW down, NEW d, NEW r, NEW n, NEW A, DownOK(down, d, r, n, A), NEW k \in 0 .. Len(down)
  PROVE  /\ DownOK(SubSeq(down, k + 1, Len(down)), d, r, n, A)
         /\ \A i \in DataIn(SubSeq(down, k + 1, Len(down))) :
              i + k \in DataIn(down) /\ SubSeq(down, k + 1, Len(down))[i] = down[i + k]
<1>1. /\ down \in Seq(DownMessages) /\ Len(down) \in Nat
      /\ \A i \in DataIn(down) : Source(down[i].frames, d, r, n) /\ Less(ToSet(down[i].frames), A)
      /\ \A i, j \in DataIn(down) : i < j => Less(ToSet(down[i].frames), ToSet(down[j].frames))
  BY DEF DownOK
<1>. DEFINE rest == SubSeq(down, k + 1, Len(down))
<1>2. /\ rest \in Seq(DownMessages) /\ Len(rest) = Len(down) - k
      /\ \A i \in 1 .. Len(rest) : i + k \in 1 .. Len(down) /\ rest[i] = down[i + k]
  BY <1>1
<1>. HIDE DEF rest
<1>3. \A i \in DataIn(rest) : i \in Nat /\ i + k \in DataIn(down) /\ rest[i] = down[i + k]
  BY <1>1, <1>2 DEF DataIn
<1>4. \A i \in DataIn(rest) : Source(rest[i].frames, d, r, n) /\ Less(ToSet(rest[i].frames), A)
  BY <1>1, <1>3
<1>5. \A i, j \in DataIn(rest) : i < j => Less(ToSet(rest[i].frames), ToSet(rest[j].frames))
  <2>. SUFFICES ASSUME NEW i \in DataIn(rest), NEW j \in DataIn(rest), i < j
                PROVE  Less(ToSet(rest[i].frames), ToSet(rest[j].frames))
    OBVIOUS
  <2>1. i + k < j + k
    BY <1>3
  <2>. QED  BY <1>1, <1>3, <2>1
<1>. QED  BY Zenon, <1>2, <1>3, <1>4, <1>5 DEF DownOK, rest

LEMMA AppendIs ==
  ASSUME NEW S, NEW q \in Seq(S), NEW x \in S
  PROVE  /\ Append(q, x) \in Seq(S) /\ Len(q) \in Nat /\ Len(Append(q, x)) = Len(q) + 1
         /\ Append(q, x)[Len(q) + 1] = x
         /\ \A i \in 1 .. Len(q) : Append(q, x)[i] = q[i]
OBVIOUS

LEMMA DownAck ==
  ASSUME NEW down, NEW d, NEW r, NEW n, NEW A, DownOK(down, d, r, n, A),
         NEW m \in DownMessages, m.cmd # "data"
  PROVE  DownOK(Append(down, m), d, r, n, A)
<1>1. /\ down \in Seq(DownMessages) /\ Len(down) \in Nat
      /\ \A i \in DataIn(down) : Source(down[i].frames, d, r, n) /\ Less(ToSet(down[i].frames), A)
      /\ \A i, j \in DataIn(down) : i < j => Less(ToSet(down[i].frames), ToSet(down[j].frames))
  BY DEF DownOK
<1>. DEFINE long == Append(down, m)
<1>2. /\ long \in Seq(DownMessages) /\ Len(long) = Len(down) + 1 /\ long[Len(down) + 1] = m
      /\ \A i \in 1 .. Len(down) : long[i] = down[i]
  BY <1>1, AppendIs
<1>. HIDE DEF long
<1>3. \A i \in DataIn(long) : i \in DataIn(down) /\ long[i] = down[i]
  <2>. SUFFICES ASSUME NEW i \in DataIn(long)
                PROVE  i \in DataIn(down) /\ long[i] = down[i]
    OBVIOUS
  <2>1. i \in 1 .. Len(down)
    BY <1>1, <1>2 DEF DataIn
  <2>. QED  BY <1>2, <2>1 DEF DataIn
<1>. QED  BY Zenon, <1>1, <1>2, <1>3 DEF DownOK, long

\* Frames put on the stream come before those that stay behind.
LEMMA DownData ==
  ASSUME NEW down, NEW d, NEW r, NEW n, NEW A, DownOK(down, d, r, n, A),
         NEW f, Source(f, d, r, n), ToSet(f) \subseteq A,
         NEW B, B \subseteq A, Less(ToSet(f), B)
  PROVE  DownOK(Append(down, Socket!Data(f)), d, r, n, B)
<1>1. /\ down \in Seq(DownMessages) /\ Len(down) \in Nat
      /\ \A i \in DataIn(down) : Source(down[i].frames, d, r, n) /\ Less(ToSet(down[i].frames), A)
      /\ \A i, j \in DataIn(down) : i < j => Less(ToSet(down[i].frames), ToSet(down[j].frames))
  BY DEF DownOK
<1>. DEFINE m == Socket!Data(f)
            long == Append(down, m)
<1>2. m \in DownMessages /\ m.frames = f
  BY DownMessageIs DEF Source, Ordered
<1>. HIDE DEF m
<1>3. /\ long \in Seq(DownMessages) /\ Len(long) = Len(down) + 1 /\ long[Len(down) + 1] = m
      /\ \A i \in 1 .. Len(down) : long[i] = down[i]
  BY <1>1, <1>2, AppendIs
<1>. HIDE DEF long
<1>4. \A i \in DataIn(long) :
        \/ i \in DataIn(down) /\ long[i] = down[i]
        \/ i = Len(down) + 1 /\ long[i] = m
  <2>. SUFFICES ASSUME NEW i \in DataIn(long), i # Len(down) + 1
                PROVE  i \in DataIn(down) /\ long[i] = down[i]
    BY <1>3
  <2>1. i \in 1 .. Len(down)
    BY <1>1, <1>3 DEF DataIn
  <2>. QED  BY <1>3, <2>1 DEF DataIn
<1>5. ASSUME NEW i \in DataIn(long)
      PROVE  Source(long[i].frames, d, r, n) /\ Less(ToSet(long[i].frames), B)
  <2>1. CASE i \in DataIn(down) /\ long[i] = down[i]
    <3>1. Source(down[i].frames, d, r, n) /\ Less(ToSet(down[i].frames), A)
      BY <1>1, <2>1
    <3>2. Less(ToSet(down[i].frames), B)
      BY <3>1 DEF Less
    <3>. QED  BY <2>1, <3>1, <3>2
  <2>2. CASE long[i] = m
    BY <1>2, <2>2
  <2>. QED  BY <1>4, <2>1, <2>2
<1>6. ASSUME NEW i \in DataIn(long), NEW j \in DataIn(long), i < j
      PROVE  Less(ToSet(long[i].frames), ToSet(long[j].frames))
  <2>1. i \in DataIn(down) /\ long[i] = down[i]
    <3>1. i # Len(down) + 1
      BY <1>1, <1>3, <1>6 DEF DataIn
    <3>. QED  BY <1>4, <3>1
  <2>2. CASE j \in DataIn(down) /\ long[j] = down[j]
    BY <1>1, <1>6, <2>1, <2>2
  <2>3. CASE long[j] = m
    <3>1. Less(ToSet(down[i].frames), A)
      BY <1>1, <2>1
    <3>2. Less(ToSet(down[i].frames), ToSet(f))
      BY <3>1 DEF Less
    <3>. QED  BY <1>2, <2>1, <2>3, <3>2
  <2>. QED  BY <1>4, <2>2, <2>3
<1>7. \A i, j \in DataIn(long) : i < j => Less(ToSet(long[i].frames), ToSet(long[j].frames))
  BY <1>6
<1>. HIDE DEF m
<1>8. DownOK(long, d, r, n, B)
  BY <1>3, <1>5, <1>7, Zenon DEF DownOK
<1>. QED  BY <1>8 DEF long, m

-----------------------------------------------------------------------------
(* The channel served, with the stream to the program. *)

LEMMA ChannelMap ==
  ASSUME NEW down, NEW ch, NEW d, NEW r, NEW n, ChannelOK(down, ch, d, r, n),
         NEW ch2, {"started", "is_ok", "tx", "rx", "rq"} \subseteq DOMAIN ch2,
         ch2.rq = ch.rq, ch2.rx = ch.rx \/ ch2.rx = <<>>
  PROVE  ChannelOK(down, ch2, d, r, n)
<1>1. /\ Source(ch.rq, d, r, n) /\ Source(ch.rx, d, r, n) /\ Less(ToSet(ch.rq), ToSet(ch.rx))
      /\ DownOK(down, d, r, n, ToSet(ch.rq) \cup ToSet(ch.rx))
  BY DEF ChannelOK
<1>2. Source(<<>>, d, r, n) /\ ToSet(<<>>) = {}
  BY NoSource
<1>3. CASE ch2.rx = ch.rx
  BY <1>1, <1>3 DEF ChannelOK
<1>4. CASE ch2.rx = <<>>
  <2>. DEFINE none == ToSet(<<>>)
  <2>1. none = {}
    BY <1>2
  <2>. HIDE DEF none
  <2>2. Less(ToSet(ch.rq), none) /\ ToSet(ch.rq) \cup none \subseteq ToSet(ch.rq) \cup ToSet(ch.rx)
    BY <2>1 DEF Less
  <2>3. DownOK(down, d, r, n, ToSet(ch.rq) \cup none)
    BY <1>1, <2>2, DownFewer
  <2>. QED  BY <1>1, <1>2, <1>4, <2>2, <2>3 DEF ChannelOK, none
<1>. QED  BY <1>3, <1>4

\* receive_task of the channel.
LEMMA ChannelTaken ==
  ASSUME NEW down, NEW ch, NEW d, NEW r, NEW n, ChannelOK(down, ch, d, r, n),
         NEW m, m = Least(RecvMax, Len(ch.rx)), NEW f \in WithData(SubSeq(ch.rx, 1, m)),
         NEW ch2, {"started", "is_ok", "tx", "rx", "rq"} \subseteq DOMAIN ch2,
         ch2.rq = Enqueue(ch.rq, f), ch2.rx = SubSeq(ch.rx, m + 1, Len(ch.rx))
  PROVE  ChannelOK(down, ch2, d, r, n)
<1>. DEFINE q == ch.rq
            s == ch.rx
            rest == SubSeq(s, m + 1, Len(s))
            q2 == Enqueue(q, f)
<1>1. /\ Source(q, d, r, n) /\ Source(s, d, r, n) /\ Less(ToSet(q), ToSet(s))
      /\ DownOK(down, d, r, n, ToSet(q) \cup ToSet(s))
  BY DEF ChannelOK
<1>2. ch2.rq = q2 /\ ch2.rx = rest
  OBVIOUS
<1>3. m = Least(RecvMax, Len(s)) /\ f \in WithData(SubSeq(s, 1, m)) /\ RecvMax \in Nat
  BY CanBaseAssumption
<1>. HIDE DEF q, s
<1>4. /\ Source(f, d, r, n) /\ ToSet(f) \subseteq ToSet(s)
      /\ Source(rest, d, r, n) /\ ToSet(rest) \subseteq ToSet(s) /\ Less(ToSet(f), ToSet(rest))
  BY <1>1, <1>3, BatchOf
<1>. HIDE DEF rest
<1>5. Ordered(q) /\ Ordered(f) /\ Less(ToSet(q), ToSet(f))
  BY <1>1, <1>4 DEF Source, Less
<1>6. Ordered(q2) /\ ToSet(q2) \subseteq ToSet(q) \cup ToSet(f)
  BY <1>5, EnqueueOrder
<1>. HIDE DEF q2
<1>7. Later(ToSet(q), d, r, n) /\ Later(ToSet(f), d, r, n)
  BY <1>1, <1>4 DEF Source
<1>8. Later(ToSet(q2), d, r, n)
  BY <1>6, <1>7 DEF Later, Less
<1>9. Less(ToSet(q2), ToSet(rest))
  BY <1>1, <1>4, <1>6 DEF Less
<1>10. ToSet(q2) \cup ToSet(rest) \subseteq ToSet(q) \cup ToSet(s)
  BY <1>4, <1>6
<1>11. DownOK(down, d, r, n, ToSet(q2) \cup ToSet(rest))
  BY <1>1, <1>10, DownFewer
<1>. QED  BY Zenon, <1>2, <1>4, <1>6, <1>8, <1>9, <1>11 DEF ChannelOK, Source

\* slot_can_recv_timeout: a part of its queue goes on the stream, or nowhere.
LEMMA ChannelSends ==
  ASSUME NEW down, NEW ch, NEW d, NEW r, NEW n, ChannelOK(down, ch, d, r, n),
         NEW m \in 0 .. Len(ch.rq), NEW down2,
         down2 = down \/ down2 = Append(down, Socket!Data(SubSeq(ch.rq, 1, m))),
         NEW ch2, {"started", "is_ok", "tx", "rx", "rq"} \subseteq DOMAIN ch2,
         ch2.rx = ch.rx, ch2.rq = SubSeq(ch.rq, m + 1, Len(ch.rq))
  PROVE  ChannelOK(down2, ch2, d, r, n)
<1>. DEFINE q == ch.rq
            s == ch.rx
            f == SubSeq(q, 1, m)
            rest == SubSeq(q, m + 1, Len(q))
            A == ToSet(q) \cup ToSet(s)
            B == ToSet(rest) \cup ToSet(s)
<1>1. /\ Source(q, d, r, n) /\ Source(s, d, r, n) /\ Less(ToSet(q), ToSet(s))
      /\ DownOK(down, d, r, n, A)
  BY DEF ChannelOK
<1>2. ch2.rx = s /\ ch2.rq = rest /\ (down2 = down \/ down2 = Append(down, Socket!Data(f)))
  OBVIOUS
<1>3. m \in 0 .. Len(q)
  OBVIOUS
<1>. HIDE DEF q, s
<1>4. /\ Ordered(f) /\ Ordered(rest) /\ ToSet(f) \subseteq ToSet(q) /\ ToSet(rest) \subseteq ToSet(q)
      /\ Less(ToSet(f), ToSet(rest))
  BY <1>1, <1>3, SplitOrder DEF Source
<1>. HIDE DEF f, rest
<1>5. Source(f, d, r, n) /\ Source(rest, d, r, n)
  BY <1>1, <1>4, PartLater DEF Source
<1>6. B \subseteq A /\ ToSet(f) \subseteq A /\ Less(ToSet(f), B) /\ Less(ToSet(rest), ToSet(s))
  BY <1>1, <1>4 DEF Less
<1>. HIDE DEF A, B
<1>7. DownOK(down, d, r, n, B) /\ DownOK(Append(down, Socket!Data(f)), d, r, n, B)
  BY <1>1, <1>5, <1>6, DownFewer, DownData
<1>8. DownOK(down2, d, r, n, B)
  BY Zenon, <1>2, <1>7
<1>. QED  BY Zenon, <1>1, <1>2, <1>5, <1>6, <1>8 DEF ChannelOK, B

\* The bus delivers a frame to the adapter.
LEMMA ChannelArrives ==
  ASSUME NEW down, NEW ch, NEW d, NEW r, NEW n, ChannelOK(down, ch, d, r, n), Received(d, r, n),
         NEW ch2, {"started", "is_ok", "tx", "rx", "rq"} \subseteq DOMAIN ch2,
         ch2.rq = ch.rq, ch2.rx = Append(ch.rx, n + 1)
  PROVE  ChannelOK(down, ch2, d, r, n + 1) /\ Received(d, r, n + 1)
<1>. DEFINE q == ch.rq
            s == ch.rx
            t == Append(s, n + 1)
<1>1. /\ Source(q, d, r, n) /\ Source(s, d, r, n) /\ Less(ToSet(q), ToSet(s))
      /\ DownOK(down, d, r, n, ToSet(q) \cup ToSet(s))
  BY DEF ChannelOK
<1>2. ch2.rq = q /\ ch2.rx = t
  OBVIOUS
<1>. HIDE DEF q, s
<1>3. /\ Received(d, r, n + 1)
      /\ Source(q, d, r, n + 1) /\ Source(t, d, r, n + 1) /\ ToSet(t) = ToSet(s) \cup {n + 1}
  BY Zenon, <1>1, ArrivalKeeps
<1>. HIDE DEF t
<1>4. \A A : Later(A, d, r, n) => \A x \in A : x < n + 1
  BY DEF Later, Received
<1>5. \A x \in ToSet(q) : x < n + 1
  BY <1>1, <1>4 DEF Source
<1>6. Less(ToSet(q), ToSet(t))
  BY <1>1, <1>3, <1>5 DEF Less
<1>7. ASSUME NEW f, Source(f, d, r, n), Less(ToSet(f), ToSet(q) \cup ToSet(s))
      PROVE  Source(f, d, r, n + 1) /\ Less(ToSet(f), ToSet(q) \cup ToSet(t))
  <2>1. Source(f, d, r, n + 1)
    BY Zenon, <1>7, ArrivalKeeps
  <2>2. \A x \in ToSet(f) : x < n + 1
    BY <1>4, <1>7 DEF Source
  <2>3. Less(ToSet(f), ToSet(q) \cup ToSet(t))
    BY <1>3, <1>7, <2>2 DEF Less
  <2>. QED  BY <2>1, <2>3
<1>8. DownOK(down, d, r, n + 1, ToSet(q) \cup ToSet(t))
  BY Zenon, <1>1, <1>7, DownMap
<1>. QED  BY Zenon, <1>2, <1>3, <1>6, <1>8 DEF ChannelOK

LEMMA NothingWaits ==
  ASSUME NEW ch, NEW d, NEW r, NEW n,
         {"started", "is_ok", "tx", "rx", "rq"} \subseteq DOMAIN ch, ch.rq = <<>>, ch.rx = <<>>
  PROVE  ChannelOK(<<>>, ch, d, r, n)
<1>. DEFINE none == ToSet(<<>>)
<1>1. Source(<<>>, d, r, n) /\ none = {}
  BY NoSource
<1>. HIDE DEF none
<1>2. Less(none, none)
  BY <1>1 DEF Less
<1>3. DownOK(<<>>, d, r, n, none \cup none)
  BY DEF DownOK, DataIn
<1>. QED  BY <1>1, <1>2, <1>3 DEF ChannelOK, none

\* The messages on the stream are lost.
LEMMA StreamLost ==
  ASSUME NEW down, NEW ch, NEW d, NEW r, NEW n, ChannelOK(down, ch, d, r, n)
  PROVE  ChannelOK(<<>>, ch, d, r, n)
<1>1. DownOK(<<>>, d, r, n, ToSet(ch.rq) \cup ToSet(ch.rx))
  BY DEF DownOK, DataIn
<1>. QED  BY <1>1 DEF ChannelOK

\* can_recv_task.
LEMMA ChannelDispatch ==
  ASSUME NEW down, NEW ch, NEW d, NEW r, NEW n, ChannelOK(down, ch, d, r, n), Received(d, r, n)
  PROVE  ChannelOK(down, ch, d \o r, <<>>, n)
<1>1. \A s : Source(s, d, r, n) => Source(s, d \o r, <<>>, n)
  BY DispatchKeeps, Zenon
<1>2. /\ Source(ch.rq, d \o r, <<>>, n) /\ Source(ch.rx, d \o r, <<>>, n)
  BY <1>1 DEF ChannelOK
<1>. DEFINE A == ToSet(ch.rq) \cup ToSet(ch.rx)
<1>3. DownOK(down, d, r, n, A)
  BY DEF ChannelOK
<1>. HIDE DEF A
<1>4. \A s : Source(s, d, r, n) /\ Less(ToSet(s), A)
               => Source(s, d \o r, <<>>, n) /\ Less(ToSet(s), A)
  BY <1>1, Zenon
<1>5. DownOK(down, d \o r, <<>>, n, A)
  BY <1>3, <1>4, DownMap, Zenon
<1>. QED  BY <1>2, <1>5 DEF ChannelOK, A

\* The program reads some of the stream and handles the first message of it.
LEMMA ChannelRead ==
  ASSUME NEW down, NEW ch, NEW d, NEW r, NEW n, ChannelOK(down, ch, d, r, n), Received(d, r, n),
         NEW k \in 1 .. Len(down), NEW r2,
         r2 = IF Head(down).cmd = "data" THEN Enqueue(r, Head(down).frames) ELSE r
  PROVE  /\ ChannelOK(SubSeq(down, k + 1, Len(down)), ch, d, r2, n) /\ Received(d, r2, n)
         /\ r2 = r \/ Len(r2) <= QueueMax
<1>. DEFINE A == ToSet(ch.rq) \cup ToSet(ch.rx)
            rest == SubSeq(down, k + 1, Len(down))
            f == Head(down).frames
<1>1. /\ Source(ch.rq, d, r, n) /\ Source(ch.rx, d, r, n) /\ Less(ToSet(ch.rq), ToSet(ch.rx))
      /\ {"started", "is_ok", "tx", "rx", "rq"} \subseteq DOMAIN ch
      /\ DownOK(down, d, r, n, A)
  BY DEF ChannelOK
<1>2. down \in Seq(DownMessages) /\ Len(down) \in Nat /\ k \in 0 .. Len(down) /\ Head(down) = down[1]
      /\ 1 \in 1 .. Len(down)
  <2>1. down \in Seq(DownMessages)
    BY <1>1 DEF DownOK
  <2>. QED  BY <2>1
<1>. HIDE DEF A
<1>3. /\ DownOK(rest, d, r, n, A)
      /\ \A i \in DataIn(rest) : i + k \in DataIn(down) /\ rest[i] = down[i + k]
  BY Zenon, <1>1, <1>2, DownRest
<1>4. CASE Head(down).cmd # "data"
  <2>1. r2 = r
    BY <1>4
  <2>. QED  BY <1>1, <1>3, <2>1 DEF ChannelOK, A
<1>5. CASE Head(down).cmd = "data"
  <2>. HIDE DEF rest
  <2>1. r2 = Enqueue(r, f) /\ 1 \in DataIn(down) /\ f = down[1].frames
    BY <1>2, <1>5 DEF DataIn
  <2>2. Source(f, d, r, n) /\ Less(ToSet(f), A)
    BY <1>1, <2>1 DEF DownOK
  <2>. HIDE DEF f
  <2>3. /\ Received(d, r2, n) /\ Len(r2) <= QueueMax
        /\ \A B : Later(B, d, r, n) /\ Less(ToSet(f), B) => Later(B, d, r2, n)
    BY <2>1, <2>2, ReceiveKeeps
  <2>4. \A s : Source(s, d, r, n) /\ Less(ToSet(f), ToSet(s)) => Source(s, d, r2, n)
    BY <2>3, Zenon DEF Source
  <2>5. Less(ToSet(f), ToSet(ch.rq)) /\ Less(ToSet(f), ToSet(ch.rx))
    BY <2>2 DEF Less, A
  <2>6. Source(ch.rq, d, r2, n) /\ Source(ch.rx, d, r2, n)
    BY <1>1, <2>4, <2>5
  <2>7. /\ rest \in Seq(DownMessages)
        /\ \A i \in DataIn(rest) : Source(rest[i].frames, d, r, n) /\ Less(ToSet(rest[i].frames), A)
        /\ \A i, j \in DataIn(rest) : i < j => Less(ToSet(rest[i].frames), ToSet(rest[j].frames))
    BY <1>3 DEF DownOK
  <2>8. ASSUME NEW i \in DataIn(rest)
        PROVE  Source(rest[i].frames, d, r2, n)
    <3>1. i + k \in DataIn(down) /\ rest[i] = down[i + k] /\ 1 < i + k
      BY <1>2, <1>3 DEF DataIn
    <3>2. Less(ToSet(f), ToSet(rest[i].frames))
      BY <1>1, <2>1, <3>1 DEF DownOK
    <3>. QED  BY <2>4, <2>7, <3>2
  <2>9. DownOK(rest, d, r2, n, A)
    BY <2>7, <2>8 DEF DownOK
  <2>. QED  BY <1>1, <2>3, <2>6, <2>9 DEF ChannelOK, A, rest
<1>. QED  BY <1>4, <1>5

-----------------------------------------------------------------------------
(* The client of the socket, in the communication thread. *)

LEMMA SocketSame ==
  /\ \A a, b : Socket!Least(a, b) = Least(a, b)
  /\ \A q, f : Socket!Enqueue(q, f) = Enqueue(q, f)
  /\ \A s : Socket!WithData(s) = WithData(s)
  /\ \A q, s : Socket!Statused(q, s) = Statused(q, s)
<1>1. \A a, b : Socket!Least(a, b) = Least(a, b)
  BY DEF Socket!Least, Least
<1>2. \A q, f : Socket!Enqueue(q, f) = Enqueue(q, f)
  BY DEF Socket!Enqueue, Enqueue, Socket!Least, Least
<1>3. \A s : Socket!WithData(s) = WithData(s)
  BY Zenon DEF Socket!WithData, WithData, Socket!PickedOut, PickedOut, Socket!Ascending, Ascending,
               Socket!Cardinality, Cardinality
<1>4. \A q, s : Socket!Statused(q, s) = Statused(q, s)
  BY Zenon DEF Socket!Statused, Statused, Socket!Status, Status
<1>. QED  BY <1>1, <1>2, <1>3, <1>4

LEMMA SplitSeq ==
  ASSUME NEW q \in Seq(Nat), NEW n \in 0 .. Len(q)
  PROVE  SubSeq(q, 1, n) \in Seq(Nat) /\ SubSeq(q, n + 1, Len(q)) \in Seq(Nat)
OBVIOUS

WireHas(w) == {"sock", "joined", "up", "down"} \subseteq DOMAIN w /\ w.up \in Seq(UpMessages)

\* The queue of frames received is what it was, and so is the host.
LEMMA WireChanged ==
  ASSUME SocketOK, Behaves, UNCHANGED <<dispatched, recv_queue, arrived, host>>,
         WireHas(wire'), wire'.down = wire.down \/ wire'.down = <<>>
  PROVE  SocketOK' /\ Behaves'
<1>1. ChannelOK(wire.down, host.ch[Served], dispatched, recv_queue, arrived)
  BY DEF SocketOK
<1>2. ChannelOK(<<>>, host.ch[Served], dispatched, recv_queue, arrived)
  BY <1>1, StreamLost
<1>3. ChannelOK(wire'.down, host.ch[Served], dispatched, recv_queue, arrived)
  BY <1>1, <1>2, Zenon
<1>4. HostHas(host)
  BY DEF SocketOK
<1>. QED  BY <1>3, <1>4 DEF SocketOK, WireHas, Behaves

LEMMA UpMessageIs ==
  /\ Socket!Cfg("open") \in UpMessages /\ Socket!Cfg("close") \in UpMessages
  /\ \A f \in Seq(Nat) : Socket!Data(f) \in UpMessages
BY Zenon DEF UpMessages

LEMMA WriteIs ==
  ASSUME WireHas(wire), NEW msg \in UpMessages, Socket!Write(msg)
  PROVE  WireHas(wire') /\ (wire'.down = wire.down \/ wire'.down = <<>>)
<1>1. wire.up \in Seq(UpMessages) /\ Append(wire.up, msg) \in Seq(UpMessages)
  BY DEF WireHas
<1>2. CASE wire' = [wire EXCEPT !.up = Append(@, msg)]
  <2>1. {"sock", "joined", "up", "down"} \subseteq DOMAIN wire'
        /\ wire'.up = Append(wire.up, msg) /\ wire'.down = wire.down
    BY <1>2 DEF WireHas
  <2>. QED  BY <1>1, <2>1 DEF WireHas
<1>3. CASE wire' = [Socket!WireInit EXCEPT !.sock = "down"]
  <2>1. {"sock", "joined", "up", "down"} \subseteq DOMAIN wire' /\ wire'.up = <<>> /\ wire'.down = <<>>
    BY <1>3 DEF Socket!WireInit
  <2>. QED  BY <2>1 DEF WireHas
<1>4. CASE wire' = wire
  BY <1>4 DEF WireHas
<1>. QED  BY <1>2, <1>3, <1>4 DEF Socket!Write

LEMMA SocketCommandStreams ==
  ASSUME SocketOK, Behaves, UNCHANGED dispatched,
         Socket!slot_wait_timeout \/ Socket!slot_open_device \/ Socket!slot_close_device
  PROVE  SocketOK' /\ Behaves'
<1>1. WireHas(wire)
  BY DEF SocketOK, WireHas
<1>2. CASE Socket!slot_wait_timeout \/ Socket!slot_open_device
  <2>1. UNCHANGED <<dispatched, recv_queue, arrived, host, wire>>
    BY <1>2 DEF Socket!slot_wait_timeout, Socket!slot_open_device
  <2>2. WireHas(wire') /\ wire'.down = wire.down
    BY <1>1, <2>1 DEF WireHas
  <2>. QED  BY <2>1, <2>2, WireChanged
<1>3. CASE Socket!slot_close_device
  <2>1. UNCHANGED <<dispatched, recv_queue, arrived, host>> /\ Socket!Write(Socket!Cfg("close"))
    BY <1>3 DEF Socket!slot_close_device
  <2>2. WireHas(wire') /\ (wire'.down = wire.down \/ wire'.down = <<>>)
    BY <1>1, <2>1, UpMessageIs, WriteIs
  <2>. QED  BY <2>1, <2>2, WireChanged
<1>. QED  BY <1>2, <1>3

LEMMA SocketTransmitStreams ==
  ASSUME SocketOK, Behaves, UNCHANGED dispatched, transmit_queue \in Seq(Nat), Socket!transmit_task
  PROVE  SocketOK' /\ Behaves'
<1>1. WireHas(wire)
  BY DEF SocketOK, WireHas
<1>2. UNCHANGED <<dispatched, recv_queue, arrived, host>>
  BY DEF Socket!transmit_task
<1>. DEFINE frames == SubSeq(transmit_queue, 1, Socket!Taken(FrameMax))
<1>3. wire' = wire \/ Socket!Write(Socket!Data(frames))
  BY DEF Socket!transmit_task
<1>4. frames \in Seq(Nat)
  <2>1. Socket!Taken(FrameMax) \in 0 .. Len(transmit_queue)
    BY CanBaseAssumption DEF Socket!Taken, Socket!Least
  <2>. QED  BY <2>1, SplitSeq
<1>. HIDE DEF frames
<1>5. WireHas(wire') /\ (wire'.down = wire.down \/ wire'.down = <<>>)
  <2>1. CASE wire' = wire
    BY <1>1, <2>1 DEF WireHas
  <2>2. CASE Socket!Write(Socket!Data(frames))
    BY <1>1, <1>4, <2>2, UpMessageIs, WriteIs
  <2>. QED  BY <1>3, <2>1, <2>2
<1>. QED  BY <1>2, <1>5, WireChanged

LEMMA SocketReceiveStreams ==
  ASSUME SocketOK, Behaves, UNCHANGED dispatched, Socket!receive_task
  PROVE  SocketOK' /\ Behaves'
<1>1. WireHas(wire)
  BY DEF SocketOK, WireHas
<1>2. UNCHANGED <<dispatched, recv_queue, arrived, host>>
  BY DEF Socket!receive_task
<1>. DEFINE first == Socket!Cfg("open")
<1>3. \/ wire' = wire
      \/ wire' = [Socket!WireInit EXCEPT !.sock = "up", !.up = <<first>>]
      \/ wire' = [Socket!WireInit EXCEPT !.sock = "down"]
  BY DEF Socket!receive_task
<1>4. first \in UpMessages
  BY UpMessageIs
<1>. HIDE DEF first
<1>5. <<first>> \in Seq(UpMessages)
  BY <1>4
<1>6. CASE wire' = wire
  BY <1>1, <1>2, <1>6, WireChanged DEF WireHas
<1>7. CASE wire' = [Socket!WireInit EXCEPT !.sock = "up", !.up = <<first>>]
  <2>1. {"sock", "joined", "up", "down"} \subseteq DOMAIN wire'
        /\ wire'.up = <<first>> /\ wire'.down = <<>>
    BY <1>7 DEF Socket!WireInit
  <2>2. WireHas(wire') /\ wire'.down = <<>>
    BY <1>5, <2>1 DEF WireHas
  <2>. QED  BY <1>2, <2>2, WireChanged
<1>8. CASE wire' = [Socket!WireInit EXCEPT !.sock = "down"]
  <2>1. {"sock", "joined", "up", "down"} \subseteq DOMAIN wire'
        /\ wire'.up = <<>> /\ wire'.down = <<>>
    BY <1>8 DEF Socket!WireInit
  <2>2. WireHas(wire') /\ wire'.down = <<>>
    BY <2>1 DEF WireHas
  <2>. QED  BY <1>2, <2>2, WireChanged
<1>. QED  BY <1>3, <1>6, <1>7, <1>8

LEMMA SocketReadStreams ==
  ASSUME SocketOK, Behaves, UNCHANGED dispatched, Socket!slot_ready_read_data
  PROVE  /\ SocketOK' /\ Behaves'
         /\ recv_queue' = recv_queue \/ Len(recv_queue') <= QueueMax
         /\ \E statuses \in Seq(Statuses) : gui' = Statused(gui, statuses)
<1>1. UNCHANGED <<dispatched, arrived, host>>
  BY DEF Socket!slot_ready_read_data
<1>2. PICK k \in 1 .. Len(wire.down) :
        /\ wire' = [wire EXCEPT !.down = SubSeq(@, k + 1, Len(@))]
        /\ recv_queue' = IF Head(wire.down).cmd = "data"
                         THEN Enqueue(recv_queue, Head(wire.down).frames) ELSE recv_queue
        /\ \/ gui' = Statused(gui, <<STATUS_OK>>)
           \/ gui' = Statused(gui, <<>>)
  BY Zenon, SocketSame DEF Socket!slot_ready_read_data, Socket!Chunks, Socket!After,
                    Socket!sig_open_finish, Socket!STATUS_OK, STATUS_OK
<1>3. <<STATUS_OK>> \in Seq(Statuses) /\ <<>> \in Seq(Statuses)
  BY DEF Statuses
<1>. DEFINE down == wire.down
            rest == SubSeq(down, k + 1, Len(down))
            ch == host.ch[Served]
            d == dispatched
            r == recv_queue
            n == arrived
<1>4. ChannelOK(down, ch, d, r, n) /\ Received(d, r, n) /\ WireHas(wire) /\ HostHas(host)
  BY DEF SocketOK, Behaves, WireHas
<1>5. WireHas(wire') /\ wire'.down = rest
  BY Zenon, <1>2, <1>4 DEF WireHas
<1>6. recv_queue' = IF Head(down).cmd = "data" THEN Enqueue(r, Head(down).frames) ELSE r
  BY <1>2
<1>7. /\ ChannelOK(rest, ch, d, recv_queue', n) /\ Received(d, recv_queue', n)
      /\ recv_queue' = r \/ Len(recv_queue') <= QueueMax
  <2>. HIDE DEF down, ch, d, r, n
  <2>1. k \in 1 .. Len(down)
    BY DEF down
  <2>. QED  BY <1>4, <1>6, <2>1, ChannelRead
<1>8. Behaves'
  BY <1>1, <1>7 DEF Behaves
<1>9. SocketOK'
  BY <1>1, <1>4, <1>5, <1>7 DEF SocketOK, WireHas
<1>. QED  BY Zenon, <1>2, <1>3, <1>7, <1>8, <1>9

-----------------------------------------------------------------------------
(* The host of the socket: the server of the channel, and the adapter. *)

ChannelFields == {"started", "is_ok", "tx", "rx", "rq"}

\* The served channel of a host h has the same frames, or those in the adapter
\* are gone.
Keeps(h, g) ==
  /\ HostHas(h) /\ HostHas(g) /\ ChannelFields \subseteq DOMAIN g.ch[Served]
  /\ g.ch[Served].rq = h.ch[Served].rq
  /\ g.ch[Served].rx = h.ch[Served].rx \/ g.ch[Served].rx = <<>>

Running(h) == HostHas(h) /\ ChannelFields \subseteq DOMAIN h.ch[Served]

LEMMA ServedIs == Served = 1 /\ Served \in Channels
BY CommJ1939Assumption DEF Served, Socket!Served

\* Fields of the host that say nothing of its frames.
LEMMA KeepsSame ==
  ASSUME NEW h, Running(h), NEW g, g.ch = h.ch, DOMAIN g = DOMAIN h
  PROVE  Keeps(h, g)
BY DEF Running, Keeps, HostHas

LEMMA KeepsChannel ==
  ASSUME NEW h, Running(h), NEW c \in Channels, NEW ok
  PROVE  Keeps(h, Socket!channel_open(h, c, ok)) /\ Keeps(h, Socket!channel_close(h, c))
<1>1. Served \in Channels /\ HostHas(h) /\ ChannelFields \subseteq DOMAIN h.ch[Served]
  BY ServedIs DEF Running
<1>. DEFINE g == Socket!channel_open(h, c, ok)
            k == Socket!channel_close(h, c)
<1>2. HostHas(g) /\ HostHas(k)
  BY <1>1 DEF HostHas, Socket!channel_open, Socket!channel_close
<1>3. CASE c = Served
  <2>1. /\ ChannelFields \subseteq DOMAIN g.ch[Served]
        /\ g.ch[Served].rq = h.ch[Served].rq /\ g.ch[Served].rx = h.ch[Served].rx
    BY <1>1, <1>3 DEF HostHas, Socket!channel_open, ChannelFields
  <2>2. /\ ChannelFields \subseteq DOMAIN k.ch[Served]
        /\ k.ch[Served].rq = h.ch[Served].rq /\ k.ch[Served].rx = h.ch[Served].rx
    BY <1>1, <1>3 DEF HostHas, Socket!channel_close, ChannelFields
  <2>. HIDE DEF g, k
  <2>3. Keeps(h, g) /\ Keeps(h, k)
    BY <1>1, <1>2, <2>1, <2>2 DEF Keeps
  <2>. QED  BY <2>3 DEF g, k
<1>4. CASE c # Served
  <2>1. g.ch[Served] = h.ch[Served] /\ k.ch[Served] = h.ch[Served]
    BY <1>1, <1>4 DEF HostHas, Socket!channel_open, Socket!channel_close
  <2>. HIDE DEF g, k
  <2>2. Keeps(h, g) /\ Keeps(h, k)
    BY <1>1, <1>2, <2>1 DEF Keeps
  <2>. QED  BY <2>2 DEF g, k
<1>. QED  BY <1>3, <1>4

LEMMA KeepsTrans ==
  ASSUME NEW h, NEW g, NEW k, Keeps(h, g), Keeps(g, k)
  PROVE  Keeps(h, k)
BY DEF Keeps

\* The adapter loses the frames that nobody has read.
Cleared(h, g) ==
  /\ DOMAIN g = DOMAIN h
  /\ g.ch = [c \in Channels |-> [h.ch[c] EXCEPT !.rx = <<>>]]

LEMMA KeepsCleared ==
  ASSUME NEW h, Running(h), NEW g, Cleared(h, g)
  PROVE  Keeps(h, g)
<1>1. Served \in Channels /\ HostHas(h) /\ ChannelFields \subseteq DOMAIN h.ch[Served]
  BY ServedIs DEF Running
<1>2. HostHas(g)
  BY <1>1 DEF HostHas, Cleared
<1>3. g.ch[Served] = [h.ch[Served] EXCEPT !.rx = <<>>]
  BY <1>1 DEF Cleared
<1>4. /\ ChannelFields \subseteq DOMAIN g.ch[Served]
      /\ g.ch[Served].rq = h.ch[Served].rq /\ g.ch[Served].rx = <<>>
  BY <1>1, <1>3 DEF ChannelFields
<1>. QED  BY <1>1, <1>2, <1>4 DEF Keeps

LEMMA KeepsCheck ==
  ASSUME NEW h, Running(h), NEW g \in Socket!check_close_device(h)
  PROVE  Keeps(h, g)
<1>. DEFINE closing == h.is_open_ok /\ (~Socket!is_had_open(h) \/ Socket!is_had_err(h))
            shut == [h EXCEPT !.opened = FALSE, !.is_open_ok = FALSE,
                              !.ch = [c \in Channels |-> [h.ch[c] EXCEPT !.rx = <<>>]]]
            closed == IF closing THEN shut ELSE h
            again == [closed EXCEPT !.opened = TRUE, !.is_open_ok = TRUE]
<1>1. Keeps(h, shut)
  <2>1. DOMAIN shut = DOMAIN h
    OBVIOUS
  <2>2. shut.ch = [c \in Channels |-> [h.ch[c] EXCEPT !.rx = <<>>]]
    BY DEF Running, HostHas
  <2>3. Cleared(h, shut)
    BY <2>1, <2>2 DEF Cleared
  <2>. QED  BY <2>3, KeepsCleared
<1>2. Keeps(h, h)
  BY DEF Running, Keeps
<1>. HIDE DEF shut
<1>3. Keeps(h, closed)
  BY <1>1, <1>2
<1>4. g = closed \/ g = again
  BY Zenon DEF Socket!check_close_device, shut
<1>. HIDE DEF closed
<1>5. Keeps(closed, again)
  <2>1. Running(closed)
    BY <1>3 DEF Keeps, Running
  <2>2. again.ch = closed.ch /\ DOMAIN again = DOMAIN closed
    BY <2>1 DEF Running, HostHas
  <2>. HIDE DEF again
  <2>. QED  BY <2>1, <2>2, KeepsSame
<1>. HIDE DEF again
<1>. QED  BY <1>3, <1>4, <1>5, KeepsTrans

-----------------------------------------------------------------------------
\* The messages on the stream come before what the host has, so that its steps
\* may be looked at one by one.
HostState(down, h) ==
  /\ HostHas(h)
  /\ ChannelOK(down, h.ch[Served], dispatched, recv_queue, arrived)

LEMMA KeptByKeeps ==
  ASSUME NEW down, NEW h, HostState(down, h), NEW g, Keeps(h, g)
  PROVE  HostState(down, g)
<1>1. ChannelOK(down, h.ch[Served], dispatched, recv_queue, arrived)
  BY DEF HostState
<1>2. /\ {"started", "is_ok", "tx", "rx", "rq"} \subseteq DOMAIN g.ch[Served]
      /\ g.ch[Served].rq = h.ch[Served].rq
      /\ g.ch[Served].rx = h.ch[Served].rx \/ g.ch[Served].rx = <<>>
      /\ HostHas(g)
  BY DEF Keeps, ChannelFields
<1>3. ChannelOK(down, g.ch[Served], dispatched, recv_queue, arrived)
  BY <1>1, <1>2, ChannelMap
<1>. QED  BY <1>2, <1>3 DEF HostState

LEMMA RunningHost ==
  ASSUME NEW down, NEW h, HostState(down, h)
  PROVE  Running(h)
BY DEF HostState, Running, ChannelOK, ChannelFields

LEMMA AckPut ==
  ASSUME NEW down, NEW h, HostState(down, h), NEW k \in Nat, NEW of \in {"cfg", "data"}
  PROVE  HostState(Append(down, Socket!Ack(of, k)), h)
<1>. DEFINE ch == h.ch[Served]
            m == Socket!Ack(of, k)
            A == ToSet(ch.rq) \cup ToSet(ch.rx)
            d == dispatched
            r == recv_queue
            n == arrived
<1>1. ChannelOK(down, ch, d, r, n) /\ HostHas(h)
  BY DEF HostState
<1>2. m \in DownMessages /\ m.cmd # "data"
  BY DownMessageIs
<1>3. DownOK(down, d, r, n, A)
  BY <1>1 DEF ChannelOK
<1>. HIDE DEF m, A, d, r, n
<1>4. DownOK(Append(down, m), d, r, n, A)
  BY <1>2, <1>3, DownAck
<1>. HIDE DEF ch
<1>5. ChannelOK(Append(down, m), ch, d, r, n)
  BY <1>1, <1>4 DEF ChannelOK, A
<1>. QED  BY <1>1, <1>5 DEF HostState, m, d, r, n, ch

LEMMA HostStateIs ==
  ASSUME SocketOK
  PROVE  HostState(wire.down, host) /\ WireHas(wire)
BY DEF SocketOK, HostState, WireHas

LEMMA HostStateNext ==
  ASSUME HostState(wire'.down, host'), WireHas(wire'), Behaves,
         UNCHANGED <<dispatched, recv_queue, arrived>>
  PROVE  SocketOK' /\ Behaves'
BY DEF SocketOK, HostState, WireHas, Behaves


LEMMA NewConnectStreams ==
  ASSUME SocketOK, Behaves, UNCHANGED <<dispatched, recv_queue, arrived>>, Socket!slot_new_connect
  PROVE  SocketOK' /\ Behaves'
<1>1. HostState(wire.down, host) /\ WireHas(wire)
  BY HostStateIs
<1>2. host' = host /\ wire' = [wire EXCEPT !.joined = TRUE]
  BY DEF Socket!slot_new_connect
<1>3. WireHas(wire') /\ wire'.down = wire.down
  BY <1>1, <1>2 DEF WireHas
<1>4. HostState(wire'.down, host')
  BY <1>1, <1>2, <1>3
<1>. QED  BY <1>3, <1>4, HostStateNext

LEMMA UpDataIs == \A m \in UpMessages : m.cmd = "data" => m.frames \in Seq(Nat)
BY DEF UpMessages, Socket!Cfg, Socket!Data

LEMMA ServerReadsStreams ==
  ASSUME SocketOK, Behaves, UNCHANGED <<dispatched, recv_queue, arrived>>,
         Socket!server_slot_ready_read
  PROVE  SocketOK' /\ Behaves'
<1>1. HostState(wire.down, host) /\ WireHas(wire) /\ Running(host)
  BY HostStateIs, RunningHost
<1>. DEFINE msg == Head(wire.up)
            rest(k) == SubSeq(wire.up, k + 1, Len(wire.up))
<1>2. PICK k \in 1 .. Len(wire.up) :
        \/ /\ \E ok \in BOOLEAN :
                host' = [Socket!channel_open(host, Served, ok) EXCEPT !.recv_timer = TRUE]
           /\ wire' = [wire EXCEPT !.up = rest(k), !.down = Append(@, Socket!Ack("cfg", 1))]
        \/ /\ host' = [Socket!channel_close(host, Served) EXCEPT !.recv_timer = FALSE]
           /\ wire' = [wire EXCEPT !.up = rest(k), !.down = Append(@, Socket!Ack("cfg", 0))]
        \/ /\ msg.cmd = "data"
           /\ host' = Socket!channel_transmit(msg.frames)
           /\ wire' = [wire EXCEPT !.up = rest(k),
                                   !.down = Append(@, Socket!Ack("data", Len(msg.frames)))]
  BY Zenon DEF Socket!server_slot_ready_read, Socket!Chunks, Socket!After, Served
<1>3. /\ wire.up \in Seq(UpMessages) /\ rest(k) \in Seq(UpMessages)
      /\ msg \in UpMessages
  <2>1. wire.up \in Seq(UpMessages)
    BY <1>1 DEF WireHas
  <2>2. Len(wire.up) \in Nat /\ k \in 0 .. Len(wire.up) /\ k \in 1 .. Len(wire.up)
    BY <2>1
  <2>. QED  BY <2>1, <2>2
<1>4. ASSUME NEW of \in {"cfg", "data"}, NEW n \in Nat,
             wire' = [wire EXCEPT !.up = rest(k), !.down = Append(@, Socket!Ack(of, n))],
             Keeps(host, host')
      PROVE  SocketOK' /\ Behaves'
  <2>1. WireHas(wire') /\ wire'.down = Append(wire.down, Socket!Ack(of, n))
    <3>. DEFINE u == rest(k)
                a == Append(wire.down, Socket!Ack(of, n))
    <3>1. u \in Seq(UpMessages) /\ wire' = [wire EXCEPT !.up = u, !.down = a]
      BY <1>3, <1>4
    <3>. HIDE DEF u, a
    <3>2. WireHas(wire') /\ wire'.down = a
      BY <1>1, <3>1 DEF WireHas
    <3>. QED  BY <3>2 DEF a
  <2>2. HostState(wire.down, host')
    BY <1>1, <1>4, KeptByKeeps
  <2>3. HostState(Append(wire.down, Socket!Ack(of, n)), host')
    BY <2>2, AckPut
  <2>4. HostState(wire'.down, host')
    BY <2>1, <2>3
  <2>. QED  BY <2>1, <2>4, HostStateNext
<1>5. ASSUME NEW g, Keeps(host, g), NEW b, host' = [g EXCEPT !.recv_timer = b]
      PROVE  Keeps(host, host')
  <2>1. Running(g)
    BY <1>5 DEF Keeps, Running
  <2>2. host'.ch = g.ch /\ DOMAIN host' = DOMAIN g
    BY <1>5, <2>1 DEF Running, HostHas
  <2>3. Keeps(g, host')
    BY <2>1, <2>2, KeepsSame
  <2>. QED  BY <1>5, <2>3, KeepsTrans
<1>6. \A ok : Keeps(host, Socket!channel_open(host, Served, ok))
              /\ Keeps(host, Socket!channel_close(host, Served))
  BY <1>1, ServedIs, KeepsChannel
<1>. HIDE DEF rest, msg
<1>7. CASE \E ok \in BOOLEAN :
                host' = [Socket!channel_open(host, Served, ok) EXCEPT !.recv_timer = TRUE]
           /\ wire' = [wire EXCEPT !.up = rest(k), !.down = Append(@, Socket!Ack("cfg", 1))]
  <2>1. Keeps(host, host')
    BY Zenon, <1>5, <1>6, <1>7
  <2>. QED  BY Zenon, <1>4, <1>7, <2>1
<1>8. CASE /\ host' = [Socket!channel_close(host, Served) EXCEPT !.recv_timer = FALSE]
           /\ wire' = [wire EXCEPT !.up = rest(k), !.down = Append(@, Socket!Ack("cfg", 0))]
  <2>1. Keeps(host, host')
    BY Zenon, <1>5, <1>6, <1>8
  <2>. QED  BY Zenon, <1>4, <1>8, <2>1
<1>9. CASE /\ msg.cmd = "data"
           /\ host' = Socket!channel_transmit(msg.frames)
           /\ wire' = [wire EXCEPT !.up = rest(k),
                                   !.down = Append(@, Socket!Ack("data", Len(msg.frames)))]
  <2>. DEFINE tx == Socket!Enqueue(host.ch[Served].tx, msg.frames)
  <2>1. host' = host \/ host' = [host EXCEPT !.ch[Served].tx = tx]
    BY <1>9 DEF Socket!channel_transmit, Served
  <2>. HIDE DEF tx
  <2>2. CASE host' = host
    <3>1. Keeps(host, host')
      BY <1>1, <2>2 DEF Keeps, Running
    <3>2. Len(msg.frames) \in Nat
      BY <1>3, <1>9, UpDataIs
    <3>. QED  BY Zenon, <1>4, <1>9, <3>1, <3>2
  <2>3. CASE host' = [host EXCEPT !.ch[Served].tx = tx]
    <3>1. Served \in Channels /\ HostHas(host) /\ ChannelFields \subseteq DOMAIN host.ch[Served]
      BY <1>1, ServedIs DEF Running
    <3>2. HostHas(host')
      BY <2>3, <3>1 DEF HostHas
    <3>3. /\ ChannelFields \subseteq DOMAIN host'.ch[Served]
          /\ host'.ch[Served].rq = host.ch[Served].rq /\ host'.ch[Served].rx = host.ch[Served].rx
      BY <2>3, <3>1 DEF HostHas, ChannelFields
    <3>4. Keeps(host, host')
      BY <3>1, <3>2, <3>3 DEF Keeps
    <3>5. Len(msg.frames) \in Nat
      BY <1>3, <1>9, UpDataIs
    <3>. QED  BY Zenon, <1>4, <1>9, <3>4, <3>5
  <2>. QED  BY <2>1, <2>2, <2>3
<1>. QED  BY <1>2, <1>7, <1>8, <1>9

LEMMA RecvTimeoutStreams ==
  ASSUME SocketOK, Behaves, UNCHANGED <<dispatched, recv_queue, arrived>>,
         Socket!slot_can_recv_timeout
  PROVE  SocketOK' /\ Behaves'
<1>1. HostState(wire.down, host) /\ WireHas(wire) /\ Running(host)
  BY HostStateIs, RunningHost
<1>. DEFINE q == host.ch[Served].rq
            n == Least(FrameMax, Len(q))
            f == SubSeq(q, 1, n)
            rest == SubSeq(q, n + 1, Len(q))
<1>2. /\ wire' = IF wire.joined
                 THEN [wire EXCEPT !.down = Append(@, Socket!Data(f))] ELSE wire
      /\ host' = [host EXCEPT !.ch[Served].rq = rest]
  BY Zenon, SocketSame DEF Socket!slot_can_recv_timeout, Socket!After, Served
<1>3. /\ HostHas(host) /\ ChannelFields \subseteq DOMAIN host.ch[Served]
      /\ ChannelOK(wire.down, host.ch[Served], dispatched, recv_queue, arrived)
      /\ Served \in Channels
  BY <1>1, ServedIs DEF Running, HostState
<1>4. q \in Seq(Nat) /\ n \in 0 .. Len(q)
  <2>1. q \in Seq(Nat) /\ FrameMax \in Nat
    BY <1>3, CanBaseAssumption DEF ChannelOK, Source, Ordered
  <2>. QED  BY <2>1 DEF Least
<1>. HIDE DEF n
<1>5. /\ HostHas(host') /\ ChannelFields \subseteq DOMAIN host'.ch[Served]
      /\ host'.ch[Served].rx = host.ch[Served].rx /\ host'.ch[Served].rq = rest
  <2>. HIDE DEF rest
  <2>. QED  BY <1>2, <1>3 DEF HostHas, ChannelFields
<1>6. /\ WireHas(wire')
      /\ wire'.down = wire.down \/ wire'.down = Append(wire.down, Socket!Data(f))
  <2>. DEFINE m == Socket!Data(f)
  <2>1. wire' = wire \/ wire' = [wire EXCEPT !.down = Append(@, m)]
    BY <1>2
  <2>. HIDE DEF m
  <2>2. WireHas(wire') /\ (wire'.down = wire.down \/ wire'.down = Append(wire.down, m))
    BY <1>1, <2>1 DEF WireHas
  <2>. QED  BY <2>2 DEF m
<1>7. ChannelOK(wire'.down, host'.ch[Served], dispatched, recv_queue, arrived)
  BY Zenon, <1>3, <1>4, <1>5, <1>6, ChannelSends DEF ChannelFields
<1>8. HostState(wire'.down, host')
  BY <1>5, <1>7 DEF HostState
<1>. QED  BY <1>6, <1>8, HostStateNext

\* The thread of the host: the tasks of the channels, and then the check.
LEMMA DevTaskStreams ==
  ASSUME SocketOK, Behaves, UNCHANGED <<dispatched, recv_queue, arrived, wire>>,
         Socket!can_dev_task
  PROVE  SocketOK' /\ Behaves'
<1>1. HostState(wire.down, host) /\ WireHas(wire) /\ Running(host)
  BY HostStateIs, RunningHost
<1>2. PICK f : /\ f \in [Channels -> UNION {Socket!ChannelTasks(host, c) : c \in Channels}]
               /\ \A c \in Channels : f[c] \in Socket!ChannelTasks(host, c)
               /\ host' \in Socket!check_close_device([host EXCEPT !.ch = f])
  BY Zenon DEF Socket!can_dev_task
<1>. DEFINE h == [host EXCEPT !.ch = f]
            ch == host.ch[Served]
<1>3. /\ HostHas(host) /\ ChannelFields \subseteq DOMAIN ch
      /\ ChannelOK(wire.down, ch, dispatched, recv_queue, arrived)
      /\ Served \in Channels
  BY <1>1, ServedIs DEF Running, HostState
<1>4. HostHas(h) /\ h.ch[Served] \in Socket!ChannelTasks(host, Served)
  BY <1>2, <1>3 DEF HostHas
<1>. DEFINE ch2 == h.ch[Served]
            got == Socket!Least(RecvMax, Len(ch.rx))
            sent == Socket!Least(SendMax, Len(ch.tx))
            New(frames, ok) == [ch EXCEPT !.tx = SubSeq(@, sent + 1, Len(@)),
                                          !.rq = Socket!Enqueue(@, frames),
                                          !.rx = SubSeq(@, got + 1, Len(@)),
                                          !.is_ok = ok]
<1>. HIDE DEF h
<1>5. \/ ch2 = ch
      \/ \E frames \in WithData(SubSeq(ch.rx, 1, got)) : \E ok : ch2 = New(frames, ok)
  <2>1. ch2 \in IF ~ch.started THEN {ch}
                ELSE UNION {{New(frames, ok) : ok \in {ch.is_ok, FALSE, host.opened}} :
                              frames \in Socket!WithData(SubSeq(ch.rx, 1, got))}
    <3>1. ch2 \in Socket!ChannelTasks(host, Served)
      BY <1>4
    <3>. HIDE DEF ch2
    <3>. QED  BY <3>1, Zenon DEF Socket!ChannelTasks
  <2>. HIDE DEF New, ch2, got, ch
  <2>2. Socket!WithData(SubSeq(ch.rx, 1, got)) = WithData(SubSeq(ch.rx, 1, got))
    BY SocketSame
  <2>3. ASSUME ch.started
        PROVE  \E frames \in Socket!WithData(SubSeq(ch.rx, 1, got)) :
                 \E ok \in {ch.is_ok, FALSE, host.opened} : ch2 = New(frames, ok)
    BY Zenon, <2>1, <2>3
  <2>. QED  BY Zenon, <2>1, <2>2, <2>3
<1>6. ChannelFields \subseteq DOMAIN ch2 /\ ChannelOK(wire.down, ch2, dispatched, recv_queue, arrived)
  <2>1. CASE ch2 = ch
    BY <1>3, <2>1
  <2>2. ASSUME NEW frames \in WithData(SubSeq(ch.rx, 1, got)), NEW ok, ch2 = New(frames, ok)
        PROVE  /\ ChannelFields \subseteq DOMAIN ch2
               /\ ChannelOK(wire.down, ch2, dispatched, recv_queue, arrived)
    <3>1. got = Least(RecvMax, Len(ch.rx)) /\ Socket!Enqueue(ch.rq, frames) = Enqueue(ch.rq, frames)
      BY SocketSame
    <3>2. /\ ChannelFields \subseteq DOMAIN ch2
          /\ ch2.rq = Socket!Enqueue(ch.rq, frames) /\ ch2.rx = SubSeq(ch.rx, got + 1, Len(ch.rx))
      <4>. HIDE DEF got, sent, ch
      <4>. QED  BY Zenon, <1>3, <2>2 DEF ChannelFields
    <3>. HIDE DEF ch2, ch, got
    <3>3. ChannelOK(wire.down, ch2, dispatched, recv_queue, arrived)
      BY Zenon, <1>3, <2>2, <3>1, <3>2, ChannelTaken DEF ChannelFields
    <3>. QED  BY <3>2, <3>3
  <2>. QED  BY Zenon, <1>5, <2>1, <2>2
<1>7. HostState(wire.down, h) /\ Running(h)
  BY <1>4, <1>6 DEF HostState, Running
<1>8. Keeps(h, host')
  BY <1>2, <1>7, KeepsCheck DEF h
<1>9. HostState(wire'.down, host') /\ WireHas(wire')
  BY <1>1, <1>7, <1>8, KeptByKeeps
<1>. QED  BY <1>9, HostStateNext

LEMMA HostProgramStreams ==
  ASSUME SocketOK, Behaves, UNCHANGED <<dispatched, recv_queue>>, HostProgram
  PROVE  SocketOK' /\ Behaves' /\ (arrived' = arrived \/ (arrived < MaxArrived /\ arrived' = arrived + 1))
<1>1. HostState(wire.down, host) /\ WireHas(wire) /\ Running(host)
  BY HostStateIs, RunningHost
<1>2. ASSUME UNCHANGED <<arrived, wire>>, Keeps(host, host')
      PROVE  SocketOK' /\ Behaves' /\ arrived' = arrived
  <2>1. HostState(wire'.down, host') /\ WireHas(wire')
    BY <1>1, <1>2, KeptByKeeps
  <2>. QED  BY <1>2, <2>1, HostStateNext
<1>3. Keeps(host, host)
  BY <1>1 DEF Running, Keeps
<1>4. ASSUME NEW c \in Channels, Socket!open_device(c), UNCHANGED <<arrived, wire>>
      PROVE  SocketOK' /\ Behaves' /\ arrived' = arrived
  <2>1. CASE host' = host
    BY <1>2, <1>3, <1>4, <2>1
  <2>. DEFINE h == [host EXCEPT !.is_open_ok = TRUE, !.opened = @ \/ ~Socket!is_had_open(host)]
  <2>2. h.ch = host.ch /\ DOMAIN h = DOMAIN host
    BY <1>1 DEF Running, HostHas
  <2>3. ASSUME NEW ok, host' = Socket!channel_open(h, c, ok)
        PROVE  SocketOK' /\ Behaves' /\ arrived' = arrived
    <3>. HIDE DEF h
    <3>1. Keeps(host, h)
      BY <1>1, <2>2, KeepsSame
    <3>2. Running(h)
      BY <3>1 DEF Keeps, Running
    <3>3. Keeps(h, host')
      BY <2>3, <3>2, KeepsChannel
    <3>4. Keeps(host, host')
      BY <3>1, <3>3, KeepsTrans
    <3>. QED  BY <1>2, <1>4, <3>4
  <2>. QED  BY Zenon, <1>4, <2>1, <2>3 DEF Socket!open_device
<1>5. ASSUME NEW c \in Channels, Socket!close_device(c), UNCHANGED <<arrived, wire>>
      PROVE  SocketOK' /\ Behaves' /\ arrived' = arrived
  <2>1. Keeps(host, host')
    BY <1>1, <1>5, KeepsChannel DEF Socket!close_device
  <2>. QED  BY <1>2, <1>5, <2>1
<1>6. ASSUME Socket!close_unused, UNCHANGED <<arrived, wire>>
      PROVE  SocketOK' /\ Behaves' /\ arrived' = arrived
  <2>1. host' = [host EXCEPT !.opened = FALSE, !.is_open_ok = FALSE,
                             !.ch = [c \in Channels |-> [@[c] EXCEPT !.rx = <<>>]]]
    BY <1>6 DEF Socket!close_unused
  <2>2. DOMAIN host' = DOMAIN host
    BY <2>1
  <2>3. host'.ch = [c \in Channels |-> [host.ch[c] EXCEPT !.rx = <<>>]]
    BY <1>1, <2>1 DEF Running, HostHas
  <2>4. Cleared(host, host')
    BY <2>2, <2>3 DEF Cleared
  <2>5. Keeps(host, host')
    BY <1>1, <2>4, KeepsCleared
  <2>. QED  BY <1>2, <1>6, <2>5
<1>7. ASSUME Socket!HostRestarts, UNCHANGED arrived
      PROVE  SocketOK' /\ Behaves' /\ arrived' = arrived
  <2>1. /\ host' = Socket!HostInit(host.loop)
        /\ wire' = [Socket!WireInit EXCEPT !.sock = IF @ = "none" THEN @ ELSE "down"]
    BY <1>7 DEF Socket!HostRestarts
  <2>2. host'.ch[Served] = Socket!Channel /\ HostHas(host')
    BY <2>1, ServedIs DEF Socket!HostInit, HostHas
  <2>3. /\ {"started", "is_ok", "tx", "rx", "rq"} \subseteq DOMAIN host'.ch[Served]
        /\ host'.ch[Served].rq = <<>> /\ host'.ch[Served].rx = <<>>
    BY <2>2 DEF Socket!Channel
  <2>4. WireHas(wire') /\ wire'.down = <<>>
    BY <2>1 DEF WireHas, Socket!WireInit
  <2>5. ChannelOK(<<>>, host'.ch[Served], dispatched, recv_queue, arrived)
    BY <2>3, NothingWaits
  <2>6. HostState(wire'.down, host')
    BY <2>2, <2>4, <2>5 DEF HostState
  <2>. QED  BY <1>7, <2>4, <2>6, HostStateNext
<1>8. ASSUME Socket!HostBusFrame, UNCHANGED wire
      PROVE  SocketOK' /\ Behaves' /\ arrived < MaxArrived /\ arrived' = arrived + 1
  <2>. DEFINE ch == host.ch[Served]
              rx == Append(ch.rx, arrived + 1)
  <2>1. arrived < MaxArrived /\ arrived' = arrived + 1 /\ host' = [host EXCEPT !.ch[Served].rx = rx]
    BY <1>8 DEF Socket!HostBusFrame, Served
  <2>2. /\ HostHas(host) /\ ChannelFields \subseteq DOMAIN ch
        /\ ChannelOK(wire.down, ch, dispatched, recv_queue, arrived)
        /\ Served \in Channels
    BY <1>1, ServedIs DEF Running, HostState
  <2>3. /\ HostHas(host') /\ ChannelFields \subseteq DOMAIN host'.ch[Served]
        /\ host'.ch[Served].rq = ch.rq /\ host'.ch[Served].rx = rx
    <3>. HIDE DEF rx
    <3>. QED  BY <2>1, <2>2 DEF HostHas, ChannelFields
  <2>. HIDE DEF ch
  <2>4. Received(dispatched, recv_queue, arrived)
    BY DEF Behaves
  <2>5. /\ ChannelOK(wire.down, host'.ch[Served], dispatched, recv_queue, arrived + 1)
        /\ Received(dispatched, recv_queue, arrived + 1)
    BY <2>2, <2>3, <2>4, ChannelArrives DEF ChannelFields
  <2>6. Behaves'
    BY <2>1, <2>5 DEF Behaves
  <2>7. SocketOK'
    BY <1>1, <1>8, <2>1, <2>3, <2>5 DEF SocketOK, WireHas
  <2>. QED  BY <2>1, <2>6, <2>7
<1>. QED  BY <1>4, <1>5, <1>6, <1>7, <1>8 DEF HostProgram

LEMMA HostStreams ==
  ASSUME SocketOK, Behaves, Host
  PROVE  SocketOK' /\ Behaves' /\ (arrived' = arrived \/ (arrived < MaxArrived /\ arrived' = arrived + 1))
<1>1. UNCHANGED <<dispatched, recv_queue>>
  BY DEF Host
<1>2. CASE HostProgram
  BY <1>1, <1>2, HostProgramStreams
<1>3. CASE HostEvent
  <2>1. UNCHANGED arrived
    BY <1>3 DEF HostEvent
  <2>2. CASE Socket!slot_new_connect
    BY <1>1, <2>1, <2>2, NewConnectStreams
  <2>3. CASE Socket!server_slot_ready_read
    BY <1>1, <2>1, <2>3, ServerReadsStreams
  <2>4. CASE Socket!slot_can_recv_timeout
    BY <1>1, <2>1, <2>4, RecvTimeoutStreams
  <2>5. CASE Socket!can_dev_task /\ UNCHANGED wire
    BY <1>1, <2>1, <2>5, DevTaskStreams
  <2>. QED  BY <1>3, <2>2, <2>3, <2>4, <2>5 DEF HostEvent
<1>. QED  BY <1>2, <1>3 DEF Host

-----------------------------------------------------------------------------
(***************************************************************************)
(* The invariant of the whole link.                                        *)
(***************************************************************************)
ButtonOK ==
  driver = "ctrl" => /\ dev.started = TRUE \/ dev.started = FALSE
                     /\ Told(gui, device_status, dev.started)

CountsOK ==
  /\ pc \in {"events", "transmit", "receive", "crashed"}
  /\ device_status = TRUE \/ device_status = FALSE
  /\ offered \in 0 .. MaxOffered /\ arrived \in 0 .. MaxArrived
  /\ faults \in 0 .. MaxFaults /\ clicks \in 0 .. MaxClicks
  /\ Len(transmit_queue) <= QueueMax /\ Len(recv_queue) <= QueueMax
  /\ Ordered(accepted) /\ ToSet(accepted) \subseteq 1 .. offered
  /\ src_page_map \subseteq Range(Node)

LinkInv ==
  /\ IInv /\ CInv
  /\ driver \in {"ctrl", "zlg", "udp", "socket"}
  /\ commands \in Seq(Commands)
  /\ StreamsOK
  /\ Paged(parsed, gui, dispatched)
  /\ ButtonOK
  /\ CountsOK

-----------------------------------------------------------------------------
(* The beginning. *)

LEMMA NothingSent == Received(<<>>, <<>>, 0)
<1>. DEFINE none == ToSet(<<>>)
<1>1. Ordered(<<>>) /\ none = {}
  BY NoneOrdered
<1>. HIDE DEF none
<1>2. Less(none, none)
  BY <1>1 DEF Less
<1>. QED  BY <1>1, <1>2 DEF Received, none

LEMMA NothingPaged == Paged(<<>>, <<>>, <<>>)
<1>. DEFINE none == ToSet(<<>>)
            g == <<>>
<1>1. Ordered(<<>>) /\ none = {}
  BY NoneOrdered
<1>2. g \in Seq(Signals) /\ MessagesIn(g) = {}
  BY DEF MessagesIn
<1>. HIDE DEF none, g
<1>3. ValuesIn(g) = {} /\ Rising(g) /\ ForPagesOf(none) = {}
  BY <1>1, <1>2 DEF ValuesIn, Rising, ForPagesOf
<1>4. Less(none, ValuesIn(g)) /\ none \cup ValuesIn(g) = ForPagesOf(none)
  BY <1>1, <1>3 DEF Less
<1>5. Paged(<<>>, g, <<>>)
  BY <1>1, <1>2, <1>3, <1>4 DEF Paged, none
<1>. QED  BY <1>5 DEF g

LEMMA InitStreams == Init => StreamsOK
<1>. SUFFICES ASSUME Init
              PROVE  StreamsOK
  OBVIOUS
<1>1. dispatched = <<>> /\ recv_queue = <<>> /\ arrived = 0
  BY DEF Init
<1>2. Behaves
  BY <1>1, NothingSent DEF Behaves
<1>3. Waits(<<>>)
  BY NoSource DEF Waits
<1>4. ASSUME driver = "ctrl"
      PROVE  RxOK
  <2>1. dev = Ctrl!DevInit
    BY <1>4 DEF Init
  <2>2. "rx" \in DOMAIN dev /\ dev.rx = <<>>
    BY <2>1 DEF Ctrl!DevInit
  <2>. QED  BY <1>3, <2>2 DEF RxOK
<1>5. ASSUME driver = "zlg"
      PROVE  RxOK
  <2>1. dev = Zlg!DevInit
    BY <1>5 DEF Init
  <2>2. "rx" \in DOMAIN dev /\ dev.rx = <<>>
    BY <2>1 DEF Zlg!DevInit
  <2>. QED  BY <1>3, <2>2 DEF RxOK
<1>6. ASSUME driver = "udp"
      PROVE  UdpOK
  <2>1. dev = Udp!DevInit
    BY <1>6 DEF Init
  <2>2. /\ {"started", "index", "bound", "configs", "acks", "data"} \subseteq DOMAIN dev
        /\ dev.index = 0 /\ dev.configs = <<>> /\ dev.acks = <<>> /\ dev.data = <<>>
    BY <2>1 DEF Udp!DevInit
  <2>3. Udp!Second(dev.data) = <<>>
    BY <2>2, SecondOfNone
  <2>. QED  BY <1>3, <2>2, <2>3 DEF UdpOK
<1>7. SocketOK
  <2>1. PICK loop \in BOOLEAN : host = Socket!HostInit(loop)
    BY DEF Init
  <2>2. host.ch[Served] = Socket!Channel /\ HostHas(host)
    BY <2>1, ServedIs DEF Socket!HostInit, HostHas
  <2>3. /\ {"started", "is_ok", "tx", "rx", "rq"} \subseteq DOMAIN host.ch[Served]
        /\ host.ch[Served].rq = <<>> /\ host.ch[Served].rx = <<>>
    BY <2>2 DEF Socket!Channel
  <2>4. WireHas(wire) /\ wire.down = <<>>
    BY DEF Init, WireHas, Socket!WireInit
  <2>5. ChannelOK(<<>>, host.ch[Served], dispatched, recv_queue, arrived)
    BY <2>3, NothingWaits
  <2>. QED  BY <2>2, <2>4, <2>5 DEF SocketOK, WireHas
<1>. QED  BY <1>2, <1>4, <1>5, <1>6, <1>7 DEF StreamsOK

LEMMA InitCounts == Init => CountsOK
<1>. SUFFICES ASSUME Init
              PROVE  CountsOK
  OBVIOUS
<1>1. {QueueMax, MaxOffered, MaxArrived, MaxFaults, MaxClicks} \subseteq Nat
  BY CanBaseAssumption, CommJ1939Assumption
<1>2. /\ pc = "events" /\ device_status = FALSE
      /\ offered = 0 /\ arrived = 0 /\ faults = 0 /\ clicks = 0
      /\ transmit_queue = <<>> /\ recv_queue = <<>> /\ accepted = <<>> /\ src_page_map = {}
  BY DEF Init
<1>3. Ordered(accepted) /\ ToSet(accepted) = {} /\ Len(transmit_queue) = 0 /\ Len(recv_queue) = 0
  BY <1>2, NoneOrdered
<1>. QED  BY <1>1, <1>2, <1>3 DEF CountsOK

LEMMA InitLink == Init => LinkInv
<1>. SUFFICES ASSUME Init
              PROVE  LinkInv
  OBVIOUS
<1>1. IInv /\ CInv /\ StreamsOK /\ CountsOK
  BY InitEstablishesIInv, InitEstablishesCInv, InitStreams, InitCounts
<1>2. /\ driver \in {"ctrl", "zlg", "udp", "socket"}
      /\ commands = <<>> /\ parsed = <<>> /\ gui = <<>> /\ dispatched = <<>>
      /\ device_status = FALSE
  BY CommJ1939Assumption DEF Init
<1>3. Paged(parsed, gui, dispatched)
  BY <1>2, NothingPaged
<1>4. ButtonOK
  <2>. SUFFICES ASSUME driver = "ctrl"
                PROVE  dev.started = FALSE /\ Told(gui, device_status, dev.started)
    BY DEF ButtonOK
  <2>1. dev = Ctrl!DevInit
    BY DEF Init
  <2>2. dev.started = FALSE
    BY <2>1 DEF Ctrl!DevInit
  <2>3. gui \in Seq(Signals) /\ Quieted(gui, 0)
    BY <1>2 DEF Quieted
  <2>. QED  BY Zenon, <1>2, <2>2, <2>3 DEF Told
<1>5. commands \in Seq(Commands)
  BY <1>2
<1>. QED  BY <1>1, <1>2, <1>3, <1>4, <1>5 DEF LinkInv

-----------------------------------------------------------------------------
(* The streams, step by step. *)

Bounded == /\ arrived' = arrived \/ (arrived < MaxArrived /\ arrived' = arrived + 1)
           /\ recv_queue' = recv_queue \/ Len(recv_queue') <= QueueMax

LEMMA StreamsSame ==
  ASSUME StreamsOK, UNCHANGED <<dispatched, recv_queue, arrived, dev, driver, host, wire>>
  PROVE  StreamsOK' /\ Bounded
<1>1. Behaves' = Behaves /\ RxOK' = RxOK /\ UdpOK' = UdpOK /\ SocketOK' = SocketOK
  BY DEF Behaves, RxOK, UdpOK, SocketOK, Waits
<1>. QED  BY <1>1 DEF StreamsOK, Bounded

LEMMA PollStreams ==
  ASSUME StreamsOK, poll
  PROVE  StreamsOK' /\ Bounded
<1>. DEFINE d == dispatched
            r == recv_queue
            n == arrived
<1>1. /\ UNCHANGED <<dev, driver, arrived, host, wire>>
      /\ dispatched' = d \o r /\ recv_queue' = <<>>
  BY DEF poll, can_recv_task
<1>2. Received(d, r, n)
  BY DEF StreamsOK, Behaves
<1>. HIDE DEF d, r, n
<1>3. /\ Received(d \o r, <<>>, n)
      /\ \A s : Source(s, d, r, n) => Source(s, d \o r, <<>>, n)
  BY <1>2, DispatchKeeps, Zenon
<1>4. Behaves'
  BY <1>1, <1>3 DEF Behaves, n
<1>5. \A s : Waits(s) => Source(s, dispatched', recv_queue', arrived')
  BY <1>1, <1>3, Zenon DEF Waits, d, r, n
<1>6. RxOK => RxOK'
  BY <1>1, <1>5 DEF RxOK, Waits
<1>7. UdpOK => UdpOK'
  BY <1>1, <1>5 DEF UdpOK, Waits
<1>8. SocketOK => SocketOK'
  <2>. SUFFICES ASSUME SocketOK
                PROVE  SocketOK'
    OBVIOUS
  <2>1. ChannelOK(wire.down, host.ch[Served], d, r, n)
    BY DEF SocketOK, d, r, n
  <2>2. ChannelOK(wire.down, host.ch[Served], d \o r, <<>>, n)
    BY <1>2, <2>1, ChannelDispatch
  <2>. QED  BY <1>1, <2>2 DEF SocketOK, n
<1>9. Bounded
  <2>1. Len(recv_queue') = 0
    BY <1>1
  <2>. QED  BY <1>1, <2>1, CanBaseAssumption DEF Bounded
<1>. QED  BY <1>1, <1>4, <1>6, <1>7, <1>8, <1>9 DEF StreamsOK

LEMMA TransmitStreams ==
  ASSUME StreamsOK, transmit_queue \in Seq(Nat), transmit_task
  PROVE  StreamsOK' /\ Bounded
<1>1. UNCHANGED <<dispatched, driver>>
  BY DEF transmit_task
<1>2. CASE driver = "ctrl" /\ Ctrl!transmit_task
  <2>1. RxOK' /\ Behaves'
    BY <1>1, <1>2, CtrlTransmitStreams DEF StreamsOK
  <2>2. UNCHANGED <<recv_queue, arrived>>
    BY <1>2 DEF Ctrl!transmit_task
  <2>. QED  BY <1>1, <1>2, <2>1, <2>2 DEF StreamsOK, Bounded
<1>3. CASE driver = "zlg" /\ Zlg!transmit_task
  <2>1. RxOK' /\ Behaves'
    BY <1>1, <1>3, ZlgStreams DEF StreamsOK
  <2>2. UNCHANGED <<recv_queue, arrived>>
    BY <1>3 DEF Zlg!transmit_task
  <2>. QED  BY <1>1, <1>3, <2>1, <2>2 DEF StreamsOK, Bounded
<1>4. CASE driver = "udp" /\ Udp!transmit_task
  <2>1. UNCHANGED <<recv_queue, arrived, dev>>
    BY <1>4 DEF Udp!transmit_task
  <2>2. UdpOK' = UdpOK /\ Behaves' = Behaves
    BY <1>1, <2>1 DEF UdpOK, Behaves, Waits
  <2>. QED  BY <1>1, <1>4, <2>1, <2>2 DEF StreamsOK, Bounded
<1>5. CASE driver = "socket" /\ Socket!transmit_task
  <2>1. SocketOK' /\ Behaves'
    BY <1>1, <1>5, SocketTransmitStreams DEF StreamsOK
  <2>2. UNCHANGED <<recv_queue, arrived>>
    BY <1>5 DEF Socket!transmit_task
  <2>. QED  BY <1>1, <1>5, <2>1, <2>2 DEF StreamsOK, Bounded
<1>. QED  BY <1>2, <1>3, <1>4, <1>5 DEF transmit_task

LEMMA ReceiveStreams ==
  ASSUME StreamsOK, receive_task
  PROVE  StreamsOK' /\ Bounded
<1>1. UNCHANGED <<dispatched, driver>>
  BY DEF receive_task
<1>2. CASE driver = "ctrl" /\ Ctrl!receive_task
  <2>1. RxOK' /\ Behaves' /\ (recv_queue' = recv_queue \/ Len(recv_queue') <= QueueMax)
    BY <1>1, <1>2, CtrlReceiveStreams DEF StreamsOK
  <2>2. UNCHANGED arrived
    BY <1>2 DEF Ctrl!receive_task
  <2>. QED  BY <1>1, <1>2, <2>1, <2>2 DEF StreamsOK, Bounded
<1>3. CASE driver = "zlg" /\ Zlg!receive_task
  <2>1. RxOK' /\ Behaves' /\ Len(recv_queue') <= QueueMax
    BY <1>1, <1>3, ZlgReceiveStreams DEF StreamsOK
  <2>2. UNCHANGED arrived
    BY <1>3 DEF Zlg!receive_task
  <2>. QED  BY <1>1, <1>3, <2>1, <2>2 DEF StreamsOK, Bounded
<1>4. CASE driver = "udp" /\ Udp!receive_task
  <2>1. UNCHANGED <<recv_queue, arrived, dev>>
    BY <1>4 DEF Udp!receive_task
  <2>2. UdpOK' = UdpOK /\ Behaves' = Behaves
    BY <1>1, <2>1 DEF UdpOK, Behaves, Waits
  <2>. QED  BY <1>1, <1>4, <2>1, <2>2 DEF StreamsOK, Bounded
<1>5. CASE driver = "socket" /\ Socket!receive_task
  <2>1. SocketOK' /\ Behaves'
    BY <1>1, <1>5, SocketReceiveStreams DEF StreamsOK
  <2>2. UNCHANGED <<recv_queue, arrived>>
    BY <1>5 DEF Socket!receive_task
  <2>. QED  BY <1>1, <1>5, <2>1, <2>2 DEF StreamsOK, Bounded
<1>. QED  BY <1>2, <1>3, <1>4, <1>5 DEF receive_task

\* What a command of the window says.
LEMMA CommandIs ==
  ASSUME commands \in Seq(Commands), commands # <<>>
  PROVE  /\ Tail(commands) \in Seq(Commands)
         /\ Command[1] = "open" => Command[2] \in Devices
<1>1. Tail(commands) \in Seq(Commands) /\ Command \in Commands
  BY DEF Command
<1>2. Command[1] = "open" => Command[2] \in Devices
  BY <1>1 DEF Commands
<1>. QED  BY <1>1, <1>2

LEMMA CommandStreams ==
  ASSUME StreamsOK, commands \in Seq(Commands), DeviceCommand
  PROVE  StreamsOK' /\ Bounded
<1>1. UNCHANGED <<dispatched, driver>> /\ commands # <<>>
  BY DEF DeviceCommand
<1>2. Command[1] = "open" => Command[2] \in Devices
  BY <1>1, CommandIs
<1>3. UNCHANGED <<recv_queue, arrived>>
  BY DEF DeviceCommand, Ctrl!slot_open_device, Ctrl!slot_close_device, Zlg!slot_open_device,
         Zlg!slot_close_device, Udp!slot_open_device, Udp!slot_close_device,
         Socket!slot_open_device, Socket!slot_close_device
<1>4. CASE driver = "ctrl"
  <2>1. Ctrl!slot_open_device(Command[2]) \/ Ctrl!slot_close_device
    BY <1>4 DEF DeviceCommand
  <2>2. RxOK' /\ Behaves'
    BY <1>1, <1>4, <2>1, CtrlOpenStreams, CtrlCloseStreams DEF StreamsOK
  <2>. QED  BY <1>1, <1>3, <1>4, <2>2 DEF StreamsOK, Bounded
<1>5. CASE driver = "zlg"
  <2>1. Zlg!slot_open_device(Command[2]) \/ Zlg!slot_close_device
    BY <1>5 DEF DeviceCommand
  <2>2. RxOK' /\ Behaves'
    BY <1>1, <1>5, <2>1, ZlgStreams DEF StreamsOK
  <2>. QED  BY <1>1, <1>3, <1>5, <2>2 DEF StreamsOK, Bounded
<1>6. CASE driver = "udp"
  <2>1. (Command[1] = "open" /\ Udp!slot_open_device(Command[2])) \/ Udp!slot_close_device
    BY <1>6 DEF DeviceCommand
  <2>2. UdpOK' /\ Behaves'
    BY <1>1, <1>2, <1>6, <2>1, UdpOpenStreams, UdpCloseStreams DEF StreamsOK
  <2>. QED  BY <1>1, <1>3, <1>6, <2>2 DEF StreamsOK, Bounded
<1>7. CASE driver = "socket"
  <2>1. Socket!slot_open_device \/ Socket!slot_close_device
    BY <1>7 DEF DeviceCommand
  <2>2. SocketOK' /\ Behaves'
    BY <1>1, <1>7, <2>1, SocketCommandStreams DEF StreamsOK
  <2>. QED  BY <1>1, <1>3, <1>7, <2>2 DEF StreamsOK, Bounded
<1>. QED  BY <1>4, <1>5, <1>6, <1>7 DEF DeviceCommand

LEMMA EventStreams ==
  ASSUME StreamsOK, DriverEvent
  PROVE  /\ StreamsOK' /\ Bounded
         /\ gui' = gui \/ \E statuses \in Seq(Statuses) : gui' = Statused(gui, statuses)
<1>1. UNCHANGED <<dispatched, driver>>
  BY DEF DriverEvent
<1>2. CASE driver = "udp" /\ Udp!slot_ready_read_ack
  <2>1. /\ UdpOK' /\ Behaves'
        /\ \E statuses \in Seq(Statuses) : gui' = Statused(gui, statuses)
    BY <1>1, <1>2, UdpAckStreams DEF StreamsOK
  <2>2. UNCHANGED <<recv_queue, arrived>>
    BY <1>2 DEF Udp!slot_ready_read_ack
  <2>. QED  BY <1>1, <1>2, <2>1, <2>2 DEF StreamsOK, Bounded
<1>3. CASE driver = "udp" /\ Udp!slot_ready_read_data
  <2>1. UdpOK' /\ Behaves' /\ Len(recv_queue') <= QueueMax
    BY <1>1, <1>3, UdpDataStreams DEF StreamsOK
  <2>2. UNCHANGED <<gui, arrived>>
    BY <1>3 DEF Udp!slot_ready_read_data
  <2>. QED  BY <1>1, <1>3, <2>1, <2>2 DEF StreamsOK, Bounded
<1>4. CASE driver = "socket" /\ Socket!slot_ready_read_data
  <2>1. /\ SocketOK' /\ Behaves'
        /\ recv_queue' = recv_queue \/ Len(recv_queue') <= QueueMax
        /\ \E statuses \in Seq(Statuses) : gui' = Statused(gui, statuses)
    BY <1>1, <1>4, SocketReadStreams DEF StreamsOK
  <2>2. UNCHANGED arrived
    BY <1>4 DEF Socket!slot_ready_read_data
  <2>. QED  BY <1>1, <1>4, <2>1, <2>2 DEF StreamsOK, Bounded
<1>5. CASE driver = "socket" /\ Socket!slot_wait_timeout
  <2>1. SocketOK' /\ Behaves'
    BY <1>1, <1>5, SocketCommandStreams DEF StreamsOK
  <2>2. UNCHANGED <<recv_queue, arrived, gui>>
    BY <1>5 DEF Socket!slot_wait_timeout
  <2>. QED  BY <1>1, <1>5, <2>1, <2>2 DEF StreamsOK, Bounded
<1>. QED  BY <1>2, <1>3, <1>4, <1>5 DEF DriverEvent

LEMMA OutsideStreams ==
  ASSUME StreamsOK, Outside
  PROVE  StreamsOK' /\ Bounded
<1>1. UNCHANGED <<dispatched, driver>>
  BY DEF Outside
<1>2. CASE driver = "ctrl" /\ Ctrl!BusFrame
  <2>1. RxOK' /\ Behaves'
    BY <1>1, <1>2, CtrlBusStreams DEF StreamsOK
  <2>2. UNCHANGED recv_queue /\ arrived < MaxArrived /\ arrived' = arrived + 1
    BY <1>2 DEF Ctrl!BusFrame
  <2>. QED  BY <1>1, <1>2, <2>1, <2>2 DEF StreamsOK, Bounded
<1>3. CASE driver = "zlg" /\ Zlg!BusFrame
  <2>1. RxOK' /\ Behaves'
    BY <1>1, <1>3, ZlgBusStreams DEF StreamsOK
  <2>2. UNCHANGED recv_queue /\ arrived < MaxArrived /\ arrived' = arrived + 1
    BY <1>3 DEF Zlg!BusFrame
  <2>. QED  BY <1>1, <1>3, <2>1, <2>2 DEF StreamsOK, Bounded
<1>4. CASE driver = "udp" /\ Udp!BusFrame
  <2>1. UdpOK' /\ Behaves'
    BY <1>1, <1>4, UdpBusStreams DEF StreamsOK
  <2>2. UNCHANGED recv_queue /\ arrived < MaxArrived /\ arrived' = arrived + 1
    BY <1>4 DEF Udp!BusFrame
  <2>. QED  BY <1>1, <1>4, <2>1, <2>2 DEF StreamsOK, Bounded
<1>5. CASE driver = "udp" /\ Udp!HostAnswers
  <2>1. UdpOK' /\ Behaves'
    BY <1>1, <1>5, UdpAnswersStreams DEF StreamsOK
  <2>2. UNCHANGED <<recv_queue, arrived>>
    BY <1>5 DEF Udp!HostAnswers
  <2>. QED  BY <1>1, <1>5, <2>1, <2>2 DEF StreamsOK, Bounded
<1>. QED  BY <1>2, <1>3, <1>4, <1>5 DEF Outside

LEMMA StepStreams ==
  ASSUME StreamsOK, transmit_queue \in Seq(Nat), commands \in Seq(Commands), [Next]_vars
  PROVE  StreamsOK' /\ Bounded
<1>1. CASE UNCHANGED <<dispatched, recv_queue, arrived, dev, driver, host, wire>>
  BY <1>1, StreamsSame
<1>2. CASE \E index \in Devices : on_openDevicePushButton_clicked(index)
  BY <1>1, <1>2 DEF on_openDevicePushButton_clicked, base
<1>3. CASE can_write
  BY <1>1, <1>3 DEF can_write, transmit
<1>4. CASE Window
  BY <1>1, <1>4 DEF Window, slot_recv_comm_status, slot_recv_pgn_handle
<1>5. CASE Thread
  BY <1>5, PollStreams, TransmitStreams, ReceiveStreams, CommandStreams, EventStreams DEF Thread
<1>6. CASE Outside
  BY <1>6, OutsideStreams
<1>7. CASE Host
  <2>1. driver = "socket" /\ UNCHANGED <<dispatched, recv_queue, driver>>
    BY <1>7 DEF Host
  <2>2. SocketOK' /\ Behaves' /\ (arrived' = arrived \/ (arrived < MaxArrived /\ arrived' = arrived + 1))
    BY <1>7, <2>1, HostStreams DEF StreamsOK
  <2>. QED  BY <2>1, <2>2 DEF StreamsOK, Bounded
<1>8. CASE UNCHANGED vars
  BY <1>1, <1>8 DEF vars, base
<1>. QED  BY <1>2, <1>3, <1>4, <1>5, <1>6, <1>7, <1>8 DEF Next

-----------------------------------------------------------------------------
(* The signals to the window, step by step. *)
Silent == UNCHANGED <<gui, parsed, dispatched>>
Tells == /\ \E statuses \in Seq(Statuses) : gui' = Statused(gui, statuses)
         /\ UNCHANGED <<parsed, dispatched>>

LEMMA StatusSeqs ==
  /\ <<STATUS_OFFLINE>> \in Seq(Statuses) /\ <<STATUS_OFFLINE, STATUS_OFFLINE>> \in Seq(Statuses)
  /\ <<STATUS_OFFLINE, STATUS_OK>> \in Seq(Statuses)
  /\ <<STATUS_OFFLINE, STATUS_ERR>> \in Seq(Statuses)
<1>1. STATUS_OK \in Statuses /\ STATUS_OFFLINE \in Statuses /\ STATUS_ERR \in Statuses
  BY DEF Statuses
<1>. QED  BY <1>1

LEMMA CtrlTells ==
  ASSUME NEW index, Ctrl!slot_open_device(index) \/ Ctrl!slot_close_device
  PROVE  \E statuses \in Seq(Statuses) : gui' = Statused(gui, statuses)
<1>1. \/ gui' = Statused(gui, <<STATUS_OFFLINE>>)
      \/ gui' = Statused(gui, <<STATUS_OFFLINE, STATUS_OFFLINE>>)
      \/ gui' = Statused(gui, <<STATUS_OFFLINE, STATUS_OK>>)
  BY CtrlSame, Zenon DEF Ctrl!slot_open_device, Ctrl!slot_close_device, Ctrl!sig_open_finish,
                  Ctrl!STATUS_OFFLINE, Ctrl!STATUS_OK, STATUS_OFFLINE, STATUS_OK
<1>. QED  BY <1>1, StatusSeqs, Zenon

LEMMA ZlgTells ==
  ASSUME NEW index, Zlg!slot_open_device(index) \/ Zlg!slot_close_device
  PROVE  \E statuses \in Seq(Statuses) : gui' = Statused(gui, statuses)
<1>1. CASE Zlg!slot_close_device
  <2>1. gui' = Statused(gui, <<STATUS_OFFLINE>>)
    BY <1>1, ZlgSame, Zenon DEF Zlg!slot_close_device, Zlg!sig_open_finish, Zlg!STATUS_OFFLINE,
                                STATUS_OFFLINE
  <2>. QED  BY <2>1, StatusSeqs, Zenon
<1>2. CASE Zlg!slot_open_device(index)
  <2>1. PICK r \in Zlg!Opening(Zlg!ZCAN_CloseDevice(dev)) :
          gui' = Statused(gui, <<STATUS_OFFLINE, r[2]>>)
    BY <1>2, ZlgSame, Zenon DEF Zlg!slot_open_device, Zlg!sig_open_finish, Zlg!STATUS_OFFLINE,
                                STATUS_OFFLINE
  <2>2. r[2] = STATUS_OK \/ r[2] = STATUS_ERR
    BY <2>1 DEF Zlg!Opening, Zlg!STATUS_OK, Zlg!STATUS_ERR, STATUS_OK, STATUS_ERR
  <2>. QED  BY <2>1, <2>2, StatusSeqs, Zenon
<1>. QED  BY <1>1, <1>2

LEMMA SocketTells ==
  ASSUME Socket!slot_close_device
  PROVE  \E statuses \in Seq(Statuses) : gui' = Statused(gui, statuses)
<1>1. gui' = Statused(gui, <<STATUS_OFFLINE>>)
  BY SocketSame, Zenon DEF Socket!slot_close_device, Socket!sig_open_finish,
                           Socket!STATUS_OFFLINE, STATUS_OFFLINE
<1>. QED  BY <1>1, StatusSeqs, Zenon

LEMMA CommandTells == DeviceCommand => Silent \/ Tells
<1>. SUFFICES ASSUME DeviceCommand
              PROVE  Silent \/ Tells
  OBVIOUS
<1>1. UNCHANGED <<parsed, dispatched>>
  BY DEF DeviceCommand, window
<1>2. CASE \/ Ctrl!slot_open_device(Command[2]) \/ Ctrl!slot_close_device
           \/ Zlg!slot_open_device(Command[2]) \/ Zlg!slot_close_device
           \/ Socket!slot_close_device
  <2>1. \E statuses \in Seq(Statuses) : gui' = Statused(gui, statuses)
    BY <1>2, CtrlTells, ZlgTells, SocketTells, Zenon
  <2>. QED  BY <1>1, <2>1, Zenon DEF Tells
<1>3. CASE \/ Udp!slot_open_device(Command[2]) \/ Udp!slot_close_device
           \/ Socket!slot_open_device
  BY <1>1, <1>3 DEF Udp!slot_open_device, Udp!slot_close_device, Socket!slot_open_device, Silent
<1>. QED  BY <1>2, <1>3, Zenon DEF DeviceCommand

LEMMA StepTells ==
  ASSUME StreamsOK, [Next]_vars
  PROVE  Silent \/ Tells \/ Window \/ poll
<1>1. CASE \E index \in Devices : on_openDevicePushButton_clicked(index)
  BY <1>1 DEF on_openDevicePushButton_clicked, base, Silent
<1>2. CASE can_write
  BY <1>2 DEF can_write, transmit, window, Silent
<1>3. CASE transmit_task
  <2>1. UNCHANGED <<parsed, dispatched>>
    BY <1>3 DEF transmit_task, window
  <2>2. gui' = gui
    BY <1>3 DEF transmit_task, Ctrl!transmit_task, Zlg!transmit_task, Udp!transmit_task,
                Socket!transmit_task
  <2>. QED  BY <2>1, <2>2 DEF Silent
<1>4. CASE receive_task
  <2>1. UNCHANGED <<parsed, dispatched>>
    BY <1>4 DEF receive_task, window
  <2>2. gui' = gui
    BY <1>4 DEF receive_task, Ctrl!receive_task, Zlg!receive_task, Udp!receive_task,
                Socket!receive_task
  <2>. QED  BY <2>1, <2>2 DEF Silent
<1>5. CASE DeviceCommand
  BY <1>5, CommandTells
<1>6. CASE DriverEvent
  <2>1. UNCHANGED <<parsed, dispatched>>
    BY <1>6 DEF DriverEvent, window
  <2>2. gui' = gui \/ \E statuses \in Seq(Statuses) : gui' = Statused(gui, statuses)
    BY <1>6, EventStreams
  <2>. QED  BY <2>1, <2>2, Zenon DEF Silent, Tells
<1>7. CASE Outside
  <2>1. UNCHANGED <<parsed, dispatched>>
    BY <1>7 DEF Outside, window
  <2>2. gui' = gui
    BY <1>7 DEF Outside, Ctrl!BusFrame, Zlg!BusFrame, Udp!BusFrame, Udp!HostAnswers
  <2>. QED  BY <2>1, <2>2 DEF Silent
<1>8. CASE Host
  BY <1>8 DEF Host, Silent
<1>9. CASE UNCHANGED vars
  BY <1>9 DEF vars, base, window, Silent
<1>. QED  BY <1>1, <1>2, <1>3, <1>4, <1>5, <1>6, <1>7, <1>8, <1>9 DEF Next, Thread

-----------------------------------------------------------------------------
(* The messages of the pages. *)
LEMMA StepPages ==
  ASSUME StreamsOK, Paged(parsed, gui, dispatched), [Next]_vars
  PROVE  Paged(parsed, gui, dispatched)'
<1>1. CASE Silent
  BY <1>1 DEF Silent
<1>2. CASE Tells
  <2>1. PICK statuses \in Seq(Statuses) : gui' = Statused(gui, statuses)
    BY <1>2 DEF Tells
  <2>2. Paged(parsed, Statused(gui, statuses), dispatched)
    BY <2>1, PagedPastStatus
  <2>. QED  BY <1>2, <2>1, <2>2 DEF Tells
<1>3. CASE Window
  <2>1. gui # <<>> /\ gui' = Tail(gui) /\ dispatched' = dispatched
        /\ \/ Head(gui).type = "status" /\ parsed' = parsed
           \/ Head(gui).type = "message" /\ parsed' = Append(parsed, Head(gui).value)
    BY <1>3 DEF Window, slot_recv_comm_status, slot_recv_pgn_handle
  <2>2. Head(gui).type = "status" => Paged(parsed, Tail(gui), dispatched)
    BY <2>1, PagedToWindow
  <2>3. Head(gui).type = "message" => Paged(Append(parsed, Head(gui).value), Tail(gui), dispatched)
    BY Zenon, <2>1, PagedToWindow
  <2>. QED  BY Zenon, <2>1, <2>2, <2>3
<1>4. CASE poll
  <2>1. /\ parsed' = parsed /\ dispatched' = dispatched \o recv_queue
        /\ \E frames \in PickedOut(recv_queue, {i \in DOMAIN recv_queue : ForPages(recv_queue[i])}) :
             gui' = gui \o [i \in DOMAIN frames |-> Message(frames[i])]
    BY Zenon, <1>4 DEF poll, can_recv_task, window
  <2>2. PICK frames \in PickedOut(recv_queue, {i \in DOMAIN recv_queue : ForPages(recv_queue[i])}) :
          gui' = gui \o [i \in DOMAIN frames |-> Message(frames[i])]
    BY Zenon, <2>1
  <2>3. Received(dispatched, recv_queue, arrived)
    BY DEF StreamsOK, Behaves
  <2>4. Paged(parsed, gui \o [i \in DOMAIN frames |-> Message(frames[i])], dispatched \o recv_queue)
    BY <2>2, <2>3, PagedByDispatch
  <2>. QED  BY Zenon, <2>1, <2>2, <2>4
<1>. QED  BY <1>1, <1>2, <1>3, <1>4, StepTells

LEMMA StepCommands ==
  ASSUME commands \in Seq(Commands), [Next]_vars
  PROVE  commands' \in Seq(Commands)
<1>1. CASE UNCHANGED commands
  BY <1>1
<1>2. ASSUME NEW index \in Devices, on_openDevicePushButton_clicked(index)
      PROVE  commands' \in Seq(Commands)
  <2>1. <<"close">> \in Commands /\ <<"open", index>> \in Commands
    BY DEF Commands
  <2>2. commands' = Append(commands, <<"close">>) \/ commands' = Append(commands, <<"open", index>>)
    BY <1>2 DEF on_openDevicePushButton_clicked
  <2>3. \A c \in Commands : Append(commands, c) \in Seq(Commands)
    <3>. HIDE DEF Commands
    <3>. QED  OBVIOUS
  <2>. QED  BY <2>1, <2>2, <2>3, Zenon
<1>3. CASE DeviceCommand
  <2>1. commands # <<>> /\ commands' = Tail(commands)
    BY <1>3 DEF DeviceCommand
  <2>. QED  BY <2>1, CommandIs
<1>4. CASE can_write \/ Window \/ poll \/ transmit_task \/ receive_task \/ DriverEvent
             \/ Outside \/ Host \/ UNCHANGED vars
  BY <1>1, <1>4 DEF can_write, Window, slot_recv_comm_status, slot_recv_pgn_handle, poll,
                    transmit_task, receive_task, DriverEvent, Outside, Host, vars
<1>. QED  BY <1>2, <1>3, <1>4 DEF Next, Thread

-----------------------------------------------------------------------------
(* The button, step by step. *)

\* CtrlCan opens: every way it may end is told by the last status.
LEMMA ButtonByOpen ==
  ASSUME "started" \in DOMAIN dev, gui \in Seq(Signals),
         NEW index, Ctrl!slot_open_device(index)
  PROVE  /\ dev'.started = TRUE \/ dev'.started = FALSE
         /\ Told(gui', device_status, dev'.started)
<1>. DEFINE d == [dev EXCEPT !.index = index]
            closed == Ctrl!Closed(d)
            open == [closed EXCEPT !.opened = @ \cup {index}]
<1>1. "started" \in DOMAIN d
  OBVIOUS
<1>. HIDE DEF d
<1>2. "started" \in DOMAIN closed /\ closed.started = FALSE
  BY <1>1 DEF Ctrl!Closed, Ctrl!VCI_CloseDevice
<1>. HIDE DEF closed
<1>3. "started" \in DOMAIN open
  BY <1>2
<1>. HIDE DEF open
<1>4. /\ Ctrl!Closed(open).started = FALSE
      /\ [open EXCEPT !.started = TRUE].started = TRUE
  BY <1>3 DEF Ctrl!Closed, Ctrl!VCI_CloseDevice
<1>. DEFINE none == <<STATUS_OFFLINE>>
            failed == <<STATUS_OFFLINE, STATUS_OFFLINE>>
            done == <<STATUS_OFFLINE, STATUS_OK>>
<1>5. \/ dev' = closed /\ gui' = Statused(gui, none)
      \/ dev' = Ctrl!Closed(open) /\ gui' = Statused(gui, failed)
      \/ dev' = [open EXCEPT !.started = TRUE] /\ gui' = Statused(gui, done)
  BY CtrlSame, Zenon DEF Ctrl!slot_open_device, Ctrl!sig_open_finish, closed, open, d,
                         Ctrl!STATUS_OFFLINE, Ctrl!STATUS_OK, STATUS_OFFLINE, STATUS_OK
<1>6. /\ none \in Seq(Statuses) /\ Len(none) = 1 /\ none[1] = STATUS_OFFLINE
      /\ failed \in Seq(Statuses) /\ Len(failed) = 2 /\ failed[2] = STATUS_OFFLINE
      /\ done \in Seq(Statuses) /\ Len(done) = 2 /\ done[2] = STATUS_OK
  BY StatusSeqs
<1>. HIDE DEF none, failed, done
<1>7. Says(STATUS_OFFLINE, FALSE) /\ Says(STATUS_OK, TRUE)
  BY DEF Says, STATUS_OFFLINE, STATUS_OK
<1>8. CASE dev' = closed /\ gui' = Statused(gui, none)
  <2>1. Says(none[Len(none)], FALSE) /\ Len(none) # 0
    <3>1. none[Len(none)] = STATUS_OFFLINE /\ Len(none) # 0
      BY <1>6
    <3>. QED  BY <1>7, <3>1, Zenon
  <2>2. Told(Statused(gui, none), device_status, FALSE)
    BY Zenon, <1>6, <2>1, ToldByStatus
  <2>3. dev'.started = FALSE
    BY <1>2, <1>8
  <2>. QED  BY <1>8, <2>2, <2>3, Zenon
<1>9. CASE dev' = Ctrl!Closed(open) /\ gui' = Statused(gui, failed)
  <2>1. Says(failed[Len(failed)], FALSE) /\ Len(failed) # 0
    <3>1. failed[Len(failed)] = STATUS_OFFLINE /\ Len(failed) # 0
      BY <1>6
    <3>. QED  BY <1>7, <3>1, Zenon
  <2>2. Told(Statused(gui, failed), device_status, FALSE)
    BY Zenon, <1>6, <2>1, ToldByStatus
  <2>3. dev'.started = FALSE
    BY <1>4, <1>9
  <2>. QED  BY <1>9, <2>2, <2>3, Zenon
<1>10. CASE dev' = [open EXCEPT !.started = TRUE] /\ gui' = Statused(gui, done)
  <2>1. Says(done[Len(done)], TRUE) /\ Len(done) # 0
    <3>1. done[Len(done)] = STATUS_OK /\ Len(done) # 0
      BY <1>6
    <3>. QED  BY <1>7, <3>1, Zenon
  <2>2. Told(Statused(gui, done), device_status, TRUE)
    BY Zenon, <1>6, <2>1, ToldByStatus
  <2>3. dev'.started = TRUE
    BY <1>4, <1>10
  <2>. QED  BY <1>10, <2>2, <2>3, Zenon
<1>. QED  BY Zenon, <1>5, <1>8, <1>9, <1>10

LEMMA ButtonByClose ==
  ASSUME "started" \in DOMAIN dev, gui \in Seq(Signals), Ctrl!slot_close_device
  PROVE  /\ dev'.started = FALSE
         /\ Told(gui', device_status, dev'.started)
<1>. DEFINE none == <<STATUS_OFFLINE>>
<1>1. dev' = Ctrl!Closed(dev) /\ gui' = Statused(gui, none)
  BY CtrlSame, Zenon DEF Ctrl!slot_close_device, Ctrl!sig_open_finish,
                         Ctrl!STATUS_OFFLINE, STATUS_OFFLINE
<1>2. none \in Seq(Statuses) /\ Len(none) = 1 /\ none[1] = STATUS_OFFLINE
  BY StatusSeqs
<1>3. Says(none[Len(none)], FALSE) /\ Len(none) # 0
  BY <1>2 DEF Says, STATUS_OFFLINE, STATUS_OK
<1>. HIDE DEF none
<1>4. Told(Statused(gui, none), device_status, FALSE)
  BY Zenon, <1>2, <1>3, ToldByStatus
<1>5. dev'.started = FALSE
  BY <1>1 DEF Ctrl!Closed, Ctrl!VCI_CloseDevice
<1>. QED  BY Zenon, <1>1, <1>4, <1>5

\* The tasks and the bus change neither what is open nor what is told.
LEMMA CtrlKeepsStarted ==
  ASSUME "started" \in DOMAIN dev, Ctrl!transmit_task \/ Ctrl!receive_task \/ Ctrl!BusFrame
  PROVE  dev'.started = dev.started /\ gui' = gui
<1>1. gui' = gui
  BY DEF Ctrl!transmit_task, Ctrl!receive_task, Ctrl!BusFrame
<1>2. CASE dev' = dev
  BY <1>1, <1>2
<1>3. ASSUME NEW e, dev' = [dev EXCEPT !.err = e]
      PROVE  dev'.started = dev.started
  BY <1>3
<1>4. ASSUME NEW e, dev' \in Ctrl!slot_restart_device([dev EXCEPT !.err = e])
      PROVE  dev'.started = dev.started
  BY Zenon, <1>4 DEF Ctrl!slot_restart_device, Ctrl!VCI_CloseDevice
<1>5. CASE Ctrl!transmit_task
  BY Zenon, <1>1, <1>2, <1>3, <1>4, <1>5 DEF Ctrl!transmit_task, Ctrl!ResetBus, Ctrl!Send
<1>6. ASSUME NEW x, dev' = [dev EXCEPT !.rx = x]
      PROVE  dev'.started = dev.started
  BY <1>6
<1>7. CASE Ctrl!receive_task
  BY <1>1, <1>2, <1>3, <1>6, <1>7 DEF Ctrl!receive_task
<1>8. CASE Ctrl!BusFrame
  BY <1>1, <1>6, <1>8 DEF Ctrl!BusFrame
<1>. QED  BY <1>5, <1>7, <1>8

LEMMA StepButton ==
  ASSUME StreamsOK, CInv, ButtonOK, [Next]_vars
  PROVE  ButtonOK'
<1>. SUFFICES ASSUME driver' = "ctrl"
              PROVE  /\ dev'.started = TRUE \/ dev'.started = FALSE
                     /\ Told(gui', device_status', dev'.started)
  BY DEF ButtonOK
<1>0. driver = "ctrl"
  BY Zenon DEF Next, on_openDevicePushButton_clicked, can_write, Window, slot_recv_comm_status,
         slot_recv_pgn_handle, Thread, poll, transmit_task, receive_task, DeviceCommand,
         DriverEvent, Outside, Host, vars
<1>. DEFINE open == dev.started
<1>1. /\ open = TRUE \/ open = FALSE
      /\ Told(gui, device_status, open)
      /\ gui \in Seq(Signals) /\ "started" \in DOMAIN dev
  BY <1>0 DEF ButtonOK, CInv, CtrlOK, Told
<1>2. CASE UNCHANGED <<dev, gui, device_status>>
  BY <1>1, <1>2
<1>3. CASE \E index \in Devices : on_openDevicePushButton_clicked(index)
  BY <1>2, <1>3 DEF on_openDevicePushButton_clicked, base
<1>4. CASE can_write
  BY <1>2, <1>4 DEF can_write, transmit, window
<1>5. CASE Window
  <2>1. /\ gui # <<>> /\ gui' = Tail(gui) /\ dev' = dev
        /\ \/ Head(gui).type = "status" /\ device_status' = (Head(gui).value = STATUS_OK)
           \/ Head(gui).type = "message" /\ device_status' = device_status
    BY <1>5 DEF Window, slot_recv_comm_status, slot_recv_pgn_handle
  <2>2. IF Head(gui).type = "status" THEN device_status' = (Head(gui).value = STATUS_OK)
                                     ELSE device_status' = device_status
    BY <2>1
  <2>. HIDE DEF open
  <2>3. Told(Tail(gui), device_status', open)
    BY <1>1, <2>1, <2>2, ToldToWindow
  <2>. QED  BY <1>1, <2>1, <2>3 DEF open
<1>6. CASE poll
  <2>1. /\ UNCHANGED <<dev, device_status>>
        /\ \E frames \in PickedOut(recv_queue, {i \in DOMAIN recv_queue : ForPages(recv_queue[i])}) :
             gui' = gui \o [i \in DOMAIN frames |-> Message(frames[i])]
    BY Zenon, <1>6 DEF poll, can_recv_task, window
  <2>. DEFINE places == {i \in DOMAIN recv_queue : ForPages(recv_queue[i])}
  <2>2. PICK frames \in PickedOut(recv_queue, places) :
          gui' = gui \o [i \in DOMAIN frames |-> Message(frames[i])]
    BY Zenon, <2>1
  <2>3. recv_queue \in Seq(Nat)
    BY DEF StreamsOK, Behaves, Received, Ordered
  <2>4. places \subseteq 1 .. Len(recv_queue)
    BY <2>3
  <2>. HIDE DEF places
  <2>5. frames \in Seq(Nat)
    BY Zenon, <2>3, <2>4, PickOrder
  <2>. HIDE DEF open
  <2>6. Told(gui', device_status, open)
    BY <1>1, <2>2, <2>5, ToldPastMessages
  <2>. QED  BY <1>1, <2>1, <2>6 DEF open
<1>7. CASE transmit_task \/ receive_task \/ Outside
  <2>1. Ctrl!transmit_task \/ Ctrl!receive_task \/ Ctrl!BusFrame
    BY <1>0, <1>7 DEF transmit_task, receive_task, Outside
  <2>2. device_status' = device_status
    BY <1>7 DEF transmit_task, receive_task, Outside, window
  <2>3. dev'.started = dev.started /\ gui' = gui
    BY <1>1, <2>1, CtrlKeepsStarted
  <2>. QED  BY <1>1, <2>2, <2>3
<1>8. CASE DeviceCommand
  <2>1. Ctrl!slot_open_device(Command[2]) \/ Ctrl!slot_close_device
    BY <1>0, <1>8 DEF DeviceCommand
  <2>2. device_status' = device_status
    BY <1>8 DEF DeviceCommand, window
  <2>3. /\ dev'.started = TRUE \/ dev'.started = FALSE
        /\ Told(gui', device_status, dev'.started)
    BY Zenon, <1>1, <2>1, ButtonByOpen, ButtonByClose
  <2>. QED  BY <2>2, <2>3
<1>9. CASE DriverEvent \/ Host
  BY <1>0, <1>9 DEF DriverEvent, Host
<1>10. CASE UNCHANGED vars
  BY <1>2, <1>10 DEF vars, base, window
<1>. QED  BY Zenon, <1>3, <1>4, <1>5, <1>6, <1>7, <1>8, <1>9, <1>10 DEF Next, Thread

-----------------------------------------------------------------------------
(* What is counted, step by step. *)
Fails == faults < MaxFaults /\ faults' = faults + 1
Counted == faults' = faults \/ Fails

LEMMA FaultsAre ==
  ASSUME faults \in Nat
  PROVE  /\ Ctrl!Fault = Fails
         /\ Zlg!Fault => Fails
         /\ Udp!Fault => Fails
         /\ Socket!Fault => Fails
         /\ Ctrl!NoFault \/ Zlg!NoFault \/ Udp!NoFault \/ Socket!NoFault => faults' = faults
<1>1. FewFaults \in Nat /\ MaxFaults \in Nat /\ \A k \in Nat : k < FewFaults => k < MaxFaults
  BY CanBaseAssumption, CommJ1939Assumption
<1>. QED  BY <1>1 DEF Fails, Ctrl!Fault, Zlg!Fault, Udp!Fault, Socket!Fault,
                      Ctrl!NoFault, Zlg!NoFault, Udp!NoFault, Socket!NoFault

LEMMA CtrlCounts ==
  ASSUME faults \in Nat, NEW index,
         \/ Ctrl!slot_open_device(index) \/ Ctrl!slot_close_device
         \/ Ctrl!transmit_task \/ Ctrl!receive_task \/ Ctrl!BusFrame
  PROVE  Counted
<1>1. Ctrl!Fault \/ Ctrl!NoFault \/ faults' = faults
  BY Zenon DEF Ctrl!slot_open_device, Ctrl!slot_close_device, Ctrl!transmit_task, Ctrl!ResetBus,
               Ctrl!Send, Ctrl!receive_task, Ctrl!BusFrame
<1>. QED  BY <1>1, FaultsAre DEF Counted

LEMMA ZlgCounts ==
  ASSUME faults \in Nat, NEW index,
         \/ Zlg!slot_open_device(index) \/ Zlg!slot_close_device
         \/ Zlg!transmit_task \/ Zlg!receive_task \/ Zlg!BusFrame
  PROVE  Counted
<1>1. Zlg!Fault \/ Zlg!NoFault \/ faults' = faults
  BY Zenon DEF Zlg!slot_open_device, Zlg!slot_close_device, Zlg!transmit_task,
               Zlg!receive_task, Zlg!BusFrame
<1>. QED  BY <1>1, FaultsAre DEF Counted

LEMMA UdpCounts ==
  ASSUME faults \in Nat, NEW index,
         \/ Udp!slot_open_device(index) \/ Udp!slot_close_device
         \/ Udp!transmit_task \/ Udp!receive_task \/ Udp!BusFrame \/ Udp!HostAnswers
         \/ Udp!slot_ready_read_ack \/ Udp!slot_ready_read_data
  PROVE  Counted
<1>1. Udp!Fault \/ Udp!NoFault \/ faults' = faults
  BY Zenon DEF Udp!slot_open_device, Udp!slot_close_device, Udp!transmit_task, Udp!receive_task,
               Udp!BusFrame, Udp!HostAnswers, Udp!slot_ready_read_ack, Udp!slot_ready_read_data
<1>. QED  BY <1>1, FaultsAre DEF Counted

LEMMA SocketCounts ==
  ASSUME faults \in Nat,
         \/ Socket!slot_open_device \/ Socket!slot_close_device \/ Socket!slot_wait_timeout
         \/ Socket!transmit_task \/ Socket!receive_task \/ Socket!slot_ready_read_data
  PROVE  Counted
<1>1. \A msg : Socket!Write(msg) => Socket!Fault \/ Socket!NoFault
  BY Zenon DEF Socket!Write
<1>2. CASE Socket!transmit_task
  <2>1. Socket!Fault \/ Socket!NoFault
    BY <1>1, <1>2, Zenon DEF Socket!transmit_task
  <2>. QED  BY <2>1, FaultsAre DEF Counted
<1>3. CASE \/ Socket!slot_open_device \/ Socket!slot_close_device \/ Socket!slot_wait_timeout
           \/ Socket!receive_task \/ Socket!slot_ready_read_data
  <2>1. Socket!Fault \/ Socket!NoFault \/ faults' = faults
    BY <1>1, <1>3, Zenon DEF Socket!slot_open_device, Socket!slot_close_device,
         Socket!slot_wait_timeout, Socket!receive_task, Socket!slot_ready_read_data
  <2>. QED  BY <2>1, FaultsAre DEF Counted
<1>. QED  BY <1>2, <1>3

LEMMA HostCounts ==
  ASSUME faults \in Nat, clicks \in 0 .. MaxClicks, Host
  PROVE  Counted /\ clicks' \in 0 .. MaxClicks
<1>1. CASE HostEvent
  <2>1. clicks' = clicks
    BY <1>1 DEF HostEvent
  <2>2. Socket!Fault \/ Socket!NoFault \/ faults' = faults
    BY <1>1, Zenon DEF HostEvent, Socket!server_slot_ready_read, Socket!can_dev_task
  <2>. QED  BY <2>1, <2>2, FaultsAre DEF Counted
<1>2. CASE HostProgram
  <2>1. clicks' = clicks \/ (clicks < MaxClicks /\ clicks' = clicks + 1)
    BY <1>2 DEF HostProgram
  <2>2. Socket!Fault \/ Socket!NoFault \/ faults' = faults
    BY <1>2, Zenon DEF HostProgram, Socket!open_device, Socket!close_device, Socket!close_unused,
                       Socket!HostRestarts
  <2>3. Counted
    BY <2>2, FaultsAre DEF Counted
  <2>. QED  BY <2>1, <2>3, CommJ1939Assumption
<1>. QED  BY <1>1, <1>2 DEF Host

LEMMA StepFaults ==
  ASSUME faults \in 0 .. MaxFaults, clicks \in 0 .. MaxClicks, [Next]_vars
  PROVE  faults' \in 0 .. MaxFaults /\ clicks' \in 0 .. MaxClicks
<1>1. faults \in Nat /\ MaxFaults \in Nat /\ MaxClicks \in Nat
  BY CanBaseAssumption, CommJ1939Assumption
<1>. SUFFICES Counted /\ clicks' \in 0 .. MaxClicks
  BY <1>1 DEF Counted, Fails
<1>2. CASE \E index \in Devices : on_openDevicePushButton_clicked(index)
  <2>1. faults' = faults /\ clicks < MaxClicks /\ clicks' = clicks + 1
    BY <1>2 DEF on_openDevicePushButton_clicked, base
  <2>. QED  BY <1>1, <2>1 DEF Counted
<1>3. CASE can_write \/ Window \/ poll \/ UNCHANGED vars
  BY <1>3 DEF can_write, transmit, Window, slot_recv_comm_status, slot_recv_pgn_handle, poll,
              window, vars, base, Counted
<1>4. CASE transmit_task
  <2>1. clicks' = clicks
    BY <1>4 DEF transmit_task, window
  <2>2. Counted
    BY <1>1, <1>4, CtrlCounts, ZlgCounts, UdpCounts, SocketCounts, Zenon DEF transmit_task
  <2>. QED  BY <2>1, <2>2
<1>5. CASE receive_task
  <2>1. clicks' = clicks
    BY <1>5 DEF receive_task, window
  <2>2. Counted
    BY <1>1, <1>5, CtrlCounts, ZlgCounts, UdpCounts, SocketCounts, Zenon DEF receive_task
  <2>. QED  BY <2>1, <2>2
<1>6. CASE DeviceCommand
  <2>1. clicks' = clicks
    BY <1>6 DEF DeviceCommand, window
  <2>2. Counted
    BY <1>1, <1>6, CtrlCounts, ZlgCounts, UdpCounts, SocketCounts, Zenon DEF DeviceCommand
  <2>. QED  BY <2>1, <2>2
<1>7. CASE DriverEvent
  <2>1. clicks' = clicks
    BY <1>7 DEF DriverEvent, window
  <2>2. Counted
    BY <1>1, <1>7, UdpCounts, SocketCounts, Zenon DEF DriverEvent
  <2>. QED  BY <2>1, <2>2
<1>8. CASE Outside
  <2>1. clicks' = clicks
    BY <1>8 DEF Outside, window
  <2>2. Counted
    BY <1>1, <1>8, CtrlCounts, ZlgCounts, UdpCounts, Zenon DEF Outside
  <2>. QED  BY <2>1, <2>2
<1>9. CASE Host
  BY <1>1, <1>9, HostCounts
<1>. QED  BY <1>2, <1>3, <1>4, <1>5, <1>6, <1>7, <1>8, <1>9 DEF Next, Thread

\* The frames offered and accepted, and the room in the queue.
LEMMA StepOffered ==
  ASSUME IInv, CountsOK, [Next]_vars
  PROVE  /\ offered' \in 0 .. MaxOffered /\ Len(transmit_queue') <= QueueMax
         /\ Ordered(accepted') /\ ToSet(accepted') \subseteq 1 .. offered'
<1>1. /\ QueueMax \in Nat /\ MaxOffered \in Nat
      /\ transmit_queue \in Seq(Nat) /\ Len(transmit_queue) \in Nat
      /\ offered \in 0 .. MaxOffered /\ Len(transmit_queue) <= QueueMax
      /\ Ordered(accepted) /\ ToSet(accepted) \subseteq 1 .. offered
  BY CanBaseAssumption DEF IInv, CountsOK
<1>2. CASE Quiet
  BY <1>1, <1>2 DEF Quiet
<1>3. CASE Offers
  <2>1. offered' = offered + 1 /\ offered' \in 0 .. MaxOffered
    BY <1>1, <1>3 DEF Offers, transmit
  <2>2. CASE UNCHANGED <<transmit_queue, accepted>>
    BY <1>1, <2>1, <2>2
  <2>3. CASE /\ Len(transmit_queue) < QueueMax
             /\ transmit_queue' = Append(transmit_queue, offered')
             /\ accepted' = Append(accepted, offered')
    <3>. DEFINE n == offered + 1
    <3>1. n \in Nat /\ \A y \in ToSet(accepted) : y < n
      BY <1>1
    <3>. HIDE DEF n
    <3>2. Ordered(Append(accepted, n)) /\ ToSet(Append(accepted, n)) = ToSet(accepted) \cup {n}
      BY <1>1, <3>1, AppendOrder
    <3>3. ToSet(accepted) \cup {n} \subseteq 1 .. n
      BY <1>1 DEF n
    <3>4. Len(Append(transmit_queue, n)) <= QueueMax
      BY <1>1, <2>3, <3>1
    <3>5. offered' = n
      BY <2>1 DEF n
    <3>. QED  BY <2>1, <2>3, <3>2, <3>3, <3>4, <3>5
  <2>. QED  BY <1>3, <2>2, <2>3 DEF Offers, transmit
<1>4. CASE Takes
  <2>1. PICK limit \in Nat : transmit_dequeue(limit)
    BY <1>4 DEF Takes
  <2>. DEFINE m == Least(limit, Len(transmit_queue))
  <2>2. m \in 0 .. Len(transmit_queue)
    BY <1>1 DEF Least
  <2>3. transmit_queue' = SubSeq(transmit_queue, m + 1, Len(transmit_queue))
    BY <2>1 DEF transmit_dequeue
  <2>. HIDE DEF m
  <2>4. Len(SubSeq(transmit_queue, m + 1, Len(transmit_queue))) <= Len(transmit_queue)
    BY <1>1, <2>2
  <2>5. Len(SubSeq(transmit_queue, m + 1, Len(transmit_queue))) \in Nat
    BY <1>1, <2>2
  <2>. DEFINE rest == SubSeq(transmit_queue, m + 1, Len(transmit_queue))
  <2>6. Len(rest) <= QueueMax
    <3>. HIDE DEF rest
    <3>1. Len(rest) \in Nat /\ Len(rest) <= Len(transmit_queue)
      BY Zenon, <2>4, <2>5 DEF rest
    <3>. QED  BY <1>1, <3>1
  <2>. QED  BY Zenon, <1>1, <1>4, <2>3, <2>6 DEF Takes
<1>. QED  BY <1>2, <1>3, <1>4, StepKinds

LEMMA StepWindow ==
  ASSUME StreamsOK, Paged(parsed, gui, dispatched), CountsOK, [Next]_vars
  PROVE  /\ pc' \in {"events", "transmit", "receive", "crashed"}
         /\ device_status' = TRUE \/ device_status' = FALSE
         /\ src_page_map' \subseteq Range(Node)
<1>1. /\ pc \in {"events", "transmit", "receive", "crashed"}
      /\ device_status = TRUE \/ device_status = FALSE
      /\ src_page_map \subseteq Range(Node)
  BY DEF CountsOK
<1>2. pc' \in {"events", "transmit", "receive", "crashed"}
  BY Zenon, <1>1 DEF Next, on_openDevicePushButton_clicked, can_write, Window, slot_recv_comm_status,
         slot_recv_pgn_handle, Thread, poll, transmit_task, AfterTransmit, receive_task,
         DeviceCommand, DriverEvent, Outside, Host, vars
<1>3. CASE slot_recv_comm_status
  <2>1. src_page_map' = src_page_map /\ device_status' = (Head(gui).value = STATUS_OK)
    BY <1>3 DEF slot_recv_comm_status
  <2>. QED  BY <1>1, <1>2, <2>1
<1>4. CASE slot_recv_pgn_handle
  <2>1. /\ gui # <<>> /\ Head(gui).type = "message" /\ device_status' = device_status
        /\ src_page_map' = src_page_map \cup {Node[Head(gui).value]}
    BY <1>4 DEF slot_recv_pgn_handle
  <2>2. Head(gui).value \in ForPagesOf(ToSet(dispatched))
    BY <2>1, PagedToWindow
  <2>3. ToSet(dispatched) \subseteq 1 .. arrived /\ arrived \in 0 .. MaxArrived /\ MaxArrived \in Nat
    BY CanBaseAssumption DEF StreamsOK, Behaves, Received, CountsOK
  <2>4. Head(gui).value \in DOMAIN Node
    BY <2>2, <2>3, CommJ1939Assumption DEF ForPagesOf
  <2>5. Node[Head(gui).value] \in Range(Node)
    BY <2>4 DEF Range
  <2>. QED  BY <1>1, <1>2, <2>1, <2>5
<1>5. CASE UNCHANGED <<device_status, src_page_map>>
  BY <1>1, <1>2, <1>5
<1>6. CASE ~Window
  <2>1. UNCHANGED <<device_status, src_page_map>>
    BY Zenon, <1>6 DEF Next, on_openDevicePushButton_clicked, can_write, Thread, poll, transmit_task,
         receive_task, DeviceCommand, DriverEvent, Outside, Host, vars, window
  <2>. QED  BY <1>5, <2>1
<1>. QED  BY Zenon, <1>3, <1>4, <1>6 DEF Window

LEMMA StepCounts ==
  ASSUME IInv, StreamsOK, Paged(parsed, gui, dispatched), commands \in Seq(Commands),
         CountsOK, [Next]_vars
  PROVE  CountsOK'
<1>1. transmit_queue \in Seq(Nat)
  BY DEF IInv
<1>2. Bounded
  BY <1>1, StepStreams
<1>3. /\ arrived \in 0 .. MaxArrived /\ MaxArrived \in Nat
      /\ Len(recv_queue) <= QueueMax
      /\ faults \in 0 .. MaxFaults /\ clicks \in 0 .. MaxClicks
  BY CanBaseAssumption DEF CountsOK
<1>4. arrived' \in 0 .. MaxArrived /\ Len(recv_queue') <= QueueMax
  BY <1>2, <1>3 DEF Bounded
<1>5. faults' \in 0 .. MaxFaults /\ clicks' \in 0 .. MaxClicks
  BY <1>3, StepFaults
<1>6. /\ offered' \in 0 .. MaxOffered /\ Len(transmit_queue') <= QueueMax
      /\ Ordered(accepted') /\ ToSet(accepted') \subseteq 1 .. offered'
  BY StepOffered
<1>7. /\ pc' \in {"events", "transmit", "receive", "crashed"}
      /\ device_status' = TRUE \/ device_status' = FALSE
      /\ src_page_map' \subseteq Range(Node)
  BY Zenon, StepWindow
<1>. QED  BY <1>4, <1>5, <1>6, <1>7, Zenon DEF CountsOK

-----------------------------------------------------------------------------
LEMMA StepLink == LinkInv /\ [Next]_vars => LinkInv'
<1>. SUFFICES ASSUME LinkInv, [Next]_vars
              PROVE  LinkInv'
  OBVIOUS
<1>1. /\ IInv /\ CInv /\ StreamsOK /\ Paged(parsed, gui, dispatched) /\ ButtonOK /\ CountsOK
      /\ commands \in Seq(Commands) /\ driver \in {"ctrl", "zlg", "udp", "socket"}
      /\ transmit_queue \in Seq(Nat)
  BY DEF LinkInv, IInv
<1>2. IInv' /\ CInv'
  BY <1>1, StepPreservesIInv, StepPreservesCInv
<1>3. StreamsOK'
  BY <1>1, StepStreams
<1>4. Paged(parsed, gui, dispatched)'
  BY <1>1, StepPages
<1>5. commands' \in Seq(Commands)
  BY <1>1, StepCommands
<1>6. ButtonOK'
  BY <1>1, StepButton
<1>7. CountsOK'
  BY <1>1, StepCounts
<1>8. driver' = driver
  BY Zenon DEF Next, on_openDevicePushButton_clicked, can_write, Window, slot_recv_comm_status,
         slot_recv_pgn_handle, Thread, poll, transmit_task, receive_task, DeviceCommand,
         DriverEvent, Outside, Host, vars
<1>. QED  BY <1>1, <1>2, <1>3, <1>4, <1>5, <1>6, <1>7, <1>8 DEF LinkInv

LEMMA LinkInvHolds == Spec => []LinkInv
BY InitLink, StepLink, PTL DEF Spec

\* However often the button is clicked before an answer comes, and whichever
\* step of opening fails, the last of the statuses under way says whether the
\* driver is open; when none is under way the button shows it (mainwindow.cpp
\* on_openDevicePushButton_clicked and slot_recv_comm_status, ctrlcan.cpp
\* slot_open_device and slot_close_device).
THEOREM ButtonTellsTruth == Spec => []ButtonMatchesDriver
<1>1. LinkInv => ButtonMatchesDriver
  <2>. SUFFICES ASSUME LinkInv, driver = "ctrl", gui = <<>>
                PROVE  device_status = Ctrl!is_open
    BY DEF ButtonMatchesDriver
  <2>1. Told(gui, device_status, dev.started)
    BY DEF LinkInv, ButtonOK
  <2>2. 1 .. Len(gui) = {}
    OBVIOUS
  <2>3. device_status = dev.started
    BY <2>1, <2>2, Zenon DEF Told
  <2>. QED  BY <2>3 DEF Ctrl!is_open
<1>. QED  BY <1>1, LinkInvHolds, PTL

\* The frames of the bus reach the communication thread once and in order, and
\* from there the pages get those for them, once and in order, whichever driver
\* brings them and whatever is lost on the way (the drivers' receive_task,
\* canbase.h recv_enqueue, comm_j1939.cpp can_recv_task and recv_pgn_handle).
THEOREM OrderIsKept == Spec => []DispatchedInOrder
<1>1. LinkInv => DispatchedInOrder
  <2>. SUFFICES ASSUME LinkInv
                PROVE  DispatchedInOrder
    OBVIOUS
  <2>1. Received(dispatched, recv_queue, arrived) /\ Paged(parsed, gui, dispatched)
    BY DEF LinkInv, StreamsOK, Behaves
  <2>2. Increasing(dispatched \o recv_queue)
    BY <2>1, ConcatOrder DEF Received, Ordered
  <2>3. /\ parsed \in Seq(Nat) /\ Increasing(parsed) /\ gui \in Seq(Signals)
        /\ Less(ToSet(parsed), ValuesIn(gui)) /\ Rising(gui)
        /\ ToSet(parsed) \cup ValuesIn(gui) = ForPagesOf(ToSet(dispatched))
    BY <2>1 DEF Paged, Ordered
  <2>4. MessagesIn(gui) = Messages /\ ValuesIn(gui) = {gui[i].value : i \in Messages}
    BY <2>3 DEF MessagesIn, Messages, ValuesIn
  <2>5. \A i \in DOMAIN parsed, j \in Messages : parsed[i] < gui[j].value
    <3>1. \A i \in DOMAIN parsed : parsed[i] \in ToSet(parsed)
      BY <2>3, ToSetIs
    <3>2. \A j \in Messages : gui[j].value \in ValuesIn(gui)
      BY <2>4
    <3>. QED  BY <2>3, <3>1, <3>2 DEF Less
  <2>6. \A i, j \in Messages : i < j => gui[i].value < gui[j].value
    BY <2>3, <2>4 DEF Rising
  <2>7. ToSet(parsed) \cup {gui[i].value : i \in Messages} = {n \in ToSet(dispatched) : ForPages(n)}
    BY <2>3, <2>4, Zenon DEF ForPagesOf
  <2>. QED  BY <2>2, <2>3, <2>5, <2>6, <2>7 DEF DispatchedInOrder
<1>. QED  BY <1>1, LinkInvHolds, PTL

\* The queues keep their limit and hold nothing but frames that were offered or
\* that came, the signals to the window are of the two kinds there are, and a
\* page is made only for a node that was heard (canbase.h transmit and
\* recv_enqueue, mainwindow.cpp slot_recv_pgn_handle).
THEOREM LinkTypesHold == Spec => []TypeOK
<1>1. LinkInv => TypeOK
  <2>. SUFFICES ASSUME LinkInv
                PROVE  TypeOK
    OBVIOUS
  <2>1. /\ IInv /\ CountsOK
        /\ Received(dispatched, recv_queue, arrived) /\ Paged(parsed, gui, dispatched)
    BY DEF LinkInv, StreamsOK, Behaves
  <2>2. /\ pc \in {"events", "transmit", "receive", "crashed"}
        /\ device_status = TRUE \/ device_status = FALSE
        /\ offered \in 0 .. MaxOffered /\ arrived \in 0 .. MaxArrived
        /\ faults \in 0 .. MaxFaults /\ clicks \in 0 .. MaxClicks
        /\ Len(transmit_queue) <= QueueMax /\ Len(recv_queue) <= QueueMax
        /\ ToSet(accepted) \subseteq 1 .. offered
        /\ src_page_map \subseteq Range(Node)
    BY <2>1 DEF CountsOK
  <2>3. MaxOffered \in Nat /\ MaxArrived \in Nat
    BY CanBaseAssumption
  <2>4. ToSet(handed) \subseteq ToSet(accepted) /\ ToSet(transmit_queue) \subseteq ToSet(accepted)
    <3>1. handed \in Seq(Nat) /\ transmit_queue \in Seq(Nat) /\ accepted = handed \o transmit_queue
      BY <2>1 DEF IInv, HandedOnce
    <3>2. /\ Len(handed) \in Nat /\ Len(transmit_queue) \in Nat /\ accepted \in Seq(Nat)
          /\ \A i \in 1 .. Len(handed) : i \in 1 .. Len(accepted) /\ accepted[i] = handed[i]
          /\ \A k \in 1 .. Len(transmit_queue) :
               Len(handed) + k \in 1 .. Len(accepted) /\ accepted[Len(handed) + k] = transmit_queue[k]
      <4>1. accepted \in Seq(Nat)
        BY <2>1 DEF IInv
      <4>2. \A i \in 1 .. Len(handed) : i \in 1 .. Len(accepted) /\ accepted[i] = handed[i]
        BY <3>1, Behind
      <4>3. \A k \in 1 .. Len(transmit_queue) :
               Len(handed) + k \in 1 .. Len(accepted) /\ accepted[Len(handed) + k] = transmit_queue[k]
        BY <3>1, Behind
      <4>4. Len(handed) \in Nat /\ Len(transmit_queue) \in Nat
        BY <3>1
      <4>. QED  BY Zenon, <4>1, <4>2, <4>3, <4>4
    <3>3. /\ ToSet(handed) = {handed[i] : i \in 1 .. Len(handed)}
          /\ ToSet(transmit_queue) = {transmit_queue[i] : i \in 1 .. Len(transmit_queue)}
          /\ ToSet(accepted) = {accepted[i] : i \in 1 .. Len(accepted)}
      BY Zenon, <3>1, <3>2, ToSetIs
    <3>4. \A i \in 1 .. Len(handed) : handed[i] \in ToSet(accepted)
      BY <3>2, <3>3
    <3>5. \A k \in 1 .. Len(transmit_queue) : transmit_queue[k] \in ToSet(accepted)
      BY Zenon, <3>2, <3>3
    <3>. QED  BY <3>3, <3>4, <3>5, Zenon
  <2>5. ToSet(accepted) \subseteq 1 .. MaxOffered
    BY <2>2, <2>3
  <2>6. {ToSet(q) : q \in {transmit_queue, accepted, handed}} \subseteq SUBSET (1 .. MaxOffered)
    BY <2>4, <2>5
  <2>7. ToSet(dispatched) \subseteq 1 .. MaxArrived /\ ToSet(recv_queue) \subseteq 1 .. MaxArrived
    BY <2>1, <2>2, <2>3 DEF Received
  <2>8. /\ gui \in Seq(Signals)
        /\ ToSet(parsed) \subseteq ToSet(dispatched) /\ ValuesIn(gui) \subseteq ToSet(dispatched)
    BY <2>1 DEF Paged, ForPagesOf
  <2>9. {ToSet(q) : q \in {recv_queue, dispatched, parsed}} \subseteq SUBSET (1 .. MaxArrived)
    BY <2>7, <2>8
  <2>10. \A i \in DOMAIN gui : \/ gui[i].type = "status" /\ gui[i].value \in Statuses
                               \/ gui[i].type = "message" /\ gui[i].value \in 1 .. MaxArrived
    <3>. SUFFICES ASSUME NEW i \in DOMAIN gui
                  PROVE  \/ gui[i].type = "status" /\ gui[i].value \in Statuses
                         \/ gui[i].type = "message" /\ gui[i].value \in 1 .. MaxArrived
      OBVIOUS
    <3>1. i \in 1 .. Len(gui) /\ gui[i] \in Signals
      BY <2>8
    <3>2. CASE gui[i].type = "message"
      <4>1. gui[i].value \in ValuesIn(gui)
        BY <3>1, <3>2 DEF ValuesIn, MessagesIn
      <4>. QED  BY <2>7, <2>8, <3>2, <4>1
    <3>. QED  BY <3>1, <3>2, SignalIs
  <2>. QED  BY Zenon, <2>2, <2>6, <2>9, <2>10 DEF TypeOK
<1>. QED  BY <1>1, LinkInvHolds, PTL
=============================================================================
