-------------------------------- MODULE ZlgCan --------------------------------
(***************************************************************************)
(* comm/zlgcan/zlgcan_ctrl.cpp, the driver over the ZCAN library.  It is   *)
(* open as long as its two handles are not INVALID_DEVICE_HANDLE; closing  *)
(* the device keeps both.  dev.opened says whether the library has the     *)
(* device open.                                                            *)
(***************************************************************************)
EXTENDS CanBase

DevInit == [device_handle |-> FALSE, channel_handle |-> FALSE,
            opened |-> FALSE, rx |-> <<>>]

is_open == dev.device_handle /\ dev.channel_handle

ZCAN_CloseDevice(d) == [d EXCEPT !.opened = FALSE, !.rx = <<>>]

\* ZCAN_OpenDevice, ZCAN_InitCAN and ZCAN_StartCAN on a closed device d: the
\* handles and the status of each way it may end.  A failure after the first
\* leaves the device open.
Opening(d) ==
  LET open == [d EXCEPT !.device_handle = TRUE, !.opened = TRUE]
      up == [open EXCEPT !.channel_handle = TRUE]
  IN  {<<[d EXCEPT !.device_handle = FALSE], STATUS_ERR>>,
       <<[open EXCEPT !.channel_handle = FALSE], STATUS_ERR>>,
       <<up, STATUS_ERR>>,
       <<up, STATUS_OK>>}

slot_open_device(index) ==
  /\ \E r \in Opening(ZCAN_CloseDevice(dev)) :
       /\ IF r[2] = STATUS_OK THEN NoFault ELSE Fault
       /\ dev' = r[1]
       /\ sig_open_finish(<<STATUS_OFFLINE, r[2]>>)
  /\ UNCHANGED <<transmit_queue, recv_queue, offered, arrived, accepted, handed>>

slot_close_device ==
  /\ dev' = ZCAN_CloseDevice(dev)
  /\ sig_open_finish(<<STATUS_OFFLINE>>)
  /\ UNCHANGED <<transmit_queue, recv_queue, offered, arrived, accepted, handed, faults>>

\* transmit_task empties the queue into an array of SendMax places, and a short
\* write restarts the device, also one the operator has closed.
transmit_task ==
  /\ transmit_dequeue(QueueMax)
  /\ \/ (dev.opened \/ Taken(QueueMax) = 0) /\ NoFault /\ UNCHANGED dev
     \/ /\ Taken(QueueMax) > 0
        /\ IF dev.opened THEN Fault ELSE NoFault
        /\ \E r \in Opening(ZCAN_CloseDevice(dev)) : dev' = r[1]
  /\ UNCHANGED <<recv_queue, gui, offered, arrived, accepted>>

\* What does not fit in the array.
Overrun == Taken(QueueMax) > SendMax

receive_task ==
  LET n == Least(RecvMax, Len(dev.rx))
  IN  /\ \E frames \in WithData(SubSeq(dev.rx, 1, n)) :
           recv_queue' = Enqueue(recv_queue, frames)
      /\ dev' = [dev EXCEPT !.rx = SubSeq(@, n + 1, Len(@))]
      /\ UNCHANGED <<transmit_queue, gui, offered, arrived, accepted, handed, faults>>

BusFrame ==
  /\ arrived < MaxArrived
  /\ dev.opened
  /\ arrived' = arrived + 1
  /\ dev' = [dev EXCEPT !.rx = Append(@, arrived')]
  /\ UNCHANGED <<transmit_queue, recv_queue, gui, offered, accepted, handed, faults>>
=============================================================================
