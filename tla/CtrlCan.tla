------------------------------- MODULE CtrlCan -------------------------------
(***************************************************************************)
(* comm/controlcan/ctrlcan.cpp, the driver the program is built with, over *)
(* the vendor's VCI library.  dev.opened holds the adapters the library    *)
(* has open, dev.rx what the adapter in use has received.  Every call of   *)
(* the library may fail, and a call on an adapter that is not open does.   *)
(***************************************************************************)
EXTENDS CanBase

\* The flags of errinfo.ErrCode the driver looks at: ERR_CMDFAILED, and
\* ERR_CAN_BUSOFF or ERR_CAN_BUSERR.
ErrCodes == SUBSET {"command", "bus"}

DevInit == [started |-> FALSE, index |-> 0, err |-> {},
            opened |-> {}, rx |-> <<>>]

is_open == dev.started

Present == dev.index \in dev.opened

\* VCI_CloseDevice, and slot_close_device on a driver d.
VCI_CloseDevice(d) == [d EXCEPT !.opened = @ \ {d.index}, !.rx = <<>>]
Closed(d) == [VCI_CloseDevice(d) EXCEPT !.started = FALSE]

\* Mutant: a step of opening that fails leaves the adapter open.
open_leaves_adapter(index) ==
  LET closed == Closed([dev EXCEPT !.index = index])
      open == [closed EXCEPT !.opened = @ \cup {index}]
  IN  /\ \/ Fault /\ dev' = closed /\ sig_open_finish(<<STATUS_OFFLINE>>)
         \/ Fault /\ dev' = open /\ sig_open_finish(<<STATUS_OFFLINE, STATUS_OFFLINE>>)
         \/ /\ NoFault
            /\ dev' = [open EXCEPT !.started = TRUE]
            /\ sig_open_finish(<<STATUS_OFFLINE, STATUS_OK>>)
      /\ UNCHANGED <<transmit_queue, recv_queue, offered, arrived, accepted, handed>>

\* The index is stored before the close, which therefore closes the new
\* adapter.  VCI_OpenDevice fails; VCI_InitCAN or VCI_StartCAN fails; or all
\* succeed.
slot_open_device(index) ==
  LET closed == Closed([dev EXCEPT !.index = index])
      open == [closed EXCEPT !.opened = @ \cup {index}]
  IN  /\ \/ Fault /\ dev' = closed /\ sig_open_finish(<<STATUS_OFFLINE>>)
         \/ Fault /\ dev' = Closed(open)
                  /\ sig_open_finish(<<STATUS_OFFLINE, STATUS_OFFLINE>>)
         \/ /\ NoFault
            /\ dev' = [open EXCEPT !.started = TRUE]
            /\ sig_open_finish(<<STATUS_OFFLINE, STATUS_OK>>)
      /\ UNCHANGED <<transmit_queue, recv_queue, offered, arrived, accepted, handed>>

\* Mutant: forgets to tell the window.
close_untold ==
  /\ dev' = Closed(dev)
  /\ UNCHANGED <<transmit_queue, recv_queue, gui, offered, arrived, accepted, handed, faults>>

slot_close_device ==
  /\ dev' = Closed(dev)
  /\ sig_open_finish(<<STATUS_OFFLINE>>)
  /\ UNCHANGED <<transmit_queue, recv_queue, offered, arrived, accepted, handed, faults>>

\* slot_restart_device with the error just read: after a failed command the
\* adapter is closed and opened again, and stays closed when that fails.  The
\* driver stays started, and the error set, whatever happens.
slot_restart_device(d) ==
  IF "command" \in d.err
  THEN {VCI_CloseDevice(d), [VCI_CloseDevice(d) EXCEPT !.opened = @ \cup {d.index}]}
  ELSE {d}

\* Mutant: the error is not read again.
ResetUnread ==
  /\ "bus" \in dev.err
  /\ NoFault
  /\ UNCHANGED <<dev, transmit_queue, handed>>

\* transmit_task under a bus error: reset, read the error again, send nothing.
ResetBus ==
  /\ "bus" \in dev.err
  /\ \/ NoFault /\ dev' = [dev EXCEPT !.err = {}]
     \/ Fault /\ \E e \in ErrCodes : dev' = [dev EXCEPT !.err = e]
  /\ UNCHANGED <<transmit_queue, handed>>

\* Otherwise VCI_Transmit takes all the frames, or fewer: then the error is
\* read, the adapter restarted if there is one, and the frames do not come back.
\* An adapter that is not open refuses, and may not complain of no frames.
Send ==
  /\ "bus" \notin dev.err
  /\ transmit_dequeue(SendMax)
  /\ \/ (Present \/ Taken(SendMax) = 0) /\ NoFault /\ UNCHANGED dev
     \/ /\ IF Present THEN Taken(SendMax) > 0 /\ Fault ELSE NoFault
        /\ \E e \in ErrCodes : dev' \in slot_restart_device([dev EXCEPT !.err = e])

transmit_task ==
  /\ ResetBus \/ Send
  /\ UNCHANGED <<recv_queue, gui, offered, arrived, accepted>>

\* receive_task: a batch of what the adapter holds, or an error is read.
receive_task ==
  /\ \/ dev.rx = <<>> /\ NoFault /\ UNCHANGED <<dev, recv_queue>>
     \/ /\ dev.rx # <<>>
        /\ NoFault
        /\ LET n == Least(RecvMax, Len(dev.rx))
           IN  /\ \E frames \in WithData(SubSeq(dev.rx, 1, n)) :
                    recv_queue' = Enqueue(recv_queue, frames)
               /\ dev' = [dev EXCEPT !.rx = SubSeq(@, n + 1, Len(@))]
     \/ /\ dev.rx # <<>>
        /\ Fault
        /\ \E e \in ErrCodes : dev' = [dev EXCEPT !.err = e]
        /\ UNCHANGED recv_queue
  /\ UNCHANGED <<transmit_queue, gui, offered, arrived, accepted, handed>>

\* The bus delivers a frame to the adapter.
BusFrame ==
  /\ arrived < MaxArrived
  /\ Present
  /\ arrived' = arrived + 1
  /\ dev' = [dev EXCEPT !.rx = Append(@, arrived')]
  /\ UNCHANGED <<transmit_queue, recv_queue, gui, offered, accepted, handed, faults>>

\* What the driver leaves open when it is closed: nothing.
ClosedIsClosed == ~dev.started => ~Present
=============================================================================
