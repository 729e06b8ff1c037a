------------------------------ MODULE CanSocket ------------------------------
(***************************************************************************)
(* The socket driver, socketcan/cansocketclient.cpp, and the server of one *)
(* channel it talks to, cansocketserver.cpp, over a local stream.  wire.up *)
(* and wire.down are the messages on their way to the server and back.  A  *)
(* reader takes all the bytes that have come and handles the first message *)
(* of them only.                                                           *)
(***************************************************************************)
EXTENDS CtrlCanDev

VARIABLE wire

\* sock: there is no socket yet, it is connected, or it is closed.
DevInit == [started |-> FALSE, request_open |-> FALSE, wait_timer |-> FALSE]
WireInit == [sock |-> "none", joined |-> FALSE, up |-> <<>>, down |-> <<>>]

is_open == dev.started

Cfg(ctrl) == [cmd |-> "cfg", ctrl |-> ctrl]
Data(frames) == [cmd |-> "data", frames |-> frames]
Ack(of, value) == [cmd |-> "ack", of |-> of, value |-> value]

\* readAll: the first message is handled, those that came with it are lost.
Chunks(stream) == 1 .. Len(stream)
After(stream, k) == SubSeq(stream, k + 1, Len(stream))

-----------------------------------------------------------------------------
(* The server, in the host's thread. *)

slot_new_connect ==
  /\ host.loop
  /\ wire.sock = "up" /\ ~wire.joined
  /\ wire' = [wire EXCEPT !.joined = TRUE]
  /\ UNCHANGED host

\* CanBase::transmit of the served channel, for each frame of a message.
channel_transmit(frames) ==
  IF host.ch[Served].started
  THEN [host EXCEPT !.ch[Served].tx = Enqueue(@, frames)]
  ELSE host

\* slot_ready_read.  open_device of the channel runs the slot at once and
\* returns true whatever came of it.
server_slot_ready_read ==
  /\ host.loop
  /\ wire.joined
  /\ \E k \in Chunks(wire.up) :
       LET msg == Head(wire.up)
           reply(ack) == wire' = [wire EXCEPT !.up = After(@, k), !.down = Append(@, ack)]
       IN  \/ /\ msg = Cfg("open")
              /\ \/ host.opened /\ NoFault
                    /\ host' = [channel_open(host, Served, TRUE) EXCEPT !.recv_timer = TRUE]
                 \/ /\ IF host.opened THEN Fault ELSE NoFault
                    /\ host' = [channel_open(host, Served, FALSE) EXCEPT !.recv_timer = TRUE]
              /\ reply(Ack("cfg", 1))
           \/ /\ msg = Cfg("close")
              /\ NoFault
              /\ host' = [channel_close(host, Served) EXCEPT !.recv_timer = FALSE]
              /\ reply(Ack("cfg", 0))
           \/ /\ msg.cmd = "data"
              /\ NoFault
              /\ host' = channel_transmit(msg.frames)
              /\ reply(Ack("data", Len(msg.frames)))

\* slot_can_recv_timeout: the frames received go to every client there is.
slot_can_recv_timeout ==
  /\ host.loop
  /\ host.recv_timer
  /\ host.ch[Served].rq # <<>>
  /\ LET n == Least(FrameMax, Len(host.ch[Served].rq))
     IN  /\ wire' = IF wire.joined
                    THEN [wire EXCEPT !.down = Append(@, Data(SubSeq(host.ch[Served].rq, 1, n)))]
                    ELSE wire
         /\ host' = [host EXCEPT !.ch[Served].rq = After(@, n)]

\* The host program ends and is started again: the client's socket is closed.
HostRestarts ==
  /\ Fault
  /\ host' = HostInit(host.loop)
  /\ wire' = [WireInit EXCEPT !.sock = IF @ = "none" THEN @ ELSE "down"]

-----------------------------------------------------------------------------
(* The client, in the communication thread. *)

\* slot_wait_timeout.  A timeout that overtakes an answer is a failure of the
\* host; that bounds how often it happens.
AnswerComes == host.loop /\ wire.sock = "up" /\ (wire.up # <<>> \/ wire.down # <<>>)

slot_wait_timeout ==
  /\ dev.wait_timer
  /\ ~dev.request_open
  /\ IF AnswerComes THEN Fault ELSE NoFault
  /\ dev' = [dev EXCEPT !.request_open = TRUE]
  /\ UNCHANGED <<transmit_queue, recv_queue, gui, offered, arrived, accepted, handed, host, wire>>

slot_open_device ==
  /\ dev' = [started |-> TRUE, request_open |-> TRUE, wait_timer |-> TRUE]
  /\ UNCHANGED <<transmit_queue, recv_queue, gui, offered, arrived, accepted, handed, faults, host, wire>>

\* A message written to the socket; what does not get through closes it.
Write(msg) ==
  \/ wire.sock = "up" /\ NoFault /\ wire' = [wire EXCEPT !.up = Append(@, msg)]
  \/ wire.sock = "up" /\ Fault
     /\ wire' = [WireInit EXCEPT !.sock = "down"]
  \/ wire.sock # "up" /\ NoFault /\ UNCHANGED wire

\* slot_close_device: whatever the server makes of it, the window is told.
slot_close_device ==
  /\ Write(Cfg("close"))
  /\ dev' = [dev EXCEPT !.started = FALSE, !.wait_timer = FALSE]
  /\ sig_open_finish(<<STATUS_OFFLINE>>)
  /\ UNCHANGED <<transmit_queue, recv_queue, offered, arrived, accepted, handed, host>>

\* slot_ready_read_data: any message at all stops the timer.
slot_ready_read_data ==
  /\ \E k \in Chunks(wire.down) :
       LET msg == Head(wire.down)
       IN  /\ wire' = [wire EXCEPT !.down = After(@, k)]
           /\ dev' = [dev EXCEPT !.wait_timer = FALSE]
           /\ recv_queue' = IF msg.cmd = "data" THEN Enqueue(recv_queue, msg.frames)
                            ELSE recv_queue
           /\ sig_open_finish(IF msg = Ack("cfg", 1) THEN <<STATUS_OK>> ELSE <<>>)
  /\ UNCHANGED <<transmit_queue, offered, arrived, accepted, handed, faults, host>>

\* transmit_task and request_candev_send: the frames leave the queue whether
\* they can be written or not; a written message starts the timer.
transmit_task ==
  /\ transmit_dequeue(FrameMax)
  /\ LET frames == SubSeq(transmit_queue, 1, Taken(FrameMax))
     IN  IF frames = <<>> THEN NoFault /\ UNCHANGED <<dev, wire>>
         ELSE /\ Write(Data(frames))
              /\ dev' = [dev EXCEPT !.wait_timer = @ \/ wire'.sock = "up"]
  /\ UNCHANGED <<recv_queue, gui, offered, arrived, accepted, host>>

\* receive_task opens: a new socket takes the place of the old one, whose
\* messages are lost, and the configuration is the first message on it.
receive_task ==
  /\ IF dev.request_open
     THEN \/ /\ NoFault
             /\ wire' = [WireInit EXCEPT !.sock = "up", !.up = <<Cfg("open")>>]
             /\ dev' = [dev EXCEPT !.request_open = FALSE, !.wait_timer = TRUE]
          \/ /\ Fault
             /\ wire' = [WireInit EXCEPT !.sock = "down"]
             /\ dev' = [dev EXCEPT !.request_open = FALSE]
     ELSE NoFault /\ UNCHANGED <<dev, wire>>
  /\ UNCHANGED <<transmit_queue, recv_queue, gui, offered, arrived, accepted, handed, host>>
=============================================================================
