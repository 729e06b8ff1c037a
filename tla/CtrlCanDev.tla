------------------------------ MODULE CtrlCanDev ------------------------------
(***************************************************************************)
(* The host side of the socket driver: the adapter object of               *)
(* socketcan/ctrlcandev.h and its channels (ctrlcanchannel.cpp), which a   *)
(* thread of its own polls.  host.opened says whether the library has the  *)
(* adapter open, host.is_open_ok whether the object thinks so.  Each       *)
(* channel is a driver with two queues of its own; channel 1 is the one    *)
(* whose server the program talks to.                                      *)
(*                                                                         *)
(* host.loop says whether the thread also serves events: the MThread that  *)
(* CtrlCanDev starts does not, so that none of the slots of its servers    *)
(* ever runs; a host program with an event loop would run them.            *)
(***************************************************************************)
EXTENDS CanBase

CONSTANT Channels  \* 0 .. 3 in the code

VARIABLE host

Served == 1

Channel == [started |-> FALSE, is_ok |-> TRUE, tx |-> <<>>, rx |-> <<>>, rq |-> <<>>]

HostInit(loop) == [loop |-> loop, opened |-> FALSE, is_open_ok |-> FALSE,
                   recv_timer |-> FALSE, ch |-> [c \in Channels |-> Channel]]

is_had_open(h) == \E c \in Channels : h.ch[c].started
is_had_err(h) == \E c \in Channels : ~h.ch[c].is_ok

\* CtrlCanChannel::slot_open_device: VCI_InitCAN and VCI_StartCAN succeed or not.
channel_open(h, c, ok) == [h EXCEPT !.ch[c].started = ok, !.ch[c].is_ok = ok]

channel_close(h, c) == [h EXCEPT !.ch[c].started = FALSE]

\* CtrlCanChannel::transmit_task, then receive_task.  A short write reads the
\* error and restarts the channel, which may go well, fail, or not be tried.
ChannelTasks(h, c) ==
  LET old == h.ch[c]
      sent == Least(SendMax, Len(old.tx))
      got == Least(RecvMax, Len(old.rx))
      New(frames, ok) ==
        [old EXCEPT !.tx = SubSeq(@, sent + 1, Len(@)),
                    !.rq = Enqueue(@, frames),
                    !.rx = SubSeq(@, got + 1, Len(@)),
                    !.is_ok = ok]
  IN  IF ~old.started THEN {old}
      ELSE UNION {{New(frames, ok) : ok \in {old.is_ok, FALSE, h.opened}} :
                    frames \in WithData(SubSeq(old.rx, 1, got))}

\* Mutant: forgets VCI_CloseDevice.
check_close_device_forgetful(h) ==
  IF h.is_open_ok /\ (~is_had_open(h) \/ is_had_err(h))
  THEN {[h EXCEPT !.is_open_ok = FALSE]}
  ELSE {h}

\* check_close_device: the adapter is closed when no channel is open or some
\* channel had an error, and opened again, which may fail, when both are so.
check_close_device(h) ==
  LET closing == h.is_open_ok /\ (~is_had_open(h) \/ is_had_err(h))
      closed == IF closing
                THEN [h EXCEPT !.opened = FALSE, !.is_open_ok = FALSE,
                               !.ch = [c \in Channels |-> [h.ch[c] EXCEPT !.rx = <<>>]]]
                ELSE h
  IN  IF ~closed.is_open_ok /\ is_had_open(h) /\ is_had_err(h)
      THEN {closed, [closed EXCEPT !.opened = TRUE, !.is_open_ok = TRUE]}
      ELSE {closed}

\* A channel that was well is not, or the adapter is lost.
Worse(h) == \/ host.opened /\ ~h.opened /\ is_had_open(h)
            \/ \E c \in Channels : host.ch[c].is_ok /\ ~h.ch[c].is_ok

\* can_dev_task: every channel's tasks, then the check.
can_dev_task ==
  /\ \E f \in [Channels -> UNION {ChannelTasks(host, c) : c \in Channels}] :
       /\ \A c \in Channels : f[c] \in ChannelTasks(host, c)
       /\ host' \in check_close_device([host EXCEPT !.ch = f])
  /\ IF Worse(host') THEN Fault ELSE NoFault

\* CtrlCanDev::open_device, called by the host program in its thread.
open_device(c) ==
  /\ host.loop
  /\ \/ ~is_had_open(host) /\ host.opened /\ NoFault /\ UNCHANGED host
     \/ ~is_had_open(host) /\ ~host.opened /\ Fault /\ UNCHANGED host
     \/ /\ is_had_open(host) \/ ~host.opened
        /\ LET h == [host EXCEPT !.is_open_ok = TRUE,
                                 !.opened = @ \/ ~is_had_open(host)]
           IN  \/ h.opened /\ NoFault /\ host' = channel_open(h, c, TRUE)
               \/ h.opened /\ Fault /\ host' = channel_open(h, c, FALSE)
               \/ ~h.opened /\ NoFault /\ host' = channel_open(h, c, FALSE)

\* CtrlCanDev::close_device of a channel.
close_device(c) ==
  /\ host.loop
  /\ host' = channel_close(host, c)
  /\ NoFault

\* close_device without a channel: the adapter, when none is open.
close_unused ==
  /\ host.loop
  /\ host.is_open_ok /\ ~is_had_open(host)
  /\ host' = [host EXCEPT !.opened = FALSE, !.is_open_ok = FALSE,
                           !.ch = [c \in Channels |-> [@[c] EXCEPT !.rx = <<>>]]]
  /\ NoFault

\* The bus delivers a frame to the served channel.
HostBusFrame ==
  /\ arrived < MaxArrived
  /\ host.opened
  /\ arrived' = arrived + 1
  /\ host' = [host EXCEPT !.ch[Served].rx = Append(@, arrived')]

\* The object never loses track of an adapter it has open.
NoDeviceLeft == ~host.is_open_ok => ~host.opened
=============================================================================
