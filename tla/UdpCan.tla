-------------------------------- MODULE UdpCan --------------------------------
(***************************************************************************)
(* comm/udpcan/udpcan.cpp, the driver that talks to a host program over    *)
(* datagrams.  dev.configs are the datagrams on their way to the host's    *)
(* configuration port, dev.acks and dev.data those on their way back.  The *)
(* driver counts itself open as soon as it has sent the configuration; the *)
(* window hears of it only from the host.                                  *)
(***************************************************************************)
EXTENDS CanBase

DevInit == [started |-> FALSE, index |-> 0, bound |-> FALSE,
            configs |-> <<>>, acks |-> <<>>, data |-> <<>>]

is_open == dev.started

\* The sockets are bound at the first open, and stay bound.
slot_open_device(index) ==
  /\ dev' = [dev EXCEPT !.bound = TRUE, !.index = index, !.started = TRUE,
                        !.configs = Append(@, <<index, STATUS_OK>>)]
  /\ UNCHANGED <<transmit_queue, recv_queue, gui, offered, arrived, accepted, handed, faults>>

slot_close_device ==
  /\ dev' = [dev EXCEPT !.started = FALSE,
                        !.configs = Append(@, <<dev.index, STATUS_OFFLINE>>)]
  /\ UNCHANGED <<transmit_queue, recv_queue, gui, offered, arrived, accepted, handed, faults>>

\* The host answers a configuration as it asks, or badly, or the datagram or
\* its answer is lost.
HostAnswers ==
  /\ dev.configs # <<>>
  /\ \/ NoFault /\ dev' = [dev EXCEPT !.configs = Tail(@), !.acks = Append(@, Head(dev.configs))]
     \/ Fault /\ dev' = [dev EXCEPT !.configs = Tail(@),
                                     !.acks = Append(@, <<Head(dev.configs)[1], STATUS_OFFLINE>>)]
     \/ Fault /\ dev' = [dev EXCEPT !.configs = Tail(@)]
  /\ UNCHANGED <<transmit_queue, recv_queue, gui, offered, arrived, accepted, handed>>

\* The host sends a frame of the bus, for one of its channels.
BusFrame ==
  /\ arrived < MaxArrived
  /\ dev.bound
  /\ arrived' = arrived + 1
  /\ \E index \in Devices : dev' = [dev EXCEPT !.data = Append(@, <<index, arrived'>>)]
  /\ UNCHANGED <<transmit_queue, recv_queue, gui, offered, accepted, handed, faults>>

Second(pairs) == [i \in DOMAIN pairs |-> pairs[i][2]]
ForThis(datagrams) ==
  PickedOut(Second(datagrams), {i \in DOMAIN datagrams : datagrams[i][1] = dev.index})

\* All the datagrams that have come; the driver need not be open.
slot_ready_read_ack ==
  /\ dev.acks # <<>>
  /\ \E statuses \in ForThis(dev.acks) : sig_open_finish(statuses)
  /\ dev' = [dev EXCEPT !.acks = <<>>]
  /\ UNCHANGED <<transmit_queue, recv_queue, offered, arrived, accepted, handed, faults>>

slot_ready_read_data ==
  /\ dev.data # <<>>
  /\ \E frames \in ForThis(dev.data) : recv_queue' = Enqueue(recv_queue, frames)
  /\ dev' = [dev EXCEPT !.data = <<>>]
  /\ UNCHANGED <<transmit_queue, gui, offered, arrived, accepted, handed, faults>>

\* The loop ends at SendMax frames, the array of the datagram at FrameMax.
transmit_task ==
  /\ transmit_dequeue(SendMax)
  /\ UNCHANGED <<recv_queue, dev, gui, offered, arrived, accepted, faults>>

Overrun == Taken(SendMax) > FrameMax

receive_task ==
  UNCHANGED <<transmit_queue, recv_queue, dev, gui, offered, arrived, accepted, handed, faults>>
=============================================================================
