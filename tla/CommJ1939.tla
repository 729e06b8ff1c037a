------------------------------ MODULE CommJ1939 ------------------------------
(***************************************************************************)
(* The window's button, the communication thread (comm_j1939.cpp, its      *)
(* period task every millisecond) and one of the CAN drivers.  open_device *)
(* and close_device are signals queued to the communication thread, and    *)
(* sig_open_finish and the messages received are signals queued to the     *)
(* window; frames are offered to the driver from any thread.               *)
(*                                                                         *)
(* The driver is chosen in the constructor of CommJ1939: CtrlCan as the    *)
(* code stands, the other three are commented out beside it.               *)
(***************************************************************************)
EXTENDS CanBase

CONSTANTS
  Drivers,    \* the drivers to check: subset of {"ctrl", "zlg", "udp", "socket"}
  Channels,   \* the channels of a host's adapter
  Node,       \* the node that sent each frame of the bus
  Pgn,        \* what each frame is: "registers", "event" or "other"
  MaxClicks,  \* bound: clicks on the button, and calls of the host program
  OfferedTo,  \* bound: frames offered to each driver, at most MaxOffered
  FewFaults,  \* bound: MaxFaults for the drivers but CtrlCan
  UdpSendMax  \* SendMax as UdpCan uses it: over FrameMax, as 100 is over 64

ASSUME CommJ1939Assumption ==
  /\ UdpSendMax \in Nat \ {0}
  /\ Drivers \subseteq {"ctrl", "zlg", "udp", "socket"}
  /\ 1 \in Channels
  /\ FewFaults \in 0 .. MaxFaults
  /\ MaxClicks \in Nat
  /\ 1 .. MaxArrived \subseteq DOMAIN Node
  /\ 1 .. MaxArrived \subseteq DOMAIN Pgn

VARIABLES
  driver,         \* which class can_dev is of
  pc,             \* what the communication thread does next
  commands,       \* open and close signals queued to the communication thread
  device_status,  \* the window's idea of the device: the button closes or opens
  clicks,
  dispatched,     \* history: frames given to j1939_receive_handle
  src_page_map,   \* the nodes that have a page
  parsed,         \* history: frames the pages have parsed
  host, wire      \* the host of the socket driver and the stream to it

base == <<transmit_queue, recv_queue, dev, gui, offered, arrived, accepted, handed, faults>>
window == <<device_status, clicks, src_page_map, parsed>>
vars == <<base, driver, pc, commands, window, dispatched, host, wire>>

Ctrl == INSTANCE CtrlCan
Zlg == INSTANCE ZlgCan WITH MaxFaults <- FewFaults
Udp == INSTANCE UdpCan WITH SendMax <- UdpSendMax, MaxFaults <- FewFaults
Socket == INSTANCE CanSocket WITH MaxFaults <- FewFaults

Init ==
  /\ driver \in Drivers
  /\ dev = CASE driver = "ctrl" -> Ctrl!DevInit
             [] driver = "zlg" -> Zlg!DevInit
             [] driver = "udp" -> Udp!DevInit
             [] driver = "socket" -> Socket!DevInit
  /\ \E loop \in BOOLEAN : host = Socket!HostInit(loop)
  /\ driver # "socket" => ~host.loop
  /\ wire = Socket!WireInit
  /\ transmit_queue = <<>> /\ recv_queue = <<>>
  /\ gui = <<>> /\ commands = <<>>
  /\ pc = "events"
  /\ device_status = FALSE
  /\ offered = 0 /\ arrived = 0 /\ faults = 0 /\ clicks = 0
  /\ accepted = <<>> /\ handed = <<>> /\ dispatched = <<>> /\ parsed = <<>>
  /\ src_page_map = {}

is_open == \/ driver = "ctrl" /\ Ctrl!is_open
           \/ driver = "zlg" /\ Zlg!is_open
           \/ driver = "udp" /\ Udp!is_open
           \/ driver = "socket" /\ Socket!is_open

-----------------------------------------------------------------------------
(* The window. *)

\* on_openDevicePushButton_clicked: what the button does depends on the last
\* status the window has seen, not on the signals still on their way.
on_openDevicePushButton_clicked(index) ==
  /\ clicks < MaxClicks
  /\ clicks' = clicks + 1
  /\ commands' = Append(commands, IF device_status THEN <<"close">> ELSE <<"open", index>>)
  /\ UNCHANGED <<base, driver, pc, device_status, src_page_map, parsed, dispatched, host, wire>>

slot_recv_comm_status ==
  /\ gui # <<>> /\ Head(gui).type = "status"
  /\ device_status' = (Head(gui).value = STATUS_OK)
  /\ gui' = Tail(gui)
  /\ UNCHANGED <<transmit_queue, recv_queue, dev, offered, arrived, accepted, handed, faults,
                 driver, pc, commands, clicks, src_page_map, parsed, dispatched, host, wire>>

\* A page for every node that is heard of.
slot_recv_pgn_handle ==
  /\ gui # <<>> /\ Head(gui).type = "message"
  /\ src_page_map' = src_page_map \cup {Node[Head(gui).value]}
  /\ parsed' = Append(parsed, Head(gui).value)
  /\ gui' = Tail(gui)
  /\ UNCHANGED <<transmit_queue, recv_queue, dev, offered, arrived, accepted, handed, faults,
                 driver, pc, commands, device_status, clicks, dispatched, host, wire>>

\* Some thread sends a message of one frame; can_write calls it a success.
can_write ==
  /\ transmit(is_open)
  /\ offered < OfferedTo[driver]
  /\ UNCHANGED <<driver, pc, commands, window, dispatched, host, wire>>

-----------------------------------------------------------------------------
(* The communication thread. *)

\* j1939_recv_cb and comm_j1939_pgn_cb: answers of registers go to the modbus
\* master, answers about events to their readers, the rest to the window.
ForPages(n) == Pgn[n] = "other"
Message(n) == [type |-> "message", value |-> n]

\* Mutant: the frames are looked at and stay in the queue.
can_recv_peek ==
  /\ dispatched' = dispatched \o recv_queue
  /\ gui' = gui
  /\ UNCHANGED recv_queue

\* can_recv_task: every frame in the queue.
can_recv_task ==
  /\ dispatched' = dispatched \o recv_queue
  /\ \E frames \in PickedOut(recv_queue, {i \in DOMAIN recv_queue : ForPages(recv_queue[i])}) :
       gui' = gui \o [i \in DOMAIN frames |-> Message(frames[i])]
  /\ recv_queue' = <<>>

\* poll: what has been received, and then the two tasks if the driver is open.
poll ==
  /\ pc = "events"
  /\ can_recv_task
  /\ pc' = IF is_open THEN "transmit" ELSE "events"
  /\ UNCHANGED <<transmit_queue, dev, offered, arrived, accepted, handed, faults,
                 driver, commands, window, host, wire>>

\* A task writes past its array: the thread goes on, or it is the end of it.
AfterTransmit ==
  \/ pc' = "receive"
  \/ (driver = "zlg" /\ Zlg!Overrun) /\ pc' = "crashed"
  \/ (driver = "udp" /\ Udp!Overrun) /\ pc' = "crashed"

transmit_task ==
  /\ pc = "transmit"
  /\ \/ driver = "ctrl" /\ Ctrl!transmit_task /\ UNCHANGED <<host, wire>>
     \/ driver = "zlg" /\ Zlg!transmit_task /\ UNCHANGED <<host, wire>>
     \/ driver = "udp" /\ Udp!transmit_task /\ UNCHANGED <<host, wire>>
     \/ driver = "socket" /\ Socket!transmit_task
  /\ AfterTransmit
  /\ UNCHANGED <<driver, commands, window, dispatched>>

receive_task ==
  /\ pc = "receive"
  /\ pc' = "events"
  /\ \/ driver = "ctrl" /\ Ctrl!receive_task /\ UNCHANGED <<host, wire>>
     \/ driver = "zlg" /\ Zlg!receive_task /\ UNCHANGED <<host, wire>>
     \/ driver = "udp" /\ Udp!receive_task /\ UNCHANGED <<host, wire>>
     \/ driver = "socket" /\ Socket!receive_task
  /\ UNCHANGED <<driver, commands, window, dispatched>>

Command == Head(commands)

\* The signals of the window, in the driver's slots.
DeviceCommand ==
  /\ pc = "events"
  /\ commands # <<>>
  /\ commands' = Tail(commands)
  /\ \/ Command[1] = "open"
        /\ \/ driver = "ctrl" /\ Ctrl!slot_open_device(Command[2]) /\ UNCHANGED <<host, wire>>
           \/ driver = "zlg" /\ Zlg!slot_open_device(Command[2]) /\ UNCHANGED <<host, wire>>
           \/ driver = "udp" /\ Udp!slot_open_device(Command[2]) /\ UNCHANGED <<host, wire>>
           \/ driver = "socket" /\ Socket!slot_open_device
     \/ Command[1] = "close"
        /\ \/ driver = "ctrl" /\ Ctrl!slot_close_device /\ UNCHANGED <<host, wire>>
           \/ driver = "zlg" /\ Zlg!slot_close_device /\ UNCHANGED <<host, wire>>
           \/ driver = "udp" /\ Udp!slot_close_device /\ UNCHANGED <<host, wire>>
           \/ driver = "socket" /\ Socket!slot_close_device
  /\ UNCHANGED <<driver, pc, window, dispatched>>

\* The driver's sockets and timers.
DriverEvent ==
  /\ pc = "events"
  /\ \/ driver = "udp" /\ Udp!slot_ready_read_ack /\ UNCHANGED <<host, wire>>
     \/ driver = "udp" /\ Udp!slot_ready_read_data /\ UNCHANGED <<host, wire>>
     \/ driver = "socket" /\ Socket!slot_ready_read_data
     \/ driver = "socket" /\ Socket!slot_wait_timeout
  /\ UNCHANGED <<driver, pc, commands, window, dispatched>>

-----------------------------------------------------------------------------
(* What lies outside the program: the bus, the hosts. *)

Outside ==
  /\ \/ driver = "ctrl" /\ Ctrl!BusFrame
     \/ driver = "zlg" /\ Zlg!BusFrame
     \/ driver = "udp" /\ (Udp!BusFrame \/ Udp!HostAnswers)
  /\ UNCHANGED <<driver, pc, commands, window, dispatched, host, wire>>

HostEvent ==
  /\ \/ Socket!slot_new_connect /\ UNCHANGED faults
     \/ Socket!server_slot_ready_read
     \/ Socket!slot_can_recv_timeout /\ UNCHANGED faults
     \/ Socket!can_dev_task /\ UNCHANGED wire
  /\ UNCHANGED <<clicks, arrived>>

HostProgram ==
  \/ /\ clicks < MaxClicks
     /\ clicks' = clicks + 1
     /\ \/ \E c \in Channels : Socket!open_device(c) \/ Socket!close_device(c)
        \/ Socket!close_unused
     /\ UNCHANGED <<arrived, wire>>
  \/ Socket!HostRestarts /\ UNCHANGED <<clicks, arrived>>
  \/ Socket!HostBusFrame /\ UNCHANGED <<clicks, wire, faults>>

Host ==
  /\ driver = "socket"
  /\ HostEvent \/ HostProgram
  /\ UNCHANGED <<transmit_queue, recv_queue, dev, gui, offered, accepted, handed, driver, pc,
                 commands, device_status, src_page_map, parsed, dispatched>>

Thread == poll \/ transmit_task \/ receive_task \/ DeviceCommand \/ DriverEvent
Window == slot_recv_comm_status \/ slot_recv_pgn_handle

Next ==
  \/ \E index \in Devices : on_openDevicePushButton_clicked(index)
  \/ can_write
  \/ Window
  \/ Thread
  \/ Outside
  \/ Host

Spec == Init /\ [][Next]_vars

\* The period task comes round for ever; signals queued to a thread are served.
Fairness ==
  /\ WF_vars(poll) /\ WF_vars(transmit_task) /\ WF_vars(receive_task)
  /\ SF_vars(DeviceCommand)
  /\ WF_vars(Window)

FairSpec == Spec /\ Fairness

-----------------------------------------------------------------------------
(***************************************************************************)
(* Properties.                                                             *)
(***************************************************************************)
TypeOK ==
  /\ {ToSet(q) : q \in {transmit_queue, accepted, handed}} \subseteq SUBSET (1 .. MaxOffered)
  /\ {ToSet(q) : q \in {recv_queue, dispatched, parsed}} \subseteq SUBSET (1 .. MaxArrived)
  /\ Len(transmit_queue) <= QueueMax /\ Len(recv_queue) <= QueueMax
  /\ \A i \in DOMAIN gui : \/ gui[i].type = "status" /\ gui[i].value \in Statuses
                           \/ gui[i].type = "message" /\ gui[i].value \in 1 .. MaxArrived
  /\ pc \in {"events", "transmit", "receive", "crashed"}
  /\ device_status \in BOOLEAN
  /\ offered \in 0 .. MaxOffered /\ arrived \in 0 .. MaxArrived
  /\ faults \in 0 .. MaxFaults /\ clicks \in 0 .. MaxClicks
  /\ src_page_map \subseteq Range(Node)

Increasing(s) == \A i, j \in DOMAIN s : i < j => s[i] < s[j]

\* However often the button is clicked before an answer comes, and whichever
\* step of opening fails: with no signal on its way the button shows whether
\* the driver is open (mainwindow.cpp's device_status, ctrlcan.cpp's started).
ButtonMatchesDriver ==
  driver = "ctrl" /\ gui = <<>> => device_status = Ctrl!is_open

\* A driver that is not open has left no adapter open, also after a step of
\* opening has failed; the host's object has no adapter it forgot (ctrlcan.cpp
\* slot_open_device, ctrlcandev.h check_close_device).
ClosedIsClosed ==
  /\ driver = "ctrl" => Ctrl!ClosedIsClosed
  /\ driver = "socket" => Socket!NoDeviceLeft

\* Every frame a driver accepted leaves it once and in order, through closing,
\* opening again, restarts of the adapter and full batches (transmit_dequeue).
HandedOnce == handed \o transmit_queue = accepted

\* The messages on their way to the pages, by their places among the signals.
Messages == {i \in DOMAIN gui : gui[i].type = "message"}

\* The frames of the bus are dispatched once and in order, and just those for
\* the pages are there or on their way to them, once and in order too
\* (receive_task, can_recv_task, the queued signal sig_recv_pgn_handle).
DispatchedInOrder ==
  /\ Increasing(dispatched \o recv_queue)
  /\ Increasing(parsed)
  /\ \A i \in DOMAIN parsed, j \in Messages : parsed[i] < gui[j].value
  /\ \A i, j \in Messages : i < j => gui[i].value < gui[j].value
  /\ ToSet(parsed) \cup {gui[i].value : i \in Messages} = {n \in ToSet(dispatched) : ForPages(n)}

\* An accepted frame leaves the queue, whatever errors the bus makes in between,
\* unless the driver is closed first or the thread is gone.
AcceptedGoOut ==
  \A n \in 1 .. MaxOffered :
    n \in ToSet(accepted) ~> n \in ToSet(handed) \/ ~is_open \/ pc = "crashed"
=============================================================================
