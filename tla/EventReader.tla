----------------------------- MODULE EventReader -----------------------------
(***************************************************************************)
(* The page that reads a node's stored events (page/pagereadevent.cpp) one *)
(* by one through J1939Event (comm/j1939_event.cpp).  A reply asks for the *)
(* next event and restarts the timer; a timeout asks again.  The reply is  *)
(* not compared with what was asked for, and nothing is disabled while a   *)
(* reading goes on.                                                        *)
(***************************************************************************)
EXTENDS Integers, Sequences, SequencesExt, FiniteSets

CONSTANTS
  LastEvent,  \* how many events of each type the node has stored at first
  Starts,     \* what startSpinBox may show
  Counts,     \* what readCntSpinBox may show
  MaxReads,   \* bound: clicks of the operator
  MaxFaults   \* bound: losses, and timeouts that overtake an answer

VARIABLES
  page,   \* the page's fields, and whether its timer runs
  rows,   \* the table, each row as the type it is shown as and the event in it
  wire,   \* the requests on their way to the node, its replies, what it has stored
  past    \* bounds, and history: the start of this reading, what disturbed it

readerVars == <<page, rows, wire, past>>

SYS_EVENT_TYPE_ERR == 0
SYS_EVENT_TYPE_INFO == 1
Types == {SYS_EVENT_TYPE_ERR, SYS_EVENT_TYPE_INFO}

\* (uint32_t) -1: the node has no such event; also the end of a readAll.
NoEvent == -1

Init ==
  /\ page = [timer |-> FALSE, read_index |-> 0, end_index |-> 0, timeout_cnt |-> 0,
             read_type |-> SYS_EVENT_TYPE_ERR]
  /\ rows = <<>>
  /\ wire = [requests |-> <<>>, replies |-> <<>>, stored |-> [type \in Types |-> LastEvent]]
  /\ past = [reads |-> 0, faults |-> 0, start |-> 0, disturbed |-> FALSE]

\* J1939Event::request_event.
Asked(type, index) ==
  Append(wire.requests, [pgn |-> "read", type |-> type, index |-> index])
request_event(type, index) == wire' = [wire EXCEPT !.requests = Asked(type, index)]

Quiet == ~page.timer /\ wire.requests = <<>> /\ wire.replies = <<>>

\* on_readEventBtn_clicked and on_readAllBtn_clicked: the table is emptied and
\* start_read asks for the first event.
start_read(start_index, stop_index) ==
  /\ past.reads < MaxReads
  /\ rows' = <<>>
  /\ page' = [page EXCEPT !.timer = TRUE, !.read_index = start_index,
                          !.end_index = stop_index, !.timeout_cnt = 0]
  /\ request_event(page.read_type, start_index)
  /\ past' = [past EXCEPT !.reads = @ + 1, !.start = start_index, !.disturbed = ~Quiet]

ReadButton == \E start \in Starts, count \in Counts : start_read(start, count + 1)
ReadAllButton == start_read(1, NoEvent)

on_eventTypeComboBox_currentIndexChanged ==
  /\ past.reads < MaxReads
  /\ \E type \in Types \ {page.read_type} : page' = [page EXCEPT !.read_type = type]
  /\ past' = [past EXCEPT !.reads = @ + 1, !.disturbed = TRUE]
  /\ UNCHANGED <<rows, wire>>

\* The events of the type that is selected are to go; a reading goes on.
on_cleanBtn_clicked ==
  /\ past.reads < MaxReads
  /\ wire' = [wire EXCEPT !.requests =
                Append(@, [pgn |-> "format", type |-> page.read_type, index |-> 0])]
  /\ past' = [past EXCEPT !.reads = @ + 1, !.disturbed = TRUE]
  /\ UNCHANGED <<page, rows>>

Respond == Head(wire.replies)

\* Mutant: an event that the node does not have is taken for one.
stops_at_end_only(index) == index = page.end_index

StopsAt(index) == index \in {NoEvent, page.end_index}
Answered == [wire EXCEPT !.replies = Tail(@)]

\* Mutant: the index is counted after the next event has been asked for.
recv_asks_again ==
  /\ wire.replies # <<>>
  /\ IF StopsAt(Respond.index)
     THEN page' = [page EXCEPT !.timer = FALSE] /\ wire' = Answered /\ UNCHANGED rows
     ELSE /\ rows' = Append(rows, <<page.read_type, Respond>>)
          /\ page' = [page EXCEPT !.read_index = @ + 1, !.timer = TRUE]
          /\ wire' = [Answered EXCEPT !.requests = Asked(page.read_type, page.read_index)]
  /\ UNCHANGED past

\* The reply of the end stops; any other is a row of the table, of the type
\* that is selected now, and asks for the next.
slot_recv_read_event ==
  /\ wire.replies # <<>>
  /\ IF StopsAt(Respond.index)
     THEN page' = [page EXCEPT !.timer = FALSE] /\ wire' = Answered /\ UNCHANGED rows
     ELSE /\ rows' = Append(rows, <<page.read_type, Respond>>)
          /\ page' = [page EXCEPT !.read_index = @ + 1, !.timer = TRUE]
          /\ wire' = [Answered EXCEPT !.requests = Asked(page.read_type, page.read_index + 1)]
  /\ UNCHANGED past

\* Only what overtakes an answer is a fault; it makes a second chain of
\* requests beside the first.
TooEarly == wire.requests # <<>> \/ wire.replies # <<>>

\* Mutant: the count begins anew with each timeout.
timeout_uncounted ==
  /\ page.timer
  /\ TooEarly => past.faults < MaxFaults
  /\ request_event(page.read_type, page.read_index)
  /\ page' = [page EXCEPT !.timer = page.timeout_cnt < 5]
  /\ past' = [past EXCEPT !.faults = @ + (IF TooEarly THEN 1 ELSE 0), !.disturbed = @ \/ TooEarly]
  /\ UNCHANGED rows

\* The sixth timeout of a reading is the last, and asks once more.
read_timeout ==
  /\ page.timer
  /\ TooEarly => past.faults < MaxFaults
  /\ request_event(page.read_type, page.read_index)
  /\ page' = [page EXCEPT !.timeout_cnt = @ + 1, !.timer = page.timeout_cnt + 1 <= 5]
  /\ past' = [past EXCEPT !.faults = @ + (IF TooEarly THEN 1 ELSE 0), !.disturbed = @ \/ TooEarly]
  /\ UNCHANGED rows

-----------------------------------------------------------------------------
(* The node and the bus. *)

\* A node that is there answers; one that is not, loses every request.
NodeAnswers ==
  /\ wire.requests # <<>>
  /\ LET request == Head(wire.requests)
         index == IF request.index \in 1 .. wire.stored[request.type] THEN request.index ELSE NoEvent
     IN  wire' = IF request.pgn = "format"
                 THEN [wire EXCEPT !.requests = Tail(@), !.stored[request.type] = 0]
                 ELSE [wire EXCEPT !.requests = Tail(@),
                                   !.replies = Append(@, [type |-> request.type, index |-> index])]
  /\ UNCHANGED <<page, rows, past>>

Loss ==
  /\ wire.requests # <<>>
  /\ wire' = [wire EXCEPT !.requests = Tail(@)]
  /\ UNCHANGED <<page, rows, past>>

Next ==
  \/ ReadButton \/ ReadAllButton \/ on_eventTypeComboBox_currentIndexChanged
  \/ on_cleanBtn_clicked
  \/ slot_recv_read_event \/ read_timeout
  \/ NodeAnswers \/ Loss

Spec == Init /\ [][Next]_readerVars

-----------------------------------------------------------------------------
TypeOK ==
  /\ page.timer \in BOOLEAN
  /\ page.read_index \in Nat /\ page.timeout_cnt \in Nat
  /\ page.read_type \in Types
  /\ \A i \in DOMAIN rows : rows[i][1] \in Types /\ rows[i][2].index \in 1 .. LastEvent

\* The events from start up to, not including, the end; a start beyond the end
\* never meets it and goes on to the last event there is.
ToRead(start, end) ==
  LET last == wire.stored[page.read_type]
  IN  IF end # NoEvent /\ start <= end THEN {i \in start .. end - 1 : i <= last} ELSE start .. last

\* A reading that nobody disturbs, neither the operator nor a timeout that
\* overtakes an answer, shows the events in order, none twice and none left
\* out, each as what it is, and when it ends by itself all that were asked for.
RangeRead ==
  ~past.disturbed /\ past.reads > 0 /\ past.start > 0 =>
    /\ \A i \in DOMAIN rows :
         rows[i][1] = rows[i][2].type /\ rows[i][2].index = past.start + i - 1
    /\ Quiet /\ page.timeout_cnt <= 5 =>
         Len(rows) = Cardinality(ToRead(past.start, page.end_index))
=============================================================================
