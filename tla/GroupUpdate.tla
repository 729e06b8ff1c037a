----------------------------- MODULE GroupUpdate -----------------------------
(***************************************************************************)
(* After a group transfer the operator tells the master node to update its *)
(* slaves and follows how that goes: GroupUpdate (gourp_update.cpp) polls  *)
(* the master with a timer, and the page (frmgroupupdate.cpp) shows at the *)
(* check box of each slave what the last answer says of it.  The master is *)
(* external: what it does is taken from how its answers are used.          *)
(***************************************************************************)
EXTENDS Integers, Sequences, SequencesExt, FiniteSets

CONSTANTS
  StartNums,    \* what startSpinBox may show: the address of the first box
  Cnts,         \* what cntSpinBox may show: how many boxes
  MaxClicks,    \* bound: clicks of the operator
  MaxFaults,    \* bound: failed starts, and messages lost
  MaxInFlight   \* bound: messages on the bus when the timer fires

VARIABLES
  m_timer,
  boxes,    \* the check boxes
  first,    \* the address of the first of them; the others follow
  master,   \* the master: process, and the slaves it lists
  bus,      \* messages to the master, and from it to the page
  spent     \* bounds: clicks and faults

groupVars == <<m_timer, boxes, first, master, bus, spent>>

\* set_icon without a picture changes the text only.
Box(checked) == [checked |-> checked, icon |-> "none", text |-> ""]
set_icon(box, icon, text) ==
  [box EXCEPT !.icon = IF icon = "none" THEN @ ELSE icon, !.text = text]

Addr(i) == first + i - 1

Init ==
  /\ m_timer = FALSE
  /\ \E n \in Cnts : boxes = [i \in 1 .. n |-> Box(FALSE)]
  /\ first \in StartNums
  /\ master = [process |-> 0, objs |-> <<>>]
  /\ bus = [out |-> <<>>, in |-> <<>>]
  /\ spent = [clicks |-> 0, faults |-> 0]

Click == spent.clicks < MaxClicks /\ spent' = [spent EXCEPT !.clicks = @ + 1]
Fault == spent.faults < MaxFaults /\ spent' = [spent EXCEPT !.faults = @ + 1]

Send(msg) == bus' = [bus EXCEPT !.out = Append(@, msg)]

\* create_update_obj: the last boxes go or new ones come, and all are given
\* their addresses again; the icons stay where they are.
create_update_obj(start, n) ==
  /\ Click
  /\ boxes' = [i \in 1 .. n |-> IF i \in DOMAIN boxes THEN boxes[i] ELSE Box(FALSE)]
  /\ first' = start
  /\ UNCHANGED <<m_timer, master, bus>>

\* One box, on_selectAllPushButton_clicked and on_clrSelectPushButton_clicked.
Check(which, checked) ==
  /\ Click
  /\ boxes' = [i \in DOMAIN boxes |->
                 IF i \in which THEN [boxes[i] EXCEPT !.checked = checked] ELSE boxes[i]]
  /\ UNCHANGED <<m_timer, first, master, bus>>

\* get_update_objs: the addresses of the boxes checked, which say so.
get_update_objs ==
  LET checked == {i \in DOMAIN boxes : boxes[i].checked}
      nth(k) == CHOOSE i \in checked : Cardinality({j \in checked : j < i}) = k - 1
  IN  [k \in 1 .. Cardinality(checked) |-> Addr(nth(k))]
Announced ==
  [i \in DOMAIN boxes |-> IF boxes[i].checked THEN set_icon(boxes[i], "true", "updating")
                          ELSE set_icon(boxes[i], "none", "")]

\* GroupUpdate::start sends, also when no box is checked.
on_startUpdateBtn_clicked ==
  /\ Click
  /\ boxes' = Announced
  /\ Send([type |-> "start", objs |-> get_update_objs])
  /\ UNCHANGED <<m_timer, first, master>>

on_reqUpInfoBtn_clicked ==
  /\ Click
  /\ Send([type |-> "info"])
  /\ UNCHANGED <<m_timer, boxes, first, master>>

slot_timeout ==
  /\ m_timer
  /\ Len(bus.out) + Len(bus.in) < MaxInFlight
  /\ Send([type |-> "info"])
  /\ UNCHANGED <<m_timer, boxes, first, master, spent>>

\* Where obj_addr_find looks for an entry: at the end it does not mask the flag
\* of a failed check, which no box's address has.
FLAG == 128
FoundAt(info, entry) ==
  entry.addr + (IF info.process >= 100 /\ entry.bad THEN FLAG ELSE 0)

Entries(info, i) == {j \in DOMAIN info.objs : info.objs[j].addr = Addr(i)}

\* Mutant: the box of a slave that is not listed is left as it is.
state_if_listed(info) ==
  LET found == {FoundAt(info, info.objs[j]) : j \in DOMAIN info.objs}
      shown(i) == IF Addr(i) \notin found THEN boxes[i]
                  ELSE set_icon(boxes[i], "true", IF info.process >= 100 THEN "done" ELSE "updating")
      bad(i) == \E j \in Entries(info, i) : info.objs[j].bad
  IN  [i \in DOMAIN boxes |->
         IF ~boxes[i].checked THEN boxes[i]
         ELSE IF bad(i) THEN set_icon(shown(i), "false", "check failed") ELSE shown(i)]

\* slotGroupUpdateState: first the boxes of the entries, then, for every box
\* checked, the first entry that is its own.
slotGroupUpdateState(info) ==
  LET found == {FoundAt(info, info.objs[j]) : j \in DOMAIN info.objs}
      shown(i) == IF Addr(i) \notin found THEN boxes[i]
                  ELSE set_icon(boxes[i], "true", IF info.process >= 100 THEN "done" ELSE "updating")
      own(i) == {j \in Entries(info, i) : \A k \in Entries(info, i) : j <= k}
  IN  [i \in DOMAIN boxes |->
         IF ~boxes[i].checked THEN boxes[i]
         ELSE IF own(i) = {} THEN set_icon(shown(i), "false", "update failed")
         ELSE IF \E j \in own(i) : info.objs[j].bad
              THEN set_icon(shown(i), "false", "check failed")
              ELSE shown(i)]

Answer == Head(bus.in)
Taken == bus' = [bus EXCEPT !.in = Tail(@)]

slot_recv_update_info ==
  /\ bus.in # <<>> /\ Answer.type = "info"
  /\ Taken
  /\ m_timer' = (m_timer /\ Answer.objs # <<>> /\ Answer.process < 100)
  /\ boxes' = slotGroupUpdateState(Answer)
  /\ UNCHANGED <<first, master, spent>>

slot_recv_start_update ==
  /\ bus.in # <<>> /\ Answer.type = "started"
  /\ Taken
  /\ m_timer' = (m_timer \/ Answer.ok)
  /\ UNCHANGED <<boxes, first, master, spent>>

-----------------------------------------------------------------------------
(* The master and the bus. *)

Reply(msg) == bus' = [out |-> Tail(bus.out), in |-> Append(bus.in, msg)]

MasterStarts ==
  /\ bus.out # <<>> /\ Head(bus.out).type = "start"
  /\ \/ /\ master' = [process |-> 0,
                      objs |-> [i \in DOMAIN Head(bus.out).objs |->
                                  [addr |-> Head(bus.out).objs[i], bad |-> FALSE]]]
        /\ Reply([type |-> "started", ok |-> TRUE])
        /\ UNCHANGED spent
     \/ Fault /\ Reply([type |-> "started", ok |-> FALSE]) /\ UNCHANGED master
  /\ UNCHANGED <<m_timer, boxes, first>>

MasterInforms ==
  /\ bus.out # <<>> /\ Head(bus.out).type = "info"
  /\ Reply([type |-> "info", process |-> master.process, objs |-> master.objs])
  /\ UNCHANGED <<m_timer, boxes, first, master, spent>>

\* The update goes on; a slave's check fails, or it is given up.
MasterWorks ==
  /\ master.objs # <<>> /\ master.process < 100
  /\ master' = [master EXCEPT !.process = @ + 50]
  /\ UNCHANGED <<m_timer, boxes, first, bus, spent>>

SlaveFails ==
  /\ master.process < 100
  /\ \E j \in DOMAIN master.objs :
       \/ master' = [master EXCEPT !.objs[j].bad = TRUE]
       \/ master' = [master EXCEPT !.objs = RemoveAt(@, j)]
  /\ UNCHANGED <<m_timer, boxes, first, bus, spent>>

Loss ==
  /\ bus.out # <<>>
  /\ Fault
  /\ bus' = [bus EXCEPT !.out = Tail(@)]
  /\ UNCHANGED <<m_timer, boxes, first, master>>

Operator ==
  \/ \E start \in StartNums, n \in Cnts : create_update_obj(start, n)
  \/ \E i \in DOMAIN boxes, b \in BOOLEAN : Check({i}, b)
  \/ \E b \in BOOLEAN : Check(DOMAIN boxes, b)
  \/ on_startUpdateBtn_clicked \/ on_reqUpInfoBtn_clicked

Recv == slot_recv_update_info \/ slot_recv_start_update
Master == MasterStarts \/ MasterInforms

Next == Operator \/ slot_timeout \/ Recv \/ Master \/ MasterWorks \/ SlaveFails \/ Loss

Spec == Init /\ [][Next]_groupVars

-----------------------------------------------------------------------------
Texts == {"", "updating", "done", "check failed", "update failed"}

TypeOK ==
  /\ m_timer \in BOOLEAN
  /\ \A i \in DOMAIN boxes :
       boxes[i] \in [checked : BOOLEAN, icon : {"none", "true", "false"}, text : Texts]
  /\ first \in StartNums
  /\ \A j \in DOMAIN master.objs : master.objs[j].addr \in Nat

\* What an answer says of a slave: the first entry of it, or none.
Verdict(info, i) ==
  IF Entries(info, i) = {} THEN "update failed"
  ELSE LET j == CHOOSE k \in Entries(info, i) : \A l \in Entries(info, i) : k <= l
       IN  IF info.objs[j].bad THEN "check failed"
           ELSE IF info.process >= 100 THEN "done" ELSE "updating"

\* Three loops over an answer, one of which looks for the wrong address, leave
\* every checked box with the verdict on its slave and with the icon of that
\* verdict, and the other boxes alone (slotGroupUpdateState).
BoxesTold ==
  slot_recv_update_info =>
    \A i \in DOMAIN boxes :
      boxes'[i] = IF ~boxes[i].checked THEN boxes[i]
                  ELSE [checked |-> TRUE, text |-> Verdict(Answer, i),
                        icon |-> IF Verdict(Answer, i) \in {"done", "updating"}
                                 THEN "true" ELSE "false"]
BoxesTell == [][BoxesTold]_groupVars
=============================================================================
