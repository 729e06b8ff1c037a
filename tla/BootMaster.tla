------------------------------ MODULE BootMaster ------------------------------
(***************************************************************************)
(* The boot loader update of boot_update/boot_master.cpp with its page,    *)
(* frmbootloader.cpp: the sibling of the group file transfer whose reply   *)
(* handlers run in the communication thread, as callbacks of the J1939     *)
(* stack, while its timeouts and its buttons run in the GUI thread.        *)
(*                                                                         *)
(* Step, offsets, counters, node list and progress are globals without a   *)
(* lock.  A handler is therefore the sequence of its accesses to them,     *)
(* `todo`, and the two threads interleave between any two accesses.  What  *)
(* one access may do is an action; the functions of the code are the       *)
(* sequences.  An operation of the node list, an increment and an entry    *)
(* into a step are one access each.                                        *)
(*                                                                         *)
(* Slaves may answer anything at any time.  The frames that are sent are   *)
(* left out: what a slave does with them is not known to the program.      *)
(* Lengths and offsets count blocks.                                       *)
(***************************************************************************)
EXTENDS UpdateNodes, Sequences, FiniteSets

CONSTANTS
  Addr,       \* the slaves' addresses
  Selections, \* what the operator may select of them
  FileLen,    \* blocks of the file (get_file_data)
  AppSize,    \* its length as the file's header gives it (file_info.app_size)
  MaxResend,  \* resend_cnt_max of the steps that wait
  MaxOps,     \* bound: how often the operator presses a button
  MaxGiveUps  \* bound: how often the resends of a step run out

ASSUME BootAssumption ==
  /\ Selections \subseteq SUBSET Addr
  /\ FileLen \in Nat
  /\ AppSize \in Nat
  /\ MaxResend \in Nat
  /\ MaxOps \in Nat
  /\ MaxGiveUps \in Nat

\* boot_master_e; no step but these is ever entered.
IDLE == 0
CMD  == 1
INFO == 2
DATA == 3
CRC  == 4
Steps == {IDLE, CMD, INFO, DATA, CRC}

Threads == {"gui", "comm"}
Blocks == 0 .. FileLen - 1

VARIABLES
  step,        \* current_step
  offset,      \* the offset of every step
  resendCnt,   \* the resend_cnt of every step
  nodes,       \* update_root
  fileOffset,  \* file_data.offset
  dataLen,     \* file_data.data_len: a block or nothing
  full,        \* update_process >= 100
  timerOn,     \* the page's timer
  enabled,     \* the page's buttons
  selected,    \* obj_addr of the last click
  todo,        \* the accesses that each thread has yet to make in its handler
  \* history
  ops,       \* how often the operator has pressed a button
  disturbed, \* how often that was in the middle of a transfer
  giveUps,   \* how often the resends of a step have run out
  silent,    \* the nodes that had not answered when they last did
  replied,   \* the nodes that have acknowledged each block since the last start
  skips      \* how often the file went on without some listed node's answer

stepVars == <<step, offset, resendCnt>>
fileVars == <<fileOffset, dataLen, replied, skips>>
pageVars == <<timerOn, enabled, selected, ops, disturbed>>
vars == <<stepVars, nodes, fileVars, full, pageVars, todo, giveUps, silent>>

\* An access, with the step or the node that it is about.
Access(op, arg) == [op |-> op, arg |-> arg]
None == 0

Init ==
  /\ step = IDLE
  /\ offset = [s \in Steps |-> 0]
  /\ resendCnt = [s \in Steps |-> 0]
  /\ nodes = clr_update_root
  /\ fileOffset = 0
  /\ dataLen = 0
  /\ full = FALSE
  /\ timerOn = FALSE
  /\ enabled = TRUE
  /\ selected = {}
  /\ todo = [t \in Threads |-> <<>>]
  /\ ops = 0
  /\ disturbed = 0
  /\ giveUps = 0
  /\ silent = {}
  /\ replied = [b \in Blocks |-> {}]
  /\ skips = 0

-----------------------------------------------------------------------------
(***************************************************************************)
(* The functions of boot_master.cpp.                                       *)
(***************************************************************************)
\* switch_state_machine: current_step, then what it points to.
switch_state_machine(s, off) == <<Access("switch", s), Access("enter", off)>>

\* The end of a step, run by the thread that found it at its end.
Finish(s) ==
  CASE s = CMD  -> switch_state_machine(INFO, 0)
    [] s = INFO -> switch_state_machine(DATA, 0)
                   \o <<Access("rewind", None), Access("load", None), Access("first", None)>>
    [] s = DATA -> <<Access("advance", None), Access("load", None), Access("next", None)>>
    [] s = CRC  -> <<Access("full", None)>> \o switch_state_machine(IDLE, 0)

\* Only a step that waits has anything to set up; the pointer is read again.
Enter(off) ==
  /\ offset' = [offset EXCEPT ![step] = off]
  /\ resendCnt' = IF step = IDLE THEN resendCnt ELSE [resendCnt EXCEPT ![step] = 0]

\* The position that the answers in a step must agree on.
Awaited(s) == At(s, IF s = DATA THEN fileOffset ELSE 0)

-----------------------------------------------------------------------------
(***************************************************************************)
(* The accesses that both threads make.                                    *)
(***************************************************************************)
Front(t) == Head(todo[t])
IsNext(t, op) == todo[t] # <<>> /\ Front(t).op = op

\* The thread t goes on with some accesses before the rest of its handler.
Then(t, first) == todo' = [todo EXCEPT ![t] = first \o Tail(todo[t])]
Done(t) == Then(t, <<>>)

Switch(t) ==
  /\ IsNext(t, "switch")
  /\ step' = Front(t).arg
  /\ Done(t)
  /\ UNCHANGED <<offset, resendCnt, nodes, fileVars, full, pageVars, giveUps, silent>>

EnterStep(t) ==
  /\ IsNext(t, "enter")
  /\ Enter(Front(t).arg)
  /\ Done(t)
  /\ UNCHANGED <<step, nodes, fileVars, full, pageVars, giveUps, silent>>

Rewind(t) ==
  /\ IsNext(t, "rewind")
  /\ fileOffset' = 0
  /\ Done(t)
  /\ UNCHANGED <<stepVars, nodes, dataLen, replied, skips, full, pageVars, giveUps, silent>>

\* The listed nodes that have not acknowledged the block at fileOffset.
Missing == {a \in DOMAIN nodes : fileOffset \in Blocks => a \notin replied[fileOffset]}

\* file_data.offset += file_data.data_len
Advance(t) ==
  /\ IsNext(t, "advance")
  /\ fileOffset' = fileOffset + dataLen
  /\ skips' = skips + (IF dataLen > 0 /\ Missing # {} THEN 1 ELSE 0)
  /\ Done(t)
  /\ UNCHANGED <<stepVars, nodes, dataLen, replied, full, pageVars, giveUps, silent>>

\* Mutant: what is left of the file is not cut to a block.
LoadAll(t) ==
  /\ IsNext(t, "load")
  /\ dataLen' = IF fileOffset < FileLen THEN FileLen - fileOffset ELSE 0
  /\ Done(t)
  /\ UNCHANGED <<stepVars, nodes, fileOffset, replied, skips, full, pageVars, giveUps, silent>>

\* get_file_data
Load(t) ==
  /\ IsNext(t, "load")
  /\ dataLen' = IF fileOffset < FileLen THEN 1 ELSE 0
  /\ Done(t)
  /\ UNCHANGED <<stepVars, nodes, fileOffset, replied, skips, full, pageVars, giveUps, silent>>

\* The first block of a file that has any, or the check of an empty one.
First(t) ==
  /\ IsNext(t, "first")
  /\ \/ dataLen > 0 /\ Then(t, switch_state_machine(DATA, 0))
     \/ dataLen = 0 /\ Then(t, switch_state_machine(CRC, 0))
  /\ UNCHANGED <<stepVars, nodes, fileVars, full, pageVars, giveUps, silent>>

\* The next block, or the check.
NextBlock(t) ==
  /\ IsNext(t, "next")
  /\ \/ /\ dataLen > 0
        /\ full' = (fileOffset >= AppSize)
        /\ Then(t, <<Access("resume", None)>>)
     \/ /\ dataLen = 0
        /\ UNCHANGED full
        /\ Then(t, switch_state_machine(CRC, 0))
  /\ UNCHANGED <<stepVars, nodes, fileVars, pageVars, giveUps, silent>>

\* switch_state_machine with the offset as it is by then.
Resume(t) ==
  /\ IsNext(t, "resume")
  /\ Then(t, switch_state_machine(DATA, fileOffset))
  /\ UNCHANGED <<stepVars, nodes, fileVars, full, pageVars, giveUps, silent>>

Full(t) ==
  /\ IsNext(t, "full")
  /\ full' = TRUE
  /\ Done(t)
  /\ UNCHANGED <<stepVars, nodes, fileVars, pageVars, giveUps, silent>>

FinishAccess(t) ==
  \/ Switch(t) \/ EnterStep(t) \/ Rewind(t) \/ Advance(t) \/ Load(t)
  \/ First(t) \/ NextBlock(t) \/ Resume(t) \/ Full(t)

-----------------------------------------------------------------------------
(***************************************************************************)
(* The communication thread: the four reply handlers.                      *)
(***************************************************************************)
\* The handler looks at the step before anything else.
ReplyArrives(s, first) ==
  /\ todo["comm"] = <<>>
  /\ step = s
  /\ todo' = [todo EXCEPT !["comm"] = first \o <<Access("judge", s)>>]
  /\ UNCHANGED <<stepVars, nodes, fileVars, full, pageVars, giveUps, silent>>

\* The slave accepts the command or the information; ret is not looked at for
\* the check of the file.
boot_recv_ok_respond(src) == \E s \in {CMD, INFO, CRC} : ReplyArrives(s, <<Access("mark", src)>>)

boot_recv_refusal == \E s \in {CMD, INFO} : ReplyArrives(s, <<>>)

boot_recv_file_data_respond(src) == ReplyArrives(DATA, <<Access("match", src)>>)

\* Mutant: any acknowledgement counts for the current block.
MatchAny ==
  /\ IsNext("comm", "match")
  /\ Then("comm", <<Access("mark", Front("comm").arg)>>)
  /\ UNCHANGED <<stepVars, nodes, fileVars, full, pageVars, giveUps, silent>>

\* The acknowledged offset may be the current one: then the slave has the block.
MatchOffset ==
  /\ IsNext("comm", "match")
  /\ \/ /\ fileOffset \in Blocks
        /\ replied' = [replied EXCEPT ![fileOffset] = @ \cup {Front("comm").arg}]
        /\ Then("comm", <<Access("mark", Front("comm").arg)>>)
     \/ UNCHANGED replied /\ Done("comm")
  /\ UNCHANGED <<stepVars, nodes, fileOffset, dataLen, skips, full, pageVars, giveUps, silent>>

\* set_update_node_process; what the handler was called for follows.
Mark ==
  /\ IsNext("comm", "mark")
  /\ nodes' = set_update_node_process(nodes, Front("comm").arg, Awaited(todo["comm"][2].arg))
  /\ Done("comm")
  /\ UNCHANGED <<stepVars, fileVars, full, pageVars, giveUps, silent>>

Judge ==
  /\ IsNext("comm", "judge")
  /\ LET s == Front("comm").arg
     IN  Then("comm", IF judge_update_node_is_same(nodes, Awaited(s)) THEN Finish(s) ELSE <<>>)
  /\ UNCHANGED <<stepVars, nodes, fileVars, full, pageVars, giveUps, silent>>

CommReply ==
  \/ boot_recv_refusal
  \/ \E src \in Addr : boot_recv_ok_respond(src) \/ boot_recv_file_data_respond(src)

CommGoesOn == FinishAccess("comm") \/ MatchOffset \/ Mark \/ Judge

-----------------------------------------------------------------------------
(***************************************************************************)
(* The GUI thread: boot_master_poll and the page's refresh.                *)
(***************************************************************************)
\* slotTimerOut: the step's function is read first, and the step that it is
\* given after that, so the other thread may have ended the step in between.
Poll ==
  /\ todo["gui"] = <<>>
  /\ timerOn
  /\ todo' = [todo EXCEPT !["gui"] =
                (IF step = IDLE THEN <<>> ELSE <<Access("take", None)>>)
                \o <<Access("show", None)>>]
  /\ UNCHANGED <<stepVars, nodes, fileVars, full, pageVars, giveUps, silent>>

\* The time of the step is up, or not.
Take ==
  /\ IsNext("gui", "take")
  /\ \/ Done("gui")
     \/ giveUps < MaxGiveUps /\ Then("gui", <<Access("count", step)>>)
  /\ UNCHANGED <<stepVars, nodes, fileVars, full, pageVars, giveUps, silent>>

\* Mutant: a step that sends again starts over with its count.
CountNothing ==
  /\ IsNext("gui", "count")
  /\ Then("gui", <<Access("compare", Front("gui").arg)>>)
  /\ UNCHANGED <<stepVars, nodes, fileVars, full, pageVars, giveUps, silent>>

\* resend_cnt++
Count ==
  /\ IsNext("gui", "count")
  /\ LET s == Front("gui").arg
     IN  /\ resendCnt' = [resendCnt EXCEPT ![s] = @ + 1]
         /\ Then("gui", <<Access("compare", s)>>)
  /\ UNCHANGED <<step, offset, nodes, fileVars, full, pageVars, giveUps, silent>>

\* Either sends the last frame again or gives up.
Compare ==
  /\ IsNext("gui", "compare")
  /\ LET s == Front("gui").arg
     IN  \/ /\ resendCnt[s] <= (IF s = IDLE THEN 0 ELSE MaxResend)
            /\ Done("gui")
            /\ UNCHANGED <<giveUps, silent>>
         \/ /\ resendCnt[s] > (IF s = IDLE THEN 0 ELSE MaxResend)
            /\ Then("gui", <<Access("remove", s)>>)
            /\ giveUps' = giveUps + 1
            /\ silent' = {a \in DOMAIN nodes : nodes[a] # At(s, offset[s])}
  /\ UNCHANGED <<stepVars, nodes, fileVars, full, pageVars>>

\* The offset is read when the nodes are removed.
Remove ==
  /\ IsNext("gui", "remove")
  /\ LET s == Front("gui").arg
     IN  /\ nodes' = remove_update_node_diff(nodes, At(s, offset[s]))
         /\ Then("gui", <<Access("decide", s)>>)
  /\ UNCHANGED <<stepVars, fileVars, full, pageVars, giveUps, silent>>

Decide ==
  /\ IsNext("gui", "decide")
  /\ LET s == Front("gui").arg
     IN  \/ /\ DOMAIN nodes = {} \/ s = IDLE
            /\ Then("gui", switch_state_machine(IDLE, 0) \o <<Access("failed", None)>>)
         \/ /\ DOMAIN nodes # {} /\ s # IDLE
            /\ Then("gui", Finish(s))
  /\ silent' = {}
  /\ UNCHANGED <<stepVars, nodes, fileVars, full, pageVars, giveUps>>

\* Mutant: a failed update stops the timer only.
FailedSilently ==
  /\ IsNext("gui", "failed")
  /\ timerOn' = FALSE
  /\ Done("gui")
  /\ UNCHANGED <<stepVars, nodes, fileVars, full, enabled, selected, ops, disturbed, giveUps, silent>>

\* boot_update_failed: the signal calls on_stopPushButton_clicked at once.
Failed ==
  /\ IsNext("gui", "failed")
  /\ timerOn' = FALSE
  /\ enabled' = TRUE
  /\ Done("gui")
  /\ UNCHANGED <<stepVars, nodes, fileVars, full, selected, ops, disturbed, giveUps, silent>>

slotUpdataProgress ==
  /\ IsNext("gui", "show")
  /\ enabled' = (enabled \/ full)
  /\ Done("gui")
  /\ UNCHANGED <<stepVars, nodes, fileVars, full, timerOn, selected, ops, disturbed, giveUps, silent>>

GuiPoll == Poll \/ Take \/ Count \/ Compare \/ Remove \/ Decide \/ Failed \/ slotUpdataProgress

-----------------------------------------------------------------------------
(***************************************************************************)
(* The GUI thread: the buttons.                                            *)
(***************************************************************************)
Press ==
  /\ todo["gui"] = <<>>
  /\ ops < MaxOps
  /\ ops' = ops + 1

\* Whether a click finds the machine at work.
Busy == step # IDLE \/ todo["comm"] # <<>>
Disturbs == disturbed' = disturbed + (IF Busy THEN 1 ELSE 0)

StartButton ==
  /\ Press
  /\ Disturbs
  /\ enabled
  /\ enabled' = FALSE
  /\ selected' \in Selections \ {{}}
  /\ todo' = [todo EXCEPT !["gui"] =
                <<Access("clear", None), Access("list", None)>>
                \o switch_state_machine(CMD, 0) \o <<Access("run", None)>>]
  /\ replied' = [b \in Blocks |-> {}]
  /\ UNCHANGED <<stepVars, nodes, fileOffset, dataLen, skips, full, timerOn, giveUps, silent>>

\* boot_send_update_cmd fills the list whatever the machine is doing.
ResetButton ==
  /\ Press
  /\ Disturbs
  /\ selected' \in Selections \ {{}}
  /\ todo' = [todo EXCEPT !["gui"] = <<Access("list", None)>>]
  /\ UNCHANGED <<stepVars, nodes, fileVars, full, timerOn, enabled, giveUps, silent>>

StopButton ==
  /\ Press
  /\ timerOn' = FALSE
  /\ enabled' = TRUE
  /\ UNCHANGED <<stepVars, nodes, fileVars, full, selected, disturbed, todo, giveUps, silent>>

ClearProgress ==
  /\ IsNext("gui", "clear")
  /\ full' = FALSE
  /\ Done("gui")
  /\ UNCHANGED <<stepVars, nodes, fileVars, pageVars, giveUps, silent>>

ListNodes ==
  /\ IsNext("gui", "list")
  /\ nodes' = new_update_list(selected)
  /\ Done("gui")
  /\ UNCHANGED <<stepVars, fileVars, full, pageVars, giveUps, silent>>

StartTimer ==
  /\ IsNext("gui", "run")
  /\ timerOn' = TRUE
  /\ Done("gui")
  /\ UNCHANGED <<stepVars, nodes, fileVars, full, enabled, selected, ops, disturbed, giveUps, silent>>

Buttons == StartButton \/ ResetButton \/ StopButton

GuiGoesOn == FinishAccess("gui") \/ GuiPoll \/ ClearProgress \/ ListNodes \/ StartTimer

Next == CommReply \/ CommGoesOn \/ GuiGoesOn \/ Buttons

Spec == Init /\ [][Next]_vars

\* Both threads go on with what they have begun and the timer fires; nothing is
\* assumed of the slaves or of the operator.  The time of a step does elapse.
Fairness ==
  /\ WF_vars(CommGoesOn)
  /\ WF_vars(GuiGoesOn)
  /\ SF_vars(Take /\ Then("gui", <<Access("count", step)>>))

FairSpec == Spec /\ Fairness

-----------------------------------------------------------------------------
(***************************************************************************)
(* Properties.                                                             *)
(***************************************************************************)
\* Steps, lists, offsets and counters stay in their ranges, in particular
\* file_data.data_len never exceeds a block, however the threads interleave.
TypeOK ==
  /\ step \in Steps
  /\ offset \in [Steps -> Nat]
  /\ resendCnt \in [Steps -> Nat]
  /\ IsNodeList(nodes, Addr)
  /\ fileOffset \in Nat
  /\ dataLen \in {0, 1}
  /\ full \in BOOLEAN
  /\ timerOn \in BOOLEAN
  /\ enabled \in BOOLEAN
  /\ silent \subseteq Addr
  /\ replied \in [Blocks -> SUBSET Addr]
  /\ giveUps \in Nat /\ skips \in Nat /\ disturbed \in 0 .. ops

\* The reply handlers alone never take the file past a block that some listed
\* node has not acknowledged.  A give-up can race with them in two ways: both
\* threads end the step, so that one block is passed over, and a handler that
\* compared the old offset marks its node at the new one.  So can a click in the
\* middle of a transfer.  Nothing else does, and neither does more.
SkipsBounded == skips <= 2 * (giveUps + disturbed)

\* boot_master.cpp:156, of the removal in a timeout: "remove all nodes that do
\* not respond".  The comparison and the removal are apart, and the other
\* thread may have gone on to the next block in between.
OnlySilentRemoved ==
  [][ IsNext("gui", "remove") /\ DOMAIN nodes' # DOMAIN nodes
      => DOMAIN nodes \ DOMAIN nodes' \subseteq silent ]_vars

\* A running transfer ends, or its timer is stopped, whatever the slaves answer
\* and however the threads interleave (boot_update_wait_respond).
UpdateEnds == (timerOn /\ step # IDLE) ~> (~timerOn \/ step = IDLE)

\* The buttons that a start disables are enabled again: by the failure signal,
\* by the progress that reached its end, or by a stop.
PageRecovers == ~enabled ~> enabled
=============================================================================
