-------------------------- MODULE FileTransferMaster --------------------------
(***************************************************************************)
(* The group file transfer: the master state machine of                    *)
(* group_update/file_transfer_master.c, its Qt port and the page           *)
(* FrmGroupUpdate that drives it from buttons and a 5 ms timer.            *)
(*                                                                         *)
(* The page, its timer and the port's queued reply slot all run in the GUI *)
(* thread, so a handler runs to its end before another one starts and one  *)
(* handler is one action.  The slaves are not part of the repository: a    *)
(* reply of any kind, from any address, may arrive at any time, which      *)
(* covers lost, late, repeated and reordered replies.                      *)
(*                                                                         *)
(* Time is abstract: a wait whose timeout has not elapsed is a poll that   *)
(* only refreshes the page.  Lengths and offsets count blocks of           *)
(* FILE_DATA_RECV_MAX_SIZE bytes.                                          *)
(***************************************************************************)
EXTENDS Integers, FiniteSets, UpdateNodes

CONSTANTS
  Addr,       \* addresses of the slaves on the bus
  Lens,       \* lengths of the files the operator can choose
  ResendMax,  \* resend_cnt_max of every waiting step
  MaxStarts   \* bound: how often the operator starts a transfer

\* enum file_transfer_master_e
IDLE      == 0
WAIT_CMD  == 1
WAIT_INFO == 2
WAIT_DATA == 3
WAIT_CRC  == 4

WaitSteps == {WAIT_CMD, WAIT_INFO, WAIT_DATA, WAIT_CRC}
Steps     == {IDLE} \cup WaitSteps

ASSUME TransferAssumption ==
  /\ Lens \subseteq Nat
  /\ ResendMax \in [WaitSteps -> Nat]
  /\ MaxStarts \in Nat

\* Offsets that a data reply may name.
Offsets == UNION {0 .. n : n \in Lens}

MsgIds == {"START", "INFO", "DATA", "CRC"}
Msg(id, offset) == [id |-> id, offset |-> offset]
NoMsg == Msg("NONE", 0)
Msgs  == [id : MsgIds \cup {"NONE"}, offset : Nat]

VARIABLES
  \* file_transfer_master_t
  curStep,        \* cur_step->step
  stepOffset,     \* transfer_step[s].offset
  resendCnt,      \* cur_step->resend_cnt
  node,           \* node_root
  targets,        \* addresses of file_process.obj_addr that are not 0xFF
  infoLen,        \* file_info.len
  dataOffset,     \* file_data.offset
  progressFull,   \* update_process >= 100
  lastMsg,        \* msg_send_id and msg_send_buff
  tx,             \* the frame the last handler gave to sig_msg_send
  \* the port and the page
  fileLen,        \* m_file_data_info.len
  timerOn,        \* timer->isActive()
  buttonsEnabled, \* the open and start buttons
  \* history of the current transfer
  starts,         \* how many transfers have been started
  goal,           \* the addresses it was started for
  acked,          \* positions each of them has acknowledged when asked to
  failed,         \* addresses named by update_failed_cb
  rejected,       \* addresses that answered the check with an error
  swapped         \* the file was replaced after the start

machineVars == <<curStep, stepOffset, resendCnt, dataOffset, progressFull>>
fileVars    == <<fileLen, infoLen, swapped>>
pageVars    == <<timerOn, buttonsEnabled>>
historyVars == <<starts, goal, acked, failed, rejected>>
listVars    == <<node, targets>>
msgVars     == <<lastMsg, tx>>
vars == <<machineVars, fileVars, pageVars, historyVars, listVars, msgVars>>

CurPos == At(curStep, IF curStep = WAIT_DATA THEN dataOffset ELSE 0)

-----------------------------------------------------------------------------
\* update_process and the file length are not initialised by the code: they
\* start with any value.
Init ==
  /\ curStep = IDLE
  /\ stepOffset = [s \in Steps |-> 0]
  /\ resendCnt = 0
  /\ dataOffset = 0
  /\ progressFull \in BOOLEAN
  /\ node = clr_update_root
  /\ targets = {}
  /\ infoLen = 0
  /\ fileLen \in Lens
  /\ lastMsg = NoMsg
  /\ tx = NoMsg
  /\ timerOn = FALSE
  /\ buttonsEnabled = TRUE
  /\ starts = 0
  /\ goal = {}
  /\ acked = [a \in Addr |-> {}]
  /\ failed = {}
  /\ rejected = {}
  /\ swapped = FALSE

-----------------------------------------------------------------------------
(***************************************************************************)
(* Pieces of the handlers.                                                 *)
(***************************************************************************)

\* The offset goes to the step that is left, not to the one that is entered;
\* the entry event of the new step clears its resend counter.
file_master_state_machine_switch(handle, step, offset) ==
  /\ stepOffset' = [stepOffset EXCEPT ![handle] = offset]
  /\ curStep' = step
  /\ resendCnt' = 0

\* Sends a frame and keeps it for retransmission.
msg_send(id, offset) ==
  /\ lastMsg' = Msg(id, offset)
  /\ tx' = Msg(id, offset)

\* Mutant: takes the end of the file one block too early.
HasNextData(offset) == offset + 1 < fileLen

\* interface->get_file_data returns a length > 0.
HasData(offset) == offset < fileLen

cmd_respond_finish ==
  /\ file_master_state_machine_switch(WAIT_CMD, WAIT_INFO, 0)
  /\ msg_send("INFO", 0)
  /\ UNCHANGED <<dataOffset, progressFull>>

\* An empty file goes back to idle without waiting for the check's replies.
info_respond_finish ==
  /\ dataOffset' = 0
  /\ \/ /\ HasData(0)
        /\ msg_send("DATA", 0)
        /\ file_master_state_machine_switch(WAIT_INFO, WAIT_DATA, 0)
     \/ /\ ~HasData(0)
        /\ msg_send("CRC", 0)
        /\ file_master_state_machine_switch(WAIT_INFO, IDLE, 0)
  /\ UNCHANGED progressFull

\* Mutant: sends the next block without keeping it for retransmission.
data_finish_unkept ==
  LET next == dataOffset + 1
  IN  /\ dataOffset' = next
      /\ \/ /\ HasData(next)
            /\ progressFull' = (next >= infoLen)
            /\ tx' = Msg("DATA", next)
            /\ UNCHANGED lastMsg
            /\ file_master_state_machine_switch(WAIT_DATA, WAIT_DATA, next)
         \/ /\ ~HasData(next)
            /\ msg_send("CRC", 0)
            /\ file_master_state_machine_switch(WAIT_DATA, WAIT_CRC, 0)
            /\ UNCHANGED progressFull

\* Mutant: leaves the old offset in the step.
data_finish_old_offset ==
  LET next == dataOffset + 1
  IN  /\ dataOffset' = next
      /\ \/ /\ HasData(next)
            /\ progressFull' = (next >= infoLen)
            /\ msg_send("DATA", next)
            /\ file_master_state_machine_switch(WAIT_DATA, WAIT_DATA, dataOffset)
         \/ /\ ~HasData(next)
            /\ msg_send("CRC", 0)
            /\ file_master_state_machine_switch(WAIT_DATA, WAIT_CRC, 0)
            /\ UNCHANGED progressFull

data_respond_finish ==
  LET next == dataOffset + 1
  IN  /\ dataOffset' = next
      /\ \/ /\ HasData(next)
            /\ progressFull' = (next >= infoLen)
            /\ msg_send("DATA", next)
            /\ file_master_state_machine_switch(WAIT_DATA, WAIT_DATA, next)
         \/ /\ ~HasData(next)
            /\ msg_send("CRC", 0)
            /\ file_master_state_machine_switch(WAIT_DATA, WAIT_CRC, 0)
            /\ UNCHANGED progressFull

\* Mutant: goes to the step after the check, as the other handlers do.
crc_finish_next_step ==
  /\ progressFull' = TRUE
  /\ file_master_state_machine_switch(WAIT_CRC, WAIT_CRC + 1, 0)
  /\ tx' = NoMsg
  /\ UNCHANGED <<lastMsg, dataOffset>>

crc_check_respond_finish ==
  /\ progressFull' = TRUE
  /\ file_master_state_machine_switch(WAIT_CRC, IDLE, 0)
  /\ tx' = NoMsg
  /\ UNCHANGED <<lastMsg, dataOffset>>

\* cur_step->finish_handle
finish_handle ==
  \/ curStep = WAIT_CMD  /\ cmd_respond_finish
  \/ curStep = WAIT_INFO /\ info_respond_finish
  \/ curStep = WAIT_DATA /\ data_respond_finish
  \/ curStep = WAIT_CRC  /\ crc_check_respond_finish

\* The common end of the reply handlers: with the updated list, move on when
\* every entry is at the awaited position.
JudgeAndFinish(list) ==
  /\ node' = list
  /\ \/ judge_update_node_is_same(list, CurPos) /\ finish_handle
     \/ /\ ~judge_update_node_is_same(list, CurPos)
        /\ tx' = NoMsg
        /\ UNCHANGED <<machineVars, lastMsg>>

\* History: an address of this transfer acknowledges what it is asked for.
Record(src, accepted) ==
  acked' = IF accepted /\ src \in goal
           THEN [acked EXCEPT ![src] = @ \cup {CurPos}]
           ELSE acked

-----------------------------------------------------------------------------
(***************************************************************************)
(* file_master_recv_handle: the four replies.  Outside its own step a      *)
(* reply only reaches the page's icons.                                    *)
(***************************************************************************)
recv_ignored(step) ==
  /\ curStep # step
  /\ tx' = NoMsg
  /\ UNCHANGED <<machineVars, fileVars, pageVars, historyVars, listVars, lastMsg>>

\* START_RESPONE and FILE_INFO_RESPONE: the same handler but for the step.
recv_ok_respond(step, src, ok) ==
  /\ curStep = step
  /\ Record(src, ok)
  /\ JudgeAndFinish(IF ok THEN set_update_node_process(node, src, CurPos) ELSE node)
  /\ UNCHANGED <<fileVars, pageVars, targets, starts, goal, failed, rejected>>

recv_update_cmd_respond(src, ok) ==
  recv_ok_respond(WAIT_CMD, src, ok) \/ recv_ignored(WAIT_CMD)

recv_file_info_respond(src, ok) ==
  recv_ok_respond(WAIT_INFO, src, ok) \/ recv_ignored(WAIT_INFO)

\* Mutant: takes the acknowledgement of any block for one of the current block.
recv_data_any_offset(src, offset) ==
  \/ /\ curStep = WAIT_DATA
     /\ Record(src, offset = dataOffset)
     /\ JudgeAndFinish(set_update_node_process(node, src, CurPos))
     /\ UNCHANGED <<fileVars, pageVars, targets, starts, goal, failed, rejected>>
  \/ recv_ignored(WAIT_DATA)

\* Only the offset counts: the reply's result code is not looked at.
recv_file_data_respond(src, offset) ==
  \/ /\ curStep = WAIT_DATA
     /\ Record(src, offset = dataOffset)
     /\ JudgeAndFinish(IF offset = dataOffset
                       THEN set_update_node_process(node, src, CurPos)
                       ELSE node)
     /\ UNCHANGED <<fileVars, pageVars, targets, starts, goal, failed, rejected>>
  \/ recv_ignored(WAIT_DATA)

\* Mutant: does not look at the result of the check, as boot_master.cpp:299-313.
recv_crc_any_result(src, ok) ==
  \/ /\ curStep = WAIT_CRC
     /\ Record(src, ok)
     /\ JudgeAndFinish(set_update_node_process(node, src, CurPos))
     /\ UNCHANGED <<fileVars, pageVars, targets, starts, goal, failed, rejected>>
  \/ recv_ignored(WAIT_CRC)

\* A node that fails the check leaves the list; if none is left the list is
\* "all the same" and the transfer ends as a finished one.
recv_crc_check_respond(src, ok) ==
  \/ /\ curStep = WAIT_CRC
     /\ Record(src, ok)
     /\ rejected' = IF ok \/ src \notin DOMAIN node THEN rejected ELSE rejected \cup {src}
     /\ JudgeAndFinish(IF ok THEN set_update_node_process(node, src, CurPos)
                             ELSE remove_update_node(node, src))
     /\ UNCHANGED <<fileVars, pageVars, targets, starts, goal, failed>>
  \/ recv_ignored(WAIT_CRC)

-----------------------------------------------------------------------------
(***************************************************************************)
(* slotTimerOut: transfer_task, then slotUpdataProgress, which enables the *)
(* buttons whenever update_process is at 100.                              *)
(***************************************************************************)
\* Mutant: a failed transfer stops the timer but leaves the buttons disabled.
progress_only(stopped) ==
  /\ buttonsEnabled' = (buttonsEnabled \/ progressFull')
  /\ timerOn' = (timerOn /\ ~stopped)

slotUpdataProgress(stopped) ==
  /\ buttonsEnabled' = (buttonsEnabled \/ stopped \/ progressFull')
  /\ timerOn' = (timerOn /\ ~stopped)

\* Idle, or the timeout has not elapsed.
PollQuiet ==
  /\ timerOn
  /\ tx' = NoMsg
  /\ UNCHANGED <<machineVars, fileVars, historyVars, listVars, lastMsg>>
  /\ slotUpdataProgress(FALSE)

\* Mutant: does not count the resends.
ResendUncounted ==
  /\ timerOn
  /\ curStep # IDLE
  /\ resendCnt < ResendMax[curStep]
  /\ tx' = lastMsg
  /\ UNCHANGED machineVars
  /\ slotUpdataProgress(FALSE)
  /\ UNCHANGED <<fileVars, historyVars, listVars, lastMsg>>

\* The timeout has elapsed and resends are left.
PollResend ==
  /\ timerOn
  /\ curStep # IDLE
  /\ resendCnt < ResendMax[curStep]
  /\ resendCnt' = resendCnt + 1
  /\ tx' = lastMsg
  /\ UNCHANGED <<curStep, stepOffset, dataOffset, progressFull>>
  /\ slotUpdataProgress(FALSE)
  /\ UNCHANGED <<fileVars, historyVars, listVars, lastMsg>>

\* Mutant: reports only one of the addresses that have left the list.
update_check_first(list) ==
  LET gone == {a \in targets : ~update_node_is_exist(list, a)}
  IN  \/ gone = {} /\ UNCHANGED <<targets, failed>>
      \/ \E a \in gone : targets' = targets \ {a} /\ failed' = failed \cup {a}

\* Reports, once, every address that has left the list.
file_master_update_check(list) ==
  /\ targets' = {a \in targets : update_node_is_exist(list, a)}
  /\ failed' = failed \cup {a \in targets : ~update_node_is_exist(list, a)}

\* The timeout has elapsed after the last resend: drop whoever is not at the
\* step's position, report them, and go on with the others.  update_failed_cb
\* (0xFF) makes the page stop.
PollGiveUp ==
  LET left == remove_update_node_diff(node, At(curStep, stepOffset[curStep]))
  IN  /\ timerOn
      /\ curStep # IDLE
      /\ resendCnt >= ResendMax[curStep]
      /\ node' = left
      /\ file_master_update_check(left)
      /\ \/ /\ DOMAIN left = {}
            /\ file_master_state_machine_switch(curStep, IDLE, 0)
            /\ tx' = NoMsg
            /\ UNCHANGED <<lastMsg, dataOffset, progressFull>>
            /\ slotUpdataProgress(TRUE)
         \/ /\ DOMAIN left # {}
            /\ finish_handle
            /\ slotUpdataProgress(FALSE)
      /\ UNCHANGED <<fileVars, starts, goal, acked, rejected>>

-----------------------------------------------------------------------------
(***************************************************************************)
(* The operator.                                                           *)
(***************************************************************************)

\* on_startPushButton_clicked for the checked addresses: reads the file again
\* (length n) and starts; update_process keeps its value and, after a stop,
\* so does the offset of the data step.
StartButton(addrs, n) ==
  /\ buttonsEnabled
  /\ starts < MaxStarts
  /\ addrs # {}
  /\ buttonsEnabled' = FALSE
  /\ timerOn' = TRUE
  /\ fileLen' = n
  /\ infoLen' = n
  /\ swapped' = FALSE
  /\ node' = new_update_list(addrs)
  /\ targets' = addrs
  /\ msg_send("START", 0)
  /\ file_master_state_machine_switch(WAIT_CMD, WAIT_CMD, 0)
  /\ starts' = starts + 1
  /\ goal' = addrs
  /\ acked' = [a \in Addr |-> {}]
  /\ failed' = {}
  /\ rejected' = {}
  /\ UNCHANGED <<dataOffset, progressFull>>

\* on_openPushButton_clicked with a valid file; an invalid one changes nothing.
OpenButton(n) ==
  /\ buttonsEnabled
  /\ fileLen' = n
  /\ swapped' = TRUE
  /\ tx' = NoMsg
  /\ UNCHANGED <<infoLen, machineVars, pageVars, historyVars, listVars, lastMsg>>

\* on_stopPushButton_clicked: only the timer stops.  The machine keeps its
\* step, and the replies still move it.
StopButton ==
  /\ buttonsEnabled' = TRUE
  /\ timerOn' = FALSE
  /\ tx' = NoMsg
  /\ UNCHANGED <<machineVars, fileVars, historyVars, listVars, lastMsg>>

\* on_resetPushButton_clicked (verify_request) and on_handShakePushButton_clicked
\* (send_handshake_cmd): always enabled, and they replace the frame that the
\* next timeout retransmits.
ManualSend(id) ==
  /\ msg_send(id, 0)
  /\ UNCHANGED <<machineVars, fileVars, pageVars, historyVars, listVars>>

-----------------------------------------------------------------------------
Poll == PollQuiet \/ PollResend \/ PollGiveUp

Replies ==
  \E src \in Addr :
    \/ \E ok \in BOOLEAN : \/ recv_update_cmd_respond(src, ok)
                           \/ recv_file_info_respond(src, ok)
                           \/ recv_crc_check_respond(src, ok)
    \/ \E offset \in Offsets : recv_file_data_respond(src, offset)

Operator ==
  \/ \E addrs \in SUBSET Addr, n \in Lens : StartButton(addrs, n)
  \/ \E n \in Lens : OpenButton(n)
  \/ StopButton
  \/ ManualSend("CRC")
  \/ ManualSend("START")

Next == Poll \/ Replies \/ Operator

Spec == Init /\ [][Next]_vars

\* While the page's timer runs, its timeouts fire and time passes.
TimerFairness == WF_vars(PollResend \/ PollGiveUp) /\ WF_vars(PollQuiet)

FairSpec == Spec /\ TimerFairness

-----------------------------------------------------------------------------
(***************************************************************************)
(* Properties.                                                             *)
(***************************************************************************)

\* Every variable holds a value of its C type, in the bounds of the model.
TypeOK ==
  /\ curStep \in Steps
  /\ stepOffset \in [Steps -> Nat]
  /\ resendCnt \in Nat
  /\ IsNodeList(node, Addr)
  /\ targets \in SUBSET Addr
  /\ infoLen \in Nat
  /\ fileLen \in Nat
  /\ dataOffset \in Nat
  /\ progressFull \in BOOLEAN
  /\ lastMsg \in Msgs
  /\ tx \in Msgs
  /\ timerOn \in BOOLEAN
  /\ buttonsEnabled \in BOOLEAN
  /\ starts \in 0 .. MaxStarts
  /\ goal \in SUBSET Addr
  /\ acked \in [Addr -> SUBSET Positions]
  /\ failed \in SUBSET Addr
  /\ rejected \in SUBSET Addr
  /\ swapped \in BOOLEAN

\* The master is a barrier: when it waits for block k, every node it still
\* lists has acknowledged, in this transfer, the start command, the file
\* information and every block before k, whatever replies came late, twice or
\* from an earlier transfer, and whoever was dropped on the way.
Lockstep ==
  \A a \in DOMAIN node :
    /\ curStep \in {WAIT_INFO, WAIT_DATA, WAIT_CRC} =>
         At(WAIT_CMD, 0) \in acked[a]
    /\ curStep \in {WAIT_DATA, WAIT_CRC} =>
         /\ At(WAIT_INFO, 0) \in acked[a]
         /\ \A k \in 0 .. dataOffset - 1 : At(WAIT_DATA, k) \in acked[a]

\* Nobody is lost: every address the transfer was started for is still listed,
\* or was reported by update_failed_cb, or answered the check with an error;
\* and none of the last two is in the list, so no late reply revives it.
Accounted ==
  /\ goal = DOMAIN node \cup failed \cup rejected
  /\ DOMAIN node \cap (failed \cup rejected) = {}

\* A block goes on the bus only while the master waits for exactly that block,
\* and the file information only while it waits for it: a retransmission never
\* sends what an earlier step left in the buffer.
OnlyAwaitedFrames ==
  /\ tx.id = "INFO" => curStep = WAIT_INFO
  /\ tx.id = "DATA" => curStep = WAIT_DATA /\ tx.offset = dataOffset

\* Unless the operator replaced the file after a stop, the check is awaited
\* only when exactly the announced number of blocks has been transferred.
WholeFileSent ==
  curStep = WAIT_CRC /\ ~swapped => dataOffset = infoLen

\* The transfer ends as a finished one only when every address it was started
\* for has passed the check, was reported as failed, or failed the check.
VerifiedAtEnd ==
  [][ curStep = WAIT_CRC /\ curStep' = IDLE =>
        \A a \in goal : \/ At(WAIT_CRC, 0) \in acked'[a]
                        \/ a \in failed' \cup rejected' ]_vars

\* A listed node is dropped and reported only if it did not answer the request
\* that timed out.
OnlySilentNodesRemoved ==
  [][ \A a \in DOMAIN node \cap failed' : CurPos \notin acked[a] ]_vars

\* The same wherever the step's own offset cannot be stale, that is everywhere
\* but at the first block: the offset left by an abandoned transfer is only
\* replaced when the first block has been acknowledged.
OnlySilentNodesRemovedLater ==
  [][ curStep # WAIT_DATA \/ dataOffset > 0 =>
        \A a \in DOMAIN node \cap failed' : CurPos \notin acked[a] ]_vars

\* While the page's timer runs, a transfer does not wait for ever: silent nodes
\* run out of resends and the others move on.
TransferEnds ==
  (timerOn /\ curStep # IDLE) ~> (~timerOn \/ curStep = IDLE)

\* The page always gives its buttons back (for a file that is not empty).
PageRecovers == ~buttonsEnabled ~> buttonsEnabled

-----------------------------------------------------------------------------
(***************************************************************************)
(* The transfer implements GroupTransfer: the group is the node list, and  *)
(* a node counts when its entry is at the awaited position.                *)
(***************************************************************************)
PhaseName ==
  [s \in Steps |-> CASE s = IDLE      -> "idle"
                     [] s = WAIT_CMD  -> "command"
                     [] s = WAIT_INFO -> "info"
                     [] s = WAIT_DATA -> "block"
                     [] s = WAIT_CRC  -> "check"]

Counted == IF curStep = IDLE THEN {} ELSE {a \in DOMAIN node : node[a] = CurPos}

Group == INSTANCE GroupTransfer
           WITH phase <- PhaseName[curStep],
                block <- CurPos.offset,
                members <- DOMAIN node,
                acks <- Counted

\* Every behaviour of the master, with its timeouts, retransmissions, stale
\* replies, restarts and dropped nodes, is one of the abstract group transfer.
ImplementsGroupTransfer == Group!Spec
=============================================================================
