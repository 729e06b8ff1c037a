---------------------- MODULE FileTransferMaster_proofs ----------------------
(***************************************************************************)
(* Proofs about FileTransferMaster, for any set of addresses, any file     *)
(* lengths, any resend limits and any number of transfers.                 *)
(***************************************************************************)
EXTENDS FileTransferMaster, UpdateNodes_proofs

\* A listed node is where it started, or where it has acknowledged to be.
PositionsAcked ==
  \A a \in DOMAIN node : node[a] = At(IDLE, 0) \/ node[a] \in acked[a]

\* Nothing was acknowledged before it was asked for.
AckedPast ==
  curStep # IDLE =>
    \A a \in Addr : \A p \in acked[a] :
      /\ p.step <= curStep
      /\ p.step = WAIT_DATA => p.offset <= dataOffset

\* Whoever is listed and has acknowledged the current request is counted.
AckedCounted ==
  curStep # IDLE =>
    \A a \in DOMAIN node : CurPos \in acked[a] => node[a] = CurPos

\* The step offsets, which the timeout compares the nodes with, agree with the
\* block waited for, except the one of the data step at the first block.
StepOffsets ==
  /\ \A s \in Steps \ {WAIT_DATA} : stepOffset[s] = 0
  /\ curStep = WAIT_DATA => stepOffset[WAIT_DATA] = dataOffset \/ dataOffset = 0

\* Somebody is listed as long as the master waits.
SomebodyListed == curStep # IDLE => DOMAIN node # {}

\* A listed node has not been reported, and will be if it is dropped.
ListedAreTargets == DOMAIN node \subseteq targets /\ targets \subseteq goal

\* The retransmission buffer holds nothing of an earlier step.
BufferCurrent ==
  curStep # IDLE =>
    /\ lastMsg.id = "INFO" => curStep = WAIT_INFO
    /\ lastMsg.id = "DATA" => curStep = WAIT_DATA /\ lastMsg.offset = dataOffset

\* The blocks sent are those of the announced file.
FileUnchanged ==
  ~swapped =>
    /\ curStep # IDLE => infoLen = fileLen
    /\ curStep = WAIT_DATA => dataOffset < fileLen
    /\ curStep = WAIT_CRC => dataOffset = fileLen

IndInv ==
  /\ TypeOK
  /\ PositionsAcked
  /\ AckedPast
  /\ AckedCounted
  /\ StepOffsets
  /\ SomebodyListed
  /\ ListedAreTargets
  /\ BufferCurrent
  /\ FileUnchanged
  /\ Lockstep
  /\ Accounted
  /\ OnlyAwaitedFrames

-----------------------------------------------------------------------------
(***************************************************************************)
(* The two things a step can do to the machine: move to the next request,  *)
(* with a list of nodes that all acknowledged the current one, or stay.    *)
(***************************************************************************)
Moves ==
  \/ curStep = WAIT_CMD /\ curStep' = WAIT_INFO /\ dataOffset' = dataOffset
  \/ curStep = WAIT_INFO /\ curStep' = WAIT_DATA /\ dataOffset' = 0
  \/ curStep = WAIT_INFO /\ curStep' = IDLE
  \/ curStep = WAIT_DATA /\ curStep' = WAIT_DATA /\ dataOffset' = dataOffset + 1
  \/ curStep = WAIT_DATA /\ curStep' = WAIT_CRC /\ dataOffset' = dataOffset + 1
  \/ curStep = WAIT_CRC /\ curStep' = IDLE

\* What a step adds to the acknowledgements: at most the current request.
OnlyCurrentAcked ==
  /\ acked' \in [Addr -> SUBSET Positions]
  /\ \A a \in Addr : acked[a] \subseteq acked'[a] /\ acked'[a] \subseteq acked[a] \cup {CurPos}

\* The part of the invariant that is about acknowledgements.
AckInv == PositionsAcked /\ AckedPast /\ AckedCounted /\ Lockstep

MachineTypeOK ==
  /\ curStep \in Steps
  /\ stepOffset \in [Steps -> Nat]
  /\ resendCnt \in Nat
  /\ dataOffset \in Nat
  /\ progressFull \in BOOLEAN
  /\ lastMsg \in Msgs
  /\ tx \in Msgs

USE DEF IDLE, WAIT_CMD, WAIT_INFO, WAIT_DATA, WAIT_CRC, WaitSteps, Steps

LEMMA CurPosLemma == TypeOK => CurPos \in Positions
BY DEF TypeOK, CurPos, At, Positions

\* The finish handlers: where they lead, and what they leave in the step
\* offsets and in the retransmission buffer.
LEMMA FinishLemma ==
  ASSUME TypeOK, StepOffsets, FileUnchanged, finish_handle, UNCHANGED fileVars
  PROVE  /\ Moves
         /\ MachineTypeOK'
         /\ StepOffsets'
         /\ BufferCurrent'
         /\ FileUnchanged'
         /\ OnlyAwaitedFrames'
<1> USE DEF file_master_state_machine_switch, msg_send, Msg, NoMsg, Msgs, MsgIds,
            HasData, fileVars
<1>1. CASE curStep = WAIT_CMD /\ cmd_respond_finish
  BY <1>1 DEF cmd_respond_finish, TypeOK, StepOffsets, FileUnchanged, Moves, MachineTypeOK,
              BufferCurrent, OnlyAwaitedFrames
<1>2. CASE curStep = WAIT_INFO /\ info_respond_finish
  BY <1>2 DEF info_respond_finish, TypeOK, StepOffsets, FileUnchanged, Moves, MachineTypeOK,
              BufferCurrent, OnlyAwaitedFrames
<1>3. CASE curStep = WAIT_DATA /\ data_respond_finish
  <2>1. CASE HasData(dataOffset + 1)
    <3> DEFINE full == dataOffset + 1 >= infoLen
    <3>a. progressFull' = full
      BY <1>3, <2>1 DEF data_respond_finish
    <3>b. full \in BOOLEAN
      BY DEF TypeOK
    <3>1. progressFull' \in BOOLEAN
      BY <3>a, <3>b
    <3>2. QED
      BY <1>3, <2>1, <3>1 DEF data_respond_finish, TypeOK, StepOffsets, FileUnchanged, Moves,
                              MachineTypeOK, BufferCurrent, OnlyAwaitedFrames
  <2>2. CASE ~HasData(dataOffset + 1)
    BY <1>3, <2>2 DEF data_respond_finish, TypeOK, StepOffsets, FileUnchanged, Moves,
                      MachineTypeOK, BufferCurrent, OnlyAwaitedFrames
  <2>3. QED
    BY <2>1, <2>2
<1>4. CASE curStep = WAIT_CRC /\ crc_check_respond_finish
  BY <1>4 DEF crc_check_respond_finish, TypeOK, StepOffsets, FileUnchanged, Moves,
              MachineTypeOK, BufferCurrent, OnlyAwaitedFrames
<1>5. QED
  BY <1>1, <1>2, <1>3, <1>4 DEF finish_handle

\* A move made when every node that is left has acknowledged the current
\* request keeps the acknowledgement part of the invariant.
LEMMA AdvanceLemma ==
  ASSUME TypeOK, AckInv, Moves, OnlyCurrentAcked, dataOffset' \in Nat,
         DOMAIN node' \subseteq DOMAIN node,
         \A a \in DOMAIN node' : node'[a] = CurPos /\ CurPos \in acked'[a]
  PROVE  AckInv'
<1> USE DEF Moves, OnlyCurrentAcked
<1>1. DOMAIN node' \subseteq Addr
  BY DEF TypeOK, IsNodeList
<1>2. PositionsAcked'
  BY DEF PositionsAcked
<1>3. /\ CurPos.step = curStep
      /\ curStep = WAIT_DATA => CurPos.offset = dataOffset
  BY DEF CurPos, At
<1>4. \A a \in Addr : \A p \in acked'[a] :
        /\ p.step <= curStep
        /\ p.step = WAIT_DATA => p.offset <= dataOffset
  BY <1>3 DEF AckInv, AckedPast, TypeOK
<1>5. AckedPast'
  BY <1>4 DEF AckedPast, TypeOK, Positions
<1>6. AckedCounted'
  <2> SUFFICES ASSUME curStep' # IDLE, NEW a \in DOMAIN node'
               PROVE  CurPos' \notin acked'[a]
    BY DEF AckedCounted
  <2>1. CurPos'.step = curStep' /\ (curStep' = WAIT_DATA => CurPos'.offset = dataOffset')
    BY DEF CurPos, At
  <2>2. QED
    BY <1>1, <1>4, <2>1 DEF TypeOK, Positions
<1>7. Lockstep'
  <2> SUFFICES ASSUME NEW a \in DOMAIN node'
               PROVE  /\ curStep' \in {WAIT_INFO, WAIT_DATA, WAIT_CRC} =>
                           At(WAIT_CMD, 0) \in acked'[a]
                      /\ curStep' \in {WAIT_DATA, WAIT_CRC} =>
                           /\ At(WAIT_INFO, 0) \in acked'[a]
                           /\ \A k \in 0 .. dataOffset' - 1 : At(WAIT_DATA, k) \in acked'[a]
    BY DEF Lockstep
  <2>1. a \in Addr /\ a \in DOMAIN node /\ CurPos \in acked'[a] /\ acked[a] \subseteq acked'[a]
    BY <1>1
  <2>2. CASE curStep = WAIT_CMD
    BY <2>1, <2>2 DEF CurPos
  <2>3. CASE curStep = WAIT_INFO
    <3>1. At(WAIT_CMD, 0) \in acked'[a]
      BY <2>1, <2>3 DEF AckInv, Lockstep
    <3>2. At(WAIT_INFO, 0) \in acked'[a]
      BY <2>1, <2>3 DEF CurPos
    <3>3. curStep' = IDLE \/ dataOffset' = 0
      BY <2>3
    <3>4. dataOffset' = 0 => \A k \in 0 .. dataOffset' - 1 : At(WAIT_DATA, k) \in acked'[a]
      OBVIOUS
    <3>5. curStep' = IDLE \/ curStep' = WAIT_DATA
      BY <2>3
    <3>6. QED
      BY ONLY <3>1, <3>2, <3>3, <3>4, <3>5
  <2>4. CASE curStep = WAIT_DATA
    <3>1. \A k \in 0 .. dataOffset - 1 : At(WAIT_DATA, k) \in acked'[a]
      BY <2>1, <2>4 DEF AckInv, Lockstep
    <3>2. At(WAIT_DATA, dataOffset) \in acked'[a]
      BY <2>1, <2>4 DEF CurPos
    <3>3. dataOffset' = dataOffset + 1
      BY <2>4
    <3>4. dataOffset \in Nat
      BY DEF TypeOK
    <3>5. \A k \in 0 .. dataOffset' - 1 : k \in 0 .. dataOffset - 1 \/ k = dataOffset
      BY ONLY <3>3, <3>4
    <3>6. \A k \in 0 .. dataOffset' - 1 : At(WAIT_DATA, k) \in acked'[a]
      BY ONLY <3>1, <3>2, <3>5
    <3>7. At(WAIT_CMD, 0) \in acked'[a] /\ At(WAIT_INFO, 0) \in acked'[a]
      BY <2>1, <2>4 DEF AckInv, Lockstep
    <3>8. QED
      BY ONLY <3>6, <3>7
  <2>5. CASE curStep = WAIT_CRC
    <3>1. curStep' = IDLE
      BY <2>5
    <3>2. QED
      BY ONLY <3>1
  <2>6. curStep = WAIT_CMD \/ curStep = WAIT_INFO \/ curStep = WAIT_DATA \/ curStep = WAIT_CRC
    OBVIOUS
  <2>7. QED
    BY ONLY <2>2, <2>3, <2>4, <2>5, <2>6
<1>8. QED
  BY <1>2, <1>5, <1>6, <1>7 DEF AckInv

\* A step that only updates the list at the current request keeps it too.
LEMMA StayLemma ==
  ASSUME TypeOK, AckInv, curStep # IDLE, OnlyCurrentAcked,
         UNCHANGED <<curStep, dataOffset>>,
         DOMAIN node' \subseteq DOMAIN node,
         \A a \in DOMAIN node' :
           /\ node'[a] = node[a] \/ (node'[a] = CurPos /\ CurPos \in acked'[a])
           /\ CurPos \in acked'[a] => node'[a] = CurPos
  PROVE  AckInv'
<1>1. CurPos' = CurPos
  BY DEF CurPos
<1>2. DOMAIN node' \subseteq Addr
  BY DEF TypeOK, IsNodeList
<1>3. PositionsAcked'
  BY <1>2 DEF OnlyCurrentAcked, AckInv, PositionsAcked
<1>4. AckedPast'
  BY DEF OnlyCurrentAcked, AckInv, AckedPast, CurPos, At, TypeOK
<1>5. AckedCounted'
  BY <1>1 DEF AckedCounted
<1>6. Lockstep'
  BY <1>2 DEF OnlyCurrentAcked, AckInv, Lockstep
<1>7. QED
  BY <1>3, <1>4, <1>5, <1>6 DEF AckInv

\* The common end of the reply handlers.
LEMMA JudgeLemma ==
  ASSUME IndInv, curStep # IDLE, OnlyCurrentAcked, UNCHANGED fileVars,
         NEW list, IsNodeList(list, Addr), JudgeAndFinish(list),
         DOMAIN list \subseteq DOMAIN node,
         DOMAIN list = {} => curStep = WAIT_CRC,
         \A a \in DOMAIN list :
           /\ list[a] = node[a] \/ (list[a] = CurPos /\ CurPos \in acked'[a])
           /\ CurPos \in acked'[a] => list[a] = CurPos
  PROVE  /\ node' = list
         /\ AckInv'
         /\ MachineTypeOK'
         /\ StepOffsets'
         /\ SomebodyListed'
         /\ BufferCurrent'
         /\ FileUnchanged'
         /\ OnlyAwaitedFrames'
<1>1. node' = list
  BY DEF JudgeAndFinish
<1>2. AckInv
  BY DEF IndInv, AckInv
<1>3. CASE judge_update_node_is_same(list, CurPos) /\ finish_handle
  <2>1. /\ Moves
        /\ MachineTypeOK'
        /\ StepOffsets'
        /\ BufferCurrent'
        /\ FileUnchanged'
        /\ OnlyAwaitedFrames'
    BY <1>3, FinishLemma DEF IndInv
  <2>2. \A a \in DOMAIN node' : node'[a] = CurPos /\ CurPos \in acked'[a]
    <3> SUFFICES ASSUME NEW a \in DOMAIN list PROVE list[a] = CurPos /\ CurPos \in acked'[a]
      BY <1>1
    <3>1. list[a] = CurPos
      BY <1>3 DEF judge_update_node_is_same
    <3>2. CurPos # At(IDLE, 0)
      BY DEF CurPos, At
    <3>3. a \in Addr /\ acked[a] \subseteq acked'[a]
      BY DEF OnlyCurrentAcked, IsNodeList
    <3>4. QED
      BY <3>1, <3>2, <3>3 DEF IndInv, PositionsAcked
  <2>3. AckInv'
    BY <1>1, <1>2, <2>1, <2>2, AdvanceLemma DEF IndInv, MachineTypeOK
  <2>4. SomebodyListed'
    BY <1>1, <2>1 DEF SomebodyListed, Moves
  <2>5. QED
    BY <1>1, <2>1, <2>3, <2>4
<1>4. CASE ~judge_update_node_is_same(list, CurPos) /\ tx' = NoMsg
           /\ UNCHANGED <<machineVars, lastMsg>>
  <2>1. UNCHANGED <<curStep, dataOffset, stepOffset, resendCnt, progressFull>>
    BY <1>4 DEF machineVars
  <2>2. AckInv'
    BY <1>1, <1>2, <2>1, StayLemma DEF IndInv
  <2>3. MachineTypeOK'
    BY <1>4, <2>1 DEF MachineTypeOK, IndInv, TypeOK, Msgs, NoMsg, Msg
  <2>4. StepOffsets' /\ BufferCurrent'
    BY <1>4, <2>1 DEF IndInv, StepOffsets, BufferCurrent
  <2>5. FileUnchanged'
    BY <2>1 DEF IndInv, FileUnchanged, fileVars
  <2>6. SomebodyListed'
    <3>1. DOMAIN list # {}
      BY <1>4 DEF judge_update_node_is_same
    <3>2. QED
      BY <1>1, <3>1 DEF SomebodyListed
  <2>7. OnlyAwaitedFrames'
    BY <1>4 DEF OnlyAwaitedFrames, NoMsg, Msg
  <2>8. QED
    BY <1>1, <2>2, <2>3, <2>4, <2>5, <2>6, <2>7
<1>5. QED
  BY <1>3, <1>4 DEF JudgeAndFinish

\* What the history records of a reply.
LEMMA RecordLemma ==
  ASSUME TypeOK, NEW src \in Addr, NEW accepted \in BOOLEAN, Record(src, accepted)
  PROVE  /\ OnlyCurrentAcked
         /\ \A a \in Addr : a # src \/ ~accepted => acked'[a] = acked[a]
         /\ accepted /\ src \in goal => CurPos \in acked'[src]
<1>1. CurPos \in Positions
  BY CurPosLemma
<1>2. CASE accepted /\ src \in goal
  BY <1>1, <1>2 DEF Record, OnlyCurrentAcked, TypeOK
<1>3. CASE ~(accepted /\ src \in goal)
  BY <1>3 DEF Record, OnlyCurrentAcked, TypeOK
<1>4. QED
  BY <1>2, <1>3

-----------------------------------------------------------------------------
(***************************************************************************)
(* One lemma for each kind of step.                                        *)
(***************************************************************************)

\* A reply outside its own step, an idle poll, a stop: the machine, the list
\* and the history are left alone and nothing is sent.
LEMMA QuietLemma ==
  ASSUME IndInv, tx' = NoMsg,
         UNCHANGED <<machineVars, fileVars, historyVars, listVars, lastMsg>>,
         timerOn' \in BOOLEAN, buttonsEnabled' \in BOOLEAN
  PROVE  IndInv'
<1> USE DEF machineVars, fileVars, historyVars, listVars, IndInv
<1>1. TypeOK'
  BY DEF TypeOK, Msgs, NoMsg, Msg
<1>2. PositionsAcked' /\ Lockstep' /\ AckedPast'
  BY DEF PositionsAcked, Lockstep, AckedPast
<1>3. AckedCounted'
  BY DEF AckedCounted, CurPos
<1>4. StepOffsets' /\ SomebodyListed' /\ ListedAreTargets' /\ BufferCurrent' /\ FileUnchanged'
  BY DEF StepOffsets, SomebodyListed, ListedAreTargets, BufferCurrent, FileUnchanged
<1>5. Accounted' /\ OnlyAwaitedFrames'
  BY DEF Accounted, OnlyAwaitedFrames, NoMsg, Msg
<1>6. QED
  BY <1>1, <1>2, <1>3, <1>4, <1>5

LEMMA IgnoredLemma ==
  ASSUME IndInv, NEW step, recv_ignored(step)
  PROVE  IndInv'
BY QuietLemma DEF recv_ignored, pageVars, IndInv, TypeOK

\* The list that a positive or negative reply of `src` leaves is one that
\* JudgeLemma can be applied to.
LEMMA RepliedList ==
  ASSUME IndInv, curStep # IDLE, NEW src \in Addr, NEW accepted \in BOOLEAN,
         Record(src, accepted),
         NEW list, list = IF accepted THEN set_update_node_process(node, src, CurPos) ELSE node
  PROVE  /\ OnlyCurrentAcked
         /\ IsNodeList(list, Addr)
         /\ DOMAIN list = DOMAIN node
         /\ DOMAIN list # {}
         /\ \A a \in DOMAIN list :
              /\ list[a] = node[a] \/ (list[a] = CurPos /\ CurPos \in acked'[a])
              /\ CurPos \in acked'[a] => list[a] = CurPos
<1>1. /\ OnlyCurrentAcked
      /\ \A a \in Addr : a # src \/ ~accepted => acked'[a] = acked[a]
      /\ accepted /\ src \in goal => CurPos \in acked'[src]
  BY RecordLemma DEF IndInv
<1>2. DOMAIN node # {} /\ DOMAIN node \subseteq goal /\ DOMAIN node \subseteq Addr
  BY DEF IndInv, SomebodyListed, ListedAreTargets, TypeOK, IsNodeList
<1>3. \A a \in DOMAIN node : CurPos \in acked[a] => node[a] = CurPos
  BY DEF IndInv, AckedCounted
<1>4. CASE accepted
  <2>1. /\ IsNodeList(list, Addr)
        /\ DOMAIN list = DOMAIN node
        /\ \A a \in DOMAIN node : list[a] = IF a = src THEN CurPos ELSE node[a]
    BY <1>4, CurPosLemma, SetProcessLemma DEF IndInv, TypeOK
  <2>2. QED
    BY <1>1, <1>2, <1>3, <1>4, <2>1
<1>5. CASE ~accepted
  BY <1>1, <1>2, <1>3, <1>5 DEF IndInv, TypeOK
<1>6. QED
  BY <1>4, <1>5

\* What the parts give together.
LEMMA Assemble ==
  ASSUME IndInv, MachineTypeOK', AckInv', StepOffsets', SomebodyListed', BufferCurrent',
         FileUnchanged', OnlyAwaitedFrames', ListedAreTargets', Accounted',
         IsNodeList(node', Addr), acked' \in [Addr -> SUBSET Positions],
         UNCHANGED <<fileVars, starts, goal>>,
         timerOn' \in BOOLEAN, buttonsEnabled' \in BOOLEAN,
         targets' \subseteq Addr, failed' \subseteq Addr, rejected' \subseteq Addr
  PROVE  IndInv'
<1>1. TypeOK'
  BY DEF IndInv, TypeOK, MachineTypeOK, fileVars
<1>2. QED
  BY <1>1 DEF IndInv, AckInv

LEMMA RecvOkLemma ==
  ASSUME IndInv, NEW step \in WaitSteps, NEW src \in Addr, NEW ok \in BOOLEAN,
         recv_ok_respond(step, src, ok)
  PROVE  IndInv'
<1> DEFINE list == IF ok THEN set_update_node_process(node, src, CurPos) ELSE node
<1>1. /\ curStep # IDLE
      /\ Record(src, ok)
      /\ JudgeAndFinish(list)
      /\ UNCHANGED <<fileVars, pageVars, targets, starts, goal, failed, rejected>>
  BY DEF recv_ok_respond
<1>2. /\ OnlyCurrentAcked
      /\ IsNodeList(list, Addr)
      /\ DOMAIN list = DOMAIN node
      /\ DOMAIN list # {}
      /\ \A a \in DOMAIN list :
           /\ list[a] = node[a] \/ (list[a] = CurPos /\ CurPos \in acked'[a])
           /\ CurPos \in acked'[a] => list[a] = CurPos
  BY <1>1, RepliedList
<1> HIDE DEF list
<1>3. /\ node' = list
      /\ AckInv' /\ MachineTypeOK' /\ StepOffsets' /\ SomebodyListed' /\ BufferCurrent'
      /\ FileUnchanged' /\ OnlyAwaitedFrames'
  BY <1>1, <1>2, JudgeLemma
<1>4. ListedAreTargets' /\ Accounted'
  BY <1>1, <1>2, <1>3 DEF IndInv, ListedAreTargets, Accounted
<1>5. QED
  BY <1>1, <1>2, <1>3, <1>4, Assemble DEF OnlyCurrentAcked, pageVars, IndInv, TypeOK

LEMMA RecvDataLemma ==
  ASSUME IndInv, NEW src \in Addr, NEW offset \in Offsets, recv_file_data_respond(src, offset)
  PROVE  IndInv'
<1> DEFINE accepted == offset = dataOffset
           list == IF accepted THEN set_update_node_process(node, src, CurPos) ELSE node
<1>1. CASE curStep = WAIT_DATA /\ Record(src, accepted) /\ JudgeAndFinish(list)
           /\ UNCHANGED <<fileVars, pageVars, targets, starts, goal, failed, rejected>>
  <2>1. accepted \in BOOLEAN /\ curStep # IDLE
    BY <1>1
  <2> HIDE DEF accepted
  <2>2. /\ OnlyCurrentAcked
        /\ IsNodeList(list, Addr)
        /\ DOMAIN list = DOMAIN node
        /\ DOMAIN list # {}
        /\ \A a \in DOMAIN list :
             /\ list[a] = node[a] \/ (list[a] = CurPos /\ CurPos \in acked'[a])
             /\ CurPos \in acked'[a] => list[a] = CurPos
    BY <1>1, <2>1, RepliedList
  <2> HIDE DEF list
  <2>3. /\ node' = list
        /\ AckInv' /\ MachineTypeOK' /\ StepOffsets' /\ SomebodyListed' /\ BufferCurrent'
        /\ FileUnchanged' /\ OnlyAwaitedFrames'
    BY <1>1, <2>1, <2>2, JudgeLemma
  <2>4. ListedAreTargets' /\ Accounted'
    BY <1>1, <2>2, <2>3 DEF IndInv, ListedAreTargets, Accounted
  <2>5. QED
    BY <1>1, <2>2, <2>3, <2>4, Assemble DEF OnlyCurrentAcked, pageVars, IndInv, TypeOK
<1>2. CASE recv_ignored(WAIT_DATA)
  BY <1>2, IgnoredLemma
<1>3. QED
  BY <1>1, <1>2 DEF recv_file_data_respond

LEMMA RecvCrcLemma ==
  ASSUME IndInv, NEW src \in Addr, NEW ok \in BOOLEAN, recv_crc_check_respond(src, ok)
  PROVE  IndInv'
<1> DEFINE list == IF ok THEN set_update_node_process(node, src, CurPos)
                         ELSE remove_update_node(node, src)
<1>1. CASE /\ curStep = WAIT_CRC
           /\ Record(src, ok)
           /\ rejected' = IF ok \/ src \notin DOMAIN node THEN rejected ELSE rejected \cup {src}
           /\ JudgeAndFinish(list)
           /\ UNCHANGED <<fileVars, pageVars, targets, starts, goal, failed>>
  <2>1. /\ OnlyCurrentAcked
        /\ IsNodeList(list, Addr)
        /\ DOMAIN list = IF ok THEN DOMAIN node ELSE DOMAIN node \ {src}
        /\ \A a \in DOMAIN list :
             /\ list[a] = node[a] \/ (list[a] = CurPos /\ CurPos \in acked'[a])
             /\ CurPos \in acked'[a] => list[a] = CurPos
    <3>1. CASE ok
      <4>1. list = IF ok THEN set_update_node_process(node, src, CurPos) ELSE node
        BY <3>1
      <4>2. Record(src, ok) /\ curStep # IDLE
        BY <1>1
      <4> HIDE DEF list
      <4>3. QED
        BY <3>1, <4>1, <4>2, RepliedList
    <3>2. CASE ~ok
      <4>1. OnlyCurrentAcked /\ \A a \in Addr : acked'[a] = acked[a]
        BY <1>1, <3>2, RecordLemma DEF IndInv
      <4>2. /\ IsNodeList(list, Addr)
            /\ DOMAIN list = DOMAIN node \ {src}
            /\ \A a \in DOMAIN list : list[a] = node[a]
        BY <3>2, RemoveNodeLemma DEF IndInv, TypeOK
      <4>3. \A a \in DOMAIN list : CurPos \in acked[a] => list[a] = CurPos
        BY <1>1, <4>2 DEF IndInv, AckedCounted
      <4>4. QED
        BY <3>2, <4>1, <4>2, <4>3 DEF IsNodeList
    <3>3. QED
      BY <3>1, <3>2
  <2> HIDE DEF list
  <2>2. /\ node' = list
        /\ AckInv' /\ MachineTypeOK' /\ StepOffsets' /\ SomebodyListed' /\ BufferCurrent'
        /\ FileUnchanged' /\ OnlyAwaitedFrames'
    BY <1>1, <2>1, JudgeLemma
  <2>3. ListedAreTargets' /\ Accounted'
    BY <1>1, <2>1, <2>2 DEF IndInv, ListedAreTargets, Accounted
  <2>4. rejected' \subseteq Addr
    BY <1>1 DEF IndInv, TypeOK
  <2>5. QED
    BY <1>1, <2>1, <2>2, <2>3, <2>4, Assemble DEF OnlyCurrentAcked, pageVars, IndInv, TypeOK
<1>2. CASE recv_ignored(WAIT_CRC)
  BY <1>2, IgnoredLemma
<1>3. QED
  BY <1>1, <1>2 DEF recv_crc_check_respond

LEMMA PollResendLemma ==
  ASSUME IndInv, PollResend
  PROVE  IndInv'
<1> USE DEF PollResend, fileVars, historyVars, listVars, slotUpdataProgress
<1>1. MachineTypeOK' /\ timerOn' \in BOOLEAN /\ buttonsEnabled' \in BOOLEAN
  BY DEF IndInv, TypeOK, MachineTypeOK
<1>2. PositionsAcked' /\ Lockstep' /\ AckedPast'
  BY DEF IndInv, PositionsAcked, Lockstep, AckedPast
<1>3. AckedCounted'
  BY DEF IndInv, AckedCounted, CurPos
<1>4. StepOffsets' /\ SomebodyListed' /\ ListedAreTargets' /\ BufferCurrent' /\ FileUnchanged'
  BY DEF IndInv, StepOffsets, SomebodyListed, ListedAreTargets, BufferCurrent, FileUnchanged
<1>5. Accounted' /\ OnlyAwaitedFrames'
  BY DEF IndInv, Accounted, OnlyAwaitedFrames, BufferCurrent
<1>6. QED
  BY <1>1, <1>2, <1>3, <1>4, <1>5, Assemble DEF AckInv, IndInv, TypeOK

\* What is left of the list after the last timeout is at the position the
\* master waits for: a stale step offset empties the list.
LEMMA LeftLemma ==
  ASSUME IndInv, curStep # IDLE,
         NEW left, left = remove_update_node_diff(node, At(curStep, stepOffset[curStep]))
  PROVE  /\ IsNodeList(left, Addr)
         /\ DOMAIN left \subseteq DOMAIN node
         /\ \A a \in DOMAIN node \ DOMAIN left :
              node[a] # At(curStep, stepOffset[curStep])
         /\ \A a \in DOMAIN left : left[a] = CurPos /\ CurPos \in acked[a]
<1>1. /\ IsNodeList(left, Addr)
      /\ DOMAIN left = {a \in DOMAIN node : node[a] = At(curStep, stepOffset[curStep])}
      /\ \A a \in DOMAIN left : left[a] = node[a]
  <2>1. IsNodeList(node, Addr)
    BY DEF IndInv, TypeOK
  <2> DEFINE pos == At(curStep, stepOffset[curStep])
  <2>2. left = remove_update_node_diff(node, pos)
    OBVIOUS
  <2> HIDE DEF pos
  <2>3. /\ IsNodeList(left, Addr)
        /\ DOMAIN left = {a \in DOMAIN node : node[a] = pos}
        /\ \A a \in DOMAIN left : left[a] = node[a]
    BY <2>1, <2>2, RemoveDiffLemma
  <2>4. QED
    BY <2>3 DEF pos
<1>2. ASSUME NEW a \in DOMAIN left
      PROVE  left[a] = CurPos /\ CurPos \in acked[a]
  <2>1. a \in DOMAIN node /\ a \in Addr /\ node[a] = At(curStep, stepOffset[curStep])
    BY <1>1 DEF IsNodeList
  <2>2. node[a] \in acked[a]
    BY <2>1 DEF IndInv, PositionsAcked, At
  <2>3. CASE curStep # WAIT_DATA
    BY <1>1, <2>1, <2>2, <2>3 DEF IndInv, StepOffsets, TypeOK, CurPos
  <2>4. CASE curStep = WAIT_DATA
    <3>1. stepOffset[curStep] <= dataOffset
      BY <2>1, <2>2, <2>4 DEF IndInv, AckedPast, At
    <3>2. stepOffset[curStep] = dataOffset
      BY <2>4, <3>1 DEF IndInv, StepOffsets, TypeOK
    <3>3. QED
      BY <1>1, <2>1, <2>2, <2>4, <3>2 DEF CurPos
  <2>5. QED
    BY <2>3, <2>4
<1>3. QED
  BY <1>1, <1>2

LEMMA PollGiveUpLemma ==
  ASSUME IndInv, PollGiveUp
  PROVE  IndInv'
<1> DEFINE left == remove_update_node_diff(node, At(curStep, stepOffset[curStep]))
<1>1. /\ curStep # IDLE
      /\ node' = left
      /\ targets' = targets \cap DOMAIN left
      /\ failed' = failed \cup (targets \ DOMAIN left)
      /\ UNCHANGED <<fileVars, starts, goal, acked, rejected>>
  BY DEF PollGiveUp, file_master_update_check, update_node_is_exist
<1>2. /\ IsNodeList(left, Addr)
      /\ DOMAIN left \subseteq DOMAIN node
      /\ \A a \in DOMAIN left : left[a] = CurPos /\ CurPos \in acked[a]
  BY <1>1, LeftLemma
<1>3. \/ /\ DOMAIN left = {}
         /\ file_master_state_machine_switch(curStep, IDLE, 0)
         /\ tx' = NoMsg
         /\ UNCHANGED <<lastMsg, dataOffset, progressFull>>
         /\ slotUpdataProgress(TRUE)
      \/ /\ DOMAIN left # {}
         /\ finish_handle
         /\ slotUpdataProgress(FALSE)
  BY DEF PollGiveUp
<1> HIDE DEF left
<1>4. ListedAreTargets' /\ Accounted'
  BY <1>1, <1>2 DEF IndInv, ListedAreTargets, Accounted
<1>5. OnlyCurrentAcked
  BY <1>1 DEF IndInv, TypeOK, OnlyCurrentAcked
<1>6. timerOn' \in BOOLEAN /\ buttonsEnabled' \in BOOLEAN
  BY <1>3 DEF slotUpdataProgress
<1>7. /\ AckInv' /\ MachineTypeOK' /\ StepOffsets' /\ SomebodyListed' /\ BufferCurrent'
      /\ FileUnchanged' /\ OnlyAwaitedFrames'
  <2>1. CASE /\ DOMAIN left = {}
             /\ file_master_state_machine_switch(curStep, IDLE, 0)
             /\ tx' = NoMsg
             /\ UNCHANGED <<lastMsg, dataOffset, progressFull>>
    <3> USE <1>1, <2>1 DEF file_master_state_machine_switch, IndInv
    <3>1. AckInv'
      BY DEF AckInv, PositionsAcked, AckedPast, AckedCounted, Lockstep
    <3>2. MachineTypeOK' /\ OnlyAwaitedFrames'
      BY DEF MachineTypeOK, TypeOK, OnlyAwaitedFrames, NoMsg, Msg, Msgs
    <3>3. StepOffsets' /\ SomebodyListed' /\ BufferCurrent'
      BY DEF StepOffsets, SomebodyListed, BufferCurrent, TypeOK
    <3>4. FileUnchanged'
      BY DEF FileUnchanged, fileVars
    <3>5. QED
      BY <3>1, <3>2, <3>3, <3>4
  <2>2. CASE DOMAIN left # {} /\ finish_handle
    <3>1. /\ Moves
          /\ MachineTypeOK' /\ StepOffsets' /\ BufferCurrent'
          /\ FileUnchanged' /\ OnlyAwaitedFrames'
      BY <1>1, <2>2, FinishLemma DEF IndInv
    <3>2. AckInv'
      BY <1>1, <1>2, <1>5, <3>1, AdvanceLemma DEF IndInv, AckInv, MachineTypeOK
    <3>3. SomebodyListed'
      BY <1>1, <2>2 DEF SomebodyListed
    <3>4. QED
      BY <3>1, <3>2, <3>3
  <2>3. QED
    BY <1>3, <2>1, <2>2
<1>8. targets' \subseteq Addr /\ failed' \subseteq Addr
  BY <1>1 DEF IndInv, TypeOK
<1>9. QED
  BY <1>1, <1>2, <1>4, <1>5, <1>6, <1>7, <1>8, Assemble DEF OnlyCurrentAcked, IndInv, TypeOK

LEMMA StartLemma ==
  ASSUME IndInv, NEW addrs \in SUBSET Addr, NEW n \in Lens, StartButton(addrs, n)
  PROVE  IndInv'
<1> USE TransferAssumption DEF TransferAssumption, StartButton, msg_send,
        file_master_state_machine_switch
<1>1. /\ IsNodeList(node', Addr)
      /\ DOMAIN node' = addrs
      /\ \A a \in addrs : node'[a] = At(IDLE, 0)
  BY NewListLemma
<1>2. TypeOK'
  <2>1. n \in Nat /\ starts' \in 0 .. MaxStarts
    BY DEF IndInv, TypeOK
  <2>2. MachineTypeOK'
    BY DEF IndInv, TypeOK, MachineTypeOK, Msg, Msgs, MsgIds
  <2>3. acked' \in [Addr -> SUBSET Positions]
    OBVIOUS
  <2>4. QED
    BY <1>1, <2>1, <2>2, <2>3 DEF TypeOK, MachineTypeOK
<1>3. PositionsAcked' /\ Lockstep' /\ AckedPast' /\ AckedCounted'
  BY <1>1 DEF PositionsAcked, Lockstep, AckedPast, AckedCounted, IsNodeList
<1>4. StepOffsets'
  BY DEF IndInv, TypeOK, StepOffsets
<1>5. SomebodyListed' /\ ListedAreTargets' /\ Accounted'
  BY <1>1 DEF SomebodyListed, ListedAreTargets, Accounted
<1>6. BufferCurrent' /\ FileUnchanged' /\ OnlyAwaitedFrames'
  BY DEF BufferCurrent, FileUnchanged, OnlyAwaitedFrames, Msg
<1>7. QED
  BY <1>2, <1>3, <1>4, <1>5, <1>6 DEF IndInv

\* Buttons other than start: the machine, the list and the history stay.
LEMMA ButtonLemma ==
  ASSUME IndInv,
         \/ \E n \in Lens : OpenButton(n)
         \/ StopButton
         \/ ManualSend("CRC")
         \/ ManualSend("START")
  PROVE  IndInv'
<1>1. ASSUME NEW n \in Lens, OpenButton(n)
      PROVE  IndInv'
  <2> USE <1>1 DEF OpenButton, machineVars, pageVars, historyVars, listVars, IndInv
  <2>1. TypeOK'
    BY TransferAssumption DEF TransferAssumption, TypeOK, Msgs, NoMsg, Msg
  <2>2. PositionsAcked' /\ Lockstep' /\ AckedPast' /\ AckedCounted'
    BY DEF PositionsAcked, Lockstep, AckedPast, AckedCounted, CurPos
  <2>3. StepOffsets' /\ SomebodyListed' /\ ListedAreTargets' /\ BufferCurrent' /\ FileUnchanged'
    BY DEF StepOffsets, SomebodyListed, ListedAreTargets, BufferCurrent, FileUnchanged
  <2>4. Accounted' /\ OnlyAwaitedFrames'
    BY DEF Accounted, OnlyAwaitedFrames, NoMsg, Msg
  <2>5. QED
    BY <2>1, <2>2, <2>3, <2>4
<1>2. CASE StopButton
  BY <1>2, QuietLemma DEF StopButton
<1>3. ASSUME NEW id \in {"CRC", "START"}, ManualSend(id)
      PROVE  IndInv'
  <2> USE <1>3 DEF ManualSend, msg_send, Msg, machineVars, fileVars, pageVars, historyVars,
                   listVars, IndInv
  <2>1. TypeOK'
    BY DEF TypeOK, Msgs, MsgIds
  <2>2. PositionsAcked' /\ Lockstep' /\ AckedPast' /\ AckedCounted'
    BY DEF PositionsAcked, Lockstep, AckedPast, AckedCounted, CurPos
  <2>3. StepOffsets' /\ SomebodyListed' /\ ListedAreTargets' /\ BufferCurrent' /\ FileUnchanged'
    BY DEF StepOffsets, SomebodyListed, ListedAreTargets, BufferCurrent, FileUnchanged
  <2>4. Accounted' /\ OnlyAwaitedFrames'
    BY DEF Accounted, OnlyAwaitedFrames
  <2>5. QED
    BY <2>1, <2>2, <2>3, <2>4
<1>4. QED
  BY <1>1, <1>2, <1>3

-----------------------------------------------------------------------------
LEMMA InitInv == Init => IndInv
<1> SUFFICES ASSUME Init PROVE IndInv
  OBVIOUS
<1> USE DEF Init, clr_update_root
<1>1. TypeOK
  <2>1. fileLen \in Nat /\ starts \in 0 .. MaxStarts
    BY TransferAssumption DEF TransferAssumption
  <2>2. MachineTypeOK
    BY DEF MachineTypeOK, Msgs, Msg, NoMsg
  <2>3. IsNodeList(node, Addr) /\ acked \in [Addr -> SUBSET Positions]
    BY DEF IsNodeList
  <2>4. QED
    BY <2>1, <2>2, <2>3 DEF TypeOK, MachineTypeOK
<1>2. PositionsAcked /\ AckedPast /\ AckedCounted /\ StepOffsets /\ SomebodyListed
  BY DEF PositionsAcked, AckedPast, AckedCounted, StepOffsets, SomebodyListed
<1>3. ListedAreTargets /\ BufferCurrent /\ FileUnchanged /\ Lockstep /\ Accounted
  BY DEF ListedAreTargets, BufferCurrent, FileUnchanged, Lockstep, Accounted
<1>4. OnlyAwaitedFrames
  BY DEF OnlyAwaitedFrames, NoMsg, Msg
<1>5. QED
  BY <1>1, <1>2, <1>3, <1>4 DEF IndInv

LEMMA StepInv == IndInv /\ [Next]_vars => IndInv'
<1> SUFFICES ASSUME IndInv, [Next]_vars PROVE IndInv'
  OBVIOUS
<1>1. CASE PollQuiet
  BY <1>1, QuietLemma DEF PollQuiet, slotUpdataProgress
<1>2. CASE PollResend
  BY <1>2, PollResendLemma
<1>3. CASE PollGiveUp
  BY <1>3, PollGiveUpLemma
<1>4. CASE Replies
  <2>1. ASSUME NEW src \in Addr, NEW ok \in BOOLEAN,
               \/ recv_update_cmd_respond(src, ok)
               \/ recv_file_info_respond(src, ok)
               \/ recv_crc_check_respond(src, ok)
        PROVE  IndInv'
    BY <2>1, RecvOkLemma, RecvCrcLemma, IgnoredLemma
       DEF recv_update_cmd_respond, recv_file_info_respond
  <2>2. ASSUME NEW src \in Addr, NEW offset \in Offsets, recv_file_data_respond(src, offset)
        PROVE  IndInv'
    BY <2>2, RecvDataLemma
  <2>3. QED
    BY <1>4, <2>1, <2>2 DEF Replies
<1>5. CASE Operator
  BY <1>5, StartLemma, ButtonLemma DEF Operator
<1>6. CASE UNCHANGED vars
  <2> USE <1>6 DEF vars, machineVars, fileVars, pageVars, historyVars, listVars, msgVars, IndInv
  <2>1. TypeOK' /\ PositionsAcked' /\ Lockstep' /\ AckedPast' /\ AckedCounted'
    BY DEF TypeOK, PositionsAcked, Lockstep, AckedPast, AckedCounted, CurPos
  <2>2. StepOffsets' /\ SomebodyListed' /\ ListedAreTargets' /\ BufferCurrent' /\ FileUnchanged'
    BY DEF StepOffsets, SomebodyListed, ListedAreTargets, BufferCurrent, FileUnchanged
  <2>3. Accounted' /\ OnlyAwaitedFrames'
    BY DEF Accounted, OnlyAwaitedFrames
  <2>4. QED
    BY <2>1, <2>2, <2>3
<1>7. QED
  BY <1>1, <1>2, <1>3, <1>4, <1>5, <1>6 DEF Next, Poll

\* The inductive invariant holds in every reachable state.
THEOREM Invariant == Spec => []IndInv
<1>1. Init => IndInv
  BY InitInv
<1>2. IndInv /\ [Next]_vars => IndInv'
  BY StepInv
<1>3. QED
  BY <1>1, <1>2, PTL DEF Spec

\* Type correctness.
THEOREM TypeCorrect == Spec => []TypeOK
<1>1. IndInv => TypeOK
  BY DEF IndInv
<1>2. QED
  BY <1>1, Invariant, PTL

\* The master never gets ahead of a node it still lists.
THEOREM LockstepHolds == Spec => []Lockstep
<1>1. IndInv => Lockstep
  BY DEF IndInv
<1>2. QED
  BY <1>1, Invariant, PTL

\* No address of a transfer is lost.
THEOREM AccountedHolds == Spec => []Accounted
<1>1. IndInv => Accounted
  BY DEF IndInv
<1>2. QED
  BY <1>1, Invariant, PTL

\* No frame of an earlier step is sent again.
THEOREM OnlyAwaitedFramesHolds == Spec => []OnlyAwaitedFrames
<1>1. IndInv => OnlyAwaitedFrames
  BY DEF IndInv
<1>2. QED
  BY <1>1, Invariant, PTL

\* The check follows the announced number of blocks.
THEOREM WholeFileSentHolds == Spec => []WholeFileSent
<1>1. IndInv => WholeFileSent
  BY DEF IndInv, FileUnchanged, WholeFileSent
<1>2. QED
  BY <1>1, Invariant, PTL

-----------------------------------------------------------------------------
(***************************************************************************)
(* What no step of the master does, and that every step of it is one of    *)
(* the abstract GroupTransfer.                                             *)
(***************************************************************************)
\* What a reply that is not ignored does to the list: the entry of its sender
\* moves to the awaited position, or its sender leaves, or nothing.
Answered(src, list) ==
  \/ list = set_update_node_process(node, src, CurPos)
  \/ list = node
  \/ curStep = WAIT_CRC /\ list = remove_update_node(node, src)

Answers(src) ==
  /\ curStep # IDLE
  /\ \E list : Answered(src, list) /\ JudgeAndFinish(list)
  /\ UNCHANGED <<fileVars, failed, goal>>

\* What the steps that are neither replies, nor timeouts, nor starts change.
Keeps == UNCHANGED <<curStep, dataOffset, node, failed>>

LEMMA NextCases ==
  ASSUME [Next]_vars
  PROVE  \/ \E src \in Addr : Answers(src)
         \/ PollGiveUp
         \/ \E addrs \in SUBSET Addr, n \in Lens : StartButton(addrs, n)
         \/ Keeps
<1>1. ASSUME NEW step, recv_ignored(step)
      PROVE  Keeps
  BY <1>1 DEF recv_ignored, machineVars, listVars, historyVars, Keeps
<1>2. ASSUME NEW step \in WaitSteps, NEW src \in Addr, NEW ok \in BOOLEAN,
             recv_ok_respond(step, src, ok)
      PROVE  Answers(src)
  BY <1>2 DEF recv_ok_respond, Answers, Answered
<1>3. ASSUME NEW src \in Addr, NEW ok \in BOOLEAN, recv_crc_check_respond(src, ok), ~Keeps
      PROVE  Answers(src)
  BY <1>1, <1>3 DEF recv_crc_check_respond, Answers, Answered
<1>4. ASSUME NEW src \in Addr, NEW offset \in Offsets, recv_file_data_respond(src, offset), ~Keeps
      PROVE  Answers(src)
  BY <1>1, <1>4 DEF recv_file_data_respond, Answers, Answered
<1>5. CASE Replies
  BY <1>1, <1>2, <1>3, <1>4, <1>5 DEF Replies, recv_update_cmd_respond, recv_file_info_respond
<1>6. CASE PollQuiet \/ PollResend
  BY <1>6 DEF PollQuiet, PollResend, machineVars, listVars, historyVars, Keeps
<1>7. CASE Operator
  BY <1>7 DEF Operator, OpenButton, StopButton, ManualSend, machineVars, listVars, historyVars, Keeps
<1>8. CASE UNCHANGED vars
  BY <1>8 DEF vars, machineVars, listVars, historyVars, Keeps
<1>9. QED
  BY <1>5, <1>6, <1>7, <1>8 DEF Next, Poll

\* The list after a reply.
LEMMA AnsweredLemma ==
  ASSUME IndInv, NEW src \in Addr, NEW list, Answered(src, list)
  PROVE  /\ DOMAIN list \subseteq DOMAIN node
         /\ \A a \in DOMAIN list : list[a] = CurPos \/ list[a] = node[a]
         /\ \A a \in DOMAIN list : a # src => list[a] = node[a]
         /\ \/ src \in DOMAIN node /\ DOMAIN list = DOMAIN node /\ list[src] = CurPos
            \/ list = node
            \/ src \in DOMAIN node /\ DOMAIN list = DOMAIN node \ {src} /\ curStep = WAIT_CRC
<1>1. CurPos \in Positions /\ IsNodeList(node, Addr)
  BY CurPosLemma DEF IndInv, TypeOK
<1>2. CASE list = set_update_node_process(node, src, CurPos)
  <2>1. /\ DOMAIN list = DOMAIN node
        /\ \A a \in DOMAIN node : list[a] = IF a = src THEN CurPos ELSE node[a]
    BY <1>1, <1>2, SetProcessLemma
  <2>2. CASE src \in DOMAIN node
    BY <2>1, <2>2
  <2>3. CASE src \notin DOMAIN node
    <3>1. list = node
      BY <1>1, <1>2, <2>3 DEF set_update_node_process, IsNodeList
    <3>2. QED
      BY <3>1
  <2>4. QED
    BY <2>2, <2>3
<1>3. CASE curStep = WAIT_CRC /\ list = remove_update_node(node, src)
  <2>1. IsNodeList(node, Addr) /\ list = remove_update_node(node, src)
    BY <1>1, <1>3
  <2>2. /\ DOMAIN list = DOMAIN node \ {src}
        /\ \A a \in DOMAIN list : list[a] = node[a]
    BY ONLY <2>1, RemoveNodeLemma
  <2>3. CASE src \in DOMAIN node
    BY <1>3, <2>2, <2>3
  <2>4. CASE src \notin DOMAIN node
    <3>1. list = node
      BY <1>1, <1>3, <2>4 DEF remove_update_node, Restrict, IsNodeList
    <3>2. QED
      BY <3>1
  <2>5. QED
    BY <2>3, <2>4
<1>4. QED
  BY <1>2, <1>3 DEF Answered

-----------------------------------------------------------------------------
(***************************************************************************)
(* Action properties.                                                      *)
(***************************************************************************)

\* A transfer ends as a finished one only with every address accounted for.
THEOREM VerifiedAtEndHolds == Spec => VerifiedAtEnd
<1> DEFINE Verified ==
      curStep = WAIT_CRC /\ curStep' = IDLE =>
        \A a \in goal : \/ At(WAIT_CRC, 0) \in acked'[a]
                        \/ a \in failed' \cup rejected'
<1>1. ASSUME IndInv, [Next]_vars PROVE Verified
  <2> SUFFICES ASSUME curStep = WAIT_CRC, curStep' = IDLE PROVE Verified
    OBVIOUS
  <2>1. CurPos = At(WAIT_CRC, 0) /\ CurPos # At(IDLE, 0)
    BY DEF CurPos, At
  <2>2. /\ goal' = DOMAIN node' \cup failed' \cup rejected'
        /\ \A a \in DOMAIN node' : node'[a] = At(IDLE, 0) \/ node'[a] \in acked'[a]
    BY <1>1, StepInv DEF IndInv, Accounted, PositionsAcked
  <2>3. ASSUME NEW src \in Addr, Answers(src)
        PROVE  goal' = goal /\ \A a \in DOMAIN node' : node'[a] = CurPos
    BY <2>3 DEF Answers, JudgeAndFinish, judge_update_node_is_same, machineVars
  <2>4. CASE PollGiveUp
    <3>1. goal' = goal /\ node' = remove_update_node_diff(node, At(curStep, stepOffset[curStep]))
      BY <2>4 DEF PollGiveUp
    <3>2. \A a \in DOMAIN node' : node'[a] = CurPos
      BY <1>1, <3>1, LeftLemma
    <3>3. QED
      BY <2>1, <2>2, <3>1, <3>2
  <2>5. ASSUME NEW addrs \in SUBSET Addr, NEW n \in Lens, StartButton(addrs, n)
        PROVE  FALSE
    BY <2>5 DEF StartButton, file_master_state_machine_switch
  <2>6. CASE Keeps
    BY <2>6 DEF Keeps
  <2>7. QED
    BY <1>1, <2>1, <2>2, <2>3, <2>4, <2>5, <2>6, NextCases
<1>2. QED
  BY <1>1, Invariant, PTL DEF Spec, VerifiedAtEnd

\* Past the first block only nodes that did not answer are dropped.
THEOREM OnlySilentNodesRemovedLaterHolds == Spec => OnlySilentNodesRemovedLater
<1> DEFINE Silent ==
      curStep # WAIT_DATA \/ dataOffset > 0 =>
        \A a \in DOMAIN node \cap failed' : CurPos \notin acked[a]
<1>1. ASSUME IndInv, [Next]_vars PROVE Silent
  <2> SUFFICES ASSUME curStep # WAIT_DATA \/ dataOffset > 0,
                      NEW a \in DOMAIN node, a \in failed'
               PROVE  CurPos \notin acked[a]
    OBVIOUS
  <2>1. a \notin failed
    BY <1>1 DEF IndInv, Accounted
  <2>2. CASE PollGiveUp
    <3> DEFINE left == remove_update_node_diff(node, At(curStep, stepOffset[curStep]))
    <3>1. curStep # IDLE /\ a \notin DOMAIN left
      BY <2>1, <2>2 DEF PollGiveUp, file_master_update_check, update_node_is_exist
    <3>2. node[a] # At(curStep, stepOffset[curStep])
      <4> HIDE DEF left
      <4>1. left = remove_update_node_diff(node, At(curStep, stepOffset[curStep]))
        BY DEF left
      <4>2. QED
        BY <1>1, <3>1, <4>1, LeftLemma
    <3>3. At(curStep, stepOffset[curStep]) = CurPos
      BY <1>1, <3>1 DEF IndInv, TypeOK, StepOffsets, CurPos
    <3>4. QED
      BY <1>1, <3>1, <3>2, <3>3 DEF IndInv, AckedCounted
  <2>3. QED
    BY <1>1, <2>1, <2>2, NextCases DEF Answers, StartButton, Keeps
<1>2. QED
  BY <1>1, Invariant, PTL DEF Spec, OnlySilentNodesRemovedLater

-----------------------------------------------------------------------------
(***************************************************************************)
(* Refinement: the initial state and every step map to GroupTransfer.      *)
(***************************************************************************)
LEMMA PhaseLemma ==
  /\ PhaseName[IDLE] = "idle"
  /\ PhaseName[WAIT_CMD] = "command"
  /\ PhaseName[WAIT_INFO] = "info"
  /\ PhaseName[WAIT_DATA] = "block"
  /\ PhaseName[WAIT_CRC] = "check"
BY DEF PhaseName

\* A step that does not touch the machine and the list is a stutter.
LEMMA KeepsMaps ==
  ASSUME Keeps
  PROVE  UNCHANGED Group!vars
BY DEF Keeps, Group!vars, CurPos, Counted

\* Going on with nodes that are all at the awaited position, all but `src`
\* already before the step, is an Advance.
LEMMA AdvanceMaps ==
  ASSUME IndInv, curStep # IDLE, Moves,
         NEW src,
         DOMAIN node' \subseteq DOMAIN node,
         DOMAIN node' # {} \/ curStep = WAIT_CRC,
         \A a \in DOMAIN node' : node'[a] = CurPos /\ (a = src \/ node[a] = CurPos)
  PROVE  Group!Advance(DOMAIN node')
<1>1. \A a \in DOMAIN node' : a = src \/ a \in Counted
  BY DEF Counted
<1>2. \E last \in DOMAIN node : DOMAIN node' \subseteq Counted \cup {last}
  <2>1. CASE src \in DOMAIN node
    BY <1>1, <2>1
  <2>2. CASE src \notin DOMAIN node
    BY <1>1, <2>2 DEF IndInv, SomebodyListed
  <2>3. QED
    BY <2>1, <2>2
<1>3. DOMAIN node' # {} \/ PhaseName[curStep] = "check"
  BY PhaseLemma
<1>4. curStep' # IDLE => CurPos' # CurPos
  BY DEF IndInv, TypeOK, Moves, CurPos, At
<1>5. Counted' = {}
  BY <1>4 DEF Counted
<1>6. Group!Following
  BY PhaseLemma DEF Group!Following, Moves, CurPos, At, IndInv, TypeOK
<1>7. QED
  BY <1>2, <1>3, <1>5, <1>6 DEF Group!Advance

LEMMA InitMaps == Init => Group!Init
BY PhaseLemma DEF Init, clr_update_root, CurPos, At, Counted, Group!Init

LEMMA StartMaps ==
  ASSUME NEW addrs \in SUBSET Addr, NEW n \in Lens, StartButton(addrs, n)
  PROVE  Group!Begin(addrs)
<1>1. /\ curStep' = WAIT_CMD
      /\ addrs # {}
      /\ DOMAIN node' = addrs
      /\ \A a \in addrs : node'[a] = At(IDLE, 0)
  BY NewListLemma DEF StartButton, file_master_state_machine_switch
<1>2. CurPos' = At(WAIT_CMD, 0)
  BY <1>1 DEF CurPos
<1>3. Counted' = {}
  BY <1>1, <1>2 DEF Counted, At
<1>4. QED
  BY <1>1, <1>2, <1>3, PhaseLemma DEF Group!Begin, At

LEMMA GiveUpMaps ==
  ASSUME IndInv, PollGiveUp
  PROVE  Group!Abort \/ \E left \in SUBSET Addr : Group!Advance(left)
<1> DEFINE left == remove_update_node_diff(node, At(curStep, stepOffset[curStep]))
<1>1. /\ curStep # IDLE
      /\ node' = left
      /\ \/ DOMAIN left = {} /\ file_master_state_machine_switch(curStep, IDLE, 0)
         \/ DOMAIN left # {} /\ finish_handle
      /\ UNCHANGED fileVars
  BY DEF PollGiveUp
<1> HIDE DEF left
<1>2. /\ IsNodeList(left, Addr)
      /\ DOMAIN left \subseteq DOMAIN node
      /\ \A a \in DOMAIN left : left[a] = CurPos /\ node[a] = CurPos
  <2>1. left = remove_update_node_diff(node, At(curStep, stepOffset[curStep]))
    BY DEF left
  <2>2. /\ IsNodeList(left, Addr)
        /\ DOMAIN left \subseteq DOMAIN node
        /\ \A a \in DOMAIN left : left[a] = CurPos /\ CurPos \in acked[a]
    BY <1>1, <2>1, LeftLemma
  <2>3. QED
    BY <1>1, <2>2 DEF IndInv, AckedCounted
<1>3. CASE DOMAIN left = {} /\ file_master_state_machine_switch(curStep, IDLE, 0)
  <2>1. curStep \in Steps /\ curStep' = IDLE
    BY <1>3 DEF file_master_state_machine_switch, IndInv, TypeOK
  <2>2. PhaseName[curStep] # "idle" /\ PhaseName[curStep'] = "idle"
    BY <1>1, <2>1, PhaseLemma
  <2>3. DOMAIN node' = {} /\ Counted' = {} /\ CurPos'.offset = 0
    BY <1>1, <1>3, <2>1 DEF Counted, CurPos, At
  <2>4. QED
    BY <2>2, <2>3 DEF Group!Abort
<1>4. CASE DOMAIN left # {} /\ finish_handle
  <2>1. Moves
    BY <1>1, <1>4, FinishLemma DEF IndInv
  <2>2. Group!Advance(DOMAIN node')
    BY <1>1, <1>2, <1>4, <2>1, AdvanceMaps
  <2>3. DOMAIN node' \in SUBSET Addr
    BY <1>1, <1>2 DEF IsNodeList
  <2>4. QED
    BY <2>2, <2>3
<1>5. QED
  BY <1>1, <1>3, <1>4

LEMMA AnswerMaps ==
  ASSUME IndInv, NEW src \in Addr, Answers(src)
  PROVE  \/ Group!Ack(src) \/ Group!Reject(src)
         \/ \E left \in SUBSET Addr : Group!Advance(left)
         \/ UNCHANGED Group!vars
<1>1. PICK list : Answered(src, list) /\ JudgeAndFinish(list)
  BY DEF Answers
<1>2. node' = list /\ curStep # IDLE /\ UNCHANGED fileVars
  BY <1>1 DEF Answers, JudgeAndFinish
<1>3. /\ DOMAIN list \subseteq DOMAIN node
      /\ \A a \in DOMAIN list : a # src => list[a] = node[a]
      /\ \/ src \in DOMAIN node /\ DOMAIN list = DOMAIN node /\ list[src] = CurPos
         \/ list = node
         \/ src \in DOMAIN node /\ DOMAIN list = DOMAIN node \ {src} /\ curStep = WAIT_CRC
  BY <1>1, AnsweredLemma
<1>4. CASE judge_update_node_is_same(list, CurPos) /\ finish_handle
  <2>1. Moves
    BY <1>2, <1>4, FinishLemma DEF IndInv
  <2>2. \A a \in DOMAIN node' : node'[a] = CurPos /\ (a = src \/ node[a] = CurPos)
    BY <1>2, <1>3, <1>4 DEF judge_update_node_is_same
  <2>3. DOMAIN node' # {} \/ curStep = WAIT_CRC
    BY <1>2, <1>3 DEF IndInv, SomebodyListed
  <2>4. Group!Advance(DOMAIN node')
    BY <1>2, <1>3, <2>1, <2>2, <2>3, AdvanceMaps
  <2>5. DOMAIN node' \in SUBSET Addr
    BY <1>2, <1>3 DEF IndInv, TypeOK, IsNodeList
  <2>6. QED
    BY <2>4, <2>5
<1>5. CASE UNCHANGED machineVars
  <2>1. UNCHANGED <<PhaseName[curStep], CurPos>> /\ curStep' # IDLE
    BY <1>2, <1>5 DEF machineVars, CurPos
  <2>2. PhaseName[curStep] # "idle"
    BY <1>2, PhaseLemma DEF IndInv, TypeOK
  <2>3. CASE src \in DOMAIN node /\ DOMAIN list = DOMAIN node /\ list[src] = CurPos
    <3>1. Counted' = Counted \cup {src}
      BY <1>2, <1>3, <2>1, <2>3 DEF Counted
    <3>2. QED
      BY <1>2, <2>1, <2>2, <2>3, <3>1 DEF Group!Ack
  <2>4. CASE list = node
    BY <1>2, <2>1, <2>4 DEF Group!vars, Counted
  <2>5. CASE src \in DOMAIN node /\ DOMAIN list = DOMAIN node \ {src} /\ curStep = WAIT_CRC
    <3>1. Counted' = Counted \ {src}
      BY <1>2, <1>3, <2>1, <2>5 DEF Counted
    <3>2. QED
      BY <1>2, <2>1, <2>5, <3>1, PhaseLemma DEF Group!Reject
  <2>6. QED
    BY <1>3, <2>3, <2>4, <2>5
<1>6. QED
  BY <1>1, <1>4, <1>5 DEF JudgeAndFinish

\* The group file transfer implements the abstract group transfer.
THEOREM Refinement == Spec => ImplementsGroupTransfer
<1>1. Init => Group!Init
  BY InitMaps
<1>2. ASSUME IndInv, [Next]_vars PROVE [Group!Next]_Group!vars
  <2>1. ASSUME NEW src \in Addr, Answers(src) PROVE [Group!Next]_Group!vars
    BY <1>2, <2>1, AnswerMaps DEF Group!Next
  <2>2. CASE PollGiveUp
    BY <1>2, <2>2, GiveUpMaps DEF Group!Next
  <2>3. ASSUME NEW addrs \in SUBSET Addr, NEW n \in Lens, StartButton(addrs, n)
        PROVE  [Group!Next]_Group!vars
    BY <2>3, StartMaps DEF Group!Next
  <2>4. CASE Keeps
    BY <2>4, KeepsMaps
  <2>5. QED
    BY <1>2, <2>1, <2>2, <2>3, <2>4, NextCases
<1>3. QED
  BY <1>1, <1>2, Invariant, PTL DEF Spec, ImplementsGroupTransfer, Group!Spec
=============================================================================
