---------------------------- MODULE ParamsHandle ----------------------------
(***************************************************************************)
(* The parameter table of msg_signals/paramshandle.cpp and paramdata.cpp   *)
(* on top of the Modbus master, with the page PageParams that operates it. *)
(*                                                                         *)
(* The table is read in chunks of neighbouring parameters: the answer to   *)
(* the current chunk asks for the next one, and so does a timer of one     *)
(* second that no answer restarts.  It is written one parameter at a time  *)
(* by a timer of 10 ms, and an answered write is read back.  All of this   *)
(* runs in the GUI thread, one slot call, timer or button at a time.       *)
(***************************************************************************)
EXTENDS ModbusMaster

CONSTANTS
  Keys,      \* param_map.keys(): the addresses of the parameters, ascending
  Writable,  \* the parameters whose is_write is set
  AutoModes, \* what the operator may set the check box to
  MaxOps,    \* bound: how often the operator presses a button or a cell
  MaxSlots   \* bound: slot calls that may be waiting when the read timer fires

Count  == Len(Keys)
Params == {Keys[i] : i \in 1 .. Count}

ASSUME TableAssumption ==
  /\ Keys \in Seq(Nat) /\ Keys # <<>>
  /\ \A i, j \in 1 .. Len(Keys) : i < j => Keys[i] < Keys[j]
  /\ DOMAIN Width = Params
  /\ Writable \subseteq Params
  /\ AutoModes \subseteq BOOLEAN
  /\ MaxOps \in Nat
  /\ MaxSlots \in Nat

VARIABLES
  getIndex,     \* request_get_index
  requestAddr,  \* request_reg_addr
  getTimerOn,   \* request_get_timer.isActive()
  autoGet,      \* is_auto_get
  setIndex,     \* request_set_index
  setTimerOn,   \* request_set_timer.isActive()
  pending,      \* the parameters that show the false icon
  \* history
  ops,     \* how often the operator has acted
  asked,   \* the parameters asked for since the table was begun
  missed   \* the parameters whose last request was not sent, was dropped, or
           \* was lost with its answer

getVars == <<getIndex, requestAddr, getTimerOn, autoGet, asked>>
setVars == <<setIndex, setTimerOn>>
vars == <<masterVars, getVars, setVars, pending, ops, missed>>

\* request_reg_addr is not initialised.
Init ==
  /\ MasterInit
  /\ getIndex = 0
  /\ requestAddr \in Params \cup {Keys[Count] + 1}
  /\ getTimerOn = FALSE
  /\ autoGet = FALSE
  /\ setIndex = 0
  /\ setTimerOn = FALSE
  /\ pending = {}
  /\ ops = 0
  /\ asked = {}
  /\ missed = {}

-----------------------------------------------------------------------------
\* A read request for the parameters of a set, which may find the queue full.
Request(addr, len, params) ==
  /\ slot_request_read_reg(addr, len)
  /\ missed' = IF Len(readQueue) + Len(Pieces(addr, len)) <= QueueMax
               THEN missed \ params
               ELSE missed \cup params

\* Mutant: lets a parameter in that begins right behind the chunk.
ChunkOneMore(from) ==
  {i \in from + 1 .. Count : Keys[i] - Keys[from + 1] <= ChunkMax}

\* The places of the parameters that are asked for together.
Chunk(from) ==
  {i \in from + 1 .. Count : Keys[i] - Keys[from + 1] < ChunkMax}

\* Mutant: counts a parameter twice.
ask_chunk_skip(from, sofar) ==
  LET first == Keys[from + 1]
      these == {Keys[i] : i \in Chunk(from)}
  IN  \E last \in Chunk(from) :
        /\ \A i \in Chunk(from) : i <= last
        /\ requestAddr' = first
        /\ getIndex' = last + 1
        /\ asked' = sofar \cup these
        /\ pending' = pending \cup these
        /\ LET size == Keys[last] + Width[Keys[last]] - first
           IN  Request(first, IF size < ChunkMax THEN size ELSE ChunkMax, these)

ask_chunk(from, sofar) ==
  LET first == Keys[from + 1]
      these == {Keys[i] : i \in Chunk(from)}
  IN  \E last \in Chunk(from) :
        /\ \A i \in Chunk(from) : i <= last
        /\ requestAddr' = first
        /\ getIndex' = last
        /\ asked' = sofar \cup these
        /\ pending' = pending \cup these
        /\ LET size == Keys[last] + Width[Keys[last]] - first
           IN  Request(first, IF size < ChunkMax THEN size ELSE ChunkMax, these)

\* Mutant: begins again whether or not is_auto_get is set.
get_regs_always(auto, timer, index, sofar) ==
  /\ \/ index < Count /\ ask_chunk(index, sofar)
     \/ index >= Count /\ ask_chunk(0, {})
  /\ getTimerOn' = timer

\* With the flag, the timer and the index that the caller has set: ends after
\* the last parameter, or begins again when the table is read all the time.
request_get_regs(auto, timer, index, sofar) ==
  \/ /\ index < Count
     /\ ask_chunk(index, sofar)
     /\ getTimerOn' = timer
  \/ /\ index >= Count /\ auto
     /\ ask_chunk(0, {})
     /\ getTimerOn' = timer
  \/ /\ index >= Count /\ ~auto
     /\ getTimerOn' = FALSE
     /\ getIndex' = index
     /\ asked' = sofar
     /\ UNCHANGED <<requestAddr, pending, missed, readQueue>>

\* A parameter that is not writable loses its icon all the same.
slot_request_set_timeout(index) ==
  \/ /\ index < Count
     /\ LET p == Keys[index + 1]
        IN  /\ pending' = pending \cup {p}
            /\ \/ p \in Writable /\ slot_request_write_reg(p) /\ missed' = missed \ {p}
               \/ p \notin Writable /\ UNCHANGED writes /\ missed' = missed \cup {p}
     /\ setIndex' = index + 1
     /\ setTimerOn' = TRUE
  \/ /\ index >= Count
     /\ setTimerOn' = FALSE
     /\ setIndex' = index
     /\ UNCHANGED <<pending, missed, writes>>

-----------------------------------------------------------------------------
(***************************************************************************)
(* Timers and slot calls.                                                  *)
(***************************************************************************)
\* What the GUI thread's handlers leave to the other threads and to the bus.
otherVars == <<answerSem, threadVars, reads, answers, writeAnswers>>

GetTimeout ==
  /\ getTimerOn
  /\ Len(posted) <= MaxSlots
  /\ request_get_regs(autoGet, TRUE, getIndex, asked)
  /\ UNCHANGED <<otherVars, posted, writes, autoGet, setVars, ops>>

SetTimeout ==
  /\ setTimerOn
  /\ slot_request_set_timeout(setIndex)
  /\ UNCHANGED <<otherVars, posted, readQueue, getVars, ops>>

\* CommDbValue::sig_read_finish
slot_read_finish(r) ==
  /\ pending' = pending \ {r}
  /\ UNCHANGED <<readQueue, getVars, missed>>

\* CommDbValue::sig_write_finish: asks for the value and shows the true icon.
slot_write_finish(r) ==
  /\ Request(r, Width[r], {r})
  /\ pending' = pending \ {r}
  /\ UNCHANGED getVars

\* CommJ1939Db::sig_recv_read_reg
slot_respond_read_reg(addr) ==
  \/ /\ addr = requestAddr
     /\ request_get_regs(autoGet, getTimerOn, getIndex, asked)
     /\ UNCHANGED autoGet
  \/ /\ addr # requestAddr
     /\ UNCHANGED <<readQueue, getVars, pending, missed>>

Deliver ==
  /\ posted # <<>>
  /\ posted' = Tail(posted)
  /\ LET slot == Head(posted)
     IN  \/ slot.kind = "value" /\ slot_read_finish(slot.reg)
         \/ slot.kind = "written" /\ slot_write_finish(slot.reg)
         \/ slot.kind = "read" /\ slot_respond_read_reg(slot.reg)
  /\ UNCHANGED <<otherVars, writes, setVars, ops>>

-----------------------------------------------------------------------------
(***************************************************************************)
(* The operator.                                                           *)
(***************************************************************************)
get_param_table ==
  /\ request_get_regs(autoGet, TRUE, 0, {})
  /\ UNCHANGED <<otherVars, posted, writes, autoGet, setVars>>

\* The check box, and the page that is shown or hidden.
auto_get_param_table(en) ==
  /\ autoGet' = en
  /\ \/ en /\ request_get_regs(TRUE, TRUE, 0, {})
     \/ /\ ~en
        /\ getTimerOn' = FALSE
        /\ UNCHANGED <<readQueue, getIndex, requestAddr, asked, pending, missed>>
  /\ UNCHANGED <<otherVars, posted, writes, setVars>>

set_param_table ==
  /\ slot_request_set_timeout(0)
  /\ UNCHANGED <<otherVars, posted, readQueue, getVars>>

\* slot_request_read of one parameter.
cell_clicked(p) ==
  /\ pending' = pending \cup {p}
  /\ Request(p, Width[p], {p})
  /\ UNCHANGED <<otherVars, posted, writes, getVars, setVars>>

Operator ==
  /\ ops < MaxOps
  /\ ops' = ops + 1
  /\ \/ get_param_table
     \/ \E en \in AutoModes : auto_get_param_table(en)
     \/ set_param_table
     \/ \E p \in Params : cell_clicked(p)

-----------------------------------------------------------------------------
\* The parameters that begin in one of some requests or answers.
Begin(requests) == UNION {RegistersIn(requests[i]) : i \in 1 .. Len(requests)}

\* What the loss of a frame means for the table.
LossMissed ==
  \/ \E i \in 1 .. Len(reads) : LoseRead(i) /\ missed' = missed \cup RegistersIn(reads[i])
  \/ \E i \in 1 .. Len(answers) :
       LoseAnswer(i) /\ missed' = missed \cup RegistersIn(answers[i])
  \/ \E i \in 1 .. Len(writes) : LoseWrite(i) /\ missed' = missed \cup {writes[i]}
  \/ \E i \in 1 .. Len(writeAnswers) :
       LoseWriteAnswer(i) /\ missed' = missed \cup {writeAnswers[i]}

MasterStep ==
  /\ \/ (RequestThread \/ ReplyHandlers \/ Slave) /\ UNCHANGED missed
     \/ LossMissed
  /\ UNCHANGED <<getVars, setVars, pending, ops>>

Next == MasterStep \/ GetTimeout \/ SetTimeout \/ Deliver \/ Operator

Spec == Init /\ [][Next]_vars

\* The threads run, the timers fire, and the slave answers.
Fairness ==
  /\ WF_vars(RequestThread /\ MasterStep)
  /\ WF_vars(Len(answers) > 0 /\ recv_read_reg_handle(1) /\ MasterStep)
  /\ WF_vars(Len(writeAnswers) > 0 /\ recv_write_reg_handle(1) /\ MasterStep)
  /\ WF_vars(SlaveReads /\ MasterStep)
  /\ WF_vars(SlaveWrites /\ MasterStep)
  /\ WF_vars(Deliver)
  /\ WF_vars(GetTimeout)
  /\ WF_vars(SetTimeout)

FairSpec == Spec /\ Fairness

-----------------------------------------------------------------------------
(***************************************************************************)
(* Properties.                                                             *)
(***************************************************************************)
TypeOK ==
  /\ MasterTypeOK
  /\ getIndex \in 0 .. Count
  /\ requestAddr \in Nat
  /\ getTimerOn \in BOOLEAN
  /\ autoGet \in BOOLEAN
  /\ setIndex \in 0 .. Count
  /\ setTimerOn \in BOOLEAN
  /\ pending \subseteq Params
  /\ ops \in 0 .. MaxOps
  /\ asked \subseteq Params
  /\ missed \subseteq Params

\* A parameter that shows the false icon is never forgotten: its request is in
\* the queue or on the bus, or its answer is on the way, through the bus and
\* the event queue, unless it was dropped or lost.
AccountedFor ==
  \A p \in pending \ missed :
    \/ p \in Begin(readQueue) \cup Begin(reads) \cup Begin(answers)
    \/ \E i \in 1 .. Len(writes) : writes[i] = p
    \/ \E i \in 1 .. Len(writeAnswers) : writeAnswers[i] = p
    \/ \E i \in 1 .. Len(posted) : posted[i].kind \in {"value", "written"} /\ posted[i].reg = p

\* A read of the table that ends by itself has asked for every parameter,
\* whichever timeouts, late answers and answers to single reads moved it on.
ReadsWholeTable ==
  [][ getTimerOn /\ ~getTimerOn' /\ ops' = ops => asked = Params ]_vars

\* A read of the table ends: the answers and the timer between them move the
\* index past the last parameter, and the timer that is left then stops.
TableReadEnds == (getTimerOn /\ ~autoGet) ~> (~getTimerOn \/ autoGet)

\* On a bus that loses nothing every parameter gets its true icon again.
Refreshed == \A p \in Writable : p \in pending ~> p \notin pending
=============================================================================
