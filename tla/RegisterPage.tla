---------------------------- MODULE RegisterPage ----------------------------
(***************************************************************************)
(* A page of registers (page/pagewidgetscollect.cpp).  The register files  *)
(* say which objects there are, the page file which of them the page       *)
(* shows.  While it is open it asks for all of them, once or with a timer, *)
(* in requests of at most Chunk registers.  The rows of a param_view       *)
(* (widget/mwritereadtable.cpp) read and write one object each, or all of  *)
(* them one after the other.  The Modbus master and the node are reduced   *)
(* to what passes between them (see ModbusMaster): reads wait in a queue,  *)
(* writes do not.                                                          *)
(***************************************************************************)
EXTENDS Integers, Sequences, SequencesExt, FiniteSets

CONSTANTS
  Registers,  \* the register files: a sequence of entries
  Pages,      \* page files, each a sequence of sections
  Chunk,      \* registers that one request may read (64)
  WordSize,   \* how many values a register has (65536)
  Entered,      \* what stands in the write_spinbox of an object, by its address
  MaxClicks,  \* bound: acts of the operator
  MaxUnanswered,  \* bound: answers that are lost or overtaken
  MaxReads    \* bound: requests queued when the timer of the page fires

VARIABLES
  made,      \* what the page was made from: obj_map, reg_info_list, ins_list
  page,      \* timer, request_get_index, is_auto_read, and auto_read_en of all pages
  table,     \* the timers of a param_view with what they have come to
  shown,     \* each object: its value, what its row says, and what it was last sent
  line,      \* reads and writes on their way, and the answers
  node,      \* the node's registers
  used       \* bounds: acts and faults; history: whether there was a fault

pageVars == <<made, page, table, shown, line, node, used>>

-----------------------------------------------------------------------------
(* The files: DataObjMap::json_items_handle and that of the page. *)

reg_num(type) == IF type \in {"uint32_t", "int32_t"} THEN 2 ELSE 1

Array(entry) ==
  [i \in 1 .. entry.array_size |->
     [id |-> entry.id + reg_num(entry.type) * (i - 1),
      type |-> entry.type, is_write |-> entry.is_write]]

\* An object replaces an earlier one at its address.
ObjMap ==
  FoldLeft(LAMBDA map, obj : (obj.id :> obj) @@ map, <<>>,
           FlattenSeq([k \in DOMAIN Registers |-> Array(Registers[k])]))

\* label_view and param_view: the objects from start_index to end_index.
Listed(map, s) ==
  SelectSeq([i \in 1 .. s.end_index - s.start_index + 1 |-> s.start_index + i - 1],
            LAMBDA a : a \in DOMAIN map)

\* A row of a table_view; inc_len follows the object found last.
Row(map, s, i) ==
  FoldLeft(LAMBDA row, j :
             LET a == s.start_index + i * s.column_cnt + j * row.inc_len
             IN  IF a \in DOMAIN map
                 THEN [list |-> Append(row.list, a), inc_len |-> reg_num(map[a].type)] ELSE row,
           [list |-> <<>>, inc_len |-> 1],
           [j \in 1 .. s.column_cnt |-> j - 1]).list

Objects(map, s) ==
  IF s.page_type = "table_view"
  THEN FlattenSeq([i \in 1 .. s.row_cnt |-> Row(map, s, i - 1)]) ELSE Listed(map, s)

\* A page file, a sequence of sections, gives the page its list of objects and
\* its param_view the list of its rows.
Made(sections) ==
  LET map == ObjMap
  IN  [obj_map |-> map,
       reg_info_list |-> FlattenSeq([k \in DOMAIN sections |-> Objects(map, sections[k])]),
       ins_list |-> FlattenSeq([k \in DOMAIN sections |->
                      IF sections[k].page_type = "param_view" THEN Listed(map, sections[k]) ELSE <<>>])]

obj_map == made.obj_map
reg_info_list == made.reg_info_list
ins_list == made.ins_list
reg_len(a) == reg_num(obj_map[a].type)

\* json_items_handle: setting the period to another than the 1000 of the form
\* calls the slot that reads is_auto_read back from the check box, which is
\* still checked: what the file says of it holds with that period only.
Opened(is_auto_read, period_changes) == is_auto_read \/ period_changes

Init ==
  /\ \E sections \in Pages : made = Made(sections)
  /\ \E auto, changes \in BOOLEAN :
       page = [timer |-> Opened(auto, changes), index |-> 0,
               auto |-> Opened(auto, changes), enabled |-> TRUE]
  /\ table = [read_timer |-> FALSE, write_timer |-> FALSE, read_index |-> 0, write_index |-> 0]
  /\ shown = [a \in DOMAIN obj_map |-> [value |-> 0, text |-> "", sent |-> {}]]
  /\ line = [reads |-> <<>>, writes |-> <<>>, answers |-> <<>>]
  /\ node = [r \in UNION {a .. a + reg_len(a) - 1 : a \in DOMAIN obj_map} |-> 0]
  /\ used = [clicks |-> 0, faults |-> 0]

Click == used.clicks < MaxClicks /\ used' = [used EXCEPT !.clicks = @ + 1]
Fault == used.faults < MaxUnanswered /\ used' = [used EXCEPT !.faults = @ + 1]

-----------------------------------------------------------------------------
(* slot_auto_read_timeout. *)

Distance(a, b) == IF a < b THEN b - a ELSE a - b
Least(a, b) == IF a < b THEN a ELSE b
Count == Len(reg_info_list)

\* The chunk that begins with object k: up to the first object Chunk away.
ChunkEnd(k) ==
  CHOOSE j \in k .. Count :
    /\ \A i \in k .. j : Distance(reg_info_list[i], reg_info_list[k]) < Chunk
    /\ j < Count => Distance(reg_info_list[j + 1], reg_info_list[k]) >= Chunk

\* Mutant: takes the last object to be one register.
length_of_last(k) ==
  Least(Distance(reg_info_list[ChunkEnd(k)] + 1, reg_info_list[k]), Chunk)

\* Up to the end of the chunk's last object.
reg_len_of(k) ==
  LET last == reg_info_list[ChunkEnd(k)]
  IN  Least(Distance(last + reg_len(last), reg_info_list[k]), Chunk)

\* The requests from object k on.
RequestsFrom[k \in 1 .. Count + 1] ==
  IF k > Count THEN <<>>
  ELSE <<[addr |-> reg_info_list[k], len |-> reg_len_of(k)]>> \o RequestsFrom[ChunkEnd(k) + 1]

Requests == RequestsFrom[1]

\* The slot, with the timer and the index it finds.
slot_auto_read_timeout(timer, index) ==
  LET reads == ~(page.auto /\ ~page.enabled)
      ends == reads /\ (Count = 0 \/ (index >= Count /\ ~page.auto))
      burst == reads /\ ~ends
  IN  /\ page' = [page EXCEPT !.timer = timer /\ ~ends, !.index = IF burst THEN Count ELSE index]
      /\ line' = IF burst THEN [line EXCEPT !.reads = @ \o Requests] ELSE line

AutoReadTimeout ==
  /\ page.timer
  /\ Len(line.reads) <= MaxReads
  /\ slot_auto_read_timeout(TRUE, page.index)
  /\ UNCHANGED <<made, table, shown, node, used>>

\* showEvent starts the timer of a page that is not read automatically too.
showEvent ==
  /\ Click
  /\ slot_auto_read_timeout(TRUE, 0)
  /\ UNCHANGED <<made, table, shown, node>>

\* Hiding goes to the table: it stops reading all rows, but not writing them,
\* and the page itself goes on.
hideEvent ==
  /\ Click
  /\ table' = [table EXCEPT !.read_timer = FALSE]
  /\ UNCHANGED <<made, page, shown, line, node>>

on_checkBox_stateChanged ==
  /\ Click
  /\ page' = [page EXCEPT !.auto = ~page.auto, !.timer = ~page.auto,
                          !.index = IF page.auto THEN @ ELSE 0]
  /\ UNCHANGED <<made, table, shown, line, node>>

\* The slot of the check box is called as it stands.
on_updatePeriodSpinBox_valueChanged ==
  /\ Click
  /\ page' = [page EXCEPT !.timer = page.auto, !.index = IF page.auto THEN 0 ELSE @]
  /\ UNCHANGED <<made, table, shown, line, node>>

on_autoReadCheckBox_stateChanged ==
  /\ Click
  /\ page' = [page EXCEPT !.enabled = ~@]
  /\ UNCHANGED <<made, table, shown, line, node>>

-----------------------------------------------------------------------------
(* The rows, and what DataObj sends for them. *)

\* Mutant: the high register first.
high_register_first(a, v) ==
  IF reg_len(a) = 1 THEN <<v % WordSize>> ELSE <<(v \div WordSize) % WordSize, v % WordSize>>

\* The low register comes first.
slot_request_write_reg(a, v) ==
  IF reg_len(a) = 1 THEN <<v % WordSize>> ELSE <<v % WordSize, (v \div WordSize) % WordSize>>

\* slot_read_finish: the number as the object's type has it.
Signed(raw, size) == IF 2 * raw >= size THEN raw - size ELSE raw
slot_read_finish(a, raw) ==
  CASE obj_map[a].type = "int16_t"  -> Signed(raw % WordSize, WordSize)
    [] obj_map[a].type = "uint32_t" -> raw
    [] obj_map[a].type = "int32_t"  -> Signed(raw, WordSize * WordSize)
    [] OTHER                        -> raw % WordSize

\* What the spin box of a row takes.
Limits(type) ==
  LET size == IF reg_num(type) = 1 THEN WordSize ELSE WordSize * WordSize
  IN  IF type \in {"int16_t", "int32_t"} THEN - (size \div 2) .. size \div 2 - 1
      ELSE 0 .. size - 1

\* on_readBtn_clicked of a row.
ReadRow(a) ==
  /\ shown' = [shown EXCEPT ![a].text = "reading"]
  /\ line' = [line EXCEPT !.reads = Append(@, [addr |-> a, len |-> reg_len(a)])]

\* MWriteReadWidget::update: an object that is not written has no listener, and
\* its row waits for a write that is never sent.
WriteRow(a, v) ==
  IF obj_map[a].is_write
  THEN /\ shown' = [shown EXCEPT ![a].text = "writing", ![a].sent = {v}]
       /\ line' = [line EXCEPT !.writes = Append(@, [addr |-> a, words |-> slot_request_write_reg(a, v)])]
  ELSE shown' = [shown EXCEPT ![a].text = "writing"] /\ UNCHANGED line

RowClicked ==
  /\ Click
  /\ \E a \in ToSet(ins_list) :
       ReadRow(a) \/ WriteRow(a, Entered[a])
  /\ UNCHANGED <<made, page, table, node>>

on_readAllBtn_clicked ==
  /\ Click
  /\ table' = [table EXCEPT !.read_timer = TRUE, !.read_index = 0]
  /\ UNCHANGED <<made, page, shown, line, node>>

on_writeAllBtn_clicked ==
  /\ Click
  /\ table' = [table EXCEPT !.write_timer = TRUE, !.write_index = 0]
  /\ UNCHANGED <<made, page, shown, line, node>>

slot_read_timeout ==
  /\ table.read_timer
  /\ IF table.read_index < Len(ins_list)
     THEN /\ ReadRow(ins_list[table.read_index + 1])
          /\ table' = [table EXCEPT !.read_index = @ + 1]
     ELSE table' = [table EXCEPT !.read_timer = FALSE] /\ UNCHANGED <<shown, line>>
  /\ UNCHANGED <<made, page, node, used>>

slot_write_timeout ==
  /\ table.write_timer
  /\ IF table.write_index < Len(ins_list)
     THEN /\ LET a == ins_list[table.write_index + 1] IN WriteRow(a, Entered[a])
          /\ table' = [table EXCEPT !.write_index = @ + 1]
     ELSE table' = [table EXCEPT !.write_timer = FALSE] /\ UNCHANGED <<shown, line>>
  /\ UNCHANGED <<made, page, node, used>>

-----------------------------------------------------------------------------
(* The answers (CommJ1939Db's handlers), the node and the bus. *)

\* A register beyond the answer counts as 0.
Raw(answer, a) ==
  LET word(r) == IF r \in answer.addr .. answer.addr + Len(answer.words) - 1
                 THEN answer.words[r - answer.addr + 1] ELSE 0
  IN  IF reg_len(a) = 1 THEN word(a) ELSE word(a) + WordSize * word(a + 1)

\* Every object that begins in an answer to a read gets its value; what a row
\* says follows.  An answer to a write goes to the object it is addressed to.
Received ==
  /\ line.answers # <<>>
  /\ LET answer == Head(line.answers)
         Text(a, text) == IF a \in ToSet(ins_list) THEN text ELSE ""
     IN  shown' =
           IF answer.written THEN [shown EXCEPT ![answer.addr].text = Text(answer.addr, "written")]
           ELSE [a \in DOMAIN shown |->
                   IF a \in answer.addr .. answer.addr + Len(answer.words) - 1
                   THEN [shown[a] EXCEPT !.value = slot_read_finish(a, Raw(answer, a)),
                                         !.text = Text(a, "read")]
                   ELSE shown[a]]
  /\ line' = [line EXCEPT !.answers = Tail(@)]
  /\ UNCHANGED <<made, page, table, node, used>>

\* The request thread sends the next read when the last has been answered or is
\* given up.  What is not registered reads as 0.
NodeReads ==
  /\ line.reads # <<>>
  /\ \A i \in DOMAIN line.answers : line.answers[i].written
  /\ LET q == Head(line.reads)
         word(r) == IF r \in DOMAIN node THEN node[r] ELSE 0
     IN  line' = [line EXCEPT !.reads = Tail(@),
                    !.answers = Append(@, [written |-> FALSE, addr |-> q.addr,
                                           words |-> [i \in 1 .. q.len |-> word(q.addr + i - 1)]])]
  /\ UNCHANGED <<made, page, table, shown, node, used>>

NodeWrites ==
  /\ line.writes # <<>>
  /\ LET q == Head(line.writes)
     IN  /\ node' = [r \in DOMAIN node |->
                       IF r \in q.addr .. q.addr + Len(q.words) - 1
                       THEN q.words[r - q.addr + 1] ELSE node[r]]
         /\ line' = [line EXCEPT !.writes = Tail(@),
                       !.answers = Append(@, [written |-> TRUE, addr |-> q.addr, words |-> <<>>])]
  /\ UNCHANGED <<made, page, table, shown, used>>

\* A request or an answer is lost, or a short answer overtakes a long one.
Disturbance ==
  /\ Fault
  /\ \/ line.reads # <<>> /\ line' = [line EXCEPT !.reads = Tail(@)]
     \/ line.writes # <<>> /\ line' = [line EXCEPT !.writes = Tail(@)]
     \/ line.answers # <<>> /\ line' = [line EXCEPT !.answers = Tail(@)]
     \/ /\ Len(line.answers) > 1
        /\ line' = [line EXCEPT !.answers = <<@[2], @[1]>> \o SubSeq(@, 3, Len(@))]
  /\ UNCHANGED <<made, page, table, shown, node>>

Bus == NodeReads \/ NodeWrites

Next ==
  \/ AutoReadTimeout \/ showEvent \/ hideEvent
  \/ on_checkBox_stateChanged \/ on_updatePeriodSpinBox_valueChanged
  \/ on_autoReadCheckBox_stateChanged
  \/ RowClicked \/ on_readAllBtn_clicked \/ on_writeAllBtn_clicked
  \/ slot_read_timeout \/ slot_write_timeout
  \/ Received \/ Bus \/ Disturbance

Spec == Init /\ [][Next]_pageVars

-----------------------------------------------------------------------------
TypeOK ==
  /\ ToSet(ins_list) \subseteq ToSet(reg_info_list)
  /\ page \in [timer : BOOLEAN, index : 0 .. Count, auto : BOOLEAN, enabled : BOOLEAN]
  /\ table.read_index \in 0 .. Len(ins_list) /\ table.write_index \in 0 .. Len(ins_list)
  /\ \A a \in DOMAIN shown :
       /\ shown[a].value \in Limits(obj_map[a].type)
       /\ shown[a].text \in {"", "reading", "read", "writing", "written"}
  /\ \A r \in DOMAIN node : node[r] \in 0 .. WordSize - 1

Ascending == \A i, j \in 1 .. Count : i < j => reg_info_list[i] < reg_info_list[j]

\* The objects that lie across the end of a chunk.
Cut ==
  {a \in ToSet(reg_info_list) :
     \E k \in DOMAIN Requests :
       /\ a \in Requests[k].addr .. Requests[k].addr + Chunk - 1
       /\ a + reg_len(a) > Requests[k].addr + Chunk}

\* However the addresses of a page that lists them in order lie, one time-out
\* asks for every object as a whole, unless it lies across the end of a chunk,
\* in requests that the node accepts and of which no two ask for the same
\* (pagewidgetscollect.cpp, slot_auto_read_timeout).
Covered ==
  Ascending /\ Len(line'.reads) > Len(line.reads) /\ page'.index = Count
  /\ (AutoReadTimeout \/ showEvent) =>
    LET asked == SubSeq(line'.reads, Len(line.reads) + 1, Len(line'.reads))
    IN  /\ \A i \in 1 .. Count : reg_info_list[i] \notin Cut =>
             \E k \in DOMAIN asked :
               /\ asked[k].addr <= reg_info_list[i]
               /\ reg_info_list[i] + reg_len(reg_info_list[i]) <= asked[k].addr + asked[k].len
        /\ \A k \in DOMAIN asked : asked[k].len \in 1 .. Chunk
        /\ \A k, l \in DOMAIN asked : k < l => asked[k].addr + asked[k].len <= asked[l].addr
BurstCovers == [][Covered]_pageVars

\* Each register belongs to one object.
Disjoint == \A a, b \in DOMAIN obj_map : a < b => a + reg_len(a) <= b

AtRest == line.reads = <<>> /\ line.writes = <<>> /\ line.answers = <<>>

\* With no answer lost or overtaken and nothing on its way, the node holds what
\* was last written, as the number that was typed, and a row that says it has
\* been read shows what the node holds, if no two objects share a register: both
\* ways agree on the order and the sign of the registers (dataobj.cpp).
ValuesReturn ==
  AtRest /\ used.faults = 0 /\ Ascending /\ Disjoint =>
    \A a \in DOMAIN shown :
      LET held == slot_read_finish(a, Raw([addr |-> a, words |-> [i \in 1 .. reg_len(a) |-> node[a + i - 1]]], a))
      IN  /\ \A v \in shown[a].sent : held = v
          /\ shown[a].text = "read" /\ a \notin Cut => shown[a].value = held
=============================================================================
