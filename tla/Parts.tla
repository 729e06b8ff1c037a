-------------------------------- MODULE Parts --------------------------------
(***************************************************************************)
(* The parts of the program that share no state with the others: a         *)
(* behaviour is one of any one of them.  Their product would have no       *)
(* behaviour that is not made of theirs.  Each is a module of its own;     *)
(* here they get their variables, the fairness of what moves them, and     *)
(* their properties together.                                              *)
(***************************************************************************)
EXTENDS BlockingQueue, MsgCodec

CONSTANTS
  LastEvent, Starts, Counts, MaxReads,                                 \* EventReader
  StartNums, Cnts, MaxInFlight,                                        \* GroupUpdate
  Registers, Pages, Chunk, WordSize, Entered, MaxUnanswered, MaxQueued, \* RegisterPage
  Settings, Values, IntSize, MaxActs, MaxStarts, MaxKills, MaxLines,   \* SaveFiles
  MaxClicks, MaxFaults                                                 \* several

\* Spin boxes show no negative numbers; an int is not empty, and what is written
\* to a register is a number of that size, with a sign or without.
ASSUME PartsAssumption ==
  /\ StartNums \subseteq Nat /\ Cnts \subseteq Nat
  /\ Starts \subseteq Nat /\ Counts \subseteq Nat /\ LastEvent \in Nat
  /\ IntSize \in Nat /\ IntSize >= 2
  /\ Values \subseteq - (IntSize \div 2) .. IntSize - 1

VARIABLES
  part,
  eventPage, rows, wire, eventPast,
  m_timer, boxes, first, master, bus, spent,
  made, page, table, shown, line, node, used,
  phase, now, files, csv, past

Reader == INSTANCE EventReader WITH page <- eventPage, past <- eventPast
Update == INSTANCE GroupUpdate
Page   == INSTANCE RegisterPage WITH MaxReads <- MaxQueued
Save   == INSTANCE SaveFiles

\* A request asks for something, a register has bits, a page shows and lists
\* objects that there are, and a row's spin box keeps to their limits.
ASSUME PageAssumption ==
  /\ Chunk \in Nat \ {0} /\ WordSize \in Nat \ {0} /\ WordSize % 2 = 0
  /\ DOMAIN Page!ObjMap \subseteq Nat
  /\ \A sections \in Pages :
       /\ Page!Made(sections).reg_info_list \in Seq(DOMAIN Page!ObjMap)
       /\ Page!Made(sections).ins_list \in Seq(Page!ToSet(Page!Made(sections).reg_info_list))
  /\ \A a \in DOMAIN Page!ObjMap : Entered[a] \in Page!Limits(Page!ObjMap[a].type)

readerVars == <<eventPage, rows, wire, eventPast>>
updateVars == <<m_timer, boxes, first, master, bus, spent>>
pageVars   == <<made, page, table, shown, line, node, used>>
saveVars   == <<phase, now, files, csv, past>>
vars == <<part, queueVars, readerVars, updateVars, pageVars, codecVars, saveVars>>

\* The variables of a part that is not looked at.
NoQueue  == queue = 0 /\ mCapacity = 0 /\ flag = 0 /\ th = 0
NoReader == eventPage = 0 /\ rows = 0 /\ wire = 0 /\ eventPast = 0
NoUpdate == m_timer = 0 /\ boxes = 0 /\ first = 0 /\ master = 0 /\ bus = 0 /\ spent = 0
NoPage   == made = 0 /\ page = 0 /\ table = 0 /\ shown = 0 /\ line = 0 /\ node = 0 /\ used = 0
NoCodec  == copy = 0 /\ call = 0 /\ msg = 0 /\ pc = 0 /\ data = 0 /\ value = 0
NoSave   == phase = 0 /\ now = 0 /\ files = 0 /\ csv = 0 /\ past = 0

PartsInit ==
  \/ part = "queue"  /\ QueueInit   /\ NoReader /\ NoUpdate /\ NoPage /\ NoCodec /\ NoSave
  \/ part = "reader" /\ Reader!Init /\ NoQueue  /\ NoUpdate /\ NoPage /\ NoCodec /\ NoSave
  \/ part = "update" /\ Update!Init /\ NoQueue  /\ NoReader /\ NoPage /\ NoCodec /\ NoSave
  \/ part = "page"   /\ Page!Init   /\ NoQueue  /\ NoReader /\ NoUpdate /\ NoCodec /\ NoSave
  \/ part = "codec"  /\ CodecInit   /\ NoQueue  /\ NoReader /\ NoUpdate /\ NoPage /\ NoSave
  \/ part = "save"   /\ Save!Init   /\ NoQueue  /\ NoReader /\ NoUpdate /\ NoPage /\ NoCodec

PartsNext ==
  /\ UNCHANGED part
  /\ \/ part = "queue"  /\ QueueNext
                        /\ UNCHANGED <<readerVars, updateVars, pageVars, codecVars, saveVars>>
     \/ part = "reader" /\ Reader!Next
                        /\ UNCHANGED <<queueVars, updateVars, pageVars, codecVars, saveVars>>
     \/ part = "update" /\ Update!Next
                        /\ UNCHANGED <<queueVars, readerVars, pageVars, codecVars, saveVars>>
     \/ part = "page"   /\ Page!Next
                        /\ UNCHANGED <<queueVars, readerVars, updateVars, codecVars, saveVars>>
     \/ part = "codec"  /\ CodecNext
                        /\ UNCHANGED <<queueVars, readerVars, updateVars, pageVars, saveVars>>
     \/ part = "save"   /\ Save!Next
                        /\ UNCHANGED <<queueVars, readerVars, updateVars, pageVars, codecVars>>

\* The window's event loop runs the timers and the slots, messages do not stay
\* on the bus for ever, the request thread and the masters work.
Fairness ==
  /\ WF_readerVars(part = "reader" /\ Reader!read_timeout)
  /\ WF_readerVars(part = "reader" /\ Reader!slot_recv_read_event)
  /\ WF_readerVars(part = "reader" /\ (Reader!NodeAnswers \/ Reader!Loss))
  /\ WF_updateVars(part = "update" /\ Update!slot_timeout)
  /\ WF_updateVars(part = "update" /\ Update!Recv)
  /\ WF_updateVars(part = "update" /\ Update!Master)
  /\ WF_updateVars(part = "update" /\ Update!MasterWorks)
  /\ WF_pageVars(part = "page" /\ Page!AutoReadTimeout)
  /\ WF_pageVars(part = "page" /\ Page!slot_read_timeout)
  /\ WF_pageVars(part = "page" /\ Page!slot_write_timeout)
  /\ WF_pageVars(part = "page" /\ Page!Received)
  /\ WF_pageVars(part = "page" /\ Page!Bus)

PartsSpec == PartsInit /\ [][PartsNext]_vars
FairSpec == PartsSpec /\ Fairness

-----------------------------------------------------------------------------
TypeOK ==
  CASE part = "queue"  -> QueueTypeOK
    [] part = "reader" -> Reader!TypeOK
    [] part = "update" -> Update!TypeOK
    [] part = "page"   -> Page!TypeOK
    [] part = "codec"  -> CodecTypeOK
    [] part = "save"   -> Save!TypeOK

\* BlockingQueue: see there.
FlagsAgree == part = "queue" => EventsAgree

\* A reading of events that nobody disturbs shows what was asked for
\* (EventReader, pagereadevent.cpp).
RangeRead == part = "reader" => Reader!RangeRead

\* An answer of the master leaves every checked box with its slave's verdict
\* (GroupUpdate, frmgroupupdate.cpp).
BoxesTell == [][part = "update" => Update!BoxesTold]_vars

\* A page of registers asks for all of them (RegisterPage,
\* pagewidgetscollect.cpp).
BurstCovers == [][part = "page" => Page!Covered]_vars

\* Numbers survive the way out and back: in registers (RegisterPage,
\* dataobj.cpp) and in messages (MsgCodec, msgdata.cpp), where every copy of
\* bits is what it should be (BitCopy, canard_dsdl.c).
ValuesReturn ==
  /\ part = "page" => Page!ValuesReturn
  /\ part = "codec" => BitsCopied /\ NumbersReturn

\* Files bring back what was saved, and lines stand under their header
\* (SaveFiles, json_file.cpp, filehandle.cpp).
FilesKeep ==
  /\ [][part = "save" => Save!FoundAgain]_vars
  /\ [](part = "save" => Save!LinesUnderHeader)

\* What a timer runs for comes to its end, whatever is lost, late or left
\* unanswered: a reading of events (the counter of time-outs), the polling of an
\* update that goes on (the last answer), reading and writing all rows of a
\* page (the index), and the timer of a page that is not read automatically.
Running(timer) ==
  CASE timer = "events"   -> part = "reader" /\ eventPage.timer
    [] timer = "update"   -> part = "update" /\ m_timer
    [] timer = "readAll"  -> part = "page" /\ table.read_timer
    [] timer = "writeAll" -> part = "page" /\ table.write_timer
    [] timer = "once"     -> part = "page" /\ page.timer /\ ~page.auto
TimersStop ==
  \A timer \in {"events", "update", "readAll", "writeAll", "once"} :
    Running(timer) ~> ~Running(timer)
=============================================================================
