------------------------------ MODULE SaveFiles ------------------------------
(***************************************************************************)
(* What the program keeps from one run to the next (mainwindow.cpp,        *)
(* msg_signals/dataobjmap.cpp, bytes/json_file.cpp): the settings of the   *)
(* main window and the values written to registers, read at a start and    *)
(* written when the window is destroyed; and the lines a page appends to   *)
(* the day's CSV file every second (bytes/filehandle.cpp).  A file is      *)
(* truncated before it is written, and the program may be killed between.  *)
(***************************************************************************)
EXTENDS Integers, Sequences

CONSTANTS
  Settings,    \* what a setting may be
  Values,      \* what may be written to a register
  IntSize,     \* how many values an int has (2^32)
  MaxActs,     \* bound: changes by the operator
  MaxStarts,   \* bound: starts of the program
  MaxKills,    \* bound: kills, and files that another program holds
  MaxLines     \* bound: lines of a CSV file

VARIABLES
  phase,  \* whether the program runs, and which file it is writing at its end
  now,    \* the settings and the written values, as they are in the program
  files,  \* the two files
  csv,    \* the CSV file of the day; history: whether it could not be opened once
  past    \* bounds, and history: how the last run ended, with what

saveVars == <<phase, now, files, csv, past>>

Kinds == {"cfg", "obj"}
Default == [cfg |-> "default", obj |-> 0]

\* Files that are not there, or not JSON.
Absent == [is |-> "absent"]
Broken == [is |-> "broken"]
Json(v) == [is |-> "json", value |-> v]

Init ==
  /\ phase = "off"
  /\ now = Default
  /\ files = [k \in Kinds |-> Absent]
  /\ csv = [lines |-> <<>>, held |-> FALSE]
  /\ past = [acts |-> 0, starts |-> 0, kills |-> 0, ended |-> "closed", left |-> Default,
             found |-> Default]

\* The number goes into the file as it is and comes back through toInt.
toInt(v) == IF v >= IntSize \div 2 THEN v - IntSize ELSE v

\* load_json_file and the loaders: a file that does not parse has a null
\* document, which is not taken for an error but for an empty object.
load(kind) ==
  IF files[kind].is # "json" THEN Default[kind]
  ELSE IF kind = "obj" THEN toInt(files[kind].value) ELSE files[kind].value

Start ==
  /\ phase = "off" /\ past.starts < MaxStarts
  /\ phase' = "up"
  /\ now' = [k \in Kinds |-> load(k)]
  /\ past' = [past EXCEPT !.starts = @ + 1, !.found = [k \in Kinds |-> load(k)]]
  /\ UNCHANGED <<files, csv>>

\* A spin box of the window, or a write to a register.
Change ==
  /\ phase = "up" /\ past.acts < MaxActs
  /\ \/ \E s \in Settings : now' = [now EXCEPT !.cfg = s]
     \/ \E v \in Values : now' = [now EXCEPT !.obj = v]
  /\ past' = [past EXCEPT !.acts = @ + 1]
  /\ UNCHANGED <<phase, files, csv>>

Kill == past.kills < MaxKills

\* write_json_file: the file is truncated, ...
Truncate(kind) == files' = [files EXCEPT ![kind] = Broken]

\* Mutant: what is saved has been destroyed before.
write_too_late(kind) == files' = [files EXCEPT ![kind] = Json(Default[kind])]

\* ... then written.
write_json_file(kind) == files' = [files EXCEPT ![kind] = Json(now[kind])]

\* ~MainWindow saves the settings; the pages go after it, with them the
\* DataObjMap, which saves the values.
Saving == [cfg |-> [opens |-> "up", then |-> "cfg saved"],
           obj |-> [opens |-> "cfg saved", then |-> "off"]]

Opens(kind) ==
  /\ phase = Saving[kind].opens
  /\ phase' = kind
  /\ Truncate(kind)
  /\ UNCHANGED <<now, csv, past>>

Writes(kind) ==
  /\ phase = kind
  /\ phase' = Saving[kind].then
  /\ write_json_file(kind)
  /\ past' = IF kind = "obj" THEN [past EXCEPT !.ended = "closed", !.left = now] ELSE past
  /\ UNCHANGED <<now, csv>>

Killed ==
  /\ phase # "off" /\ Kill
  /\ phase' = "off"
  /\ past' = [past EXCEPT !.kills = @ + 1, !.ended = phase, !.left = now]
  /\ UNCHANGED <<now, files, csv>>

-----------------------------------------------------------------------------
\* CsvAppend: a file that is not there begins with its header.
CsvAppend(lines) == IF lines = <<>> THEN <<"header", "line">> ELSE <<"line">>

\* csv_save_file, every second.  The file is opened for each line anew: while
\* another program holds it, lines are left out and nobody is told.
csv_save_file ==
  /\ phase = "up" /\ Len(csv.lines) < MaxLines
  /\ \/ csv' = [csv EXCEPT !.lines = @ \o CsvAppend(@)] /\ UNCHANGED past
     \/ /\ Kill /\ past' = [past EXCEPT !.kills = @ + 1]
        /\ \E written \in {<<>>, <<"header">>, <<"line">>} :
             /\ \A i \in DOMAIN written : \E j \in 1 .. 2 :
                  j \in DOMAIN CsvAppend(csv.lines) /\ CsvAppend(csv.lines)[j] = written[i]
             /\ csv' = [lines |-> csv.lines \o written, held |-> TRUE]
  /\ UNCHANGED <<phase, now, files>>

\* The path has the date in it.
NextDay ==
  /\ csv.lines # <<>>
  /\ csv' = [lines |-> <<>>, held |-> FALSE]
  /\ UNCHANGED <<phase, now, files, past>>

Next ==
  \/ Start \/ Change
  \/ \E kind \in Kinds : Opens(kind) \/ Writes(kind)
  \/ Killed
  \/ csv_save_file \/ NextDay

Spec == Init /\ [][Next]_saveVars

-----------------------------------------------------------------------------
TypeOK ==
  /\ phase \in {"off", "up", "cfg", "cfg saved", "obj"}
  /\ now.cfg \in Settings \cup {Default.cfg}
  /\ now.obj \in Values \cup {toInt(v) : v \in Values} \cup {Default.obj}
  /\ \A k \in Kinds : files[k].is \in {"absent", "broken", "json"}

Back(kind, v) == IF kind = "obj" THEN toInt(v) ELSE v

\* What a start finds is what the last run that was closed left, a number that
\* is no int excepted; after a run that was killed, each file has either what
\* that run left or what it found, or, if it was killed between truncating and
\* writing just this file, the defaults (mainwindow.cpp, json_file.cpp).
FoundAgain ==
  Start =>
    \A k \in Kinds :
      CASE past.ended = "closed" -> now'[k] = Back(k, past.left[k])
        [] past.ended = k        -> now'[k] = Default[k]
        [] OTHER                 -> now'[k] \in {Back(k, past.left[k]), past.found[k]}
SavedComeBack == [][FoundAgain]_saveVars

\* A day's file that could always be opened begins with its header and has no
\* other, whether or not the program was restarted that day (filehandle.cpp).
LinesUnderHeader ==
  ~csv.held /\ csv.lines # <<>> =>
    csv.lines[1] = "header" /\ \A i \in 2 .. Len(csv.lines) : csv.lines[i] = "line"
=============================================================================
