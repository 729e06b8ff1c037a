-------------------------- MODULE BootMaster_proofs --------------------------
(***************************************************************************)
(* Proofs about BootMaster, for any slaves, any file, any number of        *)
(* resends and any bounds: its types, and that the file passes a block     *)
(* unacknowledged at most twice for every give-up and every click in the   *)
(* middle of a transfer, however the two threads interleave.               *)
(***************************************************************************)
EXTENDS BootMaster, UpdateNodes_proofs

\* The accesses by what they are about: a step, a slave, or nothing.
StepOps == {"switch", "judge", "count", "compare", "remove", "decide"}
NodeOps == {"match", "mark"}
PlainOps == {"rewind", "load", "first", "advance", "next", "resume", "full", "take",
             "show", "failed", "clear", "list", "run"}

About(x) ==
  /\ x.op \in StepOps => x.arg \in Steps
  /\ x.op = "judge" => x.arg # IDLE
  /\ x.op = "enter" => x.arg \in Nat
  /\ x.op \in NodeOps => x.arg \in Addr

Accesses ==
  {x \in [op : StepOps \cup NodeOps \cup PlainOps \cup {"enter"}, arg : Nat \cup Addr] : About(x)}

\* What the threads have yet to do is made of such accesses.
TodoOK ==
  /\ todo \in [Threads -> Seq(Accesses)]
  /\ selected \subseteq Addr
  /\ ops \in Nat

\* A handler of the communication thread judges last, what it finishes it
\* finishes after that, and when it goes back to the start of the file every
\* listed slave has accepted the information.
CommShape ==
  \A i \in 1 .. Len(todo["comm"]) :
    /\ todo["comm"][i].op \in NodeOps =>
         i = 1 /\ Len(todo["comm"]) = 2 /\ todo["comm"][2].op = "judge"
    /\ todo["comm"][i].op = "judge" => i = Len(todo["comm"])
    /\ todo["comm"][i].op = "advance" => i = 1
    /\ todo["comm"][i].op = "rewind" => \A a \in DOMAIN nodes : nodes[a].step # DATA

\* The accesses of the GUI thread that the other thread can be overtaken by.  A
\* handler has at most one of them, or of those that lead to one, and before
\* the list is filled it touches nothing but the progress.
TurnOps == {"remove", "decide", "advance", "rewind"}
LoneOps == TurnOps \cup {"take", "count", "compare", "list"}

GuiShape ==
  /\ \A i, j \in 1 .. Len(todo["gui"]) :
       todo["gui"][i].op \in LoneOps /\ todo["gui"][j].op \in LoneOps => i = j
  /\ \A i \in 1 .. Len(todo["gui"]) :
       todo["gui"][i].op = "list" => \A j \in 1 .. i - 1 : todo["gui"][j].op = "clear"

\* The GUI thread has yet to make one of these accesses.
GuiHas(some) == \E i \in 1 .. Len(todo["gui"]) : todo["gui"][i].op \in some

\* A start or a reset of an idle machine has yet to fill the list.
Fresh == GuiHas({"list"}) /\ ~Busy

One(P) == IF P THEN 1 ELSE 0

\* A listed slave is recorded at a block that the file has yet to come to, or
\* at the present one without having acknowledged it, or is about to be.
Ahead == \E a \in DOMAIN nodes : nodes[a].step = DATA /\ nodes[a].offset > fileOffset
Unearned == \E a \in Missing : nodes[a] = At(DATA, fileOffset)
Misplaced == /\ IsNext("comm", "mark")
             /\ todo["comm"][2].arg = DATA
             /\ fileOffset \in Blocks => Front("comm").arg \notin replied[fileOffset]

\* How many blocks the communication thread may still pass unacknowledged with
\* what it has begun and what the list records; none of it matters to a list
\* that is about to be filled while the thread has nothing to do.
CommMay ==
  IF IsNext("comm", "advance") THEN One(Missing # {}) + One(Ahead)
  ELSE One(Ahead \/ Unearned \/ Misplaced)

CommDue == IF Fresh THEN 0 ELSE CommMay

\* What the handler of the GUI thread may still add to that, or pass itself.
GuiDue == IF GuiHas(TurnOps) THEN 2 ELSE One(GuiHas({"list"}) /\ ~Fresh)

\* Every give-up and every click in the middle of a transfer pays for two.
Paid == skips + CommDue + GuiDue <= 2 * (giveUps + disturbed)

BootInv == TypeOK /\ TodoOK /\ CommShape /\ GuiShape /\ Paid

-----------------------------------------------------------------------------
(***************************************************************************)
(* Sequences of accesses.                                                  *)
(***************************************************************************)
LEMMA AccessIs ==
  ASSUME NEW o, NEW a
  PROVE  Access(o, a).op = o /\ Access(o, a).arg = a
  BY DEF Access

LEMMA AccessTypes ==
  /\ \A o \in StepOps \ {"judge"}, s \in Steps : Access(o, s) \in Accesses
  /\ \A s \in Steps \ {IDLE} : Access("judge", s) \in Accesses
  /\ \A n \in Nat : Access("enter", n) \in Accesses
  /\ \A o \in NodeOps, a \in Addr : Access(o, a) \in Accesses
  /\ \A o \in PlainOps : Access(o, None) \in Accesses
<1> USE DEF Access, Accesses, About, StepOps, NodeOps, PlainOps, Steps, IDLE, CMD, INFO, DATA, CRC
<1>1. \A o \in StepOps \ {"judge"}, s \in Steps : Access(o, s) \in Accesses
  OBVIOUS
<1>2. \A s \in Steps \ {IDLE} : Access("judge", s) \in Accesses
  OBVIOUS
<1>3. \A n \in Nat : Access("enter", n) \in Accesses
  OBVIOUS
<1>4. \A o \in NodeOps, a \in Addr : Access(o, a) \in Accesses
  OBVIOUS
<1>5. \A o \in PlainOps : Access(o, None) \in Accesses
  BY DEF None
<1> QED  BY <1>1, <1>2, <1>3, <1>4, <1>5

\* What a thread has to do after some accesses more, before the rest.
LEMMA ThenLemma ==
  ASSUME NEW t \in Threads, todo \in [Threads -> Seq(Accesses)], todo[t] # <<>>,
         NEW first \in Seq(Accesses), Then(t, first)
  PROVE  /\ todo' \in [Threads -> Seq(Accesses)]
         /\ todo'[t] \in Seq(Accesses)
         /\ Len(todo'[t]) = Len(first) + Len(todo[t]) - 1
         /\ \A i \in 1 .. Len(first) : todo'[t][i] = first[i]
         /\ \A i \in 1 .. Len(todo'[t]) :
              i > Len(first) => i - Len(first) + 1 \in 2 .. Len(todo[t])
                                /\ todo'[t][i] = todo[t][i - Len(first) + 1]
         /\ \A u \in Threads : u # t => todo'[u] = todo[u]
<1>1. Tail(todo[t]) \in Seq(Accesses) /\ Len(Tail(todo[t])) = Len(todo[t]) - 1
      /\ \A i \in 1 .. Len(todo[t]) - 1 : Tail(todo[t])[i] = todo[t][i + 1]
  OBVIOUS
<1> DEFINE q == Tail(todo[t])
<1>2. first \o q \in Seq(Accesses) /\ Len(first \o q) = Len(first) + Len(q)
      /\ \A i \in 1 .. Len(first) + Len(q) :
           (first \o q)[i] = IF i <= Len(first) THEN first[i] ELSE q[i - Len(first)]
  BY <1>1
<1>3. todo' = [todo EXCEPT ![t] = first \o q]
  BY DEF Then
<1>4. todo'[t] = first \o q /\ \A u \in Threads : u # t => todo'[u] = todo[u]
  BY <1>3
<1>5. todo' \in [Threads -> Seq(Accesses)]
  BY <1>2, <1>3
<1> HIDE DEF q
<1>6. Len(q) = Len(todo[t]) - 1 /\ \A i \in 1 .. Len(q) : q[i] = todo[t][i + 1]
  BY <1>1 DEF q
<1>7. Len(first) \in Nat /\ Len(q) \in Nat
  BY <1>1 DEF q
<1>8. ASSUME NEW i \in 1 .. Len(todo'[t]), i > Len(first)
      PROVE  i - Len(first) + 1 \in 2 .. Len(todo[t])
             /\ todo'[t][i] = todo[t][i - Len(first) + 1]
  <2>1. i \in 1 .. Len(first) + Len(q) /\ todo'[t][i] = (first \o q)[i]
    BY <1>2, <1>4
  <2>2. todo'[t][i] = q[i - Len(first)]
    BY <1>2, <2>1, <1>7, <1>8
  <2>3. i - Len(first) \in 1 .. Len(q)
    BY <2>1, <1>7, <1>8
  <2>4. q[i - Len(first)] = todo[t][i - Len(first) + 1]
    BY <2>3, <1>6
  <2> QED  BY <2>2, <2>3, <2>4, <1>6, <1>7
<1>9. \A i \in 1 .. Len(first) : todo'[t][i] = first[i]
  BY <1>2, <1>4, <1>7
<1>10. Len(todo'[t]) = Len(first) + Len(todo[t]) - 1
  BY <1>2, <1>4, <1>6, <1>7
<1> QED  BY <1>2, <1>4, <1>5, <1>8, <1>9, <1>10

\* One access less.
LEMMA DoneLemma ==
  ASSUME NEW t \in Threads, todo \in [Threads -> Seq(Accesses)], todo[t] # <<>>, Done(t)
  PROVE  /\ todo' \in [Threads -> Seq(Accesses)]
         /\ Len(todo'[t]) = Len(todo[t]) - 1
         /\ \A i \in 1 .. Len(todo'[t]) : todo'[t][i] = todo[t][i + 1]
         /\ \A u \in Threads : u # t => todo'[u] = todo[u]
<1>0. <<>> \in Seq(Accesses)
  OBVIOUS
<1>1. PICK first \in Seq(Accesses) : first = <<>>
  BY <1>0
<1>2. Then(t, first) /\ Len(first) = 0
  BY <1>1 DEF Done
<1>3. /\ todo' \in [Threads -> Seq(Accesses)]
      /\ Len(todo'[t]) = Len(first) + Len(todo[t]) - 1
      /\ \A i \in 1 .. Len(todo'[t]) : i > Len(first) => todo'[t][i] = todo[t][i - Len(first) + 1]
      /\ \A u \in Threads : u # t => todo'[u] = todo[u]
  BY <1>2, ThenLemma
<1>4. Len(todo[t]) \in Nat
  OBVIOUS
<1> QED  BY <1>2, <1>3, <1>4

LEMMA SeqsEqual ==
  ASSUME NEW S, NEW p \in Seq(S), NEW q \in Seq(S), Len(p) = Len(q),
         \A i \in 1 .. Len(p) : p[i] = q[i]
  PROVE  p = q
  OBVIOUS

LEMMA NoneTyped == <<>> \in Seq(Accesses) /\ Len(<<>>) = 0
  OBVIOUS

LEMMA SwitchTyped ==
  ASSUME NEW s \in Steps, NEW off \in Nat
  PROVE  /\ switch_state_machine(s, off) \in Seq(Accesses)
         /\ switch_state_machine(s, off) = <<Access("switch", s), Access("enter", off)>>
<1>1. Access("switch", s) \in Accesses /\ Access("enter", off) \in Accesses
  BY AccessTypes DEF StepOps
<1> QED  BY <1>1 DEF switch_state_machine


\* Two literals after each other are one.
LEMMA OneAndTwo ==
  ASSUME NEW a, NEW b, NEW c
  PROVE  <<a>> \o <<b, c>> = <<a, b, c>>
<1>s. PICK S : a \in S /\ b \in S /\ c \in S
  <2> a \in {a, b, c} /\ b \in {a, b, c} /\ c \in {a, b, c}
    OBVIOUS
  <2> QED  OBVIOUS
<1>1. <<a>> \o <<b, c>> \in Seq(S) /\ Len(<<a>> \o <<b, c>>) = 3
  BY <1>s
<1>2. <<a, b, c>> \in Seq(S) /\ Len(<<a, b, c>>) = 3
  BY <1>s
<1>3. \A i \in 1 .. 3 : (<<a>> \o <<b, c>>)[i] = <<a, b, c>>[i]
  BY <1>s
<1> QED  BY <1>1, <1>2, <1>3, SeqsEqual

LEMMA TwoAndThree ==
  ASSUME NEW a, NEW b, NEW c, NEW d, NEW e
  PROVE  <<a, b>> \o <<c, d, e>> = <<a, b, c, d, e>>
<1>s. PICK S : a \in S /\ b \in S /\ c \in S /\ d \in S /\ e \in S
  <2> a \in {a, b, c, d, e} /\ b \in {a, b, c, d, e} /\ c \in {a, b, c, d, e}
      /\ d \in {a, b, c, d, e} /\ e \in {a, b, c, d, e}
    OBVIOUS
  <2> QED  OBVIOUS
<1>1. <<a, b>> \o <<c, d, e>> \in Seq(S) /\ Len(<<a, b>> \o <<c, d, e>>) = 5
  BY <1>s
<1>2. <<a, b, c, d, e>> \in Seq(S) /\ Len(<<a, b, c, d, e>>) = 5
  BY <1>s
<1>3. \A i \in 1 .. 5 : (<<a, b>> \o <<c, d, e>>)[i] = <<a, b, c, d, e>>[i]
  BY <1>s
<1> QED  BY <1>1, <1>2, <1>3, SeqsEqual

LEMMA TwoTwoAndOne ==
  ASSUME NEW a, NEW b, NEW c, NEW d, NEW e
  PROVE  (<<a, b>> \o <<c, d>>) \o <<e>> = <<a, b, c, d, e>>
<1>s. PICK S : a \in S /\ b \in S /\ c \in S /\ d \in S /\ e \in S
  <2> a \in {a, b, c, d, e} /\ b \in {a, b, c, d, e} /\ c \in {a, b, c, d, e}
      /\ d \in {a, b, c, d, e} /\ e \in {a, b, c, d, e}
    OBVIOUS
  <2> QED  OBVIOUS
<1>1. <<a, b>> \o <<c, d>> = <<a, b, c, d>>
  <2>1. <<a, b>> \o <<c, d>> \in Seq(S) /\ Len(<<a, b>> \o <<c, d>>) = 4
    BY <1>s
  <2>2. <<a, b, c, d>> \in Seq(S) /\ Len(<<a, b, c, d>>) = 4
    BY <1>s
  <2>3. \A i \in 1 .. 4 : (<<a, b>> \o <<c, d>>)[i] = <<a, b, c, d>>[i]
    BY <1>s
  <2> QED  BY <2>1, <2>2, <2>3, SeqsEqual
<1>2. <<a, b, c, d>> \o <<e>> = <<a, b, c, d, e>>
  <2>1. <<a, b, c, d>> \o <<e>> \in Seq(S) /\ Len(<<a, b, c, d>> \o <<e>>) = 5
    BY <1>s
  <2>2. <<a, b, c, d, e>> \in Seq(S) /\ Len(<<a, b, c, d, e>>) = 5
    BY <1>s
  <2>3. \A i \in 1 .. 5 : (<<a, b, c, d>> \o <<e>>)[i] = <<a, b, c, d, e>>[i]
    BY <1>s
  <2> QED  BY <2>1, <2>2, <2>3, SeqsEqual
<1> QED  BY <1>1, <1>2, Zenon

\* The end of each step, access by access.
LEMMA FinishIs ==
  /\ Finish(CMD) = <<Access("switch", INFO), Access("enter", 0)>>
  /\ Finish(INFO) = <<Access("switch", DATA), Access("enter", 0),
                      Access("rewind", None), Access("load", None), Access("first", None)>>
  /\ Finish(DATA) = <<Access("advance", None), Access("load", None), Access("next", None)>>
  /\ Finish(CRC) = <<Access("full", None), Access("switch", IDLE), Access("enter", 0)>>
<1>1. Finish(CMD) = <<Access("switch", INFO), Access("enter", 0)>>
  BY DEF Finish, switch_state_machine, IDLE, CMD, INFO, DATA, CRC
<1>2. Finish(DATA) = <<Access("advance", None), Access("load", None), Access("next", None)>>
  BY DEF Finish, IDLE, CMD, INFO, DATA, CRC
<1>3. Finish(INFO) = switch_state_machine(DATA, 0)
                     \o <<Access("rewind", None), Access("load", None), Access("first", None)>>
  BY DEF Finish, IDLE, CMD, INFO, DATA, CRC
<1>4. Finish(CRC) = <<Access("full", None)>> \o switch_state_machine(IDLE, 0)
  BY DEF Finish, IDLE, CMD, INFO, DATA, CRC
<1>5. Finish(INFO) = <<Access("switch", DATA), Access("enter", 0),
                       Access("rewind", None), Access("load", None), Access("first", None)>>
  <2>1. <<Access("switch", DATA), Access("enter", 0)>>
        \o <<Access("rewind", None), Access("load", None), Access("first", None)>>
        = <<Access("switch", DATA), Access("enter", 0),
            Access("rewind", None), Access("load", None), Access("first", None)>>
    BY TwoAndThree
  <2> QED  BY <1>3, <2>1 DEF switch_state_machine
<1>6. Finish(CRC) = <<Access("full", None), Access("switch", IDLE), Access("enter", 0)>>
  <2>1. <<Access("full", None)>> \o <<Access("switch", IDLE), Access("enter", 0)>>
        = <<Access("full", None), Access("switch", IDLE), Access("enter", 0)>>
    BY OneAndTwo
  <2> QED  BY <1>4, <2>1 DEF switch_state_machine
<1> QED  BY <1>1, <1>2, <1>5, <1>6

LEMMA FinishTyped ==
  ASSUME NEW s \in Steps, s # IDLE
  PROVE  Finish(s) \in Seq(Accesses) /\ Finish(s) # <<>>
<1>1. s \in {CMD, INFO, DATA, CRC}
  BY DEF Steps
<1>2. \A u \in Steps : Access("switch", u) \in Accesses
  BY AccessTypes DEF StepOps
<1>3. Access("switch", IDLE) \in Accesses /\ Access("switch", INFO) \in Accesses
      /\ Access("switch", DATA) \in Accesses
  BY <1>2 DEF Steps
<1>4. Access("enter", 0) \in Accesses
  BY AccessTypes
<1>5. Access("rewind", None) \in Accesses /\ Access("load", None) \in Accesses
      /\ Access("first", None) \in Accesses /\ Access("advance", None) \in Accesses
      /\ Access("next", None) \in Accesses /\ Access("full", None) \in Accesses
  BY AccessTypes DEF PlainOps
<1>6. CASE s = CMD
  BY <1>6, <1>3, <1>4, FinishIs
<1>7. CASE s = INFO
  BY <1>7, <1>3, <1>4, <1>5, FinishIs
<1>8. CASE s = DATA
  BY <1>8, <1>5, FinishIs
<1>9. CASE s = CRC
  BY <1>9, <1>3, <1>4, <1>5, FinishIs
<1> QED  BY <1>1, <1>6, <1>7, <1>8, <1>9

\* The access that comes next.
LEMMA FrontLemma ==
  ASSUME TodoOK, NEW t \in Threads, NEW op, IsNext(t, op)
  PROVE  /\ todo[t] # <<>> /\ Len(todo[t]) \in Nat \ {0}
         /\ Front(t) = todo[t][1] /\ Front(t).op = op
         /\ Front(t) \in Accesses /\ About(Front(t))
<1>1. todo[t] \in Seq(Accesses) /\ todo[t] # <<>> /\ Front(t).op = op
  BY DEF TodoOK, IsNext
<1>2. Front(t) = todo[t][1] /\ Len(todo[t]) \in Nat \ {0} /\ Front(t) \in Accesses
  BY <1>1 DEF Front
<1>3. About(Front(t))
  BY <1>2 DEF Accesses
<1> QED  BY <1>1, <1>2, <1>3

-----------------------------------------------------------------------------
(***************************************************************************)
(* Types.                                                                  *)
(***************************************************************************)
LEMMA FinishAccessTypes ==
  ASSUME TypeOK, TodoOK, NEW t \in Threads, FinishAccess(t)
  PROVE  TypeOK' /\ TodoOK'
<1> USE DEF stepVars, fileVars, pageVars
<1>t. todo \in [Threads -> Seq(Accesses)]
  BY DEF TodoOK
<1>n. <<>> \in Seq(Accesses)
  OBVIOUS
<1>1. CASE Switch(t)
  <2>1. todo[t] # <<>> /\ Front(t).op = "switch" /\ About(Front(t))
    BY <1>1, FrontLemma DEF Switch
  <2>2. step' \in Steps
    BY <1>1, <2>1 DEF Switch, About, StepOps
  <2>3. TodoOK'
    BY <1>1, <1>t, <1>n, <2>1, ThenLemma DEF Switch, Done, TodoOK
  <2> QED  BY <1>1, <2>2, <2>3 DEF Switch, TypeOK
<1>2. CASE EnterStep(t)
  <2>1. todo[t] # <<>> /\ Front(t).op = "enter" /\ About(Front(t))
    BY <1>2, FrontLemma DEF EnterStep
  <2>2. offset' \in [Steps -> Nat] /\ resendCnt' \in [Steps -> Nat]
    BY <1>2, <2>1 DEF EnterStep, Enter, About, TypeOK
  <2>3. TodoOK'
    BY <1>2, <1>t, <1>n, <2>1, ThenLemma DEF EnterStep, Done, TodoOK
  <2> QED  BY <1>2, <2>2, <2>3 DEF EnterStep, TypeOK
<1>3. CASE Rewind(t)
  <2>1. TodoOK'
    BY <1>3, <1>t, <1>n, ThenLemma DEF Rewind, IsNext, Done, TodoOK
  <2> QED  BY <1>3, <2>1 DEF Rewind, TypeOK
<1>4. CASE Advance(t)
  <2>1. TodoOK'
    BY <1>4, <1>t, <1>n, ThenLemma DEF Advance, IsNext, Done, TodoOK
  <2> QED  BY <1>4, <2>1 DEF Advance, TypeOK
<1>5. CASE Load(t)
  <2>1. TodoOK'
    BY <1>5, <1>t, <1>n, ThenLemma DEF Load, IsNext, Done, TodoOK
  <2> QED  BY <1>5, <2>1 DEF Load, TypeOK
<1>6. CASE First(t)
  <2>1. PICK s \in Steps : Then(t, switch_state_machine(s, 0))
    BY <1>6 DEF First, Steps
  <2>2. TodoOK'
    BY <1>6, <1>t, <2>1, ThenLemma, SwitchTyped DEF First, IsNext, TodoOK
  <2> QED  BY <1>6, <2>2 DEF First, TypeOK
<1>7. CASE NextBlock(t)
  <2>1. \/ Then(t, <<Access("resume", None)>>)
        \/ Then(t, switch_state_machine(CRC, 0))
    BY <1>7 DEF NextBlock
  <2>2. <<Access("resume", None)>> \in Seq(Accesses)
    BY AccessTypes DEF PlainOps
  <2>3. switch_state_machine(CRC, 0) \in Seq(Accesses)
    BY SwitchTyped DEF Steps
  <2>4. TodoOK'
    BY <1>7, <1>t, <2>1, <2>2, <2>3, ThenLemma DEF NextBlock, IsNext, TodoOK
  <2>5. full' = TRUE \/ full' = FALSE \/ full' = full
    BY <1>7 DEF NextBlock
  <2>6. full' \in BOOLEAN
    BY <2>5, Zenon DEF TypeOK
  <2> QED  BY <1>7, <2>4, <2>6 DEF NextBlock, TypeOK
<1>8. CASE Resume(t)
  <2>1. switch_state_machine(DATA, fileOffset) \in Seq(Accesses)
    BY SwitchTyped DEF Steps, TypeOK
  <2>2. TodoOK'
    BY <1>8, <1>t, <2>1, ThenLemma DEF Resume, IsNext, TodoOK
  <2> QED  BY <1>8, <2>2 DEF Resume, TypeOK
<1>9. CASE Full(t)
  <2>1. TodoOK'
    BY <1>9, <1>t, <1>n, ThenLemma DEF Full, IsNext, Done, TodoOK
  <2> QED  BY <1>9, <2>1 DEF Full, TypeOK
<1> QED  BY <1>1, <1>2, <1>3, <1>4, <1>5, <1>6, <1>7, <1>8, <1>9 DEF FinishAccess

\* The handler that is about to mark knows the step it was called for.
LEMMA MarkLemma ==
  ASSUME TypeOK, TodoOK, CommShape, IsNext("comm", "mark")
  PROVE  /\ todo["comm"][2] \in Accesses
         /\ todo["comm"][2].op = "judge" /\ todo["comm"][2].arg \in Steps \ {IDLE}
         /\ Len(todo["comm"]) = 2 /\ Front("comm").arg \in Addr
         /\ Awaited(todo["comm"][2].arg) \in Positions
<1>1. "comm" \in Threads /\ todo["comm"] \in Seq(Accesses)
  BY DEF Threads, TodoOK
<1>2. Len(todo["comm"]) \in Nat \ {0} /\ todo["comm"][1].op = "mark"
      /\ Front("comm").op = "mark" /\ About(Front("comm"))
  BY <1>1, FrontLemma
<1>3. Len(todo["comm"]) = 2 /\ todo["comm"][2].op = "judge"
  BY <1>2 DEF CommShape, NodeOps
<1>4. todo["comm"][2] \in Accesses
  BY <1>1, <1>3
<1>5. todo["comm"][2].arg \in Steps \ {IDLE}
  BY <1>3, <1>4 DEF Accesses, About, StepOps
<1>6. \A s \in Steps : Awaited(s) \in Positions
  BY DEF Awaited, At, Positions, TypeOK, Steps, IDLE, CMD, INFO, DATA, CRC
<1>7. Front("comm").arg \in Addr
  BY <1>2 DEF About, NodeOps
<1> QED  BY <1>3, <1>4, <1>5, <1>6, <1>7

LEMMA CommTypes ==
  ASSUME TypeOK, TodoOK, CommShape, CommReply \/ MatchOffset \/ Mark \/ Judge
  PROVE  TypeOK' /\ TodoOK'
<1> USE DEF stepVars, fileVars, pageVars
<1>t. todo \in [Threads -> Seq(Accesses)] /\ "comm" \in Threads
  BY DEF TodoOK, Threads
<1>n. <<>> \in Seq(Accesses)
  OBVIOUS
<1>m. \A a \in Addr : <<Access("match", a)>> \in Seq(Accesses) /\ <<Access("mark", a)>> \in Seq(Accesses)
  BY AccessTypes DEF NodeOps
<1>1. ASSUME NEW s \in Steps \ {IDLE}, NEW first \in Seq(Accesses), ReplyArrives(s, first)
      PROVE  TypeOK' /\ TodoOK'
  <2>1. Access("judge", s) \in Accesses
    BY AccessTypes
  <2>2. first \o <<Access("judge", s)>> \in Seq(Accesses)
    BY <2>1
  <2>3. TodoOK'
    BY <1>1, <1>t, <2>2 DEF ReplyArrives, TodoOK
  <2> QED  BY <1>1, <2>3 DEF ReplyArrives, TypeOK
<1>2. CASE CommReply
  <2> {CMD, INFO, CRC} \subseteq Steps \ {IDLE} /\ DATA \in Steps \ {IDLE}
    BY DEF Steps, IDLE, CMD, INFO, DATA, CRC
  <2>1. CASE boot_recv_refusal
    BY <1>1, <1>n, <2>1 DEF boot_recv_refusal
  <2>2. ASSUME NEW src \in Addr, boot_recv_ok_respond(src)
        PROVE  TypeOK' /\ TodoOK'
    BY <1>1, <1>m, <2>2 DEF boot_recv_ok_respond
  <2>3. ASSUME NEW src \in Addr, boot_recv_file_data_respond(src)
        PROVE  TypeOK' /\ TodoOK'
    BY <1>1, <1>m, <2>3 DEF boot_recv_file_data_respond
  <2> QED  BY <1>2, <2>1, <2>2, <2>3 DEF CommReply
<1>3. CASE MatchOffset
  <2>1. todo["comm"] # <<>> /\ Front("comm").op = "match" /\ About(Front("comm"))
    BY <1>3, <1>t, FrontLemma DEF MatchOffset
  <2>2. Front("comm").arg \in Addr
    BY <2>1 DEF About, NodeOps
  <2>3. TodoOK'
    BY <1>3, <1>t, <1>n, <1>m, <2>1, <2>2, ThenLemma DEF MatchOffset, Done, TodoOK
  <2>4. replied' \in [Blocks -> SUBSET Addr]
    BY <1>3, <2>2 DEF MatchOffset, TypeOK
  <2> QED  BY <1>3, <2>3, <2>4 DEF MatchOffset, TypeOK
<1>4. CASE Mark
  <2>1. IsNext("comm", "mark")
    BY <1>4 DEF Mark
  <2>2. IsNodeList(nodes', Addr)
    BY <1>4, <2>1, MarkLemma, SetProcessLemma DEF Mark, TypeOK
  <2>3. TodoOK'
    BY <1>4, <1>t, <1>n, ThenLemma DEF Mark, IsNext, Done, TodoOK
  <2> QED  BY <1>4, <2>2, <2>3 DEF Mark, TypeOK
<1>5. CASE Judge
  <2>1. todo["comm"] # <<>> /\ Front("comm").op = "judge" /\ About(Front("comm"))
    BY <1>5, <1>t, FrontLemma DEF Judge
  <2>2. Finish(Front("comm").arg) \in Seq(Accesses)
    BY <2>1, FinishTyped DEF About, StepOps
  <2>3. Then("comm", Finish(Front("comm").arg)) \/ Then("comm", <<>>)
    BY <1>5 DEF Judge
  <2>4. TodoOK'
    BY <1>5, <1>t, <1>n, <2>1, <2>2, <2>3, ThenLemma DEF Judge, TodoOK
  <2> QED  BY <1>5, <2>4 DEF Judge, TypeOK
<1> QED  BY <1>2, <1>3, <1>4, <1>5

LEMMA GuiTypes ==
  ASSUME TypeOK, TodoOK, GuiPoll \/ ClearProgress \/ ListNodes \/ StartTimer
  PROVE  TypeOK' /\ TodoOK'
<1> USE DEF stepVars, fileVars, pageVars
<1>t. todo \in [Threads -> Seq(Accesses)] /\ "gui" \in Threads
  BY DEF TodoOK, Threads
<1>n. <<>> \in Seq(Accesses)
  OBVIOUS
<1>s. \A o \in {"count", "compare", "remove", "decide"} : \A s \in Steps :
        <<Access(o, s)>> \in Seq(Accesses)
  BY AccessTypes DEF StepOps
<1>p. \A o \in PlainOps : <<Access(o, None)>> \in Seq(Accesses)
  BY AccessTypes
<1>f. \A op : IsNext("gui", op) => /\ todo["gui"] # <<>>
                                   /\ op \in StepOps => Front("gui").arg \in Steps
  BY <1>t, FrontLemma DEF About
<1>1. CASE Poll
  <2>1. <<Access("take", None)>> \in Seq(Accesses) /\ <<Access("show", None)>> \in Seq(Accesses)
    BY <1>p DEF PlainOps
  <2>2. TodoOK'
    BY <1>1, <1>t, <1>n, <2>1 DEF Poll, TodoOK
  <2> QED  BY <1>1, <2>2 DEF Poll, TypeOK
<1>2. CASE Take
  <2>1. <<Access("count", step)>> \in Seq(Accesses)
    BY <1>s DEF TypeOK
  <2>2. TodoOK'
    BY <1>2, <1>t, <1>n, <1>f, <2>1, ThenLemma DEF Take, Done, TodoOK
  <2> QED  BY <1>2, <2>2 DEF Take, TypeOK
<1>3. CASE Count
  <2>1. todo["gui"] # <<>> /\ Front("gui").arg \in Steps
    BY <1>3, <1>f DEF Count, StepOps
  <2>2. TodoOK'
    BY <1>3, <1>t, <1>s, <2>1, ThenLemma DEF Count, TodoOK
  <2>3. resendCnt' \in [Steps -> Nat]
    BY <1>3, <2>1 DEF Count, TypeOK
  <2> QED  BY <1>3, <2>2, <2>3 DEF Count, TypeOK
<1>4. CASE Compare
  <2>1. todo["gui"] # <<>> /\ Front("gui").arg \in Steps
    BY <1>4, <1>f DEF Compare, StepOps
  <2>2. TodoOK'
    BY <1>4, <1>t, <1>n, <1>s, <2>1, ThenLemma DEF Compare, Done, TodoOK
  <2>3. giveUps' \in Nat /\ silent' \subseteq Addr
    BY <1>4 DEF Compare, TypeOK, IsNodeList
  <2> QED  BY <1>4, <2>2, <2>3 DEF Compare, TypeOK
<1>5. CASE Remove
  <2>1. todo["gui"] # <<>> /\ Front("gui").arg \in Steps
    BY <1>5, <1>f DEF Remove, StepOps
  <2>2. TodoOK'
    BY <1>5, <1>t, <1>s, <2>1, ThenLemma DEF Remove, TodoOK
  <2>3. IsNodeList(nodes', Addr)
    BY <1>5, RemoveDiffLemma DEF Remove, TypeOK
  <2> QED  BY <1>5, <2>2, <2>3 DEF Remove, TypeOK
<1>6. CASE Decide
  <2>1. todo["gui"] # <<>> /\ Front("gui").arg \in Steps
    BY <1>6, <1>f DEF Decide, StepOps
  <2>2. switch_state_machine(IDLE, 0) \o <<Access("failed", None)>> \in Seq(Accesses)
    <3>1. switch_state_machine(IDLE, 0) \in Seq(Accesses)
      BY SwitchTyped DEF Steps
    <3>2. <<Access("failed", None)>> \in Seq(Accesses)
      BY <1>p DEF PlainOps
    <3> QED  BY <3>1, <3>2
  <2>3. Front("gui").arg # IDLE => Finish(Front("gui").arg) \in Seq(Accesses)
    BY <2>1, FinishTyped
  <2>4. TodoOK'
    BY <1>6, <1>t, <2>1, <2>2, <2>3, ThenLemma DEF Decide, TodoOK
  <2> QED  BY <1>6, <2>4 DEF Decide, TypeOK
<1>7. CASE Failed
  <2>1. TodoOK'
    BY <1>7, <1>t, <1>n, <1>f, ThenLemma DEF Failed, Done, TodoOK
  <2> QED  BY <1>7, <2>1 DEF Failed, TypeOK
<1>8. CASE slotUpdataProgress
  <2>1. TodoOK'
    BY <1>8, <1>t, <1>n, <1>f, ThenLemma DEF slotUpdataProgress, Done, TodoOK
  <2>2. enabled' \in BOOLEAN
    BY <1>8, Zenon DEF slotUpdataProgress, TypeOK
  <2> QED  BY <1>8, <2>1, <2>2 DEF slotUpdataProgress, TypeOK
<1>9. CASE ClearProgress
  <2>1. TodoOK'
    BY <1>9, <1>t, <1>n, <1>f, ThenLemma DEF ClearProgress, Done, TodoOK
  <2> QED  BY <1>9, <2>1 DEF ClearProgress, TypeOK
<1>10. CASE ListNodes
  <2>1. TodoOK'
    BY <1>10, <1>t, <1>n, <1>f, ThenLemma DEF ListNodes, Done, TodoOK
  <2>2. IsNodeList(nodes', Addr)
    BY <1>10, NewListLemma DEF ListNodes, TodoOK
  <2> QED  BY <1>10, <2>1, <2>2 DEF ListNodes, TypeOK
<1>11. CASE StartTimer
  <2>1. TodoOK'
    BY <1>11, <1>t, <1>n, <1>f, ThenLemma DEF StartTimer, Done, TodoOK
  <2> QED  BY <1>11, <2>1 DEF StartTimer, TypeOK
<1> QED  BY <1>1, <1>2, <1>3, <1>4, <1>5, <1>6, <1>7, <1>8, <1>9, <1>10, <1>11 DEF GuiPoll

\* What a click begins.
LEMMA StartTyped ==
  /\ <<Access("clear", None), Access("list", None)>>
     \o switch_state_machine(CMD, 0) \o <<Access("run", None)>> \in Seq(Accesses)
  /\ <<Access("clear", None), Access("list", None)>>
     \o switch_state_machine(CMD, 0) \o <<Access("run", None)>>
     = <<Access("clear", None), Access("list", None), Access("switch", CMD),
         Access("enter", 0), Access("run", None)>>
<1>1. switch_state_machine(CMD, 0) = <<Access("switch", CMD), Access("enter", 0)>>
  BY DEF switch_state_machine
<1>2. (<<Access("clear", None), Access("list", None)>>
       \o <<Access("switch", CMD), Access("enter", 0)>>) \o <<Access("run", None)>>
      = <<Access("clear", None), Access("list", None), Access("switch", CMD),
          Access("enter", 0), Access("run", None)>>
  BY TwoTwoAndOne
<1>3. /\ Access("clear", None) \in Accesses /\ Access("list", None) \in Accesses
      /\ Access("switch", CMD) \in Accesses /\ Access("enter", 0) \in Accesses
      /\ Access("run", None) \in Accesses
  BY AccessTypes DEF PlainOps, StepOps, Steps
<1>4. <<Access("clear", None), Access("list", None), Access("switch", CMD),
        Access("enter", 0), Access("run", None)>> \in Seq(Accesses)
  BY <1>3
<1> QED  BY <1>1, <1>2, <1>4, Zenon

LEMMA ButtonTypes ==
  ASSUME TypeOK, TodoOK, BootAssumption, Buttons
  PROVE  TypeOK' /\ TodoOK'
<1> USE DEF stepVars, fileVars, pageVars
<1>t. todo \in [Threads -> Seq(Accesses)] /\ "gui" \in Threads
  BY DEF TodoOK, Threads
<1>1. \A s \in Selections : s \subseteq Addr
  BY DEF BootAssumption
<1>2. ops \in Nat
  BY DEF TodoOK
<1>3. ops' \in Nat /\ (disturbed' = disturbed \/ disturbed' = disturbed + 1)
      /\ ops' = ops + 1
  <2>1. Disturbs => disturbed' = disturbed \/ disturbed' = disturbed + 1
    BY DEF Disturbs, TypeOK
  <2>2. ops' = ops + 1
    BY DEF Buttons, StartButton, ResetButton, StopButton, Press
  <2>3. disturbed' = disturbed \/ Disturbs
    BY DEF Buttons, StartButton, ResetButton, StopButton
  <2> QED  BY <1>2, <2>1, <2>2, <2>3
<1>4. disturbed' \in 0 .. ops'
  BY <1>2, <1>3 DEF TypeOK
<1>5. CASE StartButton
  <2>1. todo' \in [Threads -> Seq(Accesses)]
    BY <1>5, <1>t, StartTyped DEF StartButton
  <2>2. selected' \subseteq Addr
    BY <1>5, <1>1 DEF StartButton
  <2>3. replied' \in [Blocks -> SUBSET Addr]
    BY <1>5 DEF StartButton
  <2> QED  BY <1>3, <1>4, <1>5, <2>1, <2>2, <2>3 DEF StartButton, TypeOK, TodoOK
<1>6. CASE ResetButton
  <2>1. <<Access("list", None)>> \in Seq(Accesses)
    BY AccessTypes DEF PlainOps
  <2>2. todo' \in [Threads -> Seq(Accesses)]
    BY <1>6, <1>t, <2>1 DEF ResetButton
  <2>3. selected' \subseteq Addr
    BY <1>6, <1>1 DEF ResetButton
  <2> QED  BY <1>3, <1>4, <1>6, <2>2, <2>3 DEF ResetButton, TypeOK, TodoOK
<1>7. CASE StopButton
  BY <1>3, <1>4, <1>7 DEF StopButton, TypeOK, TodoOK
<1> QED  BY <1>5, <1>6, <1>7 DEF Buttons

-----------------------------------------------------------------------------
(***************************************************************************)
(* The shapes of the handlers.                                             *)
(***************************************************************************)
\* A sequence of accesses of some kinds only.
Only(q, some) == \A i \in 1 .. Len(q) : q[i].op \in some

\* At most one access of a sequence can be overtaken.
LoneIn(q) == \A i, j \in 1 .. Len(q) : q[i].op \in LoneOps /\ q[j].op \in LoneOps => i = j

EndOps == {"switch", "enter", "rewind", "load", "first", "advance", "next", "full"}

LEMMA FinishOps ==
  ASSUME NEW s \in Steps, s # IDLE
  PROVE  /\ Only(Finish(s), EndOps)
         /\ LoneIn(Finish(s))
         /\ \A i \in 1 .. Len(Finish(s)) :
              /\ Finish(s)[i].op = "advance" => i = 1 /\ s = DATA
              /\ Finish(s)[i].op = "rewind" => s = INFO
         /\ Len(Finish(s)) \in Nat \ {0}
         /\ Finish(s)[1].op = (IF s = DATA THEN "advance" ELSE IF s = CRC THEN "full" ELSE "switch")
<1>1. s \in {CMD, INFO, DATA, CRC}
  BY DEF Steps
<1> USE DEF Only, LoneIn, LoneOps, TurnOps, EndOps
<1>2. CASE s = CMD
  <2>1. Len(Finish(s)) = 2 /\ Finish(s)[1].op = "switch" /\ Finish(s)[2].op = "enter"
    BY <1>2, FinishIs, AccessIs
  <2>2. \A i \in 1 .. Len(Finish(s)) : Finish(s)[i].op \in {"switch", "enter"}
    BY <2>1
  <2> QED  BY <1>2, <2>1, <2>2 DEF CMD, INFO, DATA, CRC
<1>3. CASE s = INFO
  <2>1. /\ Len(Finish(s)) = 5 /\ Finish(s)[1].op = "switch" /\ Finish(s)[2].op = "enter"
        /\ Finish(s)[3].op = "rewind" /\ Finish(s)[4].op = "load" /\ Finish(s)[5].op = "first"
    BY <1>3, FinishIs, AccessIs
  <2>2. \A i \in 1 .. Len(Finish(s)) :
          \/ i = 3 /\ Finish(s)[i].op = "rewind"
          \/ Finish(s)[i].op \in {"switch", "enter", "load", "first"}
    BY <2>1
  <2> QED  BY <1>3, <2>1, <2>2 DEF CMD, INFO, DATA, CRC
<1>4. CASE s = DATA
  <2>1. /\ Len(Finish(s)) = 3 /\ Finish(s)[1].op = "advance" /\ Finish(s)[2].op = "load"
        /\ Finish(s)[3].op = "next"
    BY <1>4, FinishIs, AccessIs
  <2>2. \A i \in 1 .. Len(Finish(s)) :
          \/ i = 1 /\ Finish(s)[i].op = "advance"
          \/ Finish(s)[i].op \in {"load", "next"}
    BY <2>1
  <2> QED  BY <1>4, <2>1, <2>2 DEF CMD, INFO, DATA, CRC
<1>5. CASE s = CRC
  <2>1. /\ Len(Finish(s)) = 3 /\ Finish(s)[1].op = "full" /\ Finish(s)[2].op = "switch"
        /\ Finish(s)[3].op = "enter"
    BY <1>5, FinishIs, AccessIs
  <2>2. \A i \in 1 .. Len(Finish(s)) : Finish(s)[i].op \in {"full", "switch", "enter"}
    BY <2>1
  <2> QED  BY <1>5, <2>1, <2>2 DEF CMD, INFO, DATA, CRC
<1> QED  BY <1>1, <1>2, <1>3, <1>4, <1>5

\* No listed slave comes to be recorded at a block.
NoneCounted(list) == \A a \in DOMAIN list : list[a].step # DATA

LEMMA CommShapeThen ==
  ASSUME TodoOK, CommShape, todo["comm"] # <<>>, NEW first \in Seq(Accesses),
         Then("comm", first), Only(first, {"switch", "enter", "resume"}),
         NoneCounted(nodes) => NoneCounted(nodes)'
  PROVE  CommShape'
<1> DEFINE old == todo["comm"]
           new == todo'["comm"]
<1>1. /\ old \in Seq(Accesses) /\ old # <<>>
      /\ new \in Seq(Accesses) /\ Len(new) = Len(first) + Len(old) - 1
      /\ \A i \in 1 .. Len(first) : new[i] = first[i]
      /\ \A i \in 1 .. Len(new) :
           i > Len(first) => i - Len(first) + 1 \in 2 .. Len(old)
                             /\ new[i] = old[i - Len(first) + 1]
  BY ThenLemma DEF TodoOK, Threads
<1>2. Len(old) \in Nat /\ Len(new) \in Nat /\ Len(first) \in Nat
  BY <1>1
<1>3. \A i \in 1 .. Len(old) :
        /\ old[i].op \in NodeOps => i = 1
        /\ old[i].op = "judge" => i = Len(old)
        /\ old[i].op = "advance" => i = 1
        /\ old[i].op = "rewind" => NoneCounted(nodes)
  BY DEF CommShape, NoneCounted
<1> HIDE DEF old, new
<1>4. ASSUME NEW i \in 1 .. Len(new)
      PROVE  /\ new[i].op \notin NodeOps
             /\ new[i].op = "judge" => i = Len(new)
             /\ new[i].op # "advance"
             /\ new[i].op = "rewind" => NoneCounted(nodes)'
  <2>1. CASE i <= Len(first)
    <3>1. new[i].op \in {"switch", "enter", "resume"}
      BY <1>1, <1>2, <1>4, <2>1 DEF Only
    <3> QED  BY <3>1 DEF NodeOps
  <2>2. CASE i > Len(first)
    <3> DEFINE k == i - Len(first) + 1
    <3>1. k \in 2 .. Len(old) /\ new[i] = old[k]
      BY <1>1, <1>4, <2>2
    <3>2. k \in 1 .. Len(old) /\ k # 1
      BY <1>2, <3>1
    <3>3. new[i].op \notin NodeOps /\ new[i].op # "advance"
      BY <1>3, <3>1, <3>2
    <3>4. new[i].op = "judge" => i = Len(new)
      BY <1>1, <1>2, <1>3, <3>1, <3>2
    <3>5. new[i].op = "rewind" => NoneCounted(nodes)'
      BY <1>3, <3>1, <3>2
    <3> QED  BY <3>3, <3>4, <3>5
  <2> QED  BY <1>2, <2>1, <2>2
<1> QED  BY <1>4 DEF new, CommShape, NoneCounted

\* What the other thread does to the list does not disturb the handler.
LEMMA CommShapeKept ==
  ASSUME CommShape, todo'["comm"] = todo["comm"], NoneCounted(nodes) => NoneCounted(nodes)'
  PROVE  CommShape'
  BY DEF CommShape, NoneCounted

LEMMA GuiShapeThen ==
  ASSUME TodoOK, GuiShape, todo["gui"] # <<>>, NEW first \in Seq(Accesses),
         Then("gui", first), LoneIn(first),
         \A i \in 1 .. Len(first) : first[i].op # "list",
         Front("gui").op = "clear" => first = <<>>,
         Front("gui").op \in LoneOps \/ \A i \in 1 .. Len(first) : first[i].op \notin LoneOps
  PROVE  GuiShape'
<1> DEFINE old == todo["gui"]
           new == todo'["gui"]
<1>1. /\ old \in Seq(Accesses) /\ old # <<>>
      /\ new \in Seq(Accesses) /\ Len(new) = Len(first) + Len(old) - 1
      /\ \A i \in 1 .. Len(first) : new[i] = first[i]
      /\ \A i \in 1 .. Len(new) :
           i > Len(first) => i - Len(first) + 1 \in 2 .. Len(old)
                             /\ new[i] = old[i - Len(first) + 1]
  BY ThenLemma DEF TodoOK, Threads
<1>2. Len(old) \in Nat \ {0} /\ Len(new) \in Nat /\ Len(first) \in Nat
  BY <1>1
<1>3. Front("gui") = old[1]
  BY <1>1 DEF Front
<1>4. /\ \A i, j \in 1 .. Len(old) : old[i].op \in LoneOps /\ old[j].op \in LoneOps => i = j
      /\ \A i \in 1 .. Len(old) : old[i].op = "list" => \A j \in 1 .. i - 1 : old[j].op = "clear"
  BY DEF GuiShape
<1> HIDE DEF old, new
<1>5. \A i \in 2 .. Len(old) : old[1].op \in LoneOps => old[i].op \notin LoneOps
  BY <1>2, <1>4
<1>6. ASSUME NEW i \in 1 .. Len(new), NEW j \in 1 .. Len(new),
             new[i].op \in LoneOps, new[j].op \in LoneOps
      PROVE  i = j
  <2>1. CASE i <= Len(first) /\ j <= Len(first)
    BY <1>1, <1>2, <1>6, <2>1 DEF LoneIn
  <2>2. CASE i > Len(first) /\ j > Len(first)
    <3>1. /\ i - Len(first) + 1 \in 1 .. Len(old) /\ new[i] = old[i - Len(first) + 1]
          /\ j - Len(first) + 1 \in 1 .. Len(old) /\ new[j] = old[j - Len(first) + 1]
      BY <1>1, <1>2, <2>2
    <3>2. i - Len(first) + 1 = j - Len(first) + 1
      BY <1>4, <1>6, <3>1
    <3> QED  BY <1>2, <3>2
  <2>3. CASE i <= Len(first) /\ j > Len(first)
    <3>1. first[i].op \in LoneOps /\ i \in 1 .. Len(first)
      BY <1>1, <1>2, <1>6, <2>3
    <3>2. old[1].op \in LoneOps
      BY <1>3, <3>1
    <3>3. j - Len(first) + 1 \in 2 .. Len(old) /\ new[j] = old[j - Len(first) + 1]
      BY <1>1, <2>3
    <3> QED  BY <1>5, <1>6, <3>2, <3>3
  <2>4. CASE i > Len(first) /\ j <= Len(first)
    <3>1. first[j].op \in LoneOps /\ j \in 1 .. Len(first)
      BY <1>1, <1>2, <1>6, <2>4
    <3>2. old[1].op \in LoneOps
      BY <1>3, <3>1
    <3>3. i - Len(first) + 1 \in 2 .. Len(old) /\ new[i] = old[i - Len(first) + 1]
      BY <1>1, <2>4
    <3> QED  BY <1>5, <1>6, <3>2, <3>3
  <2> QED  BY <1>2, <2>1, <2>2, <2>3, <2>4
<1>7. ASSUME NEW i \in 1 .. Len(new), new[i].op = "list", NEW j \in 1 .. i - 1
      PROVE  new[j].op = "clear"
  <2>1. i > Len(first)
    BY <1>1, <1>2, <1>7
  <2> DEFINE k == i - Len(first) + 1
  <2>2. k \in 2 .. Len(old) /\ new[i] = old[k]
    BY <1>1, <2>1
  <2>3. \A l \in 1 .. k - 1 : old[l].op = "clear"
    BY <1>2, <1>4, <1>7, <2>2
  <2>4. old[1].op = "clear"
    BY <2>2, <2>3
  <2>5. Len(first) = 0
    BY <1>3, <2>4
  <2>6. j + 1 \in 1 .. k - 1 /\ j \in 1 .. Len(new) /\ j > Len(first) /\ j - Len(first) + 1 = j + 1
    BY <1>2, <2>1, <2>5
  <2>7. new[j] = old[j + 1]
    BY <1>1, <2>6
  <2> QED  BY <2>3, <2>6, <2>7
<1> QED  BY <1>6, <1>7 DEF GuiShape, new

LEMMA GuiShapeKept ==
  ASSUME GuiShape, todo'["gui"] = todo["gui"]
  PROVE  GuiShape'
  BY DEF GuiShape

\* What an access to the end of a step may put before the rest.
GoesOnOps == {"switch", "enter", "resume"}

LEMMA ShortSequences ==
  /\ Only(<<>>, GoesOnOps) /\ <<>> \in Seq(Accesses)
  /\ \A s \in Steps, off \in Nat : /\ switch_state_machine(s, off) \in Seq(Accesses)
                                   /\ Only(switch_state_machine(s, off), GoesOnOps)
  /\ <<Access("resume", None)>> \in Seq(Accesses)
  /\ Only(<<Access("resume", None)>>, GoesOnOps)
<1>1. Only(<<>>, GoesOnOps) /\ <<>> \in Seq(Accesses)
  BY DEF Only
<1>2. ASSUME NEW s \in Steps, NEW off \in Nat
      PROVE  /\ switch_state_machine(s, off) \in Seq(Accesses)
             /\ Only(switch_state_machine(s, off), GoesOnOps)
  <2>1. Len(switch_state_machine(s, off)) = 2
        /\ switch_state_machine(s, off)[1].op = "switch"
        /\ switch_state_machine(s, off)[2].op = "enter"
    BY SwitchTyped, AccessIs
  <2> QED  BY <2>1, SwitchTyped DEF Only, GoesOnOps
<1>3. <<Access("resume", None)>> \in Seq(Accesses)
  BY AccessTypes DEF PlainOps
<1>4. Only(<<Access("resume", None)>>, GoesOnOps)
  BY AccessIs DEF Only, GoesOnOps
<1> QED  BY <1>1, <1>2, <1>3, <1>4

LEMMA FinishMoves ==
  ASSUME TypeOK, TodoOK, NEW t \in Threads, FinishAccess(t)
  PROVE  /\ todo[t] # <<>> /\ Front(t).op \in EndOps \cup {"resume"} /\ nodes' = nodes
         /\ \E first \in Seq(Accesses) : Then(t, first) /\ Only(first, GoesOnOps)
<1>1. PICK op \in EndOps \cup {"resume"} : IsNext(t, op)
  BY DEF FinishAccess, Switch, EnterStep, Rewind, Advance, Load, First, NextBlock, Resume, Full,
         EndOps
<1>2. todo[t] # <<>> /\ Front(t).op \in EndOps \cup {"resume"}
  BY <1>1 DEF IsNext
<1>3. nodes' = nodes
  BY DEF FinishAccess, Switch, EnterStep, Rewind, Advance, Load, First, NextBlock, Resume, Full
<1>4. \/ Then(t, <<>>)
      \/ Then(t, <<Access("resume", None)>>)
      \/ \E s \in Steps, off \in Nat : Then(t, switch_state_machine(s, off))
  <2>1. DATA \in Steps /\ CRC \in Steps /\ fileOffset \in Nat /\ 0 \in Nat
    BY DEF Steps, TypeOK
  <2> QED  BY <2>1 DEF FinishAccess, Switch, EnterStep, Rewind, Advance, Load, First, NextBlock,
                       Resume, Full, Done
<1> QED  BY <1>2, <1>3, <1>4, ShortSequences

\* No access to the end of a step spoils a shape.
LEMMA FinishAccessShapes ==
  ASSUME TypeOK, TodoOK, CommShape, GuiShape, NEW t \in Threads, FinishAccess(t)
  PROVE  CommShape' /\ GuiShape'
<1>1. PICK first \in Seq(Accesses) : Then(t, first) /\ Only(first, GoesOnOps)
  BY FinishMoves
<1>2. todo[t] # <<>> /\ Front(t).op \in EndOps \cup {"resume"} /\ nodes' = nodes
  BY FinishMoves
<1>3. NoneCounted(nodes) => NoneCounted(nodes)'
  BY <1>2 DEF NoneCounted
<1>4. \A u \in Threads : u # t => todo'[u] = todo[u]
  BY <1>1, <1>2, ThenLemma DEF TodoOK
<1>5. CASE t = "comm"
  <2>1. CommShape'
    BY <1>1, <1>2, <1>3, <1>5, CommShapeThen DEF GoesOnOps
  <2>2. GuiShape'
    BY <1>4, <1>5, GuiShapeKept DEF Threads
  <2> QED  BY <2>1, <2>2
<1>6. CASE t = "gui"
  <2>1. CommShape'
    BY <1>3, <1>4, <1>6, CommShapeKept DEF Threads
  <2>2. \A i \in 1 .. Len(first) : first[i].op \notin LoneOps /\ first[i].op # "list"
    BY <1>1 DEF Only, GoesOnOps, LoneOps, TurnOps
  <2>3. LoneIn(first)
    BY <2>2 DEF LoneIn
  <2>4. Front("gui").op # "clear"
    BY <1>2, <1>6 DEF EndOps
  <2>5. GuiShape'
    BY <1>1, <1>2, <1>6, <2>2, <2>3, <2>4, GuiShapeThen
  <2> QED  BY <2>1, <2>5
<1> QED  BY <1>5, <1>6 DEF Threads

\* The shape of a handler that has yet to judge, and perhaps to mark.
LEMMA ReplyShape ==
  ASSUME \/ Len(todo'["comm"]) = 1 /\ todo'["comm"][1].op = "judge"
         \/ /\ Len(todo'["comm"]) = 2 /\ todo'["comm"][1].op \in NodeOps
            /\ todo'["comm"][2].op = "judge"
  PROVE  CommShape'
<1>1. ASSUME NEW i \in 1 .. Len(todo'["comm"])
      PROVE  \/ todo'["comm"][i].op = "judge" /\ i = Len(todo'["comm"])
             \/ /\ todo'["comm"][i].op \in NodeOps
                /\ i = 1 /\ Len(todo'["comm"]) = 2 /\ todo'["comm"][2].op = "judge"
  <2>1. CASE Len(todo'["comm"]) = 1 /\ todo'["comm"][1].op = "judge"
    <3>1. i = 1
      BY <2>1
    <3> QED  BY <2>1, <3>1
  <2>2. CASE /\ Len(todo'["comm"]) = 2 /\ todo'["comm"][1].op \in NodeOps
             /\ todo'["comm"][2].op = "judge"
    <3>1. i = 1 \/ i = 2
      BY <2>2
    <3> QED  BY <2>2, <3>1
  <2> QED  BY <2>1, <2>2
<1> QED  BY <1>1 DEF CommShape, NodeOps

LEMMA OneAndOne ==
  ASSUME NEW a, NEW b
  PROVE  <<a>> \o <<b>> = <<a, b>>
<1>s. PICK S : a \in S /\ b \in S
  <2> a \in {a, b} /\ b \in {a, b}
    OBVIOUS
  <2> QED  OBVIOUS
<1>1. <<a>> \o <<b>> \in Seq(S) /\ Len(<<a>> \o <<b>>) = 2
  BY <1>s
<1>2. <<a, b>> \in Seq(S) /\ Len(<<a, b>>) = 2
  BY <1>s
<1>3. \A i \in 1 .. 2 : (<<a>> \o <<b>>)[i] = <<a, b>>[i]
  BY <1>s
<1> QED  BY <1>1, <1>2, <1>3, SeqsEqual

LEMMA CommShapes ==
  ASSUME TypeOK, TodoOK, CommShape, GuiShape, CommReply \/ MatchOffset \/ Mark \/ Judge
  PROVE  CommShape' /\ GuiShape'
<1> USE DEF stepVars, fileVars, pageVars
<1>t. todo \in [Threads -> Seq(Accesses)] /\ "comm" \in Threads /\ "gui" \in Threads
  BY DEF TodoOK, Threads
<1>n. <<>> \in Seq(Accesses)
  OBVIOUS
<1>m. \A a \in Addr : <<Access("match", a)>> \in Seq(Accesses) /\ <<Access("mark", a)>> \in Seq(Accesses)
  BY AccessTypes DEF NodeOps
<1>1. todo'["gui"] = todo["gui"]
  BY <1>t DEF CommReply, boot_recv_refusal, boot_recv_ok_respond, boot_recv_file_data_respond,
              ReplyArrives, MatchOffset, Mark, Judge, Then, Done
<1>2. GuiShape'
  BY <1>1, GuiShapeKept
<1>3. CASE CommReply
  <2>1. PICK s : \/ todo'["comm"] = <<>> \o <<Access("judge", s)>>
                 \/ \E src \in Addr, o \in {"mark", "match"} :
                      todo'["comm"] = <<Access(o, src)>> \o <<Access("judge", s)>>
    BY <1>3, <1>t DEF CommReply, boot_recv_refusal, boot_recv_ok_respond,
                      boot_recv_file_data_respond, ReplyArrives
  <2>2. <<>> \o <<Access("judge", s)>> = <<Access("judge", s)>>
    OBVIOUS
  <2>3. \A o, src : <<Access(o, src)>> \o <<Access("judge", s)>> = <<Access(o, src), Access("judge", s)>>
    BY OneAndOne
  <2>4. \/ Len(todo'["comm"]) = 1 /\ todo'["comm"][1].op = "judge"
        \/ /\ Len(todo'["comm"]) = 2 /\ todo'["comm"][1].op \in {"mark", "match"}
           /\ todo'["comm"][2].op = "judge"
    <3>1. CASE todo'["comm"] = <<>> \o <<Access("judge", s)>>
      BY <3>1, <2>2, AccessIs
    <3>2. ASSUME NEW src \in Addr, NEW o \in {"mark", "match"},
                 todo'["comm"] = <<Access(o, src)>> \o <<Access("judge", s)>>
          PROVE  /\ Len(todo'["comm"]) = 2 /\ todo'["comm"][1].op = o
                 /\ todo'["comm"][2].op = "judge"
      BY <3>2, <2>3, AccessIs
    <3> QED  BY <2>1, <3>1, <3>2
  <2>5. CommShape'
    BY <2>4, ReplyShape DEF NodeOps
  <2> QED  BY <1>2, <2>5
<1>4. CASE MatchOffset
  <2>1. IsNext("comm", "match")
    BY <1>4 DEF MatchOffset
  <2>2. /\ todo["comm"] # <<>> /\ Front("comm").op = "match" /\ Front("comm") = todo["comm"][1]
        /\ About(Front("comm")) /\ Len(todo["comm"]) \in Nat \ {0}
    BY <1>t, <2>1, FrontLemma
  <2>3. Len(todo["comm"]) = 2 /\ todo["comm"][2].op = "judge"
    BY <2>2 DEF CommShape, NodeOps
  <2>4. Front("comm").arg \in Addr
    BY <2>2 DEF About, NodeOps
  <2>5. PICK first \in Seq(Accesses) :
          /\ Then("comm", first)
          /\ first = <<>> \/ first = <<Access("mark", Front("comm").arg)>>
    BY <1>4, <1>n, <1>m, <2>4 DEF MatchOffset, Done
  <2>6. \/ Len(todo'["comm"]) = 1 /\ todo'["comm"][1].op = "judge"
        \/ /\ Len(todo'["comm"]) = 2 /\ todo'["comm"][1].op = "mark"
           /\ todo'["comm"][2].op = "judge"
    <3>1. /\ Len(todo'["comm"]) = Len(first) + Len(todo["comm"]) - 1
          /\ \A i \in 1 .. Len(first) : todo'["comm"][i] = first[i]
          /\ \A i \in 1 .. Len(todo'["comm"]) :
               i > Len(first) => todo'["comm"][i] = todo["comm"][i - Len(first) + 1]
      BY <1>t, <2>2, <2>5, ThenLemma
    <3>2. CASE first = <<>>
      <4>1. Len(todo'["comm"]) = 1
        BY <2>3, <3>1, <3>2
      <4>2. todo'["comm"][1] = todo["comm"][2]
        BY <3>1, <3>2, <4>1
      <4> QED  BY <2>3, <4>1, <4>2
    <3>3. CASE first = <<Access("mark", Front("comm").arg)>>
      <4>1. Len(first) = 1 /\ first[1].op = "mark"
        BY <3>3, AccessIs
      <4>2. Len(todo'["comm"]) = 2
        BY <2>3, <3>1, <4>1
      <4>3. todo'["comm"][1] = first[1] /\ todo'["comm"][2] = todo["comm"][2]
        BY <3>1, <4>1, <4>2
      <4> QED  BY <2>3, <4>1, <4>2, <4>3
    <3> QED  BY <2>5, <3>2, <3>3
  <2>7. CommShape'
    BY <2>6, ReplyShape DEF NodeOps
  <2> QED  BY <1>2, <2>7
<1>5. CASE Mark
  <2>1. IsNext("comm", "mark") /\ Then("comm", <<>>)
    BY <1>5 DEF Mark, Done
  <2>2. Len(todo["comm"]) = 2 /\ todo["comm"][2].op = "judge" /\ todo["comm"] # <<>>
    BY <2>1, MarkLemma DEF IsNext
  <2>3. Len(todo'["comm"]) = 1 /\ todo'["comm"][1].op = "judge"
    <3>1. /\ Len(todo'["comm"]) = Len(todo["comm"]) - 1
          /\ \A i \in 1 .. Len(todo'["comm"]) : todo'["comm"][i] = todo["comm"][i + 1]
      BY <1>t, <2>1, <2>2, DoneLemma DEF Done
    <3>2. Len(todo'["comm"]) = 1
      BY <2>2, <3>1
    <3>3. todo'["comm"][1] = todo["comm"][2]
      BY <3>1, <3>2
    <3> QED  BY <2>2, <3>2, <3>3
  <2>4. CommShape'
    BY <2>3, ReplyShape
  <2> QED  BY <1>2, <2>4
<1>6. CASE Judge
  <2> DEFINE s == Front("comm").arg
  <2>1. IsNext("comm", "judge")
    BY <1>6 DEF Judge
  <2>2. /\ todo["comm"] # <<>> /\ Front("comm").op = "judge" /\ Front("comm") = todo["comm"][1]
        /\ About(Front("comm")) /\ Len(todo["comm"]) \in Nat \ {0}
    BY <1>t, <2>1, FrontLemma
  <2>3. Len(todo["comm"]) = 1
    <3>1. 1 \in 1 .. Len(todo["comm"]) /\ todo["comm"][1].op = "judge"
      BY <2>2
    <3> QED  BY <3>1 DEF CommShape
  <2>4. s \in Steps /\ s # IDLE
    BY <2>2 DEF About, StepOps
  <2>5. CASE Then("comm", <<>>)
    <3>1. Len(todo'["comm"]) = 0
      <4>1. Len(todo'["comm"]) = Len(todo["comm"]) - 1
        BY <1>t, <2>2, <2>5, DoneLemma DEF Done
      <4> QED  BY <2>3, <4>1
    <3> QED  BY <1>2, <3>1 DEF CommShape
  <2>6. CASE judge_update_node_is_same(nodes, Awaited(s)) /\ Then("comm", Finish(s))
    <3>1. Finish(s) \in Seq(Accesses)
      BY <2>4, FinishTyped
    <3>2. /\ Len(todo'["comm"]) = Len(Finish(s))
          /\ \A i \in 1 .. Len(Finish(s)) : todo'["comm"][i] = Finish(s)[i]
      <4> HIDE DEF s
      <4>1. /\ Len(todo'["comm"]) = Len(Finish(s)) + Len(todo["comm"]) - 1
            /\ \A i \in 1 .. Len(Finish(s)) : todo'["comm"][i] = Finish(s)[i]
        BY <1>t, <2>2, <2>6, <3>1, ThenLemma
      <4>2. Len(Finish(s)) \in Nat
        BY <3>1
      <4> QED  BY <2>3, <4>1, <4>2
    <3>3. \A i \in 1 .. Len(Finish(s)) :
            /\ Finish(s)[i].op \in EndOps
            /\ Finish(s)[i].op = "advance" => i = 1
            /\ Finish(s)[i].op = "rewind" => s = INFO
      BY <2>4, FinishOps DEF Only
    <3>4. s = INFO => NoneCounted(nodes)'
      <4>1. nodes' = nodes
        BY <1>6 DEF Judge
      <4>2. s = INFO => \A a \in DOMAIN nodes : nodes[a].step = INFO
        BY <2>6 DEF judge_update_node_is_same, Awaited, At
      <4> QED  BY <4>1, <4>2 DEF NoneCounted, INFO, DATA
    <3>5. CommShape'
      <4> HIDE DEF s
      <4>1. \A i \in 1 .. Len(todo'["comm"]) :
              /\ todo'["comm"][i].op \in EndOps
              /\ todo'["comm"][i].op = "advance" => i = 1
              /\ todo'["comm"][i].op = "rewind" => NoneCounted(nodes)'
        BY <3>2, <3>3, <3>4
      <4> QED  BY <4>1 DEF CommShape, NodeOps, EndOps, NoneCounted
    <3> QED  BY <1>2, <3>5
  <2> QED  BY <1>6, <2>5, <2>6 DEF Judge
<1> QED  BY <1>3, <1>4, <1>5, <1>6

LEMMA OneTyped ==
  ASSUME NEW x \in Accesses
  PROVE  /\ <<x>> \in Seq(Accesses) /\ Len(<<x>>) = 1 /\ <<x>>[1] = x /\ LoneIn(<<x>>)
         /\ \A i \in 1 .. Len(<<x>>) : <<x>>[i] = x
<1>1. /\ <<x>> \in Seq(Accesses) /\ Len(<<x>>) = 1 /\ <<x>>[1] = x
      /\ \A i \in 1 .. Len(<<x>>) : i = 1 /\ <<x>>[i] = x
  OBVIOUS
<1> QED  BY <1>1 DEF LoneIn

LEMMA FailingTyped ==
  /\ switch_state_machine(IDLE, 0) \o <<Access("failed", None)>> \in Seq(Accesses)
  /\ Only(switch_state_machine(IDLE, 0) \o <<Access("failed", None)>>, {"switch", "enter", "failed"})
<1>1. Access("failed", None) \in Accesses
  BY AccessTypes DEF PlainOps
<1>2. <<Access("failed", None)>> \in Seq(Accesses) /\ Len(<<Access("failed", None)>>) = 1
      /\ <<Access("failed", None)>>[1].op = "failed"
  BY <1>1, OneTyped, AccessIs
<1> DEFINE q == switch_state_machine(IDLE, 0)
<1>3. q \in Seq(Accesses) /\ Len(q) = 2 /\ q[1].op = "switch" /\ q[2].op = "enter"
  <2>1. q \in Seq(Accesses) /\ q = <<Access("switch", IDLE), Access("enter", 0)>>
    BY SwitchTyped DEF Steps
  <2> HIDE DEF q
  <2> QED  BY <2>1, AccessIs
<1> HIDE DEF q
<1> DEFINE r == <<Access("failed", None)>>
<1>4. r \in Seq(Accesses) /\ Len(r) = 1 /\ r[1].op = "failed"
  BY <1>2
<1> HIDE DEF r
<1>5. q \o r \in Seq(Accesses) /\ Len(q \o r) = 3
      /\ \A i \in 1 .. 3 : (q \o r)[i] = IF i <= 2 THEN q[i] ELSE r[i - 2]
  <2>0. q \in Seq(Accesses) /\ r \in Seq(Accesses)
    BY <1>3, <1>4
  <2>1. q \o r \in Seq(Accesses) /\ Len(q \o r) = Len(q) + Len(r)
        /\ \A i \in 1 .. Len(q) + Len(r) :
             (q \o r)[i] = IF i <= Len(q) THEN q[i] ELSE r[i - Len(q)]
    BY <2>0
  <2> QED  BY <1>3, <1>4, <2>1
<1>6. ASSUME NEW i \in 1 .. 3
      PROVE  (q \o r)[i].op \in {"switch", "enter", "failed"}
  <2>1. i = 1 \/ i = 2 \/ i = 3
    OBVIOUS
  <2>2. (q \o r)[1] = q[1] /\ (q \o r)[2] = q[2] /\ (q \o r)[3] = r[1]
    BY <1>5
  <2> QED  BY <1>3, <1>4, <2>1, <2>2
<1>7. Only(q \o r, {"switch", "enter", "failed"})
  BY <1>5, <1>6 DEF Only
<1> QED  BY <1>5, <1>7 DEF q, r

\* An access of the GUI thread's own: what comes first of the rest, and that it
\* adds something to be overtaken only in the place of another.
LEMMA GuiMoves ==
  ASSUME TypeOK, TodoOK,
         Take \/ Count \/ Compare \/ Remove \/ Decide \/ Failed \/ slotUpdataProgress
         \/ ClearProgress \/ ListNodes \/ StartTimer
  PROVE  /\ todo["gui"] # <<>>
         /\ \E first \in Seq(Accesses) :
              /\ Then("gui", first)
              /\ LoneIn(first)
              /\ \A i \in 1 .. Len(first) : first[i].op # "list"
              /\ first # <<>> => Front("gui").op \in {"take", "count", "compare", "remove", "decide"}
              /\ Front("gui").op \in {"take", "count"} =>
                   \A i \in 1 .. Len(first) : first[i].op \notin TurnOps
<1>t. todo \in [Threads -> Seq(Accesses)] /\ "gui" \in Threads
  BY DEF TodoOK, Threads
<1>n. /\ <<>> \in Seq(Accesses) /\ LoneIn(<<>>)
      /\ \A i \in 1 .. Len(<<>>) : <<>>[i].op # "list" /\ <<>>[i].op \notin TurnOps
  BY DEF LoneIn
<1>o. ASSUME NEW o \in {"count", "compare", "remove", "decide"}, NEW s \in Steps
      PROVE  \E first \in Seq(Accesses) :
               /\ first = <<Access(o, s)>> /\ LoneIn(first)
               /\ \A i \in 1 .. Len(first) : first[i].op = o
  <2>1. Access(o, s) \in Accesses
    BY AccessTypes DEF StepOps
  <2>2. /\ <<Access(o, s)>> \in Seq(Accesses) /\ LoneIn(<<Access(o, s)>>)
        /\ \A i \in 1 .. Len(<<Access(o, s)>>) : <<Access(o, s)>>[i] = Access(o, s)
    BY <2>1, OneTyped
  <2>3. \A i \in 1 .. Len(<<Access(o, s)>>) : <<Access(o, s)>>[i].op = o
    BY <2>2, AccessIs
  <2> QED  BY <2>2, <2>3, Zenon
<1>f. \A op : IsNext("gui", op) => /\ todo["gui"] # <<>> /\ Front("gui").op = op
                                   /\ op \in StepOps => Front("gui").arg \in Steps
  BY <1>t, FrontLemma DEF About
<1>1. CASE Done("gui") /\ todo["gui"] # <<>>
  BY <1>1, <1>n DEF Done
<1>2. CASE Take
  <2>1. todo["gui"] # <<>> /\ Front("gui").op = "take"
    BY <1>2, <1>f DEF Take
  <2>2. CASE Then("gui", <<Access("count", step)>>)
    <3>1. PICK first \in Seq(Accesses) :
            /\ first = <<Access("count", step)>> /\ LoneIn(first)
            /\ \A i \in 1 .. Len(first) : first[i].op = "count"
      BY <1>o DEF TypeOK
    <3>2. Then("gui", first)
      BY <2>2, <3>1
    <3> QED  BY <2>1, <3>1, <3>2 DEF TurnOps
  <2> QED  BY <1>2, <1>1, <2>1, <2>2 DEF Take
<1>3. CASE Count
  <2>1. todo["gui"] # <<>> /\ Front("gui").op = "count" /\ Front("gui").arg \in Steps
    BY <1>3, <1>f DEF Count, StepOps
  <2>2. Then("gui", <<Access("compare", Front("gui").arg)>>)
    BY <1>3 DEF Count
  <2>3. PICK first \in Seq(Accesses) :
          /\ first = <<Access("compare", Front("gui").arg)>> /\ LoneIn(first)
          /\ \A i \in 1 .. Len(first) : first[i].op = "compare"
    BY <1>o, <2>1
  <2>4. Then("gui", first)
    BY <2>2, <2>3
  <2> QED  BY <2>1, <2>3, <2>4 DEF TurnOps
<1>4. CASE Compare
  <2>1. todo["gui"] # <<>> /\ Front("gui").op = "compare" /\ Front("gui").arg \in Steps
    BY <1>4, <1>f DEF Compare, StepOps
  <2>2. CASE Then("gui", <<Access("remove", Front("gui").arg)>>)
    <3>1. PICK first \in Seq(Accesses) :
            /\ first = <<Access("remove", Front("gui").arg)>> /\ LoneIn(first)
            /\ \A i \in 1 .. Len(first) : first[i].op = "remove"
      BY <1>o, <2>1
    <3>2. Then("gui", first)
      BY <2>2, <3>1
    <3> QED  BY <2>1, <3>1, <3>2 DEF TurnOps
  <2> QED  BY <1>4, <1>1, <2>1, <2>2 DEF Compare
<1>5. CASE Remove
  <2>1. todo["gui"] # <<>> /\ Front("gui").op = "remove" /\ Front("gui").arg \in Steps
    BY <1>5, <1>f DEF Remove, StepOps
  <2>2. Then("gui", <<Access("decide", Front("gui").arg)>>)
    BY <1>5 DEF Remove
  <2>3. PICK first \in Seq(Accesses) :
          /\ first = <<Access("decide", Front("gui").arg)>> /\ LoneIn(first)
          /\ \A i \in 1 .. Len(first) : first[i].op = "decide"
    BY <1>o, <2>1
  <2>4. Then("gui", first)
    BY <2>2, <2>3
  <2> QED  BY <2>1, <2>3, <2>4 DEF TurnOps
<1>6. CASE Decide
  <2>1. todo["gui"] # <<>> /\ Front("gui").op = "decide" /\ Front("gui").arg \in Steps
    BY <1>6, <1>f DEF Decide, StepOps
  <2>2. CASE Then("gui", switch_state_machine(IDLE, 0) \o <<Access("failed", None)>>)
    <3>1. PICK first \in Seq(Accesses) :
            Then("gui", first) /\ Only(first, {"switch", "enter", "failed"})
      BY <2>2, FailingTyped
    <3>2. \A i \in 1 .. Len(first) : first[i].op # "list" /\ first[i].op \notin LoneOps
      BY <3>1 DEF Only, LoneOps, TurnOps
    <3>3. LoneIn(first)
      BY <3>2 DEF LoneIn
    <3> QED  BY <2>1, <3>1, <3>2, <3>3
  <2>3. CASE Front("gui").arg # IDLE /\ Then("gui", Finish(Front("gui").arg))
    <3>1. PICK first \in Seq(Accesses) :
            Then("gui", first) /\ Only(first, EndOps) /\ LoneIn(first)
      BY <2>1, <2>3, FinishTyped, FinishOps
    <3>2. \A i \in 1 .. Len(first) : first[i].op # "list"
      BY <3>1 DEF Only, EndOps
    <3> QED  BY <2>1, <3>1, <3>2
  <2> QED  BY <1>6, <2>2, <2>3 DEF Decide
<1>7. CASE Failed \/ slotUpdataProgress \/ ClearProgress \/ ListNodes \/ StartTimer
  BY <1>7, <1>1, <1>f DEF Failed, slotUpdataProgress, ClearProgress, ListNodes, StartTimer
<1> QED  BY <1>2, <1>3, <1>4, <1>5, <1>6, <1>7

\* A removal changes no entry that it leaves.
LEMMA RemoveKeeps ==
  ASSUME Remove
  PROVE  /\ DOMAIN nodes' \subseteq DOMAIN nodes
         /\ \A a \in DOMAIN nodes' : nodes'[a] = nodes[a]
<1>1. PICK pos : nodes' = remove_update_node_diff(nodes, pos)
  BY DEF Remove
<1> QED  BY <1>1 DEF remove_update_node_diff, Restrict

LEMMA GuiShapes ==
  ASSUME TypeOK, TodoOK, CommShape, GuiShape, GuiPoll \/ ClearProgress \/ ListNodes \/ StartTimer
  PROVE  CommShape' /\ GuiShape'
<1> USE DEF stepVars, fileVars, pageVars
<1>t. todo \in [Threads -> Seq(Accesses)] /\ "comm" \in Threads /\ "gui" \in Threads
  BY DEF TodoOK, Threads
<1>1. todo'["comm"] = todo["comm"]
  BY <1>t DEF GuiPoll, Poll, Take, Count, Compare, Remove, Decide, Failed, slotUpdataProgress,
              ClearProgress, ListNodes, StartTimer, Then, Done
<1>2. NoneCounted(nodes) => NoneCounted(nodes)'
  <2>1. nodes' = nodes \/ Remove \/ ListNodes
    BY DEF GuiPoll, Poll, Take, Count, Compare, Decide, Failed, slotUpdataProgress,
           ClearProgress, StartTimer
  <2>2. CASE Remove
    BY <2>2, RemoveKeeps DEF NoneCounted
  <2>3. CASE ListNodes
    <3>1. \A a \in DOMAIN nodes' : nodes'[a] = At(0, 0)
      BY <2>3, NewListLemma DEF ListNodes, TodoOK
    <3> QED  BY <3>1 DEF NoneCounted, At, DATA
  <2> QED  BY <2>1, <2>2, <2>3 DEF NoneCounted
<1>3. CommShape'
  BY <1>1, <1>2, CommShapeKept
<1>4. CASE Poll
  <2>1. \/ todo'["gui"] = <<>> \o <<Access("show", None)>>
        \/ todo'["gui"] = <<Access("take", None)>> \o <<Access("show", None)>>
    BY <1>4, <1>t DEF Poll
  <2>2. <<>> \o <<Access("show", None)>> = <<Access("show", None)>>
    OBVIOUS
  <2>3. <<Access("take", None)>> \o <<Access("show", None)>>
        = <<Access("take", None), Access("show", None)>>
    BY OneAndOne
  <2>4. \/ Len(todo'["gui"]) = 1 /\ todo'["gui"][1].op = "show"
        \/ Len(todo'["gui"]) = 2 /\ todo'["gui"][1].op = "take" /\ todo'["gui"][2].op = "show"
    <3>1. CASE todo'["gui"] = <<Access("show", None)>>
      BY <3>1, AccessIs
    <3>2. CASE todo'["gui"] = <<Access("take", None), Access("show", None)>>
      BY <3>2, AccessIs
    <3> QED  BY <2>1, <2>2, <2>3, <3>1, <3>2
  <2>5. \A i \in 1 .. Len(todo'["gui"]) :
          todo'["gui"][i].op = "show" \/ (i = 1 /\ todo'["gui"][i].op = "take")
    <3>1. CASE Len(todo'["gui"]) = 1 /\ todo'["gui"][1].op = "show"
      BY <3>1
    <3>2. CASE Len(todo'["gui"]) = 2 /\ todo'["gui"][1].op = "take" /\ todo'["gui"][2].op = "show"
      BY <3>2
    <3> QED  BY <2>4, <3>1, <3>2
  <2>6. GuiShape'
    BY <2>5 DEF GuiShape, LoneOps, TurnOps
  <2> QED  BY <1>3, <2>6
<1>5. CASE \/ Take \/ Count \/ Compare \/ Remove \/ Decide \/ Failed \/ slotUpdataProgress
           \/ ClearProgress \/ ListNodes \/ StartTimer
  <2>1. todo["gui"] # <<>>
    BY <1>5, GuiMoves
  <2>2. PICK first \in Seq(Accesses) :
          /\ Then("gui", first)
          /\ LoneIn(first)
          /\ \A i \in 1 .. Len(first) : first[i].op # "list"
          /\ first # <<>> => Front("gui").op \in {"take", "count", "compare", "remove", "decide"}
    BY <1>5, GuiMoves
  <2>3. Front("gui").op = "clear" => first = <<>>
    BY <2>2
  <2>4. Front("gui").op \in LoneOps \/ \A i \in 1 .. Len(first) : first[i].op \notin LoneOps
    BY <2>2 DEF LoneOps, TurnOps
  <2>5. GuiShape'
    BY <2>1, <2>2, <2>3, <2>4, GuiShapeThen
  <2> QED  BY <1>3, <2>5
<1> QED  BY <1>4, <1>5 DEF GuiPoll

LEMMA ButtonShapes ==
  ASSUME TypeOK, TodoOK, CommShape, GuiShape, Buttons
  PROVE  CommShape' /\ GuiShape'
<1> USE DEF stepVars, fileVars, pageVars
<1>t. todo \in [Threads -> Seq(Accesses)] /\ "comm" \in Threads /\ "gui" \in Threads
  BY DEF TodoOK, Threads
<1>1. todo'["comm"] = todo["comm"] /\ nodes' = nodes
  BY <1>t DEF Buttons, StartButton, ResetButton, StopButton
<1>2. CommShape'
  BY <1>1, CommShapeKept DEF NoneCounted
<1>3. CASE StartButton
  <2>1. todo'["gui"] = <<Access("clear", None), Access("list", None), Access("switch", CMD),
                         Access("enter", 0), Access("run", None)>>
    BY <1>3, <1>t, StartTyped DEF StartButton
  <2>2. /\ Len(todo'["gui"]) = 5 /\ todo'["gui"][1].op = "clear" /\ todo'["gui"][2].op = "list"
        /\ todo'["gui"][3].op = "switch" /\ todo'["gui"][4].op = "enter"
        /\ todo'["gui"][5].op = "run"
    BY <2>1, AccessIs
  <2>3. \A i \in 1 .. Len(todo'["gui"]) :
          \/ i = 1 /\ todo'["gui"][i].op = "clear"
          \/ i = 2 /\ todo'["gui"][i].op = "list"
          \/ todo'["gui"][i].op \in {"switch", "enter", "run"}
    BY <2>2
  <2>4. GuiShape'
    BY <2>2, <2>3 DEF GuiShape, LoneOps, TurnOps
  <2> QED  BY <1>2, <2>4
<1>4. CASE ResetButton
  <2>1. todo'["gui"] = <<Access("list", None)>>
    BY <1>4, <1>t DEF ResetButton
  <2>2. Len(todo'["gui"]) = 1
    BY <2>1
  <2>3. GuiShape'
    BY <2>2 DEF GuiShape
  <2> QED  BY <1>2, <2>3
<1>5. CASE StopButton
  BY <1>2, <1>5, GuiShapeKept DEF StopButton
<1> QED  BY <1>3, <1>4, <1>5 DEF Buttons

-----------------------------------------------------------------------------
(***************************************************************************)
(* What is still due, step by step.                                        *)
(***************************************************************************)
LEMMA MayRange ==
  /\ CommMay \in {0, 1, 2}
  /\ ~IsNext("comm", "advance") => CommMay \in {0, 1}
  /\ IsNext("comm", "advance") => CommMay = One(Missing # {}) + One(Ahead)
  /\ ~IsNext("comm", "advance") => CommMay = One(Ahead \/ Unearned \/ Misplaced)
<1>1. \A P \in BOOLEAN : One(P) \in {0, 1}
  BY DEF One
<1>2. One(Missing # {}) \in {0, 1} /\ One(Ahead) \in {0, 1}
      /\ One(Ahead \/ Unearned \/ Misplaced) \in {0, 1}
  BY DEF One
<1> QED  BY <1>2 DEF CommMay

LEMMA MayRangeNext ==
  /\ CommMay' \in {0, 1, 2}
  /\ ~IsNext("comm", "advance")' => CommMay' \in {0, 1}
  /\ IsNext("comm", "advance")' => CommMay' = One(Missing # {})' + One(Ahead)'
  /\ ~IsNext("comm", "advance")' => CommMay' = One(Ahead \/ Unearned \/ Misplaced)'
<1>2. One(Missing # {})' \in {0, 1} /\ One(Ahead)' \in {0, 1}
      /\ One(Ahead \/ Unearned \/ Misplaced)' \in {0, 1}
  BY DEF One
<1> QED  BY <1>2 DEF CommMay

\* Nothing is due of what reads only what has not changed.
LEMMA MayKept ==
  ASSUME todo'["comm"] = todo["comm"], nodes' = nodes, fileOffset' = fileOffset,
         replied' = replied
  PROVE  CommMay' = CommMay
  BY DEF CommMay, One, IsNext, Front, Missing, Ahead, Unearned, Misplaced, Blocks

\* The communication thread goes on: what it does not pass is no longer due.
CommPays ==
  /\ skips' + CommMay' <= skips + CommMay
  /\ ~Fresh
  /\ todo'["gui"] = todo["gui"]
  /\ giveUps' = giveUps /\ disturbed' = disturbed

\* Between two handlers, and behind the access that ends one, nothing but the
\* list is due.
LEMMA MayOfList ==
  ASSUME ~IsNext("comm", "advance"), ~Misplaced
  PROVE  CommMay = One(Ahead \/ Unearned)
  BY DEF CommMay, One

LEMMA MayOfListNext ==
  ASSUME ~IsNext("comm", "advance")', ~Misplaced'
  PROVE  CommMay' = One(Ahead \/ Unearned)'
  BY DEF CommMay, One

\* Behind an access to the end of a step comes no block to be passed and no
\* slave to be marked.
LEMMA FinishNext ==
  ASSUME TypeOK, TodoOK, CommShape, FinishAccess("comm")
  PROVE  /\ ~IsNext("comm", "advance")' /\ ~Misplaced'
         /\ todo'["gui"] = todo["gui"] /\ ~Misplaced
         /\ todo["comm"] # <<>>
<1>t. todo \in [Threads -> Seq(Accesses)] /\ "comm" \in Threads /\ "gui" \in Threads
  BY DEF TodoOK, Threads
<1>1. todo["comm"] # <<>> /\ Front("comm").op \in EndOps \cup {"resume"}
  BY <1>t, FinishMoves
<1>2. PICK first \in Seq(Accesses) : Then("comm", first) /\ Only(first, GoesOnOps)
  BY <1>t, FinishMoves
<1>3. /\ todo'["comm"] \in Seq(Accesses)
      /\ Len(todo'["comm"]) = Len(first) + Len(todo["comm"]) - 1
      /\ \A i \in 1 .. Len(first) : todo'["comm"][i] = first[i]
      /\ \A i \in 1 .. Len(todo'["comm"]) :
           i > Len(first) => i - Len(first) + 1 \in 2 .. Len(todo["comm"])
                             /\ todo'["comm"][i] = todo["comm"][i - Len(first) + 1]
      /\ todo'["gui"] = todo["gui"]
  BY <1>t, <1>1, <1>2, ThenLemma
<1>4. Len(first) \in Nat /\ Len(todo'["comm"]) \in Nat /\ Len(todo["comm"]) \in Nat
  BY <1>t, <1>3
<1>5. \A i \in 2 .. Len(todo["comm"]) :
        todo["comm"][i].op # "advance" /\ todo["comm"][i].op \notin NodeOps
  BY <1>4 DEF CommShape
<1>6. ASSUME todo'["comm"] # <<>>
      PROVE  todo'["comm"][1].op # "advance" /\ todo'["comm"][1].op # "mark"
  <2>1. 1 \in 1 .. Len(todo'["comm"])
    BY <1>3, <1>6
  <2>2. CASE Len(first) >= 1
    <3>1. first[1].op \in GoesOnOps /\ todo'["comm"][1] = first[1]
      BY <1>2, <1>3, <1>4, <2>2 DEF Only
    <3> QED  BY <3>1 DEF GoesOnOps
  <2>3. CASE Len(first) = 0
    <3>1. 2 \in 2 .. Len(todo["comm"]) /\ todo'["comm"][1] = todo["comm"][2]
      BY <1>3, <2>1, <2>3
    <3> QED  BY <1>5, <3>1 DEF NodeOps
  <2> QED  BY <1>4, <2>2, <2>3
<1>7. todo'["comm"] # <<>> => Head(todo'["comm"]) = todo'["comm"][1]
  BY <1>3
<1>8. ~IsNext("comm", "advance")' /\ ~Misplaced'
  BY <1>6, <1>7 DEF IsNext, Front, Misplaced
<1>9. ~Misplaced
  BY <1>1 DEF Misplaced, IsNext, EndOps
<1> QED  BY <1>1, <1>3, <1>8, <1>9

LEMMA OneLess ==
  ASSUME NEW P, NEW Q, P => Q
  PROVE  One(P) <= One(Q) /\ One(P) \in {0, 1} /\ One(Q) \in {0, 1}
  BY DEF One

LEMMA SumLess ==
  ASSUME NEW k \in Nat, NEW m \in Nat, NEW n \in Nat, m <= n
  PROVE  k + m <= k + n
  OBVIOUS

\* Sums of what is due, as numbers.
LEMMA SumsLess ==
  ASSUME NEW k \in Nat, NEW m \in Nat, NEW n \in Nat, NEW p \in Nat, NEW q \in Nat, NEW b \in Int
  PROVE  /\ m <= p /\ n <= q => m + n <= p + q
         /\ m + n <= p + q /\ k + p + q <= b => k + m + n <= b
         /\ \A l \in Nat : l + m <= k + p /\ n <= q /\ k + p + q <= b => l + m + n <= b
  OBVIOUS

LEMMA FinishPays ==
  ASSUME TypeOK, TodoOK, CommShape, FinishAccess("comm")
  PROVE  CommPays
<1> USE DEF stepVars, fileVars, pageVars
<1>1. /\ ~IsNext("comm", "advance")' /\ ~Misplaced'
      /\ todo'["gui"] = todo["gui"] /\ ~Misplaced /\ todo["comm"] # <<>>
  BY FinishNext
<1>2. CommMay' = One(Ahead \/ Unearned)'
  BY <1>1, MayOfListNext
<1>3. ~Fresh
  BY <1>1 DEF Fresh, Busy
<1>4. giveUps' = giveUps /\ disturbed' = disturbed
  BY DEF FinishAccess, Switch, EnterStep, Rewind, Advance, Load, First, NextBlock, Resume, Full
<1>5. skips \in Nat
  BY DEF TypeOK
<1>6. CASE Advance("comm")
  <2>1. IsNext("comm", "advance")
    BY <1>6 DEF Advance
  <2>2. CommMay = One(Missing # {}) + One(Ahead)
    BY <2>1, MayRange
  <2>3. skips' = skips + (IF dataLen > 0 /\ Missing # {} THEN 1 ELSE 0)
        /\ fileOffset' = fileOffset + dataLen /\ nodes' = nodes /\ replied' = replied
    BY <1>6 DEF Advance
  <2>4. CASE dataLen = 1
    <3>1. fileOffset \in Nat /\ fileOffset' = fileOffset + 1
      BY <2>3, <2>4 DEF TypeOK
    <3>2. \A a \in DOMAIN nodes : nodes[a].step = DATA => nodes[a].offset \in Nat
      BY DEF TypeOK, IsNodeList, Positions
    <3>3. (Ahead \/ Unearned)' => Ahead
      <4>1. Ahead' => Ahead
        BY <2>3, <3>1, <3>2 DEF Ahead
      <4>2. Unearned' => Ahead
        BY <2>3, <3>1, <3>2 DEF Ahead, Unearned, Missing, At
      <4> QED  BY <4>1, <4>2
    <3>4. One((Ahead \/ Unearned)') <= One(Ahead)
          /\ One((Ahead \/ Unearned)') \in {0, 1} /\ One(Ahead) \in {0, 1}
      BY <3>3, OneLess
    <3>5. skips' = skips + One(Missing # {}) /\ One(Missing # {}) \in {0, 1}
      BY <2>3, <2>4 DEF One
    <3>6. One(Ahead \/ Unearned)' = One((Ahead \/ Unearned)')
      BY DEF One
    <3>7. skips' + CommMay' <= skips + CommMay
      BY <1>2, <1>5, <2>2, <3>4, <3>5, <3>6
    <3> QED  BY <1>1, <1>3, <1>4, <3>7 DEF CommPays
  <2>5. CASE dataLen = 0
    <3>1. fileOffset' = fileOffset /\ skips' = skips
      BY <2>3, <2>5, <1>5 DEF TypeOK
    <3>2. (Ahead \/ Unearned)' => Ahead \/ Missing # {}
      BY <2>3, <3>1 DEF Ahead, Unearned, Missing, Blocks
    <3>3. CommMay' <= CommMay
      BY <1>2, <2>2, <3>2 DEF One
    <3>4. CommMay \in Nat /\ CommMay' \in Nat
      BY MayRange, MayRangeNext
    <3>5. skips' + CommMay' <= skips + CommMay
      BY <1>5, <3>1, <3>3, <3>4, SumLess
    <3> QED  BY <1>1, <1>3, <1>4, <3>5 DEF CommPays
  <2> QED  BY <2>4, <2>5 DEF TypeOK
<1>7. CASE Rewind("comm")
  <2>1. IsNext("comm", "rewind") /\ nodes' = nodes /\ skips' = skips
    BY <1>7 DEF Rewind
  <2>2. NoneCounted(nodes)
    <3>1. /\ Len(todo["comm"]) \in Nat \ {0} /\ Front("comm") = todo["comm"][1]
          /\ Front("comm").op = "rewind"
      BY <2>1, FrontLemma DEF Threads
    <3> QED  BY <3>1 DEF CommShape, NoneCounted
  <2>3. ~(Ahead \/ Unearned)'
    BY <2>1, <2>2 DEF NoneCounted, Ahead, Unearned, Missing, At
  <2>4. CommMay' = 0
    BY <1>2, <2>3 DEF One
  <2>5. CommMay \in {0, 1, 2}
    BY MayRange
  <2>6. skips' + CommMay' <= skips + CommMay
    BY <1>5, <2>1, <2>4, <2>5
  <2> QED  BY <1>1, <1>3, <1>4, <2>6 DEF CommPays
<1>8. CASE Switch("comm") \/ EnterStep("comm") \/ Load("comm") \/ First("comm")
           \/ NextBlock("comm") \/ Resume("comm") \/ Full("comm")
  <2>1. nodes' = nodes /\ fileOffset' = fileOffset /\ replied' = replied /\ skips' = skips
    BY <1>8 DEF Switch, EnterStep, Load, First, NextBlock, Resume, Full
  <2>2. ~IsNext("comm", "advance")
    BY <1>8 DEF Switch, EnterStep, Load, First, NextBlock, Resume, Full, IsNext
  <2>3. CommMay = One(Ahead \/ Unearned)
    BY <1>1, <2>2, MayOfList
  <2>4. (Ahead \/ Unearned)' = (Ahead \/ Unearned)
    BY <2>1 DEF Ahead, Unearned, Missing, Blocks
  <2>5. CommMay' = CommMay
    BY <1>2, <2>3, <2>4 DEF One
  <2>6. CommMay \in {0, 1, 2}
    BY MayRange
  <2>7. skips' + CommMay' <= skips + CommMay
    BY <1>5, <2>1, <2>5, <2>6
  <2> QED  BY <1>1, <1>3, <1>4, <2>7 DEF CommPays
<1> QED  BY <1>6, <1>7, <1>8 DEF FinishAccess

LEMMA ReplyPays ==
  ASSUME TypeOK, TodoOK, CommShape, CommReply
  PROVE  CommPays
<1> USE DEF stepVars, fileVars, pageVars
<1>t. todo \in [Threads -> Seq(Accesses)] /\ "comm" \in Threads /\ "gui" \in Threads
  BY DEF TodoOK, Threads
<1>1. PICK s \in Steps \ {IDLE} :
        /\ step = s
        /\ todo["comm"] = <<>> /\ todo'["gui"] = todo["gui"]
        /\ \/ todo'["comm"] = <<>> \o <<Access("judge", s)>>
           \/ \E src \in Addr : /\ todo'["comm"] = <<Access("mark", src)>> \o <<Access("judge", s)>>
                                /\ s # DATA
           \/ \E src \in Addr : todo'["comm"] = <<Access("match", src)>> \o <<Access("judge", s)>>
  <2>1. {CMD, INFO, CRC} \subseteq Steps \ {IDLE, DATA} /\ DATA \in Steps \ {IDLE}
    BY DEF Steps, IDLE, CMD, INFO, DATA, CRC
  <2>2. CASE boot_recv_refusal
    BY <1>t, <2>1, <2>2 DEF boot_recv_refusal, ReplyArrives
  <2>3. CASE \E src \in Addr : boot_recv_ok_respond(src)
    BY <1>t, <2>1, <2>3 DEF boot_recv_ok_respond, ReplyArrives
  <2>4. CASE \E src \in Addr : boot_recv_file_data_respond(src)
    BY <1>t, <2>1, <2>4 DEF boot_recv_file_data_respond, ReplyArrives
  <2> QED  BY <2>2, <2>3, <2>4 DEF CommReply
<1>2. UNCHANGED <<nodes, fileOffset, replied, skips, giveUps, disturbed>>
  BY DEF CommReply, boot_recv_refusal, boot_recv_ok_respond, boot_recv_file_data_respond,
         ReplyArrives
<1>3. ~Fresh
  BY <1>1 DEF Fresh, Busy
<1>4. ~IsNext("comm", "advance") /\ ~Misplaced
  BY <1>1 DEF IsNext, Misplaced
<1>5. ~IsNext("comm", "advance")' /\ ~Misplaced'
  <2>1. <<>> \o <<Access("judge", s)>> = <<Access("judge", s)>>
    OBVIOUS
  <2>2. \A o, src : <<Access(o, src)>> \o <<Access("judge", s)>> = <<Access(o, src), Access("judge", s)>>
    BY OneAndOne
  <2>3. CASE todo'["comm"] = <<Access("judge", s)>>
    <3>1. Head(todo'["comm"]).op = "judge"
      BY <2>3, AccessIs
    <3> QED  BY <3>1 DEF IsNext, Front, Misplaced
  <2>4. ASSUME NEW src \in Addr, todo'["comm"] = <<Access("mark", src), Access("judge", s)>>, s # DATA
        PROVE  ~IsNext("comm", "advance")' /\ ~Misplaced'
    <3>1. Head(todo'["comm"]).op = "mark" /\ todo'["comm"][2].arg = s
      BY <2>4, AccessIs
    <3> QED  BY <2>4, <3>1 DEF IsNext, Front, Misplaced
  <2>5. ASSUME NEW src \in Addr, todo'["comm"] = <<Access("match", src), Access("judge", s)>>
        PROVE  ~IsNext("comm", "advance")' /\ ~Misplaced'
    <3>1. Head(todo'["comm"]).op = "match"
      BY <2>5, AccessIs
    <3> QED  BY <3>1 DEF IsNext, Front, Misplaced
  <2>6. \/ todo'["comm"] = <<Access("judge", s)>>
        \/ \E src \in Addr : s # DATA /\ todo'["comm"] = <<Access("mark", src), Access("judge", s)>>
        \/ \E src \in Addr : todo'["comm"] = <<Access("match", src), Access("judge", s)>>
    BY <1>1, <2>1, <2>2
  <2> QED  BY <2>3, <2>4, <2>5, <2>6
<1>6. CommMay' = One(Ahead \/ Unearned)' /\ CommMay = One(Ahead \/ Unearned)
  BY <1>4, <1>5, MayOfList, MayOfListNext
<1>7. (Ahead \/ Unearned)' = (Ahead \/ Unearned)
  BY <1>2 DEF Ahead, Unearned, Missing, Blocks
<1>8. CommMay' = CommMay
  BY <1>6, <1>7 DEF One
<1>9. CommMay \in Nat /\ skips \in Nat
  BY MayRange DEF TypeOK
<1>10. skips' + CommMay' <= skips + CommMay
  BY <1>2, <1>8, <1>9
<1> QED  BY <1>1, <1>2, <1>3, <1>10 DEF CommPays

LEMMA MatchPays ==
  ASSUME TypeOK, TodoOK, CommShape, MatchOffset
  PROVE  CommPays
<1> USE DEF stepVars, fileVars, pageVars
<1>t. todo \in [Threads -> Seq(Accesses)] /\ "comm" \in Threads /\ "gui" \in Threads
  BY DEF TodoOK, Threads
<1> DEFINE src == Front("comm").arg
<1>1. /\ IsNext("comm", "match") /\ todo["comm"] # <<>> /\ Front("comm").op = "match"
      /\ src \in Addr /\ Front("comm") = todo["comm"][1] /\ Len(todo["comm"]) \in Nat \ {0}
  <2>1. IsNext("comm", "match")
    BY DEF MatchOffset
  <2> QED  BY <1>t, <2>1, FrontLemma DEF About, NodeOps
<1>2. Len(todo["comm"]) = 2 /\ todo["comm"][2].op = "judge"
  BY <1>1 DEF CommShape, NodeOps
<1>3. UNCHANGED <<nodes, fileOffset, skips, giveUps, disturbed>>
  BY DEF MatchOffset
<1>4. todo'["gui"] = todo["gui"]
  BY <1>t DEF MatchOffset, Then, Done
<1>5. ~Fresh
  BY <1>1 DEF Fresh, Busy
<1>6. ~IsNext("comm", "advance") /\ ~Misplaced
  BY <1>1 DEF IsNext, Misplaced
<1>7. ~IsNext("comm", "advance")' /\ ~Misplaced' /\ Missing' \subseteq Missing
  <2>1. CASE replied' = replied /\ Done("comm")
    <3>1. /\ Len(todo'["comm"]) = Len(todo["comm"]) - 1
          /\ \A i \in 1 .. Len(todo'["comm"]) : todo'["comm"][i] = todo["comm"][i + 1]
          /\ todo' \in [Threads -> Seq(Accesses)]
      BY <1>t, <1>1, <2>1, DoneLemma
    <3>2. Len(todo'["comm"]) = 1
      BY <1>2, <3>1
    <3>3. todo'["comm"][1] = todo["comm"][2]
      <4>1. 1 \in 1 .. Len(todo'["comm"]) /\ 1 + 1 = 2
        BY <3>2
      <4>2. todo'["comm"][1] = todo["comm"][1 + 1]
        BY <3>1, <4>1
      <4> QED  BY <4>1, <4>2
    <3>4. Head(todo'["comm"]).op = "judge"
      BY <1>t, <1>2, <3>1, <3>2, <3>3
    <3> QED  BY <1>3, <2>1, <3>4 DEF IsNext, Front, Misplaced, Missing, Blocks
  <2>2. CASE /\ fileOffset \in Blocks
             /\ replied' = [replied EXCEPT ![fileOffset] = @ \cup {src}]
             /\ Then("comm", <<Access("mark", src)>>)
    <3>1. Access("mark", src) \in Accesses
      BY <1>1, AccessTypes DEF NodeOps
    <3>2. PICK first \in Seq(Accesses) :
            first = <<Access("mark", src)>> /\ Len(first) = 1 /\ first[1] = Access("mark", src)
      BY <3>1, OneTyped
    <3>3. Then("comm", first)
      BY <2>2, <3>2
    <3>4. /\ Len(todo'["comm"]) = Len(first) + Len(todo["comm"]) - 1
          /\ \A i \in 1 .. Len(first) : todo'["comm"][i] = first[i]
          /\ todo'["comm"] \in Seq(Accesses)
      BY <1>t, <1>1, <3>3, ThenLemma
    <3>5. Len(todo'["comm"]) = 2 /\ todo'["comm"][1] = Access("mark", src)
      BY <1>2, <3>2, <3>4
    <3>6. Head(todo'["comm"]) = Access("mark", src)
      BY <3>4, <3>5
    <3>7. Head(todo'["comm"]).op = "mark" /\ Head(todo'["comm"]).arg = src
      BY <3>6, AccessIs
    <3>8. src \in replied'[fileOffset] /\ \A b \in Blocks : replied[b] \subseteq replied'[b]
      BY <2>2 DEF TypeOK
    <3>9. ~IsNext("comm", "advance")'
      BY <3>7 DEF IsNext, Front
    <3>10. ~Misplaced'
      BY <1>3, <2>2, <3>7, <3>8 DEF Misplaced, Front
    <3>11. Missing' \subseteq Missing
      BY <1>3, <2>2, <3>8 DEF Missing
    <3> QED  BY <3>9, <3>10, <3>11
  <2> QED  BY <2>1, <2>2 DEF MatchOffset
<1>8. CommMay' = One(Ahead \/ Unearned)' /\ CommMay = One(Ahead \/ Unearned)
  BY <1>6, <1>7, MayOfList, MayOfListNext
<1>9. (Ahead \/ Unearned)' => Ahead \/ Unearned
  BY <1>3, <1>7 DEF Ahead, Unearned
<1>10. CommMay' <= CommMay
  BY <1>8, <1>9 DEF One
<1>11. CommMay \in Nat /\ CommMay' \in Nat /\ skips \in Nat
  BY MayRange, MayRangeNext DEF TypeOK
<1>12. skips' + CommMay' <= skips + CommMay
  BY <1>3, <1>10, <1>11, SumLess
<1> QED  BY <1>3, <1>4, <1>5, <1>12 DEF CommPays

\* A slave that is marked too late was about to be.
LEMMA MarkPays ==
  ASSUME TypeOK, TodoOK, CommShape, Mark
  PROVE  CommPays
<1> USE DEF stepVars, fileVars, pageVars
<1>t. todo \in [Threads -> Seq(Accesses)] /\ "comm" \in Threads /\ "gui" \in Threads
  BY DEF TodoOK, Threads
<1> DEFINE src == Front("comm").arg
           s == todo["comm"][2].arg
<1>1. IsNext("comm", "mark") /\ todo["comm"] # <<>> /\ Front("comm").op = "mark"
  BY DEF Mark, IsNext
<1>2. /\ s \in Steps \ {IDLE} /\ Len(todo["comm"]) = 2 /\ todo["comm"][2].op = "judge"
      /\ src \in Addr /\ Awaited(s) \in Positions
  BY <1>1, MarkLemma
<1>3. UNCHANGED <<fileOffset, replied, skips, giveUps, disturbed>>
  BY DEF Mark
<1>4. todo'["gui"] = todo["gui"]
  BY <1>t DEF Mark, Then, Done
<1>5. ~Fresh
  BY <1>1 DEF Fresh, Busy
<1>6. ~IsNext("comm", "advance")
  BY <1>1 DEF IsNext
<1>7. ~IsNext("comm", "advance")' /\ ~Misplaced'
  <2>1. /\ Len(todo'["comm"]) = Len(todo["comm"]) - 1
        /\ \A i \in 1 .. Len(todo'["comm"]) : todo'["comm"][i] = todo["comm"][i + 1]
        /\ todo' \in [Threads -> Seq(Accesses)]
    BY <1>t, <1>1, DoneLemma DEF Mark
  <2>2. Len(todo'["comm"]) = 1
    BY <1>2, <2>1
  <2>3. todo'["comm"][1] = todo["comm"][2]
    <3>1. 1 \in 1 .. Len(todo'["comm"]) /\ 1 + 1 = 2
      BY <2>2
    <3>2. todo'["comm"][1] = todo["comm"][1 + 1]
      BY <2>1, <3>1
    <3> QED  BY <3>1, <3>2
  <2>4. Head(todo'["comm"]).op = "judge"
    BY <1>t, <1>2, <2>1, <2>2, <2>3
  <2> QED  BY <2>4 DEF IsNext, Front, Misplaced
<1>8. /\ DOMAIN nodes' = DOMAIN nodes
      /\ \A a \in DOMAIN nodes : nodes'[a] = IF a = src THEN Awaited(s) ELSE nodes[a]
  BY DEF Mark, set_update_node_process
<1>9. fileOffset \in Nat
  BY DEF TypeOK
<1>10. (Ahead \/ Unearned)' => Ahead \/ Unearned \/ Misplaced
  <2>1. Ahead' => Ahead
    <3> SUFFICES ASSUME NEW a \in DOMAIN nodes, nodes'[a].step = DATA, nodes'[a].offset > fileOffset
                 PROVE  Ahead
      BY <1>3, <1>8 DEF Ahead
    <3>1. a # src
      BY <1>8, <1>9 DEF Awaited, At
    <3> QED  BY <1>8, <3>1 DEF Ahead
  <2>2. Unearned' => Unearned \/ Misplaced
    <3> SUFFICES ASSUME NEW a \in Missing, nodes'[a] = At(DATA, fileOffset)
                 PROVE  Unearned \/ Misplaced
      BY <1>3, <1>8 DEF Unearned, Missing, Blocks
    <3>1. CASE a # src
      BY <1>8, <3>1 DEF Unearned, Missing
    <3>2. CASE a = src
      <4>1. Awaited(s) = At(DATA, fileOffset)
        BY <1>8, <3>2 DEF Missing
      <4>2. s = DATA
        BY <4>1 DEF Awaited, At
      <4> QED  BY <1>1, <3>2, <4>2 DEF Misplaced, Missing
    <3> QED  BY <3>1, <3>2
  <2> QED  BY <2>1, <2>2
<1>11. CommMay' = One(Ahead \/ Unearned)' /\ CommMay = One(Ahead \/ Unearned \/ Misplaced)
  BY <1>6, <1>7, MayRange, MayOfListNext
<1>12. CommMay' <= CommMay
  BY <1>10, <1>11 DEF One
<1>13. CommMay \in Nat /\ CommMay' \in Nat /\ skips \in Nat
  BY MayRange, MayRangeNext DEF TypeOK
<1>14. skips' + CommMay' <= skips + CommMay
  BY <1>3, <1>12, <1>13, SumLess
<1> QED  BY <1>3, <1>4, <1>5, <1>14 DEF CommPays

\* A list that is judged all the same is at the block of the file.
LEMMA JudgePays ==
  ASSUME TypeOK, TodoOK, CommShape, Judge
  PROVE  CommPays
<1> USE DEF stepVars, fileVars, pageVars
<1>t. todo \in [Threads -> Seq(Accesses)] /\ "comm" \in Threads /\ "gui" \in Threads
  BY DEF TodoOK, Threads
<1> DEFINE s == Front("comm").arg
<1>1. /\ IsNext("comm", "judge") /\ todo["comm"] # <<>> /\ Front("comm").op = "judge"
      /\ Front("comm") = todo["comm"][1] /\ Len(todo["comm"]) \in Nat \ {0}
      /\ s \in Steps /\ s # IDLE
  <2>1. IsNext("comm", "judge")
    BY DEF Judge
  <2> QED  BY <1>t, <2>1, FrontLemma DEF About, StepOps
<1>2. UNCHANGED <<nodes, fileOffset, replied, skips, giveUps, disturbed>>
  BY DEF Judge
<1>3. todo'["gui"] = todo["gui"]
  BY <1>t DEF Judge, Then
<1>4. ~Fresh
  BY <1>1 DEF Fresh, Busy
<1>5. ~IsNext("comm", "advance") /\ ~Misplaced
  BY <1>1 DEF IsNext, Misplaced
<1>6. CommMay = One(Ahead \/ Unearned)
  BY <1>5, MayOfList
<1>7. Len(todo["comm"]) = 1
  <2>1. 1 \in 1 .. Len(todo["comm"]) /\ todo["comm"][1].op = "judge"
    BY <1>1
  <2> QED  BY <2>1 DEF CommShape
<1>8. (Ahead \/ Unearned)' = (Ahead \/ Unearned)
  BY <1>2 DEF Ahead, Unearned, Missing, Blocks
<1>9. CommMay' <= CommMay
  <2>1. CASE Then("comm", <<>>)
    <3>1. Len(todo'["comm"]) = Len(todo["comm"]) - 1 /\ todo' \in [Threads -> Seq(Accesses)]
      BY <1>t, <1>1, <2>1, DoneLemma DEF Done
    <3>2. todo'["comm"] = <<>>
      BY <1>t, <1>7, <3>1
    <3>3. ~IsNext("comm", "advance")' /\ ~Misplaced'
      BY <3>2 DEF IsNext, Misplaced
    <3>4. CommMay' = One(Ahead \/ Unearned)'
      BY <3>3, MayOfListNext
    <3> QED  BY <1>6, <1>8, <3>4 DEF One
  <2>2. CASE judge_update_node_is_same(nodes, Awaited(s)) /\ Then("comm", Finish(s))
    <3>1. Finish(s) \in Seq(Accesses) /\ Len(Finish(s)) \in Nat \ {0}
          /\ Finish(s)[1].op = (IF s = DATA THEN "advance" ELSE IF s = CRC THEN "full" ELSE "switch")
      BY <1>1, FinishTyped, FinishOps
    <3>2. /\ todo'["comm"] \in Seq(Accesses)
          /\ Len(todo'["comm"]) = Len(Finish(s)) + Len(todo["comm"]) - 1
          /\ \A i \in 1 .. Len(Finish(s)) : todo'["comm"][i] = Finish(s)[i]
      <4> HIDE DEF s
      <4> QED  BY <1>t, <1>1, <2>2, <3>1, ThenLemma
    <3>3. todo'["comm"] # <<>> /\ Head(todo'["comm"]) = Finish(s)[1]
      BY <1>7, <3>1, <3>2
    <3>4. CASE s # DATA
      <4>1. Head(todo'["comm"]).op \in {"full", "switch"}
        BY <3>1, <3>3, <3>4
      <4>2. ~IsNext("comm", "advance")' /\ ~Misplaced'
        BY <4>1 DEF IsNext, Front, Misplaced
      <4>3. CommMay' = One(Ahead \/ Unearned)'
        BY <4>2, MayOfListNext
      <4> QED  BY <1>6, <1>8, <4>3 DEF One
    <3>5. CASE s = DATA
      <4>1. IsNext("comm", "advance")'
        BY <3>1, <3>3, <3>5 DEF IsNext, Front
      <4>2. CommMay' = One(Missing # {})' + One(Ahead)'
        BY <4>1, MayRangeNext
      <4>3. \A a \in DOMAIN nodes : nodes[a] = At(DATA, fileOffset)
        BY <2>2, <3>5 DEF judge_update_node_is_same, Awaited
      <4>4. fileOffset \in Nat
        BY DEF TypeOK
      <4>5. ~Ahead'
        BY <1>2, <4>3, <4>4 DEF Ahead, At
      <4>6. (Missing # {})' => Unearned
        BY <1>2, <4>3 DEF Unearned, Missing, Blocks
      <4> QED  BY <1>6, <4>2, <4>5, <4>6 DEF One
    <3> QED  BY <3>4, <3>5
  <2> QED  BY <2>1, <2>2 DEF Judge
<1>10. CommMay \in Nat /\ CommMay' \in Nat /\ skips \in Nat
  BY MayRange, MayRangeNext DEF TypeOK
<1>11. skips' + CommMay' <= skips + CommMay
  BY <1>2, <1>9, <1>10, SumLess
<1> QED  BY <1>2, <1>3, <1>4, <1>11 DEF CommPays

\* What the GUI thread has yet to do after some accesses more.
LEMMA GuiHasThen ==
  ASSUME TodoOK, GuiShape, todo["gui"] # <<>>, NEW first \in Seq(Accesses), Then("gui", first),
         NEW some
  PROVE  /\ GuiHas(some)' => GuiHas(some) \/ \E i \in 1 .. Len(first) : first[i].op \in some
         /\ Front("gui").op \in LoneOps /\ some \subseteq LoneOps /\ GuiHas(some)'
              => \E i \in 1 .. Len(first) : first[i].op \in some
         /\ Front("gui").op \notin some /\ GuiHas(some) => GuiHas(some)'
         /\ todo'["comm"] = todo["comm"]
<1> DEFINE old == todo["gui"]
           new == todo'["gui"]
<1>1. /\ old \in Seq(Accesses) /\ old # <<>>
      /\ new \in Seq(Accesses) /\ Len(new) = Len(first) + Len(old) - 1
      /\ \A i \in 1 .. Len(first) : new[i] = first[i]
      /\ \A i \in 1 .. Len(new) :
           i > Len(first) => i - Len(first) + 1 \in 2 .. Len(old)
                             /\ new[i] = old[i - Len(first) + 1]
      /\ todo'["comm"] = todo["comm"]
  BY ThenLemma DEF TodoOK, Threads
<1>2. Len(old) \in Nat \ {0} /\ Len(new) \in Nat /\ Len(first) \in Nat
  BY <1>1
<1>3. Front("gui") = old[1]
  BY <1>1 DEF Front
<1>4. \A i, j \in 1 .. Len(old) : old[i].op \in LoneOps /\ old[j].op \in LoneOps => i = j
  BY DEF GuiShape
<1> HIDE DEF old, new
<1>5. ASSUME NEW i \in 1 .. Len(new), new[i].op \in some
      PROVE  \/ \E j \in 1 .. Len(first) : first[j].op \in some
             \/ \E k \in 2 .. Len(old) : old[k].op \in some
  <2>1. CASE i <= Len(first)
    BY <1>1, <1>2, <1>5, <2>1
  <2>2. CASE i > Len(first)
    BY <1>1, <1>5, <2>2
  <2> QED  BY <1>2, <2>1, <2>2
<1>6. ASSUME NEW k \in 2 .. Len(old), old[k].op \in some
      PROVE  \E i \in 1 .. Len(new) : new[i].op \in some
  <2> DEFINE i == k - 1 + Len(first)
  <2>1. i \in 1 .. Len(new) /\ i > Len(first) /\ i - Len(first) + 1 = k
    BY <1>1, <1>2
  <2> HIDE DEF i
  <2>2. new[i] = old[k]
    BY <1>1, <2>1
  <2> QED  BY <1>6, <2>1, <2>2
<1>7. GuiHas(some)' <=> \E i \in 1 .. Len(new) : new[i].op \in some
  BY DEF GuiHas, new
<1>8. GuiHas(some) <=> \E i \in 1 .. Len(old) : old[i].op \in some
  BY DEF GuiHas, old
<1>9. \A k \in 2 .. Len(old) : k \in 1 .. Len(old)
  OBVIOUS
<1>10. ASSUME Front("gui").op \in LoneOps, some \subseteq LoneOps, NEW k \in 2 .. Len(old)
       PROVE  old[k].op \notin some
  BY <1>2, <1>3, <1>4, <1>10
<1>11. ASSUME Front("gui").op \notin some, GuiHas(some)
       PROVE  \E k \in 2 .. Len(old) : old[k].op \in some
  <2>1. PICK k \in 1 .. Len(old) : old[k].op \in some
    BY <1>8, <1>11
  <2>2. k # 1
    BY <1>3, <1>11, <2>1
  <2> QED  BY <2>1, <2>2, <1>2
<1> QED  BY <1>1, <1>5, <1>6, <1>7, <1>8, <1>9, <1>10, <1>11

\* The thread has one thing left that can be overtaken.
LEMMA LoneGui ==
  ASSUME TodoOK, GuiShape
  PROVE  /\ ~(GuiHas(TurnOps) /\ GuiHas({"list"}))
         /\ todo["gui"] # <<>> /\ Front("gui").op \in LoneOps \ {"list"} => ~GuiHas({"list"})
         /\ todo["gui"] # <<>> /\ Front("gui").op \in LoneOps \ TurnOps => ~GuiHas(TurnOps)
         /\ todo["gui"] # <<>> /\ Front("gui").op \in TurnOps => GuiHas(TurnOps)
         /\ todo["gui"] # <<>> /\ Front("gui").op = "list" => GuiHas({"list"})
         /\ todo["gui"] # <<>> /\ GuiHas({"list"}) => Front("gui").op \in {"clear", "list"}
<1>1. todo["gui"] \in Seq(Accesses)
  BY DEF TodoOK, Threads
<1>2. todo["gui"] # <<>> => /\ Front("gui") = todo["gui"][1] /\ 1 \in 1 .. Len(todo["gui"])
                            /\ Len(todo["gui"]) \in Nat \ {0}
  BY <1>1 DEF Front
<1>3. \A i, j \in 1 .. Len(todo["gui"]) :
        todo["gui"][i].op \in LoneOps /\ todo["gui"][j].op \in LoneOps => i = j
  BY DEF GuiShape
<1>4. ASSUME GuiHas(TurnOps), GuiHas({"list"})
      PROVE  FALSE
  <2>1. PICK i \in 1 .. Len(todo["gui"]) : todo["gui"][i].op \in TurnOps
    BY <1>4 DEF GuiHas
  <2>2. PICK j \in 1 .. Len(todo["gui"]) : todo["gui"][j].op = "list"
    BY <1>4 DEF GuiHas
  <2>3. i = j
    BY <1>3, <2>1, <2>2 DEF LoneOps
  <2> QED  BY <2>1, <2>2, <2>3 DEF TurnOps
<1>5. ASSUME todo["gui"] # <<>>, Front("gui").op \in LoneOps \ {"list"}, GuiHas({"list"})
      PROVE  FALSE
  <2>1. PICK j \in 1 .. Len(todo["gui"]) : todo["gui"][j].op = "list"
    BY <1>5 DEF GuiHas
  <2>2. j = 1
    BY <1>2, <1>3, <1>5, <2>1 DEF LoneOps
  <2> QED  BY <1>2, <1>5, <2>1, <2>2
<1>6. ASSUME todo["gui"] # <<>>, Front("gui").op \in LoneOps \ TurnOps, GuiHas(TurnOps)
      PROVE  FALSE
  <2>1. PICK j \in 1 .. Len(todo["gui"]) : todo["gui"][j].op \in TurnOps
    BY <1>6 DEF GuiHas
  <2>2. j = 1
    BY <1>2, <1>3, <1>6, <2>1 DEF LoneOps
  <2> QED  BY <1>2, <1>6, <2>1, <2>2
<1>7. todo["gui"] # <<>> /\ Front("gui").op \in TurnOps => GuiHas(TurnOps)
  BY <1>2 DEF GuiHas
<1>8. todo["gui"] # <<>> /\ Front("gui").op = "list" => GuiHas({"list"})
  BY <1>2 DEF GuiHas
<1>9. ASSUME todo["gui"] # <<>>, GuiHas({"list"})
      PROVE  Front("gui").op \in {"clear", "list"}
  <2>1. PICK i \in 1 .. Len(todo["gui"]) : todo["gui"][i].op = "list"
    BY <1>9 DEF GuiHas
  <2>2. \A j \in 1 .. i - 1 : todo["gui"][j].op = "clear"
    BY <2>1 DEF GuiShape
  <2>3. CASE i = 1
    BY <1>2, <1>9, <2>1, <2>3
  <2>4. CASE i # 1
    <3>1. 1 \in 1 .. i - 1
      BY <2>4
    <3> QED  BY <1>2, <1>9, <2>2, <3>1
  <2> QED  BY <2>3, <2>4
<1> QED  BY <1>4, <1>5, <1>6, <1>7, <1>8, <1>9

\* Sizes of what is due.
LEMMA DueRange ==
  /\ GuiDue \in {0, 1, 2}
  /\ GuiHas(TurnOps) => GuiDue = 2
  /\ ~GuiHas(TurnOps) => GuiDue \in {0, 1}
  /\ ~GuiHas(TurnOps) /\ GuiHas({"list"}) /\ ~Fresh => GuiDue = 1
  /\ ~GuiHas(TurnOps) /\ ~(GuiHas({"list"}) /\ ~Fresh) => GuiDue = 0
  /\ Fresh => CommDue = 0
  /\ ~Fresh => CommDue = CommMay
  /\ CommDue \in {0, 1, 2}
  BY MayRange DEF GuiDue, CommDue, One

LEMMA DueRangeNext ==
  /\ GuiDue' \in {0, 1, 2}
  /\ GuiHas(TurnOps)' => GuiDue' = 2
  /\ ~GuiHas(TurnOps)' => GuiDue' \in {0, 1}
  /\ ~GuiHas(TurnOps)' /\ GuiHas({"list"})' /\ ~Fresh' => GuiDue' = 1
  /\ ~GuiHas(TurnOps)' /\ ~(GuiHas({"list"})' /\ ~Fresh') => GuiDue' = 0
  /\ Fresh' => CommDue' = 0
  /\ ~Fresh' => CommDue' = CommMay'
  /\ CommDue' \in {0, 1, 2}
  BY MayRangeNext DEF GuiDue, CommDue, One

\* The amounts before and after a step, as numbers.
Amounts(s, m, c, g, p) ==
  skips = s /\ CommMay = m /\ CommDue = c /\ GuiDue = g /\ giveUps + disturbed = p

LEMMA AmountsBefore ==
  ASSUME TypeOK, TodoOK
  PROVE  \E s, m, c, g, p \in Nat : Amounts(s, m, c, g, p)
<1>1. skips \in Nat /\ giveUps + disturbed \in Nat
  BY DEF TypeOK, TodoOK
<1>2. CommMay \in Nat /\ CommDue \in Nat /\ GuiDue \in Nat
  BY MayRange, DueRange
<1> QED  BY <1>1, <1>2 DEF Amounts

LEMMA AmountsAfter ==
  ASSUME TypeOK', TodoOK'
  PROVE  \E s, m, c, g, p \in Nat : Amounts(s, m, c, g, p)'
<1>1. skips' \in Nat /\ giveUps' + disturbed' \in Nat
  <2>1. skips' \in Nat /\ giveUps' \in Nat /\ ops' \in Nat /\ disturbed' \in 0 .. ops'
    BY DEF TypeOK, TodoOK
  <2>2. \A k, l \in Nat : \A n \in 0 .. l : k + n \in Nat
    OBVIOUS
  <2> QED  BY <2>1, <2>2, Zenon
<1>2. CommMay' \in Nat /\ CommDue' \in Nat /\ GuiDue' \in Nat
  BY MayRangeNext, DueRangeNext
<1> QED  BY <1>1, <1>2 DEF Amounts

LEMMA PaidIs ==
  ASSUME Paid, NEW s, NEW m, NEW c, NEW g, NEW p, Amounts(s, m, c, g, p)
  PROVE  s + c + g <= 2 * p
  BY DEF Paid, Amounts

LEMMA PaidNext ==
  ASSUME NEW s, NEW m, NEW c, NEW g, NEW p, Amounts(s, m, c, g, p)', s + c + g <= 2 * p
  PROVE  Paid'
<1>1. skips' + CommDue' + GuiDue' <= 2 * (giveUps' + disturbed')
  BY DEF Amounts
<1> QED  BY <1>1 DEF Paid

\* The communication thread keeps what is paid for.
LEMMA CommKeepsPaid ==
  ASSUME TypeOK, TodoOK, TypeOK', TodoOK', Paid, CommPays
  PROVE  Paid'
<1>1. PICK s, m, c, g, p \in Nat : Amounts(s, m, c, g, p)
  BY AmountsBefore
<1>2. PICK s2, m2, c2, g2, p2 \in Nat : Amounts(s2, m2, c2, g2, p2)'
  BY AmountsAfter
<1>3. s + c + g <= 2 * p
  BY <1>1, PaidIs
<1>4. /\ skips' + CommMay' <= skips + CommMay /\ ~Fresh /\ todo'["gui"] = todo["gui"]
      /\ giveUps' = giveUps /\ disturbed' = disturbed
  BY DEF CommPays
<1>5. s2 + m2 <= s + m
  BY <1>1, <1>2, <1>4, Zenon DEF Amounts
<1>6. c = m /\ c2 \in {0, m2} /\ p2 = p
  BY <1>1, <1>2, <1>4, DueRange, DueRangeNext DEF Amounts
<1>7. \A some : GuiHas(some)' <=> GuiHas(some)
  BY <1>4 DEF GuiHas
<1>8. g2 = g \/ g2 = 0
  <2>1. CASE GuiHas(TurnOps)
    BY <1>1, <1>2, <1>7, <2>1, DueRange, DueRangeNext DEF Amounts
  <2>2. CASE ~GuiHas(TurnOps) /\ GuiHas({"list"})
    BY <1>1, <1>2, <1>4, <1>7, <2>2, DueRange, DueRangeNext DEF Amounts
  <2>3. CASE ~GuiHas(TurnOps) /\ ~GuiHas({"list"})
    BY <1>1, <1>2, <1>7, <2>3, DueRange, DueRangeNext DEF Amounts
  <2> QED  BY <2>1, <2>2, <2>3
<1>9. s2 + c2 + g2 <= 2 * p2
  BY <1>3, <1>5, <1>6, <1>8
<1> QED  BY <1>2, <1>9, PaidNext

\* Of the due, nothing has become more.
DueKept ==
  /\ CommDue' \in {0, CommDue}
  /\ GuiDue' \in {0, GuiDue}
  /\ UNCHANGED <<skips, giveUps, disturbed>>

LEMMA DueKeptPays ==
  ASSUME TypeOK, TodoOK, TypeOK', TodoOK', Paid, DueKept
  PROVE  Paid'
<1>1. PICK s, m, c, g, p \in Nat : Amounts(s, m, c, g, p)
  BY AmountsBefore
<1>2. PICK s2, m2, c2, g2, p2 \in Nat : Amounts(s2, m2, c2, g2, p2)'
  BY AmountsAfter
<1>3. s + c + g <= 2 * p
  BY <1>1, PaidIs
<1>4. s2 = s /\ p2 = p /\ c2 \in {0, c} /\ g2 \in {0, g}
  BY <1>1, <1>2 DEF Amounts, DueKept
<1>5. s2 + c2 + g2 <= 2 * p2
  BY <1>3, <1>4
<1> QED  BY <1>2, <1>5, PaidNext

\* Accesses of the GUI thread that touch neither list nor position of the file.
LEMMA GuiCalm ==
  ASSUME TypeOK, TodoOK, GuiShape, todo["gui"] # <<>>,
         NEW first \in Seq(Accesses), Then("gui", first),
         \A i \in 1 .. Len(first) : first[i].op # "list" /\ first[i].op \notin TurnOps,
         Front("gui").op # "list", Front("gui").op = "clear" => step' = step,
         UNCHANGED <<nodes, fileOffset, replied>>
  PROVE  CommDue' \in {0, CommDue} /\ GuiDue' \in {0, GuiDue}
<1>1. todo'["comm"] = todo["comm"]
  BY GuiHasThen
<1>2. CommMay' = CommMay
  BY <1>1, MayKept
<1>3. GuiHas(TurnOps)' => GuiHas(TurnOps)
  BY GuiHasThen
<1>4. GuiHas({"list"})' => GuiHas({"list"})
  BY GuiHasThen
<1>5. ~(GuiHas(TurnOps) /\ GuiHas({"list"}))
  BY LoneGui
<1>7. CASE Fresh
  <2>1. GuiHas({"list"}) /\ ~Busy
    BY <1>7 DEF Fresh
  <2>2. Front("gui").op = "clear"
    BY <2>1, LoneGui
  <2>3. GuiHas({"list"})'
    BY <2>1, <2>2, GuiHasThen
  <2>4. ~Busy'
    BY <1>1, <2>1, <2>2 DEF Busy
  <2>5. Fresh'
    BY <2>3, <2>4 DEF Fresh
  <2>6. CommDue' = 0 /\ GuiDue' = 0
    BY <1>3, <1>5, <2>1, <2>5, DueRangeNext
  <2> QED  BY <2>6
<1>8. CASE ~Fresh
  <2>1. CommDue = CommMay /\ (CommDue' = 0 \/ CommDue' = CommMay)
    BY <1>2, <1>8, DueRange, DueRangeNext
  <2>2. GuiDue' \in {0, GuiDue}
    <3>1. CASE GuiHas(TurnOps)
      <4>1. GuiDue = 2 /\ ~GuiHas({"list"})'
        BY <1>4, <1>5, <3>1, DueRange
      <4> QED  BY <4>1, DueRangeNext
    <3>2. CASE ~GuiHas(TurnOps) /\ GuiHas({"list"})
      BY <1>3, <1>8, <3>2, DueRange, DueRangeNext
    <3>3. CASE ~GuiHas(TurnOps) /\ ~GuiHas({"list"})
      BY <1>3, <1>4, <3>3, DueRangeNext
    <3> QED  BY <3>1, <3>2, <3>3
  <2> QED  BY <2>1, <2>2
<1> QED  BY <1>7, <1>8

\* Behind an access that can be overtaken, nothing of the kind is left but what
\* comes in its place.
LEMMA GuiTurned ==
  ASSUME TypeOK, TodoOK, GuiShape, todo["gui"] # <<>>,
         NEW first \in Seq(Accesses), Then("gui", first),
         \A i \in 1 .. Len(first) : first[i].op # "list",
         Front("gui").op \in TurnOps
  PROVE  /\ GuiDue = 2 /\ CommDue = CommMay
         /\ GuiDue' \in {0, 2}
         /\ (\A i \in 1 .. Len(first) : first[i].op \notin TurnOps) => GuiDue' = 0
         /\ CommDue' = CommMay' /\ todo'["comm"] = todo["comm"]
<1>1. GuiHas(TurnOps) /\ ~GuiHas({"list"})
  BY LoneGui DEF LoneOps, TurnOps
<1>2. Front("gui").op \in LoneOps /\ TurnOps \subseteq LoneOps /\ {"list"} \subseteq LoneOps
  BY DEF LoneOps
<1>3. ~GuiHas({"list"})'
  BY <1>2, GuiHasThen
<1>4. (\A i \in 1 .. Len(first) : first[i].op \notin TurnOps) => ~GuiHas(TurnOps)'
  BY <1>2, GuiHasThen
<1>5. ~Fresh /\ ~Fresh'
  BY <1>1, <1>3 DEF Fresh
<1>6. GuiDue = 2 /\ CommDue = CommMay
  BY <1>1, <1>5, DueRange
<1>7. GuiDue' \in {0, 2} /\ (~GuiHas(TurnOps)' => GuiDue' = 0)
  BY <1>3, DueRangeNext
<1>8. CommDue' = CommMay'
  BY <1>5, DueRangeNext
<1>9. todo'["comm"] = todo["comm"]
  BY GuiHasThen
<1> QED  BY <1>4, <1>6, <1>7, <1>8, <1>9

\* Whatever becomes of the acknowledgements, one block more at the most, unless
\* a slave is recorded ahead of the file that was not.
LEMMA MayByOne ==
  ASSUME Ahead' => Ahead, todo'["comm"] = todo["comm"]
  PROVE  CommMay' \in {0, 1} \/ (CommMay' = 2 /\ CommMay \in {1, 2})
<1>1. IsNext("comm", "advance")' <=> IsNext("comm", "advance")
  BY DEF IsNext, Front
<1>2. CASE IsNext("comm", "advance") /\ Ahead
  <2>1. CommMay = One(Missing # {}) + One(Ahead)
    BY <1>2, MayRange
  <2>2. CommMay \in {1, 2}
    BY <1>2, <2>1 DEF One
  <2> QED  BY <2>2, MayRangeNext
<1>3. CASE IsNext("comm", "advance") /\ ~Ahead
  <2>1. CommMay' = One(Missing # {})' + One(Ahead)'
    BY <1>1, <1>3, MayRangeNext
  <2>2. CommMay' \in {0, 1}
    BY <1>3, <2>1 DEF One
  <2> QED  BY <2>2
<1>4. CASE ~IsNext("comm", "advance")
  BY <1>1, <1>4, MayRangeNext
<1> QED  BY <1>2, <1>3, <1>4

\* The two amounts that the end of a step in the GUI thread can raise.
LEMMA AdvanceRaises ==
  ASSUME TypeOK, Advance("gui"), todo'["comm"] = todo["comm"]
  PROVE  /\ skips' \in {skips, skips + 1}
         /\ CommMay' \in {0, 1} \/ (CommMay' = 2 /\ CommMay \in {1, 2})
<1>1. skips \in Nat /\ fileOffset \in Nat /\ dataLen \in {0, 1}
  BY DEF TypeOK
<1>2. nodes' = nodes /\ fileOffset' = fileOffset + dataLen
  BY DEF Advance
<1>3. skips' \in {skips, skips + 1}
  BY <1>1 DEF Advance
<1>4. Ahead' => Ahead
  <2> SUFFICES ASSUME NEW a \in DOMAIN nodes, nodes[a].step = DATA, nodes[a].offset > fileOffset + dataLen,
                      IsNodeList(nodes, Addr)
               PROVE  nodes[a].offset > fileOffset
    BY <1>2 DEF Ahead, TypeOK
  <2>1. nodes[a].offset \in Nat
    BY DEF IsNodeList, Positions
  <2> QED  BY <1>1, <2>1
<1> QED  BY <1>3, <1>4, MayByOne

\* The end of a step in the GUI thread.
LEMMA GuiFinishKeepsPaid ==
  ASSUME TypeOK, TodoOK, GuiShape, Paid, FinishAccess("gui")
  PROVE  Paid'
<1> USE DEF stepVars, fileVars, pageVars
<1>1. TypeOK' /\ TodoOK'
  BY FinishAccessTypes DEF Threads
<1>2. todo["gui"] # <<>> /\ Front("gui").op \in EndOps \cup {"resume"}
  BY FinishMoves DEF Threads
<1>3. PICK first \in Seq(Accesses) : Then("gui", first) /\ Only(first, GoesOnOps)
  BY FinishMoves DEF Threads
<1>4. \A i \in 1 .. Len(first) : first[i].op # "list" /\ first[i].op \notin TurnOps
  BY <1>3 DEF Only, GoesOnOps, TurnOps
<1>5. Front("gui").op # "list" /\ Front("gui").op # "clear"
  BY <1>2 DEF EndOps
<1>6. PICK s, m, c, g, p \in Nat : Amounts(s, m, c, g, p)
  BY AmountsBefore
<1>7. PICK s2, m2, c2, g2, p2 \in Nat : Amounts(s2, m2, c2, g2, p2)'
  BY <1>1, AmountsAfter
<1>8. s + c + g <= 2 * p
  BY <1>6, PaidIs
<1>9. ASSUME Rewind("gui") \/ Advance("gui")
      PROVE  /\ g = 2 /\ c = m /\ g2 = 0 /\ c2 = m2 /\ p2 = p
             /\ todo'["comm"] = todo["comm"]
  <2>1. Front("gui").op \in TurnOps
    BY <1>9 DEF Rewind, Advance, IsNext, TurnOps
  <2>2. /\ GuiDue = 2 /\ CommDue = CommMay /\ GuiDue' = 0 /\ CommDue' = CommMay'
        /\ todo'["comm"] = todo["comm"]
    BY <1>2, <1>3, <1>4, <2>1, GuiTurned
  <2>3. UNCHANGED <<giveUps, disturbed>>
    BY <1>9 DEF Rewind, Advance
  <2> QED  BY <1>6, <1>7, <2>2, <2>3 DEF Amounts
<1>10. CASE \/ Switch("gui") \/ EnterStep("gui") \/ Load("gui") \/ First("gui")
            \/ NextBlock("gui") \/ Resume("gui") \/ Full("gui")
  <2>1. UNCHANGED <<nodes, fileOffset, replied, skips, giveUps, disturbed>>
    BY <1>10 DEF Switch, EnterStep, Load, First, NextBlock, Resume, Full
  <2>2. CommDue' \in {0, CommDue} /\ GuiDue' \in {0, GuiDue}
    BY <1>2, <1>3, <1>4, <1>5, <2>1, GuiCalm
  <2> QED  BY <1>1, <2>1, <2>2, DueKeptPays DEF DueKept
<1>11. CASE Rewind("gui")
  <2>1. s2 = s
    BY <1>6, <1>7, <1>11 DEF Rewind, Amounts
  <2>2. m2 \in {0, 1, 2}
    BY <1>7, MayRangeNext DEF Amounts
  <2>3. s2 + c2 + g2 <= 2 * p2
    BY <1>8, <1>9, <1>11, <2>1, <2>2
  <2> QED  BY <1>7, <2>3, PaidNext
<1>12. CASE Advance("gui")
  <2>1. s2 \in {s, s + 1} /\ (m2 \in {0, 1} \/ (m2 = 2 /\ m \in {1, 2}))
    BY <1>6, <1>7, <1>9, <1>12, AdvanceRaises DEF Amounts
  <2>2. s2 + c2 + g2 <= 2 * p2
    BY <1>8, <1>9, <1>12, <2>1
  <2> QED  BY <1>7, <2>2, PaidNext
<1> QED  BY <1>10, <1>11, <1>12 DEF FinishAccess

\* A timeout that only counts, a refresh of the page, a click that goes on.
LEMMA GuiCalmKeepsPaid ==
  ASSUME TypeOK, TodoOK, GuiShape, Paid,
         Take \/ Count \/ Failed \/ slotUpdataProgress \/ ClearProgress \/ StartTimer
  PROVE  Paid'
<1> USE DEF stepVars, fileVars, pageVars
<1>1. TypeOK' /\ TodoOK'
  BY GuiTypes DEF GuiPoll
<1>2. PICK first \in Seq(Accesses) :
        /\ Then("gui", first)
        /\ \A i \in 1 .. Len(first) : first[i].op # "list"
        /\ first # <<>> => Front("gui").op \in {"take", "count", "compare", "remove", "decide"}
        /\ Front("gui").op \in {"take", "count"} =>
             \A i \in 1 .. Len(first) : first[i].op \notin TurnOps
  BY GuiMoves
<1>3. todo["gui"] # <<>> /\ Front("gui").op \in {"take", "count", "failed", "show", "clear", "run"}
  BY DEF Take, Count, Failed, slotUpdataProgress, ClearProgress, StartTimer, IsNext
<1>4. UNCHANGED <<nodes, fileOffset, replied, step, skips, giveUps, disturbed>>
  BY DEF Take, Count, Failed, slotUpdataProgress, ClearProgress, StartTimer
<1>5. \A i \in 1 .. Len(first) : first[i].op # "list" /\ first[i].op \notin TurnOps
  <2>1. CASE Front("gui").op \in {"take", "count"}
    BY <1>2, <2>1
  <2>2. CASE Front("gui").op \in {"failed", "show", "clear", "run"}
    <3>1. first = <<>>
      BY <1>2, <2>2
    <3> QED  BY <3>1
  <2> QED  BY <1>3, <2>1, <2>2
<1>6. CommDue' \in {0, CommDue} /\ GuiDue' \in {0, GuiDue}
  BY <1>2, <1>3, <1>4, <1>5, GuiCalm
<1> QED  BY <1>1, <1>4, <1>6, DueKeptPays DEF DueKept

\* A timer that fires finds a thread with nothing to do.
LEMMA PollKeepsPaid ==
  ASSUME TypeOK, TodoOK, Paid, Poll
  PROVE  Paid'
<1> USE DEF stepVars, fileVars, pageVars
<1>1. TypeOK' /\ TodoOK'
  BY GuiTypes DEF GuiPoll
<1>2. todo["gui"] = <<>> /\ todo \in [Threads -> Seq(Accesses)] /\ "gui" \in Threads
  BY DEF Poll, TodoOK, Threads
<1>3. todo'["comm"] = todo["comm"]
  BY <1>2 DEF Poll
<1>4. \A i \in 1 .. Len(todo'["gui"]) : todo'["gui"][i].op \in {"take", "show"}
  <2>1. CASE step = IDLE
    <3>1. todo'["gui"] = <<>> \o <<Access("show", None)>>
      BY <1>2, <2>1 DEF Poll
    <3>2. todo'["gui"] = <<Access("show", None)>>
      BY <3>1
    <3> QED  BY <3>2, AccessIs
  <2>2. CASE step # IDLE
    <3>1. todo'["gui"] = <<Access("take", None)>> \o <<Access("show", None)>>
      BY <1>2, <2>2 DEF Poll
    <3>2. todo'["gui"] = <<Access("take", None), Access("show", None)>>
      BY <3>1, OneAndOne
    <3> QED  BY <3>2, AccessIs
  <2> QED  BY <2>1, <2>2
<1>5. ~GuiHas(TurnOps)' /\ ~GuiHas({"list"})'
  BY <1>4 DEF GuiHas, TurnOps
<1>6. ~GuiHas({"list"})
  BY <1>2 DEF GuiHas
<1>7. CommDue = CommMay /\ CommDue' = CommMay' /\ GuiDue' = 0
  BY <1>5, <1>6, DueRange, DueRangeNext DEF Fresh
<1>8. UNCHANGED <<nodes, fileOffset, replied, skips, giveUps, disturbed>>
  BY DEF Poll
<1>9. CommMay' = CommMay
  BY <1>3, <1>8, MayKept
<1> QED  BY <1>1, <1>7, <1>8, <1>9, DueKeptPays DEF DueKept

\* The resends of a step run out: what the removal may lose is paid for here.
LEMMA CompareKeepsPaid ==
  ASSUME TypeOK, TodoOK, GuiShape, Paid, Compare
  PROVE  Paid'
<1> USE DEF stepVars, fileVars, pageVars
<1>1. TypeOK' /\ TodoOK'
  BY GuiTypes DEF GuiPoll
<1>2. todo["gui"] # <<>> /\ Front("gui").op = "compare"
  BY DEF Compare, IsNext
<1>3. UNCHANGED <<nodes, fileOffset, replied, step, skips, disturbed>>
  BY DEF Compare
<1>4. PICK first \in Seq(Accesses) :
        Then("gui", first) /\ \A i \in 1 .. Len(first) : first[i].op # "list"
  BY GuiMoves
<1>5. CASE Done("gui") /\ giveUps' = giveUps
  <2>1. PICK none \in Seq(Accesses) : none = <<>>
    BY NoneTyped
  <2>2. Then("gui", none) /\ \A i \in 1 .. Len(none) : none[i].op # "list" /\ none[i].op \notin TurnOps
    BY <1>5, <2>1 DEF Done
  <2>3. CommDue' \in {0, CommDue} /\ GuiDue' \in {0, GuiDue}
    BY <1>2, <1>3, <2>2, GuiCalm
  <2> QED  BY <1>1, <1>3, <1>5, <2>3, DueKeptPays DEF DueKept
<1>6. CASE giveUps' = giveUps + 1
  <2>1. PICK s, m, c, g, p \in Nat : Amounts(s, m, c, g, p)
    BY AmountsBefore
  <2>2. PICK s2, m2, c2, g2, p2 \in Nat : Amounts(s2, m2, c2, g2, p2)'
    BY <1>1, AmountsAfter
  <2>3. s + c + g <= 2 * p
    BY <2>1, PaidIs
  <2>4. "compare" \in LoneOps \ TurnOps /\ "compare" # "list" /\ {"list"} \subseteq LoneOps
    BY DEF LoneOps, TurnOps
  <2>5. ~GuiHas({"list"})
    BY <1>2, <2>4, LoneGui
  <2>6. ~GuiHas({"list"})' /\ todo'["comm"] = todo["comm"]
    BY <1>2, <1>4, <2>4, GuiHasThen
  <2>7. CommDue = CommMay /\ CommDue' = CommMay' /\ CommMay' = CommMay
    BY <1>3, <2>5, <2>6, DueRange, DueRangeNext, MayKept DEF Fresh
  <2>8. s2 = s /\ c2 = c /\ g2 \in {0, 1, 2}
    BY <1>3, <2>1, <2>2, <2>7, DueRangeNext DEF Amounts
  <2>9. p2 = p + 1
    <3>1. giveUps \in Nat /\ disturbed \in Int /\ disturbed' = disturbed
      BY <1>3 DEF TypeOK
    <3>2. p = giveUps + disturbed /\ p2 = giveUps' + disturbed'
      BY <2>1, <2>2 DEF Amounts
    <3>3. p2 = (giveUps + 1) + disturbed
      BY <1>6, <3>1, <3>2
    <3> QED  BY <3>1, <3>2, <3>3
  <2>10. s2 + c2 + g2 <= 2 * p2
    BY <2>3, <2>8, <2>9
  <2> QED  BY <2>2, <2>10, PaidNext
<1> QED  BY <1>5, <1>6 DEF Compare

\* A list that has become shorter loses no block that it would not have lost.
LEMMA RemoveLosesNothing ==
  ASSUME Remove, todo'["comm"] = todo["comm"]
  PROVE  CommMay' = CommMay \/ CommMay' = 0 \/ (CommMay' = 1 /\ CommMay = 2)
<1> USE DEF stepVars, fileVars, pageVars
<1>1. DOMAIN nodes' \subseteq DOMAIN nodes /\ \A a \in DOMAIN nodes' : nodes'[a] = nodes[a]
  BY RemoveKeeps
<1>2. UNCHANGED <<fileOffset, replied>>
  BY DEF Remove
<1>3. Ahead' => Ahead
  BY <1>1, <1>2 DEF Ahead
<1>4. \A a \in Missing' : a \in Missing
  BY <1>1, <1>2 DEF Missing, Blocks
<1>5. Unearned' => Unearned
  <2> SUFFICES ASSUME NEW a \in Missing', nodes'[a] = At(DATA, fileOffset)
               PROVE  Unearned
    BY <1>2 DEF Unearned
  <2>1. a \in Missing /\ a \in DOMAIN nodes'
    BY <1>4 DEF Missing
  <2> QED  BY <1>1, <2>1 DEF Unearned
<1>6. Misplaced' <=> Misplaced
  BY <1>2 DEF Misplaced, IsNext, Front, Blocks
<1>7. IsNext("comm", "advance")' <=> IsNext("comm", "advance")
  BY DEF IsNext, Front
<1>8. CASE IsNext("comm", "advance")
  <2>1. CommMay = One(Missing # {}) + One(Ahead) /\ CommMay' = One(Missing # {})' + One(Ahead)'
    BY <1>7, <1>8, MayRange, MayRangeNext
  <2>2. (Missing # {})' => Missing # {}
    BY <1>4
  <2> QED  BY <1>3, <2>1, <2>2 DEF One
<1>9. CASE ~IsNext("comm", "advance")
  <2>1. /\ CommMay = One(Ahead \/ Unearned \/ Misplaced)
        /\ CommMay' = One(Ahead \/ Unearned \/ Misplaced)'
    BY <1>7, <1>9, MayRange, MayRangeNext
  <2>2. (Ahead \/ Unearned \/ Misplaced)' => (Ahead \/ Unearned \/ Misplaced)
    BY <1>3, <1>5, <1>6
  <2> QED  BY <2>1, <2>2 DEF One
<1> QED  BY <1>8, <1>9

\* The removal of the silent, and what it decides.
LEMMA RemoveKeepsPaid ==
  ASSUME TypeOK, TodoOK, GuiShape, Paid, Remove \/ Decide
  PROVE  Paid'
<1> USE DEF stepVars, fileVars, pageVars
<1>1. TypeOK' /\ TodoOK'
  BY GuiTypes DEF GuiPoll
<1>2. todo["gui"] # <<>> /\ Front("gui").op \in TurnOps
  BY DEF Remove, Decide, IsNext, TurnOps
<1>3. PICK first \in Seq(Accesses) :
        Then("gui", first) /\ \A i \in 1 .. Len(first) : first[i].op # "list"
  BY GuiMoves
<1>4. /\ GuiDue = 2 /\ CommDue = CommMay /\ GuiDue' \in {0, 2}
      /\ CommDue' = CommMay' /\ todo'["comm"] = todo["comm"]
  BY <1>2, <1>3, GuiTurned
<1>5. UNCHANGED <<skips, giveUps, disturbed>>
  BY DEF Remove, Decide
<1>6. PICK s, m, c, g, p \in Nat : Amounts(s, m, c, g, p)
  BY AmountsBefore
<1>7. PICK s2, m2, c2, g2, p2 \in Nat : Amounts(s2, m2, c2, g2, p2)'
  BY <1>1, AmountsAfter
<1>8. s + c + g <= 2 * p
  BY <1>6, PaidIs
<1>9. CommMay' = CommMay \/ CommMay' = 0 \/ (CommMay' = 1 /\ CommMay = 2)
  <2>1. CASE Remove
    BY <1>4, <2>1, RemoveLosesNothing
  <2>2. CASE Decide
    <3>1. UNCHANGED <<nodes, fileOffset, replied>>
      BY <2>2 DEF Decide
    <3> QED  BY <1>4, <3>1, MayKept
  <2> QED  BY <2>1, <2>2
<1>10. s2 = s /\ p2 = p /\ g = 2 /\ g2 \in {0, 2} /\ c = m /\ c2 = m2
       /\ (m2 = m \/ m2 = 0 \/ (m2 = 1 /\ m = 2))
  BY <1>4, <1>5, <1>6, <1>7, <1>9 DEF Amounts
<1>11. s2 + c2 + g2 <= 2 * p2
  BY <1>8, <1>10
<1> QED  BY <1>7, <1>11, PaidNext

\* The list is filled: nothing on it is recorded at any block.
LEMMA ListKeepsPaid ==
  ASSUME TypeOK, TodoOK, GuiShape, Paid, ListNodes
  PROVE  Paid'
<1> USE DEF stepVars, fileVars, pageVars
<1>1. TypeOK' /\ TodoOK'
  BY GuiTypes
<1>2. todo["gui"] # <<>> /\ Front("gui").op = "list"
  BY DEF ListNodes, IsNext
<1>3. PICK none \in Seq(Accesses) : none = <<>>
  BY NoneTyped
<1>4. Then("gui", none) /\ \A some : ~\E i \in 1 .. Len(none) : none[i].op \in some
  BY <1>3 DEF ListNodes, Done
<1>5. UNCHANGED <<step, fileOffset, replied, skips, giveUps, disturbed>>
  BY DEF ListNodes
<1>6. "list" \in LoneOps /\ {"list"} \subseteq LoneOps /\ "list" \notin TurnOps
  BY DEF LoneOps, TurnOps
<1>7. GuiHas({"list"}) /\ ~GuiHas(TurnOps)
  BY <1>2, LoneGui
<1>8. ~GuiHas({"list"})' /\ ~GuiHas(TurnOps)' /\ todo'["comm"] = todo["comm"]
  BY <1>2, <1>4, <1>6, <1>7, GuiHasThen
<1>9. GuiDue' = 0 /\ CommDue' = CommMay'
  BY <1>8, DueRangeNext DEF Fresh
<1>10. \A a \in DOMAIN nodes' : nodes'[a] = At(0, 0)
  BY DEF ListNodes, new_update_list
<1>11. ~Ahead'
  BY <1>10 DEF Ahead, At, DATA
<1>12. ~Unearned'
  BY <1>10 DEF Unearned, At, DATA, Missing
<1>13. PICK s, m, c, g, p \in Nat : Amounts(s, m, c, g, p)
  BY AmountsBefore
<1>14. PICK s2, m2, c2, g2, p2 \in Nat : Amounts(s2, m2, c2, g2, p2)'
  BY <1>1, AmountsAfter
<1>15. s + c + g <= 2 * p
  BY <1>13, PaidIs
<1>16. s2 = s /\ p2 = p /\ g2 = 0 /\ c2 = m2
  BY <1>5, <1>9, <1>13, <1>14 DEF Amounts
<1>17. CASE Fresh
  <2>1. todo'["comm"] = <<>>
    BY <1>8, <1>17 DEF Fresh, Busy
  <2>2. ~IsNext("comm", "advance")' /\ ~Misplaced'
    BY <2>1 DEF IsNext, Misplaced
  <2>3. CommMay' = One(Ahead \/ Unearned)'
    BY <2>2, MayOfListNext
  <2>4. CommMay' = 0
    BY <1>11, <1>12, <2>3 DEF One
  <2>5. m2 = 0
    BY <1>14, <2>4 DEF Amounts
  <2>6. s2 + c2 + g2 <= 2 * p2
    BY <1>15, <1>16, <2>5
  <2> QED  BY <1>14, <2>6, PaidNext
<1>18. CASE ~Fresh
  <2>1. g = 1
    BY <1>7, <1>13, <1>18, DueRange DEF Amounts
  <2>2. CommMay' \in {0, 1}
    <3>1. CASE IsNext("comm", "advance")'
      <4>1. CommMay' = One(Missing # {})' + One(Ahead)'
        BY <3>1, MayRangeNext
      <4> QED  BY <1>11, <4>1 DEF One
    <3>2. CASE ~IsNext("comm", "advance")'
      BY <3>2, MayRangeNext
    <3> QED  BY <3>1, <3>2
  <2>3. m2 \in {0, 1}
    BY <1>14, <2>2 DEF Amounts
  <2>4. s2 + c2 + g2 <= 2 * p2
    BY <1>15, <1>16, <2>1, <2>3
  <2> QED  BY <1>14, <2>4, PaidNext
<1> QED  BY <1>17, <1>18

\* A click that is to fill the list: of an idle machine it costs nothing, and in
\* the middle of a transfer it pays for what it may lose.
LEMMA ListingClick ==
  ASSUME TypeOK, TodoOK, TypeOK', TodoOK', Paid, Disturbs,
         todo["gui"] = <<>>, todo'["comm"] = todo["comm"],
         \A i \in 1 .. Len(todo'["gui"]) : todo'["gui"][i].op \notin TurnOps,
         \E i \in 1 .. Len(todo'["gui"]) : todo'["gui"][i].op = "list",
         UNCHANGED <<step, nodes, fileOffset, skips, giveUps>>
  PROVE  Paid'
<1>1. ~GuiHas({"list"}) /\ ~GuiHas(TurnOps)
  BY DEF GuiHas
<1>2. GuiHas({"list"})' /\ ~GuiHas(TurnOps)'
  BY DEF GuiHas
<1>3. GuiDue = 0 /\ CommDue = CommMay
  BY <1>1, DueRange DEF Fresh
<1>4. Busy' <=> Busy
  BY DEF Busy
<1>5. Ahead' => Ahead
  BY DEF Ahead
<1>6. CommMay' \in {0, 1} \/ (CommMay' = 2 /\ CommMay \in {1, 2})
  BY <1>5, MayByOne
<1>7. PICK s, m, c, g, p \in Nat : Amounts(s, m, c, g, p)
  BY AmountsBefore
<1>8. PICK s2, m2, c2, g2, p2 \in Nat : Amounts(s2, m2, c2, g2, p2)'
  BY AmountsAfter
<1>9. s + c + g <= 2 * p
  BY <1>7, PaidIs
<1>10. s2 = s /\ g = 0 /\ c = m /\ (m2 \in {0, 1} \/ (m2 = 2 /\ m \in {1, 2}))
  BY <1>3, <1>6, <1>7, <1>8 DEF Amounts
<1>11. CASE Busy
  <2>1. GuiDue' = 1 /\ CommDue' = CommMay'
    BY <1>2, <1>4, <1>11, DueRangeNext DEF Fresh
  <2>2. g2 = 1 /\ c2 = m2
    BY <1>8, <2>1 DEF Amounts
  <2>3. p2 = p + 1
    <3>1. giveUps \in Nat /\ disturbed \in Int /\ disturbed' = disturbed + 1 /\ giveUps' = giveUps
      BY <1>11 DEF TypeOK, Disturbs
    <3>2. p = giveUps + disturbed /\ p2 = giveUps' + disturbed'
      BY <1>7, <1>8 DEF Amounts
    <3>3. p2 = giveUps + (disturbed + 1)
      BY <3>1, <3>2
    <3> QED  BY <3>1, <3>2, <3>3
  <2>4. s2 + c2 + g2 <= 2 * p2
    BY <1>9, <1>10, <2>2, <2>3
  <2> QED  BY <1>8, <2>4, PaidNext
<1>12. CASE ~Busy
  <2>1. GuiDue' = 0 /\ CommDue' = 0
    BY <1>2, <1>4, <1>12, DueRangeNext DEF Fresh
  <2>2. g2 = 0 /\ c2 = 0
    BY <1>8, <2>1 DEF Amounts
  <2>3. disturbed' = disturbed /\ giveUps' = giveUps
    <3>1. disturbed \in Int /\ disturbed' = disturbed + 0
      BY <1>12 DEF TypeOK, Disturbs
    <3> QED  BY <3>1
  <2>4. p2 = p
    BY <1>7, <1>8, <2>3 DEF Amounts
  <2>5. s2 + c2 + g2 <= 2 * p2
    BY <1>9, <1>10, <2>2, <2>4
  <2> QED  BY <1>8, <2>5, PaidNext
<1> QED  BY <1>11, <1>12

LEMMA ButtonsKeepPaid ==
  ASSUME TypeOK, TodoOK, BootAssumption, Paid, Buttons
  PROVE  Paid'
<1> USE DEF stepVars, fileVars, pageVars
<1>1. TypeOK' /\ TodoOK'
  BY ButtonTypes
<1>2. todo["gui"] = <<>> /\ todo \in [Threads -> Seq(Accesses)] /\ "gui" \in Threads /\ "comm" \in Threads
  BY DEF Buttons, StartButton, ResetButton, StopButton, Press, TodoOK, Threads
<1>3. CASE StartButton
  <2>1. todo'["gui"] = <<Access("clear", None), Access("list", None), Access("switch", CMD),
                         Access("enter", 0), Access("run", None)>>
    BY <1>2, <1>3, StartTyped DEF StartButton
  <2>2. \A i \in 1 .. Len(todo'["gui"]) : todo'["gui"][i].op \notin TurnOps
    BY <2>1, AccessIs DEF TurnOps
  <2>3. 2 \in 1 .. Len(todo'["gui"]) /\ todo'["gui"][2].op = "list"
    BY <2>1, AccessIs
  <2>4. todo'["comm"] = todo["comm"]
    BY <1>2, <1>3 DEF StartButton
  <2>5. Disturbs /\ UNCHANGED <<step, nodes, fileOffset, skips, giveUps>>
    BY <1>3 DEF StartButton
  <2> QED  BY <1>1, <1>2, <2>2, <2>3, <2>4, <2>5, ListingClick
<1>4. CASE ResetButton
  <2>1. todo'["gui"] = <<Access("list", None)>>
    BY <1>2, <1>4 DEF ResetButton
  <2>2. \A i \in 1 .. Len(todo'["gui"]) : todo'["gui"][i].op \notin TurnOps
    BY <2>1, AccessIs DEF TurnOps
  <2>3. 1 \in 1 .. Len(todo'["gui"]) /\ todo'["gui"][1].op = "list"
    BY <2>1, AccessIs
  <2>4. todo'["comm"] = todo["comm"]
    BY <1>2, <1>4 DEF ResetButton
  <2>5. Disturbs /\ UNCHANGED <<step, nodes, fileOffset, skips, giveUps>>
    BY <1>4 DEF ResetButton
  <2> QED  BY <1>1, <1>2, <2>2, <2>3, <2>4, <2>5, ListingClick
<1>5. CASE StopButton
  <2>1. UNCHANGED <<todo, step, nodes, fileOffset, replied, skips, giveUps, disturbed>>
    BY <1>5 DEF StopButton
  <2>2. CommMay' = CommMay
    BY <2>1, MayKept
  <2>3. \A some : GuiHas(some)' <=> GuiHas(some)
    BY <2>1 DEF GuiHas
  <2>4. Fresh' <=> Fresh
    BY <2>1, <2>3 DEF Fresh, Busy
  <2>5. CommDue' \in {0, CommDue}
    BY <2>2, <2>4, DueRange, DueRangeNext
  <2>6. ~GuiHas(TurnOps)' /\ ~GuiHas({"list"})'
    BY <1>2, <2>1 DEF GuiHas
  <2>7. GuiDue' = 0
    BY <2>6, DueRangeNext
  <2> QED  BY <1>1, <2>1, <2>5, <2>7, DueKeptPays DEF DueKept
<1> QED  BY <1>3, <1>4, <1>5 DEF Buttons

-----------------------------------------------------------------------------
(***************************************************************************)
(* The inductive invariant and what follows from it.                       *)
(***************************************************************************)
LEMMA BootInit ==
  ASSUME Init
  PROVE  BootInv
<1>1. \A t \in Threads : todo[t] = <<>>
  BY DEF Init
<1>2. todo["gui"] = <<>> /\ todo["comm"] = <<>>
  BY <1>1 DEF Threads
<1>3. TypeOK
  <2>1. IsNodeList(nodes, Addr)
    BY DEF Init, IsNodeList, clr_update_root
  <2>2. step \in Steps /\ offset \in [Steps -> Nat] /\ resendCnt \in [Steps -> Nat]
    BY DEF Init, Steps
  <2>3. replied \in [Blocks -> SUBSET Addr]
    BY DEF Init
  <2>4. full \in BOOLEAN /\ timerOn \in BOOLEAN /\ enabled \in BOOLEAN /\ silent \subseteq Addr
    BY DEF Init
  <2>5. fileOffset \in Nat /\ dataLen \in {0, 1} /\ giveUps \in Nat /\ skips \in Nat
    BY DEF Init
  <2>6. disturbed \in 0 .. ops
    BY DEF Init
  <2> QED  BY <2>1, <2>2, <2>3, <2>4, <2>5, <2>6, Zenon DEF TypeOK
<1>4. TodoOK
  BY NoneTyped DEF Init, TodoOK
<1>5. CommShape /\ GuiShape
  BY <1>2 DEF CommShape, GuiShape
<1>6. CommDue = 0 /\ GuiDue = 0
  <2>1. ~GuiHas(TurnOps) /\ ~GuiHas({"list"})
    BY <1>2 DEF GuiHas
  <2>2. ~IsNext("comm", "advance") /\ ~Misplaced
    BY <1>2 DEF IsNext, Misplaced
  <2>3. CommMay = One(Ahead \/ Unearned)
    BY <2>2, MayOfList
  <2>4. DOMAIN nodes = {}
    BY DEF Init, clr_update_root
  <2>5. CommMay = 0
    BY <2>3, <2>4 DEF Ahead, Unearned, Missing, One
  <2> QED  BY <2>1, <2>5, DueRange DEF Fresh
<1>7. Paid
  BY <1>6 DEF Init, Paid
<1> QED  BY <1>3, <1>4, <1>5, <1>7 DEF BootInv

LEMMA BootNext ==
  ASSUME BootInv, BootAssumption, Next
  PROVE  BootInv'
<1> USE DEF BootInv
<1>1. CASE CommReply
  BY <1>1, CommTypes, CommShapes, ReplyPays, CommKeepsPaid
<1>2. CASE FinishAccess("comm")
  <2>1. TypeOK' /\ TodoOK' /\ CommShape' /\ GuiShape'
    BY <1>2, FinishAccessTypes, FinishAccessShapes DEF Threads
  <2> QED  BY <1>2, <2>1, FinishPays, CommKeepsPaid
<1>3. CASE MatchOffset
  BY <1>3, CommTypes, CommShapes, MatchPays, CommKeepsPaid
<1>4. CASE Mark
  BY <1>4, CommTypes, CommShapes, MarkPays, CommKeepsPaid
<1>5. CASE Judge
  BY <1>5, CommTypes, CommShapes, JudgePays, CommKeepsPaid
<1>6. CASE FinishAccess("gui")
  <2>1. TypeOK' /\ TodoOK' /\ CommShape' /\ GuiShape'
    BY <1>6, FinishAccessTypes, FinishAccessShapes DEF Threads
  <2> QED  BY <1>6, <2>1, GuiFinishKeepsPaid
<1>7. CASE GuiPoll \/ ClearProgress \/ ListNodes \/ StartTimer
  <2>1. TypeOK' /\ TodoOK' /\ CommShape' /\ GuiShape'
    BY <1>7, GuiTypes, GuiShapes
  <2>2. Paid'
    BY <1>7, PollKeepsPaid, GuiCalmKeepsPaid, CompareKeepsPaid, RemoveKeepsPaid, ListKeepsPaid
       DEF GuiPoll
  <2> QED  BY <2>1, <2>2
<1>8. CASE Buttons
  BY <1>8, ButtonTypes, ButtonShapes, ButtonsKeepPaid
<1> QED  BY <1>1, <1>2, <1>3, <1>4, <1>5, <1>6, <1>7, <1>8 DEF Next, CommGoesOn, GuiGoesOn

LEMMA BootStutters ==
  ASSUME BootInv, UNCHANGED vars
  PROVE  BootInv'
<1> USE DEF vars, stepVars, fileVars, pageVars
<1>1. TypeOK' /\ TodoOK' /\ CommShape' /\ GuiShape'
  <2>1. TypeOK'
    BY DEF BootInv, TypeOK, Blocks
  <2>2. TodoOK' /\ CommShape' /\ GuiShape'
    BY DEF BootInv, TodoOK, CommShape, GuiShape
  <2> QED  BY <2>1, <2>2
<1>2. CommMay' = CommMay
  BY MayKept
<1>3. \A some : GuiHas(some)' <=> GuiHas(some)
  BY DEF GuiHas
<1>4. Fresh' <=> Fresh
  BY <1>3 DEF Fresh, Busy
<1>5. CommDue' = CommDue
  BY <1>2, <1>4, DueRange, DueRangeNext
<1>6. GuiDue' = GuiDue
  BY <1>3, <1>4 DEF GuiDue, One
<1>7. Paid'
  BY <1>5, <1>6 DEF BootInv, Paid
<1> QED  BY <1>1, <1>7 DEF BootInv

LEMMA BootInvHolds == Spec => []BootInv
<1>1. Init => BootInv
  BY BootInit
<1>2. BootInv /\ [Next]_vars => BootInv'
  BY BootNext, BootStutters, BootAssumption
<1> QED  BY <1>1, <1>2, PTL DEF Spec

\* Steps, list, offsets and counters stay in their ranges, and file_data.data_len
\* never exceeds a block, however the two threads interleave.
THEOREM BootTypesHold == Spec => []TypeOK
<1>1. BootInv => TypeOK
  BY DEF BootInv
<1> QED  BY <1>1, BootInvHolds, PTL

\* The file passes a block that some listed slave has not acknowledged at most
\* twice for every give-up and every click in the middle of a transfer, for any
\* slaves, any file and whatever the slaves answer.
THEOREM SkipsBoundedHolds == Spec => []SkipsBounded
<1>1. ASSUME BootInv
      PROVE  SkipsBounded
  <2>1. PICK s, m, c, g, p \in Nat : Amounts(s, m, c, g, p)
    BY <1>1, AmountsBefore DEF BootInv
  <2>2. s + c + g <= 2 * p
    BY <1>1, <2>1, PaidIs DEF BootInv
  <2>3. s <= 2 * p
    BY <2>2
  <2> QED  BY <2>1, <2>3 DEF Amounts, SkipsBounded
<1> QED  BY <1>1, BootInvHolds, PTL

=============================================================================
