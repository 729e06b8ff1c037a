---------------------------- MODULE Parts_proofs ----------------------------
(***************************************************************************)
(* The parts, each from an inductive invariant of its own:                 *)
(*   - the two events of the blocking queue say what the list says.  The   *)
(*     event notFull is not computed afresh by insertions and by get: they *)
(*     only take it away or give it, so that it is right afterwards only   *)
(*     if it was right before (QInv);                                      *)
(*   - the boxes of the group update tell the verdict of the last answer   *)
(*     (UInv, with NthIsThere: the boxes checked can be counted off);      *)
(*   - a start finds in each file what the last run left there, what that  *)
(*     run had found, or the defaults (SInv);                              *)
(*   - a reading of events that nothing disturbed shows the range that was *)
(*     asked for, once and in order (RInv);                                *)
(*   - a time-out of a page of registers asks for all its objects: what    *)
(*     the loop owes from each object on (Owed), by going down from the    *)
(*     last one (DownFromLast), and PInv;                                  *)
(*   - the registers of a page hold what was written, and its rows show    *)
(*     what they hold (VInv: of each row, request and answer under way);   *)
(*   - messages are a module of their own, MsgCodec_proofs;                *)
(*   - the types of all of them (QTypes, STypes and TInv, with the above). *)
(* A step of one part leaves the others as they are, and their invariants  *)
(* hold trivially: each begins with the part it is about.                  *)
(***************************************************************************)
EXTENDS Parts, MsgCodec_proofs

-----------------------------------------------------------------------------
(* BlockingQueue. *)

\* A sequence, of whatever elements.
IsSeq(s) == s \in Seq({s[i] : i \in DOMAIN s})

\* What the two events are to say of a list and a capacity.
Says(list, capacity) == [notEmpty |-> list # <<>>, notFull |-> Len(list) < capacity]

\* The inductive invariant of the queue's part: types, and that the events say
\* what they are to say.
QInv ==
  part = "queue" =>
    /\ IsSeq(queue)
    /\ mCapacity \in Nat \ {0}
    /\ flag = Says(queue, mCapacity)

LEMMA SeqIsSeq ==
  ASSUME NEW S, NEW s \in Seq(S)
  PROVE  IsSeq(s)
BY DEF IsSeq

LEMMA SeqOfMore ==
  ASSUME NEW S, NEW T, S \subseteq T, NEW s \in Seq(S)
  PROVE  s \in Seq(T)
OBVIOUS

LEMMA EmptyIsSeq == IsSeq(<<>>)
BY DEF IsSeq

\* What the methods do with the list leaves a list.
LEMMA AppendIsSeq ==
  ASSUME NEW s, IsSeq(s), NEW e
  PROVE  IsSeq(Append(s, e)) /\ Len(Append(s, e)) = Len(s) + 1
<1>. DEFINE S == {s[i] : i \in DOMAIN s} \cup {e}
<1>1. s \in Seq(S)
  BY DEF IsSeq
<1>2. e \in S
  OBVIOUS
<1>. HIDE DEF S
<1>3. Append(s, e) \in Seq(S) /\ Len(Append(s, e)) = Len(s) + 1
  BY <1>1, <1>2
<1>. QED  BY <1>3, SeqIsSeq

LEMMA PrependIsSeq ==
  ASSUME NEW s, IsSeq(s), NEW e
  PROVE  IsSeq(<<e>> \o s) /\ Len(<<e>> \o s) = Len(s) + 1
<1>. DEFINE S == {s[i] : i \in DOMAIN s} \cup {e}
<1>1. s \in Seq(S)
  BY DEF IsSeq
<1>2. <<e>> \in Seq(S) /\ Len(<<e>>) = 1
  OBVIOUS
<1>. HIDE DEF S
<1>3. <<e>> \o s \in Seq(S) /\ Len(<<e>> \o s) = Len(s) + 1
  BY <1>1, <1>2
<1>. QED  BY <1>3, SeqIsSeq

LEMMA TailIsSeq ==
  ASSUME NEW s, IsSeq(s), s # <<>>
  PROVE  IsSeq(Tail(s)) /\ Len(Tail(s)) = Len(s) - 1
<1>. DEFINE S == {s[i] : i \in DOMAIN s}
<1>1. s \in Seq(S)
  BY DEF IsSeq
<1>. HIDE DEF S
<1>2. Tail(s) \in Seq(S) /\ Len(Tail(s)) = Len(s) - 1
  BY <1>1
<1>. QED  BY <1>2, SeqIsSeq

LEMMA RemoveIsSeq ==
  ASSUME NEW s, IsSeq(s), NEW e
  PROVE  IsSeq(removeAll(s, e))
<1>. DEFINE kept == {i \in DOMAIN s : s[i] # e}
            place(k) == CHOOSE i \in kept : Cardinality({j \in kept : j < i}) = k - 1
            n == Cardinality(kept)
            r == [k \in 1 .. n |-> s[place(k)]]
            S == {r[k] : k \in 1 .. n}
<1>1. n \in Nat
  <2>1. Len(s) \in Nat /\ DOMAIN s = 1 .. Len(s)
    BY DEF IsSeq
  <2>2. IsFiniteSet(1 .. Len(s))
    BY <2>1, FS_Interval
  <2>3. kept \subseteq 1 .. Len(s)
    BY <2>1
  <2>4. IsFiniteSet(kept)
    BY <2>2, <2>3, FS_Subset
  <2>. QED  BY <2>4, FS_CardinalityType
<1>2. removeAll(s, e) = r
  BY DEF removeAll
<1>. HIDE DEF n, place, kept
<1>3. \A k \in 1 .. n : r[k] \in S
  OBVIOUS
<1>4. r = [k \in 1 .. n |-> r[k]]
  OBVIOUS
<1>. HIDE DEF r, S
<1>5. r \in Seq(S)
  BY <1>1, <1>3, <1>4
<1>. QED  BY <1>2, <1>5, SeqIsSeq

\* Two facts about lengths that the events are about.
LEMMA EmptyByLength ==
  ASSUME NEW s, IsSeq(s)
  PROVE  Len(s) \in Nat /\ (s = <<>> <=> Len(s) = 0)
BY DEF IsSeq

-----------------------------------------------------------------------------
LEMMA InitEstablishesQInv == PartsInit => QInv
<1>. SUFFICES ASSUME PartsInit, part = "queue"
              PROVE  QInv
  BY DEF QInv
<1>1. QueueInit
  BY DEF PartsInit
<1>2. queue = <<>> /\ mCapacity \in Nat \ {0} /\ flag = [notEmpty |-> FALSE, notFull |-> TRUE]
  BY <1>1, QueueAssumption DEF QueueInit
<1>3. Len(queue) = 0 /\ IsSeq(queue)
  BY <1>2, EmptyIsSeq
<1>4. (queue # <<>>) = FALSE /\ (Len(queue) < mCapacity) = TRUE
  BY <1>2, <1>3
<1>. QED  BY <1>2, <1>3, <1>4 DEF QInv, Says

\* Under the lock.  The methods that insert or take need what was true before;
\* clear does not; remove leaves the events alone when nothing has gone.
LEMMA MethodPreservesQInv ==
  ASSUME QInv, part = "queue", part' = part, NEW t \in Threads,
         Insert(t) \/ get(t) \/ clear(t) \/ remove(t) \/ setCapacity(t)
  PROVE  QInv'
<1>1. /\ IsSeq(queue) /\ mCapacity \in Nat \ {0}
      /\ flag.notEmpty = (queue # <<>>)
      /\ flag.notFull = (Len(queue) < mCapacity)
      /\ flag = Says(queue, mCapacity)
  BY DEF QInv, Says
<1>2. Len(queue) \in Nat /\ (queue = <<>> <=> Len(queue) = 0)
  BY <1>1, EmptyByLength
<1>3. SUFFICES IsSeq(queue') /\ mCapacity' \in Nat \ {0} /\ flag' = Says(queue', mCapacity')
  BY DEF QInv, Says, IsSeq
<1>4. CASE Insert(t)
  <2>. DEFINE list == IF th[t].method \in {"put", "putForcedly"}
                      THEN Append(queue, th[t].e) ELSE <<th[t].e>> \o queue
  <2>1. IsSeq(list) /\ Len(list) = Len(queue) + 1
    BY <1>1, AppendIsSeq, PrependIsSeq
  <2>2. /\ queue' = list /\ mCapacity' = mCapacity
        /\ flag' = [notEmpty |-> TRUE, notFull |-> flag.notFull /\ Len(list) < mCapacity]
    BY <1>4 DEF Insert, Leave
  <2>. HIDE DEF list
  <2>3. (list # <<>>) = TRUE
    BY <1>2, <2>1, EmptyByLength
  <2>4. (Len(queue) < mCapacity /\ Len(list) < mCapacity) = (Len(list) < mCapacity)
    BY <1>1, <1>2, <2>1
  <2>5. flag' = Says(list, mCapacity)
    BY <1>1, <2>2, <2>3, <2>4, Zenon DEF Says
  <2>. QED  BY <1>1, <2>1, <2>2, <2>5
<1>5. CASE get(t)
  <2>1. CASE queue = <<>>
    BY <1>1, <1>5, <2>1 DEF get
  <2>2. CASE queue # <<>>
    <3>1. /\ queue' = Tail(queue) /\ mCapacity' = mCapacity
          /\ flag' = [notEmpty |-> Len(queue) > 1,
                      notFull |-> flag.notFull \/ Len(queue) - 1 < mCapacity]
      BY <1>5, <2>2 DEF get, Leave
    <3>2. IsSeq(Tail(queue)) /\ Len(Tail(queue)) = Len(queue) - 1
      BY <1>1, <2>2, TailIsSeq
    <3>3. Tail(queue) = <<>> <=> Len(Tail(queue)) = 0
      BY <3>2, EmptyByLength
    <3>4. (Len(queue) > 1) = (Tail(queue) # <<>>)
      BY <1>2, <2>2, <3>2, <3>3
    <3>5. (Len(queue) < mCapacity \/ Len(queue) - 1 < mCapacity)
            = (Len(Tail(queue)) < mCapacity)
      BY <1>1, <1>2, <3>2
    <3>6. flag' = Says(Tail(queue), mCapacity)
      BY <1>1, <3>1, <3>4, <3>5, Zenon DEF Says
    <3>. QED  BY <1>1, <3>1, <3>2, <3>6
  <2>. QED  BY <2>1, <2>2
<1>6. CASE clear(t)
  <2>1. queue' = <<>> /\ mCapacity' = mCapacity /\ flag' = [notEmpty |-> FALSE, notFull |-> TRUE]
    BY <1>6 DEF clear, Leave
  <2>2. (queue' # <<>>) = FALSE /\ (Len(queue') < mCapacity') = TRUE
    BY <1>1, <2>1
  <2>3. flag' = Says(queue', mCapacity')
    BY <2>1, <2>2, Zenon DEF Says
  <2>. QED  BY <1>1, <2>1, <2>3, EmptyIsSeq
<1>7. CASE remove(t)
  <2>. DEFINE list == removeAll(queue, th[t].e)
  <2>1. IsSeq(list)
    BY <1>1, RemoveIsSeq
  <2>2. /\ queue' = list /\ mCapacity' = mCapacity
        /\ flag' = IF Len(list) = Len(queue) THEN flag
                   ELSE [notEmpty |-> list # <<>>, notFull |-> Len(list) < mCapacity]
    BY <1>7 DEF remove, Leave
  <2>. HIDE DEF list
  <2>3. Len(list) \in Nat /\ (list = <<>> <=> Len(list) = 0)
    BY <2>1, EmptyByLength
  <2>4. CASE Len(list) = Len(queue)
    <3>1. (list # <<>>) = (queue # <<>>)
      BY <1>2, <2>3, <2>4
    <3>2. (Len(list) < mCapacity) = (Len(queue) < mCapacity)
      BY <2>4
    <3>3. flag' = Says(list, mCapacity)
      BY <1>1, <2>2, <2>4, <3>1, <3>2, Zenon DEF Says
    <3>. QED  BY <1>1, <2>1, <2>2, <3>3
  <2>5. CASE Len(list) # Len(queue)
    BY <1>1, <2>1, <2>2, <2>5 DEF Says
  <2>. QED  BY <2>4, <2>5
<1>8. CASE setCapacity(t)
  <2>1. PICK capacity \in Capacities :
          /\ queue' = queue /\ mCapacity' = capacity
          /\ flag' = [flag EXCEPT !.notFull = Len(queue) < capacity]
    BY <1>8 DEF setCapacity, Leave
  <2>2. capacity \in Nat \ {0}
    BY <2>1, QueueAssumption
  <2>3. flag' = Says(queue, capacity)
    BY <1>1, <2>1 DEF Says
  <2>. QED  BY <1>1, <2>1, <2>2, <2>3
<1>. QED  BY <1>4, <1>5, <1>6, <1>7, <1>8

LEMMA StepPreservesQInv == QInv /\ [PartsNext]_vars => QInv'
<1>. SUFFICES ASSUME QInv, [PartsNext]_vars, part' = "queue"
              PROVE  QInv'
  BY DEF QInv
<1>1. part' = part
  BY DEF PartsNext, vars
<1>2. CASE UNCHANGED queueVars
  BY <1>1, <1>2 DEF queueVars, QInv, Says, IsSeq
<1>3. CASE QueueNext
  <2>1. PICK t \in Threads : Step(t)
    BY <1>3 DEF QueueNext
  <2>2. CASE UNCHANGED <<queue, mCapacity, flag>>
    BY <1>1, <2>2 DEF QInv, Says, IsSeq
  <2>3. CASE Insert(t) \/ get(t) \/ clear(t) \/ remove(t) \/ setCapacity(t)
    BY <1>1, <2>3, MethodPreservesQInv
  <2>. QED  BY <2>1, <2>2, <2>3 DEF Step, Call, Look, Test, FallAsleep
<1>4. CASE UNCHANGED vars
  BY <1>2, <1>4 DEF vars
<1>. QED  BY <1>1, <1>3, <1>4 DEF PartsNext

\* Between two methods the event notEmpty is set exactly when there is an
\* element and notFull exactly when there is room, also beyond the capacity and
\* after it has been changed (blocking_queue.h).
THEOREM QueueFlagsAgree == PartsSpec => []FlagsAgree
<1>1. QInv => FlagsAgree
  <2>. SUFFICES ASSUME QInv, part = "queue"
                PROVE  EventsAgree
    BY DEF FlagsAgree
  <2>1. Len(queue) \in Nat /\ mCapacity \in Nat
    BY EmptyByLength DEF QInv
  <2>2. Len(queue) < mCapacity <=> ~isFull
    BY <2>1 DEF isFull
  <2>3. flag.notEmpty = (queue # <<>>) /\ flag.notFull = (Len(queue) < mCapacity)
    BY DEF QInv, Says
  <2>. QED  BY <2>2, <2>3, Zenon DEF EventsAgree
<1>. QED  BY <1>1, InitEstablishesQInv, StepPreservesQInv, PTL DEF PartsSpec

-----------------------------------------------------------------------------
(* GroupUpdate. *)

ABox == [checked : BOOLEAN, icon : {"none", "true", "false"}, text : Update!Texts]
Entry == [addr : Nat, bad : BOOLEAN]
ToMaster == [type : {"start"}, objs : Seq(Nat)] \cup [type : {"info"}]
ToPage == [type : {"info"}, process : Nat, objs : Seq(Entry)]
            \cup [type : {"started"}, ok : BOOLEAN]

Boxed(b) == \E n \in Nat : b \in [1 .. n -> ABox]

\* The inductive invariant of this part: what the boxes, the master and the
\* messages between them are.
UInv ==
  part = "update" =>
    /\ m_timer \in BOOLEAN /\ first \in StartNums
    /\ Boxed(boxes)
    /\ master \in [process : Nat, objs : Seq(Entry)]
    /\ bus \in [out : Seq(ToMaster), in : Seq(ToPage)]

\* A box after set_icon is a box.
LEMMA IconBox ==
  ASSUME NEW box \in ABox, NEW icon \in {"none", "true", "false"}, NEW text \in Update!Texts
  PROVE  /\ Update!set_icon(box, icon, text) \in ABox
         /\ Update!set_icon(box, icon, text).checked = box.checked
         /\ Update!set_icon(box, icon, text).text = text
         /\ icon # "none" => Update!set_icon(box, icon, text).icon = icon
BY DEF Update!set_icon, ABox

\* Boxes are boxes one by one.
LEMMA BoxedByElement ==
  ASSUME NEW b, Boxed(b), NEW c, c = [i \in DOMAIN b |-> c[i]],
         \A i \in DOMAIN b : c[i] \in ABox
  PROVE  Boxed(c)
BY DEF Boxed

\* The page counts as the theorems about finite sets do.
LEMMA UpdateCounts == \A S : Update!Cardinality(S) = Cardinality(S)
BY Zenon DEF Update!Cardinality, Cardinality

\* The addresses of the boxes checked are natural numbers.
LEMMA ObjsAreAddresses ==
  ASSUME Boxed(boxes), first \in Nat
  PROVE  Update!get_update_objs \in Seq(Nat)
<1>. DEFINE checked == {i \in DOMAIN boxes : boxes[i].checked}
            nth(k) == CHOOSE i \in checked : Update!Cardinality({j \in checked : j < i}) = k - 1
            n == Update!Cardinality(checked)
<1>1. PICK m \in Nat : DOMAIN boxes = 1 .. m
  BY DEF Boxed
<1>2. IsFiniteSet(1 .. m)
  BY <1>1, FS_Interval
<1>3. checked \subseteq 1 .. m /\ checked \subseteq Nat
  BY <1>1
<1>4. IsFiniteSet(checked) /\ n \in Nat
  BY <1>2, <1>3, FS_Subset, FS_CardinalityType, UpdateCounts
<1>5. Update!get_update_objs = [k \in 1 .. n |-> first + nth(k) - 1]
  BY Zenon DEF Update!get_update_objs, Update!Addr
<1>. HIDE DEF checked
<1>6. ASSUME NEW k \in 1 .. n
      PROVE  first + nth(k) - 1 \in Nat
  <2>1. \E i \in checked : Cardinality({j \in checked : j < i}) = k - 1
    BY <1>3, <1>4, NthIsThere, UpdateCounts
  <2>2. PICK i \in checked : Update!Cardinality({j \in checked : j < i}) = k - 1
    BY <2>1, UpdateCounts
  <2>3. nth(k) \in checked
    BY <2>2
  <2>4. nth(k) \in 1 .. m
    BY <1>3, <2>3
  <2>. HIDE DEF nth
  <2>. QED  BY <1>1, <2>4
<1>. HIDE DEF n, nth
<1>. QED  BY <1>4, <1>5, <1>6

\* What an answer does to the boxes: the verdict on each that is checked.
LEMMA VerdictShown ==
  ASSUME Boxed(boxes), first \in Nat, NEW info,
         info.objs \in Seq(Entry), info.process \in Nat, NEW i \in DOMAIN boxes
  PROVE  /\ Update!slotGroupUpdateState(info)[i] =
              IF ~boxes[i].checked THEN boxes[i]
              ELSE [checked |-> TRUE, text |-> Update!Verdict(info, i),
                    icon |-> IF Update!Verdict(info, i) \in {"done", "updating"}
                             THEN "true" ELSE "false"]
         /\ Update!slotGroupUpdateState(info)[i] \in ABox
<1>. DEFINE E == Update!Entries(info, i)
            found == {Update!FoundAt(info, info.objs[j]) : j \in DOMAIN info.objs}
            done == IF info.process >= 100 THEN "done" ELSE "updating"
            told == IF Update!Addr(i) \notin found THEN boxes[i]
                    ELSE Update!set_icon(boxes[i], "true", done)
            own == {j \in E : \A k \in E : j <= k}
            new == Update!slotGroupUpdateState(info)[i]
<1>1. new = IF ~boxes[i].checked THEN boxes[i]
            ELSE IF own = {} THEN Update!set_icon(told, "false", "update failed")
            ELSE IF \E j \in own : info.objs[j].bad
                 THEN Update!set_icon(told, "false", "check failed") ELSE told
  BY Zenon DEF Update!slotGroupUpdateState
<1>2. boxes[i] \in ABox /\ i \in Nat
  BY DEF Boxed
<1>3. done \in {"done", "updating"} /\ {"done", "updating"} \subseteq Update!Texts
  BY DEF Update!Texts
<1>. HIDE DEF new, done
<1>4. told \in ABox /\ told.checked = boxes[i].checked
  <2>1. done \in Update!Texts
    BY <1>3
  <2>. DEFINE with == Update!set_icon(boxes[i], "true", done)
  <2>2. with \in ABox /\ with.checked = boxes[i].checked
    BY <1>2, <2>1, IconBox
  <2>. HIDE DEF with
  <2>3. told = boxes[i] \/ told = with
    BY Zenon DEF with
  <2>. QED  BY <1>2, <2>2, <2>3, Zenon
<1>5. CASE ~boxes[i].checked
  BY <1>1, <1>2, <1>5, Zenon DEF new
<1>6. ASSUME boxes[i].checked, NEW icon \in {"true", "false"}, NEW text \in Update!Texts,
             new = Update!set_icon(told, icon, text) \/ new = Update!set_icon(boxes[i], icon, text)
      PROVE  new = [checked |-> TRUE, text |-> text, icon |-> icon] /\ new \in ABox
  <2>. HIDE DEF told
  <2>1. told.checked = TRUE /\ boxes[i].checked = TRUE
    BY <1>2, <1>4, <1>6 DEF ABox
  <2>. QED  BY <1>2, <1>4, <1>6, <2>1 DEF Update!set_icon, ABox
<1>7. {"check failed", "update failed"} \subseteq Update!Texts
  BY DEF Update!Texts
<1>8. CASE boxes[i].checked /\ E = {}
  <2>1. Update!Verdict(info, i) = "update failed"
    BY <1>8 DEF Update!Verdict
  <2>2. own = {}
    BY <1>8
  <2>3. new = Update!set_icon(told, "false", "update failed")
    BY <1>1, <1>8, <2>2, Zenon
  <2>. HIDE DEF E, own, told
  <2>4. new = [checked |-> TRUE, text |-> "update failed", icon |-> "false"] /\ new \in ABox
    BY <1>6, <1>7, <1>8, <2>3
  <2>. QED  BY <1>8, <2>1, <2>4 DEF new
<1>9. CASE boxes[i].checked /\ E # {}
  <2>1. E \subseteq DOMAIN info.objs /\ \A j \in E : info.objs[j].addr = Update!Addr(i)
    BY DEF Update!Entries
  <2>2. E \subseteq Nat /\ IsFiniteSet(E)
    <3>1. DOMAIN info.objs = 1 .. Len(info.objs) /\ Len(info.objs) \in Nat
      OBVIOUS
    <3>2. IsFiniteSet(1 .. Len(info.objs))
      BY <3>1, FS_Interval
    <3>. HIDE DEF E
    <3>3. E \in SUBSET (1 .. Len(info.objs))
      BY <2>1, <3>1
    <3>4. IsFiniteSet(E)
      BY <3>2, <3>3, FS_Subset
    <3>. QED  BY <3>1, <3>3, <3>4
  <2>. HIDE DEF E
  <2>3. \E l \in E : \A k \in E : l <= k
    BY <1>9, <2>2, LeastIsThere
  <2>. DEFINE j == CHOOSE l \in E : \A k \in E : l <= k
  <2>4. j \in E /\ \A k \in E : j <= k
    BY <2>3
  <2>. HIDE DEF j
  <2>5. own = {j}
    <3>1. ASSUME NEW k \in E, \A l \in E : k <= l
          PROVE  k = j
      <4>1. k <= j /\ j <= k /\ k \in Nat /\ j \in Nat
        BY <2>2, <2>4, <3>1
      <4>. QED  BY <4>1
    <3>. QED  BY <2>4, <3>1, Zenon
  <2>. HIDE DEF own
  <2>6. Update!Verdict(info, i) =
          IF info.objs[j].bad THEN "check failed" ELSE done
    BY <1>9, Zenon DEF Update!Verdict, E, j, done
  <2>7. info.objs[j] \in Entry /\ info.objs[j].addr = Update!Addr(i)
    BY <2>1, <2>4
  <2>8. CASE info.objs[j].bad
    <3>1. new = Update!set_icon(told, "false", "check failed")
      BY <1>1, <1>9, <2>5, <2>8, Zenon
    <3>. HIDE DEF told
    <3>2. new = [checked |-> TRUE, text |-> "check failed", icon |-> "false"] /\ new \in ABox
      BY <1>6, <1>7, <1>9, <3>1
    <3>3. Update!Verdict(info, i) = "check failed"
      BY <2>6, <2>8
    <3>. QED  BY <1>9, <3>2, <3>3 DEF new
  <2>9. CASE ~info.objs[j].bad
    <3>1. Update!FoundAt(info, info.objs[j]) = Update!Addr(i)
      BY <1>2, <2>7, <2>9 DEF Update!FoundAt, Entry
    <3>2. Update!Addr(i) \in found
      BY <2>1, <2>4, <3>1, Zenon
    <3>. HIDE DEF found
    <3>3. new = Update!set_icon(boxes[i], "true", done)
      BY <1>1, <1>9, <2>5, <2>9, <3>2, Zenon
    <3>. HIDE DEF told
    <3>4. new = [checked |-> TRUE, text |-> done, icon |-> "true"] /\ new \in ABox
      BY <1>3, <1>6, <1>9, <3>3
    <3>5. Update!Verdict(info, i) = done
      BY <2>6, <2>9
    <3>. QED  BY <1>3, <1>9, <3>4, <3>5 DEF new
  <2>. QED  BY <2>8, <2>9
<1>. QED  BY <1>5, <1>8, <1>9

\* The bus between the page and the master.
LEMMA BusCarries ==
  ASSUME NEW S, NEW T, NEW b \in [out : Seq(S), in : Seq(T)]
  PROVE  /\ \A m \in S : [b EXCEPT !.out = Append(b.out, m)] \in [out : Seq(S), in : Seq(T)]
         /\ b.in # <<>> => /\ Head(b.in) \in T
                          /\ [b EXCEPT !.in = Tail(b.in)] \in [out : Seq(S), in : Seq(T)]
         /\ b.out # <<>> => /\ Head(b.out) \in S
                           /\ [b EXCEPT !.out = Tail(b.out)] \in [out : Seq(S), in : Seq(T)]
         /\ b.out # <<>> => \A m \in T : [out |-> Tail(b.out), in |-> Append(b.in, m)]
                                            \in [out : Seq(S), in : Seq(T)]
<1>1. b = [out |-> b.out, in |-> b.in] /\ b.out \in Seq(S) /\ b.in \in Seq(T)
  OBVIOUS
<1>2. \A m \in S : Append(b.out, m) \in Seq(S)
  BY <1>1
<1>3. \A m \in T : Append(b.in, m) \in Seq(T)
  BY <1>1
<1>4. b.in # <<>> => Head(b.in) \in T /\ Tail(b.in) \in Seq(T)
  BY <1>1
<1>5. b.out # <<>> => Head(b.out) \in S /\ Tail(b.out) \in Seq(S)
  BY <1>1
<1>. QED  BY <1>1, <1>2, <1>3, <1>4, <1>5

LEMMA InitEstablishesUInv == PartsInit => UInv
<1>. SUFFICES ASSUME PartsInit, part = "update"
              PROVE  UInv
  BY DEF UInv
<1>1. Update!Init
  BY DEF PartsInit
<1>2. PICK n \in Cnts : boxes = [i \in 1 .. n |-> Update!Box(FALSE)]
  BY <1>1 DEF Update!Init
<1>3. n \in Nat /\ Update!Box(FALSE) \in ABox
  BY PartsAssumption DEF Update!Box, ABox, Update!Texts
<1>4. Boxed(boxes)
  BY <1>2, <1>3 DEF Boxed
<1>5. master \in [process : Nat, objs : Seq(Entry)] /\ bus \in [out : Seq(ToMaster), in : Seq(ToPage)]
  BY <1>1 DEF Update!Init
<1>. QED  BY <1>1, <1>4, <1>5 DEF Update!Init, UInv

\* The operator's acts, and the timer.
LEMMA OperatorPreservesUInv ==
  ASSUME UInv, part = "update", part' = part, Update!Operator \/ Update!slot_timeout
  PROVE  UInv'
<1>1. /\ m_timer \in BOOLEAN /\ first \in StartNums /\ first \in Nat
      /\ Boxed(boxes)
      /\ master \in [process : Nat, objs : Seq(Entry)]
      /\ bus \in [out : Seq(ToMaster), in : Seq(ToPage)]
  BY PartsAssumption DEF UInv
<1>2. SUFFICES /\ m_timer' = m_timer /\ master' = master
               /\ first' \in StartNums /\ Boxed(boxes')
               /\ bus' \in [out : Seq(ToMaster), in : Seq(ToPage)]
  BY <1>1 DEF UInv, Boxed
<1>3. ASSUME NEW start \in StartNums, NEW n \in Cnts, Update!create_update_obj(start, n)
      PROVE  /\ m_timer' = m_timer /\ master' = master /\ bus' = bus
             /\ first' \in StartNums /\ Boxed(boxes')
  <2>. DEFINE c == [i \in 1 .. n |-> IF i \in DOMAIN boxes THEN boxes[i] ELSE Update!Box(FALSE)]
  <2>1. boxes' = c /\ first' = start /\ UNCHANGED <<m_timer, master, bus>>
    BY <1>3 DEF Update!create_update_obj
  <2>2. Update!Box(FALSE) \in ABox /\ n \in Nat
    BY PartsAssumption DEF Update!Box, ABox, Update!Texts
  <2>3. \A i \in DOMAIN boxes : boxes[i] \in ABox
    BY <1>1 DEF Boxed
  <2>4. c \in [1 .. n -> ABox]
    BY <2>2, <2>3
  <2>. QED  BY <2>1, <2>2, <2>4 DEF Boxed
<1>4. ASSUME NEW which, NEW b \in BOOLEAN, Update!Check(which, b)
      PROVE  /\ m_timer' = m_timer /\ master' = master /\ bus' = bus
             /\ first' \in StartNums /\ Boxed(boxes')
  <2>1. /\ boxes' = [i \in DOMAIN boxes |->
                       IF i \in which THEN [boxes[i] EXCEPT !.checked = b] ELSE boxes[i]]
        /\ UNCHANGED <<m_timer, first, master, bus>>
    BY <1>4 DEF Update!Check
  <2>2. \A i \in DOMAIN boxes : boxes[i] \in ABox
    BY <1>1 DEF Boxed
  <2>3. ASSUME NEW i \in DOMAIN boxes
        PROVE  [boxes[i] EXCEPT !.checked = b] \in ABox
    BY <2>2 DEF ABox
  <2>4. DOMAIN boxes' = DOMAIN boxes
    BY <2>1
  <2>5. Boxed(boxes')
    BY <1>1, <2>1, <2>2, <2>3, <2>4, BoxedByElement
  <2>. QED  BY <1>1, <2>1, <2>5
<1>5. ASSUME NEW m, m \in ToMaster, Update!Send(m)
      PROVE  bus' \in [out : Seq(ToMaster), in : Seq(ToPage)]
  <2>1. bus' = [bus EXCEPT !.out = Append(bus.out, m)]
    BY <1>5 DEF Update!Send
  <2>. QED  BY <1>1, <1>5, <2>1, BusCarries
<1>6. [type |-> "info"] \in ToMaster
  BY DEF ToMaster
<1>7. CASE Update!on_startUpdateBtn_clicked
  <2>1. /\ boxes' = Update!Announced
        /\ Update!Send([type |-> "start", objs |-> Update!get_update_objs])
        /\ UNCHANGED <<m_timer, first, master>>
    BY <1>7 DEF Update!on_startUpdateBtn_clicked
  <2>2. [type |-> "start", objs |-> Update!get_update_objs] \in ToMaster
    BY <1>1, ObjsAreAddresses DEF ToMaster
  <2>3. \A i \in DOMAIN boxes : boxes[i] \in ABox
    BY <1>1 DEF Boxed
  <2>4. {"updating", ""} \subseteq Update!Texts
    BY DEF Update!Texts
  <2>5. ASSUME NEW i \in DOMAIN boxes
        PROVE  /\ Update!set_icon(boxes[i], "true", "updating") \in ABox
               /\ Update!set_icon(boxes[i], "none", "") \in ABox
    BY <2>3, <2>4, IconBox
  <2>6. /\ Update!Announced = [i \in DOMAIN boxes |-> Update!Announced[i]]
        /\ \A i \in DOMAIN boxes : Update!Announced[i] \in ABox
    BY <2>5 DEF Update!Announced
  <2>7. Boxed(Update!Announced)
    BY <1>1, <2>6, BoxedByElement
  <2>. QED  BY <1>1, <1>5, <2>1, <2>2, <2>7
<1>8. CASE Update!on_reqUpInfoBtn_clicked \/ Update!slot_timeout
  BY <1>1, <1>5, <1>6, <1>8 DEF Update!on_reqUpInfoBtn_clicked, Update!slot_timeout
<1>. QED  BY <1>1, <1>3, <1>4, <1>7, <1>8 DEF Update!Operator

\* The answers.
LEMMA RecvPreservesUInv ==
  ASSUME UInv, part = "update", part' = part, Update!Recv
  PROVE  UInv' /\ Update!BoxesTold
<1>1. /\ m_timer \in BOOLEAN /\ first \in StartNums /\ first \in Nat
      /\ Boxed(boxes)
      /\ master \in [process : Nat, objs : Seq(Entry)]
      /\ bus \in [out : Seq(ToMaster), in : Seq(ToPage)]
  BY PartsAssumption DEF UInv
<1>2. /\ bus.in # <<>> /\ bus' = [bus EXCEPT !.in = Tail(bus.in)]
      /\ UNCHANGED <<first, master>>
  BY DEF Update!Recv, Update!slot_recv_update_info, Update!slot_recv_start_update, Update!Taken
<1>3. Head(bus.in) \in ToPage /\ bus' \in [out : Seq(ToMaster), in : Seq(ToPage)]
  BY <1>1, <1>2, BusCarries
<1>4. CASE Update!slot_recv_update_info
  <2>. DEFINE info == Head(bus.in)
              new == Update!slotGroupUpdateState(info)
  <2>1. /\ info.type = "info" /\ boxes' = new
        /\ m_timer' \in BOOLEAN
    BY <1>1, <1>4 DEF Update!slot_recv_update_info, Update!Answer
  <2>2. info.objs \in Seq(Entry) /\ info.process \in Nat
    BY <1>3, <2>1 DEF ToPage
  <2>. HIDE DEF info
  <2>3. new = [i \in DOMAIN boxes |-> new[i]]
    BY DEF Update!slotGroupUpdateState
  <2>4. ASSUME NEW i \in DOMAIN boxes
        PROVE  /\ new[i] =
                    IF ~boxes[i].checked THEN boxes[i]
                    ELSE [checked |-> TRUE, text |-> Update!Verdict(info, i),
                          icon |-> IF Update!Verdict(info, i) \in {"done", "updating"}
                                   THEN "true" ELSE "false"]
               /\ new[i] \in ABox
    BY <1>1, <2>2, VerdictShown
  <2>. HIDE DEF new
  <2>5. Boxed(boxes')
    BY <1>1, <2>1, <2>3, <2>4, BoxedByElement
  <2>6. Update!BoxesTold
    BY <2>1, <2>4, Zenon DEF Update!BoxesTold, Update!Answer, info
  <2>. QED  BY <1>1, <1>2, <1>3, <2>1, <2>5, <2>6 DEF UInv, Boxed
<1>5. CASE Update!slot_recv_start_update
  <2>1. Head(bus.in).type = "started" /\ boxes' = boxes
        /\ m_timer' = (m_timer \/ Head(bus.in).ok)
    BY <1>5 DEF Update!slot_recv_start_update, Update!Answer
  <2>2. m_timer' \in BOOLEAN
    BY <2>1
  <2>3. ~ Update!slot_recv_update_info
    BY <2>1 DEF Update!slot_recv_update_info, Update!Answer
  <2>. QED  BY <1>1, <1>2, <1>3, <2>1, <2>2, <2>3 DEF UInv, Boxed, Update!BoxesTold
<1>. QED  BY <1>4, <1>5 DEF Update!Recv

\* The master and the bus.
LEMMA MasterPreservesUInv ==
  ASSUME UInv, part = "update", part' = part,
         Update!Master \/ Update!MasterWorks \/ Update!SlaveFails \/ Update!Loss
  PROVE  UInv'
<1>1. /\ m_timer \in BOOLEAN /\ first \in StartNums
      /\ Boxed(boxes)
      /\ master \in [process : Nat, objs : Seq(Entry)]
      /\ bus \in [out : Seq(ToMaster), in : Seq(ToPage)]
  BY DEF UInv
<1>2. m_timer' = m_timer /\ first' = first /\ boxes' = boxes
  BY DEF Update!Master, Update!MasterStarts, Update!MasterInforms, Update!MasterWorks,
         Update!SlaveFails, Update!Loss
<1>3. SUFFICES /\ master' \in [process : Nat, objs : Seq(Entry)]
               /\ bus' \in [out : Seq(ToMaster), in : Seq(ToPage)]
  BY <1>1, <1>2 DEF UInv, Boxed
<1>4. ASSUME NEW m \in ToPage, bus.out # <<>>, Update!Reply(m)
      PROVE  bus' \in [out : Seq(ToMaster), in : Seq(ToPage)]
  <2>1. bus' = [out |-> Tail(bus.out), in |-> Append(bus.in, m)]
    BY <1>4 DEF Update!Reply
  <2>. QED  BY <1>1, <1>4, <2>1, BusCarries
<1>5. CASE Update!MasterStarts
  <2>. DEFINE objs == Head(bus.out).objs
              list == [i \in DOMAIN objs |-> [addr |-> objs[i], bad |-> FALSE]]
  <2>1. bus.out # <<>> /\ Head(bus.out).type = "start"
    BY <1>5 DEF Update!MasterStarts
  <2>2. Head(bus.out) \in ToMaster
    BY <1>1, <2>1, BusCarries
  <2>3. objs \in Seq(Nat)
    BY <2>1, <2>2 DEF ToMaster
  <2>. HIDE DEF objs
  <2>4. \A i \in DOMAIN objs : [addr |-> objs[i], bad |-> FALSE] \in Entry
    BY <2>3 DEF Entry
  <2>5. list \in Seq(Entry)
    <3>1. DOMAIN objs = 1 .. Len(objs) /\ Len(objs) \in Nat
      BY <2>3
    <3>. QED  BY <2>4, <3>1
  <2>. HIDE DEF list
  <2>6. \A b \in BOOLEAN : [type |-> "started", ok |-> b] \in ToPage
    BY DEF ToPage
  <2>7. \/ master' = [process |-> 0, objs |-> list] /\ Update!Reply([type |-> "started", ok |-> TRUE])
        \/ Update!Reply([type |-> "started", ok |-> FALSE]) /\ master' = master
    BY <1>5, Zenon DEF Update!MasterStarts, list, objs
  <2>8. bus' \in [out : Seq(ToMaster), in : Seq(ToPage)]
    BY <1>4, <2>1, <2>6, <2>7
  <2>9. master' \in [process : Nat, objs : Seq(Entry)]
    BY <1>1, <2>5, <2>7
  <2>. QED  BY <2>8, <2>9
<1>6. CASE Update!MasterInforms
  <2>1. /\ bus.out # <<>> /\ master' = master
        /\ Update!Reply([type |-> "info", process |-> master.process, objs |-> master.objs])
    BY <1>6 DEF Update!MasterInforms
  <2>2. [type |-> "info", process |-> master.process, objs |-> master.objs] \in ToPage
    BY <1>1 DEF ToPage
  <2>. QED  BY <1>1, <1>4, <2>1, <2>2
<1>7. CASE Update!MasterWorks
  BY <1>1, <1>7 DEF Update!MasterWorks
<1>8. CASE Update!SlaveFails
  <2>1. bus' = bus
    BY <1>8 DEF Update!SlaveFails
  <2>2. PICK j \in DOMAIN master.objs :
          \/ master' = [master EXCEPT !.objs[j].bad = TRUE]
          \/ master' = [master EXCEPT !.objs = Update!RemoveAt(@, j)]
    BY <1>8 DEF Update!SlaveFails
  <2>3. master.objs \in Seq(Entry) /\ j \in 1 .. Len(master.objs) /\ Len(master.objs) \in Nat
    BY <1>1
  <2>4. CASE master' = [master EXCEPT !.objs[j].bad = TRUE]
    <3>1. master' = [master EXCEPT !.objs = [master.objs EXCEPT ![j] = [master.objs[j] EXCEPT !.bad = TRUE]]]
      BY <2>4
    <3>2. [master.objs[j] EXCEPT !.bad = TRUE] \in Entry
      <4>1. master.objs[j] \in Entry
        BY <2>3
      <4>. QED  BY <4>1 DEF Entry
    <3>3. [master.objs EXCEPT ![j] = [master.objs[j] EXCEPT !.bad = TRUE]] \in Seq(Entry)
      BY <2>3, <3>2
    <3>. QED  BY <1>1, <2>1, <3>1, <3>3
  <2>5. CASE master' = [master EXCEPT !.objs = Update!RemoveAt(@, j)]
    <3>1. Update!RemoveAt(master.objs, j) \in Seq(Entry)
      BY <2>3 DEF Update!RemoveAt
    <3>. QED  BY <1>1, <2>1, <2>5, <3>1
  <2>. QED  BY <2>2, <2>4, <2>5
<1>9. CASE Update!Loss
  <2>1. bus.out # <<>> /\ bus' = [bus EXCEPT !.out = Tail(bus.out)] /\ master' = master
    BY <1>9 DEF Update!Loss
  <2>. QED  BY <1>1, <2>1, BusCarries
<1>. QED  BY <1>5, <1>6, <1>7, <1>8, <1>9 DEF Update!Master

LEMMA StepPreservesUInv == UInv /\ [PartsNext]_vars => UInv'
<1>. SUFFICES ASSUME UInv, [PartsNext]_vars, part' = "update"
              PROVE  UInv'
  BY DEF UInv
<1>1. part' = part
  BY DEF PartsNext, vars
<1>2. CASE UNCHANGED updateVars
  BY <1>1, <1>2 DEF updateVars, UInv, Boxed
<1>3. CASE Update!Next
  BY <1>1, <1>3, OperatorPreservesUInv, RecvPreservesUInv, MasterPreservesUInv DEF Update!Next
<1>4. CASE UNCHANGED vars
  BY <1>2, <1>4 DEF vars
<1>. QED  BY <1>1, <1>3, <1>4 DEF PartsNext

\* Whatever the boxes, their addresses, and the messages that are lost, late or
\* under way: an answer of the master leaves every checked box with what that
\* answer says of its slave, and the others alone (frmgroupupdate.cpp).
THEOREM BoxesTellVerdict == PartsSpec => BoxesTell
<1>1. UInv /\ [PartsNext]_vars => [part = "update" => Update!BoxesTold]_vars
  <2>. SUFFICES ASSUME UInv, PartsNext, part = "update"
                PROVE  Update!BoxesTold
    OBVIOUS
  <2>1. part' = part /\ Update!Next
    BY DEF PartsNext
  <2>2. CASE Update!Recv
    BY <2>1, <2>2, RecvPreservesUInv
  <2>3. CASE ~ Update!Recv
    BY <2>3 DEF Update!Recv, Update!BoxesTold
  <2>. QED  BY <2>2, <2>3
<1>. QED  BY <1>1, InitEstablishesUInv, StepPreservesUInv, PTL DEF PartsSpec, BoxesTell

-----------------------------------------------------------------------------
(* SaveFiles. *)

\* What a start would find of one kind, wherever the last run has got to: what
\* that run found or left, or the defaults while the file is truncated.
Finds(k) ==
  LET l == Save!load(k)
  IN  /\ phase = "off" =>
           /\ past.ended = "closed" => l = Save!Back(k, past.left[k])
           /\ past.ended = k => l = Save!Default[k]
           /\ past.ended \notin {"closed", k} =>
                l = Save!Back(k, past.left[k]) \/ l = past.found[k]
      /\ phase = "up" => l = past.found[k]
      /\ phase = "cfg" => l = IF k = "cfg" THEN Save!Default[k] ELSE past.found[k]
      /\ phase = "cfg saved" => l = IF k = "cfg" THEN Save!Back(k, now[k]) ELSE past.found[k]
      /\ phase = "obj" => l = IF k = "cfg" THEN Save!Back(k, now[k]) ELSE Save!Default[k]

\* The texts a CSV file of the day is made of.
Texts == {"header", "line"}

SInv ==
  part = "save" =>
    /\ phase \in {"off", "up", "cfg", "cfg saved", "obj"}
    /\ DOMAIN files = Save!Kinds
    /\ past = [acts |-> past.acts, starts |-> past.starts, kills |-> past.kills,
               ended |-> past.ended, left |-> past.left, found |-> past.found]
    /\ past.ended \in {"closed", "up", "cfg", "cfg saved", "obj"}
    /\ \A k \in Save!Kinds : Finds(k)
    /\ csv = [lines |-> csv.lines, held |-> csv.held]
    /\ csv.lines \in Seq(Texts) /\ csv.held \in BOOLEAN
    /\ Save!LinesUnderHeader

\* What is loaded from a file that does not parse, and from one that does.
LEMMA LoadBroken ==
  ASSUME NEW k \in Save!Kinds, files[k] = Save!Broken \/ files[k] = Save!Absent
  PROVE  Save!load(k) = Save!Default[k]
BY DEF Save!load, Save!Broken, Save!Absent

LEMMA LoadJson ==
  ASSUME NEW k \in Save!Kinds, NEW v, files[k] = Save!Json(v)
  PROVE  Save!load(k) = Save!Back(k, v)
BY DEF Save!load, Save!Json, Save!Back

\* Defaults that have been saved are found again as defaults.
LEMMA DefaultsComeBack ==
  ASSUME NEW k \in Save!Kinds
  PROVE  Save!Back(k, Save!Default[k]) = Save!Default[k]
<1>1. IntSize \div 2 \in Nat /\ IntSize \div 2 > 0
  BY PartsAssumption
<1>2. Save!toInt(0) = 0
  BY <1>1 DEF Save!toInt
<1>. QED  BY <1>2 DEF Save!Back, Save!Default, Save!Kinds

\* The settings are saved first, then the values.
LEMMA SavingOrder ==
  /\ Save!Saving["cfg"].opens = "up" /\ Save!Saving["cfg"].then = "cfg saved"
  /\ Save!Saving["obj"].opens = "cfg saved" /\ Save!Saving["obj"].then = "off"
BY DEF Save!Saving

LEMMA InitEstablishesSInv == PartsInit => SInv
<1>. SUFFICES ASSUME PartsInit, part = "save"
              PROVE  SInv
  BY DEF SInv
<1>1. Save!Init
  BY DEF PartsInit
<1>2. ASSUME NEW k \in Save!Kinds
      PROVE  Finds(k)
  <2>1. files[k] = Save!Absent
    BY <1>1 DEF Save!Init
  <2>2. Save!load(k) = Save!Default[k]
    BY <2>1, LoadBroken
  <2>3. phase = "off" /\ past.ended = "closed" /\ past.left = Save!Default
    BY <1>1 DEF Save!Init
  <2>4. k # "closed"
    BY DEF Save!Kinds
  <2>. QED  BY <2>2, <2>3, <2>4, DefaultsComeBack DEF Finds
<1>3. Save!LinesUnderHeader
  BY <1>1 DEF Save!Init, Save!LinesUnderHeader
<1>4. csv = [lines |-> <<>>, held |-> FALSE] /\ phase = "off" /\ DOMAIN files = Save!Kinds
  BY <1>1 DEF Save!Init
<1>5. past = [acts |-> 0, starts |-> 0, kills |-> 0, ended |-> "closed", left |-> Save!Default,
              found |-> Save!Default]
  BY <1>1 DEF Save!Init
<1>. QED  BY <1>2, <1>3, <1>4, <1>5 DEF SInv

\* Steps of a run, from its start to its end.
LEMMA RunPreservesSInv ==
  ASSUME SInv, part = "save", part' = part,
         Save!Start \/ Save!Change \/ Save!Killed \/ Save!NextDay \/ Save!csv_save_file
  PROVE  /\ \A k \in Save!Kinds : Finds(k)'
         /\ phase' \in {"off", "up", "cfg", "cfg saved", "obj"}
         /\ files' = files
         /\ past' = [acts |-> past'.acts, starts |-> past'.starts, kills |-> past'.kills,
                     ended |-> past'.ended, left |-> past'.left, found |-> past'.found]
         /\ past'.ended \in {"closed", "up", "cfg", "cfg saved", "obj"}
<1>1. /\ phase \in {"off", "up", "cfg", "cfg saved", "obj"}
      /\ past = [acts |-> past.acts, starts |-> past.starts, kills |-> past.kills,
                 ended |-> past.ended, left |-> past.left, found |-> past.found]
      /\ past.ended \in {"closed", "up", "cfg", "cfg saved", "obj"}
      /\ \A k \in Save!Kinds : Finds(k)
  BY DEF SInv
<1>2. files' = files
  BY DEF Save!Start, Save!Change, Save!Killed, Save!NextDay, Save!csv_save_file
<1>3. \A k : Save!load(k)' = Save!load(k)
  BY <1>2 DEF Save!load
<1>4. CASE Save!Start
  <2>1. /\ phase' = "up"
        /\ past' = [past EXCEPT !.starts = @ + 1, !.found = [k \in Save!Kinds |-> Save!load(k)]]
    BY <1>4 DEF Save!Start
  <2>2. \A k \in Save!Kinds : past'.found[k] = Save!load(k)
    BY <1>1, <2>1
  <2>3. \A k \in Save!Kinds : Finds(k)'
    BY <1>3, <2>1, <2>2 DEF Finds
  <2>. QED  BY <1>1, <1>2, <2>1, <2>3
<1>5. CASE Save!Change
  <2>1. phase = "up" /\ phase' = phase /\ past' = [past EXCEPT !.acts = @ + 1]
    BY <1>5 DEF Save!Change
  <2>2. past'.found = past.found
    BY <1>1, <2>1
  <2>3. \A k \in Save!Kinds : Finds(k)'
    BY <1>1, <1>3, <2>1, <2>2 DEF Finds
  <2>. QED  BY <1>1, <1>2, <2>1, <2>3
<1>6. CASE Save!Killed
  <2>1. /\ phase # "off" /\ phase' = "off"
        /\ past' = [past EXCEPT !.kills = @ + 1, !.ended = phase, !.left = now]
    BY <1>6 DEF Save!Killed
  <2>2. past'.found = past.found /\ past'.left = now /\ past'.ended = phase
    BY <1>1, <2>1
  <2>3. ASSUME NEW k \in Save!Kinds
        PROVE  Finds(k)'
    <3>1. Finds(k) /\ k \in {"cfg", "obj"}
      BY <1>1 DEF Save!Kinds
    <3>. QED  BY <1>1, <1>3, <2>1, <2>2, <3>1 DEF Finds
  <2>. QED  BY <1>1, <1>2, <2>1, <2>3
<1>7. CASE Save!NextDay \/ Save!csv_save_file
  <2>1. /\ phase' = phase /\ now' = now
        /\ past' = past \/ past' = [past EXCEPT !.kills = @ + 1]
    BY <1>7 DEF Save!NextDay, Save!csv_save_file
  <2>2. past'.found = past.found /\ past'.left = past.left /\ past'.ended = past.ended
    BY <1>1, <2>1
  <2>3. ASSUME NEW k \in Save!Kinds
        PROVE  Finds(k)'
    <3>1. Finds(k)
      BY <1>1
    <3>. QED  BY <1>3, <2>1, <2>2, <3>1 DEF Finds
  <2>. QED  BY <1>1, <1>2, <2>1, <2>2, <2>3
<1>. QED  BY <1>4, <1>5, <1>6, <1>7

\* What is written at the end of a run.
LEMMA SavingPreservesSInv ==
  ASSUME SInv, part = "save", part' = part, NEW kind \in Save!Kinds,
         Save!Opens(kind) \/ Save!Writes(kind)
  PROVE  /\ \A k \in Save!Kinds : Finds(k)'
         /\ phase' \in {"off", "up", "cfg", "cfg saved", "obj"}
         /\ DOMAIN files' = Save!Kinds
         /\ past' = [acts |-> past'.acts, starts |-> past'.starts, kills |-> past'.kills,
                     ended |-> past'.ended, left |-> past'.left, found |-> past'.found]
         /\ past'.ended \in {"closed", "up", "cfg", "cfg saved", "obj"}
         /\ csv' = csv
<1>1. /\ DOMAIN files = Save!Kinds
      /\ past = [acts |-> past.acts, starts |-> past.starts, kills |-> past.kills,
                 ended |-> past.ended, left |-> past.left, found |-> past.found]
      /\ past.ended \in {"closed", "up", "cfg", "cfg saved", "obj"}
      /\ \A k \in Save!Kinds : Finds(k)
  BY DEF SInv
<1>2. kind = "cfg" \/ kind = "obj"
  BY DEF Save!Kinds
<1>3. CASE Save!Opens(kind)
  <2>1. /\ phase = Save!Saving[kind].opens /\ phase' = kind
        /\ files' = [files EXCEPT ![kind] = Save!Broken]
        /\ UNCHANGED <<now, csv, past>>
    BY <1>3 DEF Save!Opens, Save!Truncate
  <2>2. phase = IF kind = "cfg" THEN "up" ELSE "cfg saved"
    BY <1>2, <2>1, SavingOrder
  <2>3. files'[kind] = Save!Broken /\ \A k \in Save!Kinds \ {kind} : files'[k] = files[k]
    BY <1>1, <2>1
  <2>4. Save!load(kind)' = Save!Default[kind]
    BY <2>3 DEF Save!load, Save!Broken, Save!Absent
  <2>5. \A k \in Save!Kinds \ {kind} : Save!load(k)' = Save!load(k)
    BY <2>3 DEF Save!load
  <2>6. ASSUME NEW k \in Save!Kinds
        PROVE  Finds(k)'
    <3>1. Finds(k) /\ k \in {"cfg", "obj"}
      BY <1>1 DEF Save!Kinds
    <3>. QED  BY <1>2, <2>1, <2>2, <2>4, <2>5, <3>1 DEF Finds
  <2>7. DOMAIN files' = Save!Kinds
    BY <1>1, <2>1
  <2>8. phase' \in {"off", "up", "cfg", "cfg saved", "obj"}
    BY <1>2, <2>1
  <2>. QED  BY <1>1, <2>1, <2>6, <2>7, <2>8
<1>4. CASE Save!Writes(kind)
  <2>1. /\ phase = kind /\ phase' = Save!Saving[kind].then
        /\ files' = [files EXCEPT ![kind] = Save!Json(now[kind])]
        /\ past' = IF kind = "obj" THEN [past EXCEPT !.ended = "closed", !.left = now] ELSE past
        /\ UNCHANGED <<now, csv>>
    BY <1>4 DEF Save!Writes, Save!write_json_file
  <2>2. phase' = IF kind = "cfg" THEN "cfg saved" ELSE "off"
    BY <1>2, <2>1, SavingOrder
  <2>3. /\ files'[kind] = Save!Json(now[kind])
        /\ \A k \in Save!Kinds \ {kind} : files'[k] = files[k]
    BY <1>1, <2>1
  <2>4. Save!load(kind)' = Save!Back(kind, now[kind])
    BY <2>3 DEF Save!load, Save!Json, Save!Back
  <2>5. \A k \in Save!Kinds \ {kind} : Save!load(k)' = Save!load(k)
    BY <2>3 DEF Save!load
  <2>6. /\ past'.found = past.found
        /\ kind = "obj" => past'.ended = "closed" /\ past'.left = now
    BY <1>1, <2>1
  <2>7. ASSUME NEW k \in Save!Kinds
        PROVE  Finds(k)'
    <3>1. Finds(k) /\ k \in {"cfg", "obj"}
      BY <1>1 DEF Save!Kinds
    <3>2. Save!Back(k, now[k])' = Save!Back(k, now[k]) /\ Save!Back(k, past'.left[k]) = Save!Back(k, past.left[k])'
      BY <2>1 DEF Save!Back, Save!toInt
    <3>. QED  BY <1>2, <2>1, <2>2, <2>4, <2>5, <2>6, <3>1 DEF Finds
  <2>8. DOMAIN files' = Save!Kinds
    BY <1>1, <2>1
  <2>9. phase' \in {"off", "up", "cfg", "cfg saved", "obj"}
    BY <2>2
  <2>. QED  BY <1>1, <2>1, <2>7, <2>8, <2>9
<1>. QED  BY <1>3, <1>4

\* What a CSV file holds behind one more line, and behind some of it.
LEMMA OneMoreLine ==
  ASSUME NEW S, NEW s \in Seq(S), NEW x \in S
  PROVE  /\ s \o <<x>> \in Seq(S) /\ Len(s \o <<x>>) = Len(s) + 1
         /\ (s \o <<x>>)[Len(s) + 1] = x
         /\ \A i \in 1 .. Len(s) : (s \o <<x>>)[i] = s[i]
<1>1. <<x>> \in Seq(S) /\ Len(<<x>>) = 1 /\ <<x>>[1] = x
  OBVIOUS
<1>. QED  BY <1>1

LEMMA FirstLines ==
  ASSUME NEW S, NEW x \in S, NEW y \in S
  PROVE  <<x, y>> \in Seq(S) /\ <<x>> \in Seq(S) /\ <<>> \in Seq(S)
OBVIOUS

LEMMA TextsHold == "header" \in Texts /\ "line" \in Texts
BY DEF Texts

\* The lines of the day.
LEMMA LinesPreserved ==
  ASSUME SInv, part = "save", Save!NextDay \/ Save!csv_save_file
  PROVE  /\ csv' = [lines |-> csv'.lines, held |-> csv'.held]
         /\ csv'.lines \in Seq(Texts) /\ csv'.held \in BOOLEAN
         /\ Save!LinesUnderHeader'
<1>1. /\ csv = [lines |-> csv.lines, held |-> csv.held]
      /\ csv.lines \in Seq(Texts) /\ csv.held \in BOOLEAN
      /\ Save!LinesUnderHeader
  BY DEF SInv
<1>2. CASE Save!NextDay
  BY <1>2 DEF Save!NextDay, Save!LinesUnderHeader
<1>3. CASE /\ Save!csv_save_file
           /\ csv' = [csv EXCEPT !.lines = @ \o Save!CsvAppend(@)]
  <2>. DEFINE s == csv.lines
              t == Save!CsvAppend(s)
  <2>1. csv' = [lines |-> s \o t, held |-> csv.held]
    BY <1>1, <1>3
  <2>2. s \in Seq(Texts) /\ Len(s) \in Nat
    BY <1>1
  <2>. HIDE DEF s
  <2>3. CASE s = <<>>
    <3>1. s \o t = <<"header", "line">>
      BY <2>3 DEF Save!CsvAppend
    <3>2. csv'.lines = <<"header", "line">> /\ csv'.held = csv.held /\ csv' = [lines |-> csv'.lines, held |-> csv'.held]
      BY <2>1, <3>1
    <3>3. csv'.lines[1] = "header" /\ csv'.lines[2] = "line" /\ Len(csv'.lines) = 2
      BY <3>2
    <3>5. csv'.lines \in Seq(Texts)
      BY <3>2, TextsHold, FirstLines
    <3>4. Save!LinesUnderHeader'
      BY <3>3 DEF Save!LinesUnderHeader
    <3>. QED  BY <1>1, <3>2, <3>4, <3>5
  <2>4. CASE s # <<>>
    <3>1. t = <<"line">>
      BY <2>4 DEF Save!CsvAppend
    <3>. DEFINE u == s \o <<"line">>
    <3>2. u \in Seq(Texts) /\ Len(u) = Len(s) + 1 /\ u[Len(u)] = "line"
          /\ \A i \in 1 .. Len(s) : u[i] = s[i]
      BY <2>2, TextsHold, OneMoreLine
    <3>3. csv' = [lines |-> u, held |-> csv.held]
      BY <2>1, <3>1
    <3>. HIDE DEF u
    <3>4. csv'.lines = u /\ csv'.held = csv.held
      BY <3>3
    <3>5. ASSUME ~csv'.held
          PROVE  u[1] = "header" /\ \A i \in 2 .. Len(u) : u[i] = "line"
      <4>1. s[1] = "header" /\ \A i \in 2 .. Len(s) : s[i] = "line"
        BY <1>1, <2>4, <3>4, <3>5 DEF Save!LinesUnderHeader, s
      <4>2. Len(s) >= 1
        BY <2>2, <2>4
      <4>3. u[1] = s[1]
        BY <2>2, <3>2, <4>2
      <4>4. ASSUME NEW i \in 2 .. Len(u)
            PROVE  u[i] = "line"
        <5>1. i = Len(u) \/ i \in 2 .. Len(s)
          BY <2>2, <3>2
        <5>. QED  BY <2>2, <3>2, <4>1, <5>1
      <4>. QED  BY <4>1, <4>3, <4>4
    <3>6. Save!LinesUnderHeader'
      BY <3>4, <3>5 DEF Save!LinesUnderHeader
    <3>. QED  BY <1>1, <3>2, <3>3, <3>4, <3>6
  <2>. QED  BY <2>3, <2>4
<1>4. CASE \E written \in {<<>>, <<"header">>, <<"line">>} :
             csv' = [lines |-> csv.lines \o written, held |-> TRUE]
  <2>1. PICK written \in {<<>>, <<"header">>, <<"line">>} :
          csv' = [lines |-> csv.lines \o written, held |-> TRUE]
    BY <1>4
  <2>2. written \in Seq(Texts)
    BY TextsHold, FirstLines
  <2>3. csv.lines \o written \in Seq(Texts)
    BY <1>1, <2>2
  <2>. QED  BY <2>1, <2>3 DEF Save!LinesUnderHeader
<1>5. CASE Save!csv_save_file
  BY <1>3, <1>4, <1>5 DEF Save!csv_save_file
<1>. QED  BY <1>2, <1>5

LEMMA StepPreservesSInv == SInv /\ [PartsNext]_vars => SInv'
<1>. SUFFICES ASSUME SInv, [PartsNext]_vars, part' = "save"
              PROVE  SInv'
  BY DEF SInv
<1>1. part' = part /\ part = "save"
  BY DEF PartsNext, vars
<1>2. CASE UNCHANGED saveVars
  <2>1. ASSUME NEW k, Finds(k)
        PROVE  Finds(k)'
    <3>1. phase' = phase /\ now' = now /\ past' = past /\ files' = files
      BY <1>2 DEF saveVars
    <3>2. Save!load(k)' = Save!load(k)
      BY <3>1 DEF Save!load, Save!toInt
    <3>3. /\ Save!Back(k, past.left[k])' = Save!Back(k, past.left[k])
          /\ Save!Back(k, now[k])' = Save!Back(k, now[k])
      BY <3>1 DEF Save!Back, Save!toInt
    <3>. QED  BY <2>1, <3>1, <3>2, <3>3 DEF Finds
  <2>2. Save!LinesUnderHeader => Save!LinesUnderHeader'
    BY <1>2 DEF saveVars, Save!LinesUnderHeader
  <2>. QED  BY <1>1, <1>2, <2>1, <2>2 DEF saveVars, SInv
<1>3. CASE Save!Next
  <2>1. CASE Save!Start \/ Save!Change \/ Save!Killed
    <3>1. csv' = csv
      BY <2>1 DEF Save!Start, Save!Change, Save!Killed
    <3>2. Save!LinesUnderHeader => Save!LinesUnderHeader'
      BY <3>1 DEF Save!LinesUnderHeader
    <3>. QED  BY <1>1, <2>1, <3>1, <3>2, RunPreservesSInv DEF SInv
  <2>2. CASE Save!NextDay \/ Save!csv_save_file
    BY <1>1, <2>2, RunPreservesSInv, LinesPreserved DEF SInv
  <2>3. CASE \E kind \in Save!Kinds : Save!Opens(kind) \/ Save!Writes(kind)
    <3>1. PICK kind \in Save!Kinds : Save!Opens(kind) \/ Save!Writes(kind)
      BY <2>3
    <3>2. csv' = csv
      BY <1>1, <3>1, SavingPreservesSInv
    <3>3. Save!LinesUnderHeader => Save!LinesUnderHeader'
      BY <3>2 DEF Save!LinesUnderHeader
    <3>. QED  BY <1>1, <3>1, <3>2, <3>3, SavingPreservesSInv DEF SInv
  <2>. QED  BY <1>3, <2>1, <2>2, <2>3 DEF Save!Next
<1>4. CASE UNCHANGED vars
  BY <1>2, <1>4 DEF vars
<1>. QED  BY <1>1, <1>3, <1>4 DEF PartsNext

\* Whenever the program is closed or killed, also between truncating a file and
\* writing it, the next start finds what the file is to hold, and the lines of
\* a day stand under one header (mainwindow.cpp, json_file.cpp, filehandle.cpp).
THEOREM FilesAreKept == PartsSpec => FilesKeep
<1>1. SInv /\ [PartsNext]_vars => [part = "save" => Save!FoundAgain]_vars
  <2>. SUFFICES ASSUME SInv, part = "save", Save!Start, NEW k \in Save!Kinds
                PROVE  CASE past.ended = "closed" -> now'[k] = Save!Back(k, past.left[k])
                         [] past.ended = k        -> now'[k] = Save!Default[k]
                         [] OTHER -> now'[k] \in {Save!Back(k, past.left[k]), past.found[k]}
    BY DEF Save!FoundAgain
  <2>1. phase = "off" /\ now' = [j \in Save!Kinds |-> Save!load(j)]
    BY DEF Save!Start
  <2>2. now'[k] = Save!load(k)
    BY <2>1
  <2>3. Finds(k) /\ k # "closed"
    BY DEF SInv, Save!Kinds
  <2>4. /\ past.ended = "closed" => now'[k] = Save!Back(k, past.left[k])
        /\ past.ended = k => now'[k] = Save!Default[k]
        /\ past.ended \notin {"closed", k} =>
             now'[k] \in {Save!Back(k, past.left[k]), past.found[k]}
    BY <2>1, <2>2, <2>3 DEF Finds
  <2>. QED  BY <2>3, <2>4
<1>2. SInv => (part = "save" => Save!LinesUnderHeader)
  BY DEF SInv
<1>. QED  BY <1>1, <1>2, InitEstablishesSInv, StepPreservesSInv, PTL DEF PartsSpec, FilesKeep

-----------------------------------------------------------------------------
(* EventReader. *)

AnIndex == (1 .. LastEvent) \cup {Reader!NoEvent}
Request == [pgn : {"read", "format"}, type : Reader!Types, index : Nat]
AReply == [type : Reader!Types, index : AnIndex]
ARow == Reader!Types \X [type : Reader!Types, index : 1 .. LastEvent]

APage == [timer : BOOLEAN, read_index : Nat, end_index : Nat \cup {Reader!NoEvent},
          timeout_cnt : Nat, read_type : Reader!Types]
AWire == [requests : Seq(Request), replies : Seq(AReply),
          stored : [Reader!Types -> 0 .. LastEvent]]
APast == [reads : Nat, faults : Nat, start : Nat, disturbed : BOOLEAN]

ReaderTypes ==
  /\ eventPage \in APage
  /\ rows \in Seq(ARow)
  /\ wire \in AWire
  /\ eventPast \in APast

\* What the next event would be asked for and answered with.
Asks == [pgn |-> "read", type |-> eventPage.read_type, index |-> eventPage.read_index]
Last == wire.stored[eventPage.read_type]
Answers == [type |-> eventPage.read_type,
            index |-> IF eventPage.read_index \in 1 .. Last THEN eventPage.read_index
                      ELSE Reader!NoEvent]

\* The rows are the events from the start on, there are such events, and the
\* end is not among them.
RowsInOrder ==
  /\ eventPage.read_index = eventPast.start + Len(rows)
  /\ \A i \in 1 .. Len(rows) :
       /\ rows[i] = <<eventPage.read_type,
                      [type |-> eventPage.read_type, index |-> eventPast.start + i - 1]>>
       /\ eventPast.start + i - 1 <= Last
       /\ eventPast.start + i - 1 # eventPage.end_index

GivenUp == eventPage.timeout_cnt > 5

\* One question at most is on its way, or its answer; with none, the timer runs,
\* or the reading has been given up, or it has come to its end.
OneQuestion ==
  \/ /\ wire.requests = <<>> /\ wire.replies = <<>>
     /\ \/ eventPage.timer \/ GivenUp
        \/ eventPage.read_index > Last \/ eventPage.read_index = eventPage.end_index
  \/ /\ wire.requests = <<Asks>> /\ wire.replies = <<>>
     /\ eventPage.timer \/ GivenUp
  \/ /\ wire.requests = <<>> /\ wire.replies = <<Answers>>
     /\ eventPage.timer \/ GivenUp

Undisturbed == ~eventPast.disturbed /\ eventPast.reads > 0 /\ eventPast.start > 0

RInv ==
  part = "reader" => ReaderTypes /\ (Undisturbed => RowsInOrder /\ OneQuestion)

\* The wire stays one.
LEMMA WireCarries ==
  ASSUME NEW w \in AWire
  PROVE  /\ \A q \in Request : [w EXCEPT !.requests = Append(w.requests, q)] \in AWire
         /\ w.replies # <<>> =>
              /\ Head(w.replies) \in AReply
              /\ [w EXCEPT !.replies = Tail(w.replies)] \in AWire
         /\ w.requests # <<>> =>
              /\ Head(w.requests) \in Request
              /\ [w EXCEPT !.requests = Tail(w.requests)] \in AWire
              /\ \A r \in AReply : [w EXCEPT !.requests = Tail(w.requests),
                                            !.replies = Append(w.replies, r)] \in AWire
              /\ \A type \in Reader!Types :
                   [w EXCEPT !.requests = Tail(w.requests), !.stored[type] = 0] \in AWire
<1>1. /\ w = [requests |-> w.requests, replies |-> w.replies, stored |-> w.stored]
      /\ w.requests \in Seq(Request) /\ w.replies \in Seq(AReply)
      /\ w.stored \in [Reader!Types -> 0 .. LastEvent]
  BY DEF AWire
<1>2. \A q \in Request : Append(w.requests, q) \in Seq(Request)
  BY <1>1
<1>3. \A r \in AReply : Append(w.replies, r) \in Seq(AReply)
  BY <1>1
<1>4. w.replies # <<>> => Head(w.replies) \in AReply /\ Tail(w.replies) \in Seq(AReply)
  BY <1>1
<1>5. w.requests # <<>> => Head(w.requests) \in Request /\ Tail(w.requests) \in Seq(Request)
  BY <1>1
<1>6. \A type \in Reader!Types : [w.stored EXCEPT ![type] = 0] \in [Reader!Types -> 0 .. LastEvent]
  BY <1>1, PartsAssumption
<1>7. \A q \in Request : [w EXCEPT !.requests = Append(w.requests, q)] \in AWire
  BY <1>1, <1>2 DEF AWire
<1>8. w.replies # <<>> => [w EXCEPT !.replies = Tail(w.replies)] \in AWire
  BY <1>1, <1>4 DEF AWire
<1>9. ASSUME w.requests # <<>>
      PROVE  /\ [w EXCEPT !.requests = Tail(w.requests)] \in AWire
             /\ \A r \in AReply : [w EXCEPT !.requests = Tail(w.requests),
                                           !.replies = Append(w.replies, r)] \in AWire
             /\ \A type \in Reader!Types :
                  [w EXCEPT !.requests = Tail(w.requests), !.stored[type] = 0] \in AWire
  <2>1. [w EXCEPT !.requests = Tail(w.requests)] \in AWire
    BY <1>1, <1>5, <1>9 DEF AWire
  <2>2. \A r \in AReply : [w EXCEPT !.requests = Tail(w.requests),
                                   !.replies = Append(w.replies, r)] \in AWire
    BY <1>1, <1>3, <1>5, <1>9 DEF AWire
  <2>3. \A type \in Reader!Types :
          [w EXCEPT !.requests = Tail(w.requests), !.stored[type] = 0] \in AWire
    BY <1>1, <1>5, <1>6, <1>9 DEF AWire
  <2>. QED  BY <2>1, <2>2, <2>3
<1>. QED  BY <1>4, <1>5, <1>7, <1>8, <1>9

\* The counters count.
LEMMA PastStep ==
  ASSUME NEW p \in APast, NEW d \in BOOLEAN, NEW n \in Nat
  PROVE  /\ [p EXCEPT !.reads = @ + 1, !.start = n, !.disturbed = d] \in APast
         /\ [p EXCEPT !.reads = @ + 1, !.disturbed = d] \in APast
         /\ [p EXCEPT !.faults = @ + n, !.disturbed = d] \in APast
<1>1. /\ p = [reads |-> p.reads, faults |-> p.faults, start |-> p.start, disturbed |-> p.disturbed]
      /\ p.reads \in Nat /\ p.faults \in Nat /\ p.start \in Nat /\ p.disturbed \in BOOLEAN
  BY DEF APast
<1>. DEFINE r == p.reads + 1 
            f == p.faults + n
<1>3. r \in Nat /\ f \in Nat
  BY <1>1
<1>4. /\ [p EXCEPT !.reads = @ + 1, !.start = n, !.disturbed = d]
           = [p EXCEPT !.reads = r, !.start = n, !.disturbed = d] 
      /\ [p EXCEPT !.reads = @ + 1, !.disturbed = d] = [p EXCEPT !.reads = r, !.disturbed = d]
      /\ [p EXCEPT !.faults = @ + n, !.disturbed = d] = [p EXCEPT !.faults = f, !.disturbed = d]
  OBVIOUS
<1>. HIDE DEF r, f
<1>5. [p EXCEPT !.reads = r, !.start = n, !.disturbed = d] \in APast
  BY <1>1, <1>3 DEF APast
<1>6. [p EXCEPT !.reads = r, !.disturbed = d] \in APast
  BY <1>1, <1>3 DEF APast
<1>7. [p EXCEPT !.faults = f, !.disturbed = d] \in APast
  BY <1>1, <1>3 DEF APast
<1>. QED  BY <1>4, <1>5, <1>6, <1>7

\* The page after a step of its fields.
LEMMA PageStep ==
  ASSUME NEW p \in APage, NEW b \in BOOLEAN
  PROVE  /\ [p EXCEPT !.read_index = @ + 1, !.timer = b] \in APage
         /\ [p EXCEPT !.timeout_cnt = @ + 1, !.timer = b] \in APage
<1>1. /\ p = [timer |-> p.timer, read_index |-> p.read_index, end_index |-> p.end_index,
              timeout_cnt |-> p.timeout_cnt, read_type |-> p.read_type]
      /\ p.timer \in BOOLEAN /\ p.read_index \in Nat /\ p.end_index \in Nat \cup {Reader!NoEvent}
      /\ p.timeout_cnt \in Nat /\ p.read_type \in Reader!Types
  BY DEF APage
<1>. DEFINE r == p.read_index + 1 
            c == p.timeout_cnt + 1
<1>3. r \in Nat /\ c \in Nat
  BY <1>1
<1>4. /\ [p EXCEPT !.read_index = @ + 1, !.timer = b] = [p EXCEPT !.read_index = r, !.timer = b]
      /\ [p EXCEPT !.timeout_cnt = @ + 1, !.timer = b] = [p EXCEPT !.timeout_cnt = c, !.timer = b]
  OBVIOUS
<1>. HIDE DEF r, c
<1>5. [p EXCEPT !.read_index = r, !.timer = b] \in APage
  BY <1>1, <1>3 DEF APage
<1>6. [p EXCEPT !.timeout_cnt = c, !.timer = b] \in APage
  BY <1>1, <1>3 DEF APage
<1>. QED  BY <1>4, <1>5, <1>6

LEMMA InitEstablishesRInv == PartsInit => RInv
<1>. SUFFICES ASSUME PartsInit, part = "reader"
              PROVE  RInv
  BY DEF RInv
<1>1. Reader!Init
  BY DEF PartsInit
<1>2. ReaderTypes
  BY <1>1, PartsAssumption DEF Reader!Init, ReaderTypes, APage, AWire, APast, Reader!Types, Reader!SYS_EVENT_TYPE_ERR
<1>3. ~Undisturbed
  BY <1>1 DEF Reader!Init, Undisturbed
<1>. QED  BY <1>2, <1>3 DEF RInv

\* The operator's acts.
LEMMA ClicksPreserveRInv ==
  ASSUME RInv, part = "reader", part' = part,
         \/ Reader!ReadButton \/ Reader!ReadAllButton
         \/ Reader!on_eventTypeComboBox_currentIndexChanged \/ Reader!on_cleanBtn_clicked
  PROVE  RInv'
<1>1. ReaderTypes /\ eventPage \in APage /\ wire \in AWire /\ eventPast \in APast /\ rows \in Seq(ARow)
  BY DEF RInv, ReaderTypes
<1>2. ASSUME NEW start \in Nat, NEW stop \in Nat \cup {Reader!NoEvent}, Reader!start_read(start, stop)
      PROVE  RInv'
  <2>1. /\ rows' = <<>>
        /\ eventPage' = [eventPage EXCEPT !.timer = TRUE, !.read_index = start,
                                          !.end_index = stop, !.timeout_cnt = 0]
        /\ wire' = [wire EXCEPT !.requests = Append(wire.requests,
                      [pgn |-> "read", type |-> eventPage.read_type, index |-> start])]
        /\ eventPast' = [eventPast EXCEPT !.reads = @ + 1, !.start = start,
                                          !.disturbed = ~Reader!Quiet]
    BY <1>2 DEF Reader!start_read, Reader!request_event, Reader!Asked
  <2>2. [pgn |-> "read", type |-> eventPage.read_type, index |-> start] \in Request
    BY <1>1 DEF APage, AWire, APast, Request
  <2>3. eventPage.read_type' = eventPage.read_type /\ eventPage'.read_index = start
        /\ eventPage'.timer = TRUE
    BY <1>1, <2>1 DEF APage, AWire, APast
  <2>4. ReaderTypes'
    <3>1. eventPage' \in APage
      BY <1>1, <2>1 DEF APage
    <3>2. wire' \in AWire
      BY <1>1, <2>1, <2>2, WireCarries
    <3>3. eventPast' \in APast
      <4>. DEFINE disturbed == ~Reader!Quiet
      <4>1. disturbed \in BOOLEAN
        OBVIOUS
      <4>2. eventPast' = [eventPast EXCEPT !.reads = @ + 1, !.start = start, !.disturbed = disturbed]
        BY <2>1
      <4>. HIDE DEF disturbed
      <4>. QED  BY <1>1, <1>2, <4>1, <4>2, PastStep
    <3>4. rows' \in Seq(ARow)
      BY <2>1
    <3>. QED  BY <3>1, <3>2, <3>3, <3>4 DEF ReaderTypes
  <2>5. ASSUME Undisturbed'
        PROVE  RowsInOrder' /\ OneQuestion'
    <3>1. eventPast'.start = start /\ eventPast'.disturbed = ~Reader!Quiet
      BY <1>1, <2>1 DEF APage, AWire, APast
    <3>2. Reader!Quiet
      BY <2>5, <3>1 DEF Undisturbed
    <3>3. wire.requests = <<>> /\ wire.replies = <<>>
      BY <3>2 DEF Reader!Quiet
    <3>4. wire'.requests = <<Asks'>> /\ wire'.replies = <<>>
      BY <1>1, <2>1, <2>3, <3>3 DEF APage, AWire, APast, Asks
    <3>5. Len(rows') = 0
      BY <2>1
    <3>6. RowsInOrder'
      BY <2>3, <3>1, <3>5 DEF RowsInOrder
    <3>. QED  BY <2>3, <3>4, <3>6 DEF OneQuestion
  <2>. QED  BY <2>4, <2>5 DEF RInv
<1>3. CASE Reader!ReadButton
  BY <1>2, <1>3, PartsAssumption DEF Reader!ReadButton
<1>4. CASE Reader!ReadAllButton
  BY <1>2, <1>4 DEF Reader!ReadAllButton
<1>5. CASE Reader!on_eventTypeComboBox_currentIndexChanged
  <2>1. PICK type \in Reader!Types : eventPage' = [eventPage EXCEPT !.read_type = type]
    BY <1>5 DEF Reader!on_eventTypeComboBox_currentIndexChanged
  <2>2. /\ eventPast' = [eventPast EXCEPT !.reads = @ + 1, !.disturbed = TRUE]
        /\ UNCHANGED <<rows, wire>>
    BY <1>5 DEF Reader!on_eventTypeComboBox_currentIndexChanged
  <2>3. eventPage' \in APage
    BY <1>1, <2>1 DEF APage
  <2>4. eventPast' \in APast
    BY <1>1, <2>2, PastStep
  <2>5. eventPast'.disturbed = TRUE
    BY <1>1, <2>2 DEF APast
  <2>. QED  BY <1>1, <2>2, <2>3, <2>4, <2>5 DEF RInv, ReaderTypes, Undisturbed
<1>6. CASE Reader!on_cleanBtn_clicked
  <2>1. /\ wire' = [wire EXCEPT !.requests = Append(wire.requests,
                      [pgn |-> "format", type |-> eventPage.read_type, index |-> 0])]
        /\ eventPast' = [eventPast EXCEPT !.reads = @ + 1, !.disturbed = TRUE]
        /\ UNCHANGED <<eventPage, rows>>
    BY <1>6 DEF Reader!on_cleanBtn_clicked
  <2>2. [pgn |-> "format", type |-> eventPage.read_type, index |-> 0] \in Request
    BY <1>1 DEF APage, AWire, APast, Request
  <2>3. wire' \in AWire
    BY <1>1, <2>1, <2>2, WireCarries
  <2>4. eventPast' \in APast
    BY <1>1, <2>1, PastStep
  <2>5. eventPast'.disturbed = TRUE
    BY <1>1, <2>1 DEF APast
  <2>. QED  BY <1>1, <2>1, <2>3, <2>4, <2>5 DEF RInv, ReaderTypes, Undisturbed
<1>. QED  BY <1>3, <1>4, <1>5, <1>6

\* An answer.
LEMMA AnswerPreservesRInv ==
  ASSUME RInv, part = "reader", part' = part, Reader!slot_recv_read_event
  PROVE  RInv'
<1>1. ReaderTypes /\ eventPage \in APage /\ wire \in AWire /\ eventPast \in APast /\ rows \in Seq(ARow)
  BY DEF RInv, ReaderTypes
<1>. DEFINE r == Head(wire.replies)
            asked == [pgn |-> "read", type |-> eventPage.read_type,
                      index |-> eventPage.read_index + 1]
<1>2. wire.replies # <<>> /\ eventPast' = eventPast
  BY DEF Reader!slot_recv_read_event
<1>3. r \in AReply /\ [wire EXCEPT !.replies = Tail(wire.replies)] \in AWire
  BY <1>1, <1>2, WireCarries
<1>4. CASE r.index \in {Reader!NoEvent, eventPage.end_index}
  <2>1. /\ eventPage' = [eventPage EXCEPT !.timer = FALSE]
        /\ wire' = [wire EXCEPT !.replies = Tail(wire.replies)]
        /\ rows' = rows
    BY <1>4 DEF Reader!slot_recv_read_event, Reader!StopsAt, Reader!Respond, Reader!Answered
  <2>2. ReaderTypes'
    <3>1. eventPage' \in APage
      BY <1>1, <2>1 DEF APage
    <3>. QED  BY <1>1, <1>2, <1>3, <2>1, <3>1 DEF ReaderTypes
  <2>3. /\ eventPage'.read_type = eventPage.read_type /\ eventPage'.read_index = eventPage.read_index
        /\ eventPage'.end_index = eventPage.end_index
        /\ wire'.stored = wire.stored /\ wire'.requests = wire.requests
        /\ wire'.replies = Tail(wire.replies)
    BY <1>1, <2>1 DEF APage, AWire, APast
  <2>4. ASSUME Undisturbed'
        PROVE  RowsInOrder' /\ OneQuestion'
    <3>1. Undisturbed /\ RowsInOrder /\ OneQuestion
      BY <1>2, <2>4 DEF Undisturbed, RInv
    <3>2. wire.requests = <<>> /\ wire.replies = <<Answers>>
      BY <1>2, <3>1 DEF OneQuestion
    <3>3. r.index = IF eventPage.read_index \in 1 .. Last THEN eventPage.read_index
                    ELSE Reader!NoEvent
      BY <3>2 DEF Answers
    <3>4. eventPage.read_index \in Nat /\ eventPage.read_index >= 1 /\ Last \in Nat
      BY <1>1, <3>1, PartsAssumption DEF APage, AWire, APast, RowsInOrder, Undisturbed, Last
    <3>5. eventPage.read_index > Last \/ eventPage.read_index = eventPage.end_index
      BY <1>4, <3>3, <3>4 DEF Reader!NoEvent
    <3>6. wire'.replies = <<>> /\ Last' = Last
      BY <2>3, <3>2 DEF Last
    <3>7. RowsInOrder'
      BY <1>2, <2>1, <2>3, <3>1, <3>6 DEF RowsInOrder
    <3>. QED  BY <2>3, <3>2, <3>5, <3>6, <3>7 DEF OneQuestion
  <2>. QED  BY <2>2, <2>4 DEF RInv
<1>5. CASE r.index \notin {Reader!NoEvent, eventPage.end_index}
  <2>1. /\ rows' = Append(rows, <<eventPage.read_type, r>>)
        /\ eventPage' = [eventPage EXCEPT !.read_index = @ + 1, !.timer = TRUE]
        /\ wire' = [[wire EXCEPT !.replies = Tail(wire.replies)]
                      EXCEPT !.requests = Append(wire.requests, asked)]
    BY <1>5 DEF Reader!slot_recv_read_event, Reader!StopsAt, Reader!Respond, Reader!Answered,
                Reader!Asked
  <2>2. <<eventPage.read_type, r>> \in ARow /\ asked \in Request
    <3>1. eventPage.read_type \in Reader!Types /\ eventPage.read_index + 1 \in Nat
      BY <1>1 DEF APage
    <3>2. r \in [type : Reader!Types, index : 1 .. LastEvent]
      <4>. HIDE DEF r
      <4>. QED  BY <1>3, <1>5 DEF AReply, AnIndex
    <3>. HIDE DEF r
    <3>. DEFINE n == eventPage.read_index + 1
    <3>3. n \in Nat /\ asked = [pgn |-> "read", type |-> eventPage.read_type, index |-> n]
      BY <3>1
    <3>. HIDE DEF n, asked
    <3>. QED  BY <3>1, <3>2, <3>3 DEF ARow, Request
  <2>3. /\ eventPage'.read_type = eventPage.read_type
        /\ eventPage'.read_index = eventPage.read_index + 1
        /\ eventPage'.end_index = eventPage.end_index /\ eventPage'.timer = TRUE
        /\ wire'.stored = wire.stored /\ wire'.requests = Append(wire.requests, asked)
        /\ wire'.replies = Tail(wire.replies)
    BY <1>1, <2>1 DEF APage, AWire, APast
  <2>4. ReaderTypes'
    <3>. HIDE DEF r, asked
    <3>1. eventPage' \in APage
      BY <1>1, <2>1, PageStep
    <3>2. wire' \in AWire
      <4>. DEFINE w == [wire EXCEPT !.replies = Tail(wire.replies)]
      <4>1. w \in AWire /\ w.requests = wire.requests
        BY <1>1, <1>3 DEF AWire
      <4>2. wire' = [w EXCEPT !.requests = Append(w.requests, asked)]
        BY <2>1, <4>1
      <4>. HIDE DEF w
      <4>. QED  BY <2>2, <4>1, <4>2, WireCarries
    <3>3. rows' \in Seq(ARow)
      BY <1>1, <2>1, <2>2
    <3>. QED  BY <1>1, <1>2, <3>1, <3>2, <3>3 DEF ReaderTypes
  <2>5. ASSUME Undisturbed'
        PROVE  RowsInOrder' /\ OneQuestion'
    <3>1. Undisturbed /\ RowsInOrder /\ OneQuestion
      BY <1>2, <2>5 DEF Undisturbed, RInv
    <3>2. wire.requests = <<>> /\ wire.replies = <<Answers>>
      BY <1>2, <3>1 DEF OneQuestion
    <3>3. r = Answers
      BY <3>2
    <3>4. /\ eventPage.read_index \in Nat /\ eventPage.read_index \in 1 .. Last /\ Last \in Nat
          /\ r = [type |-> eventPage.read_type, index |-> eventPage.read_index]
          /\ eventPage.read_index # eventPage.end_index
      BY <1>1, <1>5, <3>3, PartsAssumption DEF APage, AWire, APast, Answers, Last
    <3>5. Last' = Last /\ wire'.replies = <<>> /\ wire'.requests = <<asked>> /\ asked = Asks'
      BY <2>3, <3>2 DEF Last, Asks
    <3>6. /\ Len(rows) \in Nat /\ Len(rows') = Len(rows) + 1
          /\ rows'[Len(rows) + 1] = <<eventPage.read_type, r>>
          /\ \A i \in 1 .. Len(rows) : rows'[i] = rows[i]
      BY <1>1, <2>1, <2>2
    <3>7. eventPage.read_index = eventPast.start + Len(rows) /\ eventPast.start \in Nat
      <4>1. eventPage.read_index = eventPast.start + Len(rows)
        BY <3>1, Zenon DEF RowsInOrder
      <4>. QED  BY <1>1, <4>1 DEF APast
    <3>8. ASSUME NEW i \in 1 .. Len(rows')
          PROVE  /\ rows'[i] = <<eventPage'.read_type,
                                 [type |-> eventPage'.read_type, index |-> eventPast'.start + i - 1]>>
                 /\ eventPast'.start + i - 1 <= Last'
                 /\ eventPast'.start + i - 1 # eventPage'.end_index
      <4>1. CASE i \in 1 .. Len(rows)
        BY <1>2, <2>3, <3>1, <3>5, <3>6, <4>1 DEF RowsInOrder
      <4>2. CASE i = Len(rows) + 1
        <5>1. eventPast.start + i - 1 = eventPage.read_index
          BY <3>6, <3>7, <4>2
        <5>. QED  BY <1>2, <2>3, <3>4, <3>5, <3>6, <4>2, <5>1
      <4>. QED  BY <3>6, <4>1, <4>2
    <3>9. eventPage'.read_index = eventPast'.start + Len(rows')
      <4>1. eventPage.read_index + 1 = eventPast.start + (Len(rows) + 1)
        BY <3>6, <3>7
      <4>. QED  BY <1>2, <2>3, <3>6, <4>1, Zenon
    <3>10. RowsInOrder'
      BY <3>8, <3>9 DEF RowsInOrder
    <3>. QED  BY <2>3, <3>5, <3>10 DEF OneQuestion
  <2>. QED  BY <2>4, <2>5 DEF RInv
<1>. QED  BY <1>4, <1>5

\* A time-out, which asks again.
LEMMA TimeoutPreservesRInv ==
  ASSUME RInv, part = "reader", part' = part, Reader!read_timeout
  PROVE  RInv'
<1>1. ReaderTypes /\ eventPage \in APage /\ wire \in AWire /\ eventPast \in APast /\ rows \in Seq(ARow)
  BY DEF RInv, ReaderTypes
<1>2. /\ wire' = [wire EXCEPT !.requests = Append(wire.requests, Asks)]
      /\ eventPage' = [eventPage EXCEPT !.timeout_cnt = @ + 1, !.timer = eventPage.timeout_cnt + 1 <= 5]
      /\ eventPast' = [eventPast EXCEPT !.faults = @ + (IF Reader!TooEarly THEN 1 ELSE 0),
                                        !.disturbed = @ \/ Reader!TooEarly]
      /\ rows' = rows
  BY DEF Reader!read_timeout, Reader!request_event, Reader!Asked, Asks
<1>3. Asks \in Request
  BY <1>1 DEF APage, AWire, APast, Asks, Request
<1>4. /\ eventPage'.read_type = eventPage.read_type /\ eventPage'.read_index = eventPage.read_index
      /\ eventPage'.end_index = eventPage.end_index
      /\ eventPage'.timeout_cnt = eventPage.timeout_cnt + 1
      /\ eventPage'.timer = (eventPage.timeout_cnt + 1 <= 5)
      /\ wire'.stored = wire.stored /\ wire'.replies = wire.replies
      /\ wire'.requests = Append(wire.requests, Asks)
      /\ eventPast'.start = eventPast.start /\ eventPast'.reads = eventPast.reads
      /\ eventPast'.disturbed = (eventPast.disturbed \/ Reader!TooEarly)
  BY <1>1, <1>2 DEF APage, AWire, APast
<1>5. ReaderTypes'
  <2>1. eventPage' \in APage
    <3>. DEFINE timer == eventPage.timeout_cnt + 1 <= 5
    <3>1. timer \in BOOLEAN
      OBVIOUS
    <3>2. eventPage' = [eventPage EXCEPT !.timeout_cnt = @ + 1, !.timer = timer]
      BY <1>2
    <3>. HIDE DEF timer
    <3>. QED  BY <1>1, <3>1, <3>2, PageStep
  <2>2. wire' \in AWire
    BY <1>1, <1>2, <1>3, WireCarries
  <2>3. eventPast' \in APast
    <3>. DEFINE disturbed == eventPast.disturbed \/ Reader!TooEarly
                n == IF Reader!TooEarly THEN 1 ELSE 0
    <3>1. disturbed \in BOOLEAN /\ n \in Nat
      BY <1>1 DEF APast
    <3>2. eventPast' = [eventPast EXCEPT !.faults = @ + n, !.disturbed = disturbed]
      BY <1>2
    <3>. HIDE DEF disturbed, n
    <3>. QED  BY <1>1, <3>1, <3>2, PastStep
  <2>. QED  BY <1>1, <1>2, <2>1, <2>2, <2>3 DEF ReaderTypes
<1>6. ASSUME Undisturbed'
      PROVE  RowsInOrder' /\ OneQuestion'
  <2>1. Undisturbed /\ ~Reader!TooEarly
    BY <1>4, <1>6 DEF Undisturbed
  <2>2. wire.requests = <<>> /\ wire.replies = <<>> /\ RowsInOrder
    BY <2>1 DEF Reader!TooEarly, RInv
  <2>3. Last' = Last /\ Asks' = Asks
    BY <1>4 DEF Last, Asks
  <2>4. wire'.requests = <<Asks'>> /\ wire'.replies = <<>>
    BY <1>4, <2>2, <2>3
  <2>5. eventPage'.timer \/ GivenUp'
    <3>1. eventPage.timeout_cnt \in Nat
      BY <1>1 DEF APage
    <3>2. eventPage.timeout_cnt + 1 <= 5 \/ eventPage.timeout_cnt + 1 > 5
      BY <3>1
    <3>. QED  BY <1>4, <3>2, Zenon DEF GivenUp
  <2>6. RowsInOrder'
    BY <1>2, <1>4, <2>2, <2>3 DEF RowsInOrder
  <2>. QED  BY <2>4, <2>5, <2>6 DEF OneQuestion
<1>. QED  BY <1>5, <1>6 DEF RInv

\* The node, and what is lost.
LEMMA NodePreservesRInv ==
  ASSUME RInv, part = "reader", part' = part, Reader!NodeAnswers \/ Reader!Loss
  PROVE  RInv'
<1>1. ReaderTypes /\ eventPage \in APage /\ wire \in AWire /\ eventPast \in APast /\ rows \in Seq(ARow)
  BY DEF RInv, ReaderTypes
<1>. DEFINE q == Head(wire.requests)
            index == IF q.index \in 1 .. wire.stored[q.type] THEN q.index ELSE Reader!NoEvent
            answer == [type |-> q.type, index |-> index]
<1>2. wire.requests # <<>> /\ UNCHANGED <<eventPage, rows, eventPast>>
  BY DEF Reader!NodeAnswers, Reader!Loss
<1>3. q \in Request
  BY <1>1, <1>2, WireCarries
<1>4. wire.stored \in [Reader!Types -> 0 .. LastEvent] /\ q.type \in Reader!Types
  BY <1>1, <1>3 DEF APage, AWire, APast, Request
<1>5. answer \in AReply
  <2>1. wire.stored[q.type] \in 0 .. LastEvent
    BY <1>4
  <2>2. index \in AnIndex
    BY <2>1, PartsAssumption DEF AnIndex
  <2>. HIDE DEF index
  <2>. QED  BY <1>4, <2>2 DEF AReply
<1>6. \/ wire' = [wire EXCEPT !.requests = Tail(wire.requests)]
      \/ q.pgn = "format" /\ wire' = [wire EXCEPT !.requests = Tail(wire.requests), !.stored[q.type] = 0]
      \/ q.pgn # "format" /\ wire' = [wire EXCEPT !.requests = Tail(wire.requests),
                                                  !.replies = Append(wire.replies, answer)]
  BY DEF Reader!NodeAnswers, Reader!Loss
<1>. HIDE DEF answer, index
<1>7. ReaderTypes'
  <2>1. wire' \in AWire
    BY <1>1, <1>2, <1>4, <1>5, <1>6, WireCarries
  <2>. QED  BY <1>1, <1>2, <2>1 DEF ReaderTypes
<1>8. ASSUME Undisturbed'
      PROVE  RowsInOrder' /\ OneQuestion'
  <2>1. Undisturbed /\ RowsInOrder /\ OneQuestion
    BY <1>2, <1>8 DEF Undisturbed, RInv
  <2>2. /\ wire.requests = <<Asks>> /\ wire.replies = <<>>
        /\ eventPage.timer \/ GivenUp
    BY <1>2, <2>1 DEF OneQuestion
  <2>3. q = Asks /\ Tail(wire.requests) = <<>>
    BY <2>2
  <2>4. q.pgn # "format" /\ answer = Answers
    BY <2>3 DEF Asks, Answers, answer, index, Last
  <2>. HIDE DEF q
  <2>5. Append(wire.replies, answer) = <<Answers>>
    BY <2>2, <2>4
  <2>6. /\ wire'.stored = wire.stored /\ wire'.requests = <<>>
        /\ wire'.replies = <<>> \/ wire'.replies = <<Answers>>
    BY <1>1, <1>6, <2>2, <2>3, <2>4, <2>5 DEF APage, AWire, APast
  <2>7. Last' = Last
    BY <1>2, <2>6 DEF Last
  <2>8. Answers' = Answers /\ GivenUp' = GivenUp
    BY <1>2, <2>7 DEF Answers, GivenUp
  <2>9. RowsInOrder'
    BY <1>2, <2>1, <2>7 DEF RowsInOrder
  <2>. QED  BY <1>2, <2>2, <2>6, <2>8, <2>9 DEF OneQuestion
<1>. QED  BY <1>7, <1>8 DEF RInv

LEMMA StepPreservesRInv == RInv /\ [PartsNext]_vars => RInv'
<1>. SUFFICES ASSUME RInv, [PartsNext]_vars, part' = "reader"
              PROVE  RInv'
  BY DEF RInv
<1>1. part' = part /\ part = "reader"
  BY DEF PartsNext, vars
<1>2. CASE UNCHANGED readerVars
  BY <1>1, <1>2 DEF readerVars, RInv, ReaderTypes, Undisturbed, RowsInOrder, OneQuestion,
                    GivenUp, Asks, Answers, Last
<1>3. CASE Reader!Next
  BY <1>1, <1>3, ClicksPreserveRInv, AnswerPreservesRInv, TimeoutPreservesRInv, NodePreservesRInv
     DEF Reader!Next
<1>4. CASE UNCHANGED vars
  BY <1>2, <1>4 DEF vars
<1>. QED  BY <1>1, <1>3, <1>4 DEF PartsNext

\* The events asked for are those from the start on that have been shown, when
\* the next one is the end or does not exist.
LEMMA NothingLeftToRead ==
  ASSUME ReaderTypes, RowsInOrder, eventPast.start > 0,
         eventPage.read_index > Last \/ eventPage.read_index = eventPage.end_index
  PROVE  Reader!ToRead(eventPast.start, eventPage.end_index)
           = eventPast.start .. eventPast.start + Len(rows) - 1
<1>. DEFINE start == eventPast.start
            end == eventPage.end_index
            n == Len(rows)
            last == Last
<1>1. start \in Nat /\ start >= 1 /\ n \in Nat /\ end \in Nat \cup {-1}
  BY DEF ReaderTypes, APast, APage, Reader!NoEvent
<1>2. last \in Nat
  BY PartsAssumption DEF ReaderTypes, APage, AWire, Last
<1>3. start + n > last \/ start + n = end
  BY DEF RowsInOrder
<1>4. \A i \in start .. start + n - 1 : i <= last /\ i # end
  <2>. SUFFICES ASSUME NEW i \in start .. start + n - 1
                PROVE  i <= last /\ i # end
    OBVIOUS
  <2>1. i - start + 1 \in 1 .. n /\ start + (i - start + 1) - 1 = i
    BY <1>1
  <2>2. \A k \in 1 .. n : start + k - 1 <= last /\ start + k - 1 # end
    BY Zenon DEF RowsInOrder
  <2>. HIDE DEF start, end, n, last
  <2>. QED  BY <2>1, <2>2
<1>5. Reader!ToRead(start, end) =
        IF end # -1 /\ start <= end THEN {i \in start .. end - 1 : i <= last} ELSE start .. last
  BY DEF Reader!ToRead, Reader!NoEvent, Last
<1>. HIDE DEF start, end, n, last
<1>6. CASE end # -1 /\ start <= end
  <2>1. end \in Nat /\ start + n <= end
    <3>1. end \in Nat
      BY <1>1, <1>6
    <3>2. ~ (end \in start .. start + n - 1)
      BY <1>4
    <3>. QED  BY <1>1, <1>6, <3>1, <3>2
  <2>2. \A i : i \in start .. end - 1 /\ i <= last <=> i \in start .. start + n - 1
    BY <1>1, <1>2, <1>3, <1>4, <2>1
  <2>3. {i \in start .. end - 1 : i <= last} = start .. start + n - 1
    BY <2>2
  <2>. QED  BY <1>5, <1>6, <2>3 DEF start, end, n
<1>7. CASE ~ (end # -1 /\ start <= end)
  <2>1. start + n > last
    BY <1>1, <1>3, <1>7
  <2>2. \A i : i \in start .. last <=> i \in start .. start + n - 1
    BY <1>1, <1>2, <1>4, <2>1
  <2>3. start .. last = start .. start + n - 1
    BY <2>2
  <2>. QED  BY <1>5, <1>7, <2>3 DEF start, end, n
<1>. QED  BY <1>6, <1>7

\* A reading that nobody disturbs shows the events in order, none twice and
\* none left out, and when it ends by itself all that were asked for, whatever
\* was lost on the way and however many there are (pagereadevent.cpp).
THEOREM RangeIsRead == PartsSpec => []RangeRead
<1>1. RInv => RangeRead
  <2>. SUFFICES ASSUME RInv, part = "reader", Undisturbed
                PROVE  /\ \A i \in DOMAIN rows :
                            /\ rows[i][1] = rows[i][2].type
                            /\ rows[i][2].index = eventPast.start + i - 1
                       /\ Reader!Quiet /\ eventPage.timeout_cnt <= 5 =>
                            Len(rows) =
                              Reader!Cardinality(Reader!ToRead(eventPast.start, eventPage.end_index))
    BY DEF RangeRead, Reader!RangeRead, Undisturbed
  <2>1. ReaderTypes /\ RowsInOrder /\ OneQuestion
    BY DEF RInv
  <2>2. DOMAIN rows = 1 .. Len(rows) /\ Len(rows) \in Nat /\ eventPast.start \in Nat
        /\ eventPage.timeout_cnt \in Nat /\ eventPast.start > 0
    BY <2>1 DEF ReaderTypes, APast, APage, Undisturbed
  <2>3. ASSUME NEW i \in DOMAIN rows
        PROVE  rows[i][1] = rows[i][2].type /\ rows[i][2].index = eventPast.start + i - 1
    <3>1. rows[i] = <<eventPage.read_type,
                      [type |-> eventPage.read_type, index |-> eventPast.start + i - 1]>>
      BY <2>1, <2>2, Zenon DEF RowsInOrder
    <3>. QED  BY <3>1
  <2>4. ASSUME Reader!Quiet, eventPage.timeout_cnt <= 5
        PROVE  Len(rows) =
                 Reader!Cardinality(Reader!ToRead(eventPast.start, eventPage.end_index))
    <3>1. eventPage.read_index > Last \/ eventPage.read_index = eventPage.end_index
      BY <2>1, <2>2, <2>4 DEF OneQuestion, Reader!Quiet, GivenUp
    <3>. DEFINE a == eventPast.start
                b == eventPast.start + Len(rows) - 1
    <3>2. Reader!ToRead(eventPast.start, eventPage.end_index) = a .. b
      BY <2>1, <2>2, <3>1, NothingLeftToRead
    <3>3. a \in Int /\ b \in Int /\ b - a + 1 = Len(rows) /\ (a > b => Len(rows) = 0)
      BY <2>2
    <3>. HIDE DEF a, b
    <3>4. Cardinality(a .. b) = Len(rows)
      BY <3>3, FS_Interval
    <3>5. Reader!Cardinality(a .. b) = Cardinality(a .. b)
      BY Zenon DEF Reader!Cardinality, Cardinality
    <3>. QED  BY <3>2, <3>4, <3>5
  <2>. QED  BY <2>3, <2>4
<1>. QED  BY <1>1, InitEstablishesRInv, StepPreservesRInv, PTL DEF PartsSpec

-----------------------------------------------------------------------------
(* RegisterPage. *)

\* What a loop over n places makes from each place on, when it makes item[k] of
\* the k-th and goes on at next[k].
Loop(f, n, next, item) ==
  f = [k \in 1 .. n + 1 |-> IF k > n THEN <<>> ELSE <<item[k]>> \o f[next[k]]]

\* A loop that always goes on behind where it stood makes something.
LEMMA LoopMakesList ==
  ASSUME NEW n \in Nat, NEW next, NEW item, \A k \in 1 .. n : next[k] \in k + 1 .. n + 1
  PROVE  \E f : Loop(f, n, next, item)
<1>. DEFINE Def(f, k) == IF k > n THEN <<>> ELSE <<item[k]>> \o f[next[k]]
            Good(k) == \E f : f = [j \in k .. n + 1 |-> Def(f, j)]
            S == {k \in 1 .. n + 1 : Good(k)}
<1>1. ASSUME NEW k \in 1 .. n + 1, \A j \in 1 .. n + 1 : k < j => j \in S
      PROVE  k \in S
  <2>1. CASE k = n + 1
    <3>. DEFINE f == [j \in n + 1 .. n + 1 |-> <<>>]
    <3>1. f = [j \in n + 1 .. n + 1 |-> Def(f, j)]
      OBVIOUS
    <3>. HIDE DEF f, Def
    <3>2. \E g : g = [j \in n + 1 .. n + 1 |-> Def(g, j)]
      BY Zenon, <3>1
    <3>3. Good(n + 1)
      BY Zenon, <3>2
    <3>4. Good(k)
      BY <2>1, <3>3
    <3>. QED  BY Zenon, <3>4
  <2>2. CASE k <= n
    <3>1. Good(k + 1)
      <4>1. k + 1 \in 1 .. n + 1 /\ k < k + 1
        BY <2>2
      <4>. HIDE DEF Good
      <4>. QED  BY Zenon, <1>1, <4>1
    <3>2. PICK g : g = [j \in k + 1 .. n + 1 |-> Def(g, j)]
      BY <3>1
    <3>. DEFINE f == [j \in k .. n + 1 |-> IF j = k THEN Def(g, k) ELSE g[j]]
    <3>3. k \in 1 .. n /\ ~ (k > n)
      BY <2>2
    <3>4. \A j \in k .. n + 1 : j = k \/ j \in k + 1 .. n + 1
      OBVIOUS
    <3>5. \A j \in k + 1 .. n + 1 : j \in k .. n + 1 /\ j # k
      OBVIOUS
    <3>6. \A j \in k + 1 .. n + 1 : f[j] = g[j]
      BY <3>5
    <3>7. \A j \in k .. n + 1 : j > n \/ next[j] \in k + 1 .. n + 1
      OBVIOUS
    <3>8. f[k] = Def(g, k)
      BY <3>3
    <3>9. \A j \in k + 1 .. n + 1 : g[j] = Def(g, j)
      BY Zenon, <3>2
    <3>10. \A j \in k .. n + 1 : f[j] = Def(g, j)
      BY Zenon, <3>4, <3>6, <3>8, <3>9
    <3>11. \A j \in k .. n + 1 : Def(g, j) = Def(f, j)
      BY Zenon, <3>6, <3>7
    <3>12. f = [j \in k .. n + 1 |-> f[j]]
      BY Zenon
    <3>. HIDE DEF f, Def
    <3>13. f = [j \in k .. n + 1 |-> Def(f, j)]
      BY Zenon, <3>10, <3>11, <3>12
    <3>. QED  BY <3>13
  <2>3. k = n + 1 \/ k <= n
    OBVIOUS
  <2>. QED  BY <2>1, <2>2, <2>3
<1>2. 1 \in 1 .. n + 1 /\ n + 1 \in Nat
  OBVIOUS
<1>. HIDE DEF S
<1>3. 1 \in S
  BY <1>1, <1>2, DownFromLast
<1>. QED  BY <1>3 DEF S, Loop

Smaller(a, b) == IF a < b THEN a ELSE b

\* What a list of requests owes the objects from the k-th of n on, when the
\* i-th lies at L[i] and has w[i] registers: requests of at most C registers that
\* lie one behind the other, none before the k-th object, and each object in
\* one of them, as a whole unless it lies across the end of C registers.
Owed(r, k, n, L, w, C) ==
  /\ r \in Seq([addr : Nat, len : 1 .. C])
  /\ \A q \in 1 .. Len(r) : k <= n /\ L[k] <= r[q].addr
  /\ \A i \in k .. n : \E q \in 1 .. Len(r) :
       /\ r[q].addr <= L[i] /\ L[i] < r[q].addr + C
       /\ L[i] + w[i] <= r[q].addr + C => L[i] + w[i] <= r[q].addr + r[q].len
  /\ \A q, p \in 1 .. Len(r) : q < p => r[q].addr + r[q].len <= r[p].addr

\* One request before those that the objects behind it are owed.
LEMMA OneMoreRequest ==
  ASSUME NEW n \in Nat, NEW L, NEW w, NEW C \in Nat \ {0},
         \A i \in 1 .. n : L[i] \in Nat /\ w[i] \in {1, 2},
         \A i, j \in 1 .. n : i < j => L[i] < L[j],
         NEW k \in 1 .. n, NEW e \in k .. n,
         \A i \in k .. e : L[i] < L[k] + C,
         e < n => L[k] + C <= L[e + 1],
         NEW rest, Owed(rest, e + 1, n, L, w, C)
  PROVE  Owed(<<[addr |-> L[k], len |-> Smaller(L[e] + w[e] - L[k], C)]>> \o rest, k, n, L, w, C)
<1>. DEFINE asked == Smaller(L[e] + w[e] - L[k], C)
            head == [addr |-> L[k], len |-> asked]
            Req == [addr : Nat, len : 1 .. C]
            r == <<head>> \o rest
<1>1. /\ L[k] \in Nat /\ L[e] \in Nat /\ w[e] \in {1, 2} /\ L[k] <= L[e] /\ L[e] < L[k] + C
      /\ e \in 1 .. n /\ e + 1 \in Nat
  OBVIOUS
<1>2. asked \in 1 .. C /\ (asked = L[e] + w[e] - L[k] \/ asked = C)
  BY <1>1 DEF Smaller
<1>. HIDE DEF asked
<1>3. head \in Req
  BY <1>1, <1>2
<1>4. /\ rest \in Seq(Req)
      /\ \A q \in 1 .. Len(rest) : e + 1 <= n /\ L[e + 1] <= rest[q].addr
      /\ \A i \in e + 1 .. n : \E q \in 1 .. Len(rest) :
           /\ rest[q].addr <= L[i] /\ L[i] < rest[q].addr + C
           /\ L[i] + w[i] <= rest[q].addr + C => L[i] + w[i] <= rest[q].addr + rest[q].len
      /\ \A q, p \in 1 .. Len(rest) : q < p => rest[q].addr + rest[q].len <= rest[p].addr
  BY Zenon DEF Owed
<1>5. head.addr = L[k] /\ head.len = asked
  OBVIOUS
<1>. HIDE DEF head, Req
<1>6. /\ r \in Seq(Req) /\ Len(rest) \in Nat /\ Len(r) = Len(rest) + 1 /\ r[1] = head
      /\ \A q \in 1 .. Len(rest) : r[q + 1] = rest[q]
  BY <1>3, <1>4
<1>. HIDE DEF r
<1>7. \A q \in 1 .. Len(r) : q = 1 \/ (q - 1 \in 1 .. Len(rest) /\ r[q] = rest[q - 1])
  <2>. SUFFICES ASSUME NEW q \in 1 .. Len(r), q # 1
                PROVE  q - 1 \in 1 .. Len(rest) /\ r[q] = rest[q - 1]
    OBVIOUS
  <2>1. Len(rest) \in Nat /\ Len(r) = Len(rest) + 1
    BY Zenon, <1>6
  <2>2. q - 1 \in 1 .. Len(rest) /\ q - 1 + 1 = q
    BY <2>1
  <2>3. r[q - 1 + 1] = rest[q - 1]
    BY Zenon, <1>6, <2>2
  <2>. QED  BY <2>2, <2>3
<1>8. \A q \in 1 .. Len(rest) : rest[q].addr \in Nat /\ rest[q].len \in 1 .. C
  <2>1. rest \in Seq(Req)
    BY Zenon, <1>4
  <2>2. \A q \in 1 .. Len(rest) : rest[q] \in Req
    BY <2>1
  <2>3. \A x \in Req : x.addr \in Nat /\ x.len \in 1 .. C
    BY DEF Req
  <2>. QED  BY Zenon, <2>2, <2>3
<1>9. ASSUME NEW q \in 1 .. Len(rest)
      PROVE  L[k] + C <= rest[q].addr
  <2>1. e + 1 <= n /\ L[e + 1] <= rest[q].addr /\ e + 1 \in 1 .. n
    BY <1>1, <1>4
  <2>2. L[k] + C <= L[e + 1] /\ L[e + 1] \in Nat
    BY <1>1, <2>1
  <2>. QED  BY <1>1, <1>8, <2>1, <2>2
<1>10. \A q \in 1 .. Len(r) : k <= n /\ L[k] <= r[q].addr
  <2>. SUFFICES ASSUME NEW q \in 1 .. Len(r)
                PROVE  L[k] <= r[q].addr
    OBVIOUS
  <2>1. CASE q = 1
    BY <1>1, <1>5, <1>6, <2>1
  <2>2. CASE q # 1
    <3>1. r[q] = rest[q - 1] /\ q - 1 \in 1 .. Len(rest)
      BY Zenon, <1>7, <2>2
    <3>2. L[k] + C <= rest[q - 1].addr /\ rest[q - 1].addr \in Nat
      BY Zenon, <1>8, <1>9, <3>1
    <3>3. L[k] <= rest[q - 1].addr
      BY <1>1, <3>2
    <3>. QED  BY Zenon, <3>1, <3>3
  <2>. QED  BY <2>1, <2>2
<1>11. ASSUME NEW i \in k .. n
       PROVE  \E q \in 1 .. Len(r) :
                /\ r[q].addr <= L[i] /\ L[i] < r[q].addr + C
                /\ L[i] + w[i] <= r[q].addr + C => L[i] + w[i] <= r[q].addr + r[q].len
  <2>0. i \in 1 .. n /\ L[i] \in Nat /\ w[i] \in {1, 2}
    OBVIOUS
  <2>1. CASE i \in k .. e
    <3>1. L[k] <= L[i] /\ L[i] < L[k] + C
      BY <1>1, <2>0, <2>1
    <3>2. i = e \/ L[i] < L[e]
      BY <1>1, <2>0, <2>1
    <3>3. L[i] + w[i] <= L[e] + w[e]
      BY <1>1, <2>0, <3>2
    <3>4. L[i] + w[i] <= L[k] + C => L[i] + w[i] <= L[k] + asked
      BY <1>1, <1>2, <2>0, <3>3
    <3>5. 1 \in 1 .. Len(r)
      BY <1>6
    <3>. QED  BY Zenon, <1>5, <1>6, <3>1, <3>4, <3>5
  <2>2. CASE i \in e + 1 .. n
    <3>1. PICK q \in 1 .. Len(rest) :
            /\ rest[q].addr <= L[i] /\ L[i] < rest[q].addr + C
            /\ L[i] + w[i] <= rest[q].addr + C => L[i] + w[i] <= rest[q].addr + rest[q].len
      BY Zenon, <1>4, <2>2
    <3>2. q + 1 \in 1 .. Len(r)
      BY <1>6
    <3>3. r[q + 1] = rest[q]
      BY <1>6
    <3>. QED  BY Zenon, <3>1, <3>2, <3>3
  <2>. QED  BY <2>0, <2>1, <2>2
<1>12. ASSUME NEW q \in 1 .. Len(r), NEW p \in 1 .. Len(r), q < p
       PROVE  r[q].addr + r[q].len <= r[p].addr
  <2>1. p # 1
    BY <1>12
  <2>2. p - 1 \in 1 .. Len(rest) /\ r[p] = rest[p - 1]
    BY Zenon, <1>7, <2>1
  <2>3. CASE q = 1
    <3>1. L[k] + C <= rest[p - 1].addr /\ rest[p - 1].addr \in Nat
      BY Zenon, <1>8, <1>9, <2>2
    <3>. DEFINE next == rest[p - 1].addr
    <3>2. L[k] + C <= next /\ next \in Nat
      BY Zenon, <3>1
    <3>. HIDE DEF next
    <3>3. L[k] \in Nat /\ asked \in 1 .. C
      BY Zenon, <1>1, <1>2
    <3>4. L[k] + asked <= next
      BY <3>2, <3>3
    <3>. QED  BY Zenon, <1>5, <1>6, <2>2, <2>3, <3>4 DEF next
  <2>4. CASE q # 1
    <3>1. q - 1 \in 1 .. Len(rest) /\ r[q] = rest[q - 1]
      BY Zenon, <1>7, <2>4
    <3>2. q - 1 < p - 1
      BY <1>12
    <3>. QED  BY Zenon, <1>4, <2>2, <3>1, <3>2
  <2>. QED  BY <2>3, <2>4
<1>13. r \in Seq([addr : Nat, len : 1 .. C])
  BY Zenon, <1>6 DEF Req
<1>14. Owed(r, k, n, L, w, C)
  BY Zenon, <1>10, <1>11, <1>12, <1>13 DEF Owed
<1>. QED  BY Zenon, <1>14 DEF r, head, asked

\* The requests that the loop makes from each object on owe it nothing.
LEMMA LoopOwes ==
  ASSUME NEW n \in Nat, NEW L, NEW w, NEW C \in Nat \ {0},
         \A i \in 1 .. n : L[i] \in Nat /\ w[i] \in {1, 2},
         \A i, j \in 1 .. n : i < j => L[i] < L[j],
         NEW end,
         \A k \in 1 .. n : /\ end[k] \in k .. n
                           /\ \A i \in k .. end[k] : L[i] < L[k] + C
                           /\ end[k] < n => L[k] + C <= L[end[k] + 1],
         NEW f,
         f = [k \in 1 .. n + 1 |->
                IF k > n THEN <<>>
                ELSE <<[addr |-> L[k], len |-> Smaller(L[end[k]] + w[end[k]] - L[k], C)]>>
                       \o f[end[k] + 1]]
  PROVE  \A k \in 1 .. n + 1 : Owed(f[k], k, n, L, w, C)
<1>. DEFINE S == {k \in 1 .. n + 1 : Owed(f[k], k, n, L, w, C)}
<1>1. ASSUME NEW k \in 1 .. n + 1, \A j \in 1 .. n + 1 : k < j => j \in S
      PROVE  k \in S
  <2>1. CASE k > n
    <3>1. f[k] = <<>>
      BY <2>1
    <3>. DEFINE r == f[k]
    <3>2. r \in Seq([addr : Nat, len : 1 .. C]) /\ Len(r) = 0
      BY <3>1
    <3>3. 1 .. Len(r) = {} /\ k .. n = {}
      BY <2>1, <3>2
    <3>. HIDE DEF r
    <3>4. Owed(r, k, n, L, w, C)
      BY <3>2, <3>3 DEF Owed
    <3>. QED  BY Zenon, <3>4 DEF r
  <2>2. CASE ~ (k > n)
    <3>. DEFINE e == end[k]
                rest == f[e + 1]
    <3>1. k \in 1 .. n
      BY <2>2
    <3>2. /\ e \in k .. n
          /\ \A i \in k .. e : L[i] < L[k] + C
          /\ e < n => L[k] + C <= L[e + 1]
      BY Zenon, <3>1
    <3>3. f[k] = <<[addr |-> L[k], len |-> Smaller(L[e] + w[e] - L[k], C)]>> \o rest
      BY Zenon, <2>2
    <3>4. e + 1 \in 1 .. n + 1 /\ k < e + 1
      BY <3>1, <3>2
    <3>. HIDE DEF e
    <3>5. Owed(rest, e + 1, n, L, w, C)
      BY Zenon, <1>1, <3>4
    <3>. HIDE DEF rest
    <3>6. Owed(<<[addr |-> L[k], len |-> Smaller(L[e] + w[e] - L[k], C)]>> \o rest, k, n, L, w, C)
      BY Zenon, <3>1, <3>2, <3>5, OneMoreRequest
    <3>. QED  BY Zenon, <3>3, <3>6
  <2>. QED  BY <2>1, <2>2
<1>. HIDE DEF S
<1>2. n + 1 \in Nat
  OBVIOUS
<1>3. \A k \in 1 .. n + 1 : k \in S
  BY <1>1, <1>2, DownFromLast
<1>. QED  BY Zenon, <1>3 DEF S

\* What the loop makes are lists.
LEMMA LoopIsSeq ==
  ASSUME NEW f, NEW n \in Nat, NEW next, NEW item, Loop(f, n, next, item),
         \A k \in 1 .. n : next[k] \in k + 1 .. n + 1
  PROVE  \A k \in 1 .. n + 1 : IsSeq(f[k])
<1>. DEFINE S == {k \in 1 .. n + 1 : IsSeq(f[k])}
<1>1. ASSUME NEW k \in 1 .. n + 1, \A j \in 1 .. n + 1 : k < j => j \in S
      PROVE  IsSeq(f[k])
  <2>1. CASE k > n
    <3>1. f[k] = <<>>
      BY Zenon, <2>1 DEF Loop
    <3>. QED  BY Zenon, <3>1, EmptyIsSeq
  <2>2. CASE ~ (k > n)
    <3>1. k \in 1 .. n
      BY <2>2
    <3>2. f[k] = <<item[k]>> \o f[next[k]]
      BY Zenon, <2>2 DEF Loop
    <3>3. next[k] \in 1 .. n + 1 /\ k < next[k]
      BY <3>1
    <3>4. IsSeq(f[next[k]])
      BY Zenon, <1>1, <3>3
    <3>. QED  BY Zenon, <3>2, <3>4, PrependIsSeq
  <2>. QED  BY <2>1, <2>2
<1>. HIDE DEF S
<1>2. n + 1 \in Nat
  OBVIOUS
<1>3. \A k \in 1 .. n + 1 : k \in S
  <2>1. \A k \in 1 .. n + 1 : (\A j \in 1 .. n + 1 : k < j => j \in S) => k \in S
    BY Zenon, <1>1 DEF S
  <2>. QED  BY <1>2, <2>1, DownFromLast
<1>. QED  BY Zenon, <1>3 DEF S

\* Every object begins a chunk that ends.
LEMMA ChunkIsThere ==
  ASSUME NEW n \in Nat, NEW L, \A i \in 1 .. n : L[i] \in Nat, NEW C \in Nat \ {0}, NEW k \in 1 .. n
  PROVE  \E j \in k .. n :
           /\ \A i \in k .. j : Page!Distance(L[i], L[k]) < C
           /\ j < n => Page!Distance(L[j + 1], L[k]) >= C
<1>. DEFINE far(i) == Page!Distance(L[i], L[k]) >= C
            F == {i \in k .. n : far(i)}
<1>1. /\ k \in k .. n /\ ~ far(k)
      /\ \A i \in k .. n : ~ far(i) => Page!Distance(L[i], L[k]) < C
  <2>1. L[k] \in Nat /\ \A i \in k .. n : L[i] \in Nat
    OBVIOUS
  <2>. QED  BY <2>1 DEF Page!Distance
<1>. HIDE DEF far
<1>2. CASE F = {}
  <2>1. \A i \in k .. n : ~ far(i)
    BY <1>2
  <2>2. n \in k .. n /\ ~ (n < n)
    OBVIOUS
  <2>. QED  BY Zenon, <1>1, <2>1, <2>2
<1>3. CASE F # {}
  <2>1. F \subseteq k .. n /\ k .. n \subseteq Nat
    OBVIOUS
  <2>2. IsFiniteSet(k .. n)
    BY FS_Interval
  <2>3. PICK m \in F : \A i \in F : m <= i
    <3>. HIDE DEF F
    <3>1. IsFiniteSet(F) /\ F \subseteq Nat
      BY <2>1, <2>2, FS_Subset
    <3>. QED  BY <1>3, <3>1, LeastIsThere
  <2>4. m \in k .. n /\ far(m) /\ m # k
    BY <1>1, <2>3
  <2>5. m - 1 \in k .. n /\ m - 1 + 1 = m
    BY <2>4
  <2>6. \A i \in k .. m - 1 : i \in k .. n /\ ~ far(i)
    <3>. SUFFICES ASSUME NEW i \in k .. m - 1
                  PROVE  i \in k .. n /\ ~ far(i)
      OBVIOUS
    <3>1. i \in k .. n /\ ~ (m <= i)
      BY <2>4
    <3>. QED  BY Zenon, <2>3, <3>1
  <2>7. Page!Distance(L[m - 1 + 1], L[k]) >= C
    BY Zenon, <2>4, <2>5 DEF far
  <2>. QED  BY Zenon, <1>1, <2>5, <2>6, <2>7
<1>. QED  BY <1>2, <1>3

\* The chunk of an object, whatever the order of the page.
LEMMA ChunkEndsSomewhere ==
  ASSUME Page!reg_info_list \in Seq(Nat), NEW k \in 1 .. Page!Count
  PROVE  LET L == Page!reg_info_list
             e == Page!ChunkEnd(k)
         IN  /\ e \in k .. Page!Count
             /\ \A i \in k .. e : Page!Distance(L[i], L[k]) < Chunk
             /\ e < Page!Count => Page!Distance(L[e + 1], L[k]) >= Chunk
<1>. DEFINE L == Page!reg_info_list
            n == Page!Count
            e == Page!ChunkEnd(k)
<1>1. n \in Nat /\ \A i \in 1 .. n : L[i] \in Nat
  BY DEF Page!Count
<1>2. Chunk \in Nat \ {0}
  BY PageAssumption
<1>. HIDE DEF L, n
<1>. DEFINE Ends(j) == /\ \A i \in k .. j : Page!Distance(L[i], L[k]) < Chunk
                       /\ j < n => Page!Distance(L[j + 1], L[k]) >= Chunk
<1>3. k \in 1 .. n
  BY DEF n
<1>4. \E j \in k .. n : Ends(j)
  BY Zenon, <1>1, <1>2, <1>3, ChunkIsThere
<1>5. e = CHOOSE j \in k .. n : Ends(j)
  BY DEF Page!ChunkEnd, n, L
<1>. HIDE DEF e
<1>6. e \in k .. n /\ Ends(e)
  <2>. HIDE DEF Ends
  <2>. QED  BY Zenon, <1>4, <1>5
<1>. QED  BY Zenon, <1>6 DEF e, n, L

\* The chunks of a page that lists its objects in order.
LEMMA ChunkEnds ==
  ASSUME Page!reg_info_list \in Seq(Nat), Page!Ascending, NEW k \in 1 .. Page!Count
  PROVE  LET L == Page!reg_info_list
             e == Page!ChunkEnd(k)
         IN  /\ e \in k .. Page!Count
             /\ \A i \in k .. e : L[i] < L[k] + Chunk
             /\ e < Page!Count => L[k] + Chunk <= L[e + 1]
<1>. DEFINE L == Page!reg_info_list
            n == Page!Count
            e == Page!ChunkEnd(k)
<1>1. n \in Nat /\ \A i \in 1 .. n : L[i] \in Nat
  BY DEF Page!Count
<1>2. Chunk \in Nat \ {0}
  BY PageAssumption
<1>3. \A i, j \in 1 .. n : i < j => L[i] < L[j]
  BY DEF Page!Ascending
<1>4. /\ e \in k .. n
      /\ \A i \in k .. e : Page!Distance(L[i], L[k]) < Chunk
      /\ e < n => Page!Distance(L[e + 1], L[k]) >= Chunk
  BY Zenon, ChunkEndsSomewhere
<1>5. k \in 1 .. n
  OBVIOUS
<1>. HIDE DEF L, n, e
<1>6. \A i \in k .. n : i \in 1 .. n /\ (i = k \/ L[k] < L[i])
  BY <1>3, <1>5
<1>7. \A i \in k .. n : L[i] \in Nat /\ L[k] \in Nat /\ Page!Distance(L[i], L[k]) = L[i] - L[k]
  BY <1>1, <1>5, <1>6 DEF Page!Distance
<1>8. \A i \in k .. e : L[i] < L[k] + Chunk
  <2>. SUFFICES ASSUME NEW i \in k .. e
                PROVE  L[i] < L[k] + Chunk
    OBVIOUS
  <2>1. i \in k .. n
    BY <1>1, <1>4, <1>5
  <2>2. L[i] - L[k] < Chunk
    BY Zenon, <1>4, <1>7, <2>1
  <2>. QED  BY <1>2, <1>7, <2>1, <2>2
<1>9. e < n => L[k] + Chunk <= L[e + 1]
  <2>. SUFFICES ASSUME e < n
                PROVE  L[k] + Chunk <= L[e + 1]
    OBVIOUS
  <2>1. e + 1 \in k .. n
    BY <1>1, <1>4, <1>5
  <2>2. L[e + 1] - L[k] >= Chunk
    BY Zenon, <1>4, <1>7, <2>1
  <2>. QED  BY <1>2, <1>7, <2>1, <2>2
<1>. QED  BY Zenon, <1>4, <1>8, <1>9 DEF e, n, L

\* The requests are what the loop makes, and a list.
LEMMA RequestsAreMade ==
  ASSUME Page!reg_info_list \in Seq(Nat)
  PROVE  LET n == Page!Count
             next == [k \in 1 .. n |-> Page!ChunkEnd(k) + 1]
             item == [k \in 1 .. n |-> [addr |-> Page!reg_info_list[k], len |-> Page!reg_len_of(k)]]
         IN  Loop(Page!RequestsFrom, n, next, item) /\ IsSeq(Page!Requests)
<1>. DEFINE L == Page!reg_info_list
            n == Page!Count
            next == [k \in 1 .. n |-> Page!ChunkEnd(k) + 1]
            item == [k \in 1 .. n |-> [addr |-> L[k], len |-> Page!reg_len_of(k)]]
            f == Page!RequestsFrom
<1>1. n \in Nat
  BY DEF Page!Count
<1>2. f = CHOOSE g : g = [k \in 1 .. n + 1 |->
                            IF k > n THEN <<>>
                            ELSE <<[addr |-> L[k], len |-> Page!reg_len_of(k)]>>
                                   \o g[Page!ChunkEnd(k) + 1]]
  BY DEF Page!RequestsFrom
<1>3. \A k \in 1 .. n : Page!ChunkEnd(k) \in k .. n
  BY Zenon, ChunkEndsSomewhere
<1>. HIDE DEF L, n, f
<1>4. \A k \in 1 .. n : next[k] \in k + 1 .. n + 1
  BY <1>1, <1>3
<1>5. \A k \in 1 .. n + 1 : k > n \/ k \in 1 .. n
  BY <1>1
<1>6. PICK g : Loop(g, n, next, item)
  <2>. HIDE DEF next, item
  <2>. QED  BY <1>1, <1>4, LoopMakesList
<1>7. g = [k \in 1 .. n + 1 |->
             IF k > n THEN <<>>
             ELSE <<[addr |-> L[k], len |-> Page!reg_len_of(k)]>> \o g[Page!ChunkEnd(k) + 1]]
  BY Zenon, <1>5, <1>6 DEF Loop
<1>8. f = [k \in 1 .. n + 1 |->
              IF k > n THEN <<>>
              ELSE <<[addr |-> L[k], len |-> Page!reg_len_of(k)]>> \o f[Page!ChunkEnd(k) + 1]]
  BY Zenon, <1>2, <1>7
<1>9. Loop(f, n, next, item)
  BY Zenon, <1>5, <1>8 DEF Loop
<1>. HIDE DEF next, item
<1>10. \A k \in 1 .. n + 1 : IsSeq(f[k])
  BY <1>1, <1>4, <1>9, LoopIsSeq
<1>11. 1 \in 1 .. n + 1
  BY <1>1
<1>. QED  BY Zenon, <1>9, <1>10, <1>11 DEF f, n, L, next, item, Page!Requests

\* How many registers the objects have.
Lengths == [i \in 1 .. Page!Count |-> Page!reg_len(Page!reg_info_list[i])]

\* The requests of a time-out owe the objects nothing.
LEMMA BurstOwes ==
  ASSUME Page!reg_info_list \in Seq(Nat), Page!Ascending
  PROVE  Owed(Page!Requests, 1, Page!Count, Page!reg_info_list, Lengths, Chunk)
<1>. DEFINE L == Page!reg_info_list
            n == Page!Count
            w == Lengths
            end == [k \in 1 .. n |-> Page!ChunkEnd(k)]
            next == [k \in 1 .. n |-> Page!ChunkEnd(k) + 1]
            item == [k \in 1 .. n |-> [addr |-> L[k], len |-> Page!reg_len_of(k)]]
            f == Page!RequestsFrom
<1>1. n \in Nat /\ \A i \in 1 .. n : L[i] \in Nat /\ w[i] \in {1, 2}
  BY DEF Page!Count, Lengths, Page!reg_len, Page!reg_num
<1>2. Chunk \in Nat \ {0}
  BY PageAssumption
<1>3. \A i, j \in 1 .. n : i < j => L[i] < L[j]
  BY DEF Page!Ascending
<1>4. \A k \in 1 .. n : /\ end[k] \in k .. n
                        /\ \A i \in k .. end[k] : L[i] < L[k] + Chunk
                        /\ end[k] < n => L[k] + Chunk <= L[end[k] + 1]
  BY Zenon, ChunkEnds
<1>5. Loop(f, n, next, item)
  BY Zenon, RequestsAreMade
<1>. HIDE DEF L, n, w, f
<1>6. \A k \in 1 .. n + 1 : k > n \/ k \in 1 .. n
  BY <1>1
<1>7. f = [k \in 1 .. n + 1 |->
              IF k > n THEN <<>>
              ELSE <<[addr |-> L[k], len |-> Page!reg_len_of(k)]>> \o f[Page!ChunkEnd(k) + 1]]
  BY Zenon, <1>5, <1>6 DEF Loop
<1>8. ASSUME NEW k \in 1 .. n
       PROVE  Page!reg_len_of(k) = Smaller(L[end[k]] + w[end[k]] - L[k], Chunk)
  <2>. DEFINE e == end[k]
  <2>1. e \in k .. n /\ e \in 1 .. n
    BY <1>1, <1>4
  <2>2. L[k] \in Nat /\ L[e] \in Nat /\ w[e] \in {1, 2} /\ (e = k \/ L[k] < L[e])
    BY <1>1, <1>3, <2>1
  <2>3. Page!reg_len_of(k) = Page!Least(Page!Distance(L[e] + w[e], L[k]), Chunk)
    BY <2>1 DEF Page!reg_len_of, L, w, Lengths, n
  <2>. HIDE DEF e
  <2>4. Page!Distance(L[e] + w[e], L[k]) = L[e] + w[e] - L[k]
    BY <2>2 DEF Page!Distance
  <2>5. Page!reg_len_of(k) = Smaller(L[e] + w[e] - L[k], Chunk)
    BY <2>3, <2>4 DEF Smaller, Page!Least
  <2>. QED  BY Zenon, <2>5 DEF e
<1>9. f = [k \in 1 .. n + 1 |->
              IF k > n THEN <<>>
              ELSE <<[addr |-> L[k], len |-> Smaller(L[end[k]] + w[end[k]] - L[k], Chunk)]>>
                     \o f[end[k] + 1]]
  BY Zenon, <1>6, <1>7, <1>8
<1>. HIDE DEF end
<1>10. \A k \in 1 .. n + 1 : Owed(f[k], k, n, L, w, Chunk)
  BY Zenon, <1>1, <1>2, <1>3, <1>4, <1>9, LoopOwes
<1>11. 1 \in 1 .. n + 1
  BY <1>1
<1>. QED  BY Zenon, <1>10, <1>11 DEF f, n, L, w, Page!Requests

\* One list behind another.
LEMMA ConcatIsSeq ==
  ASSUME NEW s, IsSeq(s), NEW t, IsSeq(t)
  PROVE  IsSeq(s \o t) /\ Len(s \o t) = Len(s) + Len(t)
<1>. DEFINE S == {s[i] : i \in DOMAIN s} \cup {t[i] : i \in DOMAIN t}
<1>1. s \in Seq(S) /\ t \in Seq(S)
  BY DEF IsSeq
<1>. HIDE DEF S
<1>2. s \o t \in Seq(S) /\ Len(s \o t) = Len(s) + Len(t)
  BY <1>1
<1>. QED  BY <1>2, SeqIsSeq

\* What has been put behind a list.
LEMMA PutBehind ==
  ASSUME NEW s, IsSeq(s), NEW t, IsSeq(t)
  PROVE  SubSeq(s \o t, Len(s) + 1, Len(s \o t)) = t
<1>. DEFINE S == {s[i] : i \in DOMAIN s} \cup {t[i] : i \in DOMAIN t}
            u == s \o t
            r == SubSeq(u, Len(s) + 1, Len(u))
<1>1. s \in Seq(S) /\ t \in Seq(S) /\ Len(s) \in Nat /\ Len(t) \in Nat
  BY DEF IsSeq
<1>. HIDE DEF S
<1>2. u \in Seq(S) /\ Len(u) = Len(s) + Len(t) /\ \A i \in 1 .. Len(t) : u[Len(s) + i] = t[i]
  BY <1>1
<1>. HIDE DEF u
<1>3. r \in Seq(S) /\ Len(r) = Len(t) /\ \A i \in 1 .. Len(t) : r[i] = u[Len(s) + i]
  BY <1>1, <1>2
<1>. HIDE DEF r
<1>4. r = t
  BY <1>1, <1>2, <1>3
<1>. QED  BY <1>4 DEF r, u

\* The inductive invariant of the page's part: the page keeps its objects, and
\* the requests under way are a list.
PInv ==
  part = "page" =>
    /\ Page!reg_info_list \in Seq(Nat)
    /\ line = [reads |-> line.reads, writes |-> line.writes, answers |-> line.answers]
    /\ IsSeq(line.reads)

LEMMA InitEstablishesPInv == PartsInit => PInv
<1>. SUFFICES ASSUME Page!Init
              PROVE  PInv
  BY DEF PartsInit, PInv
<1>1. Page!reg_info_list \in Seq(Nat)
  <2>1. Page!reg_info_list \in Seq(DOMAIN Page!ObjMap)
    BY Zenon, PageAssumption DEF Page!Init, Page!reg_info_list
  <2>2. DOMAIN Page!ObjMap \subseteq Nat
    BY Zenon, PageAssumption
  <2>. QED  BY Zenon, <2>1, <2>2, SeqOfMore
<1>2. line = [reads |-> <<>>, writes |-> <<>>, answers |-> <<>>]
  BY DEF Page!Init
<1>. QED  BY Zenon, <1>1, <1>2, EmptyIsSeq DEF PInv

\* What a time-out, and opening the page, do to the requests under way.
LEMMA TimeoutAsks ==
  ASSUME NEW timer, NEW index, Page!slot_auto_read_timeout(timer, index)
  PROVE  line' = line \/ line' = [line EXCEPT !.reads = @ \o Page!Requests]
BY DEF Page!slot_auto_read_timeout

\* Each step leaves the requests, takes the first, or puts some behind them.
LEMMA RequestsUnderWay ==
  ASSUME Page!Next, IsSeq(line.reads),
         line = [reads |-> line.reads, writes |-> line.writes, answers |-> line.answers]
  PROVE  /\ made' = made
         /\ line' = [reads |-> line'.reads, writes |-> line'.writes, answers |-> line'.answers]
         /\ \/ line'.reads = line.reads
            \/ line.reads # <<>> /\ line'.reads = Tail(line.reads)
            \/ line'.reads = line.reads \o Page!Requests
            \/ \E q : line'.reads = Append(line.reads, q)
<1>. DEFINE Goal == /\ line' = [reads |-> line'.reads, writes |-> line'.writes, answers |-> line'.answers]
                    /\ \/ line'.reads = line.reads
                       \/ line.reads # <<>> /\ line'.reads = Tail(line.reads)
                       \/ line'.reads = line.reads \o Page!Requests
                       \/ \E q : line'.reads = Append(line.reads, q)
<1>1. made' = made
  BY Zenon DEF Page!Next, Page!AutoReadTimeout, Page!showEvent, Page!hideEvent,
       Page!on_checkBox_stateChanged, Page!on_updatePeriodSpinBox_valueChanged,
       Page!on_autoReadCheckBox_stateChanged, Page!RowClicked, Page!on_readAllBtn_clicked,
       Page!on_writeAllBtn_clicked, Page!slot_read_timeout, Page!slot_write_timeout,
       Page!Received, Page!Bus, Page!NodeReads, Page!NodeWrites, Page!Disturbance
<1>. SUFFICES Goal
  BY Zenon, <1>1
<1>2. ASSUME line' = line
      PROVE  Goal
  BY Zenon, <1>2
<1>3. ASSUME line' = [line EXCEPT !.reads = @ \o Page!Requests]
      PROVE  Goal
  BY <1>3
<1>4. ASSUME NEW q, line' = [line EXCEPT !.reads = Append(@, q)]
      PROVE  Goal
  <2>1. line' = [reads |-> Append(line.reads, q), writes |-> line.writes, answers |-> line.answers]
    BY <1>4
  <2>. QED  BY Zenon, <2>1
<1>5. ASSUME NEW q, line' = [line EXCEPT !.writes = q]
      PROVE  Goal
  BY <1>5
<1>6. ASSUME NEW q, line' = [line EXCEPT !.answers = q]
      PROVE  Goal
  BY <1>6
<1>7. ASSUME NEW q, line' = [line EXCEPT !.writes = Tail(@), !.answers = q]
      PROVE  Goal
  BY <1>7
<1>8. ASSUME line.reads # <<>>, NEW q, line' = [line EXCEPT !.reads = Tail(@), !.answers = q]
      PROVE  Goal
  BY <1>8
<1>9. ASSUME line.reads # <<>>, line' = [line EXCEPT !.reads = Tail(@)]
      PROVE  Goal
  BY <1>9
<1>. HIDE DEF Goal
<1>10. \A a : Page!ReadRow(a) => Goal
  BY Zenon, <1>4 DEF Page!ReadRow
<1>11. \A a, v : Page!WriteRow(a, v) => Goal
  BY Zenon, <1>2, <1>5 DEF Page!WriteRow
<1>12. CASE Page!AutoReadTimeout \/ Page!showEvent
  BY Zenon, <1>2, <1>3, <1>12, TimeoutAsks DEF Page!AutoReadTimeout, Page!showEvent
<1>13. CASE Page!RowClicked \/ Page!slot_read_timeout \/ Page!slot_write_timeout
  BY Zenon, <1>2, <1>10, <1>11, <1>13
     DEF Page!RowClicked, Page!slot_read_timeout, Page!slot_write_timeout
<1>14. CASE Page!Received \/ Page!NodeReads \/ Page!NodeWrites
  BY Zenon, <1>6, <1>7, <1>8, <1>14 DEF Page!Received, Page!NodeReads, Page!NodeWrites
<1>15. CASE Page!Disturbance
  BY Zenon, <1>5, <1>6, <1>9, <1>15 DEF Page!Disturbance
<1>16. CASE \/ Page!hideEvent \/ Page!on_checkBox_stateChanged
            \/ Page!on_updatePeriodSpinBox_valueChanged \/ Page!on_autoReadCheckBox_stateChanged
            \/ Page!on_readAllBtn_clicked \/ Page!on_writeAllBtn_clicked
  BY Zenon, <1>2, <1>16
     DEF Page!hideEvent, Page!on_checkBox_stateChanged,
         Page!on_updatePeriodSpinBox_valueChanged, Page!on_autoReadCheckBox_stateChanged,
         Page!on_readAllBtn_clicked, Page!on_writeAllBtn_clicked
<1>. QED  BY Zenon, <1>12, <1>13, <1>14, <1>15, <1>16 DEF Page!Next, Page!Bus

LEMMA StepPreservesPInv == PInv /\ [PartsNext]_vars => PInv'
<1>. SUFFICES ASSUME PInv, [PartsNext]_vars, part' = "page"
              PROVE  PInv'
  BY DEF PInv
<1>1. part' = part
  BY DEF PartsNext, vars
<1>2. CASE UNCHANGED <<made, line>>
  BY <1>1, <1>2 DEF PInv, Page!reg_info_list
<1>3. CASE Page!Next
  <2>1. /\ Page!reg_info_list \in Seq(Nat) /\ IsSeq(line.reads)
        /\ line = [reads |-> line.reads, writes |-> line.writes, answers |-> line.answers]
    BY Zenon, <1>1 DEF PInv
  <2>2. IsSeq(Page!Requests)
    BY Zenon, <2>1, RequestsAreMade
  <2>3. /\ made' = made
        /\ line' = [reads |-> line'.reads, writes |-> line'.writes, answers |-> line'.answers]
        /\ \/ line'.reads = line.reads
           \/ line.reads # <<>> /\ line'.reads = Tail(line.reads)
           \/ line'.reads = line.reads \o Page!Requests
           \/ \E q : line'.reads = Append(line.reads, q)
    BY Zenon, <1>3, <2>1, RequestsUnderWay
  <2>4. IsSeq(line'.reads)
    BY Zenon, <2>1, <2>2, <2>3, TailIsSeq, AppendIsSeq, ConcatIsSeq
  <2>5. Page!reg_info_list' = Page!reg_info_list
    BY Zenon, <2>3 DEF Page!reg_info_list
  <2>. QED  BY Zenon, <2>1, <2>3, <2>4, <2>5 DEF PInv, IsSeq
<1>4. CASE UNCHANGED vars
  BY <1>2, <1>4 DEF vars, pageVars
<1>. QED  BY <1>1, <1>2, <1>3, <1>4 DEF PartsNext, pageVars

\* However the addresses of a page that lists them in order lie, for every size
\* of a request, one time-out asks for every object as a whole, unless it lies
\* across the end of a chunk, in requests that the node accepts and of which no
\* two ask for the same (pagewidgetscollect.cpp, slot_auto_read_timeout).
THEOREM BurstsCoverAll == PartsSpec => BurstCovers
<1>1. PInv /\ [PartsNext]_vars => [part = "page" => Page!Covered]_vars
  <2>. SUFFICES ASSUME PInv, PartsNext, part = "page", Page!Ascending,
                       Len(line'.reads) > Len(line.reads),
                       Page!AutoReadTimeout \/ Page!showEvent
                PROVE  LET asked == SubSeq(line'.reads, Len(line.reads) + 1, Len(line'.reads))
                           L == Page!reg_info_list
                       IN  /\ \A i \in 1 .. Page!Count : L[i] \notin Page!Cut =>
                                \E k \in DOMAIN asked :
                                  /\ asked[k].addr <= L[i]
                                  /\ L[i] + Page!reg_len(L[i]) <= asked[k].addr + asked[k].len
                           /\ \A k \in DOMAIN asked : asked[k].len \in 1 .. Chunk
                           /\ \A k, l \in DOMAIN asked :
                                k < l => asked[k].addr + asked[k].len <= asked[l].addr
    BY DEF Page!Covered
  <2>. DEFINE L == Page!reg_info_list
              n == Page!Count
              w == Lengths
              asked == Page!Requests
  <2>1. /\ L \in Seq(Nat) /\ IsSeq(line.reads)
        /\ line = [reads |-> line.reads, writes |-> line.writes, answers |-> line.answers]
    BY Zenon DEF PInv
  <2>2. IsSeq(asked) /\ Owed(asked, 1, n, L, w, Chunk)
    BY Zenon, <2>1, RequestsAreMade, BurstOwes
  <2>3. Len(line.reads) \in Nat
    BY Zenon, <2>1, EmptyByLength
  <2>4. line' # line
    BY <2>3
  <2>5. line' = [line EXCEPT !.reads = @ \o asked]
    BY Zenon, <2>4, TimeoutAsks DEF Page!AutoReadTimeout, Page!showEvent
  <2>6. line'.reads = line.reads \o asked
    BY <2>1, <2>5
  <2>7. SubSeq(line'.reads, Len(line.reads) + 1, Len(line'.reads)) = asked
    BY Zenon, <2>1, <2>2, <2>6, PutBehind
  <2>8. n \in Nat /\ Chunk \in Nat \ {0} /\ DOMAIN asked = 1 .. Len(asked)
    BY <2>1, <2>2, PageAssumption DEF Page!Count, IsSeq
  <2>9. \A i \in 1 .. n : /\ L[i] \in Nat /\ L[i] \in Page!ToSet(L)
                          /\ w[i] = Page!reg_len(L[i]) /\ w[i] \in {1, 2}
    BY <2>1 DEF Page!Count, Page!ToSet, Lengths, Page!reg_len, Page!reg_num
  <2>. HIDE DEF asked
  <2>10. asked \in Seq([addr : Nat, len : 1 .. Chunk])
    BY Zenon, <2>2 DEF Owed
  <2>11. \A k \in 1 .. Len(asked) : asked[k].addr \in Nat /\ asked[k].len \in 1 .. Chunk
    <3>. DEFINE Req == [addr : Nat, len : 1 .. Chunk]
    <3>1. \A x \in Req : x.addr \in Nat /\ x.len \in 1 .. Chunk
      OBVIOUS
    <3>. HIDE DEF Req
    <3>2. asked \in Seq(Req)
      BY Zenon, <2>10 DEF Req
    <3>3. \A k \in 1 .. Len(asked) : asked[k] \in Req
      BY <3>2
    <3>. QED  BY Zenon, <3>1, <3>3
  <2>12. ASSUME NEW i \in 1 .. n, L[i] \notin Page!Cut
         PROVE  \E k \in 1 .. Len(asked) :
                  /\ asked[k].addr <= L[i]
                  /\ L[i] + Page!reg_len(L[i]) <= asked[k].addr + asked[k].len
    <3>1. i \in 1 .. n
      OBVIOUS
    <3>2. PICK k \in 1 .. Len(asked) :
            /\ asked[k].addr <= L[i] /\ L[i] < asked[k].addr + Chunk
            /\ L[i] + w[i] <= asked[k].addr + Chunk => L[i] + w[i] <= asked[k].addr + asked[k].len
      BY Zenon, <2>2, <3>1 DEF Owed
    <3>. DEFINE begin == asked[k].addr
    <3>3. begin \in Nat
      BY Zenon, <2>11
    <3>4. ~ (/\ L[i] \in begin .. begin + Chunk - 1
             /\ L[i] + Page!reg_len(L[i]) > begin + Chunk)
      BY Zenon, <2>8, <2>9, <2>12 DEF asked, Page!Cut
    <3>. HIDE DEF L, begin
    <3>5. L[i] \in begin .. begin + Chunk - 1
      BY <2>8, <2>9, <3>2, <3>3 DEF begin
    <3>6. L[i] + w[i] <= begin + Chunk
      BY <2>8, <2>9, <3>3, <3>4, <3>5
    <3>. QED  BY Zenon, <2>9, <3>2, <3>6 DEF begin
  <2>13. \A k, l \in 1 .. Len(asked) : k < l => asked[k].addr + asked[k].len <= asked[l].addr
    BY Zenon, <2>2 DEF Owed
  <2>. QED  BY Zenon, <2>7, <2>8, <2>11, <2>12, <2>13
<1>. QED  BY <1>1, InitEstablishesPInv, StepPreservesPInv, PTL DEF PartsSpec, BurstCovers

-----------------------------------------------------------------------------
(* RegisterPage: what is written comes back. *)

\* Quotient and remainder.
LEMMA DivMod ==
  ASSUME NEW v \in Int, NEW W \in Nat \ {0}
  PROVE  v \div W \in Int /\ v % W \in 0 .. W - 1 /\ v = W * (v \div W) + (v % W)
OBVIOUS

\* How far multiples lie apart.
LEMMA Far ==
  ASSUME NEW q \in Int, NEW W \in Nat \ {0}, NEW b \in Int
  PROVE  W * q \in Int /\ (q >= b => W * q >= W * b) /\ (q <= b => W * q <= W * b)
<1>1. W * q \in Int /\ W * b \in Int /\ W * (q - b) = W * q - W * b
  OBVIOUS
<1>2. q - b >= 0 => W * (q - b) >= 0
  OBVIOUS
<1>3. q - b <= 0 => W * (q - b) <= 0
  OBVIOUS
<1>. QED  BY <1>1, <1>2, <1>3

\* What a register takes of a number that it has the room for.
LEMMA OneWord ==
  ASSUME NEW W \in Nat \ {0}, NEW v \in - W .. W - 1
  PROVE  v % W = IF v < 0 THEN v + W ELSE v
<1>. DEFINE q == v \div W
            r == v % W
            p == W * q
<1>1. q \in Int /\ r \in 0 .. W - 1 /\ v = p + r
  BY DivMod
<1>. HIDE DEF q, r
<1>2. /\ p \in Int /\ (q >= 1 => p >= W * 1) /\ (q <= -2 => p <= W * (-2))
  BY <1>1, Far
<1>3. q = 0 \/ q = -1 \/ q >= 1 \/ q <= -2
  BY <1>1
<1>4. W * 1 = W /\ W * (-2) = - (2 * W)
  OBVIOUS
<1>5. (q = 0 => p = 0) /\ (q = -1 => p = - W)
  OBVIOUS
<1>. HIDE DEF p
<1>6. r = IF v < 0 THEN v + W ELSE v
  BY <1>1, <1>2, <1>3, <1>4, <1>5
<1>. QED  BY <1>6 DEF r

\* Two registers, the low one first, make the number up again.
LEMMA TwoWords ==
  ASSUME NEW W \in Nat \ {0}, NEW v \in - (W * W) .. W * W - 1
  PROVE  (v % W) + W * ((v \div W) % W) = IF v < 0 THEN v + W * W ELSE v
<1>. DEFINE q == v \div W
            r == v % W
            p == W * q
            S == W * W
<1>1. q \in Int /\ r \in 0 .. W - 1 /\ v = p + r
  BY DivMod
<1>2. S \in Nat /\ v \in Int /\ - S <= v /\ v < S
  OBVIOUS
<1>. HIDE DEF q, r
<1>3. /\ p \in Int /\ (q >= W => p >= S) /\ (q <= - W - 1 => p <= W * (- W - 1))
      /\ (q >= 0 => p >= W * 0) /\ (q <= -1 => p <= W * (-1))
  BY <1>1, Far
<1>4. W * (- W - 1) = - S - W /\ W * 0 = 0 /\ W * (-1) = - W
  OBVIOUS
<1>. HIDE DEF p, S
<1>5. q \in - W .. W - 1 /\ (v < 0 <=> q < 0)
  BY <1>1, <1>2, <1>3, <1>4
<1>6. q % W = IF q < 0 THEN q + W ELSE q
  BY <1>5, OneWord
<1>7. W * (q + W) = p + S
  BY <1>1 DEF p, S
<1>8. W * (q % W) = IF q < 0 THEN p + S ELSE p
  <2>1. CASE q < 0
    BY <1>6, <1>7, <2>1
  <2>2. CASE ~(q < 0)
    BY <1>6, <2>2 DEF p
  <2>. QED  BY <2>1, <2>2
<1>9. r + (IF q < 0 THEN p + S ELSE p) = IF v < 0 THEN v + S ELSE v
  BY <1>1, <1>2, <1>3, <1>5
<1>. QED  BY <1>8, <1>9 DEF q, r, S

\* The sign of a number comes back.
LEMMA SignReturns ==
  ASSUME NEW S \in Nat \ {0}, NEW v \in - (S \div 2) .. S \div 2 - 1
  PROVE  /\ v \in - S .. S - 1
         /\ Page!Signed(IF v < 0 THEN v + S ELSE v, S) = v
<1>1. S \div 2 \in Nat /\ 2 * (S \div 2) <= S /\ S <= 2 * (S \div 2) + 1
  OBVIOUS
<1>. DEFINE h == S \div 2
<1>. HIDE DEF h
<1>2. v \in - h .. h - 1 /\ h \in Nat /\ 2 * h <= S /\ S <= 2 * h + 1
  BY <1>1 DEF h
<1>. QED  BY <1>2 DEF Page!Signed

\* What is written to an object is taken for the number that was entered
\* (dataobj.cpp, slot_request_write_reg and slot_read_finish).
LEMMA NumberReturns ==
  ASSUME NEW a \in Nat, NEW v \in Page!Limits(Page!obj_map[a].type), WordSize \in Nat \ {0}
  PROVE  Page!slot_read_finish(a, Page!Raw([addr |-> a, words |-> Page!slot_request_write_reg(a, v)], a)) = v
<1>. DEFINE t == Page!obj_map[a].type
            W == WordSize
            w == Page!slot_request_write_reg(a, v)
            raw == Page!Raw([addr |-> a, words |-> w], a)
            S == W * W
<1>1. CASE Page!reg_len(a) = 1
  <2>1. w = <<v % W>>
    BY <1>1 DEF Page!slot_request_write_reg
  <2>. HIDE DEF w
  <2>2. Len(w) = 1 /\ w[1] = v % W
    BY <2>1
  <2>3. a \in a .. a + Len(w) - 1 /\ a - a + 1 = 1
    BY <2>2
  <2>4. raw = v % W
    BY Zenon, <1>1, <2>2, <2>3 DEF Page!Raw
  <2>. HIDE DEF raw
  <2>5. t \notin {"uint32_t", "int32_t"} /\ Page!reg_num(t) = 1
    BY <1>1 DEF Page!reg_len, Page!reg_num
  <2>6. CASE t = "int16_t"
    <3>1. v \in - (W \div 2) .. W \div 2 - 1
      BY <2>5, <2>6 DEF Page!Limits
    <3>2. v \in - W .. W - 1 /\ Page!Signed(IF v < 0 THEN v + W ELSE v, W) = v
      BY <3>1, SignReturns
    <3>3. v % W = IF v < 0 THEN v + W ELSE v
      BY <3>2, OneWord
    <3>4. v \in Int /\ v % W \in 0 .. W - 1
      BY <3>2, DivMod
    <3>. DEFINE r == v % W
    <3>. HIDE DEF r
    <3>5. r \in - W .. W - 1 /\ ~(r < 0)
      BY <3>4 DEF r
    <3>6. r % W = r
      BY <3>5, OneWord
    <3>7. Page!slot_read_finish(a, raw) = Page!Signed(raw % W, W)
      BY <2>6 DEF Page!slot_read_finish
    <3>8. Page!slot_read_finish(a, raw) = v
      BY Zenon, <2>4, <3>2, <3>3, <3>6, <3>7 DEF r
    <3>. QED  BY Zenon, <3>8 DEF raw, w
  <2>7. CASE t # "int16_t"
    <3>1. v \in 0 .. W - 1
      BY <2>5, <2>7 DEF Page!Limits
    <3>2. v \in - W .. W - 1 /\ ~(v < 0)
      BY <3>1
    <3>3. v % W = v
      BY <3>2, OneWord
    <3>4. Page!slot_read_finish(a, raw) = raw % W
      BY <2>5, <2>7 DEF Page!slot_read_finish
    <3>. QED  BY Zenon, <2>4, <3>3, <3>4 DEF raw, w
  <2>. QED  BY <2>6, <2>7
<1>2. CASE Page!reg_len(a) # 1
  <2>1. w = <<v % W, (v \div W) % W>>
    BY <1>2 DEF Page!slot_request_write_reg
  <2>. HIDE DEF w
  <2>2. Len(w) = 2 /\ w[1] = v % W /\ w[2] = (v \div W) % W
    BY <2>1
  <2>3. /\ a \in a .. a + Len(w) - 1 /\ a - a + 1 = 1
        /\ a + 1 \in a .. a + Len(w) - 1 /\ a + 1 - a + 1 = 2
    BY <2>2
  <2>4. raw = w[1] + W * w[2]
    BY <1>2, <2>3 DEF Page!Raw
  <2>. HIDE DEF raw
  <2>5. t \in {"uint32_t", "int32_t"} /\ Page!reg_num(t) = 2
    BY <1>2 DEF Page!reg_len, Page!reg_num
  <2>6. S \in Nat \ {0}
    BY DEF S
  <2>7. CASE t = "int32_t"
    <3>1. v \in - (S \div 2) .. S \div 2 - 1
      BY <2>5, <2>7 DEF Page!Limits
    <3>. HIDE DEF S
    <3>2. v \in - S .. S - 1 /\ Page!Signed(IF v < 0 THEN v + S ELSE v, S) = v
      BY <2>6, <3>1, SignReturns
    <3>3. raw = IF v < 0 THEN v + S ELSE v
      BY Zenon, <2>2, <2>4, <3>2, TwoWords DEF S
    <3>4. Page!slot_read_finish(a, raw) = Page!Signed(raw, S)
      BY <2>7 DEF Page!slot_read_finish, S
    <3>. QED  BY Zenon, <3>2, <3>3, <3>4 DEF raw, w
  <2>8. CASE t = "uint32_t"
    <3>1. v \in 0 .. S - 1
      BY <2>5, <2>8 DEF Page!Limits
    <3>. HIDE DEF S
    <3>2. v \in - S .. S - 1 /\ ~(v < 0)
      BY <2>6, <3>1
    <3>3. raw = v
      BY Zenon, <2>2, <2>4, <3>2, TwoWords DEF S
    <3>4. Page!slot_read_finish(a, raw) = raw
      BY <2>8 DEF Page!slot_read_finish
    <3>. QED  BY Zenon, <3>3, <3>4 DEF raw, w
  <2>. QED  BY <2>5, <2>7, <2>8
<1>. QED  BY <1>1, <1>2

\* The objects, those of the rows, and the registers that objects have.
Objs == DOMAIN Page!obj_map
Ins == Page!ToSet(Page!ins_list)
Registered == UNION {a .. a + Page!reg_len(a) - 1 : a \in Objs}

\* What is written to an object.
Order(a) == [addr |-> a, words |-> Page!slot_request_write_reg(a, Entered[a])]

\* The number that registers nd hold of an object, and whether they hold what is
\* written to it.
HeldIn(nd, a) ==
  Page!slot_read_finish(a,
    Page!Raw([addr |-> a, words |-> [i \in 1 .. Page!reg_len(a) |-> nd[a + i - 1]]], a))
HoldsOrder(nd, a) == \A i \in 1 .. Page!reg_len(a) : nd[a + i - 1] = Order(a).words[i]

\* An answer tells what the registers hold of an object.
Tells(nd, ans, a) ==
  \A r \in a .. a + Page!reg_len(a) - 1 :
    /\ r \in ans.addr .. ans.addr + Len(ans.words) - 1
    /\ ans.words[r - ans.addr + 1] = nd[r]

\* Among the answers s, from the i-th on, there is one to a write of an object.
AckedFrom(s, i, a) == \E j \in i .. Len(s) : s[j].written /\ s[j].addr = a

\* A request asks for whole objects.
AsksWhole(q) ==
  /\ q.addr \in Nat /\ q.len \in Nat
  /\ \A a \in Ins \ Page!Cut :
       a \in q.addr .. q.addr + q.len - 1 => a + Page!reg_len(a) <= q.addr + q.len

\* The i-th of the answers s tells what the registers nd hold, unless something
\* has been written since, the answer to which comes later.
AnswerTrue(s, i, nd) ==
  ~ s[i].written =>
    /\ s[i].addr \in Nat /\ IsSeq(s[i].words)
    /\ \A a \in Ins \ Page!Cut :
         a \in s[i].addr .. s[i].addr + Len(s[i].words) - 1 =>
           Tells(nd, s[i], a) \/ AckedFrom(s, i + 1, a)

\* What has been written to an object is in the registers or under way; a row
\* that says it has been read shows what they hold, or is about to be told that
\* it has been written.
RowTrue(row, w, s, nd, a) ==
  /\ row = [value |-> row.value, text |-> row.text, sent |-> row.sent]
  /\ row.sent # {} => /\ a \in Ins /\ row.sent = {Entered[a]}
                      /\ HoldsOrder(nd, a) \/ \E i \in 1 .. Len(w) : w[i].addr = a
  /\ row.text = "read" /\ a \notin Page!Cut =>
       row.value = HeldIn(nd, a) \/ AckedFrom(s, 1, a)

AllTrue(sh, ln, nd) ==
  /\ ln = [reads |-> ln.reads, writes |-> ln.writes, answers |-> ln.answers]
  /\ IsSeq(ln.reads) /\ IsSeq(ln.writes) /\ IsSeq(ln.answers)
  /\ \A i \in 1 .. Len(ln.reads) : AsksWhole(ln.reads[i])
  /\ \A i \in 1 .. Len(ln.writes) : ln.writes[i] \in {Order(a) : a \in Ins}
  /\ \A i \in 1 .. Len(ln.answers) : AnswerTrue(ln.answers, i, nd)
  /\ DOMAIN sh = Objs /\ \A a \in Objs : RowTrue(sh[a], ln.writes, ln.answers, nd, a)
  /\ DOMAIN nd = Registered

\* The page has objects at addresses, shows some and lists some of these.
Laid ==
  /\ Objs \subseteq Nat
  /\ Page!reg_info_list \in Seq(Nat)
  /\ Ins \subseteq Page!ToSet(Page!reg_info_list)
  /\ Page!ToSet(Page!reg_info_list) \subseteq Objs
  /\ \A a \in Ins : Entered[a] \in Page!Limits(Page!obj_map[a].type)

\* Places in a list after it has got longer or shorter.
LEMMA AppendPlaces ==
  ASSUME NEW s, IsSeq(s), NEW e
  PROVE  /\ Len(Append(s, e)) = Len(s) + 1 /\ Len(s) \in Nat
         /\ \A i \in 1 .. Len(s) : Append(s, e)[i] = s[i]
         /\ Append(s, e)[Len(s) + 1] = e
<1>. DEFINE S == {s[i] : i \in DOMAIN s} \cup {e}
<1>1. s \in Seq(S) /\ e \in S
  BY DEF IsSeq
<1>. HIDE DEF S
<1>. QED  BY <1>1

\* The same when the first is taken.
LEMMA TailPlaces ==
  ASSUME NEW s, IsSeq(s), s # <<>>
  PROVE  /\ Len(Tail(s)) = Len(s) - 1 /\ Len(s) \in Nat \ {0}
         /\ Head(s) = s[1]
         /\ \A i \in 1 .. Len(Tail(s)) : Tail(s)[i] = s[i + 1]
<1>. DEFINE S == {s[i] : i \in DOMAIN s}
<1>1. s \in Seq(S)
  BY DEF IsSeq
<1>. HIDE DEF S
<1>. QED  BY <1>1

\* And when another list is put behind.
LEMMA ConcatPlaces ==
  ASSUME NEW s, IsSeq(s), NEW t, IsSeq(t)
  PROVE  /\ Len(s \o t) = Len(s) + Len(t) /\ Len(s) \in Nat /\ Len(t) \in Nat
         /\ \A i \in 1 .. Len(s) : (s \o t)[i] = s[i]
         /\ \A i \in 1 .. Len(s) + Len(t) :
              i \notin 1 .. Len(s) => i - Len(s) \in 1 .. Len(t) /\ (s \o t)[i] = t[i - Len(s)]
<1>. DEFINE S == {s[i] : i \in DOMAIN s} \cup {t[i] : i \in DOMAIN t}
<1>1. s \in Seq(S) /\ t \in Seq(S)
  BY DEF IsSeq
<1>. HIDE DEF S
<1>. QED  BY <1>1

\* An answer that is under way stays so when one more comes behind it.
LEMMA AckedStays ==
  ASSUME NEW s, IsSeq(s), NEW e, NEW i \in Nat \ {0}, NEW a, AckedFrom(s, i, a)
  PROVE  AckedFrom(Append(s, e), i, a)
<1>1. PICK j \in i .. Len(s) : s[j].written /\ s[j].addr = a
  BY DEF AckedFrom
<1>2. j \in 1 .. Len(s) /\ j \in i .. Len(Append(s, e))
  BY AppendPlaces
<1>3. Append(s, e)[j] = s[j]
  BY <1>2, AppendPlaces
<1>. QED  BY Zenon, <1>1, <1>2, <1>3 DEF AckedFrom

\* The one that comes behind may be it.
LEMMA AckedNow ==
  ASSUME NEW s, IsSeq(s), NEW e, NEW i \in 1 .. Len(s) + 1, e.written
  PROVE  AckedFrom(Append(s, e), i, e.addr)
<1>1. Len(s) + 1 \in i .. Len(Append(s, e)) /\ Append(s, e)[Len(s) + 1] = e
  BY AppendPlaces
<1>. QED  BY Zenon, <1>1 DEF AckedFrom

\* It moves up when the first one is taken.
LEMMA AckedMoves ==
  ASSUME NEW s, IsSeq(s), s # <<>>, NEW i \in Nat \ {0}, NEW a, AckedFrom(s, i + 1, a)
  PROVE  AckedFrom(Tail(s), i, a)
<1>1. PICK j \in i + 1 .. Len(s) : s[j].written /\ s[j].addr = a
  BY DEF AckedFrom
<1>2. j - 1 \in i .. Len(Tail(s)) /\ j - 1 \in 1 .. Len(Tail(s)) /\ j - 1 + 1 = j
  BY TailPlaces
<1>3. Tail(s)[j - 1] = s[j - 1 + 1]
  BY Zenon, <1>2, TailPlaces
<1>. QED  BY Zenon, <1>1, <1>2, <1>3 DEF AckedFrom

\* The first answer is to no write of the object: it is to be looked for behind.
LEMMA AckedBehind ==
  ASSUME NEW s, IsSeq(s), s # <<>>, NEW a, AckedFrom(s, 1, a), ~ (s[1].written /\ s[1].addr = a)
  PROVE  AckedFrom(Tail(s), 1, a)
<1>1. PICK j \in 1 .. Len(s) : s[j].written /\ s[j].addr = a
  BY DEF AckedFrom
<1>2. j # 1
  BY <1>1
<1>3. j \in 1 + 1 .. Len(s)
  BY <1>2
<1>4. AckedFrom(s, 1 + 1, a)
  BY Zenon, <1>1, <1>3 DEF AckedFrom
<1>. QED  BY <1>4, AckedMoves

\* What is asked for behind what is asked for already.
LEMMA MoreReads ==
  ASSUME NEW sh, NEW ln, NEW nd, AllTrue(sh, ln, nd), NEW t, IsSeq(t),
         \A i \in 1 .. Len(t) : AsksWhole(t[i]),
         NEW ln2, ln2 = [ln EXCEPT !.reads = @ \o t]
  PROVE  AllTrue(sh, ln2, nd)
<1>. DEFINE s == ln.reads
<1>1. /\ ln = [reads |-> ln.reads, writes |-> ln.writes, answers |-> ln.answers]
      /\ IsSeq(s) /\ \A i \in 1 .. Len(s) : AsksWhole(s[i])
  BY Zenon DEF AllTrue
<1>2. /\ ln2 = [reads |-> s \o t, writes |-> ln.writes, answers |-> ln.answers]
      /\ ln2.reads = s \o t /\ ln2.writes = ln.writes /\ ln2.answers = ln.answers
  <2>1. ln = [reads |-> ln.reads, writes |-> ln.writes, answers |-> ln.answers]
    BY Zenon, <1>1
  <2>. QED  BY <2>1
<1>3. IsSeq(s \o t)
  BY <1>1, ConcatIsSeq
<1>4. ASSUME NEW i \in 1 .. Len(s \o t)
      PROVE  AsksWhole((s \o t)[i])
  <2>1. CASE i \in 1 .. Len(s)
    BY Zenon, <1>1, <2>1, ConcatPlaces
  <2>2. CASE i \notin 1 .. Len(s)
    <3>1. i \in 1 .. Len(s) + Len(t)
      BY Zenon, <1>1, ConcatPlaces
    <3>. QED  BY Zenon, <1>1, <2>2, <3>1, ConcatPlaces
  <2>. QED  BY <2>1, <2>2
<1>. QED
  BY Zenon, <1>2, <1>3, <1>4 DEF AllTrue

\* One request behind those that are under way.
LEMMA OneMoreRead ==
  ASSUME NEW sh, NEW ln, NEW nd, AllTrue(sh, ln, nd), NEW q, AsksWhole(q),
         NEW ln2, ln2 = [ln EXCEPT !.reads = Append(@, q)]
  PROVE  AllTrue(sh, ln2, nd)
<1>. DEFINE s == ln.reads
<1>1. /\ ln = [reads |-> ln.reads, writes |-> ln.writes, answers |-> ln.answers]
      /\ IsSeq(s) /\ \A i \in 1 .. Len(s) : AsksWhole(s[i])
  BY Zenon DEF AllTrue
<1>2. /\ ln2 = [reads |-> Append(s, q), writes |-> ln.writes, answers |-> ln.answers]
      /\ ln2.reads = Append(s, q) /\ ln2.writes = ln.writes /\ ln2.answers = ln.answers
  <2>1. ln = [reads |-> ln.reads, writes |-> ln.writes, answers |-> ln.answers]
    BY Zenon, <1>1
  <2>. QED  BY <2>1
<1>3. IsSeq(Append(s, q))
  BY <1>1, AppendIsSeq
<1>4. ASSUME NEW i \in 1 .. Len(Append(s, q))
      PROVE  AsksWhole(Append(s, q)[i])
  <2>1. Len(Append(s, q)) = Len(s) + 1 /\ Len(s) \in Nat
    BY Zenon, <1>1, AppendPlaces
  <2>2. i \in 1 .. Len(s) \/ i = Len(s) + 1
    <3>. DEFINE n == Len(Append(s, q))
    <3>1. i \in 1 .. n /\ n = Len(s) + 1
      BY <2>1
    <3>. HIDE DEF n
    <3>. QED  BY <2>1, <3>1
  <2>3. (\A j \in 1 .. Len(s) : Append(s, q)[j] = s[j]) /\ Append(s, q)[Len(s) + 1] = q
    BY Zenon, <1>1, AppendPlaces
  <2>4. CASE i \in 1 .. Len(s)
    BY Zenon, <1>1, <2>3, <2>4
  <2>5. CASE i = Len(s) + 1
    BY Zenon, <2>3, <2>5
  <2>. QED  BY <2>2, <2>4, <2>5
<1>. QED
  BY Zenon, <1>2, <1>3, <1>4 DEF AllTrue

\* One row becomes another of which the same is true.
LEMMA RowChanges ==
  ASSUME NEW sh, NEW ln, NEW nd, AllTrue(sh, ln, nd), NEW a \in Objs, NEW row,
         RowTrue(row, ln.writes, ln.answers, nd, a),
         NEW sh2, sh2 = [sh EXCEPT ![a] = row]
  PROVE  AllTrue(sh2, ln, nd)
<1>1. DOMAIN sh = Objs /\ \A b \in Objs : RowTrue(sh[b], ln.writes, ln.answers, nd, b)
  BY Zenon DEF AllTrue
<1>2. DOMAIN sh2 = Objs /\ \A b \in Objs : sh2[b] = IF b = a THEN row ELSE sh[b]
  BY <1>1
<1>3. \A b \in Objs : RowTrue(sh2[b], ln.writes, ln.answers, nd, b)
  BY Zenon, <1>1, <1>2
<1>. QED  BY Zenon, <1>2, <1>3 DEF AllTrue, RowTrue

\* What is known of one row.
LEMMA RowAt ==
  ASSUME NEW sh, NEW ln, NEW nd, AllTrue(sh, ln, nd), NEW a \in Objs
  PROVE  /\ RowTrue(sh[a], ln.writes, ln.answers, nd, a)
         /\ DOMAIN sh = Objs
         /\ sh[a] = [value |-> sh[a].value, text |-> sh[a].text, sent |-> sh[a].sent]
<1>1. RowTrue(sh[a], ln.writes, ln.answers, nd, a) /\ DOMAIN sh = Objs
  BY Zenon DEF AllTrue
<1>. QED  BY Zenon, <1>1 DEF RowTrue

\* A row that asks for its object or has it written says so.
LEMMA RowBusy ==
  ASSUME NEW sh, NEW ln, NEW nd, AllTrue(sh, ln, nd), NEW a \in Objs,
         NEW text \in {"reading", "writing", "written", ""},
         NEW sh2, sh2 = [sh EXCEPT ![a].text = text]
  PROVE  AllTrue(sh2, ln, nd)
<1>1. /\ RowTrue(sh[a], ln.writes, ln.answers, nd, a) /\ DOMAIN sh = Objs
      /\ sh[a] = [value |-> sh[a].value, text |-> sh[a].text, sent |-> sh[a].sent]
  BY Zenon, RowAt
<1>2. PICK new : new = [sh[a] EXCEPT !.text = text]
  OBVIOUS
<1>3. sh2 = [sh EXCEPT ![a] = new]
  BY <1>1, <1>2
<1>4. new = [value |-> sh[a].value, text |-> text, sent |-> sh[a].sent]
  BY <1>1, <1>2
<1>5. new.value = sh[a].value /\ new.text = text /\ new.sent = sh[a].sent
  BY <1>4
<1>6. text # "read"
  OBVIOUS
<1>7. RowTrue(new, ln.writes, ln.answers, nd, a)
  BY Zenon, <1>1, <1>4, <1>5, <1>6 DEF RowTrue
<1>. QED  BY Zenon, <1>3, <1>7, RowChanges

\* A row that is left alone while orders, answers and registers change.
LEMMA RowStays ==
  ASSUME NEW row, NEW a, NEW w, NEW s, NEW nd, RowTrue(row, w, s, nd, a),
         NEW w2, NEW s2, NEW nd2,
         HoldsOrder(nd, a) \/ (\E i \in 1 .. Len(w) : w[i].addr = a) =>
           HoldsOrder(nd2, a) \/ \E i \in 1 .. Len(w2) : w2[i].addr = a,
         row.text = "read" /\ (row.value = HeldIn(nd, a) \/ AckedFrom(s, 1, a)) =>
           row.value = HeldIn(nd2, a) \/ AckedFrom(s2, 1, a)
  PROVE  RowTrue(row, w2, s2, nd2, a)
BY Zenon DEF RowTrue

\* A row has its object written.
LEMMA RowWrites ==
  ASSUME NEW sh, NEW ln, NEW nd, AllTrue(sh, ln, nd), NEW a \in Ins, a \in Objs,
         NEW sh2, sh2 = [sh EXCEPT ![a].text = "writing", ![a].sent = {Entered[a]}],
         NEW ln2, ln2 = [ln EXCEPT !.writes = Append(@, Order(a))]
  PROVE  AllTrue(sh2, ln2, nd)
<1>. DEFINE w == ln.writes
            w2 == Append(w, Order(a))
            s == ln.answers
<1>1. /\ ln = [reads |-> ln.reads, writes |-> ln.writes, answers |-> ln.answers]
      /\ IsSeq(w) /\ DOMAIN sh = Objs
      /\ \A i \in 1 .. Len(w) : w[i] \in {Order(b) : b \in Ins}
      /\ \A b \in Objs : RowTrue(sh[b], w, s, nd, b)
  BY Zenon DEF AllTrue
<1>2. /\ ln2 = [reads |-> ln.reads, writes |-> w2, answers |-> s]
      /\ ln2.reads = ln.reads /\ ln2.writes = w2 /\ ln2.answers = s
  <2>1. ln = [reads |-> ln.reads, writes |-> ln.writes, answers |-> ln.answers]
    BY Zenon, <1>1
  <2>. QED  BY <2>1
<1>3. /\ IsSeq(w2) /\ Len(w2) = Len(w) + 1 /\ Len(w) \in Nat
      /\ w2[Len(w) + 1] = Order(a) /\ \A i \in 1 .. Len(w) : w2[i] = w[i]
  BY Zenon, <1>1, AppendIsSeq, AppendPlaces
<1>4. Order(a).addr = a
  BY DEF Order
<1>. HIDE DEF w, w2, s
<1>5. \A i \in 1 .. Len(w2) : i \in 1 .. Len(w) \/ i = Len(w) + 1
  BY <1>3
<1>6. \A i \in 1 .. Len(w) : i \in 1 .. Len(w2)
  BY <1>3
<1>7. Len(w) + 1 \in 1 .. Len(w2)
  BY <1>3
<1>8. \A i \in 1 .. Len(w2) : w2[i] \in {Order(b) : b \in Ins}
  <2>1. Order(a) \in {Order(b) : b \in Ins}
    OBVIOUS
  <2>. QED  BY Zenon, <1>1, <1>3, <1>5, <2>1
<1>9. PICK new : new = [sh[a] EXCEPT !.text = "writing", !.sent = {Entered[a]}]
  OBVIOUS
<1>10. RowTrue(sh[a], w, s, nd, a) /\ sh[a] = [value |-> sh[a].value, text |-> sh[a].text, sent |-> sh[a].sent]
  BY Zenon, <1>1 DEF RowTrue
<1>11. sh2 = [sh EXCEPT ![a] = new]
  BY <1>1, <1>9, <1>10
<1>12. new = [value |-> sh[a].value, text |-> "writing", sent |-> {Entered[a]}]
  BY <1>9, <1>10
<1>13. new.value = sh[a].value /\ new.text = "writing" /\ new.sent = {Entered[a]}
  BY <1>12
<1>14. RowTrue(new, w2, s, nd, a)
  <2>1. "writing" # "read"
    OBVIOUS
  <2>. QED  BY Zenon, <1>3, <1>4, <1>7, <1>12, <1>13, <2>1 DEF RowTrue
<1>15. ASSUME NEW b \in Objs
       PROVE  RowTrue(sh[b], w2, s, nd, b)
  <2>1. (\E i \in 1 .. Len(w) : w[i].addr = b) => \E i \in 1 .. Len(w2) : w2[i].addr = b
    BY Zenon, <1>3, <1>6
  <2>. QED  BY Zenon, <1>1, <2>1, RowStays
<1>16. DOMAIN sh2 = Objs /\ \A b \in Objs : sh2[b] = IF b = a THEN new ELSE sh[b]
  BY <1>1, <1>11
<1>17. \A b \in Objs : RowTrue(sh2[b], w2, s, nd, b)
  BY Zenon, <1>14, <1>15, <1>16
<1>. QED  BY Zenon, <1>2, <1>3, <1>8, <1>16, <1>17 DEF AllTrue, s

\* Taking the first answer leaves the others what they are.
LEMMA AnswersMove ==
  ASSUME NEW s, IsSeq(s), s # <<>>, NEW nd, \A i \in 1 .. Len(s) : AnswerTrue(s, i, nd)
  PROVE  \A i \in 1 .. Len(Tail(s)) : AnswerTrue(Tail(s), i, nd)
<1>. SUFFICES ASSUME NEW i \in 1 .. Len(Tail(s))
              PROVE  AnswerTrue(Tail(s), i, nd)
  OBVIOUS
<1>1. /\ i + 1 \in 1 .. Len(s) /\ i \in Nat \ {0} /\ i + 1 \in Nat \ {0}
  BY TailPlaces
<1>2. Tail(s)[i] = s[i + 1]
  BY Zenon, TailPlaces
<1>3. AnswerTrue(s, i + 1, nd)
  BY Zenon, <1>1
<1>4. \A a : AckedFrom(s, i + 1 + 1, a) => AckedFrom(Tail(s), i + 1, a)
  BY <1>1, AckedMoves
<1>. QED  BY Zenon, <1>2, <1>3, <1>4 DEF AnswerTrue

\* What the registers of an answer make of an object.
LEMMA RawIs ==
  ASSUME NEW ans, NEW a,
         a \in ans.addr .. ans.addr + Len(ans.words) - 1,
         Page!reg_len(a) # 1 => a + 1 \in ans.addr .. ans.addr + Len(ans.words) - 1
  PROVE  Page!Raw(ans, a) =
           IF Page!reg_len(a) = 1 THEN ans.words[a - ans.addr + 1]
           ELSE ans.words[a - ans.addr + 1] + WordSize * ans.words[(a + 1) - ans.addr + 1]
<1>. DEFINE X == IF a \in ans.addr .. ans.addr + Len(ans.words) - 1
                 THEN ans.words[a - ans.addr + 1] ELSE 0
            Y == IF a + 1 \in ans.addr .. ans.addr + Len(ans.words) - 1
                 THEN ans.words[(a + 1) - ans.addr + 1] ELSE 0
<1>1. Page!Raw(ans, a) = IF Page!reg_len(a) = 1 THEN X ELSE X + WordSize * Y
  BY DEF Page!Raw
<1>2. X = ans.words[a - ans.addr + 1]
  BY Zenon
<1>3. Page!reg_len(a) # 1 => Y = ans.words[(a + 1) - ans.addr + 1]
  BY Zenon
<1>. HIDE DEF X, Y
<1>. QED  BY Zenon, <1>1, <1>2, <1>3

\* What an answer that tells of an object is taken for.
LEMMA TellsHeld ==
  ASSUME NEW nd, NEW ans, NEW a \in Nat, ans.addr \in Nat, Tells(nd, ans, a)
  PROVE  Page!slot_read_finish(a, Page!Raw(ans, a)) = HeldIn(nd, a)
<1>. DEFINE n == Page!reg_len(a)
            mine == [addr |-> a, words |-> [i \in 1 .. n |-> nd[a + i - 1]]]
<1>1. n \in {1, 2}
  BY DEF Page!reg_len, Page!reg_num
<1>2. Len(mine.words) = n /\ mine.addr = a
  BY <1>1
<1>3. /\ a \in a .. a + n - 1 /\ a - a + 1 = 1 /\ (a + 1) - a + 1 = 2 /\ a + 1 - 1 = a /\ a + 2 - 1 = a + 1
      /\ 1 \in 1 .. n
      /\ n # 1 => a + 1 \in a .. a + n - 1 /\ 2 \in 1 .. n
  BY <1>1
<1>4. mine.words[1] = nd[a] /\ (n # 1 => mine.words[2] = nd[a + 1])
  BY Zenon, <1>3
<1>. HIDE DEF mine
<1>5. /\ a \in mine.addr .. mine.addr + Len(mine.words) - 1 /\ mine.words[a - mine.addr + 1] = nd[a]
      /\ n # 1 => /\ a + 1 \in mine.addr .. mine.addr + Len(mine.words) - 1
                  /\ mine.words[(a + 1) - mine.addr + 1] = nd[a + 1]
  BY Zenon, <1>2, <1>3, <1>4
<1>6. \A r \in a .. a + n - 1 :
        r \in ans.addr .. ans.addr + Len(ans.words) - 1 /\ ans.words[r - ans.addr + 1] = nd[r]
  BY Zenon DEF Tells
<1>7. /\ a \in ans.addr .. ans.addr + Len(ans.words) - 1 /\ ans.words[a - ans.addr + 1] = nd[a]
      /\ n # 1 => /\ a + 1 \in ans.addr .. ans.addr + Len(ans.words) - 1
                  /\ ans.words[(a + 1) - ans.addr + 1] = nd[a + 1]
  <2>1. a \in a .. a + n - 1
    BY Zenon, <1>3
  <2>2. n # 1 => a + 1 \in a .. a + n - 1
    BY Zenon, <1>3
  <2>. HIDE DEF n
  <2>3. n # 1 => /\ a + 1 \in ans.addr .. ans.addr + Len(ans.words) - 1
                 /\ ans.words[(a + 1) - ans.addr + 1] = nd[a + 1]
    BY Zenon, <1>6, <2>2
  <2>4. a \in ans.addr .. ans.addr + Len(ans.words) - 1 /\ ans.words[a - ans.addr + 1] = nd[a]
    BY Zenon, <1>6, <2>1
  <2>. QED  BY Zenon, <2>3, <2>4
<1>8. Page!Raw(mine, a) = IF n = 1 THEN nd[a] ELSE nd[a] + WordSize * nd[a + 1]
  <2>1. Page!Raw(mine, a) =
           IF n = 1 THEN mine.words[a - mine.addr + 1]
           ELSE mine.words[a - mine.addr + 1] + WordSize * mine.words[(a + 1) - mine.addr + 1]
    BY Zenon, <1>5, RawIs
  <2>. QED  BY Zenon, <1>5, <2>1
<1>9. Page!Raw(ans, a) = IF n = 1 THEN nd[a] ELSE nd[a] + WordSize * nd[a + 1]
  <2>1. Page!Raw(ans, a) =
           IF n = 1 THEN ans.words[a - ans.addr + 1]
           ELSE ans.words[a - ans.addr + 1] + WordSize * ans.words[(a + 1) - ans.addr + 1]
    BY Zenon, <1>7, RawIs
  <2>. QED  BY Zenon, <1>7, <2>1
<1>. QED  BY Zenon, <1>8, <1>9 DEF HeldIn, mine

\* The answer to a write is taken in.
LEMMA WrittenComesIn ==
  ASSUME NEW sh, NEW ln, NEW nd, AllTrue(sh, ln, nd), ln.answers # <<>>,
         Head(ln.answers).written,
         NEW text \in {"written", ""},
         NEW sh2, sh2 = [sh EXCEPT ![Head(ln.answers).addr].text = text],
         NEW ln2, ln2 = [ln EXCEPT !.answers = Tail(@)]
  PROVE  AllTrue(sh2, ln2, nd)
<1>. DEFINE s == ln.answers
            s2 == Tail(s)
            w == ln.writes
            addr == Head(s).addr
<1>1. /\ ln = [reads |-> ln.reads, writes |-> ln.writes, answers |-> ln.answers]
      /\ IsSeq(s) /\ DOMAIN sh = Objs
      /\ \A i \in 1 .. Len(s) : AnswerTrue(s, i, nd)
      /\ \A b \in Objs : RowTrue(sh[b], w, s, nd, b)
  BY Zenon DEF AllTrue
<1>2. /\ ln2 = [reads |-> ln.reads, writes |-> w, answers |-> s2]
      /\ ln2.reads = ln.reads /\ ln2.writes = w /\ ln2.answers = s2
  <2>1. ln = [reads |-> ln.reads, writes |-> ln.writes, answers |-> ln.answers]
    BY Zenon, <1>1
  <2>. QED  BY <2>1
<1>3. Head(s) = s[1]
  BY Zenon, <1>1, TailPlaces
<1>4. IsSeq(s2) /\ \A i \in 1 .. Len(s2) : AnswerTrue(s2, i, nd)
  BY Zenon, <1>1, TailIsSeq, AnswersMove
<1>5. DOMAIN sh2 = Objs /\ \A b \in Objs : b # addr => sh2[b] = sh[b]
  BY <1>1
<1>6. ASSUME NEW b \in Objs, b = addr
      PROVE  RowTrue(sh2[b], w, s2, nd, b)
  <2>1. PICK old : old = sh[b]
    OBVIOUS
  <2>2. RowTrue(old, w, s, nd, b) /\ old = [value |-> old.value, text |-> old.text, sent |-> old.sent]
    BY Zenon, <1>1, <2>1 DEF RowTrue
  <2>3. PICK new : new = [old EXCEPT !.text = text]
    OBVIOUS
  <2>4. sh2[b] = new
    BY <1>1, <1>6, <2>1, <2>3
  <2>5. new = [value |-> old.value, text |-> text, sent |-> old.sent]
    BY <2>2, <2>3
  <2>6. new.value = old.value /\ new.text = text /\ new.sent = old.sent /\ text # "read"
    BY <2>5
  <2>. QED  BY Zenon, <2>2, <2>4, <2>5, <2>6 DEF RowTrue
<1>7. ASSUME NEW b \in Objs, b # addr
      PROVE  RowTrue(sh2[b], w, s2, nd, b)
  <2>1. AckedFrom(s, 1, b) => AckedFrom(s2, 1, b)
    BY Zenon, <1>1, <1>3, <1>7, AckedBehind
  <2>2. RowTrue(sh[b], w, s, nd, b) /\ sh2[b] = sh[b]
    BY Zenon, <1>1, <1>5, <1>7
  <2>. HIDE DEF s, s2, w, addr
  <2>3. RowTrue(sh[b], w, s2, nd, b)
    BY Zenon, <2>1, <2>2, RowStays
  <2>. QED  BY Zenon, <2>2, <2>3
<1>. QED  BY Zenon, <1>2, <1>4, <1>5, <1>6, <1>7 DEF AllTrue

\* An answer to a read: what the rows are made to show.
TakenIn(sh, ans) ==
  [a \in DOMAIN sh |->
     IF a \in ans.addr .. ans.addr + Len(ans.words) - 1
     THEN [sh[a] EXCEPT !.value = Page!slot_read_finish(a, Page!Raw(ans, a)),
                        !.text = IF a \in Ins THEN "read" ELSE ""]
     ELSE sh[a]]

\* The answer to a read is taken in.
LEMMA ReadComesIn ==
  ASSUME NEW sh, NEW ln, NEW nd, AllTrue(sh, ln, nd), ln.answers # <<>>, Laid,
         ~ Head(ln.answers).written,
         NEW sh2, sh2 = TakenIn(sh, Head(ln.answers)),
         NEW ln2, ln2 = [ln EXCEPT !.answers = Tail(@)]
  PROVE  AllTrue(sh2, ln2, nd)
<1>. DEFINE s == ln.answers
            s2 == Tail(s)
            w == ln.writes
<1>1. /\ ln = [reads |-> ln.reads, writes |-> ln.writes, answers |-> ln.answers]
      /\ IsSeq(s) /\ DOMAIN sh = Objs
      /\ \A i \in 1 .. Len(s) : AnswerTrue(s, i, nd)
      /\ \A b \in Objs : RowTrue(sh[b], w, s, nd, b)
  BY Zenon DEF AllTrue
<1>2. /\ ln2 = [reads |-> ln.reads, writes |-> w, answers |-> s2]
      /\ ln2.reads = ln.reads /\ ln2.writes = w /\ ln2.answers = s2
  <2>1. ln = [reads |-> ln.reads, writes |-> ln.writes, answers |-> ln.answers]
    BY Zenon, <1>1
  <2>. QED  BY <2>1
<1>3. Head(s) = s[1] /\ Len(s) \in Nat \ {0}
  BY Zenon, <1>1, TailPlaces
<1>4. IsSeq(s2) /\ \A i \in 1 .. Len(s2) : AnswerTrue(s2, i, nd)
  BY Zenon, <1>1, TailIsSeq, AnswersMove
<1>5. PICK ans : ans = Head(s)
  OBVIOUS
<1>6. ~ ans.written /\ AnswerTrue(s, 1, nd) /\ ans = s[1]
  <2>1. 1 \in 1 .. Len(s)
    BY <1>3
  <2>. QED  BY Zenon, <1>1, <1>3, <1>5, <2>1
<1>7. DOMAIN sh2 = Objs /\ \A b \in Objs :
        sh2[b] = IF b \in ans.addr .. ans.addr + Len(ans.words) - 1
                 THEN [sh[b] EXCEPT !.value = Page!slot_read_finish(b, Page!Raw(ans, b)),
                                    !.text = IF b \in Ins THEN "read" ELSE ""]
                 ELSE sh[b]
  BY Zenon, <1>1, <1>5 DEF TakenIn
<1>8. ASSUME NEW b \in Objs, b \in ans.addr .. ans.addr + Len(ans.words) - 1
      PROVE  RowTrue(sh2[b], w, s2, nd, b)
  <2>1. PICK old : old = sh[b]
    OBVIOUS
  <2>2. RowTrue(old, w, s, nd, b) /\ old = [value |-> old.value, text |-> old.text, sent |-> old.sent]
    BY Zenon, <1>1, <2>1 DEF RowTrue
  <2>3. PICK v : v = Page!slot_read_finish(b, Page!Raw(ans, b))
    OBVIOUS
  <2>4. PICK t : t = IF b \in Ins THEN "read" ELSE ""
    OBVIOUS
  <2>5. PICK new : new = [old EXCEPT !.value = v, !.text = t]
    OBVIOUS
  <2>6. sh2[b] = new
    BY Zenon, <1>7, <1>8, <2>1, <2>3, <2>4, <2>5
  <2>7. new = [value |-> v, text |-> t, sent |-> old.sent]
    BY <2>2, <2>5
  <2>8. new.value = v /\ new.text = t /\ new.sent = old.sent
    BY <2>7
  <2>9. t = "read" => b \in Ins
    BY <2>4
  <2>10. ASSUME b \in Ins, b \notin Page!Cut
         PROVE  v = HeldIn(nd, b) \/ AckedFrom(s2, 1, b)
    <3>1. ans.addr \in Nat /\ (Tells(nd, ans, b) \/ AckedFrom(s, 1 + 1, b))
      BY Zenon, <1>6, <1>8, <2>10 DEF AnswerTrue
    <3>2. b \in Nat
      BY Zenon DEF Laid
    <3>3. CASE Tells(nd, ans, b)
      BY Zenon, <2>3, <3>1, <3>2, <3>3, TellsHeld
    <3>4. CASE AckedFrom(s, 1 + 1, b)
      <4>1. 1 \in Nat \ {0}
        OBVIOUS
      <4>. QED  BY Zenon, <1>1, <3>4, <4>1, AckedMoves
    <3>. QED  BY <3>1, <3>3, <3>4
  <2>11. RowTrue(new, w, s2, nd, b)
    BY Zenon, <2>2, <2>7, <2>8, <2>9, <2>10 DEF RowTrue
  <2>. QED  BY Zenon, <2>6, <2>11
<1>9. ASSUME NEW b \in Objs, b \notin ans.addr .. ans.addr + Len(ans.words) - 1
      PROVE  RowTrue(sh2[b], w, s2, nd, b)
  <2>1. AckedFrom(s, 1, b) => AckedFrom(s2, 1, b)
    BY Zenon, <1>1, <1>6, AckedBehind
  <2>2. RowTrue(sh[b], w, s, nd, b) /\ sh2[b] = sh[b]
    BY Zenon, <1>1, <1>7, <1>9
  <2>. HIDE DEF s, s2, w
  <2>3. RowTrue(sh[b], w, s2, nd, b)
    BY Zenon, <2>1, <2>2, RowStays
  <2>. QED  BY Zenon, <2>2, <2>3
<1>. QED  BY Zenon, <1>2, <1>4, <1>1, <1>7, <1>8, <1>9 DEF AllTrue

\* The node reads: an answer that tells of every object asked for as a whole.
\* What the node reads in a register; what is not registered is 0.
WordAt(nd, r) == IF r \in DOMAIN nd THEN nd[r] ELSE 0
ReadAnswer(nd, q) ==
  [written |-> FALSE, addr |-> q.addr, words |-> [i \in 1 .. q.len |-> WordAt(nd, q.addr + i - 1)]]

\* An answer tells what has been asked for.
LEMMA ReadTells ==
  ASSUME NEW nd, DOMAIN nd = Registered, NEW q, AsksWhole(q), NEW a \in Ins \ Page!Cut,
         Laid, a \in q.addr .. q.addr + q.len - 1, NEW e, e = ReadAnswer(nd, q)
  PROVE  Tells(nd, e, a)
<1>1. q.addr \in Nat /\ q.len \in Nat /\ a + Page!reg_len(a) <= q.addr + q.len
  BY Zenon DEF AsksWhole
<1>2. a \in Nat /\ a \in Objs
  BY DEF Laid
<1>. DEFINE n == Page!reg_len(a)
<1>3. n \in {1, 2}
  BY DEF Page!reg_len, Page!reg_num
<1>4. /\ e.addr = q.addr
      /\ Len(e.words) = q.len
      /\ \A i \in 1 .. q.len : e.words[i] = WordAt(nd, q.addr + i - 1)
  BY <1>1 DEF ReadAnswer
<1>. SUFFICES ASSUME NEW r \in a .. a + n - 1
              PROVE  /\ r \in e.addr .. e.addr + Len(e.words) - 1
                     /\ e.words[r - e.addr + 1] = nd[r]
  BY Zenon DEF Tells
<1>5. r \in Registered
  BY Zenon, <1>2 DEF Registered
<1>. HIDE DEF n
<1>6. PICK qa, ql : qa = q.addr /\ ql = q.len
  OBVIOUS
<1>7. r \in qa .. qa + ql - 1 /\ r - qa + 1 \in 1 .. ql /\ qa + (r - qa + 1) - 1 = r
  BY <1>1, <1>2, <1>3, <1>6 DEF n
<1>8. e.words[r - qa + 1] = WordAt(nd, qa + (r - qa + 1) - 1)
  BY Zenon, <1>4, <1>6, <1>7
<1>9. WordAt(nd, r) = nd[r]
  BY Zenon, <1>5 DEF WordAt
<1>. QED  BY Zenon, <1>4, <1>6, <1>7, <1>8, <1>9

\* The node answers the first read.
LEMMA NodeAnswersRead ==
  ASSUME NEW sh, NEW ln, NEW nd, AllTrue(sh, ln, nd), Laid, ln.reads # <<>>,
         \A i \in DOMAIN ln.answers : ln.answers[i].written,
         NEW e, e = ReadAnswer(nd, Head(ln.reads)),
         NEW ln2, ln2 = [ln EXCEPT !.reads = Tail(@), !.answers = Append(@, e)]
  PROVE  AllTrue(sh, ln2, nd)
<1>. DEFINE s == ln.answers
            s2 == Append(s, e)
            w == ln.writes
            r == ln.reads
            r2 == Tail(r)
<1>1. /\ ln = [reads |-> ln.reads, writes |-> ln.writes, answers |-> ln.answers]
      /\ IsSeq(s) /\ DOMAIN sh = Objs /\ IsSeq(r) /\ DOMAIN nd = Registered
      /\ \A i \in 1 .. Len(r) : AsksWhole(r[i])
      /\ \A b \in Objs : RowTrue(sh[b], w, s, nd, b)
  BY Zenon DEF AllTrue
<1>2. /\ ln2 = [reads |-> r2, writes |-> w, answers |-> s2]
      /\ ln2.reads = r2 /\ ln2.writes = w /\ ln2.answers = s2
  <2>1. ln = [reads |-> ln.reads, writes |-> ln.writes, answers |-> ln.answers]
    BY Zenon, <1>1
  <2>. QED  BY <2>1
<1>3. PICK q : q = Head(r)
  OBVIOUS
<1>4. AsksWhole(q) /\ IsSeq(r2) /\ \A i \in 1 .. Len(r2) : AsksWhole(r2[i])
  <2>1. /\ Len(r2) = Len(r) - 1 /\ Len(r) \in Nat \ {0} /\ Head(r) = r[1]
        /\ \A i \in 1 .. Len(r2) : r2[i] = r[i + 1]
    BY Zenon, <1>1, TailPlaces
  <2>. HIDE DEF r, r2
  <2>2. 1 \in 1 .. Len(r) /\ \A i \in 1 .. Len(r2) : i + 1 \in 1 .. Len(r)
    BY <2>1
  <2>3. AsksWhole(q)
    BY Zenon, <1>1, <1>3, <2>1, <2>2
  <2>4. \A i \in 1 .. Len(r2) : AsksWhole(r2[i])
    BY Zenon, <1>1, <2>1, <2>2
  <2>5. IsSeq(r2)
    BY Zenon, <1>1, TailIsSeq DEF r, r2
  <2>. QED  BY <2>3, <2>4, <2>5
<1>5. /\ IsSeq(s2) /\ Len(s2) = Len(s) + 1 /\ Len(s) \in Nat
      /\ s2[Len(s) + 1] = e /\ \A i \in 1 .. Len(s) : s2[i] = s[i]
  <2>1. IsSeq(s)
    BY Zenon, <1>1
  <2>2. IsSeq(s2)
    BY Zenon, <2>1, AppendIsSeq
  <2>3. \A x : /\ Len(Append(s, x)) = Len(s) + 1 /\ Len(s) \in Nat
               /\ \A i \in 1 .. Len(s) : Append(s, x)[i] = s[i]
               /\ Append(s, x)[Len(s) + 1] = x
    <3>. HIDE DEF s
    <3>. QED  BY Zenon, <2>1, AppendPlaces
  <2>. HIDE DEF s
  <2>. QED  BY Zenon, <2>2, <2>3
<1>6. DOMAIN s = 1 .. Len(s)
  BY <1>1 DEF IsSeq
<1>7. ~ e.written /\ e.addr = q.addr /\ Len(e.words) = q.len /\ IsSeq(e.words) /\ e.addr \in Nat
  <2>1. q.len \in Nat /\ q.addr \in Nat
    BY Zenon, <1>4 DEF AsksWhole
  <2>2. e = ReadAnswer(nd, q)
    BY Zenon, <1>3
  <2>3. PICK f : f = [i \in 1 .. q.len |-> WordAt(nd, q.addr + i - 1)]
    OBVIOUS
  <2>4. IsSeq(f) /\ Len(f) = q.len
    <3>1. PICK n : n = q.len
      OBVIOUS
    <3>2. n \in Nat /\ DOMAIN f = 1 .. n /\ f = [i \in 1 .. n |-> f[i]]
      BY <2>1, <2>3, <3>1
    <3>. DEFINE F == {f[i] : i \in DOMAIN f}
    <3>3. f \in [1 .. n -> F]
      BY <3>2
    <3>. HIDE DEF F
    <3>4. f \in Seq(F) /\ Len(f) = n
      BY <3>2, <3>3
    <3>. QED  BY <3>1, <3>4, SeqIsSeq
  <2>5. e = [written |-> FALSE, addr |-> q.addr, words |-> f]
    BY Zenon, <2>2, <2>3 DEF ReadAnswer
  <2>. QED  BY <2>1, <2>4, <2>5
<1>8. AnswerTrue(s2, Len(s) + 1, nd)
  <2>1. \A a \in Ins \ Page!Cut : a \in q.addr .. q.addr + q.len - 1 => Tells(nd, e, a)
    BY Zenon, <1>1, <1>3, <1>4, ReadTells
  <2>. QED  BY Zenon, <1>5, <1>7, <2>1 DEF AnswerTrue
<1>9. \A i \in 1 .. Len(s) : AnswerTrue(s2, i, nd)
  BY Zenon, <1>5, <1>6 DEF AnswerTrue
<1>10. \A b : AckedFrom(s, 1, b) => AckedFrom(s2, 1, b)
  <2>1. 1 \in Nat \ {0}
    OBVIOUS
  <2>. QED  BY Zenon, <1>1, <2>1, AckedStays
<1>. HIDE DEF s, s2, w, r, r2
<1>11. \A i \in 1 .. Len(s2) : i \in 1 .. Len(s) \/ i = Len(s) + 1
  BY <1>5
<1>12. \A b \in Objs : RowTrue(sh[b], w, s2, nd, b)
  BY Zenon, <1>1, <1>10, RowStays
<1>13. \A i \in 1 .. Len(s2) : AnswerTrue(s2, i, nd)
  BY Zenon, <1>8, <1>9, <1>11
<1>. QED  BY Zenon, <1>1, <1>2, <1>4, <1>5, <1>12, <1>13 DEF AllTrue, w

\* The registers after a write.
Written(nd, q) ==
  [r \in DOMAIN nd |->
     IF r \in q.addr .. q.addr + Len(q.words) - 1 THEN q.words[r - q.addr + 1] ELSE nd[r]]

\* What is written to an object has a word for each of its registers.
LEMMA OrderIsWhole ==
  ASSUME NEW a
  PROVE  Order(a).addr = a /\ Len(Order(a).words) = Page!reg_len(a)
<1>1. Page!reg_len(a) \in {1, 2}
  BY DEF Page!reg_len, Page!reg_num
<1>. QED  BY <1>1 DEF Order, Page!slot_request_write_reg

\* No register belongs to two objects.
LEMMA Apart ==
  ASSUME Page!Disjoint, Laid, NEW a \in Objs, NEW b \in Objs, a # b,
         NEW r \in a .. a + Page!reg_len(a) - 1
  PROVE  r \notin b .. b + Page!reg_len(b) - 1
<1>1. a \in Nat /\ b \in Nat
  BY DEF Laid
<1>2. Page!reg_len(a) \in {1, 2} /\ Page!reg_len(b) \in {1, 2}
  BY DEF Page!reg_len, Page!reg_num
<1>3. a < b => a + Page!reg_len(a) <= b
  BY Zenon DEF Page!Disjoint, Objs
<1>4. b < a => b + Page!reg_len(b) <= a
  BY Zenon DEF Page!Disjoint, Objs
<1>. QED  BY <1>1, <1>2, <1>3, <1>4

\* Writing an object leaves the registers of the others.
LEMMA OthersStay ==
  ASSUME Page!Disjoint, Laid, NEW nd, DOMAIN nd = Registered,
         NEW b \in Ins, NEW nd2, nd2 = Written(nd, Order(b)), NEW a \in Objs, a # b
  PROVE  \A r \in a .. a + Page!reg_len(a) - 1 : nd2[r] = nd[r]
<1>1. b \in Objs
  BY DEF Laid
<1>2. Order(b).addr = b /\ Len(Order(b).words) = Page!reg_len(b)
  BY Zenon, OrderIsWhole
<1>. SUFFICES ASSUME NEW r \in a .. a + Page!reg_len(a) - 1
              PROVE  nd2[r] = nd[r]
  OBVIOUS
<1>3. r \in DOMAIN nd
  BY Zenon DEF Registered
<1>4. r \notin b .. b + Page!reg_len(b) - 1
  BY Zenon, <1>1, Apart
<1>. QED  BY Zenon, <1>2, <1>3, <1>4 DEF Written

\* And it has what was written.
LEMMA OrderHeld ==
  ASSUME Laid, NEW nd, DOMAIN nd = Registered,
         NEW b \in Ins, NEW nd2, nd2 = Written(nd, Order(b))
  PROVE  HoldsOrder(nd2, b)
<1>1. b \in Objs /\ b \in Nat
  BY DEF Laid
<1>2. Order(b).addr = b /\ Len(Order(b).words) = Page!reg_len(b)
  BY Zenon, OrderIsWhole
<1>. DEFINE n == Page!reg_len(b)
<1>3. n \in {1, 2}
  BY DEF Page!reg_len, Page!reg_num
<1>. SUFFICES ASSUME NEW i \in 1 .. n
              PROVE  nd2[b + i - 1] = Order(b).words[i]
  BY Zenon DEF HoldsOrder
<1>. DEFINE r == b + i - 1
<1>. HIDE DEF n
<1>4. r \in b .. b + n - 1 /\ r - b + 1 = i
  BY <1>1, <1>3
<1>. HIDE DEF r
<1>5. r \in DOMAIN nd
  BY Zenon, <1>1, <1>4 DEF Registered, n
<1>6. nd2[r] = Order(b).words[i]
  BY Zenon, <1>2, <1>4, <1>5 DEF Written, n
<1>. QED  BY Zenon, <1>6 DEF r

\* Where the registers of an object lie.
LEMMA PlacesOfObject ==
  ASSUME NEW a \in Nat, NEW i \in 1 .. Page!reg_len(a)
  PROVE  a + i - 1 \in a .. a + Page!reg_len(a) - 1
<1>1. Page!reg_len(a) \in {1, 2}
  BY DEF Page!reg_len, Page!reg_num
<1>. QED  BY <1>1

\* The node writes.
LEMMA NodeAnswersWrite ==
  ASSUME NEW sh, NEW ln, NEW nd, AllTrue(sh, ln, nd), Laid, Page!Disjoint, ln.writes # <<>>,
         NEW q, q = Head(ln.writes), NEW nd2, nd2 = Written(nd, q),
         NEW e, e = [written |-> TRUE, addr |-> q.addr, words |-> <<>>],
         NEW ln2, ln2 = [ln EXCEPT !.writes = Tail(@), !.answers = Append(@, e)]
  PROVE  AllTrue(sh, ln2, nd2)
<1>. DEFINE s == ln.answers
            s2 == Append(s, e)
            w == ln.writes
            w2 == Tail(w)
            r == ln.reads
<1>1. /\ ln = [reads |-> ln.reads, writes |-> ln.writes, answers |-> ln.answers]
      /\ IsSeq(s) /\ DOMAIN sh = Objs /\ IsSeq(r) /\ IsSeq(w) /\ DOMAIN nd = Registered
      /\ \A i \in 1 .. Len(r) : AsksWhole(r[i])
      /\ \A i \in 1 .. Len(w) : w[i] \in {Order(a) : a \in Ins}
      /\ \A i \in 1 .. Len(s) : AnswerTrue(s, i, nd)
      /\ \A b \in Objs : RowTrue(sh[b], w, s, nd, b)
  BY Zenon DEF AllTrue
<1>2. /\ ln2 = [reads |-> r, writes |-> w2, answers |-> s2]
      /\ ln2.reads = r /\ ln2.writes = w2 /\ ln2.answers = s2
  <2>1. ln = [reads |-> ln.reads, writes |-> ln.writes, answers |-> ln.answers]
    BY Zenon, <1>1
  <2>. QED  BY <2>1
<1>3. /\ IsSeq(s2) /\ Len(s2) = Len(s) + 1 /\ Len(s) \in Nat
      /\ s2[Len(s) + 1] = e /\ \A i \in 1 .. Len(s) : s2[i] = s[i]
  <2>1. IsSeq(s)
    BY Zenon, <1>1
  <2>2. IsSeq(s2)
    BY Zenon, <2>1, AppendIsSeq
  <2>3. \A x : /\ Len(Append(s, x)) = Len(s) + 1 /\ Len(s) \in Nat
               /\ \A i \in 1 .. Len(s) : Append(s, x)[i] = s[i]
               /\ Append(s, x)[Len(s) + 1] = x
    <3>. HIDE DEF s
    <3>. QED  BY Zenon, <2>1, AppendPlaces
  <2>. HIDE DEF s
  <2>. QED  BY Zenon, <2>2, <2>3
<1>4. e.written /\ e.addr = q.addr
  OBVIOUS
<1>5. \A i \in 1 .. Len(s) + 1 : AckedFrom(s2, i, q.addr)
  BY Zenon, <1>1, <1>4, AckedNow
<1>6. \A i \in Nat \ {0} : \A a : AckedFrom(s, i, a) => AckedFrom(s2, i, a)
  BY Zenon, <1>1, AckedStays
<1>7. IsSeq(w) /\ w # <<>>
  BY Zenon, <1>1
<1>8. IsSeq(w2)
  BY Zenon, <1>7, TailIsSeq
<1>9. /\ Len(w2) = Len(w) - 1 /\ Len(w) \in Nat \ {0} /\ Head(w) = w[1]
      /\ \A i \in 1 .. Len(w2) : w2[i] = w[i + 1]
  BY Zenon, <1>7, TailPlaces
<1>10. q = w[1]
  BY <1>9
<1>. HIDE DEF s, s2, w, w2, r
<1>11. /\ 1 \in 1 .. Len(w) /\ \A i \in 1 .. Len(w2) : i + 1 \in 1 .. Len(w)
       /\ \A i \in 1 .. Len(w) : i = 1 \/ (i - 1 \in 1 .. Len(w2) /\ i - 1 + 1 = i)
  BY <1>9
<1>12. PICK b \in Ins : q = Order(b)
  <2>1. w[1] \in {Order(a) : a \in Ins}
    BY Zenon, <1>1, <1>11
  <2>. QED  BY <1>10, <2>1
<1>13. q.addr = b /\ b \in Objs
  <2>1. b \in Objs
    BY DEF Laid
  <2>. QED  BY Zenon, <1>12, <2>1, OrderIsWhole
<1>14. \A i \in 1 .. Len(w2) : w2[i] \in {Order(a) : a \in Ins}
  BY Zenon, <1>1, <1>9, <1>10, <1>11
<1>15. \A a \in Objs : a # b => \A p \in a .. a + Page!reg_len(a) - 1 : nd2[p] = nd[p]
  BY Zenon, <1>1, <1>12, OthersStay
<1>16. /\ 1 \in Nat \ {0} /\ 1 \in 1 .. Len(s) + 1
       /\ \A i \in 1 .. Len(s) : i + 1 \in Nat \ {0} /\ i + 1 \in 1 .. Len(s) + 1
       /\ \A i \in 1 .. Len(s2) : i \in 1 .. Len(s) \/ i = Len(s) + 1
  BY <1>3
<1>17. ASSUME NEW i \in 1 .. Len(s)
       PROVE  AnswerTrue(s2, i, nd2)
  <2>1. AnswerTrue(s, i, nd) /\ s2[i] = s[i]
    BY Zenon, <1>1, <1>3
  <2>2. ASSUME NEW a \in Ins, Tells(nd, s[i], a)
        PROVE  Tells(nd2, s[i], a) \/ AckedFrom(s2, i + 1, a)
    <3>1. CASE a = b
      BY Zenon, <1>5, <1>13, <1>16, <3>1
    <3>2. CASE a # b
      <4>1. a \in Objs
        BY DEF Laid
      <4>. QED  BY Zenon, <1>15, <2>2, <3>2, <4>1 DEF Tells
    <3>. QED  BY <3>1, <3>2
  <2>. QED  BY Zenon, <1>6, <1>16, <2>1, <2>2 DEF AnswerTrue
<1>18. AnswerTrue(s2, Len(s) + 1, nd2)
  BY Zenon, <1>3, <1>4 DEF AnswerTrue
<1>19. \A i \in 1 .. Len(s2) : AnswerTrue(s2, i, nd2)
  BY Zenon, <1>16, <1>17, <1>18
<1>20. RowTrue(sh[b], w2, s2, nd2, b)
  <2>1. HoldsOrder(nd2, b)
    BY Zenon, <1>1, <1>12, OrderHeld
  <2>2. AckedFrom(s2, 1, b)
    BY Zenon, <1>5, <1>13, <1>16
  <2>3. RowTrue(sh[b], w, s, nd, b)
    BY Zenon, <1>1, <1>13
  <2>. QED  BY Zenon, <2>1, <2>2, <2>3, RowStays
<1>21. ASSUME NEW a \in Objs, a # b
       PROVE  RowTrue(sh[a], w2, s2, nd2, a)
  <2>1. a \in Nat
    BY DEF Laid
  <2>2. \A i \in 1 .. Page!reg_len(a) : nd2[a + i - 1] = nd[a + i - 1]
    BY Zenon, <1>15, <1>21, <2>1, PlacesOfObject
  <2>3. HoldsOrder(nd, a) => HoldsOrder(nd2, a)
    BY Zenon, <2>2 DEF HoldsOrder
  <2>4. HeldIn(nd2, a) = HeldIn(nd, a)
    <3>1. [i \in 1 .. Page!reg_len(a) |-> nd2[a + i - 1]] = [i \in 1 .. Page!reg_len(a) |-> nd[a + i - 1]]
      BY Zenon, <2>2
    <3>. QED  BY Zenon, <3>1 DEF HeldIn
  <2>5. ASSUME NEW i \in 1 .. Len(w), w[i].addr = a
        PROVE  \E j \in 1 .. Len(w2) : w2[j].addr = a
    <3>1. i # 1
      BY Zenon, <1>10, <1>13, <1>21, <2>5
    <3>2. i - 1 \in 1 .. Len(w2) /\ w2[i - 1] = w[i]
      BY Zenon, <1>9, <1>10, <1>11, <3>1
    <3>. QED  BY Zenon, <2>5, <3>2
  <2>6. RowTrue(sh[a], w, s, nd, a) /\ (AckedFrom(s, 1, a) => AckedFrom(s2, 1, a))
    BY Zenon, <1>1, <1>6, <1>16
  <2>. QED  BY Zenon, <2>3, <2>4, <2>5, <2>6, RowStays
<1>22. DOMAIN nd2 = Registered
  BY Zenon, <1>1 DEF Written
<1>. QED  BY Zenon, <1>1, <1>2, <1>3, <1>8, <1>14, <1>19, <1>20, <1>21, <1>22 DEF AllTrue

\* A row asks for its object and nothing else.
LEMMA RowAsksWhole ==
  ASSUME Page!Disjoint, Laid, NEW b \in Ins, NEW q, q = [addr |-> b, len |-> Page!reg_len(b)]
  PROVE  AsksWhole(q)
<1>1. b \in Objs /\ b \in Nat
  BY DEF Laid
<1>2. Page!reg_len(b) \in {1, 2} /\ q.addr = b /\ q.len = Page!reg_len(b)
  BY DEF Page!reg_len, Page!reg_num
<1>3. q.addr \in Nat /\ q.len \in Nat
  BY <1>1, <1>2
<1>4. ASSUME NEW a \in Ins, a \in b .. b + Page!reg_len(b) - 1
      PROVE  a = b
  <2>1. a \in Objs /\ a \in Nat
    BY DEF Laid
  <2>2. Page!reg_len(a) \in {1, 2}
    BY DEF Page!reg_len, Page!reg_num
  <2>3. a \in a .. a + Page!reg_len(a) - 1
    BY <2>1, <2>2
  <2>. QED  BY Zenon, <1>1, <1>4, <2>1, <2>3, Apart
<1>5. b + Page!reg_len(b) <= b + Page!reg_len(b)
  BY <1>1, <1>2
<1>. QED  BY Zenon, <1>2, <1>3, <1>4, <1>5 DEF AsksWhole

\* The requests of a time-out ask for whole objects, but for those that lie
\* across the end of a chunk.
LEMMA BurstAsksWhole ==
  ASSUME Page!Ascending, Laid, Page!reg_info_list \in Seq(Nat)
  PROVE  IsSeq(Page!Requests) /\ \A k \in 1 .. Len(Page!Requests) : AsksWhole(Page!Requests[k])
<1>. DEFINE L == Page!reg_info_list
            n == Page!Count
            w == Lengths
            asked == Page!Requests
<1>1. IsSeq(asked) /\ Owed(asked, 1, n, L, w, Chunk)
  BY Zenon, RequestsAreMade, BurstOwes
<1>2. n \in Nat /\ Chunk \in Nat \ {0} /\ DOMAIN asked = 1 .. Len(asked) /\ Len(asked) \in Nat
  BY <1>1, PageAssumption DEF Page!Count, IsSeq
<1>3. \A i \in 1 .. n : /\ L[i] \in Nat /\ L[i] \in Page!ToSet(L)
                        /\ w[i] = Page!reg_len(L[i]) /\ w[i] \in {1, 2}
  BY DEF Page!Count, Page!ToSet, Lengths, Page!reg_len, Page!reg_num
<1>. HIDE DEF asked
<1>4. \A k \in 1 .. Len(asked) : asked[k].addr \in Nat /\ asked[k].len \in 1 .. Chunk
  <2>. DEFINE Req == [addr : Nat, len : 1 .. Chunk]
  <2>1. \A x \in Req : x.addr \in Nat /\ x.len \in 1 .. Chunk
    OBVIOUS
  <2>. HIDE DEF Req
  <2>2. asked \in Seq(Req)
    BY Zenon, <1>1 DEF Owed, Req
  <2>3. \A k \in 1 .. Len(asked) : asked[k] \in Req
    BY <2>2
  <2>. QED  BY Zenon, <2>1, <2>3
<1>5. ASSUME NEW k \in 1 .. Len(asked), NEW a \in Ins \ Page!Cut,
             a \in asked[k].addr .. asked[k].addr + asked[k].len - 1
      PROVE  a + Page!reg_len(a) <= asked[k].addr + asked[k].len
  <2>1. PICK i \in 1 .. n : a = L[i]
    BY <1>2 DEF Laid, Page!ToSet, Page!Count
  <2>2. PICK q \in 1 .. Len(asked) :
          /\ asked[q].addr <= L[i] /\ L[i] < asked[q].addr + Chunk
          /\ L[i] + w[i] <= asked[q].addr + Chunk => L[i] + w[i] <= asked[q].addr + asked[q].len
    BY Zenon, <1>1, <2>1 DEF Owed
  <2>. DEFINE begin == asked[q].addr
  <2>3. begin \in Nat
    BY Zenon, <1>4
  <2>4. ~ (/\ L[i] \in begin .. begin + Chunk - 1
           /\ L[i] + Page!reg_len(L[i]) > begin + Chunk)
    BY Zenon, <1>2, <1>3, <1>5, <2>1 DEF asked, Page!Cut
  <2>. HIDE DEF L, begin
  <2>5. L[i] \in begin .. begin + Chunk - 1
    BY <1>2, <1>3, <2>2, <2>3 DEF begin
  <2>6. L[i] + w[i] <= begin + Chunk
    BY <1>2, <1>3, <2>3, <2>4, <2>5
  <2>7. L[i] + w[i] <= asked[q].addr + asked[q].len
    BY Zenon, <2>2, <2>6 DEF begin
  <2>8. q = k
    <3>1. q < k => asked[q].addr + asked[q].len <= asked[k].addr
      BY Zenon, <1>1 DEF Owed
    <3>2. k < q => asked[k].addr + asked[k].len <= asked[q].addr
      BY Zenon, <1>1 DEF Owed
    <3>3. PICK qa, ql, ka, kl : qa = asked[q].addr /\ ql = asked[q].len /\ ka = asked[k].addr /\ kl = asked[k].len
      OBVIOUS
    <3>4. qa \in Nat /\ ql \in Nat /\ ka \in Nat /\ kl \in Nat /\ L[i] \in Nat /\ w[i] \in {1, 2}
      BY <1>2, <1>3, <1>4, <3>3
    <3>5. qa <= L[i] /\ L[i] + w[i] <= qa + ql /\ L[i] \in ka .. ka + kl - 1
      BY Zenon, <1>5, <2>1, <2>2, <2>7, <3>3 DEF L
    <3>6. (q < k => qa + ql <= ka) /\ (k < q => ka + kl <= qa)
      BY Zenon, <3>1, <3>2, <3>3
    <3>. QED  BY <1>2, <3>4, <3>5, <3>6
  <2>. QED  BY Zenon, <1>3, <2>1, <2>7, <2>8 DEF L
<1>6. ASSUME NEW k \in 1 .. Len(asked)
      PROVE  asked[k].len \in Nat
  BY <1>2, <1>4
<1>. QED  BY Zenon, <1>1, <1>4, <1>5, <1>6 DEF AsksWhole, asked

\* What is true of the page is so as long as its objects are the same.
LEMMA SamePage ==
  ASSUME made' = made
  PROVE  /\ Page!Ascending' <=> Page!Ascending
         /\ Page!Disjoint' <=> Page!Disjoint
         /\ Laid' <=> Laid
<1>1. Page!reg_info_list' = Page!reg_info_list /\ Page!obj_map' = Page!obj_map
      /\ Page!ins_list' = Page!ins_list
  BY DEF Page!reg_info_list, Page!obj_map, Page!ins_list
<1>2. Page!Ascending' <=> Page!Ascending
  BY <1>1 DEF Page!Ascending, Page!Count
<1>3. Page!Disjoint' <=> Page!Disjoint
  BY <1>1 DEF Page!Disjoint, Page!reg_len
<1>4. Laid' <=> Laid
  BY <1>1 DEF Laid, Objs, Ins
<1>. QED  BY <1>2, <1>3, <1>4

\* Neither do the objects change that lie across the end of a chunk.
LEMMA SameCut ==
  ASSUME made' = made
  PROVE  Page!Cut' = Page!Cut
<1>1. Page!RequestsFrom' = Page!RequestsFrom
  BY DEF Page!RequestsFrom, Page!Count, Page!reg_info_list, Page!reg_len_of, Page!ChunkEnd,
         Page!reg_len, Page!obj_map, Page!Least, Page!Distance
<1>2. Page!Requests' = Page!Requests
  BY Zenon, <1>1 DEF Page!Requests
<1>3. Page!reg_info_list' = Page!reg_info_list /\ Page!obj_map' = Page!obj_map
  BY DEF Page!reg_info_list, Page!obj_map
<1>. QED  BY <1>2, <1>3 DEF Page!Cut, Page!reg_len

\* So that what is true of rows, messages and registers remains true.
LEMMA StaysTrue ==
  ASSUME made' = made, NEW sh, NEW ln, NEW nd, AllTrue(sh, ln, nd)
  PROVE  AllTrue(sh, ln, nd)'
<1>1. Page!obj_map' = Page!obj_map /\ Page!ins_list' = Page!ins_list
  BY DEF Page!obj_map, Page!ins_list
<1>2. Page!Cut' = Page!Cut
  BY Zenon, SameCut
<1>3. Objs' = Objs /\ Ins' = Ins
  BY <1>1 DEF Objs, Ins
<1>4. \A a : Page!reg_len(a)' = Page!reg_len(a)
  BY <1>1 DEF Page!reg_len
<1>5. Registered' = Registered
  BY <1>3, <1>4 DEF Registered
<1>6. \A a : Order(a)' = Order(a)
  BY <1>4 DEF Order, Page!slot_request_write_reg
<1>7. \A ans, a : Page!Raw(ans, a)' = Page!Raw(ans, a)
  BY Zenon, <1>4 DEF Page!Raw
<1>8. \A a, raw : Page!slot_read_finish(a, raw)' = Page!slot_read_finish(a, raw)
  BY <1>1 DEF Page!slot_read_finish
<1>9. \A x, a : HeldIn(x, a)' = HeldIn(x, a)
  BY Zenon, <1>4, <1>7, <1>8 DEF HeldIn
<1>10. \A q : AsksWhole(q) => AsksWhole(q)'
  BY Zenon, <1>2, <1>3, <1>4 DEF AsksWhole
<1>11. \A ans, a : Tells(nd, ans, a) => Tells(nd, ans, a)'
  BY Zenon, <1>4 DEF Tells
<1>12. \A s, i : AnswerTrue(s, i, nd) => AnswerTrue(s, i, nd)'
  BY Zenon, <1>2, <1>3, <1>11 DEF AnswerTrue, AckedFrom
<1>13. \A a : HoldsOrder(nd, a) => HoldsOrder(nd, a)'
  BY Zenon, <1>4, <1>6 DEF HoldsOrder
<1>14. ASSUME NEW row, NEW w, NEW s, NEW a, RowTrue(row, w, s, nd, a)
       PROVE  RowTrue(row, w, s, nd, a)'
  <2>1. row.sent # {} => /\ a \in Ins' /\ row.sent = {Entered[a]}
                         /\ HoldsOrder(nd, a)' \/ \E i \in 1 .. Len(w) : w[i].addr = a
    BY Zenon, <1>3, <1>13, <1>14 DEF RowTrue
  <2>2. row.text = "read" /\ a \notin Page!Cut' =>
          row.value = HeldIn(nd, a)' \/ AckedFrom(s, 1, a)
    <3>1. row.text = "read" /\ a \notin Page!Cut => row.value = HeldIn(nd, a) \/ AckedFrom(s, 1, a)
      BY Zenon, <1>14 DEF RowTrue
    <3>2. HeldIn(nd, a)' = HeldIn(nd, a)
      BY Zenon, <1>9
    <3>. QED  BY <1>2, <3>1, <3>2
  <2>. QED  BY Zenon, <1>14, <2>1, <2>2 DEF RowTrue, AckedFrom
<1>15. {Order(a) : a \in Ins}' = {Order(a) : a \in Ins}
  BY Zenon, <1>3, <1>6
<1>. QED  BY Zenon, <1>3, <1>5, <1>10, <1>12, <1>14, <1>15 DEF AllTrue, IsSeq

\* The inductive invariant of the page's registers.
VInv ==
  part = "page" =>
    /\ Laid
    /\ Page!ins_list \in Seq(Ins)
    /\ table \in [read_timer : BOOLEAN, write_timer : BOOLEAN, read_index : Nat, write_index : Nat]
    /\ used \in [clicks : Nat, faults : Nat]
    /\ used.faults = 0 /\ Page!Ascending /\ Page!Disjoint => AllTrue(shown, line, node)

\* It holds of a page just opened.
LEMMA InitEstablishesVInv == PartsInit => VInv
<1>. SUFFICES ASSUME Page!Init
              PROVE  VInv
  BY DEF PartsInit, VInv
<1>1. PICK sections \in Pages : made = Page!Made(sections)
  BY DEF Page!Init
<1>2. Page!obj_map = Page!ObjMap
  BY <1>1 DEF Page!Made, Page!obj_map
<1>. DEFINE L == Page!reg_info_list
            I == Page!ins_list
<1>3. L \in Seq(DOMAIN Page!ObjMap) /\ I \in Seq(Page!ToSet(L))
  BY Zenon, <1>1, PageAssumption DEF Page!reg_info_list, Page!ins_list
<1>4. DOMAIN Page!ObjMap \subseteq Nat
      /\ \A a \in DOMAIN Page!ObjMap : Entered[a] \in Page!Limits(Page!ObjMap[a].type)
  BY Zenon, PageAssumption
<1>5. /\ Objs \subseteq Nat /\ L \in Seq(Nat)
      /\ Page!ToSet(L) \subseteq Objs /\ Ins \subseteq Page!ToSet(L) /\ I \in Seq(Ins)
  <2>. HIDE DEF L, I
  <2>1. Objs = DOMAIN Page!ObjMap
    BY Zenon, <1>2 DEF Objs
  <2>2. Page!ToSet(L) \subseteq Objs /\ L \in Seq(Nat)
    BY <1>3, <1>4, <2>1 DEF Page!ToSet
  <2>3. Page!ToSet(I) \subseteq Page!ToSet(L) /\ I \in Seq(Page!ToSet(I))
    BY <1>3 DEF Page!ToSet
  <2>. QED  BY Zenon, <1>4, <2>1, <2>2, <2>3 DEF L, I, Ins
<1>6. Laid
  <2>1. \A a \in Ins : a \in DOMAIN Page!ObjMap
    BY Zenon, <1>2, <1>5 DEF Objs
  <2>2. \A a \in Ins : Entered[a] \in Page!Limits(Page!obj_map[a].type)
    BY Zenon, <1>2, <1>4, <2>1
  <2>. QED  BY Zenon, <1>5, <2>2 DEF Laid
<1>7. /\ table \in [read_timer : BOOLEAN, write_timer : BOOLEAN, read_index : Nat, write_index : Nat]
      /\ used \in [clicks : Nat, faults : Nat]
  BY DEF Page!Init
<1>8. AllTrue(shown, line, node)
  <2>1. /\ shown = [a \in Objs |-> [value |-> 0, text |-> "", sent |-> {}]]
        /\ line = [reads |-> <<>>, writes |-> <<>>, answers |-> <<>>]
        /\ DOMAIN node = Registered
    BY Zenon DEF Page!Init, Objs, Registered
  <2>2. ASSUME NEW a \in Objs
        PROVE  RowTrue(shown[a], <<>>, <<>>, node, a)
    <3>1. PICK row : row = [value |-> 0, text |-> "", sent |-> {}]
      OBVIOUS
    <3>2. row = [value |-> row.value, text |-> row.text, sent |-> row.sent]
          /\ row.sent = {} /\ row.text # "read"
      BY <3>1
    <3>3. shown[a] = row
      BY <2>1, <3>1
    <3>. QED  BY Zenon, <3>2, <3>3 DEF RowTrue
  <2>3. /\ line = [reads |-> line.reads, writes |-> line.writes, answers |-> line.answers]
        /\ line.reads = <<>> /\ line.writes = <<>> /\ line.answers = <<>>
    BY <2>1
  <2>4. 1 .. Len(<<>>) = {}
    OBVIOUS
  <2>5. \A i \in 1 .. Len(<<>>) : FALSE
    BY <2>4
  <2>6. DOMAIN shown = Objs
    BY <2>1
  <2>. QED  BY Zenon, <2>1, <2>2, <2>3, <2>5, <2>6, EmptyIsSeq DEF AllTrue
<1>. QED  BY Zenon, <1>5, <1>6, <1>7, <1>8 DEF VInv

\* A row of a page whose objects have registers of their own is read.
LEMMA RowReads ==
  ASSUME Laid, Page!Disjoint, NEW a \in Ins, Page!ReadRow(a), AllTrue(shown, line, node)
  PROVE  AllTrue(shown', line', node)
<1>1. PICK q : q = [addr |-> a, len |-> Page!reg_len(a)]
  OBVIOUS
<1>2. PICK sh2, ln2 : sh2 = shown' /\ ln2 = line'
  OBVIOUS
<1>3. sh2 = [shown EXCEPT ![a].text = "reading"] /\ ln2 = [line EXCEPT !.reads = Append(@, q)]
  BY Zenon, <1>1, <1>2 DEF Page!ReadRow
<1>4. a \in Objs
  BY DEF Laid
<1>5. AllTrue(sh2, line, node)
  BY Zenon, <1>3, <1>4, RowBusy
<1>6. AllTrue(sh2, ln2, node)
  BY Zenon, <1>1, <1>3, <1>5, RowAsksWhole, OneMoreRead
<1>. QED  BY Zenon, <1>2, <1>6

\* A row is written.
LEMMA RowIsWritten ==
  ASSUME Laid, NEW a \in Ins, Page!WriteRow(a, Entered[a]), AllTrue(shown, line, node)
  PROVE  AllTrue(shown', line', node)
<1>1. PICK sh2, ln2 : sh2 = shown' /\ ln2 = line'
  OBVIOUS
<1>2. a \in Objs
  BY DEF Laid
<1>3. CASE /\ sh2 = [shown EXCEPT ![a].text = "writing", ![a].sent = {Entered[a]}]
           /\ ln2 = [line EXCEPT !.writes = Append(@, Order(a))]
  <2>1. AllTrue(sh2, ln2, node)
    BY Zenon, <1>2, <1>3, RowWrites
  <2>. QED  BY Zenon, <1>1, <2>1
<1>4. CASE sh2 = [shown EXCEPT ![a].text = "writing"] /\ ln2 = line
  BY Zenon, <1>1, <1>2, <1>4, RowBusy
<1>. QED  BY Zenon, <1>1, <1>3, <1>4 DEF Page!WriteRow, Order

\* An answer is taken in.
LEMMA AnswerComesIn ==
  ASSUME Laid, Page!Received, AllTrue(shown, line, node)
  PROVE  AllTrue(shown', line', node)
<1>1. PICK sh2, ln2 : sh2 = shown' /\ ln2 = line'
  OBVIOUS
<1>2. line.answers # <<>> /\ ln2 = [line EXCEPT !.answers = Tail(@)]
  BY Zenon, <1>1 DEF Page!Received
<1>3. CASE Head(line.answers).written
  <2>1. PICK text : text = IF Head(line.answers).addr \in Ins THEN "written" ELSE ""
    OBVIOUS
  <2>2. sh2 = [shown EXCEPT ![Head(line.answers).addr].text = text]
    BY Zenon, <1>1, <1>3, <2>1 DEF Page!Received, Ins
  <2>3. text \in {"written", ""}
    BY <2>1
  <2>. QED  BY Zenon, <1>1, <1>2, <1>3, <2>2, <2>3, WrittenComesIn
<1>4. CASE ~ Head(line.answers).written
  <2>1. sh2 = TakenIn(shown, Head(line.answers))
    BY Zenon, <1>1, <1>4 DEF Page!Received, TakenIn, Ins
  <2>. QED  BY Zenon, <1>1, <1>2, <1>4, <2>1, ReadComesIn
<1>. QED  BY <1>3, <1>4

\* The node reads or writes.
LEMMA BusKeepsTrue ==
  ASSUME Laid, Page!Disjoint, Page!Bus, AllTrue(shown, line, node)
  PROVE  AllTrue(shown', line', node')
<1>1. PICK ln2, nd2 : ln2 = line' /\ nd2 = node'
  OBVIOUS
<1>2. CASE Page!NodeReads
  <2>1. PICK e : e = ReadAnswer(node, Head(line.reads))
    OBVIOUS
  <2>2. /\ line.reads # <<>> /\ \A i \in DOMAIN line.answers : line.answers[i].written
        /\ ln2 = [line EXCEPT !.reads = Tail(@), !.answers = Append(@, e)]
        /\ shown' = shown /\ node' = node
    BY Zenon, <1>1, <1>2, <2>1 DEF Page!NodeReads, ReadAnswer, WordAt
  <2>. QED  BY Zenon, <1>1, <2>1, <2>2, NodeAnswersRead
<1>3. CASE Page!NodeWrites
  <2>1. PICK q : q = Head(line.writes)
    OBVIOUS
  <2>2. PICK e : e = [written |-> TRUE, addr |-> q.addr, words |-> <<>>]
    OBVIOUS
  <2>3. /\ line.writes # <<>> /\ nd2 = Written(node, q)
        /\ ln2 = [line EXCEPT !.writes = Tail(@), !.answers = Append(@, e)]
        /\ shown' = shown
    BY Zenon, <1>1, <1>3, <2>1, <2>2 DEF Page!NodeWrites, Written
  <2>4. AllTrue(shown, ln2, nd2)
    BY Zenon, <2>1, <2>2, <2>3, NodeAnswersWrite
  <2>. QED  BY Zenon, <1>1, <2>3, <2>4
<1>. QED  BY <1>2, <1>3 DEF Page!Bus

\* Each step of the page.
LEMMA StepKeepsTrue ==
  ASSUME Laid, Page!ins_list \in Seq(Ins),
         table \in [read_timer : BOOLEAN, write_timer : BOOLEAN, read_index : Nat, write_index : Nat],
         used \in [clicks : Nat, faults : Nat], Page!Next
  PROVE  /\ made' = made
         /\ table' \in [read_timer : BOOLEAN, write_timer : BOOLEAN, read_index : Nat, write_index : Nat]
         /\ used' \in [clicks : Nat, faults : Nat]
         /\ used'.faults = 0 => used.faults = 0
         /\ used'.faults = 0 /\ Page!Ascending /\ Page!Disjoint /\ AllTrue(shown, line, node) =>
              AllTrue(shown', line', node')
<1>. DEFINE Tables == [read_timer : BOOLEAN, write_timer : BOOLEAN, read_index : Nat, write_index : Nat]
            Counted == [clicks : Nat, faults : Nat]
            Goal == /\ made' = made /\ table' \in Tables /\ used' \in Counted
                    /\ used'.faults = 0 => used.faults = 0
                    /\ used'.faults = 0 /\ Page!Ascending /\ Page!Disjoint /\ AllTrue(shown, line, node) =>
                         AllTrue(shown', line', node')
<1>. SUFFICES Goal
  OBVIOUS
<1>1. Page!Click => used' \in Counted /\ used'.faults = used.faults
  BY DEF Page!Click
<1>2. Page!Fault => used' \in Counted /\ used'.faults # 0
  BY DEF Page!Fault
<1>3. table \in Tables /\ used \in Counted
  OBVIOUS
<1>4. \A x \in BOOLEAN : /\ [table EXCEPT !.read_timer = x] \in Tables
                         /\ [table EXCEPT !.write_timer = x] \in Tables
                         /\ [table EXCEPT !.read_timer = x, !.read_index = 0] \in Tables
                         /\ [table EXCEPT !.write_timer = x, !.write_index = 0] \in Tables
  OBVIOUS
<1>5. /\ [table EXCEPT !.read_index = @ + 1] \in Tables
      /\ [table EXCEPT !.write_index = @ + 1] \in Tables
      /\ table.read_index \in Nat /\ table.write_index \in Nat
  OBVIOUS
<1>6. TRUE \in BOOLEAN /\ FALSE \in BOOLEAN
  OBVIOUS
<1>7. \A k \in Nat : k < Len(Page!ins_list) => Page!ins_list[k + 1] \in Ins
  <2>. DEFINE I == Page!ins_list
              S == Ins
  <2>1. I \in Seq(S)
    OBVIOUS
  <2>. HIDE DEF I, S
  <2>2. \A k \in Nat : k < Len(I) => I[k + 1] \in S
    BY <2>1
  <2>. QED  BY Zenon, <2>2 DEF I, S
<1>. HIDE DEF Tables, Counted
<1>8. ASSUME NEW timer, NEW index, Page!slot_auto_read_timeout(timer, index),
             Page!Ascending, AllTrue(shown, line, node)
      PROVE  AllTrue(shown, line', node)
  <2>1. PICK ln2 : ln2 = line'
    OBVIOUS
  <2>2. PICK t : t = Page!Requests
    OBVIOUS
  <2>3. ln2 = line \/ ln2 = [line EXCEPT !.reads = @ \o t]
    BY Zenon, <1>8, <2>1, <2>2, TimeoutAsks
  <2>4. IsSeq(t) /\ \A k \in 1 .. Len(t) : AsksWhole(t[k])
    BY Zenon, <1>8, <2>2, BurstAsksWhole DEF Laid
  <2>5. AllTrue(shown, ln2, node)
    BY Zenon, <1>8, <2>3, <2>4, MoreReads
  <2>. QED  BY Zenon, <2>1, <2>5
<1>9. CASE Page!AutoReadTimeout \/ Page!showEvent
  BY Zenon, <1>1, <1>3, <1>8, <1>9 DEF Page!AutoReadTimeout, Page!showEvent
<1>10. CASE \/ Page!hideEvent \/ Page!on_checkBox_stateChanged
            \/ Page!on_updatePeriodSpinBox_valueChanged \/ Page!on_autoReadCheckBox_stateChanged
            \/ Page!on_readAllBtn_clicked \/ Page!on_writeAllBtn_clicked
  BY Zenon, <1>1, <1>3, <1>4, <1>6, <1>10
     DEF Page!hideEvent, Page!on_checkBox_stateChanged,
         Page!on_updatePeriodSpinBox_valueChanged, Page!on_autoReadCheckBox_stateChanged,
         Page!on_readAllBtn_clicked, Page!on_writeAllBtn_clicked
<1>11. CASE Page!RowClicked
  <2>1. PICK a \in Ins : Page!ReadRow(a) \/ Page!WriteRow(a, Entered[a])
    BY Zenon, <1>11 DEF Page!RowClicked, Ins
  <2>2. /\ Page!Click /\ made' = made /\ table' = table /\ node' = node
    BY Zenon, <1>11 DEF Page!RowClicked
  <2>. QED  BY Zenon, <1>1, <1>3, <2>1, <2>2, RowReads, RowIsWritten
<1>12. CASE Page!slot_read_timeout
  <2>1. /\ made' = made /\ node' = node /\ used' = used
    BY Zenon, <1>12 DEF Page!slot_read_timeout
  <2>2. \/ /\ table.read_index < Len(Page!ins_list)
           /\ Page!ReadRow(Page!ins_list[table.read_index + 1])
           /\ table' = [table EXCEPT !.read_index = @ + 1]
        \/ table' = [table EXCEPT !.read_timer = FALSE] /\ shown' = shown /\ line' = line
    BY Zenon, <1>12 DEF Page!slot_read_timeout
  <2>. QED  BY Zenon, <1>3, <1>4, <1>5, <1>6, <1>7, <2>1, <2>2, RowReads
<1>13. CASE Page!slot_write_timeout
  <2>1. /\ made' = made /\ node' = node /\ used' = used
    BY Zenon, <1>13 DEF Page!slot_write_timeout
  <2>2. \/ /\ table.write_index < Len(Page!ins_list)
           /\ LET a == Page!ins_list[table.write_index + 1] IN Page!WriteRow(a, Entered[a])
           /\ table' = [table EXCEPT !.write_index = @ + 1]
        \/ table' = [table EXCEPT !.write_timer = FALSE] /\ shown' = shown /\ line' = line
    BY Zenon, <1>13 DEF Page!slot_write_timeout
  <2>. QED  BY Zenon, <1>3, <1>4, <1>5, <1>6, <1>7, <2>1, <2>2, RowIsWritten
<1>14. CASE Page!Received
  <2>1. /\ made' = made /\ node' = node /\ used' = used /\ table' = table
    BY Zenon, <1>14 DEF Page!Received
  <2>. QED  BY Zenon, <1>3, <1>14, <2>1, AnswerComesIn
<1>15. CASE Page!Bus
  <2>1. /\ made' = made /\ used' = used /\ table' = table
    BY Zenon, <1>15 DEF Page!Bus, Page!NodeReads, Page!NodeWrites
  <2>. QED  BY Zenon, <1>3, <1>15, <2>1, BusKeepsTrue
<1>16. CASE Page!Disturbance
  <2>1. /\ made' = made /\ Page!Fault /\ table' = table
    BY Zenon, <1>16 DEF Page!Disturbance
  <2>. QED  BY Zenon, <1>2, <1>3, <2>1
<1>. HIDE DEF Goal
<1>. QED  BY Zenon, <1>9, <1>10, <1>11, <1>12, <1>13, <1>14, <1>15, <1>16 DEF Page!Next

\* And each step keeps it.
LEMMA StepPreservesVInv == VInv /\ [PartsNext]_vars => VInv'
<1>. SUFFICES ASSUME VInv, [PartsNext]_vars, part' = "page"
              PROVE  VInv'
  BY DEF VInv
<1>1. part = "page"
  BY DEF PartsNext, vars
<1>. DEFINE Tables == [read_timer : BOOLEAN, write_timer : BOOLEAN, read_index : Nat, write_index : Nat]
            Counted == [clicks : Nat, faults : Nat]
<1>2. /\ Laid /\ Page!ins_list \in Seq(Ins) /\ table \in Tables /\ used \in Counted
      /\ used.faults = 0 /\ Page!Ascending /\ Page!Disjoint => AllTrue(shown, line, node)
  BY Zenon, <1>1 DEF VInv
<1>3. /\ made' = made /\ table' \in Tables /\ used' \in Counted
      /\ used'.faults = 0 => used.faults = 0
      /\ used'.faults = 0 /\ Page!Ascending /\ Page!Disjoint /\ AllTrue(shown, line, node) =>
           AllTrue(shown', line', node')
  <2>1. CASE Page!Next
    BY Zenon, <1>2, <2>1, StepKeepsTrue
  <2>2. CASE UNCHANGED pageVars
    BY Zenon, <1>2, <2>2 DEF pageVars
  <2>. QED  BY <1>1, <2>1, <2>2 DEF PartsNext, vars
<1>. HIDE DEF Tables, Counted
<1>4. Laid' /\ (Page!Ascending' <=> Page!Ascending) /\ (Page!Disjoint' <=> Page!Disjoint)
  BY Zenon, <1>2, <1>3, SamePage
<1>5. (Page!ins_list \in Seq(Ins))'
  <2>1. Page!ins_list' = Page!ins_list
    BY <1>3 DEF Page!ins_list
  <2>2. Ins' = Ins
    BY <2>1 DEF Ins
  <2>. QED  BY Zenon, <1>2, <2>1, <2>2
<1>6. ASSUME used'.faults = 0, Page!Ascending', Page!Disjoint'
      PROVE  AllTrue(shown, line, node)'
  <2>1. AllTrue(shown', line', node')
    BY Zenon, <1>2, <1>3, <1>4, <1>6
  <2>2. PICK sh2, ln2, nd2 : sh2 = shown' /\ ln2 = line' /\ nd2 = node'
    OBVIOUS
  <2>3. AllTrue(sh2, ln2, nd2)
    BY Zenon, <2>1, <2>2
  <2>4. AllTrue(sh2, ln2, nd2)'
    BY Zenon, <1>3, <2>3, StaysTrue
  <2>. QED  BY Zenon, <2>2, <2>4
<1>. QED  BY Zenon, <1>3, <1>4, <1>5, <1>6 DEF VInv, Tables, Counted

\* The words that are sent for an object, one for each of its registers.
LEMMA WordsByPlace ==
  ASSUME NEW a, NEW v
  PROVE  LET g == Page!slot_request_write_reg(a, v)
         IN  g = [i \in 1 .. Page!reg_len(a) |-> g[i]]
<1>. DEFINE g == Page!slot_request_write_reg(a, v)
<1>1. PICK x, y : (Page!reg_len(a) = 1 => g = <<x>>) /\ (Page!reg_len(a) # 1 => g = <<x, y>>)
  BY DEF Page!slot_request_write_reg
<1>2. Page!reg_len(a) # 1 => Page!reg_len(a) = 2
  BY DEF Page!reg_len, Page!reg_num
<1>. SUFFICES g = [i \in 1 .. Page!reg_len(a) |-> g[i]]
  BY Zenon
<1>. HIDE DEF g
<1>3. CASE Page!reg_len(a) = 1
  <2>1. g = <<x>>
    BY Zenon, <1>1, <1>3
  <2>2. g = [i \in 1 .. 1 |-> g[i]]
    BY <2>1
  <2>. QED  BY Zenon, <1>3, <2>2
<1>4. CASE Page!reg_len(a) # 1
  <2>1. g = <<x, y>>
    BY Zenon, <1>1, <1>4
  <2>2. g = [i \in 1 .. 2 |-> g[i]]
    BY <2>1
  <2>. QED  BY Zenon, <1>2, <1>4, <2>2
<1>. QED  BY <1>3, <1>4

\* However many acts of the operator, time-outs and messages there are, with no
\* answer lost or overtaken and nothing on its way the registers hold what was
\* last written, as the number that was typed, and a row that says it has been
\* read shows what they hold, for every layout of a page that lists its objects
\* in order, each in registers of its own, and every size of a register
\* (dataobj.cpp, slot_request_write_reg and slot_read_finish).
THEOREM PageValuesReturn == PartsSpec => [](part = "page" => Page!ValuesReturn)
<1>1. VInv => (part = "page" => Page!ValuesReturn)
  <2>. SUFFICES ASSUME VInv, part = "page", Page!AtRest, used.faults = 0, Page!Ascending, Page!Disjoint,
                       NEW a \in DOMAIN shown
                PROVE  /\ \A v \in shown[a].sent : HeldIn(node, a) = v
                       /\ shown[a].text = "read" /\ a \notin Page!Cut => shown[a].value = HeldIn(node, a)
    BY Zenon DEF Page!ValuesReturn, HeldIn
  <2>1. Laid /\ AllTrue(shown, line, node)
    BY Zenon DEF VInv
  <2>2. line.writes = <<>> /\ line.answers = <<>>
    BY Zenon DEF Page!AtRest
  <2>3. a \in Objs /\ RowTrue(shown[a], <<>>, <<>>, node, a)
    BY Zenon, <2>1, <2>2 DEF AllTrue
  <2>4. \A i \in 1 .. Len(<<>>) : FALSE
    OBVIOUS
  <2>5. ~ AckedFrom(<<>>, 1, a)
    BY Zenon, <2>4 DEF AckedFrom
  <2>6. ASSUME NEW v \in shown[a].sent
        PROVE  HeldIn(node, a) = v
    <3>1. a \in Ins /\ v = Entered[a] /\ HoldsOrder(node, a)
      <4>1. shown[a].sent # {}
        OBVIOUS
      <4>2. a \in Ins /\ shown[a].sent = {Entered[a]} /\ HoldsOrder(node, a)
        BY Zenon, <2>3, <2>4, <4>1 DEF RowTrue
      <4>. QED  BY <4>2
    <3>2. a \in Nat /\ Entered[a] \in Page!Limits(Page!obj_map[a].type)
      BY Zenon, <2>1, <2>3, <3>1 DEF Laid
    <3>. DEFINE f == [i \in 1 .. Page!reg_len(a) |-> node[a + i - 1]]
                g == Page!slot_request_write_reg(a, Entered[a])
    <3>3. Order(a).words = g
      BY DEF Order
    <3>4. f = g
      <4>1. g = [i \in 1 .. Page!reg_len(a) |-> g[i]]
        BY Zenon, WordsByPlace
      <4>2. \A i \in 1 .. Page!reg_len(a) : node[a + i - 1] = g[i]
        BY Zenon, <3>1, <3>3 DEF HoldsOrder
      <4>. HIDE DEF g
      <4>. QED  BY Zenon, <4>1, <4>2
    <3>5. Page!slot_read_finish(a, Page!Raw([addr |-> a, words |-> g], a)) = Entered[a]
      BY Zenon, <3>2, PageAssumption, NumberReturns
    <3>. HIDE DEF f, g
    <3>. QED  BY Zenon, <3>1, <3>4, <3>5 DEF HeldIn, f
  <2>7. shown[a].text = "read" /\ a \notin Page!Cut => shown[a].value = HeldIn(node, a)
    BY Zenon, <2>3, <2>5 DEF RowTrue
  <2>. QED  BY <2>6, <2>7
<1>. QED  BY <1>1, InitEstablishesVInv, StepPreservesVInv, PTL DEF PartsSpec

-----------------------------------------------------------------------------
(* MsgCodec, as a part. *)

LEMMA CodecPartKeepsInv ==
  /\ PartsInit => (part = "codec" => CodecInv)
  /\ (part = "codec" => CodecInv) /\ [PartsNext]_vars => (part = "codec" => CodecInv)'
<1>1. ASSUME PartsInit, part = "codec"
      PROVE  CodecInv
  BY <1>1, InitEstablishesCodecInv DEF PartsInit
<1>2. ASSUME part = "codec" => CodecInv, [PartsNext]_vars, part' = "codec"
      PROVE  CodecInv'
  <2>1. part = "codec" /\ CodecInv
    BY <1>2 DEF PartsNext, vars
  <2>2. CodecNext \/ UNCHANGED codecVars
    BY <1>2, <2>1 DEF PartsNext, vars
  <2>. QED  BY <2>1, <2>2, StepPreservesCodecInv
<1>. QED  BY <1>1, <1>2

\* Numbers survive the way out and back, in the registers of a page and in the
\* fields of a message, where every copy of bits is what it should be
\* (dataobj.cpp, msgdata.cpp and canard_dsdl.c).
THEOREM ValuesAreReturned == PartsSpec => []ValuesReturn
<1>1. (part = "codec" => CodecInv) => (part = "codec" => BitsCopied /\ NumbersReturn)
  BY CodecInvShows
<1>2. (part = "page" => Page!ValuesReturn) /\ (part = "codec" => BitsCopied /\ NumbersReturn)
        <=> ValuesReturn
  BY DEF ValuesReturn
<1>. QED  BY <1>1, <1>2, CodecPartKeepsInv, PageValuesReturn, PTL DEF PartsSpec

-----------------------------------------------------------------------------
(* The types of the parts. *)

ThreadState == [pc : {"idle", "look", "test", "falling", "asleep", "lock", "crashed"},
                method : Methods, e : Elements \cup {None}]

\* Of the queue: who is in a method brings an element, whichever method it is.
QTypes ==
  part = "queue" =>
    /\ queue \in Seq(Elements)
    /\ mCapacity \in Capacities
    /\ th \in [Threads -> ThreadState]
    /\ \A t \in Threads : th[t].pc # "idle" => th[t].e \in Elements

\* What removeAll leaves are elements: its k-th place is one of those kept.
LEMMA RemovedAreElements ==
  ASSUME NEW list \in Seq(Elements), NEW e
  PROVE  removeAll(list, e) \in Seq(Elements)
<1>. DEFINE kept == {i \in DOMAIN list : list[i] # e}
            place(k) == CHOOSE i \in kept : Cardinality({j \in kept : j < i}) = k - 1
            n == Cardinality(kept)
            r == [k \in 1 .. n |-> list[place(k)]]
<1>1. kept \subseteq Nat /\ IsFiniteSet(kept) /\ \A i \in kept : list[i] \in Elements
  <2>1. Len(list) \in Nat /\ DOMAIN list = 1 .. Len(list)
        /\ \A i \in DOMAIN list : list[i] \in Elements
    OBVIOUS
  <2>2. IsFiniteSet(1 .. Len(list)) /\ kept \subseteq 1 .. Len(list)
    BY <2>1, FS_Interval
  <2>. QED  BY <2>1, <2>2, FS_Subset
<1>2. removeAll(list, e) = r
  BY DEF removeAll
<1>. HIDE DEF kept
<1>3. n \in Nat
  BY <1>1, FS_CardinalityType
<1>4. ASSUME NEW k \in 1 .. n
      PROVE  list[place(k)] \in Elements
  <2>1. k - 1 \in Nat /\ k - 1 < n
    BY <1>3
  <2>2. \E i \in kept : Cardinality({j \in kept : j < i}) = k - 1
    BY Zenon, <1>1, <1>3, <2>1, NthIsThere
  <2>3. place(k) \in kept
    BY Zenon, <2>2
  <2>. QED  BY Zenon, <1>1, <2>3
<1>. HIDE DEF place, n
<1>5. r \in Seq(Elements)
  BY <1>3, <1>4
<1>. QED  BY Zenon, <1>2, <1>5

\* A thread that goes on keeps its element; one that leaves brings none.
LEMMA ThreadStates ==
  ASSUME NEW u \in ThreadState
  PROVE  /\ \A to \in {"lock", "test", "falling", "asleep", "crashed"} :
              [u EXCEPT !.pc = to] \in ThreadState /\ [u EXCEPT !.pc = to].e = u.e
         /\ Idle \in ThreadState /\ Idle.pc = "idle"
BY DEF ThreadState, Idle, Methods, Waits, Others

\* Whatever a method leaves in the list, somebody has brought.
LEMMA QueueTypes ==
  /\ PartsInit => QTypes
  /\ QTypes /\ [PartsNext]_vars => QTypes'
<1>1. PartsInit => QTypes
  <2>. SUFFICES ASSUME QueueInit
                PROVE  QTypes
    BY DEF PartsInit, QTypes
  <2>1. Idle \in ThreadState /\ Idle.pc = "idle"
    BY DEF ThreadState, Idle, Methods, Waits, Others
  <2>. QED  BY <2>1 DEF QueueInit, QTypes
<1>2. ASSUME QTypes, [PartsNext]_vars, part' = "queue"
      PROVE  QTypes'
  <2>1. part = "queue" /\ (QueueNext \/ UNCHANGED queueVars)
    BY <1>2 DEF PartsNext, vars
  <2>. DEFINE Filled(q, c, h) ==
                /\ q \in Seq(Elements) /\ c \in Capacities /\ h \in [Threads -> ThreadState]
                /\ \A t \in Threads : h[t].pc # "idle" => h[t].e \in Elements
  <2>2. Filled(queue, mCapacity, th)
    BY Zenon, <1>2, <2>1 DEF QTypes
  <2>. SUFFICES Filled(queue', mCapacity', th')
    BY Zenon DEF QTypes
  <2>3. CASE UNCHANGED queueVars
    BY Zenon, <2>2, <2>3 DEF queueVars
  <2>4. ASSUME NEW t \in Threads, NEW to \in {"lock", "test", "falling", "asleep", "crashed"},
               th[t].pc # "idle", Goto(t, to), UNCHANGED <<queue, mCapacity, flag>>
        PROVE  Filled(queue', mCapacity', th')
    <3>1. th[t] \in ThreadState /\ th[t].e \in Elements
      BY <2>2, <2>4
    <3>2. PICK u : u = [th[t] EXCEPT !.pc = to]
      OBVIOUS
    <3>3. u \in ThreadState /\ u.e \in Elements
      BY Zenon, <2>4, <3>1, <3>2, ThreadStates
    <3>4. th' = [th EXCEPT ![t] = u]
      BY Zenon, <2>4, <3>2 DEF Goto
    <3>5. th' \in [Threads -> ThreadState]
      BY Zenon, <2>2, <3>3, <3>4
    <3>6. \A x \in Threads : th'[x] = IF x = t THEN u ELSE th[x]
      BY <2>2, <3>4
    <3>. QED  BY Zenon, <2>2, <2>4, <3>3, <3>5, <3>6
  <2>5. ASSUME NEW t \in Threads, NEW list \in Seq(Elements), NEW capacity \in Capacities, NEW events,
               Leave(t, list, capacity, events)
        PROVE  Filled(queue', mCapacity', th')
    <3>1. ASSUME NEW x \in Threads
          PROVE  /\ th'[x] \in ThreadState
                 /\ th'[x].pc # "idle" => th'[x].e \in Elements
      <4>1. th[x] \in ThreadState /\ (th[x].pc # "idle" => th[x].e \in Elements)
        BY <2>2
      <4>2. th'[x] = Idle \/ (th[x].pc = "asleep" /\ th'[x] = [th[x] EXCEPT !.pc = "test"])
            \/ th'[x] = th[x]
        BY <2>5 DEF Leave
      <4>3. CASE th[x].pc = "asleep" /\ th'[x] = [th[x] EXCEPT !.pc = "test"]
        <5>1. th[x].e \in Elements
          BY <4>1, <4>3
        <5>2. th'[x] \in ThreadState /\ th'[x].e = th[x].e
          BY Zenon, <4>1, <4>3, ThreadStates
        <5>. QED  BY <5>1, <5>2
      <4>. QED  BY Zenon, <4>1, <4>2, <4>3, ThreadStates
    <3>2. queue' = list /\ mCapacity' = capacity /\ th' = [x \in Threads |-> th'[x]]
      BY <2>5 DEF Leave
    <3>3. th' \in [Threads -> ThreadState]
      BY Zenon, <3>1, <3>2
    <3>. QED  BY Zenon, <3>1, <3>2, <3>3
  <2>6. ASSUME NEW t \in Threads, NEW m \in Methods, NEW e \in Elements, Call(t, m, e)
        PROVE  Filled(queue', mCapacity', th')
    <3>1. PICK u : u = [pc |-> IF m \in Others THEN "lock" ELSE "look", method |-> m, e |-> e]
      OBVIOUS
    <3>2. u \in ThreadState /\ u.e \in Elements
      BY <3>1 DEF ThreadState
    <3>3. th' = [th EXCEPT ![t] = u] /\ UNCHANGED <<queue, mCapacity, flag>>
      BY Zenon, <2>6, <3>1 DEF Call
    <3>4. th' \in [Threads -> ThreadState]
      BY Zenon, <2>2, <3>2, <3>3
    <3>5. \A x \in Threads : th'[x] = IF x = t THEN u ELSE th[x]
      BY <2>2, <3>3
    <3>. QED  BY Zenon, <2>2, <3>2, <3>3, <3>4, <3>5
  <2>7. ASSUME NEW t \in Threads, NEW methods, Locked(t, methods)
        PROVE  th[t].pc # "idle" /\ th[t].e \in Elements
    <3>1. th[t].pc # "idle"
      BY <2>7 DEF Locked
    <3>. QED  BY Zenon, <2>2, <3>1
  <2>. HIDE DEF Filled
  <2>8. queue \in Seq(Elements) /\ mCapacity \in Capacities
    BY Zenon, <2>2 DEF Filled
  <2>9. ASSUME NEW t \in Threads, Look(t) \/ Test(t) \/ FallAsleep(t)
        PROVE  Filled(queue', mCapacity', th')
    <3>1. th[t].pc # "idle" /\ UNCHANGED <<queue, mCapacity, flag>>
      BY <2>9 DEF Look, Test, FallAsleep
    <3>2. \E to \in {"lock", "test", "falling", "asleep", "crashed"} : Goto(t, to)
      BY <2>9 DEF Look, Test, FallAsleep
    <3>. QED  BY Zenon, <2>4, <3>1, <3>2
  <2>10. ASSUME NEW t \in Threads, Insert(t)
         PROVE  Filled(queue', mCapacity', th')
    <3>1. PICK e \in Elements : e = th[t].e
      BY Zenon, <2>7, <2>10 DEF Insert
    <3>2. Append(queue, e) \in Seq(Elements) /\ <<e>> \o queue \in Seq(Elements)
      BY <2>8
    <3>3. \E events : \/ Leave(t, Append(queue, e), mCapacity, events)
                      \/ Leave(t, <<e>> \o queue, mCapacity, events)
      BY Zenon, <2>10, <3>1 DEF Insert
    <3>. QED  BY Zenon, <2>5, <2>8, <3>2, <3>3
  <2>11. ASSUME NEW t \in Threads, get(t)
         PROVE  Filled(queue', mCapacity', th')
    <3>1. CASE queue = <<>>
      BY Zenon, <2>4, <2>7, <2>11, <3>1 DEF get
    <3>2. CASE queue # <<>>
      <4>1. Tail(queue) \in Seq(Elements)
        BY <2>8, <3>2
      <4>2. \E events : Leave(t, Tail(queue), mCapacity, events)
        BY Zenon, <2>11, <3>2 DEF get
      <4>. QED  BY Zenon, <2>5, <2>8, <4>1, <4>2
    <3>. QED  BY <3>1, <3>2
  <2>12. ASSUME NEW t \in Threads, clear(t)
         PROVE  Filled(queue', mCapacity', th')
    <3>1. <<>> \in Seq(Elements)
      OBVIOUS
    <3>2. \E events : Leave(t, <<>>, mCapacity, events)
      BY Zenon, <2>12 DEF clear
    <3>. QED  BY Zenon, <2>5, <2>8, <3>1, <3>2
  <2>13. ASSUME NEW t \in Threads, remove(t)
         PROVE  Filled(queue', mCapacity', th')
    <3>1. PICK list : list = removeAll(queue, th[t].e)
      OBVIOUS
    <3>2. list \in Seq(Elements)
      BY Zenon, <2>8, <3>1, RemovedAreElements
    <3>3. \E events : Leave(t, list, mCapacity, events)
      BY Zenon, <2>13, <3>1 DEF remove
    <3>. QED  BY Zenon, <2>5, <2>8, <3>2, <3>3
  <2>14. ASSUME NEW t \in Threads, setCapacity(t)
         PROVE  Filled(queue', mCapacity', th')
    <3>1. \E capacity \in Capacities : \E events : Leave(t, queue, capacity, events)
      BY Zenon, <2>14 DEF setCapacity
    <3>. QED  BY Zenon, <2>5, <2>8, <3>1
  <2>15. CASE QueueNext
    BY Zenon, <2>6, <2>9, <2>10, <2>11, <2>12, <2>13, <2>14, <2>15 DEF QueueNext, Step
  <2>. QED  BY <2>1, <2>3, <2>15
<1>. QED  BY Zenon, <1>1, <1>2 DEF QTypes

\* What the program and the files may hold of a kind.
OfKind(k) ==
  IF k = "cfg" THEN Settings \cup {Save!Default.cfg}
  ELSE Values \cup {Save!toInt(v) : v \in Values} \cup {Save!Default.obj}

\* Of the settings and values: the program has one of each kind, a file none or
\* one of its kind.
STypes ==
  part = "save" =>
    /\ phase \in {"off", "up", "cfg", "cfg saved", "obj"}
    /\ now = [cfg |-> now.cfg, obj |-> now.obj]
    /\ DOMAIN files = Save!Kinds
    /\ \A k \in Save!Kinds :
         /\ now[k] \in OfKind(k)
         /\ files[k] \in {Save!Absent, Save!Broken} \cup {Save!Json(v) : v \in OfKind(k)}

\* A number that is an int comes back as it is, from then on.
LEMMA OncePerNumber ==
  ASSUME NEW v \in OfKind("obj")
  PROVE  Save!toInt(v) \in OfKind("obj")
<1>1. IntSize \in Nat /\ IntSize \div 2 \in Nat /\ IntSize \div 2 > 0
      /\ IntSize - (IntSize \div 2) <= (IntSize \div 2) + 1
  BY PartsAssumption
<1>2. PICK h : h = IntSize \div 2
  OBVIOUS
<1>3. \A u \in Values : u \in Int /\ u < IntSize
  <2>1. Values \subseteq - h .. IntSize - 1 /\ h \in Nat
    BY <1>1, <1>2, PartsAssumption
  <2>. QED  BY <1>1, <2>1
<1>4. Save!toInt(0) = 0
  BY <1>1 DEF Save!toInt
<1>5. CASE v \in Values
  BY <1>5 DEF OfKind
<1>6. ASSUME NEW u \in Values, v = Save!toInt(u)
      PROVE  Save!toInt(v) = v
  <2>1. u \in Int /\ u < IntSize /\ h \in Nat /\ h > 0
    BY <1>1, <1>2, <1>3
  <2>2. v = IF u >= h THEN u - IntSize ELSE u
    BY <1>2, <1>6 DEF Save!toInt
  <2>3. ~ (v >= h)
    BY <1>1, <2>1, <2>2
  <2>. QED  BY <1>2, <2>3 DEF Save!toInt
<1>7. v \in Values \/ (\E u \in Values : v = Save!toInt(u)) \/ v = 0
  BY DEF OfKind, Save!Default
<1>. QED  BY Zenon, <1>4, <1>5, <1>6, <1>7

\* What is loaded is of its kind.
LEMMA LoadedIsOfKind ==
  ASSUME NEW k \in Save!Kinds,
         files[k] \in {Save!Absent, Save!Broken} \cup {Save!Json(v) : v \in OfKind(k)}
  PROVE  Save!load(k) \in OfKind(k)
<1>1. k = "cfg" \/ k = "obj"
  BY DEF Save!Kinds
<1>2. CASE files[k] = Save!Absent \/ files[k] = Save!Broken
  <2>1. Save!load(k) = Save!Default[k]
    BY <1>2, LoadBroken
  <2>. QED  BY <1>1, <2>1 DEF OfKind, Save!Default
<1>3. ASSUME NEW v \in OfKind(k), files[k] = Save!Json(v)
      PROVE  Save!load(k) \in OfKind(k)
  <2>1. Save!load(k) = Save!Back(k, v)
    BY <1>3, LoadJson
  <2>2. CASE k = "obj"
    <3>1. Save!Back(k, v) = Save!toInt(v)
      BY <2>2 DEF Save!Back
    <3>. QED  BY Zenon, <1>3, <2>1, <2>2, <3>1, OncePerNumber
  <2>3. CASE k = "cfg"
    <3>1. Save!Back(k, v) = v
      BY <2>3 DEF Save!Back
    <3>. QED  BY Zenon, <1>3, <2>1, <3>1
  <2>. QED  BY <1>1, <2>2, <2>3
<1>. QED  BY <1>2, <1>3

\* A start loads what is of its kind, and an end saves it.
LEMMA SaveTypes ==
  /\ PartsInit => STypes
  /\ STypes /\ [PartsNext]_vars => STypes'
<1>1. PartsInit => STypes
  <2>. SUFFICES ASSUME Save!Init
                PROVE  STypes
    BY DEF PartsInit, STypes
  <2>1. now = [cfg |-> now.cfg, obj |-> now.obj] /\ \A k \in Save!Kinds : now[k] \in OfKind(k)
    BY DEF Save!Init, Save!Default, OfKind, Save!Kinds
  <2>. QED  BY <2>1 DEF Save!Init, STypes
<1>2. ASSUME STypes, [PartsNext]_vars, part' = "save"
      PROVE  STypes'
  <2>1. part = "save" /\ (Save!Next \/ UNCHANGED saveVars)
    BY <1>2 DEF PartsNext, vars
  <2>. DEFINE Phases == {"off", "up", "cfg", "cfg saved", "obj"}
              File(k) == {Save!Absent, Save!Broken} \cup {Save!Json(v) : v \in OfKind(k)}
              Now(n) == n = [cfg |-> n.cfg, obj |-> n.obj] /\ \A k \in Save!Kinds : n[k] \in OfKind(k)
              Files(f) == DOMAIN f = Save!Kinds /\ \A k \in Save!Kinds : f[k] \in File(k)
  <2>2. phase \in Phases /\ Now(now) /\ Files(files)
    BY Zenon, <1>2, <2>1 DEF STypes
  <2>. SUFFICES phase' \in Phases /\ Now(now') /\ Files(files')
    BY Zenon DEF STypes
  <2>3. CASE UNCHANGED saveVars \/ Save!NextDay \/ Save!csv_save_file
    BY Zenon, <2>2, <2>3 DEF saveVars, Save!NextDay, Save!csv_save_file
  <2>4. ASSUME NEW k \in Save!Kinds, NEW f \in File(k), files' = [files EXCEPT ![k] = f]
        PROVE  Files(files')
    <3>. HIDE DEF File
    <3>. QED  BY <2>2, <2>4
  <2>5. CASE Save!Start
    <3>1. \A k \in Save!Kinds : Save!load(k) \in OfKind(k)
      BY Zenon, <2>2, LoadedIsOfKind
    <3>2. now' = [k \in Save!Kinds |-> Save!load(k)] /\ phase' = "up" /\ files' = files
      BY Zenon, <2>5 DEF Save!Start
    <3>. HIDE DEF File
    <3>3. Now(now')
      BY <3>1, <3>2 DEF Save!Kinds
    <3>4. phase' \in Phases
      BY <3>2
    <3>. QED  BY Zenon, <2>2, <3>2, <3>3, <3>4
  <2>6. CASE Save!Change
    <3>1. phase' = phase /\ files' = files
      BY Zenon, <2>6 DEF Save!Change
    <3>2. (\E s \in Settings : now' = [now EXCEPT !.cfg = s])
          \/ (\E v \in Values : now' = [now EXCEPT !.obj = v])
      BY Zenon, <2>6 DEF Save!Change
    <3>3. Now(now')
      BY <2>2, <3>2 DEF Save!Kinds, OfKind
    <3>. QED  BY Zenon, <2>2, <3>1, <3>3
  <2>7. CASE Save!Killed
    BY <2>2, <2>7 DEF Save!Killed
  <2>8. ASSUME NEW k \in Save!Kinds, Save!Opens(k)
        PROVE  phase' \in Phases /\ Now(now') /\ Files(files')
    <3>1. phase' = k /\ now' = now /\ files' = [files EXCEPT ![k] = Save!Broken]
      BY Zenon, <2>8 DEF Save!Opens, Save!Truncate
    <3>2. phase' \in Phases
      BY <3>1 DEF Save!Kinds
    <3>3. Save!Broken \in File(k)
      OBVIOUS
    <3>. QED  BY Zenon, <2>2, <2>4, <3>1, <3>2, <3>3
  <2>9. ASSUME NEW k \in Save!Kinds, Save!Writes(k)
        PROVE  phase' \in Phases /\ Now(now') /\ Files(files')
    <3>1. phase' = Save!Saving[k].then /\ now' = now
          /\ files' = [files EXCEPT ![k] = Save!Json(now[k])]
      BY Zenon, <2>9 DEF Save!Writes, Save!write_json_file
    <3>2. phase' \in Phases
      BY <3>1, SavingOrder DEF Save!Kinds
    <3>3. Save!Json(now[k]) \in File(k)
      BY Zenon, <2>2
    <3>. QED  BY Zenon, <2>2, <2>4, <3>1, <3>2, <3>3
  <2>. HIDE DEF Phases, Now, Files
  <2>. QED  BY Zenon, <2>1, <2>3, <2>5, <2>6, <2>7, <2>8, <2>9 DEF Save!Next
<1>. QED  BY Zenon, <1>1, <1>2 DEF STypes

\* What passes between a page and the node, of words of the node's size.
Word == 0 .. WordSize - 1
ARead == [addr : Nat, len : Nat]
AWrite == [addr : Nat, words : Seq(Word)]
AnAnswer == [written : BOOLEAN, addr : Nat, words : Seq(Word)]
ALine == [reads : Seq(ARead), writes : Seq(AWrite), answers : Seq(AnAnswer)]
RowTexts == {"", "reading", "read", "writing", "written"}

Tabled(tb) ==
  tb \in [read_timer : BOOLEAN, write_timer : BOOLEAN,
          read_index : 0 .. Len(Page!ins_list), write_index : 0 .. Len(Page!ins_list)]
Paged(pg) ==
  pg \in [timer : BOOLEAN, index : 0 .. Page!Count, auto : BOOLEAN, enabled : BOOLEAN]
Rowed(sh) ==
  /\ DOMAIN sh = Objs
  /\ \A a \in Objs :
       /\ sh[a] = [value |-> sh[a].value, text |-> sh[a].text, sent |-> sh[a].sent]
       /\ sh[a].value \in Page!Limits(Page!obj_map[a].type)
       /\ sh[a].text \in RowTexts
Noded(nd) == DOMAIN nd = Registered /\ \A r \in Registered : nd[r] \in Word

\* Of the page: its numbers keep to their types because the words of answers and
\* of writes under way are words.
TInv ==
  part = "page" =>
    Tabled(table) /\ Paged(page) /\ line \in ALine /\ Rowed(shown) /\ Noded(node)

\* A register has bits, so that it can be 0.
LEMMA WordsAreThere == WordSize \in Nat /\ WordSize >= 2 /\ 0 \in Word
BY PageAssumption DEF Word

\* A number that is read is one of its type.
LEMMA SignedFits ==
  ASSUME NEW total \in Nat, NEW half \in Nat, total = 2 * half, NEW raw \in 0 .. total - 1
  PROVE  Page!Signed(raw, total) \in - (total \div 2) .. total \div 2 - 1
<1>1. total \div 2 = half
  OBVIOUS
<1>2. Page!Signed(raw, total) \in - half .. half - 1
  BY DEF Page!Signed
<1>. QED  BY <1>1, <1>2

\* Two words make a number of twice the total.
LEMMA TwoWordsFit ==
  ASSUME NEW W \in Nat \ {0}, NEW lo \in 0 .. W - 1, NEW hi \in 0 .. W - 1
  PROVE  lo + W * hi \in 0 .. W * W - 1
<1>1. W * hi \in Nat /\ W * hi <= W * (W - 1)
  OBVIOUS
<1>2. W * (W - 1) = W * W - W /\ W * W \in Nat
  OBVIOUS
<1>. QED  BY <1>1, <1>2

\* So that what slot_read_finish makes of registers is in the object's limits.
LEMMA ReadFits ==
  ASSUME NEW a, NEW raw,
         raw \in IF Page!reg_len(a) = 1 THEN Word ELSE 0 .. WordSize * WordSize - 1
  PROVE  Page!slot_read_finish(a, raw) \in Page!Limits(Page!obj_map[a].type)
<1>. DEFINE t == Page!obj_map[a].type
            S == WordSize * WordSize
<1>1. PICK half \in Nat : WordSize = 2 * half /\ half > 0
  <2>1. WordSize = 2 * (WordSize \div 2) /\ WordSize \div 2 \in Nat /\ WordSize \div 2 > 0
    BY PageAssumption
  <2>. QED  BY <2>1
<1>2. S \in Nat /\ S = 2 * (half * WordSize) /\ half * WordSize \in Nat
  BY <1>1
<1>3. CASE t \in {"uint32_t", "int32_t"}
  <2>1. Page!reg_num(t) = 2 /\ Page!reg_len(a) = 2
    BY <1>3 DEF Page!reg_len, Page!reg_num
  <2>2. raw \in 0 .. S - 1
    BY <2>1
  <2>. HIDE DEF S
  <2>3. CASE t = "int32_t"
    <3>1. Page!Signed(raw, S) \in - (S \div 2) .. S \div 2 - 1
      BY <1>2, <2>2, SignedFits
    <3>2. Page!slot_read_finish(a, raw) = Page!Signed(raw, S)
      BY <2>3 DEF Page!slot_read_finish, S
    <3>3. Page!Limits(t) = - (S \div 2) .. S \div 2 - 1
      BY <2>1, <2>3 DEF Page!Limits, S
    <3>. QED  BY Zenon, <3>1, <3>2, <3>3
  <2>4. CASE t = "uint32_t"
    <3>1. Page!slot_read_finish(a, raw) = raw
      BY <2>4 DEF Page!slot_read_finish
    <3>2. Page!Limits(t) = 0 .. S - 1
      BY <2>1, <2>4 DEF Page!Limits, S
    <3>. QED  BY Zenon, <2>2, <3>1, <3>2
  <2>. QED  BY <1>3, <2>3, <2>4
<1>4. CASE t \notin {"uint32_t", "int32_t"}
  <2>1. Page!reg_num(t) = 1 /\ Page!reg_len(a) = 1
    BY <1>4 DEF Page!reg_len, Page!reg_num
  <2>2. raw \in 0 .. WordSize - 1 /\ raw % WordSize = raw
    BY <1>1, <2>1 DEF Word
  <2>3. CASE t = "int16_t"
    <3>1. Page!Signed(raw, WordSize) \in - (WordSize \div 2) .. WordSize \div 2 - 1
      BY <1>1, <2>2, SignedFits
    <3>2. Page!slot_read_finish(a, raw) = Page!Signed(raw, WordSize)
      BY <2>2, <2>3 DEF Page!slot_read_finish
    <3>3. Page!Limits(t) = - (WordSize \div 2) .. WordSize \div 2 - 1
      BY <2>1, <2>3 DEF Page!Limits
    <3>. QED  BY Zenon, <3>1, <3>2, <3>3
  <2>4. CASE t # "int16_t"
    <3>1. Page!slot_read_finish(a, raw) = raw
      BY <1>4, <2>2, <2>4 DEF Page!slot_read_finish
    <3>2. Page!Limits(t) = 0 .. WordSize - 1
      BY <1>4, <2>1, <2>4 DEF Page!Limits
    <3>. QED  BY Zenon, <2>2, <3>1, <3>2
  <2>. QED  BY <2>3, <2>4
<1>. QED  BY <1>3, <1>4

\* A value of 0 is one of every type.
LEMMA ZeroFits == \A t : 0 \in Page!Limits(t)
<1>1. WordSize \in Nat /\ WordSize >= 2 /\ WordSize * WordSize \in Nat /\ WordSize * WordSize >= 2
  BY WordsAreThere
<1>. SUFFICES ASSUME NEW t, NEW total \in Nat, total >= 2
              PROVE  0 \in - (total \div 2) .. total \div 2 - 1 /\ 0 \in 0 .. total - 1
  BY <1>1 DEF Page!Limits
<1>. QED  OBVIOUS

\* What an answer holds of an object, the registers beyond it counting as 0.
LEMMA RawFits ==
  ASSUME NEW answer \in AnAnswer, NEW a \in Nat
  PROVE  Page!Raw(answer, a) \in
           IF Page!reg_len(a) = 1 THEN Word ELSE 0 .. WordSize * WordSize - 1
<1>. DEFINE word(r) == IF r \in answer.addr .. answer.addr + Len(answer.words) - 1
                       THEN answer.words[r - answer.addr + 1] ELSE 0
<1>1. ASSUME NEW r \in Nat
      PROVE  word(r) \in Word
  <2>1. answer.words \in Seq(Word) /\ answer.addr \in Nat
    BY DEF AnAnswer
  <2>2. PICK ws, ad : ws = answer.words /\ ad = answer.addr
    OBVIOUS
  <2>3. PICK S : S = Word
    OBVIOUS
  <2>4. ws \in Seq(S) /\ ad \in Nat /\ 0 \in S
    BY <2>1, <2>2, <2>3, WordsAreThere
  <2>5. (IF r \in ad .. ad + Len(ws) - 1 THEN ws[r - ad + 1] ELSE 0) \in S
    BY <2>4
  <2>. QED  BY Zenon, <2>2, <2>3, <2>5
<1>2. Page!Raw(answer, a) = IF Page!reg_len(a) = 1 THEN word(a) ELSE word(a) + WordSize * word(a + 1)
  BY Zenon DEF Page!Raw
<1>3. word(a) \in Word /\ word(a + 1) \in Word
  BY <1>1
<1>. HIDE DEF word
<1>4. word(a) + WordSize * word(a + 1) \in 0 .. WordSize * WordSize - 1
  BY <1>3, PageAssumption, TwoWordsFit DEF Word
<1>. QED  BY Zenon, <1>2, <1>3, <1>4

\* What is sent to an object are words.
LEMMA WordsAreSent ==
  ASSUME NEW a, NEW v \in Int
  PROVE  Page!slot_request_write_reg(a, v) \in Seq(Word)
<1>1. \A x \in Int : x % WordSize \in Word
  BY WordsAreThere DEF Word
<1>2. v \div WordSize \in Int
  BY WordsAreThere
<1>3. PICK lo, hi : lo = v % WordSize /\ hi = (v \div WordSize) % WordSize
  OBVIOUS
<1>4. lo \in Word /\ hi \in Word
  BY Zenon, <1>1, <1>2, <1>3
<1>5. <<lo>> \in Seq(Word) /\ <<lo, hi>> \in Seq(Word)
  BY <1>4
<1>. QED  BY Zenon, <1>3, <1>5 DEF Page!slot_request_write_reg

\* What is entered for an object is a number.
LEMMA EnteredIsNumber ==
  ASSUME Laid, NEW a \in Ins
  PROVE  Entered[a] \in Int /\ a \in Objs /\ a \in Nat
<1>1. \A t : Page!Limits(t) \subseteq Int
  <2>1. WordSize \in Nat /\ WordSize * WordSize \in Nat
    BY WordsAreThere
  <2>. SUFFICES ASSUME NEW total \in Nat
                PROVE  - (total \div 2) .. total \div 2 - 1 \subseteq Int /\ 0 .. total - 1 \subseteq Int
    BY <2>1 DEF Page!Limits
  <2>. QED  OBVIOUS
<1>. QED  BY <1>1 DEF Laid

\* The requests of a time-out, in whatever order the page lists its objects.
LEMMA BurstIsTyped ==
  ASSUME Page!reg_info_list \in Seq(Nat)
  PROVE  Page!Requests \in Seq(ARead)
<1>. DEFINE L == Page!reg_info_list
            n == Page!Count
            next == [k \in 1 .. n |-> Page!ChunkEnd(k) + 1]
            item == [k \in 1 .. n |-> [addr |-> L[k], len |-> Page!reg_len_of(k)]]
            f == Page!RequestsFrom
            S == {k \in 1 .. n + 1 : f[k] \in Seq(ARead)}
<1>1. n \in Nat /\ \A k \in 1 .. n : L[k] \in Nat
  BY DEF Page!Count
<1>2. \A k \in 1 .. n : Page!ChunkEnd(k) \in k .. n
  BY Zenon, ChunkEndsSomewhere
<1>3. Loop(f, n, next, item)
  BY Zenon, RequestsAreMade
<1>4. ASSUME NEW k \in 1 .. n
      PROVE  item[k] \in ARead /\ next[k] \in k + 1 .. n + 1
  <2>1. PICK e \in k .. n : e = Page!ChunkEnd(k)
    BY Zenon, <1>2, <1>4
  <2>2. L[k] \in Nat /\ L[e] \in Nat /\ Chunk \in Nat
    <3>1. e \in 1 .. n
      BY <1>1
    <3>. QED  BY Zenon, <1>1, <3>1, PageAssumption
  <2>3. Page!reg_len(L[e]) \in Nat
    BY DEF Page!reg_len, Page!reg_num
  <2>4. Page!reg_len_of(k) = Page!Least(Page!Distance(L[e] + Page!reg_len(L[e]), L[k]), Chunk)
    BY Zenon, <2>1 DEF Page!reg_len_of
  <2>. HIDE DEF L
  <2>5. Page!reg_len_of(k) \in Nat
    BY <2>2, <2>3, <2>4 DEF Page!Least, Page!Distance
  <2>6. item[k] \in ARead
    BY <2>2, <2>5 DEF ARead
  <2>7. next[k] = e + 1
    BY <2>1
  <2>. HIDE DEF n
  <2>. QED  BY <1>1, <2>1, <2>6, <2>7
<1>. HIDE DEF L, n, f, next, item
<1>5. ASSUME NEW k \in 1 .. n + 1, \A j \in 1 .. n + 1 : k < j => j \in S
      PROVE  f[k] \in Seq(ARead)
  <2>1. CASE k > n
    <3>1. f[k] = <<>>
      BY Zenon, <1>3, <2>1 DEF Loop
    <3>. QED  BY <3>1
  <2>2. CASE ~ (k > n)
    <3>1. k \in 1 .. n
      BY <1>1, <2>2
    <3>2. PICK x, y : x = item[k] /\ y = f[next[k]]
      OBVIOUS
    <3>3. f[k] = <<x>> \o y
      BY Zenon, <1>3, <2>2, <3>2 DEF Loop
    <3>4. next[k] \in 1 .. n + 1 /\ k < next[k]
      BY <1>1, <1>4, <3>1
    <3>5. x \in ARead /\ y \in Seq(ARead)
      BY Zenon, <1>4, <1>5, <3>1, <3>2, <3>4
    <3>. QED  BY <3>3, <3>5
  <2>. QED  BY <2>1, <2>2
<1>. HIDE DEF S
<1>6. \A k \in 1 .. n + 1 : (\A j \in 1 .. n + 1 : k < j => j \in S) => k \in S
  BY Zenon, <1>5 DEF S
<1>7. n + 1 \in Nat /\ 1 \in 1 .. n + 1
  BY <1>1
<1>8. \A k \in 1 .. n + 1 : k \in S
  BY <1>6, <1>7, DownFromLast
<1>. QED  BY Zenon, <1>7, <1>8 DEF S, f, Page!Requests

\* Lines stay lines.
LEMMA LineFields ==
  ASSUME NEW ln \in ALine
  PROVE  /\ ln.reads \in Seq(ARead) /\ ln.writes \in Seq(AWrite) /\ ln.answers \in Seq(AnAnswer)
         /\ \A r \in Seq(ARead) : [ln EXCEPT !.reads = r] \in ALine
         /\ \A w \in Seq(AWrite) : [ln EXCEPT !.writes = w] \in ALine
         /\ \A s \in Seq(AnAnswer) : [ln EXCEPT !.answers = s] \in ALine
         /\ \A r \in Seq(ARead), s \in Seq(AnAnswer) :
              [ln EXCEPT !.reads = r, !.answers = s] \in ALine
         /\ \A w \in Seq(AWrite), s \in Seq(AnAnswer) :
              [ln EXCEPT !.writes = w, !.answers = s] \in ALine
<1>. DEFINE R == Seq(ARead)
            W == Seq(AWrite)
            S == Seq(AnAnswer)
<1>1. ln \in [reads : R, writes : W, answers : S]
  BY DEF ALine
<1>. HIDE DEF R, W, S
<1>. QED  BY <1>1 DEF ALine, R, W, S

\* Rows after one of them has changed.
LEMMA RowedAfter ==
  ASSUME NEW sh, Rowed(sh), NEW a, NEW text \in RowTexts, NEW v
  PROVE  Rowed([sh EXCEPT ![a].text = text]) /\ Rowed([sh EXCEPT ![a].text = text, ![a].sent = {v}])
<1>. DEFINE new == [sh EXCEPT ![a].text = text]
            newer == [sh EXCEPT ![a].text = text, ![a].sent = {v}]
<1>1. DOMAIN new = Objs /\ DOMAIN newer = Objs
  BY DEF Rowed
<1>2. ASSUME NEW b \in Objs, NEW t \in {new, newer}
      PROVE  /\ t[b] = [value |-> t[b].value, text |-> t[b].text, sent |-> t[b].sent]
             /\ t[b].value = sh[b].value /\ t[b].text \in RowTexts
  <2>1. sh[b] = [value |-> sh[b].value, text |-> sh[b].text, sent |-> sh[b].sent]
        /\ sh[b].text \in RowTexts
    BY DEF Rowed
  <2>2. CASE b # a
    <3>1. t[b] = sh[b]
      BY <2>2 DEF Rowed
    <3>. QED  BY <2>1, <3>1
  <2>3. CASE b = a
    <3>1. t[b] = [value |-> sh[b].value, text |-> text, sent |-> sh[b].sent]
          \/ t[b] = [value |-> sh[b].value, text |-> text, sent |-> {v}]
      BY <2>1, <2>3 DEF Rowed
    <3>. QED  BY <3>1
  <2>. QED  BY <2>2, <2>3
<1>. HIDE DEF new, newer
<1>3. \A t \in {new, newer} : Rowed(t)
  BY Zenon, <1>1, <1>2 DEF Rowed
<1>4. Rowed(new) /\ Rowed(newer)
  BY <1>3
<1>. QED  BY <1>4 DEF new, newer

\* A page just opened has asked for nothing, and shows 0 for everything.
LEMMA InitEstablishesTInv == PartsInit => TInv
<1>. SUFFICES ASSUME Page!Init
              PROVE  TInv
  BY DEF PartsInit, TInv
<1>1. PICK sections \in Pages : made = Page!Made(sections)
  BY DEF Page!Init
<1>2. Page!Count \in Nat /\ Len(Page!ins_list) \in Nat
  <2>1. PICK L, I : L = Page!reg_info_list /\ I = Page!ins_list
    OBVIOUS
  <2>2. L \in Seq(DOMAIN Page!ObjMap) /\ I \in Seq(Page!ToSet(L))
    BY Zenon, <1>1, <2>1, PageAssumption DEF Page!reg_info_list, Page!ins_list
  <2>3. Len(L) \in Nat /\ Len(I) \in Nat
    BY <2>2
  <2>. QED  BY Zenon, <2>1, <2>3 DEF Page!Count
<1>3. Tabled(table)
  <2>1. PICK S : S = 0 .. Len(Page!ins_list)
    OBVIOUS
  <2>2. 0 \in S
    BY <1>2, <2>1
  <2>3. table \in [read_timer : BOOLEAN, write_timer : BOOLEAN, read_index : S, write_index : S]
    BY <2>2 DEF Page!Init
  <2>. QED  BY Zenon, <2>1, <2>3 DEF Tabled
<1>4. Paged(page)
  <2>1. \E auto, changes \in BOOLEAN :
          page = [timer |-> Page!Opened(auto, changes), index |-> 0,
                  auto |-> Page!Opened(auto, changes), enabled |-> TRUE]
    BY Zenon DEF Page!Init
  <2>2. PICK opened \in BOOLEAN : page = [timer |-> opened, index |-> 0, auto |-> opened, enabled |-> TRUE]
    BY <2>1 DEF Page!Opened
  <2>. QED  BY <1>2, <2>2 DEF Paged
<1>5. line \in ALine
  <2>1. line = [reads |-> <<>>, writes |-> <<>>, answers |-> <<>>]
    BY DEF Page!Init
  <2>. QED  BY <2>1 DEF ALine
<1>6. Rowed(shown)
  <2>1. shown = [a \in Objs |-> [value |-> 0, text |-> "", sent |-> {}]]
    BY Zenon DEF Page!Init, Objs
  <2>. QED  BY <2>1, ZeroFits DEF Rowed, RowTexts
<1>7. Noded(node)
  <2>1. node = [r \in Registered |-> 0]
    BY Zenon DEF Page!Init, Objs, Registered
  <2>. QED  BY <2>1, WordsAreThere DEF Noded
<1>. QED  BY Zenon, <1>3, <1>4, <1>5, <1>6, <1>7 DEF TInv

\* A row is read, or written.
LEMMA RowKeepsTypes ==
  ASSUME Laid, NEW a \in Ins, line \in ALine, Rowed(shown),
         Page!ReadRow(a) \/ Page!WriteRow(a, Entered[a])
  PROVE  line' \in ALine /\ Rowed(shown')
<1>. DEFINE R == ARead
            W == AWrite
<1>2. line.reads \in Seq(R) /\ line.writes \in Seq(W)
  BY Zenon, LineFields
<1>1. a \in Nat /\ Page!reg_len(a) \in Nat /\ Entered[a] \in Int
  BY EnteredIsNumber DEF Page!reg_len, Page!reg_num
<1>3. CASE Page!ReadRow(a)
  <2>1. PICK q : q = [addr |-> a, len |-> Page!reg_len(a)]
    OBVIOUS
  <2>2. q \in ARead
    BY <1>1, <2>1 DEF ARead
  <2>3. Append(line.reads, q) \in Seq(ARead)
    <3>1. q \in R
      BY <2>2
    <3>. HIDE DEF R
    <3>2. Append(line.reads, q) \in Seq(R)
      BY <1>2, <3>1
    <3>. QED  BY Zenon, <3>2 DEF R
  <2>4. line' = [line EXCEPT !.reads = Append(line.reads, q)]
        /\ shown' = [shown EXCEPT ![a].text = "reading"]
    BY Zenon, <1>3, <2>1 DEF Page!ReadRow
  <2>5. "reading" \in RowTexts
    BY DEF RowTexts
  <2>. QED  BY Zenon, <2>3, <2>4, <2>5, LineFields, RowedAfter
<1>4. CASE Page!WriteRow(a, Entered[a])
  <2>1. PICK q : q = Order(a)
    OBVIOUS
  <2>2. q \in AWrite
    <3>1. PICK w : w = Page!slot_request_write_reg(a, Entered[a])
      OBVIOUS
    <3>2. w \in Seq(Word)
      BY Zenon, <1>1, <3>1, WordsAreSent
    <3>3. q = [addr |-> a, words |-> w]
      BY Zenon, <2>1, <3>1 DEF Order
    <3>. QED  BY <1>1, <3>2, <3>3 DEF AWrite
  <2>3. Append(line.writes, q) \in Seq(AWrite)
    <3>1. q \in W
      BY <2>2
    <3>. HIDE DEF W
    <3>2. Append(line.writes, q) \in Seq(W)
      BY <1>2, <3>1
    <3>. QED  BY Zenon, <3>2 DEF W
  <2>4. "writing" \in RowTexts
    BY DEF RowTexts
  <2>5. \/ /\ shown' = [shown EXCEPT ![a].text = "writing", ![a].sent = {Entered[a]}]
           /\ line' = [line EXCEPT !.writes = Append(line.writes, q)]
        \/ shown' = [shown EXCEPT ![a].text = "writing"] /\ line' = line
    BY Zenon, <1>4, <2>1 DEF Page!WriteRow, Order
  <2>6. line' \in ALine
    BY Zenon, <2>3, <2>5, LineFields
  <2>7. Rowed(shown')
    <3>1. PICK v, text, sh2 : v = Entered[a] /\ text = "writing" /\ sh2 = shown'
      OBVIOUS
    <3>2. /\ Rowed([shown EXCEPT ![a].text = text])
          /\ Rowed([shown EXCEPT ![a].text = text, ![a].sent = {v}])
      BY Zenon, <2>4, <3>1, RowedAfter
    <3>3. \/ sh2 = [shown EXCEPT ![a].text = text, ![a].sent = {v}]
          \/ sh2 = [shown EXCEPT ![a].text = text]
      BY Zenon, <2>5, <3>1
    <3>4. Rowed(sh2)
      BY Zenon, <3>2, <3>3
    <3>. QED  BY Zenon, <3>1, <3>4
  <2>. QED  BY <2>6, <2>7
<1>. QED  BY <1>3, <1>4

\* An answer comes in.
LEMMA ReceivedKeepsTypes ==
  ASSUME Laid, line \in ALine, Rowed(shown), Page!Received
  PROVE  line' \in ALine /\ Rowed(shown')
<1>1. PICK s : s = line.answers
  OBVIOUS
<1>2. s \in Seq(AnAnswer) /\ s # <<>>
  <2>1. line.answers \in Seq(AnAnswer)
    BY Zenon, LineFields
  <2>2. line.answers # <<>>
    BY Zenon DEF Page!Received
  <2>. QED  BY Zenon, <1>1, <2>1, <2>2
<1>3. PICK answer : answer = Head(s)
  OBVIOUS
<1>4. Tail(s) \in Seq(AnAnswer) /\ answer \in AnAnswer
  <2>1. PICK S : S = AnAnswer
    OBVIOUS
  <2>2. s \in Seq(S)
    BY <1>2, <2>1
  <2>3. Tail(s) \in Seq(S) /\ Head(s) \in S
    BY <1>2, <2>2
  <2>. QED  BY <1>3, <2>1, <2>3
<1>5. line' \in ALine
  BY Zenon, <1>1, <1>4, LineFields DEF Page!Received
<1>6. CASE answer.written
  <2>1. PICK text : text = IF answer.addr \in Page!ToSet(Page!ins_list) THEN "written" ELSE ""
    OBVIOUS
  <2>2. text \in RowTexts
    BY <2>1 DEF RowTexts
  <2>3. shown' = [shown EXCEPT ![answer.addr].text = text]
    BY Zenon, <1>1, <1>3, <1>6, <2>1 DEF Page!Received
  <2>. QED  BY Zenon, <1>5, <2>2, <2>3, RowedAfter
<1>7. CASE ~ answer.written
  <2>. DEFINE text(a) == IF a \in Page!ToSet(Page!ins_list) THEN "read" ELSE ""
              new(a) == [shown[a] EXCEPT !.value = Page!slot_read_finish(a, Page!Raw(answer, a)),
                                         !.text = text(a)]
              there(a) == a \in answer.addr .. answer.addr + Len(answer.words) - 1
  <2>1. shown' = [a \in DOMAIN shown |-> IF there(a) THEN new(a) ELSE shown[a]]
    BY Zenon, <1>1, <1>3, <1>7 DEF Page!Received
  <2>2. ASSUME NEW a \in Objs
        PROVE  /\ new(a) = [value |-> new(a).value, text |-> new(a).text, sent |-> new(a).sent]
               /\ new(a).value \in Page!Limits(Page!obj_map[a].type)
               /\ new(a).text \in RowTexts
    <3>1. a \in Nat /\ shown[a] = [value |-> shown[a].value, text |-> shown[a].text, sent |-> shown[a].sent]
      BY DEF Laid, Rowed
    <3>2. PICK v, t : v = Page!slot_read_finish(a, Page!Raw(answer, a)) /\ t = text(a)
      OBVIOUS
    <3>3. v \in Page!Limits(Page!obj_map[a].type)
      BY Zenon, <1>4, <3>1, <3>2, RawFits, ReadFits
    <3>4. t \in RowTexts
      BY <3>2 DEF RowTexts
    <3>5. new(a) = [shown[a] EXCEPT !.value = v, !.text = t]
      BY Zenon, <3>2
    <3>. HIDE DEF new
    <3>6. new(a) = [value |-> v, text |-> t, sent |-> shown[a].sent]
      BY <3>1, <3>5
    <3>. QED  BY <3>3, <3>4, <3>6
  <2>. HIDE DEF new, there
  <2>3. DOMAIN shown' = Objs
    BY <2>1 DEF Rowed
  <2>4. \A a \in Objs : shown'[a] = IF there(a) THEN new(a) ELSE shown[a]
    BY <2>1 DEF Rowed
  <2>5. PICK sh2 : sh2 = shown'
    OBVIOUS
  <2>6. \A a \in Objs : sh2[a] = new(a) \/ sh2[a] = shown[a]
    BY <2>4, <2>5
  <2>7. Rowed(sh2)
    BY Zenon, <2>2, <2>3, <2>5, <2>6 DEF Rowed
  <2>. QED  BY Zenon, <1>5, <2>5, <2>7
<1>. QED  BY <1>6, <1>7

\* The node answers.
LEMMA BusKeepsTypes ==
  ASSUME line \in ALine, Noded(node), Page!Bus
  PROVE  line' \in ALine /\ Noded(node')
<1>. DEFINE R == ARead
            W == AWrite
            S == AnAnswer
<1>1. line.reads \in Seq(R) /\ line.writes \in Seq(W) /\ line.answers \in Seq(S)
  BY Zenon, LineFields
<1>2. CASE Page!NodeReads
  <2>. DEFINE word(r) == IF r \in DOMAIN node THEN node[r] ELSE 0
  <2>1. PICK q : q = Head(line.reads)
    OBVIOUS
  <2>. DEFINE ws == [i \in 1 .. q.len |-> word(q.addr + i - 1)]
              e == [written |-> FALSE, addr |-> q.addr, words |-> ws]
  <2>2. line.reads # <<>> /\ node' = node
        /\ line' = [line EXCEPT !.reads = Tail(line.reads), !.answers = Append(line.answers, e)]
    BY Zenon, <1>2, <2>1 DEF Page!NodeReads
  <2>. HIDE DEF R, S
  <2>3. q \in R /\ Tail(line.reads) \in Seq(R)
    BY <1>1, <2>1, <2>2
  <2>4. \A r : word(r) \in Word
    BY WordsAreThere DEF Noded
  <2>5. q.len \in Nat /\ q.addr \in Nat
    BY <2>3 DEF R, ARead
  <2>. HIDE DEF word
  <2>6. ws \in Seq(Word)
    BY <2>4, <2>5
  <2>. HIDE DEF ws
  <2>7. e \in S
    BY <2>5, <2>6 DEF S, AnAnswer
  <2>. HIDE DEF e
  <2>8. Append(line.answers, e) \in Seq(S)
    BY <1>1, <2>7
  <2>. QED  BY Zenon, <2>2, <2>3, <2>8, LineFields DEF R, S
<1>3. CASE Page!NodeWrites
  <2>1. PICK q : q = Head(line.writes)
    OBVIOUS
  <2>. DEFINE e == [written |-> TRUE, addr |-> q.addr, words |-> <<>>]
              there(r) == r \in q.addr .. q.addr + Len(q.words) - 1
              new(r) == q.words[r - q.addr + 1]
  <2>2. line.writes # <<>>
        /\ line' = [line EXCEPT !.writes = Tail(line.writes), !.answers = Append(line.answers, e)]
        /\ node' = [r \in DOMAIN node |-> IF there(r) THEN new(r) ELSE node[r]]
    BY Zenon, <1>3, <2>1 DEF Page!NodeWrites
  <2>. HIDE DEF W, S
  <2>3. q \in W /\ Tail(line.writes) \in Seq(W)
    BY <1>1, <2>1, <2>2
  <2>4. q.addr \in Nat /\ q.words \in Seq(Word)
    BY <2>3 DEF W, AWrite
  <2>5. e \in S
    BY <2>4 DEF S, AnAnswer
  <2>6. \A r : there(r) => new(r) \in Word
    <3>1. PICK ws, ad, B : ws = q.words /\ ad = q.addr /\ B = Word
      OBVIOUS
    <3>2. ws \in Seq(B) /\ ad \in Nat
      BY <2>4, <3>1
    <3>3. \A r : r \in ad .. ad + Len(ws) - 1 => ws[r - ad + 1] \in B
      BY <3>2
    <3>. QED  BY Zenon, <3>1, <3>3
  <2>. HIDE DEF e, there, new
  <2>7. Append(line.answers, e) \in Seq(S)
    BY <1>1, <2>5
  <2>8. line' \in ALine
    BY Zenon, <2>2, <2>3, <2>7, LineFields DEF W, S
  <2>9. PICK nd2 : nd2 = node'
    OBVIOUS
  <2>10. Noded(nd2)
    BY <2>2, <2>6, <2>9 DEF Noded
  <2>. QED  BY Zenon, <2>8, <2>9, <2>10
<1>. QED  BY <1>2, <1>3 DEF Page!Bus

\* Each step of the page.
LEMMA StepKeepsTypes ==
  ASSUME Laid, Page!ins_list \in Seq(Ins), Page!Next,
         Tabled(table), Paged(page), line \in ALine, Rowed(shown), Noded(node)
  PROVE  Tabled(table') /\ Paged(page') /\ line' \in ALine /\ Rowed(shown') /\ Noded(node')
<1>. DEFINE Goal == Tabled(table') /\ Paged(page') /\ line' \in ALine /\ Rowed(shown') /\ Noded(node')
            n == Len(Page!ins_list)
<1>. SUFFICES Goal
  OBVIOUS
<1>1. Page!Count \in Nat /\ n \in Nat
  <2>1. PICK L, I, S : L = Page!reg_info_list /\ I = Page!ins_list /\ S = Ins
    OBVIOUS
  <2>2. L \in Seq(Nat) /\ I \in Seq(S)
    BY <2>1 DEF Laid
  <2>3. Len(L) \in Nat /\ Len(I) \in Nat
    BY <2>2
  <2>. QED  BY Zenon, <2>1, <2>3 DEF Page!Count
<1>2. /\ Tabled(table) /\ Paged(page) /\ line \in ALine /\ Rowed(shown) /\ Noded(node)
  OBVIOUS
<1>3. /\ Tabled([table EXCEPT !.read_timer = FALSE])
      /\ Tabled([table EXCEPT !.write_timer = FALSE])
      /\ Tabled([table EXCEPT !.read_timer = TRUE, !.read_index = 0])
      /\ Tabled([table EXCEPT !.write_timer = TRUE, !.write_index = 0])
      /\ table.read_index < n => Tabled([table EXCEPT !.read_index = @ + 1])
      /\ table.write_index < n => Tabled([table EXCEPT !.write_index = @ + 1])
      /\ table.read_index \in Nat /\ table.write_index \in Nat
  <2>1. PICK m \in Nat : m = n
    BY <1>1
  <2>2. table \in [read_timer : BOOLEAN, write_timer : BOOLEAN, read_index : 0 .. m, write_index : 0 .. m]
    BY Zenon, <1>2, <2>1 DEF Tabled
  <2>. DEFINE T == [read_timer : BOOLEAN, write_timer : BOOLEAN, read_index : 0 .. m, write_index : 0 .. m]
  <2>3. 0 \in 0 .. m /\ \A i \in 0 .. m : i \in Nat /\ (i < m => i + 1 \in 0 .. m)
    OBVIOUS
  <2>4. table.read_index \in 0 .. m /\ table.write_index \in 0 .. m
    BY <2>2
  <2>5. PICK I : I = 0 .. m
    OBVIOUS
  <2>6. \A x \in BOOLEAN, i \in I :
          /\ [table EXCEPT !.read_timer = x] \in T
          /\ [table EXCEPT !.write_timer = x] \in T
          /\ [table EXCEPT !.read_timer = x, !.read_index = i] \in T
          /\ [table EXCEPT !.write_timer = x, !.write_index = i] \in T
          /\ [table EXCEPT !.read_index = i] \in T
          /\ [table EXCEPT !.write_index = i] \in T
    BY <2>2, <2>5
  <2>7. \A tb : tb \in T => Tabled(tb)
    BY Zenon, <2>1 DEF Tabled
  <2>8. TRUE \in BOOLEAN /\ FALSE \in BOOLEAN
    OBVIOUS
  <2>. HIDE DEF T
  <2>. QED  BY Zenon, <2>1, <2>3, <2>4, <2>5, <2>6, <2>7, <2>8
<1>4. \A timer, b \in BOOLEAN, index \in 0 .. Page!Count :
        /\ Paged([page EXCEPT !.timer = timer, !.index = index])
        /\ Paged([page EXCEPT !.auto = b, !.timer = timer, !.index = index])
        /\ Paged([page EXCEPT !.enabled = b])
  BY <1>2 DEF Paged
<1>5. page.index \in 0 .. Page!Count /\ 0 \in 0 .. Page!Count /\ Page!Count \in 0 .. Page!Count
      /\ page.auto \in BOOLEAN /\ page.enabled \in BOOLEAN
  BY <1>1, <1>2 DEF Paged
<1>6. \A k \in Nat : k < n => Page!ins_list[k + 1] \in Ins
  <2>1. PICK I, S : I = Page!ins_list /\ S = Ins
    OBVIOUS
  <2>2. I \in Seq(S)
    BY Zenon, <2>1
  <2>3. \A k \in Nat : k < Len(I) => I[k + 1] \in S
    BY <2>2
  <2>. QED  BY Zenon, <2>1, <2>3
<1>. HIDE DEF n
<1>7. ASSUME NEW timer \in BOOLEAN, NEW index \in 0 .. Page!Count,
             Page!slot_auto_read_timeout(timer, index)
      PROVE  Paged(page') /\ line' \in ALine
  <2>1. line' \in ALine
    <3>1. PICK t : t = Page!Requests
      OBVIOUS
    <3>2. t \in Seq(ARead) /\ line.reads \in Seq(ARead)
      BY Zenon, <1>2, <3>1, BurstIsTyped, LineFields DEF Laid
    <3>3. line.reads \o t \in Seq(ARead)
      BY <3>2
    <3>4. line' = line \/ line' = [line EXCEPT !.reads = line.reads \o t]
      BY Zenon, <1>7, <3>1, TimeoutAsks
    <3>. QED  BY Zenon, <1>2, <3>3, <3>4, LineFields
  <2>2. \E tm \in BOOLEAN, ix \in 0 .. Page!Count :
           page' = [page EXCEPT !.timer = tm, !.index = ix]
    <3>. DEFINE reads == ~(page.auto /\ ~page.enabled)
                ends == reads /\ (Page!Count = 0 \/ (index >= Page!Count /\ ~page.auto))
                burst == reads /\ ~ends
                tm == timer /\ ~ends
                ix == IF burst THEN Page!Count ELSE index
    <3>1. page' = [page EXCEPT !.timer = tm, !.index = ix]
      BY Zenon, <1>7 DEF Page!slot_auto_read_timeout
    <3>2. tm \in BOOLEAN
      OBVIOUS
    <3>3. ix \in 0 .. Page!Count
      BY <1>5
    <3>. HIDE DEF tm, ix
    <3>. QED  BY Zenon, <3>1, <3>2, <3>3
  <2>. QED  BY Zenon, <1>4, <2>1, <2>2
<1>8. CASE Page!AutoReadTimeout \/ Page!showEvent
  <2>1. /\ table' = table /\ shown' = shown /\ node' = node
        /\ \E index \in 0 .. Page!Count : Page!slot_auto_read_timeout(TRUE, index)
    BY Zenon, <1>5, <1>8 DEF Page!AutoReadTimeout, Page!showEvent
  <2>2. TRUE \in BOOLEAN
    OBVIOUS
  <2>. QED  BY Zenon, <1>2, <1>7, <2>1, <2>2
<1>9. CASE Page!hideEvent \/ Page!on_readAllBtn_clicked \/ Page!on_writeAllBtn_clicked
  BY Zenon, <1>2, <1>3, <1>9
     DEF Page!hideEvent, Page!on_readAllBtn_clicked, Page!on_writeAllBtn_clicked
<1>10. CASE \/ Page!on_checkBox_stateChanged \/ Page!on_updatePeriodSpinBox_valueChanged
            \/ Page!on_autoReadCheckBox_stateChanged
  <2>1. /\ table' = table /\ line' = line /\ shown' = shown /\ node' = node
    BY Zenon, <1>10 DEF Page!on_checkBox_stateChanged, Page!on_updatePeriodSpinBox_valueChanged,
                        Page!on_autoReadCheckBox_stateChanged
  <2>2. PICK off : off = ~ page.auto
    OBVIOUS
  <2>3. PICK on : on = ~ page.enabled
    OBVIOUS
  <2>4. off \in BOOLEAN /\ on \in BOOLEAN
    BY <2>2, <2>3
  <2>5. \/ page' = [page EXCEPT !.auto = off, !.timer = off, !.index = IF page.auto THEN @ ELSE 0]
        \/ page' = [page EXCEPT !.timer = page.auto, !.index = IF page.auto THEN 0 ELSE @]
        \/ page' = [page EXCEPT !.enabled = on]
    BY Zenon, <1>10, <2>2, <2>3
       DEF Page!on_checkBox_stateChanged, Page!on_updatePeriodSpinBox_valueChanged,
           Page!on_autoReadCheckBox_stateChanged
  <2>6. PICK i1, i2 : i1 = (IF page.auto THEN page.index ELSE 0) /\ i2 = (IF page.auto THEN 0 ELSE page.index)
    OBVIOUS
  <2>7. i1 \in 0 .. Page!Count /\ i2 \in 0 .. Page!Count
    BY <1>5, <2>6
  <2>8. \/ page' = [page EXCEPT !.auto = off, !.timer = off, !.index = i1]
        \/ page' = [page EXCEPT !.timer = page.auto, !.index = i2]
        \/ page' = [page EXCEPT !.enabled = on]
    BY Zenon, <2>5, <2>6
  <2>9. Paged(page')
    BY Zenon, <1>4, <1>5, <2>4, <2>7, <2>8
  <2>. QED  BY Zenon, <1>2, <2>1, <2>9
<1>11. CASE Page!RowClicked
  <2>1. PICK a \in Ins : Page!ReadRow(a) \/ Page!WriteRow(a, Entered[a])
    BY Zenon, <1>11 DEF Page!RowClicked, Ins
  <2>2. table' = table /\ page' = page /\ node' = node
    BY Zenon, <1>11 DEF Page!RowClicked
  <2>. QED  BY Zenon, <1>2, <2>1, <2>2, RowKeepsTypes
<1>12. CASE Page!slot_read_timeout
  <2>1. page' = page /\ node' = node
    BY Zenon, <1>12 DEF Page!slot_read_timeout
  <2>2. \/ /\ table.read_index < n
           /\ Page!ReadRow(Page!ins_list[table.read_index + 1])
           /\ table' = [table EXCEPT !.read_index = @ + 1]
        \/ table' = [table EXCEPT !.read_timer = FALSE] /\ shown' = shown /\ line' = line
    BY Zenon, <1>12 DEF Page!slot_read_timeout, n
  <2>. QED  BY Zenon, <1>2, <1>3, <1>6, <2>1, <2>2, RowKeepsTypes
<1>13. CASE Page!slot_write_timeout
  <2>1. page' = page /\ node' = node
    BY Zenon, <1>13 DEF Page!slot_write_timeout
  <2>2. \/ /\ table.write_index < n
           /\ LET a == Page!ins_list[table.write_index + 1] IN Page!WriteRow(a, Entered[a])
           /\ table' = [table EXCEPT !.write_index = @ + 1]
        \/ table' = [table EXCEPT !.write_timer = FALSE] /\ shown' = shown /\ line' = line
    BY Zenon, <1>13 DEF Page!slot_write_timeout, n
  <2>. QED  BY Zenon, <1>2, <1>3, <1>6, <2>1, <2>2, RowKeepsTypes
<1>14. CASE Page!Received
  <2>1. table' = table /\ page' = page /\ node' = node
    BY Zenon, <1>14 DEF Page!Received
  <2>. QED  BY Zenon, <1>2, <1>14, <2>1, ReceivedKeepsTypes
<1>15. CASE Page!Bus
  <2>1. table' = table /\ page' = page /\ shown' = shown
    BY Zenon, <1>15 DEF Page!Bus, Page!NodeReads, Page!NodeWrites
  <2>. QED  BY Zenon, <1>2, <1>15, <2>1, BusKeepsTypes
<1>16. CASE Page!Disturbance
  <2>1. table' = table /\ page' = page /\ shown' = shown /\ node' = node
    BY Zenon, <1>16 DEF Page!Disturbance
  <2>2. PICK R, W, S : R = ARead /\ W = AWrite /\ S = AnAnswer
    OBVIOUS
  <2>3. line.reads \in Seq(R) /\ line.writes \in Seq(W) /\ line.answers \in Seq(S)
    BY Zenon, <1>2, <2>2, LineFields
  <2>4. /\ line.reads # <<>> => Tail(line.reads) \in Seq(R)
        /\ line.writes # <<>> => Tail(line.writes) \in Seq(W)
        /\ line.answers # <<>> => Tail(line.answers) \in Seq(S)
    BY <2>3
  <2>5. ASSUME Len(line.answers) > 1
        PROVE  <<line.answers[2], line.answers[1]>> \o SubSeq(line.answers, 3, Len(line.answers)) \in Seq(S)
    <3>1. PICK s : s = line.answers
      OBVIOUS
    <3>2. s \in Seq(S) /\ Len(s) > 1 /\ Len(s) \in Nat
      BY <2>3, <2>5, <3>1
    <3>3. <<s[2], s[1]>> \in Seq(S)
      BY <3>2
    <3>4. SubSeq(s, 3, Len(s)) \in Seq(S)
      BY <3>2
    <3>5. <<s[2], s[1]>> \o SubSeq(s, 3, Len(s)) \in Seq(S)
      BY <3>3, <3>4
    <3>. QED  BY Zenon, <3>1, <3>5
  <2>6. line' \in ALine
    BY Zenon, <1>2, <1>16, <2>2, <2>4, <2>5, LineFields DEF Page!Disturbance
  <2>. QED  BY Zenon, <1>2, <2>1, <2>6
<1>. HIDE DEF Goal
<1>. QED  BY Zenon, <1>8, <1>9, <1>10, <1>11, <1>12, <1>13, <1>14, <1>15, <1>16 DEF Page!Next

\* And each step keeps the types, the page being the same.
LEMMA StepPreservesTInv == VInv /\ TInv /\ [PartsNext]_vars => TInv'
<1>. SUFFICES ASSUME VInv, TInv, [PartsNext]_vars, part' = "page"
              PROVE  TInv'
  BY DEF TInv
<1>1. part = "page" /\ (Page!Next \/ UNCHANGED pageVars)
  BY DEF PartsNext, vars
<1>2. /\ Laid /\ Page!ins_list \in Seq(Ins)
      /\ table \in [read_timer : BOOLEAN, write_timer : BOOLEAN, read_index : Nat, write_index : Nat]
      /\ used \in [clicks : Nat, faults : Nat]
      /\ Tabled(table) /\ Paged(page) /\ line \in ALine /\ Rowed(shown) /\ Noded(node)
  BY Zenon, <1>1 DEF VInv, TInv
<1>3. /\ made' = made
      /\ Tabled(table') /\ Paged(page') /\ line' \in ALine /\ Rowed(shown') /\ Noded(node')
  <2>1. CASE Page!Next
    BY Zenon, <1>2, <2>1, StepKeepsTypes, StepKeepsTrue
  <2>2. CASE UNCHANGED pageVars
    BY Zenon, <1>2, <2>2 DEF pageVars
  <2>. QED  BY <1>1, <2>1, <2>2
<1>4. PICK tb, pg, sh, nd : tb = table' /\ pg = page' /\ sh = shown' /\ nd = node'
  OBVIOUS
<1>5. Tabled(tb) /\ Paged(pg) /\ Rowed(sh) /\ Noded(nd)
  BY Zenon, <1>3, <1>4
<1>6. Page!obj_map' = Page!obj_map /\ Page!ins_list' = Page!ins_list
      /\ Page!reg_info_list' = Page!reg_info_list
  BY Zenon, <1>3 DEF Page!obj_map, Page!ins_list, Page!reg_info_list
<1>7. Tabled(tb)' /\ Paged(pg)'
  BY Zenon, <1>5, <1>6 DEF Tabled, Paged, Page!Count
<1>8. Rowed(sh)'
  BY Zenon, <1>5, <1>6 DEF Rowed, Objs
<1>9. Noded(nd)'
  <2>1. Objs' = Objs /\ \A a : Page!reg_len(a)' = Page!reg_len(a)
    BY Zenon, <1>6 DEF Objs, Page!reg_len
  <2>2. Registered' = Registered
    BY Zenon, <2>1 DEF Registered
  <2>. QED  BY Zenon, <1>5, <2>2 DEF Noded
<1>. QED  BY Zenon, <1>3, <1>4, <1>7, <1>8, <1>9 DEF TInv

\* A behaviour is one of one part.
APart == part \in {"queue", "reader", "update", "page", "codec", "save"}

\* What the parts' invariants say is more than the types that the runs look at.
LEMMA PartsTyped ==
  ASSUME APart, QInv, QTypes, RInv, UInv, VInv, TInv, STypes, part = "codec" => CodecInv
  PROVE  TypeOK
<1>1. CASE part = "queue"
  <2>1. flag = Says(queue, mCapacity)
    BY <1>1 DEF QInv
  <2>2. flag \in [Events -> BOOLEAN]
    <3>1. \A x, y \in BOOLEAN : [notEmpty |-> x, notFull |-> y] \in [Events -> BOOLEAN]
      BY DEF Events
    <3>2. (queue # <<>>) \in BOOLEAN /\ (Len(queue) < mCapacity) \in BOOLEAN
      OBVIOUS
    <3>. QED  BY Zenon, <2>1, <3>1, <3>2 DEF Says
  <2>3. QueueTypeOK
    BY Zenon, <1>1, <2>2 DEF QTypes, QueueTypeOK, ThreadState
  <2>. QED  BY <1>1, <2>3 DEF TypeOK
<1>2. CASE part = "reader"
  <2>1. eventPage \in APage /\ rows \in Seq(ARow)
    BY <1>2 DEF RInv, ReaderTypes
  <2>2. \A i \in DOMAIN rows : rows[i][1] \in Reader!Types /\ rows[i][2].index \in 1 .. LastEvent
    <3>1. PICK T, N, B : T = Reader!Types /\ N = 1 .. LastEvent /\ B = ARow
      OBVIOUS
    <3>2. \A i \in DOMAIN rows : rows[i] \in B
      BY <2>1, <3>1
    <3>3. \A r \in B : r[1] \in T /\ r[2].index \in N
      BY <3>1 DEF ARow
    <3>. QED  BY Zenon, <3>1, <3>2, <3>3
  <2>3. /\ eventPage.timer \in BOOLEAN
        /\ eventPage.read_index \in Nat /\ eventPage.timeout_cnt \in Nat
        /\ eventPage.read_type \in Reader!Types
    BY <2>1 DEF APage
  <2>4. Reader!TypeOK
    BY Zenon, <2>2, <2>3 DEF Reader!TypeOK
  <2>. QED  BY <1>2, <2>4 DEF TypeOK
<1>3. CASE part = "update"
  <2>1. /\ m_timer \in BOOLEAN /\ first \in StartNums /\ Boxed(boxes)
        /\ master \in [process : Nat, objs : Seq(Entry)]
    BY <1>3 DEF UInv
  <2>2. \A i \in DOMAIN boxes : boxes[i] \in ABox
    BY <2>1 DEF Boxed
  <2>3. \A j \in DOMAIN master.objs : master.objs[j].addr \in Nat
    <3>1. PICK objs : objs = master.objs
      OBVIOUS
    <3>2. objs \in Seq(Entry)
      BY <2>1, <3>1
    <3>3. \A e \in Entry : e.addr \in Nat
      BY DEF Entry
    <3>4. PICK B : B = Entry
      OBVIOUS
    <3>5. \A j \in DOMAIN objs : objs[j] \in B
      BY <3>2, <3>4
    <3>. QED  BY Zenon, <3>1, <3>3, <3>4, <3>5
  <2>4. Update!TypeOK
    BY Zenon, <2>1, <2>2, <2>3 DEF Update!TypeOK, ABox
  <2>. QED  BY <1>3, <2>4 DEF TypeOK
<1>4. CASE part = "page"
  <2>1. /\ Laid /\ Tabled(table) /\ Paged(page) /\ Rowed(shown) /\ Noded(node)
    BY Zenon, <1>4 DEF VInv, TInv
  <2>2. table.read_index \in 0 .. Len(Page!ins_list) /\ table.write_index \in 0 .. Len(Page!ins_list)
    BY <2>1 DEF Tabled
  <2>3. \A a \in DOMAIN shown :
          /\ shown[a].value \in Page!Limits(Page!obj_map[a].type)
          /\ shown[a].text \in {"", "reading", "read", "writing", "written"}
    BY Zenon, <2>1 DEF Rowed, RowTexts
  <2>4. \A r \in DOMAIN node : node[r] \in 0 .. WordSize - 1
    BY Zenon, <2>1 DEF Noded, Word
  <2>5. Page!TypeOK
    BY Zenon, <2>1, <2>2, <2>3, <2>4 DEF Page!TypeOK, Laid, Ins, Paged
  <2>. QED  BY <1>4, <2>5 DEF TypeOK
<1>5. CASE part = "codec"
  <2>1. CopyInv /\ PcOK(msg, pc) /\ DataOK(msg, pc, data)
    BY Zenon, <1>5 DEF CodecInv, AllOK
  <2>2. /\ DOMAIN copy.dst = DOMAIN call.before
        /\ copy.src_off - call.src_offset = copy.dst_off - call.dst_offset
        /\ copy.src_off \in call.src_offset .. last_bit
    BY <2>1 DEF CopyInv, InRange, SoFar, last_bit
  <2>3. \A j \in DOMAIN data.encode_buff : data.encode_buff[j] \in {0, 1}
    BY <2>1 DEF DataOK
  <2>4. CodecTypeOK
    BY Zenon, <2>1, <2>2, <2>3 DEF CodecTypeOK, PcOK
  <2>. QED  BY <1>5, <2>4 DEF TypeOK
<1>6. CASE part = "save"
  <2>1. /\ phase \in {"off", "up", "cfg", "cfg saved", "obj"}
        /\ now = [cfg |-> now.cfg, obj |-> now.obj]
        /\ \A k \in Save!Kinds : now[k] \in OfKind(k)
        /\ \A k \in Save!Kinds :
             files[k] \in {Save!Absent, Save!Broken} \cup {Save!Json(v) : v \in OfKind(k)}
    BY Zenon, <1>6 DEF STypes
  <2>2. now.cfg \in OfKind("cfg") /\ now.obj \in OfKind("obj")
    BY <2>1 DEF Save!Kinds
  <2>3. \A k \in Save!Kinds : files[k].is \in {"absent", "broken", "json"}
    <3>1. Save!Absent.is = "absent" /\ Save!Broken.is = "broken" /\ \A v : Save!Json(v).is = "json"
      BY DEF Save!Absent, Save!Broken, Save!Json
    <3>2. \A k \in Save!Kinds : \/ files[k] = Save!Absent \/ files[k] = Save!Broken
                                 \/ \E v : files[k] = Save!Json(v)
      BY Zenon, <2>1
    <3>3. \A k \in Save!Kinds : files[k].is = "absent" \/ files[k].is = "broken" \/ files[k].is = "json"
      BY Zenon, <3>1, <3>2
    <3>. QED  BY <3>3
  <2>4. Save!TypeOK
    BY <2>1, <2>2, <2>3 DEF Save!TypeOK, OfKind
  <2>. QED  BY <1>6, <2>4 DEF TypeOK
<1>. QED  BY <1>1, <1>2, <1>3, <1>4, <1>5, <1>6 DEF APart

\* The types that the runs look at, of every part.
THEOREM PartsKeepTypes == PartsSpec => []TypeOK
<1>. DEFINE Decoding == part = "codec" => CodecInv
            Typing == APart /\ QInv /\ QTypes /\ RInv /\ UInv /\ VInv /\ TInv /\ STypes /\ Decoding
<1>1. PartsInit => APart
  BY DEF PartsInit, APart
<1>2. APart /\ [PartsNext]_vars => APart'
  BY DEF PartsNext, vars, APart
<1>3. PartsInit => Typing
  BY <1>1, InitEstablishesQInv, QueueTypes, InitEstablishesRInv, InitEstablishesUInv,
     InitEstablishesVInv, InitEstablishesTInv, SaveTypes, CodecPartKeepsInv
<1>4. Typing /\ [PartsNext]_vars => Typing'
  BY <1>2, StepPreservesQInv, QueueTypes, StepPreservesRInv, StepPreservesUInv,
     StepPreservesVInv, StepPreservesTInv, SaveTypes, CodecPartKeepsInv
<1>5. Typing => TypeOK
  BY Zenon, PartsTyped
<1>. HIDE DEF Typing
<1>. QED  BY <1>3, <1>4, <1>5, PTL DEF PartsSpec
=============================================================================
