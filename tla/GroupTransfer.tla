---------------------------- MODULE GroupTransfer ----------------------------
(***************************************************************************)
(* What a group transfer promises, whatever its messages, timers and node  *)
(* list look like: a master takes a group of nodes through a sequence of   *)
(* requests, command, file information, block 0, block 1, ..., check, and  *)
(* goes on to the next one only with nodes that have acknowledged the      *)
(* current one.  The group only shrinks: nodes are dropped when the master *)
(* goes on without them, or leave when they fail the check.                *)
(***************************************************************************)
EXTENDS Naturals

CONSTANT Addr  \* the nodes a group is made of

VARIABLES
  phase,    \* the kind of request the master waits for, or "idle"
  block,    \* the block asked for in phase "block", 0 otherwise
  members,  \* the nodes that still take part
  acks      \* those of them that have acknowledged the current request

vars == <<phase, block, members, acks>>

Init == phase = "idle" /\ block = 0 /\ members = {} /\ acks = {}

\* A transfer may be started at any time: it takes the place of the last one.
Begin(addrs) ==
  /\ addrs # {}
  /\ phase' = "command"
  /\ block' = 0
  /\ members' = addrs
  /\ acks' = {}

Ack(a) ==
  /\ phase # "idle"
  /\ a \in members
  /\ acks' = acks \cup {a}
  /\ UNCHANGED <<phase, block, members>>

Reject(a) ==
  /\ phase = "check"
  /\ a \in members
  /\ members' = members \ {a}
  /\ acks' = acks \ {a}
  /\ UNCHANGED <<phase, block>>

\* The request that follows the current one; only the file tells how many
\* blocks there are.
Following ==
  \/ phase = "command" /\ phase' = "info" /\ block' = 0
  \/ phase = "info" /\ phase' \in {"block", "idle"} /\ block' = 0
  \/ phase = "block" /\ phase' = "block" /\ block' = block + 1
  \/ phase = "block" /\ phase' = "check" /\ block' = 0
  \/ phase = "check" /\ phase' = "idle" /\ block' = 0

\* Goes on with `left`: all of them have acknowledged the current request, the
\* last one perhaps in this very step.
Advance(left) ==
  /\ left \subseteq members
  /\ \E last \in members : left \subseteq acks \cup {last}
  /\ left # {} \/ phase = "check"
  /\ Following
  /\ members' = left
  /\ acks' = {}

Abort ==
  /\ phase # "idle"
  /\ phase' = "idle"
  /\ block' = 0
  /\ members' = {}
  /\ acks' = {}

Next ==
  \/ \E addrs \in SUBSET Addr : Begin(addrs)
  \/ \E a \in Addr : Ack(a) \/ Reject(a)
  \/ \E left \in SUBSET Addr : Advance(left)
  \/ Abort

Spec == Init /\ [][Next]_vars
=============================================================================
