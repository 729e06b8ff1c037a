----------------------------- MODULE UpdateNodes -----------------------------
(***************************************************************************)
(* The node list shared by the two update masters: the singly linked list  *)
(* `update_root` / `node_root` of boot_update/boot_update_node.cpp, one    *)
(* entry per slave that still takes part in the update, with the step and  *)
(* the file offset of the last reply the master has accepted from it.      *)
(*                                                                         *)
(* Nothing in the code depends on the order of the entries and an update   *)
(* is started with distinct addresses, so a list is a function whose       *)
(* domain is the set of the addresses it holds.                            *)
(***************************************************************************)
EXTENDS Integers, Functions

\* What an entry records of its slave (boot_update_list_t without its address).
At(step, offset) == [step |-> step, offset |-> offset]

Positions == [step : Nat, offset : Nat]

\* A list that a master can hold of slaves taken from Addr.
IsNodeList(list, Addr) ==
  /\ DOMAIN list \subseteq Addr
  /\ list \in [DOMAIN list -> Positions]

\* An empty list, as clr_update_root leaves it.
clr_update_root == [a \in {} |-> At(0, 0)]

\* clr_update_root followed by one add_update_node for every address of `addrs`.
new_update_list(addrs) == [a \in addrs |-> At(0, 0)]

\* Only a listed node can be moved: a reply from any other address is dropped.
set_update_node_process(list, src, pos) ==
  [a \in DOMAIN list |-> IF a = src THEN pos ELSE list[a]]

\* Mutant: one entry at the position is enough.
judge_some_node(list, pos) ==
  \E a \in DOMAIN list : list[a] = pos

\* TRUE of the empty list too.
judge_update_node_is_same(list, pos) ==
  \A a \in DOMAIN list : list[a] = pos

remove_update_node_diff(list, pos) ==
  Restrict(list, {a \in DOMAIN list : list[a] = pos})

update_node_is_exist(list, addr) == addr \in DOMAIN list

remove_update_node(list, addr) == Restrict(list, DOMAIN list \ {addr})
=============================================================================
