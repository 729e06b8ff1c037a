-------------------------- MODULE UpdateNodes_proofs --------------------------
(* What the operations on the node list return, for any list. *)
EXTENDS UpdateNodes, TLAPS

\* set_update_node_process moves at most the entry of `src`, adds none, and
\* leaves a well-formed list.
LEMMA SetProcessLemma ==
  ASSUME NEW Addr, NEW list, IsNodeList(list, Addr), NEW src, NEW pos \in Positions
  PROVE  LET new == set_update_node_process(list, src, pos)
         IN  /\ IsNodeList(new, Addr)
             /\ DOMAIN new = DOMAIN list
             /\ \A a \in DOMAIN list : new[a] = IF a = src THEN pos ELSE list[a]
BY DEF set_update_node_process, IsNodeList

\* remove_update_node_diff keeps exactly the entries that are at `pos`.
LEMMA RemoveDiffLemma ==
  ASSUME NEW Addr, NEW list, IsNodeList(list, Addr), NEW pos
  PROVE  LET left == remove_update_node_diff(list, pos)
         IN  /\ IsNodeList(left, Addr)
             /\ DOMAIN left = {a \in DOMAIN list : list[a] = pos}
             /\ \A a \in DOMAIN left : left[a] = pos /\ left[a] = list[a]
BY DEF remove_update_node_diff, IsNodeList, Restrict

\* remove_update_node takes out one address and changes no other entry.
LEMMA RemoveNodeLemma ==
  ASSUME NEW Addr, NEW list, IsNodeList(list, Addr), NEW addr
  PROVE  LET left == remove_update_node(list, addr)
         IN  /\ IsNodeList(left, Addr)
             /\ DOMAIN left = DOMAIN list \ {addr}
             /\ \A a \in DOMAIN left : left[a] = list[a]
BY DEF remove_update_node, IsNodeList, Restrict

\* A new list holds the given addresses, all at the start.
LEMMA NewListLemma ==
  ASSUME NEW Addr, NEW addrs \in SUBSET Addr
  PROVE  /\ IsNodeList(new_update_list(addrs), Addr)
         /\ DOMAIN new_update_list(addrs) = addrs
         /\ \A a \in addrs : new_update_list(addrs)[a] = At(0, 0)
BY DEF new_update_list, IsNodeList, At, Positions
=============================================================================
