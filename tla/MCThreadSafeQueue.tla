-------------------------- MODULE MCThreadSafeQueue --------------------------
(* Bounded instances of ThreadSafeQueue for TLC. *)
EXTENDS ThreadSafeQueue, TLC

\* Consumers of the same kind are interchangeable, and so are producers.
Symmetry == Permutations(Producers) \cup Permutations(Consumers)
=============================================================================
