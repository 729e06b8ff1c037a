---------------------------- MODULE MCBootMaster ----------------------------
(* Bounded instances of BootMaster for TLC. *)
EXTENDS BootMaster, TLC

CONSTANTS a1, a2

AllSelected == {{a1, a2}}
OneSelected == {{a1}}
Symmetry == Permutations({a1, a2})
=============================================================================
