------------------------- MODULE MCFileTransferMaster -------------------------
(* Bounded instances of FileTransferMaster for TLC. *)
EXTENDS FileTransferMaster, TLC

OneResend == [s \in WaitSteps |-> 1]
NoResend  == [s \in WaitSteps |-> 0]
Symmetry  == Permutations(Addr)
=============================================================================
