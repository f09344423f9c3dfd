--------------------------- MODULE MCTransferSaga ---------------------------
(***************************************************************************)
(* Instances of the transfer saga for TLC.                                 *)
(***************************************************************************)
EXTENDS TransferSaga, TLC

SagaSymmetry == Permutations(Drivers) \cup Permutations(Xfers)
=============================================================================
