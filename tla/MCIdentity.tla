----------------------------- MODULE MCIdentity -----------------------------
(***************************************************************************)
(* Instances of the identity service for TLC.                              *)
(***************************************************************************)
EXTENDS Identity, TLC

MCSeeded == [u \in {} |-> {}]
MCKids == <<"k1">>
Symmetry == Permutations(Callers)
=============================================================================
