----------------------------- MODULE MCGateway ------------------------------
(***************************************************************************)
(* An instance of the gateway for TLC.                                     *)
(***************************************************************************)
EXTENDS Gateway

MCSeeded == [u \in {"ann"} |-> customerOnly]
MCKids == <<"k1", "k2">>
MCForged == {[user |-> "ann", roles |-> anyAuthed, kid |-> "none"]}
=============================================================================
