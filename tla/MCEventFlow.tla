---------------------------- MODULE MCEventFlow -----------------------------
(***************************************************************************)
(* An instance of the event bus for TLC: two events of one partition, the  *)
(* second of which the handler refuses or the consumer cannot read.        *)
(***************************************************************************)
EXTENDS EventFlow

CONSTANTS a, b, k

MCKeyOf == [e \in {a, b} |-> k]
MCNatures == {[e \in {a, b} |-> IF e = a THEN "fine" ELSE n] : n \in {"poison", "garbled"}}
=============================================================================
