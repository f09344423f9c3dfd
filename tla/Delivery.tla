------------------------------ MODULE Delivery ------------------------------
(***************************************************************************)
(* What the event bus promises to a consumer group (ADR-0009): an event    *)
(* that a business transaction committed is applied at most once, and in   *)
(* the end it is applied or given up on.  EventFlow implements it with the *)
(* outbox, the relay and the consumer runtime.                             *)
(***************************************************************************)
EXTENDS Naturals

CONSTANT Events

VARIABLES
  published,  \* events whose business transaction committed
  applied,    \* how often the handler's effect of each event took place
  abandoned   \* events the group has given up on

dvars == <<published, applied, abandoned>>

DInit ==
  /\ published = {}
  /\ applied = [e \in Events |-> 0]
  /\ abandoned = {}

Publish(e) ==
  /\ published' = published \cup {e}
  /\ UNCHANGED <<applied, abandoned>>

Apply(e) ==
  /\ e \in published
  /\ applied[e] = 0
  /\ applied' = [applied EXCEPT ![e] = 1]
  /\ UNCHANGED <<published, abandoned>>

Abandon(e) ==
  /\ e \in published
  /\ abandoned' = abandoned \cup {e}
  /\ UNCHANGED <<published, applied>>

DNext == \E e \in Events : Publish(e) \/ Apply(e) \/ Abandon(e)

DSpec == DInit /\ [][DNext]_dvars
=============================================================================
